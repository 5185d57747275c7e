------------------------------- MODULE Outbox -------------------------------
(***************************************************************************)
(* The delivery outbox of magi_v3/ledger.py: records are enqueued by a     *)
(* worker result or by hand, claimed by senders that poll, and acked or    *)
(* failed under the claim.  Delivery itself happens outside the ledger, so *)
(* what the table must get right is whose acknowledgement counts and when  *)
(* a record is given up.                                                   *)
(*                                                                         *)
(* Every claim has a fresh token, checked together with its owner and its  *)
(* generation, so a credential is the generation of the claim; a stale one *)
(* is an older generation.  As in JobLedger, t is the timestamp a          *)
(* transaction read at most MaxLag before it committed.                    *)
(***************************************************************************)
EXTENDS Naturals, FiniteSets

CONSTANTS
    Id,           \* outbox records (idempotency keys)
    Attempts,     \* max_attempts values records are enqueued with
    Ttl,          \* ttl_seconds values records are enqueued with
    Hold,         \* lock durations senders ask for
    Delay,        \* retry_after_seconds values senders give
    MaxLag,       \* bound: how long a transaction waits for the write lock
    MaxTime,      \* bound on the clock
    LastEnqueue   \* bound: no record is enqueued later

ASSUME OutboxAssumption ==
    /\ Attempts \subseteq Nat \ {0} /\ Ttl \subseteq Nat \ {0}
    /\ Hold \subseteq Nat \ {0} /\ Delay \subseteq Nat
    /\ MaxLag \in Nat /\ MaxTime \in Nat /\ LastEnqueue \in Nat

VARIABLES
    box,    \* the outbox table, status "absent" before the insert
    acked,  \* history: the claim generation whose "sent" was accepted, or 0
    now     \* wall clock, in abstract seconds

vars == <<box, acked, now>>

\* lock is lock_expires_at with the claim token and its owner; NoLock is NULL.
NoLock == 0
Record == [status : {"absent", "pending", "sending", "sent", "failed"},
           attempts : Nat, gen : Nat, lock : Nat, nextAt : Nat, created : Nat,
           expires : Nat, maxAttempts : Nat, dead : BOOLEAN]

Absent == [status |-> "absent", attempts |-> 0, gen |-> 0, lock |-> NoLock,
           nextAt |-> 0, created |-> 0, expires |-> 0, maxAttempts |-> 0,
           dead |-> FALSE]

Stamps == {t \in 0 .. now : now <= t + MaxLag}

TypeOK == box \in [Id -> Record] /\ acked \in [Id -> Nat] /\ now \in Nat

Init ==
    /\ box = [i \in Id |-> Absent]
    /\ acked = [i \in Id |-> 0]
    /\ now = 0

\* _insert_outbox_locked; a second insert of the same key is refused.
Enqueue(i, max, ttl, t) ==
    /\ now <= LastEnqueue
    /\ box[i].status = "absent"
    /\ box' = [box EXCEPT ![i] =
          [Absent EXCEPT !.status = "pending", !.nextAt = t, !.created = t,
                         !.expires = t + ttl, !.maxAttempts = max]]
    /\ UNCHANGED <<acked, now>>

-----------------------------------------------------------------------------
(* claim_outbox: two sweeping updates over the whole table, then one claim. *)

\* Mutant: a status outside the table's CHECK.
UnlockedRetrying(r, status) ==
    [r EXCEPT !.status = IF status = "failed" THEN "retrying" ELSE status, !.lock = NoLock]

Unlocked(r, status) == [r EXCEPT !.status = status, !.lock = NoLock]

\* Mutant: the sweep takes claims whose lock still runs.
ReapedEarly(r, t) == IF r.status = "sending" THEN Unlocked(r, "pending") ELSE r

\* Mutant: no sweep of expired claims.
ReapedNever(r, t) == r

\* A claim whose lock ran out is open again.
Reaped(r, t) ==
    IF r.status = "sending" /\ r.lock <= t THEN Unlocked(r, "pending") ELSE r

Waiting(r) == r.status \in {"pending", "failed"} /\ ~r.dead

\* A record out of time or attempts is given up.
Hopeless(r, t) == r.expires <= t \/ r.attempts >= r.maxAttempts

Buried(r, t) ==
    IF Waiting(r) /\ Hopeless(r, t)
    THEN [Unlocked(r, "failed") EXCEPT !.dead = TRUE]
    ELSE r

Swept(r, t) == Buried(Reaped(r, t), t)

Claimable(r, t) == Waiting(r) /\ ~Hopeless(r, t) /\ r.nextAt <= t

Claimed(r, d, t) ==
    [r EXCEPT !.status = "sending", !.attempts = r.attempts + 1,
              !.gen = r.gen + 1, !.lock = t + d]

Claim(d, t) ==
    LET swept == [i \in Id |-> Swept(box[i], t)]
        ready == {i \in Id : Claimable(swept[i], t)}
        oldest == {i \in ready : \A k \in ready : swept[i].created <= swept[k].created}
    IN  /\ \/ ready = {} /\ box' = swept
           \/ \E i \in oldest : box' = [swept EXCEPT ![i] = Claimed(swept[i], d, t)]
        /\ UNCHANGED <<acked, now>>

-----------------------------------------------------------------------------
(* _finish_outbox: only the claim that stands, before its lock and the     *)
(* delivery deadline run out.                                              *)

\* Mutant: the claim's token and generation are not compared.
ClaimStandsForAnyone(i, g, t) ==
    /\ box[i].status = "sending"
    /\ box[i].lock > t
    /\ box[i].expires > t

ClaimStands(i, g, t) ==
    /\ box[i].status = "sending"
    /\ box[i].gen = g
    /\ box[i].lock > t
    /\ box[i].expires > t

MarkSent(i, g, t) ==
    /\ ClaimStands(i, g, t)
    /\ box' = [box EXCEPT ![i] = [Unlocked(box[i], "sent") EXCEPT !.nextAt = t]]
    /\ acked' = [acked EXCEPT ![i] = g]
    /\ UNCHANGED now

\* Mutant: gives up one attempt early.
GiveUpEarly(r, retryAt) == r.attempts + 1 >= r.maxAttempts \/ retryAt >= r.expires

\* A failure that leaves no attempt, or no time for one, is final at once.
GiveUp(r, retryAt) == r.attempts >= r.maxAttempts \/ retryAt >= r.expires

MarkFailed(i, g, delay, t) ==
    /\ ClaimStands(i, g, t)
    /\ box' = [box EXCEPT ![i] =
          [Unlocked(box[i], "failed") EXCEPT
               !.nextAt = t + delay, !.dead = GiveUp(box[i], t + delay)]]
    /\ UNCHANGED <<acked, now>>

Tick == now < MaxTime /\ now' = now + 1 /\ UNCHANGED <<box, acked>>

-----------------------------------------------------------------------------
\* A sender acts with any claim it was ever given.
Given(i) == 1 .. box[i].gen

Produce == \E i \in Id, max \in Attempts, ttl \in Ttl, t \in Stamps : Enqueue(i, max, ttl, t)

Poll == \E d \in Hold, t \in Stamps : Claim(d, t)

Report ==
    \E i \in Id, t \in Stamps : \E g \in Given(i) :
        \/ MarkSent(i, g, t)
        \/ \E delay \in Delay : MarkFailed(i, g, delay, t)

Next == Produce \/ Poll \/ Report \/ Tick

Spec == Init /\ [][Next]_vars

\* Some sender keeps polling and time passes; no sender need ever report.
FairSpec == Spec /\ WF_vars(Poll) /\ WF_vars(Tick)

-----------------------------------------------------------------------------
(* Properties.                                                             *)

\* A record is locked exactly while it is being sent, it was claimed as often
\* as it was attempted, and never more often than it may be: the sweeps never
\* leave a lock, or give an attempt, that the columns do not show.
ClaimShape ==
    \A i \in Id : LET r == box[i] IN
        /\ r.status = "sending" <=> r.lock # NoLock
        /\ r.gen = r.attempts /\ r.attempts <= r.maxAttempts

\* A record is given up only for a reason the columns still show, and it is
\* failed and unlocked then, so no claim of it can be reported any more.
DeadLetterSound ==
    \A i \in Id : LET r == box[i] IN
        r.dead => /\ r.status = "failed" /\ r.lock = NoLock
                  /\ r.attempts >= r.maxAttempts \/ r.expires <= now \/ r.nextAt >= r.expires

\* The acknowledgement that counted came from the newest claim: a sender whose
\* lock ran out cannot acknowledge over the sender that took the record after it.
AckByNewestClaim ==
    \A i \in Id :
        /\ box[i].status = "sent" <=> acked[i] # 0
        /\ box[i].status = "sent" => acked[i] = box[i].gen

Over(r) == r.status = "sent" \/ r.dead

\* A record that was sent or given up is left alone, by every sweep and by
\* every late report.
OverIsFinal ==
    [][\A i \in Id : Over(box[i]) => box'[i] = box[i]]_vars

\* A claim in progress is taken away only once its lock has run out: two
\* senders never hold one record at the same time.
ClaimExclusive ==
    [][\A i \in Id : box'[i].gen # box[i].gen =>
          box[i].status # "sending" \/ box[i].lock <= now]_vars

\* No record is forgotten, whatever senders do or fail to do: it is sent or
\* given up as long as someone polls.
EventuallyOver ==
    \A i \in Id : box[i].status = "pending" ~> Over(box[i])
=============================================================================
