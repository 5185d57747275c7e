---------------------------- MODULE OutboxProofs ----------------------------
(***************************************************************************)
(* Proofs about Outbox for every set of records, bound and duration.  All  *)
(* of it follows from what one record may look like next to the claim that *)
(* was acknowledged for it: the inductive invariant is a conjunction over  *)
(* the records, and every action is a function on one record, or, in the   *)
(* sweeps of claim_outbox, the same function on every record.              *)
(***************************************************************************)
EXTENDS Outbox, TLAPS

\* What holds of a record r whose acknowledged claim is a, at time n.
Shape(r) ==
    /\ r.status = "sending" <=> r.lock # NoLock
    /\ r.gen = r.attempts /\ r.attempts <= r.maxAttempts

GivenUp(r, n) ==
    r.dead => /\ r.status = "failed" /\ r.lock = NoLock
              /\ r.attempts >= r.maxAttempts \/ r.expires <= n \/ r.nextAt >= r.expires

Acked(r, a) ==
    /\ r.status = "sent" <=> a # 0
    /\ r.status = "sent" => a = r.gen

Sound(r, a, n) ==
    r \in Record /\ a \in Nat /\ n \in Nat /\ Shape(r) /\ GivenUp(r, n) /\ Acked(r, a)

\* The inductive invariant.
IInv ==
    /\ DOMAIN box = Id /\ box = [i \in Id |-> box[i]]
    /\ DOMAIN acked = Id /\ acked = [i \in Id |-> acked[i]]
    /\ now \in Nat
    /\ \A i \in Id : Sound(box[i], acked[i], now)

-----------------------------------------------------------------------------
(* What the functions on one record preserve.                              *)

LEMMA AbsentSound ==
    ASSUME NEW n \in Nat
    PROVE  Sound(Absent, 0, n)
BY DEF Sound, Shape, GivenUp, Acked, Absent, Record, NoLock

LEMMA EnqueuedSound ==
    ASSUME NEW t \in Nat, NEW max \in Nat, NEW ttl \in Nat, NEW n \in Nat
    PROVE  Sound([Absent EXCEPT !.status = "pending", !.nextAt = t, !.created = t,
                                !.expires = t + ttl, !.maxAttempts = max], 0, n)
<1> DEFINE e == t + ttl
           r == [Absent EXCEPT !.status = "pending", !.nextAt = t, !.created = t,
                               !.expires = e, !.maxAttempts = max]
<1>1. e \in Nat
  OBVIOUS
<1> HIDE DEF e
<1>2. Absent \in Record
  BY DEF Absent, Record, NoLock
<1>3. r \in Record
  BY <1>1, <1>2 DEF Record
<1>4. r.status = "pending" /\ r.maxAttempts = max
  BY <1>2 DEF Record
<1>5. r.lock = Absent.lock /\ r.gen = Absent.gen /\ r.attempts = Absent.attempts
      /\ r.dead = Absent.dead
  BY <1>2 DEF Record
<1>6. Absent.lock = NoLock /\ Absent.gen = 0 /\ Absent.attempts = 0 /\ ~Absent.dead
  BY DEF Absent
<1> HIDE DEF r
<1>7. Sound(r, 0, n)
  BY <1>3, <1>4, <1>5, <1>6 DEF Sound, Shape, GivenUp, Acked
<1>8. QED
  BY <1>7 DEF r, e

\* Every column of a sound record has its type.
LEMMA FieldTypes ==
    ASSUME NEW r \in Record
    PROVE  /\ r.attempts \in Nat /\ r.gen \in Nat /\ r.lock \in Nat /\ r.nextAt \in Nat
           /\ r.expires \in Nat /\ r.maxAttempts \in Nat /\ r.dead \in BOOLEAN
BY DEF Record

\* Unlocking a record that is not over, and giving it up.
LEMMA UnlockedSound ==
    ASSUME NEW r, NEW a, NEW n, Sound(r, a, n), ~Over(r)
    PROVE  Sound(Unlocked(r, "pending"), a, n)
BY DEF Sound, Shape, GivenUp, Acked, Record, NoLock, Unlocked, Over

LEMMA DeadSound ==
    ASSUME NEW r, NEW a, NEW n, Sound(r, a, n), Waiting(r),
           r.attempts >= r.maxAttempts \/ r.expires <= n
    PROVE  Sound([Unlocked(r, "failed") EXCEPT !.dead = TRUE], a, n)
<1> DEFINE q == [Unlocked(r, "failed") EXCEPT !.dead = TRUE]
<1>1. q \in Record /\ q.status = "failed" /\ q.lock = NoLock /\ q.dead
      /\ q.gen = r.gen /\ q.attempts = r.attempts /\ q.maxAttempts = r.maxAttempts
      /\ q.expires = r.expires
  BY DEF Sound, Record, NoLock, Unlocked
<1>2. a = 0
  BY DEF Sound, Acked, Waiting
<1> HIDE DEF q
<1>3. Shape(q) /\ Acked(q, a)
  BY <1>1, <1>2 DEF Sound, Shape, Acked
<1>4. GivenUp(q, n)
  BY <1>1 DEF GivenUp
<1>5. QED
  BY <1>1, <1>3, <1>4 DEF Sound, q

\* A sweep leaves a record sound, and alone when it is over.
LEMMA ReapedSound ==
    ASSUME NEW r, NEW a, NEW n, Sound(r, a, n), NEW t \in Nat, t <= n
    PROVE  /\ Sound(Reaped(r, t), a, n)
           /\ Over(r) => Reaped(r, t) = r
           /\ Reaped(r, t).gen = r.gen
           /\ Reaped(r, t).status = "sending" => Reaped(r, t) = r
           /\ Reaped(r, t).status # "sending" => r.status # "sending" \/ r.lock <= n
<1>1. r \in Record /\ n \in Nat /\ (Over(r) => r.status # "sending")
  BY DEF Sound, Over, GivenUp
<1>2. CASE r.status = "sending" /\ r.lock <= t
  <2>1. Reaped(r, t) = Unlocked(r, "pending")
    BY <1>2 DEF Reaped
  <2>2. Unlocked(r, "pending").status = "pending" /\ Unlocked(r, "pending").gen = r.gen
    BY <1>1 DEF Unlocked, Record
  <2>3. r.lock <= n
    BY <1>1, <1>2, FieldTypes
  <2>4. QED
    BY <1>1, <1>2, <2>1, <2>2, <2>3, UnlockedSound
<1>3. CASE ~(r.status = "sending" /\ r.lock <= t)
  <2>1. Reaped(r, t) = r
    BY <1>3 DEF Reaped
  <2>2. QED
    BY <2>1
<1>4. QED
  BY <1>2, <1>3

LEMMA BuriedSound ==
    ASSUME NEW r, NEW a, NEW n, Sound(r, a, n), NEW t \in Nat, t <= n
    PROVE  /\ Sound(Buried(r, t), a, n)
           /\ Over(r) \/ r.status = "sending" => Buried(r, t) = r
           /\ Buried(r, t).gen = r.gen
           /\ Buried(r, t).status = "sending" <=> r.status = "sending"
<1>1. r \in Record /\ n \in Nat
  BY DEF Sound
<1>2. CASE Waiting(r) /\ Hopeless(r, t)
  <2>1. Buried(r, t) = [Unlocked(r, "failed") EXCEPT !.dead = TRUE]
    BY <1>2 DEF Buried
  <2>2. r.attempts >= r.maxAttempts \/ r.expires <= n
    BY <1>1, <1>2, FieldTypes DEF Hopeless
  <2>3. Sound(Buried(r, t), a, n)
    BY <1>2, <2>1, <2>2, DeadSound
  <2>4. Buried(r, t).status = "failed" /\ Buried(r, t).gen = r.gen
    BY <1>1, <2>1 DEF Unlocked, Record
  <2>5. ~Over(r) /\ r.status # "sending"
    BY <1>2 DEF Waiting, Over
  <2>6. QED
    BY <2>3, <2>4, <2>5
<1>3. CASE ~(Waiting(r) /\ Hopeless(r, t))
  <2>1. Buried(r, t) = r
    BY <1>3 DEF Buried
  <2>2. QED
    BY <2>1
<1>4. QED
  BY <1>2, <1>3

LEMMA SweptSound ==
    ASSUME NEW r, NEW a, NEW n, Sound(r, a, n), NEW t \in Nat, t <= n
    PROVE  /\ Sound(Swept(r, t), a, n)
           /\ Over(r) => Swept(r, t) = r
           /\ Swept(r, t).gen = r.gen
           /\ Swept(r, t).status = "sending" => Swept(r, t) = r
           /\ Swept(r, t).status # "sending" => r.status # "sending" \/ r.lock <= n
           /\ Over(r) => ~Claimable(r, t)
<1> DEFINE q == Reaped(r, t)
<1>1. Sound(q, a, n) /\ (Over(r) => q = r) /\ q.gen = r.gen
      /\ (q.status = "sending" => q = r)
      /\ (q.status # "sending" => r.status # "sending" \/ r.lock <= n)
  BY ReapedSound
<1>2. Swept(r, t) = Buried(q, t)
  BY DEF Swept
<1>3. Over(r) => ~Claimable(r, t)
  BY DEF Over, Claimable, Waiting
<1> HIDE DEF q
<1>4. Sound(Buried(q, t), a, n) /\ Buried(q, t).gen = q.gen
      /\ (Buried(q, t).status = "sending" <=> q.status = "sending")
      /\ (Over(q) \/ q.status = "sending" => Buried(q, t) = q)
  BY <1>1, BuriedSound
<1>5. QED
  BY <1>1, <1>2, <1>3, <1>4

LEMMA ClaimedSound ==
    ASSUME NEW r, NEW a, NEW n, Sound(r, a, n), NEW t \in Nat, NEW d \in Nat \ {0},
           Claimable(r, t)
    PROVE  Sound(Claimed(r, d, t), a, n)
<1> DEFINE k == r.attempts + 1
           e == t + d
           q == [r EXCEPT !.status = "sending", !.attempts = k, !.gen = r.gen + 1, !.lock = e]
<1>1. r \in Record /\ n \in Nat /\ a \in Nat /\ r.gen = r.attempts /\ ~r.dead
      /\ r.status \in {"pending", "failed"} /\ ~(r.attempts >= r.maxAttempts)
  BY DEF Sound, Shape, Claimable, Waiting, Hopeless
<1>2. k \in Nat /\ e \in Nat /\ e # 0 /\ r.gen + 1 = k /\ k <= r.maxAttempts
  BY <1>1, FieldTypes
<1>3. a = 0
  BY <1>1 DEF Sound, Acked
<1> HIDE DEF k, e
<1>4. q = [r EXCEPT !.status = "sending", !.attempts = k, !.gen = k, !.lock = e]
  BY <1>2
<1>5. Claimed(r, d, t) = q
  BY DEF Claimed, k, e
<1> HIDE DEF q
<1>6. q \in Record /\ q.status = "sending" /\ q.attempts = k /\ q.gen = k /\ q.lock = e
      /\ q.maxAttempts = r.maxAttempts /\ q.dead = r.dead
  BY <1>1, <1>2, <1>4 DEF Record
<1>7. Shape(q) /\ Acked(q, a)
  BY <1>2, <1>3, <1>6 DEF Shape, Acked, NoLock
<1>8. GivenUp(q, n)
  BY <1>1, <1>6 DEF GivenUp
<1>9. QED
  BY <1>1, <1>5, <1>6, <1>7, <1>8 DEF Sound

LEMMA SentSound ==
    ASSUME NEW r, NEW a, NEW n, Sound(r, a, n), NEW t \in Nat,
           r.status = "sending", r.gen # 0
    PROVE  Sound([Unlocked(r, "sent") EXCEPT !.nextAt = t], r.gen, n)
BY DEF Sound, Shape, GivenUp, Acked, Record, NoLock, Unlocked

LEMMA FailedSound ==
    ASSUME NEW r, NEW a, NEW n, Sound(r, a, n), NEW t \in Nat, r.status = "sending"
    PROVE  Sound([Unlocked(r, "failed") EXCEPT !.nextAt = t, !.dead = GiveUp(r, t)], a, n)
<1> DEFINE g == GiveUp(r, t)
<1>1. g \in BOOLEAN /\ (g => r.attempts >= r.maxAttempts \/ t >= r.expires)
  BY DEF GiveUp
<1> HIDE DEF g
<1> SUFFICES Sound([Unlocked(r, "failed") EXCEPT !.nextAt = t, !.dead = g], a, n)
  BY DEF g
<1>2. QED
  BY <1>1 DEF Sound, Shape, GivenUp, Acked, Record, NoLock, Unlocked

LEMMA LaterSound ==
    ASSUME NEW r, NEW a, NEW n, Sound(r, a, n)
    PROVE  Sound(r, a, n + 1)
BY DEF Sound, Shape, GivenUp, Acked, Record

-----------------------------------------------------------------------------
(* The invariant.                                                          *)

LEMMA InvImplies == IInv => TypeOK /\ ClaimShape /\ DeadLetterSound /\ AckByNewestClaim
<1> SUFFICES ASSUME IInv PROVE TypeOK /\ ClaimShape /\ DeadLetterSound /\ AckByNewestClaim
  OBVIOUS
<1>1. TypeOK
  BY DEF IInv, TypeOK, Sound
<1>2. ClaimShape
  BY DEF IInv, ClaimShape, Sound, Shape
<1>3. DeadLetterSound
  BY DEF IInv, DeadLetterSound, Sound, GivenUp
<1>4. AckByNewestClaim
  BY DEF IInv, AckByNewestClaim, Sound, Acked
<1>5. QED
  BY <1>1, <1>2, <1>3, <1>4

LEMMA InitSound == Init => IInv
BY AbsentSound DEF Init, IInv

LEMMA StampsBelow == ASSUME now \in Nat, NEW t \in Stamps PROVE t \in Nat /\ t <= now
BY DEF Stamps

\* One record changes, to a sound one.
LEMMA OneRecord ==
    ASSUME IInv, NEW i \in Id, NEW r, NEW a, Sound(r, a, now),
           box' = [box EXCEPT ![i] = r], acked' = [acked EXCEPT ![i] = a], now' = now
    PROVE  IInv'
<1>1. \A k \in Id : box'[k] = IF k = i THEN r ELSE box[k]
  BY DEF IInv
<1>2. \A k \in Id : acked'[k] = IF k = i THEN a ELSE acked[k]
  BY DEF IInv
<1>3. DOMAIN box' = Id /\ DOMAIN acked' = Id /\ now' \in Nat
  BY DEF IInv
<1>4. \A k \in Id : Sound(box'[k], acked'[k], now')
  BY <1>1, <1>2 DEF IInv
<1>5. QED
  BY <1>3, <1>4 DEF IInv

LEMMA EnqueueSound ==
    ASSUME IInv, NEW i \in Id, NEW max \in Attempts, NEW ttl \in Ttl, NEW t \in Stamps,
           Enqueue(i, max, ttl, t)
    PROVE  IInv'
<1> DEFINE r == [Absent EXCEPT !.status = "pending", !.nextAt = t, !.created = t,
                               !.expires = t + ttl, !.maxAttempts = max]
<1>1. Sound(r, 0, now)
  <2>1. now \in Nat /\ max \in Nat /\ ttl \in Nat
    BY OutboxAssumption DEF IInv
  <2>2. t \in Nat
    BY <2>1, StampsBelow
  <2>3. QED
    BY <2>1, <2>2, EnqueuedSound
<1>2. acked[i] = 0
  BY DEF IInv, Enqueue, Sound, Acked
<1>3. box' = [box EXCEPT ![i] = r] /\ acked' = acked /\ now' = now
  BY DEF Enqueue
<1> HIDE DEF r
<1>4. acked' = [acked EXCEPT ![i] = 0]
  BY <1>2, <1>3 DEF IInv
<1>5. QED
  BY <1>1, <1>3, <1>4, OneRecord

\* What a claim does to one record: swept, and claimed at most.
LEMMA ClaimRecord ==
    ASSUME IInv, NEW d \in Hold, NEW t \in Stamps, Claim(d, t), NEW i \in Id
    PROVE  \/ box'[i] = Swept(box[i], t)
           \/ /\ Claimable(Swept(box[i], t), t)
              /\ box'[i] = Claimed(Swept(box[i], t), d, t)
<1> DEFINE swept == [k \in Id |-> Swept(box[k], t)]
<1>1. swept[i] = Swept(box[i], t)
  OBVIOUS
<1>2. CASE box' = swept
  BY <1>1, <1>2
<1>3. CASE \E m \in Id : /\ Claimable(swept[m], t)
                         /\ box' = [swept EXCEPT ![m] = Claimed(swept[m], d, t)]
  <2>1. PICK m \in Id : /\ Claimable(swept[m], t)
                        /\ box' = [swept EXCEPT ![m] = Claimed(swept[m], d, t)]
    BY <1>3
  <2>2. box'[i] = IF i = m THEN Claimed(swept[m], d, t) ELSE swept[i]
    BY <2>1
  <2>3. QED
    BY <2>1, <2>2, <1>1
<1>4. box' = swept \/ \E m \in Id : /\ Claimable(swept[m], t)
                                    /\ box' = [swept EXCEPT ![m] = Claimed(swept[m], d, t)]
  BY DEF Claim
<1>5. QED
  BY <1>2, <1>3, <1>4

LEMMA ClaimShapeOfBox ==
    ASSUME NEW d \in Hold, NEW t \in Stamps, Claim(d, t)
    PROVE  /\ DOMAIN box' = Id /\ box' = [i \in Id |-> box'[i]]
           /\ acked' = acked /\ now' = now
BY DEF Claim

LEMMA ClaimSound ==
    ASSUME IInv, NEW d \in Hold, NEW t \in Stamps, Claim(d, t)
    PROVE  IInv'
<1>1. t \in Nat /\ t <= now /\ now \in Nat /\ d \in Nat \ {0}
  BY StampsBelow, OutboxAssumption DEF IInv
<1>2. ASSUME NEW i \in Id PROVE Sound(box'[i], acked[i], now)
  <2>1. Sound(box[i], acked[i], now)
    BY DEF IInv
  <2>2. Sound(Swept(box[i], t), acked[i], now)
    BY <1>1, <2>1, SweptSound
  <2>3. Claimable(Swept(box[i], t), t) =>
            Sound(Claimed(Swept(box[i], t), d, t), acked[i], now)
    BY <1>1, <2>2, ClaimedSound
  <2>4. QED
    BY <2>2, <2>3, ClaimRecord
<1>3. QED
  BY <1>2, ClaimShapeOfBox DEF IInv

LEMMA MarkSentSound ==
    ASSUME IInv, NEW i \in Id, NEW t \in Stamps, NEW g \in Given(i), MarkSent(i, g, t)
    PROVE  IInv'
<1>1. Sound(box[i], acked[i], now) /\ t \in Nat
  BY StampsBelow DEF IInv
<1>2. box[i].status = "sending" /\ box[i].gen = g /\ g # 0
  BY <1>1 DEF MarkSent, ClaimStands, Given, Sound, Record
<1> DEFINE r == [Unlocked(box[i], "sent") EXCEPT !.nextAt = t]
<1>3. Sound(r, g, now)
  BY <1>1, <1>2, SentSound
<1>4. box' = [box EXCEPT ![i] = r] /\ acked' = [acked EXCEPT ![i] = g] /\ now' = now
  BY DEF MarkSent
<1> HIDE DEF r
<1>5. QED
  BY <1>3, <1>4, OneRecord

LEMMA MarkFailedSound ==
    ASSUME IInv, NEW i \in Id, NEW t \in Stamps, NEW g \in Given(i), NEW delay \in Delay,
           MarkFailed(i, g, delay, t)
    PROVE  IInv'
<1>1. Sound(box[i], acked[i], now) /\ t \in Nat /\ delay \in Nat
  BY StampsBelow, OutboxAssumption DEF IInv
<1>2. box[i].status = "sending" /\ t + delay \in Nat
  BY <1>1 DEF MarkFailed, ClaimStands
<1> DEFINE r == [Unlocked(box[i], "failed") EXCEPT
                     !.nextAt = t + delay, !.dead = GiveUp(box[i], t + delay)]
<1>3. Sound(r, acked[i], now)
  BY <1>1, <1>2, FailedSound
<1>4. box' = [box EXCEPT ![i] = r] /\ acked' = acked /\ now' = now
  BY DEF MarkFailed
<1> HIDE DEF r
<1>5. acked' = [acked EXCEPT ![i] = acked[i]]
  BY <1>4 DEF IInv
<1>6. QED
  BY <1>3, <1>4, <1>5, OneRecord

LEMMA TickSound == ASSUME IInv, Tick PROVE IInv'
<1>1. box' = box /\ acked' = acked /\ now' = now + 1 /\ now \in Nat
  BY DEF Tick, IInv
<1>2. \A i \in Id : Sound(box[i], acked[i], now + 1)
  BY LaterSound DEF IInv
<1>3. QED
  BY <1>1, <1>2 DEF IInv

LEMMA StepSound == IInv /\ [Next]_vars => IInv'
<1> SUFFICES ASSUME IInv, [Next]_vars PROVE IInv'
  OBVIOUS
<1>1. CASE Produce
  BY <1>1, EnqueueSound DEF Produce
<1>2. CASE Poll
  BY <1>2, ClaimSound DEF Poll
<1>3. CASE Report
  BY <1>3, MarkSentSound, MarkFailedSound DEF Report
<1>4. CASE Tick
  BY <1>4, TickSound
<1>5. CASE UNCHANGED vars
  BY <1>5 DEF vars, IInv
<1>6. QED
  BY <1>1, <1>2, <1>3, <1>4, <1>5 DEF Next

\* The record-wise invariant holds in every reachable state.
THEOREM OutboxInvariance == Spec => []IInv
<1>1. Init => IInv
  BY InitSound
<1>2. IInv /\ [Next]_vars => IInv'
  BY StepSound
<1>3. QED
  BY <1>1, <1>2, PTL DEF Spec

\* Type correctness of the outbox table.
THEOREM OutboxTypeCorrect == Spec => []TypeOK
BY OutboxInvariance, InvImplies, PTL

\* However polls, reports and expiries interleave, a record is locked exactly
\* while it is sent, and claimed no more often than max_attempts.
THEOREM ClaimsCounted == Spec => []ClaimShape
BY OutboxInvariance, InvImplies, PTL

\* A dead letter always shows why it was given up.
THEOREM DeadLettersExplained == Spec => []DeadLetterSound
BY OutboxInvariance, InvImplies, PTL

\* The acknowledgement that counts comes from the newest claim.
THEOREM NewestClaimAcks == Spec => []AckByNewestClaim
BY OutboxInvariance, InvImplies, PTL

-----------------------------------------------------------------------------
(* What a step may never do.                                               *)

LEMMA OverStep == IInv /\ [Next]_vars => \A i \in Id : Over(box[i]) => box'[i] = box[i]
<1> SUFFICES ASSUME IInv, [Next]_vars, NEW i \in Id, Over(box[i])
             PROVE  box'[i] = box[i]
  OBVIOUS
<1>1. Sound(box[i], acked[i], now) /\ now \in Nat
  BY DEF IInv
<1>2. box[i].status \notin {"absent", "sending"}
  BY <1>1 DEF Sound, GivenUp, Over
<1>3. CASE Produce
  <2>1. PICK k \in Id, max \in Attempts, ttl \in Ttl, t \in Stamps : Enqueue(k, max, ttl, t)
    BY <1>3 DEF Produce
  <2>2. k # i
    BY <2>1, <1>2 DEF Enqueue
  <2>3. QED
    BY <2>1, <2>2 DEF Enqueue, IInv
<1>4. CASE Poll
  <2>1. PICK d \in Hold, t \in Stamps : Claim(d, t)
    BY <1>4 DEF Poll
  <2>2. t \in Nat /\ t <= now
    BY <1>1, StampsBelow
  <2>3. Swept(box[i], t) = box[i] /\ ~Claimable(box[i], t)
    BY <1>1, <2>2, SweptSound
  <2>4. QED
    BY <2>1, <2>3, ClaimRecord
<1>5. CASE Report
  <2>0. PICK k \in Id, t \in Stamps : \E g \in Given(k) :
            MarkSent(k, g, t) \/ \E delay \in Delay : MarkFailed(k, g, delay, t)
    BY <1>5 DEF Report
  <2>1. PICK g \in Given(k) :
            MarkSent(k, g, t) \/ \E delay \in Delay : MarkFailed(k, g, delay, t)
    BY <2>0
  <2>2. k # i
    BY <2>1, <1>2 DEF MarkSent, MarkFailed, ClaimStands
  <2>3. QED
    BY <2>1, <2>2 DEF MarkSent, MarkFailed, IInv
<1>6. CASE Tick \/ UNCHANGED vars
  BY <1>6 DEF Tick, vars
<1>7. QED
  BY <1>3, <1>4, <1>5, <1>6 DEF Next

\* A record that was sent or given up never changes again.
THEOREM OverFinal == Spec => OverIsFinal
<1>1. IInv /\ [Next]_vars => [\A i \in Id : Over(box[i]) => box'[i] = box[i]]_vars
  BY OverStep
<1>2. QED
  BY <1>1, OutboxInvariance, PTL DEF Spec, OverIsFinal

LEMMA ExclusiveStep ==
    IInv /\ [Next]_vars => \A i \in Id : box'[i].gen # box[i].gen =>
        box[i].status # "sending" \/ box[i].lock <= now
<1> SUFFICES ASSUME IInv, [Next]_vars, NEW i \in Id, box'[i].gen # box[i].gen
             PROVE  box[i].status # "sending" \/ box[i].lock <= now
  OBVIOUS
<1>1. Sound(box[i], acked[i], now) /\ now \in Nat
  BY DEF IInv
<1>2. CASE Produce
  <2>1. PICK k \in Id, max \in Attempts, ttl \in Ttl, t \in Stamps : Enqueue(k, max, ttl, t)
    BY <1>2 DEF Produce
  <2>2. k # i => box'[i] = box[i]
    BY <2>1 DEF Enqueue, IInv
  <2>3. QED
    BY <2>1, <2>2 DEF Enqueue
<1>3. CASE Poll
  <2>1. PICK d \in Hold, t \in Stamps : Claim(d, t)
    BY <1>3 DEF Poll
  <2>2. t \in Nat /\ t <= now
    BY <1>1, StampsBelow
  <2>3. Swept(box[i], t).gen = box[i].gen
    BY <1>1, <2>2, SweptSound
  <2>4. Claimable(Swept(box[i], t), t)
    BY <2>1, <2>3, ClaimRecord
  <2>5. Swept(box[i], t).status # "sending"
    BY <2>4 DEF Claimable, Waiting
  <2>6. QED
    BY <1>1, <2>2, <2>5, SweptSound
<1>4. CASE Report
  <2>0. PICK k \in Id, t \in Stamps : \E g \in Given(k) :
            MarkSent(k, g, t) \/ \E delay \in Delay : MarkFailed(k, g, delay, t)
    BY <1>4 DEF Report
  <2>1. PICK g \in Given(k) :
            MarkSent(k, g, t) \/ \E delay \in Delay : MarkFailed(k, g, delay, t)
    BY <2>0
  <2>2. k # i => box'[i] = box[i]
    BY <2>1 DEF MarkSent, MarkFailed, IInv
  <2>3. \A status : Unlocked(box[i], status).gen = box[i].gen
    BY <1>1 DEF Unlocked, Sound, Record
  <2>4. CASE k = i /\ MarkSent(k, g, t)
    <3> DEFINE r == [Unlocked(box[i], "sent") EXCEPT !.nextAt = t]
    <3>1. box'[i] = r
      BY <2>4 DEF MarkSent, IInv
    <3>2. r.gen = Unlocked(box[i], "sent").gen
      OBVIOUS
    <3>3. QED
      BY <3>1, <3>2, <2>3
  <2>5. CASE k = i /\ \E delay \in Delay : MarkFailed(k, g, delay, t)
    <3>1. PICK delay \in Delay : MarkFailed(k, g, delay, t)
      BY <2>5
    <3> DEFINE r == [Unlocked(box[i], "failed") EXCEPT
                         !.nextAt = t + delay, !.dead = GiveUp(box[i], t + delay)]
    <3>2. box'[i] = r
      BY <2>5, <3>1 DEF MarkFailed, IInv
    <3>3. r.gen = Unlocked(box[i], "failed").gen
      OBVIOUS
    <3>4. QED
      BY <3>2, <3>3, <2>3
  <2>6. QED
    BY <2>1, <2>2, <2>4, <2>5
<1>5. CASE Tick \/ UNCHANGED vars
  BY <1>5 DEF Tick, vars
<1>6. QED
  BY <1>2, <1>3, <1>4, <1>5 DEF Next

\* A claim is taken away only once its lock ran out: never two senders at once.
THEOREM ClaimsExclusive == Spec => ClaimExclusive
<1>1. IInv /\ [Next]_vars => [\A i \in Id : box'[i].gen # box[i].gen =>
          box[i].status # "sending" \/ box[i].lock <= now]_vars
  BY ExclusiveStep
<1>2. QED
  BY <1>1, OutboxInvariance, PTL DEF Spec, ClaimExclusive
=============================================================================
