------------------------ MODULE DriveCheckpointProofs ------------------------
(***************************************************************************)
(* Theorems about DriveCheckpoint, for all cases, files, versions and       *)
(* bounds, and for journals of any length.                                  *)
(***************************************************************************)
EXTENDS DriveCheckpoint, FiniteSetTheorems, SequenceTheorems, TLAPS

(***************************************************************************)
(* Induction.  Stated with sets, so that a step cites it for the set of the *)
(* numbers its claim holds for.                                             *)
(***************************************************************************)

LEMMA LeastNumber ==
  ASSUME NEW T, T \subseteq Nat, T # {}
  PROVE  \E m \in T : \A k \in T : m <= k
<1>1. \E m \in T : \A k \in T : ~(<<k, m>> \in OpToRel(<, Nat))
  BY NatLessThanWellFounded, WFMin
<1>2. \A k, m \in T : ~(<<k, m>> \in OpToRel(<, Nat)) => m <= k
  BY DEF OpToRel
<1>3. QED
  BY <1>1, <1>2

LEMMA SetInduction ==
  ASSUME NEW P, 0 \in P, \A n \in Nat : n \in P => n + 1 \in P
  PROVE  \A n \in Nat : n \in P
<1> DEFINE T == {n \in Nat : n \notin P}
<1>1. SUFFICES ASSUME T # {} PROVE FALSE
  OBVIOUS
<1>2. PICK m \in T : \A k \in T : m <= k
  BY <1>1, LeastNumber
<1>3. m # 0 /\ m - 1 \in Nat /\ m - 1 \notin T
  BY <1>2
<1>4. QED
  BY <1>3

-----------------------------------------------------------------------------
(* Replaying a journal.                                                    *)

\* f lists the checkpoints on the way through the first n lines.
Stages(f, m, lines, n) ==
    f = [i \in 0 .. n |->
            IF i = 0 THEN m ELSE Applied(f[i - 1], m.seq, lines[i])]

LEMMA StagesAgree ==
  ASSUME NEW m, NEW n \in Nat, NEW k \in Nat, n <= k,
         NEW lines, NEW more, \A i \in 1 .. n : lines[i] = more[i],
         NEW f, Stages(f, m, lines, n), NEW g, Stages(g, m, more, k)
  PROVE  \A i \in 0 .. n : f[i] = g[i]
<1> DEFINE P == {i \in Nat : i <= n => f[i] = g[i]}
<1>1. /\ f[0] = m /\ g[0] = m
      /\ \A i \in 1 .. n : /\ f[i] = Applied(f[i - 1], m.seq, lines[i])
                           /\ g[i] = Applied(g[i - 1], m.seq, more[i])
  BY DEF Stages
<1>2. 0 \in P
  BY <1>1
<1>3. ASSUME NEW i \in Nat, i \in P PROVE i + 1 \in P
  <2>1. CASE i + 1 <= n
    <3>1. f[i] = g[i] /\ i + 1 \in 1 .. n /\ (i + 1) - 1 = i
      BY <1>3, <2>1
    <3>2. QED
      BY <1>1, <3>1
  <2>2. CASE ~(i + 1 <= n)
    BY <2>2
  <2>3. QED
    BY <2>1, <2>2
<1>4. \A i \in Nat : i \in P
  <2> HIDE DEF P
  <2>1. QED
    BY <1>2, <1>3, SetInduction
<1>5. QED
  BY <1>4

LEMMA StagesExist ==
  ASSUME NEW m, NEW lines
  PROVE  \A n \in Nat : \E f : Stages(f, m, lines, n)
<1> DEFINE P == {n \in Nat : \E f : Stages(f, m, lines, n)}
<1>1. 0 \in P
  <2>1. Stages([i \in 0 .. 0 |-> m], m, lines, 0)
    BY DEF Stages
  <2>2. QED
    BY <2>1
<1>2. ASSUME NEW n \in Nat, n \in P PROVE n + 1 \in P
  <2>1. PICK f : Stages(f, m, lines, n)
    BY <1>2
  <2> DEFINE g == [i \in 0 .. n + 1 |->
                      IF i = n + 1 THEN Applied(f[n], m.seq, lines[i]) ELSE f[i]]
  <2>2. ASSUME NEW i \in 0 .. n + 1
        PROVE  g[i] = IF i = 0 THEN m ELSE Applied(g[i - 1], m.seq, lines[i])
    <3>1. CASE i = n + 1
      BY <3>1
    <3>2. CASE i # n + 1
      <4>1. i \in 0 .. n /\ g[i] = f[i] /\ (i # 0 => g[i - 1] = f[i - 1])
        BY <3>2
      <4>2. f[i] = IF i = 0 THEN m ELSE Applied(f[i - 1], m.seq, lines[i])
        BY <2>1, <4>1 DEF Stages
      <4>3. QED
        BY <4>1, <4>2
    <3>3. QED
      BY <3>1, <3>2
  <2>3. Stages(g, m, lines, n + 1)
    BY <2>2 DEF Stages
  <2>4. QED
    BY <2>3
<1>3. \A n \in Nat : n \in P
  <2> HIDE DEF P
  <2>1. QED
    BY <1>1, <1>2, SetInduction
<1>4. QED
  BY <1>3

\* The replay is the last of the stages.
LEMMA ReplayStages ==
  ASSUME NEW m, NEW lines, Len(lines) \in Nat
  PROVE  \E f : Stages(f, m, lines, Len(lines)) /\ Replay(m, lines) = f[Len(lines)]
<1> DEFINE h == CHOOSE f : Stages(f, m, lines, Len(lines))
<1>1. Stages(h, m, lines, Len(lines))
  BY StagesExist
<1>2. Replay(m, lines) = h[Len(lines)]
  BY DEF Replay, Stages
<1>3. QED
  BY <1>1, <1>2

LEMMA ReplayEmpty == ASSUME NEW m PROVE Replay(m, <<>>) = m
<1>1. Len(<<>>) = 0
  OBVIOUS
<1>2. QED
  BY <1>1, ReplayStages DEF Stages

\* Replaying a journal with one line more is to apply that line to what the
\* rest of it replays to (_append_journal against _replay_journal).
LEMMA ReplayAppend ==
  ASSUME NEW m, NEW S, NEW lines \in Seq(S), NEW e \in S
  PROVE  Replay(m, Append(lines, e)) = Applied(Replay(m, lines), m.seq, e)
<1> DEFINE more == Append(lines, e)
           n == Len(lines)
           k == Len(more)
<1>1. /\ n \in Nat /\ k \in Nat /\ k = n + 1 /\ k # 0 /\ n <= k /\ n = k - 1
      /\ n \in 0 .. n /\ k \in 0 .. k /\ more[k] = e
      /\ \A i \in 1 .. n : lines[i] = more[i]
  OBVIOUS
<1>2. PICK f : Stages(f, m, lines, n) /\ Replay(m, lines) = f[n]
  BY <1>1, ReplayStages
<1>3. PICK g : Stages(g, m, more, k) /\ Replay(m, more) = g[k]
  BY <1>1, ReplayStages
<1> HIDE DEF more, n, k
<1>4. \A i \in 0 .. n : f[i] = g[i]
  BY <1>1, <1>2, <1>3, StagesAgree
<1>5. g[k] = Applied(g[n], m.seq, more[k])
  BY <1>1, <1>3 DEF Stages
<1>6. QED
  BY <1>1, <1>2, <1>3, <1>4, <1>5 DEF more

\* What holds of every stage holds of the replay; Q pairs the lines read so far
\* with the checkpoint they lead to.
LEMMA ReplayInvariant ==
  ASSUME NEW m, NEW lines, Len(lines) \in Nat, NEW Q, <<0, m>> \in Q,
         \A i \in 0 .. Len(lines) - 1 : \A x :
            <<i, x>> \in Q => <<i + 1, Applied(x, m.seq, lines[i + 1])>> \in Q
  PROVE  <<Len(lines), Replay(m, lines)>> \in Q
<1> DEFINE n == Len(lines)
<1>1. PICK f : Stages(f, m, lines, n) /\ Replay(m, lines) = f[n]
  BY ReplayStages
<1> DEFINE P == {i \in Nat : i <= n => <<i, f[i]>> \in Q}
<1>2. f[0] = m /\ \A i \in 1 .. n : f[i] = Applied(f[i - 1], m.seq, lines[i])
  BY <1>1 DEF Stages
<1>3. 0 \in P
  BY <1>2
<1>4. ASSUME NEW i \in Nat, i \in P PROVE i + 1 \in P
  <2>1. CASE i + 1 <= n
    <3>1. <<i, f[i]>> \in Q /\ i \in 0 .. n - 1 /\ i + 1 \in 1 .. n /\ (i + 1) - 1 = i
      BY <1>4, <2>1
    <3>2. <<i + 1, Applied(f[i], m.seq, lines[i + 1])>> \in Q
      BY <3>1
    <3>3. QED
      BY <1>2, <3>1, <3>2
  <2>2. CASE ~(i + 1 <= n)
    BY <2>2
  <2>3. QED
    BY <2>1, <2>2
<1>5. \A i \in Nat : i \in P
  <2> HIDE DEF P
  <2>1. QED
    BY <1>3, <1>4, SetInduction
<1>6. QED
  BY <1>1, <1>5

\* Lines that the file holds already change nothing.
LEMMA ReplayStale ==
  ASSUME NEW m, m # Broken, NEW lines, Len(lines) \in Nat,
         \A i \in 1 .. Len(lines) : lines[i] # Torn /\ lines[i].seq <= m.seq
  PROVE  Replay(m, lines) = m
<1> DEFINE Q == Nat \X {m}
<1>1. <<0, m>> \in Q
  OBVIOUS
<1>2. ASSUME NEW i \in 0 .. Len(lines) - 1, NEW x, <<i, x>> \in Q
      PROVE  <<i + 1, Applied(x, m.seq, lines[i + 1])>> \in Q
  <2>1. x = m /\ i + 1 \in 1 .. Len(lines)
    BY <1>2
  <2>2. Applied(x, m.seq, lines[i + 1]) = m
    BY <2>1 DEF Applied, Older
  <2>3. QED
    BY <2>1, <2>2
<1>3. <<Len(lines), Replay(m, lines)>> \in Q
  <2> HIDE DEF Q
  <2>1. QED
    BY <1>1, <1>2, ReplayInvariant
<1>4. QED
  BY <1>3

-----------------------------------------------------------------------------
(* Rows: what a checkpoint and a line of the journal may hold.             *)

Lines == [seq : Nat, op : {"hash", "partial", "completed"}, token : Tokens,
          row : Contents]

\* A proof of a token says what the plan named; none is given of a large one.
SoundRow(t, row) == t \notin Large /\ (FileOf(t) \in Checked => row = Whole(t))

SoundCheckpoint(m) ==
    /\ m.complete => Proven(m)
    /\ \A t \in Completed(m) : SoundRow(t, m.done[t])

SoundLine(e) ==
    e # Torn /\ e.op = "completed" => e.row # Nothing /\ SoundRow(e.token, e.row)

LEMMA CheckpointIsReal == ASSUME NEW m \in Checkpoints PROVE m # None /\ m # Broken
<1>1. "seq" \in DOMAIN m
  BY DEF Checkpoints
<1>2. "seq" \notin DOMAIN None /\ "seq" \notin DOMAIN Broken
  BY DEF None, Broken
<1>3. QED
  BY <1>1, <1>2

\* A file of the journal's checkpoint goes from done to more done.
LEMMA RowAdded ==
  ASSUME NEW m \in Checkpoints, SoundCheckpoint(m), NEW n \in Checkpoints,
         n.snap = m.snap, n.complete = m.complete,
         NEW t \in Tokens, NEW row, row # Nothing, SoundRow(t, row),
         n.done = [m.done EXCEPT ![t] = row] \/ n.done = m.done
  PROVE  SoundCheckpoint(n)
  BY DEF SoundCheckpoint, Completed, Proven, Checkpoints

LEMMA AppliedSound ==
  ASSUME NEW m \in Checkpoints, SoundCheckpoint(m), NEW base \in Nat, base <= m.seq,
         NEW e \in Lines \cup {Torn}, SoundLine(e)
  PROVE  LET n == Applied(m, base, e)
         IN  \/ n = Broken
             \/ /\ n \in Checkpoints /\ SoundCheckpoint(n) /\ m.seq <= n.seq
                /\ e # Torn /\ e.seq <= n.seq
<1> DEFINE n == Applied(m, base, e)
<1>1. m # Broken
  BY CheckpointIsReal
<1>2. CASE e = Torn
  BY <1>2 DEF Applied
<1>3. CASE e # Torn /\ Older(base, e)
  BY <1>1, <1>3 DEF Applied, Older, Lines, Checkpoints
<1>4. CASE e # Torn /\ ~Older(base, e) /\ e.seq # m.seq + 1
  BY <1>1, <1>4 DEF Applied
<1>5. CASE e # Torn /\ ~Older(base, e) /\ e.seq = m.seq + 1
  <2>1. e \in Lines
    BY <1>5
  <2>2. n = [m EXCEPT !.seq = e.seq,
                   !.done = IF e.op = "completed" THEN [@ EXCEPT ![e.token] = e.row]
                                                  ELSE @,
                   !.part = CASE e.op = "completed" -> [@ EXCEPT ![e.token] = Nothing]
                              [] e.op = "partial"   -> [@ EXCEPT ![e.token] = e.row]
                              [] OTHER              -> @]
    BY <1>1, <1>5 DEF Applied
  <2>3. Nothing \in Contents
    BY DEF Nothing, Contents
  <2> DEFINE done == IF e.op = "completed" THEN [m.done EXCEPT ![e.token] = e.row]
                                           ELSE m.done
             part == IF e.op = "completed" THEN [m.part EXCEPT ![e.token] = Nothing]
                     ELSE IF e.op = "partial" THEN [m.part EXCEPT ![e.token] = e.row]
                     ELSE m.part
  <2>4. n = [m EXCEPT !.seq = e.seq, !.done = done, !.part = part]
    BY <2>2
  <2>5. /\ m.done \in [Tokens -> Contents] /\ m.part \in [Tokens -> Contents]
        /\ e.token \in Tokens /\ e.row \in Contents /\ e.seq \in Nat \ {0}
    BY <1>5, <2>1 DEF Checkpoints, Lines
  <2>6. done \in [Tokens -> Contents] /\ part \in [Tokens -> Contents]
    <3> HIDE DEF n
    <3>1. done \in [Tokens -> Contents]
      BY <2>5
    <3>2. part \in [Tokens -> Contents]
      BY <2>5, <2>3
    <3>3. QED
      BY <3>1, <3>2
  <2>7. /\ n \in Checkpoints /\ n.snap = m.snap /\ n.complete = m.complete
        /\ n.seq = m.seq + 1 /\ n.done = done
    <3> HIDE DEF n, done, part
    <3>1. QED
      BY <1>5, <2>4, <2>5, <2>6 DEF Checkpoints
  <2>8. SoundCheckpoint(n)
    <3>1. CASE e.op = "completed"
      BY <1>5, <2>1, <2>7, <3>1, RowAdded DEF SoundLine, Lines
    <3>2. CASE e.op # "completed"
      BY <2>7, <3>2 DEF SoundCheckpoint, Completed, Proven
    <3>3. QED
      BY <3>1, <3>2
  <2>9. QED
    BY <1>5, <2>1, <2>7, <2>8 DEF Checkpoints
<1>6. QED
  BY <1>2, <1>3, <1>4, <1>5

\* What opening a checkpoint finds, unless it refuses it: every line was read,
\* in order, and its rows are sound.
LEMMA ReplaySound ==
  ASSUME NEW m \in Checkpoints, SoundCheckpoint(m),
         NEW lines \in Seq(Lines \cup {Torn}),
         \A i \in 1 .. Len(lines) : SoundLine(lines[i])
  PROVE  LET r == Replay(m, lines)
         IN  \/ r = Broken
             \/ /\ r \in Checkpoints /\ SoundCheckpoint(r) /\ m.seq <= r.seq
                /\ \A i \in 1 .. Len(lines) : lines[i] # Torn /\ lines[i].seq <= r.seq
<1> DEFINE Good(i, x) ==
              \/ x = Broken
              \/ /\ x \in Checkpoints /\ SoundCheckpoint(x) /\ m.seq <= x.seq
                 /\ \A j \in 1 .. i : lines[j] # Torn /\ lines[j].seq <= x.seq
           n == Len(lines)
           Q == {q \in (0 .. n) \X ({Broken} \cup Checkpoints) : Good(q[1], q[2])}
<1>1. n \in Nat /\ m.seq \in Nat
  BY DEF Checkpoints
<1>2. <<0, m>> \in Q
  BY <1>1
<1>3. ASSUME NEW i \in 0 .. n - 1, NEW x, <<i, x>> \in Q
      PROVE  <<i + 1, Applied(x, m.seq, lines[i + 1])>> \in Q
  <2> DEFINE e == lines[i + 1]
             y == Applied(x, m.seq, e)
  <2>1. i + 1 \in 1 .. n /\ e \in Lines \cup {Torn} /\ SoundLine(e)
    BY <1>1
  <2>2. CASE x = Broken
    <3>1. y = Broken
      BY <2>2 DEF Applied
    <3>2. QED
      BY <1>1, <2>1, <3>1
  <2>3. CASE x # Broken
    <3>1. /\ x \in Checkpoints /\ SoundCheckpoint(x) /\ m.seq <= x.seq
          /\ \A j \in 1 .. i : lines[j] # Torn /\ lines[j].seq <= x.seq
      BY <1>3, <2>3
    <3>2. \/ y = Broken
          \/ /\ y \in Checkpoints /\ SoundCheckpoint(y) /\ x.seq <= y.seq
             /\ e # Torn /\ e.seq <= y.seq
      BY <1>1, <2>1, <3>1, AppliedSound
    <3>3. CASE y = Broken
      BY <1>1, <2>1, <3>3
    <3>4. CASE y # Broken
      <4>1. x.seq \in Nat /\ y.seq \in Nat
        BY <3>1, <3>2, <3>4 DEF Checkpoints
      <4>2. \A j \in 1 .. i + 1 : lines[j] # Torn /\ lines[j].seq <= y.seq
        <5> TAKE j \in 1 .. i + 1
        <5>1. CASE j = i + 1
          BY <3>2, <3>4, <5>1
        <5>2. CASE j # i + 1
          <6>1. j \in 1 .. i /\ j \in 1 .. n
            BY <5>2, <1>1
          <6>2. lines[j] \in Lines
            BY <3>1, <6>1
          <6>3. QED
            BY <3>1, <3>2, <3>4, <4>1, <6>1, <6>2 DEF Lines
        <5>3. QED
          BY <5>1, <5>2
      <4>3. QED
        BY <1>1, <2>1, <3>1, <3>2, <3>4, <4>1, <4>2
    <3>5. QED
      BY <3>3, <3>4
  <2>4. QED
    BY <2>2, <2>3
<1>4. <<n, Replay(m, lines)>> \in Q
  <2> HIDE DEF Q
  <2>1. QED
    BY <1>1, <1>2, <1>3, ReplayInvariant
<1>5. QED
  BY <1>4
-----------------------------------------------------------------------------
(* Contents and the list of cases.                                         *)

LEMMA TokenParts ==
  ASSUME NEW t \in Tokens
  PROVE  /\ FileOf(t) \in Files /\ t[2] \in 0 .. MaxVersion
         /\ t = <<FileOf(t), t[2]>>
  BY DEF Tokens, FileOf

LEMMA WholeIsContent ==
  ASSUME NEW t \in Tokens
  PROVE  Whole(t) \in Contents /\ Whole(t) # Nothing /\ Len(Whole(t)) = Size[FileOf(t)]
<1>1. Size[FileOf(t)] \in Nat \ {0} /\ t[2] \in 0 .. MaxVersion + 1
  BY TokenParts, DriveAssumption
<1> DEFINE n == Size[FileOf(t)]
<1>2. Whole(t) \in [1 .. n -> 0 .. MaxVersion + 1]
  BY <1>1 DEF Whole
<1>3. Whole(t) \in Seq(0 .. MaxVersion + 1) /\ Len(Whole(t)) = n
  <2>1. Whole(t) \in Seq(0 .. MaxVersion + 1)
    BY <1>1, <1>2, SeqDef
  <2>2. DOMAIN Whole(t) = 1 .. n
    BY DEF Whole
  <2>3. QED
    BY <1>1, <2>1, <2>2, LenProperties
<1>4. QED
  BY <1>1, <1>3 DEF Contents, Nothing

LEMMA SmallContents == Nothing \in Contents /\ Foreign \in Contents /\ Foreign # Nothing
  BY DriveAssumption DEF Nothing, Foreign, Contents

\* In a finite set of numbers every position is taken.
LEMMA RankExists ==
  ASSUME NEW S, S \subseteq Nat, IsFiniteSet(S)
  PROVE  \A k \in Nat : k < Cardinality(S) =>
            \E c \in S : Cardinality({d \in S : d < c}) = k
<1> DEFINE Below(c) == {d \in S : d < c}
           P == {k \in Nat : k < Cardinality(S) =>
                    \E c \in S : Cardinality(Below(c)) = k}
<1>1. Cardinality(S) \in Nat
  BY FS_CardinalityType
<1>2. 0 \in P
  <2>1. SUFFICES ASSUME 0 < Cardinality(S) PROVE \E c \in S : Cardinality(Below(c)) = 0
    OBVIOUS
  <2>2. S # {}
    BY <2>1, FS_EmptySet
  <2>3. PICK c \in S : \A d \in S : c <= d
    BY <2>2, LeastNumber
  <2>4. Below(c) = {}
    <3>1. \A d \in S : ~(d < c)
      BY <2>3
    <3>2. QED
      BY <3>1
  <2>5. QED
    BY <2>4, FS_EmptySet
<1>3. ASSUME NEW k \in Nat, k \in P PROVE k + 1 \in P
  <2>1. SUFFICES ASSUME k + 1 < Cardinality(S)
                 PROVE  \E c \in S : Cardinality(Below(c)) = k + 1
    OBVIOUS
  <2>2. PICK c \in S : Cardinality(Below(c)) = k
    BY <1>1, <1>3, <2>1
  <2> DEFINE upTo == Below(c) \cup {c}
             above == S \ upTo
  <2>3. IsFiniteSet(Below(c)) /\ IsFiniteSet(upTo) /\ c \notin Below(c)
    <3>1. Below(c) \subseteq S /\ upTo \subseteq S /\ ~(c < c)
      OBVIOUS
    <3>2. IsFiniteSet(Below(c)) /\ IsFiniteSet(upTo)
      <4> HIDE DEF upTo, Below
      <4>1. QED
        BY <3>1, FS_Subset
    <3>3. QED
      BY <3>1, <3>2
  <2>4. Cardinality(upTo) = k + 1
    BY <2>2, <2>3, FS_AddElement
  <2>5. above # {}
    <3>1. SUFFICES ASSUME above = {} PROVE FALSE
      OBVIOUS
    <3>2. upTo = S
      BY <3>1
    <3>3. QED
      BY <2>1, <2>4, <3>2
  <2>6. PICK b \in above : \A d \in above : b <= d
    BY <2>5, LeastNumber
  <2>7. Below(b) = upTo
    <3>1. b \in S /\ b # c /\ ~(b < c) /\ b \in Nat /\ c \in Nat
      BY <2>6
    <3>2. \A d \in S : d < b <=> d \in upTo
      <4> TAKE d \in S
      <4>1. d \in Nat /\ (d \in upTo <=> d < c \/ d = c)
        OBVIOUS
      <4>2. d \notin upTo => b <= d
        BY <2>6
      <4> HIDE DEF upTo
      <4>3. QED
        BY <3>1, <4>1, <4>2
    <3>3. upTo \subseteq S
      OBVIOUS
    <3> HIDE DEF upTo
    <3>4. QED
      BY <3>2, <3>3
  <2>8. QED
    BY <2>4, <2>6, <2>7
<1>4. \A k \in Nat : k \in P
  <2> HIDE DEF P
  <2>1. QED
    BY <1>2, <1>3, SetInduction
<1>5. QED
  BY <1>4

\* The offset always names a listed case, and stays an offset.
LEMMA OffsetNamesCase ==
  ASSUME listed \in SUBSET Cases, listed # {}, NEW offset \in Nat
  PROVE  /\ CaseAt(offset) \in listed
         /\ NextOffset(offset) \in 0 .. Cardinality(Cases) - 1
<1>1. IsFiniteSet(listed) /\ Cardinality(listed) <= Cardinality(Cases)
  BY DriveAssumption, FS_Subset
<1>2. Cardinality(listed) \in Nat \ {0} /\ Cardinality(Cases) \in Nat
  BY <1>1, FS_CardinalityType, FS_EmptySet, DriveAssumption
<1> DEFINE n == Cardinality(listed)
           k == offset % n
<1>3. /\ k \in Nat /\ k < n
      /\ (k + 1) % n \in Nat /\ (k + 1) % n < n
  <2> HIDE DEF n
  <2>1. \A a \in Nat : a % n \in Nat /\ a % n < n
    BY <1>2 DEF n
  <2>2. QED
    BY <2>1
<1>4. \E c \in listed : Cardinality({d \in listed : d < c}) = k
  <2>1. listed \subseteq Nat
    BY DriveAssumption
  <2>2. QED
    BY <1>1, <1>3, <2>1, RankExists
<1>5. CaseAt(offset) \in listed
  BY <1>4 DEF CaseAt
<1>6. NextOffset(offset) \in 0 .. Cardinality(Cases) - 1
  BY <1>1, <1>2, <1>3 DEF NextOffset
<1>7. QED
  BY <1>5, <1>6
-----------------------------------------------------------------------------
(* The store: what the file, the journal and the worker's copy have to do   *)
(* with each other.                                                         *)

StoreTyped ==
    /\ disk = None \/ disk \in Checkpoints
    /\ mem = None \/ mem \in Checkpoints
    /\ journal \in Seq(Lines \cup {Torn})
    /\ dirty \in BOOLEAN
    /\ blame \subseteq {"append", "torn", "stale"}

RowsSound ==
    /\ disk # None => SoundCheckpoint(disk)
    /\ mem # None => SoundCheckpoint(mem)
    /\ \A i \in 1 .. Len(journal) : SoundLine(journal[i])

\* Every line has a number that has been given out.
Known(lines, m) == \A i \in 1 .. Len(lines) : lines[i] # Torn /\ lines[i].seq <= m.seq

StoreSound ==
    /\ dirty => mem # None /\ disk = mem
    /\ disk = None => mem = None /\ journal = <<>>
    /\ mem # None => disk.seq <= mem.seq
    /\ mem # None /\ blame \subseteq {"append"} => Known(journal, mem)
    /\ mem # None /\ blame = {} => Replay(disk, journal) = mem
    /\ disk # None /\ blame = {} => Replay(disk, journal) # Broken

StoreOK == StoreTyped /\ RowsSound /\ StoreSound

\* What the steps of the worker do to the store.
StoreKept == UNCHANGED <<disk, journal, dirty, mem, blame>>
StoreWritten ==
    /\ mem # None
    /\ \E m \in Checkpoints : SoundCheckpoint(m) /\ m.seq = mem.seq /\ Write(m)
StoreEmptied ==
    /\ dirty /\ journal' = <<>> /\ dirty' = FALSE /\ blame' = {}
    /\ mem' = [mem EXCEPT !.seq = Settled(@)]
    /\ disk' = [disk EXCEPT !.seq = Settled(@)]
StoreLogged ==
    /\ mem # None /\ ~dirty /\ blame' = blame
    /\ \E m \in Checkpoints, op \in {"hash", "partial", "completed"}, t \in Tokens,
          row \in Contents :
          /\ SoundCheckpoint(m) /\ m.seq = mem.seq
          /\ op = "completed" => row # Nothing /\ SoundRow(t, row)
          /\ \A n \in Checkpoints : n = [m EXCEPT !.seq = @ + 1] =>
                Applied(mem, disk.seq, Line(n, op, t, row)) = n
          /\ Log(m, op, t, row)
StoreLoses ==
    /\ mem # None /\ ~dirty
    /\ \E m \in Checkpoints :
          /\ SoundCheckpoint(m) /\ m.seq = mem.seq
          /\ AppendRaises(m) \/ AppendStopsShort(m)
StoreLeft ==
    /\ mem' = None /\ dirty' = FALSE
    /\ UNCHANGED <<disk, journal, blame>>

LEMMA FreshSound ==
  ASSUME NEW c \in Cases
  PROVE  Fresh(c) \in Checkpoints /\ SoundCheckpoint(Fresh(c))
<1>1. Nothing \in Contents
  BY SmallContents
<1>2. NoRows \in [Tokens -> Contents] /\ \A t \in Tokens : NoRows[t] = Nothing
  BY <1>1 DEF NoRows
<1>3. QED
  BY <1>2 DEF Fresh, Checkpoints, SoundCheckpoint, Completed

\* A checkpoint whose number alone changes.
LEMMA Renumbered ==
  ASSUME NEW m \in Checkpoints, NEW k \in Nat \ {0}
  PROVE  LET n == [m EXCEPT !.seq = k]
         IN  /\ n \in Checkpoints /\ n.seq = k
             /\ n.case = m.case /\ n.snap = m.snap /\ n.done = m.done
             /\ n.part = m.part /\ n.complete = m.complete /\ n.deferred = m.deferred
             /\ SoundCheckpoint(m) => SoundCheckpoint(n)
<1> DEFINE n == [m EXCEPT !.seq = k]
<1>1. /\ n \in Checkpoints /\ n.seq = k
      /\ n.case = m.case /\ n.snap = m.snap /\ n.done = m.done
      /\ n.part = m.part /\ n.complete = m.complete /\ n.deferred = m.deferred
  BY DEF Checkpoints
<1>2. SoundCheckpoint(m) => SoundCheckpoint(n)
  <2> HIDE DEF n
  <2>1. QED
    BY <1>1 DEF SoundCheckpoint, Proven, Completed
<1>3. QED
  BY <1>1, <1>2

LEMMA SettledIsNumber ==
  ASSUME NEW k \in Nat \ {0}
  PROVE  Settled(k) \in Nat \ {0} /\ Settled(k) <= k
  BY DEF Settled

\* Write leaves the same checkpoint in both places.
LEMMA WriteEffect ==
  ASSUME NEW m \in Checkpoints, Write(m), StoreTyped
  PROVE  /\ mem' \in Checkpoints /\ disk' = mem' /\ journal' = journal
         /\ dirty' = (journal # <<>>) /\ blame' = blame \ {"append"}
         /\ mem'.case = m.case /\ mem'.snap = m.snap /\ mem'.done = m.done
         /\ mem'.part = m.part /\ mem'.complete = m.complete
         /\ mem'.deferred = m.deferred
         /\ journal # <<>> => m.seq <= mem'.seq
         /\ SoundCheckpoint(m) => SoundCheckpoint(mem')
<1> DEFINE k == IF journal = <<>> THEN Settled(m.seq + 1) ELSE m.seq + 1
<1>1. m.seq \in Nat \ {0}
  BY DEF Checkpoints
<1>2. k \in Nat \ {0}
  BY <1>1, SettledIsNumber
<1>3. /\ mem' = [m EXCEPT !.seq = k] /\ disk' = mem' /\ journal' = journal
      /\ dirty' = (journal # <<>>) /\ blame' = blame \ {"append"}
  BY DEF Write
<1>4. journal # <<>> => m.seq <= k
  BY <1>1
<1> HIDE DEF k
<1>5. QED
  BY <1>2, <1>3, <1>4, Renumbered
LEMMA KnownStill ==
  ASSUME NEW lines \in Seq(Lines \cup {Torn}), NEW m \in Checkpoints,
         NEW n \in Checkpoints, Known(lines, m), m.seq <= n.seq
  PROVE  Known(lines, n)
<1> SUFFICES ASSUME NEW i \in 1 .. Len(lines)
             PROVE  lines[i] # Torn /\ lines[i].seq <= n.seq
  BY DEF Known
<1>1. lines[i] \in Lines /\ lines[i].seq <= m.seq /\ lines[i] # Torn
  BY DEF Known
<1>2. lines[i].seq \in Nat /\ m.seq \in Nat /\ n.seq \in Nat
  BY <1>1 DEF Lines, Checkpoints
<1>3. QED
  BY <1>1, <1>2

LEMMA KeptStore == ASSUME StoreOK, StoreKept PROVE StoreOK'
  BY DEF StoreOK, StoreTyped, RowsSound, StoreSound, StoreKept, Known

LEMMA LeftStore == ASSUME StoreOK, StoreLeft PROVE StoreOK'
  BY DEF StoreOK, StoreTyped, RowsSound, StoreSound, StoreLeft, Known

LEMMA WrittenStore == ASSUME StoreOK, StoreWritten PROVE StoreOK'
<1>1. PICK m \in Checkpoints : SoundCheckpoint(m) /\ m.seq = mem.seq /\ Write(m)
  BY DEF StoreWritten
<1>2. StoreTyped /\ RowsSound /\ StoreSound /\ mem # None
  BY DEF StoreOK, StoreWritten
<1>3. /\ mem' \in Checkpoints /\ disk' = mem' /\ journal' = journal
      /\ dirty' = (journal # <<>>) /\ blame' = blame \ {"append"}
      /\ journal # <<>> => mem.seq <= mem'.seq
      /\ SoundCheckpoint(mem')
  BY <1>1, <1>2, WriteEffect
<1>4. mem' # None /\ mem' # Broken /\ mem \in Checkpoints /\ mem'.seq \in Nat
  BY <1>2, <1>3, CheckpointIsReal DEF StoreTyped, Checkpoints
<1>5. StoreTyped' /\ RowsSound'
  BY <1>2, <1>3, <1>4 DEF StoreTyped, RowsSound
<1>6. ASSUME blame' \subseteq {"append"} PROVE Known(journal, mem')
  <2>1. Known(journal, mem)
    BY <1>2, <1>3, <1>6 DEF StoreSound
  <2>2. CASE journal = <<>>
    BY <2>2 DEF Known
  <2>3. CASE journal # <<>>
    BY <1>2, <1>3, <1>4, <2>1, <2>3, KnownStill DEF StoreTyped
  <2>4. QED
    BY <2>2, <2>3
<1>7. ASSUME blame' \subseteq {"append"} PROVE Replay(disk', journal') = mem'
  <2>1. Len(journal) \in Nat
    BY <1>2 DEF StoreTyped
  <2>2. QED
    BY <1>3, <1>4, <1>6, <1>7, <2>1, ReplayStale DEF Known
<1>8. StoreSound'
  <2>1. Known(journal', mem') = Known(journal, mem')
    BY <1>3
  <2>2. QED
    BY <1>3, <1>4, <1>6, <1>7, <2>1 DEF StoreSound
<1>9. QED
  BY <1>5, <1>8 DEF StoreOK

LEMMA EmptiedStore == ASSUME StoreOK, StoreEmptied PROVE StoreOK'
<1>1. StoreTyped /\ RowsSound /\ StoreSound /\ dirty
  BY DEF StoreOK, StoreEmptied
<1>2. mem \in Checkpoints /\ disk = mem /\ SoundCheckpoint(mem)
  BY <1>1 DEF StoreTyped, StoreSound, RowsSound
<1> DEFINE k == Settled(mem.seq)
<1>3. k \in Nat \ {0}
  BY <1>2, SettledIsNumber DEF Checkpoints
<1>4. mem' = [mem EXCEPT !.seq = k] /\ disk' = mem' /\ journal' = <<>>
      /\ dirty' = FALSE /\ blame' = {}
  BY <1>2 DEF StoreEmptied
<1> HIDE DEF k
<1>5. mem' \in Checkpoints /\ SoundCheckpoint(mem')
  BY <1>2, <1>3, <1>4, Renumbered
<1>6. mem' # None /\ mem' # Broken /\ mem'.seq \in Nat
  BY <1>5, CheckpointIsReal DEF Checkpoints
<1>7. Replay(disk', journal') = mem'
  BY <1>4, ReplayEmpty
<1>8. Len(journal') = 0 /\ journal' \in Seq(Lines \cup {Torn})
  BY <1>4
<1>9. StoreTyped' /\ RowsSound'
  <2>1. StoreTyped'
    BY <1>4, <1>5, <1>8 DEF StoreTyped
  <2>2. RowsSound'
    BY <1>4, <1>5, <1>8 DEF RowsSound
  <2>3. QED
    BY <2>1, <2>2
<1>10. StoreSound'
  <2>1. Known(journal', mem')
    BY <1>8 DEF Known
  <2>2. QED
    BY <1>4, <1>6, <1>7, <2>1 DEF StoreSound
<1>11. QED
  BY <1>9, <1>10 DEF StoreOK

LEMMA LoggedStore == ASSUME StoreOK, StoreLogged PROVE StoreOK'
<1>1. PICK m \in Checkpoints, op \in {"hash", "partial", "completed"}, t \in Tokens,
           row \in Contents :
          /\ SoundCheckpoint(m) /\ m.seq = mem.seq
          /\ op = "completed" => row # Nothing /\ SoundRow(t, row)
          /\ \A n \in Checkpoints : n = [m EXCEPT !.seq = @ + 1] =>
                Applied(mem, disk.seq, Line(n, op, t, row)) = n
          /\ Log(m, op, t, row)
  BY DEF StoreLogged
<1>2. StoreTyped /\ RowsSound /\ StoreSound /\ mem # None /\ ~dirty /\ blame' = blame
  BY DEF StoreOK, StoreLogged
<1> DEFINE k == m.seq + 1
           n == [m EXCEPT !.seq = k]
           e == Line(n, op, t, row)
<1>3. k \in Nat \ {0} /\ mem \in Checkpoints /\ mem.seq \in Nat /\ k = mem.seq + 1
      /\ disk \in Checkpoints /\ disk # None /\ disk.seq \in Nat /\ disk.seq <= k
  BY <1>1, <1>2 DEF Checkpoints, StoreTyped, StoreSound
<1>4. /\ mem' = n /\ journal' = Append(journal, e) /\ disk' = disk /\ dirty' = dirty
  BY <1>1 DEF Log
<1>5. n = [m EXCEPT !.seq = @ + 1]
  OBVIOUS
<1>6. e = [seq |-> n.seq, op |-> op, token |-> t, row |-> row]
  BY DEF Line
<1> HIDE DEF k, n
<1>7. n \in Checkpoints /\ n.seq = k /\ SoundCheckpoint(n) /\ n # None /\ n # Broken
  <2>1. n \in Checkpoints /\ n.seq = k /\ SoundCheckpoint(n)
    BY <1>1, <1>3, Renumbered DEF n
  <2>2. QED
    BY <2>1, CheckpointIsReal
<1>8. Applied(mem, disk.seq, e) = n
  BY <1>1, <1>5, <1>7
<1> HIDE DEF e
<1>9. e \in Lines /\ e.seq = k /\ e # Torn /\ SoundLine(e)
  BY <1>1, <1>3, <1>6, <1>7 DEF Lines, Torn, SoundLine
<1>10. /\ Len(journal') = Len(journal) + 1 /\ journal'[Len(journal) + 1] = e
       /\ \A i \in 1 .. Len(journal) : journal'[i] = journal[i]
       /\ journal' \in Seq(Lines \cup {Torn}) /\ Len(journal) \in Nat
  BY <1>2, <1>4, <1>9 DEF StoreTyped
<1>11. StoreTyped'
  BY <1>2, <1>3, <1>4, <1>7, <1>10 DEF StoreTyped
<1>12. RowsSound'
  BY <1>2, <1>3, <1>4, <1>7, <1>9, <1>10 DEF RowsSound
<1>13. ASSUME blame \subseteq {"append"} PROVE Known(journal', n)
  <2>1. Known(journal, mem)
    BY <1>2, <1>13 DEF StoreSound
  <2>2. Known(journal, n)
    BY <1>2, <1>3, <1>7, <2>1, KnownStill DEF StoreTyped
  <2>3. QED
    BY <1>3, <1>7, <1>9, <1>10, <2>2 DEF Known
<1>14. ASSUME blame = {} PROVE Replay(disk', journal') = n
  <2>1. Replay(disk, journal) = mem
    BY <1>2, <1>14 DEF StoreSound
  <2>2. Replay(disk, Append(journal, e)) = Applied(Replay(disk, journal), disk.seq, e)
    BY <1>2, <1>9, ReplayAppend DEF StoreTyped
  <2>3. QED
    BY <1>4, <1>8, <2>1, <2>2
<1>15. StoreSound'
  <2>1. Known(journal', mem') = Known(journal', n)
    BY <1>4
  <2>2. QED
    BY <1>2, <1>3, <1>4, <1>7, <1>13, <1>14, <2>1 DEF StoreSound
<1>16. QED
  BY <1>11, <1>12, <1>15 DEF StoreOK
LEMMA LosesStore == ASSUME StoreOK, StoreLoses PROVE StoreOK'
<1>1. PICK m \in Checkpoints : /\ SoundCheckpoint(m) /\ m.seq = mem.seq
                               /\ AppendRaises(m) \/ AppendStopsShort(m)
  BY DEF StoreLoses
<1>2. StoreTyped /\ RowsSound /\ StoreSound /\ mem # None /\ ~dirty
  BY DEF StoreOK, StoreLoses
<1> DEFINE k == m.seq + 1
<1>3. k \in Nat \ {0} /\ mem \in Checkpoints /\ mem.seq \in Nat /\ k = mem.seq + 1
      /\ disk \in Checkpoints /\ disk # None /\ disk.seq \in Nat /\ disk.seq <= k
  BY <1>1, <1>2 DEF Checkpoints, StoreTyped, StoreSound
<1>4. /\ mem' = [m EXCEPT !.seq = k] /\ disk' = disk /\ dirty' = dirty
      /\ \/ journal' = journal /\ blame' = blame \cup {"append"}
         \/ journal' = Append(journal, Torn) /\ blame' = blame \cup {"torn"}
  BY <1>1 DEF AppendRaises, AppendStopsShort, LosesLine
<1> HIDE DEF k
<1>5. mem' \in Checkpoints /\ mem'.seq = k /\ SoundCheckpoint(mem') /\ mem' # None
  BY <1>1, <1>3, <1>4, Renumbered, CheckpointIsReal
<1>6. CASE journal' = journal /\ blame' = blame \cup {"append"}
  <2>1. blame' # {} /\ (blame' \subseteq {"append"} => blame \subseteq {"append"})
    BY <1>6
  <2>2. ASSUME blame \subseteq {"append"} PROVE Known(journal, mem')
    <3>1. Known(journal, mem)
      BY <1>2, <2>2 DEF StoreSound
    <3>2. QED
      BY <1>2, <1>3, <1>5, <3>1, KnownStill DEF StoreTyped
  <2>3. Known(journal', mem') = Known(journal, mem')
    BY <1>6
  <2>4. StoreSound'
    BY <1>2, <1>3, <1>4, <1>5, <2>1, <2>2, <2>3 DEF StoreSound
  <2>5. StoreTyped' /\ RowsSound'
    BY <1>2, <1>3, <1>4, <1>5, <1>6 DEF StoreTyped, RowsSound
  <2>6. QED
    BY <2>4, <2>5 DEF StoreOK
<1>7. CASE journal' = Append(journal, Torn) /\ blame' = blame \cup {"torn"}
  <2>1. blame' # {} /\ ~(blame' \subseteq {"append"})
    BY <1>7
  <2>2. StoreSound'
    BY <1>2, <1>3, <1>4, <1>5, <2>1 DEF StoreSound
  <2>3. /\ Len(journal') = Len(journal) + 1 /\ journal'[Len(journal) + 1] = Torn
        /\ \A i \in 1 .. Len(journal) : journal'[i] = journal[i]
        /\ journal' \in Seq(Lines \cup {Torn}) /\ Len(journal) \in Nat
    BY <1>2, <1>7 DEF StoreTyped
  <2>4. StoreTyped'
    BY <1>2, <1>3, <1>4, <1>5, <1>7, <2>3 DEF StoreTyped
  <2>5. SoundLine(Torn)
    BY DEF SoundLine
  <2>6. RowsSound'
    BY <1>2, <1>3, <1>4, <1>5, <2>3, <2>5 DEF RowsSound
  <2>7. QED
    BY <2>2, <2>4, <2>6 DEF StoreOK
<1>8. QED
  BY <1>4, <1>6, <1>7

\* Opening a checkpoint yields a sound one, or refuses.
LEMMA RecoveredSound ==
  ASSUME StoreOK
  PROVE  /\ Recovered = None \/ Recovered = Broken \/ Recovered \in Checkpoints
         /\ Recovered \in Checkpoints =>
               /\ SoundCheckpoint(Recovered) /\ disk.seq <= Recovered.seq
               /\ Known(journal, Recovered)
         /\ disk # None => Recovered = Replay(disk, journal)
         /\ disk = None => Recovered = None
<1>1. StoreTyped /\ RowsSound
  BY DEF StoreOK
<1>2. disk = None => Recovered = None
  BY DEF Recovered
<1>3. CASE disk # None
  <2>1. disk \in Checkpoints /\ SoundCheckpoint(disk)
    BY <1>1, <1>3 DEF StoreTyped, RowsSound
  <2>2. Recovered = Replay(disk, journal)
    BY <1>3, <2>1 DEF Recovered, SoundCheckpoint
  <2>3. \/ Recovered = Broken
        \/ /\ Recovered \in Checkpoints /\ SoundCheckpoint(Recovered)
           /\ disk.seq <= Recovered.seq /\ Known(journal, Recovered)
    BY <1>1, <2>1, <2>2, ReplaySound DEF StoreTyped, RowsSound, Known
  <2>4. QED
    BY <1>3, <2>2, <2>3, CheckpointIsReal
<1>4. QED
  BY <1>2, <1>3, CheckpointIsReal

\* A worker starts.
StoreOpened ==
    \/ /\ \E c \in Cases : disk' = Fresh(c) /\ mem' = Fresh(c)
       /\ dirty' = (journal # <<>>) /\ UNCHANGED journal
       /\ blame' = IF journal = <<>> THEN {} ELSE blame \cup {"stale"}
    \/ /\ disk # None /\ Recovered # Broken /\ mem = None
       /\ mem' = Recovered /\ blame' = blame \ {"append"}
       /\ UNCHANGED <<disk, journal, dirty>>

LEMMA OpenedStore == ASSUME StoreOK, StoreOpened PROVE StoreOK'
<1>1. StoreTyped /\ RowsSound /\ StoreSound
  BY DEF StoreOK
<1>2. ASSUME NEW c \in Cases, disk' = Fresh(c), mem' = Fresh(c),
             dirty' = (journal # <<>>), journal' = journal,
             blame' = IF journal = <<>> THEN {} ELSE blame \cup {"stale"}
      PROVE  StoreOK'
  <2>1. mem' \in Checkpoints /\ SoundCheckpoint(mem') /\ disk' = mem'
        /\ mem' # None /\ mem' # Broken /\ mem'.seq \in Nat
    <3>1. mem' \in Checkpoints /\ SoundCheckpoint(mem')
      BY <1>2, FreshSound
    <3>2. QED
      BY <1>2, <3>1, CheckpointIsReal DEF Checkpoints
  <2>2. StoreTyped' /\ RowsSound'
    BY <1>1, <1>2, <2>1 DEF StoreTyped, RowsSound
  <2>3. CASE journal = <<>>
    <3>1. Known(journal', mem') /\ Replay(disk', journal') = mem'
      BY <1>2, <2>1, <2>3, ReplayEmpty DEF Known
    <3>2. StoreSound'
      BY <1>2, <2>1, <2>3, <3>1 DEF StoreSound
    <3>3. QED
      BY <2>2, <3>2 DEF StoreOK
  <2>4. CASE journal # <<>>
    <3>1. "stale" \in blame'
      BY <1>2, <2>4
    <3>2. StoreSound'
      BY <1>2, <2>1, <2>4, <3>1 DEF StoreSound
    <3>3. QED
      BY <2>2, <3>2 DEF StoreOK
  <2>5. QED
    BY <2>3, <2>4
<1>3. ASSUME disk # None, Recovered # Broken, mem = None, mem' = Recovered,
             blame' = blame \ {"append"}, UNCHANGED <<disk, journal, dirty>>
      PROVE  StoreOK'
  <2>1. Recovered = Replay(disk, journal) /\ disk \in Checkpoints
    BY <1>1, <1>3, RecoveredSound DEF StoreTyped
  <2>2. /\ mem' \in Checkpoints /\ SoundCheckpoint(mem') /\ disk.seq <= mem'.seq
        /\ Known(journal, mem') /\ mem' # None
    <3>1. Recovered # None
      BY <1>1, <1>3, <2>1, RecoveredSound, ReplaySound, CheckpointIsReal
         DEF RowsSound, StoreTyped
    <3>2. Recovered \in Checkpoints
      BY <1>3, <3>1, RecoveredSound
    <3>3. QED
      BY <1>3, <3>1, <3>2, RecoveredSound
  <2>3. ~dirty
    BY <1>1, <1>3 DEF StoreSound
  <2>4. StoreTyped' /\ RowsSound'
    BY <1>1, <1>3, <2>2 DEF StoreTyped, RowsSound
  <2>5. Known(journal', mem') = Known(journal, mem')
    BY <1>3
  <2>6. StoreSound'
    BY <1>1, <1>3, <2>1, <2>2, <2>3, <2>5 DEF StoreSound
  <2>7. QED
    BY <2>4, <2>6 DEF StoreOK
<1>4. QED
  BY <1>2, <1>3 DEF StoreOpened

\* A checkpoint that is over is thrown away.
StoreDiscarded ==
    /\ disk' = IF Over(mem) THEN None ELSE disk
    /\ journal' = IF Over(mem) THEN <<>> ELSE journal
    /\ mem' = None /\ dirty' = FALSE /\ UNCHANGED blame

LEMMA DiscardedStore == ASSUME StoreOK, StoreDiscarded PROVE StoreOK'
<1>1. StoreTyped /\ RowsSound /\ StoreSound
  BY DEF StoreOK
<1>2. CASE Over(mem)
  <2>1. disk' = None /\ journal' = <<>> /\ mem' = None /\ dirty' = FALSE /\ blame' = blame
    BY <1>2 DEF StoreDiscarded
  <2>2. Len(journal') = 0 /\ journal' \in Seq(Lines \cup {Torn})
    BY <2>1
  <2>3. StoreTyped'
    BY <1>1, <2>1, <2>2 DEF StoreTyped
  <2>4. RowsSound'
    BY <2>1, <2>2 DEF RowsSound
  <2>5. StoreSound'
    BY <2>1 DEF StoreSound
  <2>6. QED
    BY <2>3, <2>4, <2>5 DEF StoreOK
<1>3. CASE ~Over(mem)
  BY <1>3, LeftStore DEF StoreDiscarded, StoreLeft
<1>4. QED
  BY <1>2, <1>3
-----------------------------------------------------------------------------
(* The run: where the worker is, and what it still has to do.              *)

Items == {"fetch", "record", "publish", "mark"}
Early == {"idle", "resolve", "scan", "unmatched", "plan", "bind"}
\* The run has a plan and may still finish it.
Planned == Items \cup {"download", "get", "upload", "put", "verify", "conclude", "save"}
Places == Early \cup Planned \cup {"timeout", "discard"}

SidesTyped ==
    /\ src \in [Files -> 0 .. MaxVersion] /\ dest \in [Files -> Contents]
    /\ listed \in SUBSET Cases /\ excused \subseteq Files

TmpTyped ==
    /\ tmp \in [Tokens -> Contents]
    /\ \A t \in Tokens : Len(tmp[t]) <= Size[FileOf(t)]

Offsets == 0 .. Cardinality(Cases) - 1

PlanTyped ==
    /\ cursor \in Offsets /\ next \in Offsets
    /\ todo \subseteq Tokens /\ failed \in BOOLEAN /\ collides \in BOOLEAN
    /\ mem = None <=> pc = "idle"

\* The item in hand is one of those to be dealt with, and nothing is left to
\* do where the code looks at the outcome.
ControlOK ==
    /\ pc \in Places
    /\ pc \in Items => current.token \in todo /\ current.token \notin Large
    /\ pc \in Items \cup {"discard"} => ~dirty
    /\ pc \in Early \cup {"verify", "conclude", "save"} => todo = {}

\* What is planned is the source as it was when the plan was made.
TodoCurrent ==
    \A t \in todo :
        /\ t[2] <= src[FileOf(t)]
        /\ FileOf(t) \notin excused => t[2] = src[FileOf(t)]

Delivered(t) ==
    /\ dest[FileOf(t)] # Nothing
    /\ FileOf(t) \in Checked => dest[FileOf(t)] = Whole(t)

\* An item about to be marked has a proof of what the plan named, but for an
\* uploaded file whose source has been changed meanwhile, and it is there.
MarkSound ==
    pc = "mark" =>
        LET t == current.token
            f == FileOf(t)
        IN  /\ current.row \in Contents \ {Nothing}
            /\ f \in Checked \ Uploads => current.row = Whole(t)
            /\ f \in Uploads => \E v \in t[2] .. src[f] : current.row = Whole(<<f, v>>)
            /\ f \notin excused => Delivered(t)

\* As long as nothing has failed, every file of the case is there or planned,
\* but for the ones the naming rules refuse and the ones the run does not
\* answer for (the case was left out, the file was passed over or changed by
\* people); and every planned one it answers for is still to be dealt with,
\* left for good, or there.
Synced ==
    pc \in Planned /\ ~failed /\ ~collides =>
        /\ \A f \in FilesOf(mem.case) \ (excused \cup Unmapped) :
              dest[f] # Nothing \/ <<f, src[f]>> \in mem.snap
        /\ \A t \in mem.snap : FileOf(t) \notin excused =>
              /\ t[2] = src[FileOf(t)]
              /\ t \in todo \/ t \in Large \/ Delivered(t)

SaveSound ==
    pc = "save" => /\ ~failed
                   /\ mem.deferred \/ (~collides /\ Proven(mem))

RunOK ==
    /\ SidesTyped /\ TmpTyped /\ PlanTyped
    /\ ControlOK /\ TodoCurrent /\ MarkSound /\ Synced /\ SaveSound

\* The inductive invariant.
DriveInv == StoreOK /\ RunOK

LEMMA SomeOffset == 0 \in Offsets
<1>1. Cardinality(Cases) \in Nat \ {0}
  BY DriveAssumption, FS_CardinalityType, FS_EmptySet
<1>2. QED
  BY <1>1 DEF Offsets

LEMMA InitInv == Init => DriveInv
<1> SUFFICES ASSUME Init PROVE DriveInv
  OBVIOUS
<1>1. Nothing \in Contents /\ Len(Nothing) = 0
  BY SmallContents DEF Nothing
<1>2. StoreOK
  <2>1. journal \in Seq(Lines \cup {Torn}) /\ Len(journal) = 0
    BY DEF Init
  <2>2. StoreTyped
    BY <2>1 DEF Init, StoreTyped
  <2>3. RowsSound
    BY <2>1 DEF Init, RowsSound
  <2>4. StoreSound
    BY DEF Init, StoreSound
  <2>5. QED
    BY <2>2, <2>3, <2>4 DEF StoreOK
<1>3. SidesTyped /\ TmpTyped /\ PlanTyped
  <2>1. SidesTyped
    BY <1>1, DriveAssumption DEF Init, SidesTyped
  <2>2. TmpTyped
    <3>1. /\ tmp \in [Tokens -> Contents]
          /\ \A t \in Tokens : tmp[t] = Nothing
      BY <1>1 DEF Init, NoRows
    <3>2. \A t \in Tokens : Size[FileOf(t)] \in Nat
      BY TokenParts, DriveAssumption
    <3>3. QED
      BY <1>1, <3>1, <3>2 DEF TmpTyped
  <2>3. PlanTyped
    BY SomeOffset DEF Init, PlanTyped
  <2>4. QED
    BY <2>1, <2>2, <2>3
<1>4. ControlOK /\ TodoCurrent /\ MarkSound /\ Synced /\ SaveSound
  BY DEF Init, ControlOK, TodoCurrent, MarkSound, Synced, SaveSound, Places, Items,
         Early, Planned
<1>5. QED
  BY <1>2, <1>3, <1>4 DEF DriveInv, RunOK

LEMMA EndedRun ==
  ASSUME RunOK, Ended, UNCHANGED <<sides, tmp, cursor>>
  PROVE  RunOK'
<1>1. SidesTyped' /\ TmpTyped'
  BY DEF RunOK, SidesTyped, TmpTyped, sides
<1>2. PlanTyped'
  BY SomeOffset DEF RunOK, PlanTyped, Ended
<1>3. ControlOK' /\ TodoCurrent' /\ MarkSound' /\ Synced' /\ SaveSound'
  BY DEF Ended, ControlOK, TodoCurrent, MarkSound, Synced, SaveSound, Places, Items,
         Early, Planned
<1>4. QED
  BY <1>1, <1>2, <1>3 DEF RunOK

\* The run goes on from one place to another, with nothing done to the sides
\* and nothing to the plan.
LEMMA MovedRun ==
  ASSUME RunOK, UNCHANGED <<sides, tmp, cursor, plan>>, mem # None, mem' # None,
         mem'.case = mem.case, mem'.snap = mem.snap,
         pc' \in Places \ (Items \cup {"idle"}),
         pc' = "discard" => ~dirty',
         pc' \in Planned => pc \in Planned,
         pc' \in Early => pc \in Early,
         pc' \in {"verify", "conclude", "save"} => todo = {},
         SaveSound'
  PROVE  RunOK'
<1>1. SidesTyped' /\ TmpTyped' /\ PlanTyped'
  BY DEF RunOK, SidesTyped, TmpTyped, PlanTyped, Offsets, sides, plan
<1>2. ControlOK'
  BY DEF RunOK, ControlOK, plan, Places, Items, Early, Planned
<1>3. TodoCurrent'
  BY DEF RunOK, TodoCurrent, plan, sides
<1>4. MarkSound'
  BY DEF MarkSound, Items
<1>5. Synced'
  BY DEF RunOK, Synced, plan, sides, Delivered, FilesOf
<1>6. QED
  BY <1>1, <1>2, <1>3, <1>4, <1>5 DEF RunOK
-----------------------------------------------------------------------------
(* What the worker writes to the journal is what a replay of it does.      *)

LEMMA LogHash ==
  ASSUME StoreOK, mem # None, ~dirty, blame' = blame, NEW t \in Tokens,
         Log(mem, "hash", t, Nothing)
  PROVE  StoreLogged
<1>1. mem \in Checkpoints /\ SoundCheckpoint(mem) /\ disk \in Checkpoints /\ disk.seq <= mem.seq
  BY DEF StoreOK, StoreTyped, RowsSound, StoreSound
<1>2. mem.seq \in Nat /\ disk.seq \in Nat /\ mem # Broken
  BY <1>1, CheckpointIsReal DEF Checkpoints
<1>3. ASSUME NEW n \in Checkpoints, n = [mem EXCEPT !.seq = @ + 1]
      PROVE  Applied(mem, disk.seq, Line(n, "hash", t, Nothing)) = n
  <2> DEFINE e == Line(n, "hash", t, Nothing)
  <2>1. e.seq = n.seq /\ n.seq = mem.seq + 1 /\ e.op = "hash" /\ e # Torn
    BY <1>1, <1>3 DEF Line, Torn, Checkpoints
  <2> HIDE DEF e
  <2>2. Applied(mem, disk.seq, e) = [mem EXCEPT !.seq = mem.seq + 1, !.done = @, !.part = @]
    BY <1>1, <1>2, <2>1 DEF Applied, Older
  <2>3. QED
    BY <1>1, <1>3, <2>2 DEF e, Checkpoints
<1>4. QED
  BY <1>1, <1>3, SmallContents DEF StoreLogged

\* A row of part, or of done, is filled in.
LEMMA RowsEdited ==
  ASSUME NEW m \in Checkpoints, SoundCheckpoint(m), NEW t \in Tokens, NEW row \in Contents
  PROVE  /\ LET n == [m EXCEPT !.part[t] = row]
            IN  /\ n \in Checkpoints /\ SoundCheckpoint(n) /\ n.seq = m.seq
                /\ n.case = m.case /\ n.snap = m.snap /\ n.deferred = m.deferred
         /\ row # Nothing /\ SoundRow(t, row) =>
               LET n == [m EXCEPT !.done[t] = row, !.part[t] = Nothing]
               IN  /\ n \in Checkpoints /\ SoundCheckpoint(n) /\ n.seq = m.seq
                   /\ n.case = m.case /\ n.snap = m.snap /\ n.deferred = m.deferred
<1> DEFINE p == [m.part EXCEPT ![t] = row]
           q == [m.part EXCEPT ![t] = Nothing]
           d == [m.done EXCEPT ![t] = row]
<1>1. p \in [Tokens -> Contents] /\ q \in [Tokens -> Contents] /\ d \in [Tokens -> Contents]
  BY SmallContents DEF Checkpoints
<1>2. ASSUME NEW n, n = [m EXCEPT !.part = p]
      PROVE  /\ n \in Checkpoints /\ SoundCheckpoint(n) /\ n.seq = m.seq
             /\ n.case = m.case /\ n.snap = m.snap /\ n.deferred = m.deferred
  <2> HIDE DEF p, q, d
  <2>1. /\ n \in Checkpoints /\ n.seq = m.seq /\ n.done = m.done /\ n.complete = m.complete
        /\ n.case = m.case /\ n.snap = m.snap /\ n.deferred = m.deferred
    BY <1>1, <1>2 DEF Checkpoints
  <2>2. QED
    BY <2>1 DEF SoundCheckpoint, Proven, Completed
<1>3. ASSUME row # Nothing, SoundRow(t, row), NEW n, n = [m EXCEPT !.done = d, !.part = q]
      PROVE  /\ n \in Checkpoints /\ SoundCheckpoint(n) /\ n.seq = m.seq
             /\ n.case = m.case /\ n.snap = m.snap /\ n.deferred = m.deferred
  <2> HIDE DEF p, q, d
  <2>1. /\ n \in Checkpoints /\ n.seq = m.seq /\ n.done = d /\ n.complete = m.complete
        /\ n.case = m.case /\ n.snap = m.snap /\ n.deferred = m.deferred
    BY <1>1, <1>3 DEF Checkpoints
  <2>2. n.done = [m.done EXCEPT ![t] = row]
    BY <2>1 DEF d
  <2>3. QED
    BY <1>3, <2>1, <2>2, RowAdded
<1>4. /\ [m EXCEPT !.part[t] = row] = [m EXCEPT !.part = p]
      /\ [m EXCEPT !.done[t] = row, !.part[t] = Nothing] = [m EXCEPT !.done = d, !.part = q]
  BY DEF Checkpoints
<1>5. QED
  BY <1>2, <1>3, <1>4

LEMMA LogPartial ==
  ASSUME StoreOK, mem # None, ~dirty, blame' = blame, NEW t \in Tokens,
         NEW row \in Contents, NEW m, m = [mem EXCEPT !.part[t] = row],
         Log(m, "partial", t, row)
  PROVE  StoreLogged
<1>1. mem \in Checkpoints /\ SoundCheckpoint(mem) /\ disk \in Checkpoints /\ disk.seq <= mem.seq
  BY DEF StoreOK, StoreTyped, RowsSound, StoreSound
<1>2. mem.seq \in Nat /\ disk.seq \in Nat /\ mem # Broken
  BY <1>1, CheckpointIsReal DEF Checkpoints
<1>3. m \in Checkpoints /\ SoundCheckpoint(m) /\ m.seq = mem.seq
  BY <1>1, RowsEdited
<1>4. ASSUME NEW n \in Checkpoints, n = [m EXCEPT !.seq = @ + 1]
      PROVE  Applied(mem, disk.seq, Line(n, "partial", t, row)) = n
  <2> DEFINE e == Line(n, "partial", t, row)
             p == [mem.part EXCEPT ![t] = row]
  <2>1. e.seq = n.seq /\ n.seq = mem.seq + 1 /\ e.op = "partial" /\ e # Torn
        /\ e.token = t /\ e.row = row
    BY <1>3, <1>4 DEF Line, Torn, Checkpoints
  <2> HIDE DEF e
  <2>2. Applied(mem, disk.seq, e) = [mem EXCEPT !.seq = mem.seq + 1, !.done = @, !.part = p]
    BY <1>1, <1>2, <2>1 DEF Applied, Older
  <2>3. n = [mem EXCEPT !.seq = mem.seq + 1, !.part = p]
    BY <1>1, <1>3, <1>4 DEF Checkpoints
  <2> HIDE DEF p
  <2>4. QED
    BY <1>1, <2>2, <2>3 DEF e, Checkpoints
<1>5. QED
  BY <1>1, <1>3, <1>4 DEF StoreLogged

LEMMA LogCompleted ==
  ASSUME StoreOK, mem # None, ~dirty, blame' = blame, NEW t \in Tokens,
         NEW row \in Contents, row # Nothing, SoundRow(t, row),
         NEW m, m = [mem EXCEPT !.done[t] = row, !.part[t] = Nothing],
         Log(m, "completed", t, row)
  PROVE  StoreLogged
<1>1. mem \in Checkpoints /\ SoundCheckpoint(mem) /\ disk \in Checkpoints /\ disk.seq <= mem.seq
  BY DEF StoreOK, StoreTyped, RowsSound, StoreSound
<1>2. mem.seq \in Nat /\ disk.seq \in Nat /\ mem # Broken
  BY <1>1, CheckpointIsReal DEF Checkpoints
<1>3. m \in Checkpoints /\ SoundCheckpoint(m) /\ m.seq = mem.seq
  BY <1>1, RowsEdited
<1>4. ASSUME NEW n \in Checkpoints, n = [m EXCEPT !.seq = @ + 1]
      PROVE  Applied(mem, disk.seq, Line(n, "completed", t, row)) = n
  <2> DEFINE e == Line(n, "completed", t, row)
             d == [mem.done EXCEPT ![t] = row]
             p == [mem.part EXCEPT ![t] = Nothing]
  <2>1. e.seq = n.seq /\ n.seq = mem.seq + 1 /\ e.op = "completed" /\ e # Torn
        /\ e.token = t /\ e.row = row
    BY <1>3, <1>4 DEF Line, Torn, Checkpoints
  <2> HIDE DEF e
  <2>2. Applied(mem, disk.seq, e) = [mem EXCEPT !.seq = mem.seq + 1, !.done = d, !.part = p]
    BY <1>1, <1>2, <2>1 DEF Applied, Older
  <2>3. n = [mem EXCEPT !.seq = mem.seq + 1, !.done = d, !.part = p]
    BY <1>1, <1>3, <1>4 DEF Checkpoints
  <2> HIDE DEF p, d
  <2>4. QED
    BY <1>1, <2>2, <2>3 DEF e
<1>5. QED
  BY <1>1, <1>3, <1>4 DEF StoreLogged
-----------------------------------------------------------------------------
(* The steps between the parts of a run.                                   *)

\* What a worker that runs has.
LEMMA Running ==
  ASSUME DriveInv, mem # None
  PROVE  /\ mem \in Checkpoints /\ SoundCheckpoint(mem) /\ disk \in Checkpoints
         /\ disk # None /\ pc # "idle"
  BY DEF DriveInv, StoreOK, StoreTyped, RowsSound, StoreSound, RunOK, PlanTyped

LEMMA NotIdle == ASSUME DriveInv, pc # "idle" PROVE mem # None
  BY DEF DriveInv, RunOK, PlanTyped

\* A write of the checkpoint as it is, and what of it the run looks at.
LEMMA Rewritten ==
  ASSUME DriveInv, mem # None, Write(mem)
  PROVE  /\ StoreOK' /\ mem' # None /\ mem'.case = mem.case /\ mem'.snap = mem.snap
<1>1. mem \in Checkpoints /\ SoundCheckpoint(mem)
  BY Running
<1>2. StoreOK /\ StoreTyped
  BY DEF DriveInv, StoreOK
<1>3. StoreOK'
  BY <1>1, <1>2, WrittenStore DEF StoreWritten
<1>4. QED
  BY <1>1, <1>2, <1>3, WriteEffect, CheckpointIsReal

LEMMA StartInv == ASSUME DriveInv, Start PROVE DriveInv'
<1>1. /\ StoreOK /\ RunOK /\ pc = "idle" /\ mem = None /\ listed # {}
      /\ SidesTyped /\ PlanTyped
  BY DEF DriveInv, RunOK, PlanTyped, Start
<1>2. CaseAt(cursor) \in Cases /\ NextOffset(cursor) \in Offsets
  BY <1>1, OffsetNamesCase DEF SidesTyped, PlanTyped, Offsets
<1>3. StoreOpened
  <2> DEFINE c == CaseAt(cursor)
  <2>1. \/ /\ disk' = Fresh(c) /\ mem' = Fresh(c)
           /\ dirty' = (journal # <<>>)
           /\ blame' = IF journal = <<>> THEN {} ELSE blame \cup {"stale"}
        \/ /\ disk # None /\ Recovered # Broken
           /\ mem' = Recovered
           /\ blame' = blame \ {"append"}
           /\ UNCHANGED <<disk, dirty>>
    BY DEF Start
  <2>2. journal' = journal
    BY DEF Start
  <2> HIDE DEF c
  <2>3. c \in Cases
    BY <1>2 DEF c
  <2>4. QED
    BY <1>1, <2>1, <2>2, <2>3 DEF StoreOpened
<1>4. StoreOK'
  BY <1>1, <1>3, OpenedStore
<1>5. mem' # None
  <2>1. ASSUME NEW c \in Cases, mem' = Fresh(c) PROVE mem' # None
    BY <2>1, FreshSound, CheckpointIsReal
  <2>2. ASSUME disk # None, Recovered # Broken, mem' = Recovered PROVE mem' # None
    <3>1. Recovered = Replay(disk, journal)
      BY <1>1, <2>2, RecoveredSound
    <3>2. disk \in Checkpoints /\ SoundCheckpoint(disk)
      BY <1>1, <2>2 DEF StoreOK, StoreTyped, RowsSound
    <3>3. Recovered \in Checkpoints
      BY <1>1, <2>2, <3>1, <3>2, ReplaySound DEF StoreOK, StoreTyped, RowsSound
    <3>4. QED
      BY <2>2, <3>3, CheckpointIsReal
  <2>3. QED
    BY <1>3, <2>1, <2>2 DEF StoreOpened
<1>6. /\ pc' = "resolve" /\ next' = NextOffset(cursor)
      /\ UNCHANGED <<sides, tmp, cursor, todo, current, failed, collides>>
  BY DEF Start
<1>7. SidesTyped' /\ TmpTyped' /\ PlanTyped'
  BY <1>1, <1>2, <1>5, <1>6 DEF RunOK, SidesTyped, TmpTyped, PlanTyped, Offsets, sides
<1>8. /\ ControlOK' /\ TodoCurrent' /\ MarkSound' /\ Synced' /\ SaveSound'
  <2>1. todo' = {}
    BY <1>1, <1>6 DEF RunOK, ControlOK, Early
  <2>2. QED
    BY <1>6, <2>1 DEF ControlOK, TodoCurrent, MarkSound, Synced, SaveSound, Places,
                      Items, Early, Planned
<1>9. QED
  BY <1>4, <1>7, <1>8 DEF DriveInv, RunOK

LEMMA SetPhaseInv == ASSUME DriveInv, SetPhase PROVE DriveInv'
<1>1. /\ pc \in {"resolve", "scan", "download", "upload", "verify"}
      /\ pc' = CASE pc = "resolve" -> "scan" [] pc = "scan" -> "plan"
                  [] pc = "download" -> "get" [] pc = "upload" -> "put"
                  [] pc = "verify" -> "conclude"
  BY DEF SetPhase, After
<1>2. mem # None /\ Write(mem) /\ RunOK
  BY <1>1, NotIdle DEF SetPhase, DriveInv
<1>3. StoreOK' /\ mem' # None /\ mem'.case = mem.case /\ mem'.snap = mem.snap
  BY <1>2, Rewritten
<1>4. RunOK'
  <2>1. /\ pc' \in Places \ (Items \cup {"idle"})
        /\ pc' # "discard" /\ pc' # "save"
        /\ pc' \in Planned => pc \in Planned
        /\ pc' \in Early => pc \in Early
        /\ pc' \in {"verify", "conclude", "save"} => pc = "verify"
    BY <1>1 DEF Places, Items, Early, Planned
  <2>2. pc = "verify" => todo = {}
    BY <1>2 DEF RunOK, ControlOK
  <2>3. SaveSound'
    BY <2>1 DEF SaveSound
  <2>4. QED
    BY <1>2, <1>3, <2>1, <2>2, <2>3, MovedRun DEF SetPhase
<1>5. QED
  BY <1>3, <1>4 DEF DriveInv

\* A case is left out: the run goes on without it.
LEMMA SkipCaseInv == ASSUME DriveInv, SkipCase PROVE DriveInv'
<1>1. /\ RunOK /\ mem # None /\ Write(mem) /\ pc = "scan" /\ pc' = "unmatched"
      /\ UNCHANGED <<sides, tmp, cursor, plan>>
  BY NotIdle DEF SkipCase, DriveInv
<1>2. StoreOK' /\ mem' # None /\ mem'.case = mem.case /\ mem'.snap = mem.snap
  BY <1>1, Rewritten
<1>3. RunOK'
  <2>1. SaveSound'
    BY <1>1 DEF SaveSound
  <2>2. QED
    BY <1>1, <1>2, <2>1, MovedRun DEF Places, Items, Early, Planned
<1>4. QED
  BY <1>2, <1>3 DEF DriveInv

LEMMA EmptyJournalInv == ASSUME DriveInv, EmptyJournal PROVE DriveInv'
<1>1. /\ StoreOK /\ RunOK /\ dirty /\ mem # None /\ mem \in Checkpoints
  BY Running DEF DriveInv, EmptyJournal, StoreOK, StoreSound
<1>2. StoreOK'
  BY <1>1, EmptiedStore DEF StoreEmptied, EmptyJournal
<1>3. /\ mem' \in Checkpoints /\ mem'.case = mem.case /\ mem'.snap = mem.snap
      /\ mem'.deferred = mem.deferred /\ mem'.done = mem.done
  <2> DEFINE k == Settled(mem.seq)
  <2>1. k \in Nat \ {0}
    BY <1>1, SettledIsNumber DEF Checkpoints
  <2>2. mem' = [mem EXCEPT !.seq = k]
    BY <1>1 DEF EmptyJournal
  <2> HIDE DEF k
  <2>3. QED
    BY <1>1, <2>1, <2>2, Renumbered
<1>4. mem' # None
  BY <1>3, CheckpointIsReal
<1>5. UNCHANGED <<sides, tmp, cursor, pc, plan>>
  BY DEF EmptyJournal
<1>6. pc \in Places \ (Items \cup {"idle", "discard"})
  BY <1>1 DEF RunOK, ControlOK, PlanTyped
<1>7. SaveSound'
  BY <1>1, <1>3, <1>5 DEF RunOK, SaveSound, Proven, Completed, plan
<1>8. pc \in {"verify", "conclude", "save"} => todo = {}
  BY <1>1 DEF RunOK, ControlOK
<1>9. RunOK'
  BY <1>1, <1>3, <1>4, <1>5, <1>6, <1>7, <1>8, MovedRun
<1>10. QED
  BY <1>2, <1>9 DEF DriveInv

LEMMA CacheHashInv == ASSUME DriveInv, NEW f \in Files, CacheHash(f) PROVE DriveInv'
<1> DEFINE t == <<f, src[f]>>
<1>1. /\ StoreOK /\ RunOK /\ ~dirty /\ pc = "plan" /\ mem # None /\ blame' = blame
      /\ Log(mem, "hash", t, Nothing) /\ pc' = "bind"
      /\ UNCHANGED <<sides, tmp, cursor, plan>>
  BY NotIdle DEF CacheHash, DriveInv
<1>2. t \in Tokens
  BY <1>1 DEF RunOK, SidesTyped, Tokens
<1> HIDE DEF t
<1>3. StoreOK'
  BY <1>1, <1>2, LogHash, LoggedStore
<1>4. mem' = [mem EXCEPT !.seq = @ + 1] /\ mem \in Checkpoints
  BY <1>1, Running DEF Log
<1>5. mem'.case = mem.case /\ mem'.snap = mem.snap /\ mem' # None
  <2>1. mem' \in Checkpoints
    BY <1>4 DEF Checkpoints
  <2>2. QED
    BY <1>4, <2>1, CheckpointIsReal DEF Checkpoints
<1>6. RunOK'
  <2>1. SaveSound'
    BY <1>1 DEF SaveSound
  <2>2. QED
    BY <1>1, <1>5, <2>1, MovedRun DEF Places, Items, Early, Planned
<1>7. QED
  BY <1>3, <1>6 DEF DriveInv

LEMMA NextPartInv == ASSUME DriveInv, NextPart PROVE DriveInv'
<1>1. /\ StoreOK /\ RunOK /\ mem # None
      /\ UNCHANGED <<sides, tmp, cursor, store, plan, blame>>
      /\ \/ pc = "get" /\ pc' = "upload"
         \/ pc = "put" /\ pc' = "verify" /\ todo = {}
  BY NotIdle DEF NextPart, DriveInv
<1>2. StoreOK'
  BY <1>1, KeptStore DEF StoreKept, store
<1>3. RunOK'
  <2>1. SaveSound'
    BY <1>1 DEF SaveSound
  <2>2. mem' = mem
    BY <1>1 DEF store
  <2>3. QED
    BY <1>1, <2>1, <2>2, MovedRun DEF Places, Items, Early, Planned
<1>4. QED
  BY <1>2, <1>3 DEF DriveInv

LEMMA SaveCursorInv == ASSUME DriveInv, SaveCursor PROVE DriveInv'
<1>1. /\ StoreOK /\ RunOK /\ ~dirty /\ pc = "save" /\ pc' = "discard" /\ cursor' = next
      /\ UNCHANGED <<sides, tmp, store, plan, blame>> /\ mem # None
  BY NotIdle DEF SaveCursor, DriveInv
<1>2. StoreOK'
  BY <1>1, KeptStore DEF StoreKept, store
<1>3. SidesTyped' /\ TmpTyped' /\ PlanTyped'
  BY <1>1 DEF RunOK, SidesTyped, TmpTyped, PlanTyped, Offsets, sides, plan, store
<1>4. /\ ControlOK' /\ TodoCurrent' /\ MarkSound' /\ Synced' /\ SaveSound'
  BY <1>1 DEF RunOK, ControlOK, TodoCurrent, MarkSound, Synced, SaveSound, Places,
              Items, Early, Planned, sides, plan, store
<1>5. QED
  BY <1>2, <1>3, <1>4 DEF DriveInv, RunOK
LEMMA TimeoutInv == ASSUME DriveInv, Timeout PROVE DriveInv'
<1>1. RunOK /\ mem # None /\ Write(mem) /\ pc' = "timeout" /\ UNCHANGED <<sides, tmp, cursor, plan>>
  BY NotIdle DEF Timeout, DriveInv, InTime
<1>2. StoreOK' /\ mem' # None /\ mem'.case = mem.case /\ mem'.snap = mem.snap
  BY <1>1, Rewritten
<1>3. RunOK'
  <2>1. SaveSound'
    BY <1>1 DEF SaveSound
  <2>2. QED
    BY <1>1, <1>2, <2>1, MovedRun DEF Places, Items, Early, Planned
<1>4. QED
  BY <1>2, <1>3 DEF DriveInv

\* The process is gone, the files are as they were.
LEMMA GoneInv ==
  ASSUME DriveInv, Ended, UNCHANGED <<sides, tmp, cursor, disk, journal, blame>>
  PROVE  DriveInv'
<1>1. StoreOK'
  BY LeftStore DEF DriveInv, StoreLeft, Ended
<1>2. RunOK'
  BY EndedRun DEF DriveInv
<1>3. QED
  BY <1>1, <1>2 DEF DriveInv

LEMMA CrashInv == ASSUME DriveInv, Crash PROVE DriveInv'
  BY GoneInv DEF Crash

LEMMA EndTimeoutInv == ASSUME DriveInv, EndTimeout PROVE DriveInv'
  BY GoneInv DEF EndTimeout

LEMMA DiscardInv == ASSUME DriveInv, Discard PROVE DriveInv'
<1>1. StoreOK'
  BY DiscardedStore DEF DriveInv, StoreDiscarded, Discard, Ended
<1>2. RunOK'
  BY EndedRun DEF DriveInv, Discard
<1>3. QED
  BY <1>1, <1>2 DEF DriveInv

\* The case is closed: the checkpoint is written with the outcome.
LEMMA ClosedInv ==
  ASSUME DriveInv, pc = "conclude", pc' = "save", ~failed,
         UNCHANGED <<sides, tmp, cursor, plan>>,
         NEW m \in Checkpoints, Write(m), SoundCheckpoint(m), m.seq = mem.seq,
         m.case = mem.case, m.snap = mem.snap, m.done = mem.done,
         m.deferred \/ (~collides /\ Proven(mem))
  PROVE  DriveInv'
<1>1. StoreOK /\ RunOK /\ mem # None /\ StoreTyped
  BY NotIdle DEF DriveInv, StoreOK
<1>2. StoreOK'
  BY <1>1, WrittenStore DEF StoreWritten
<1>3. /\ mem' # None /\ mem'.case = m.case /\ mem'.snap = m.snap /\ mem'.done = m.done
      /\ mem'.deferred = m.deferred
  BY <1>1, WriteEffect, CheckpointIsReal
<1>4. SaveSound'
  BY <1>3 DEF SaveSound, Proven, Completed, plan
<1>5. todo = {}
  BY <1>1 DEF RunOK, ControlOK
<1>6. RunOK'
  BY <1>1, <1>3, <1>4, <1>5, MovedRun DEF Places, Items, Early, Planned
<1>7. QED
  BY <1>2, <1>6 DEF DriveInv

LEMMA ConcludeInv == ASSUME DriveInv, Conclude PROVE DriveInv'
<1>1. /\ StoreOK /\ RunOK /\ ~dirty /\ pc = "conclude" /\ UNCHANGED <<sides, tmp, cursor>>
      /\ mem # None
  BY NotIdle DEF Conclude, DriveInv
<1>2. mem \in Checkpoints /\ SoundCheckpoint(mem)
  BY <1>1, Running
<1>3. CASE failed /\ cursor = next /\ pc' = "discard" /\ UNCHANGED <<plan, store, blame>>
  <2>1. StoreOK'
    BY <1>1, <1>3, KeptStore DEF StoreKept, store
  <2>2. SaveSound' /\ mem' = mem /\ ~dirty'
    BY <1>1, <1>3 DEF SaveSound, store
  <2>3. RunOK'
    BY <1>1, <1>3, <2>2, MovedRun DEF Places, Items, Early, Planned
  <2>4. QED
    BY <2>1, <2>3 DEF DriveInv
<1>4. CASE Ended /\ UNCHANGED <<disk, journal, blame>>
  BY <1>1, <1>4, GoneInv
<1>5. CASE /\ ~failed /\ collides
           /\ Write([mem EXCEPT !.complete = FALSE, !.deferred = TRUE])
           /\ pc' = "save" /\ UNCHANGED plan
  <2> DEFINE m == [mem EXCEPT !.complete = FALSE, !.deferred = TRUE]
  <2>1. /\ m \in Checkpoints /\ m.seq = mem.seq /\ m.case = mem.case /\ m.snap = mem.snap
        /\ m.done = mem.done /\ m.deferred = TRUE /\ m.complete = FALSE
    BY <1>2 DEF Checkpoints
  <2>2. Write(m)
    BY <1>5
  <2> HIDE DEF m
  <2>3. SoundCheckpoint(m)
    BY <1>2, <2>1 DEF SoundCheckpoint, Completed
  <2>4. QED
    BY <1>1, <1>5, <2>1, <2>2, <2>3, ClosedInv
<1>6. CASE /\ ~failed /\ ~collides /\ Proven(mem)
           /\ Write([mem EXCEPT !.complete = TRUE])
           /\ pc' = "save" /\ UNCHANGED plan
  <2> DEFINE m == [mem EXCEPT !.complete = TRUE]
  <2>1. /\ m \in Checkpoints /\ m.seq = mem.seq /\ m.case = mem.case /\ m.snap = mem.snap
        /\ m.done = mem.done /\ m.complete = TRUE
    BY <1>2 DEF Checkpoints
  <2>2. Write(m)
    BY <1>6
  <2> HIDE DEF m
  <2>3. SoundCheckpoint(m)
    BY <1>2, <1>6, <2>1 DEF SoundCheckpoint, Completed, Proven
  <2>4. QED
    BY <1>1, <1>6, <2>1, <2>2, <2>3, ClosedInv
<1>7. QED
  BY <1>3, <1>4, <1>5, <1>6 DEF Conclude
-----------------------------------------------------------------------------
(* The plan.                                                               *)

LEMMA BoundSound ==
  ASSUME NEW m \in Checkpoints, SoundCheckpoint(m), NEW tokens \in SUBSET Tokens
  PROVE  LET n == Bound(m, tokens)
         IN  /\ n \in Checkpoints /\ SoundCheckpoint(n) /\ n.seq = m.seq
             /\ n.case = m.case /\ n.snap = tokens
<1> DEFINE p == [t \in Tokens |-> IF t \in tokens THEN m.part[t] ELSE Nothing]
           b == m.complete /\ m.snap = tokens
           n == [m EXCEPT !.snap = tokens, !.deferred = FALSE, !.complete = b, !.part = p]
<1>1. p \in [Tokens -> Contents] /\ b \in BOOLEAN /\ (b => m.complete /\ m.snap = tokens)
  BY SmallContents DEF Checkpoints
<1>2. Bound(m, tokens) = n
  BY DEF Bound, Checkpoints
<1> HIDE DEF p, b
<1>3. /\ n \in Checkpoints /\ n.seq = m.seq /\ n.case = m.case /\ n.snap = tokens
      /\ n.done = m.done /\ n.complete = b
  BY <1>1 DEF Checkpoints
<1> HIDE DEF n
<1>4. SoundCheckpoint(n)
  BY <1>1, <1>3 DEF SoundCheckpoint, Completed, Proven
<1>5. QED
  BY <1>2, <1>3, <1>4

LEMMA MissingTokens ==
  ASSUME SidesTyped, NEW c, NEW unseen
  PROVE  /\ Missing(c, unseen) \subseteq Tokens
         /\ \A t \in Missing(c, unseen) : t[2] = src[FileOf(t)]
         /\ \A f \in FilesOf(c) \ Unmapped :
              \/ f \in unseen \cap Uploads \/ dest[f] # Nothing
              \/ <<f, src[f]>> \in Missing(c, unseen)
<1>1. ASSUME NEW f \in Files PROVE <<f, src[f]>> \in Tokens
  BY DEF SidesTyped, Tokens
<1>2. QED
  BY <1>1 DEF Missing, FilesOf, FileOf

\* A plan is bound and taken up: what it names is the source as it is, and but
\* for a collision or a failure it names what is lacking, the files of
\* "excused" and the refused ones left out.
LEMMA BoundRun ==
  ASSUME DriveInv, pc \in {"plan", "bind", "unmatched"}, pc' = "download",
         UNCHANGED <<src, dest, listed, tmp, cursor, next, current>>,
         NEW tokens \in SUBSET Tokens, Write(Bound(mem, tokens)), todo' = tokens,
         failed' \in BOOLEAN, collides' \in BOOLEAN, excused' \subseteq Files,
         \A t \in tokens : t[2] = src[FileOf(t)],
         ~failed' /\ ~collides' =>
           \A f \in FilesOf(mem.case) \ (excused' \cup Unmapped) :
              dest[f] # Nothing \/ <<f, src[f]>> \in tokens
  PROVE  DriveInv'
<1>1. /\ StoreOK /\ RunOK /\ StoreTyped /\ mem # None /\ mem \in Checkpoints
      /\ SoundCheckpoint(mem)
  BY NotIdle, Running DEF DriveInv, StoreOK
<1> DEFINE m == Bound(mem, tokens)
<1>2. /\ m \in Checkpoints /\ SoundCheckpoint(m) /\ m.seq = mem.seq
      /\ m.case = mem.case /\ m.snap = tokens /\ Write(m)
  BY <1>1, BoundSound
<1> HIDE DEF m
<1>3. StoreOK'
  BY <1>1, <1>2, WrittenStore DEF StoreWritten
<1>4. mem' # None /\ mem'.case = mem.case /\ mem'.snap = tokens
  BY <1>1, <1>2, WriteEffect, CheckpointIsReal
<1>5. SidesTyped' /\ TmpTyped' /\ PlanTyped'
  BY <1>1, <1>4 DEF RunOK, SidesTyped, TmpTyped, PlanTyped, Offsets
<1>6. ControlOK' /\ MarkSound' /\ SaveSound'
  BY DEF ControlOK, MarkSound, SaveSound, Places, Items, Early, Planned
<1>7. TodoCurrent'
  <2>1. SUFFICES ASSUME NEW t \in tokens
                 PROVE  t[2] <= src[FileOf(t)] /\ t[2] = src[FileOf(t)]
    BY DEF TodoCurrent
  <2>2. t[2] = src[FileOf(t)] /\ t[2] \in Nat
    BY TokenParts
  <2>3. QED
    BY <2>2
<1>8. Synced'
  <2>1. SUFFICES ASSUME ~failed', ~collides'
                 PROVE  /\ \A f \in FilesOf(mem.case) \ (excused' \cup Unmapped) :
                             dest[f] # Nothing \/ <<f, src[f]>> \in tokens
                        /\ \A t \in tokens : t[2] = src[FileOf(t)] /\ t \in tokens
    BY <1>4 DEF Synced, FilesOf
  <2>2. QED
    BY <2>1
<1>9. QED
  BY <1>3, <1>5, <1>6, <1>7, <1>8 DEF DriveInv, RunOK

LEMMA PlanInv == ASSUME DriveInv, Plan PROVE DriveInv'
<1>1. /\ pc \in {"plan", "bind"} /\ pc' = "download"
      /\ UNCHANGED <<src, dest, listed, tmp, cursor, next, current>>
      /\ SidesTyped /\ todo = {} /\ collides \in BOOLEAN
  BY DEF Plan, DriveInv, RunOK, ControlOK, PlanTyped, Early
<1>2. ASSUME NEW unseen, NEW collision \in BOOLEAN, PlanSeen(mem.case, unseen, collision)
      PROVE  DriveInv'
  <2> DEFINE tokens == IF collision THEN {} ELSE Missing(mem.case, unseen)
  <2>1. /\ Write(Bound(mem, tokens)) /\ todo' = tokens /\ failed' \in BOOLEAN
        /\ collides' = collision /\ excused' = unseen \cap Uploads
    BY <1>2 DEF PlanSeen
  <2>2. /\ tokens \in SUBSET Tokens /\ \A t \in tokens : t[2] = src[FileOf(t)]
        /\ ~collision => tokens = Missing(mem.case, unseen)
    BY <1>1, MissingTokens
  <2>3. excused' \subseteq Files
    BY <2>1, DriveAssumption
  <2> HIDE DEF tokens
  <2>4. ~failed' /\ ~collides' =>
          \A f \in FilesOf(mem.case) \ (excused' \cup Unmapped) :
             dest[f] # Nothing \/ <<f, src[f]>> \in tokens
    BY <1>1, <2>1, <2>2, MissingTokens
  <2>5. QED
    BY <1>1, <2>1, <2>2, <2>3, <2>4, BoundRun
<1>3. CASE Write(Bound(mem, {})) /\ failed' = TRUE /\ excused' = {}
           /\ UNCHANGED <<todo, collides>>
  BY <1>1, <1>3, BoundRun
<1>4. (mem.case \in Colliding) \in BOOLEAN /\ FALSE \in BOOLEAN
  OBVIOUS
<1>5. \/ PlanSeen(mem.case, {}, mem.case \in Colliding)
      \/ \E unseen \in SUBSET FilesOf(mem.case) :
             \/ PlanSeen(mem.case, unseen, FALSE)
             \/ PlanSeen(mem.case, unseen, mem.case \in Colliding)
      \/ /\ Write(Bound(mem, {})) /\ failed' = TRUE /\ excused' = {}
         /\ UNCHANGED <<todo, collides>>
  BY ZenonT(30) DEF Plan
<1>6. QED
  BY <1>2, <1>3, <1>4, <1>5, ZenonT(30)

LEMMA PlanNothingInv == ASSUME DriveInv, PlanNothing PROVE DriveInv'
<1>1. /\ pc = "unmatched" /\ pc' = "download" /\ Write(Bound(mem, {}))
      /\ UNCHANGED <<src, dest, listed, tmp, cursor, next, current, todo, failed, collides>>
      /\ excused' = FilesOf(mem.case)
  BY DEF PlanNothing, plan
<1>2. todo = {} /\ failed \in BOOLEAN /\ collides \in BOOLEAN
  BY <1>1 DEF DriveInv, RunOK, ControlOK, PlanTyped, Early
<1>3. QED
  BY <1>1, <1>2, BoundRun DEF FilesOf
-----------------------------------------------------------------------------
(* The items.  Three things can happen to one: it fails, it is done with,   *)
(* or the worker goes on with it.                                           *)

Transfers == {"get", "put"}

LEMMA FailedRun ==
  ASSUME RunOK, UNCHANGED <<src, listed, excused, cursor, next, collides>>, SidesTyped', TmpTyped',
         mem' # None, todo' \subseteq todo, failed' = TRUE, pc' \in Transfers
  PROVE  RunOK'
<1>1. PlanTyped'
  BY DEF RunOK, PlanTyped, Offsets, Transfers
<1>2. TodoCurrent'
  BY DEF RunOK, TodoCurrent
<1>3. ControlOK' /\ MarkSound' /\ Synced' /\ SaveSound'
  BY DEF ControlOK, MarkSound, Synced, SaveSound, Transfers, Places, Items, Early, Planned
<1>4. QED
  BY <1>1, <1>2, <1>3 DEF RunOK

LEMMA DoneRun ==
  ASSUME RunOK, UNCHANGED <<sides, cursor, next, failed, collides>>, TmpTyped',
         mem' # None, mem'.case = mem.case, mem'.snap = mem.snap,
         NEW t, todo' = todo \ {t}, pc \in Planned, pc' \in Transfers,
         t \in Large \/ (FileOf(t) \notin excused => Delivered(t))
  PROVE  RunOK'
<1>1. SidesTyped' /\ PlanTyped'
  BY DEF RunOK, SidesTyped, PlanTyped, Offsets, Transfers, sides
<1>2. TodoCurrent'
  BY DEF RunOK, TodoCurrent, sides
<1>3. ControlOK' /\ MarkSound' /\ SaveSound'
  BY DEF ControlOK, MarkSound, SaveSound, Transfers, Places, Items, Early, Planned
<1>4. Synced'
  <2>1. \A u : Delivered(u)' = Delivered(u)
    BY DEF Delivered, sides
  <2>2. SUFFICES ASSUME ~failed, ~collides
        PROVE  /\ \A f \in FilesOf(mem.case) \ (excused \cup Unmapped) :
                     dest[f] # Nothing \/ <<f, src[f]>> \in mem.snap
               /\ \A u \in mem.snap : FileOf(u) \notin excused =>
                     /\ u[2] = src[FileOf(u)]
                     /\ u \in todo \ {t} \/ u \in Large \/ Delivered(u)
    BY <2>1 DEF Synced, sides, FilesOf
  <2>3. /\ \A f \in FilesOf(mem.case) \ (excused \cup Unmapped) :
              dest[f] # Nothing \/ <<f, src[f]>> \in mem.snap
        /\ \A u \in mem.snap : FileOf(u) \notin excused =>
              /\ u[2] = src[FileOf(u)]
              /\ u \in todo \/ u \in Large \/ Delivered(u)
    BY <2>2 DEF RunOK, Synced
  <2>4. QED
    BY <2>3
<1>5. QED
  BY <1>1, <1>2, <1>3, <1>4 DEF RunOK

\* The file of t may be put at its destination meanwhile.
LEMMA HeldRun ==
  ASSUME RunOK, UNCHANGED <<src, listed, excused, cursor, next, todo, failed, collides>>, TmpTyped',
         mem \in Checkpoints,
         mem' # None, mem'.case = mem.case, mem'.snap = mem.snap, ~dirty',
         NEW t \in todo, t \notin Large, current'.token = t,
         pc \in Planned, pc' \in Items, MarkSound',
         \/ dest' = dest
         \/ \E row \in Contents :
               /\ row # Nothing /\ dest' = [dest EXCEPT ![FileOf(t)] = row]
               /\ FileOf(t) \in Checked \ excused => row = Whole(t)
  PROVE  RunOK'
<1>1. SidesTyped /\ t \in Tokens /\ FileOf(t) \in Files /\ mem.snap \subseteq Tokens
  BY TokenParts DEF RunOK, PlanTyped, Checkpoints
<1>2. SidesTyped'
  BY <1>1 DEF SidesTyped
<1>3. PlanTyped'
  BY DEF RunOK, PlanTyped, Offsets, Items
<1>4. TodoCurrent'
  BY DEF RunOK, TodoCurrent
<1>5. ControlOK' /\ SaveSound'
  BY DEF ControlOK, SaveSound, Places, Items, Early, Planned
<1>6. /\ \A f \in Files : f # FileOf(t) => dest'[f] = dest[f]
      /\ \A f \in Files : dest[f] # Nothing => dest'[f] # Nothing
  BY <1>1 DEF SidesTyped
<1>7. Synced'
  <2>1. SUFFICES ASSUME ~failed, ~collides
        PROVE  /\ \A f \in FilesOf(mem.case) \ (excused \cup Unmapped) :
                     dest'[f] # Nothing \/ <<f, src[f]>> \in mem.snap
               /\ \A u \in mem.snap : FileOf(u) \notin excused =>
                     /\ u[2] = src[FileOf(u)]
                     /\ u \in todo \/ u \in Large \/ Delivered(u)'
    BY DEF Synced, FilesOf
  <2>2. /\ \A f \in FilesOf(mem.case) \ (excused \cup Unmapped) :
              dest[f] # Nothing \/ <<f, src[f]>> \in mem.snap
        /\ \A u \in mem.snap : FileOf(u) \notin excused =>
              /\ u[2] = src[FileOf(u)]
              /\ u \in todo \/ u \in Large \/ Delivered(u)
    BY <2>1 DEF RunOK, Synced
  <2>3. ASSUME NEW f \in FilesOf(mem.case) \ (excused \cup Unmapped)
        PROVE  dest'[f] # Nothing \/ <<f, src[f]>> \in mem.snap
    BY <1>6, <2>2, <2>3 DEF FilesOf
  <2>4. ASSUME NEW u \in mem.snap, FileOf(u) \notin excused
        PROVE  /\ u[2] = src[FileOf(u)]
               /\ u \in todo \/ u \in Large \/ Delivered(u)'
    <3>1. u \in Tokens /\ u[2] = src[FileOf(u)] /\ FileOf(u) \in Files
      BY <1>1, <2>2, <2>4, TokenParts
    <3>2. CASE FileOf(u) = FileOf(t)
      <4>1. t[2] = u[2]
        BY <2>4, <3>1, <3>2 DEF RunOK, TodoCurrent
      <4>2. u = t
        BY <1>1, <3>1, <3>2, <4>1, TokenParts
      <4>3. QED
        BY <3>1, <4>2
    <3>3. CASE FileOf(u) # FileOf(t)
      <4>1. Delivered(u) => Delivered(u)'
        BY <1>6, <3>1, <3>3 DEF Delivered
      <4>2. QED
        BY <2>2, <2>4, <4>1
    <3>4. QED
      BY <3>2, <3>3
  <2>5. QED
    BY <2>3, <2>4
<1>8. QED
  BY <1>2, <1>3, <1>4, <1>5, <1>7 DEF RunOK
LEMMA GetFileInv == ASSUME DriveInv, NEW t \in Tokens, GetFile(t) PROVE DriveInv'
<1> DEFINE f == FileOf(t)
           there == dest[f]
           proof == IF f \in Checked THEN Whole(t) ELSE mem.done[t]
<1>1. /\ StoreOK /\ RunOK /\ SidesTyped /\ TmpTyped
      /\ pc = "get" /\ ~dirty /\ t \in todo /\ f \notin Uploads
      /\ UNCHANGED <<sides, cursor, store, next, collides, blame>>
      /\ mem # None /\ mem \in Checkpoints /\ f \in Files
  BY NotIdle, Running, TokenParts DEF GetFile, DriveInv, RunOK
<1>2. StoreOK'
  BY <1>1, KeptStore DEF StoreKept, store
<1>3. mem' = mem /\ mem' # None /\ dirty' = dirty
  BY <1>1 DEF store
<1>4. UNCHANGED <<src, dest, listed, excused>> /\ SidesTyped'
  BY <1>1 DEF sides, SidesTyped
<1>5. CASE t \in Large /\ Drops(t) /\ UNCHANGED <<pc, current, tmp, failed, collides>>
  <2>1. TmpTyped'
    BY <1>1, <1>5 DEF TmpTyped
  <2>2. RunOK'
    BY <1>1, <1>3, <1>5, <2>1, DoneRun DEF Drops, Transfers, Planned
  <2>3. QED
    BY <1>2, <2>2 DEF DriveInv
<1>6. CASE /\ t \notin Large
           /\ tmp' = [tmp EXCEPT ![t] = IF @ = mem.part[t] THEN @ ELSE Nothing]
           /\ pc' = "fetch" /\ current' = [NoItem EXCEPT !.token = t]
           /\ UNCHANGED <<todo, failed, collides>>
  <2>1. tmp' = [tmp EXCEPT ![t] = tmp[t]] \/ tmp' = [tmp EXCEPT ![t] = Nothing]
    BY <1>1, <1>6 DEF TmpTyped
  <2>2. Len(Nothing) = 0 /\ Size[f] \in Nat
    BY <1>1, DriveAssumption DEF Nothing
  <2>3. TmpTyped'
    BY <1>1, <2>1, <2>2, SmallContents DEF TmpTyped
  <2>4. current'.token = t
    BY <1>6 DEF NoItem
  <2>5. MarkSound'
    BY <1>6 DEF MarkSound
  <2>6. RunOK'
    BY <1>1, <1>3, <1>4, <1>6, <2>3, <2>4, <2>5, HeldRun DEF Planned, Items
  <2>7. QED
    BY <1>2, <2>6 DEF DriveInv
<1>7. CASE /\ t \notin Large /\ there # Nothing /\ there = proof
           /\ tmp' = IF f \in Checked THEN [tmp EXCEPT ![t] = Nothing] ELSE tmp
           /\ pc' = "mark" /\ current' = [token |-> t, row |-> proof]
           /\ UNCHANGED <<todo, failed, collides>>
  <2>1. Len(Nothing) = 0 /\ Size[f] \in Nat
    BY <1>1, DriveAssumption DEF Nothing
  <2>2. TmpTyped'
    BY <1>1, <1>7, <2>1, SmallContents DEF TmpTyped
  <2>3. current'.token = t /\ current'.row = there
    BY <1>7
  <2>4. there \in Contents /\ (f \in Checked => there = Whole(t))
    BY <1>1, <1>7 DEF SidesTyped
  <2>5. MarkSound'
    BY <1>1, <1>4, <1>7, <2>3, <2>4 DEF MarkSound, Delivered
  <2>6. RunOK'
    BY <1>1, <1>3, <1>4, <1>7, <2>2, <2>3, <2>5, HeldRun DEF Planned, Items
  <2>7. QED
    BY <1>2, <2>6 DEF DriveInv
<1>8. CASE Fails(t) /\ UNCHANGED <<pc, current, tmp>>
  <2>1. TmpTyped' /\ todo' \subseteq todo /\ failed' = TRUE /\ pc' \in Transfers
    BY <1>1, <1>8 DEF TmpTyped, Fails, Drops, Transfers
  <2>2. RunOK'
    BY <1>1, <1>3, <1>4, <2>1, FailedRun
  <2>3. QED
    BY <1>2, <2>2 DEF DriveInv
<1>9. QED
  BY <1>1, <1>5, <1>6, <1>7, <1>8 DEF GetFile

\* The item in hand.
LEMMA InHand ==
  ASSUME DriveInv, pc \in Items
  PROVE  /\ StoreOK /\ RunOK /\ SidesTyped /\ TmpTyped /\ ~dirty
         /\ current.token \in todo /\ current.token \in Tokens /\ current.token \notin Large
         /\ FileOf(current.token) \in Files /\ Size[FileOf(current.token)] \in Nat \ {0}
         /\ mem # None /\ mem \in Checkpoints /\ SoundCheckpoint(mem) /\ StoreTyped
<1>1. mem # None
  BY NotIdle DEF Items
<1>2. current.token \in todo /\ current.token \in Tokens
  BY DEF DriveInv, RunOK, ControlOK, PlanTyped
<1>3. QED
  BY <1>1, <1>2, Running, TokenParts, DriveAssumption
     DEF DriveInv, RunOK, ControlOK, StoreOK

LEMMA GivenUp ==
  ASSUME DriveInv, pc \in Items, NEW stage \in Transfers, GiveUp(stage),
         UNCHANGED <<sides, cursor>>, TmpTyped', StoreOK', mem' # None
  PROVE  DriveInv'
<1>1. /\ todo' \subseteq todo /\ failed' = TRUE /\ pc' \in Transfers
      /\ UNCHANGED <<src, listed, excused, next, collides>>
  BY DEF GiveUp, Fails, Drops, sides
<1>2. SidesTyped'
  BY InHand DEF SidesTyped, sides
<1>3. RunOK'
  BY <1>1, <1>2, InHand, FailedRun
<1>4. QED
  BY <1>3 DEF DriveInv

LEMMA FetchChunkInv == ASSUME DriveInv, FetchChunk PROVE DriveInv'
<1> DEFINE t == current.token
           f == FileOf(t)
<1>1. /\ pc \in Items /\ pc = "fetch" /\ UNCHANGED <<sides, cursor, store, blame>>
      /\ \/ /\ Len(tmp[t]) < Size[f]
            /\ tmp' = [tmp EXCEPT ![t] = Append(@, src[f])]
            /\ pc' = "record" /\ UNCHANGED plan
         \/ GiveUp("get") /\ UNCHANGED tmp
  BY DEF FetchChunk, Items
<1>2. /\ StoreOK /\ RunOK /\ SidesTyped /\ TmpTyped /\ ~dirty
      /\ t \in todo /\ t \in Tokens /\ t \notin Large
      /\ f \in Files /\ Size[f] \in Nat \ {0}
      /\ mem # None /\ mem \in Checkpoints
  BY <1>1, InHand
<1>3. StoreOK'
  BY <1>1, <1>2, KeptStore DEF StoreKept, store
<1>4. mem' = mem /\ mem' # None /\ dirty' = dirty
  BY <1>1, <1>2 DEF store
<1>5. CASE GiveUp("get") /\ UNCHANGED tmp
  <2>1. TmpTyped' /\ "get" \in Transfers
    BY <1>2, <1>5 DEF TmpTyped, Transfers
  <2>2. QED
    BY <1>1, <1>3, <1>4, <1>5, <2>1, GivenUp
<1>6. CASE /\ Len(tmp[t]) < Size[f]
           /\ tmp' = [tmp EXCEPT ![t] = Append(@, src[f])]
           /\ pc' = "record" /\ UNCHANGED plan
  <2> DEFINE longer == Append(tmp[t], src[f])
  <2>1. tmp[t] \in Seq(0 .. MaxVersion + 1) /\ src[f] \in 0 .. MaxVersion + 1
    BY <1>2, DriveAssumption DEF TmpTyped, Contents, SidesTyped
  <2>2. longer \in Contents /\ Len(longer) <= Size[f]
    BY <1>2, <1>6, <2>1 DEF Contents
  <2>3. tmp' = [tmp EXCEPT ![t] = longer]
    BY <1>2, <1>6 DEF TmpTyped
  <2> HIDE DEF longer
  <2>4. TmpTyped'
    BY <1>2, <2>2, <2>3 DEF TmpTyped
  <2>5. MarkSound'
    BY <1>6 DEF MarkSound
  <2>6. UNCHANGED <<src, dest, listed, excused, cursor, next, todo, failed,
                    collides, current>>
    BY <1>1, <1>6 DEF sides, plan
  <2>7. RunOK'
    BY <1>1, <1>2, <1>4, <1>6, <2>4, <2>5, <2>6, HeldRun DEF Planned, Items
  <2>8. QED
    BY <1>3, <2>7 DEF DriveInv
<1>7. QED
  BY <1>1, <1>5, <1>6

LEMMA RecordPartialInv == ASSUME DriveInv, RecordPartial PROVE DriveInv'
<1> DEFINE t == current.token
           row == tmp[t]
           m == [mem EXCEPT !.part[t] = row]
           goesOn == /\ pc' = IF Len(row) = Size[FileOf(t)] THEN "publish" ELSE "fetch"
                     /\ UNCHANGED plan
<1>1. /\ pc \in Items /\ UNCHANGED <<sides, tmp, cursor>>
      /\ \/ Log(m, "partial", t, row) /\ goesOn /\ UNCHANGED blame
         \/ AppendRaises(m) /\ GiveUp("get")
         \/ AppendStopsShort(m) /\ goesOn
  BY DEF RecordPartial, Items
<1>2. /\ StoreOK /\ RunOK /\ TmpTyped /\ ~dirty
      /\ t \in todo /\ t \in Tokens /\ t \notin Large
      /\ mem # None /\ mem \in Checkpoints /\ SoundCheckpoint(mem) /\ row \in Contents
  BY <1>1, InHand DEF TmpTyped
<1>3. /\ m \in Checkpoints /\ SoundCheckpoint(m) /\ m.seq = mem.seq
      /\ m.case = mem.case /\ m.snap = mem.snap
  BY <1>2, RowsEdited
<1>4. TmpTyped'
  BY <1>1, <1>2 DEF TmpTyped
<1>5. StoreOK' /\ mem' = [m EXCEPT !.seq = @ + 1] /\ dirty' = dirty
  <2>1. CASE Log(m, "partial", t, row) /\ UNCHANGED blame
    <3> HIDE DEF row
    <3>1. StoreOK'
      BY <1>2, <2>1, LogPartial, LoggedStore
    <3>2. QED
      BY <2>1, <3>1 DEF Log
  <2>2. CASE AppendRaises(m) \/ AppendStopsShort(m)
    <3> HIDE DEF m
    <3>1. StoreLoses
      BY <1>2, <1>3, <2>2 DEF StoreLoses
    <3>2. QED
      BY <1>2, <2>2, <3>1, LosesStore DEF AppendRaises, AppendStopsShort, LosesLine
  <2>3. QED
    BY <1>1, <2>1, <2>2
<1> HIDE DEF m
<1>6. mem' # None /\ mem'.case = mem.case /\ mem'.snap = mem.snap
  <2>1. m.seq + 1 \in Nat \ {0}
    BY <1>3 DEF Checkpoints
  <2>2. QED
    BY <1>3, <1>5, <2>1, Renumbered, CheckpointIsReal
<1>7. CASE GiveUp("get")
  <2>1. "get" \in Transfers
    BY DEF Transfers
  <2>2. QED
    BY <1>1, <1>4, <1>5, <1>6, <1>7, <2>1, GivenUp
<1>8. CASE goesOn
  <2>1. UNCHANGED <<src, dest, listed, excused, cursor, next, todo, failed,
                    collides, current>>
    BY <1>1, <1>8 DEF sides, plan
  <2>2. pc' \in Items /\ MarkSound'
    BY <1>8 DEF MarkSound, Items
  <2>3. RunOK'
    BY <1>1, <1>2, <1>4, <1>5, <1>6, <2>1, <2>2, HeldRun DEF Planned, Items
  <2>4. QED
    BY <1>5, <2>3 DEF DriveInv
<1>9. QED
  BY <1>1, <1>7, <1>8
LEMMA PublishInv == ASSUME DriveInv, Publish PROVE DriveInv'
<1> DEFINE t == current.token
           f == FileOf(t)
           row == tmp[t]
<1>1. /\ pc \in Items /\ pc # "mark" /\ Len(row) = Size[f]
      /\ tmp' = [tmp EXCEPT ![t] = Nothing]
      /\ UNCHANGED <<src, listed, excused, cursor, store, blame>>
      /\ \/ GiveUp("get") /\ UNCHANGED <<dest, sides>>
         \/ /\ f \in Checked => row = Whole(t)
            /\ dest' = [dest EXCEPT ![f] = row]
            /\ current' = [token |-> t, row |-> row]
            /\ pc' = "mark" /\ UNCHANGED <<next, todo, failed, collides>>
  BY DEF Publish, Items, Received, sides
<1>2. /\ StoreOK /\ RunOK /\ SidesTyped /\ TmpTyped /\ ~dirty
      /\ t \in todo /\ t \in Tokens /\ t \notin Large
      /\ f \in Files /\ Size[f] \in Nat \ {0}
      /\ mem # None /\ mem \in Checkpoints /\ row \in Contents
  BY <1>1, InHand DEF TmpTyped
<1>3. StoreOK'
  BY <1>1, <1>2, KeptStore DEF StoreKept, store
<1>4. mem' = mem /\ mem' # None /\ dirty' = dirty
  BY <1>1, <1>2 DEF store
<1>5. TmpTyped'
  <2>1. Len(Nothing) = 0
    BY DEF Nothing
  <2>2. QED
    BY <1>1, <1>2, <2>1, SmallContents DEF TmpTyped
<1>6. CASE GiveUp("get") /\ UNCHANGED <<dest, sides>>
  <2>1. "get" \in Transfers
    BY DEF Transfers
  <2>2. QED
    BY <1>1, <1>3, <1>4, <1>5, <1>6, <2>1, GivenUp
<1>7. CASE /\ f \in Checked => row = Whole(t)
           /\ dest' = [dest EXCEPT ![f] = row]
           /\ current' = [token |-> t, row |-> row]
           /\ pc' = "mark" /\ UNCHANGED <<next, todo, failed, collides>>
  <2>1. row # Nothing
    BY <1>1, <1>2 DEF Nothing
  <2>2. current'.token = t /\ current'.row = row /\ dest'[f] = row
    BY <1>2, <1>7 DEF SidesTyped
  <2>3. t[2] <= src[f] /\ t[2] \in Nat /\ src[f] \in Nat /\ t = <<f, t[2]>>
    BY <1>2, TokenParts DEF RunOK, TodoCurrent, SidesTyped
  <2>4. f \in Uploads => \E v \in t[2] .. src[f] : row = Whole(<<f, v>>)
    <3>1. f \in Uploads => row = Whole(<<f, t[2]>>) /\ t[2] \in t[2] .. src[f]
      BY <1>7, <2>3, DriveAssumption
    <3>2. QED
      BY <3>1
  <2> HIDE DEF row
  <2>5. MarkSound'
    BY <1>1, <1>2, <1>7, <2>1, <2>2, <2>4 DEF MarkSound, Delivered
  <2>6. RunOK'
    BY <1>1, <1>2, <1>4, <1>5, <1>7, <2>1, <2>2, <2>5, HeldRun DEF Planned, Items
  <2>7. QED
    BY <1>3, <2>6 DEF DriveInv
<1>8. QED
  BY <1>1, <1>6, <1>7

LEMMA PutFileInv == ASSUME DriveInv, NEW t \in Tokens, PutFile(t) PROVE DriveInv'
<1> DEFINE f == FileOf(t)
           row == Content(f)
<1>1. /\ StoreOK /\ RunOK /\ SidesTyped /\ TmpTyped
      /\ pc = "put" /\ ~dirty /\ t \in todo /\ f \in Uploads
      /\ UNCHANGED <<src, listed, excused, edits, tmp, cursor, store, next, collides, blame>>
      /\ mem # None /\ mem \in Checkpoints /\ f \in Files
  BY NotIdle, Running, TokenParts DEF PutFile, DriveInv, RunOK
<1>2. StoreOK'
  BY <1>1, KeptStore DEF StoreKept, store
<1>3. mem' = mem /\ mem' # None /\ dirty' = dirty
  BY <1>1 DEF store
<1>4. TmpTyped'
  BY <1>1 DEF TmpTyped
<1>5. row \in Contents /\ row # Nothing
  <2>1. <<f, src[f]>> \in Tokens
    BY <1>1 DEF SidesTyped, Tokens
  <2>2. QED
    BY <2>1, WholeIsContent DEF Content
<1>6. t[2] <= src[f] /\ t[2] \in Nat /\ src[f] \in Nat /\ t = <<f, t[2]>>
  BY <1>1, TokenParts DEF RunOK, TodoCurrent, SidesTyped
<1>7. f \notin excused => row = Whole(t)
  BY <1>1, <1>6 DEF RunOK, TodoCurrent, Content
<1>8. CASE t \in Large /\ Drops(t) /\ UNCHANGED <<dest, pc, current, failed, collides>>
  <2>1. UNCHANGED sides
    BY <1>1, <1>8 DEF sides
  <2>2. RunOK'
    BY <1>1, <1>3, <1>4, <1>8, <2>1, DoneRun DEF Drops, Transfers, Planned
  <2>3. QED
    BY <1>2, <2>2 DEF DriveInv
<1>9. CASE /\ t \notin Large
           /\ dest' = [dest EXCEPT ![f] = row]
           /\ pc' = "mark" /\ current' = [token |-> t, row |-> row]
           /\ UNCHANGED <<todo, failed, collides>>
  <2>1. current'.token = t /\ current'.row = row /\ dest'[f] = row
    BY <1>1, <1>9 DEF SidesTyped
  <2>2. \E v \in t[2] .. src[f] : row = Whole(<<f, v>>)
    <3>1. src[f] \in t[2] .. src[f] /\ row = Whole(<<f, src[f]>>)
      BY <1>6 DEF Content
    <3>2. QED
      BY <3>1
  <2> HIDE DEF row
  <2>3. MarkSound'
    BY <1>1, <1>5, <1>7, <1>9, <2>1, <2>2 DEF MarkSound, Delivered
  <2>4. RunOK'
    BY <1>1, <1>3, <1>4, <1>5, <1>7, <1>9, <2>1, <2>3, HeldRun DEF Planned, Items
  <2>5. QED
    BY <1>2, <2>4 DEF DriveInv
<1>10. CASE /\ dest' = [dest EXCEPT ![f] = row] \/ dest' = dest
            /\ Fails(t) /\ UNCHANGED <<pc, current>>
  <2> HIDE DEF row
  <2>1. SidesTyped'
    BY <1>1, <1>5, <1>10 DEF SidesTyped
  <2>2. todo' \subseteq todo /\ failed' = TRUE /\ pc' \in Transfers
    BY <1>1, <1>10 DEF Fails, Drops, Transfers
  <2>3. RunOK'
    BY <1>1, <1>3, <1>4, <2>1, <2>2, FailedRun
  <2>4. QED
    BY <1>2, <2>3 DEF DriveInv
<1>11. QED
  BY <1>8, <1>9, <1>10 DEF PutFile

LEMMA MarkCompletedInv == ASSUME DriveInv, MarkCompleted PROVE DriveInv'
<1> DEFINE t == current.token
           f == FileOf(t)
           row == current.row
           stage == IF f \in Uploads THEN "put" ELSE "get"
           m == [mem EXCEPT !.done[t] = row, !.part[t] = Nothing]
           goesOn == pc' = stage /\ current' = NoItem /\ Drops(t)
                     /\ UNCHANGED <<next, failed, collides>>
<1>1. /\ pc \in Items /\ pc = "mark" /\ UNCHANGED <<sides, tmp, cursor>>
      /\ \/ GiveUp(stage) /\ UNCHANGED <<store, blame>>
         \/ /\ ~(f \in Uploads /\ src[f] # t[2])
            /\ \/ Log(m, "completed", t, row) /\ goesOn /\ UNCHANGED blame
               \/ AppendRaises(m) /\ GiveUp(stage)
               \/ AppendStopsShort(m) /\ goesOn
  BY DEF MarkCompleted, Items
<1>2. /\ StoreOK /\ RunOK /\ SidesTyped /\ TmpTyped /\ ~dirty
      /\ t \in todo /\ t \in Tokens /\ t \notin Large /\ f \in Files
      /\ mem # None /\ mem \in Checkpoints /\ SoundCheckpoint(mem)
  BY <1>1, InHand
<1>3. /\ row \in Contents \ {Nothing}
      /\ f \in Checked \ Uploads => row = Whole(t)
      /\ f \in Uploads => \E v \in t[2] .. src[f] : row = Whole(<<f, v>>)
      /\ f \notin excused => Delivered(t)
  BY <1>1, <1>2 DEF RunOK, MarkSound
<1>4. TmpTyped' /\ stage \in Transfers
  BY <1>1, <1>2 DEF TmpTyped, Transfers
<1> HIDE DEF row
<1>5. CASE GiveUp(stage) /\ UNCHANGED <<store, blame>>
  <2>1. StoreOK' /\ mem' # None
    BY <1>2, <1>5, KeptStore DEF StoreKept, store
  <2>2. QED
    BY <1>1, <1>4, <1>5, <2>1, GivenUp
<1>6. CASE /\ ~(f \in Uploads /\ src[f] # t[2])
           /\ \/ Log(m, "completed", t, row) /\ goesOn /\ UNCHANGED blame
              \/ AppendRaises(m) /\ GiveUp(stage)
              \/ AppendStopsShort(m) /\ goesOn
  <2>1. SoundRow(t, row)
    <3>1. CASE f \in Uploads
      <4>1. src[f] = t[2] /\ t[2] \in Nat /\ t = <<f, t[2]>>
        BY <1>2, <1>6, <3>1, TokenParts
      <4>2. PICK v \in t[2] .. src[f] : row = Whole(<<f, v>>)
        BY <1>3, <3>1
      <4>3. v = t[2]
        BY <4>1, <4>2
      <4>4. row = Whole(t)
        BY <4>1, <4>2, <4>3
      <4>5. QED
        BY <1>2, <4>4 DEF SoundRow
    <3>2. CASE f \notin Uploads
      BY <1>2, <1>3, <3>2 DEF SoundRow
    <3>3. QED
      BY <3>1, <3>2
  <2>2. /\ m \in Checkpoints /\ SoundCheckpoint(m) /\ m.seq = mem.seq
        /\ m.case = mem.case /\ m.snap = mem.snap
    BY <1>2, <1>3, <2>1, RowsEdited
  <2>3. StoreOK' /\ mem' = [m EXCEPT !.seq = @ + 1] /\ dirty' = dirty
    <3>1. CASE Log(m, "completed", t, row) /\ UNCHANGED blame
      <4>1. StoreOK'
        BY <1>2, <1>3, <2>1, <3>1, LogCompleted, LoggedStore
      <4>2. QED
        BY <3>1, <4>1 DEF Log
    <3>2. CASE AppendRaises(m) \/ AppendStopsShort(m)
      <4> HIDE DEF m
      <4>1. StoreLoses
        BY <1>2, <2>2, <3>2 DEF StoreLoses
      <4>2. QED
        BY <1>2, <3>2, <4>1, LosesStore DEF AppendRaises, AppendStopsShort, LosesLine
    <3>3. QED
      BY <1>6, <3>1, <3>2
  <2> HIDE DEF m
  <2>4. mem' # None /\ mem'.case = mem.case /\ mem'.snap = mem.snap
    <3>1. m.seq + 1 \in Nat \ {0}
      BY <2>2 DEF Checkpoints
    <3>2. QED
      BY <2>2, <2>3, <3>1, Renumbered, CheckpointIsReal
  <2>5. CASE GiveUp(stage)
    BY <1>1, <1>4, <2>3, <2>4, <2>5, GivenUp
  <2>6. CASE goesOn
    <3>1. RunOK'
      BY <1>1, <1>2, <1>3, <1>4, <2>4, <2>6, DoneRun DEF Drops, Planned, Items
    <3>2. QED
      BY <2>3, <3>1 DEF DriveInv
  <2>7. QED
    BY <1>6, <2>5, <2>6
<1>7. QED
  BY <1>1, <1>5, <1>6

LEMMA ItemFailsInv == ASSUME DriveInv, NEW t \in Tokens, ItemFails(t) PROVE DriveInv'
<1>1. /\ StoreOK /\ RunOK /\ SidesTyped /\ TmpTyped /\ pc \in Transfers /\ mem # None
      /\ UNCHANGED <<sides, tmp, cursor, store, pc, next, collides, blame>>
      /\ todo' \subseteq todo /\ failed' = TRUE
  BY NotIdle DEF ItemFails, DriveInv, RunOK, Transfers, Fails, Drops
<1>2. StoreOK' /\ mem' # None
  BY <1>1, KeptStore DEF StoreKept, store
<1>3. SidesTyped' /\ TmpTyped' /\ UNCHANGED <<src, listed, excused>>
  BY <1>1 DEF SidesTyped, TmpTyped, sides
<1>4. RunOK'
  BY <1>1, <1>2, <1>3, FailedRun
<1>5. QED
  BY <1>2, <1>4 DEF DriveInv
-----------------------------------------------------------------------------
(* What people do.                                                         *)

LEMMA EditLeaves ==
  ASSUME DriveInv, Edit
  PROVE  /\ UNCHANGED <<tmp, cursor, disk, journal, dirty, mem, pc, next, todo, current,
                        failed, collides, blame>>
         /\ StoreOK' /\ TmpTyped' /\ PlanTyped' /\ ControlOK' /\ SaveSound'
<1>1. UNCHANGED <<tmp, cursor, disk, journal, dirty, mem, pc, next, todo, current,
                  failed, collides, blame>>
  BY DEF Edit, store, plan
<1>2. StoreOK'
  BY <1>1, KeptStore DEF StoreKept, DriveInv
<1>3. TmpTyped' /\ PlanTyped'
  BY <1>1 DEF DriveInv, RunOK, TmpTyped, PlanTyped, Offsets
<1>4. ControlOK' /\ SaveSound'
  BY <1>1 DEF DriveInv, RunOK, ControlOK, SaveSound, Proven, Completed
<1>5. QED
  BY <1>1, <1>2, <1>3, <1>4

LEMMA EditSourceInv == ASSUME DriveInv, NEW f \in Files, EditSource(f) PROVE DriveInv'
<1>1. /\ UNCHANGED <<tmp, cursor, mem, pc, todo, current, failed, collides>>
      /\ StoreOK' /\ TmpTyped' /\ PlanTyped' /\ ControlOK' /\ SaveSound'
  BY EditLeaves DEF EditSource
<1>2. RunOK /\ SidesTyped /\ src[f] < MaxVersion /\ src' = [src EXCEPT ![f] = @ + 1]
      /\ excused' = excused \cup {f} /\ UNCHANGED <<dest, listed>> /\ PlanTyped
  BY DEF DriveInv, RunOK, EditSource
<1>3. /\ src[f] \in 0 .. MaxVersion /\ src'[f] = src[f] + 1 /\ MaxVersion \in Nat
      /\ src[f] + 1 \in 0 .. MaxVersion
      /\ \A g \in Files : g # f => src'[g] = src[g]
      /\ \A g \in Files : src[g] \in Nat /\ src'[g] \in Nat /\ src[g] <= src'[g]
  BY <1>2, DriveAssumption DEF SidesTyped
<1>4. SidesTyped'
  BY <1>2, <1>3 DEF SidesTyped
<1>5. TodoCurrent'
  <2>1. SUFFICES ASSUME NEW t \in todo
                 PROVE  /\ t[2] <= src'[FileOf(t)]
                        /\ FileOf(t) \notin excused' => t[2] = src'[FileOf(t)]
    BY <1>1 DEF TodoCurrent
  <2>2. /\ t[2] <= src[FileOf(t)] /\ t \in Tokens
        /\ FileOf(t) \notin excused => t[2] = src[FileOf(t)]
    BY <1>2 DEF RunOK, TodoCurrent, PlanTyped
  <2>3. t[2] \in Nat /\ FileOf(t) \in Files
    BY <2>2, TokenParts
  <2>4. QED
    BY <1>2, <1>3, <2>2, <2>3
<1>6. MarkSound'
  <2>1. SUFFICES ASSUME pc = "mark" PROVE MarkSound'
    BY <1>1 DEF MarkSound
  <2> DEFINE t == current.token
             g == FileOf(t)
  <2>2. /\ current.row \in Contents \ {Nothing}
        /\ g \in Checked \ Uploads => current.row = Whole(t)
        /\ g \in Uploads => \E v \in t[2] .. src[g] : current.row = Whole(<<g, v>>)
        /\ g \notin excused => Delivered(t)
    BY <1>2, <2>1 DEF RunOK, MarkSound
  <2>3. t \in Tokens /\ g \in Files /\ t[2] \in Nat
    BY <2>1, InHand, TokenParts DEF Items
  <2>4. \A v \in t[2] .. src[g] : v \in t[2] .. src'[g]
    BY <1>3, <2>3
  <2>5. g \notin excused' => Delivered(t)'
    BY <1>1, <1>2, <2>2 DEF Delivered
  <2>6. QED
    BY <1>1, <2>2, <2>4, <2>5 DEF MarkSound
<1>7. Synced'
  <2>1. SUFFICES ASSUME pc \in Planned, ~failed, ~collides
        PROVE  /\ \A g \in FilesOf(mem.case) \ (excused' \cup Unmapped) :
                     dest[g] # Nothing \/ <<g, src'[g]>> \in mem.snap
               /\ \A u \in mem.snap : FileOf(u) \notin excused' =>
                     /\ u[2] = src'[FileOf(u)]
                     /\ u \in todo \/ u \in Large \/ Delivered(u)
    BY <1>1, <1>2 DEF Synced, Delivered, FilesOf
  <2>2. /\ \A g \in FilesOf(mem.case) \ (excused \cup Unmapped) :
              dest[g] # Nothing \/ <<g, src[g]>> \in mem.snap
        /\ \A u \in mem.snap : FileOf(u) \notin excused =>
              /\ u[2] = src[FileOf(u)]
              /\ u \in todo \/ u \in Large \/ Delivered(u)
    BY <1>2, <2>1 DEF RunOK, Synced
  <2>3. \A u \in mem.snap : FileOf(u) \in Files
    <3>1. mem # None
      BY <2>1, NotIdle DEF Planned, Items
    <3>2. mem.snap \subseteq Tokens
      BY <3>1, Running DEF Checkpoints
    <3>3. QED
      BY <3>2, TokenParts
  <2>4. QED
    BY <1>2, <1>3, <2>2, <2>3 DEF FilesOf
<1>8. QED
  BY <1>1, <1>4, <1>5, <1>6, <1>7 DEF DriveInv, RunOK

LEMMA SaveTargetInv == ASSUME DriveInv, NEW f \in Files, SaveTarget(f) PROVE DriveInv'
<1>1. /\ UNCHANGED <<tmp, cursor, mem, pc, todo, current, failed, collides>>
      /\ StoreOK' /\ TmpTyped' /\ PlanTyped' /\ ControlOK' /\ SaveSound'
  BY EditLeaves DEF SaveTarget
<1>2. RunOK /\ SidesTyped /\ excused' = excused \cup {f} /\ UNCHANGED <<src, listed>>
      /\ \E x \in {Nothing, Foreign, Content(f)} : dest' = [dest EXCEPT ![f] = x]
  BY DEF DriveInv, RunOK, SaveTarget
<1>3. Content(f) \in Contents
  <2>1. <<f, src[f]>> \in Tokens
    BY <1>2 DEF SidesTyped, Tokens
  <2>2. QED
    BY <2>1, WholeIsContent DEF Content
<1>4. SidesTyped' /\ \A g \in Files : g # f => dest'[g] = dest[g]
  BY <1>2, <1>3, SmallContents DEF SidesTyped
<1>5. TodoCurrent'
  BY <1>1, <1>2 DEF RunOK, TodoCurrent
<1>6. ASSUME NEW t \in Tokens, FileOf(t) \notin excused', Delivered(t) PROVE Delivered(t)'
  BY <1>2, <1>4, <1>6, TokenParts DEF Delivered
<1>7. MarkSound'
  <2>1. SUFFICES ASSUME pc = "mark" PROVE MarkSound'
    BY <1>1 DEF MarkSound
  <2>2. current.token \in Tokens
    BY <2>1, InHand DEF Items
  <2>3. QED
    BY <1>1, <1>2, <1>6, <2>1, <2>2 DEF RunOK, MarkSound
<1>8. Synced'
  <2>1. SUFFICES ASSUME pc \in Planned, ~failed, ~collides
        PROVE  /\ \A g \in FilesOf(mem.case) \ (excused' \cup Unmapped) :
                     dest'[g] # Nothing \/ <<g, src[g]>> \in mem.snap
               /\ \A u \in mem.snap : FileOf(u) \notin excused' =>
                     /\ u[2] = src[FileOf(u)]
                     /\ u \in todo \/ u \in Large \/ Delivered(u)'
    BY <1>1, <1>2 DEF Synced, FilesOf
  <2>2. /\ \A g \in FilesOf(mem.case) \ (excused \cup Unmapped) :
              dest[g] # Nothing \/ <<g, src[g]>> \in mem.snap
        /\ \A u \in mem.snap : FileOf(u) \notin excused =>
              /\ u[2] = src[FileOf(u)]
              /\ u \in todo \/ u \in Large \/ Delivered(u)
    BY <1>2, <2>1 DEF RunOK, Synced
  <2>3. mem.snap \subseteq Tokens
    <3>1. mem # None
      BY <2>1, NotIdle DEF Planned, Items
    <3>2. QED
      BY <3>1, Running DEF Checkpoints
  <2>4. QED
    BY <1>2, <1>4, <1>6, <2>2, <2>3 DEF FilesOf
<1>9. QED
  BY <1>1, <1>4, <1>5, <1>7, <1>8 DEF DriveInv, RunOK

LEMMA RelistInv == ASSUME DriveInv, NEW c \in Cases, Relist(c) PROVE DriveInv'
<1>1. /\ UNCHANGED <<tmp, cursor, mem, pc, todo, current, failed, collides>>
      /\ StoreOK' /\ TmpTyped' /\ PlanTyped' /\ ControlOK' /\ SaveSound'
  BY EditLeaves DEF Relist
<1>2. /\ RunOK /\ UNCHANGED <<src, dest, excused>>
      /\ listed' = IF c \in listed THEN listed \ {c} ELSE listed \cup {c}
  BY DEF DriveInv, Relist
<1>3. SidesTyped'
  BY <1>2 DEF RunOK, SidesTyped
<1>4. TodoCurrent' /\ MarkSound' /\ Synced'
  BY <1>1, <1>2 DEF RunOK, TodoCurrent, MarkSound, Synced, Delivered, FilesOf
<1>5. QED
  BY <1>1, <1>3, <1>4 DEF DriveInv, RunOK

LEMMA StutterInv == ASSUME DriveInv, UNCHANGED vars PROVE DriveInv'
<1>1. UNCHANGED <<src, dest, listed, excused, tmp, cursor, disk, journal, dirty, mem,
                  pc, next, todo, current, failed, collides, blame>>
  BY DEF vars, sides, store, plan
<1>2. StoreOK'
  BY <1>1, KeptStore DEF StoreKept, DriveInv
<1>3. SidesTyped' /\ TmpTyped' /\ PlanTyped' /\ ControlOK' /\ SaveSound'
  BY <1>1 DEF DriveInv, RunOK, SidesTyped, TmpTyped, PlanTyped, Offsets, ControlOK,
              SaveSound, Proven, Completed
<1>4. TodoCurrent' /\ MarkSound' /\ Synced'
  BY <1>1 DEF DriveInv, RunOK, TodoCurrent, MarkSound, Synced, Delivered, FilesOf
<1>5. QED
  BY <1>2, <1>3, <1>4 DEF DriveInv, RunOK

-----------------------------------------------------------------------------
(* The theorems.                                                           *)

LEMMA NextInv == ASSUME DriveInv, [Next]_vars PROVE DriveInv'
<1>1. CASE WorkerStep
  <2>1. ASSUME NEW t \in Tokens, GetFile(t) \/ PutFile(t) \/ ItemFails(t) PROVE DriveInv'
    BY <2>1, GetFileInv, PutFileInv, ItemFailsInv
  <2>2. ASSUME NEW f \in Files, CacheHash(f) PROVE DriveInv'
    BY <2>2, CacheHashInv
  <2>3. QED
    BY <1>1, <2>1, <2>2, StartInv, SetPhaseInv, SkipCaseInv, EmptyJournalInv, PlanInv,
       PlanNothingInv, FetchChunkInv,
       RecordPartialInv, PublishInv, MarkCompletedInv, NextPartInv, ConcludeInv,
       SaveCursorInv, DiscardInv, EndTimeoutInv DEF WorkerStep
<1>2. CASE People
  BY <1>2, EditSourceInv, SaveTargetInv, RelistInv, DriveAssumption DEF People
<1>3. QED
  BY <1>1, <1>2, TimeoutInv, CrashInv, StutterInv DEF Next

\* The inductive invariant: what is stored can be recovered and proves what
\* was planned, and a run that has not failed has planned or found in place
\* every file it answers for, of the case it did not leave out
\* (run_priority_case_sync, build_file_sync_plan, DriveFileCheckpoint).
THEOREM DriveInvariance == Spec => []DriveInv
<1>1. DriveInv /\ [Next]_vars => DriveInv'
  BY NextInv
<1>2. QED
  BY InitInv, <1>1, PTL DEF Spec

\* Type correctness, and a worker's copy of the checkpoint exactly while a
\* worker runs.
THEOREM DriveTypeCorrect == Spec => []DriveTypeOK
<1>1. DriveInv => DriveTypeOK
  <2> SUFFICES ASSUME DriveInv PROVE DriveTypeOK
    OBVIOUS
  <2>1. SidesTyped /\ TmpTyped /\ PlanTyped /\ StoreTyped
    BY DEF DriveInv, RunOK, StoreOK
  <2>2. (mem = None) = (pc = "idle")
    BY <2>1 DEF PlanTyped
  <2>3. {cursor, next} \subseteq 0 .. Cardinality(Cases) - 1
    BY <2>1 DEF PlanTyped, Offsets
  <2>4. QED
    BY <2>1, <2>2, <2>3 DEF DriveTypeOK, SidesTyped, TmpTyped, PlanTyped, StoreTyped
<1>2. QED
  BY DriveInvariance, <1>1, PTL

\* A worker that opens the checkpoint finds exactly what the last one knew,
\* unless a line was lost or lines of another case were left.
THEOREM CheckpointRecoverable == Spec => []Recoverable
<1>1. DriveInv => Recoverable
  <2> SUFFICES ASSUME DriveInv, blame = {}
               PROVE  (mem # None => Recovered = mem) /\ Recovered # Broken
    BY DEF Recoverable
  <2>1. StoreOK /\ StoreSound
    BY DEF DriveInv, StoreOK
  <2>2. CASE disk = None
    <3>1. mem = None /\ Recovered = None
      BY <2>1, <2>2, RecoveredSound DEF StoreSound
    <3>2. None # Broken
      <4>1. None.case # Broken.case
        BY DEF None, Broken
      <4>2. QED
        BY <4>1
    <3>3. QED
      BY <3>1, <3>2
  <2>3. CASE disk # None
    <3>1. Recovered = Replay(disk, journal)
      BY <2>1, <2>3, RecoveredSound
    <3>2. QED
      BY <2>1, <2>3, <3>1 DEF StoreSound
  <2>4. QED
    BY <2>2, <2>3
<1>2. QED
  BY DriveInvariance, <1>1, PTL

\* A completion proof is a proof of the content the plan named, whatever the
\* journal has lost.
THEOREM ProofsNameThePlan == Spec => []ProofsAreOfThePlan
<1>1. DriveInv => ProofsAreOfThePlan
  <2> SUFFICES ASSUME DriveInv, NEW m \in {mem, Recovered} \ {None, Broken},
                      NEW t \in Completed(m), FileOf(t) \in Checked
               PROVE  m.done[t] = Whole(t)
    BY DEF ProofsAreOfThePlan
  <2>1. StoreOK
    BY DEF DriveInv
  <2>2. SoundCheckpoint(m)
    <3>1. CASE m = mem
      BY <2>1, <3>1 DEF StoreOK, RowsSound
    <3>2. CASE m = Recovered
      BY <2>1, <3>2, RecoveredSound
    <3>3. QED
      BY <3>1, <3>2
  <2>3. QED
    BY <2>2 DEF SoundCheckpoint, SoundRow
<1>2. QED
  BY DriveInvariance, <1>1, PTL

\* The cursor passes a case only when every file the run answers for is at its
\* destination, and whole there if it was planned and has a checksum.  A run
\* answers for no file of a case that resolve_case left out, and for none that
\* the naming rules refuse, that the scan passed over, or that people changed
\* since the plan; nor does it for a case put off for people to decide.
THEOREM CursorIsFinalCommit == Spec => CursorPassesSynced
<1> DEFINE Passes == cursor' # cursor /\ ~mem.deferred =>
                       /\ \A f \in FilesOf(mem.case) \ (excused \cup Unmapped) : dest[f] # Nothing
                       /\ \A t \in mem.snap : FileOf(t) \in Checked \ excused =>
                                                dest[FileOf(t)] = Whole(t)
<1>1. DriveInv /\ [Next]_vars => [Passes]_vars
  <2> SUFFICES ASSUME DriveInv, [Next]_vars, cursor' # cursor, ~mem.deferred
               PROVE  /\ \A f \in FilesOf(mem.case) \ (excused \cup Unmapped) : dest[f] # Nothing
                      /\ \A t \in mem.snap : FileOf(t) \in Checked \ excused =>
                                               dest[FileOf(t)] = Whole(t)
    OBVIOUS
  <2>1. SaveCursor
    BY DEF Next, WorkerStep, People, vars, Start, SetPhase, SkipCase, EmptyJournal, Plan,
           PlanSeen, PlanNothing, FetchChunk, RecordPartial, Publish, MarkCompleted,
           NextPart, Conclude, Discard, EndTimeout, CacheHash, GetFile, PutFile, ItemFails, Timeout, Crash, EditSource, SaveTarget,
           Relist, Edit
  <2>2. pc = "save" /\ mem # None /\ RunOK
    BY <2>1, NotIdle DEF SaveCursor, DriveInv
  <2>3. mem \in Checkpoints /\ SoundCheckpoint(mem)
    BY <2>2, Running
  <2>4. ~failed /\ ~collides /\ Proven(mem) /\ todo = {}
    BY <2>2 DEF RunOK, SaveSound, ControlOK
  <2>5. /\ \A f \in FilesOf(mem.case) \ (excused \cup Unmapped) :
              dest[f] # Nothing \/ <<f, src[f]>> \in mem.snap
        /\ \A t \in mem.snap : FileOf(t) \notin excused =>
              t \in todo \/ t \in Large \/ Delivered(t)
    BY <2>2, <2>4 DEF RunOK, Synced, Planned
  <2>6. \A t \in mem.snap : t \notin Large
    BY <2>3, <2>4 DEF SoundCheckpoint, SoundRow, Proven
  <2>7. \A t \in mem.snap : FileOf(t) \notin excused => Delivered(t)
    BY <2>4, <2>5, <2>6
  <2>8. \A f \in FilesOf(mem.case) \ (excused \cup Unmapped) : dest[f] # Nothing
    <3> TAKE f \in FilesOf(mem.case) \ (excused \cup Unmapped)
    <3>1. FileOf(<<f, src[f]>>) = f
      BY DEF FileOf
    <3>2. QED
      BY <2>5, <2>7, <3>1 DEF Delivered
  <2>9. QED
    BY <2>7, <2>8 DEF Delivered
<1>2. QED
  BY DriveInvariance, <1>1, PTL DEF Spec, CursorPassesSynced
=============================================================================
