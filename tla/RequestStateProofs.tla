------------------------- MODULE RequestStateProofs -------------------------
(***************************************************************************)
(* Proofs about RequestState, for any requests, families, checkpoint       *)
(* interval, retention window and bounds: a record is the fold of its      *)
(* journal in memory and in Storage, recovery gives back what the crash    *)
(* took, and no step rewrites the outcome of a request.                    *)
(*                                                                         *)
(* The predicates of the invariant take the events they speak of as a      *)
(* parameter, so that a lemma can compare two moments.                     *)
(***************************************************************************)
EXTENDS RequestState, SequenceTheorems, WellFoundedInduction, TLAPS

-----------------------------------------------------------------------------
(* The inductive invariant.                                                *)

\* RecordOf, over given events.
Picked(evs, ids, b) ==
  LET upto[n \in 0..Len(ids)] ==
        IF n = 0 THEN <<>>
        ELSE IF evs[ids[n]].family \in Writers[b] THEN Append(upto[n - 1], ids[n])
                                                  ELSE upto[n - 1]
  IN  upto[Len(ids)]
Fold(evs, ids) == [version |-> Len(ids) - 1, blocks |-> [b \in Blocks |-> Picked(evs, ids, b)]]

\* An event that process() journals for a request, by its position there.
Genuine(evs, r, j) ==
  /\ j \in Seq(1..Len(evs))
  /\ \A i, k \in 1..Len(j) : j[i] = j[k] => i = k
  /\ \A i \in 1..Len(j) :
       /\ evs[j[i]].rid = r /\ evs[j[i]].ok /\ evs[j[i]].family \in Registered
       /\ evs[j[i]].family = "request.received" <=> i = 1

Ends(evs, j, i) == evs[j[i]].family \in Terminals
Ended(evs, j) == \E i \in 1..Len(j) : Ends(evs, j, i)

\* After an event that ended the request, only late costs; what a checkpoint covers is
\* exempt, because recovery starts there as if the request were active.
LateCosts(evs, j, m) ==
  \A i, k \in 1..Len(j) :
    m < i /\ i < k /\ Ends(evs, j, i) => evs[j[k]].family = "cost.recorded"

\* What a request is worth: v is its state, record and journal.
Folded(evs, v) ==
  /\ v = [state |-> v.state, record |-> v.record, journal |-> v.journal]
  /\ v.state \in States
  /\ v.state = "absent" => v = Blank
  /\ v.state # "absent" => Len(v.journal) > 0
  /\ v.state = "evicted" => v.record = None
  /\ v.state \notin {"absent", "evicted"} => v.record = Fold(evs, v.journal)

\* The state tells whether the request ended after the checkpoint at m.
Staged(evs, v, m) ==
  /\ v.state = "active" => \A i \in 1..Len(v.journal) : m < i => ~Ends(evs, v.journal, i)
  /\ v.state \notin {"absent", "active"} => Ended(evs, v.journal)

CheckpointSound(evs, v, ck, m) ==
  m > 0 =>
    /\ m <= Len(v.journal) /\ m \in DOMAIN ck
    /\ ck[m] = [prefix |-> SubSeq(v.journal, 1, m), record |-> Fold(evs, SubSeq(v.journal, 1, m))]

IndexSound(evs, v, ix) ==
  ix # None =>
    \E n \in 1..Len(v.journal) : ix = SubSeq(v.journal, 1, n) /\ Ended(evs, ix)

Sound(evs, r, v, ck, m, ix) ==
  /\ m \in Nat
  /\ Genuine(evs, r, v.journal)
  /\ LateCosts(evs, v.journal, m)
  /\ Folded(evs, v)
  /\ Staged(evs, v, m)
  /\ CheckpointSound(evs, v, ck, m)
  /\ IndexSound(evs, v, ix)

Durable(evs, v, ix, sn) ==
  v.state \in {"persisted", "evicted"} =>
    /\ ix # None /\ sn # None
    /\ sn.blocks.lifecycle # <<>>
    /\ \E n \in 1..Len(ix) : sn = Fold(evs, SubSeq(ix, 1, n))

\* What the process knows of a request, or knew when it crashed.
Live(r) == IF r \in toRecover THEN memory[r] ELSE req[r]

Map(f) == f = [r \in Rids |-> f[r]]

Shape ==
  /\ events \in Seq(Envelopes)
  /\ Map(req) /\ Map(persisted_at) /\ Map(index) /\ Map(snapshot) /\ Map(checkpoint)
  /\ Map(latest) /\ Map(memory)
  /\ rid \in Rids /\ toRecover \subseteq Rids

Restarted == \A r \in toRecover : req[r] = Blank /\ Len(memory[r].journal) > 0

Calling ==
  /\ at # "idle" => toRecover = {}
  /\ at \in {"checkpoint", "latest"} =>
       /\ req[rid].state \notin {"absent", "evicted"}
       /\ Len(req[rid].journal) > latest[rid]
  /\ at = "latest" =>
       /\ Len(req[rid].journal) \in DOMAIN checkpoint[rid]
       /\ checkpoint[rid][Len(req[rid].journal)] =
            [prefix |-> req[rid].journal, record |-> req[rid].record]
  /\ at \in {"index", "snapshot"} => req[rid].state = "terminal"
  /\ at = "snapshot" => index[rid] = req[rid].journal

Marked == \A r \in Rids : persisted_at[r] # None => req[r].state = "persisted"

Kept(r) == Sound(events, r, Live(r), checkpoint[r], latest[r], index[r])

IInv ==
  /\ Shape /\ Restarted /\ Calling /\ Marked
  /\ \A r \in Rids : Kept(r) /\ Durable(events, req[r], index[r], snapshot[r])

-----------------------------------------------------------------------------
(* Sequences and least elements.                                           *)

IsSeq(s) == \E S : s \in Seq(S)

LEMMA SeqFacts ==
  ASSUME NEW s, IsSeq(s)
  PROVE  Len(s) \in Nat /\ DOMAIN s = 1..Len(s)
BY LenProperties DEF IsSeq

LEMMA EmptyIsSeq == IsSeq(<<>>) /\ Len(<<>>) = 0 /\ DOMAIN <<>> = {}
<1>1. <<>> \in Seq({})
  OBVIOUS
<1> QED BY <1>1 DEF IsSeq

LEMMA AppendFacts ==
  ASSUME NEW s, IsSeq(s), NEW e
  PROVE  /\ IsSeq(Append(s, e)) /\ Len(Append(s, e)) = Len(s) + 1
         /\ DOMAIN Append(s, e) = 1..Len(s) + 1
         /\ Append(s, e)[Len(s) + 1] = e
         /\ \A i \in 1..Len(s) : Append(s, e)[i] = s[i]
<1>1. PICK S : s \in Seq(S)
  BY DEF IsSeq
<1>2. PICK T : T = S \cup {e}
  OBVIOUS
<1>3. s \in Seq(T) /\ e \in T
  BY <1>1, <1>2, SeqMonotonic
<1>4. /\ Append(s, e) \in Seq(T) /\ Len(Append(s, e)) = Len(s) + 1
      /\ Append(s, e)[Len(s) + 1] = e /\ \A i \in 1..Len(s) : Append(s, e)[i] = s[i]
  BY <1>3, AppendProperties
<1>5. DOMAIN Append(s, e) = 1..Len(s) + 1
  BY <1>4, LenProperties
<1> QED BY <1>4, <1>5 DEF IsSeq

LEMMA LeastNatural ==
  ASSUME NEW T \in SUBSET Nat, T # {}
  PROVE  \E x \in T : \A y \in T : x <= y
<1>1. IsWellFoundedOn({ss \in Nat \X Nat : ss[1] < ss[2]}, Nat)
  BY NatLessThanWellFounded DEF OpToRel
<1>2. PICK x \in T : \A y \in T : ~(<<y, x>> \in {ss \in Nat \X Nat : ss[1] < ss[2]})
  BY <1>1, WFMin
<1>3. ASSUME NEW y \in T PROVE x <= y
  <2>1. x \in Nat /\ y \in Nat /\ ~(x > y)
    BY <1>2
  <2> QED BY <2>1
<1> QED BY <1>3

LEMMA SliceFacts ==
  ASSUME NEW S, NEW j \in Seq(S), NEW m \in 0..Len(j)
  PROVE  /\ SubSeq(j, 1, m) \in Seq(S) /\ Len(SubSeq(j, 1, m)) = m
         /\ \A i \in 1..m : SubSeq(j, 1, m)[i] = j[i]
<1>1. \A i \in 1..m : j[i] \in S
  BY ElementOfSeq, LenProperties
<1>2. m \in Nat /\ Len(j) \in Nat
  BY LenProperties
<1> QED BY <1>1, <1>2, SubSeqProperties

LEMMA SameSeq ==
  ASSUME NEW S, NEW a \in Seq(S), NEW b \in Seq(S), Len(a) = Len(b),
         \A i \in 1..Len(a) : a[i] = b[i]
  PROVE  a = b
BY SeqEqual

LEMMA WholeSlice ==
  ASSUME NEW S, NEW j \in Seq(S)
  PROVE  SubSeq(j, 1, Len(j)) = j
<1>1. Len(j) \in 0..Len(j)
  BY LenProperties
<1> QED BY <1>1, SliceFacts, SameSeq

LEMMA SliceOfSlice ==
  ASSUME NEW S, NEW j \in Seq(S), NEW n \in 0..Len(j), NEW m \in 0..n
  PROVE  SubSeq(SubSeq(j, 1, n), 1, m) = SubSeq(j, 1, m)
<1>1. m \in 0..Len(j) /\ Len(j) \in Nat
  BY LenProperties
<1>2. PICK a \in Seq(S) : a = SubSeq(j, 1, n) /\ Len(a) = n /\ \A i \in 1..n : a[i] = j[i]
  <2>1. /\ SubSeq(j, 1, n) \in Seq(S) /\ Len(SubSeq(j, 1, n)) = n
        /\ \A i \in 1..n : SubSeq(j, 1, n)[i] = j[i]
    BY SliceFacts
  <2> QED BY <2>1
<1>3. /\ SubSeq(a, 1, m) \in Seq(S) /\ Len(SubSeq(a, 1, m)) = m
      /\ \A i \in 1..m : SubSeq(a, 1, m)[i] = a[i]
  BY <1>2, SliceFacts
<1>4. /\ SubSeq(j, 1, m) \in Seq(S) /\ Len(SubSeq(j, 1, m)) = m
      /\ \A i \in 1..m : SubSeq(j, 1, m)[i] = j[i]
  BY <1>1, SliceFacts
<1>5. \A i \in 1..m : SubSeq(a, 1, m)[i] = SubSeq(j, 1, m)[i]
  BY <1>2, <1>3, <1>4
<1> QED BY <1>2, <1>3, <1>4, <1>5, SameSeq

LEMMA SliceOfLonger ==
  ASSUME NEW S, NEW j \in Seq(S), NEW e \in S, NEW m \in 0..Len(j)
  PROVE  SubSeq(Append(j, e), 1, m) = SubSeq(j, 1, m)
<1>1. PICK a \in Seq(S) : a = Append(j, e) /\ Len(a) = Len(j) + 1 /\ \A i \in 1..Len(j) : a[i] = j[i]
  <2>1. Append(j, e) \in Seq(S)
    BY AppendProperties
  <2>2. Len(Append(j, e)) = Len(j) + 1 /\ \A i \in 1..Len(j) : Append(j, e)[i] = j[i]
    BY AppendProperties
  <2> QED BY <2>1, <2>2
<1>2. m \in 0..Len(a) /\ Len(j) \in Nat
  BY <1>1, LenProperties
<1>3. /\ SubSeq(a, 1, m) \in Seq(S) /\ Len(SubSeq(a, 1, m)) = m
      /\ \A i \in 1..m : SubSeq(a, 1, m)[i] = a[i]
  BY <1>2, SliceFacts
<1>4. /\ SubSeq(j, 1, m) \in Seq(S) /\ Len(SubSeq(j, 1, m)) = m
      /\ \A i \in 1..m : SubSeq(j, 1, m)[i] = j[i]
  BY SliceFacts
<1>5. \A i \in 1..m : SubSeq(a, 1, m)[i] = SubSeq(j, 1, m)[i]
  BY <1>1, <1>2, <1>3, <1>4
<1> QED BY <1>1, <1>3, <1>4, <1>5, SameSeq

LEMMA SliceGrows ==
  ASSUME NEW S, NEW j \in Seq(S), NEW k \in 0..Len(j), k + 1 <= Len(j)
  PROVE  SubSeq(j, 1, k + 1) = Append(SubSeq(j, 1, k), j[k + 1])
<1>1. k + 1 \in 0..Len(j) /\ k + 1 \in 1..Len(j) /\ k \in Nat
  BY LenProperties
<1>2. PICK a \in Seq(S) : a = SubSeq(j, 1, k) /\ Len(a) = k /\ \A i \in 1..k : a[i] = j[i]
  <2>1. /\ SubSeq(j, 1, k) \in Seq(S) /\ Len(SubSeq(j, 1, k)) = k
        /\ \A i \in 1..k : SubSeq(j, 1, k)[i] = j[i]
    BY SliceFacts
  <2> QED BY <2>1
<1>3. PICK c \in Seq(S) : c = SubSeq(j, 1, k + 1) /\ Len(c) = k + 1 /\ \A i \in 1..k+1 : c[i] = j[i]
  BY <1>1, SliceFacts
<1>4. j[k + 1] \in S
  BY <1>1, ElementOfSeq
<1>5. PICK d \in Seq(S) : /\ d = Append(a, j[k + 1]) /\ Len(d) = k + 1 /\ d[k + 1] = j[k + 1]
                          /\ \A i \in 1..k : d[i] = a[i]
  <2>1. PICK x \in S : x = j[k + 1]
    BY <1>4
  <2>2. Append(a, x) \in Seq(S)
    BY AppendProperties
  <2>3. /\ Len(Append(a, x)) = Len(a) + 1 /\ Append(a, x)[Len(a) + 1] = x
        /\ \A i \in 1..Len(a) : Append(a, x)[i] = a[i]
    BY AppendProperties
  <2> QED BY <1>2, <2>1, <2>2, <2>3
<1>6. ASSUME NEW i \in 1..k+1 PROVE c[i] = d[i]
  <2>1. CASE i = k + 1
    BY <1>3, <1>5, <2>1
  <2>2. CASE i # k + 1
    <3>1. i \in 1..k
      BY <1>1, <2>2
    <3> QED BY <1>2, <1>3, <1>5, <3>1
  <2> QED BY <2>1, <2>2
<1> QED BY <1>2, <1>3, <1>5, <1>6, SameSeq

-----------------------------------------------------------------------------
(* What the events of a journal add up to.                                 *)

IsPick(p, evs, ids, b) ==
  p = [n \in 0..Len(ids) |->
         IF n = 0 THEN <<>>
         ELSE IF evs[ids[n]].family \in Writers[b] THEN Append(p[n - 1], ids[n]) ELSE p[n - 1]]

LEMMA PickExists ==
  ASSUME NEW evs, NEW ids, IsSeq(ids), NEW b
  PROVE  \E p : IsPick(p, evs, ids, b) /\ Picked(evs, ids, b) = p[Len(ids)]
<1>1. PICK L \in Nat : L = Len(ids)
  BY SeqFacts
<1> DEFINE Step(p, n) == IF n = 0 THEN <<>>
                         ELSE IF evs[ids[n]].family \in Writers[b] THEN Append(p[n - 1], ids[n])
                                                                  ELSE p[n - 1]
           Upto(m) == \E p : p = [n \in 0..m |-> Step(p, n)]
           Failing == {m \in 0..L : ~Upto(m)}
<1>2. Upto(0)
  <2>1. PICK p : p = [n \in 0..0 |-> <<>>]
    OBVIOUS
  <2>2. p = [n \in 0..0 |-> Step(p, n)]
    BY <2>1
  <2> QED BY <2>2
<1>3. ASSUME NEW m \in Nat, Upto(m) PROVE Upto(m + 1)
  <2>1. PICK p : p = [n \in 0..m |-> Step(p, n)]
    BY <1>3
  <2>2. PICK q : q = [n \in 0..m+1 |-> IF n = m + 1 THEN Step(p, n) ELSE p[n]]
    OBVIOUS
  <2>3. ASSUME NEW n \in 0..m+1 PROVE q[n] = Step(q, n)
    <3>1. n # 0 => n - 1 \in 0..m /\ q[n - 1] = p[n - 1]
      BY <2>2
    <3>2. Step(p, n) = Step(q, n)
      BY <3>1
    <3>3. n # m + 1 => n \in 0..m
      OBVIOUS
    <3>4. n # m + 1 => q[n] = Step(p, n)
      <4> HIDE DEF Step
      <4> QED BY <2>1, <2>2, <3>3
    <3>5. n = m + 1 => q[n] = Step(p, n)
      <4> HIDE DEF Step
      <4> QED BY <2>2
    <3> HIDE DEF Step
    <3> QED BY <3>2, <3>4, <3>5
  <2>4. q = [n \in 0..m+1 |-> Step(q, n)]
    <3> HIDE DEF Step
    <3> QED BY <2>2, <2>3
  <2> QED BY <2>4
<1>4. Failing = {}
  <2> HIDE DEF Upto
  <2> SUFFICES ASSUME Failing # {} PROVE FALSE
    OBVIOUS
  <2>1. PICK m \in Failing : \A y \in Failing : m <= y
    <3>1. Failing \in SUBSET Nat
      OBVIOUS
    <3> HIDE DEF Failing
    <3> QED BY <3>1, LeastNatural
  <2>2. m \in 1..L /\ m - 1 \in Nat /\ m - 1 \in 0..L /\ m - 1 \notin Failing
    BY <1>2, <2>1
  <2>3. Upto(m - 1)
    BY <2>2
  <2>4. Upto((m - 1) + 1)
    BY <1>3, <2>2, <2>3
  <2>5. (m - 1) + 1 = m
    BY <2>2
  <2> QED BY <2>1, <2>4, <2>5
<1>5. Upto(L)
  <2> HIDE DEF Upto
  <2> QED BY <1>4
<1>6. \E p : IsPick(p, evs, ids, b)
  BY <1>1, <1>5 DEF IsPick
<1>7. PICK p : p = CHOOSE q : IsPick(q, evs, ids, b)
  OBVIOUS
<1>8. IsPick(p, evs, ids, b)
  BY <1>6, <1>7
<1>9. Picked(evs, ids, b) = p[Len(ids)]
  BY <1>7 DEF Picked, IsPick
<1> QED BY <1>8, <1>9

\* Two sequences that begin alike are picked from alike.
LEMMA PicksAgree ==
  ASSUME NEW evs, NEW ids, NEW evs2, NEW ids2, NEW b, NEW p, NEW q,
         IsPick(p, evs, ids, b), IsPick(q, evs2, ids2, b), IsSeq(ids), IsSeq(ids2),
         NEW N \in Nat, N <= Len(ids), N <= Len(ids2),
         \A i \in 1..N : ids[i] = ids2[i] /\ evs[ids[i]].family = evs2[ids[i]].family
  PROVE  p[N] = q[N]
<1> DEFINE Failing == {m \in 0..N : p[m] # q[m]}
<1>1. Len(ids) \in Nat /\ Len(ids2) \in Nat
  BY SeqFacts
<1>2. ASSUME NEW n \in 0..N
      PROVE  /\ n = 0 => p[n] = <<>> /\ q[n] = <<>>
             /\ n # 0 => /\ n - 1 \in 0..N /\ n \in 1..N
                         /\ p[n] = IF evs[ids[n]].family \in Writers[b] THEN Append(p[n - 1], ids[n]) ELSE p[n - 1]
                         /\ q[n] = IF evs2[ids2[n]].family \in Writers[b] THEN Append(q[n - 1], ids2[n]) ELSE q[n - 1]
  <2>1. n \in 0..Len(ids) /\ n \in 0..Len(ids2)
    BY <1>1
  <2>2. n # 0 => n - 1 \in 0..N /\ n \in 1..N
    OBVIOUS
  <2> QED BY <2>1, <2>2 DEF IsPick
<1>3. Failing = {}
  <2> SUFFICES ASSUME Failing # {} PROVE FALSE
    OBVIOUS
  <2>1. PICK m \in Failing : \A y \in Failing : m <= y
    <3>1. Failing \in SUBSET Nat
      OBVIOUS
    <3> HIDE DEF Failing
    <3> QED BY <3>1, LeastNatural
  <2>2. m \in 1..N /\ m - 1 \in 0..N /\ m - 1 \notin Failing
    BY <1>2, <2>1
  <2>3. p[m - 1] = q[m - 1]
    BY <2>2
  <2>4. p[m] = q[m]
    BY <1>2, <2>2, <2>3
  <2> QED BY <2>1, <2>4
<1> QED BY <1>3

LEMMA FoldAgrees ==
  ASSUME NEW evs, NEW evs2, NEW ids, IsSeq(ids),
         \A i \in 1..Len(ids) : evs[ids[i]].family = evs2[ids[i]].family
  PROVE  Fold(evs, ids) = Fold(evs2, ids)
<1>1. ASSUME NEW b \in Blocks PROVE Picked(evs, ids, b) = Picked(evs2, ids, b)
  <2>1. PICK p : IsPick(p, evs, ids, b) /\ Picked(evs, ids, b) = p[Len(ids)]
    BY PickExists
  <2>2. PICK q : IsPick(q, evs2, ids, b) /\ Picked(evs2, ids, b) = q[Len(ids)]
    BY PickExists
  <2>3. PICK N \in Nat : N = Len(ids)
    BY SeqFacts
  <2>4. p[N] = q[N]
    BY <2>1, <2>2, <2>3, PicksAgree
  <2> QED BY <2>1, <2>2, <2>3, <2>4
<1> QED BY <1>1 DEF Fold

LEMMA FoldNext ==
  ASSUME NEW evs, NEW ids, IsSeq(ids), NEW e
  PROVE  Fold(evs, Append(ids, e)) =
           [version |-> Len(ids),
            blocks  |-> [b \in Blocks |->
                           IF evs[e].family \in Writers[b] THEN Append(Fold(evs, ids).blocks[b], e)
                                                           ELSE Fold(evs, ids).blocks[b]]]
<1>1. PICK N \in Nat : N = Len(ids)
  BY SeqFacts
<1>2. PICK longer : longer = Append(ids, e)
  OBVIOUS
<1>3. /\ IsSeq(longer) /\ Len(longer) = N + 1 /\ longer[N + 1] = e
      /\ \A i \in 1..N : longer[i] = ids[i]
  BY <1>1, <1>2, AppendFacts
<1>4. ASSUME NEW b \in Blocks
      PROVE  Picked(evs, longer, b) =
               IF evs[e].family \in Writers[b] THEN Append(Picked(evs, ids, b), e) ELSE Picked(evs, ids, b)
  <2>1. PICK p : IsPick(p, evs, ids, b) /\ Picked(evs, ids, b) = p[Len(ids)]
    BY PickExists
  <2>2. PICK q : IsPick(q, evs, longer, b) /\ Picked(evs, longer, b) = q[Len(longer)]
    BY <1>3, PickExists
  <2>3. p[N] = q[N]
    BY <1>1, <1>3, <2>1, <2>2, PicksAgree
  <2>4. /\ N + 1 \in 0..N+1 /\ N + 1 # 0 /\ (N + 1) - 1 = N
    OBVIOUS
  <2>5. q[N + 1] = IF evs[longer[N + 1]].family \in Writers[b] THEN Append(q[N], longer[N + 1]) ELSE q[N]
    BY <1>3, <2>2, <2>4 DEF IsPick
  <2> QED BY <1>1, <1>3, <2>1, <2>2, <2>3, <2>5
<1>5. (N + 1) - 1 = N
  OBVIOUS
<1>6. \A b \in Blocks : Fold(evs, ids).blocks[b] = Picked(evs, ids, b)
  BY DEF Fold
<1> QED BY <1>1, <1>2, <1>3, <1>4, <1>5, <1>6 DEF Fold

\* A record is a value, and its lifecycle shows an event that ended the request.
LEMMA FoldTyped ==
  ASSUME NEW evs, NEW ids \in Seq(Nat), Len(ids) > 0
  PROVE  /\ Fold(evs, ids) \in Records
         /\ Ended(evs, ids) => Fold(evs, ids).blocks.lifecycle # <<>>
<1>1. PICK N \in Nat : N = Len(ids) /\ N > 0 /\ N - 1 \in Nat /\ IsSeq(ids) /\ \A i \in 1..N : ids[i] \in Nat
  BY LenProperties, ElementOfSeq DEF IsSeq
<1>2. ASSUME NEW b
      PROVE  /\ Picked(evs, ids, b) \in Seq(Nat)
             /\ \A i \in 1..N : evs[ids[i]].family \in Writers[b] => Picked(evs, ids, b) # <<>>
  <2>1. PICK p : IsPick(p, evs, ids, b) /\ Picked(evs, ids, b) = p[Len(ids)]
    BY <1>1, PickExists
  <2> DEFINE Good(m) == p[m] \in Seq(Nat) /\ \A i \in 1..m : evs[ids[i]].family \in Writers[b] => p[m] # <<>>
             Failing == {m \in 0..N : ~Good(m)}
  <2>2. Good(0)
    <3>1. p[0] = <<>>
      BY <1>1, <2>1 DEF IsPick
    <3> QED BY <3>1
  <2>3. ASSUME NEW m \in 1..N, Good(m - 1) PROVE Good(m)
    <3>1. p[m] = IF evs[ids[m]].family \in Writers[b] THEN Append(p[m - 1], ids[m]) ELSE p[m - 1]
      <4> HIDE DEF Good
      <4>1. m \in 0..Len(ids) /\ m # 0
        BY <1>1
      <4> QED BY <2>1, <4>1 DEF IsPick
    <3>2. p[m - 1] \in Seq(Nat) /\ ids[m] \in Nat
      BY <1>1, <2>3
    <3>3. Append(p[m - 1], ids[m]) \in Seq(Nat) /\ Append(p[m - 1], ids[m]) # <<>>
      <4>1. PICK s \in Seq(Nat) : s = p[m - 1]
        BY <3>2
      <4>2. PICK e \in Nat : e = ids[m]
        BY <3>2
      <4>3. Append(s, e) \in Seq(Nat)
        BY AppendProperties
      <4>4. Append(s, e) # <<>>
        <5>1. IsSeq(s)
          BY DEF IsSeq
        <5>2. Len(Append(s, e)) = Len(s) + 1 /\ Len(s) \in Nat
          BY <5>1, AppendFacts, SeqFacts
        <5>3. Len(<<>>) = 0
          BY EmptyIsSeq
        <5> QED BY <5>2, <5>3
      <4> QED BY <4>1, <4>2, <4>3, <4>4
    <3>4. ASSUME NEW i \in 1..m, evs[ids[i]].family \in Writers[b] PROVE p[m] # <<>>
      <4>1. CASE i = m
        BY <3>1, <3>3, <3>4, <4>1
      <4>2. CASE i # m
        <5>1. i \in 1..m-1
          BY <4>2
        <5>2. p[m - 1] # <<>>
          BY <2>3, <3>4, <5>1
        <5> QED BY <3>1, <3>3, <5>2
      <4> QED BY <4>1, <4>2
    <3> QED BY <3>1, <3>2, <3>3, <3>4
  <2>4. Failing = {}
    <3> HIDE DEF Good
    <3> SUFFICES ASSUME Failing # {} PROVE FALSE
      OBVIOUS
    <3>1. PICK m \in Failing : \A y \in Failing : m <= y
      <4>1. Failing \in SUBSET Nat
        OBVIOUS
      <4> HIDE DEF Failing
      <4> QED BY <4>1, LeastNatural
    <3>2. m \in 1..N /\ m - 1 \in 0..N /\ m - 1 \notin Failing
      BY <2>2, <3>1
    <3>3. Good(m)
      BY <2>3, <3>2
    <3> QED BY <3>1, <3>3
  <2>5. Good(N)
    <3> HIDE DEF Good
    <3> QED BY <2>4
  <2> QED BY <1>1, <2>1, <2>5
<1>3. Fold(evs, ids) \in Records
  BY <1>1, <1>2 DEF Fold, Records
<1>4. ASSUME Ended(evs, ids) PROVE Fold(evs, ids).blocks.lifecycle # <<>>
  <2>1. "lifecycle" \in Blocks /\ Writers["lifecycle"] = Terminals
    BY DEF Blocks, Writers
  <2>2. Fold(evs, ids).blocks["lifecycle"] = Picked(evs, ids, "lifecycle")
    BY <2>1 DEF Fold
  <2>3. PICK i \in 1..N : evs[ids[i]].family \in Writers["lifecycle"]
    BY <1>1, <1>4, <2>1 DEF Ended, Ends
  <2>4. Picked(evs, ids, "lifecycle") # <<>>
    BY <1>2, <2>3
  <2> QED BY <2>2, <2>4
<1> QED BY <1>3, <1>4

-----------------------------------------------------------------------------
(* One event.                                                              *)

LEMMA FamilyFacts ==
  /\ "request.received" \in Registered /\ "cost.recorded" \in Registered
  /\ Terminals \subseteq Registered
  /\ "request.received" \notin Terminals /\ "cost.recorded" \notin Terminals
<1>1. /\ {"identity", "lifecycle", "budget"} \subseteq Blocks
      /\ Writers["identity"] = {"request.received"} /\ Writers["lifecycle"] = Terminals
      /\ "cost.recorded" \in Writers["budget"]
  BY DEF Blocks, Writers
<1>2. \A b \in Blocks : Writers[b] \subseteq Registered
  BY DEF Registered
<1> QED BY <1>1, <1>2 DEF Terminals

\* The rows of the table that apply an event.
LEMMA LookupRows ==
  ASSUME NEW s, NEW f
  PROVE  /\ Lookup(s, f) = "create" <=> s = "absent" /\ f = "request.received"
         /\ Lookup(s, f) = "apply_terminal" <=> s = "active" /\ f \in Terminals
         /\ Lookup(s, f) = "apply" <=>
              \/ s = "active" /\ f \in Registered /\ f # "request.received" /\ f \notin Terminals
              \/ s \in TerminalLike /\ f = "cost.recorded"
<1>1. CASE f \notin Registered
  <2>1. Lookup(s, f) = "unregistered"
    BY <1>1, FamilyFacts DEF Lookup
  <2> QED BY <1>1, <2>1, FamilyFacts
<1>2. CASE f \in Registered
  <2>1. "absent" \notin TerminalLike /\ "active" \notin TerminalLike
    BY DEF TerminalLike
  <2>2. CASE s = "absent" /\ f = "request.received"
    <3>1. Lookup(s, f) = "create"
      BY <1>2, <2>2, FamilyFacts DEF Lookup
    <3> QED BY <2>1, <2>2, <3>1
  <2>3. CASE s = "active" /\ f \in Terminals
    <3>1. Lookup(s, f) = "apply_terminal"
      BY <1>2, <2>1, <2>3, FamilyFacts DEF Lookup
    <3> QED BY <2>1, <2>3, <3>1, FamilyFacts
  <2>4. CASE s = "active" /\ f # "request.received" /\ f \notin Terminals
    <3>1. Lookup(s, f) = "apply"
      BY <1>2, <2>1, <2>4, FamilyFacts DEF Lookup
    <3> QED BY <1>2, <2>1, <2>4, <3>1
  <2>5. CASE s \in TerminalLike /\ f = "cost.recorded"
    <3>1. Lookup(s, f) = "apply"
      BY <1>2, <2>1, <2>5, FamilyFacts DEF Lookup
    <3> QED BY <2>1, <2>5, <3>1
  <2>6. CASE /\ ~(s = "absent" /\ f = "request.received")
             /\ ~(s = "active" /\ f \in Terminals)
             /\ ~(s = "active" /\ f # "request.received" /\ f \notin Terminals)
             /\ ~(s \in TerminalLike /\ f = "cost.recorded")
    <3>1. Lookup(s, f) = "fault"
      BY <1>2, <2>6, FamilyFacts DEF Lookup
    <3> QED BY <1>2, <2>6, <3>1, FamilyFacts
  <2> QED BY <2>2, <2>3, <2>4, <2>5, <2>6
<1> QED BY <1>1, <1>2

Receipt(family) == family = "request.received"

\* The record that an event of the family evolves, given the journal so far.
Evolves(evs, ids, record, family) ==
  IF Len(ids) = 0 THEN record = Birth /\ Receipt(family)
                  ELSE record = Fold(evs, ids) /\ ~Receipt(family)

LEMMA EvolveIsFold ==
  ASSUME NEW evs, NEW ids, IsSeq(ids), NEW eid,
         NEW record, NEW family, family = evs[eid].family,
         Evolves(evs, ids, record, family)
  PROVE  Evolve(record, eid, family) = Fold(evs, Append(ids, eid))
<1>1. PICK N \in Nat : N = Len(ids)
  BY SeqFacts
<1>2. \A b \in Blocks : record.blocks[b] = Fold(evs, ids).blocks[b]
  <2>1. CASE N = 0
    <3>1. ASSUME NEW b \in Blocks PROVE Picked(evs, ids, b) = <<>>
      <4>1. PICK p : IsPick(p, evs, ids, b) /\ Picked(evs, ids, b) = p[Len(ids)]
        BY PickExists
      <4>2. 0 \in 0..Len(ids) /\ Len(ids) = 0
        BY <1>1, <2>1
      <4> QED BY <4>1, <4>2 DEF IsPick
    <3> QED BY <1>1, <2>1, <3>1 DEF Birth, Fold, Evolves
  <2>2. CASE N # 0
    <3>1. record = Fold(evs, ids)
      BY <1>1, <2>2 DEF Evolves
    <3> QED BY <3>1
  <2> QED BY <2>1, <2>2
<1>3. (IF family = "request.received" THEN 0 ELSE record.version + 1) = N
  <2>1. CASE N = 0
    BY <1>1, <2>1 DEF Receipt, Evolves
  <2>2. CASE N # 0
    <3>1. record.version = N - 1 /\ family # "request.received"
      BY <1>1, <2>2 DEF Fold, Receipt, Evolves
    <3>2. record.version + 1 = N
      BY <3>1
    <3> QED BY <3>1, <3>2
  <2> QED BY <2>1, <2>2
<1>4. Evolve(record, eid, family) =
        [version |-> N,
         blocks  |-> [b \in Blocks |-> IF evs[eid].family \in Writers[b]
                                         THEN Append(Fold(evs, ids).blocks[b], eid)
                                         ELSE Fold(evs, ids).blocks[b]]]
  BY <1>2, <1>3 DEF Evolve
<1> QED BY <1>1, <1>4, FoldNext

LEMMA Updated ==
  ASSUME NEW s, NEW x, NEW j, NEW v, v = [state |-> s, record |-> x, journal |-> j],
         NEW s2, NEW x2, NEW j2
  PROVE  /\ [v EXCEPT !.state = s2, !.record = x2] = [state |-> s2, record |-> x2, journal |-> j]
         /\ [v EXCEPT !.record = x2] = [state |-> s, record |-> x2, journal |-> j]
         /\ [v EXCEPT !.journal = j2] = [state |-> s, record |-> x, journal |-> j2]
<1>1. PICK w : w = [v EXCEPT !.state = s2]
  OBVIOUS
<1>2. w = [state |-> s2, record |-> x, journal |-> j]
  BY <1>1
<1>3. [w EXCEPT !.record = x2] = [state |-> s2, record |-> x2, journal |-> j]
  BY <1>2
<1>4. [v EXCEPT !.state = s2, !.record = x2] = [w EXCEPT !.record = x2]
  BY <1>1
<1>5. [v EXCEPT !.record = x2] = [state |-> s, record |-> x2, journal |-> j]
  OBVIOUS
<1>6. [v EXCEPT !.journal = j2] = [state |-> s, record |-> x, journal |-> j2]
  OBVIOUS
<1> QED BY <1>3, <1>4, <1>5, <1>6

\* The state after an event that is applied.
After(state, family) ==
  IF family \in Terminals THEN "terminal" ELSE IF state = "absent" THEN "active" ELSE state

\* The request after it: the record is the fold of the longer journal.
LEMMA AppliedIs ==
  ASSUME NEW evs, NEW v, Folded(evs, v), IsSeq(v.journal), NEW eid, NEW e, e = evs[eid],
         Lookup(v.state, e.family) \in {"create", "apply", "apply_terminal"}
  PROVE  Applied(v, eid, e.family) =
           [state |-> After(v.state, e.family), record |-> Fold(evs, Append(v.journal, eid)),
            journal |-> Append(v.journal, eid)]
<1>1. PICK j : j = v.journal /\ IsSeq(j)
  OBVIOUS
<1>2. PICK x : x = v.record
  OBVIOUS
<1>3. PICK s : s = v.state
  OBVIOUS
<1>4. v = [state |-> s, record |-> x, journal |-> j]
  BY <1>1, <1>2, <1>3 DEF Folded
<1>5. PICK f : f = e.family /\ f = evs[eid].family
  OBVIOUS
<1>6. Len(j) \in Nat
  BY <1>1, SeqFacts
<1>7. CASE Lookup(s, f) = "create"
  <2>1. s = "absent" /\ Receipt(f) /\ f \notin Terminals
    BY <1>7, LookupRows, FamilyFacts DEF Receipt
  <2>2. Len(j) = 0
    BY <1>1, <1>3, <2>1, EmptyIsSeq DEF Folded, Blank
  <2>3. PICK y : y = Evolve(Birth, eid, f)
    OBVIOUS
  <2>4. y = Fold(evs, Append(j, eid))
    <3>1. Evolves(evs, j, Birth, f)
      BY <2>1, <2>2 DEF Evolves
    <3> QED BY <1>1, <1>5, <2>3, <3>1, EvolveIsFold
  <2>5. PICK a : a = "active"
    OBVIOUS
  <2>6. PICK w : w = Create(v, eid, f)
    OBVIOUS
  <2>7. w = [v EXCEPT !.state = a, !.record = y]
    BY <2>3, <2>5, <2>6 DEF Create
  <2>8. w = [state |-> a, record |-> y, journal |-> j]
    BY ONLY <1>4, <2>7, Updated
  <2>9. Applied(v, eid, f) = [w EXCEPT !.journal = Append(@, eid)]
    BY <1>3, <1>7, <2>6 DEF Applied
  <2>10. Applied(v, eid, f) = [state |-> a, record |-> y, journal |-> Append(j, eid)]
    BY <2>8, <2>9
  <2> QED BY <1>1, <1>3, <1>5, <2>1, <2>4, <2>5, <2>10 DEF After
<1>8. CASE Lookup(s, f) \in {"apply", "apply_terminal"}
  <2>1. /\ ~Receipt(f)
        /\ \/ s = "active" /\ (Lookup(s, f) = "apply_terminal" <=> f \in Terminals)
           \/ s \in TerminalLike /\ f \notin Terminals /\ Lookup(s, f) = "apply"
    BY <1>8, LookupRows, FamilyFacts DEF Receipt
  <2>2. s \notin {"absent", "evicted"}
    BY <2>1 DEF TerminalLike
  <2>3. x = Fold(evs, j) /\ Len(j) # 0
    BY <1>1, <1>2, <1>3, <1>6, <2>2 DEF Folded
  <2>7. PICK y : y = Evolve(x, eid, f)
    OBVIOUS
  <2>4. y = Fold(evs, Append(j, eid))
    <3>1. Evolves(evs, j, x, f)
      BY <2>1, <2>3 DEF Evolves
    <3> QED BY <1>1, <1>5, <2>7, <3>1, EvolveIsFold
  <2>5. CASE Lookup(s, f) = "apply_terminal"
    <3>1. f \in Terminals
      BY <2>1, <2>5
    <3>2. PICK w : w = ApplyTerminal(v, eid, f)
      OBVIOUS
    <3>3. w = [state |-> "terminal", record |-> y, journal |-> j]
      BY <1>4, <2>7, <3>2, Updated DEF ApplyTerminal
    <3>4. Applied(v, eid, f) = [w EXCEPT !.journal = Append(@, eid)]
      BY <1>3, <2>5, <3>2 DEF Applied
    <3>5. Applied(v, eid, f) = [state |-> "terminal", record |-> y, journal |-> Append(j, eid)]
      BY <3>3, <3>4
    <3> QED BY <1>1, <1>3, <1>5, <2>4, <3>1, <3>5 DEF After
  <2>6. CASE Lookup(s, f) = "apply"
    <3>1. f \notin Terminals
      BY <2>1, <2>6
    <3>2. PICK w : w = ApplyLive(v, eid, f)
      OBVIOUS
    <3>3. w = [state |-> s, record |-> y, journal |-> j]
      BY <1>4, <2>7, <3>2, Updated DEF ApplyLive
    <3>4. Applied(v, eid, f) = [w EXCEPT !.journal = Append(@, eid)]
      BY <1>3, <2>6, <3>2 DEF Applied
    <3>5. Applied(v, eid, f) = [state |-> s, record |-> y, journal |-> Append(j, eid)]
      BY <3>3, <3>4
    <3> QED BY <1>1, <1>3, <1>5, <2>2, <2>4, <3>1, <3>5 DEF After
  <2> QED BY <1>8, <2>5, <2>6
<1> QED BY <1>3, <1>5, <1>7, <1>8

\* What the invariant says of a request outside its documents.
Upright(evs, r, v, m) ==
  /\ m \in Nat
  /\ Genuine(evs, r, v.journal)
  /\ LateCosts(evs, v.journal, m)
  /\ Folded(evs, v)
  /\ Staged(evs, v, m)

LEMMA GenuineFacts ==
  ASSUME NEW evs, NEW r, NEW j, Genuine(evs, r, j), IsSeq(evs)
  PROVE  /\ IsSeq(j) /\ j \in Seq(Nat) /\ Len(j) \in Nat /\ DOMAIN j = 1..Len(j)
         /\ Len(evs) \in Nat
         /\ \A i \in 1..Len(j) : j[i] \in 1..Len(evs) /\ j[i] \in Nat
<1>1. j \in Seq(1..Len(evs)) /\ Len(evs) \in Nat
  BY SeqFacts DEF Genuine
<1>2. 1..Len(evs) \subseteq Nat
  BY <1>1
<1>3. j \in Seq(Nat)
  BY <1>1, <1>2, SeqMonotonic
<1>4. Len(j) \in Nat /\ DOMAIN j = 1..Len(j)
  BY <1>1, LenProperties
<1>5. \A i \in 1..Len(j) : j[i] \in 1..Len(evs)
  BY <1>1, <1>4, ElementOfSeq
<1> QED BY <1>1, <1>2, <1>3, <1>4, <1>5 DEF IsSeq

\* An event that is applied leaves the request as the invariant wants it.
LEMMA AppliedIsUpright ==
  ASSUME NEW evs, IsSeq(evs), NEW r, NEW v, NEW m, Upright(evs, r, v, m),
         NEW eid \in 1..Len(evs), NEW e, e = evs[eid], e.rid = r, Applies(v, eid, e),
         NEW w, w = Applied(v, eid, e.family)
  PROVE  /\ Upright(evs, r, w, m)
         /\ w.journal = Append(v.journal, eid)
         /\ w.state = After(v.state, e.family) /\ w.state \notin {"absent", "evicted"}
         /\ w.record = Fold(evs, w.journal)
<1>1. PICK j : j = v.journal
  OBVIOUS
<1>2. PICK s : s = v.state
  OBVIOUS
<1>3. PICK f : f = e.family
  OBVIOUS
<1>4. Genuine(evs, r, j) /\ LateCosts(evs, j, m) /\ Folded(evs, v) /\ Staged(evs, v, m) /\ m \in Nat
  BY <1>1 DEF Upright
<1>5. PICK L \in Nat : /\ L = Len(j) /\ IsSeq(j) /\ DOMAIN j = 1..L /\ j \in Seq(1..Len(evs))
  <2>1. IsSeq(j) /\ Len(j) \in Nat /\ DOMAIN j = 1..Len(j)
    BY <1>4, GenuineFacts
  <2>2. j \in Seq(1..Len(evs))
    BY <1>4 DEF Genuine
  <2> QED BY <2>1, <2>2
<1>6. Lookup(s, f) \in {"create", "apply", "apply_terminal"} /\ e.ok /\ eid \notin ToSet(j)
  BY <1>1, <1>2, <1>3 DEF Applies
<1>7. PICK k : k = Append(j, eid)
  OBVIOUS
<1>8. /\ w = [state |-> After(s, f), record |-> Fold(evs, k), journal |-> k]
  BY <1>1, <1>2, <1>3, <1>4, <1>5, <1>6, <1>7, AppliedIs
<1>9. /\ k \in Seq(1..Len(evs)) /\ Len(k) = L + 1 /\ k[L + 1] = eid /\ \A i \in 1..L : k[i] = j[i]
  BY <1>5, <1>7, AppendProperties
<1>10. /\ s = "absent" <=> f = "request.received"
       /\ f \in Registered /\ s \notin {"evicted"}
       /\ s = "absent" \/ s = "active" \/ (s \in TerminalLike /\ f = "cost.recorded")
  <2>1. "absent" \notin TerminalLike /\ "evicted" \notin TerminalLike
    BY DEF TerminalLike
  <2> QED BY <1>6, <2>1, LookupRows, FamilyFacts
<1>11. s = "absent" <=> L = 0
  BY <1>1, <1>2, <1>4, <1>5, EmptyIsSeq DEF Folded, Blank
<1>12. Genuine(evs, r, k)
  <2>1. ASSUME NEW i \in 1..L+1, NEW l \in 1..L+1, k[i] = k[l] PROVE i = l
    <3>1. \A n \in 1..L : k[n] # eid
      BY <1>5, <1>6, <1>9 DEF ToSet
    <3>2. i \in 1..L => l \in 1..L
      BY <1>9, <2>1, <3>1
    <3>3. l \in 1..L => i \in 1..L
      BY <1>9, <2>1, <3>1
    <3>4. CASE i \in 1..L /\ l \in 1..L
      <4>1. j[i] = j[l]
        BY <1>9, <2>1, <3>4
      <4> QED BY <1>4, <1>5, <3>4, <4>1 DEF Genuine
    <3>5. CASE i \notin 1..L /\ l \notin 1..L
      BY <3>5
    <3> QED BY <3>2, <3>3, <3>4, <3>5
  <2>2. ASSUME NEW i \in 1..L+1
        PROVE  /\ evs[k[i]].rid = r /\ evs[k[i]].ok /\ evs[k[i]].family \in Registered
               /\ evs[k[i]].family = "request.received" <=> i = 1
    <3>1. CASE i \in 1..L
      BY <1>4, <1>5, <1>9, <3>1 DEF Genuine
    <3>2. CASE i = L + 1
      <4>1. evs[k[i]] = e
        BY <1>9, <3>2
      <4>2. e.family = "request.received" <=> i = 1
        BY <1>3, <1>10, <1>11, <3>2
      <4> QED BY <1>3, <1>6, <1>10, <4>1, <4>2
    <3> QED BY <3>1, <3>2
  <2> QED BY <1>9, <2>1, <2>2 DEF Genuine
<1>13. \A i \in 1..L : Ends(evs, k, i) <=> Ends(evs, j, i)
  BY <1>9 DEF Ends
<1>14. Ends(evs, k, L + 1) <=> f \in Terminals
  BY <1>3, <1>9 DEF Ends
<1>15. LateCosts(evs, k, m)
  <2> SUFFICES ASSUME NEW i \in 1..L+1, NEW l \in 1..L+1, m < i, i < l, Ends(evs, k, i)
               PROVE  evs[k[l]].family = "cost.recorded"
    BY <1>9 DEF LateCosts
  <2>1. i \in 1..L /\ Ends(evs, j, i)
    BY <1>13
  <2>2. CASE l \in 1..L
    <3>1. evs[j[l]].family = "cost.recorded"
      BY <1>4, <1>5, <2>1, <2>2 DEF LateCosts
    <3> QED BY <1>9, <2>2, <3>1
  <2>3. CASE l = L + 1
    <3>1. s # "active" /\ s # "absent"
      BY <1>1, <1>2, <1>4, <1>5, <1>11, <2>1 DEF Staged
    <3>2. evs[k[l]].family = f
      BY <1>3, <1>9, <2>3
    <3> QED BY <1>10, <3>1, <3>2
  <2> QED BY <2>2, <2>3
<1>16. /\ w.state = After(s, f) /\ w.journal = k /\ w.record = Fold(evs, k)
  BY <1>8
<1>17. After(s, f) \in States /\ After(s, f) \notin {"absent", "evicted"}
  BY <1>10 DEF After, States, TerminalLike
<1>18. Folded(evs, w)
  <2>1. Len(w.journal) > 0
    BY <1>9, <1>16
  <2> QED BY <1>8, <1>16, <1>17, <2>1 DEF Folded
<1>19. Staged(evs, w, m)
  <2>1. ASSUME After(s, f) = "active", NEW i \in 1..L+1, m < i PROVE ~Ends(evs, k, i)
    <3>1. f \notin Terminals /\ (s = "absent" \/ s = "active")
      BY <1>10, <2>1 DEF After, TerminalLike
    <3>2. CASE i = L + 1
      BY <1>14, <3>1, <3>2
    <3>3. CASE i \in 1..L
      <4>1. s = "active"
        BY <1>11, <3>1, <3>3
      <4> QED BY <1>1, <1>2, <1>4, <1>5, <1>13, <2>1, <3>3, <4>1 DEF Staged
    <3> QED BY <3>2, <3>3
  <2>2. ASSUME After(s, f) \notin {"absent", "active"} PROVE \E i \in 1..L+1 : Ends(evs, k, i)
    <3>1. CASE f \in Terminals
      <4>1. L + 1 \in 1..L+1
        OBVIOUS
      <4> QED BY <1>14, <3>1, <4>1
    <3>2. CASE f \notin Terminals
      <4>1. s \notin {"absent", "active"}
        BY <2>2, <3>2 DEF After
      <4>2. PICK i \in 1..L : Ends(evs, j, i)
        BY <1>1, <1>2, <1>4, <1>5, <4>1 DEF Staged, Ended
      <4> QED BY <1>13, <4>2
    <3> QED BY <3>1, <3>2
  <2> QED BY <1>9, <1>16, <2>1, <2>2 DEF Staged, Ended
<1> QED BY <1>1, <1>2, <1>3, <1>4, <1>7, <1>12, <1>15, <1>16, <1>17, <1>18, <1>19 DEF Upright

\* The slices of a journal that documents hold.
LEMMA GenuineSlice ==
  ASSUME NEW evs, NEW r, NEW j, Genuine(evs, r, j), IsSeq(evs), NEW n \in 0..Len(j)
  PROVE  /\ Genuine(evs, r, SubSeq(j, 1, n)) /\ Len(SubSeq(j, 1, n)) = n
         /\ \A i \in 1..n : SubSeq(j, 1, n)[i] = j[i]
<1>1. PICK S : S = 1..Len(evs) /\ j \in Seq(S)
  BY DEF Genuine
<1>2. PICK a : a = SubSeq(j, 1, n)
  OBVIOUS
<1>3. a \in Seq(S) /\ Len(a) = n /\ \A i \in 1..n : a[i] = j[i]
  BY <1>1, <1>2, SliceFacts
<1>4. Len(j) \in Nat /\ \A i \in 1..n : i \in 1..Len(j)
  BY <1>1, LenProperties
<1>5. Genuine(evs, r, a)
  <2>1. \A i, k \in 1..n : a[i] = a[k] => i = k
    BY <1>3, <1>4 DEF Genuine
  <2>2. ASSUME NEW i \in 1..n
        PROVE  /\ evs[a[i]].rid = r /\ evs[a[i]].ok /\ evs[a[i]].family \in Registered
               /\ evs[a[i]].family = "request.received" <=> i = 1
    <3>1. a[i] = j[i] /\ i \in 1..Len(j)
      BY <1>3, <1>4
    <3> QED BY <3>1 DEF Genuine
  <2> QED BY <1>1, <1>3, <2>1, <2>2 DEF Genuine
<1> QED BY <1>2, <1>3, <1>5

\* Later events change nothing of what earlier ones add up to.
LEMMA FoldGrows ==
  ASSUME NEW evs, IsSeq(evs), NEW x, NEW r, NEW j, Genuine(evs, r, j)
  PROVE  Fold(Append(evs, x), j) = Fold(evs, j)
<1>1. PICK more : more = Append(evs, x) /\ \A i \in 1..Len(evs) : more[i] = evs[i]
  <2>1. \A i \in 1..Len(evs) : Append(evs, x)[i] = evs[i]
    BY AppendFacts
  <2> QED BY <2>1
<1>2. IsSeq(j) /\ \A i \in 1..Len(j) : j[i] \in 1..Len(evs)
  BY GenuineFacts
<1>3. \A i \in 1..Len(j) : evs[j[i]].family = more[j[i]].family
  BY <1>1, <1>2
<1> QED BY <1>1, <1>2, <1>3, FoldAgrees

LEMMA SoundGrows ==
  ASSUME NEW evs, IsSeq(evs), NEW x, NEW r, NEW v, NEW ck, NEW m, NEW ix,
         Sound(evs, r, v, ck, m, ix)
  PROVE  Sound(Append(evs, x), r, v, ck, m, ix)
<1>1. PICK more : /\ more = Append(evs, x) /\ Len(more) = Len(evs) + 1
                  /\ \A i \in 1..Len(evs) : more[i] = evs[i]
  <2>1. Len(Append(evs, x)) = Len(evs) + 1 /\ \A i \in 1..Len(evs) : Append(evs, x)[i] = evs[i]
    BY AppendFacts
  <2> QED BY <2>1
<1>2. PICK j : j = v.journal
  OBVIOUS
<1>3. /\ m \in Nat /\ Genuine(evs, r, j) /\ LateCosts(evs, j, m) /\ Folded(evs, v) /\ Staged(evs, v, m)
      /\ CheckpointSound(evs, v, ck, m) /\ IndexSound(evs, v, ix)
  BY <1>2 DEF Sound
<1>4. /\ IsSeq(j) /\ Len(j) \in Nat /\ Len(evs) \in Nat /\ \A i \in 1..Len(j) : j[i] \in 1..Len(evs)
  BY <1>3, GenuineFacts
<1>5. \A i \in 1..Len(j) : more[j[i]] = evs[j[i]]
  BY <1>1, <1>4
<1>6. \A i \in 1..Len(j) : Ends(more, j, i) <=> Ends(evs, j, i)
  BY <1>5 DEF Ends
<1>7. Genuine(more, r, j)
  <2>1. 1..Len(evs) \subseteq 1..Len(more)
    BY <1>1, <1>4
  <2>2. j \in Seq(1..Len(more))
    BY <1>3, <2>1, SeqMonotonic DEF Genuine
  <2> QED BY <1>3, <1>5, <2>2 DEF Genuine
<1>8. LateCosts(more, j, m)
  BY <1>3, <1>5, <1>6 DEF LateCosts
<1>9. Folded(more, v)
  <2>1. Fold(more, j) = Fold(evs, j)
    BY <1>1, <1>3, FoldGrows
  <2> QED BY <1>2, <1>3, <2>1 DEF Folded
<1>10. Staged(more, v, m)
  BY <1>2, <1>3, <1>6 DEF Staged, Ended
<1>11. CheckpointSound(more, v, ck, m)
  <2>1. ASSUME m > 0, m <= Len(j) PROVE Fold(more, SubSeq(j, 1, m)) = Fold(evs, SubSeq(j, 1, m))
    <3>1. m \in 0..Len(j)
      BY <1>3, <1>4, <2>1
    <3>2. Genuine(evs, r, SubSeq(j, 1, m))
      BY <1>3, <3>1, GenuineSlice
    <3> QED BY <1>1, <3>2, FoldGrows
  <2> QED BY <1>2, <1>3, <2>1 DEF CheckpointSound
<1>12. IndexSound(more, v, ix)
  <2>1. ASSUME NEW n \in 1..Len(j), ix = SubSeq(j, 1, n), Ended(evs, ix) PROVE Ended(more, ix)
    <3>1. n \in 0..Len(j) /\ n \in Nat
      BY <1>4
    <3>2. Len(ix) = n /\ \A i \in 1..n : ix[i] = j[i]
      BY <1>3, <2>1, <3>1, GenuineSlice
    <3>3. PICK i \in 1..n : Ends(evs, ix, i)
      BY <2>1, <3>2 DEF Ended
    <3>4. i \in 1..Len(j) /\ ix[i] = j[i]
      BY <1>4, <3>1, <3>2
    <3>5. Ends(more, ix, i)
      BY <1>5, <3>3, <3>4 DEF Ends
    <3> QED BY <3>2, <3>5 DEF Ended
  <2> QED BY <1>2, <1>3, <2>1 DEF IndexSound
<1> QED BY <1>1, <1>2, <1>3, <1>7, <1>8, <1>9, <1>10, <1>11, <1>12 DEF Sound

LEMMA DurableGrows ==
  ASSUME NEW evs, IsSeq(evs), NEW x, NEW r, NEW v, NEW ck, NEW m, NEW ix, NEW sn,
         Sound(evs, r, v, ck, m, ix), Durable(evs, v, ix, sn)
  PROVE  Durable(Append(evs, x), v, ix, sn)
<1> SUFFICES ASSUME v.state \in {"persisted", "evicted"}
             PROVE  \E n \in 1..Len(ix) : sn = Fold(Append(evs, x), SubSeq(ix, 1, n))
  BY DEF Durable
<1>1. PICK n \in 1..Len(ix) : ix # None /\ sn = Fold(evs, SubSeq(ix, 1, n))
  BY DEF Durable
<1>2. PICK k \in 1..Len(v.journal) : ix = SubSeq(v.journal, 1, k)
  BY <1>1 DEF Sound, IndexSound
<1>3. Genuine(evs, r, v.journal) /\ Len(v.journal) \in Nat
  BY GenuineFacts DEF Sound
<1>4. Genuine(evs, r, ix) /\ Len(ix) = k
  <2>1. k \in 0..Len(v.journal)
    BY <1>3
  <2> QED BY <1>2, <1>3, <2>1, GenuineSlice
<1>5. n \in 0..Len(ix)
  BY <1>3, <1>4
<1>6. Genuine(evs, r, SubSeq(ix, 1, n))
  BY <1>4, <1>5, GenuineSlice
<1> QED BY <1>1, <1>6, FoldGrows

-----------------------------------------------------------------------------
(* process().                                                              *)

LEMMA ProcessIsSound ==
  ASSUME NEW evs, IsSeq(evs), NEW r, NEW v, NEW ck, NEW m, NEW ix, NEW sn,
         Sound(evs, r, v, ck, m, ix), Durable(evs, v, ix, sn),
         NEW eid \in 1..Len(evs), NEW e, e = evs[eid], e.rid = r,
         NEW w, w = Process(v, eid, e)
  PROVE  /\ Sound(evs, r, w, ck, m, ix) /\ Durable(evs, w, ix, sn)
         /\ Applies(v, eid, e) => w.state \notin {"absent", "evicted"} /\ Len(w.journal) > m
         /\ v.state = "persisted" => w.state = "persisted"
         /\ v.state \in TerminalLike =>
              \A b \in Blocks \ {"budget"} : w.record.blocks[b] = v.record.blocks[b]
<1>1. CASE ~Applies(v, eid, e)
  <2>1. w = v
    BY <1>1 DEF Process
  <2> QED BY <1>1, <2>1
<1>2. CASE Applies(v, eid, e)
  <2>1. w = Applied(v, eid, e.family)
    BY <1>2 DEF Process
  <2>2. PICK j : j = v.journal
    OBVIOUS
  <2>3. PICK S : S = 1..Len(evs) /\ eid \in S
    OBVIOUS
  <2>4. /\ Upright(evs, r, v, m) /\ Genuine(evs, r, j) /\ Folded(evs, v)
        /\ CheckpointSound(evs, v, ck, m) /\ IndexSound(evs, v, ix) /\ m \in Nat
    BY <2>2 DEF Sound, Upright
  <2>5. /\ Upright(evs, r, w, m) /\ w.journal = Append(j, eid) /\ w.state = After(v.state, e.family)
        /\ w.state \notin {"absent", "evicted"} /\ w.record = Fold(evs, w.journal)
    BY <1>2, <2>1, <2>2, <2>4, AppliedIsUpright
  <2>6. PICK k : k = w.journal
    OBVIOUS
  <2>7. PICK L \in Nat : L = Len(j) /\ j \in Seq(S) /\ IsSeq(j)
    <3>1. j \in Seq(S)
      BY <2>3, <2>4 DEF Genuine
    <3>2. Len(j) \in Nat
      BY <3>1, LenProperties
    <3> QED BY <3>1, <3>2 DEF IsSeq
  <2>8. Len(k) = L + 1
    <3>1. Len(Append(j, eid)) = L + 1
      BY <2>7, AppendFacts
    <3> QED BY <2>5, <2>6, <3>1
  <2>9. \A n \in 0..L : SubSeq(k, 1, n) = SubSeq(j, 1, n)
    BY <2>3, <2>5, <2>6, <2>7, SliceOfLonger
  <2>10. CheckpointSound(evs, w, ck, m)
    <3> SUFFICES ASSUME m > 0
                 PROVE  /\ m <= L + 1 /\ m \in DOMAIN ck
                        /\ ck[m] = [prefix |-> SubSeq(k, 1, m), record |-> Fold(evs, SubSeq(k, 1, m))]
      BY <2>6, <2>8 DEF CheckpointSound
    <3>1. /\ m <= L /\ m \in DOMAIN ck
          /\ ck[m] = [prefix |-> SubSeq(j, 1, m), record |-> Fold(evs, SubSeq(j, 1, m))]
      BY <2>2, <2>4, <2>7 DEF CheckpointSound
    <3>2. m \in 0..L
      BY <2>4, <3>1
    <3>3. SubSeq(k, 1, m) = SubSeq(j, 1, m)
      BY <2>9, <3>2
    <3>4. m <= L + 1
      BY <3>2
    <3> QED BY <3>1, <3>3, <3>4
  <2>11. IndexSound(evs, w, ix)
    <3> SUFFICES ASSUME ix # None
                 PROVE  \E n \in 1..L+1 : ix = SubSeq(k, 1, n) /\ Ended(evs, ix)
      BY <2>6, <2>8 DEF IndexSound
    <3>1. PICK n \in 1..L : ix = SubSeq(j, 1, n) /\ Ended(evs, ix)
      BY <2>2, <2>4, <2>7 DEF IndexSound
    <3>2. n \in 0..L /\ n \in 1..L+1
      OBVIOUS
    <3> QED BY <2>9, <3>1, <3>2
  <2>12. Sound(evs, r, w, ck, m, ix)
    BY <2>5, <2>10, <2>11 DEF Sound, Upright
  <2>13. Len(w.journal) > m
    <3>1. m > 0 => m <= L
      BY <2>2, <2>4, <2>7 DEF CheckpointSound
    <3> QED BY <2>4, <2>6, <2>8, <3>1
  <2>14. v.state = "persisted" => w.state = "persisted" /\ e.family = "cost.recorded"
    <3>1. Lookup(v.state, e.family) \in {"create", "apply", "apply_terminal"}
      BY <1>2 DEF Applies
    <3>2. v.state = "persisted" => e.family = "cost.recorded"
      BY <3>1, LookupRows
    <3> QED BY <2>5, <3>2, FamilyFacts DEF After
  <2>15. w.state \in {"persisted", "evicted"} => v.state = "persisted"
    BY <2>5 DEF After
  <2>16. Durable(evs, w, ix, sn)
    BY <2>15 DEF Durable
  <2>17. ASSUME v.state \in TerminalLike, NEW b \in Blocks \ {"budget"}
         PROVE  w.record.blocks[b] = v.record.blocks[b]
    <3>1. Lookup(v.state, e.family) \in {"create", "apply", "apply_terminal"}
      BY <1>2 DEF Applies
    <3>2. v.state \notin {"absent", "active", "evicted"}
      BY <2>17 DEF TerminalLike
    <3>3. e.family = "cost.recorded"
      BY <3>1, <3>2, LookupRows
    <3>4. "cost.recorded" \notin Writers[b]
      BY <2>17 DEF Blocks, Writers, Terminals, Plans, Works, Verifications, Failures
    <3>5. w.record = Fold(evs, Append(j, eid)) /\ v.record = Fold(evs, j)
      BY <2>2, <2>4, <2>5, <3>2 DEF Folded
    <3>6. Fold(evs, Append(j, eid)).blocks[b] = Fold(evs, j).blocks[b]
      <4>1. evs[eid].family \notin Writers[b]
        BY <3>3, <3>4
      <4> QED BY <2>7, <4>1, FoldNext
    <3> QED BY <3>5, <3>6
  <2> QED BY <2>5, <2>12, <2>13, <2>14, <2>16, <2>17
<1> QED BY <1>1, <1>2

-----------------------------------------------------------------------------
(* Replay.                                                                 *)

\* A request after the first k entries of the journal j, recovered from the checkpoint
\* at m, or from nothing when m is 0.
Point(evs, j, m, k) ==
  [state   |-> IF k = 0 THEN "absent"
               ELSE IF \E i \in 1..k : m < i /\ Ends(evs, j, i) THEN "terminal" ELSE "active",
   record  |-> IF k = 0 THEN None ELSE Fold(evs, SubSeq(j, 1, k)),
   journal |-> SubSeq(j, 1, k)]

LEMMA PointFacts ==
  ASSUME NEW evs, IsSeq(evs), NEW r, NEW j, Genuine(evs, r, j), NEW m \in 0..Len(j), NEW k \in m..Len(j)
  PROVE  /\ Folded(evs, Point(evs, j, m, k))
         /\ Point(evs, j, m, k).journal = SubSeq(j, 1, k)
         /\ Genuine(evs, r, SubSeq(j, 1, k)) /\ IsSeq(SubSeq(j, 1, k)) /\ Len(SubSeq(j, 1, k)) = k
         /\ \A i \in 1..k : SubSeq(j, 1, k)[i] = j[i]
<1>1. k \in 0..Len(j) /\ k \in Nat /\ Len(j) \in Nat
  BY GenuineFacts
<1>2. PICK a : a = SubSeq(j, 1, k)
  OBVIOUS
<1>3. Genuine(evs, r, a) /\ Len(a) = k /\ IsSeq(a) /\ \A i \in 1..k : a[i] = j[i]
  <2>1. Genuine(evs, r, a) /\ Len(a) = k /\ \A i \in 1..k : a[i] = j[i]
    BY <1>1, <1>2, GenuineSlice
  <2> QED BY <2>1, GenuineFacts
<1>4. PICK s : s = IF k = 0 THEN "absent"
                   ELSE IF \E i \in 1..k : m < i /\ Ends(evs, j, i) THEN "terminal" ELSE "active"
  OBVIOUS
<1>5. PICK x : x = IF k = 0 THEN None ELSE Fold(evs, a)
  OBVIOUS
<1>6. PICK v : v = [state |-> s, record |-> x, journal |-> a] /\ v = Point(evs, j, m, k)
  BY <1>2, <1>4, <1>5 DEF Point
<1>7. v.state = s /\ v.record = x /\ v.journal = a
  BY <1>6
<1>8. s \in States /\ s # "evicted" /\ (s = "absent" <=> k = 0)
  BY <1>4 DEF States, TerminalLike
<1>9. k = 0 => v = Blank
  <2>1. ASSUME k = 0 PROVE a = <<>>
    <3>1. a \in Seq(1..Len(evs)) /\ Len(a) = 0
      BY <1>3, <2>1 DEF Genuine
    <3> QED BY <3>1, EmptySeq
  <2> QED BY <1>4, <1>5, <1>6, <2>1 DEF Blank
<1>10. Folded(evs, v)
  <2>1. s # "absent" => Len(a) > 0
    BY <1>1, <1>3, <1>8
  <2>2. s \notin {"absent", "evicted"} => x = Fold(evs, a)
    BY <1>5, <1>8
  <2>3. s = "absent" => v = Blank
    BY <1>8, <1>9
  <2>4. v = [state |-> v.state, record |-> v.record, journal |-> v.journal]
    BY <1>6
  <2> QED BY <1>7, <1>8, <2>1, <2>2, <2>3, <2>4 DEF Folded
<1> QED BY <1>2, <1>3, <1>6, <1>7, <1>10

\* An event the seed has already is dropped.
LEMMA ReplaysKnown ==
  ASSUME NEW evs, IsSeq(evs), NEW r, NEW j, Genuine(evs, r, j), NEW m \in 0..Len(j), NEW k \in m..Len(j),
         NEW i \in 1..k
  PROVE  Process(Point(evs, j, m, k), j[i], evs[j[i]]) = Point(evs, j, m, k)
<1>1. PICK a : a = SubSeq(j, 1, k) /\ Point(evs, j, m, k).journal = a
  BY DEF Point
<1>2. DOMAIN a = 1..k /\ a[i] = j[i]
  <2>1. IsSeq(a) /\ Len(a) = k /\ \A n \in 1..k : a[n] = j[n]
    BY <1>1, PointFacts
  <2> QED BY <2>1, SeqFacts
<1>3. j[i] \in ToSet(a)
  BY <1>2 DEF ToSet
<1> QED BY <1>1, <1>3 DEF Process, Applies

\* The next one is applied.
LEMMA ReplaysNext ==
  ASSUME NEW evs, IsSeq(evs), NEW r, NEW j, Genuine(evs, r, j), NEW m \in 0..Len(j), LateCosts(evs, j, m),
         NEW k \in m..Len(j), k + 1 <= Len(j)
  PROVE  Process(Point(evs, j, m, k), j[k + 1], evs[j[k + 1]]) = Point(evs, j, m, k + 1)
<1>1. /\ k \in 0..Len(j) /\ k \in Nat /\ Len(j) \in Nat /\ k + 1 \in 1..Len(j) /\ m \in Nat
      /\ DOMAIN j = 1..Len(j)
  BY GenuineFacts
<1>2. PICK v : v = Point(evs, j, m, k)
  OBVIOUS
<1>3. PICK a : a = SubSeq(j, 1, k)
  OBVIOUS
<1>4. /\ Folded(evs, v) /\ v.journal = a /\ IsSeq(a) /\ Len(a) = k /\ \A i \in 1..k : a[i] = j[i]
  BY <1>2, <1>3, PointFacts
<1>5. PICK eid : eid = j[k + 1]
  OBVIOUS
<1>6. PICK e : e = evs[eid]
  OBVIOUS
<1>7. e.ok /\ e.family \in Registered /\ (e.family = "request.received" <=> k = 0)
  <2>1. e.ok /\ e.family \in Registered /\ (e.family = "request.received" <=> k + 1 = 1)
    BY <1>1, <1>5, <1>6 DEF Genuine
  <2> QED BY <1>1, <2>1
<1>8. eid \notin ToSet(a)
  <2>1. DOMAIN a = 1..k
    BY <1>4, SeqFacts
  <2>2. ASSUME NEW i \in 1..k PROVE a[i] # eid
    <3>1. i \in 1..Len(j) /\ i # k + 1 /\ a[i] = j[i]
      BY <1>1, <1>4
    <3> QED BY <1>1, <1>5, <3>1 DEF Genuine
  <2> QED BY <2>1, <2>2 DEF ToSet
<1>9. PICK s : s = v.state
  OBVIOUS
<1>10. s = IF k = 0 THEN "absent"
           ELSE IF \E i \in 1..k : m < i /\ Ends(evs, j, i) THEN "terminal" ELSE "active"
  BY <1>2, <1>9 DEF Point
<1>11. ASSUME NEW i \in 1..k, m < i, Ends(evs, j, i) PROVE e.family = "cost.recorded"
  <2>1. i \in 1..Len(j) /\ i < k + 1
    BY <1>1
  <2> QED BY <1>1, <1>5, <1>6, <1>11, <2>1 DEF LateCosts
<1>12. Lookup(s, e.family) \in {"create", "apply", "apply_terminal"}
  <2>1. CASE k = 0
    BY <1>7, <1>10, <2>1, LookupRows
  <2>2. CASE k # 0 /\ \E i \in 1..k : m < i /\ Ends(evs, j, i)
    <3>1. s = "terminal" /\ e.family = "cost.recorded"
      BY <1>10, <1>11, <2>2
    <3>2. s \in TerminalLike
      BY <3>1 DEF TerminalLike
    <3> QED BY <3>1, <3>2, LookupRows
  <2>3. CASE k # 0 /\ ~\E i \in 1..k : m < i /\ Ends(evs, j, i)
    <3>1. s = "active"
      BY <1>10, <2>3
    <3> QED BY <1>7, <2>3, <3>1, LookupRows
  <2> QED BY <2>1, <2>2, <2>3
<1>13. Applies(v, eid, e)
  BY <1>4, <1>7, <1>8, <1>9, <1>12 DEF Applies
<1>14. Process(v, eid, e) =
         [state |-> After(s, e.family), record |-> Fold(evs, Append(a, eid)), journal |-> Append(a, eid)]
  BY <1>4, <1>6, <1>9, <1>12, <1>13, AppliedIs DEF Process
<1>15. Append(a, eid) = SubSeq(j, 1, k + 1)
  <2>1. PICK S : j \in Seq(S)
    BY DEF Genuine
  <2> QED BY <1>1, <1>3, <1>5, <2>1, SliceGrows
<1>16. Ends(evs, j, k + 1) <=> e.family \in Terminals
  BY <1>5, <1>6 DEF Ends
<1>17. m < k + 1 /\ k + 1 # 0 /\ \A i : i \in 1..k+1 <=> i \in 1..k \/ i = k + 1
  BY <1>1
<1>18. After(s, e.family) =
         IF \E i \in 1..k+1 : m < i /\ Ends(evs, j, i) THEN "terminal" ELSE "active"
  <2>1. CASE e.family \in Terminals
    BY <1>16, <1>17, <2>1 DEF After
  <2>2. CASE e.family \notin Terminals
    <3>1. (\E i \in 1..k+1 : m < i /\ Ends(evs, j, i)) <=> \E i \in 1..k : m < i /\ Ends(evs, j, i)
      BY <1>16, <1>17, <2>2
    <3>2. CASE k = 0
      <4>1. ~\E i \in 1..k : m < i /\ Ends(evs, j, i)
        BY <3>2
      <4> QED BY <1>10, <2>2, <3>1, <3>2, <4>1 DEF After
    <3>3. CASE k # 0
      BY <1>10, <2>2, <3>1, <3>3 DEF After
    <3> QED BY <3>2, <3>3
  <2> QED BY <2>1, <2>2
<1>19. Point(evs, j, m, k + 1) =
         [state |-> After(s, e.family), record |-> Fold(evs, Append(a, eid)), journal |-> Append(a, eid)]
  BY <1>15, <1>17, <1>18 DEF Point
<1> QED BY <1>2, <1>5, <1>6, <1>14, <1>19

\* The requests that the replay of ids goes through.
Replays(after, seed, ids) ==
  \A n \in 0..Len(ids) :
    after[n] = IF n = 0 THEN seed ELSE Process(after[n - 1], ids[n], events[ids[n]])

LEMMA ReplayExists ==
  ASSUME NEW seed, NEW ids, IsSeq(ids)
  PROVE  \E after : Replays(after, seed, ids) /\ ReplayJournal(seed, ids) = after[Len(ids)]
<1>1. PICK L \in Nat : L = Len(ids)
  BY SeqFacts
<1> DEFINE Step(p, n) == IF n = 0 THEN seed ELSE Process(p[n - 1], ids[n], events[ids[n]])
           Upto(m) == \E p : p = [n \in 0..m |-> Step(p, n)]
           Failing == {m \in 0..L : ~Upto(m)}
<1>2. Upto(0)
  <2>1. PICK p : p = [n \in 0..0 |-> seed]
    OBVIOUS
  <2>2. p = [n \in 0..0 |-> Step(p, n)]
    BY <2>1
  <2> QED BY <2>2
<1>3. ASSUME NEW m \in Nat, Upto(m) PROVE Upto(m + 1)
  <2>1. PICK p : p = [n \in 0..m |-> Step(p, n)]
    BY <1>3
  <2>2. PICK q : q = [n \in 0..m+1 |-> IF n = m + 1 THEN Step(p, n) ELSE p[n]]
    OBVIOUS
  <2>3. ASSUME NEW n \in 0..m+1 PROVE q[n] = Step(q, n)
    <3>1. n # 0 => n - 1 \in 0..m /\ q[n - 1] = p[n - 1]
      BY <2>2
    <3>2. Step(p, n) = Step(q, n)
      BY <3>1
    <3>3. n # m + 1 => n \in 0..m
      OBVIOUS
    <3>4. n # m + 1 => q[n] = Step(p, n)
      <4> HIDE DEF Step
      <4> QED BY <2>1, <2>2, <3>3
    <3>5. n = m + 1 => q[n] = Step(p, n)
      <4> HIDE DEF Step
      <4> QED BY <2>2
    <3> HIDE DEF Step
    <3> QED BY <3>2, <3>4, <3>5
  <2>4. q = [n \in 0..m+1 |-> Step(q, n)]
    <3> HIDE DEF Step
    <3> QED BY <2>2, <2>3
  <2> QED BY <2>4
<1>4. Failing = {}
  <2> HIDE DEF Upto
  <2> SUFFICES ASSUME Failing # {} PROVE FALSE
    OBVIOUS
  <2>1. PICK m \in Failing : \A y \in Failing : m <= y
    <3>1. Failing \in SUBSET Nat
      OBVIOUS
    <3> HIDE DEF Failing
    <3> QED BY <3>1, LeastNatural
  <2>2. m \in 1..L /\ m - 1 \in Nat /\ m - 1 \in 0..L /\ m - 1 \notin Failing
    BY <1>2, <2>1
  <2>3. Upto(m - 1)
    BY <2>2
  <2>4. Upto((m - 1) + 1)
    BY <1>3, <2>2, <2>3
  <2>5. (m - 1) + 1 = m
    BY <2>2
  <2> QED BY <2>1, <2>4, <2>5
<1>5. Upto(L)
  <2> HIDE DEF Upto
  <2> QED BY <1>4
<1>6. PICK after : after = CHOOSE p : p = [n \in 0..Len(ids) |-> Step(p, n)]
  OBVIOUS
<1>7. after = [n \in 0..Len(ids) |-> Step(after, n)]
  BY <1>1, <1>5, <1>6
<1>8. ReplayJournal(seed, ids) = after[Len(ids)]
  BY <1>6 DEF ReplayJournal
<1>9. Replays(after, seed, ids)
  <2>1. \A n \in 0..Len(ids) : after[n] = Step(after, n)
    <3> HIDE DEF Step
    <3> QED BY <1>7
  <2> QED BY <2>1 DEF Replays
<1> QED BY <1>8, <1>9

\* Replay of a journal, from at most one entry past what the seed holds, restores it.
LEMMA ReplayReaches ==
  ASSUME IsSeq(events), NEW r, NEW j, Genuine(events, r, j), NEW m \in 0..Len(j),
         LateCosts(events, j, m), NEW from \in 1..m+1
  PROVE  ReplayJournal(Point(events, j, m, m), SubSeq(j, from, Len(j))) = Point(events, j, m, Len(j))
<1>1. PICK L \in Nat : L = Len(j) /\ m \in 0..L /\ m \in Nat /\ from \in Nat /\ from <= L + 1 /\ from >= 1
  <2>1. Len(j) \in Nat
    BY GenuineFacts
  <2> QED BY <2>1
<1>2. PICK N \in Nat : N = L - from + 1
  BY <1>1
<1>3. PICK ids : ids = SubSeq(j, from, L)
  OBVIOUS
<1>4. IsSeq(ids) /\ Len(ids) = N /\ \A n \in 1..N : ids[n] = j[from + n - 1]
  <2>1. \A i \in from..L : j[i] \in Nat
    <3>1. \A i \in from..L : i \in 1..L
      BY <1>1
    <3> QED BY <1>1, <3>1, GenuineFacts
  <2>2. /\ ids \in Seq(Nat) /\ Len(ids) = (IF from <= L THEN L - from + 1 ELSE 0)
        /\ \A n \in 1..L-from+1 : ids[n] = j[from + n - 1]
    BY <1>1, <1>3, <2>1, SubSeqProperties
  <2>3. Len(ids) = N
    BY <1>1, <1>2, <2>2
  <2> QED BY <1>2, <2>2, <2>3 DEF IsSeq
<1>5. PICK seed : seed = Point(events, j, m, m)
  OBVIOUS
<1>6. PICK after :
        /\ \A n \in 0..N : after[n] = IF n = 0 THEN seed ELSE Process(after[n - 1], ids[n], events[ids[n]])
        /\ ReplayJournal(seed, ids) = after[N]
  <2>1. PICK after : Replays(after, seed, ids) /\ ReplayJournal(seed, ids) = after[Len(ids)]
    BY <1>4, ReplayExists
  <2> QED BY <1>4, <2>1 DEF Replays
<1> DEFINE K(n) == IF from + n - 1 <= m THEN m ELSE from + n - 1
           Failing == {n \in 0..N : after[n] # Point(events, j, m, K(n))}
<1>7. 0 \notin Failing
  <2>1. K(0) = m
    BY <1>1
  <2>2. after[0] = seed
    BY <1>6
  <2> HIDE DEF K
  <2> QED BY <1>5, <2>1, <2>2
<1>8. ASSUME NEW n \in 1..N, after[n - 1] = Point(events, j, m, K(n - 1))
      PROVE  after[n] = Point(events, j, m, K(n))
  <2>1. PICK i \in 1..L : i = from + n - 1
    BY <1>1, <1>2
  <2>2. ids[n] = j[i]
    BY <1>4, <2>1
  <2>3. after[n] = Process(after[n - 1], j[i], events[j[i]])
    <3>1. n \in 0..N /\ n # 0
      OBVIOUS
    <3> HIDE DEF K
    <3> QED BY <1>6, <2>2, <3>1
  <2>4. CASE i <= m
    <3>1. K(n) = m /\ K(n - 1) = m /\ i \in 1..m /\ m \in m..L
      BY <1>1, <2>1, <2>4
    <3> HIDE DEF K
    <3>2. Process(Point(events, j, m, m), j[i], events[j[i]]) = Point(events, j, m, m)
      BY <1>1, <3>1, ReplaysKnown
    <3> QED BY <1>8, <2>3, <3>1, <3>2
  <2>5. CASE i > m
    <3>1. PICK k \in m..L : k + 1 = i
      BY <1>1, <2>5
    <3>2. K(n) = k + 1 /\ K(n - 1) = k /\ k + 1 <= L
      BY <1>1, <2>1, <2>5, <3>1
    <3> HIDE DEF K
    <3>3. Process(Point(events, j, m, k), j[k + 1], events[j[k + 1]]) = Point(events, j, m, k + 1)
      BY <1>1, <3>2, ReplaysNext
    <3> QED BY <1>8, <2>3, <3>1, <3>2, <3>3
  <2> QED BY <1>1, <2>4, <2>5
<1>9. Failing = {}
  <2> HIDE DEF K
  <2> SUFFICES ASSUME Failing # {} PROVE FALSE
    OBVIOUS
  <2>1. PICK n \in Failing : \A y \in Failing : n <= y
    <3>1. Failing \in SUBSET Nat
      OBVIOUS
    <3> HIDE DEF Failing
    <3> QED BY <3>1, LeastNatural
  <2>2. n \in 1..N /\ n - 1 \in 0..N /\ n - 1 \notin Failing
    BY <1>7, <2>1
  <2>3. after[n - 1] = Point(events, j, m, K(n - 1))
    BY <2>2
  <2>4. after[n] = Point(events, j, m, K(n))
    BY <1>8, <2>2, <2>3
  <2> QED BY <2>1, <2>4
<1>10. K(N) = L
  BY <1>1, <1>2
<1>11. after[N] = Point(events, j, m, L)
  <2>1. after[N] = Point(events, j, m, K(N))
    <3> HIDE DEF K
    <3> QED BY <1>9
  <2> HIDE DEF K
  <2> QED BY <1>10, <2>1
<1> HIDE DEF K
<1> QED BY <1>1, <1>3, <1>5, <1>6, <1>11

\* The request it restores is as the invariant wants it, and the one that was lost
\* when that one was active.
LEMMA RestoredIsSound ==
  ASSUME NEW evs, IsSeq(evs), NEW r, NEW v, NEW ck, NEW m, NEW ix, Sound(evs, r, v, ck, m, ix),
         Len(v.journal) > 0, m <= Len(v.journal),
         NEW w, w = Point(evs, v.journal, m, Len(v.journal))
  PROVE  /\ Sound(evs, r, w, ck, m, ix)
         /\ w.journal = v.journal /\ w.record = Fold(evs, v.journal)
         /\ w.state \in {"active", "terminal"}
         /\ v.state = "active" => w = v
<1>1. PICK j : j = v.journal
  OBVIOUS
<1>2. /\ m \in Nat /\ Genuine(evs, r, j) /\ LateCosts(evs, j, m) /\ Folded(evs, v) /\ Staged(evs, v, m)
      /\ CheckpointSound(evs, v, ck, m) /\ IndexSound(evs, v, ix)
  BY <1>1 DEF Sound
<1>3. PICK L \in Nat : L = Len(j) /\ L # 0 /\ m \in 0..L /\ L \in m..L /\ SubSeq(j, 1, L) = j
  <2>1. Len(j) \in Nat
    BY <1>2, GenuineFacts
  <2>2. SubSeq(j, 1, Len(j)) = j
    BY <1>2, WholeSlice DEF Genuine
  <2> QED BY <1>1, <1>2, <2>1, <2>2
<1>4. PICK s : s = IF \E i \in 1..L : m < i /\ Ends(evs, j, i) THEN "terminal" ELSE "active"
  OBVIOUS
<1>5. w = [state |-> s, record |-> Fold(evs, j), journal |-> j]
  BY <1>1, <1>3, <1>4 DEF Point
<1>6. w.state = s /\ w.record = Fold(evs, j) /\ w.journal = j
  BY <1>5
<1>7. s \in {"active", "terminal"}
  BY <1>4
<1>8. Folded(evs, w)
  BY <1>1, <1>2, <1>3, PointFacts
<1>9. Staged(evs, w, m)
  <2>1. s = "active" => \A i \in 1..L : m < i => ~Ends(evs, j, i)
    BY <1>4
  <2>2. s # "active" => \E i \in 1..L : Ends(evs, j, i)
    BY <1>4
  <2> QED BY <1>3, <1>6, <2>1, <2>2 DEF Staged, Ended
<1>10. CheckpointSound(evs, w, ck, m)
  BY <1>1, <1>2, <1>6 DEF CheckpointSound
<1>11. IndexSound(evs, w, ix)
  BY <1>1, <1>2, <1>6 DEF IndexSound
<1>12. ASSUME v.state = "active" PROVE w = v
  <2>1. s = "active"
    BY <1>1, <1>2, <1>3, <1>4, <1>12 DEF Staged
  <2>2. v = [state |-> v.state, record |-> v.record, journal |-> j] /\ v.record = Fold(evs, j)
    BY <1>1, <1>2, <1>12 DEF Folded
  <2> QED BY <1>5, <1>12, <2>1, <2>2
<1> QED BY <1>1, <1>2, <1>6, <1>7, <1>8, <1>9, <1>10, <1>11, <1>12 DEF Sound

\* What was indexed is sound by itself, when no checkpoint says more.
LEMMA IndexedIsSound ==
  ASSUME NEW evs, IsSeq(evs), NEW r, NEW v, NEW ck, NEW ix, Sound(evs, r, v, ck, 0, ix), ix # None,
         NEW w, w = Point(evs, ix, 0, Len(ix))
  PROVE  /\ Sound(evs, r, w, ck, 0, ix)
         /\ w.journal = ix /\ w.record = Fold(evs, ix)
         /\ w.state \in {"active", "terminal"}
         /\ v.state # "active"
         /\ \E n \in 1..Len(v.journal) : ix = SubSeq(v.journal, 1, n)
         /\ Genuine(evs, r, ix) /\ LateCosts(evs, ix, 0) /\ Len(ix) > 0
<1>1. PICK j : j = v.journal
  OBVIOUS
<1>2. Genuine(evs, r, j) /\ LateCosts(evs, j, 0) /\ Staged(evs, v, 0) /\ IndexSound(evs, v, ix)
  BY <1>1 DEF Sound
<1>3. PICK n \in 1..Len(j) : ix = SubSeq(j, 1, n) /\ Ended(evs, ix)
  BY <1>1, <1>2 DEF IndexSound
<1>4. Len(j) \in Nat /\ n \in 0..Len(j) /\ n \in Nat /\ n > 0 /\ \A i \in 1..n : i \in 1..Len(j)
  <2>1. Len(j) \in Nat
    BY <1>2, GenuineFacts
  <2> QED BY <2>1
<1>5. Genuine(evs, r, ix) /\ Len(ix) = n /\ \A i \in 1..n : ix[i] = j[i]
  BY <1>2, <1>3, <1>4, GenuineSlice
<1>6. \A i \in 1..n : Ends(evs, ix, i) <=> Ends(evs, j, i)
  BY <1>5 DEF Ends
<1>7. LateCosts(evs, ix, 0)
  BY <1>2, <1>4, <1>5, <1>6 DEF LateCosts
<1>8. v.state # "active"
  <2>1. PICK i \in 1..n : Ends(evs, j, i)
    BY <1>3, <1>5, <1>6 DEF Ended
  <2>2. i \in 1..Len(j) /\ 0 < i
    BY <1>4
  <2> QED BY <1>1, <1>2, <2>1, <2>2 DEF Staged
<1>9. SubSeq(ix, 1, n) = ix
  BY <1>5, WholeSlice DEF Genuine
<1>10. PICK s : s = IF \E i \in 1..n : 0 < i /\ Ends(evs, ix, i) THEN "terminal" ELSE "active"
  OBVIOUS
<1>11. w = [state |-> s, record |-> Fold(evs, ix), journal |-> ix]
  <2>1. n # 0
    BY <1>4
  <2>2. w = Point(evs, ix, 0, n)
    BY <1>5
  <2>3. Point(evs, ix, 0, n) = [state |-> s, record |-> Fold(evs, SubSeq(ix, 1, n)), journal |-> SubSeq(ix, 1, n)]
    BY <1>10, <2>1 DEF Point
  <2> QED BY <1>9, <2>2, <2>3
<1>12. w.state = s /\ w.record = Fold(evs, ix) /\ w.journal = ix /\ s \in {"active", "terminal"}
  BY <1>10, <1>11
<1>13. Folded(evs, w)
  <2>1. 0 \in 0..Len(ix) /\ Len(ix) \in 0..Len(ix)
    BY <1>4, <1>5
  <2> QED BY <1>5, <2>1, PointFacts
<1>14. Staged(evs, w, 0)
  <2>1. s = "active" => \A i \in 1..n : 0 < i => ~Ends(evs, ix, i)
    BY <1>10
  <2>2. s # "active" => \E i \in 1..n : Ends(evs, ix, i)
    BY <1>10
  <2> QED BY <1>5, <1>12, <2>1, <2>2 DEF Staged, Ended
<1>15. CheckpointSound(evs, w, ck, 0)
  BY DEF CheckpointSound
<1>16. IndexSound(evs, w, ix)
  <2>1. n \in 1..n /\ ix = SubSeq(ix, 1, n) /\ Ended(evs, ix)
    BY <1>3, <1>4, <1>9
  <2> QED BY <1>5, <1>12, <2>1 DEF IndexSound
<1>17. Sound(evs, r, w, ck, 0, ix)
  BY <1>5, <1>7, <1>12, <1>13, <1>14, <1>15, <1>16 DEF Sound
<1>18. \E k \in 1..Len(v.journal) : ix = SubSeq(v.journal, 1, k)
  BY <1>1, <1>3
<1> QED BY <1>4, <1>5, <1>7, <1>8, <1>12, <1>17, <1>18

-----------------------------------------------------------------------------
(* Maps of requests, and the documents.                                    *)

Update(g, f, x, y) == g = [f EXCEPT ![x] = y]

LEMMA MapUpdate ==
  ASSUME NEW f, Map(f), NEW x \in Rids, NEW y, NEW g, Update(g, f, x, y)
  PROVE  Map(g) /\ g[x] = y /\ \A r \in Rids : r # x => g[r] = f[r]
<1>1. f = [r \in Rids |-> f[r]]
  BY DEF Map
<1>2. g = [r \in Rids |-> IF r = x THEN y ELSE f[r]]
  BY <1>1 DEF Update
<1> QED BY <1>2 DEF Map

\* The rest of the requests, when a step is about x.
LEMMA OthersStay ==
  ASSUME IInv, NEW x, events' = events,
         \A r \in Rids : r # x =>
           /\ Live(r)' = Live(r) /\ req'[r] = req[r] /\ persisted_at'[r] = persisted_at[r]
           /\ checkpoint'[r] = checkpoint[r] /\ latest'[r] = latest[r]
           /\ index'[r] = index[r] /\ snapshot'[r] = snapshot[r],
         x \in Rids => /\ Sound(events, x, Live(x)', checkpoint'[x], latest'[x], index'[x])
                       /\ Durable(events, req'[x], index'[x], snapshot'[x])
                       /\ persisted_at'[x] # None => req'[x].state = "persisted"
  PROVE  /\ \A r \in Rids : Kept(r)' /\ Durable(events, req[r], index[r], snapshot[r])'
         /\ Marked'
<1>1. ASSUME NEW r \in Rids
      PROVE  /\ Sound(events, r, Live(r)', checkpoint'[r], latest'[r], index'[r])
             /\ Durable(events, req'[r], index'[r], snapshot'[r])
             /\ persisted_at'[r] # None => req'[r].state = "persisted"
  <2>1. CASE r = x
    BY <2>1
  <2>2. CASE r # x
    BY <2>2 DEF IInv, Kept, Marked
  <2> QED BY <2>1, <2>2
<1>2. ASSUME NEW r \in Rids PROVE Kept(r)' /\ Durable(events, req[r], index[r], snapshot[r])'
  BY <1>1 DEF Kept
<1>3. Marked'
  BY <1>1 DEF Marked
<1> QED BY <1>2, <1>3

LEMMA IndexWritten ==
  ASSUME NEW evs, IsSeq(evs), NEW r, NEW v, NEW ck, NEW m, NEW ix, Sound(evs, r, v, ck, m, ix),
         v.state \in TerminalLike
  PROVE  /\ Sound(evs, r, v, ck, m, v.journal)
         /\ v.journal # None /\ Len(v.journal) > 0 /\ Len(v.journal) \in Nat
         /\ SubSeq(v.journal, 1, Len(v.journal)) = v.journal
<1>1. PICK j : j = v.journal
  OBVIOUS
<1>2. Genuine(evs, r, j) /\ Folded(evs, v) /\ Staged(evs, v, m)
  BY <1>1 DEF Sound
<1>3. j \in Seq(Nat) /\ Len(j) \in Nat
  BY <1>2, GenuineFacts
<1>4. v.state \notin {"absent", "active"}
  BY DEF TerminalLike
<1>5. Len(j) > 0 /\ Ended(evs, j)
  BY <1>1, <1>2, <1>4 DEF Folded, Staged
<1>6. SubSeq(j, 1, Len(j)) = j
  BY <1>3, WholeSlice
<1>7. j # None
  BY <1>3, NoneAssumption
<1>8. Len(j) \in 1..Len(j)
  BY <1>3, <1>5
<1>9. IndexSound(evs, v, j)
  BY <1>1, <1>5, <1>6, <1>8 DEF IndexSound
<1> QED BY <1>1, <1>3, <1>5, <1>6, <1>7, <1>9 DEF Sound

\* Marking a request persisted keeps what it is worth.
LEMMA PersistedIsSound ==
  ASSUME NEW evs, NEW r, NEW v, NEW ck, NEW m, NEW ix, Sound(evs, r, v, ck, m, ix),
         v.state = "terminal", NEW w, w = [v EXCEPT !.state = "persisted"]
  PROVE  /\ Sound(evs, r, w, ck, m, ix)
         /\ w.state = "persisted" /\ w.record = v.record /\ w.journal = v.journal
<1>1. Folded(evs, v) /\ Staged(evs, v, m)
  BY DEF Sound
<1>2. PICK p : p = "persisted"
  OBVIOUS
<1>3. v = [state |-> v.state, record |-> v.record, journal |-> v.journal]
  BY <1>1 DEF Folded
<1>4. w = [state |-> p, record |-> v.record, journal |-> v.journal]
  BY <1>2, <1>3
<1>5. w.state = p /\ w.record = v.record /\ w.journal = v.journal
  BY <1>4
<1>6. Folded(evs, w)
  <2>1. p \in States /\ p \notin {"absent", "evicted"}
    BY <1>2 DEF States, TerminalLike
  <2>2. Len(v.journal) > 0 /\ v.record = Fold(evs, v.journal)
    BY <1>1 DEF Folded
  <2> QED BY <1>4, <1>5, <2>1, <2>2 DEF Folded
<1>7. Staged(evs, w, m)
  BY <1>1, <1>2, <1>5 DEF Staged
<1>8. CheckpointSound(evs, w, ck, m) /\ IndexSound(evs, w, ix)
  BY <1>5 DEF Sound, CheckpointSound, IndexSound
<1> QED BY <1>2, <1>5, <1>6, <1>7, <1>8 DEF Sound

Evicting(w, v) == v.state = "persisted" /\ w = [v EXCEPT !.state = "evicted", !.record = None]

LEMMA EvictedIsSound ==
  ASSUME NEW evs, NEW r, NEW v, NEW ck, NEW m, NEW ix, Sound(evs, r, v, ck, m, ix),
         NEW w, Evicting(w, v)
  PROVE  /\ Sound(evs, r, w, ck, m, ix)
         /\ w.state = "evicted" /\ w.journal = v.journal
<1>1. Folded(evs, v) /\ Staged(evs, v, m)
  BY DEF Sound
<1>2. PICK p : p = "evicted"
  OBVIOUS
<1>3. v = [state |-> v.state, record |-> v.record, journal |-> v.journal]
  BY <1>1 DEF Folded
<1>4. w = [state |-> p, record |-> None, journal |-> v.journal]
  <2>1. w = [v EXCEPT !.state = p, !.record = None]
    BY <1>2 DEF Evicting
  <2> QED BY ONLY <1>3, <2>1, Updated
<1>5. w.state = p /\ w.record = None /\ w.journal = v.journal
  BY ONLY <1>4
<1>6. Folded(evs, w)
  <2>1. p \in States /\ p # "absent" /\ p = "evicted"
    BY <1>2 DEF States
  <2>2. Len(v.journal) > 0
    BY <1>1 DEF Folded, Evicting
  <2> QED BY <1>4, <1>5, <2>1, <2>2 DEF Folded
<1>7. Staged(evs, w, m)
  BY <1>1, <1>2, <1>5 DEF Staged, Evicting
<1>8. CheckpointSound(evs, w, ck, m) /\ IndexSound(evs, w, ix)
  BY <1>5 DEF Sound, CheckpointSound, IndexSound
<1> QED BY <1>2, <1>5, <1>6, <1>7, <1>8 DEF Sound

-----------------------------------------------------------------------------
(* The steps.                                                              *)

LEMMA BlankIsSound ==
  ASSUME NEW evs, NEW r, NEW ck
  PROVE  Sound(evs, r, Blank, ck, 0, None)
<1>1. /\ Blank.state = "absent" /\ Blank.record = None /\ Blank.journal = <<>>
      /\ Blank = [state |-> Blank.state, record |-> Blank.record, journal |-> Blank.journal]
      /\ "absent" \in States
  BY DEF Blank, States
<1>2. <<>> \in Seq(1..Len(evs)) /\ Len(<<>>) = 0
  OBVIOUS
<1>3. Genuine(evs, r, Blank.journal)
  BY <1>1, <1>2 DEF Genuine
<1>4. LateCosts(evs, Blank.journal, 0)
  BY <1>1, <1>2 DEF LateCosts
<1>5. Folded(evs, Blank)
  BY <1>1 DEF Folded
<1>6. Staged(evs, Blank, 0)
  BY <1>1 DEF Staged
<1>7. CheckpointSound(evs, Blank, ck, 0) /\ IndexSound(evs, Blank, None)
  BY DEF CheckpointSound, IndexSound
<1> QED BY <1>3, <1>4, <1>5, <1>6, <1>7 DEF Sound

LEMMA InitIInv == Init => IInv
<1> SUFFICES ASSUME Init PROVE IInv
  OBVIOUS
<1>1. ASSUME NEW r \in Rids
      PROVE  /\ req[r] = Blank /\ index[r] = None /\ latest[r] = 0 /\ Live(r) = Blank
             /\ persisted_at[r] = None
  BY DEF Init, Live
<1>2. Blank.state = "absent"
  BY DEF Blank
<1>3. \A r \in Rids : Kept(r)
  BY <1>1, BlankIsSound DEF Kept
<1>4. \A r \in Rids : Durable(events, req[r], index[r], snapshot[r])
  BY <1>1, <1>2 DEF Durable
<1>5. Shape
  BY DEF Init, Shape, Map
<1>6. Restarted /\ Calling /\ Marked
  BY <1>1 DEF Init, Restarted, Calling, Marked
<1> QED BY <1>3, <1>4, <1>5, <1>6 DEF IInv

LEMMA EventsAreSeq == Shape => IsSeq(events)
BY DEF Shape, IsSeq

\* A delivery, of an event that is there or arrives with it.
LEMMA DeliverIInv ==
  ASSUME IInv, NEW eid \in 1..Len(events'), NEW e, e = events'[eid], Deliver(eid, e),
         \/ events' = events
         \/ \E x \in Envelopes : events' = Append(events, x)
  PROVE  IInv'
<1>1. /\ Shape /\ Restarted /\ Calling /\ Marked /\ toRecover = {} /\ at = "idle"
      /\ toRecover' = {} /\ at' \in {"checkpoint", "idle"}
      /\ UNCHANGED <<persisted_at, index, snapshot, checkpoint, latest, memory>>
  BY DEF IInv, Deliver, Idle, storageVars, crashVars
<1>2. PICK evs : evs = events'
  OBVIOUS
<1>3. evs \in Seq(Envelopes)
  <2>1. events \in Seq(Envelopes)
    BY <1>1 DEF Shape
  <2> QED BY <1>2, <2>1, AppendProperties
<1>4. IsSeq(evs) /\ IsSeq(events)
  BY <1>1, <1>3, EventsAreSeq DEF IsSeq
<1>5. PICK x \in Rids : x = e.rid
  <2>1. e \in Envelopes
    BY <1>2, <1>3, ElementOfSeq
  <2> QED BY <2>1 DEF Envelopes
<1>6. ASSUME NEW r \in Rids
      PROVE  /\ Sound(evs, r, req[r], checkpoint[r], latest[r], index[r])
             /\ Durable(evs, req[r], index[r], snapshot[r])
  <2>1. /\ Sound(events, r, req[r], checkpoint[r], latest[r], index[r])
        /\ Durable(events, req[r], index[r], snapshot[r])
    BY <1>1 DEF IInv, Kept, Live
  <2>2. CASE events' = events
    BY <1>2, <2>1, <2>2
  <2>3. CASE \E y \in Envelopes : events' = Append(events, y)
    <3>1. PICK y : evs = Append(events, y)
      BY <1>2, <2>3
    <3> QED BY <1>4, <2>1, <3>1, SoundGrows, DurableGrows
  <2> QED BY <2>2, <2>3
<1>7. PICK w : w = Process(req[x], eid, e)
  OBVIOUS
<1>8. PICK v : v = req[x]
  OBVIOUS
<1>9. /\ req' = [req EXCEPT ![x] = w] /\ rid' = x
      /\ at' = "checkpoint" => Applies(v, eid, e)
  BY <1>5, <1>7, <1>8 DEF Deliver
<1>10. Map(req') /\ req'[x] = w /\ \A r \in Rids : r # x => req'[r] = req[r]
  <2>1. Map(req)
    BY <1>1 DEF Shape
  <2>2. Update(req', req, x, w)
    BY <1>9 DEF Update
  <2> QED BY <2>1, <2>2, MapUpdate
<1>11. /\ Sound(evs, x, w, checkpoint[x], latest[x], index[x]) /\ Durable(evs, w, index[x], snapshot[x])
       /\ Applies(v, eid, e) => w.state \notin {"absent", "evicted"} /\ Len(w.journal) > latest[x]
       /\ v.state = "persisted" => w.state = "persisted"
  <2>1. Sound(evs, x, v, checkpoint[x], latest[x], index[x]) /\ Durable(evs, v, index[x], snapshot[x])
    BY <1>6, <1>8
  <2>2. eid \in 1..Len(evs) /\ e = evs[eid] /\ e.rid = x /\ w = Process(v, eid, e)
    BY <1>2, <1>5, <1>7, <1>8
  <2> QED BY <1>4, <2>1, <2>2, ProcessIsSound
<1>12. ASSUME NEW r \in Rids
       PROVE  /\ Sound(evs, r, req'[r], checkpoint[r], latest[r], index[r])
              /\ Durable(evs, req'[r], index[r], snapshot[r])
              /\ persisted_at[r] # None => req'[r].state = "persisted"
  <2>1. CASE r = x
    BY <1>1, <1>8, <1>10, <1>11, <2>1 DEF Marked
  <2>2. CASE r # x
    BY <1>1, <1>6, <1>10, <2>2 DEF Marked
  <2> QED BY <2>1, <2>2
<1>13. \A r \in Rids : Kept(r)' /\ Durable(events, req[r], index[r], snapshot[r])'
  BY <1>1, <1>2, <1>12 DEF Kept, Live
<1>14. Marked'
  BY <1>1, <1>12 DEF Marked
<1>15. Shape'
  BY <1>1, <1>2, <1>3, <1>9, <1>10 DEF Shape, Map
<1>16. Restarted' /\ Calling'
  BY <1>1, <1>9, <1>10, <1>11 DEF Restarted, Calling
<1> QED BY <1>13, <1>14, <1>15, <1>16 DEF IInv

\* The steps that write documents find the process with no request left to recover.
LEMMA CallIsLive ==
  ASSUME IInv, toRecover = {}, toRecover' = toRecover, NEW r
  PROVE  Live(r) = req[r] /\ Live(r)' = req'[r]
BY DEF Live

LEMMA WriteCheckpointIInv ==
  ASSUME IInv, WriteCheckpoint
  PROVE  IInv'
<1>1. /\ Shape /\ Restarted /\ Calling /\ at = "checkpoint" /\ at' = "latest" /\ toRecover = {}
      /\ UNCHANGED <<events, clock, rid, toRecover, crashes, memory, req, persisted_at, index, snapshot, latest>>
  BY DEF IInv, Calling, WriteCheckpoint, Goto, Unmoved, crashVars
<1>2. PICK x \in Rids : x = rid
  BY <1>1 DEF Shape
<1>3. PICK v : v = req[x]
  OBVIOUS
<1>4. PICK n : n = Len(v.journal)
  OBVIOUS
<1>5. PICK doc : doc = [prefix |-> v.journal, record |-> v.record]
  OBVIOUS
<1>6. PICK ck : ck = checkpoint[x]
  OBVIOUS
<1>7. PICK c2 : c2 = [k \in DOMAIN ck \cup {n} |-> IF k = n THEN doc ELSE ck[k]]
  OBVIOUS
<1>8. checkpoint' = [checkpoint EXCEPT ![x] = c2]
  BY <1>2, <1>3, <1>4, <1>5, <1>6, <1>7 DEF WriteCheckpoint
<1>9. Map(checkpoint') /\ checkpoint'[x] = c2 /\ \A r \in Rids : r # x => checkpoint'[r] = checkpoint[r]
  <2>1. Map(checkpoint)
    BY <1>1 DEF Shape
  <2>2. Update(checkpoint', checkpoint, x, c2)
    BY <1>8 DEF Update
  <2> QED BY <2>1, <2>2, MapUpdate
<1>10. /\ Sound(events, x, v, ck, latest[x], index[x]) /\ Durable(events, v, index[x], snapshot[x])
       /\ v.state \notin {"absent", "evicted"} /\ n > latest[x]
       /\ persisted_at[x] # None => v.state = "persisted"
  BY <1>1, <1>2, <1>3, <1>4, <1>6 DEF IInv, Kept, Live, Calling, Marked
<1>11. PICK m \in Nat : m = latest[x]
  BY <1>10 DEF Sound
<1>12. n \in Nat
  BY <1>1, <1>4, <1>10, GenuineFacts, EventsAreSeq DEF Sound
<1>13. CheckpointSound(events, v, c2, m)
  <2>1. m # n
    BY <1>10, <1>11, <1>12
  <2>2. m \in DOMAIN ck => m \in DOMAIN c2 /\ c2[m] = ck[m]
    BY <1>7, <2>1
  <2> QED BY <1>10, <1>11, <2>2 DEF Sound, CheckpointSound
<1>14. Sound(events, x, v, c2, m, index[x])
  BY <1>10, <1>11, <1>13 DEF Sound
<1>15. (\A r \in Rids : Kept(r)' /\ Durable(events, req[r], index[r], snapshot[r])') /\ Marked'
  <2>1. \A r \in Rids : r # x =>
           /\ Live(r)' = Live(r) /\ req'[r] = req[r] /\ persisted_at'[r] = persisted_at[r]
           /\ checkpoint'[r] = checkpoint[r] /\ latest'[r] = latest[r]
           /\ index'[r] = index[r] /\ snapshot'[r] = snapshot[r]
    BY <1>1, <1>9 DEF Live
  <2>2. Live(x)' = v
    BY <1>1, <1>3 DEF Live
  <2>3. /\ Sound(events, x, Live(x)', checkpoint'[x], latest'[x], index'[x])
        /\ Durable(events, req'[x], index'[x], snapshot'[x])
        /\ persisted_at'[x] # None => req'[x].state = "persisted"
    BY <1>1, <1>3, <1>9, <1>10, <1>11, <1>14, <2>2
  <2> QED BY <1>1, <2>1, <2>3, OthersStay
<1>16. Shape'
  BY <1>1, <1>9 DEF Shape, Map
<1>17. Calling'
  <2>1. n \in DOMAIN c2 /\ c2[n] = doc
    BY <1>7
  <2>2. /\ Len(req'[rid'].journal) = n /\ checkpoint'[rid'] = c2 /\ req'[rid'] = v /\ latest'[rid'] = m
    BY <1>1, <1>2, <1>3, <1>4, <1>9, <1>11
  <2> QED BY <1>1, <1>5, <1>10, <1>11, <2>1, <2>2 DEF Calling
<1>18. Restarted'
  BY <1>1 DEF Restarted
<1> QED BY <1>15, <1>16, <1>17, <1>18 DEF IInv

LEMMA WriteLatestIInv ==
  ASSUME IInv, WriteLatest
  PROVE  IInv'
<1>1. /\ Shape /\ Restarted /\ Calling /\ at = "latest" /\ at' = "idle" /\ toRecover = {}
      /\ UNCHANGED <<events, clock, rid, toRecover, crashes, memory, req, persisted_at, index, snapshot, checkpoint>>
  BY DEF IInv, Calling, WriteLatest, Goto, Unmoved, crashVars
<1>2. PICK x \in Rids : x = rid
  BY <1>1 DEF Shape
<1>3. PICK v : v = req[x]
  OBVIOUS
<1>4. PICK j : j = v.journal
  OBVIOUS
<1>5. PICK ck : ck = checkpoint[x]
  OBVIOUS
<1>6. /\ Sound(events, x, v, ck, latest[x], index[x]) /\ Durable(events, v, index[x], snapshot[x])
      /\ v.state \notin {"absent", "evicted"}
      /\ persisted_at[x] # None => v.state = "persisted"
      /\ Len(j) \in DOMAIN ck /\ ck[Len(j)] = [prefix |-> j, record |-> v.record]
  BY <1>1, <1>2, <1>3, <1>4, <1>5 DEF IInv, Kept, Live, Calling, Marked
<1>7. Genuine(events, x, j) /\ Folded(events, v) /\ Staged(events, v, latest[x]) /\ IndexSound(events, v, index[x])
  BY <1>4, <1>6 DEF Sound
<1>8. PICK n \in Nat : n = Len(j) /\ SubSeq(j, 1, n) = j
  <2>1. j \in Seq(Nat) /\ Len(j) \in Nat
    BY <1>1, <1>7, GenuineFacts, EventsAreSeq
  <2>2. SubSeq(j, 1, Len(j)) = j
    BY <2>1, WholeSlice
  <2> QED BY <2>1, <2>2
<1>9. latest' = [latest EXCEPT ![x] = n]
  BY <1>2, <1>3, <1>4, <1>8 DEF WriteLatest
<1>10. Map(latest') /\ latest'[x] = n /\ \A r \in Rids : r # x => latest'[r] = latest[r]
  <2>1. Map(latest)
    BY <1>1 DEF Shape
  <2>2. Update(latest', latest, x, n)
    BY <1>9 DEF Update
  <2> QED BY <2>1, <2>2, MapUpdate
<1>11. LateCosts(events, j, n)
  BY <1>8 DEF LateCosts
<1>12. Staged(events, v, n)
  BY <1>4, <1>7, <1>8 DEF Staged
<1>13. CheckpointSound(events, v, ck, n)
  <2>1. v.record = Fold(events, j)
    BY <1>4, <1>6, <1>7 DEF Folded
  <2>2. n \in DOMAIN ck /\ ck[n] = [prefix |-> SubSeq(j, 1, n), record |-> Fold(events, SubSeq(j, 1, n))]
    BY <1>6, <1>8, <2>1
  <2> QED BY <1>4, <1>8, <2>2 DEF CheckpointSound
<1>14. Sound(events, x, v, ck, n, index[x])
  BY <1>4, <1>7, <1>11, <1>12, <1>13 DEF Sound
<1>15. (\A r \in Rids : Kept(r)' /\ Durable(events, req[r], index[r], snapshot[r])') /\ Marked'
  <2>1. \A r \in Rids : r # x =>
           /\ Live(r)' = Live(r) /\ req'[r] = req[r] /\ persisted_at'[r] = persisted_at[r]
           /\ checkpoint'[r] = checkpoint[r] /\ latest'[r] = latest[r]
           /\ index'[r] = index[r] /\ snapshot'[r] = snapshot[r]
    BY <1>1, <1>10 DEF Live
  <2>2. Live(x)' = v
    BY <1>1, <1>3 DEF Live
  <2>3. /\ Sound(events, x, Live(x)', checkpoint'[x], latest'[x], index'[x])
        /\ Durable(events, req'[x], index'[x], snapshot'[x])
        /\ persisted_at'[x] # None => req'[x].state = "persisted"
    BY <1>1, <1>3, <1>5, <1>6, <1>10, <1>14, <2>2
  <2> QED BY <1>1, <2>1, <2>3, OthersStay
<1>16. Shape'
  BY <1>1, <1>10 DEF Shape, Map
<1>17. Calling' /\ Restarted'
  BY <1>1 DEF Calling, Restarted
<1> QED BY <1>15, <1>16, <1>17 DEF IInv

LEMMA WriteIndexIInv ==
  ASSUME IInv, WriteIndex
  PROVE  IInv'
<1>1. /\ Shape /\ Restarted /\ Calling /\ at = "index" /\ at' = "snapshot" /\ toRecover = {}
      /\ UNCHANGED <<events, clock, rid, toRecover, crashes, memory, req, persisted_at, snapshot, checkpoint, latest>>
  BY DEF IInv, Calling, WriteIndex, Goto, Unmoved, crashVars
<1>2. PICK x \in Rids : x = rid
  BY <1>1 DEF Shape
<1>3. PICK v : v = req[x]
  OBVIOUS
<1>4. index' = [index EXCEPT ![x] = v.journal]
  BY <1>2, <1>3 DEF WriteIndex
<1>5. Map(index') /\ index'[x] = v.journal /\ \A r \in Rids : r # x => index'[r] = index[r]
  <2>1. Map(index)
    BY <1>1 DEF Shape
  <2>2. Update(index', index, x, v.journal)
    BY <1>4 DEF Update
  <2> QED BY <2>1, <2>2, MapUpdate
<1>6. /\ Sound(events, x, v, checkpoint[x], latest[x], index[x]) /\ v.state = "terminal"
      /\ persisted_at[x] # None => v.state = "persisted"
  BY <1>1, <1>2, <1>3 DEF IInv, Kept, Live, Calling, Marked
<1>7. Sound(events, x, v, checkpoint[x], latest[x], v.journal)
  <2>1. v.state \in TerminalLike
    BY <1>6 DEF TerminalLike
  <2> QED BY <1>1, <1>6, <2>1, IndexWritten, EventsAreSeq
<1>8. (\A r \in Rids : Kept(r)' /\ Durable(events, req[r], index[r], snapshot[r])') /\ Marked'
  <2>1. \A r \in Rids : r # x =>
           /\ Live(r)' = Live(r) /\ req'[r] = req[r] /\ persisted_at'[r] = persisted_at[r]
           /\ checkpoint'[r] = checkpoint[r] /\ latest'[r] = latest[r]
           /\ index'[r] = index[r] /\ snapshot'[r] = snapshot[r]
    BY <1>1, <1>5 DEF Live
  <2>2. Live(x)' = v
    BY <1>1, <1>3 DEF Live
  <2>3. Durable(events, v, v.journal, snapshot[x])
    BY <1>6 DEF Durable
  <2>4. /\ Sound(events, x, Live(x)', checkpoint'[x], latest'[x], index'[x])
        /\ Durable(events, req'[x], index'[x], snapshot'[x])
        /\ persisted_at'[x] # None => req'[x].state = "persisted"
    BY <1>1, <1>3, <1>5, <1>6, <1>7, <2>2, <2>3
  <2> QED BY <1>1, <2>1, <2>4, OthersStay
<1>9. Shape'
  BY <1>1, <1>5 DEF Shape, Map
<1>10. Calling' /\ Restarted'
  BY <1>1, <1>2, <1>3, <1>5, <1>6 DEF Calling, Restarted
<1> QED BY <1>8, <1>9, <1>10 DEF IInv

LEMMA WriteSnapshotIInv ==
  ASSUME IInv, WriteSnapshot
  PROVE  IInv'
<1>1. /\ Shape /\ Restarted /\ Calling /\ at = "snapshot" /\ at' = "idle" /\ toRecover = {}
      /\ UNCHANGED <<events, clock, rid, toRecover, crashes, memory, index, checkpoint, latest>>
  BY DEF IInv, Calling, WriteSnapshot, Goto, Unmoved, crashVars
<1>2. PICK x \in Rids : x = rid
  BY <1>1 DEF Shape
<1>3. PICK v : v = req[x]
  OBVIOUS
<1>4. PICK w : w = [v EXCEPT !.state = "persisted"]
  OBVIOUS
<1>5. PICK j : j = v.journal
  OBVIOUS
<1>6. /\ req' = [req EXCEPT ![x] = w] /\ persisted_at' = [persisted_at EXCEPT ![x] = clock]
      /\ snapshot' = [snapshot EXCEPT ![x] = v.record]
  BY <1>2, <1>3, <1>4 DEF WriteSnapshot, MarkPersisted
<1>7. /\ Map(req') /\ req'[x] = w /\ \A r \in Rids : r # x => req'[r] = req[r]
  <2>1. Map(req)
    BY <1>1 DEF Shape
  <2>2. Update(req', req, x, w)
    BY <1>6 DEF Update
  <2> QED BY <2>1, <2>2, MapUpdate
<1>8. /\ Map(persisted_at') /\ \A r \in Rids : r # x => persisted_at'[r] = persisted_at[r]
  <2>1. Map(persisted_at)
    BY <1>1 DEF Shape
  <2>2. Update(persisted_at', persisted_at, x, clock)
    BY <1>6 DEF Update
  <2> QED BY <2>1, <2>2, MapUpdate
<1>9. Map(snapshot') /\ snapshot'[x] = v.record /\ \A r \in Rids : r # x => snapshot'[r] = snapshot[r]
  <2>1. Map(snapshot)
    BY <1>1 DEF Shape
  <2>2. Update(snapshot', snapshot, x, v.record)
    BY <1>6 DEF Update
  <2> QED BY <2>1, <2>2, MapUpdate
<1>10. Sound(events, x, v, checkpoint[x], latest[x], index[x]) /\ v.state = "terminal" /\ index[x] = j
  BY <1>1, <1>2, <1>3, <1>5 DEF IInv, Kept, Live, Calling
<1>11. /\ Sound(events, x, w, checkpoint[x], latest[x], index[x])
       /\ w.state = "persisted" /\ w.record = v.record /\ w.journal = j
  BY <1>4, <1>5, <1>10, PersistedIsSound
<1>12. Durable(events, w, index[x], v.record)
  <2>1. v.state \in TerminalLike
    BY <1>10 DEF TerminalLike
  <2>2. j # None /\ Len(j) > 0 /\ Len(j) \in Nat /\ SubSeq(j, 1, Len(j)) = j
    BY <1>1, <1>5, <1>10, <2>1, IndexWritten, EventsAreSeq
  <2>3. /\ Genuine(events, x, j) /\ Folded(events, v) /\ Staged(events, v, latest[x])
    BY <1>5, <1>10 DEF Sound
  <2>4. v.record = Fold(events, j) /\ Ended(events, j)
    BY <1>5, <1>10, <2>3 DEF Folded, Staged
  <2>5. Fold(events, j) \in Records /\ Fold(events, j).blocks.lifecycle # <<>>
    <3>1. j \in Seq(Nat)
      BY <1>1, <2>3, GenuineFacts, EventsAreSeq
    <3> QED BY <2>2, <2>4, <3>1, FoldTyped
  <2>6. v.record # None
    BY <2>4, <2>5, NoneAssumption
  <2>7. \E n \in 1..Len(j) : v.record = Fold(events, SubSeq(j, 1, n))
    <3>1. PICK n : n = Len(j)
      OBVIOUS
    <3>2. n \in 1..n
      BY <2>2, <3>1
    <3>3. v.record = Fold(events, SubSeq(j, 1, n))
      BY <2>2, <2>4, <3>1
    <3> QED BY <3>1, <3>2, <3>3
  <2> QED BY <1>10, <2>2, <2>4, <2>5, <2>6, <2>7 DEF Durable
<1>13. (\A r \in Rids : Kept(r)' /\ Durable(events, req[r], index[r], snapshot[r])') /\ Marked'
  <2>1. \A r \in Rids : r # x =>
           /\ Live(r)' = Live(r) /\ req'[r] = req[r] /\ persisted_at'[r] = persisted_at[r]
           /\ checkpoint'[r] = checkpoint[r] /\ latest'[r] = latest[r]
           /\ index'[r] = index[r] /\ snapshot'[r] = snapshot[r]
    BY <1>1, <1>7, <1>8, <1>9 DEF Live
  <2>2. Live(x)' = w
    BY <1>1, <1>7 DEF Live
  <2>3. /\ Sound(events, x, Live(x)', checkpoint'[x], latest'[x], index'[x])
        /\ Durable(events, req'[x], index'[x], snapshot'[x])
        /\ persisted_at'[x] # None => req'[x].state = "persisted"
    BY <1>1, <1>7, <1>9, <1>11, <1>12, <2>2
  <2> QED BY <1>1, <2>1, <2>3, OthersStay
<1>14. Shape'
  BY <1>1, <1>7, <1>8, <1>9 DEF Shape, Map
<1>15. Calling' /\ Restarted'
  BY <1>1 DEF Calling, Restarted
<1> QED BY <1>13, <1>14, <1>15 DEF IInv

\* Steps that change no request and no document.
LEMMA IdleIInv ==
  ASSUME IInv, UNCHANGED <<events, req, persisted_at, storageVars, crashVars>>, rid' \in Rids,
         \/ at' = "idle"
         \/ at' = at /\ rid' = rid
         \/ at' = "index" /\ req[rid'].state = "terminal" /\ toRecover = {}
  PROVE  IInv'
<1>1. UNCHANGED <<events, req, persisted_at, index, snapshot, checkpoint, latest, toRecover, crashes, memory>>
  BY DEF storageVars, crashVars
<1>2. Shape /\ Restarted /\ Calling /\ Marked
  BY DEF IInv
<1>3. \A r \in Rids : Kept(r)' /\ Durable(events, req[r], index[r], snapshot[r])'
  BY <1>1 DEF IInv, Kept, Live
<1>4. Shape' /\ Restarted' /\ Marked'
  BY <1>1, <1>2 DEF Shape, Restarted, Marked, Map
<1>5. Calling'
  BY <1>1, <1>2 DEF Calling
<1> QED BY <1>3, <1>4, <1>5 DEF IInv

LEMMA ReapplyIndexIInv ==
  ASSUME IInv, NEW x \in Rids, ReapplyIndex(x)
  PROVE  IInv'
<1>1. /\ Shape /\ Restarted /\ Calling /\ at = "idle" /\ at' = "idle" /\ toRecover = {}
      /\ UNCHANGED <<events, clock, rid, toRecover, crashes, memory, req, persisted_at, snapshot, checkpoint, latest>>
  BY DEF IInv, Calling, ReapplyIndex, Idle, Unmoved, crashVars
<1>2. PICK v : v = req[x]
  OBVIOUS
<1>3. PICK j : j = v.journal
  OBVIOUS
<1>4. index' = [index EXCEPT ![x] = j] /\ v.state = "persisted"
  BY <1>2, <1>3 DEF ReapplyIndex
<1>5. Map(index') /\ index'[x] = j /\ \A r \in Rids : r # x => index'[r] = index[r]
  <2>1. Map(index)
    BY <1>1 DEF Shape
  <2>2. Update(index', index, x, j)
    BY <1>4 DEF Update
  <2> QED BY <2>1, <2>2, MapUpdate
<1>6. /\ Sound(events, x, v, checkpoint[x], latest[x], index[x]) /\ Durable(events, v, index[x], snapshot[x])
      /\ persisted_at[x] # None => v.state = "persisted"
  BY <1>1, <1>2 DEF IInv, Kept, Live, Marked
<1>7. /\ Sound(events, x, v, checkpoint[x], latest[x], j) /\ j # None /\ Len(j) \in Nat
  <2>1. v.state \in TerminalLike
    BY <1>4 DEF TerminalLike
  <2> QED BY <1>1, <1>3, <1>6, <2>1, IndexWritten, EventsAreSeq
<1>8. Durable(events, v, j, snapshot[x])
  <2>1. PICK n \in 1..Len(index[x]) :
          /\ snapshot[x] = Fold(events, SubSeq(index[x], 1, n))
          /\ index[x] # None /\ snapshot[x] # None /\ snapshot[x].blocks.lifecycle # <<>>
    BY <1>4, <1>6 DEF Durable
  <2>2. PICK k \in 1..Len(j) : index[x] = SubSeq(j, 1, k)
    BY <1>3, <1>6, <2>1 DEF Sound, IndexSound
  <2>3. PICK S : j \in Seq(S)
    BY <1>3, <1>6 DEF Sound, Genuine
  <2>4. k \in 0..Len(j) /\ Len(SubSeq(j, 1, k)) = k
    <3>1. k \in 0..Len(j)
      BY <1>7
    <3> QED BY <2>3, <3>1, SliceFacts
  <2>5. n \in 0..k /\ n \in 1..Len(j)
    BY <1>7, <2>2, <2>4
  <2>6. SubSeq(index[x], 1, n) = SubSeq(j, 1, n)
    BY <2>2, <2>3, <2>4, <2>5, SliceOfSlice
  <2> QED BY <1>7, <2>1, <2>5, <2>6 DEF Durable
<1>9. (\A r \in Rids : Kept(r)' /\ Durable(events, req[r], index[r], snapshot[r])') /\ Marked'
  <2>1. \A r \in Rids : r # x =>
           /\ Live(r)' = Live(r) /\ req'[r] = req[r] /\ persisted_at'[r] = persisted_at[r]
           /\ checkpoint'[r] = checkpoint[r] /\ latest'[r] = latest[r]
           /\ index'[r] = index[r] /\ snapshot'[r] = snapshot[r]
    BY <1>1, <1>5 DEF Live
  <2>2. Live(x)' = v
    BY <1>1, <1>2 DEF Live
  <2>3. /\ Sound(events, x, Live(x)', checkpoint'[x], latest'[x], index'[x])
        /\ Durable(events, req'[x], index'[x], snapshot'[x])
        /\ persisted_at'[x] # None => req'[x].state = "persisted"
    BY <1>1, <1>2, <1>5, <1>6, <1>7, <1>8, <2>2
  <2> QED BY <1>1, <2>1, <2>3, OthersStay
<1>10. Shape'
  BY <1>1, <1>5 DEF Shape, Map
<1>11. Calling' /\ Restarted'
  BY <1>1 DEF Calling, Restarted
<1> QED BY <1>9, <1>10, <1>11 DEF IInv

LEMMA EvictIInv ==
  ASSUME IInv, NEW x \in Rids, Evict(x)
  PROVE  IInv'
<1>1. /\ Shape /\ Restarted /\ Calling /\ at = "idle" /\ at' = "idle" /\ toRecover = {}
      /\ UNCHANGED <<events, clock, rid, toRecover, crashes, memory, index, snapshot, checkpoint, latest>>
  BY DEF IInv, Calling, Evict, Idle, Unmoved, storageVars, crashVars
<1>2. PICK v : v = req[x]
  OBVIOUS
<1>3. PICK w : w = [v EXCEPT !.state = "evicted", !.record = None]
  OBVIOUS
<1>4. /\ req' = [req EXCEPT ![x] = w] /\ persisted_at' = [persisted_at EXCEPT ![x] = None]
      /\ persisted_at[x] # None
  <2>1. req' = [req EXCEPT ![x].state = "evicted", ![x].record = None]
    BY DEF Evict
  <2>2. [req EXCEPT ![x].state = "evicted", ![x].record = None] = [req EXCEPT ![x] = w]
    <3>1. req = [r \in Rids |-> req[r]]
      BY <1>1 DEF Shape, Map
    <3> QED BY <1>2, <1>3, <3>1
  <2> QED BY <2>1, <2>2 DEF Evict
<1>5. Map(req') /\ req'[x] = w /\ \A r \in Rids : r # x => req'[r] = req[r]
  <2>1. Map(req)
    BY <1>1 DEF Shape
  <2>2. Update(req', req, x, w)
    BY <1>4 DEF Update
  <2> QED BY <2>1, <2>2, MapUpdate
<1>6. /\ Map(persisted_at') /\ persisted_at'[x] = None
      /\ \A r \in Rids : r # x => persisted_at'[r] = persisted_at[r]
  <2>1. Map(persisted_at)
    BY <1>1 DEF Shape
  <2>2. Update(persisted_at', persisted_at, x, None)
    BY <1>4 DEF Update
  <2> QED BY <2>1, <2>2, MapUpdate
<1>7. /\ Sound(events, x, v, checkpoint[x], latest[x], index[x]) /\ Durable(events, v, index[x], snapshot[x])
      /\ v.state = "persisted"
  BY <1>1, <1>2, <1>4 DEF IInv, Kept, Live, Marked
<1>8. Sound(events, x, w, checkpoint[x], latest[x], index[x]) /\ w.state = "evicted"
  <2>1. Evicting(w, v)
    BY <1>3, <1>7 DEF Evicting
  <2> QED BY <1>7, <2>1, EvictedIsSound
<1>9. Durable(events, w, index[x], snapshot[x])
  BY <1>7 DEF Durable
<1>10. (\A r \in Rids : Kept(r)' /\ Durable(events, req[r], index[r], snapshot[r])') /\ Marked'
  <2>1. \A r \in Rids : r # x =>
           /\ Live(r)' = Live(r) /\ req'[r] = req[r] /\ persisted_at'[r] = persisted_at[r]
           /\ checkpoint'[r] = checkpoint[r] /\ latest'[r] = latest[r]
           /\ index'[r] = index[r] /\ snapshot'[r] = snapshot[r]
    BY <1>1, <1>5, <1>6 DEF Live
  <2>2. Live(x)' = w
    BY <1>1, <1>5 DEF Live
  <2>3. /\ Sound(events, x, Live(x)', checkpoint'[x], latest'[x], index'[x])
        /\ Durable(events, req'[x], index'[x], snapshot'[x])
        /\ persisted_at'[x] # None => req'[x].state = "persisted"
    BY <1>1, <1>5, <1>6, <1>8, <1>9, <2>2
  <2> QED BY <1>1, <2>1, <2>3, OthersStay
<1>11. Shape'
  BY <1>1, <1>5, <1>6 DEF Shape, Map
<1>12. Calling' /\ Restarted'
  BY <1>1 DEF Calling, Restarted
<1> QED BY <1>10, <1>11, <1>12 DEF IInv

LEMMA CrashIInv ==
  ASSUME IInv, Crash
  PROVE  IInv'
<1>1. /\ Shape /\ Restarted /\ Calling /\ at' = "idle"
      /\ UNCHANGED <<events, clock, index, snapshot, checkpoint, latest, rid>>
      /\ memory' = [r \in Rids |-> Live(r)] /\ req' = [r \in Rids |-> Blank]
      /\ persisted_at' = [r \in Rids |-> None]
      /\ toRecover' = {r \in Rids : memory'[r].journal # <<>>}
  BY DEF IInv, Crash, storageVars, Live
<1>2. ASSUME NEW r \in Rids
      PROVE  /\ Sound(events, r, Live(r), checkpoint[r], latest[r], index[r])
             /\ memory'[r] = Live(r) /\ req'[r] = Blank /\ persisted_at'[r] = None
             /\ r \in toRecover' <=> Live(r).journal # <<>>
  BY <1>1 DEF IInv, Kept
<1>3. ASSUME NEW r \in Rids PROVE Live(r)' = Live(r) /\ (r \in toRecover' => Len(Live(r).journal) > 0)
  <2>1. PICK v : v = Live(r)
    OBVIOUS
  <2>2. Folded(events, v) /\ Genuine(events, r, v.journal)
    BY <1>2, <2>1 DEF Sound
  <2>3. CASE v.journal # <<>>
    <3>1. Len(v.journal) > 0
      BY <2>2, <2>3, LenProperties, EmptySeq DEF Genuine
    <3> QED BY <1>2, <2>1, <2>3, <3>1 DEF Live
  <2>4. CASE v.journal = <<>>
    <3>1. v = Blank
      BY <2>2, <2>4 DEF Folded
    <3> QED BY <1>2, <2>1, <2>4, <3>1 DEF Live
  <2> QED BY <2>3, <2>4
<1>4. Blank.state = "absent"
  BY DEF Blank
<1>5. \A r \in Rids : Kept(r)' /\ Durable(events, req[r], index[r], snapshot[r])'
  <2> SUFFICES ASSUME NEW r \in Rids
               PROVE  Kept(r)' /\ Durable(events, req[r], index[r], snapshot[r])'
    OBVIOUS
  <2>1. Kept(r)'
    BY <1>1, <1>2, <1>3 DEF Kept
  <2>2. Durable(events, req[r], index[r], snapshot[r])'
    BY <1>2, <1>4 DEF Durable
  <2> QED BY <2>1, <2>2
<1>6. Shape'
  BY <1>1 DEF Shape, Map
<1>7. Restarted' /\ Calling' /\ Marked'
  <2>1. toRecover' \subseteq Rids
    BY <1>1
  <2>2. Restarted'
    BY <1>2, <1>3, <2>1 DEF Restarted
  <2> QED BY <1>1, <1>2, <2>2 DEF Calling, Marked
<1> QED BY <1>5, <1>6, <1>7 DEF IInv

-----------------------------------------------------------------------------
(* Recovery.                                                               *)

\* What a recovery of r may put in its place.
Restored(r, w) ==
  /\ Sound(events, r, w, checkpoint[r], latest[r], index[r])
  /\ w.state \in {"active", "terminal"}
  /\ w.record = Fold(events, w.journal)
  /\ \/ w.journal = memory[r].journal
     \/ /\ latest[r] = 0 /\ w.journal = index[r]
        /\ \E n \in 1..Len(memory[r].journal) : index[r] = SubSeq(memory[r].journal, 1, n)
  /\ memory[r].state = "active" => w = memory[r]

LEMMA RecoveryRestores ==
  ASSUME IInv, NEW r \in toRecover,
         \/ \E from \in 1..Len(memory[r].journal) + 1 : FromCheckpoint(r, from)
         \/ FromIndex(r)
         \/ FromLog(r)
  PROVE  \E w : Restored(r, w) /\ Refolded(r, w)
<1>1. PICK v : v = memory[r] /\ Live(r) = v
  BY DEF Live
<1>2. PICK j : j = v.journal
  OBVIOUS
<1>3. PICK m : m = latest[r]
  OBVIOUS
<1>4. Shape /\ IsSeq(events) /\ r \in Rids
  BY EventsAreSeq DEF IInv, Shape
<1>5. Sound(events, r, v, checkpoint[r], m, index[r])
  BY <1>1, <1>3, <1>4 DEF IInv, Kept
<1>6. /\ m \in Nat /\ Genuine(events, r, j) /\ LateCosts(events, j, m) /\ Len(j) > 0
      /\ CheckpointSound(events, v, checkpoint[r], m)
  BY <1>1, <1>2, <1>5 DEF Sound, IInv, Restarted
<1>7. PICK L \in Nat : L = Len(j) /\ SubSeq(j, 1, L) = j /\ L \in 1..L
  <2>1. j \in Seq(Nat) /\ Len(j) \in Nat
    BY <1>4, <1>6, GenuineFacts
  <2>2. SubSeq(j, 1, Len(j)) = j
    BY <2>1, WholeSlice
  <2>3. PICK n \in Nat : n = Len(j) /\ n > 0
    BY <1>6, <2>1
  <2>4. n \in 1..n
    BY <2>3
  <2> QED BY <2>2, <2>3, <2>4
<1>8. m \in 0..L
  BY <1>2, <1>6, <1>7 DEF CheckpointSound
<1>9. PICK w : w = Point(events, j, m, L)
  OBVIOUS
<1>10. /\ Sound(events, r, w, checkpoint[r], m, index[r])
       /\ w.journal = j /\ w.record = Fold(events, j) /\ w.state \in {"active", "terminal"}
       /\ v.state = "active" => w = v
  BY <1>2, <1>4, <1>5, <1>6, <1>7, <1>8, <1>9, RestoredIsSound
<1>11. Restored(r, w)
  BY <1>1, <1>2, <1>3, <1>10 DEF Restored
<1>12. \A from \in 1..m+1 : ReplayJournal(Point(events, j, m, m), SubSeq(j, from, L)) = w
  BY <1>4, <1>6, <1>7, <1>8, <1>9, ReplayReaches
<1>13. ASSUME NEW from \in 1..L + 1, FromCheckpoint(r, from) PROVE Refolded(r, w)
  <2>1. PICK doc : doc = checkpoint[r][m]
    OBVIOUS
  <2>2. m > 0 /\ from <= Len(doc.prefix) + 1
    BY <1>3, <1>13, <2>1, <1>6 DEF FromCheckpoint, ReadCheckpoint
  <2>3. PICK a : a = SubSeq(j, 1, m) /\ Len(a) = m
    <3>1. Len(SubSeq(j, 1, m)) = m
      BY <1>4, <1>6, <1>7, <1>8, GenuineSlice
    <3> QED BY <3>1
  <2>4. PICK x : x = Fold(events, a)
    OBVIOUS
  <2>5. doc = [prefix |-> a, record |-> x]
    BY <1>2, <1>6, <2>1, <2>2, <2>3, <2>4 DEF CheckpointSound
  <2>6. doc.prefix = a /\ doc.record = x
    BY ONLY <2>5
  <2>7. PICK s : s = "active"
    OBVIOUS
  <2>12. PICK seed : seed = [state |-> s, record |-> doc.record, journal |-> doc.prefix]
    OBVIOUS
  <2>8. seed = Point(events, j, m, m)
    <3>1. ~\E i \in 1..m : m < i /\ Ends(events, j, i)
      BY <1>6
    <3>2. m # 0
      BY <1>6, <2>2
    <3>3. Point(events, j, m, m) =
            [state |-> s, record |-> Fold(events, SubSeq(j, 1, m)), journal |-> SubSeq(j, 1, m)]
      BY <2>7, <3>1, <3>2 DEF Point
    <3>4. Point(events, j, m, m) = [state |-> s, record |-> x, journal |-> a]
      BY ONLY <2>3, <2>4, <3>3
    <3> QED BY ONLY <2>6, <2>12, <3>4
  <2>9. Refolded(r, ReplayJournal(seed, SubSeq(j, from, L)))
    BY <1>1, <1>2, <1>3, <1>7, <1>13, <2>1, <2>7, <2>12 DEF FromCheckpoint, ReadCheckpoint
  <2>10. from \in 1..m+1
    BY <1>6, <2>2, <2>3, <2>6
  <2>11. ReplayJournal(seed, SubSeq(j, from, L)) = w
    BY <1>12, <2>8, <2>10
  <2> QED BY <2>9, <2>11
<1>14. ASSUME FromLog(r) PROVE Refolded(r, w)
  <2>1. m = 0 /\ Refolded(r, ReplayJournal(Blank, j))
    BY <1>1, <1>2, <1>3, <1>14 DEF FromLog
  <2>2. Point(events, j, 0, 0) = Blank
    <3>1. SubSeq(j, 1, 0) = <<>>
      BY SubSeqEmpty
    <3> QED BY <3>1 DEF Point, Blank
  <2>3. 1 \in 1..m+1
    BY <1>6
  <2>4. ReplayJournal(Point(events, j, m, m), SubSeq(j, 1, L)) = w
    BY <1>12, <2>3
  <2> QED BY <1>7, <2>1, <2>2, <2>4
<1>15. ASSUME FromIndex(r) PROVE \E y : Restored(r, y) /\ Refolded(r, y)
  <2>1. PICK ix : ix = index[r]
    OBVIOUS
  <2>2. m = 0 /\ ix # None /\ Refolded(r, ReplayJournal(Blank, ix))
    BY <1>3, <1>15, <2>1 DEF FromIndex
  <2>3. PICK y : y = Point(events, ix, 0, Len(ix))
    OBVIOUS
  <2>4. /\ Sound(events, r, y, checkpoint[r], 0, ix)
        /\ y.journal = ix /\ y.record = Fold(events, ix) /\ y.state \in {"active", "terminal"}
        /\ v.state # "active"
        /\ \E n \in 1..Len(v.journal) : ix = SubSeq(v.journal, 1, n)
        /\ Genuine(events, r, ix) /\ LateCosts(events, ix, 0) /\ Len(ix) > 0
    BY <1>4, <1>5, <2>1, <2>2, <2>3, IndexedIsSound
  <2>5. Point(events, ix, 0, 0) = Blank
    <3>1. SubSeq(ix, 1, 0) = <<>>
      BY SubSeqEmpty
    <3> QED BY <3>1 DEF Point, Blank
  <2>6. SubSeq(ix, 1, Len(ix)) = ix
    BY <2>4, WholeSlice DEF Genuine
  <2>7. 0 \in 0..Len(ix) /\ 1 \in 1..0+1
    BY <1>4, <2>4, GenuineFacts
  <2>8. ReplayJournal(Point(events, ix, 0, 0), SubSeq(ix, 1, Len(ix))) = Point(events, ix, 0, Len(ix))
    BY <1>4, <2>4, <2>7, ReplayReaches
  <2>9. Refolded(r, y)
    BY <2>2, <2>3, <2>5, <2>6, <2>8
  <2>10. Restored(r, y)
    BY <1>1, <1>3, <2>1, <2>2, <2>4 DEF Restored
  <2> QED BY <2>9, <2>10
<1>16. Len(memory[r].journal) + 1 = L + 1
  BY <1>1, <1>2, <1>7
<1> QED BY <1>11, <1>13, <1>14, <1>15, <1>16

LEMMA RefoldedIInv ==
  ASSUME IInv, NEW x \in Rids, x \in toRecover, NEW w, Restored(x, w), Refolded(x, w)
  PROVE  IInv'
<1>1. /\ Shape /\ Restarted /\ Calling /\ Marked /\ x \in Rids
      /\ UNCHANGED <<events, persisted_at, clock, index, snapshot, checkpoint, latest, at, rid, crashes, memory>>
      /\ toRecover' = toRecover \ {x} /\ req' = [req EXCEPT ![x] = w]
  BY DEF IInv, Shape, Refolded, storageVars
<1>2. Map(req') /\ req'[x] = w /\ \A r \in Rids : r # x => req'[r] = req[r]
  <2>1. Map(req)
    BY <1>1 DEF Shape
  <2>2. Update(req', req, x, w)
    BY <1>1 DEF Update
  <2> QED BY <2>1, <2>2, MapUpdate
<1>3. Sound(events, x, w, checkpoint[x], latest[x], index[x]) /\ w.state \in {"active", "terminal"}
  BY DEF Restored
<1>4. persisted_at[x] = None
  BY <1>1 DEF Restarted, Marked, Blank
<1>5. (\A r \in Rids : Kept(r)' /\ Durable(events, req[r], index[r], snapshot[r])') /\ Marked'
  <2>1. \A r \in Rids : r # x =>
           /\ Live(r)' = Live(r) /\ req'[r] = req[r] /\ persisted_at'[r] = persisted_at[r]
           /\ checkpoint'[r] = checkpoint[r] /\ latest'[r] = latest[r]
           /\ index'[r] = index[r] /\ snapshot'[r] = snapshot[r]
    BY <1>1, <1>2 DEF Live
  <2>2. Live(x)' = w
    BY <1>1, <1>2 DEF Live
  <2>3. Durable(events, w, index[x], snapshot[x])
    BY <1>3 DEF Durable
  <2>4. /\ Sound(events, x, Live(x)', checkpoint'[x], latest'[x], index'[x])
        /\ Durable(events, req'[x], index'[x], snapshot'[x])
        /\ persisted_at'[x] # None => req'[x].state = "persisted"
    BY <1>1, <1>2, <1>3, <1>4, <2>2, <2>3
  <2> QED BY <1>1, <2>1, <2>4, OthersStay
<1>6. Shape'
  BY <1>1, <1>2 DEF Shape, Map
<1>7. at = "idle"
  BY <1>1 DEF Calling
<1>8. Calling'
  BY <1>1, <1>7 DEF Calling
<1>9. Restarted'
  BY <1>1, <1>2 DEF Restarted, Shape
<1> QED BY <1>5, <1>6, <1>8, <1>9 DEF IInv

-----------------------------------------------------------------------------
(* The invariant is inductive.                                             *)

LEMMA ReceiveIInv == IInv /\ Receive => IInv'
<1> SUFFICES ASSUME IInv, Receive PROVE IInv'
  OBVIOUS
<1>1. PICK y \in Envelopes : events' = Append(events, y) /\ Deliver(Len(events) + 1, y)
  BY DEF Receive
<1>2. IsSeq(events)
  BY EventsAreSeq DEF IInv
<1>3. PICK n : n = Len(events) + 1
  OBVIOUS
<1>4. PICK evs : evs = events'
  OBVIOUS
<1>5. n \in 1..Len(evs) /\ y = evs[n]
  <2>1. Len(events) \in Nat
    BY <1>2, SeqFacts
  <2>2. Len(evs) = n /\ evs[n] = y
    BY <1>1, <1>2, <1>3, <1>4, AppendFacts
  <2>3. n \in 1..n
    BY <1>3, <2>1
  <2> QED BY <2>2, <2>3
<1> QED BY <1>1, <1>3, <1>4, <1>5, DeliverIInv

LEMMA RedeliverIInv == IInv /\ Redeliver => IInv'
<1> SUFFICES ASSUME IInv, Redeliver PROVE IInv'
  OBVIOUS
<1>1. PICK i \in DOMAIN events : Deliver(i, events[i]) /\ events' = events
  BY DEF Redeliver
<1>2. i \in 1..Len(events')
  <2>1. IsSeq(events)
    BY EventsAreSeq DEF IInv
  <2> QED BY <1>1, <2>1, SeqFacts
<1>3. PICK e : e = events'[i]
  OBVIOUS
<1>4. Deliver(i, e)
  BY <1>1, <1>3
<1> QED BY <1>1, <1>2, <1>3, <1>4, DeliverIInv

\* Each recovery puts something in place that it restores.
LEMMA RecoverRestores ==
  ASSUME IInv, Recover
  PROVE  \E x \in Rids : x \in toRecover /\ \E w : Restored(x, w) /\ Refolded(x, w)
<1>1. PICK x \in toRecover :
        \/ \E from \in 1..Len(memory[x].journal) + 1 : FromCheckpoint(x, from)
        \/ FromIndex(x)
        \/ FromLog(x)
  BY DEF Recover
<1>2. \E w : Restored(x, w) /\ Refolded(x, w)
  BY <1>1, RecoveryRestores
<1>3. x \in Rids
  BY DEF IInv, Shape
<1> QED BY <1>2, <1>3

LEMMA RecoverIInv == IInv /\ Recover => IInv'
<1> SUFFICES ASSUME IInv, Recover PROVE IInv'
  OBVIOUS
<1>1. PICK x \in Rids : x \in toRecover /\ \E w : Restored(x, w) /\ Refolded(x, w)
  BY RecoverRestores
<1>2. PICK w : Restored(x, w) /\ Refolded(x, w)
  BY <1>1
<1> QED BY <1>1, <1>2, RefoldedIInv

LEMMA NextIInv == IInv /\ [Next]_vars => IInv'
<1> SUFFICES ASSUME IInv, [Next]_vars PROVE IInv'
  OBVIOUS
<1>1. rid \in Rids
  BY DEF IInv, Shape
<1>2. CASE Receive \/ Redeliver
  BY <1>2, ReceiveIInv, RedeliverIInv
<1>3. CASE WriteCheckpoint \/ WriteLatest \/ WriteIndex \/ WriteSnapshot
  BY <1>3, WriteCheckpointIInv, WriteLatestIInv, WriteIndexIInv, WriteSnapshotIInv
<1>4. CASE StorageFails
  <2>1. /\ UNCHANGED <<events, req, persisted_at, storageVars, crashVars>>
        /\ at' = "idle" /\ rid' \in Rids
    BY <1>1, <1>4 DEF StorageFails, Goto, Unmoved
  <2> QED BY <2>1, IdleIInv
<1>5. ASSUME NEW x \in Rids, PersistTerminal(x) PROVE IInv'
  <2>1. /\ UNCHANGED <<events, req, persisted_at, storageVars, crashVars>>
        /\ at' = "index" /\ rid' = x /\ req[x].state = "terminal" /\ toRecover = {}
    BY <1>5 DEF PersistTerminal, Goto, Idle
  <2> QED BY <2>1, IdleIInv
<1>6. ASSUME NEW x \in Rids, ReapplyIndex(x) \/ Evict(x) PROVE IInv'
  BY <1>6, ReapplyIndexIInv, EvictIInv
<1>7. CASE Tick \/ UNCHANGED vars
  <2>1. /\ UNCHANGED <<events, req, persisted_at, storageVars, crashVars>>
        /\ at' = at /\ rid' = rid /\ rid' \in Rids
    BY <1>1, <1>7 DEF Tick, vars
  <2> QED BY <2>1, IdleIInv
<1>8. CASE Crash \/ Recover
  BY <1>8, CrashIInv, RecoverIInv
<1> QED BY <1>2, <1>3, <1>4, <1>5, <1>6, <1>7, <1>8 DEF Next

THEOREM InvariantHolds == Spec => []IInv
BY InitIInv, NextIInv, PTL DEF Spec

-----------------------------------------------------------------------------
(* Records are sound.                                                      *)

LEMMA RecordOfIsFold == ASSUME NEW ids PROVE RecordOf(ids) = Fold(events, ids)
BY DEF RecordOf, Written, Fold, Picked

\* The same, of the record of a request that queries answer.
LEMMA KnownIsFolded ==
  ASSUME IInv, NEW r \in Rids
  PROVE  /\ Genuine(events, r, req[r].journal) /\ Folded(events, req[r])
         /\ req[r].journal \in Seq(Nat)
         /\ Known(r) => /\ req[r].record = Fold(events, req[r].journal)
                        /\ req[r].record # None /\ req[r].journal # None
<1>1. PICK v : v = req[r]
  OBVIOUS
<1>2. Genuine(events, r, v.journal) /\ Folded(events, v)
  <2>1. CASE r \in toRecover
    <3>1. v = Blank
      BY <1>1, <2>1 DEF IInv, Restarted
    <3>2. Sound(events, r, v, checkpoint[r], 0, None)
      BY <3>1, BlankIsSound
    <3> QED BY <3>2 DEF Sound
  <2>2. CASE r \notin toRecover
    BY <1>1, <2>2 DEF IInv, Kept, Live, Sound
  <2> QED BY <2>1, <2>2
<1>3. v.journal \in Seq(Nat)
  BY <1>2, GenuineFacts, EventsAreSeq DEF IInv
<1>4. ASSUME Known(r) PROVE v.record = Fold(events, v.journal) /\ v.record # None /\ v.journal # None
  <2>1. v.record = Fold(events, v.journal) /\ Len(v.journal) > 0
    BY <1>1, <1>2, <1>4 DEF Known, Folded
  <2>2. Fold(events, v.journal) \in Records
    BY <1>3, <2>1, FoldTyped
  <2> QED BY <1>3, <2>1, <2>2, NoneAssumption
<1> QED BY <1>1, <1>2, <1>3, <1>4

LEMMA IInvRecord == IInv => RecordIsFold
<1> SUFFICES ASSUME IInv, NEW r \in Rids
             PROVE  /\ IsInjective(req[r].journal)
                    /\ \A eid \in ToSet(req[r].journal) : events[eid].rid = r /\ events[eid].ok
                    /\ IF Snapshot(r) = None THEN JournalRead(r) = None
                                             ELSE Snapshot(r) = RecordOf(JournalRead(r))
  BY DEF RecordIsFold
<1>1. PICK j : j = req[r].journal
  OBVIOUS
<1>2. Genuine(events, r, j) /\ j \in Seq(Nat)
  BY <1>1, KnownIsFolded
<1>3. DOMAIN j = 1..Len(j)
  BY <1>2, LenProperties
<1>4. IsInjective(j)
  BY <1>2, <1>3 DEF IsInjective, Genuine
<1>5. \A eid \in ToSet(j) : events[eid].rid = r /\ events[eid].ok
  BY <1>2, <1>3 DEF ToSet, Genuine
<1>6. CASE Known(r)
  <2>1. Snapshot(r) # None /\ Snapshot(r) = Fold(events, j) /\ JournalRead(r) = j
    BY <1>1, <1>6, KnownIsFolded DEF Snapshot, JournalRead
  <2> QED BY <1>1, <1>4, <1>5, <2>1, RecordOfIsFold
<1>7. CASE ~Known(r)
  BY <1>1, <1>4, <1>5, <1>7 DEF Snapshot, JournalRead
<1> QED BY <1>6, <1>7

LEMMA SliceIsPrefix ==
  ASSUME NEW S, NEW j \in Seq(S), NEW n \in 0..Len(j)
  PROVE  IsPrefix(SubSeq(j, 1, n), j)
<1>1. PICK a : a = SubSeq(j, 1, n) /\ Len(a) = n
  BY SliceFacts
<1>2. n <= Len(j) /\ Len(j) \in Nat
  BY LenProperties
<1>3. SubSeq(a, 1, Len(a)) = a
  <2>1. a \in Seq(S)
    BY <1>1, SliceFacts
  <2> QED BY <2>1, WholeSlice
<1> QED BY <1>1, <1>2, <1>3 DEF IsPrefix

LEMMA IInvDurable == IInv => DurableBeforeEviction
<1> SUFFICES ASSUME IInv, NEW r \in Rids, req[r].state \in {"persisted", "evicted"}
             PROVE  /\ index[r] # None /\ snapshot[r] # None
                    /\ IsPrefix(index[r], req[r].journal)
                    /\ snapshot[r].blocks.lifecycle # <<>>
                    /\ \E n \in 1..Len(index[r]) : snapshot[r] = RecordOf(SubSeq(index[r], 1, n))
  BY DEF DurableBeforeEviction
<1>1. /\ index[r] # None /\ snapshot[r] # None
      /\ snapshot[r].blocks.lifecycle # <<>>
      /\ \E n \in 1..Len(index[r]) : snapshot[r] = Fold(events, SubSeq(index[r], 1, n))
  BY DEF IInv, Durable
<1>2. r \notin toRecover
  BY DEF IInv, Restarted, Blank
<1>3. PICK j : j = req[r].journal
  OBVIOUS
<1>4. PICK n \in 1..Len(j) : index[r] = SubSeq(j, 1, n)
  BY <1>1, <1>2, <1>3 DEF IInv, Kept, Live, Sound, IndexSound
<1>5. j \in Seq(Nat)
  BY <1>3, KnownIsFolded
<1>6. n \in 0..Len(j)
  BY <1>5, LenProperties
<1>7. IsPrefix(index[r], j)
  BY <1>4, <1>5, <1>6, SliceIsPrefix
<1> QED BY <1>1, <1>3, <1>7, RecordOfIsFold

\* A record is the fold of the events of its journal, whatever was delivered twice,
\* restored or replayed, and a request that is persisted or evicted has its journal
\* index and its terminal snapshot in Storage (Ingest.process, persistence.py,
\* recovery.py): for any requests, families, checkpoint interval and bounds.
THEOREM RecordsAreSound == Spec => []RecordsSound
<1>1. IInv => RecordsSound
  BY IInvRecord, IInvDurable DEF RecordsSound
<1> QED BY <1>1, InvariantHolds, PTL

-----------------------------------------------------------------------------
(* Steps keep the records.                                                 *)

LEMMA RecoveryIsExact == IInv /\ [Next]_vars => RefoldedExactly
<1> SUFFICES ASSUME IInv, [Next]_vars, NEW x \in toRecover \ toRecover'
             PROVE  /\ req'[x].record = RecordOf(req'[x].journal)
                    /\ \/ req'[x].journal = memory[x].journal
                       \/ /\ latest[x] = 0 /\ req'[x].journal = index[x]
                          /\ IsPrefix(index[x], memory[x].journal)
                    /\ memory[x].state = "active" => req'[x] = memory[x]
  BY DEF RefoldedExactly
<1>1. toRecover' # toRecover
  OBVIOUS
<1>2. CASE Crash
  <2>1. x \in Rids /\ Len(memory[x].journal) > 0
    BY DEF IInv, Shape, Restarted
  <2>2. memory'[x] = memory[x] /\ toRecover' = {r \in Rids : memory'[r].journal # <<>>}
    BY <1>2, <2>1 DEF Crash
  <2>3. memory[x].journal # <<>>
    BY <2>1
  <2> QED BY <2>1, <2>2, <2>3
<1>3. CASE Recover
  <2>1. PICK y \in Rids : y \in toRecover /\ \E w : Restored(y, w) /\ Refolded(y, w)
    BY <1>3, RecoverRestores
  <2>2. PICK w : Restored(y, w) /\ Refolded(y, w)
    BY <2>1
  <2>3. toRecover' = toRecover \ {y} /\ req' = [req EXCEPT ![y] = w]
    BY <2>2 DEF Refolded
  <2>4. x = y
    BY <2>3
  <2>5. req'[x] = w
    <3>1. Map(req)
      BY DEF IInv, Shape
    <3>2. Update(req', req, y, w)
      BY <2>3 DEF Update
    <3>3. req'[y] = w
      BY <3>1, <3>2, MapUpdate
    <3> QED BY <2>4, <3>3
  <2>6. /\ w.record = Fold(events, w.journal)
        /\ \/ w.journal = memory[x].journal
           \/ /\ latest[x] = 0 /\ w.journal = index[x]
              /\ \E n \in 1..Len(memory[x].journal) : index[x] = SubSeq(memory[x].journal, 1, n)
        /\ memory[x].state = "active" => w = memory[x]
    BY <2>2, <2>4 DEF Restored
  <2>7. ASSUME NEW n \in 1..Len(memory[x].journal), index[x] = SubSeq(memory[x].journal, 1, n)
        PROVE  IsPrefix(index[x], memory[x].journal)
    <3>1. PICK j : j = memory[x].journal
      OBVIOUS
    <3>2. Sound(events, x, memory[x], checkpoint[x], latest[x], index[x])
      BY <2>1, <2>4 DEF IInv, Kept, Live
    <3>3. j \in Seq(Nat) /\ Len(j) \in Nat
      BY <3>1, <3>2, GenuineFacts, EventsAreSeq DEF IInv, Sound
    <3>4. n \in 0..Len(j)
      BY <2>7, <3>1, <3>3
    <3> QED BY <2>7, <3>1, <3>3, <3>4, SliceIsPrefix
  <2> QED BY <2>5, <2>6, <2>7, RecordOfIsFold
<1>4. CASE ~(Crash \/ Recover)
  <2>1. toRecover' = toRecover
    BY <1>4 DEF Next, vars, crashVars, Unmoved, Receive, Redeliver, Deliver, WriteCheckpoint, WriteLatest,
       WriteIndex, WriteSnapshot, StorageFails, PersistTerminal, ReapplyIndex, Evict, Tick
  <2> QED BY <1>1, <2>1
<1> QED BY <1>2, <1>3, <1>4

\* The blocks of a request that a step leaves alone.
SameOutcome(v, w) ==
  v.state \in TerminalLike /\ w.state \notin {"absent", "evicted"} =>
    \A b \in Blocks \ {"budget"} : w.record.blocks[b] = v.record.blocks[b]

LEMMA DeliveryKeepsOutcome ==
  ASSUME IInv, NEW eid \in 1..Len(events'), NEW e, e = events'[eid], Deliver(eid, e),
         \/ events' = events
         \/ \E x \in Envelopes : events' = Append(events, x),
         NEW r \in Rids
  PROVE  SameOutcome(req[r], req'[r])
<1>1. PICK evs : evs = events'
  OBVIOUS
<1>2. Shape /\ toRecover = {} /\ IsSeq(events)
  BY EventsAreSeq DEF IInv, Deliver, Idle
<1>3. PICK v : v = req[r]
  OBVIOUS
<1>4. Sound(evs, r, v, checkpoint[r], latest[r], index[r]) /\ Durable(evs, v, index[r], snapshot[r])
  <2>1. /\ Sound(events, r, v, checkpoint[r], latest[r], index[r])
        /\ Durable(events, v, index[r], snapshot[r])
    BY <1>2, <1>3 DEF IInv, Kept, Live
  <2>2. CASE events' = events
    BY <1>1, <2>1, <2>2
  <2>3. CASE \E y \in Envelopes : events' = Append(events, y)
    <3>1. PICK y : evs = Append(events, y)
      BY <1>1, <2>3
    <3> QED BY <1>2, <2>1, <3>1, SoundGrows, DurableGrows
  <2> QED BY <2>2, <2>3
<1>5. IsSeq(evs)
  <2>1. CASE events' = events
    BY <1>1, <1>2, <2>1
  <2>2. CASE \E y \in Envelopes : events' = Append(events, y)
    BY <1>1, <1>2, <2>2, AppendFacts
  <2> QED BY <2>1, <2>2
<1>6. PICK x : x = e.rid
  OBVIOUS
<1>7. req' = [req EXCEPT ![x] = Process(req[x], eid, e)]
  BY <1>6 DEF Deliver
<1>8. CASE x = r
  <2>1. PICK w : w = Process(v, eid, e)
    OBVIOUS
  <2>2. req'[r] = w
    BY <1>2, <1>3, <1>7, <1>8, <2>1 DEF Shape, Map
  <2>3. eid \in 1..Len(evs) /\ e = evs[eid] /\ e.rid = r
    BY <1>1, <1>6, <1>8
  <2>4. v.state \in TerminalLike => \A b \in Blocks \ {"budget"} : w.record.blocks[b] = v.record.blocks[b]
    BY <1>4, <1>5, <2>1, <2>3, ProcessIsSound
  <2> QED BY <1>3, <2>2, <2>4 DEF SameOutcome
<1>9. CASE x # r
  <2>1. req'[r] = req[r]
    BY <1>2, <1>7, <1>9 DEF Shape, Map
  <2> QED BY <2>1 DEF SameOutcome
<1> QED BY <1>8, <1>9

LEMMA StepKeepsOutcome ==
  ASSUME IInv, [Next]_vars, NEW r \in Rids
  PROVE  SameOutcome(req[r], req'[r])
<1>1. Map(req) /\ Restarted /\ IsSeq(events)
  BY EventsAreSeq DEF IInv, Shape
<1>2. CASE Receive
  <2>1. PICK y \in Envelopes : events' = Append(events, y) /\ Deliver(Len(events) + 1, y)
    BY <1>2 DEF Receive
  <2>2. PICK n : n = Len(events) + 1
    OBVIOUS
  <2>3. n \in 1..Len(events') /\ y = events'[n]
    <3>1. Len(events) \in Nat
      BY <1>1, SeqFacts
    <3>2. Len(events') = n /\ events'[n] = y
      BY <1>1, <2>1, <2>2, AppendFacts
    <3>3. n \in 1..n
      BY <2>2, <3>1
    <3> QED BY <3>2, <3>3
  <2> QED BY <2>1, <2>2, <2>3, DeliveryKeepsOutcome
<1>3. CASE Redeliver
  <2>1. PICK i \in DOMAIN events : Deliver(i, events[i]) /\ events' = events
    BY <1>3 DEF Redeliver
  <2>2. i \in 1..Len(events')
    BY <1>1, <2>1, SeqFacts
  <2>3. PICK e : e = events'[i] /\ Deliver(i, e)
    BY <2>1
  <2> QED BY <2>1, <2>2, <2>3, DeliveryKeepsOutcome
<1>4. CASE WriteSnapshot
  <2>1. req' = [req EXCEPT ![rid].state = "persisted"]
    BY <1>4 DEF WriteSnapshot, MarkPersisted
  <2>2. req'[r].record = req[r].record \/ req'[r] = req[r]
    <3>1. Folded(events, req[r])
      BY KnownIsFolded
    <3>2. req[r] = [state |-> req[r].state, record |-> req[r].record, journal |-> req[r].journal]
      BY <3>1 DEF Folded
    <3> QED BY <1>1, <2>1, <3>2 DEF Map
  <2> QED BY <2>2 DEF SameOutcome
<1>5. ASSUME NEW x \in Rids, Evict(x) PROVE SameOutcome(req[r], req'[r])
  <2>1. req' = [req EXCEPT ![x].state = "evicted", ![x].record = None]
    BY <1>5 DEF Evict
  <2>2. CASE x = r
    <3>1. Folded(events, req[r])
      BY KnownIsFolded
    <3>2. req[r] = [state |-> req[r].state, record |-> req[r].record, journal |-> req[r].journal]
      BY <3>1 DEF Folded
    <3>3. req'[r].state = "evicted"
      BY <1>1, <2>1, <2>2, <3>2 DEF Map
    <3> QED BY <3>3 DEF SameOutcome
  <2>3. CASE x # r
    <3>1. req'[r] = req[r]
      BY <1>1, <2>1, <2>3 DEF Map
    <3> QED BY <3>1 DEF SameOutcome
  <2> QED BY <2>2, <2>3
<1>6. CASE Crash
  <2>1. req'[r].state = "absent"
    BY <1>6 DEF Crash, Blank
  <2> QED BY <2>1 DEF SameOutcome
<1>7. CASE Recover
  <2>1. PICK x \in Rids : x \in toRecover /\ \E w : Restored(x, w) /\ Refolded(x, w)
    BY <1>7, RecoverRestores
  <2>2. PICK w : req' = [req EXCEPT ![x] = w]
    BY <2>1 DEF Refolded
  <2>3. CASE x = r
    <3>1. req[r].state = "absent"
      BY <1>1, <2>1, <2>3 DEF Restarted, Blank
    <3>2. req[r].state \notin TerminalLike
      BY <3>1 DEF TerminalLike
    <3> QED BY <3>2 DEF SameOutcome
  <2>4. CASE x # r
    <3>1. req'[r] = req[r]
      BY <1>1, <2>2, <2>4 DEF Map
    <3> QED BY <3>1 DEF SameOutcome
  <2> QED BY <2>3, <2>4
<1>8. CASE ~(Receive \/ Redeliver \/ WriteSnapshot \/ Crash \/ Recover \/ \E x \in Rids : Evict(x))
  <2>1. req' = req
    BY <1>8 DEF Next, vars, Unmoved, WriteCheckpoint, WriteLatest, WriteIndex, StorageFails,
       PersistTerminal, ReapplyIndex, Tick
  <2> QED BY <2>1 DEF SameOutcome
<1> QED BY <1>2, <1>3, <1>4, <1>5, <1>6, <1>7, <1>8

\* What a query answers of a block.
Answered == \A r \in Rids : \A b \in Blocks : Known(r) => Block(r, b) = req[r].record.blocks[b]

LEMMA BlockIs == IInv => Answered
<1> SUFFICES ASSUME IInv, NEW r \in Rids, NEW b \in Blocks, Known(r)
             PROVE  Block(r, b) = req[r].record.blocks[b]
  BY DEF Answered
<1>1. Snapshot(r) = req[r].record /\ Snapshot(r) # None
  BY KnownIsFolded DEF Snapshot
<1> QED BY <1>1 DEF Block

LEMMA OutcomesStay == IInv /\ IInv' /\ [Next]_vars => OutcomeKept
<1> SUFFICES ASSUME IInv, IInv', [Next]_vars, NEW r \in Rids, req[r].state \in TerminalLike, Known(r)',
                    NEW b \in Blocks \ {"budget"}
             PROVE  Block(r, b)' = Block(r, b)
  BY DEF OutcomeKept
<1>1. Block(r, b)' = req'[r].record.blocks[b]
  <2>1. Answered'
    BY BlockIs, PTL
  <2> QED BY <2>1 DEF Answered
<1>2. Known(r)
  BY DEF Known, TerminalLike
<1>3. Block(r, b) = req[r].record.blocks[b]
  BY <1>2, BlockIs DEF Answered
<1>4. req'[r].state \notin {"absent", "evicted"}
  BY DEF Known
<1>5. req'[r].record.blocks[b] = req[r].record.blocks[b]
  BY <1>4, StepKeepsOutcome DEF SameOutcome
<1> QED BY <1>1, <1>3, <1>5

\* Recovery from a checkpoint or the log gives back the request of the moment of the
\* crash, and from the journal index what was indexed; after the event that ended a
\* request no step changes what a query answers of it but the costs (recovery.py,
\* transitions.lookup, Store.apply): for any requests, families and bounds.
THEOREM StepsKeepTheRecords == Spec => StepsKeepRecords
<1>1. IInv /\ IInv' /\ [Next]_vars => [RefoldedExactly /\ OutcomeKept]_vars
  BY RecoveryIsExact, OutcomesStay
<1> QED BY <1>1, InvariantHolds, PTL DEF Spec, StepsKeepRecords
=============================================================================
