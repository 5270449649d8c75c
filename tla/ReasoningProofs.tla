--------------------------- MODULE ReasoningProofs ---------------------------
(***************************************************************************)
(* Proofs about ReasoningOrchestrator, for every descriptor space, policy, *)
(* plan and engine, and for any number of versions, attempts and crashes:  *)
(* resolutions are sound in the version they cite, envelopes are honoured, *)
(* what execute() returns is accepted by replay(), and sealed records can  *)
(* be traced.                                                              *)
(***************************************************************************)
EXTENDS ReasoningOrchestrator, SequenceTheorems, WellFoundedInduction, TLAPS

-----------------------------------------------------------------------------
(* Sequences and least elements.                                           *)

IsSeq(s) == \E S : s \in Seq(S)

LEMMA SeqFacts ==
  ASSUME NEW s, IsSeq(s)
  PROVE  Len(s) \in Nat /\ DOMAIN s = 1..Len(s) /\ s = [i \in 1..Len(s) |-> s[i]]
<1>1. PICK S : s \in Seq(S)
  BY DEF IsSeq
<1> QED
  BY <1>1, LenProperties

LEMMA EmptyIsSeq == IsSeq(<<>>) /\ Len(<<>>) = 0
<1>1. <<>> \in Seq({})
  OBVIOUS
<1> QED
  BY <1>1 DEF IsSeq

LEMMA FunctionIsSeq ==
  ASSUME NEW n \in Nat, NEW s, s = [i \in 1..n |-> s[i]]
  PROVE  IsSeq(s) /\ Len(s) = n
<1>1. PICK T : T = {s[i] : i \in 1..n}
  OBVIOUS
<1>2. s \in [1..n -> T]
  BY <1>1
<1>3. s \in Seq(T)
  BY <1>2, IsASeq
<1>4. Len(s) = n
  BY <1>2, <1>3, LenProperties
<1> QED
  BY <1>3, <1>4 DEF IsSeq

LEMMA AppendFacts ==
  ASSUME NEW s, IsSeq(s), NEW e
  PROVE  /\ IsSeq(Append(s, e)) /\ Len(Append(s, e)) = Len(s) + 1
         /\ DOMAIN Append(s, e) = 1..Len(s) + 1
         /\ Append(s, e)[Len(s) + 1] = e
         /\ \A i \in 1..Len(s) : Append(s, e)[i] = s[i]
<1>1. PICK S : s \in Seq(S)
  BY DEF IsSeq
<1>2. PICK T : T = S \cup {e}
  OBVIOUS
<1>3. s \in Seq(T) /\ e \in T
  BY <1>1, <1>2, SeqMonotonic
<1>4. /\ Append(s, e) \in Seq(T) /\ Len(Append(s, e)) = Len(s) + 1
      /\ Append(s, e)[Len(s) + 1] = e /\ \A i \in 1..Len(s) : Append(s, e)[i] = s[i]
  BY <1>3, AppendProperties
<1>5. DOMAIN Append(s, e) = 1..Len(s) + 1
  BY <1>4, LenProperties
<1> QED
  BY <1>4, <1>5 DEF IsSeq

LEMMA PrefixFacts ==
  ASSUME NEW s, IsSeq(s), NEW n \in 0..Len(s)
  PROVE  /\ IsSeq(SubSeq(s, 1, n)) /\ Len(SubSeq(s, 1, n)) = n
         /\ \A i \in 1..n : SubSeq(s, 1, n)[i] = s[i]
<1>1. PICK S : s \in Seq(S)
  BY DEF IsSeq
<1>2. Len(s) \in Nat /\ DOMAIN s = 1..Len(s) /\ 1..n \subseteq DOMAIN s
  BY SeqFacts
<1>3. /\ SubSeq(s, 1, n) \in Seq(S) /\ Len(SubSeq(s, 1, n)) = n
      /\ \A i \in 1..n : SubSeq(s, 1, n)[i] = s[i]
  BY <1>1, <1>2, SubSeqProperties
<1> QED
  BY <1>3 DEF IsSeq

LEMMA EqualSeqs ==
  ASSUME NEW s, IsSeq(s), NEW t, IsSeq(t), Len(s) = Len(t),
         \A i \in 1..Len(s) : s[i] = t[i]
  PROVE  s = t
BY SeqFacts

\* The prefixes of a sequence are those of a longer one, and so is it itself.
LEMMA PrefixOfAppend ==
  ASSUME NEW s, IsSeq(s), NEW e, NEW n \in 0..Len(s)
  PROVE  SubSeq(Append(s, e), 1, n) = SubSeq(s, 1, n)
<1>1. Len(s) \in Nat /\ n \in 0..Len(Append(s, e))
  BY SeqFacts, AppendFacts
<1>2. /\ IsSeq(SubSeq(Append(s, e), 1, n)) /\ Len(SubSeq(Append(s, e), 1, n)) = n
      /\ \A i \in 1..n : SubSeq(Append(s, e), 1, n)[i] = Append(s, e)[i]
  BY <1>1, AppendFacts, PrefixFacts
<1>3. /\ IsSeq(SubSeq(s, 1, n)) /\ Len(SubSeq(s, 1, n)) = n
      /\ \A i \in 1..n : SubSeq(s, 1, n)[i] = s[i]
  BY PrefixFacts
<1>4. \A i \in 1..n : Append(s, e)[i] = s[i]
  BY <1>1, AppendFacts
<1> QED
  BY <1>2, <1>3, <1>4, EqualSeqs

LEMMA WholePrefix ==
  ASSUME NEW s, IsSeq(s)
  PROVE  SubSeq(s, 1, Len(s)) = s
<1>1. Len(s) \in Nat /\ Len(s) \in 0..Len(s)
  BY SeqFacts
<1>2. /\ IsSeq(SubSeq(s, 1, Len(s))) /\ Len(SubSeq(s, 1, Len(s))) = Len(s)
      /\ \A i \in 1..Len(s) : SubSeq(s, 1, Len(s))[i] = s[i]
  BY <1>1, PrefixFacts
<1> QED
  BY <1>2, EqualSeqs

LEMMA LeastNatural ==
  ASSUME NEW T \in SUBSET Nat, T # {}
  PROVE  \E x \in T : \A y \in T : x <= y
<1>1. IsWellFoundedOn({ss \in Nat \X Nat : ss[1] < ss[2]}, Nat)
  BY NatLessThanWellFounded DEF OpToRel
<1>2. PICK x \in T : \A y \in T : ~(<<y, x>> \in {ss \in Nat \X Nat : ss[1] < ss[2]})
  BY <1>1, WFMin
<1>3. ASSUME NEW y \in T PROVE x <= y
  <2>1. x \in Nat /\ y \in Nat /\ ~(x > y)
    BY <1>2
  <2> QED
    BY <2>1
<1> QED
  BY <1>3

\* A set of the first numbers that has each number after one it has.
LEMMA Ascend ==
  ASSUME NEW L \in Nat, NEW Good, 0 \in Good, \A n \in 1..L : n - 1 \in Good => n \in Good
  PROVE  0..L \subseteq Good
<1> DEFINE Failing == {n \in 0..L : n \notin Good}
<1>1. Failing \in SUBSET Nat
  OBVIOUS
<1>2. SUFFICES ASSUME Failing # {} PROVE FALSE
  OBVIOUS
<1>3. PICK m \in Failing : \A y \in Failing : m <= y
  <2> HIDE DEF Failing
  <2> QED
    BY <1>1, <1>2, LeastNatural
<1>4. m \in 1..L /\ m - 1 \in 0..L /\ ~(m <= m - 1)
  BY <1>3
<1>5. m - 1 \in Good
  BY <1>3, <1>4
<1> QED
  BY <1>3, <1>4, <1>5

-----------------------------------------------------------------------------
(* Sums.                                                                   *)

IsTotal(upTo, s) == upTo = [n \in 0..Len(s) |-> IF n = 0 THEN 0 ELSE upTo[n - 1] + s[n]]

\* The partial sums exist, one after the other.
LEMMA TotalExists ==
  ASSUME NEW s, IsSeq(s)
  PROVE  \E upTo : IsTotal(upTo, s) /\ Total(s) = upTo[Len(s)]
<1>1. PICK L \in Nat : L = Len(s)
  BY SeqFacts
<1> DEFINE Step(p, n) == IF n = 0 THEN 0 ELSE p[n - 1] + s[n]
           Upto(m) == \E p : p = [n \in 0..m |-> Step(p, n)]
           Good == {m \in 0..L : Upto(m)}
<1>2. Upto(0)
  <2>1. PICK p : p = [n \in 0..0 |-> 0]
    OBVIOUS
  <2>2. p = [n \in 0..0 |-> Step(p, n)]
    BY <2>1
  <2> QED
    BY <2>2
<1>3. ASSUME NEW m \in Nat, Upto(m) PROVE Upto(m + 1)
  <2>1. PICK p : p = [n \in 0..m |-> Step(p, n)]
    BY <1>3
  <2>2. PICK q : q = [n \in 0..m+1 |-> IF n = m + 1 THEN Step(p, n) ELSE p[n]]
    OBVIOUS
  <2>3. ASSUME NEW n \in 0..m+1 PROVE q[n] = Step(q, n)
    <3>1. n # 0 => n - 1 \in 0..m /\ q[n - 1] = p[n - 1]
      BY <2>2
    <3>2. Step(p, n) = Step(q, n)
      BY <3>1
    <3>3. n # m + 1 => n \in 0..m
      OBVIOUS
    <3>4. n # m + 1 => q[n] = Step(p, n)
      <4> HIDE DEF Step
      <4> QED
        BY <2>1, <2>2, <3>3
    <3>5. n = m + 1 => q[n] = Step(p, n)
      <4> HIDE DEF Step
      <4> QED
        BY <2>2
    <3> HIDE DEF Step
    <3> QED
      BY <3>2, <3>4, <3>5
  <2>4. q = [n \in 0..m+1 |-> Step(q, n)]
    <3> HIDE DEF Step
    <3> QED
      BY <2>2, <2>3
  <2> QED
    BY <2>4
<1>4. 0 \in Good /\ \A n \in 1..L : n - 1 \in Good => n \in Good
  <2>1. ASSUME NEW n \in 1..L, n - 1 \in Good PROVE n \in Good
    <3>1. n - 1 \in Nat /\ (n - 1) + 1 = n /\ n \in 0..L /\ Upto(n - 1)
      BY <2>1
    <3> HIDE DEF Upto
    <3>2. Upto((n - 1) + 1)
      BY <1>3, <3>1
    <3> QED
      BY <3>1, <3>2
  <2> HIDE DEF Upto
  <2> QED
    BY <1>2, <2>1
<1>5. Upto(L)
  <2>1. 0..L \subseteq Good
    <3> HIDE DEF Good
    <3> QED
      BY <1>4, Ascend
  <2> HIDE DEF Upto
  <2> QED
    BY <2>1
<1>6. \E upTo : IsTotal(upTo, s)
  BY <1>1, <1>5 DEF IsTotal
<1> QED
  BY <1>6 DEF Total, IsTotal

LEMMA TotalOfNothing == Total(<<>>) = 0
<1>1. PICK upTo : IsTotal(upTo, <<>>) /\ Total(<<>>) = upTo[Len(<<>>)]
  BY EmptyIsSeq, TotalExists
<1> QED
  BY <1>1, EmptyIsSeq DEF IsTotal

LEMMA TotalOfAppend ==
  ASSUME NEW s, IsSeq(s), NEW e
  PROVE  Total(Append(s, e)) = Total(s) + e
<1> DEFINE t == Append(s, e)
           L == Len(s)
<1>1. L \in Nat /\ IsSeq(t) /\ Len(t) = L + 1 /\ t[L + 1] = e /\ \A i \in 1..L : t[i] = s[i]
  BY SeqFacts, AppendFacts
<1> HIDE DEF t, L
<1>2. PICK p : IsTotal(p, s) /\ Total(s) = p[L]
  BY TotalExists DEF L
<1>3. PICK q : IsTotal(q, t) /\ Total(t) = q[Len(t)]
  BY <1>1, TotalExists
<1>4. p[0] = 0 /\ \A n \in 1..L : p[n] = p[n - 1] + s[n]
  <2>1. p = [n \in 0..L |-> IF n = 0 THEN 0 ELSE p[n - 1] + s[n]]
    BY <1>2 DEF IsTotal, L
  <2>2. 0 \in 0..L /\ \A n \in 1..L : n \in 0..L /\ n # 0
    BY <1>1
  <2> QED
    BY <2>1, <2>2
<1>5. q[0] = 0 /\ \A n \in 1..L + 1 : q[n] = q[n - 1] + t[n]
  BY <1>1, <1>3 DEF IsTotal
<1> DEFINE Good == {n \in 0..L : p[n] = q[n]}
<1>6. 0 \in Good /\ \A n \in 1..L : n - 1 \in Good => n \in Good
  <2>1. 0 \in Good
    BY <1>1, <1>4, <1>5
  <2>2. ASSUME NEW n \in 1..L, p[n - 1] = q[n - 1] PROVE p[n] = q[n]
    <3>1. n \in 1..L + 1
      BY <1>1
    <3> QED
      BY <1>1, <1>4, <1>5, <2>2, <3>1
  <2> QED
    BY <1>1, <2>1, <2>2
<1>7. 0..L \subseteq Good
  <2> HIDE DEF Good
  <2> QED
    BY <1>1, <1>6, Ascend
<1>8. p[L] = q[L] /\ L \in 0..L
  BY <1>1, <1>7
<1>9. q[L + 1] = q[L] + t[L + 1]
  BY <1>1, <1>5
<1>10. Total(t) = p[L] + e
  BY <1>1, <1>3, <1>8, <1>9
<1> QED
  BY <1>2, <1>10 DEF t

\* What the attempts before one consumed, and what it adds.
LEMMA NothingConsumed == ASSUME NEW records PROVE ConsumedUpTo(records, 0) = 0
<1>1. [j \in 1..0 |-> records[j].consumed] = <<>>
  OBVIOUS
<1> QED
  BY <1>1, TotalOfNothing DEF ConsumedUpTo

LEMMA ConsumedOneMore ==
  ASSUME NEW records, NEW n \in Nat
  PROVE  ConsumedUpTo(records, n + 1) = ConsumedUpTo(records, n) + records[n + 1].consumed
<1> DEFINE s == [j \in 1..n |-> records[j].consumed]
           t == [j \in 1..n + 1 |-> records[j].consumed]
<1>1. IsSeq(s) /\ Len(s) = n
  <2>1. s = [i \in 1..n |-> s[i]]
    OBVIOUS
  <2> HIDE DEF s
  <2> QED
    BY <2>1, FunctionIsSeq
<1>2. IsSeq(t) /\ Len(t) = n + 1
  <2>1. t = [i \in 1..n + 1 |-> t[i]]
    OBVIOUS
  <2> HIDE DEF t
  <2> QED
    BY <2>1, FunctionIsSeq
<1>3. t[n + 1] = records[n + 1].consumed /\ \A i \in 1..n : t[i] = s[i]
  OBVIOUS
<1>4. t = Append(s, records[n + 1].consumed)
  <2> HIDE DEF s, t
  <2> DEFINE u == Append(s, records[n + 1].consumed)
  <2>1. /\ IsSeq(u) /\ Len(u) = n + 1 /\ u[n + 1] = records[n + 1].consumed
        /\ \A i \in 1..n : u[i] = s[i]
    BY <1>1, AppendFacts
  <2> HIDE DEF u
  <2>2. \A i \in 1..n + 1 : t[i] = u[i]
    <3>1. ASSUME NEW i \in 1..n + 1 PROVE t[i] = u[i]
      <4>1. i = n + 1 \/ i \in 1..n
        OBVIOUS
      <4> QED
        BY <1>3, <2>1, <4>1
    <3> QED
      BY <3>1
  <2>3. t = u
    BY <1>2, <2>1, <2>2, EqualSeqs
  <2> QED
    BY <2>3 DEF u
<1>5. Total(t) = Total(s) + records[n + 1].consumed
  <2> HIDE DEF s, t
  <2> QED
    BY <1>1, <1>4, TotalOfAppend
<1> QED
  BY <1>5 DEF ConsumedUpTo

LEMMA ConsumedOfAppend ==
  ASSUME NEW records, IsSeq(records), NEW e, NEW n \in 0..Len(records)
  PROVE  ConsumedUpTo(Append(records, e), n) = ConsumedUpTo(records, n)
<1>1. Len(records) \in Nat /\ \A j \in 1..Len(records) : Append(records, e)[j] = records[j]
  BY SeqFacts, AppendFacts
<1>2. \A j \in 1..n : Append(records, e)[j] = records[j]
  BY <1>1
<1>3. [j \in 1..n |-> Append(records, e)[j].consumed] = [j \in 1..n |-> records[j].consumed]
  BY <1>2
<1> QED
  BY <1>3 DEF ConsumedUpTo

-----------------------------------------------------------------------------
(* Descriptor spaces.  Every row claims capabilities that can be matched:  *)
(* rows are admitted only then, and no claimed capability is retired.      *)

SpaceSound(s) ==
  /\ s = [caps |-> s.caps, rels |-> s.rels, rows |-> s.rows]
  /\ \A c \in DOMAIN s.caps : "lifecycle" \in DOMAIN s.caps[c]
  /\ \A p \in DOMAIN s.rows : ClaimsValid(s, s.rows[p])

LEMMA EmptySpaceSound == SpaceSound(EmptySpace)
<1>1. DOMAIN <<>> = {}
  OBVIOUS
<1>2. EmptySpace.caps = <<>> /\ EmptySpace.rows = <<>> /\ EmptySpace.rels = {}
  BY DEF EmptySpace
<1>3. EmptySpace = [caps |-> EmptySpace.caps, rels |-> EmptySpace.rels, rows |-> EmptySpace.rows]
  BY <1>2 DEF EmptySpace
<1> HIDE DEF EmptySpace
<1> QED
  BY <1>1, <1>2, <1>3 DEF SpaceSound

\* The order of the lifecycle.
LEMMA LifecycleOrder ==
  /\ Range(LIFECYCLE_STATES) = {"proposed", "active", "deprecated", "retired"}
  /\ IndexIn(LIFECYCLE_STATES, "proposed") = 1 /\ IndexIn(LIFECYCLE_STATES, "active") = 2
  /\ IndexIn(LIFECYCLE_STATES, "deprecated") = 3
<1> DEFINE L == LIFECYCLE_STATES
<1>1. /\ DOMAIN L = 1..4
      /\ L[1] = "proposed" /\ L[2] = "active" /\ L[3] = "deprecated" /\ L[4] = "retired"
  BY DEF LIFECYCLE_STATES
<1>2. DOMAIN L = {1, 2, 3, 4}
  BY <1>1
<1> HIDE DEF L
<1>3. Range(L) = {"proposed", "active", "deprecated", "retired"}
  BY <1>1, <1>2 DEF Range
<1>4. ASSUME NEW i \in {1, 2, 3} PROVE IndexIn(L, L[i]) = i
  <2>1. \E j \in DOMAIN L : L[j] = L[i]
    BY <1>2
  <2>2. IndexIn(L, L[i]) \in DOMAIN L /\ L[IndexIn(L, L[i])] = L[i]
    BY <2>1 DEF IndexIn
  <2> QED
    BY <1>1, <1>2, <2>2
<1> QED
  BY <1>1, <1>3, <1>4 DEF L

\* A forward step of a capability that can be matched, short of retirement.
LEMMA ForwardMatchable ==
  ASSUME NEW from \in Matchable, NEW to, Forward(from, to), to # "retired"
  PROVE  to \in Matchable
BY LifecycleOrder DEF Forward, Matchable

\* Rows are undisturbed when every capability that could be matched still can.
LEMMA ClaimsKept ==
  ASSUME NEW s, NEW t, NEW row, ClaimsValid(s, row),
         \A c \in DOMAIN row.claims :
           c \in DOMAIN s.caps /\ s.caps[c].lifecycle \in Matchable =>
             c \in DOMAIN t.caps /\ t.caps[c].lifecycle \in Matchable
  PROVE  ClaimsValid(t, row)
BY DEF ClaimsValid

LEMMA EnactSound ==
  ASSUME NEW s, SpaceSound(s), NEW m, Constructible(m), Legal(s, m)
  PROVE  SpaceSound(Enact(s, m))
<1> DEFINE t == Enact(s, m)
<1>1. /\ s = [caps |-> s.caps, rels |-> s.rels, rows |-> s.rows]
      /\ \A c \in DOMAIN s.caps : "lifecycle" \in DOMAIN s.caps[c]
      /\ \A p \in DOMAIN s.rows : ClaimsValid(s, s.rows[p])
  BY DEF SpaceSound
<1>2. CASE m.kind \in {"add_capability", "update_capability"}
  <2>1. t = [s EXCEPT !.caps = Put(s.caps, m.record.id, m.record)]
    BY <1>2 DEF Enact
  <2>2. /\ t = [caps |-> t.caps, rels |-> t.rels, rows |-> t.rows]
        /\ t.caps = Put(s.caps, m.record.id, m.record) /\ t.rows = s.rows
    BY <1>1, <2>1
  <2>3. CapabilityBuilds(m.record)
    BY <1>2 DEF Constructible
  <2>4. m.record.id \in DOMAIN s.caps => m.record.lifecycle = s.caps[m.record.id].lifecycle
    <3>1. AddCapabilityLegal(s, m.record) \/ UpdateCapabilityLegal(s, m.record)
      BY <1>2 DEF Legal
    <3> QED
      BY <3>1 DEF AddCapabilityLegal, UpdateCapabilityLegal
  <2> HIDE DEF t
  <2>5. /\ DOMAIN t.caps = DOMAIN s.caps \cup {m.record.id}
        /\ \A c \in DOMAIN t.caps :
             t.caps[c] = IF c = m.record.id THEN m.record ELSE s.caps[c]
    BY <2>2 DEF Put
  <2>6. "lifecycle" \in DOMAIN m.record
    BY <2>3 DEF CapabilityBuilds
  <2>7. \A c \in DOMAIN t.caps : "lifecycle" \in DOMAIN t.caps[c]
    BY <1>1, <2>5, <2>6
  <2>8. \A c \in DOMAIN s.caps : c \in DOMAIN t.caps /\ t.caps[c].lifecycle = s.caps[c].lifecycle
    BY <2>4, <2>5
  <2>9. \A p \in DOMAIN t.rows : ClaimsValid(t, t.rows[p])
    BY <1>1, <2>2, <2>8, ClaimsKept
  <2> QED
    BY <2>2, <2>7, <2>9 DEF SpaceSound, t
<1>3. CASE m.kind = "transition"
  <2>1. TransitionLegal(s, m.id, m.to)
    BY <1>3 DEF Legal
  <2>2. t = [s EXCEPT !.caps[m.id].lifecycle = m.to]
    BY <1>3 DEF Enact
  <2>3. /\ t = [caps |-> t.caps, rels |-> t.rels, rows |-> t.rows]
        /\ t.caps = [s.caps EXCEPT ![m.id].lifecycle = m.to] /\ t.rows = s.rows
    BY <1>1, <2>2
  <2>4. m.id \in DOMAIN s.caps
    BY <2>1 DEF TransitionLegal
  <2> HIDE DEF t
  <2>5. /\ DOMAIN t.caps = DOMAIN s.caps
        /\ \A c \in DOMAIN s.caps : c # m.id => t.caps[c] = s.caps[c]
        /\ t.caps[m.id] = [s.caps[m.id] EXCEPT !.lifecycle = m.to]
    BY <2>3, <2>4
  <2>6. /\ DOMAIN t.caps[m.id] = DOMAIN s.caps[m.id]
        /\ t.caps[m.id].lifecycle = m.to
    BY <1>1, <2>4, <2>5
  <2>7. \A c \in DOMAIN t.caps : "lifecycle" \in DOMAIN t.caps[c]
    BY <1>1, <2>5, <2>6
  <2>8. ASSUME NEW p \in DOMAIN s.rows PROVE ClaimsValid(t, s.rows[p])
    <3>1. m.id \in DOMAIN s.rows[p].claims => m.to # "retired"
      BY <2>1 DEF TransitionLegal, Claimants
    <3>2. m.id \in DOMAIN s.rows[p].claims /\ s.caps[m.id].lifecycle \in Matchable => m.to \in Matchable
      BY <2>1, <3>1, ForwardMatchable DEF TransitionLegal
    <3>3. \A c \in DOMAIN s.rows[p].claims :
            c \in DOMAIN s.caps /\ s.caps[c].lifecycle \in Matchable =>
              c \in DOMAIN t.caps /\ t.caps[c].lifecycle \in Matchable
      BY <2>5, <2>6, <3>2
    <3> QED
      BY <1>1, <3>3, ClaimsKept
  <2> QED
    BY <2>3, <2>7, <2>8 DEF SpaceSound, t
<1>4. CASE m.kind \in {"add_relationship", "remove_relationship"}
  <2>1. /\ t = [caps |-> t.caps, rels |-> t.rels, rows |-> t.rows]
        /\ t.caps = s.caps /\ t.rows = s.rows
    BY <1>1, <1>4 DEF Enact
  <2> HIDE DEF t
  <2>2. \A p \in DOMAIN t.rows : ClaimsValid(t, t.rows[p])
    BY <1>1, <2>1 DEF ClaimsValid
  <2> QED
    BY <1>1, <2>1, <2>2 DEF SpaceSound, t
<1>5. CASE m.kind \in {"add_descriptor_row", "update_descriptor_row"}
  <2>1. t = [s EXCEPT !.rows = Put(s.rows, m.record.provider, m.record)]
    BY <1>5 DEF Enact
  <2>2. /\ t = [caps |-> t.caps, rels |-> t.rels, rows |-> t.rows]
        /\ t.caps = s.caps /\ t.rows = Put(s.rows, m.record.provider, m.record)
    BY <1>1, <2>1
  <2>3. ClaimsValid(s, m.record)
    <3>1. AddRowLegal(s, m.record) \/ UpdateRowLegal(s, m.record)
      BY <1>5 DEF Legal
    <3> QED
      BY <3>1 DEF AddRowLegal, UpdateRowLegal
  <2> HIDE DEF t
  <2>4. \A p \in DOMAIN t.rows : ClaimsValid(s, t.rows[p])
    BY <1>1, <2>2, <2>3 DEF Put
  <2>5. \A p \in DOMAIN t.rows : ClaimsValid(t, t.rows[p])
    BY <2>2, <2>4 DEF ClaimsValid
  <2> QED
    BY <1>1, <2>2, <2>5 DEF SpaceSound, t
<1>6. CASE m.kind = "remove_descriptor_row"
  <2>1. t = [s EXCEPT !.rows = Without(s.rows, m.id)]
    BY <1>6 DEF Enact
  <2>2. /\ t = [caps |-> t.caps, rels |-> t.rels, rows |-> t.rows]
        /\ t.caps = s.caps /\ t.rows = Without(s.rows, m.id)
    BY <1>1, <2>1
  <2> HIDE DEF t
  <2>3. \A p \in DOMAIN t.rows : ClaimsValid(t, t.rows[p])
    BY <1>1, <2>2 DEF ClaimsValid, Without
  <2> QED
    BY <1>1, <2>2, <2>3 DEF SpaceSound, t
<1>7. m.kind \in {"add_capability", "update_capability", "transition", "add_relationship",
                 "remove_relationship", "add_descriptor_row", "update_descriptor_row",
                 "remove_descriptor_row"}
  BY DEF Legal
<1> QED
  BY <1>2, <1>3, <1>4, <1>5, <1>6, <1>7

IsInjected(after) ==
  after = [n \in 0..Len(Injected) |-> IF n = 0 THEN EmptySpace ELSE Enact(after[n - 1], Injected[n])]

\* The injected space went through its mutations one by one.
LEMMA InjectedExists == IsInjected(InjectedSpaces) /\ Len(Injected) \in Nat
<1>1. PICK L \in Nat : L = Len(Injected)
  BY InjectedApplied
<1> DEFINE Step(p, n) == IF n = 0 THEN EmptySpace ELSE Enact(p[n - 1], Injected[n])
           Upto(m) == \E p : p = [n \in 0..m |-> Step(p, n)]
           Good == {m \in 0..L : Upto(m)}
<1>2. Upto(0)
  <2>1. PICK p : p = [n \in 0..0 |-> EmptySpace]
    OBVIOUS
  <2>2. p = [n \in 0..0 |-> Step(p, n)]
    BY <2>1
  <2> QED
    BY <2>2
<1>3. ASSUME NEW m \in Nat, Upto(m) PROVE Upto(m + 1)
  <2>1. PICK p : p = [n \in 0..m |-> Step(p, n)]
    BY <1>3
  <2>2. PICK q : q = [n \in 0..m+1 |-> IF n = m + 1 THEN Step(p, n) ELSE p[n]]
    OBVIOUS
  <2>3. ASSUME NEW n \in 0..m+1 PROVE q[n] = Step(q, n)
    <3>1. n # 0 => n - 1 \in 0..m /\ q[n - 1] = p[n - 1]
      BY <2>2
    <3>2. Step(p, n) = Step(q, n)
      BY <3>1
    <3>3. n # m + 1 => n \in 0..m
      OBVIOUS
    <3>4. n # m + 1 => q[n] = Step(p, n)
      <4> HIDE DEF Step
      <4> QED
        BY <2>1, <2>2, <3>3
    <3>5. n = m + 1 => q[n] = Step(p, n)
      <4> HIDE DEF Step
      <4> QED
        BY <2>2
    <3> HIDE DEF Step
    <3> QED
      BY <3>2, <3>4, <3>5
  <2>4. q = [n \in 0..m+1 |-> Step(q, n)]
    <3> HIDE DEF Step
    <3> QED
      BY <2>2, <2>3
  <2> QED
    BY <2>4
<1>4. 0 \in Good /\ \A n \in 1..L : n - 1 \in Good => n \in Good
  <2>1. ASSUME NEW n \in 1..L, n - 1 \in Good PROVE n \in Good
    <3>1. n - 1 \in Nat /\ (n - 1) + 1 = n /\ n \in 0..L /\ Upto(n - 1)
      BY <2>1
    <3> HIDE DEF Upto
    <3>2. Upto((n - 1) + 1)
      BY <1>3, <3>1
    <3> QED
      BY <3>1, <3>2
  <2> HIDE DEF Upto
  <2> QED
    BY <1>2, <2>1
<1>5. Upto(L)
  <2>1. 0..L \subseteq Good
    <3> HIDE DEF Good
    <3> QED
      BY <1>4, Ascend
  <2> HIDE DEF Upto
  <2> QED
    BY <2>1
<1>6. \E after : IsInjected(after)
  BY <1>1, <1>5 DEF IsInjected
<1> QED
  BY <1>1, <1>6 DEF InjectedSpaces, IsInjected

LEMMA InjectedSound == \A n \in 0..Len(Injected) : SpaceSound(InjectedSpaces[n])
<1> DEFINE L == Len(Injected)
           sp == InjectedSpaces
           Good == {n \in 0..L : SpaceSound(sp[n])}
<1>1. /\ L \in Nat /\ sp[0] = EmptySpace
      /\ \A n \in 1..L : sp[n] = Enact(sp[n - 1], Injected[n])
  BY InjectedExists DEF IsInjected
<1>2. \A n \in 1..L : Admit(sp[n - 1], Injected[n]) # {}
  BY InjectedApplied
<1> HIDE DEF sp, L
<1>3. 0 \in Good
  BY <1>1, EmptySpaceSound
<1>4. ASSUME NEW n \in 1..L, n - 1 \in Good PROVE n \in Good
  <2>1. Constructible(Injected[n]) /\ Legal(sp[n - 1], Injected[n])
    BY <1>2 DEF Admit
  <2>2. SpaceSound(Enact(sp[n - 1], Injected[n]))
    BY <1>4, <2>1, EnactSound
  <2> QED
    BY <1>1, <2>2
<1>5. 0..L \subseteq Good
  <2> HIDE DEF Good
  <2> QED
    BY <1>1, <1>3, <1>4, Ascend
<1> QED
  BY <1>5 DEF sp, L

\* Every version of the space is sound, and a version never changes.
HistSound(h) == IsSeq(h) /\ Len(h) >= 1 /\ \A i \in 1..Len(h) : SpaceSound(h[i])

LEMMA InjectedHistSound == HistSound(InjectedHistory)
<1> DEFINE h == InjectedHistory
           n == Len(Injected) + 1
<1>1. n \in Nat /\ n >= 1 /\ \A i \in 1..n : i - 1 \in 0..Len(Injected)
  BY InjectedExists
<1>2. h = [i \in 1..n |-> InjectedSpaces[i - 1]]
  BY DEF InjectedHistory
<1> HIDE DEF h, n
<1>3. h = [i \in 1..n |-> h[i]]
  BY <1>2
<1>4. IsSeq(h) /\ Len(h) = n
  BY <1>1, <1>3, FunctionIsSeq
<1>5. \A i \in 1..n : SpaceSound(h[i])
  BY <1>1, <1>2, InjectedSound
<1> QED
  BY <1>1, <1>4, <1>5 DEF HistSound, h

LEMMA AdmittedHistSound ==
  ASSUME NEW h, HistSound(h), NEW m, NEW next \in Admit(h[Len(h)], m)
  PROVE  /\ HistSound(Append(h, next)) /\ Len(Append(h, next)) = Len(h) + 1
         /\ \A i \in 1..Len(h) : Append(h, next)[i] = h[i]
<1>1. Constructible(m) /\ Legal(h[Len(h)], m) /\ next = Enact(h[Len(h)], m)
  BY DEF Admit
<1>2. Len(h) \in Nat /\ SpaceSound(h[Len(h)])
  BY SeqFacts DEF HistSound
<1>3. SpaceSound(next)
  BY <1>1, <1>2, EnactSound
<1> QED
  BY <1>2, <1>3, AppendFacts DEF HistSound

-----------------------------------------------------------------------------
(* Attempt sequences.                                                      *)

\* The records of an invocation so far: each refers to those before it, and the
\* envelope is what was consumed up to a record and what remained after it.
Chain(records, request, resolution) ==
  /\ IsSeq(records)
  /\ \A i \in 1..Len(records) :
       /\ records[i].index = i
       /\ records[i].request = request /\ records[i].resolution = resolution
       /\ records[i].refs = SubSeq(records, 1, i - 1)
       /\ records[i].consumed \in Nat /\ records[i].remaining \in Nat
       /\ ConsumedUpTo(records, i) + records[i].remaining = request.ceiling
       /\ OutcomeBuilds(records[i])
       /\ "refs" \in DOMAIN records[i]

EnvelopeOf(request) == request.ceiling \in Nat /\ request.ceiling > 0

LEMMA EmptyChain ==
  ASSUME NEW request, NEW resolution
  PROVE  Chain(<<>>, request, resolution)
BY EmptyIsSeq DEF Chain

\* What was consumed is a number.
LEMMA ConsumedIsNat ==
  ASSUME NEW records, NEW request, NEW resolution, Chain(records, request, resolution),
         NEW n \in 0..Len(records)
  PROVE  ConsumedUpTo(records, n) \in Nat
<1> DEFINE Good == {i \in 0..Len(records) : ConsumedUpTo(records, i) \in Nat}
<1>1. Len(records) \in Nat
  BY SeqFacts DEF Chain
<1>2. 0 \in Good
  BY <1>1, NothingConsumed
<1>3. ASSUME NEW i \in 1..Len(records), i - 1 \in Good PROVE i \in Good
  <2>1. PICK k \in Nat : k = i - 1 /\ k + 1 = i
    BY <1>1
  <2>2. ConsumedUpTo(records, k + 1) = ConsumedUpTo(records, k) + records[k + 1].consumed
    BY <2>1, ConsumedOneMore
  <2>3. records[i].consumed \in Nat
    BY DEF Chain
  <2> QED
    BY <1>1, <1>3, <2>1, <2>2, <2>3
<1>4. 0..Len(records) \subseteq Good
  <2> HIDE DEF Good
  <2> QED
    BY <1>1, <1>2, <1>3, Ascend
<1> QED
  BY <1>4

LEMMA AppendChain ==
  ASSUME NEW records, NEW request, NEW resolution, Chain(records, request, resolution),
         NEW x, x.index = Len(records) + 1, x.request = request, x.resolution = resolution,
         x.refs = records, x.consumed \in Nat, x.remaining \in Nat,
         ConsumedUpTo(records, Len(records)) + x.consumed + x.remaining = request.ceiling,
         OutcomeBuilds(x), "refs" \in DOMAIN x
  PROVE  /\ Chain(Append(records, x), request, resolution)
         /\ Len(Append(records, x)) = Len(records) + 1
         /\ Append(records, x)[Len(records) + 1] = x
         /\ ConsumedUpTo(Append(records, x), Len(records) + 1)
              = ConsumedUpTo(records, Len(records)) + x.consumed
<1> DEFINE more == Append(records, x)
           L == Len(records)
<1>1. /\ IsSeq(records) /\ L \in Nat /\ IsSeq(more) /\ Len(more) = L + 1
      /\ more[L + 1] = x /\ \A i \in 1..L : more[i] = records[i]
  BY SeqFacts, AppendFacts DEF Chain
<1>2. \A n \in 0..L : ConsumedUpTo(more, n) = ConsumedUpTo(records, n)
                    /\ SubSeq(more, 1, n) = SubSeq(records, 1, n)
  BY <1>1, ConsumedOfAppend, PrefixOfAppend
<1>3. ConsumedUpTo(more, L + 1) = ConsumedUpTo(records, L) + x.consumed
  <2>1. ConsumedUpTo(more, L + 1) = ConsumedUpTo(more, L) + more[L + 1].consumed
    BY <1>1, ConsumedOneMore
  <2> QED
    BY <1>1, <1>2, <2>1
<1>4. SubSeq(more, 1, L) = records
  BY <1>1, <1>2, WholePrefix
<1> HIDE DEF more
<1>5. ASSUME NEW i \in 1..L + 1
      PROVE  /\ more[i].index = i
             /\ more[i].request = request /\ more[i].resolution = resolution
             /\ more[i].refs = SubSeq(more, 1, i - 1)
             /\ more[i].consumed \in Nat /\ more[i].remaining \in Nat
             /\ ConsumedUpTo(more, i) + more[i].remaining = request.ceiling
             /\ OutcomeBuilds(more[i])
             /\ "refs" \in DOMAIN more[i]
  <2>1. CASE i = L + 1
    <3>1. (L + 1) - 1 = L
      BY <1>1
    <3> QED
      BY <1>1, <1>3, <1>4, <2>1, <3>1
  <2>2. CASE i # L + 1
    <3>1. i \in 1..L /\ i \in 0..L /\ i - 1 \in 0..L
      BY <1>1, <2>2
    <3>2. /\ records[i].index = i
          /\ records[i].request = request /\ records[i].resolution = resolution
          /\ records[i].refs = SubSeq(records, 1, i - 1)
          /\ records[i].consumed \in Nat /\ records[i].remaining \in Nat
          /\ ConsumedUpTo(records, i) + records[i].remaining = request.ceiling
          /\ OutcomeBuilds(records[i])
          /\ "refs" \in DOMAIN records[i]
      BY <3>1 DEF Chain
    <3> QED
      BY <1>1, <1>2, <3>1, <3>2
  <2> QED
    BY <2>1, <2>2
<1>6. Chain(more, request, resolution)
  BY <1>1, <1>5 DEF Chain
<1> QED
  BY <1>1, <1>3, <1>6 DEF more

-----------------------------------------------------------------------------
(* The invocation under way.                                               *)

IsRun(r) ==
  r = [request |-> r.request, resolution |-> r.resolution, policy |-> r.policy,
       records |-> r.records, total |-> r.total, phase |-> r.phase, sealed |-> r.sealed]

\* The attempts ended for a reason that replay accepts.
Stopped(records, policy) ==
  /\ Len(records) >= 1
  /\ ~PrematurelyStopped(records, policy) \/ InitiationRefused(records)

RunSound(r) ==
  /\ IsRun(r)
  /\ EnvelopeOf(r.request) /\ r.policy.attempts \in Nat
  /\ Chain(r.records, r.request, r.resolution)
  /\ r.total \in Nat /\ r.total = ConsumedUpTo(r.records, Len(r.records))
  /\ r.total <= r.request.ceiling
  /\ \/ r.phase = "crossing" /\ r.total < r.request.ceiling /\ r.sealed = 0
     \/ /\ r.phase = "sealing" /\ r.sealed \in 0..Len(r.records) - 1
        /\ Stopped(r.records, r.policy)

\* The same invocation, after one more attempt.
Continues(next, r) == RunSound(next) /\ next.request = r.request /\ next.sealed = 0

\* What a failed or expired attempt must satisfy to be sealed.
LEMMA SealedBuilds ==
  ASSUME NEW r, NEW kind, NEW class, NEW origin, NEW output, NEW consumed \in Nat,
         NEW remaining \in Nat, IsSeq(r.records),
         \/ kind = "RETURNED" /\ class = None /\ origin = None
         \/ kind = "FAILED" /\ class \in FAILURE_CLASSES \ {"F7"} /\ origin = None /\ output = None
         \/ kind = "EXPIRED" /\ class = "F7" /\ origin = None /\ output = None
         \/ kind = "CANCELLED" /\ class = None /\ origin \in CANCELLATION_ORIGINS /\ output = None
  PROVE  LET x == Sealed(r, kind, class, origin, output, consumed, remaining)
         IN  /\ OutcomeBuilds(x) /\ "refs" \in DOMAIN x
             /\ x.index = Len(r.records) + 1 /\ x.request = r.request
             /\ x.resolution = r.resolution /\ x.refs = r.records
             /\ x.consumed = consumed /\ x.remaining = remaining
             /\ x.kind = kind /\ x.class = class
<1> DEFINE x == Sealed(r, kind, class, origin, output, consumed, remaining)
<1>1. /\ x.index = Len(r.records) + 1 /\ x.request = r.request
      /\ x.resolution = r.resolution /\ x.refs = r.records
      /\ x.consumed = consumed /\ x.remaining = remaining
      /\ x.kind = kind /\ x.class = class /\ x.origin = origin /\ x.output = output
      /\ "refs" \in DOMAIN x
  BY DEF Sealed
<1> HIDE DEF x
<1>2. x.index >= 1
  BY <1>1, SeqFacts
<1>3. x.consumed >= 0 /\ x.remaining >= 0
  BY <1>1
<1>4. OutcomeBuilds(x)
  <2>1. CASE kind = "RETURNED" /\ class = None /\ origin = None
    BY <1>1, <1>2, <1>3, <2>1 DEF OutcomeBuilds
  <2>2. CASE kind = "FAILED" /\ class \in FAILURE_CLASSES \ {"F7"} /\ origin = None /\ output = None
    BY <1>1, <1>2, <1>3, <2>2 DEF OutcomeBuilds
  <2>3. CASE kind = "EXPIRED" /\ class = "F7" /\ origin = None /\ output = None
    BY <1>1, <1>2, <1>3, <2>3 DEF OutcomeBuilds
  <2>4. CASE kind = "CANCELLED" /\ class = None /\ origin \in CANCELLATION_ORIGINS /\ output = None
    BY <1>1, <1>2, <1>3, <2>4 DEF OutcomeBuilds
  <2> QED
    BY <2>1, <2>2, <2>3, <2>4
<1> QED
  BY <1>1, <1>4 DEF x

\* One more record ends the sequence.
LEMMA EndedSound ==
  ASSUME NEW r, RunSound(r), r.phase = "crossing",
         NEW x, x.index = Len(r.records) + 1, x.request = r.request, x.resolution = r.resolution,
         x.refs = r.records, x.consumed \in Nat, x.remaining \in Nat, OutcomeBuilds(x),
         "refs" \in DOMAIN x,
         NEW total \in Nat, total = r.total + x.consumed, total + x.remaining = r.request.ceiling
  PROVE  LET next == Ended(r, x, total)
         IN  /\ IsRun(next) /\ EnvelopeOf(next.request)
             /\ Chain(next.records, next.request, next.resolution)
             /\ next.total = total /\ next.total = ConsumedUpTo(next.records, Len(next.records))
             /\ total <= next.request.ceiling
             /\ next.phase = "sealing" /\ next.sealed = 0
             /\ Len(next.records) = Len(r.records) + 1 /\ Last(next.records) = x
             /\ next.request = r.request /\ next.resolution = r.resolution
             /\ next.policy = r.policy
<1> DEFINE next == Ended(r, x, total)
<1>1. next = [r EXCEPT !.records = Append(r.records, x), !.total = total, !.phase = "sealing"]
  BY DEF Ended
<1>2. /\ IsRun(r) /\ EnvelopeOf(r.request) /\ Chain(r.records, r.request, r.resolution)
      /\ r.total = ConsumedUpTo(r.records, Len(r.records)) /\ r.sealed = 0
  BY DEF RunSound
<1>3. /\ next = [request |-> r.request, resolution |-> r.resolution, policy |-> r.policy,
                 records |-> Append(r.records, x), total |-> total, phase |-> "sealing",
                 sealed |-> r.sealed]
  BY <1>1, <1>2 DEF IsRun
<1>4. /\ Chain(Append(r.records, x), r.request, r.resolution)
      /\ Len(Append(r.records, x)) = Len(r.records) + 1
      /\ Append(r.records, x)[Len(r.records) + 1] = x
      /\ ConsumedUpTo(Append(r.records, x), Len(r.records) + 1) = total
  <2>1. ConsumedUpTo(r.records, Len(r.records)) + x.consumed + x.remaining = r.request.ceiling
    BY <1>2
  <2> QED
    BY <1>2, <2>1, AppendChain
<1> HIDE DEF next
<1>5. /\ next.request = r.request /\ next.resolution = r.resolution /\ next.policy = r.policy
      /\ next.records = Append(r.records, x) /\ next.total = total /\ next.phase = "sealing"
      /\ next.sealed = 0 /\ IsRun(next)
  BY <1>2, <1>3 DEF IsRun
<1>6. Last(next.records) = x
  BY <1>4, <1>5 DEF Last
<1>7. total <= r.request.ceiling
  BY <1>2 DEF EnvelopeOf
<1> QED
  BY <1>2, <1>4, <1>5, <1>6, <1>7 DEF next

\* A sequence whose last record is not one its policy would have retried.
LEMMA EndedStops ==
  ASSUME NEW r, RunSound(r), r.phase = "crossing",
         NEW x, x.index = Len(r.records) + 1, x.request = r.request, x.resolution = r.resolution,
         x.refs = r.records, x.consumed \in Nat, x.remaining \in Nat, OutcomeBuilds(x),
         "refs" \in DOMAIN x,
         NEW total \in Nat, total = r.total + x.consumed, total + x.remaining = r.request.ceiling,
         \/ x.kind \notin {"FAILED", "EXPIRED"} \/ x.class \notin r.policy.retryable
         \/ ~(Len(r.records) + 1 < r.policy.attempts) \/ x.remaining = 0
  PROVE  Continues(Ended(r, x, total), r)
<1> DEFINE next == Ended(r, x, total)
<1>1. /\ IsRun(next) /\ EnvelopeOf(next.request)
      /\ Chain(next.records, next.request, next.resolution)
      /\ next.total = total /\ next.total = ConsumedUpTo(next.records, Len(next.records))
      /\ total <= next.request.ceiling
      /\ next.phase = "sealing" /\ next.sealed = 0
      /\ Len(next.records) = Len(r.records) + 1 /\ Last(next.records) = x
      /\ next.policy = r.policy /\ next.request = r.request
  BY EndedSound
<1>2. Len(r.records) \in Nat /\ r.policy.attempts \in Nat
  BY SeqFacts DEF RunSound, Chain
<1> HIDE DEF next
<1>3. ~PrematurelyStopped(next.records, next.policy)
  <2>1. ~(x.remaining = 0 /\ x.remaining > 0)
    OBVIOUS
  <2> QED
    BY <1>1, <2>1 DEF PrematurelyStopped
<1>4. Stopped(next.records, next.policy) /\ next.sealed \in 0..Len(next.records) - 1
  BY <1>1, <1>2, <1>3 DEF Stopped
<1>5. next.total \in Nat /\ next.total <= next.request.ceiling
  BY <1>1
<1>6. RunSound(next)
  BY <1>1, <1>2, <1>4, <1>5 DEF RunSound
<1> QED
  BY <1>1, <1>6 DEF next, Continues

\* A failure is final, retried, or followed by the record of the spent budget.
LEMMA AfterFailureSound ==
  ASSUME NEW r, RunSound(r), r.phase = "crossing",
         NEW x, x.index = Len(r.records) + 1, x.request = r.request, x.resolution = r.resolution,
         x.refs = r.records, x.consumed \in Nat, x.remaining \in Nat, OutcomeBuilds(x),
         "refs" \in DOMAIN x,
         NEW total \in Nat, total = r.total + x.consumed, total + x.remaining = r.request.ceiling
  PROVE  Continues(AfterFailure(r, x, total), r)
<1> DEFINE next == Ended(r, x, total)
           d == Disposition(x.class, r.policy, x.index, total, r.request.ceiling)
<1>1. /\ IsRun(next) /\ EnvelopeOf(next.request)
      /\ Chain(next.records, next.request, next.resolution)
      /\ next.total = total /\ next.total = ConsumedUpTo(next.records, Len(next.records))
      /\ total <= next.request.ceiling
      /\ next.phase = "sealing" /\ next.sealed = 0
      /\ Len(next.records) = Len(r.records) + 1 /\ Last(next.records) = x
      /\ next.request = r.request /\ next.resolution = r.resolution
      /\ next.policy = r.policy
  BY EndedSound
<1>2. /\ Len(r.records) \in Nat /\ r.policy.attempts \in Nat
      /\ r.request.ceiling \in Nat
  BY SeqFacts DEF RunSound, Chain, EnvelopeOf
<1>3. d \in {"terminal", "retry", "exhausted_budget"}
  BY DEF Disposition
<1>4. CASE d = "terminal"
  <2>1. AfterFailure(r, x, total) = next
    BY <1>4 DEF AfterFailure
  <2>2. x.class \notin r.policy.retryable \/ ~(Len(r.records) + 1 < r.policy.attempts)
    BY <1>2, <1>4 DEF Disposition
  <2> HIDE DEF next, d
  <2>3. Continues(next, r)
    BY <2>2, EndedStops DEF next
  <2> QED
    BY <2>1, <2>3
<1>5. CASE d = "retry"
  <2>1. AfterFailure(r, x, total) = [next EXCEPT !.phase = "crossing"]
    BY <1>5 DEF AfterFailure
  <2>2. total < r.request.ceiling
    BY <1>5 DEF Disposition
  <2> HIDE DEF next, d
  <2> DEFINE again == [next EXCEPT !.phase = "crossing"]
  <2>3. again = [request |-> next.request, resolution |-> next.resolution, policy |-> next.policy,
                 records |-> next.records, total |-> next.total, phase |-> "crossing",
                 sealed |-> next.sealed]
    BY <1>1 DEF IsRun
  <2> HIDE DEF again
  <2>4. /\ again.request = next.request /\ again.resolution = next.resolution
        /\ again.policy = next.policy /\ again.records = next.records
        /\ again.total = next.total /\ again.phase = "crossing" /\ again.sealed = next.sealed
        /\ IsRun(again)
    BY <2>3 DEF IsRun
  <2>5. RunSound(again)
    BY <1>1, <1>2, <2>2, <2>4 DEF RunSound
  <2>6. Continues(again, r)
    BY <1>1, <2>4, <2>5 DEF Continues
  <2> QED
    BY <2>1, <2>6 DEF again
<1>6. CASE d = "exhausted_budget"
  <2> DEFINE spent == Sealed(next, "FAILED", "F3", None, None, 0, 0)
             more == Append(next.records, spent)
             end == [next EXCEPT !.records = Append(@, spent)]
  <2>1. AfterFailure(r, x, total) = end
    BY <1>6 DEF AfterFailure
  <2>2. ~(total < r.request.ceiling)
    BY <1>6 DEF Disposition
  <2> HIDE DEF next, d
  <2>3. total = r.request.ceiling
    BY <1>1, <1>2, <2>2
  <2>4. IsSeq(next.records) /\ Len(next.records) \in Nat
    BY <1>1, SeqFacts DEF Chain
  <2>5. /\ OutcomeBuilds(spent) /\ "refs" \in DOMAIN spent
        /\ spent.index = Len(next.records) + 1 /\ spent.request = next.request
        /\ spent.resolution = next.resolution /\ spent.refs = next.records
        /\ spent.consumed = 0 /\ spent.remaining = 0
    <3>1. "F3" \in FAILURE_CLASSES \ {"F7"}
      BY DEF FAILURE_CLASSES
    <3> QED
      BY <2>4, <3>1, SealedBuilds
  <2> HIDE DEF spent
  <2>6. /\ Chain(more, next.request, next.resolution)
        /\ Len(more) = Len(next.records) + 1
        /\ more[Len(next.records) + 1] = spent
        /\ ConsumedUpTo(more, Len(next.records) + 1)
             = ConsumedUpTo(next.records, Len(next.records)) + spent.consumed
    <3>1. ConsumedUpTo(next.records, Len(next.records)) + spent.consumed + spent.remaining
            = next.request.ceiling
      BY <1>1, <1>2, <2>3, <2>5
    <3>2. spent.consumed \in Nat /\ spent.remaining \in Nat
      BY <2>5
    <3>3. PICK rs : rs = next.records
      OBVIOUS
    <3>4. Chain(rs, next.request, next.resolution)
      BY <1>1, <3>3
    <3>5. /\ spent.index = Len(rs) + 1 /\ spent.request = next.request
          /\ spent.resolution = next.resolution /\ spent.refs = rs
          /\ ConsumedUpTo(rs, Len(rs)) + spent.consumed + spent.remaining = next.request.ceiling
          /\ OutcomeBuilds(spent) /\ "refs" \in DOMAIN spent
      BY <2>5, <3>1, <3>3
    <3>6. /\ Chain(Append(rs, spent), next.request, next.resolution)
          /\ Len(Append(rs, spent)) = Len(rs) + 1
          /\ Append(rs, spent)[Len(rs) + 1] = spent
          /\ ConsumedUpTo(Append(rs, spent), Len(rs) + 1)
               = ConsumedUpTo(rs, Len(rs)) + spent.consumed
      BY <3>2, <3>4, <3>5, AppendChain
    <3> QED
      BY <3>3, <3>6
  <2> HIDE DEF more
  <2>7. end = [request |-> next.request, resolution |-> next.resolution, policy |-> next.policy,
               records |-> more, total |-> next.total, phase |-> next.phase,
               sealed |-> next.sealed]
    <3>1. end = [next EXCEPT !.records = more]
      BY DEF more
    <3> HIDE DEF end, more
    <3> QED
      BY <1>1, <3>1 DEF IsRun
  <2> HIDE DEF end
  <2>8. /\ end.request = next.request /\ end.resolution = next.resolution
        /\ end.policy = next.policy /\ end.records = more
        /\ end.total = next.total /\ end.phase = "sealing" /\ end.sealed = 0
        /\ IsRun(end)
    BY <1>1, <2>7 DEF IsRun
  <2>9. ConsumedUpTo(more, Len(more)) = total
    BY <1>1, <1>2, <2>5, <2>6
  <2>10. Stopped(more, next.policy)
    <3>1. Last(more) = spent /\ Len(more) >= 1
      BY <2>4, <2>6 DEF Last
    <3>2. ~(spent.remaining > 0)
      BY <2>5
    <3> QED
      BY <3>1, <3>2 DEF Stopped, PrematurelyStopped
  <2>11. 0 \in 0..Len(more) - 1
    BY <2>4, <2>6
  <2>12. RunSound(end)
    BY <1>1, <1>2, <2>3, <2>6, <2>8, <2>9, <2>10, <2>11 DEF RunSound
  <2>13. Continues(end, r)
    BY <1>1, <2>8, <2>12 DEF Continues
  <2> QED
    BY <2>1, <2>13
<1> HIDE DEF d
<1> QED
  BY <1>3, <1>4, <1>5, <1>6

\* What an attempt is charged never exceeds the envelope.
LEMMA ChargedFacts ==
  ASSUME NEW total \in Nat, NEW ceiling \in Nat, total < ceiling, NEW consumed \in Nat
  PROVE  /\ Charged(consumed, total, ceiling) \in Nat
         /\ total + consumed > ceiling => total + Charged(consumed, total, ceiling) = ceiling
         /\ ~(total + consumed > ceiling) => Charged(consumed, total, ceiling) = consumed
<1> DEFINE S == {ceiling - total, 0}
<1>1. \E m \in S : \A n \in S : n <= m
  BY DEF S
<1>2. Max(S) \in S /\ \A n \in S : n <= Max(S)
  BY <1>1 DEF Max
<1>3. Max(S) = ceiling - total
  BY <1>2
<1>4. Charged(consumed, total, ceiling)
        = IF total + consumed > ceiling THEN Max(S) ELSE consumed
  BY DEF Charged
<1> HIDE DEF S
<1> QED
  BY <1>3, <1>4

LEMMA CrossedSound ==
  ASSUME NEW r, RunSound(r), r.phase = "crossing",
         NEW ret, WellFormed(ret), ret.consumed \in Int, ret.conforms \in BOOLEAN
  PROVE  Continues(Crossed(r, ret), r)
<1> DEFINE ceiling == r.request.ceiling
           charged == Charged(ret.consumed, r.total, ceiling)
           overdraft == r.total + ret.consumed > ceiling
           total == IF overdraft THEN ceiling ELSE r.total + ret.consumed
           left == ceiling - total
           seal(kind, class, origin, output) == Sealed(r, kind, class, origin, output, charged, left)
<1>1. /\ ceiling \in Nat /\ r.total \in Nat /\ r.total < ceiling
      /\ IsSeq(r.records) /\ Len(r.records) \in Nat
  BY SeqFacts DEF RunSound, EnvelopeOf, Chain
<1>2. ret.consumed \in Nat
  BY DEF WellFormed
<1>3. /\ charged \in Nat /\ total \in Nat /\ left \in Nat
      /\ total = r.total + charged /\ total + left = ceiling
      /\ overdraft => left = 0
  <2>1. /\ charged \in Nat
        /\ overdraft => r.total + charged = ceiling
        /\ ~overdraft => charged = ret.consumed
    <3>1. PICK t \in Nat : t = r.total
      BY <1>1
    <3>2. PICK c \in Nat : c = ceiling
      BY <1>1
    <3>3. PICK n \in Nat : n = ret.consumed
      BY <1>2
    <3>4. t < c
      BY <1>1, <3>1, <3>2
    <3>5. /\ Charged(n, t, c) \in Nat
          /\ t + n > c => t + Charged(n, t, c) = c
          /\ ~(t + n > c) => Charged(n, t, c) = n
      BY <3>4, ChargedFacts
    <3> QED
      BY <3>1, <3>2, <3>3, <3>5
  <2>2. CASE overdraft
    <3>1. total = ceiling /\ left = ceiling - total
      BY <2>2
    <3>2. r.total + charged = ceiling /\ charged \in Nat
      BY <2>1, <2>2
    <3> HIDE DEF charged, total, left, overdraft
    <3>3. PICK c \in Nat : c = ceiling
      BY <1>1
    <3>4. total = c /\ left = c - c
      BY <3>1, <3>3
    <3>5. left = 0
      BY <3>4
    <3>6. total \in Nat /\ left \in Nat
      BY <3>4, <3>5
    <3>7. total = r.total + charged
      BY <3>2, <3>3, <3>4
    <3>8. total + left = ceiling
      BY <3>3, <3>4, <3>5
    <3> QED
      BY <3>2, <3>5, <3>6, <3>7, <3>8
  <2>3. CASE ~overdraft
    <3>1. /\ total = r.total + ret.consumed /\ left = ceiling - total
          /\ ~(r.total + ret.consumed > ceiling)
      BY <2>3
    <3> HIDE DEF charged, overdraft, total, left
    <3> QED
      BY <1>1, <1>2, <2>1, <2>3, <3>1
  <2> QED
    BY <2>2, <2>3
<1>4. Crossed(r, ret) =
        CASE ret.kind = "cancelled" -> Ended(r, seal("CANCELLED", None, ret.origin, None), total)
          [] ret.kind # "cancelled" /\ overdraft ->
               Ended(r, Sealed(r, "FAILED", "F3", None, None, charged, 0), total)
          [] OTHER ->
               CASE ret.kind = "returned" /\ ret.conforms ->
                      Ended(r, seal("RETURNED", None, None, ret.output), total)
                 [] ret.kind = "returned" /\ ~ret.conforms ->
                      AfterFailure(r, seal("FAILED", "F8", None, None), total)
                 [] ret.kind = "failed"  -> AfterFailure(r, seal("FAILED", ret.class, None, None), total)
                 [] ret.kind = "expired" -> AfterFailure(r, seal("EXPIRED", "F7", None, None), total)
  BY DEF Crossed
<1> HIDE DEF charged, overdraft, total, left
<1>5. charged \in Nat /\ left \in Nat /\ IsSeq(r.records)
  BY <1>1, <1>3
<1>6. CASE ret.kind = "cancelled"
  <2> DEFINE x == seal("CANCELLED", None, ret.origin, None)
  <2>1. ret.origin \in CANCELLATION_ORIGINS
    BY <1>6 DEF WellFormed
  <2>2. /\ OutcomeBuilds(x) /\ "refs" \in DOMAIN x
        /\ x.index = Len(r.records) + 1 /\ x.request = r.request
        /\ x.resolution = r.resolution /\ x.refs = r.records
        /\ x.consumed = charged /\ x.remaining = left /\ x.kind = "CANCELLED"
    BY <1>5, <2>1, SealedBuilds
  <2>3. Crossed(r, ret) = Ended(r, x, total)
    BY <1>4, <1>6
  <2> HIDE DEF x
  <2>4. /\ x.consumed \in Nat /\ x.remaining \in Nat /\ total \in Nat
        /\ total = r.total + x.consumed /\ total + x.remaining = r.request.ceiling
    BY <1>3, <2>2
  <2>5. x.kind \notin {"FAILED", "EXPIRED"}
    BY <2>2
  <2>6. Continues(Ended(r, x, total), r)
    BY <2>2, <2>4, <2>5, EndedStops
  <2> QED
    BY <2>3, <2>6
<1>7. CASE ret.kind # "cancelled" /\ overdraft
  <2> DEFINE x == Sealed(r, "FAILED", "F3", None, None, charged, 0)
  <2>1. "F3" \in FAILURE_CLASSES \ {"F7"}
    BY DEF FAILURE_CLASSES
  <2>2. /\ OutcomeBuilds(x) /\ "refs" \in DOMAIN x
        /\ x.index = Len(r.records) + 1 /\ x.request = r.request
        /\ x.resolution = r.resolution /\ x.refs = r.records
        /\ x.consumed = charged /\ x.remaining = 0
    BY <1>5, <2>1, SealedBuilds
  <2>3. Crossed(r, ret) = Ended(r, x, total)
    BY <1>4, <1>7
  <2> HIDE DEF x
  <2>4. total + x.remaining = r.request.ceiling
    BY <1>3, <1>7, <2>2
  <2> QED
    BY <1>3, <2>2, <2>3, <2>4, EndedStops
<1>8. CASE ret.kind # "cancelled" /\ ~overdraft
  <2>1. CASE ret.kind = "returned" /\ ret.conforms
    <3> DEFINE x == seal("RETURNED", None, None, ret.output)
    <3>1. /\ OutcomeBuilds(x) /\ "refs" \in DOMAIN x
          /\ x.index = Len(r.records) + 1 /\ x.request = r.request
          /\ x.resolution = r.resolution /\ x.refs = r.records
          /\ x.consumed = charged /\ x.remaining = left /\ x.kind = "RETURNED"
      BY <1>5, SealedBuilds
    <3>2. Crossed(r, ret) = Ended(r, x, total)
      BY <1>4, <1>8, <2>1
    <3> HIDE DEF x
    <3>3. /\ x.consumed \in Nat /\ x.remaining \in Nat /\ total \in Nat
          /\ total = r.total + x.consumed /\ total + x.remaining = r.request.ceiling
      BY <1>3, <3>1
    <3>4. x.kind \notin {"FAILED", "EXPIRED"}
      BY <3>1
    <3>5. Continues(Ended(r, x, total), r)
      BY <3>1, <3>3, <3>4, EndedStops
    <3> QED
      BY <3>2, <3>5
  <2>2. CASE ret.kind = "returned" /\ ~ret.conforms
    <3> DEFINE x == seal("FAILED", "F8", None, None)
    <3>1. "F8" \in FAILURE_CLASSES \ {"F7"}
      BY DEF FAILURE_CLASSES
    <3>2. /\ OutcomeBuilds(x) /\ "refs" \in DOMAIN x
          /\ x.index = Len(r.records) + 1 /\ x.request = r.request
          /\ x.resolution = r.resolution /\ x.refs = r.records
          /\ x.consumed = charged /\ x.remaining = left
      BY <1>5, <3>1, SealedBuilds
    <3>3. Crossed(r, ret) = AfterFailure(r, x, total)
      BY <1>4, <1>8, <2>2
    <3> HIDE DEF x
    <3>4. /\ x.consumed \in Nat /\ x.remaining \in Nat /\ total \in Nat
          /\ total = r.total + x.consumed /\ total + x.remaining = r.request.ceiling
      BY <1>3, <3>2
    <3>5. Continues(AfterFailure(r, x, total), r)
      BY <3>2, <3>4, AfterFailureSound
    <3> QED
      BY <3>3, <3>5
  <2>3. CASE ret.kind = "failed"
    <3> DEFINE x == seal("FAILED", ret.class, None, None)
    <3>1. ret.class \in FAILURE_CLASSES \ {"F7"}
      BY <2>3 DEF WellFormed
    <3>2. /\ OutcomeBuilds(x) /\ "refs" \in DOMAIN x
          /\ x.index = Len(r.records) + 1 /\ x.request = r.request
          /\ x.resolution = r.resolution /\ x.refs = r.records
          /\ x.consumed = charged /\ x.remaining = left
      BY <1>5, <3>1, SealedBuilds
    <3>3. Crossed(r, ret) = AfterFailure(r, x, total)
      BY <1>4, <1>8, <2>3
    <3> HIDE DEF x
    <3>4. /\ x.consumed \in Nat /\ x.remaining \in Nat /\ total \in Nat
          /\ total = r.total + x.consumed /\ total + x.remaining = r.request.ceiling
      BY <1>3, <3>2
    <3>5. Continues(AfterFailure(r, x, total), r)
      BY <3>2, <3>4, AfterFailureSound
    <3> QED
      BY <3>3, <3>5
  <2>4. CASE ret.kind = "expired"
    <3> DEFINE x == seal("EXPIRED", "F7", None, None)
    <3>1. /\ OutcomeBuilds(x) /\ "refs" \in DOMAIN x
          /\ x.index = Len(r.records) + 1 /\ x.request = r.request
          /\ x.resolution = r.resolution /\ x.refs = r.records
          /\ x.consumed = charged /\ x.remaining = left
      BY <1>5, SealedBuilds
    <3>2. Crossed(r, ret) = AfterFailure(r, x, total)
      BY <1>4, <1>8, <2>4
    <3> HIDE DEF x
    <3>3. /\ x.consumed \in Nat /\ x.remaining \in Nat /\ total \in Nat
          /\ total = r.total + x.consumed /\ total + x.remaining = r.request.ceiling
      BY <1>3, <3>1
    <3>4. Continues(AfterFailure(r, x, total), r)
      BY <3>1, <3>3, AfterFailureSound
    <3> QED
      BY <3>2, <3>4
  <2>5. ret.kind \in {"returned", "failed", "expired", "cancelled"} /\ ret.conforms \in BOOLEAN
    BY DEF WellFormed
  <2> QED
    BY <1>8, <2>1, <2>2, <2>3, <2>4, <2>5
<1> QED
  BY <1>6, <1>7, <1>8

\* An invocation that starts, or is refused with the record that says so.
LEMMA StartedSound ==
  ASSUME NEW request, EnvelopeOf(request), NEW resolution, NEW policy, policy.attempts \in Nat
  PROVE  LET r == Started(request, resolution, policy)
         IN  RunSound(r) /\ r.sealed = 0 /\ r.request = request
<1> DEFINE first == [request |-> request, resolution |-> resolution, policy |-> policy,
                     records |-> << >>, total |-> 0, phase |-> "crossing", sealed |-> 0]
           x == Sealed(first, "FAILED", "F6", None, None, 0, request.ceiling)
           r == Started(request, resolution, policy)
<1>1. r = IF Initiates(request, resolution) THEN first
          ELSE [first EXCEPT !.phase = "sealing", !.records = <<x>>]
  BY DEF Started
<1>2. /\ first.request = request /\ first.resolution = resolution /\ first.policy = policy
      /\ first.records = << >> /\ first.total = 0 /\ first.phase = "crossing" /\ first.sealed = 0
      /\ IsRun(first)
  BY DEF IsRun
<1>3. request.ceiling \in Nat /\ request.ceiling > 0 /\ Len(<<>>) = 0 /\ IsSeq(<<>>)
  BY EmptyIsSeq DEF EnvelopeOf
<1>4. CASE Initiates(request, resolution)
  <2>1. r = first
    BY <1>1, <1>4
  <2> HIDE DEF first, r
  <2>2. /\ Chain(first.records, first.request, first.resolution)
        /\ ConsumedUpTo(first.records, Len(first.records)) = 0
    BY <1>2, <1>3, EmptyChain, NothingConsumed
  <2>3. RunSound(first)
    BY <1>2, <1>3, <2>2 DEF RunSound
  <2> QED
    BY <1>2, <2>1, <2>3 DEF r
<1>5. CASE ~Initiates(request, resolution)
  <2>1. r = [request |-> request, resolution |-> resolution, policy |-> policy,
             records |-> <<x>>, total |-> 0, phase |-> "sealing", sealed |-> 0]
    BY <1>1, <1>5
  <2>2. /\ r.request = request /\ r.resolution = resolution /\ r.policy = policy
        /\ r.records = <<x>> /\ r.total = 0 /\ r.phase = "sealing" /\ r.sealed = 0
        /\ IsRun(r)
    BY <2>1 DEF IsRun
  <2> HIDE DEF r, first
  <2>3. "F6" \in FAILURE_CLASSES \ {"F7"}
    BY DEF FAILURE_CLASSES
  <2>4. /\ OutcomeBuilds(x) /\ "refs" \in DOMAIN x
        /\ x.index = Len(first.records) + 1 /\ x.request = first.request
        /\ x.resolution = first.resolution /\ x.refs = first.records
        /\ x.consumed = 0 /\ x.remaining = request.ceiling /\ x.class = "F6"
    BY <1>2, <1>3, <2>3, SealedBuilds
  <2> HIDE DEF x
  <2>5. Chain(<<>>, request, resolution) /\ ConsumedUpTo(<<>>, Len(<<>>)) = 0
    BY <1>3, EmptyChain, NothingConsumed
  <2>6. x.consumed \in Nat /\ x.remaining \in Nat
        /\ ConsumedUpTo(<<>>, Len(<<>>)) + x.consumed + x.remaining = request.ceiling
    BY <1>3, <2>4, <2>5
  <2>7. /\ Chain(Append(<<>>, x), request, resolution)
        /\ Len(Append(<<>>, x)) = Len(<<>>) + 1
        /\ Append(<<>>, x)[Len(<<>>) + 1] = x
        /\ ConsumedUpTo(Append(<<>>, x), Len(<<>>) + 1)
             = ConsumedUpTo(<<>>, Len(<<>>)) + x.consumed
    <3>1. PICK rs : rs = <<>>
      OBVIOUS
    <3>2. Chain(rs, request, resolution)
      BY <2>5, <3>1
    <3>3. /\ x.index = Len(rs) + 1 /\ x.request = request
          /\ x.resolution = resolution /\ x.refs = rs
          /\ ConsumedUpTo(rs, Len(rs)) + x.consumed + x.remaining = request.ceiling
          /\ OutcomeBuilds(x) /\ "refs" \in DOMAIN x
      BY <1>2, <2>4, <2>6, <3>1
    <3>4. /\ Chain(Append(rs, x), request, resolution)
          /\ Len(Append(rs, x)) = Len(rs) + 1
          /\ Append(rs, x)[Len(rs) + 1] = x
          /\ ConsumedUpTo(Append(rs, x), Len(rs) + 1) = ConsumedUpTo(rs, Len(rs)) + x.consumed
      BY <2>6, <3>2, <3>3, AppendChain
    <3> QED
      BY <3>1, <3>4
  <2>8. Append(<<>>, x) = <<x>>
    OBVIOUS
  <2>9. /\ Chain(<<x>>, request, resolution) /\ Len(<<x>>) = 1 /\ <<x>>[1] = x
        /\ ConsumedUpTo(<<x>>, 1) = 0
    BY <1>3, <2>4, <2>5, <2>7, <2>8
  <2>10. Stopped(<<x>>, policy)
    <3>1. InitiationRefused(<<x>>)
      BY <1>2, <1>5, <2>4, <2>9 DEF InitiationRefused
    <3> QED
      BY <2>9, <3>1 DEF Stopped
  <2>11. RunSound(r)
    <3>1. /\ r.total \in Nat /\ r.total = ConsumedUpTo(r.records, Len(r.records))
          /\ r.total <= r.request.ceiling /\ r.sealed \in 0..Len(r.records) - 1
      BY <1>3, <2>2, <2>9
    <3> QED
      BY <2>2, <2>9, <2>10, <3>1 DEF RunSound
  <2> QED
    BY <2>2, <2>11 DEF r
<1> QED
  BY <1>4, <1>5

-----------------------------------------------------------------------------
(* The invariant.                                                          *)

\* A decision that is on the bus and in storage.
Recorded(d, st, pub) ==
  "refs" \notin DOMAIN d /\ d \in st /\ DecidedEvent(d) \in pub

\* A request prepared from an approved decision.
Approved(q, st, pub) ==
  /\ EnvelopeOf(q)
  /\ q.coords.decision.outcome = "REASONING_APPROVED"
  /\ Recorded(q.coords.decision, st, pub)

\* ResolutionSound, of one resolution and a history.
Resolved(r, h) ==
  /\ r.version \in 0..Len(h) - 1
  /\ r.provider \in CandidateSet(h[r.version + 1].rows, r.request.capability, r.request.rung)
  /\ h[r.version + 1].caps[r.request.capability].lifecycle \in Matchable
  /\ Eligible(h[r.version + 1].rows[r.provider], r.request.demands,
              DeriveSizeClass(ContextBytes(r.request.context)))

\* A record is in storage and its events are out.
Sealing(x, st, pub) == x \in st /\ Derived(x) \subseteq pub

RunInv(r, st, pub) ==
  /\ RunSound(r) /\ Approved(r.request, st, pub)
  /\ \A i \in 1..r.sealed : Sealing(r.records[i], st, pub)

FinishedSound(f, st, pub) ==
  /\ Approved(f.records[1].request, st, pub)
  /\ Chain(f.records, f.records[1].request, f.records[1].resolution)
  /\ Stopped(f.records, f.policy) /\ f.policy.attempts \in Nat
  /\ \A i \in 1..Len(f.records) : Sealing(f.records[i], st, pub)
  /\ f.handoff = Handoff(Last(f.records))

\* What the constituents of a composite have been charged, out of what their
\* envelopes drew from the parent.
SpentBy(finals) == Total([i \in DOMAIN finals |-> Spent(finals[i])])

CompositeSound(c, r) ==
  /\ c = [plan |-> c.plan, drawn |-> c.drawn, finals |-> c.finals]
  /\ c.plan \in Plans /\ IsSeq(c.finals) /\ c.drawn \in Int /\ SpentBy(c.finals) \in Int
  /\ c.drawn <= c.plan.parent /\ SpentBy(c.finals) <= c.drawn
  /\ r # None => SpentBy(c.finals) + r.request.ceiling <= c.drawn

\* Nothing is on the bus but the events of its records.
Genuine(e) ==
  IF "refs" \in DOMAIN e[2] THEN e \in Derived(e[2]) ELSE e = DecidedEvent(e[2])

LogsSound(st, pub) ==
  /\ \A x \in st : "refs" \in DOMAIN x => Range(x.refs) \subseteq st /\ Derived(x) \subseteq pub
  /\ \A e \in pub : Genuine(e)

IInv ==
  /\ HistSound(hist)
  /\ \A d \in decisions : Recorded(d, stored, published)
  /\ \A r \in prepared : Approved(r.request, stored, published) /\ Resolved(r, hist)
  /\ run # None => RunInv(run, stored, published)
  /\ \A f \in finished : FinishedSound(f, stored, published)
  /\ composite # None => CompositeSound(composite, run)
  /\ LogsSound(stored, published)

\* The prefixes of the logs keep what was said of them.
LEMMA LogsGrow ==
  ASSUME NEW st, NEW pub, NEW st2, NEW pub2, st \subseteq st2, pub \subseteq pub2
  PROVE  /\ \A d : Recorded(d, st, pub) => Recorded(d, st2, pub2)
         /\ \A q : Approved(q, st, pub) => Approved(q, st2, pub2)
         /\ \A r : RunInv(r, st, pub) => RunInv(r, st2, pub2)
         /\ \A f : FinishedSound(f, st, pub) => FinishedSound(f, st2, pub2)
<1>1. \A d : Recorded(d, st, pub) => Recorded(d, st2, pub2)
  BY DEF Recorded
<1>2. \A q : Approved(q, st, pub) => Approved(q, st2, pub2)
  BY <1>1 DEF Approved
<1>3. \A x : Sealing(x, st, pub) => Sealing(x, st2, pub2)
  BY DEF Sealing
<1>4. \A r : RunInv(r, st, pub) => RunInv(r, st2, pub2)
  BY <1>2, <1>3 DEF RunInv
<1>5. \A f : FinishedSound(f, st, pub) => FinishedSound(f, st2, pub2)
  BY <1>2, <1>3 DEF FinishedSound
<1> QED
  BY <1>1, <1>2, <1>4, <1>5

\* A version that exists never changes.
LEMMA ResolvedStays ==
  ASSUME NEW h, NEW g, Len(h) \in Nat, Len(g) \in Nat, Len(h) <= Len(g),
         \A i \in 1..Len(h) : g[i] = h[i], NEW r, Resolved(r, h)
  PROVE  Resolved(r, g)
<1>1. r.version \in 0..Len(h) - 1
  BY DEF Resolved
<1>2. r.version + 1 \in 1..Len(h) /\ r.version \in 0..Len(g) - 1
  BY <1>1
<1>3. g[r.version + 1] = h[r.version + 1]
  BY <1>2
<1> QED
  BY <1>2, <1>3 DEF Resolved

LEMMA InitIInv == Init => IInv
<1> SUFFICES ASSUME Init PROVE IInv
  OBVIOUS
<1>1. HistSound(hist)
  BY InjectedHistSound DEF Init
<1>2. LogsSound(stored, published)
  BY DEF Init, LogsSound
<1> QED
  BY <1>1, <1>2 DEF Init, IInv

\* Reference data: the versions grow by one sound space.
LEMMA ApplyMutationIInv == ASSUME IInv, ApplyMutation PROVE IInv'
<1>1. PICK m \in Mutations : \E next \in Admit(space, m) : hist' = Append(hist, next)
  BY DEF ApplyMutation
<1>0. PICK next \in Admit(space, m) : hist' = Append(hist, next)
  BY <1>1
<1>2. HistSound(hist) /\ Len(hist) \in Nat /\ space = hist[Len(hist)]
  BY SeqFacts DEF IInv, HistSound, space, Last
<1>3. /\ HistSound(hist') /\ Len(hist') = Len(hist) + 1
      /\ \A i \in 1..Len(hist) : hist'[i] = hist[i]
  BY <1>0, <1>2, AdmittedHistSound
<1>4. \A r \in prepared : Resolved(r, hist')
  BY <1>2, <1>3, ResolvedStays DEF IInv
<1>5. UNCHANGED <<decisions, prepared, run, composite, finished, stored, published>>
  BY DEF ApplyMutation
<1> QED
  BY <1>3, <1>4, <1>5 DEF IInv

\* The decision is announced before it is stored; only a stored one is returned.
LEMMA GovernIInv == ASSUME IInv, Govern PROVE IInv'
<1>1. PICK inputs \in SealedInputs :
        LET d == Decide([inputs EXCEPT !.capability = CapabilityOf(inputs.demand.capability),
                                       !.priors = priors])
        IN  /\ published' = published \cup {DecidedEvent(d)}
            /\ \/ Write(d) /\ decisions' = decisions \cup {d}
               \/ UNCHANGED <<stored, decisions>>
  BY DEF Govern
<1>2. PICK s : s = [inputs EXCEPT !.capability = CapabilityOf(inputs.demand.capability),
                                  !.priors = priors]
  OBVIOUS
<1>3. PICK d : d = Decide(s)
  OBVIOUS
<1>4. /\ published' = published \cup {DecidedEvent(d)}
      /\ \/ stored' = stored \cup {d} /\ decisions' = decisions \cup {d}
         \/ UNCHANGED <<stored, decisions>>
  BY <1>1, <1>2, <1>3 DEF Write
<1>5. "refs" \notin DOMAIN d
  BY <1>3 DEF Decide
<1>6. UNCHANGED <<hist, prepared, run, composite, finished>>
  BY DEF Govern
<1>7. stored \subseteq stored' /\ published \subseteq published'
  BY <1>4
<1>8. \A x \in decisions' : Recorded(x, stored', published')
  <2>1. ASSUME NEW x \in decisions' PROVE Recorded(x, stored', published')
    <3>1. CASE x \in decisions
      BY <1>7, <3>1, LogsGrow DEF IInv
    <3>2. CASE x \notin decisions
      BY <1>4, <1>5, <2>1, <3>2 DEF Recorded
    <3> QED
      BY <3>1, <3>2
  <2> QED
    BY <2>1
<1>9. LogsSound(stored', published')
  <2>1. Genuine(DecidedEvent(d))
    BY <1>5 DEF Genuine, DecidedEvent
  <2> QED
    BY <1>4, <1>5, <1>7, <2>1 DEF IInv, LogsSound
<1>10. /\ \A r \in prepared : Approved(r.request, stored', published')
       /\ run # None => RunInv(run, stored', published')
       /\ \A f \in finished : FinishedSound(f, stored', published')
  BY <1>7, LogsGrow DEF IInv
<1> QED
  BY <1>6, <1>8, <1>9, <1>10 DEF IInv

\* A selected provider is one of the candidates, and meets the demands; a row
\* claims only what can be matched.
LEMMA SelectedResolves ==
  ASSUME NEW h, HistSound(h), NEW rows, NEW q, NEW policyVersion, NEW rank,
         DOMAIN rows \subseteq DOMAIN h[Len(h)].rows,
         \A p \in DOMAIN rows : rows[p] = h[Len(h)].rows[p],
         NEW r \in Resolutions(q, rows, Len(h) - 1, policyVersion, rank)
  PROVE  r.request = q /\ Resolved(r, h)
<1>1. PICK p \in SelectProvider(rows, q.capability, q.rung, q.demands,
                                DeriveSizeClass(ContextBytes(q.context)), rank) :
        r = [provider |-> p, version |-> Len(h) - 1, policy |-> policyVersion,
             coords |-> q.coords, request |-> q]
  BY DEF Resolutions
<1>2. r.request = q /\ r.provider = p /\ r.version = Len(h) - 1
  BY <1>1
<1>3. /\ p \in CandidateSet(rows, q.capability, q.rung)
      /\ Eligible(rows[p], q.demands, DeriveSizeClass(ContextBytes(q.context)))
  BY <1>1 DEF SelectProvider
<1>4. Len(h) \in Nat /\ Len(h) >= 1 /\ SpaceSound(h[Len(h)])
  BY SeqFacts DEF HistSound
<1>5. (Len(h) - 1) + 1 = Len(h) /\ Len(h) - 1 \in 0..Len(h) - 1
  BY <1>4
<1> DEFINE s == h[Len(h)]
<1>6. /\ p \in DOMAIN s.rows /\ s.rows[p] = rows[p]
      /\ q.capability \in DOMAIN rows[p].claims /\ q.rung \in rows[p].claims[q.capability]
  BY <1>3 DEF CandidateSet
<1>7. p \in CandidateSet(s.rows, q.capability, q.rung)
  BY <1>6 DEF CandidateSet
<1>8. s.caps[q.capability].lifecycle \in Matchable
  BY <1>4, <1>6 DEF SpaceSound, ClaimsValid
<1>9. Resolved(r, h)
  BY <1>2, <1>3, <1>5, <1>6, <1>7, <1>8 DEF Resolved
<1> QED
  BY <1>2, <1>9

LEMMA PrepareRequestIInv == ASSUME IInv, PrepareRequest PROVE IInv'
<1>1. PICK d \in decisions, task \in Tasks :
        /\ d.outcome = "REASONING_APPROVED" /\ Preparable(d, task, space, schemas)
        /\ \E r \in Resolutions(Request(d, task, space, Version, PolicyVersion, priors),
                                space.rows, Version, PolicyVersion, Rank) :
             prepared' = prepared \cup {r}
  BY DEF PrepareRequest
<1>2. PICK q : q = Request(d, task, space, Version, PolicyVersion, priors)
  OBVIOUS
<1>3. PICK r \in Resolutions(q, space.rows, Version, PolicyVersion, Rank) :
        prepared' = prepared \cup {r}
  BY <1>1, <1>2
<1>4. q.coords.decision = d /\ q.ceiling = task.ceiling
  BY <1>2 DEF Request
<1>5. EnvelopeOf(q)
  <2>1. task.ceiling > 0
    BY <1>1 DEF Preparable, Allocates
  <2>2. task.ceiling \in Int
    BY BudgetsBuild
  <2> QED
    BY <1>4, <2>1, <2>2 DEF EnvelopeOf
<1>6. Approved(q, stored, published)
  BY <1>1, <1>4, <1>5 DEF Approved, IInv
<1>7. HistSound(hist) /\ space = hist[Len(hist)] /\ Version = Len(hist) - 1
  BY DEF IInv, space, Last, Version
<1>8. r.request = q /\ Resolved(r, hist)
  <2>1. r \in Resolutions(q, hist[Len(hist)].rows, Len(hist) - 1, PolicyVersion, Rank)
    BY <1>7
  <2> QED
    BY <1>7, <2>1, SelectedResolves
<1>9. UNCHANGED <<hist, decisions, run, composite, finished, stored, published>>
  BY DEF PrepareRequest
<1> QED
  BY <1>3, <1>6, <1>8, <1>9 DEF IInv

\* The last record of a sequence is of the same request as its first.
LEMMA FinalFacts ==
  ASSUME NEW records, NEW request, NEW resolution, Chain(records, request, resolution),
         Len(records) >= 1
  PROVE  /\ Len(records) \in Nat /\ Last(records) = records[Len(records)]
         /\ Last(records).request = request /\ records[1].request = request
         /\ records[1].resolution = resolution
         /\ Last(records).remaining \in Nat
         /\ ConsumedUpTo(records, Len(records)) + Last(records).remaining = request.ceiling
<1>1. Len(records) \in Nat /\ Last(records) = records[Len(records)]
  BY SeqFacts DEF Chain, Last
<1>2. 1 \in 1..Len(records) /\ Len(records) \in 1..Len(records)
  BY <1>1
<1> QED
  BY <1>1, <1>2 DEF Chain

LEMMA SubstituteIInv == ASSUME IInv, Substitute PROVE IInv'
<1>1. PICK f \in finished :
        \E r \in Substitutes(Last(f.records).request, Last(f.records).resolution, f.policy,
                             Last(f.records).class, space.rows, Version, Rank) :
          prepared' = prepared \cup {r}
  BY DEF Substitute
<1>2. FinishedSound(f, stored, published)
  BY DEF IInv
<1>3. PICK q : q = Last(f.records).request
  OBVIOUS
<1>4. q = f.records[1].request /\ Approved(q, stored, published)
  <2>1. Len(f.records) >= 1
    BY <1>2 DEF FinishedSound, Stopped
  <2> QED
    BY <1>2, <1>3, <2>1, FinalFacts DEF FinishedSound
<1>5. PICK failed : failed = Last(f.records).resolution
  OBVIOUS
<1>6. PICK r \in Resolutions(q, Without(space.rows, failed.provider), Version, failed.policy, Rank) :
        prepared' = prepared \cup {r}
  BY <1>1, <1>3, <1>5 DEF Substitutes
<1>7. HistSound(hist) /\ space = hist[Len(hist)] /\ Version = Len(hist) - 1
  BY DEF IInv, space, Last, Version
<1>8. r.request = q /\ Resolved(r, hist)
  <2>1. PICK rows : rows = Without(space.rows, failed.provider)
    OBVIOUS
  <2>2. /\ DOMAIN rows \subseteq DOMAIN hist[Len(hist)].rows
        /\ \A p \in DOMAIN rows : rows[p] = hist[Len(hist)].rows[p]
    BY <1>7, <2>1 DEF Without
  <2>3. r \in Resolutions(q, rows, Len(hist) - 1, failed.policy, Rank)
    BY <1>6, <1>7, <2>1
  <2> QED
    BY <1>7, <2>2, <2>3, SelectedResolves
<1>9. UNCHANGED <<hist, decisions, run, composite, finished, stored, published>>
  BY DEF Substitute
<1> QED
  BY <1>4, <1>6, <1>8, <1>9 DEF IInv

\* An invocation that starts has an approved request and nothing sealed.
LEMMA StartedInv ==
  ASSUME IInv, NEW p \in prepared, NEW q, NEW policy \in Policies
  PROVE  LET r == Started(p.request, q, policy)
         IN  RunInv(r, stored, published) /\ r.request = p.request
<1> DEFINE r == Started(p.request, q, policy)
<1>1. Approved(p.request, stored, published) /\ EnvelopeOf(p.request)
  BY DEF IInv, Approved
<1>2. policy.attempts \in Nat
  BY InputsBuild DEF ExecutionPolicyBuilds
<1>3. RunSound(r) /\ r.sealed = 0 /\ r.request = p.request
  BY <1>1, <1>2, StartedSound
<1> HIDE DEF r
<1>4. \A i \in 1..r.sealed : Sealing(r.records[i], stored, published)
  BY <1>3
<1>5. RunInv(r, stored, published)
  BY <1>1, <1>3, <1>4 DEF RunInv
<1> QED
  BY <1>3, <1>5 DEF r

LEMMA StartExecuteIInv == ASSUME IInv, StartExecute PROVE IInv'
<1>1. PICK p \in prepared, q \in prepared, policy \in Policies : run' = Started(p.request, q, policy)
  BY DEF StartExecute
<1>2. RunInv(run', stored, published)
  BY <1>1, StartedInv
<1>3. composite = None
  BY DEF StartExecute, Fresh, Idle
<1>4. UNCHANGED <<hist, decisions, prepared, composite, finished, stored, published>>
  BY DEF StartExecute
<1> QED
  BY <1>2, <1>3, <1>4 DEF IInv

LEMMA CrossIInv == ASSUME IInv, Cross PROVE IInv'
<1>1. PICK ret \in Returns : WellFormed(ret) /\ run' = Crossed(run, ret)
  BY DEF Cross
<1>2. run # None /\ run.phase = "crossing" /\ RunInv(run, stored, published) /\ RunSound(run)
  BY DEF Cross, IInv, RunInv
<1>3. Continues(run', run)
  BY <1>1, <1>2, BudgetsBuild, CrossedSound
<1>4. RunInv(run', stored, published)
  <2>1. \A i \in 1..run'.sealed : Sealing(run'.records[i], stored, published)
    BY <1>3 DEF Continues
  <2> QED
    BY <1>2, <1>3, <2>1 DEF RunInv, Continues
<1>5. UNCHANGED <<hist, decisions, prepared, composite, finished, stored, published>>
  BY DEF Cross
<1>6. composite # None => CompositeSound(composite, run')
  BY <1>2, <1>3 DEF IInv, CompositeSound, Continues
<1> QED
  BY <1>4, <1>5, <1>6 DEF IInv

LEMMA CrossingRaisesIInv == ASSUME IInv, CrossingRaises PROVE IInv'
BY DEF IInv, CrossingRaises

LEMMA RegisterSchemaIInv == ASSUME IInv, RegisterSchema PROVE IInv'
BY DEF IInv, RegisterSchema

LEMMA PriorUpdatedIInv == ASSUME IInv, PriorUpdated PROVE IInv'
BY DEF IInv, PriorUpdated

\* The record that is persisted next, of a run that is being sealed.
LEMMA NextRecordFacts ==
  ASSUME NEW r, NEW st, NEW pub, RunInv(r, st, pub), r.phase = "sealing"
  PROVE  /\ Len(r.records) \in Nat /\ r.sealed \in Nat /\ r.sealed + 1 <= Len(r.records)
         /\ "refs" \in DOMAIN NextRecord(r)
         /\ Range(NextRecord(r).refs) \subseteq st
<1>1. RunSound(r) /\ Chain(r.records, r.request, r.resolution) /\ IsSeq(r.records)
  BY DEF RunInv, RunSound, Chain
<1>2. Len(r.records) \in Nat /\ r.sealed \in 0..Len(r.records) - 1
  BY <1>1, SeqFacts DEF RunSound
<1>3. PICK n \in 1..Len(r.records) : n = r.sealed + 1 /\ n - 1 = r.sealed
  BY <1>2
<1>4. PICK x : x = r.records[n]
  OBVIOUS
<1>5. NextRecord(r) = x
  BY <1>3, <1>4 DEF NextRecord
<1>6. "refs" \in DOMAIN x /\ x.refs = SubSeq(r.records, 1, r.sealed)
  BY <1>1, <1>3, <1>4 DEF Chain
<1>7. PICK refs : refs = SubSeq(r.records, 1, r.sealed)
  OBVIOUS
<1>8. /\ IsSeq(refs) /\ Len(refs) = r.sealed
      /\ \A i \in 1..r.sealed : refs[i] = r.records[i]
  BY <1>1, <1>2, <1>7, PrefixFacts
<1>9. \A i \in 1..r.sealed : r.records[i] \in st
  BY DEF RunInv, Sealing
<1>10. Range(refs) \subseteq st
  BY <1>8, <1>9, SeqFacts DEF Range
<1> QED
  BY <1>2, <1>5, <1>6, <1>7, <1>10

\* The logs after the events of a record went out, and after it was stored.
LEMMA AnnouncedLogs ==
  ASSUME NEW st, NEW pub, LogsSound(st, pub), NEW x, "refs" \in DOMAIN x
  PROVE  LogsSound(st, pub \cup Derived(x))
<1>1. \A e \in Derived(x) : Genuine(e)
  <2>1. \A e \in Derived(x) : e[2] = x
    BY DEF Derived, InvokedEvent, SealedEvent
  <2> QED
    BY <2>1 DEF Genuine
<1> QED
  BY <1>1 DEF LogsSound

LEMMA PersistedLogs ==
  ASSUME NEW st, NEW pub, LogsSound(st, pub), NEW x, "refs" \in DOMAIN x, Range(x.refs) \subseteq st
  PROVE  LogsSound(st \cup {x}, pub \cup Derived(x))
<1>1. LogsSound(st, pub \cup Derived(x))
  BY AnnouncedLogs
<1> QED
  BY <1>1 DEF LogsSound

LEMMA PersistFailsIInv == ASSUME IInv, PersistFails PROVE IInv'
<1>1. /\ run # None /\ run.phase = "sealing" /\ RunInv(run, stored, published)
      /\ published' = published \cup Derived(NextRecord(run)) /\ stored' = stored
      /\ run' = None /\ composite' = None
  BY DEF PersistFails, IInv
<1>2. PICK x : x = NextRecord(run)
  OBVIOUS
<1>3. "refs" \in DOMAIN x
  BY <1>1, <1>2, NextRecordFacts
<1>4. LogsSound(stored', published')
  BY <1>1, <1>2, <1>3, AnnouncedLogs DEF IInv
<1>5. stored \subseteq stored' /\ published \subseteq published'
  BY <1>1
<1>6. UNCHANGED <<hist, decisions, prepared, finished>>
  BY DEF PersistFails
<1>7. /\ \A d \in decisions : Recorded(d, stored', published')
      /\ \A r \in prepared : Approved(r.request, stored', published')
      /\ \A f \in finished : FinishedSound(f, stored', published')
  BY <1>5, LogsGrow DEF IInv
<1> QED
  BY <1>1, <1>4, <1>6, <1>7 DEF IInv

\* What one more final record adds to what the constituents were charged.
LEMMA SpentByOneMore ==
  ASSUME NEW finals, IsSeq(finals), NEW final
  PROVE  SpentBy(Append(finals, final)) = SpentBy(finals) + Spent(final)
<1>1. PICK n \in Nat : n = Len(finals)
  BY SeqFacts
<1>2. PICK more : more = Append(finals, final)
  OBVIOUS
<1>3. /\ IsSeq(more) /\ Len(more) = n + 1 /\ DOMAIN more = 1..n + 1 /\ more[n + 1] = final
      /\ \A i \in 1..n : more[i] = finals[i]
  BY <1>1, <1>2, AppendFacts
<1>4. DOMAIN finals = 1..n
  BY <1>1, SeqFacts
<1> DEFINE s == [i \in 1..n |-> Spent(finals[i])]
           t == [i \in 1..n + 1 |-> Spent(more[i])]
<1>5. IsSeq(s) /\ Len(s) = n
  <2>1. s = [i \in 1..n |-> s[i]]
    OBVIOUS
  <2> HIDE DEF s
  <2> QED
    BY <2>1, FunctionIsSeq
<1>6. IsSeq(t) /\ Len(t) = n + 1
  <2>1. t = [i \in 1..n + 1 |-> t[i]]
    OBVIOUS
  <2> HIDE DEF t
  <2> QED
    BY <2>1, FunctionIsSeq
<1>7. t[n + 1] = Spent(final) /\ \A i \in 1..n : t[i] = s[i]
  BY <1>3
<1> HIDE DEF s, t
<1>8. t = Append(s, Spent(final))
  <2>1. PICK e : e = Spent(final)
    OBVIOUS
  <2>2. PICK u : u = Append(s, e)
    OBVIOUS
  <2>3. IsSeq(u) /\ Len(u) = n + 1 /\ u[n + 1] = e /\ \A i \in 1..n : u[i] = s[i]
    BY <1>5, <2>2, AppendFacts
  <2>4. \A i \in 1..n + 1 : t[i] = u[i]
    <3>1. ASSUME NEW i \in 1..n + 1 PROVE t[i] = u[i]
      <4>1. i = n + 1 \/ i \in 1..n
        OBVIOUS
      <4> QED
        BY <1>7, <2>1, <2>3, <4>1
    <3> QED
      BY <3>1
  <2>5. t = u
    BY <1>6, <2>3, <2>4, EqualSeqs
  <2> QED
    BY <2>1, <2>2, <2>5
<1>9. Total(t) = Total(s) + Spent(final)
  BY <1>5, <1>8, TotalOfAppend
<1>10. SpentBy(finals) = Total(s)
  BY <1>4 DEF SpentBy, s
<1>11. SpentBy(more) = Total(t)
  BY <1>3 DEF SpentBy, t
<1> QED
  BY <1>2, <1>9, <1>10, <1>11

LEMMA SpentByNothing == SpentBy(<<>>) = 0
<1>1. [i \in DOMAIN <<>> |-> Spent(<<>>[i])] = <<>>
  OBVIOUS
<1> QED
  BY <1>1, TotalOfNothing DEF SpentBy

\* One more record of the run is in storage, its events are out.
LEMMA SealedOneMore ==
  ASSUME NEW r, NEW st, NEW pub, RunInv(r, st, pub), r.phase = "sealing",
         NEW x, x = NextRecord(r), NEW n \in 1..r.sealed + 1
  PROVE  Sealing(r.records[n], st \cup {x}, pub \cup Derived(x))
<1>1. r.sealed \in Nat
  BY NextRecordFacts
<1>2. n \in 1..r.sealed \/ n = r.sealed + 1
  BY <1>1
<1>3. CASE n \in 1..r.sealed
  BY <1>3 DEF RunInv, Sealing
<1>4. CASE n = r.sealed + 1
  BY <1>4 DEF NextRecord, Sealing
<1> QED
  BY <1>2, <1>3, <1>4

\* The run goes on to its next record.
LEMMA PersistStepIInv ==
  ASSUME NEW r, NEW st, NEW pub, RunInv(r, st, pub), r.phase = "sealing",
         r.sealed + 1 < Len(r.records), NEW x, x = NextRecord(r)
  PROVE  LET next == [r EXCEPT !.sealed = @ + 1]
         IN  RunInv(next, st \cup {x}, pub \cup Derived(x)) /\ next.request = r.request
<1> DEFINE next == [r EXCEPT !.sealed = @ + 1]
<1>1. /\ IsRun(r) /\ Len(r.records) \in Nat /\ r.sealed \in Nat
      /\ EnvelopeOf(r.request) /\ r.policy.attempts \in Nat
      /\ Chain(r.records, r.request, r.resolution)
      /\ r.total \in Nat /\ r.total = ConsumedUpTo(r.records, Len(r.records))
      /\ r.total <= r.request.ceiling
      /\ Stopped(r.records, r.policy)
  BY NextRecordFacts DEF RunInv, RunSound
<1>2. next = [request |-> r.request, resolution |-> r.resolution, policy |-> r.policy,
              records |-> r.records, total |-> r.total, phase |-> r.phase,
              sealed |-> r.sealed + 1]
  BY <1>1 DEF IsRun
<1> HIDE DEF next
<1>3. /\ next.request = r.request /\ next.resolution = r.resolution /\ next.policy = r.policy
      /\ next.records = r.records /\ next.total = r.total /\ next.phase = "sealing"
      /\ next.sealed = r.sealed + 1 /\ IsRun(next)
  BY <1>2 DEF IsRun
<1>4. next.sealed \in 0..Len(next.records) - 1
  BY <1>1, <1>3
<1>5. RunSound(next)
  BY <1>1, <1>3, <1>4 DEF RunSound
<1>6. \A i \in 1..next.sealed : Sealing(next.records[i], st \cup {x}, pub \cup Derived(x))
  BY <1>3, SealedOneMore
<1>7. PICK st2, pub2 : st2 = st \cup {x} /\ pub2 = pub \cup Derived(x)
  OBVIOUS
<1>8. Approved(next.request, st2, pub2)
  BY <1>3, <1>7, LogsGrow DEF RunInv
<1>9. RunInv(next, st2, pub2)
  BY <1>5, <1>6, <1>7, <1>8 DEF RunInv
<1> QED
  BY <1>3, <1>7, <1>9 DEF next

\* The run returned: its whole sequence is in storage.
LEMMA PersistLastIInv ==
  ASSUME NEW r, NEW st, NEW pub, RunInv(r, st, pub), r.phase = "sealing",
         ~(r.sealed + 1 < Len(r.records)), NEW x, x = NextRecord(r)
  PROVE  LET f == [records |-> r.records, policy |-> r.policy, handoff |-> Handoff(Last(r.records))]
         IN  FinishedSound(f, st \cup {x}, pub \cup Derived(x))
<1>1. /\ Len(r.records) \in Nat /\ r.sealed \in Nat /\ r.sealed + 1 = Len(r.records)
      /\ r.policy.attempts \in Nat
      /\ Chain(r.records, r.request, r.resolution) /\ Stopped(r.records, r.policy)
  BY NextRecordFacts DEF RunInv, RunSound
<1>2. PICK st2, pub2 : st2 = st \cup {x} /\ pub2 = pub \cup Derived(x)
  OBVIOUS
<1>3. Approved(r.request, st2, pub2)
  BY <1>2, LogsGrow DEF RunInv
<1>4. \A i \in 1..Len(r.records) : Sealing(r.records[i], st2, pub2)
  BY <1>1, <1>2, SealedOneMore
<1>5. r.records[1].request = r.request /\ r.records[1].resolution = r.resolution
  BY <1>1, FinalFacts
<1> DEFINE f == [records |-> r.records, policy |-> r.policy, handoff |-> Handoff(Last(r.records))]
<1>6. f.records = r.records /\ f.policy = r.policy /\ f.handoff = Handoff(Last(r.records))
  OBVIOUS
<1> HIDE DEF f
<1>7. FinishedSound(f, st2, pub2)
  BY <1>1, <1>3, <1>4, <1>5, <1>6 DEF FinishedSound
<1> QED
  BY <1>2, <1>7 DEF f

\* The constituent's final record is within what its envelope drew.
LEMMA WithFinalSound ==
  ASSUME NEW c, NEW r, NEW st, NEW pub, RunInv(r, st, pub), Len(r.records) >= 1,
         c # None => CompositeSound(c, r), r # None
  PROVE  WithFinal(c, Last(r.records)) # None => CompositeSound(WithFinal(c, Last(r.records)), None)
<1> SUFFICES ASSUME c # None PROVE CompositeSound(WithFinal(c, Last(r.records)), None)
  BY DEF WithFinal
<1>1. /\ c = [plan |-> c.plan, drawn |-> c.drawn, finals |-> c.finals]
      /\ c.plan \in Plans /\ IsSeq(c.finals) /\ c.drawn \in Int /\ SpentBy(c.finals) \in Int
      /\ c.drawn <= c.plan.parent /\ SpentBy(c.finals) + r.request.ceiling <= c.drawn
  BY DEF CompositeSound
<1>2. Chain(r.records, r.request, r.resolution) /\ r.request.ceiling \in Nat
  BY DEF RunInv, RunSound, EnvelopeOf
<1>3. PICK final : final = Last(r.records)
  OBVIOUS
<1>4. final.request = r.request /\ final.remaining \in Nat
  BY <1>2, <1>3, FinalFacts
<1>5. Spent(final) \in Int /\ Spent(final) <= r.request.ceiling
  BY <1>2, <1>4 DEF Spent
<1>6. PICK finals : finals = Append(c.finals, final)
  OBVIOUS
<1>7. SpentBy(finals) = SpentBy(c.finals) + Spent(final) /\ IsSeq(finals)
  BY <1>1, <1>6, SpentByOneMore, AppendFacts
<1>8. PICK d : d = WithFinal(c, final)
  OBVIOUS
<1>9. d = [plan |-> c.plan, drawn |-> c.drawn, finals |-> finals]
  <2>1. d = [c EXCEPT !.finals = Append(c.finals, final)]
    BY <1>8 DEF WithFinal
  <2> QED
    BY <1>1, <1>6, <2>1
<1>10. d.plan = c.plan /\ d.drawn = c.drawn /\ d.finals = finals
       /\ d = [plan |-> d.plan, drawn |-> d.drawn, finals |-> d.finals]
  BY <1>9
<1>11. SpentBy(d.finals) \in Int /\ SpentBy(d.finals) <= d.drawn
  BY <1>1, <1>2, <1>5, <1>7, <1>10
<1>12. CompositeSound(d, None)
  BY <1>1, <1>7, <1>10, <1>11 DEF CompositeSound
<1> QED
  BY <1>3, <1>8, <1>12

LEMMA PersistIInv == ASSUME IInv, Persist PROVE IInv'
<1>1. PICK x : x = NextRecord(run)
  OBVIOUS
<1>2. /\ run # None /\ run.phase = "sealing" /\ RunInv(run, stored, published)
      /\ published' = published \cup Derived(x) /\ stored' = stored \cup {x}
      /\ UNCHANGED <<hist, decisions, prepared>>
  BY <1>1 DEF Persist, Write, IInv
<1>3. /\ "refs" \in DOMAIN x /\ Range(x.refs) \subseteq stored
      /\ Len(run.records) \in Nat /\ run.sealed \in Nat /\ run.sealed + 1 <= Len(run.records)
  BY <1>1, <1>2, NextRecordFacts
<1>4. LogsSound(stored', published')
  BY <1>2, <1>3, PersistedLogs DEF IInv
<1>5. stored \subseteq stored' /\ published \subseteq published'
  BY <1>2
<1>6. /\ \A d \in decisions : Recorded(d, stored', published')
      /\ \A r \in prepared : Approved(r.request, stored', published') /\ Resolved(r, hist)
      /\ \A f \in finished : FinishedSound(f, stored', published')
      /\ HistSound(hist)
  BY <1>5, LogsGrow DEF IInv
<1>7. CASE run.sealed + 1 < Len(run.records)
  <2>1. run' = [run EXCEPT !.sealed = @ + 1] /\ UNCHANGED <<finished, composite>>
    BY <1>7 DEF Persist
  <2>2. RunInv(run', stored', published') /\ run'.request = run.request
    BY <1>1, <1>2, <1>7, <2>1, PersistStepIInv
  <2>3. composite' # None => CompositeSound(composite', run')
    BY <1>2, <2>1, <2>2 DEF IInv, CompositeSound
  <2> QED
    BY <1>2, <1>4, <1>6, <2>1, <2>2, <2>3 DEF IInv
<1>8. CASE ~(run.sealed + 1 < Len(run.records))
  <2>1. PICK f : f = [records |-> run.records, policy |-> run.policy,
                      handoff |-> Handoff(Last(run.records))]
    OBVIOUS
  <2>2. /\ run' = None /\ finished' = finished \cup {f}
        /\ composite' = WithFinal(composite, Last(run.records))
    BY <1>8, <2>1 DEF Persist
  <2>3. FinishedSound(f, stored', published')
    BY <1>1, <1>2, <1>8, <2>1, PersistLastIInv
  <2>4. composite' # None => CompositeSound(composite', None)
    <3>1. Len(run.records) >= 1
      BY <1>3
    <3>2. composite # None => CompositeSound(composite, run)
      BY DEF IInv
    <3> QED
      BY <1>2, <2>2, <3>1, <3>2, WithFinalSound
  <2>5. \A g \in finished' : FinishedSound(g, stored', published')
    BY <1>6, <2>2, <2>3
  <2> QED
    BY <1>2, <1>4, <1>6, <2>2, <2>4, <2>5 DEF IInv
<1> QED
  BY <1>7, <1>8

LEMMA StartCompositeIInv == ASSUME IInv, StartComposite PROVE IInv'
<1>1. PICK plan \in Plans : composite' = [plan |-> plan, drawn |-> 0, finals |-> <<>>]
  BY DEF StartComposite
<1>2. UNCHANGED <<hist, decisions, prepared, run, finished, stored, published>> /\ run = None
  BY DEF StartComposite, Fresh, Idle
<1>3. plan.parent \in Nat
  BY BudgetsBuild
<1>4. CompositeSound(composite', None)
  BY <1>1, <1>3, SpentByNothing, EmptyIsSeq DEF CompositeSound
<1> QED
  BY <1>2, <1>4 DEF IInv

\* The constituent's envelope is drawn from what the parent has left.
LEMMA StartConstituentIInv == ASSUME IInv, StartConstituent PROVE IInv'
<1>1. /\ run = None /\ composite # None /\ CompositeSound(composite, run)
      /\ Allocates(NextCeiling(composite), composite.plan.parent, composite.drawn)
      /\ composite' = [composite EXCEPT !.drawn = @ + NextCeiling(composite)]
      /\ UNCHANGED <<hist, decisions, prepared, finished, stored, published>>
  BY DEF StartConstituent, IInv
<1>2. PICK p \in prepared, policy \in Policies :
        p.request.ceiling = NextCeiling(composite) /\ run' = Started(p.request, p, policy)
  BY DEF StartConstituent
<1>3. RunInv(run', stored, published) /\ run'.request = p.request
  BY <1>2, StartedInv
<1>4. PICK c : c = p.request.ceiling
  OBVIOUS
<1>5. c \in Nat /\ c = NextCeiling(composite)
  BY <1>2, <1>4 DEF IInv, Approved, EnvelopeOf
<1>6. /\ composite = [plan |-> composite.plan, drawn |-> composite.drawn,
                      finals |-> composite.finals]
      /\ composite.plan \in Plans /\ IsSeq(composite.finals) /\ composite.drawn \in Int
      /\ SpentBy(composite.finals) \in Int
      /\ composite.drawn <= composite.plan.parent
      /\ SpentBy(composite.finals) <= composite.drawn
  BY <1>1 DEF CompositeSound
<1>7. composite.plan.parent \in Nat /\ composite.plan.parent # None
  BY <1>6, BudgetsBuild
<1>8. composite.drawn + c <= composite.plan.parent
  BY <1>1, <1>5, <1>6, <1>7 DEF Allocates
<1>9. composite' = [plan |-> composite.plan, drawn |-> composite.drawn + c,
                    finals |-> composite.finals]
  BY <1>1, <1>5, <1>6
<1>10. /\ composite'.plan = composite.plan /\ composite'.drawn = composite.drawn + c
       /\ composite'.finals = composite.finals
       /\ composite' = [plan |-> composite'.plan, drawn |-> composite'.drawn,
                        finals |-> composite'.finals]
  BY <1>9
<1>11. run'.request.ceiling = c
  BY <1>3, <1>4
<1>12. CompositeSound(composite', run')
  BY <1>5, <1>6, <1>8, <1>10, <1>11 DEF CompositeSound
<1> QED
  BY <1>1, <1>3, <1>12 DEF IInv

LEMMA ConstituentRefusedIInv == ASSUME IInv, ConstituentRefused PROVE IInv'
BY DEF IInv, ConstituentRefused

LEMMA CompositeDoneIInv == ASSUME IInv, CompositeDone PROVE IInv'
BY DEF IInv, CompositeDone

\* Storage and the bus keep what they hold, the rest starts over.
LEMMA CrashIInv == ASSUME IInv, Crash PROVE IInv'
<1>1. HistSound(hist')
  BY InjectedHistSound DEF Crash
<1> QED
  BY <1>1 DEF IInv, Crash

LEMMA NextIInv == ASSUME IInv, [Next]_vars PROVE IInv'
<1>1. CASE UNCHANGED vars
  BY <1>1 DEF IInv, vars
<1>2. CASE Next
  <2>1. CASE ApplyMutation
    BY <2>1, ApplyMutationIInv
  <2>2. CASE RegisterSchema
    BY <2>2, RegisterSchemaIInv
  <2>3. CASE PriorUpdated
    BY <2>3, PriorUpdatedIInv
  <2>4. CASE Govern
    BY <2>4, GovernIInv
  <2>5. CASE PrepareRequest
    BY <2>5, PrepareRequestIInv
  <2>6. CASE Substitute
    BY <2>6, SubstituteIInv
  <2>7. CASE StartExecute
    BY <2>7, StartExecuteIInv
  <2>8. CASE Cross
    BY <2>8, CrossIInv
  <2>9. CASE CrossingRaises
    BY <2>9, CrossingRaisesIInv
  <2>10. CASE Persist
    BY <2>10, PersistIInv
  <2>11. CASE PersistFails
    BY <2>11, PersistFailsIInv
  <2>12. CASE StartComposite
    BY <2>12, StartCompositeIInv
  <2>13. CASE StartConstituent
    BY <2>13, StartConstituentIInv
  <2>14. CASE ConstituentRefused
    BY <2>14, ConstituentRefusedIInv
  <2>15. CASE CompositeDone
    BY <2>15, CompositeDoneIInv
  <2>16. CASE Crash
    BY <2>16, CrashIInv
  <2> QED
    BY <1>2, <2>1, <2>2, <2>3, <2>4, <2>5, <2>6, <2>7, <2>8, <2>9, <2>10, <2>11, <2>12,
       <2>13, <2>14, <2>15, <2>16 DEF Next
<1> QED
  BY <1>1, <1>2

\* Every state the orchestrator reaches satisfies the invariant.
THEOREM Invariance == Spec => []IInv
<1>1. Init => IInv
  BY InitIInv
<1>2. IInv /\ [Next]_vars => IInv'
  BY NextIInv
<1> QED
  BY <1>1, <1>2, PTL DEF Spec

-----------------------------------------------------------------------------
(* What it gives.                                                          *)

\* What a caller holds names a provider that was eligible, for an approved
\* decision, in the version it cites: select_provider, _validate_claims and
\* the refusal to retire a claimed capability (src/src/ro/descriptor_space.py).
THEOREM ResolutionsStaySound == Spec => []ResolutionSound
<1>1. IInv => ResolutionSound
  BY DEF IInv, Approved, Resolved, ResolutionSound, AtVersion
<1> QED
  BY <1>1, Invariance, PTL

\* No invocation is charged more than its envelope, none crosses with an empty
\* one, no composite is charged more than its parent: _apply_consumption and
\* _retry_disposition (src/src/ro/invocation.py), run_composite.
THEOREM EnvelopesAreHonoured == Spec => []EnvelopeHonoured
<1>1. ASSUME IInv, NEW f \in finished
      PROVE  ConsumedUpTo(f.records, Len(f.records)) <= f.records[1].request.ceiling
  <2>1. /\ Chain(f.records, f.records[1].request, f.records[1].resolution)
        /\ Len(f.records) >= 1
    BY <1>1 DEF IInv, FinishedSound, Stopped
  <2>2. PICK n, q, s : n = Len(f.records) /\ q = f.records[1].request
                       /\ s = f.records[1].resolution
    OBVIOUS
  <2>3. Chain(f.records, q, s)
    BY <2>1, <2>2
  <2>4. /\ n \in Nat /\ Last(f.records).remaining \in Nat
        /\ ConsumedUpTo(f.records, n) + Last(f.records).remaining = q.ceiling
    BY <2>1, <2>2, <2>3, FinalFacts
  <2>5. ConsumedUpTo(f.records, n) \in Nat
    BY <2>2, <2>3, <2>4, ConsumedIsNat
  <2> QED
    BY <2>2, <2>4, <2>5
<1>2. ASSUME IInv, run # None
      PROVE  /\ run.total = ConsumedUpTo(run.records, Len(run.records))
             /\ run.total <= run.request.ceiling
             /\ (run.phase = "crossing" => run.total < run.request.ceiling)
  BY <1>2 DEF IInv, RunInv, RunSound
<1>3. ASSUME IInv, composite # None
      PROVE  SpentBy(composite.finals) <= composite.plan.parent
  <2>1. /\ SpentBy(composite.finals) \in Int /\ composite.drawn \in Int
        /\ composite.drawn <= composite.plan.parent /\ composite.plan \in Plans
        /\ SpentBy(composite.finals) <= composite.drawn
    BY <1>3 DEF IInv, CompositeSound
  <2>2. composite.plan.parent \in Nat
    BY <2>1, BudgetsBuild
  <2> QED
    BY <2>1, <2>2
<1>4. IInv => EnvelopeHonoured
  BY <1>1, <1>2, <1>3 DEF EnvelopeHonoured, SpentBy
<1> QED
  BY <1>4, Invariance, PTL

\* A stored outcome can be traced back to its first attempt, its events and
\* its approved decision: the order of _announce and _persist
\* (src/src/ro/runtime.py), whatever write failed or crash came.
THEOREM ChainsAreDurable == Spec => []ChainDurable
<1>1. ASSUME IInv, NEW r \in OutcomesStored
      PROVE  Range(r.refs) \subseteq stored /\ Derived(r) \subseteq published
  BY <1>1 DEF IInv, LogsSound, OutcomesStored
<1>2. ASSUME IInv, NEW f \in finished
      PROVE  /\ Range(f.records) \subseteq stored
             /\ f.handoff # None => /\ {f.handoff.record, f.handoff.decision} \subseteq stored
                                    /\ f.handoff.decision.outcome = "REASONING_APPROVED"
                                    /\ f.handoff.output = Last(f.records).output
  <2>1. /\ Chain(f.records, f.records[1].request, f.records[1].resolution)
        /\ Len(f.records) >= 1 /\ Approved(f.records[1].request, stored, published)
        /\ \A i \in 1..Len(f.records) : Sealing(f.records[i], stored, published)
        /\ f.handoff = Handoff(Last(f.records))
    BY <1>2 DEF IInv, FinishedSound, Stopped
  <2>2. PICK q, s : q = f.records[1].request /\ s = f.records[1].resolution
    OBVIOUS
  <2>3. Chain(f.records, q, s) /\ IsSeq(f.records)
    BY <2>1, <2>2 DEF Chain
  <2>4. Range(f.records) \subseteq stored
    BY <2>1, <2>3, SeqFacts DEF Range, Sealing
  <2>5. PICK final : final = Last(f.records)
    OBVIOUS
  <2>6. final = f.records[Len(f.records)] /\ Len(f.records) \in Nat /\ final.request = q
    BY <2>1, <2>3, <2>5, FinalFacts
  <2>7. Sealing(final, stored, published)
    BY <2>1, <2>6
  <2>8. /\ q.coords.decision \in stored
        /\ q.coords.decision.outcome = "REASONING_APPROVED"
    BY <2>1, <2>2 DEF Approved, Recorded
  <2>9. CASE final.kind # "RETURNED"
    BY <2>1, <2>4, <2>5, <2>9 DEF Handoff
  <2>10. CASE final.kind = "RETURNED"
    <3>1. f.handoff = [record |-> final, decision |-> q.coords.decision,
                       output |-> final.output, schema |-> q.schema]
      BY <2>1, <2>5, <2>6, <2>10 DEF Handoff
    <3> QED
      BY <2>4, <2>5, <2>7, <2>8, <3>1 DEF Sealing
  <2> QED
    BY <2>9, <2>10
<1>3. IInv => ChainDurable
  BY <1>1, <1>2 DEF ChainDurable
<1> QED
  BY <1>3, Invariance, PTL

\* A chain is a sequence that replay_attempts finds no fault with.
LEMMA ChainConsistent ==
  ASSUME NEW records, NEW request, NEW resolution, Chain(records, request, resolution),
         Len(records) >= 1
  PROVE  SequenceConsistent(records)
<1>1. /\ Len(records) \in Nat /\ DOMAIN records = 1..Len(records) /\ records # <<>>
      /\ 1 \in 1..Len(records)
  BY SeqFacts, EmptyIsSeq DEF Chain
<1>2. ConsumedUpTo(records, 1) = records[1].consumed
  <2>1. ConsumedUpTo(records, 0 + 1) = ConsumedUpTo(records, 0) + records[0 + 1].consumed
    BY ConsumedOneMore
  <2>2. ConsumedUpTo(records, 0) = 0 /\ records[1].consumed \in Nat
    BY <1>1, NothingConsumed DEF Chain
  <2> QED
    BY <2>1, <2>2
<1>3. records[1].consumed + records[1].remaining = request.ceiling
  BY <1>1, <1>2 DEF Chain
<1>4. records[1].request = request /\ records[1].resolution = resolution
  BY <1>1 DEF Chain
<1>5. ASSUME NEW i \in 1..Len(records)
      PROVE  /\ records[i].index = i
             /\ records[i].request = records[1].request
             /\ records[i].resolution = records[1].resolution
             /\ records[i].refs = SubSeq(records, 1, i - 1)
             /\ records[i].consumed >= 0 /\ records[i].remaining >= 0
             /\ ConsumedUpTo(records, i) + records[i].remaining
                  = records[1].consumed + records[1].remaining
  BY <1>3, <1>4, <1>5 DEF Chain
<1> QED
  BY <1>1, <1>5 DEF SequenceConsistent

\* The events of a decision and of the records that refer to it are those that
\* follow from them.
LEMMA EmittedExactly ==
  ASSUME NEW st, NEW pub, LogsSound(st, pub), NEW d, Recorded(d, st, pub),
         NEW records, IsSeq(records),
         \A i \in 1..Len(records) : "refs" \in DOMAIN records[i] /\ Derived(records[i]) \subseteq pub
  PROVE  {e \in pub : e[2] \in {d} \cup Range(records)}
           = {DecidedEvent(d)} \cup UNION {Derived(records[i]) : i \in DOMAIN records}
<1>1. DOMAIN records = 1..Len(records)
  BY SeqFacts
<1>2. \A i \in DOMAIN records : \A e \in Derived(records[i]) : e[2] = records[i]
  BY DEF Derived, InvokedEvent, SealedEvent
<1>3. ASSUME NEW e \in pub, e[2] \in {d} \cup Range(records)
      PROVE  e \in {DecidedEvent(d)} \cup UNION {Derived(records[i]) : i \in DOMAIN records}
  <2>1. Genuine(e)
    BY DEF LogsSound
  <2>2. CASE e[2] = d
    BY <2>1, <2>2 DEF Genuine, Recorded
  <2>3. CASE e[2] \in Range(records)
    <3>1. PICK i \in DOMAIN records : e[2] = records[i]
      BY <2>3 DEF Range
    <3>2. "refs" \in DOMAIN e[2]
      BY <1>1, <3>1
    <3>3. e \in Derived(records[i])
      BY <2>1, <3>1, <3>2 DEF Genuine
    <3> QED
      BY <3>3
  <2> QED
    BY <1>3, <2>2, <2>3
<1>4. DecidedEvent(d) \in pub /\ DecidedEvent(d)[2] = d
  BY DEF Recorded, DecidedEvent
<1>5. ASSUME NEW i \in DOMAIN records, NEW e \in Derived(records[i])
      PROVE  e \in pub /\ e[2] \in Range(records)
  BY <1>1, <1>2 DEF Range
<1> QED
  BY <1>3, <1>4, <1>5

\* What execute() returned replays from storage: run_attempts
\* (src/src/ro/invocation.py) against replay_attempts
\* (src/src/ro/execution_replay.py).
THEOREM ReplaysAreAccepted == Spec => []ReplayAccepts
<1>1. ASSUME IInv, NEW f \in finished
      PROVE  /\ \A i \in DOMAIN f.records : OutcomeBuilds(f.records[i])
             /\ \/ RuntimeReplays(f.records[1].request.coords.decision, f.records, f.policy)
                \/ InitiationRefused(f.records)
  <2>1. PICK records, q, s, policy : /\ records = f.records /\ policy = f.policy
                                     /\ q = records[1].request /\ s = records[1].resolution
    OBVIOUS
  <2>2. /\ Approved(q, stored, published) /\ Chain(records, q, s)
        /\ Stopped(records, policy)
        /\ \A i \in 1..Len(records) : Sealing(records[i], stored, published)
        /\ LogsSound(stored, published)
    BY <1>1, <2>1 DEF IInv, FinishedSound
  <2>3. PICK d : d = q.coords.decision
    OBVIOUS
  <2>4. Recorded(d, stored, published)
    BY <2>2, <2>3 DEF Approved
  <2>5. IsSeq(records) /\ DOMAIN records = 1..Len(records) /\ Len(records) >= 1
    BY <2>2, SeqFacts DEF Chain, Stopped
  <2>6. \A i \in DOMAIN records : OutcomeBuilds(records[i])
    BY <2>2, <2>5 DEF Chain
  <2>7. SequenceConsistent(records)
    BY <2>2, <2>5, ChainConsistent
  <2>8. \A i \in 1..Len(records) :
          "refs" \in DOMAIN records[i] /\ Derived(records[i]) \subseteq published
    BY <2>2 DEF Chain, Sealing
  <2>9. {e \in published : e[2] \in {d} \cup Range(records)}
          = {DecidedEvent(d)} \cup UNION {Derived(records[i]) : i \in DOMAIN records}
    BY <2>2, <2>4, <2>5, <2>8, EmittedExactly
  <2>10. Loads(d) /\ \A i \in DOMAIN records : Loads(records[i])
    BY <2>2, <2>4, <2>5 DEF Loads, Recorded, Sealing
  <2>11. RuntimeReplays(d, records, policy) \/ InitiationRefused(records)
    BY <2>2, <2>7, <2>9, <2>10 DEF Stopped, RuntimeReplays, Replays
  <2> QED
    BY <2>1, <2>3, <2>6, <2>11
<1>2. IInv => ReplayAccepts
  BY <1>1 DEF ReplayAccepts
<1> QED
  BY <1>2, Invariance, PTL
=============================================================================
