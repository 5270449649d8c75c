-------------------------- MODULE GovernanceProofs --------------------------
(***************************************************************************)
(* Proofs about Governance, for any documents, vocabularies, conditions,   *)
(* questions and bounds: every decision is the one that the stamps of its  *)
(* request reproduce, the world of a request is frozen at its admission,   *)
(* a revoked grant lets nothing through, and the logs in Storage always    *)
(* replay to the store of the running process.                             *)
(***************************************************************************)
EXTENDS Governance, SequenceTheorems, WellFoundedInduction, TLAPS

-----------------------------------------------------------------------------
(* Sequences and least elements.                                           *)

IsSeq(s) == \E S : s \in Seq(S)

LEMMA SeqFacts ==
  ASSUME NEW s, IsSeq(s)
  PROVE  Len(s) \in Nat /\ DOMAIN s = 1..Len(s)
BY LenProperties DEF IsSeq

LEMMA EmptyIsSeq == IsSeq(<<>>) /\ Len(<<>>) = 0 /\ DOMAIN <<>> = {}
<1>1. <<>> \in Seq({})
  OBVIOUS
<1> QED BY <1>1 DEF IsSeq

LEMMA AppendFacts ==
  ASSUME NEW s, IsSeq(s), NEW e
  PROVE  /\ IsSeq(Append(s, e)) /\ Len(Append(s, e)) = Len(s) + 1
         /\ DOMAIN Append(s, e) = 1..Len(s) + 1
         /\ Append(s, e)[Len(s) + 1] = e
         /\ \A i \in 1..Len(s) : Append(s, e)[i] = s[i]
<1>1. PICK S : s \in Seq(S)
  BY DEF IsSeq
<1>2. PICK T : T = S \cup {e}
  OBVIOUS
<1>3. s \in Seq(T) /\ e \in T
  BY <1>1, <1>2, SeqMonotonic
<1>4. /\ Append(s, e) \in Seq(T) /\ Len(Append(s, e)) = Len(s) + 1
      /\ Append(s, e)[Len(s) + 1] = e /\ \A i \in 1..Len(s) : Append(s, e)[i] = s[i]
  BY <1>3, AppendProperties
<1>5. DOMAIN Append(s, e) = 1..Len(s) + 1
  BY <1>4, LenProperties
<1> QED BY <1>4, <1>5 DEF IsSeq

LEMMA LeastNatural ==
  ASSUME NEW T \in SUBSET Nat, T # {}
  PROVE  \E x \in T : \A y \in T : x <= y
<1>1. IsWellFoundedOn({ss \in Nat \X Nat : ss[1] < ss[2]}, Nat)
  BY NatLessThanWellFounded DEF OpToRel
<1>2. PICK x \in T : \A y \in T : ~(<<y, x>> \in {ss \in Nat \X Nat : ss[1] < ss[2]})
  BY <1>1, WFMin
<1>3. ASSUME NEW y \in T PROVE x <= y
  <2>1. x \in Nat /\ y \in Nat /\ ~(x > y)
    BY <1>2
  <2> QED BY <2>1
<1> QED BY <1>3

LEMMA MinOf ==
  ASSUME NEW T \in SUBSET Nat, T # {}
  PROVE  Min(T) \in T /\ \A y \in T : Min(T) <= y
<1>1. \E x \in T : \A y \in T : x <= y
  BY LeastNatural
<1> QED BY <1>1 DEF Min

-----------------------------------------------------------------------------
(* Replaying a log.                                                        *)

IsReplay(after, log) ==
  after = [n \in 0..Len(log) |-> IF n = 0 THEN EmptyStore ELSE Apply(after[n - 1], log[n])]

\* Every log has a replay: prefix by prefix.
LEMMA ReplayExists ==
  ASSUME NEW log, IsSeq(log)
  PROVE  IsReplay(StoresAfter(log), log)
<1>1. PICK L \in Nat : L = Len(log)
  BY SeqFacts
<1> DEFINE Step(after, n) == IF n = 0 THEN EmptyStore ELSE Apply(after[n - 1], log[n])
           Upto(m) == \E after : after = [n \in 0..m |-> Step(after, n)]
           Failing == {m \in 0..L : ~Upto(m)}
<1>2. Upto(0)
  <2>1. PICK after : after = [n \in 0..0 |-> EmptyStore]
    OBVIOUS
  <2>2. after = [n \in 0..0 |-> Step(after, n)]
    BY <2>1
  <2> QED BY <2>2
<1>3. ASSUME NEW m \in Nat, Upto(m) PROVE Upto(m + 1)
  <2>1. PICK after : after = [n \in 0..m |-> Step(after, n)]
    BY <1>3
  <2>2. PICK next : next = [n \in 0..m+1 |-> IF n = m + 1 THEN Step(after, n) ELSE after[n]]
    OBVIOUS
  <2>3. ASSUME NEW n \in 0..m+1 PROVE next[n] = Step(next, n)
    <3>1. n # 0 => n - 1 \in 0..m /\ next[n - 1] = after[n - 1]
      BY <2>2
    <3>2. Step(after, n) = Step(next, n)
      BY <3>1
    <3>3. n # m + 1 => n \in 0..m
      OBVIOUS
    <3>4. n # m + 1 => next[n] = Step(after, n)
      <4> HIDE DEF Step
      <4> QED BY <2>1, <2>2, <3>3
    <3>5. n = m + 1 => next[n] = Step(after, n)
      <4> HIDE DEF Step
      <4> QED BY <2>2
    <3> HIDE DEF Step
    <3> QED BY <3>2, <3>4, <3>5
  <2>4. next = [n \in 0..m+1 |-> Step(next, n)]
    <3> HIDE DEF Step
    <3> QED BY <2>2, <2>3
  <2> QED BY <2>4
<1>4. Failing = {}
  <2> HIDE DEF Upto
  <2> SUFFICES ASSUME Failing # {} PROVE FALSE
    OBVIOUS
  <2>1. PICK m \in Failing : \A y \in Failing : m <= y
    <3>1. Failing \in SUBSET Nat
      OBVIOUS
    <3> HIDE DEF Failing
    <3> QED BY <3>1, LeastNatural
  <2>2. m \in 1..L /\ m - 1 \in Nat /\ m - 1 \in 0..L /\ m - 1 \notin Failing
    BY <1>2, <2>1
  <2>3. Upto(m - 1)
    BY <2>2
  <2>4. Upto((m - 1) + 1)
    BY <1>3, <2>2, <2>3
  <2>5. (m - 1) + 1 = m
    BY <2>2
  <2> QED BY <2>1, <2>4, <2>5
<1>5. Upto(L)
  <2> HIDE DEF Upto
  <2> QED BY <1>4
<1>6. \E after : IsReplay(after, log)
  BY <1>1, <1>5 DEF IsReplay
<1> QED BY <1>6 DEF StoresAfter, IsReplay

\* A log that replays to a store, each entry legal where it stands.
Replays(log, s) ==
  \A after : IsReplay(after, log) =>
    after[Len(log)] = s /\ \A n \in DOMAIN log : Legal(after[n - 1], log[n])

LEMMA ReplaysNothing == Replays(<<>>, EmptyStore)
<1> SUFFICES ASSUME NEW after, IsReplay(after, <<>>) PROVE after[0] = EmptyStore
  BY EmptyIsSeq DEF Replays
<1>1. 0 \in 0..0
  OBVIOUS
<1> QED BY <1>1, EmptyIsSeq DEF IsReplay

LEMMA ReplaysOneMore ==
  ASSUME NEW log, IsSeq(log), NEW s, Replays(log, s), NEW e, Legal(s, e)
  PROVE  Replays(Append(log, e), Apply(s, e))
<1>1. PICK L \in Nat : L = Len(log) /\ DOMAIN log = 1..L
  BY SeqFacts
<1>2. PICK longer : longer = Append(log, e)
  OBVIOUS
<1>3. /\ Len(longer) = L + 1 /\ DOMAIN longer = 1..L+1 /\ longer[L + 1] = e
      /\ \A i \in 1..L : longer[i] = log[i]
  BY <1>1, <1>2, AppendFacts
<1> SUFFICES ASSUME NEW after, IsReplay(after, longer)
             PROVE  /\ after[L + 1] = Apply(s, e)
                    /\ \A n \in 1..L+1 : Legal(after[n - 1], longer[n])
  BY <1>2, <1>3 DEF Replays
<1>4. \A n \in 0..L+1 : after[n] = IF n = 0 THEN EmptyStore ELSE Apply(after[n - 1], longer[n])
  BY <1>3 DEF IsReplay
<1>5. PICK before : before = [n \in 0..L |-> after[n]]
  OBVIOUS
<1>6. ASSUME NEW n \in 0..L
      PROVE  before[n] = IF n = 0 THEN EmptyStore ELSE Apply(before[n - 1], log[n])
  <2>1. before[n] = after[n] /\ n \in 0..L+1
    BY <1>5
  <2>2. CASE n = 0
    BY <1>4, <2>1, <2>2
  <2>3. CASE n # 0
    <3>1. n - 1 \in 0..L /\ n \in 1..L
      BY <2>3
    <3>2. before[n - 1] = after[n - 1] /\ longer[n] = log[n]
      BY <1>3, <1>5, <3>1
    <3> QED BY <1>4, <2>1, <2>3, <3>2
  <2> QED BY <2>2, <2>3
<1>7. before = [n \in 0..L |-> IF n = 0 THEN EmptyStore ELSE Apply(before[n - 1], log[n])]
  BY <1>5, <1>6
<1>8. IsReplay(before, log)
  BY <1>1, <1>7 DEF IsReplay
<1>9. before[L] = s /\ \A n \in 1..L : Legal(before[n - 1], log[n])
  BY <1>1, <1>8 DEF Replays
<1>10. after[L] = s
  BY <1>5, <1>9
<1>11. after[L + 1] = Apply(s, e)
  <2>1. L + 1 \in 0..L+1 /\ L + 1 # 0 /\ (L + 1) - 1 = L
    OBVIOUS
  <2> QED BY <1>3, <1>4, <1>10, <2>1
<1>12. ASSUME NEW n \in 1..L+1 PROVE Legal(after[n - 1], longer[n])
  <2>1. CASE n = L + 1
    <3>1. n - 1 = L
      BY <2>1
    <3> QED BY <1>3, <1>10, <2>1, <3>1
  <2>2. CASE n # L + 1
    <3>1. n \in 1..L /\ n - 1 \in 0..L
      BY <2>2
    <3>2. before[n - 1] = after[n - 1] /\ longer[n] = log[n]
      BY <1>3, <1>5, <3>1
    <3> QED BY <1>9, <3>1, <3>2
  <2> QED BY <2>1, <2>2
<1> QED BY <1>11, <1>12

LEMMA ReplaysGives ==
  ASSUME NEW log, IsSeq(log), NEW s, Replays(log, s)
  PROVE  CatalogReplays(log) /\ RebuildStore(log) = s
BY ReplayExists DEF Replays, CatalogReplays, RebuildStore

-----------------------------------------------------------------------------
(* What an entry does to the store.                                        *)

IsStore(s) ==
  /\ s = [content |-> s.content, deprecated |-> s.deprecated, vocabularies |-> s.vocabularies,
          manifests |-> s.manifests, activations |-> s.activations]
  /\ IsSeq(s.vocabularies) /\ IsSeq(s.manifests) /\ IsSeq(s.activations)

LEMMA EmptyIsStore == IsStore(EmptyStore)
BY EmptyIsSeq DEF IsStore, EmptyStore

LEMMA ApplyVocabulary ==
  ASSUME NEW s, IsStore(s), NEW v
  PROVE  LET t == Apply(s, [kind |-> "vocabulary_version", vocabulary |-> v])
         IN  IsStore(t) /\ t.content = s.content /\ t.manifests = s.manifests
               /\ t.activations = s.activations
<1>1. PICK t : t = Apply(s, [kind |-> "vocabulary_version", vocabulary |-> v])
  OBVIOUS
<1>2. t = [s EXCEPT !.vocabularies = Append(s.vocabularies, v)]
  BY <1>1 DEF Apply
<1>3. PICK vs : vs = Append(s.vocabularies, v)
  OBVIOUS
<1>4. IsSeq(vs)
  BY <1>3, AppendFacts DEF IsStore
<1>5. t = [content |-> s.content, deprecated |-> s.deprecated, vocabularies |-> vs,
           manifests |-> s.manifests, activations |-> s.activations]
  BY <1>2, <1>3 DEF IsStore
<1> QED BY <1>1, <1>4, <1>5 DEF IsStore

LEMMA ApplyDocument ==
  ASSUME NEW s, IsStore(s), NEW did, NEW n, NEW d
  PROVE  LET t == Apply(s, [kind |-> "document_version", did |-> did, version |-> n, document |-> d])
         IN  /\ IsStore(t) /\ t.manifests = s.manifests /\ t.activations = s.activations
             /\ t.content = s.content \cup {[did |-> did, version |-> n, document |-> d]}
<1>1. PICK t : t = Apply(s, [kind |-> "document_version", did |-> did, version |-> n, document |-> d])
  OBVIOUS
<1>2. PICK c : c = s.content \cup {[did |-> did, version |-> n, document |-> d]}
  OBVIOUS
<1>3. t = [s EXCEPT !.content = c]
  BY <1>1, <1>2 DEF Apply
<1>4. t = [content |-> c, deprecated |-> s.deprecated, vocabularies |-> s.vocabularies,
           manifests |-> s.manifests, activations |-> s.activations]
  BY <1>3 DEF IsStore
<1> QED BY <1>1, <1>2, <1>4 DEF IsStore

LEMMA ApplyDeprecation ==
  ASSUME NEW s, IsStore(s), NEW did, NEW n
  PROVE  LET t == Apply(s, [kind |-> "deprecation", did |-> did, version |-> n])
         IN  IsStore(t) /\ t.content = s.content /\ t.manifests = s.manifests
               /\ t.activations = s.activations
<1>1. PICK t : t = Apply(s, [kind |-> "deprecation", did |-> did, version |-> n])
  OBVIOUS
<1>2. PICK c : c = s.deprecated \cup {<<did, n>>}
  OBVIOUS
<1>3. t = [s EXCEPT !.deprecated = c]
  BY <1>1, <1>2 DEF Apply
<1>4. t = [content |-> s.content, deprecated |-> c, vocabularies |-> s.vocabularies,
           manifests |-> s.manifests, activations |-> s.activations]
  BY <1>3 DEF IsStore
<1> QED BY <1>1, <1>4 DEF IsStore

LEMMA ApplyManifest ==
  ASSUME NEW s, IsStore(s), NEW m
  PROVE  LET t == Apply(s, [kind |-> "manifest", manifest |-> m])
         IN  IsStore(t) /\ t.content = s.content /\ t.manifests = Append(s.manifests, m)
               /\ t.activations = s.activations
<1>1. PICK t : t = Apply(s, [kind |-> "manifest", manifest |-> m])
  OBVIOUS
<1>2. PICK ms : ms = Append(s.manifests, m)
  OBVIOUS
<1>3. IsSeq(ms)
  BY <1>2, AppendFacts DEF IsStore
<1>4. t = [s EXCEPT !.manifests = ms]
  BY <1>1, <1>2 DEF Apply
<1>5. t = [content |-> s.content, deprecated |-> s.deprecated, vocabularies |-> s.vocabularies,
           manifests |-> ms, activations |-> s.activations]
  BY <1>4 DEF IsStore
<1>6. /\ t.content = s.content /\ t.deprecated = s.deprecated /\ t.vocabularies = s.vocabularies
      /\ t.manifests = ms /\ t.activations = s.activations
  BY ONLY <1>5
<1>7. IsSeq(t.vocabularies) /\ IsSeq(t.manifests) /\ IsSeq(t.activations)
  BY <1>3, <1>6 DEF IsStore
<1>8. IsStore(t)
  BY ONLY <1>5, <1>6, <1>7 DEF IsStore
<1> QED BY <1>1, <1>2, <1>6, <1>8

LEMMA ApplyActivation ==
  ASSUME NEW s, IsStore(s), NEW n
  PROVE  LET t == Apply(s, [kind |-> "activation", version |-> n])
         IN  IsStore(t) /\ t.content = s.content /\ t.manifests = s.manifests
               /\ t.activations = Append(s.activations, n)
<1>1. PICK t : t = Apply(s, [kind |-> "activation", version |-> n])
  OBVIOUS
<1>2. PICK as : as = Append(s.activations, n)
  OBVIOUS
<1>3. IsSeq(as)
  BY <1>2, AppendFacts DEF IsStore
<1>4. t = [s EXCEPT !.activations = as]
  BY <1>1, <1>2 DEF Apply
<1>5. t = [content |-> s.content, deprecated |-> s.deprecated, vocabularies |-> s.vocabularies,
           manifests |-> s.manifests, activations |-> as]
  BY <1>4 DEF IsStore
<1>6. /\ t.content = s.content /\ t.deprecated = s.deprecated /\ t.vocabularies = s.vocabularies
      /\ t.manifests = s.manifests /\ t.activations = as
  BY ONLY <1>5
<1>7. IsSeq(t.vocabularies) /\ IsSeq(t.manifests) /\ IsSeq(t.activations)
  BY <1>3, <1>6 DEF IsStore
<1>8. IsStore(t)
  BY ONLY <1>5, <1>6, <1>7 DEF IsStore
<1> QED BY <1>1, <1>2, <1>6, <1>8

-----------------------------------------------------------------------------
(* The catalog and the store.                                              *)

\* The version has a manifest, and the first one it has.
Backed(s, v) == \E i \in DOMAIN s.manifests : s.manifests[i].version = v
ManifestIn(s, v) == s.manifests[Min({i \in DOMAIN s.manifests : s.manifests[i].version = v})]

\* A snapshot that may be recorded: of a prefix of the catalog, and of documents in the store.
Placed(c, s, snapshot) ==
  /\ snapshot.position \in 0..Len(c)
  /\ \A ref \in snapshot.refs : Known(s, ref[1], ref[2])

Stored(c, s) ==
  \A i \in DOMAIN c :
    c[i].kind = "document_version" =>
      [did |-> c[i].did, version |-> c[i].version, document |-> c[i].document] \in s.content
Recorded(c, s) == \A i \in DOMAIN s.manifests : s.manifests[i].snapshot.position \in 0..Len(c)
Activated(s) == \A i \in DOMAIN s.activations : Backed(s, s.activations[i])

\* The catalog is the log of the store.
CatalogSound(c, s) ==
  /\ IsSeq(c) /\ IsStore(s) /\ Replays(c, s)
  /\ Stored(c, s) /\ Recorded(c, s) /\ Activated(s)

\* What may happen to a store under a request that is bound to one of its versions.
Extends(s, t) ==
  /\ s.content \subseteq t.content
  /\ \A v : Backed(s, v) => Backed(t, v) /\ ManifestIn(t, v) = ManifestIn(s, v)

LEMMA SameManifests ==
  ASSUME NEW s, NEW t, s.content \subseteq t.content, t.manifests = s.manifests
  PROVE  Extends(s, t)
BY DEF Extends, Backed, ManifestIn

LEMMA OneMoreManifest ==
  ASSUME NEW s, NEW t, s.content \subseteq t.content, IsSeq(s.manifests),
         NEW m, t.manifests = Append(s.manifests, m)
  PROVE  Extends(s, t)
<1> SUFFICES ASSUME NEW v, Backed(s, v) PROVE Backed(t, v) /\ ManifestIn(t, v) = ManifestIn(s, v)
  BY DEF Extends
<1>1. PICK ms : ms = s.manifests
  OBVIOUS
<1>2. PICK ns : ns = t.manifests
  OBVIOUS
<1>3. PICK L \in Nat : L = Len(ms) /\ DOMAIN ms = 1..L
  BY <1>1, SeqFacts
<1>4. DOMAIN ns = 1..L+1 /\ \A i \in 1..L : ns[i] = ms[i]
  BY <1>1, <1>2, <1>3, AppendFacts
<1>5. PICK T : T = {i \in 1..L : ms[i].version = v}
  OBVIOUS
<1>6. PICK U : U = {i \in 1..L+1 : ns[i].version = v}
  OBVIOUS
<1>7. T \in SUBSET Nat /\ T # {}
  BY <1>1, <1>3, <1>5 DEF Backed
<1>8. Min(T) \in T /\ \A y \in T : Min(T) <= y
  BY <1>7, MinOf
<1>9. T \subseteq U /\ \A i \in U : i \in T \/ i = L + 1
  BY <1>4, <1>5, <1>6
<1>10. U \in SUBSET Nat /\ U # {}
  <2>1. \A i \in 1..L+1 : i \in Nat
    OBVIOUS
  <2>2. U \in SUBSET Nat
    BY <1>6, <2>1
  <2>3. U # {}
    BY <1>7, <1>9
  <2> QED BY <2>2, <2>3
<1>11. Min(U) \in U /\ \A y \in U : Min(U) <= y
  BY <1>10, MinOf
<1>12. PICK a \in 1..L : a = Min(T)
  BY <1>5, <1>8
<1>13. PICK b \in Nat : b = Min(U)
  BY <1>10, <1>11
<1>14. b <= a /\ (b \in T => a <= b) /\ (b \in T \/ b = L + 1)
  BY <1>8, <1>9, <1>11, <1>12, <1>13
<1>15. a = b
  BY <1>14
<1>16. ns[b] = ms[a]
  BY <1>4, <1>15
<1>17. ManifestIn(s, v) = ms[a] /\ ManifestIn(t, v) = ns[b]
  BY <1>1, <1>2, <1>3, <1>4, <1>5, <1>6, <1>12, <1>13 DEF ManifestIn
<1>18. Backed(t, v)
  BY <1>2, <1>4, <1>6, <1>10 DEF Backed
<1> QED BY <1>16, <1>17, <1>18

LEMMA KnownStays ==
  ASSUME NEW s, NEW t, s.content \subseteq t.content, NEW did, NEW n, Known(s, did, n)
  PROVE  Known(t, did, n)
BY DEF Known

\* One more entry, legal where it stands.
LEMMA OneMoreEntry ==
  ASSUME NEW c, NEW s, CatalogSound(c, s), NEW e, Legal(s, e),
         NEW t, t = Apply(s, e), IsStore(t), s.content \subseteq t.content,
         e.kind = "document_version" =>
           [did |-> e.did, version |-> e.version, document |-> e.document] \in t.content,
         \A i \in DOMAIN t.manifests : t.manifests[i].snapshot.position \in 0..Len(c),
         Activated(t)
  PROVE  CatalogSound(Append(c, e), t) /\ Len(Append(c, e)) = Len(c) + 1
<1>1. IsSeq(c) /\ Stored(c, s)
  BY DEF CatalogSound
<1>2. PICK L \in Nat : L = Len(c) /\ DOMAIN c = 1..L
  BY <1>1, SeqFacts
<1>3. PICK d : d = Append(c, e)
  OBVIOUS
<1>4. IsSeq(d) /\ Len(d) = L + 1 /\ DOMAIN d = 1..L+1 /\ d[L + 1] = e /\ \A i \in 1..L : d[i] = c[i]
  BY <1>1, <1>2, <1>3, AppendFacts
<1>5. Replays(d, t)
  BY <1>1, <1>3, ReplaysOneMore DEF CatalogSound
<1>6. Stored(d, t)
  <2> SUFFICES ASSUME NEW i \in 1..L+1, d[i].kind = "document_version"
               PROVE  [did |-> d[i].did, version |-> d[i].version, document |-> d[i].document] \in t.content
    BY <1>4 DEF Stored
  <2>1. CASE i = L + 1
    BY <1>4, <2>1
  <2>2. CASE i # L + 1
    <3>1. i \in 1..L
      BY <2>2
    <3>2. d[i] = c[i]
      BY <1>4, <3>1
    <3> QED BY <1>1, <1>2, <3>1, <3>2 DEF Stored
  <2> QED BY <2>1, <2>2
<1>7. Recorded(d, t)
  <2>1. \A p \in 0..L : p \in 0..L+1
    OBVIOUS
  <2> QED BY <1>2, <1>4, <2>1 DEF Recorded
<1>8. CatalogSound(d, t)
  BY <1>4, <1>5, <1>6, <1>7 DEF CatalogSound
<1> QED BY <1>2, <1>3, <1>4, <1>8

LEMMA ActivatedStays ==
  ASSUME NEW s, NEW t, Activated(s), Extends(s, t), t.activations = s.activations
  PROVE  Activated(t)
BY DEF Activated, Extends

LEMMA SoundVocabulary ==
  ASSUME NEW c, NEW s, CatalogSound(c, s), NEW v, VocabularyLegal(s, v),
         NEW e, e = [kind |-> "vocabulary_version", vocabulary |-> v],
         NEW t, t = Apply(s, e)
  PROVE  CatalogSound(Append(c, e), t) /\ Extends(s, t) /\ Len(Append(c, e)) = Len(c) + 1
<1>1. IsStore(t) /\ t.content = s.content /\ t.manifests = s.manifests /\ t.activations = s.activations
  BY ApplyVocabulary DEF CatalogSound
<1>2. Extends(s, t)
  BY <1>1, SameManifests
<1>3. Activated(t)
  BY <1>1, <1>2, ActivatedStays DEF CatalogSound
<1>4. Legal(s, e)
  BY DEF Legal
<1>5. \A i \in DOMAIN t.manifests : t.manifests[i].snapshot.position \in 0..Len(c)
  BY <1>1 DEF CatalogSound, Recorded
<1> QED BY <1>1, <1>2, <1>3, <1>4, <1>5, OneMoreEntry

LEMMA SoundDocument ==
  ASSUME NEW c, NEW s, CatalogSound(c, s), NEW did, NEW d,
         NEW e, e = [kind |-> "document_version", did |-> did,
                     version |-> Latest(s, did) + 1, document |-> d],
         NEW t, t = Apply(s, e)
  PROVE  CatalogSound(Append(c, e), t) /\ Extends(s, t) /\ Len(Append(c, e)) = Len(c) + 1
<1>1. PICK n : n = Latest(s, did) + 1
  OBVIOUS
<1>2. e = [kind |-> "document_version", did |-> did, version |-> n, document |-> d]
  BY <1>1
<1>3. PICK x : x = [did |-> did, version |-> n, document |-> d]
  OBVIOUS
<1>4. IsStore(t) /\ t.content = s.content \cup {x} /\ t.manifests = s.manifests
      /\ t.activations = s.activations
  BY <1>2, <1>3, ApplyDocument DEF CatalogSound
<1>5. s.content \subseteq t.content /\ [did |-> e.did, version |-> e.version, document |-> e.document] \in t.content
  BY <1>2, <1>3, <1>4
<1>6. Extends(s, t)
  BY <1>4, <1>5, SameManifests
<1>7. Activated(t)
  BY <1>4, <1>6, ActivatedStays DEF CatalogSound
<1>8. Legal(s, e)
  BY <1>1, <1>2 DEF Legal
<1>9. \A i \in DOMAIN t.manifests : t.manifests[i].snapshot.position \in 0..Len(c)
  BY <1>4 DEF CatalogSound, Recorded
<1> QED BY <1>4, <1>5, <1>6, <1>7, <1>8, <1>9, OneMoreEntry

LEMMA SoundDeprecation ==
  ASSUME NEW c, NEW s, CatalogSound(c, s), NEW did, NEW n,
         NEW e, e = [kind |-> "deprecation", did |-> did, version |-> n],
         NEW t, t = Apply(s, e)
  PROVE  CatalogSound(Append(c, e), t) /\ Extends(s, t) /\ Len(Append(c, e)) = Len(c) + 1
<1>1. IsStore(t) /\ t.content = s.content /\ t.manifests = s.manifests /\ t.activations = s.activations
  BY ApplyDeprecation DEF CatalogSound
<1>2. Extends(s, t)
  BY <1>1, SameManifests
<1>3. Activated(t)
  BY <1>1, <1>2, ActivatedStays DEF CatalogSound
<1>4. Legal(s, e)
  BY DEF Legal
<1>5. \A i \in DOMAIN t.manifests : t.manifests[i].snapshot.position \in 0..Len(c)
  BY <1>1 DEF CatalogSound, Recorded
<1> QED BY <1>1, <1>2, <1>3, <1>4, <1>5, OneMoreEntry

LEMMA SoundManifest ==
  ASSUME NEW c, NEW s, CatalogSound(c, s), NEW n, NEW x, Placed(c, s, x),
         NEW e, e = [kind |-> "manifest", manifest |-> [version |-> n, snapshot |-> x]],
         NEW t, t = Apply(s, e)
  PROVE  /\ CatalogSound(Append(c, e), t) /\ Extends(s, t) /\ Len(Append(c, e)) = Len(c) + 1
         /\ Backed(t, n)
<1>1. PICK m : m = [version |-> n, snapshot |-> x]
  OBVIOUS
<1>2. m.version = n /\ m.snapshot = x /\ e.manifest = m /\ e.kind = "manifest"
  BY <1>1
<1>3. e = [kind |-> "manifest", manifest |-> m]
  BY <1>1
<1>4. IsStore(t) /\ t.content = s.content /\ t.manifests = Append(s.manifests, m)
      /\ t.activations = s.activations
  BY <1>3, ApplyManifest DEF CatalogSound
<1>5. IsSeq(s.manifests)
  BY DEF CatalogSound, IsStore
<1>6. Extends(s, t)
  BY <1>4, <1>5, OneMoreManifest
<1>7. Activated(t)
  BY <1>4, <1>6, ActivatedStays DEF CatalogSound
<1>8. Legal(s, e)
  BY <1>2 DEF Legal, Placed
<1>9. PICK L \in Nat : L = Len(s.manifests) /\ DOMAIN s.manifests = 1..L
  BY <1>5, SeqFacts
<1>10. /\ DOMAIN t.manifests = 1..L+1 /\ t.manifests[L + 1] = m
       /\ \A i \in 1..L : t.manifests[i] = s.manifests[i]
  BY <1>4, <1>5, <1>9, AppendFacts
<1>11. ASSUME NEW i \in 1..L+1 PROVE t.manifests[i].snapshot.position \in 0..Len(c)
  <2>1. CASE i = L + 1
    BY <1>2, <1>10, <2>1 DEF Placed
  <2>2. CASE i # L + 1
    <3>1. i \in 1..L
      BY <2>2
    <3> QED BY <1>9, <1>10, <3>1 DEF CatalogSound, Recorded
  <2> QED BY <2>1, <2>2
<1>12. Backed(t, n)
  <2>1. L + 1 \in 1..L+1
    OBVIOUS
  <2> QED BY <1>2, <1>10, <2>1 DEF Backed
<1>13. \A i \in DOMAIN t.manifests : t.manifests[i].snapshot.position \in 0..Len(c)
  BY <1>10, <1>11
<1>14. s.content \subseteq t.content /\ e.kind # "document_version"
  BY <1>2, <1>4
<1>15. CatalogSound(Append(c, e), t) /\ Len(Append(c, e)) = Len(c) + 1
  BY <1>4, <1>7, <1>8, <1>13, <1>14, OneMoreEntry
<1> QED BY <1>6, <1>12, <1>15

LEMMA SoundActivation ==
  ASSUME NEW c, NEW s, CatalogSound(c, s), NEW n, Backed(s, n),
         NEW e, e = [kind |-> "activation", version |-> n],
         NEW t, t = Apply(s, e)
  PROVE  CatalogSound(Append(c, e), t) /\ Extends(s, t) /\ Len(Append(c, e)) = Len(c) + 1
<1>1. IsStore(t) /\ t.content = s.content /\ t.manifests = s.manifests
      /\ t.activations = Append(s.activations, n)
  BY ApplyActivation DEF CatalogSound
<1>2. Extends(s, t)
  BY <1>1, SameManifests
<1>3. IsSeq(s.activations)
  BY DEF CatalogSound, IsStore
<1>4. PICK L \in Nat : L = Len(s.activations) /\ DOMAIN s.activations = 1..L
  BY <1>3, SeqFacts
<1>5. /\ DOMAIN t.activations = 1..L+1 /\ t.activations[L + 1] = n
      /\ \A i \in 1..L : t.activations[i] = s.activations[i]
  BY <1>1, <1>3, <1>4, AppendFacts
<1>6. ASSUME NEW i \in 1..L+1 PROVE Backed(t, t.activations[i])
  <2>1. CASE i = L + 1
    BY <1>2, <1>5, <2>1 DEF Extends
  <2>2. CASE i # L + 1
    <3>1. i \in 1..L
      BY <2>2
    <3>2. Backed(s, s.activations[i])
      BY <1>4, <3>1 DEF CatalogSound, Activated
    <3> QED BY <1>2, <1>5, <3>1, <3>2 DEF Extends
  <2> QED BY <2>1, <2>2
<1>7. Activated(t)
  BY <1>5, <1>6 DEF Activated
<1>8. Legal(s, e)
  BY DEF Legal
<1>9. \A i \in DOMAIN t.manifests : t.manifests[i].snapshot.position \in 0..Len(c)
  BY <1>1 DEF CatalogSound, Recorded
<1> QED BY <1>1, <1>2, <1>7, <1>8, <1>9, OneMoreEntry

\* What compiles names documents of the store only.
LEMMA CompiledIsPlaced ==
  ASSUME CatalogSound(catalog, store), NEW p \in 0..Len(catalog),
         CompileSnapshot(p).outcome = "compiled"
  PROVE  Placed(catalog, store, CompileSnapshot(p).snapshot)
<1>1. PICK a : a = Assembled(p)
  OBVIOUS
<1>2. PICK w : w = catalog[Max(AsOf(p, "vocabulary_version"))].vocabulary
  OBVIOUS
<1>3. CompileSnapshot(p) = CompileSet(a, w, p)
  BY <1>1, <1>2 DEF CompileSnapshot
<1>4. PICK refs : refs = {<<v.did, v.version>> : v \in a}
  OBVIOUS
<1>5. /\ CompileSet(a, w, p).snapshot.position = p
      /\ CompileSet(a, w, p).snapshot.refs = refs
  <2>1. ASSUME NEW stage PROVE Rejected(stage).outcome # "compiled"
    BY DEF Rejected
  <2>2. PICK en : en = Entries(Cited(a))
    OBVIOUS
  <2>3. PICK fs : fs = DeclaredFacts(Cited(a))
    OBVIOUS
  <2>4. PICK x : x = [position |-> p, vocabulary |-> w.version, refs |-> refs, entries |-> en, facts |-> fs]
    OBVIOUS
  <2>5. PICK stage : CompileSet(a, w, p) = [outcome |-> "compiled", stage |-> "readiness", snapshot |-> x]
                     \/ CompileSet(a, w, p) = Rejected(stage)
    BY <1>4, <2>2, <2>3, <2>4 DEF CompileSet
  <2>6. CompileSet(a, w, p) = [outcome |-> "compiled", stage |-> "readiness", snapshot |-> x]
    BY <1>3, <2>1, <2>5
  <2>7. CompileSet(a, w, p).snapshot = x
    BY <2>6
  <2>8. x.position = p /\ x.refs = refs
    BY <2>4
  <2> QED BY <2>7, <2>8
<1>6. IsSeq(catalog) /\ Stored(catalog, store)
  BY DEF CatalogSound
<1>7. PICK L \in Nat : L = Len(catalog) /\ DOMAIN catalog = 1..L
  BY <1>6, SeqFacts
<1>8. ASSUME NEW v \in a PROVE Known(store, v.did, v.version)
  <2>1. v \in DocumentsAsOf(p)
    BY <1>1 DEF Assembled
  <2>2. PICK i \in AsOf(p, "document_version") :
          v = [did |-> catalog[i].did, version |-> catalog[i].version, document |-> catalog[i].document]
    BY <2>1 DEF DocumentsAsOf
  <2>3. i \in 1..L /\ catalog[i].kind = "document_version"
    BY <1>7, <2>2 DEF AsOf
  <2>4. v \in store.content
    BY <1>6, <1>7, <2>2, <2>3 DEF Stored
  <2> QED BY <2>4 DEF Known
<1>9. ASSUME NEW ref \in refs PROVE Known(store, ref[1], ref[2])
  <2>1. PICK v \in a : ref = <<v.did, v.version>>
    BY <1>4
  <2>2. ref[1] = v.did /\ ref[2] = v.version
    BY <2>1
  <2> QED BY <1>8, <2>2
<1> QED BY <1>3, <1>5, <1>9 DEF Placed

-----------------------------------------------------------------------------
(* The ledger and its slices.                                              *)

\* A revocation has the scope of the grant it names.
Inherits(l) == \A i \in DOMAIN l : l[i].kind # "grant" => l[i].scope = l[l[i].grant].scope
LedgerSound(l) == IsSeq(l) /\ LedgerReplays(l) /\ Inherits(l)

SliceIn(l, ep, p) ==
  Restrict(l, {i \in 1..p :
    \/ l[i].scope = <<"request", ep.request>>
    \/ i <= ep.baseline /\ l[i].scope = <<"principal", ep.principal>>})

\* What the manifest of the stamp answers for the ledger as of a position.
AnswerIn(s, l, ep, p, q) == Evaluate(ManifestIn(s, ep.version).snapshot, SliceIn(l, ep, p), q)

LEMMA SliceStays ==
  ASSUME NEW l, IsSeq(l), NEW e, NEW ep, NEW p \in 0..Len(l)
  PROVE  SliceIn(Append(l, e), ep, p) = SliceIn(l, ep, p)
<1>1. PICK L \in Nat : L = Len(l) /\ DOMAIN l = 1..L
  BY SeqFacts
<1>2. PICK m : m = Append(l, e)
  OBVIOUS
<1>3. \A i \in 1..L : m[i] = l[i]
  BY <1>1, <1>2, AppendFacts
<1>4. \A i \in 1..p : m[i] = l[i]
  <2>1. p \in 0..L
    BY <1>1
  <2>2. \A i \in 1..p : i \in 1..L
    BY <2>1
  <2> QED BY <1>3, <2>2
<1>5. PICK D : D = {i \in 1..p :
                     \/ l[i].scope = <<"request", ep.request>>
                     \/ i <= ep.baseline /\ l[i].scope = <<"principal", ep.principal>>}
  OBVIOUS
<1>6. D = {i \in 1..p :
            \/ m[i].scope = <<"request", ep.request>>
            \/ i <= ep.baseline /\ m[i].scope = <<"principal", ep.principal>>}
  BY <1>4, <1>5
<1>7. [i \in D |-> m[i]] = [i \in D |-> l[i]]
  BY <1>4, <1>5
<1> QED BY <1>2, <1>5, <1>6, <1>7 DEF SliceIn, Restrict

\* The slice changes only with a record of the request, once the admission is past.
LEMMA SliceFrozen ==
  ASSUME NEW l, NEW ep, NEW p \in Nat, NEW o \in Nat, ep.baseline \in 0..p, p <= o,
         \A i \in (p + 1)..o : l[i].scope # <<"request", ep.request>>
  PROVE  SliceIn(l, ep, p) = SliceIn(l, ep, o)
<1>1. ASSUME NEW i
      PROVE  /\ i \in 1..p
             /\ \/ l[i].scope = <<"request", ep.request>>
                \/ i <= ep.baseline /\ l[i].scope = <<"principal", ep.principal>>
             <=>
             /\ i \in 1..o
             /\ \/ l[i].scope = <<"request", ep.request>>
                \/ i <= ep.baseline /\ l[i].scope = <<"principal", ep.principal>>
  <2>1. i \in 1..p => i \in 1..o
    OBVIOUS
  <2>2. i \in 1..o => i \in 1..p \/ i \in (p + 1)..o
    OBVIOUS
  <2>3. i \in (p + 1)..o => ~(i <= ep.baseline)
    OBVIOUS
  <2> QED BY <2>1, <2>2, <2>3
<1>2. {i \in 1..p : \/ l[i].scope = <<"request", ep.request>>
                    \/ i <= ep.baseline /\ l[i].scope = <<"principal", ep.principal>>}
      = {i \in 1..o : \/ l[i].scope = <<"request", ep.request>>
                      \/ i <= ep.baseline /\ l[i].scope = <<"principal", ep.principal>>}
  BY <1>1
<1> QED BY <1>2 DEF SliceIn

LEMMA EmptyLedgerIsSound == LedgerSound(<<>>)
BY EmptyIsSeq DEF LedgerSound, LedgerReplays, Inherits

LEMMA SoundGrant ==
  ASSUME NEW l, LedgerSound(l), NEW sig, NEW scope,
         NEW e, e = [kind |-> "grant", grant |-> Len(l) + 1, signature |-> sig, scope |-> scope]
  PROVE  LedgerSound(Append(l, e))
<1>1. IsSeq(l) /\ LedgerReplays(l) /\ Inherits(l)
  BY DEF LedgerSound
<1>2. PICK L \in Nat : L = Len(l) /\ DOMAIN l = 1..L
  BY <1>1, SeqFacts
<1>3. PICK m : m = Append(l, e)
  OBVIOUS
<1>4. IsSeq(m) /\ DOMAIN m = 1..L+1 /\ m[L + 1] = e /\ \A i \in 1..L : m[i] = l[i]
  BY <1>1, <1>2, <1>3, AppendFacts
<1>5. e.kind = "grant" /\ e.grant = L + 1
  BY <1>2
<1>6. ASSUME NEW i \in 1..L+1
      PROVE  /\ IF m[i].kind = "grant" THEN m[i].grant = i
                ELSE m[i].grant \in 1..(i - 1) /\ m[m[i].grant].kind = "grant"
             /\ m[i].kind # "grant" => m[i].scope = m[m[i].grant].scope
  <2>1. CASE i = L + 1
    BY <1>4, <1>5, <2>1
  <2>2. CASE i # L + 1
    <3>1. i \in 1..L /\ m[i] = l[i]
      BY <1>4, <2>2
    <3>2. CASE l[i].kind = "grant"
      BY <1>1, <1>2, <3>1, <3>2 DEF LedgerReplays
    <3>3. CASE l[i].kind # "grant"
      <4>1. l[i].grant \in 1..(i - 1) /\ l[l[i].grant].kind = "grant" /\ l[i].scope = l[l[i].grant].scope
        BY <1>1, <1>2, <3>1, <3>3 DEF LedgerReplays, Inherits
      <4>2. l[i].grant \in 1..L
        BY <3>1, <4>1
      <4>3. m[l[i].grant] = l[l[i].grant]
        BY <1>4, <4>2
      <4> QED BY <3>1, <3>3, <4>1, <4>3
    <3> QED BY <3>2, <3>3
  <2> QED BY <2>1, <2>2
<1>7. LedgerReplays(m) /\ Inherits(m)
  BY <1>4, <1>6 DEF LedgerReplays, Inherits
<1> QED BY <1>3, <1>4, <1>7 DEF LedgerSound

LEMMA SoundRevocation ==
  ASSUME NEW l, LedgerSound(l), NEW g \in DOMAIN l, l[g].kind = "grant",
         NEW e, e = [kind |-> "revocation", grant |-> g, signature |-> l[g].signature,
                     scope |-> l[g].scope]
  PROVE  LedgerSound(Append(l, e))
<1>1. IsSeq(l) /\ LedgerReplays(l) /\ Inherits(l)
  BY DEF LedgerSound
<1>2. PICK L \in Nat : L = Len(l) /\ DOMAIN l = 1..L
  BY <1>1, SeqFacts
<1>3. PICK m : m = Append(l, e)
  OBVIOUS
<1>4. IsSeq(m) /\ DOMAIN m = 1..L+1 /\ m[L + 1] = e /\ \A i \in 1..L : m[i] = l[i]
  BY <1>1, <1>2, <1>3, AppendFacts
<1>5. e.kind = "revocation" /\ e.grant = g /\ e.scope = l[g].scope /\ g \in 1..L /\ m[g] = l[g]
  BY <1>2, <1>4
<1>6. ASSUME NEW i \in 1..L+1
      PROVE  /\ IF m[i].kind = "grant" THEN m[i].grant = i
                ELSE m[i].grant \in 1..(i - 1) /\ m[m[i].grant].kind = "grant"
             /\ m[i].kind # "grant" => m[i].scope = m[m[i].grant].scope
  <2>1. CASE i = L + 1
    <3>1. g \in 1..(i - 1)
      BY <1>5, <2>1
    <3> QED BY <1>4, <1>5, <2>1, <3>1
  <2>2. CASE i # L + 1
    <3>1. i \in 1..L /\ m[i] = l[i]
      BY <1>4, <2>2
    <3>2. CASE l[i].kind = "grant"
      BY <1>1, <1>2, <3>1, <3>2 DEF LedgerReplays
    <3>3. CASE l[i].kind # "grant"
      <4>1. l[i].grant \in 1..(i - 1) /\ l[l[i].grant].kind = "grant" /\ l[i].scope = l[l[i].grant].scope
        BY <1>1, <1>2, <3>1, <3>3 DEF LedgerReplays, Inherits
      <4>2. l[i].grant \in 1..L
        BY <3>1, <4>1
      <4>3. m[l[i].grant] = l[l[i].grant]
        BY <1>4, <4>2
      <4> QED BY <3>1, <3>3, <4>1, <4>3
    <3> QED BY <3>2, <3>3
  <2> QED BY <2>1, <2>2
<1>7. LedgerReplays(m) /\ Inherits(m)
  BY <1>4, <1>6 DEF LedgerReplays, Inherits
<1> QED BY <1>3, <1>4, <1>7 DEF LedgerSound

\* An answer rests on a grant only if the slice has it, and no revocation of it.
LEMMA GrantIsApplicable ==
  ASSUME NEW x, NEW slice, NEW q, DOMAIN slice \in SUBSET Nat,
         NEW a, a = Evaluate(x, slice, q), a.grant # None
  PROVE  \E n \in Applicable(slice, q) : a.grant = slice[n].grant
<1>1. \A code : IllPosed(code).grant = None
  BY DEF IllPosed
<1>2. Refused.grant = None
  BY DEF Refused
<1>3. a = Decide(x, slice, q)
  BY <1>1, <1>2 DEF Evaluate
<1>4. PICK granted \in BOOLEAN :
        granted = (/\ ~Winner(x, q.domain, q).rule.final
                   /\ Winner(x, q.domain, q).rule.kind = "REQUIRE_APPROVAL"
                   /\ Applicable(slice, q) # {})
  OBVIOUS
<1>5. PICK given : given = IF granted THEN slice[Min(Applicable(slice, q))].grant ELSE None
  OBVIOUS
<1>6. a.grant = given
  <2>1. PICK kind, code, limits :
          \/ a = IllPosed("incomparable_condition")
          \/ a = [kind |-> kind, code |-> code, grant |-> given, limits |-> limits]
    BY <1>3, <1>4, <1>5 DEF Decide
  <2>2. a = [kind |-> kind, code |-> code, grant |-> given, limits |-> limits]
    BY <1>1, <2>1
  <2> QED BY <2>2
<1>7. granted
  BY <1>5, <1>6
<1>8. Applicable(slice, q) # {}
  BY <1>4, <1>7
<1>9. Applicable(slice, q) \in SUBSET Nat
  BY DEF Applicable
<1>10. Min(Applicable(slice, q)) \in Applicable(slice, q)
  BY <1>8, <1>9, MinOf
<1> QED BY <1>5, <1>6, <1>7, <1>10

-----------------------------------------------------------------------------
(* The runtime.                                                            *)

ViewsSound(s, l, vw) ==
  /\ vw = [r \in Requests |-> vw[r]]
  /\ \A r \in Requests :
       vw[r] # None => vw[r].baseline \in 0..Len(l) /\ Backed(s, vw[r].version)

WarmSound(s, w) == \A v \in DOMAIN w : Backed(s, v) /\ w[v] = ManifestIn(s, v).snapshot

\* A memoized answer is the one of the view that its request still has.
MemoSound(s, l, vw, m) ==
  \A k \in DOMAIN m :
    /\ k[3] \in Questions /\ k[2] \in 0..Len(l)
    /\ vw[k[3].request] # None /\ vw[k[3].request].version = k[1]
    /\ m[k] = AnswerIn(s, l, vw[k[3].request], k[2], k[3])

DecidedSound(s, l, ds) ==
  \A d \in ds :
    /\ d.position \in 0..Len(l) /\ d.ep.baseline \in 0..d.position
    /\ Backed(s, d.ep.version)
    /\ d.answer = Refused \/ d.answer = AnswerIn(s, l, d.ep, d.position, d.question)

RuntimeSound(s, l, vw, w, m, ds) ==
  ViewsSound(s, l, vw) /\ WarmSound(s, w) /\ MemoSound(s, l, vw, m) /\ DecidedSound(s, l, ds)

\* The runtime stays sound while the store is extended ...
LEMMA StoreMayGrow ==
  ASSUME NEW s, NEW l, NEW vw, NEW w, NEW m, NEW ds, RuntimeSound(s, l, vw, w, m, ds),
         NEW t, Extends(s, t)
  PROVE  RuntimeSound(t, l, vw, w, m, ds)
<1>1. ASSUME NEW v, Backed(s, v) PROVE Backed(t, v) /\ ManifestIn(t, v) = ManifestIn(s, v)
  BY <1>1 DEF Extends
<1>2. ViewsSound(t, l, vw)
  BY <1>1 DEF RuntimeSound, ViewsSound
<1>3. WarmSound(t, w)
  BY <1>1 DEF RuntimeSound, WarmSound
<1>4. ASSUME NEW ep, Backed(s, ep.version), NEW p, NEW q
      PROVE  AnswerIn(t, l, ep, p, q) = AnswerIn(s, l, ep, p, q)
  BY <1>1, <1>4 DEF AnswerIn
<1>5. ASSUME NEW k \in DOMAIN m
      PROVE  /\ k[3] \in Questions /\ k[2] \in 0..Len(l)
             /\ vw[k[3].request] # None /\ vw[k[3].request].version = k[1]
             /\ m[k] = AnswerIn(t, l, vw[k[3].request], k[2], k[3])
  <2>1. /\ k[3] \in Questions /\ k[2] \in 0..Len(l)
        /\ vw[k[3].request] # None /\ vw[k[3].request].version = k[1]
        /\ m[k] = AnswerIn(s, l, vw[k[3].request], k[2], k[3])
    BY DEF RuntimeSound, MemoSound
  <2>2. k[3].request \in Requests
    BY <2>1, GovernanceAssumption
  <2>3. Backed(s, vw[k[3].request].version)
    BY <2>1, <2>2 DEF RuntimeSound, ViewsSound
  <2> QED BY <1>4, <2>1, <2>3
<1>6. MemoSound(t, l, vw, m)
  BY <1>5 DEF MemoSound
<1>7. DecidedSound(t, l, ds)
  BY <1>1, <1>4 DEF RuntimeSound, DecidedSound
<1> QED BY <1>2, <1>3, <1>6, <1>7 DEF RuntimeSound

\* ... and while the ledger is.
LEMMA LedgerMayGrow ==
  ASSUME NEW s, NEW l, NEW vw, NEW w, NEW m, NEW ds, RuntimeSound(s, l, vw, w, m, ds),
         IsSeq(l), NEW e, NEW k, k = Append(l, e)
  PROVE  RuntimeSound(s, k, vw, w, m, ds)
<1>1. PICK L \in Nat : L = Len(l) /\ Len(k) = L + 1
  BY SeqFacts, AppendFacts
<1>2. \A p \in 0..Len(l) : p \in 0..Len(k)
  BY <1>1
<1>3. ViewsSound(s, k, vw)
  BY <1>2 DEF RuntimeSound, ViewsSound
<1>4. WarmSound(s, w)
  BY DEF RuntimeSound
<1>5. ASSUME NEW ep, NEW p \in 0..Len(l), NEW q
      PROVE  AnswerIn(s, k, ep, p, q) = AnswerIn(s, l, ep, p, q)
  <2>1. SliceIn(k, ep, p) = SliceIn(l, ep, p)
    BY SliceStays
  <2> QED BY <2>1 DEF AnswerIn
<1>6. MemoSound(s, k, vw, m)
  BY <1>2, <1>5 DEF RuntimeSound, MemoSound
<1>7. DecidedSound(s, k, ds)
  BY <1>2, <1>5 DEF RuntimeSound, DecidedSound
<1> QED BY <1>3, <1>4, <1>6, <1>7 DEF RuntimeSound

-----------------------------------------------------------------------------
(* The inductive invariant.                                                *)

CandidateSound(c, s, x) == x # None /\ x.outcome = "compiled" => Placed(c, s, x.snapshot)

IInv ==
  /\ CatalogSound(catalog, store)
  /\ CandidateSound(catalog, store, candidate)
  /\ LedgerSound(ledger)
  /\ RuntimeSound(store, ledger, views, warm, memo, decided)

LEMMA InitSound == Init => IInv
<1> SUFFICES ASSUME Init PROVE IInv
  OBVIOUS
<1>1. CatalogSound(catalog, store)
  <2>1. IsSeq(catalog) /\ IsStore(store) /\ Replays(catalog, store)
    BY EmptyIsSeq, EmptyIsStore, ReplaysNothing DEF Init
  <2>2. Stored(catalog, store)
    BY EmptyIsSeq DEF Init, Stored
  <2>3. store.manifests = <<>> /\ store.activations = <<>>
    BY DEF Init, EmptyStore
  <2>4. Recorded(catalog, store) /\ Activated(store)
    BY <2>3, EmptyIsSeq DEF Recorded, Activated
  <2> QED BY <2>1, <2>2, <2>4 DEF CatalogSound
<1>2. CandidateSound(catalog, store, candidate)
  BY DEF Init, CandidateSound
<1>3. LedgerSound(ledger)
  BY EmptyLedgerIsSound DEF Init
<1>4. ViewsSound(store, ledger, views)
  BY DEF Init, ViewsSound
<1>5. WarmSound(store, warm)
  BY EmptyIsSeq DEF Init, WarmSound
<1>6. MemoSound(store, ledger, views, memo)
  BY EmptyIsSeq DEF Init, MemoSound
<1>7. DecidedSound(store, ledger, decided)
  BY DEF Init, DecidedSound
<1> QED BY <1>1, <1>2, <1>3, <1>4, <1>5, <1>6, <1>7 DEF IInv, RuntimeSound

LEMMA PlacedStays ==
  ASSUME NEW c, NEW s, NEW x, Placed(c, s, x), NEW d, NEW t, Len(c) \in Nat, Len(d) \in Nat,
         Len(c) <= Len(d), s.content \subseteq t.content
  PROVE  Placed(d, t, x)
<1>1. \A p \in 0..Len(c) : p \in 0..Len(d)
  OBVIOUS
<1>2. \A ref \in x.refs : Known(t, ref[1], ref[2])
  BY KnownStays DEF Placed
<1> QED BY <1>1, <1>2 DEF Placed

\* A step that adds to the catalog only.
LEMMA CatalogStep ==
  ASSUME IInv, CatalogSound(catalog', store'), Extends(store, store'),
         Len(catalog) <= Len(catalog'), UNCHANGED <<candidate, ledger, runtimeVars>>
  PROVE  IInv'
<1>1. Len(catalog) \in Nat /\ Len(catalog') \in Nat
  BY SeqFacts DEF IInv, CatalogSound
<1>2. CandidateSound(catalog', store', candidate)
  BY <1>1, PlacedStays DEF IInv, CandidateSound, Extends
<1>3. RuntimeSound(store', ledger, views, warm, memo, decided)
  BY StoreMayGrow DEF IInv
<1>4. candidate' = candidate /\ ledger' = ledger /\ views' = views /\ warm' = warm
      /\ memo' = memo /\ decided' = decided
  BY DEF runtimeVars
<1>5. LedgerSound(ledger)
  BY DEF IInv
<1>6. /\ CandidateSound(catalog', store', candidate') /\ LedgerSound(ledger')
      /\ RuntimeSound(store', ledger', views', warm', memo', decided')
  BY <1>2, <1>3, <1>4, <1>5
<1> QED BY <1>6 DEF IInv

LEMMA AppendVocabularySound == ASSUME IInv, NEW v, AppendVocabulary(v) PROVE IInv'
<1>1. PICK e : e = [kind |-> "vocabulary_version", vocabulary |-> v]
  OBVIOUS
<1>2. catalog' = Append(catalog, e) /\ store' = Apply(store, e) /\ VocabularyLegal(store, v)
  BY <1>1 DEF AppendVocabulary, Record
<1>3. CatalogSound(catalog', store') /\ Extends(store, store') /\ Len(catalog') = Len(catalog) + 1
  BY <1>1, <1>2, SoundVocabulary DEF IInv
<1>4. Len(catalog) \in Nat
  BY SeqFacts DEF IInv, CatalogSound
<1>5. UNCHANGED <<candidate, ledger, runtimeVars>>
  BY DEF AppendVocabulary
<1> QED BY <1>3, <1>4, <1>5, CatalogStep

LEMMA AppendDocumentSound == ASSUME IInv, NEW d, AppendDocument(d) PROVE IInv'
<1>1. PICK did : did = DocId(d)
  OBVIOUS
<1>2. PICK e : e = [kind |-> "document_version", did |-> did,
                    version |-> Latest(store, did) + 1, document |-> d]
  OBVIOUS
<1>3. catalog' = Append(catalog, e) /\ store' = Apply(store, e)
  BY <1>1, <1>2 DEF AppendDocument, Record
<1>4. CatalogSound(catalog', store') /\ Extends(store, store') /\ Len(catalog') = Len(catalog) + 1
  BY <1>2, <1>3, SoundDocument DEF IInv
<1>5. Len(catalog) \in Nat
  BY SeqFacts DEF IInv, CatalogSound
<1>6. UNCHANGED <<candidate, ledger, runtimeVars>>
  BY DEF AppendDocument
<1> QED BY <1>4, <1>5, <1>6, CatalogStep

LEMMA AppendDeprecationSound ==
  ASSUME IInv, NEW did, NEW n, AppendDeprecation(did, n) PROVE IInv'
<1>1. PICK e : e = [kind |-> "deprecation", did |-> did, version |-> n]
  OBVIOUS
<1>2. catalog' = Append(catalog, e) /\ store' = Apply(store, e)
  BY <1>1 DEF AppendDeprecation, Record
<1>3. CatalogSound(catalog', store') /\ Extends(store, store') /\ Len(catalog') = Len(catalog) + 1
  BY <1>1, <1>2, SoundDeprecation DEF IInv
<1>4. Len(catalog) \in Nat
  BY SeqFacts DEF IInv, CatalogSound
<1>5. UNCHANGED <<candidate, ledger, runtimeVars>>
  BY DEF AppendDeprecation
<1> QED BY <1>3, <1>4, <1>5, CatalogStep

LEMMA CompileSound == ASSUME IInv, Compile PROVE IInv'
<1>1. /\ candidate' = CompileSnapshot(Len(catalog))
      /\ catalog' = catalog /\ store' = store /\ ledger' = ledger /\ views' = views
      /\ warm' = warm /\ memo' = memo /\ decided' = decided
  BY DEF Compile, runtimeVars
<1>2. Len(catalog) \in Nat /\ CatalogSound(catalog, store)
  BY SeqFacts DEF IInv, CatalogSound
<1>3. Len(catalog) \in 0..Len(catalog)
  BY <1>2
<1>4. CandidateSound(catalog, store, CompileSnapshot(Len(catalog)))
  BY <1>2, <1>3, CompiledIsPlaced DEF CandidateSound
<1> QED BY <1>1, <1>4 DEF IInv

\* Both ends of an activation: with its activation fact, and without.
LEMMA ActivationSound ==
  ASSUME IInv, NEW x, Placed(catalog, store, x),
         NEW e, e = ManifestEntry(x),
         NEW f, f = [kind |-> "activation", version |-> NextVersion],
         UNCHANGED <<candidate, ledger, runtimeVars>>,
         \/ catalog' = Append(catalog, e) /\ store' = Apply(store, e)
         \/ catalog' = Append(Append(catalog, e), f) /\ store' = Apply(Apply(store, e), f)
  PROVE  IInv'
<1>1. PICK n : n = NextVersion
  OBVIOUS
<1>2. PICK c : c = Append(catalog, e)
  OBVIOUS
<1>3. PICK s : s = Apply(store, e)
  OBVIOUS
<1>4. e = [kind |-> "manifest", manifest |-> [version |-> n, snapshot |-> x]]
  BY <1>1 DEF ManifestEntry
<1>5. CatalogSound(c, s) /\ Extends(store, s) /\ Len(c) = Len(catalog) + 1 /\ Backed(s, n)
  BY <1>2, <1>3, <1>4, SoundManifest DEF IInv
<1>6. Len(catalog) \in Nat
  BY SeqFacts DEF IInv, CatalogSound
<1>7. CASE catalog' = c /\ store' = s
  BY <1>5, <1>6, <1>7, CatalogStep
<1>8. CASE catalog' = Append(c, f) /\ store' = Apply(s, f)
  <2>1. f = [kind |-> "activation", version |-> n]
    BY <1>1
  <2>2. CatalogSound(catalog', store') /\ Extends(s, store') /\ Len(catalog') = Len(c) + 1
    BY <1>5, <1>8, <2>1, SoundActivation
  <2>3. Extends(store, store')
    BY <1>5, <2>2 DEF Extends
  <2> QED BY <1>5, <1>6, <2>2, <2>3, CatalogStep
<1> QED BY <1>2, <1>3, <1>7, <1>8

LEMMA ActivateAnyway ==
  ASSUME IInv, NEW result, ActivateResult(result) \/ ActivateHalf(result), UNCHANGED candidate,
         result.outcome = "compiled" => Placed(catalog, store, result.snapshot)
  PROVE  IInv'
<1>1. PICK e : e = ManifestEntry(result.snapshot)
  OBVIOUS
<1>2. PICK f : f = [kind |-> "activation", version |-> NextVersion]
  OBVIOUS
<1>3. \/ catalog' = Append(catalog, e) /\ store' = Apply(store, e)
      \/ catalog' = Append(Append(catalog, e), f) /\ store' = Apply(Apply(store, e), f)
  BY <1>1, <1>2 DEF ActivateResult, ActivateHalf, Record
<1>4. UNCHANGED <<candidate, ledger, runtimeVars>> /\ Placed(catalog, store, result.snapshot)
  BY DEF ActivateResult, ActivateHalf
<1> QED BY <1>1, <1>2, <1>3, <1>4, ActivationSound

LEMMA ActivateSound == ASSUME IInv, Activate PROVE IInv'
<1>1. UNCHANGED candidate /\ candidate # None /\ (ActivateResult(candidate) \/ ActivateHalf(candidate))
  BY DEF Activate
<1>2. candidate.outcome = "compiled" => Placed(catalog, store, candidate.snapshot)
  BY <1>1 DEF IInv, CandidateSound
<1> QED BY <1>1, <1>2, ActivateAnyway

LEMMA RollbackSound ==
  ASSUME IInv, NEW i \in DOMAIN store.manifests, Rollback(i) PROVE IInv'
<1>1. PICK p : p = store.manifests[i].snapshot.position
  OBVIOUS
<1>2. p \in 0..Len(catalog) /\ CatalogSound(catalog, store)
  BY <1>1 DEF IInv, CatalogSound, Recorded
<1>3. PICK result : result = CompileSnapshot(p)
  OBVIOUS
<1>4. UNCHANGED candidate /\ (ActivateResult(result) \/ ActivateHalf(result))
  BY <1>1, <1>3 DEF Rollback
<1>5. result.outcome = "compiled" => Placed(catalog, store, result.snapshot)
  BY <1>2, <1>3, CompiledIsPlaced
<1> QED BY <1>4, <1>5, ActivateAnyway

\* A step that adds to the ledger only.
LEMMA LedgerStep ==
  ASSUME IInv, NEW e, AppendRecord(e), LedgerSound(Append(ledger, e))
  PROVE  IInv'
<1>1. /\ ledger' = Append(ledger, e) /\ candidate' = candidate
      /\ catalog' = catalog /\ store' = store /\ views' = views
      /\ warm' = warm /\ memo' = memo /\ decided' = decided
  BY DEF AppendRecord, runtimeVars
<1>2. PICK l : l = Append(ledger, e)
  OBVIOUS
<1>3. RuntimeSound(store, l, views, warm, memo, decided)
  BY <1>2, LedgerMayGrow DEF IInv, LedgerSound
<1> QED BY <1>1, <1>2, <1>3 DEF IInv

LEMMA GrantSound == ASSUME IInv, NEW sig, NEW scope, Grant(sig, scope) PROVE IInv'
<1>1. PICK e : e = [kind |-> "grant", grant |-> Len(ledger) + 1, signature |-> sig, scope |-> scope]
  OBVIOUS
<1>2. AppendRecord(e)
  BY <1>1 DEF Grant
<1>3. LedgerSound(Append(ledger, e))
  BY <1>1, SoundGrant DEF IInv
<1> QED BY <1>2, <1>3, LedgerStep

LEMMA RevokeSound == ASSUME IInv, NEW g \in DOMAIN ledger, Revoke(g) PROVE IInv'
<1>1. PICK e : e = [kind |-> "revocation", grant |-> g, signature |-> ledger[g].signature,
                    scope |-> ledger[g].scope]
  OBVIOUS
<1>2. AppendRecord(e) /\ ledger[g].kind = "grant"
  BY <1>1 DEF Revoke
<1>3. LedgerSound(Append(ledger, e))
  BY <1>1, <1>2, SoundRevocation DEF IInv
<1> QED BY <1>2, <1>3, LedgerStep

LEMMA AdmitSound == ASSUME IInv, NEW r \in Requests, Admit(r) PROVE IInv'
<1>1. PICK v : v = ActiveVersion
  OBVIOUS
<1>2. PICK ep : ep = [version |-> v, baseline |-> Len(ledger), request |-> r, principal |-> PrincipalOf[r]]
  OBVIOUS
<1>3. PICK vw : vw = [views EXCEPT ![r] = ep]
  OBVIOUS
<1>4. /\ views' = vw /\ ledger' = ledger /\ candidate' = candidate
      /\ catalog' = catalog /\ store' = store
      /\ warm' = warm /\ memo' = memo /\ decided' = decided
      /\ views[r] = None /\ v # None
  BY <1>1, <1>2, <1>3 DEF Admit
<1>5. views = [x \in Requests |-> views[x]]
  BY DEF IInv, RuntimeSound, ViewsSound
<1>6. vw = [x \in Requests |-> vw[x]] /\ vw[r] = ep /\ \A x \in Requests : x # r => vw[x] = views[x]
  BY <1>3, <1>5
<1>7. Backed(store, v)
  <2>1. store.activations # <<>> /\ v = Last(store.activations)
    BY <1>1, <1>4 DEF ActiveVersion
  <2>2. IsSeq(store.activations) /\ Activated(store)
    BY DEF IInv, CatalogSound, IsStore
  <2>3. PICK L \in Nat : L = Len(store.activations) /\ DOMAIN store.activations = 1..L
    BY <2>2, SeqFacts
  <2>4. L # 0
    <3>1. PICK S : store.activations \in Seq(S)
      BY <2>2 DEF IsSeq
    <3> QED BY <2>1, <2>3, <3>1, EmptySeq
  <2>5. L \in DOMAIN store.activations
    BY <2>3, <2>4
  <2>6. v = store.activations[L]
    BY <2>1, <2>3 DEF Last
  <2> QED BY <2>2, <2>5, <2>6 DEF Activated
<1>8. ep.baseline \in 0..Len(ledger) /\ ep.version = v
  <2>1. Len(ledger) \in Nat
    BY SeqFacts DEF IInv, LedgerSound
  <2> QED BY <1>2, <2>1
<1>9. ViewsSound(store, ledger, vw)
  <2>1. ASSUME NEW x \in Requests, vw[x] # None
        PROVE  vw[x].baseline \in 0..Len(ledger) /\ Backed(store, vw[x].version)
    <3>1. CASE x = r
      BY <1>6, <1>7, <1>8, <3>1
    <3>2. CASE x # r
      BY <1>6, <2>1, <3>2 DEF IInv, RuntimeSound, ViewsSound
    <3> QED BY <3>1, <3>2
  <2> QED BY <1>6, <2>1 DEF ViewsSound
<1>10. MemoSound(store, ledger, vw, memo)
  <2>1. ASSUME NEW k \in DOMAIN memo
        PROVE  /\ k[3] \in Questions /\ k[2] \in 0..Len(ledger)
               /\ vw[k[3].request] # None /\ vw[k[3].request].version = k[1]
               /\ memo[k] = AnswerIn(store, ledger, vw[k[3].request], k[2], k[3])
    <3>1. /\ k[3] \in Questions /\ k[2] \in 0..Len(ledger)
          /\ views[k[3].request] # None /\ views[k[3].request].version = k[1]
          /\ memo[k] = AnswerIn(store, ledger, views[k[3].request], k[2], k[3])
      BY DEF IInv, RuntimeSound, MemoSound
    <3>2. k[3].request \in Requests /\ k[3].request # r
      BY <1>4, <3>1, GovernanceAssumption
    <3>3. vw[k[3].request] = views[k[3].request]
      BY <1>6, <3>2
    <3> QED BY <3>1, <3>3
  <2> QED BY <2>1 DEF MemoSound
<1>11. RuntimeSound(store, ledger, vw, warm, memo, decided)
  BY <1>9, <1>10 DEF IInv, RuntimeSound
<1> QED BY <1>4, <1>11 DEF IInv

\* A snapshot in use is the one its manifest recorded.
LEMMA SnapshotIsRecorded ==
  ASSUME WarmSound(store, warm), NEW v, SnapshotFor(v) # None
  PROVE  SnapshotFor(v) = ManifestIn(store, v).snapshot
<1>1. ManifestOf(v) = ManifestIn(store, v)
  BY DEF ManifestOf, ManifestIn
<1>2. CASE v \in DOMAIN warm
  BY <1>2 DEF SnapshotFor, WarmSound
<1>3. CASE v \notin DOMAIN warm
  <2>1. PICK result : result = CompileSnapshot(ManifestOf(v).snapshot.position)
    OBVIOUS
  <2>2. SnapshotFor(v) = IF result.snapshot = ManifestOf(v).snapshot THEN result.snapshot ELSE None
    BY <1>3, <2>1 DEF SnapshotFor, Regenerated
  <2> QED BY <1>1, <2>2
<1> QED BY <1>2, <1>3

LEMMA ReplayAnswers ==
  ASSUME WarmSound(store, warm), NEW ep, NEW q, NEW p
  PROVE  \/ SnapshotFor(ep.version) = None /\ Replay(ep, q, p) = Refused
         \/ SnapshotFor(ep.version) # None /\ Replay(ep, q, p) = AnswerIn(store, ledger, ep, p, q)
<1>1. Slice(ep, p) = SliceIn(ledger, ep, p)
  BY DEF Slice, SliceIn
<1>2. CASE SnapshotFor(ep.version) = None
  BY <1>2 DEF Replay
<1>3. CASE SnapshotFor(ep.version) # None
  <2>1. SnapshotFor(ep.version) = ManifestIn(store, ep.version).snapshot
    BY <1>3, SnapshotIsRecorded
  <2> QED BY <1>1, <1>3, <2>1 DEF Replay, AnswerIn
<1> QED BY <1>2, <1>3

LEMMA ConsultSound == ASSUME IInv, NEW q \in Questions, Consult(q.request, q) PROVE IInv'
<1>1. PICK r \in Requests : r = q.request
  BY GovernanceAssumption
<1>2. PICK ep : ep = views[r]
  OBVIOUS
<1>3. PICK p : p = Len(ledger)
  OBVIOUS
<1>4. PICK snapshot : snapshot = SnapshotFor(ep.version)
  OBVIOUS
<1>5. PICK key : key = <<ep.version, p, q>>
  OBVIOUS
<1>6. PICK answer : answer = IF snapshot # None /\ key \in DOMAIN memo THEN memo[key] ELSE Replay(ep, q, p)
  OBVIOUS
<1>7. MemoKey(ep, q, p) = key
  BY <1>5 DEF MemoKey
<1>8. PICK w : w = [v \in DOMAIN warm \cup {ep.version} |-> SnapshotFor(v)]
  OBVIOUS
<1>9. PICK m : m = [k \in DOMAIN memo \cup {key} |-> IF k = key THEN answer ELSE memo[k]]
  OBVIOUS
<1>10. PICK d : d = [ep |-> ep, question |-> q, position |-> p, answer |-> answer]
  OBVIOUS
<1>11. ep # None /\ decided' = decided \cup {d}
       /\ warm' = (IF snapshot = None THEN warm ELSE w)
       /\ memo' = (IF IsDecision(answer) /\ key \notin DOMAIN memo THEN m ELSE memo)
       /\ catalog' = catalog /\ store' = store /\ candidate' = candidate
       /\ ledger' = ledger /\ views' = views
  BY <1>1, <1>2, <1>3, <1>4, <1>6, <1>7, <1>8, <1>9, <1>10 DEF Consult
<1>12. /\ ViewsSound(store, ledger, views) /\ WarmSound(store, warm)
       /\ MemoSound(store, ledger, views, memo) /\ DecidedSound(store, ledger, decided)
  BY DEF IInv, RuntimeSound
<1>13. p \in Nat /\ ep.baseline \in 0..p /\ Backed(store, ep.version)
  <2>1. p \in Nat
    BY <1>3, SeqFacts DEF IInv, LedgerSound
  <2> QED BY <1>2, <1>3, <1>11, <1>12, <2>1 DEF ViewsSound
<1>14. key[1] = ep.version /\ key[2] = p /\ key[3] = q
  BY <1>5
<1>15. \/ answer = Refused
       \/ answer = AnswerIn(store, ledger, ep, p, q)
  <2>1. CASE snapshot # None /\ key \in DOMAIN memo
    BY <1>1, <1>2, <1>6, <1>12, <1>14, <2>1 DEF MemoSound
  <2>2. CASE ~(snapshot # None /\ key \in DOMAIN memo)
    BY <1>6, <1>12, <2>2, ReplayAnswers
  <2> QED BY <2>1, <2>2
<1>16. DecidedSound(store, ledger, decided \cup {d})
  <2>1. /\ d.position = p /\ d.ep = ep /\ d.question = q /\ d.answer = answer
    BY <1>10
  <2>2. p \in 0..Len(ledger)
    BY <1>3, <1>13
  <2>3. /\ d.position \in 0..Len(ledger) /\ d.ep.baseline \in 0..d.position
        /\ Backed(store, d.ep.version)
        /\ d.answer = Refused \/ d.answer = AnswerIn(store, ledger, d.ep, d.position, d.question)
    BY <1>13, <1>15, <2>1, <2>2
  <2> QED BY <1>12, <2>3 DEF DecidedSound
<1>17. WarmSound(store, IF snapshot = None THEN warm ELSE w)
  <2>1. CASE snapshot = None
    BY <1>12, <2>1
  <2>2. CASE snapshot # None
    <3>1. ASSUME NEW v \in DOMAIN w
          PROVE  Backed(store, v) /\ w[v] = ManifestIn(store, v).snapshot
      <4>1. v \in DOMAIN warm \cup {ep.version} /\ w[v] = SnapshotFor(v)
        BY <1>8
      <4>2. CASE v \in DOMAIN warm
        BY <1>12, <4>1, <4>2 DEF WarmSound, SnapshotFor
      <4>3. CASE v = ep.version
        BY <1>4, <1>12, <1>13, <2>2, <4>1, <4>3, SnapshotIsRecorded
      <4> QED BY <4>1, <4>2, <4>3
    <3>2. WarmSound(store, w)
      BY <3>1 DEF WarmSound
    <3> QED BY <2>2, <3>2
  <2> QED BY <2>1, <2>2
<1>18. MemoSound(store, ledger, views, IF IsDecision(answer) /\ key \notin DOMAIN memo THEN m ELSE memo)
  <2>1. CASE IsDecision(answer) /\ key \notin DOMAIN memo
    <3>1. answer = AnswerIn(store, ledger, ep, p, q)
      <4>1. ~IsDecision(Refused)
        BY DEF IsDecision, Refused
      <4> QED BY <1>15, <2>1, <4>1
    <3>2. ASSUME NEW k \in DOMAIN m
          PROVE  /\ k[3] \in Questions /\ k[2] \in 0..Len(ledger)
                 /\ views[k[3].request] # None /\ views[k[3].request].version = k[1]
                 /\ m[k] = AnswerIn(store, ledger, views[k[3].request], k[2], k[3])
      <4>1. (k \in DOMAIN memo \/ k = key) /\ m[k] = IF k = key THEN answer ELSE memo[k]
        BY <1>9
      <4>2. CASE k = key
        <5>1. p \in 0..Len(ledger)
          BY <1>3, <1>13
        <5>2. m[k] = answer
          BY <4>1, <4>2
        <5> QED BY <1>1, <1>2, <1>11, <1>14, <3>1, <4>2, <5>1, <5>2
      <4>3. CASE k # key
        <5>1. k \in DOMAIN memo /\ m[k] = memo[k]
          BY <4>1, <4>3
        <5> QED BY <1>12, <5>1 DEF MemoSound
      <4> QED BY <4>2, <4>3
    <3>3. MemoSound(store, ledger, views, m)
      BY <3>2 DEF MemoSound
    <3> QED BY <2>1, <3>3
  <2>2. CASE ~(IsDecision(answer) /\ key \notin DOMAIN memo)
    BY <1>12, <2>2
  <2> QED BY <2>1, <2>2
<1>19. RuntimeSound(store', ledger', views', warm', memo', decided')
  BY <1>11, <1>12, <1>16, <1>17, <1>18 DEF RuntimeSound
<1>20. CatalogSound(catalog, store) /\ CandidateSound(catalog, store, candidate) /\ LedgerSound(ledger)
  BY DEF IInv
<1> QED BY <1>11, <1>19, <1>20 DEF IInv

\* What a restart rebuilds is what it lost: the log is legal, and replays to the store.
LEMMA RestartSound == ASSUME IInv, NEW lost \in SUBSET Requests, Restart(lost) PROVE IInv'
<1>1. PICK vw : vw = [r \in Requests |-> IF r \in lost THEN None ELSE views[r]]
  OBVIOUS
<1>2. /\ store' = RebuildStore(catalog) /\ views' = vw /\ candidate' = None
      /\ memo' = <<>> /\ warm' = <<>>
      /\ catalog' = catalog /\ ledger' = ledger /\ decided' = decided
  BY <1>1 DEF Restart
<1>3. store' = store
  BY <1>2, ReplaysGives DEF IInv, CatalogSound
<1>4. vw = [r \in Requests |-> vw[r]] /\ \A r \in Requests : vw[r] # None => vw[r] = views[r]
  BY <1>1
<1>5. ViewsSound(store, ledger, vw)
  BY <1>4 DEF IInv, RuntimeSound, ViewsSound
<1>6. WarmSound(store, <<>>) /\ MemoSound(store, ledger, vw, <<>>)
  BY EmptyIsSeq DEF WarmSound, MemoSound
<1>7. RuntimeSound(store, ledger, vw, <<>>, <<>>, decided)
  BY <1>5, <1>6 DEF IInv, RuntimeSound
<1>8. CandidateSound(catalog, store, None)
  BY DEF CandidateSound
<1> QED BY <1>2, <1>3, <1>7, <1>8 DEF IInv

LEMMA StepSound == ASSUME IInv, [Next]_vars PROVE IInv'
<1>1. CASE UNCHANGED vars
  BY <1>1 DEF vars, IInv
<1>2. CASE \E v \in Vocabularies : AppendVocabulary(v)
  BY <1>2, AppendVocabularySound
<1>3. CASE \E d \in Drafts : AppendDocument(d)
  BY <1>3, AppendDocumentSound
<1>4. CASE \E c \in store.content : AppendDeprecation(c.did, c.version)
  BY <1>4, AppendDeprecationSound
<1>5. CASE Compile
  BY <1>5, CompileSound
<1>6. CASE Activate
  BY <1>6, ActivateSound
<1>7. CASE \E i \in DOMAIN store.manifests : Rollback(i)
  BY <1>7, RollbackSound
<1>8. CASE \E q \in Questions : GrantStanding(q)
  BY <1>8, GrantSound DEF GrantStanding
<1>9. CASE \E g \in DOMAIN ledger : Revoke(g)
  BY <1>9, RevokeSound
<1>10. CASE \E r \in Requests : Admit(r)
  BY <1>10, AdmitSound
<1>11. CASE \E q \in Questions : Consult(q.request, q)
  BY <1>11, ConsultSound
<1>12. CASE \E r \in Requests, d \in decided : RouteApproval(r, d)
  BY <1>12, GrantSound DEF RouteApproval
<1>13. CASE \E r \in Requests, d \in decided, g \in DOMAIN ledger : RouteRevocation(r, d, g)
  BY <1>13, RevokeSound DEF RouteRevocation
<1>14. CASE \E lost \in SUBSET Requests : Restart(lost)
  BY <1>14, RestartSound
<1> QED BY <1>1, <1>2, <1>3, <1>4, <1>5, <1>6, <1>7, <1>8, <1>9, <1>10, <1>11, <1>12, <1>13, <1>14 DEF Next

LEMMA AlwaysSound == Spec => []IInv
<1>1. IInv /\ [Next]_vars => IInv'
  BY StepSound
<1> QED BY <1>1, InitSound, PTL DEF Spec

-----------------------------------------------------------------------------
(* The theorems.                                                           *)

\* Every decision ever given is the one that its stamps reproduce, with neither the memo
\* nor the registry; both logs pass the checks of a restart, which gives back the store
\* (runtime.py RequestGovernance.replay, store.py and ledger.py rebuild_from_log).
THEOREM DecisionsReproduce == Spec => []ReplayMatches
<1>1. ASSUME IInv PROVE ReplayMatches
  <2>1. ASSUME NEW d \in decided, IsDecision(d.answer)
        PROVE  d.answer = Evaluate(ManifestOf(d.ep.version).snapshot, Slice(d.ep, d.position), d.question)
    <3>1. ~IsDecision(Refused)
      BY DEF IsDecision, Refused
    <3>2. d.answer = AnswerIn(store, ledger, d.ep, d.position, d.question)
      BY <1>1, <2>1, <3>1 DEF IInv, RuntimeSound, DecidedSound
    <3>3. ManifestOf(d.ep.version) = ManifestIn(store, d.ep.version)
      BY DEF ManifestOf, ManifestIn
    <3>4. Slice(d.ep, d.position) = SliceIn(ledger, d.ep, d.position)
      BY DEF Slice, SliceIn
    <3> QED BY <3>2, <3>3, <3>4 DEF AnswerIn
  <2>2. CatalogReplays(catalog) /\ RebuildStore(catalog) = store
    BY <1>1, ReplaysGives DEF IInv, CatalogSound
  <2>3. LedgerReplays(ledger)
    BY <1>1 DEF IInv, LedgerSound
  <2> QED BY <2>1, <2>2, <2>3 DEF ReplayMatches
<1> QED BY <1>1, AlwaysSound, PTL

\* Two answers to a question of one admission differ only if the request itself got a
\* record in between (resolver.py consultation_slice).
THEOREM WorldIsFrozen == Spec => []WorldFrozen
<1>1. ASSUME IInv PROVE WorldFrozen
  <2> SUFFICES ASSUME NEW c \in decided, NEW d \in decided,
                      c.ep = d.ep, c.question = d.question, c.position <= d.position,
                      Refused \notin {c.answer, d.answer},
                      \A i \in (c.position + 1)..d.position :
                        ledger[i].scope # <<"request", c.ep.request>>
               PROVE  c.answer = d.answer
    BY DEF WorldFrozen
  <2>1. PICK L \in Nat : L = Len(ledger)
    BY <1>1, SeqFacts DEF IInv, LedgerSound
  <2>2. /\ c.position \in 0..L /\ c.ep.baseline \in 0..c.position
        /\ c.answer = AnswerIn(store, ledger, c.ep, c.position, c.question)
    BY <1>1, <2>1 DEF IInv, RuntimeSound, DecidedSound
  <2>3. /\ d.position \in 0..L
        /\ d.answer = AnswerIn(store, ledger, d.ep, d.position, d.question)
    BY <1>1, <2>1 DEF IInv, RuntimeSound, DecidedSound
  <2>4. PICK p \in Nat : p = c.position
    BY <2>2
  <2>5. PICK o \in Nat : o = d.position
    BY <2>3
  <2>6. c.ep.baseline \in 0..p
    BY <2>2, <2>4
  <2>7. SliceIn(ledger, c.ep, p) = SliceIn(ledger, c.ep, o)
    <3>1. PICK ep : ep = c.ep
      OBVIOUS
    <3>2. ep.baseline \in 0..p /\ p <= o
      BY <2>4, <2>5, <2>6, <3>1
    <3>3. \A i \in (p + 1)..o : ledger[i].scope # <<"request", ep.request>>
      BY <2>4, <2>5, <3>1
    <3>4. SliceIn(ledger, ep, p) = SliceIn(ledger, ep, o)
      BY ONLY <3>2, <3>3, p \in Nat, o \in Nat, SliceFrozen
    <3> QED BY <3>1, <3>4
  <2> QED BY <2>2, <2>3, <2>4, <2>5, <2>7 DEF AnswerIn
<1> QED BY <1>1, AlwaysSound, PTL

\* No answer rests on a grant of its request that was revoked by its position
\* (ledger.py append_revocation, evaluator.py evaluate).
THEOREM RevocationsBite == Spec => []RevocationBites
<1>1. ASSUME IInv PROVE RevocationBites
  <2> SUFFICES ASSUME NEW d \in decided, NEW g, g = d.answer.grant, g # None,
                      ledger[g].scope = <<"request", d.ep.request>>,
                      NEW i \in DOMAIN ledger, i <= d.position,
                      ledger[i].kind = "revocation", ledger[i].grant = g
               PROVE  FALSE
    BY DEF RevocationBites
  <2>1. IsSeq(ledger) /\ LedgerReplays(ledger) /\ Inherits(ledger)
    BY <1>1 DEF IInv, LedgerSound
  <2>2. PICK L \in Nat : L = Len(ledger) /\ DOMAIN ledger = 1..L
    BY <2>1, SeqFacts
  <2>3. Refused.grant = None
    BY DEF Refused
  <2>4. d.position \in 0..L /\ d.answer = AnswerIn(store, ledger, d.ep, d.position, d.question)
    BY <1>1, <2>2, <2>3 DEF IInv, RuntimeSound, DecidedSound
  <2>5. PICK D : D = {n \in 1..d.position :
                       \/ ledger[n].scope = <<"request", d.ep.request>>
                       \/ n <= d.ep.baseline /\ ledger[n].scope = <<"principal", d.ep.principal>>}
    OBVIOUS
  <2>6. PICK slice : slice = SliceIn(ledger, d.ep, d.position)
    OBVIOUS
  <2>7. slice = [n \in D |-> ledger[n]]
    BY <2>5, <2>6 DEF SliceIn, Restrict
  <2>8. DOMAIN slice \in SUBSET Nat
    BY <2>4, <2>5, <2>7
  <2>9. PICK n \in Applicable(slice, d.question) : g = slice[n].grant
    <3>1. PICK x : x = ManifestIn(store, d.ep.version).snapshot
      OBVIOUS
    <3>2. d.answer = Evaluate(x, slice, d.question)
      BY <2>4, <2>6, <3>1 DEF AnswerIn
    <3> QED BY <2>8, <3>2, GrantIsApplicable
  <2>10. i \in D
    <3>1. ledger[i].scope = ledger[g].scope
      BY <2>1 DEF Inherits
    <3>2. i \in 1..d.position
      BY <2>2, <2>4
    <3> QED BY <2>5, <3>1, <3>2
  <2>11. slice[i].kind = "revocation" /\ slice[i].grant = g
    BY <2>7, <2>10
  <2> QED BY <2>7, <2>9, <2>10, <2>11 DEF Applicable
<1> QED BY <1>1, AlwaysSound, PTL
=============================================================================
