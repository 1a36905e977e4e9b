------------------------ MODULE TickPipeline_proofs ------------------------
(***************************************************************************)
(* The tick of every simulation: types, what callers see of a tick, the    *)
(* static view, and the log.                                               *)
(***************************************************************************)
EXTENDS Replay, Integers, SequenceTheorems, FiniteSetTheorems, WellFoundedInduction, TLAPS

-----------------------------------------------------------------------------
(* Prefixes and suffixes, element by element. *)

LEMMA PrefixByElements ==
  ASSUME NEW E, NEW s \in Seq(E), NEW t \in Seq(E)
  PROVE  IsPrefix(s, t) <=>
           Len(s) <= Len(t) /\ \A i \in 1 .. Len(s) : s[i] = t[i]
<1>1. SubSeq(s, 1, Len(s)) = s
  OBVIOUS
<1>2. ASSUME Len(s) <= Len(t)
      PROVE  s = SubSeq(t, 1, Len(s)) <=> \A i \in 1 .. Len(s) : s[i] = t[i]
  <2> DEFINE u == SubSeq(t, 1, Len(s))
  <2>1. u \in Seq(E) /\ Len(u) = Len(s) /\ \A i \in 1 .. Len(s) : u[i] = t[i]
    BY <1>2
  <2> HIDE DEF u
  <2>2. (\A i \in 1 .. Len(s) : s[i] = u[i]) => s = u
    BY <2>1, SeqEqual
  <2> QED  BY <2>1, <2>2 DEF u
<1> QED  BY <1>1, <1>2 DEF IsPrefix

LEMMA SuffixByElements ==
  ASSUME NEW E, NEW s \in Seq(E), NEW t \in Seq(E)
  PROVE  IsSuffix(s, t) <=>
           Len(s) <= Len(t) /\ \A i \in 1 .. Len(s) : s[i] = t[Len(t) - Len(s) + i]
<1> DEFINE rs == Reverse(s)
           rt == Reverse(t)
<1>1. /\ rs \in Seq(E) /\ Len(rs) = Len(s)
      /\ \A i \in 1 .. Len(s) : rs[i] = s[Len(s) - i + 1]
  BY DEF Reverse
<1>2. /\ rt \in Seq(E) /\ Len(rt) = Len(t)
      /\ \A i \in 1 .. Len(t) : rt[i] = t[Len(t) - i + 1]
  BY DEF Reverse
<1>3. IsSuffix(s, t) <=> IsPrefix(rs, rt)
  BY DEF IsSuffix
<1> HIDE DEF rs, rt
<1>4. IsPrefix(rs, rt) <=> Len(s) <= Len(t) /\ \A i \in 1 .. Len(s) : rs[i] = rt[i]
  BY <1>1, <1>2, PrefixByElements
<1>5. ASSUME Len(s) <= Len(t)
      PROVE  (\A i \in 1 .. Len(s) : rs[i] = rt[i])
               <=> \A i \in 1 .. Len(s) : s[i] = t[Len(t) - Len(s) + i]
  <2>1. ASSUME \A i \in 1 .. Len(s) : rs[i] = rt[i], NEW i \in 1 .. Len(s)
        PROVE  s[i] = t[Len(t) - Len(s) + i]
    <3> DEFINE j == Len(s) - i + 1
    <3>1. j \in 1 .. Len(s) /\ j \in 1 .. Len(t)
          /\ Len(s) - j + 1 = i /\ Len(t) - j + 1 = Len(t) - Len(s) + i
      BY <1>5
    <3> HIDE DEF j
    <3> QED  BY <1>1, <1>2, <2>1, <3>1
  <2>2. ASSUME \A i \in 1 .. Len(s) : s[i] = t[Len(t) - Len(s) + i], NEW i \in 1 .. Len(s)
        PROVE  rs[i] = rt[i]
    <3> DEFINE j == Len(s) - i + 1
    <3>1. j \in 1 .. Len(s) /\ i \in 1 .. Len(t)
          /\ Len(t) - Len(s) + j = Len(t) - i + 1
      BY <1>5
    <3>2. s[j] = t[Len(t) - i + 1]
      BY <2>2, <3>1
    <3> QED  BY <1>1, <1>2, <3>1, <3>2
  <2> QED  BY <2>1, <2>2
<1> QED  BY <1>3, <1>4, <1>5

\* A prefix stays one when the sequence grows.
LEMMA PrefixGrows ==
  ASSUME NEW E, NEW s \in Seq(E), NEW t \in Seq(E), NEW e \in E, IsPrefix(s, t)
  PROVE  IsPrefix(s, Append(t, e))
<1> DEFINE u == Append(t, e)
<1>1. Len(s) \in Nat /\ Len(t) \in Nat /\ Len(s) <= Len(t)
      /\ \A i \in 1 .. Len(s) : s[i] = t[i]
  BY PrefixByElements
<1>2. u \in Seq(E) /\ Len(u) = Len(t) + 1 /\ \A i \in 1 .. Len(t) : u[i] = t[i]
  OBVIOUS
<1> HIDE DEF u
<1>3. \A i \in 1 .. Len(s) : i \in 1 .. Len(t)
  BY <1>1
<1>4. Len(s) <= Len(u) /\ \A i \in 1 .. Len(s) : s[i] = u[i]
  BY <1>1, <1>2, <1>3
<1>5. IsPrefix(s, u)
  BY <1>2, <1>4, PrefixByElements
<1> QED  BY <1>5 DEF u

\* So does a suffix that takes the new element in.
LEMMA SuffixGrows ==
  ASSUME NEW E, NEW s \in Seq(E), NEW t \in Seq(E), NEW e \in E, IsSuffix(s, t)
  PROVE  IsSuffix(Append(s, e), Append(t, e))
<1> DEFINE s2 == Append(s, e)
           t2 == Append(t, e)
<1>1. Len(s) \in Nat /\ Len(t) \in Nat /\ Len(s) <= Len(t)
      /\ \A i \in 1 .. Len(s) : s[i] = t[Len(t) - Len(s) + i]
  BY SuffixByElements
<1>2. /\ s2 \in Seq(E) /\ Len(s2) = Len(s) + 1 /\ s2[Len(s) + 1] = e
      /\ \A i \in 1 .. Len(s) : s2[i] = s[i]
  OBVIOUS
<1>3. /\ t2 \in Seq(E) /\ Len(t2) = Len(t) + 1 /\ t2[Len(t) + 1] = e
      /\ \A i \in 1 .. Len(t) : t2[i] = t[i]
  OBVIOUS
<1> HIDE DEF s2, t2
<1>4. ASSUME NEW i \in 1 .. Len(s2)  PROVE s2[i] = t2[Len(t2) - Len(s2) + i]
  <2>1. CASE i = Len(s) + 1
    <3>1. Len(t2) - Len(s2) + i = Len(t) + 1
      BY <1>1, <1>2, <1>3, <2>1
    <3> QED  BY <1>2, <1>3, <2>1, <3>1
  <2>2. CASE i # Len(s) + 1
    <3>1. i \in 1 .. Len(s) /\ Len(t) - Len(s) + i \in 1 .. Len(t)
          /\ Len(t2) - Len(s2) + i = Len(t) - Len(s) + i
      BY <1>1, <1>2, <1>3, <2>2
    <3> QED  BY <1>1, <1>2, <1>3, <3>1
  <2> QED  BY <2>1, <2>2
<1>5. Len(s2) <= Len(t2)
  BY <1>1, <1>2, <1>3
<1>6. IsSuffix(s2, t2)
  BY <1>2, <1>3, <1>4, <1>5, SuffixByElements
<1> QED  BY <1>6 DEF s2, t2

\* And a suffix of a suffix is one.
LEMMA SuffixShrinks ==
  ASSUME NEW E, NEW s \in Seq(E), NEW t \in Seq(E), s # <<>>, IsSuffix(s, t)
  PROVE  IsSuffix(Tail(s), t)
<1> DEFINE u == Tail(s)
<1>1. Len(s) \in Nat /\ Len(t) \in Nat /\ Len(s) <= Len(t)
      /\ \A i \in 1 .. Len(s) : s[i] = t[Len(t) - Len(s) + i]
  BY SuffixByElements
<1>2. /\ u \in Seq(E) /\ Len(u) = Len(s) - 1
      /\ \A i \in 1 .. Len(s) - 1 : u[i] = s[i + 1]
  OBVIOUS
<1> HIDE DEF u
<1>3. ASSUME NEW i \in 1 .. Len(u)  PROVE u[i] = t[Len(t) - Len(u) + i]
  <2>1. i \in 1 .. Len(s) - 1 /\ i + 1 \in 1 .. Len(s)
        /\ Len(t) - Len(s) + (i + 1) = Len(t) - Len(u) + i
    BY <1>1, <1>2
  <2> QED  BY <1>1, <1>2, <2>1
<1>4. Len(u) <= Len(t)
  BY <1>1, <1>2
<1>5. IsSuffix(u, t)
  BY <1>2, <1>3, <1>4, SuffixByElements
<1> QED  BY <1>5 DEF u

\* The trivial cases.
LEMMA WholeAndEmpty ==
  ASSUME NEW E, NEW t \in Seq(E)
  PROVE  IsPrefix(t, t) /\ IsSuffix(<<>>, t)
<1>1. IsPrefix(t, t)
  BY PrefixByElements
<1> DEFINE s == <<>>
<1>2. s \in Seq(E) /\ Len(s) = 0 /\ Len(t) \in Nat /\ 1 .. Len(s) = {}
  OBVIOUS
<1> HIDE DEF s
<1>3. Len(s) <= Len(t) /\ \A i \in 1 .. Len(s) : s[i] = t[Len(t) - Len(s) + i]
  BY <1>2
<1>4. IsSuffix(s, t)
  BY <1>2, <1>3, SuffixByElements
<1> QED  BY <1>1, <1>4 DEF s

-----------------------------------------------------------------------------
(* The sink and the ring of the log. *)

\* While the sink takes everything it has all there is.
LogInv ==
  /\ \E E : sink \in Seq(E) /\ ring \in Seq(E) /\ given \in Seq(E) /\ valid \in Seq(E)
  /\ degraded \in BOOLEAN /\ dropped \in Nat
  /\ LogIsTruthful
  /\ ~degraded => sink = given /\ valid = given /\ ring = <<>> /\ dropped = 0

LEMMA LogInitInv == LogInit => LogInv
<1> SUFFICES ASSUME LogInit  PROVE LogInv
  OBVIOUS
<1>1. /\ sink = <<>> /\ ring = <<>> /\ given = <<>> /\ valid = <<>>
      /\ degraded = FALSE /\ dropped = 0 /\ warnings = 0
  BY DEF LogInit
<1>2. <<>> \in Seq({}) /\ Len(<<>>) = 0
  OBVIOUS
<1>3. IsPrefix(<<>>, <<>>) /\ IsSuffix(<<>>, <<>>)
  BY <1>2, WholeAndEmpty
<1>4. \E E : sink \in Seq(E) /\ ring \in Seq(E) /\ given \in Seq(E) /\ valid \in Seq(E)
  BY <1>1, <1>2
<1>5. LogAccountsForAll
  BY <1>1, <1>2 DEF LogAccountsForAll
<1>6. WarnedOnce /\ SinkThenRing
  BY <1>1, <1>3 DEF WarnedOnce, SinkThenRing
<1> QED  BY <1>1, <1>4, <1>5, <1>6 DEF LogInv, LogIsTruthful

\* push_ring: the ring stays the end of what is valid, and what it loses is
\* counted.
LEMMA PushRingKeeps ==
  ASSUME NEW E, ring \in Seq(E), valid \in Seq(E), NEW entry \in E,
         dropped \in Nat, IsSuffix(ring, valid), PushRing(entry)
  PROVE  /\ ring' \in Seq(E) /\ dropped' \in Nat
         /\ Len(ring') + dropped' = Len(ring) + dropped + 1
         /\ IsSuffix(ring', Append(valid, entry))
<1>1. RingCap \in Nat /\ RingCap > 0 /\ Len(ring) \in Nat
  BY LogAssumption
<1>2. CASE Len(ring) >= RingCap
  <2>1. ring # <<>>
    BY <1>1, <1>2
  <2>2. Tail(ring) \in Seq(E) /\ Len(Tail(ring)) = Len(ring) - 1 /\ IsSuffix(Tail(ring), valid)
    BY <2>1, SuffixShrinks
  <2>3. ring' = Append(Tail(ring), entry) /\ dropped' = dropped + 1
    BY <1>2 DEF PushRing
  <2>4. IsSuffix(ring', Append(valid, entry))
    BY <2>2, <2>3, SuffixGrows
  <2>5. ring' \in Seq(E) /\ Len(ring') = Len(ring)
    BY <1>1, <2>2, <2>3
  <2> QED  BY <1>1, <2>3, <2>4, <2>5
<1>3. CASE ~(Len(ring) >= RingCap)
  <2>1. ring' = Append(ring, entry) /\ dropped' = dropped
    BY <1>3 DEF PushRing
  <2>2. IsSuffix(ring', Append(valid, entry))
    BY <2>1, SuffixGrows
  <2>3. ring' \in Seq(E) /\ Len(ring') = Len(ring) + 1
    BY <2>1
  <2> QED  BY <1>1, <2>1, <2>2, <2>3
<1> QED  BY <1>2, <1>3

\* append: whatever becomes of the write.
LEMMA LogAppendInv ==
  ASSUME LogInv, NEW entry, NEW write, LogAppend(entry, write)
  PROVE  LogInv'
<1>1. PICK E0 : sink \in Seq(E0) /\ ring \in Seq(E0) /\ given \in Seq(E0) /\ valid \in Seq(E0)
  BY DEF LogInv
<1> DEFINE E == E0 \cup {entry}
<1>2. sink \in Seq(E) /\ ring \in Seq(E) /\ given \in Seq(E) /\ valid \in Seq(E) /\ entry \in E
  BY <1>1
<1> HIDE DEF E
<1>3. /\ given' = Append(given, entry) /\ given' \in Seq(E) /\ Len(given') = Len(given) + 1
      /\ Len(sink) \in Nat /\ Len(ring) \in Nat /\ Len(given) \in Nat /\ dropped \in Nat
  BY <1>2 DEF LogAppend, LogInv
<1>0. Len(sink) + Len(ring) + dropped = Len(given)
  BY DEF LogInv, LogIsTruthful, LogAccountsForAll
<1>4. /\ warnings = IF degraded THEN 1 ELSE 0
      /\ IsPrefix(sink, given) /\ IsSuffix(ring, valid) /\ degraded \in BOOLEAN
      /\ ~degraded => sink = given /\ valid = given /\ ring = <<>> /\ dropped = 0
  BY DEF LogInv, LogIsTruthful, WarnedOnce, SinkThenRing
<1>5. IsPrefix(sink, given')
  BY <1>2, <1>3, <1>4, PrefixGrows
<1>6. CASE ~IsValid(entry)
  <2>1. /\ valid' = valid /\ sink' = sink /\ ring' = ring /\ dropped' = dropped + 1
        /\ degraded' = TRUE /\ warnings' = IF degraded THEN warnings ELSE warnings + 1
    BY <1>6 DEF LogAppend, DropInvalid, FirstDegrade
  <2>2. LogAccountsForAll'
    BY <1>3, <1>0, <2>1 DEF LogAccountsForAll
  <2>3. WarnedOnce' /\ dropped' \in Nat
    BY <1>3, <1>4, <2>1 DEF WarnedOnce
  <2>4. SinkThenRing'
    BY <1>4, <1>5, <2>1 DEF SinkThenRing
  <2> QED  BY <1>2, <1>3, <2>1, <2>2, <2>3, <2>4 DEF LogInv, LogIsTruthful
<1>7. CASE IsValid(entry) /\ degraded
  <2>1. /\ valid' = Append(valid, entry) /\ sink' = sink /\ PushRing(entry)
        /\ degraded' = degraded /\ warnings' = warnings
    BY <1>7 DEF LogAppend, KeepInRing
  <2>2. /\ ring' \in Seq(E) /\ dropped' \in Nat /\ Len(ring') \in Nat
        /\ Len(ring') + dropped' = Len(ring) + dropped + 1
        /\ IsSuffix(ring', valid')
    BY <1>2, <1>3, <1>4, <2>1, PushRingKeeps
  <2>3. LogAccountsForAll'
    <3>1. Len(sink') = Len(sink) /\ Len(given') = Len(given) + 1
      BY <1>3, <2>1
    <3> QED  BY <1>3, <1>0, <2>2, <3>1 DEF LogAccountsForAll
  <2>4. WarnedOnce'
    BY <1>4, <2>1 DEF WarnedOnce
  <2>5. SinkThenRing'
    BY <1>5, <2>1, <2>2 DEF SinkThenRing
  <2>6. valid' \in Seq(E)
    BY <1>2, <2>1
  <2> QED  BY <1>2, <1>3, <1>7, <2>1, <2>2, <2>3, <2>4, <2>5, <2>6 DEF LogInv, LogIsTruthful
<1>8. CASE IsValid(entry) /\ ~degraded /\ write = "taken"
  <2>1. /\ valid' = Append(valid, entry) /\ sink' = Append(sink, entry)
        /\ UNCHANGED <<ring, degraded, dropped, warnings>>
    BY <1>8 DEF LogAppend, WriteLine
  <2>2. sink' = given' /\ valid' = given' /\ ring' = <<>> /\ dropped' = 0 /\ degraded' = FALSE
    BY <1>3, <1>4, <1>8, <2>1
  <2>3. IsPrefix(given', given') /\ IsSuffix(<<>>, given')
    BY <1>3, WholeAndEmpty
  <2>4. LogAccountsForAll'
    BY <1>3, <2>2 DEF LogAccountsForAll
  <2>5. WarnedOnce' /\ SinkThenRing'
    BY <1>4, <1>8, <2>1, <2>2, <2>3 DEF WarnedOnce, SinkThenRing
  <2>6. ring' \in Seq(E) /\ dropped' \in Nat
    BY <2>2
  <2> QED  BY <1>3, <2>2, <2>4, <2>5, <2>6 DEF LogInv, LogIsTruthful
<1>9. CASE IsValid(entry) /\ ~degraded /\ write # "taken"
  <2>1. /\ valid' = Append(valid, entry) /\ sink' = sink /\ PushRing(entry)
        /\ degraded' = TRUE /\ warnings' = IF degraded THEN warnings ELSE warnings + 1
    BY <1>9 DEF LogAppend, WriteFails, FirstDegrade
  <2>2. /\ ring' \in Seq(E) /\ dropped' \in Nat /\ Len(ring') \in Nat
        /\ Len(ring') + dropped' = Len(ring) + dropped + 1
        /\ IsSuffix(ring', valid')
    BY <1>2, <1>3, <1>4, <2>1, PushRingKeeps
  <2>3. LogAccountsForAll'
    <3>1. Len(sink') = Len(sink) /\ Len(given') = Len(given) + 1
      BY <1>3, <2>1
    <3> QED  BY <1>3, <1>0, <2>2, <3>1 DEF LogAccountsForAll
  <2>4. WarnedOnce'
    BY <1>4, <1>9, <2>1 DEF WarnedOnce
  <2>5. SinkThenRing'
    BY <1>5, <2>1, <2>2 DEF SinkThenRing
  <2>6. valid' \in Seq(E)
    BY <1>2, <2>1
  <2> QED  BY <1>2, <1>3, <2>1, <2>2, <2>3, <2>4, <2>5, <2>6 DEF LogInv, LogIsTruthful
<1>10. degraded \in BOOLEAN
  BY <1>4
<1> QED  BY <1>6, <1>7, <1>8, <1>9, <1>10

-----------------------------------------------------------------------------
(* Ids. *)

\* A set of natural numbers that is not empty has a least element.
LEMMA HasLeast ==
  ASSUME NEW S, S \subseteq Nat, S # {}
  PROVE  \E x \in S : \A y \in S : x <= y
<1>1. PICK x \in S : \A y \in S : ~ (<<y, x>> \in OpToRel(<, Nat))
  BY NatLessThanWellFounded, WFMin
<1>2. ASSUME NEW y \in S  PROVE x <= y
  <2>1. x \in Nat /\ y \in Nat
    OBVIOUS
  <2>2. ~ (y < x)
    BY <1>1, <2>1 DEF OpToRel
  <2> QED  BY <2>1, <2>2
<1> QED  BY <1>2

\* The id given to a new piece is free (next_dense_u32 in actions.rs).
LEMMA NextDenseIsFree ==
  ASSUME NEW ids, IsIdSet(ids)
  PROVE  NextDense(ids) \in Nat /\ NextDense(ids) \notin ids
<1> DEFINE n == Cardinality(ids)
           free == (0 .. n) \ ids
<1>1. n \in Nat
  BY FS_CardinalityType DEF IsIdSet
<1>2. IsFiniteSet(0 .. n) /\ Cardinality(0 .. n) = n + 1
  BY <1>1, FS_Interval
<1>3. free # {}
  <2> SUFFICES ASSUME (0 .. n) \subseteq ids PROVE FALSE
    OBVIOUS
  <2> QED  BY <1>1, <1>2, FS_Subset DEF IsIdSet
<1>4. free \subseteq Nat
  BY <1>1
<1>5. PICK k \in free : \A y \in free : k <= y
  <2> HIDE DEF free
  <2> QED  BY <1>3, <1>4, HasLeast
<1>6. \A y \in 0 .. k - 1 : y \in ids
  BY <1>1, <1>5
<1> QED  BY <1>1, <1>5, <1>6 DEF NextDense

\* A map with one more entry.
LEMMA PutIsKeyed ==
  ASSUME NEW f, NEW values, IsKeyed(f, values), NEW k \in Nat, NEW v \in values
  PROVE  IsKeyed(Put(f, k, v), values)
<1>1. DOMAIN Put(f, k, v) = DOMAIN f \cup {k}
  BY DEF Put
<1>2. IsIdSet(DOMAIN Put(f, k, v))
  BY <1>1, FS_AddElement DEF IsIdSet, IsKeyed
<1>3. \A i \in DOMAIN f \cup {k} : Put(f, k, v)[i] \in values
  BY DEF Put, IsKeyed
<1> QED  BY <1>1, <1>2, <1>3 DEF IsKeyed

-----------------------------------------------------------------------------
(* The pieces of a loaded scene. *)

\* Sections of a document are sequences.
IsSection(s) == Len(s) \in Nat /\ DOMAIN s = 1 .. Len(s)

\* An id that is in a section is interned to a place in it (IdMap in
\* loader.rs).
LEMMA Interned ==
  ASSUME NEW s, IsSection(s), NEW id \in IdsIn(s)
  PROVE  /\ NumericId(s, id) \in NumericIds(s)
         /\ s[NumericId(s, id) + 1].id = id
<1> DEFINE i == CHOOSE i \in DOMAIN s : s[i].id = id
<1>1. i \in DOMAIN s /\ s[i].id = id
  BY DEF IdsIn
<1>2. NumericId(s, id) = i - 1
  BY DEF NumericId
<1> HIDE DEF i
<1> QED  BY <1>1, <1>2 DEF NumericIds, IsSection

\* A section's ids are numbers.
LEMMA SectionIds ==
  ASSUME NEW s, IsSection(s)
  PROVE  IsIdSet(NumericIds(s)) /\ \A n \in NumericIds(s) : n + 1 \in DOMAIN s
<1>1. IsFiniteSet(0 .. Len(s) - 1)
  BY FS_Interval DEF IsSection
<1> QED  BY <1>1 DEF IsIdSet, NumericIds, IsSection

\* What serde lets through is made of sections.
LEMMA DocumentSections ==
  ASSUME NEW doc \in Documents
  PROVE  /\ IsSection(doc.nodes) /\ IsSection(doc.paths) /\ IsSection(doc.movers)
         /\ IsSection(doc.resources)
         /\ IsSection(doc.producers) /\ IsSection(doc.consumers)
         /\ \A i \in DOMAIN doc.movers : doc.movers[i].speed \in Nat
<1>1. /\ doc.nodes \in Seq(RawNodes) /\ doc.paths \in Seq(RawPaths)
      /\ doc.movers \in Seq(RawMovers) /\ doc.resources \in Seq(RawResources)
      /\ doc.producers \in Seq(RawRates) /\ doc.consumers \in Seq(RawRates)
  BY DEF Documents
<1>2. \A i \in DOMAIN doc.movers : doc.movers[i] \in RawMovers
  BY <1>1
<1> QED  BY <1>1, <1>2 DEF IsSection, RawMovers

\* The paths of an accepted document lead from node to node.
LEMMA LoadedPathsType ==
  ASSUME NEW doc \in Documents, Accepts(doc)
  PROVE  /\ IsKeyed(LoadedPaths(doc), Ends)
         /\ \A p \in DOMAIN LoadedPaths(doc) :
              LoadedPaths(doc)[p].from \in NumericIds(doc.nodes)
              /\ LoadedPaths(doc)[p].to \in NumericIds(doc.nodes)
<1> DEFINE f == LoadedPaths(doc)
<1>1. DOMAIN f = NumericIds(doc.paths) /\ IsIdSet(DOMAIN f)
  BY DocumentSections, SectionIds DEF LoadedPaths
<1>2. ASSUME NEW p \in NumericIds(doc.paths)
      PROVE  f[p] = [from |-> f[p].from, to |-> f[p].to]
             /\ f[p].from \in NumericIds(doc.nodes) /\ f[p].to \in NumericIds(doc.nodes)
  <2> DEFINE raw == doc.paths[p + 1]
  <2>1. p + 1 \in DOMAIN doc.paths
    BY DocumentSections, SectionIds
  <2>2. raw.from \in IdsIn(doc.nodes) /\ raw.to \in IdsIn(doc.nodes)
    BY <2>1 DEF Accepts, PathsAreValid
  <2>3. NumericId(doc.nodes, raw.from) \in NumericIds(doc.nodes)
        /\ NumericId(doc.nodes, raw.to) \in NumericIds(doc.nodes)
    BY <2>2, DocumentSections, Interned
  <2>4. f[p] = [from |-> NumericId(doc.nodes, raw.from), to |-> NumericId(doc.nodes, raw.to)]
    BY DEF LoadedPaths
  <2> QED  BY <2>3, <2>4
<1>3. NumericIds(doc.nodes) \subseteq Nat
  BY DocumentSections, SectionIds DEF IsIdSet
<1> HIDE DEF f
<1>4. \A p \in DOMAIN f : f[p] \in Ends
  BY <1>1, <1>2, <1>3 DEF Ends
<1> QED  BY <1>1, <1>2, <1>4 DEF IsKeyed, f

\* The movers of an accepted document are not spawned yet, and call a path of
\* the document home.
LEMMA LoadedMoversType ==
  ASSUME NEW doc \in Documents, Accepts(doc)
  PROVE  /\ IsKeyed(LoadedMovers(doc), Movers)
         /\ \A m \in DOMAIN LoadedMovers(doc) :
              /\ LoadedMovers(doc)[m].home \in NumericIds(doc.paths)
              /\ LoadedMovers(doc)[m].state = Empty
<1> DEFINE f == LoadedMovers(doc)
<1>1. DOMAIN f = NumericIds(doc.movers) /\ IsIdSet(DOMAIN f)
  BY DocumentSections, SectionIds DEF LoadedMovers
<1>2. ASSUME NEW m \in NumericIds(doc.movers)
      PROVE  /\ f[m] = [home |-> f[m].home, speed |-> f[m].speed, state |-> Empty]
             /\ f[m].state = Empty
             /\ f[m].home \in NumericIds(doc.paths) /\ f[m].speed \in 0 .. SpeedLimit
  <2> DEFINE raw == doc.movers[m + 1]
  <2>1. m + 1 \in DOMAIN doc.movers
    BY DocumentSections, SectionIds
  <2>2. raw.on_path \in IdsIn(doc.paths) /\ raw.speed <= SpeedLimit /\ raw.speed \in Nat
    BY <2>1, DocumentSections DEF Accepts, MoversAreValid
  <2>3. NumericId(doc.paths, raw.on_path) \in NumericIds(doc.paths)
    BY <2>2, DocumentSections, Interned
  <2>4. f[m] = [home |-> NumericId(doc.paths, raw.on_path), speed |-> raw.speed, state |-> Empty]
    BY DEF LoadedMovers, Empty
  <2> HIDE DEF raw
  <2>5. raw.speed \in 0 .. SpeedLimit
    BY <2>2, LoaderAssumption
  <2> HIDE DEF f
  <2> QED  BY <2>3, <2>4, <2>5
<1>3. NumericIds(doc.paths) \subseteq Nat
  BY DocumentSections, SectionIds DEF IsIdSet
<1>4. Empty \in MoverStates
  BY DEF MoverStates
<1> HIDE DEF f
<1>5. \A m \in DOMAIN f : f[m] \in Movers
  BY <1>1, <1>2, <1>3, <1>4 DEF Movers
<1> QED  BY <1>1, <1>2, <1>5 DEF IsKeyed, f

\* The resources of an accepted document go by its ids, which differ.
LEMMA LoadedResourcesType ==
  ASSUME NEW doc \in Documents, Accepts(doc)
  PROVE  /\ IsKeyed(LoadedResources(doc), Ids)
         /\ DOMAIN LoadedResources(doc) = NumericIds(doc.resources)
         /\ \A r, s \in DOMAIN LoadedResources(doc) :
              LoadedResources(doc)[r] = LoadedResources(doc)[s] => r = s
<1> DEFINE f == LoadedResources(doc)
<1>1. DOMAIN f = NumericIds(doc.resources) /\ IsIdSet(DOMAIN f)
  BY DocumentSections, SectionIds DEF LoadedResources
<1>2. /\ \A r \in DOMAIN f : r \in Nat /\ r + 1 \in DOMAIN doc.resources
      /\ \A r \in DOMAIN f : f[r] = doc.resources[r + 1].id
  BY <1>1, DocumentSections, SectionIds DEF LoadedResources, IsIdSet
<1>3. HasIds(doc.resources)
  BY DEF Accepts, ResourcesAreValid
<1> HIDE DEF f
<1>4. \A r \in DOMAIN f : f[r] \in Ids
  BY <1>2, <1>3 DEF HasIds, IdsIn
<1>5. \A r, s \in DOMAIN f : f[r] = f[s] => r = s
  BY <1>2, <1>3 DEF HasIds
<1> QED  BY <1>1, <1>4, <1>5 DEF IsKeyed, f

\* A section of producers or consumers refers to resources of the document.
LEMMA LoadedRatesType ==
  ASSUME NEW doc \in Documents, Accepts(doc), NEW section,
         section \in {doc.producers, doc.consumers}
  PROVE  /\ IsKeyed(LoadedRates(doc, section), Rates)
         /\ \A n \in DOMAIN LoadedRates(doc, section) :
              LoadedRates(doc, section)[n].resource \in NumericIds(doc.resources)
<1> DEFINE f == LoadedRates(doc, section)
<1>1. IsSection(section) /\ RatesAreValid(doc, section)
  BY DocumentSections DEF Accepts
<1>2. DOMAIN f = NumericIds(section) /\ IsIdSet(DOMAIN f)
  BY <1>1, SectionIds DEF LoadedRates
<1>3. ASSUME NEW n \in NumericIds(section)
      PROVE  /\ f[n] = [resource |-> f[n].resource, amount |-> f[n].amount, every |-> f[n].every]
             /\ f[n].resource \in NumericIds(doc.resources)
             /\ f[n].amount \in 1 .. AmountLimit /\ f[n].every \in 1 .. IntervalLimit
  <2> DEFINE raw == section[n + 1]
  <2>1. n + 1 \in DOMAIN section
    BY <1>1, SectionIds
  <2>2. /\ raw.resource \in IdsIn(doc.resources)
        /\ raw.amount \in 1 .. AmountLimit /\ raw.every \in 1 .. IntervalLimit
    BY <1>1, <2>1 DEF RatesAreValid
  <2>3. NumericId(doc.resources, raw.resource) \in NumericIds(doc.resources)
    BY <2>2, DocumentSections, Interned
  <2>4. f[n] = [resource |-> NumericId(doc.resources, raw.resource),
                amount |-> raw.amount, every |-> raw.every]
    BY DEF LoadedRates
  <2> HIDE DEF f, raw
  <2> QED  BY <2>2, <2>3, <2>4
<1>4. NumericIds(doc.resources) \subseteq Nat
  BY DocumentSections, SectionIds DEF IsIdSet
<1> HIDE DEF f
<1>5. \A n \in DOMAIN f : f[n] \in Rates
  BY <1>2, <1>3, <1>4 DEF Rates
<1> QED  BY <1>2, <1>3, <1>5 DEF IsKeyed, f

-----------------------------------------------------------------------------
(* The systems. *)

\* What a mover's state can be.
LEMMA StateCases ==
  ASSUME NEW m \in Movers
  PROVE  /\ m = [home |-> m.home, speed |-> m.speed, state |-> m.state]
         /\ m.home \in Nat /\ m.speed \in 0 .. SpeedLimit /\ m.state \in MoverStates
         /\ m.state.kind \in {"empty", "waiting", "traveling"}
         /\ m.state.kind = "waiting" => m.state.at \in Nat
         /\ m.state.kind = "traveling" =>
              /\ m.state = Traveling(m.state.path, m.state.progress)
              /\ m.state.path \in Nat /\ m.state.progress \in 0 .. Whole
<1>1. /\ m = [home |-> m.home, speed |-> m.speed, state |-> m.state]
      /\ m.home \in Nat /\ m.speed \in 0 .. SpeedLimit /\ m.state \in MoverStates
  BY DEF Movers
<1> DEFINE s == m.state
<1>2. s \in MoverStates
  BY <1>1
<1> HIDE DEF s
<1>3. s.kind \in {"empty", "waiting", "traveling"}
  BY <1>2 DEF MoverStates, Empty
<1>4. s.kind = "waiting" => s.at \in Nat
  BY <1>2 DEF MoverStates, Empty
<1>5. s.kind = "traveling" => s = Traveling(s.path, s.progress)
                              /\ s.path \in Nat /\ s.progress \in 0 .. Whole
  BY <1>2 DEF MoverStates, Empty, Traveling
<1> QED  BY <1>1, <1>3, <1>4, <1>5 DEF s

\* The states the systems put a mover in.
LEMMA StatesAre ==
  /\ \A n \in Nat : Waiting(n) \in MoverStates
  /\ \A p \in Nat, k \in 0 .. Whole : Traveling(p, k) \in MoverStates
  /\ \A p \in Nat : Traveling(p, 0) \in MoverStates
<1>1. 0 \in 0 .. Whole
  BY WorldAssumption
<1> QED  BY <1>1 DEF MoverStates, Waiting, Traveling

\* movement.rs and lifecycle.rs keep the type of a mover.
LEMMA MovedTypes ==
  ASSUME IsKeyed(paths, Ends), NEW m0 \in Movers
  PROVE  /\ Spawned(m0) \in Movers /\ Advanced(Spawned(m0)) \in Movers
         /\ Arrived(Advanced(Spawned(m0))) \in Movers
<1>1. ASSUME NEW m \in Movers  PROVE Spawned(m) \in Movers
  <2>1. m.home \in Nat /\ Traveling(m.home, 0) \in MoverStates
    BY StateCases, StatesAre
  <2> QED  BY <2>1 DEF Spawned, Movers
<1>2. ASSUME NEW m \in Movers  PROVE Advanced(m) \in Movers
  <2>1. CASE m.state.kind # "traveling"
    BY <2>1 DEF Advanced
  <2>2. CASE m.state.kind = "traveling"
    <3> DEFINE steps == m.state.progress + m.speed
               k     == IF steps > Whole THEN Whole ELSE steps
    <3>1. m.state = Traveling(m.state.path, m.state.progress) /\ m.state.path \in Nat
          /\ m.state.progress \in 0 .. Whole /\ m.speed \in 0 .. SpeedLimit
      BY <2>2, StateCases
    <3>2. k \in 0 .. Whole
      BY <3>1, WorldAssumption, LoaderAssumption
    <3>3. Advanced(m) = [m EXCEPT !.state.progress = k]
      BY <2>2 DEF Advanced
    <3> HIDE DEF k
    <3>4. [m EXCEPT !.state.progress = k] = [m EXCEPT !.state = Traveling(m.state.path, k)]
      BY <3>1, StateCases DEF Traveling
    <3>5. Traveling(m.state.path, k) \in MoverStates
      BY <3>1, <3>2, StatesAre
    <3> QED  BY <3>3, <3>4, <3>5 DEF Movers
  <2> QED  BY <2>1, <2>2
<1>3. ASSUME NEW m \in Movers  PROVE Arrived(m) \in Movers
  <2>1. CASE HasArrived(m) /\ m.state.path \in DOMAIN paths
    <3>1. paths[m.state.path].to \in Nat
      BY <2>1 DEF IsKeyed, Ends
    <3>2. Waiting(paths[m.state.path].to) \in MoverStates
      BY <3>1, StatesAre
    <3> QED  BY <2>1, <3>2 DEF Arrived, Movers
  <2>2. CASE ~(HasArrived(m) /\ m.state.path \in DOMAIN paths)
    BY <2>2 DEF Arrived
  <2> QED  BY <2>1, <2>2
<1> QED  BY <1>1, <1>2, <1>3

\* And of all movers.
LEMMA MovedType ==
  ASSUME IsKeyed(movers, Movers), IsKeyed(paths, Ends)
  PROVE  IsKeyed(Moved, Movers)
<1>1. \A k \in DOMAIN movers : Moved[k] \in Movers
  BY MovedTypes DEF Moved, IsKeyed
<1> QED  BY <1>1 DEF IsKeyed, Moved

\* The path a waiting mover takes leads out of its node (interaction.rs).
LEMMA WayOut ==
  ASSUME IsKeyed(paths, Ends), NEW n, PathsOut(n) # {}
  PROVE  Min(PathsOut(n)) \in PathsOut(n) /\ Min(PathsOut(n)) \in Nat
<1>1. PathsOut(n) \subseteq Nat
  BY DEF PathsOut, IsKeyed, IsIdSet
<1>2. \E x \in PathsOut(n) : \A y \in PathsOut(n) : x <= y
  BY <1>1, HasLeast
<1> QED  BY <1>1, <1>2 DEF Min

\* interaction.rs keeps the types.
LEMMA RoutedType ==
  ASSUME IsKeyed(movers, Movers), IsKeyed(paths, Ends)
  PROVE  IsKeyed(Routed, Movers)
<1>1. ASSUME NEW k \in DOMAIN movers  PROVE Routed[k] \in Movers
  <2>1. movers[k] \in Movers
    BY DEF IsKeyed
  <2>2. CASE movers[k].state.kind = "waiting" /\ PathsOut(movers[k].state.at) # {}
    <3> DEFINE p == Min(PathsOut(movers[k].state.at))
    <3>1. p \in Nat
      BY <2>2, WayOut
    <3>2. Traveling(p, 0) \in MoverStates
      BY <3>1, StatesAre
    <3>3. Routed[k] = [movers[k] EXCEPT !.state = Traveling(p, 0)]
      BY <2>2 DEF Routed
    <3> HIDE DEF p
    <3> QED  BY <2>1, <3>2, <3>3 DEF Movers
  <2>3. CASE ~(movers[k].state.kind = "waiting" /\ PathsOut(movers[k].state.at) # {})
    BY <2>1, <2>3 DEF Routed
  <2> QED  BY <2>2, <2>3
<1> QED  BY <1>1 DEF IsKeyed, Routed

-----------------------------------------------------------------------------
(* Actions. *)

\* The part of TypeOK actions can disturb.
PiecesTyped == IsIdSet(nodes) /\ IsKeyed(paths, Ends) /\ IsKeyed(movers, Movers)
GoodsTyped  == /\ IsKeyed(resources, Ids)
               /\ IsKeyed(producers, Rates) /\ IsKeyed(consumers, Rates)

\* An action that is applied fits its condition.
LEMMA ActionCases ==
  ASSUME NEW a \in Actions, Applies(a), Effect(a)
  PROVE  \/ a.kind \in {"no_op", "set_goal"} /\ UNCHANGED <<pieceVars, goodsVars>>
         \/ CanSetSpeed(a) /\ a.speed \in Nat /\ SetSpeed(a)
         \/ CanPlacePiece(a) /\ PlacePiece(a)
         \/ CanConnectPieces(a) /\ ConnectPieces(a)
         \/ CanRemovePiece(a) /\ RemovePiece(a)
         \/ CanDefineResource(a) /\ DefineResource(a)
         \/ CanAddRate(a) /\ (AddProducer(a) \/ AddConsumer(a))
<1>1. a.kind = "set_speed" => a.speed \in Nat
  BY DEF Actions
<1>2. /\ a.kind # "no_op" /\ a.kind # "set_goal" => Applies(a)
      /\ a.kind = "set_speed" => CanSetSpeed(a)
      /\ a.kind = "place_piece" => CanPlacePiece(a)
      /\ a.kind = "connect_pieces" => CanConnectPieces(a)
      /\ a.kind = "remove_piece" => CanRemovePiece(a)
      /\ a.kind = "define_resource" => CanDefineResource(a)
      /\ a.kind \in {"add_producer", "add_consumer"} => CanAddRate(a)
  BY DEF Applies
<1> QED  BY <1>1, <1>2 DEF Effect

\* A new rate refers to a resource there is.
LEMMA NewRateType ==
  ASSUME NEW a, CanAddRate(a), IsKeyed(resources, Ids)
  PROVE  NewRate(a) \in Rates /\ NewRate(a).resource \in DOMAIN resources
<1> DEFINE r == CHOOSE x \in DOMAIN resources : resources[x] = a.resource
<1>1. r \in DOMAIN resources
  BY DEF CanAddRate, NamesInUse
<1>2. r \in Nat
  BY <1>1 DEF IsKeyed, IsIdSet
<1>3. NewRate(a) = [resource |-> r, amount |-> a.amount, every |-> a.every]
  BY DEF NewRate
<1> HIDE DEF r
<1> QED  BY <1>1, <1>2, <1>3 DEF CanAddRate, Rates

\* Actions keep the types (apply_action in actions.rs).
LEMMA ApplyType ==
  ASSUME PiecesTyped, GoodsTyped, NEW a \in Actions, Apply(a)
  PROVE  PiecesTyped' /\ GoodsTyped'
<1>1. CASE ~Applies(a)
  BY <1>1 DEF Apply, PiecesTyped, GoodsTyped, pieceVars, goodsVars, IsKeyed
<1> SUFFICES ASSUME Applies(a), Effect(a)  PROVE PiecesTyped' /\ GoodsTyped'
  BY <1>1 DEF Apply
<1>2. CASE UNCHANGED <<pieceVars, goodsVars>>
  BY <1>2 DEF PiecesTyped, GoodsTyped, pieceVars, goodsVars, IsKeyed
<1>3. CASE CanSetSpeed(a) /\ a.speed \in Nat /\ SetSpeed(a)
  <2>1. UNCHANGED <<nodes, paths, goodsVars>> /\ DOMAIN movers' = DOMAIN movers
    BY <1>3 DEF SetSpeed
  <2>2. a.speed \in 0 .. SpeedLimit
    BY <1>3, LoaderAssumption DEF CanSetSpeed
  <2>3. ASSUME NEW m \in DOMAIN movers  PROVE movers'[m] \in Movers
    <3>1. movers[m] \in Movers
      BY DEF PiecesTyped, IsKeyed
    <3>2. [movers[m] EXCEPT !.speed = a.speed] \in Movers
      BY <2>2, <3>1 DEF Movers
    <3> QED  BY <1>3, <3>1, <3>2 DEF SetSpeed
  <2> QED  BY <2>1, <2>3 DEF PiecesTyped, GoodsTyped, goodsVars, IsKeyed
<1>4. CASE CanPlacePiece(a) /\ PlacePiece(a)
  <2>1. IsIdSet(nodes')
    BY <1>4, NextDenseIsFree, FS_AddElement DEF PlacePiece, PiecesTyped, IsIdSet
  <2> QED  BY <1>4, <2>1 DEF PlacePiece, PiecesTyped, GoodsTyped, goodsVars, IsKeyed
<1>5. CASE CanConnectPieces(a) /\ ConnectPieces(a)
  <2>1. NextDense(DOMAIN paths) \in Nat /\ [from |-> a.from, to |-> a.to] \in Ends
    BY <1>5, NextDenseIsFree DEF CanConnectPieces, PiecesTyped, IsKeyed, IsIdSet, Ends
  <2>2. IsKeyed(paths', Ends)
    BY <1>5, <2>1, PutIsKeyed DEF ConnectPieces, PiecesTyped
  <2> QED  BY <1>5, <2>2 DEF ConnectPieces, PiecesTyped, GoodsTyped, goodsVars, IsKeyed
<1>6. CASE CanRemovePiece(a) /\ RemovePiece(a)
  <2>1. IsIdSet(nodes')
    BY <1>6, FS_RemoveElement DEF RemovePiece, PiecesTyped, IsIdSet
  <2>2. DOMAIN paths' \subseteq DOMAIN paths /\ \A p \in DOMAIN paths' : paths'[p] = paths[p]
    BY <1>6 DEF RemovePiece
  <2>3. IsKeyed(paths', Ends)
    BY <2>2, FS_Subset DEF PiecesTyped, IsKeyed, IsIdSet
  <2> QED  BY <1>6, <2>1, <2>3 DEF RemovePiece, PiecesTyped, GoodsTyped, goodsVars, IsKeyed
<1>7. CASE CanDefineResource(a) /\ DefineResource(a)
  <2>1. NextDense(DOMAIN resources) \in Nat /\ a.name \in Ids
    BY <1>7, NextDenseIsFree DEF CanDefineResource, GoodsTyped, IsKeyed
  <2>2. IsKeyed(resources', Ids)
    BY <1>7, <2>1, PutIsKeyed DEF DefineResource, GoodsTyped
  <2> QED  BY <1>7, <2>2 DEF DefineResource, PiecesTyped, GoodsTyped, pieceVars, IsKeyed
<1>8. CASE CanAddRate(a) /\ AddProducer(a)
  <2>1. NextDense(DOMAIN producers) \in Nat /\ NewRate(a) \in Rates
    BY <1>8, NextDenseIsFree, NewRateType DEF GoodsTyped, IsKeyed
  <2>2. IsKeyed(producers', Rates)
    BY <1>8, <2>1, PutIsKeyed DEF AddProducer, GoodsTyped
  <2> QED  BY <1>8, <2>2 DEF AddProducer, PiecesTyped, GoodsTyped, pieceVars, IsKeyed
<1>9. CASE CanAddRate(a) /\ AddConsumer(a)
  <2>1. NextDense(DOMAIN consumers) \in Nat /\ NewRate(a) \in Rates
    BY <1>9, NextDenseIsFree, NewRateType DEF GoodsTyped, IsKeyed
  <2>2. IsKeyed(consumers', Rates)
    BY <1>9, <2>1, PutIsKeyed DEF AddConsumer, GoodsTyped
  <2> QED  BY <1>9, <2>2 DEF AddConsumer, PiecesTyped, GoodsTyped, pieceVars, IsKeyed
<1> QED  BY <1>2, <1>3, <1>4, <1>5, <1>6, <1>7, <1>8, <1>9, ActionCases

-----------------------------------------------------------------------------
(* Types. *)

\* A simulation starts well typed.
LEMMA InitType == Init => TypeOK
<1> SUFFICES ASSUME NEW setup \in Setups,
                    WorldInit(setup.scene), LogInit,
                    tools = setup.tools, logging = setup.log,
                    hosts = Registered(setup.roster), turn = 0, topologyDirty = FALSE
             PROVE  TypeOK
  BY DEF Init
<1>1. /\ setup.scene \in Documents /\ setup.tools \subseteq Actions /\ setup.log \in BOOLEAN
      /\ Len(setup.roster) \in Nat
  BY PipelineAssumption
<1>2. Accepts(setup.scene)
  BY DEF WorldInit
<1>3. IsIdSet(nodes) /\ IsKeyed(paths, Ends) /\ IsKeyed(movers, Movers)
  BY <1>1, <1>2, DocumentSections, SectionIds, LoadedPathsType, LoadedMoversType DEF WorldInit
<1>4. IsKeyed(resources, Ids) /\ IsKeyed(producers, Rates) /\ IsKeyed(consumers, Rates)
  BY <1>1, <1>2, LoadedResourcesType, LoadedRatesType DEF WorldInit
<1>5. Len(hosts) = Len(setup.roster) /\ DOMAIN hosts = 1 .. Len(hosts)
  BY <1>1 DEF Registered
<1>6. turn \in 0 .. Len(hosts) + 1 /\ tick \in Nat /\ runState = "loaded"
  BY <1>1, <1>5 DEF WorldInit
<1>7. tools \subseteq Actions /\ logging \in BOOLEAN /\ topologyDirty \in BOOLEAN
  BY <1>1
<1>8. Len(hosts) \in Nat
  BY <1>1, <1>5
<1> QED  BY <1>3, <1>4, <1>5, <1>6, <1>7, <1>8, Zenon DEF TypeOK

\* A step of a tick keeps the types (tick.rs).
LEMMA StepType == TypeOK /\ [Next]_vars => TypeOK'
<1> SUFFICES ASSUME TypeOK, [Next]_vars  PROVE TypeOK'
  OBVIOUS
<1> USE DEF TypeOK
<1>1. CASE BeginTick
  <2>1. IsKeyed(movers', Movers)
    BY <1>1, MovedType DEF BeginTick
  <2>2. UNCHANGED <<nodes, paths, resources, producers, consumers, tools, logging, hosts>>
    BY <1>1 DEF BeginTick, goodsVars, setupVars
  <2>3. tick' \in Nat /\ runState' = "running" /\ topologyDirty' = FALSE
    BY <1>1 DEF BeginTick
  <2>4. turn' \in 0 .. Len(hosts) + 1
    BY <1>1 DEF BeginTick
  <2> QED  BY <2>1, <2>2, <2>3, <2>4 DEF IsKeyed
<1>2. CASE HeldTick
  BY <1>2 DEF HeldTick, worldVars, pieceVars, goodsVars, setupVars, IsKeyed
<1>3. CASE Pass \/ Panic \/ Fail
  <2>1. turn' \in 0 .. Len(hosts) + 1
    BY <1>3 DEF Pass, Panic, Fail, HasTurn
  <2> QED  BY <1>3, <2>1 DEF Pass, Panic, Fail, worldVars, pieceVars, goodsVars, setupVars, IsKeyed
<1>4. ASSUME NEW a \in tools, Decide(a)  PROVE TypeOK'
  <2>1. PiecesTyped' /\ GoodsTyped'
    BY <1>4, ApplyType DEF Decide, PiecesTyped, GoodsTyped
  <2>2. turn' \in 0 .. Len(hosts) + 1 /\ topologyDirty' \in BOOLEAN
    BY <1>4 DEF Decide, HasTurn
  <2> QED  BY <1>4, <2>1, <2>2 DEF Decide, PiecesTyped, GoodsTyped, setupVars
<1>5. CASE EndTick
  <2>1. IsKeyed(movers', Movers)
    BY <1>5, RoutedType DEF EndTick
  <2> QED  BY <1>5, <2>1 DEF EndTick, Production, setupVars, IsKeyed
<1>6. CASE UNCHANGED vars
  BY <1>6 DEF vars, worldVars, pieceVars, goodsVars, setupVars, tickVars, IsKeyed
<1> QED  BY <1>1, <1>2, <1>3, <1>4, <1>5, <1>6 DEF Next

\* The variables have their types.
THEOREM TypeCorrect == Spec => []TypeOK
<1> QED  BY InitType, StepType, PTL DEF Spec

-----------------------------------------------------------------------------
(* A tick as its callers see it. *)

\* A world is loaded until its first tick begins, and never again.
LoadedUntilTicked ==
  /\ tick = 0 => turn = 0 /\ runState = "loaded"
  /\ tick > 0 => runState \in {"running", "faulted"}

\* The run state follows the ticks (tick_once in tick.rs).
LEMMA StepLoaded == TypeOK /\ LoadedUntilTicked /\ [Next]_vars => LoadedUntilTicked'
<1> SUFFICES ASSUME TypeOK, LoadedUntilTicked, [Next]_vars  PROVE LoadedUntilTicked'
  OBVIOUS
<1> USE DEF LoadedUntilTicked
<1>1. tick \in Nat /\ turn \in Nat
  BY DEF TypeOK
<1>2. CASE BeginTick
  BY <1>1, <1>2 DEF BeginTick
<1>3. CASE HeldTick
  BY <1>3 DEF HeldTick, worldVars
<1>4. CASE Pass \/ Panic \/ Fail
  <2>1. turn \in DOMAIN hosts /\ tick' = tick /\ runState' \in {runState, "faulted"}
    BY <1>4 DEF Pass, Panic, Fail, HasTurn, worldVars
  <2>2. turn > 0
    BY <2>1 DEF TypeOK
  <2> QED  BY <1>1, <2>1, <2>2
<1>5. ASSUME NEW a \in tools, Decide(a)  PROVE LoadedUntilTicked'
  <2>1. turn \in DOMAIN hosts /\ UNCHANGED <<tick, runState>>
    BY <1>5 DEF Decide, HasTurn
  <2>2. turn > 0
    BY <2>1 DEF TypeOK
  <2> QED  BY <1>1, <2>1, <2>2
<1>6. CASE EndTick
  <2>1. UNCHANGED <<tick, runState>> /\ turn' = 0 /\ turn > 0
    BY <1>1, <1>6 DEF EndTick, TypeOK
  <2> QED  BY <1>1, <2>1
<1>7. CASE UNCHANGED vars
  BY <1>7 DEF vars, worldVars, tickVars
<1> QED  BY <1>2, <1>3, <1>4, <1>5, <1>6, <1>7 DEF Next

\* What the callers see, as TickPromise has it.
Seen == IF AtRest THEN [tick |-> tick, state |-> runState]
        ELSE [tick |-> tick - 1, state |-> IF tick = 1 THEN "loaded" ELSE "running"]

\* An update of both fields of a record.
LEMMA Update ==
  ASSUME NEW t, NEW s, NEW t2, NEW s2
  PROVE  [[tick |-> t, state |-> s] EXCEPT !.tick = t2, !.state = s2]
           = [tick |-> t2, state |-> s2]
<1> DEFINE w == [tick |-> t, state |-> s]
           f == [w EXCEPT !.tick = t2, !.state = s2]
<1>1. DOMAIN w = {"tick", "state"}
  OBVIOUS
<1>2. DOMAIN f = {"tick", "state"} /\ f.tick = t2 /\ f.state = s2
  BY <1>1
<1>3. f = [x \in DOMAIN w |-> f[x]]
  BY <1>1
<1> HIDE DEF f
<1>4. f = [tick |-> t2, state |-> s2]
  BY <1>1, <1>2, <1>3
<1> QED  BY <1>4 DEF f

\* Every step of tick_once is a whole tick to its callers, or none.
LEMMA StepKeepsPromise ==
  TypeOK /\ LoadedUntilTicked /\ [Next]_vars =>
    \/ \E outcome \in {"ok", "agent_fault"} : Seen' = TickPromised!Ticked(Seen, outcome)
    \/ UNCHANGED Seen
<1> SUFFICES ASSUME TypeOK, LoadedUntilTicked, [Next]_vars
             PROVE  \/ \E outcome \in {"ok", "agent_fault"} :
                         Seen' = TickPromised!Ticked(Seen, outcome)
                    \/ UNCHANGED Seen
  OBVIOUS
<1>1. tick \in Nat /\ turn \in Nat /\ Len(hosts) \in Nat
  BY DEF TypeOK
<1>2. ASSUME turn > 0, turn' > 0, tick' = tick  PROVE UNCHANGED Seen
  BY <1>1, <1>2 DEF Seen, AtRest
<1>3. CASE BeginTick
  <2>1. turn = 0 /\ tick' = tick + 1 /\ turn' = 1 /\ runState # "faulted"
    BY <1>3 DEF BeginTick, Runnable
  <2>2. runState = IF tick' = 1 THEN "loaded" ELSE "running"
    BY <1>1, <2>1 DEF LoadedUntilTicked
  <2> QED  BY <1>1, <2>1, <2>2 DEF Seen, AtRest
<1>4. CASE HeldTick
  BY <1>4 DEF HeldTick, worldVars, Seen, AtRest
<1>5. CASE Pass \/ Panic \/ Fail \/ \E a \in tools : Decide(a)
  <2>1. turn \in DOMAIN hosts /\ turn' = turn + 1 /\ tick' = tick
    BY <1>5 DEF Pass, Panic, Fail, Decide, HasTurn, worldVars
  <2>2. turn > 0 /\ turn' > 0
    BY <1>1, <2>1 DEF TypeOK
  <2> QED  BY <1>2, <2>1, <2>2
<1>6. CASE EndTick
  <2>1. turn > 0 /\ turn' = 0 /\ UNCHANGED <<tick, runState>>
    BY <1>1, <1>6 DEF EndTick
  <2>2. tick > 0 /\ runState \in {"running", "faulted"}
    BY <1>1, <2>1 DEF LoadedUntilTicked
  <2>3. Seen = [tick |-> tick - 1, state |-> IF tick = 1 THEN "loaded" ELSE "running"]
        /\ Seen' = [tick |-> tick, state |-> runState]
    BY <1>1, <2>1 DEF Seen, AtRest
  <2>4. Seen.state \notin {"paused", "faulted"} /\ Seen.tick + 1 = tick
    BY <1>1, <2>3
  <2>5. Seen' = TickPromised!Ticked(Seen, IF runState = "running" THEN "ok" ELSE "agent_fault")
    <3>1. Seen = [tick |-> Seen.tick, state |-> Seen.state]
      BY <2>3
    <3>2. [Seen EXCEPT !.tick = Seen.tick + 1, !.state = runState]
            = [tick |-> Seen.tick + 1, state |-> runState]
      BY <3>1, Update, Zenon
    <3> QED  BY <2>2, <2>3, <2>4, <3>2 DEF TickPromised!Ticked, TickPromised!Holds
  <2> QED  BY <2>2, <2>5
<1>7. CASE UNCHANGED vars
  BY <1>7 DEF vars, worldVars, tickVars, Seen, AtRest
<1> QED  BY <1>3, <1>4, <1>5, <1>6, <1>7 DEF Next

\* For every roster of agents, whatever they do and however many panic, a tick
\* counts once, is all or nothing, and a faulted world stays as it is
\* (tick_once in tick.rs, on which the driver in driver.rs relies).
THEOREM TickKeepsPromise == Spec => KeepsTickPromise
<1>1. Init => TypeOK /\ LoadedUntilTicked
  BY InitType DEF Init, WorldInit, LoadedUntilTicked
<1>2. TypeOK /\ LoadedUntilTicked /\ [Next]_vars => (TypeOK /\ LoadedUntilTicked)'
  BY StepType, StepLoaded
<1>3. Init => TickPromised!Init
  BY DEF Init, WorldInit, TickPromised!Init, AtRest
<1>4. TypeOK /\ LoadedUntilTicked /\ [Next]_vars
        => [TickPromised!Tick]_(IF AtRest THEN [tick |-> tick, state |-> runState]
             ELSE [tick |-> tick - 1, state |-> IF tick = 1 THEN "loaded" ELSE "running"])
  BY StepKeepsPromise DEF TickPromised!Tick, Seen
<1> QED  BY <1>1, <1>2, <1>3, <1>4, PTL DEF Spec, KeepsTickPromise, TickPromised!Spec

-----------------------------------------------------------------------------
(* The static view. *)

\* Until the tick is over, what has not been sent is marked.
MarkedIfChanged == topologyDirty \/ shown = StaticView

\* At the end of every tick the clients have the world's topology, whatever
\* its agents changed, failed at or undid (topology_dirty in tick.rs,
\* tick_and_emit in driver.rs).
THEOREM ViewIsCurrent == Spec => []StaticViewIsCurrent
<1> DEFINE Inv == (AtRest => shown = StaticView) /\ MarkedIfChanged
<1>1. Init => Inv
  BY DEF Init, AtRest, MarkedIfChanged
<1>2. TypeOK /\ Inv /\ [Next]_vars => Inv'
  <2> SUFFICES ASSUME TypeOK, Inv, [Next]_vars  PROVE Inv'
    OBVIOUS
  <2> USE DEF AtRest, MarkedIfChanged, StaticView
  <2>1. CASE BeginTick
    BY <2>1 DEF BeginTick
  <2>2. CASE HeldTick
    BY <2>2 DEF HeldTick, worldVars, pieceVars
  <2>3. CASE Pass \/ Panic \/ Fail
    <3>1. turn \in DOMAIN hosts /\ turn' = turn + 1
          /\ UNCHANGED <<nodes, paths, shown, topologyDirty>>
      BY <2>3 DEF Pass, Panic, Fail, HasTurn, worldVars, pieceVars
    <3>2. turn' # 0
      BY <3>1 DEF TypeOK
    <3> QED  BY <3>1, <3>2
  <2>4. ASSUME NEW a \in tools, Decide(a)  PROVE Inv'
    <3>1. turn \in DOMAIN hosts /\ turn' = turn + 1 /\ UNCHANGED shown
          /\ topologyDirty' = (topologyDirty \/ (Applies(a) /\ ChangesTopology(a)))
      BY <2>4 DEF Decide, HasTurn
    <3>2. turn' # 0
      BY <3>1 DEF TypeOK
    <3>3. (Applies(a) /\ ChangesTopology(a)) \/ UNCHANGED <<nodes, paths>>
      BY <2>4 DEF Decide, Apply, Effect, ChangesTopology, SetSpeed, DefineResource,
                  AddProducer, AddConsumer, pieceVars
    <3> QED  BY <3>1, <3>2, <3>3
  <2>5. CASE EndTick
    BY <2>5 DEF EndTick
  <2>6. CASE UNCHANGED vars
    BY <2>6 DEF vars, worldVars, pieceVars, tickVars
  <2> QED  BY <2>1, <2>2, <2>3, <2>4, <2>5, <2>6 DEF Next
<1>3. Inv => StaticViewIsCurrent
  BY DEF StaticViewIsCurrent
<1> QED  BY <1>1, <1>2, <1>3, TypeCorrect, PTL DEF Spec

-----------------------------------------------------------------------------
(* The log. *)

\* Whatever the agents decide and however writes fail, the log loses nothing
\* without a trace (AgentLog in agent_log.rs, run_agents in tick.rs).
THEOREM LogTruthful == Spec => []LogIsTruthful
<1>1. Init => LogInv
  BY LogInitInv DEF Init
<1>2. LogInv /\ [Next]_vars => LogInv'
  <2> SUFFICES ASSUME LogInv, [Next]_vars  PROVE LogInv'
    OBVIOUS
  <2>1. ASSUME UNCHANGED logVars  PROVE LogInv'
    BY <2>1 DEF logVars, LogInv, LogIsTruthful, LogAccountsForAll, WarnedOnce, SinkThenRing
  <2>2. ASSUME NEW a \in tools, Decide(a)  PROVE LogInv'
    BY <2>1, <2>2, LogAppendInv DEF Decide
  <2>3. CASE BeginTick \/ HeldTick \/ Pass \/ Panic \/ Fail \/ EndTick
    BY <2>1, <2>3 DEF BeginTick, HeldTick, Pass, Panic, Fail, EndTick
  <2>4. CASE UNCHANGED vars
    BY <2>1, <2>4 DEF vars
  <2> QED  BY <2>2, <2>3, <2>4 DEF Next
<1>3. LogInv => LogIsTruthful
  BY DEF LogInv
<1> QED  BY <1>1, <1>2, <1>3, PTL DEF Spec

-----------------------------------------------------------------------------
(***************************************************************************)
(* References between the pieces of a world: none dangles, the paths       *)
(* movers depend on stay, and no mover is left standing.                   *)
(***************************************************************************)
(* The two halves of NothingDangles. *)

PiecesResolve ==
  /\ \A p \in DOMAIN paths : paths[p].from \in nodes /\ paths[p].to \in nodes
  /\ \A m \in DOMAIN movers : MoverResolves(movers[m])

GoodsResolve ==
  /\ DOMAIN inventory = DOMAIN resources /\ DOMAIN ledger = DOMAIN resources
  /\ \A p \in DOMAIN producers : producers[p].resource \in DOMAIN resources
  /\ \A c \in DOMAIN consumers : consumers[c].resource \in DOMAIN resources
  /\ \A r, s \in DOMAIN resources : resources[r] = resources[s] => r = s

LEMMA Halves == NothingDangles <=> PiecesResolve /\ GoodsResolve
BY DEF NothingDangles, PiecesResolve, GoodsResolve

\* Interned references resolve (validate in loader.rs).
LEMMA InitResolves == Init => NothingDangles
<1> SUFFICES ASSUME NEW setup \in Setups, WorldInit(setup.scene)  PROVE NothingDangles
  BY DEF Init
<1> DEFINE doc == setup.scene
<1>1. doc \in Documents /\ Accepts(doc)
  BY PipelineAssumption DEF WorldInit
<1>2. /\ nodes = NumericIds(doc.nodes) /\ paths = LoadedPaths(doc) /\ movers = LoadedMovers(doc)
      /\ resources = LoadedResources(doc) /\ inventory = LoadedInventory(doc) /\ ledger = inventory
      /\ producers = LoadedRates(doc, doc.producers) /\ consumers = LoadedRates(doc, doc.consumers)
  BY DEF WorldInit
<1> HIDE DEF doc
<1>3. DOMAIN paths = NumericIds(doc.paths) /\ DOMAIN inventory = NumericIds(doc.resources)
  BY <1>2 DEF LoadedPaths, LoadedInventory
<1>4. PiecesResolve
  <2>1. \A p \in DOMAIN paths : paths[p].from \in nodes /\ paths[p].to \in nodes
    BY <1>1, <1>2, LoadedPathsType
  <2>2. \A m \in DOMAIN movers : movers[m].home \in DOMAIN paths /\ movers[m].state = Empty
    BY <1>1, <1>2, <1>3, LoadedMoversType
  <2>3. Empty.kind = "empty"
    BY DEF Empty
  <2> QED  BY <2>1, <2>2, <2>3 DEF PiecesResolve, MoverResolves
<1>5. GoodsResolve
  BY <1>1, <1>2, <1>3, LoadedResourcesType, LoadedRatesType DEF GoodsResolve
<1> QED  BY <1>4, <1>5, Halves

-----------------------------------------------------------------------------
(* Movers on their way. *)

\* After the first tick has begun every mover waits or is on a path, and not at
\* its end.
UnderWay(m) ==
  \/ m.state.kind = "waiting"
  \/ m.state.kind = "traveling" /\ m.state.progress < Whole

\* lifecycle.rs and movement.rs: whatever arrives, or sets off, is where its
\* paths lead.
LEMMA MovedResolves ==
  ASSUME TypeOK, PiecesResolve, NEW k \in DOMAIN movers
  PROVE  MoverResolves(Moved[k]) /\ UnderWay(Moved[k])
<1> DEFINE m0 == movers[k]
           m1 == Spawned(m0)
           m2 == Advanced(m1)
<1>1. m0 \in Movers /\ MoverResolves(m0) /\ Moved[k] = Arrived(m2)
  BY DEF TypeOK, IsKeyed, PiecesResolve, Moved
<1>2. m1 \in Movers /\ MoverResolves(m1) /\ m1.state.kind # "empty"
  <2>1. CASE m0.state = Empty
    <3>1. m1 = [m0 EXCEPT !.state = Traveling(m0.home, 0)]
      BY <1>1, <2>1 DEF Spawned, MoverResolves
    <3>2. m0.home \in Nat /\ m0.home \in DOMAIN paths /\ Traveling(m0.home, 0) \in MoverStates
      BY <1>1, StateCases, StatesAre DEF MoverResolves
    <3>3. m1 \in Movers /\ m1.home = m0.home /\ m1.state = Traveling(m0.home, 0)
      BY <1>1, <3>1, <3>2 DEF Movers
    <3> HIDE DEF m1
    <3> QED  BY <3>2, <3>3 DEF MoverResolves, Traveling
  <2>2. CASE m0.state # Empty
    <3>1. m1 = m0
      BY <2>2 DEF Spawned
    <3>2. m0.state \in MoverStates
      BY <1>1, StateCases
    <3>3. m0.state.kind # "empty"
      BY <2>2, <3>2 DEF MoverStates
    <3> HIDE DEF m1
    <3> QED  BY <1>1, <3>1, <3>3
  <2> QED  BY <2>1, <2>2
<1> HIDE DEF m1
<1>3. /\ m2.home = m1.home /\ m2.state.kind = m1.state.kind
      /\ m1.state.kind = "waiting" => m2 = m1
      /\ m1.state.kind = "traveling" =>
           m2.state.path = m1.state.path /\ m2.state.progress \in 0 .. Whole
  <2>1. CASE m1.state.kind # "traveling"
    BY <2>1 DEF Advanced
  <2>2. CASE m1.state.kind = "traveling"
    <3> DEFINE steps == m1.state.progress + m1.speed
               j     == IF steps > Whole THEN Whole ELSE steps
    <3>1. m1.state = Traveling(m1.state.path, m1.state.progress)
          /\ m1.state.progress \in 0 .. Whole /\ m1.speed \in 0 .. SpeedLimit
      BY <1>2, <2>2, StateCases
    <3>2. j \in 0 .. Whole
      BY <3>1, WorldAssumption, LoaderAssumption
    <3>3. m2 = [m1 EXCEPT !.state.progress = j]
      BY <2>2 DEF Advanced
    <3> HIDE DEF j, m2
    <3>4. DOMAIN m1.state = {"kind", "path", "progress"}
      BY <3>1 DEF Traveling
    <3>5. m2.state = [m1.state EXCEPT !.progress = j] /\ m2.home = m1.home
      BY <1>2, <3>3 DEF Movers
    <3>6. m2.state.kind = m1.state.kind /\ m2.state.path = m1.state.path
          /\ m2.state.progress = j
      BY <3>4, <3>5
    <3> QED  BY <2>2, <3>2, <3>5, <3>6
  <2> QED  BY <2>1, <2>2
<1>4. m2 \in Movers /\ MoverResolves(m2) /\ m2.state.kind \in {"waiting", "traveling"}
  <2>1. m2 \in Movers
    BY <1>1, MovedTypes DEF TypeOK, m1
  <2>2. m1.state.kind \in {"waiting", "traveling"}
    BY <1>2, StateCases
  <2> QED  BY <1>2, <1>3, <2>1, <2>2 DEF MoverResolves
<1> HIDE DEF m2
<1>5. CASE HasArrived(m2)
  <2>1. m2.state.kind = "traveling" /\ m2.state.path \in DOMAIN paths
    BY <1>4, <1>5 DEF HasArrived, MoverResolves
  <2>2. Arrived(m2) = [m2 EXCEPT !.state = Waiting(paths[m2.state.path].to)]
    BY <1>5, <2>1 DEF Arrived
  <2> DEFINE m3 == Arrived(m2)
             n  == paths[m2.state.path].to
  <2>3. n \in nodes
    BY <2>1 DEF PiecesResolve
  <2> HIDE DEF m3, n
  <2>4. m3.home = m2.home /\ m3.state = Waiting(n)
    BY <1>4, <2>2 DEF Movers, m3, n
  <2>5. m3.state.kind = "waiting" /\ m3.state.at = n
    BY <2>4 DEF Waiting
  <2>6. MoverResolves(m3) /\ UnderWay(m3)
    BY <1>4, <2>3, <2>4, <2>5 DEF MoverResolves, UnderWay
  <2> QED  BY <1>1, <2>6 DEF m3
<1>6. CASE ~HasArrived(m2)
  <2>1. Arrived(m2) = m2
    BY <1>6 DEF Arrived
  <2>2. m2.state.kind = "traveling" => m2.state.progress < Whole
    BY <1>3, <1>6, WorldAssumption DEF HasArrived
  <2> QED  BY <1>1, <1>4, <2>1, <2>2 DEF UnderWay
<1> QED  BY <1>5, <1>6

\* interaction.rs: a waiting mover takes a path there is, if there is one.
LEMMA RoutedResolves ==
  ASSUME TypeOK, PiecesResolve, NEW k \in DOMAIN movers, UnderWay(movers[k])
  PROVE  /\ MoverResolves(Routed[k]) /\ UnderWay(Routed[k])
         /\ Routed[k].state.kind = "waiting" => PathsOut(Routed[k].state.at) = {}
<1>1. movers[k] \in Movers /\ MoverResolves(movers[k])
  BY DEF TypeOK, IsKeyed, PiecesResolve
<1> DEFINE m == Routed[k]
<1>2. CASE movers[k].state.kind = "waiting" /\ PathsOut(movers[k].state.at) # {}
  <2> DEFINE p == Min(PathsOut(movers[k].state.at))
  <2>1. p \in DOMAIN paths
    BY <1>2, WayOut DEF TypeOK, PathsOut
  <2>2. m = [movers[k] EXCEPT !.state = Traveling(p, 0)]
    BY <1>2 DEF Routed
  <2> HIDE DEF p, m
  <2>3. m.home = movers[k].home /\ m.state = Traveling(p, 0)
    BY <1>1, <2>2 DEF Movers
  <2>4. m.state.kind = "traveling" /\ m.state.path = p /\ m.state.progress = 0
    BY <2>3 DEF Traveling
  <2>5. m.state.progress < Whole
    BY <2>4, WorldAssumption
  <2>6. MoverResolves(m) /\ UnderWay(m) /\ m.state.kind # "waiting"
    BY <1>1, <2>1, <2>3, <2>4, <2>5 DEF MoverResolves, UnderWay
  <2> QED  BY <2>6 DEF m
<1>3. CASE ~(movers[k].state.kind = "waiting" /\ PathsOut(movers[k].state.at) # {})
  <2>1. Routed[k] = movers[k]
    BY <1>3 DEF Routed
  <2> QED  BY <1>1, <1>3, <2>1
<1> QED  BY <1>2, <1>3

-----------------------------------------------------------------------------
(* Actions. *)

\* What an action leaves of the pieces.
LEMMA ApplyPieces ==
  ASSUME TypeOK, PiecesResolve, NEW a \in Actions, Apply(a)
  PROVE  /\ PiecesResolve'
         /\ DOMAIN movers' = DOMAIN movers
         /\ \A m \in DOMAIN movers : movers'[m].state = movers[m].state
         /\ \A p \in DOMAIN paths : InUse(p) => p \in DOMAIN paths' /\ paths'[p] = paths[p]
<1> DEFINE Goal ==
             /\ PiecesResolve'
             /\ DOMAIN movers' = DOMAIN movers
             /\ \A m \in DOMAIN movers : movers'[m].state = movers[m].state
             /\ \A p \in DOMAIN paths : InUse(p) => p \in DOMAIN paths' /\ paths'[p] = paths[p]
<1>1. ASSUME UNCHANGED pieceVars  PROVE Goal
  BY <1>1 DEF pieceVars, PiecesResolve, MoverResolves
<1>2. CASE ~Applies(a)
  BY <1>1, <1>2 DEF Apply
<1> SUFFICES ASSUME Applies(a), Effect(a)  PROVE Goal
  BY <1>2 DEF Apply
<1>3. CASE UNCHANGED <<pieceVars, goodsVars>>
  BY <1>1, <1>3
<1>4. CASE CanSetSpeed(a) /\ a.speed \in Nat /\ SetSpeed(a)
  <2>1. UNCHANGED <<nodes, paths>> /\ DOMAIN movers' = DOMAIN movers
    BY <1>4 DEF SetSpeed
  <2>2. ASSUME NEW m \in DOMAIN movers
        PROVE  movers'[m].home = movers[m].home /\ movers'[m].state = movers[m].state
    <3>1. movers[m] \in Movers
      BY DEF TypeOK, IsKeyed
    <3>2. movers'[m] \in {movers[m], [movers[m] EXCEPT !.speed = a.speed]}
      BY <1>4 DEF SetSpeed
    <3> QED  BY <3>1, <3>2 DEF Movers
  <2> QED  BY <2>1, <2>2 DEF PiecesResolve, MoverResolves
<1>5. CASE CanPlacePiece(a) /\ PlacePiece(a)
  BY <1>5 DEF PlacePiece, PiecesResolve, MoverResolves
<1>6. CASE CanConnectPieces(a) /\ ConnectPieces(a)
  <2> DEFINE new == NextDense(DOMAIN paths)
  <2>1. new \notin DOMAIN paths
    BY NextDenseIsFree DEF TypeOK, IsKeyed
  <2>2. UNCHANGED <<nodes, movers>> /\ DOMAIN paths' = DOMAIN paths \cup {new}
        /\ paths'[new] = [from |-> a.from, to |-> a.to]
        /\ \A p \in DOMAIN paths : paths'[p] = paths[p]
    BY <1>6, <2>1 DEF ConnectPieces, Put
  <2>3. a.from \in nodes /\ a.to \in nodes
    BY <1>6 DEF CanConnectPieces
  <2> HIDE DEF new
  <2>4. \A p \in DOMAIN paths' : paths'[p].from \in nodes' /\ paths'[p].to \in nodes'
    BY <2>2, <2>3 DEF PiecesResolve
  <2> QED  BY <2>2, <2>4 DEF PiecesResolve, MoverResolves
<1>7. CASE CanRemovePiece(a) /\ RemovePiece(a)
  <2>1. /\ nodes' = nodes \ {a.id} /\ movers' = movers
        /\ DOMAIN paths' = DOMAIN paths \ Incident(a.id)
        /\ \A p \in DOMAIN paths' : paths'[p] = paths[p]
    BY <1>7 DEF RemovePiece
  <2>2. \A m \in DOMAIN movers : ~InTheWay(movers[m], a.id) /\ movers[m].home \notin Incident(a.id)
    BY <1>7 DEF CanRemovePiece
  <2>3. \A p \in DOMAIN paths' : paths'[p].from \in nodes' /\ paths'[p].to \in nodes'
    BY <2>1 DEF PiecesResolve, Incident
  <2>4. \A p \in DOMAIN paths : InUse(p) => p \notin Incident(a.id)
    BY <2>2 DEF InUse, InTheWay
  <2>5. \A m \in DOMAIN movers : MoverResolves(movers[m])'
    BY <2>1, <2>2 DEF PiecesResolve, MoverResolves, InTheWay
  <2> QED  BY <2>1, <2>3, <2>4, <2>5 DEF PiecesResolve
<1>8. CASE CanDefineResource(a) /\ DefineResource(a)
  BY <1>1, <1>8 DEF DefineResource
<1>9. CASE CanAddRate(a) /\ (AddProducer(a) \/ AddConsumer(a))
  BY <1>1, <1>9 DEF AddProducer, AddConsumer
<1> HIDE DEF Goal
<1>10. Goal
  BY <1>3, <1>4, <1>5, <1>6, <1>7, <1>8, <1>9, ActionCases
<1> QED  BY <1>10 DEF Goal

\* What it leaves of the goods.
LEMMA ApplyGoods ==
  ASSUME TypeOK, GoodsResolve, NEW a \in Actions, Apply(a)
  PROVE  GoodsResolve'
<1>1. ASSUME UNCHANGED goodsVars  PROVE GoodsResolve'
  BY <1>1 DEF goodsVars, GoodsResolve
<1>2. CASE ~Applies(a)
  BY <1>1, <1>2 DEF Apply
<1> SUFFICES ASSUME Applies(a), Effect(a)  PROVE GoodsResolve'
  BY <1>2 DEF Apply
<1>3. CASE UNCHANGED <<pieceVars, goodsVars>> \/ SetSpeed(a) \/ PlacePiece(a)
           \/ ConnectPieces(a) \/ RemovePiece(a)
  BY <1>1, <1>3 DEF SetSpeed, PlacePiece, ConnectPieces, RemovePiece
<1>4. CASE CanDefineResource(a) /\ DefineResource(a)
  <2> DEFINE new == NextDense(DOMAIN resources)
  <2>1. new \notin DOMAIN resources
    BY NextDenseIsFree DEF TypeOK, IsKeyed
  <2>2. /\ DOMAIN resources' = DOMAIN resources \cup {new}
        /\ DOMAIN inventory' = DOMAIN inventory \cup {new}
        /\ DOMAIN ledger' = DOMAIN ledger \cup {new}
        /\ resources'[new] = a.name /\ \A r \in DOMAIN resources : resources'[r] = resources[r]
        /\ UNCHANGED <<producers, consumers>>
    BY <1>4, <2>1 DEF DefineResource, Put
  <2>3. \A r \in DOMAIN resources : resources[r] # a.name
    BY <1>4 DEF CanDefineResource, NamesInUse
  <2> HIDE DEF new
  <2> QED  BY <2>1, <2>2, <2>3 DEF GoodsResolve
<1>5. CASE CanAddRate(a) /\ AddProducer(a)
  <2>1. NewRate(a).resource \in DOMAIN resources
    BY <1>5, NewRateType DEF TypeOK
  <2>2. \A p \in DOMAIN producers' : producers'[p] \in {NewRate(a)} \cup {producers[q] : q \in DOMAIN producers}
    BY <1>5 DEF AddProducer, Put
  <2>3. UNCHANGED <<resources, inventory, consumers, ledger>>
    BY <1>5 DEF AddProducer
  <2> QED  BY <2>1, <2>2, <2>3 DEF GoodsResolve
<1>6. CASE CanAddRate(a) /\ AddConsumer(a)
  <2>1. NewRate(a).resource \in DOMAIN resources
    BY <1>6, NewRateType DEF TypeOK
  <2>2. \A c \in DOMAIN consumers' : consumers'[c] \in {NewRate(a)} \cup {consumers[d] : d \in DOMAIN consumers}
    BY <1>6 DEF AddConsumer, Put
  <2>3. UNCHANGED <<resources, inventory, producers, ledger>>
    BY <1>6 DEF AddConsumer
  <2> QED  BY <2>1, <2>2, <2>3 DEF GoodsResolve
<1> QED  BY <1>3, <1>4, <1>5, <1>6, ActionCases

-----------------------------------------------------------------------------
(* Invariants. *)

\* Once the first tick has begun all movers are under way; between ticks those
\* that wait have nowhere to go.
AllUnderWay == tick > 0 => \A m \in DOMAIN movers : UnderWay(movers[m])
AllRouted ==
  AtRest /\ tick > 0 =>
    \A m \in DOMAIN movers :
      movers[m].state.kind = "waiting" => PathsOut(movers[m].state.at) = {}

WorldInv == TypeOK /\ LoadedUntilTicked /\ NothingDangles /\ AllUnderWay /\ AllRouted

\* A step keeps references, and movers on their way (tick_once in tick.rs).
LEMMA StepWorld == WorldInv /\ [Next]_vars => WorldInv'
<1> SUFFICES ASSUME WorldInv, [Next]_vars  PROVE (NothingDangles /\ AllUnderWay /\ AllRouted)'
  BY StepType, StepLoaded DEF WorldInv
<1>1. TypeOK /\ PiecesResolve /\ GoodsResolve /\ tick \in Nat /\ turn \in Nat
  BY Halves DEF WorldInv, TypeOK
<1>2. ASSUME UNCHANGED goodsVars  PROVE GoodsResolve'
  BY <1>1, <1>2 DEF goodsVars, GoodsResolve
<1>3. ASSUME UNCHANGED pieceVars  PROVE PiecesResolve'
  BY <1>1, <1>3 DEF pieceVars, PiecesResolve, MoverResolves
<1>4. CASE BeginTick
  <2>1. UNCHANGED <<nodes, paths, goodsVars>> /\ movers' = Moved /\ turn' = 1
    BY <1>4 DEF BeginTick
  <2>2. DOMAIN movers' = DOMAIN movers
    BY <2>1 DEF Moved
  <2>3. \A k \in DOMAIN movers : MoverResolves(movers'[k]) /\ UnderWay(movers'[k])
    BY <1>1, <2>1, MovedResolves
  <2>4. PiecesResolve' /\ AllUnderWay' /\ AllRouted'
    BY <1>1, <2>1, <2>2, <2>3 DEF PiecesResolve, MoverResolves, AllUnderWay, UnderWay, AllRouted, AtRest
  <2> QED  BY <1>2, <2>1, <2>4, Halves DEF NothingDangles, PiecesResolve, GoodsResolve
<1>5. CASE HeldTick \/ UNCHANGED vars
  <2>1. UNCHANGED <<worldVars, turn>>
    BY <1>5 DEF HeldTick, vars, tickVars
  <2>2. PiecesResolve' /\ GoodsResolve'
    BY <1>2, <1>3, <2>1 DEF worldVars
  <2>3. AllUnderWay' /\ AllRouted'
    BY <2>1 DEF worldVars, pieceVars, WorldInv, AllUnderWay, UnderWay, AllRouted, AtRest, PathsOut
  <2> QED  BY <2>2, <2>3 DEF NothingDangles, PiecesResolve, GoodsResolve
<1>6. CASE Pass \/ Panic \/ Fail
  <2>1. turn' = turn + 1 /\ tick' = tick /\ UNCHANGED <<pieceVars, goodsVars>>
    BY <1>6 DEF Pass, Panic, Fail, worldVars
  <2>2. PiecesResolve' /\ GoodsResolve' /\ turn' # 0
    BY <1>1, <1>2, <1>3, <2>1
  <2>3. AllUnderWay' /\ AllRouted'
    BY <2>1, <2>2 DEF pieceVars, WorldInv, AllUnderWay, UnderWay, AllRouted, AtRest
  <2> QED  BY <2>2, <2>3 DEF NothingDangles, PiecesResolve, GoodsResolve
<1>7. ASSUME NEW a \in tools, Decide(a)  PROVE (NothingDangles /\ AllUnderWay /\ AllRouted)'
  <2>1. a \in Actions /\ Apply(a) /\ tick' = tick /\ turn' # 0
    BY <1>1, <1>7 DEF TypeOK, Decide
  <2>2. PiecesResolve' /\ GoodsResolve' /\ DOMAIN movers' = DOMAIN movers
        /\ \A m \in DOMAIN movers : movers'[m].state = movers[m].state
    BY <1>1, <2>1, ApplyPieces, ApplyGoods
  <2>3. AllUnderWay' /\ AllRouted'
    BY <2>1, <2>2 DEF WorldInv, AllUnderWay, UnderWay, AllRouted, AtRest
  <2> QED  BY <2>2, <2>3 DEF NothingDangles, PiecesResolve, GoodsResolve
<1>8. CASE EndTick
  <2>1. UNCHANGED <<tick, nodes, paths>> /\ movers' = Routed /\ Production /\ turn # 0
    BY <1>1, <1>8 DEF EndTick, TypeOK
  <2>2. tick > 0 /\ DOMAIN movers' = DOMAIN movers
    BY <1>1, <2>1 DEF WorldInv, LoadedUntilTicked, Routed
  <2>3. \A k \in DOMAIN movers :
          /\ MoverResolves(movers'[k]) /\ UnderWay(movers'[k])
          /\ movers'[k].state.kind = "waiting" => PathsOut(movers'[k].state.at) = {}
    BY <1>1, <2>1, <2>2, RoutedResolves DEF WorldInv, AllUnderWay
  <2>4. PiecesResolve'
    BY <1>1, <2>1, <2>2, <2>3 DEF PiecesResolve, MoverResolves
  <2>5. AllUnderWay'
    BY <2>1, <2>2, <2>3 DEF AllUnderWay, UnderWay
  <2>6. \A n : PathsOut(n)' = PathsOut(n)
    BY <2>1 DEF PathsOut
  <2>7. AllRouted'
    BY <2>2, <2>3, <2>6 DEF AllRouted
  <2>8. GoodsResolve'
    <3>1. DOMAIN Produced = DOMAIN inventory
      BY DEF Produced
    <3>2. DOMAIN inventory' = DOMAIN inventory /\ DOMAIN ledger' = DOMAIN ledger
      BY <2>1, <3>1 DEF Production
    <3>3. UNCHANGED <<resources, producers, consumers>>
      BY <2>1 DEF Production
    <3> QED  BY <1>1, <3>2, <3>3 DEF GoodsResolve
  <2> QED  BY <2>4, <2>5, <2>7, <2>8 DEF NothingDangles, PiecesResolve, GoodsResolve
<1> QED  BY <1>4, <1>5, <1>6, <1>7, <1>8 DEF Next

\* The invariant holds throughout.
LEMMA WorldInvariant == Spec => []WorldInv
<1>1. Init => WorldInv
  BY InitType, InitResolves
     DEF Init, WorldInit, WorldInv, LoadedUntilTicked, AllUnderWay, AllRouted
<1> QED  BY <1>1, StepWorld, PTL DEF Spec

\* Whatever agents place, connect and remove, in any order, every id the world
\* keeps is the id of something (remove_piece in actions.rs).
THEOREM NeverDangles == Spec => []NothingDangles
<1>1. WorldInv => NothingDangles
  BY DEF WorldInv
<1> QED  BY <1>1, WorldInvariant, PTL

\* However agents rebuild the paths, between ticks every mover is under way or
\* waits where no path leads on (the order of tick_once in tick.rs).
THEOREM NeverStranded == Spec => []NobodyIsStranded
<1>1. WorldInv => NobodyIsStranded
  BY DEF WorldInv, NobodyIsStranded, AllUnderWay, UnderWay, AllRouted
<1> QED  BY <1>1, WorldInvariant, PTL

\* A path that is in use stays as it is, and its id is not given out again
\* (next_path_id and remove_piece in actions.rs).
THEOREM PathsStayStable == Spec => PathsInUseAreStable
<1>1. WorldInv /\ [Next]_vars =>
        [\A p \in DOMAIN paths : InUse(p) => p \in DOMAIN paths' /\ paths'[p] = paths[p]]_worldVars
  <2> SUFFICES ASSUME WorldInv, [Next]_vars
               PROVE  \A p \in DOMAIN paths : InUse(p) => p \in DOMAIN paths' /\ paths'[p] = paths[p]
    OBVIOUS
  <2>1. ASSUME UNCHANGED paths
        PROVE  \A p \in DOMAIN paths : InUse(p) => p \in DOMAIN paths' /\ paths'[p] = paths[p]
    BY <2>1
  <2>2. CASE BeginTick \/ HeldTick \/ Pass \/ Panic \/ Fail \/ EndTick \/ UNCHANGED vars
    BY <2>1, <2>2 DEF BeginTick, HeldTick, Pass, Panic, Fail, EndTick, vars, worldVars, pieceVars
  <2>3. ASSUME NEW a \in tools, Decide(a)
        PROVE  \A p \in DOMAIN paths : InUse(p) => p \in DOMAIN paths' /\ paths'[p] = paths[p]
    <3>1. TypeOK /\ PiecesResolve /\ a \in Actions /\ Apply(a)
      BY <2>3, Halves DEF WorldInv, TypeOK, Decide
    <3> QED  BY <3>1, ApplyPieces
  <2> QED  BY <2>2, <2>3 DEF Next
<1> QED  BY <1>1, WorldInvariant, PTL DEF Spec, PathsInUseAreStable

-----------------------------------------------------------------------------
(***************************************************************************)
(* Goods: the stock of a resource with one consumer at most is what was    *)
(* counted in and out.                                                     *)
(***************************************************************************)
StocksTyped ==
  /\ DOMAIN ledger = DOMAIN inventory
  /\ \A r \in DOMAIN inventory : inventory[r] \in Nat

\* What is moved is a natural number.
LEMMA TotalType ==
  ASSUME NEW rates, IsKeyed(rates, Rates), NEW ids, ids \subseteq DOMAIN rates, NEW r
  PROVE  Total(rates, ids, r) \in Nat
<1>1. IsFiniteSet(ids) /\ IsFiniteSet(1 .. AmountLimit)
  BY FS_Subset, FS_Interval, LoaderAssumption DEF IsKeyed, IsIdSet
<1>2. IsFiniteSet(ids \X (1 .. AmountLimit))
  BY <1>1, FS_Product
<1>3. Units(rates, ids, r) \subseteq ids \X (1 .. AmountLimit)
  BY DEF Units
<1>4. IsFiniteSet(Units(rates, ids, r))
  BY <1>2, <1>3, FS_Subset
<1> QED  BY <1>4, FS_CardinalityType DEF Total

\* If only one rate moves the resource, it is its amount.
LEMMA LoneTotal ==
  ASSUME NEW rates, IsKeyed(rates, Rates), NEW ids, ids \subseteq DOMAIN rates, NEW r,
         NEW stock \in Nat,
         \A i \in ids : rates[i].resource = r => rates[i].amount <= stock,
         \A i, j \in ids : rates[i].resource = r /\ rates[j].resource = r => i = j
  PROVE  Total(rates, ids, r) <= stock
<1>1. CASE \A i \in ids : rates[i].resource # r
  <2>1. Units(rates, ids, r) = {}
    BY <1>1 DEF Units
  <2> QED  BY <2>1, FS_EmptySet DEF Total
<1>2. ASSUME NEW i \in ids, rates[i].resource = r  PROVE Total(rates, ids, r) <= stock
  <2> DEFINE n == rates[i].amount
  <2>1. n \in 1 .. AmountLimit /\ n <= stock /\ n \in Nat /\ AmountLimit \in Nat
    BY <1>2, LoaderAssumption DEF IsKeyed, Rates
  <2>2. Units(rates, ids, r) \subseteq {i} \X (1 .. n)
    <3> SUFFICES ASSUME NEW u \in Units(rates, ids, r)  PROVE u \in {i} \X (1 .. n)
      OBVIOUS
    <3>1. /\ u \in ids \X (1 .. AmountLimit) /\ rates[u[1]].resource = r /\ u[2] <= rates[u[1]].amount
      BY DEF Units
    <3>2. u = <<u[1], u[2]>> /\ u[1] \in ids /\ u[2] \in 1 .. AmountLimit
      BY <3>1
    <3>3. u[1] = i
      BY <1>2, <3>1, <3>2
    <3> HIDE DEF n
    <3>4. u[2] \in 1 .. n
      BY <2>1, <3>1, <3>2, <3>3 DEF n
    <3> QED  BY <3>2, <3>3, <3>4
  <2> HIDE DEF n
  <2>3. IsFiniteSet(1 .. n) /\ Cardinality(1 .. n) = n
    BY <2>1, FS_Interval
  <2>4. IsFiniteSet({i}) /\ Cardinality({i}) = 1
    BY FS_Singleton
  <2>5. IsFiniteSet({i} \X (1 .. n)) /\ Cardinality({i} \X (1 .. n)) = n
    <3> DEFINE T == 1 .. n
    <3> HIDE DEF T
    <3>1. IsFiniteSet(T) /\ Cardinality(T) = n
      BY <2>3 DEF T
    <3>2. IsFiniteSet({i} \X T) /\ Cardinality({i} \X T) = Cardinality({i}) * Cardinality(T)
      BY <2>4, <3>1, FS_Product
    <3>3. Cardinality({i} \X T) = n
      BY <2>1, <2>4, <3>1, <3>2
    <3> QED  BY <3>2, <3>3 DEF T
  <2>6. /\ IsFiniteSet(Units(rates, ids, r))
        /\ Cardinality(Units(rates, ids, r)) <= n
    BY <2>2, <2>5, FS_Subset
  <2>7. Cardinality(Units(rates, ids, r)) \in Nat
    BY <2>6, FS_CardinalityType
  <2> QED  BY <2>1, <2>6, <2>7 DEF Total
<1> QED  BY <1>1, <1>2

LEMMA AtMostOne ==
  ASSUME NEW S, IsFiniteSet(S), Cardinality(S) <= 1, NEW x \in S, NEW y \in S
  PROVE  x = y
<1>1. Cardinality(S) \in Nat
  BY FS_CardinalityType
<1>2. CASE Cardinality(S) = 0
  BY <1>2, FS_EmptySet
<1>3. CASE Cardinality(S) = 1
  BY <1>3, FS_Singleton
<1> QED  BY <1>1, <1>2, <1>3

LEMMA ConsumersAreFinite ==
  ASSUME IsKeyed(consumers, Rates), NEW r
  PROVE  IsFiniteSet(ConsumersOf(r))
BY FS_Subset DEF ConsumersOf, IsKeyed, IsIdSet

\* production::run: a lone consumer is served what is there, or nothing.
LEMMA ProductionBalances ==
  ASSUME TypeOK, StocksTyped, LoneConsumersBalance, Production
  PROVE  StocksTyped' /\ LoneConsumersBalance'
<1>1. IsKeyed(producers, Rates) /\ IsKeyed(consumers, Rates)
  BY DEF TypeOK
<1> DEFINE stock    == Produced
           made(r)  == Total(producers, FiringProducers, r)
           taken(r) == Total(consumers, Served(stock), r)
<1>2. /\ inventory' = [r \in DOMAIN stock |-> IF taken(r) > stock[r] THEN 0 ELSE stock[r] - taken(r)]
      /\ ledger' = [r \in DOMAIN ledger |-> ledger[r] + made(r) - taken(r)]
      /\ UNCHANGED consumers
  BY DEF Production
<1>3. DOMAIN stock = DOMAIN inventory /\ \A r \in DOMAIN inventory : stock[r] = inventory[r] + made(r)
  BY DEF Produced
<1>4. \A r : made(r) \in Nat /\ taken(r) \in Nat
  BY <1>1, TotalType DEF FiringProducers, Served
<1>5. DOMAIN ledger = DOMAIN inventory /\ \A r \in DOMAIN inventory : inventory[r] \in Nat
  BY DEF StocksTyped
<1>6. ASSUME NEW r \in DOMAIN inventory, Cardinality(ConsumersOf(r)) <= 1
      PROVE  taken(r) <= stock[r]
  <2>1. stock[r] \in Nat
    BY <1>3, <1>4, <1>5
  <2>2. Served(stock) \subseteq DOMAIN consumers
    BY DEF Served
  <2>3. \A c \in Served(stock) : consumers[c].resource = r => consumers[c].amount <= stock[r]
    <3> SUFFICES ASSUME NEW c \in Served(stock), consumers[c].resource = r
                 PROVE  consumers[c].amount <= stock[r]
      OBVIOUS
    <3>1. stock[consumers[c].resource] >= consumers[c].amount /\ c \in DOMAIN consumers
      BY DEF Served
    <3>2. consumers[c].amount \in Nat
      BY <1>1, <3>1, LoaderAssumption DEF IsKeyed, Rates
    <3> HIDE DEF stock
    <3> QED  BY <2>1, <3>1, <3>2
  <2>4. \A c, d \in Served(stock) : consumers[c].resource = r /\ consumers[d].resource = r => c = d
    <3> SUFFICES ASSUME NEW c \in Served(stock), NEW d \in Served(stock),
                        consumers[c].resource = r, consumers[d].resource = r
                 PROVE  c = d
      OBVIOUS
    <3>1. c \in ConsumersOf(r) /\ d \in ConsumersOf(r)
      BY <2>2 DEF ConsumersOf
    <3> QED  BY <1>1, <1>6, <3>1, ConsumersAreFinite, AtMostOne
  <2> HIDE DEF stock
  <2> QED  BY <1>1, <2>1, <2>2, <2>3, <2>4, LoneTotal
<1> HIDE DEF stock, made, taken
<1>7. StocksTyped'
  <2>1. DOMAIN inventory' = DOMAIN inventory /\ DOMAIN ledger' = DOMAIN inventory
    BY <1>2, <1>3, <1>5
  <2>2. ASSUME NEW r \in DOMAIN inventory  PROVE inventory'[r] \in Nat
    <3>1. stock[r] \in Nat /\ taken(r) \in Nat
      BY <1>3, <1>4, <1>5
    <3>2. inventory'[r] = IF taken(r) > stock[r] THEN 0 ELSE stock[r] - taken(r)
      BY <1>2, <1>3
    <3> QED  BY <3>1, <3>2
  <2> QED  BY <2>1, <2>2 DEF StocksTyped
<1>8. LoneConsumersBalance'
  <2>1. DOMAIN inventory' = DOMAIN inventory /\ \A r : ConsumersOf(r)' = ConsumersOf(r)
    BY <1>2, <1>3 DEF ConsumersOf
  <2>2. ASSUME NEW r \in DOMAIN inventory, Cardinality(ConsumersOf(r)) <= 1
        PROVE  inventory'[r] = ledger'[r]
    <3>1. taken(r) <= stock[r] /\ stock[r] = inventory[r] + made(r)
      BY <1>3, <1>6, <2>2
    <3>2. made(r) \in Nat /\ taken(r) \in Nat /\ inventory[r] \in Nat
      BY <1>4, <1>5
    <3>3. inventory[r] = ledger[r]
      BY <2>2 DEF LoneConsumersBalance
    <3>4. inventory'[r] = IF taken(r) > stock[r] THEN 0 ELSE stock[r] - taken(r)
      BY <1>2, <1>3
    <3>5. ledger'[r] = ledger[r] + made(r) - taken(r)
      BY <1>2, <1>5
    <3> QED  BY <3>1, <3>2, <3>3, <3>4, <3>5
  <2> QED  BY <2>1, <2>2 DEF LoneConsumersBalance
<1> QED  BY <1>7, <1>8

\* apply_action: a resource is new and has none, a consumer only comes to others.
LEMMA ApplyBalances ==
  ASSUME TypeOK, GoodsResolve, StocksTyped, LoneConsumersBalance, NEW a \in Actions, Apply(a)
  PROVE  StocksTyped' /\ LoneConsumersBalance'
<1>1. ASSUME UNCHANGED <<inventory, ledger, consumers>>  PROVE StocksTyped' /\ LoneConsumersBalance'
  BY <1>1 DEF StocksTyped, LoneConsumersBalance, ConsumersOf
<1>2. CASE ~Applies(a)
  BY <1>1, <1>2 DEF Apply, goodsVars
<1> SUFFICES ASSUME Applies(a), Effect(a)  PROVE StocksTyped' /\ LoneConsumersBalance'
  BY <1>2 DEF Apply
<1>3. CASE UNCHANGED <<pieceVars, goodsVars>> \/ SetSpeed(a) \/ PlacePiece(a)
           \/ ConnectPieces(a) \/ RemovePiece(a)
  BY <1>1, <1>3 DEF SetSpeed, PlacePiece, ConnectPieces, RemovePiece, goodsVars
<1>4. CASE CanDefineResource(a) /\ DefineResource(a)
  <2> DEFINE new == NextDense(DOMAIN resources)
  <2>1. /\ inventory' = Put(inventory, new, 0) /\ ledger' = Put(ledger, new, 0)
        /\ UNCHANGED consumers
    BY <1>4 DEF DefineResource
  <2>2. new \notin DOMAIN inventory
    BY NextDenseIsFree DEF GoodsResolve, TypeOK, IsKeyed
  <2> HIDE DEF new
  <2>3. /\ DOMAIN inventory' = DOMAIN inventory \cup {new} /\ DOMAIN ledger' = DOMAIN ledger \cup {new}
        /\ inventory'[new] = 0 /\ ledger'[new] = 0
        /\ \A r \in DOMAIN inventory : inventory'[r] = inventory[r]
        /\ \A r \in DOMAIN ledger : r # new => ledger'[r] = ledger[r]
    BY <2>1, <2>2 DEF Put
  <2>4. StocksTyped'
    BY <2>3 DEF StocksTyped
  <2>5. \A r : ConsumersOf(r)' = ConsumersOf(r)
    BY <2>1 DEF ConsumersOf
  <2>6. LoneConsumersBalance'
    BY <2>2, <2>3, <2>5 DEF StocksTyped, LoneConsumersBalance
  <2> QED  BY <2>4, <2>6
<1>5. CASE CanAddRate(a) /\ AddProducer(a)
  BY <1>1, <1>5 DEF AddProducer
<1>6. CASE CanAddRate(a) /\ AddConsumer(a)
  <2> DEFINE new == NextDense(DOMAIN consumers)
  <2>1. UNCHANGED <<inventory, ledger>> /\ consumers' = Put(consumers, new, NewRate(a))
    BY <1>6 DEF AddConsumer
  <2>2. new \notin DOMAIN consumers
    BY NextDenseIsFree DEF TypeOK, IsKeyed
  <2> HIDE DEF new
  <2>3. \A r : ConsumersOf(r) \subseteq ConsumersOf(r)'
    BY <2>1, <2>2 DEF ConsumersOf, Put
  <2>4. IsKeyed(consumers, Rates) /\ IsKeyed(consumers', Rates)
    BY <1>6, ApplyType DEF TypeOK, PiecesTyped, GoodsTyped
  <2>5. ASSUME NEW r, Cardinality(ConsumersOf(r)') <= 1  PROVE Cardinality(ConsumersOf(r)) <= 1
    <3> DEFINE S == ConsumersOf(r)
               T == ConsumersOf(r)'
    <3>1. IsFiniteSet(T)
      BY <2>4, FS_Subset DEF ConsumersOf, IsKeyed, IsIdSet
    <3>2. S \subseteq T
      BY <2>3
    <3>3. Cardinality(T) <= 1
      BY <2>5
    <3> HIDE DEF S, T
    <3>4. IsFiniteSet(S) /\ Cardinality(S) <= Cardinality(T)
      BY <3>1, <3>2, FS_Subset
    <3>5. Cardinality(S) \in Nat /\ Cardinality(T) \in Nat
      BY <3>1, <3>4, FS_CardinalityType
    <3>6. Cardinality(S) <= 1
      BY <3>3, <3>4, <3>5
    <3> QED  BY <3>6 DEF S
  <2> QED  BY <2>1, <2>5 DEF StocksTyped, LoneConsumersBalance
<1> QED  BY <1>3, <1>4, <1>5, <1>6, ActionCases

\* The stock of a loaded scene is a natural number.
LEMMA InitBalances == Init => StocksTyped /\ LoneConsumersBalance
<1> SUFFICES ASSUME NEW setup \in Setups, WorldInit(setup.scene)
             PROVE  StocksTyped /\ LoneConsumersBalance
  BY DEF Init
<1> DEFINE doc == setup.scene
<1>1. doc \in Documents
  BY PipelineAssumption
<1>2. inventory = LoadedInventory(doc) /\ ledger = inventory
  BY DEF WorldInit
<1>3. \A i \in DOMAIN doc.inventory : doc.inventory[i].amount \in Nat
  <2>1. doc.inventory \in Seq(RawInventory)
    BY <1>1 DEF Documents
  <2>2. \A i \in DOMAIN doc.inventory : doc.inventory[i] \in RawInventory
    BY <2>1
  <2> QED  BY <2>2 DEF RawInventory
<1> HIDE DEF doc
<1>4. ASSUME NEW r \in DOMAIN inventory  PROVE inventory[r] \in Nat
  <2> DEFINE listed == {i \in DOMAIN doc.inventory :
                          doc.inventory[i].resource = doc.resources[r + 1].id}
             entry  == CHOOSE i \in listed : TRUE
  <2>1. inventory[r] = IF listed = {} THEN 0 ELSE doc.inventory[entry].amount
    BY <1>2, <1>4 DEF LoadedInventory
  <2>2. listed # {} => entry \in DOMAIN doc.inventory
    OBVIOUS
  <2> HIDE DEF listed, entry
  <2> QED  BY <1>3, <2>1, <2>2
<1> QED  BY <1>2, <1>4 DEF StocksTyped, LoneConsumersBalance

LEMMA StepBalances ==
  ASSUME WorldInv, StocksTyped, LoneConsumersBalance, [Next]_vars
  PROVE  StocksTyped' /\ LoneConsumersBalance'
<1>1. TypeOK /\ GoodsResolve
  BY Halves DEF WorldInv
<1>2. ASSUME UNCHANGED goodsVars  PROVE StocksTyped' /\ LoneConsumersBalance'
  BY <1>2 DEF goodsVars, StocksTyped, LoneConsumersBalance, ConsumersOf
<1>3. CASE BeginTick
  BY <1>2, <1>3 DEF BeginTick
<1>4. CASE HeldTick \/ Pass \/ Panic \/ Fail \/ UNCHANGED vars
  BY <1>2, <1>4 DEF HeldTick, Pass, Panic, Fail, vars, worldVars
<1>5. ASSUME NEW a \in tools, Decide(a)  PROVE StocksTyped' /\ LoneConsumersBalance'
  <2>1. a \in Actions /\ Apply(a)
    BY <1>1, <1>5 DEF TypeOK, Decide
  <2> QED  BY <1>1, <2>1, ApplyBalances
<1>6. CASE EndTick
  BY <1>1, <1>6, ProductionBalances DEF EndTick
<1> QED  BY <1>3, <1>4, <1>5, <1>6 DEF Next

\* Whatever producers and consumers agents add: as long as one consumer at most
\* draws on a resource, what production.rs leaves of it is what it counted, so
\* that saturating_sub never hides that more was taken than there was.
THEOREM StocksAreCounted == Spec => []LoneConsumersBalance
<1>1. Init => StocksTyped /\ LoneConsumersBalance
  BY InitBalances
<1>2. WorldInv /\ StocksTyped /\ LoneConsumersBalance /\ [Next]_vars => (StocksTyped /\ LoneConsumersBalance)'
  BY StepBalances
<1> QED  BY <1>1, <1>2, WorldInvariant, PTL DEF Spec

-----------------------------------------------------------------------------
(***************************************************************************)
(* What the replay of a log finds: ordered lines, decisions that are there *)
(* once, and those of the present tick as its listeners were told of them. *)
(***************************************************************************)
(* Sequences of lines. *)

InOrder(lines, now) ==
  /\ \A i \in 1 .. Len(lines) : lines[i].tick \in Nat /\ lines[i].tick <= now
  /\ \A i, j \in 1 .. Len(lines) : i <= j => lines[i].tick <= lines[j].tick

Once(lines) ==
  \A i, j \in 1 .. Len(lines) :
    j < i => ~(lines[j].tick = lines[i].tick /\ lines[j].agent = lines[i].agent)

\* The last lines are the decisions of the present tick.
EndsWith(lines, decisions, now) ==
  /\ Len(decisions) <= Len(lines)
  /\ \A i \in 1 .. Len(lines) - Len(decisions) : lines[i].tick < now
  /\ \A k \in 1 .. Len(decisions) :
       LET line == lines[Len(lines) - Len(decisions) + k]
       IN  line.tick = now /\ decisions[k] = [agent |-> line.agent, action |-> line.action]

LEMMA OneMoreLine ==
  ASSUME NEW E, NEW s \in Seq(E), NEW e \in E, NEW now \in Nat, InOrder(s, now), e.tick = now
  PROVE  /\ InOrder(Append(s, e), now)
         /\ Once(s) /\ (\A i \in 1 .. Len(s) : s[i].tick = now => s[i].agent # e.agent)
              => Once(Append(s, e))
<1> DEFINE u == Append(s, e)
           n == Len(s)
<1>1. n \in Nat /\ u \in Seq(E) /\ Len(u) = n + 1 /\ u[n + 1] = e /\ \A i \in 1 .. n : u[i] = s[i]
  OBVIOUS
<1>2. /\ \A i \in 1 .. n : s[i].tick \in Nat /\ s[i].tick <= now
      /\ \A i, j \in 1 .. n : i <= j => s[i].tick <= s[j].tick
  BY DEF InOrder
<1> HIDE DEF u
<1>3. InOrder(u, now)
  <2> HIDE DEF n
  <2>1. \A i \in 1 .. n + 1 : u[i].tick \in Nat /\ u[i].tick <= now
    BY <1>1, <1>2
  <2>2. ASSUME NEW i \in 1 .. n + 1, NEW j \in 1 .. n + 1, i <= j
        PROVE  u[i].tick <= u[j].tick
    <3>1. CASE j = n + 1
      BY <1>1, <2>1, <3>1
    <3>2. CASE j # n + 1
      <4>1. i \in 1 .. n /\ j \in 1 .. n
        BY <1>1, <2>2, <3>2
      <4> QED  BY <1>1, <1>2, <2>2, <4>1
    <3> QED  BY <3>1, <3>2
  <2> QED  BY <1>1, <2>1, <2>2 DEF InOrder
<1>4. ASSUME Once(s), \A i \in 1 .. n : s[i].tick = now => s[i].agent # e.agent
      PROVE  Once(u)
  <2>1. \A i, j \in 1 .. n : j < i => ~(s[j].tick = s[i].tick /\ s[j].agent = s[i].agent)
    BY <1>4 DEF Once
  <2> HIDE DEF n
  <2> SUFFICES ASSUME NEW i \in 1 .. n + 1, NEW j \in 1 .. n + 1, j < i
               PROVE  ~(u[j].tick = u[i].tick /\ u[j].agent = u[i].agent)
    BY <1>1 DEF Once
  <2>2. j \in 1 .. n /\ u[j] = s[j]
    BY <1>1
  <2>3. CASE i = n + 1
    BY <1>1, <1>4, <2>2, <2>3
  <2>4. CASE i # n + 1
    <3>1. i \in 1 .. n /\ u[i] = s[i]
      BY <1>1, <2>4
    <3> QED  BY <2>1, <2>2, <3>1
  <2> QED  BY <2>3, <2>4
<1> QED  BY <1>3, <1>4 DEF u

LEMMA OneMoreDecision ==
  ASSUME NEW E, NEW s \in Seq(E), NEW D, NEW ds \in Seq(D), NEW now \in Nat,
         EndsWith(s, ds, now), NEW e \in E, NEW d \in D,
         e.tick = now, d = [agent |-> e.agent, action |-> e.action]
  PROVE  EndsWith(Append(s, e), Append(ds, d), now)
<1> DEFINE u  == Append(s, e)
           es == Append(ds, d)
           n  == Len(s)
           m  == Len(ds)
<1>1. n \in Nat /\ Len(u) = n + 1 /\ u[n + 1] = e /\ \A i \in 1 .. n : u[i] = s[i]
  OBVIOUS
<1>2. m \in Nat /\ Len(es) = m + 1 /\ es[m + 1] = d /\ \A k \in 1 .. m : es[k] = ds[k]
  OBVIOUS
<1>3. /\ m <= n /\ \A i \in 1 .. n - m : s[i].tick < now
      /\ \A k \in 1 .. m : /\ s[n - m + k].tick = now
                           /\ ds[k] = [agent |-> s[n - m + k].agent, action |-> s[n - m + k].action]
  BY DEF EndsWith
<1> HIDE DEF u, es, n, m
<1>4. \A i \in 1 .. (n + 1) - (m + 1) : u[i].tick < now
  <2> SUFFICES ASSUME NEW i \in 1 .. (n + 1) - (m + 1)  PROVE u[i].tick < now
    OBVIOUS
  <2>1. i \in 1 .. n - m /\ i \in 1 .. n
    BY <1>1, <1>2
  <2> QED  BY <1>1, <1>3, <2>1
<1>5. ASSUME NEW k \in 1 .. m + 1
      PROVE  LET line == u[(n + 1) - (m + 1) + k]
             IN  line.tick = now /\ es[k] = [agent |-> line.agent, action |-> line.action]
  <2>1. CASE k = m + 1
    <3>1. (n + 1) - (m + 1) + k = n + 1
      BY <1>1, <1>2, <2>1
    <3>2. u[(n + 1) - (m + 1) + k] = e /\ es[k] = d
      BY <1>1, <1>2, <2>1, <3>1
    <3> QED  BY <3>2
  <2>2. CASE k # m + 1
    <3>1. k \in 1 .. m /\ (n + 1) - (m + 1) + k = n - m + k /\ n - m + k \in 1 .. n
      BY <1>1, <1>2, <1>3, <2>2
    <3>2. u[(n + 1) - (m + 1) + k] = s[n - m + k] /\ es[k] = ds[k]
      BY <1>1, <1>2, <3>1
    <3> QED  BY <1>3, <3>1, <3>2
  <2> QED  BY <2>1, <2>2
<1>6. m + 1 <= n + 1
  BY <1>1, <1>2, <1>3
<1>7. Len(u) = n + 1 /\ Len(es) = m + 1
  BY <1>1, <1>2
<1>8. EndsWith(u, es, now)
  BY <1>4, <1>5, <1>6, <1>7 DEF EndsWith
<1> QED  BY <1>8 DEF u, es

-----------------------------------------------------------------------------
(* The invariant. *)

LinesTyped == \E E : sink \in Seq(E) /\ torn \in Seq(E)

\* Nothing follows the line that was lost.
TornAtTheEnd == (~degraded => torn = <<>>) /\ (garbled => degraded)

\* An agent that has decided in the present tick has had its turn.
HadTheirTurn ==
  turn # 0 =>
    \A i \in 1 .. Len(ParsedEntries) :
      ParsedEntries[i].tick = tick =>
        \E k \in 1 .. turn - 1 : k \in DOMAIN hosts /\ hosts[k].id = ParsedEntries[i].agent

InStep == logging /\ ~degraded /\ (turn # 0 \/ runState = "running")

ReplayInv ==
  /\ LinesTyped /\ TornAtTheEnd
  /\ InOrder(ParsedEntries, tick)
  /\ AgentsAreDistinct => Once(ParsedEntries)
  /\ HadTheirTurn
  /\ \E D : decided \in Seq(D)
  /\ InStep => EndsWith(ParsedEntries, decided, tick)

\* An append adds the line of the decision, or none; and the line, unless the
\* log is degraded (append in agent_log.rs).
LEMMA AppendAddsLine ==
  ASSUME LinesTyped, TornAtTheEnd, NEW entry, NEW write, LogAppend(entry, write)
  PROVE  /\ LinesTyped' /\ TornAtTheEnd'
         /\ \E E : ParsedEntries \in Seq(E) /\ entry \in E
         /\ ParsedEntries' \in {ParsedEntries, Append(ParsedEntries, entry)}
         /\ ~degraded' => ~degraded /\ ParsedEntries' = Append(ParsedEntries, entry)
<1>1. PICK E0 : sink \in Seq(E0) /\ torn \in Seq(E0)
  BY DEF LinesTyped
<1> DEFINE E == E0 \cup {entry}
<1>2. sink \in Seq(E) /\ torn \in Seq(E) /\ entry \in E
  BY <1>1
<1> HIDE DEF E
<1>3. ParsedEntries \in Seq(E)
  BY <1>2 DEF ParsedEntries
<1>4. \A s \in Seq(E) : s \o <<>> = s /\ s \o <<entry>> = Append(s, entry)
                        /\ <<entry>> \in Seq(E) /\ <<>> \in Seq(E) /\ Append(s, entry) \in Seq(E)
  BY <1>2
<1>5. CASE UNCHANGED <<sink, torn, garbled>> /\ degraded'
  <2>1. ParsedEntries' = ParsedEntries
    BY <1>5 DEF ParsedEntries
  <2>2. LinesTyped' /\ TornAtTheEnd'
    BY <1>2, <1>5 DEF LinesTyped, TornAtTheEnd
  <2> QED  BY <1>2, <1>3, <1>5, <2>1, <2>2
<1>6. CASE ~degraded /\ WriteLine(entry)
  <2>1. /\ sink' = Append(sink, entry) /\ torn' = torn /\ torn = <<>>
        /\ garbled' = garbled /\ degraded' = degraded
    BY <1>6 DEF WriteLine, TornAtTheEnd
  <2>2. ParsedEntries' = Append(ParsedEntries, entry)
    BY <1>2, <1>4, <2>1 DEF ParsedEntries
  <2>3. LinesTyped' /\ TornAtTheEnd'
    BY <1>2, <1>4, <2>1 DEF LinesTyped, TornAtTheEnd
  <2> QED  BY <1>2, <1>3, <1>6, <2>2, <2>3
<1>7. CASE ~degraded /\ WriteFails(entry, write)
  <2>1. /\ sink' = sink /\ torn = <<>> /\ degraded'
        /\ torn' \in {<<>>, <<entry>>}
    BY <1>7 DEF WriteFails, FirstDegrade, TornAtTheEnd
  <2>2. ParsedEntries' \in {ParsedEntries, Append(ParsedEntries, entry)}
    BY <1>2, <1>4, <2>1 DEF ParsedEntries
  <2>3. LinesTyped' /\ TornAtTheEnd'
    BY <1>2, <1>4, <2>1 DEF LinesTyped, TornAtTheEnd
  <2> QED  BY <1>2, <1>3, <2>1, <2>2, <2>3
<1>8. \/ UNCHANGED <<sink, torn, garbled>> /\ degraded'
      \/ ~degraded /\ WriteLine(entry)
      \/ ~degraded /\ WriteFails(entry, write)
  BY DEF LogAppend, DropInvalid, KeepInRing, FirstDegrade
<1> QED  BY <1>5, <1>6, <1>7, <1>8

\* A decision is logged as it is announced (run_agents in tick.rs).
LEMMA DecideReplays ==
  ASSUME TypeOK, ReplayInv, NEW a \in tools, Decide(a)
  PROVE  ReplayInv'
<1>1. /\ turn \in DOMAIN hosts /\ turn \in Nat /\ turn # 0 /\ turn' = turn + 1 /\ turn' # 0
      /\ UNCHANGED <<tick, runState, logging, hosts>> /\ tick \in Nat
  BY DEF Decide, HasTurn, TypeOK, setupVars
<1> DEFINE d == [agent |-> Host.id, action |-> a.kind]
           e == Entry(a)
<1>2. e.tick = tick /\ e.agent = Host.id /\ d = [agent |-> e.agent, action |-> e.action]
  BY DEF Entry
<1>3. decided' = Append(decided, d)
  BY DEF Decide
<1>4. PICK D0 : decided \in Seq(D0)
  BY DEF ReplayInv
<1> DEFINE D == D0 \cup {d}
<1>5. decided \in Seq(D) /\ d \in D /\ decided' \in Seq(D)
  BY <1>3, <1>4
<1> HIDE DEF d, e, D
<1>6. CASE logging
  <2>1. PICK write \in Writes : LogAppend(e, write)
    BY <1>6 DEF Decide, e
  <2>2. LinesTyped /\ TornAtTheEnd
    BY DEF ReplayInv
  <2>3. /\ LinesTyped' /\ TornAtTheEnd'
        /\ \E E : ParsedEntries \in Seq(E) /\ e \in E
        /\ ParsedEntries' \in {ParsedEntries, Append(ParsedEntries, e)}
        /\ ~degraded' => ~degraded /\ ParsedEntries' = Append(ParsedEntries, e)
    BY <2>1, <2>2, AppendAddsLine
  <2>4. PICK E : ParsedEntries \in Seq(E) /\ e \in E
    BY <2>3
  <2> DEFINE s == ParsedEntries
  <2>5. /\ InOrder(s, tick) /\ (AgentsAreDistinct => Once(s))
        /\ \A i \in 1 .. Len(s) : s[i].tick = tick =>
             \E k \in 1 .. turn - 1 : k \in DOMAIN hosts /\ hosts[k].id = s[i].agent
    BY <1>1 DEF ReplayInv, HadTheirTurn
  <2>6. AgentsAreDistinct => \A i \in 1 .. Len(s) : s[i].tick = tick => s[i].agent # e.agent
    <3> SUFFICES ASSUME AgentsAreDistinct, NEW i \in 1 .. Len(s), s[i].tick = tick,
                        s[i].agent = e.agent
                 PROVE  FALSE
      OBVIOUS
    <3>1. PICK k \in 1 .. turn - 1 : k \in DOMAIN hosts /\ hosts[k].id = s[i].agent
      BY <2>5
    <3>2. hosts[k].id = hosts[turn].id
      BY <1>2, <3>1 DEF Host
    <3>3. k = turn
      BY <1>1, <3>1, <3>2 DEF AgentsAreDistinct
    <3> QED  BY <1>1, <3>3
  <2>7. s \in Seq(E) /\ e \in E /\ tick \in Nat /\ e.tick = tick
    BY <1>1, <1>2, <2>4
  <2> HIDE DEF s
  <2>8. InOrder(Append(s, e), tick) /\ (AgentsAreDistinct => Once(Append(s, e)))
    BY <2>5, <2>6, <2>7, OneMoreLine
  <2>9. s' \in {s, Append(s, e)}
    BY <2>3 DEF s
  <2>10. InOrder(s', tick') /\ (AgentsAreDistinct' => Once(s'))
    <3>1. AgentsAreDistinct' = AgentsAreDistinct
      BY <1>1 DEF AgentsAreDistinct
    <3> QED  BY <1>1, <2>5, <2>8, <2>9, <3>1
  <2>11. \A i \in 1 .. Len(s') : s'[i].tick = tick =>
           \E k \in 1 .. turn : k \in DOMAIN hosts /\ hosts[k].id = s'[i].agent
    <3>1. \A i \in 1 .. Len(s) : s[i].tick = tick =>
           \E k \in 1 .. turn : k \in DOMAIN hosts /\ hosts[k].id = s[i].agent
      <4>1. 1 .. turn - 1 \subseteq 1 .. turn
        BY <1>1
      <4> QED  BY <2>5, <4>1
    <3>2. turn \in 1 .. turn /\ turn \in DOMAIN hosts /\ hosts[turn].id = e.agent
      BY <1>1, <1>2 DEF Host
    <3>3. Len(Append(s, e)) = Len(s) + 1 /\ Append(s, e)[Len(s) + 1] = e
          /\ Len(s) \in Nat /\ \A i \in 1 .. Len(s) : Append(s, e)[i] = s[i]
      BY <2>7
    <3>4. CASE s' = s
      BY <3>1, <3>4
    <3>5. CASE s' = Append(s, e)
      <4> SUFFICES ASSUME NEW i \in 1 .. Len(s'), s'[i].tick = tick
                   PROVE  \E k \in 1 .. turn : k \in DOMAIN hosts /\ hosts[k].id = s'[i].agent
        OBVIOUS
      <4>1. i \in 1 .. Len(s) \/ i = Len(s) + 1
        BY <3>3, <3>5
      <4>2. CASE i = Len(s) + 1
        <5>1. s'[i] = e
          BY <3>3, <3>5, <4>2
        <5> QED  BY <3>2, <5>1
      <4>3. CASE i \in 1 .. Len(s)
        <5>1. s'[i] = s[i]
          BY <3>3, <3>5, <4>3
        <5> QED  BY <3>1, <4>3, <5>1
      <4> QED  BY <4>1, <4>2, <4>3
    <3> QED  BY <2>9, <3>4, <3>5
  <2>12. HadTheirTurn'
    <3>1. turn' - 1 = turn
      BY <1>1
    <3> QED  BY <1>1, <2>11, <3>1 DEF HadTheirTurn, s
  <2>13. InStep' => EndsWith(s', decided', tick')
    <3> SUFFICES ASSUME InStep'  PROVE EndsWith(s', decided', tick')
      OBVIOUS
    <3>1. ~degraded /\ s' = Append(s, e)
      BY <2>3 DEF InStep, s
    <3>2. EndsWith(s, decided, tick)
      BY <1>1, <1>6, <3>1 DEF ReplayInv, InStep, s
    <3>3. EndsWith(Append(s, e), Append(decided, d), tick)
      BY <1>2, <1>5, <2>7, <3>2, OneMoreDecision
    <3> QED  BY <1>1, <1>3, <3>1, <3>3
  <2> QED  BY <1>5, <2>3, <2>10, <2>12, <2>13 DEF ReplayInv, s
<1>7. CASE ~logging
  <2>1. UNCHANGED logVars
    BY <1>7 DEF Decide
  <2>2. UNCHANGED <<sink, torn, garbled, degraded>> /\ ParsedEntries' = ParsedEntries
    BY <2>1 DEF logVars, ParsedEntries
  <2>3. LinesTyped' /\ TornAtTheEnd'
    BY <2>2 DEF ReplayInv, LinesTyped, TornAtTheEnd
  <2>4. InOrder(ParsedEntries, tick)' /\ (AgentsAreDistinct => Once(ParsedEntries))'
    BY <1>1, <2>2 DEF ReplayInv, AgentsAreDistinct
  <2>5. HadTheirTurn'
    <3>1. 1 .. turn - 1 \subseteq 1 .. turn' - 1
      BY <1>1
    <3> QED  BY <1>1, <2>2, <3>1 DEF ReplayInv, HadTheirTurn
  <2>6. ~InStep'
    BY <1>1, <1>7 DEF InStep
  <2> QED  BY <1>5, <2>3, <2>4, <2>5, <2>6 DEF ReplayInv
<1> QED  BY <1>6, <1>7

\* Every step keeps it (tick_once in tick.rs).
LEMMA StepReplays == TypeOK /\ ReplayInv /\ [Next]_vars => ReplayInv'
<1> SUFFICES ASSUME TypeOK, ReplayInv, [Next]_vars  PROVE ReplayInv'
  OBVIOUS
<1>1. ASSUME NEW a \in tools, Decide(a)  PROVE ReplayInv'
  BY <1>1, DecideReplays
<1>2. CASE BeginTick
  <2>1. /\ tick \in Nat /\ tick' = tick + 1 /\ turn' = 1 /\ decided' = <<>>
        /\ UNCHANGED <<sink, torn, garbled, degraded, logging, hosts>>
    BY <1>2 DEF BeginTick, TypeOK, logVars, setupVars
  <2>2. ParsedEntries' = ParsedEntries
    BY <2>1 DEF ParsedEntries
  <2>3. \A i \in 1 .. Len(ParsedEntries) :
          ParsedEntries[i].tick \in Nat /\ ParsedEntries[i].tick <= tick
    BY DEF ReplayInv, InOrder
  <2>4. \A i \in 1 .. Len(ParsedEntries) :
          /\ ParsedEntries[i].tick \in Nat /\ ParsedEntries[i].tick <= tick + 1
          /\ ParsedEntries[i].tick < tick + 1
    BY <2>1, <2>3
  <2>5. InOrder(ParsedEntries, tick)'
    <3>1. InOrder(ParsedEntries, tick + 1)
      BY <2>4 DEF ReplayInv, InOrder
    <3> QED  BY <2>1, <2>2, <3>1
  <2>6. HadTheirTurn'
    BY <2>1, <2>2, <2>4 DEF HadTheirTurn
  <2>7. EndsWith(ParsedEntries, decided, tick)'
    <3>1. Len(ParsedEntries) \in Nat
      <4>1. PICK E : sink \in Seq(E) /\ torn \in Seq(E)
        BY DEF ReplayInv, LinesTyped
      <4> QED  BY <4>1 DEF ParsedEntries
    <3>2. EndsWith(ParsedEntries, <<>>, tick + 1)
      <4> DEFINE n == Len(ParsedEntries)
      <4>1. Len(<<>>) = 0 /\ n - 0 = n /\ 0 <= n
        BY <3>1
      <4> QED  BY <2>4, <4>1 DEF EndsWith
    <3> QED  BY <2>1, <2>2, <3>2
  <2>8. (\E D : decided \in Seq(D))'
    <3>1. <<>> \in Seq({})
      OBVIOUS
    <3> QED  BY <2>1, <3>1
  <2>9. LinesTyped' /\ TornAtTheEnd' /\ (AgentsAreDistinct => Once(ParsedEntries))'
    BY <2>1, <2>2 DEF ReplayInv, LinesTyped, TornAtTheEnd, AgentsAreDistinct
  <2> QED  BY <2>5, <2>6, <2>7, <2>8, <2>9 DEF ReplayInv
<1>3. ASSUME UNCHANGED <<tick, sink, torn, garbled, degraded, hosts>>,
             \E D : decided' \in Seq(D),
             turn' # 0 => turn # 0 /\ turn' \in Nat /\ turn <= turn',
             InStep' => InStep /\ decided' = decided
      PROVE  ReplayInv'
  <2>1. ParsedEntries' = ParsedEntries
    BY <1>3 DEF ParsedEntries
  <2>2. LinesTyped' /\ TornAtTheEnd' /\ (AgentsAreDistinct => Once(ParsedEntries))'
        /\ InOrder(ParsedEntries, tick)'
    BY <1>3, <2>1 DEF ReplayInv, LinesTyped, TornAtTheEnd, AgentsAreDistinct
  <2>3. HadTheirTurn'
    <3> SUFFICES ASSUME turn' # 0  PROVE HadTheirTurn'
      BY DEF HadTheirTurn
    <3>1. 1 .. turn - 1 \subseteq 1 .. turn' - 1
      BY <1>3 DEF TypeOK
    <3> QED  BY <1>3, <2>1, <3>1 DEF ReplayInv, HadTheirTurn
  <2>4. (InStep => EndsWith(ParsedEntries, decided, tick))'
    BY <1>3, <2>1 DEF ReplayInv
  <2> QED  BY <1>3, <2>2, <2>3, <2>4 DEF ReplayInv
<1>4. CASE HeldTick
  <2>1. /\ UNCHANGED <<tick, sink, torn, garbled, degraded, hosts, turn, runState>>
        /\ turn = 0 /\ runState # "running" /\ decided' = <<>>
    BY <1>4 DEF HeldTick, Runnable, worldVars, logVars, setupVars
  <2>2. <<>> \in Seq({})
    OBVIOUS
  <2>3. ~InStep'
    BY <2>1 DEF InStep
  <2> QED  BY <1>3, <2>1, <2>2, <2>3
<1>5. CASE Pass \/ Panic \/ Fail
  <2>1. /\ UNCHANGED <<tick, sink, torn, garbled, degraded, hosts, logging, decided>>
        /\ turn \in DOMAIN hosts /\ turn' = turn + 1
    BY <1>5 DEF Pass, Panic, Fail, HasTurn, worldVars, logVars, setupVars
  <2>2. turn \in Nat /\ turn # 0 /\ turn' \in Nat /\ turn <= turn'
    BY <2>1 DEF TypeOK
  <2>3. InStep' => InStep
    BY <2>1, <2>2 DEF InStep
  <2> QED  BY <1>3, <2>1, <2>2, <2>3 DEF ReplayInv
<1>6. CASE EndTick
  <2>1. /\ UNCHANGED <<tick, sink, torn, garbled, degraded, hosts, logging, decided, runState>>
        /\ turn # 0 /\ turn' = 0
    BY <1>6 DEF EndTick, logVars, setupVars, TypeOK
  <2>2. InStep' => InStep
    BY <2>1 DEF InStep
  <2> QED  BY <1>3, <2>1, <2>2 DEF ReplayInv
<1>7. CASE UNCHANGED vars
  <2>1. UNCHANGED <<tick, sink, torn, garbled, degraded, hosts, logging, decided, runState, turn>>
    BY <1>7 DEF vars, worldVars, logVars, setupVars, tickVars
  <2>2. (turn' # 0 => turn # 0 /\ turn' \in Nat /\ turn <= turn') /\ (InStep' => InStep)
    BY <2>1 DEF InStep, TypeOK
  <2> QED  BY <1>3, <2>1, <2>2 DEF ReplayInv
<1> QED  BY <1>1, <1>2, <1>4, <1>5, <1>6, <1>7 DEF Next

LEMMA InitReplays == Init => ReplayInv
<1> SUFFICES ASSUME Init  PROVE ReplayInv
  OBVIOUS
<1>1. /\ sink = <<>> /\ torn = <<>> /\ garbled = FALSE /\ degraded = FALSE
      /\ turn = 0 /\ decided = <<>> /\ runState = "loaded" /\ tick = 0
  BY DEF Init, LogInit, WorldInit
<1>2. <<>> \in Seq({}) /\ Len(<<>>) = 0 /\ <<>> \o <<>> = <<>>
  OBVIOUS
<1>3. ParsedEntries = <<>>
  BY <1>1, <1>2 DEF ParsedEntries
<1>4. InOrder(<<>>, 0) /\ Once(<<>>)
  BY <1>2 DEF InOrder, Once
<1>5. LinesTyped /\ TornAtTheEnd /\ \E D : decided \in Seq(D)
  BY <1>1, <1>2 DEF LinesTyped, TornAtTheEnd
<1> QED  BY <1>1, <1>3, <1>4, <1>5 DEF ReplayInv, HadTheirTurn, InStep

-----------------------------------------------------------------------------
(* What the invariant says of a replay. *)

\* The numbers of a report on lines in order.
LEMMA OrderedIsCorrelated ==
  ASSUME NEW E, NEW s \in Seq(E), NEW now \in Nat, InOrder(s, now)
  PROVE  /\ OutOfOrder(s) = {}
         /\ Once(s) => Duplicates(s) = {}
         /\ LET ticks == {s[i].tick : i \in DOMAIN s}
            IN  Len(s) > 0 =>
                  {span \in ticks \X ticks : \A t \in ticks : span[1] <= t /\ t <= span[2]}
                    = {<<s[1].tick, s[Len(s)].tick>>}
<1> DEFINE n == Len(s)
<1>1. n \in Nat /\ DOMAIN s = 1 .. n
  OBVIOUS
<1>2. /\ \A i \in 1 .. n : s[i].tick \in Nat
      /\ \A i, j \in 1 .. n : i <= j => s[i].tick <= s[j].tick
  BY DEF InOrder
<1>3. OutOfOrder(s) = {}
  <2> SUFFICES ASSUME NEW i \in (1 .. n) \ {1}, s[i].tick < s[i - 1].tick  PROVE FALSE
    BY <1>1 DEF OutOfOrder
  <2> HIDE DEF n
  <2>1. i \in 1 .. n /\ i - 1 \in 1 .. n /\ i - 1 <= i
    BY <1>1
  <2> QED  BY <1>2, <2>1
<1>4. ASSUME Once(s)  PROVE Duplicates(s) = {}
  <2> SUFFICES ASSUME NEW i \in 1 .. n, NEW j \in 1 .. i - 1,
                      s[j].tick = s[i].tick, s[j].agent = s[i].agent
               PROVE  FALSE
    BY <1>1 DEF Duplicates
  <2>1. \A k, l \in 1 .. n : l < k => ~(s[l].tick = s[k].tick /\ s[l].agent = s[k].agent)
    BY <1>4 DEF Once
  <2> HIDE DEF n
  <2>2. j \in 1 .. n /\ j < i
    BY <1>1
  <2> QED  BY <2>1, <2>2
<1> DEFINE ticks == {s[i].tick : i \in DOMAIN s}
           spans == {span \in ticks \X ticks : \A t \in ticks : span[1] <= t /\ t <= span[2]}
<1>5. ASSUME n > 0  PROVE spans = {<<s[1].tick, s[n].tick>>}
  <2> DEFINE first == s[1].tick
             last  == s[n].tick
  <2>1. 1 \in 1 .. n /\ n \in 1 .. n
    BY <1>1, <1>5
  <2>2. first \in ticks /\ last \in ticks
    BY <1>1, <2>1
  <2>3. \A t \in ticks : t \in Nat /\ first <= t /\ t <= last
    <3> SUFFICES ASSUME NEW i \in 1 .. n  PROVE s[i].tick \in Nat /\ first <= s[i].tick /\ s[i].tick <= last
      BY <1>1
    <3>1. 1 <= i /\ i <= n
      BY <1>1
    <3> QED  BY <1>2, <2>1, <3>1
  <2> HIDE DEF ticks, first, last
  <2>4. <<first, last>> \in spans
    BY <2>2, <2>3
  <2>5. ASSUME NEW span \in spans  PROVE span = <<first, last>>
    <3>1. /\ span[1] \in ticks /\ span[2] \in ticks /\ span = <<span[1], span[2]>>
          /\ \A t \in ticks : span[1] <= t /\ t <= span[2]
      OBVIOUS
    <3>2. span[1] \in Nat /\ span[2] \in Nat /\ first \in Nat /\ last \in Nat
      BY <2>2, <2>3, <3>1
    <3>3. span[1] <= first /\ first <= span[1] /\ last <= span[2] /\ span[2] <= last
      BY <2>2, <2>3, <3>1
    <3>4. span[1] = first /\ span[2] = last
      BY <3>2, <3>3
    <3> QED  BY <3>1, <3>4
  <2>6. spans = {<<first, last>>}
    BY <2>4, <2>5
  <2> QED  BY <2>6 DEF first, last
<1> QED  BY <1>3, <1>4, <1>5

LEMMA ReportFields ==
  ASSUME NEW a, NEW b, NEW c, NEW d, NEW e, NEW f, NEW g, NEW h,
         NEW r, r = [entries |-> a, selected |-> b, malformed |-> c, duplicate_decisions |-> d,
                     out_of_order |-> e, agents |-> f, ticks |-> g, selected_ticks |-> h]
  PROVE  r.entries = a /\ r.duplicate_decisions = d /\ r.out_of_order = e /\ r.ticks = g
<1> QED  BY Zenon

LEMMA CorrelatesCleanly == TypeOK /\ ReplayInv => FindsNoIssues
<1> SUFFICES ASSUME TypeOK, ReplayInv  PROVE FindsNoIssues
  OBVIOUS
<1>1. PICK E : ParsedEntries \in Seq(E)
  <2>1. PICK E : sink \in Seq(E) /\ torn \in Seq(E)
    BY DEF ReplayInv, LinesTyped
  <2> QED  BY <2>1 DEF ParsedEntries
<1>2. tick \in Nat /\ InOrder(ParsedEntries, tick) /\ (AgentsAreDistinct => Once(ParsedEntries))
  BY DEF ReplayInv, TypeOK
<1>3. /\ OutOfOrder(ParsedEntries) = {}
      /\ AgentsAreDistinct => Duplicates(ParsedEntries) = {}
      /\ Len(ParsedEntries) > 0 =>
           TickSpan(Lines) =
             {<<ParsedEntries[1].tick, ParsedEntries[Len(ParsedEntries)].tick>>}
  BY <1>1, <1>2, OrderedIsCorrelated DEF TickSpan, Lines
<1> DEFINE report == Report([from_tick |-> {}, to_tick |-> {}, agent_id |-> {}])
<1>4. /\ report.entries = Len(ParsedEntries)
      /\ report.duplicate_decisions = Duplicates(ParsedEntries)
      /\ report.out_of_order = OutOfOrder(ParsedEntries)
      /\ report.ticks = TickSpan(Lines)
  <2> DEFINE none == [from_tick |-> {}, to_tick |-> {}, agent_id |-> {}]
             lines == Len(ParsedEntries)
             chosen == SelectedLines(none)
             twice == Duplicates(ParsedEntries)
             astray == OutOfOrder(ParsedEntries)
             agents == {ParsedEntries[i].agent : i \in Lines}
             span == TickSpan(Lines)
             chosenSpan == TickSpan(SelectedLines(none))
  <2>1. report = [entries |-> lines, selected |-> chosen, malformed |-> Malformed,
                  duplicate_decisions |-> twice, out_of_order |-> astray,
                  agents |-> agents, ticks |-> span, selected_ticks |-> chosenSpan]
    BY Zenon DEF Report
  <2> HIDE DEF report, lines, chosen, twice, astray, agents, span, chosenSpan
  <2>2. report.entries = lines /\ report.duplicate_decisions = twice
        /\ report.out_of_order = astray /\ report.ticks = span
    BY <2>1, ReportFields
  <2> QED  BY <2>2 DEF lines, twice, astray, span
<1>5. \A o \in ReplayOptions : ExitStatus(o) # 0 => WindowIsReversed(o) \/ degraded
  BY DEF ExitStatus, Malformed, ReplayInv, TornAtTheEnd
<1> HIDE DEF report
<1> QED  BY <1>3, <1>4, <1>5 DEF FindsNoIssues, report

\* The lines of the present tick are the last ones.
LEMMA LastLines ==
  ASSUME NEW E, NEW s \in Seq(E), NEW D, NEW ds \in Seq(D), NEW now \in Nat,
         InOrder(s, now), EndsWith(s, ds, now)
  PROVE  {i \in DOMAIN s : s[i].tick >= now /\ s[i].tick <= now}
           = Len(s) - Len(ds) + 1 .. Len(s)
<1> DEFINE n == Len(s)
           m == Len(ds)
<1>1. n \in Nat /\ m \in Nat /\ DOMAIN s = 1 .. n
  OBVIOUS
<1>2. /\ m <= n
      /\ \A i \in 1 .. n - m : s[i].tick < now
      /\ \A k \in 1 .. m : s[n - m + k].tick = now
      /\ \A i \in 1 .. n : s[i].tick \in Nat
  BY DEF EndsWith, InOrder
<1> HIDE DEF n, m
<1>3. ASSUME NEW i \in n - m + 1 .. n  PROVE i \in 1 .. n /\ s[i].tick = now
  <2>1. i - (n - m) \in 1 .. m /\ n - m + (i - (n - m)) = i /\ i \in 1 .. n
    BY <1>1, <1>2
  <2> QED  BY <1>2, <2>1
<1>4. ASSUME NEW i \in 1 .. n, s[i].tick >= now  PROVE i \in n - m + 1 .. n
  <2>1. i \notin 1 .. n - m
    BY <1>1, <1>2, <1>4
  <2> QED  BY <1>1, <1>2, <2>1
<1>5. {i \in 1 .. n : s[i].tick >= now /\ s[i].tick <= now} = n - m + 1 .. n
  BY <1>3, <1>4
<1> QED  BY <1>1, <1>5 DEF n, m

LEMMA TickIsReplayed == TypeOK /\ ReplayInv => ReplaysTheTick
<1> SUFFICES ASSUME TypeOK, ReplayInv, InStep
             PROVE  {e \in Envelopes(OnlyTick(tick)) : e.kind = "agent_decided"} =
                      {Envelope(2 * (k - 1), "agent_decided", decided[k]) : k \in DOMAIN decided}
  BY DEF ReplaysTheTick, InStep
<1> DEFINE s == ParsedEntries
           n == Len(s)
           m == Len(decided)
           o == OnlyTick(tick)
<1>1. PICK E : s \in Seq(E)
  <2>1. PICK E : sink \in Seq(E) /\ torn \in Seq(E)
    BY DEF ReplayInv, LinesTyped
  <2> QED  BY <2>1 DEF ParsedEntries
<1>2. PICK D : decided \in Seq(D)
  BY DEF ReplayInv
<1>3. tick \in Nat /\ InOrder(s, tick) /\ EndsWith(s, decided, tick)
  BY DEF ReplayInv, TypeOK
<1>4. n \in Nat /\ m \in Nat /\ m <= n /\ DOMAIN decided = 1 .. m
  BY <1>1, <1>2, <1>3 DEF EndsWith
<1>5. SelectedLines(o) = n - m + 1 .. n
  <2>1. SelectedLines(o) = {i \in DOMAIN s : s[i].tick >= tick /\ s[i].tick <= tick}
    BY DEF SelectedLines, IsSelected, OnlyTick, Lines
  <2> QED  BY <1>1, <1>2, <1>3, <2>1, LastLines
<1>6. \A k \in 1 .. m :
        decided[k] = [agent |-> s[n - m + k].agent, action |-> s[n - m + k].action]
  BY <1>3 DEF EndsWith
<1> HIDE DEF s, n, m, o
<1>7. ASSUME NEW k \in 1 .. m
      PROVE  n - m + k \in SelectedLines(o) /\ Rank(o, n - m + k) = k - 1
  <2>1. n - m + k \in SelectedLines(o)
    BY <1>4, <1>5
  <2>2. {j \in SelectedLines(o) : j < n - m + k} = n - m + 1 .. n - m + k - 1
    BY <1>4, <1>5
  <2>3. /\ n - m + 1 \in Int /\ n - m + k - 1 \in Int
        /\ (n - m + k - 1) - (n - m + 1) + 1 = k - 1
    BY <1>4
  <2>4. Cardinality(n - m + 1 .. n - m + k - 1) = k - 1
    <3> DEFINE a == n - m + 1
               b == n - m + k - 1
    <3>1. a \in Int /\ b \in Int /\ b - a + 1 = k - 1 /\ (a > b => k - 1 = 0)
      BY <1>4
    <3>2. Cardinality(a .. b) = IF a > b THEN 0 ELSE b - a + 1
      <4> HIDE DEF a, b
      <4> QED  BY <3>1, FS_Interval
    <3> HIDE DEF a, b
    <3>3. Cardinality(a .. b) = k - 1
      BY <3>1, <3>2
    <3> QED  BY <3>3 DEF a, b
  <2> QED  BY <2>1, <2>2, <2>4 DEF Rank
<1> DEFINE Decided(i) == Envelope(2 * Rank(o, i), "agent_decided",
                                  [agent |-> s[i].agent, action |-> s[i].action])
           Reported(i) == Envelope(2 * Rank(o, i) + 1, "agent_report", ReportOf(s[i]))
           Told(k) == Envelope(2 * (k - 1), "agent_decided", decided[k])
<1>8. \A i : Decided(i).kind = "agent_decided" /\ Reported(i).kind = "agent_report"
  BY DEF Envelope
<1>9. Envelopes(o) = UNION {{Decided(i), Reported(i)} : i \in SelectedLines(o)}
  BY DEF Envelopes, s
<1>10. \A k \in 1 .. m : Decided(n - m + k) = Told(k)
  BY <1>6, <1>7
<1> HIDE DEF Decided, Reported, Told
<1>11. ASSUME NEW e \in Envelopes(o), e.kind = "agent_decided"
       PROVE  \E k \in 1 .. m : e = Told(k)
  <2>1. PICK i \in SelectedLines(o) : e \in {Decided(i), Reported(i)}
    BY <1>9
  <2>2. e = Decided(i)
    BY <1>8, <1>11, <2>1
  <2>3. i - (n - m) \in 1 .. m /\ n - m + (i - (n - m)) = i
    BY <1>4, <1>5
  <2> QED  BY <1>10, <2>2, <2>3
<1>12. ASSUME NEW k \in 1 .. m
       PROVE  Told(k) \in Envelopes(o) /\ Told(k).kind = "agent_decided"
  BY <1>7, <1>8, <1>9, <1>10
<1>13. {e \in Envelopes(o) : e.kind = "agent_decided"} = {Told(k) : k \in 1 .. m}
  BY <1>11, <1>12
<1> QED  BY <1>4, <1>13 DEF o, Told

\* Whatever the agents decide and however writes fail, a replay of the log finds
\* its lines in order and each decision once, and the decisions of the present
\* tick as its listeners were told of them (cmd_replay in headless/src/main.rs,
\* run_agents in tick.rs).
THEOREM ReplayIsTrue == Spec => []ReplayFindsNoIssues
<1>1. TypeOK /\ ReplayInv => ReplayFindsNoIssues
  BY CorrelatesCleanly, TickIsReplayed DEF ReplayFindsNoIssues
<1>2. Init => ReplayInv
  BY InitReplays
<1> QED  BY <1>1, <1>2, StepReplays, TypeCorrect, PTL DEF Spec
=============================================================================
