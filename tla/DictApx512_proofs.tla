-------------------------- MODULE DictApx512_proofs --------------------------
(***************************************************************************)
(* The filter that forgets holds nothing its client has not in, and finds  *)
(* what was just inserted, for every number and size of dictionaries.      *)
(*                                                                         *)
(* NoGhosts is inductive once the state has its types.  That capacity, a   *)
(* difference of insertions and removals, is a natural is not: it counts   *)
(* the elements in all dictionaries.                                       *)
(***************************************************************************)
EXTENDS DictApx512, FiniteSetTheorems, SequenceTheorems, FunctionTheorems,
        WellFoundedInduction, TLAPS

One(b) == IF b THEN 1 ELSE 0

Runs == [Quots -> Seq(Rems)]

RunsOK(runs) == runs \in Runs /\ IsFiniteSet(Elements(runs))

(***************************************************************************)
(* Runs.                                                                   *)
(***************************************************************************)
(* The places of x in a run. *)
Places(s, x) == {i \in DOMAIN s : s[i] = x}

(* The run t is the run s without its place k. *)
Dropped(s, t, k) ==
  /\ t \in Seq(Rems)
  /\ k \in 1 .. Len(s)
  /\ Len(t) = Len(s) - 1
  /\ \A i \in 1 .. Len(t) : t[i] = IF i < k THEN s[i] ELSE s[i + 1]

LEMMA PlacesFinite ==
  ASSUME NEW s \in Seq(Rems), NEW x
  PROVE  IsFiniteSet(Places(s, x)) /\ Cardinality(Places(s, x)) \in Nat
<1>1. DOMAIN s = 1 .. Len(s) /\ Len(s) \in Nat
  BY LenProperties
<1>2. IsFiniteSet(1 .. Len(s)) /\ Places(s, x) \subseteq 1 .. Len(s)
  BY <1>1, FS_Interval DEF Places
<1>3. IsFiniteSet(Places(s, x))
  BY <1>2, FS_Subset
<1> QED BY <1>3, FS_CardinalityType

LEMMA PlacesAfterAppend ==
  ASSUME NEW s \in Seq(Rems), NEW r \in Rems, NEW x
  PROVE  Cardinality(Places(Append(s, r), x)) = Cardinality(Places(s, x)) + One(r = x)
<1> DEFINE n == Len(s)
<1>1. /\ n \in Nat /\ DOMAIN s = 1 .. n
      /\ Append(s, r) \in Seq(Rems) /\ DOMAIN Append(s, r) = 1 .. n + 1
      /\ \A i \in 1 .. n : Append(s, r)[i] = s[i]
      /\ Append(s, r)[n + 1] = r
  BY LenProperties, AppendProperties
<1>2. IsFiniteSet(Places(s, x)) /\ Cardinality(Places(s, x)) \in Nat
  BY PlacesFinite
<1> HIDE DEF n
<1>3. CASE r = x
  <2>1. Places(Append(s, r), x) = Places(s, x) \cup {n + 1} /\ n + 1 \notin Places(s, x)
    BY <1>1, <1>3 DEF Places
  <2> QED BY <1>2, <1>3, <2>1, FS_AddElement DEF One
<1>4. CASE r # x
  <2>1. Places(Append(s, r), x) = Places(s, x)
    BY <1>1, <1>4 DEF Places
  <2> QED BY <1>2, <1>4, <2>1 DEF One
<1> QED BY <1>3, <1>4

LEMMA PlacesAfterDrop ==
  ASSUME NEW s \in Seq(Rems), NEW t, NEW k, Dropped(s, t, k), NEW x
  PROVE  Cardinality(Places(t, x)) = Cardinality(Places(s, x)) - One(s[k] = x)
<1> DEFINE n == Len(s)
           A == Places(t, x)
           B == Places(s, x) \ {k}
           f == [i \in A |-> IF i < k THEN i ELSE i + 1]
<1>1. /\ n \in Nat /\ DOMAIN s = 1 .. n /\ k \in 1 .. n
      /\ t \in Seq(Rems) /\ DOMAIN t = 1 .. n - 1 /\ Len(t) = n - 1
      /\ \A i \in 1 .. n - 1 : t[i] = IF i < k THEN s[i] ELSE s[i + 1]
  BY LenProperties DEF Dropped
<1> HIDE DEF n
<1>2. f \in [A -> B]
  <2> SUFFICES ASSUME NEW i \in A PROVE (IF i < k THEN i ELSE i + 1) \in B
    OBVIOUS
  <2> QED BY <1>1 DEF Places
<1>3. ASSUME NEW i \in A, NEW j \in A, f[i] = f[j] PROVE i = j
  <2>1. i \in Nat /\ j \in Nat /\ k \in Nat
    BY <1>1 DEF Places
  <2> QED BY <1>3, <2>1
<1>4. ASSUME NEW j \in B PROVE \E i \in A : f[i] = j
  <2>1. j \in 1 .. n /\ j # k /\ s[j] = x
    BY <1>1 DEF Places
  <2>2. CASE j < k
    <3>1. j \in A
      BY <1>1, <2>1, <2>2 DEF Places
    <3> QED BY <2>2, <3>1
  <2>3. CASE j > k
    <3>1. j - 1 \in A /\ ~(j - 1 < k) /\ (j - 1) + 1 = j
      BY <1>1, <2>1, <2>3 DEF Places
    <3>2. f[j - 1] = j
      BY <3>1
    <3> QED BY <3>1, <3>2
  <2> QED BY <1>1, <2>1, <2>2, <2>3
<1>5. ExistsBijection(A, B)
  <2>1. f \in Bijection(A, B)
    <3> HIDE DEF A, B, f
    <3> QED BY <1>2, <1>3, <1>4, Fun_IsBij
  <2> QED BY <2>1 DEF ExistsBijection
<1>6. /\ IsFiniteSet(Places(s, x)) /\ Cardinality(Places(s, x)) \in Nat
      /\ IsFiniteSet(A)
  BY <1>1, PlacesFinite
<1>7. Cardinality(B) = Cardinality(A)
  BY <1>5, <1>6, FS_Bijection
<1>8. Cardinality(B) = Cardinality(Places(s, x)) - One(k \in Places(s, x))
  <2>1. CASE k \in Places(s, x)
    BY <1>6, <2>1, FS_RemoveElement DEF One
  <2>2. CASE k \notin Places(s, x)
    <3>1. B = Places(s, x) /\ One(k \in Places(s, x)) = 0
      BY <2>2 DEF One
    <3> HIDE DEF B
    <3> QED BY <1>6, <3>1
  <2> QED BY <2>1, <2>2
<1>9. k \in Places(s, x) <=> s[k] = x
  BY <1>1 DEF Places
<1> QED BY <1>6, <1>7, <1>8, <1>9 DEF One

LEMMA ElementsAre ==
  ASSUME NEW runs \in Runs, NEW e
  PROVE  e \in Elements(runs) <=> \E q \in Quots : \E i \in 1 .. Len(runs[q]) : e = <<q, i>>
<1>1. \A q \in Quots : DOMAIN runs[q] = 1 .. Len(runs[q])
  BY LenProperties DEF Runs
<1> QED BY <1>1 DEF Elements

(* The dictionary has one element more, or one less, of a fingerprint. *)
Changes(runs, new, quot, rem, d) ==
  \A q \in Quots : \A r :
    Occurrences(new, q, r) = Occurrences(runs, q, r) + (IF q = quot /\ r = rem THEN d ELSE 0)

LEMMA OccurrencesType ==
  ASSUME NEW runs \in Runs, NEW q \in Quots, NEW r
  PROVE  /\ Occurrences(runs, q, r) \in Nat
         /\ Stores(runs, q, r) <=> Occurrences(runs, q, r) > 0
<1>1. runs[q] \in Seq(Rems) /\ Occurrences(runs, q, r) = Cardinality(Places(runs[q], r))
  BY DEF Runs, Occurrences, Places
<1>2. IsFiniteSet(Places(runs[q], r)) /\ Occurrences(runs, q, r) \in Nat
  BY <1>1, PlacesFinite
<1>3. Stores(runs, q, r) <=> Places(runs[q], r) # {}
  BY DEF Stores, Places, Range
<1> QED BY <1>1, <1>2, <1>3, FS_EmptySet

LEMMA AppendEffect ==
  ASSUME NEW runs, RunsOK(runs), NEW quot \in Quots, NEW rem \in Rems
  PROVE  LET new == AppendTo(runs, quot, rem)
         IN  /\ RunsOK(new)
             /\ Changes(runs, new, quot, rem, 1)
             /\ Stores(new, quot, rem)
             /\ \E e : e \notin Elements(runs) /\ Elements(new) = Elements(runs) \cup {e}
<1> DEFINE new == AppendTo(runs, quot, rem)
           s == runs[quot]
           e == <<quot, Len(s) + 1>>
<1>1. runs \in Runs /\ IsFiniteSet(Elements(runs)) /\ s \in Seq(Rems) /\ Len(s) \in Nat
  BY LenProperties DEF RunsOK, Runs
<1>2. /\ Append(s, rem) \in Seq(Rems) /\ Len(Append(s, rem)) = Len(s) + 1
      /\ Append(s, rem)[Len(s) + 1] = rem /\ DOMAIN Append(s, rem) = 1 .. Len(s) + 1
  BY <1>1, AppendProperties, LenProperties
<1>3. new \in Runs /\ new[quot] = Append(s, rem) /\ \A q \in Quots : q # quot => new[q] = runs[q]
  BY <1>1, <1>2 DEF AppendTo, Runs
<1> HIDE DEF new
<1>4. e \notin Elements(runs)
  BY <1>1, ElementsAre
<1>5. Elements(new) = Elements(runs) \cup {e}
  <2> SUFFICES ASSUME NEW x PROVE x \in Elements(new) <=> x \in Elements(runs) \/ x = e
    OBVIOUS
  <2>1. x \in Elements(new) <=> \E q \in Quots : \E i \in 1 .. Len(new[q]) : x = <<q, i>>
    BY <1>3, ElementsAre
  <2>2. x \in Elements(runs) <=> \E q \in Quots : \E i \in 1 .. Len(runs[q]) : x = <<q, i>>
    BY <1>1, ElementsAre
  <2>3. \A i : i \in 1 .. Len(new[quot]) <=> i \in 1 .. Len(s) \/ i = Len(s) + 1
    BY <1>1, <1>2, <1>3
  <2> HIDE DEF s
  <2> QED BY <1>3, <2>1, <2>2, <2>3 DEF s
<1>6. RunsOK(new)
  BY <1>1, <1>3, <1>5, FS_AddElement DEF RunsOK
<1>7. ASSUME NEW q \in Quots, NEW r
      PROVE  Occurrences(new, q, r) = Occurrences(runs, q, r) + (IF q = quot /\ r = rem THEN 1 ELSE 0)
  <2>1. CASE q = quot
    <3>1. Occurrences(new, q, r) = Cardinality(Places(Append(s, rem), r))
          /\ Occurrences(runs, q, r) = Cardinality(Places(s, r))
      BY <1>3, <2>1 DEF Occurrences, Places
    <3>2. Occurrences(new, q, r) = Occurrences(runs, q, r) + One(rem = r)
      BY <1>1, <3>1, PlacesAfterAppend
    <3> QED BY <2>1, <3>2 DEF One
  <2>2. CASE q # quot
    <3>1. Occurrences(new, q, r) = Occurrences(runs, q, r)
      BY <1>3, <2>2 DEF Occurrences
    <3> QED BY <1>1, <2>2, <3>1, OccurrencesType
  <2> QED BY <2>1, <2>2
<1>8. Stores(new, quot, rem)
  BY <1>1, <1>2, <1>3 DEF Stores, Range
<1> QED BY <1>4, <1>5, <1>6, <1>7, <1>8 DEF Changes, new

LEMMA DropEffect ==
  ASSUME NEW runs, RunsOK(runs), NEW quot \in Quots, NEW t, NEW k,
         Dropped(runs[quot], t, k)
  PROVE  LET new == [runs EXCEPT ![quot] = t]
         IN  /\ RunsOK(new)
             /\ Changes(runs, new, quot, runs[quot][k], -1)
             /\ \E e \in Elements(runs) : Elements(new) = Elements(runs) \ {e}
<1> DEFINE new == [runs EXCEPT ![quot] = t]
           s == runs[quot]
           e == <<quot, Len(s)>>
<1>1. runs \in Runs /\ IsFiniteSet(Elements(runs)) /\ s \in Seq(Rems) /\ Len(s) \in Nat
  BY LenProperties DEF RunsOK, Runs
<1>2. t \in Seq(Rems) /\ Len(t) = Len(s) - 1 /\ k \in 1 .. Len(s)
  BY DEF Dropped
<1>3. new \in Runs /\ new[quot] = t /\ \A q \in Quots : q # quot => new[q] = runs[q]
  BY <1>1, <1>2 DEF Runs
<1> HIDE DEF new
<1>4. e \in Elements(runs)
  BY <1>1, <1>2, ElementsAre
<1>5. Elements(new) = Elements(runs) \ {e}
  <2> SUFFICES ASSUME NEW x PROVE x \in Elements(new) <=> x \in Elements(runs) /\ x # e
    OBVIOUS
  <2>1. x \in Elements(new) <=> \E q \in Quots : \E i \in 1 .. Len(new[q]) : x = <<q, i>>
    BY <1>3, ElementsAre
  <2>2. x \in Elements(runs) <=> \E q \in Quots : \E i \in 1 .. Len(runs[q]) : x = <<q, i>>
    BY <1>1, ElementsAre
  <2>3. \A i : i \in 1 .. Len(new[quot]) <=> i \in 1 .. Len(s) /\ i # Len(s)
    BY <1>1, <1>2, <1>3
  <2> HIDE DEF s
  <2> QED BY <1>3, <2>1, <2>2, <2>3 DEF s
<1>6. RunsOK(new)
  BY ZenonT(30), <1>1, <1>3, <1>5, FS_RemoveElement DEF RunsOK
<1>7. ASSUME NEW q \in Quots, NEW r
      PROVE  Occurrences(new, q, r) = Occurrences(runs, q, r) + (IF q = quot /\ r = s[k] THEN -1 ELSE 0)
  <2>0. Occurrences(runs, q, r) \in Nat
    BY <1>1, OccurrencesType
  <2>1. CASE q = quot
    <3>1. Occurrences(new, q, r) = Cardinality(Places(t, r))
          /\ Occurrences(runs, q, r) = Cardinality(Places(s, r))
      BY <1>3, <2>1 DEF Occurrences, Places
    <3>2. Occurrences(new, q, r) = Occurrences(runs, q, r) - One(s[k] = r)
      BY <1>1, <3>1, PlacesAfterDrop
    <3> HIDE DEF s
    <3> QED BY <2>0, <2>1, <3>2 DEF One
  <2>2. CASE q # quot
    <3>1. Occurrences(new, q, r) = Occurrences(runs, q, r)
      BY <1>3, <2>2 DEF Occurrences
    <3> QED BY <2>0, <2>2, <3>1
  <2> QED BY <2>1, <2>2
<1> QED BY <1>4, <1>5, <1>6, <1>7 DEF Changes, new

-----------------------------------------------------------------------------
(***************************************************************************)
(* What leaves a dictionary: the oldest of a run, or the first copy.       *)
(***************************************************************************)
(* Every nonempty set of naturals has a least member. *)
LEMMA LeastNat ==
  ASSUME NEW S \in SUBSET Nat, S # {}
  PROVE  Min(S) \in S /\ \A m \in S : Min(S) <= m
<1> DEFINE R == {ss \in Nat \X Nat : ss[1] < ss[2]}
<1>1. R = OpToRel(<, Nat)
  BY DEF OpToRel
<1>2. IsWellFoundedOn(R, Nat)
  BY <1>1, NatLessThanWellFounded
<1>3. PICK n \in S : \A m \in S : <<m, n>> \notin R
  <2> HIDE DEF R
  <2> QED BY <1>2, WFMin
<1>4. ASSUME NEW m \in S PROVE n <= m
  <2>1. m \in Nat /\ n \in Nat /\ (m < n => <<m, n>> \in R)
    OBVIOUS
  <2> QED BY <1>3, <2>1
<1>5. \E x \in S : \A y \in S : x =< y
  BY <1>4
<1> QED BY <1>5 DEF Min

LEMMA TailIsDropped ==
  ASSUME NEW s \in Seq(Rems), s # << >>
  PROVE  Dropped(s, Tail(s), 1)
<1>1. /\ Tail(s) \in Seq(Rems) /\ Len(Tail(s)) = Len(s) - 1
      /\ \A i \in 1 .. Len(Tail(s)) : Tail(s)[i] = s[i + 1]
  BY HeadTailProperties
<1>2. Len(s) \in Nat /\ Len(s) # 0
  BY LenProperties, EmptySeq
<1> QED BY <1>1, <1>2 DEF Dropped

LEMMA RemoveFirstIsDropped ==
  ASSUME NEW s \in Seq(Rems), NEW r, r \in Range(s)
  PROVE  \E k : s[k] = r /\ Dropped(s, RemoveFirst(s, r), k)
<1> DEFINE I == {i \in 1 .. Len(s) : s[i] = r}
           k == Min(I)
           n == Len(s)
           u == SubSeq(s, 1, k - 1)
           v == SubSeq(s, k + 1, n)
<1>1. n \in Nat /\ DOMAIN s = 1 .. n /\ \A i \in 1 .. n : s[i] \in Rems
  BY LenProperties, ElementOfSeq
<1>2. I # {} /\ I \in SUBSET Nat
  BY <1>1 DEF Range
<1>3. k \in I
  BY <1>2, LeastNat
<1>4. RemoveFirst(s, r) = u \o v
  BY <1>2 DEF RemoveFirst, SelectInSeq, RemoveAt
<1>5. s[k] = r /\ k \in 1 .. n
  BY <1>3
<1> HIDE DEF k, n
<1>6. u \in Seq(Rems) /\ Len(u) = k - 1 /\ \A i \in 1 .. k - 1 : u[i] = s[i]
  <2>1. /\ u \in Seq(Rems) /\ Len(u) = IF 1 <= k - 1 THEN (k - 1) - 1 + 1 ELSE 0
        /\ \A i \in 1 .. (k - 1) - 1 + 1 : u[i] = s[1 + i - 1]
    <3>1. 1 \in Int /\ k - 1 \in Int /\ \A i \in 1 .. k - 1 : s[i] \in Rems
      BY <1>1, <1>5
    <3> QED BY <3>1, SubSeqProperties
  <2> HIDE DEF u
  <2> QED BY <1>1, <1>5, <2>1
<1>7. v \in Seq(Rems) /\ Len(v) = n - k /\ \A i \in 1 .. n - k : v[i] = s[k + i]
  <2>1. /\ v \in Seq(Rems) /\ Len(v) = IF k + 1 <= n THEN n - (k + 1) + 1 ELSE 0
        /\ \A i \in 1 .. n - (k + 1) + 1 : v[i] = s[(k + 1) + i - 1]
    <3>1. k + 1 \in Int /\ n \in Int /\ \A i \in k + 1 .. n : s[i] \in Rems
      BY <1>1, <1>5
    <3> QED BY <3>1, SubSeqProperties
  <2> HIDE DEF v
  <2> QED BY <1>1, <1>5, <2>1
<1> HIDE DEF u, v
<1>8. /\ u \o v \in Seq(Rems) /\ Len(u \o v) = n - 1
      /\ \A i \in 1 .. n - 1 : (u \o v)[i] = IF i < k THEN s[i] ELSE s[i + 1]
  <2>1. /\ u \o v \in Seq(Rems) /\ Len(u \o v) = Len(u) + Len(v)
        /\ \A i \in 1 .. Len(u) + Len(v) :
             (u \o v)[i] = IF i <= Len(u) THEN u[i] ELSE v[i - Len(u)]
    BY <1>6, <1>7, ConcatProperties
  <2>2. Len(u) + Len(v) = n - 1
    BY <1>1, <1>5, <1>6, <1>7
  <2>3. ASSUME NEW i \in 1 .. n - 1
        PROVE  (u \o v)[i] = IF i < k THEN s[i] ELSE s[i + 1]
    <3>1. CASE i < k
      <4>1. i \in 1 .. k - 1 /\ i <= Len(u)
        BY <1>1, <1>5, <1>6, <3>1
      <4> QED BY <1>6, <2>1, <2>2, <3>1, <4>1
    <3>2. CASE ~(i < k)
      <4>1. ~(i <= Len(u)) /\ i - Len(u) \in 1 .. n - k /\ k + (i - Len(u)) = i + 1
        BY <1>1, <1>5, <1>6, <3>2
      <4> QED BY <1>7, <2>1, <2>2, <3>2, <4>1
    <3> QED BY <3>1, <3>2
  <2> QED BY <2>1, <2>2, <2>3
<1>9. Dropped(s, RemoveFirst(s, r), k)
  BY <1>4, <1>5, <1>8 DEF Dropped, n
<1> QED BY <1>5, <1>9

(* A dictionary that is full has a run to evict from. *)
LEMMA EvictsFromRun ==
  ASSUME NEW runs \in Runs, IsFull(runs), NEW quot \in Quots
  PROVE  EvictQuot(runs, quot) \in Nonempty(runs)
<1>1. MAX_CAPACITY # 0 /\ QUOTS \in Nat
  BY PdSizesAreNatural
<1>2. Elements(runs) # {}
  BY <1>1, FS_EmptySet DEF IsFull, Size
<1>3. Nonempty(runs) # {}
  <2>1. PICK q \in Quots : \E i : i \in 1 .. Len(runs[q])
    BY <1>2, ElementsAre
  <2>2. runs[q] # << >>
    BY <2>1, EmptySeq
  <2> QED BY <2>2 DEF Nonempty
<1>4. Nonempty(runs) \in SUBSET Nat
  BY <1>1 DEF Nonempty, Quots
<1> DEFINE After == {q \in Nonempty(runs) : q >= quot}
<1>5. CASE \E q \in Nonempty(runs) : q >= quot
  <2>1. Min(After) \in After
    BY <1>4, <1>5, LeastNat
  <2> QED BY <1>5, <2>1 DEF EvictQuot
<1>6. CASE ~\E q \in Nonempty(runs) : q >= quot
  BY <1>3, <1>4, <1>6, LeastNat DEF EvictQuot
<1> QED BY <1>5, <1>6

(***************************************************************************)
(* The two operations on a dictionary.                                     *)
(***************************************************************************)
Fits(runs) == RunsOK(runs) /\ Size(runs) <= MAX_CAPACITY

LEMMA SizeIsNatural ==
  ASSUME NEW runs, RunsOK(runs)
  PROVE  Size(runs) \in Nat
BY FS_CardinalityType DEF RunsOK, Size

LEMMA AddEffect ==
  ASSUME NEW runs, Fits(runs), NEW quot \in Quots, NEW rem \in Rems
  PROVE  LET new == AddTo(runs, quot, rem)
         IN  /\ Fits(new)
             /\ Stores(new, quot, rem)
             /\ \A q \in Quots : \A r :
                  Occurrences(new, q, r)
                    <= Occurrences(runs, q, r) + One(q = quot /\ r = rem)
             /\ IF IsFull(runs)
                  THEN \E e \in Elements(runs) : \E f :
                         /\ f \notin Elements(runs) \ {e}
                         /\ Elements(new) = (Elements(runs) \ {e}) \cup {f}
                  ELSE \E f : /\ f \notin Elements(runs)
                              /\ Elements(new) = Elements(runs) \cup {f}
<1> DEFINE new == AddTo(runs, quot, rem)
<1>1. /\ RunsOK(runs) /\ runs \in Runs /\ IsFiniteSet(Elements(runs))
      /\ Size(runs) \in Nat /\ Size(runs) <= MAX_CAPACITY /\ MAX_CAPACITY \in Nat
  BY SizeIsNatural, PdSizesAreNatural DEF Fits, RunsOK
<1>2. CASE ~IsFull(runs)
  <2>1. new = AppendTo(runs, quot, rem)
    BY <1>2 DEF AddTo
  <2>2. /\ RunsOK(new) /\ Changes(runs, new, quot, rem, 1) /\ Stores(new, quot, rem)
        /\ \E f : f \notin Elements(runs) /\ Elements(new) = Elements(runs) \cup {f}
    BY <1>1, <2>1, AppendEffect
  <2> HIDE DEF new
  <2>3. Size(new) = Size(runs) + 1
    BY <1>1, <2>2, FS_AddElement DEF Size
  <2>4. Size(new) <= MAX_CAPACITY
    BY <1>1, <1>2, <2>3 DEF IsFull
  <2>5. ASSUME NEW q \in Quots, NEW r
        PROVE  Occurrences(new, q, r)
                 <= Occurrences(runs, q, r) + One(q = quot /\ r = rem)
    <3>1. Occurrences(runs, q, r) \in Nat
      BY <1>1, OccurrencesType
    <3> QED BY <2>2, <3>1 DEF Changes, One
  <2> QED BY <1>2, <2>2, <2>4, <2>5 DEF new, Fits
<1>3. CASE IsFull(runs)
  <2> DEFINE victim == EvictQuot(runs, quot)
             mid == DropOldest(runs, victim)
  <2>1. victim \in Quots /\ runs[victim] # << >> /\ runs[victim] \in Seq(Rems)
    BY <1>1, <1>3, EvictsFromRun DEF Nonempty, Runs
  <2>2. new = AppendTo(mid, quot, rem) /\ mid = [runs EXCEPT ![victim] = Tail(runs[victim])]
    BY <1>3 DEF AddTo, DropOldest
  <2>3. Dropped(runs[victim], Tail(runs[victim]), 1)
    BY <2>1, TailIsDropped
  <2> HIDE DEF new, mid, victim
  <2>4. /\ RunsOK(mid) /\ Changes(runs, mid, victim, runs[victim][1], -1)
        /\ \E e \in Elements(runs) : Elements(mid) = Elements(runs) \ {e}
    BY ZenonT(30), <1>1, <2>1, <2>2, <2>3, DropEffect
  <2>5. /\ RunsOK(new) /\ Changes(mid, new, quot, rem, 1) /\ Stores(new, quot, rem)
        /\ \E f : f \notin Elements(mid) /\ Elements(new) = Elements(mid) \cup {f}
    BY <2>2, <2>4, AppendEffect
  <2>6. PICK e \in Elements(runs) : Elements(mid) = Elements(runs) \ {e}
    BY <2>4
  <2>7. Size(new) <= MAX_CAPACITY
    <3>1. Cardinality(Elements(mid)) = Size(runs) - 1 /\ IsFiniteSet(Elements(mid))
      BY <1>1, <2>6, FS_RemoveElement DEF Size
    <3>2. Size(new) = Cardinality(Elements(mid)) + 1
      BY <2>5, <3>1, FS_AddElement DEF Size
    <3> QED BY <1>1, <3>1, <3>2
  <2>8. ASSUME NEW q \in Quots, NEW r
        PROVE  Occurrences(new, q, r)
                 <= Occurrences(runs, q, r) + One(q = quot /\ r = rem)
    <3>1. Occurrences(runs, q, r) \in Nat
      BY <1>1, OccurrencesType
    <3>2. Occurrences(mid, q, r) <= Occurrences(runs, q, r) /\ Occurrences(mid, q, r) \in Int
      BY <2>4, <3>1 DEF Changes
    <3>3. Occurrences(new, q, r) = Occurrences(mid, q, r) + One(q = quot /\ r = rem)
      BY <2>5, <3>2 DEF Changes, One
    <3>4. One(q = quot /\ r = rem) \in Nat
      BY DEF One
    <3> QED BY <3>1, <3>2, <3>3, <3>4
  <2>9. \E f : f \notin Elements(runs) \ {e} /\ Elements(new) = (Elements(runs) \ {e}) \cup {f}
    BY <2>5, <2>6
  <2> QED BY <1>3, <2>5, <2>7, <2>8, <2>9 DEF new, Fits
<1> QED BY <1>2, <1>3

(* A full dictionary trades one fingerprint for the new one. *)
LEMMA AddTrades ==
  ASSUME NEW runs, Fits(runs), NEW quot \in Quots, NEW rem \in Rems
  PROVE  LET new == AddTo(runs, quot, rem)
         IN  IF IsFull(runs)
               THEN \E vq \in Quots, vr \in Rems : \A q \in Quots, r \in Rems :
                      Occurrences(new, q, r) =
                        Occurrences(runs, q, r) - One(q = vq /\ r = vr)
                          + One(q = quot /\ r = rem)
               ELSE \A q \in Quots, r \in Rems :
                      Occurrences(new, q, r) = Occurrences(runs, q, r) + One(q = quot /\ r = rem)
<1> DEFINE new == AddTo(runs, quot, rem)
<1>1. RunsOK(runs) /\ runs \in Runs
  BY DEF Fits, RunsOK
<1>2. \A q \in Quots, r \in Rems : Occurrences(runs, q, r) \in Nat
  BY <1>1, OccurrencesType
<1>3. CASE ~IsFull(runs)
  <2>1. new = AppendTo(runs, quot, rem)
    BY <1>3 DEF AddTo
  <2>2. Changes(runs, new, quot, rem, 1)
    BY <1>1, <2>1, AppendEffect
  <2> HIDE DEF new
  <2> QED BY <1>2, <1>3, <2>2 DEF Changes, One, new
<1>4. CASE IsFull(runs)
  <2> DEFINE vq == EvictQuot(runs, quot)
             vr == runs[vq][1]
             mid == DropOldest(runs, vq)
  <2>1. vq \in Quots /\ runs[vq] # << >> /\ runs[vq] \in Seq(Rems)
    BY <1>1, <1>4, EvictsFromRun DEF Nonempty, Runs
  <2>2. new = AppendTo(mid, quot, rem) /\ mid = [runs EXCEPT ![vq] = Tail(runs[vq])]
    BY <1>4 DEF AddTo, DropOldest
  <2>3. Dropped(runs[vq], Tail(runs[vq]), 1)
    BY <2>1, TailIsDropped
  <2>4. vr \in Rems
    <3>1. 1 \in 1 .. Len(runs[vq])
      BY <2>3 DEF Dropped
    <3> QED BY <2>1, <3>1, ElementOfSeq
  <2> HIDE DEF new, mid, vq
  <2>5. RunsOK(mid) /\ Changes(runs, mid, vq, vr, -1)
    BY <1>1, <2>1, <2>2, <2>3, DropEffect
  <2>6. Changes(mid, new, quot, rem, 1)
    BY <2>2, <2>5, AppendEffect
  <2> HIDE DEF vr
  <2>7. ASSUME NEW q \in Quots, NEW r \in Rems
        PROVE  Occurrences(new, q, r) =
                 Occurrences(runs, q, r) - One(q = vq /\ r = vr) + One(q = quot /\ r = rem)
    <3>1. Occurrences(mid, q, r) = Occurrences(runs, q, r) - One(q = vq /\ r = vr)
      BY <1>2, <2>5 DEF Changes, One
    <3>2. Occurrences(mid, q, r) \in Int
      BY <1>2, <3>1 DEF One
    <3>3. Occurrences(new, q, r) = Occurrences(mid, q, r) + One(q = quot /\ r = rem)
      BY <2>6, <3>2 DEF Changes, One
    <3> QED BY <3>1, <3>3
  <2> QED BY <1>4, <2>1, <2>4, <2>7 DEF new
<1> QED BY <1>3, <1>4

LEMMA RemoveEffect ==
  ASSUME NEW runs, Fits(runs), NEW quot \in Quots, NEW rem, Stores(runs, quot, rem)
  PROVE  LET new == RemoveFrom(runs, quot, rem)
         IN  /\ Fits(new)
             /\ Changes(runs, new, quot, rem, -1)
             /\ \E e \in Elements(runs) : Elements(new) = Elements(runs) \ {e}
<1> DEFINE s == runs[quot]
           t == RemoveFirst(s, rem)
           new == [runs EXCEPT ![quot] = t]
<1>1. /\ RunsOK(runs) /\ IsFiniteSet(Elements(runs)) /\ s \in Seq(Rems) /\ rem \in Range(s)
      /\ Size(runs) \in Nat /\ Size(runs) <= MAX_CAPACITY /\ MAX_CAPACITY \in Nat
  BY SizeIsNatural, PdSizesAreNatural DEF Fits, RunsOK, Runs, Stores
<1>2. PICK k : s[k] = rem /\ Dropped(s, t, k)
  BY <1>1, RemoveFirstIsDropped
<1>3. RemoveFrom(runs, quot, rem) = new
  BY DEF RemoveFrom
<1>4. /\ RunsOK(new) /\ Changes(runs, new, quot, rem, -1)
      /\ \E e \in Elements(runs) : Elements(new) = Elements(runs) \ {e}
  <2> HIDE DEF t
  <2> QED BY <1>1, <1>2, DropEffect
<1> HIDE DEF new
<1>5. Size(new) = Size(runs) - 1
  BY <1>1, <1>4, FS_RemoveElement DEF Size
<1>6. Fits(new)
  BY <1>1, <1>4, <1>5 DEF Fits
<1> QED BY <1>3, <1>4, <1>6

(***************************************************************************)
(* The array.                                                              *)
(***************************************************************************)
(* The elements of all dictionaries, each with its dictionary. *)
Held(pds) == UNION {{i} \X Elements(pds[i]) : i \in PdIndices}

LEMMA HeldCount ==
  ASSUME NEW pds, DOMAIN pds = PdIndices, NEW i \in PdIndices, NEW new,
         IsFiniteSet(Held(pds))
  PROVE  LET before == Elements(pds[i])
             after  == Held([pds EXCEPT ![i] = new])
         IN  /\ (\E f : f \notin before /\ Elements(new) = before \cup {f}) =>
                  IsFiniteSet(after) /\ Cardinality(after) = Cardinality(Held(pds)) + 1
             /\ (\E e \in before : Elements(new) = before \ {e}) =>
                  IsFiniteSet(after) /\ Cardinality(after) = Cardinality(Held(pds)) - 1
             /\ (\E e \in before : \E f :
                    f \notin before \ {e} /\ Elements(new) = (before \ {e}) \cup {f}) =>
                  IsFiniteSet(after) /\ Cardinality(after) = Cardinality(Held(pds))
<1> DEFINE before == Elements(pds[i])
           after  == Held([pds EXCEPT ![i] = new])
           all    == Held(pds)
<1>1. IsFiniteSet(all) /\ Cardinality(all) \in Nat
  BY FS_CardinalityType
<1>2. \A e : <<i, e>> \in all <=> e \in before
  BY DEF Held
<1> DEFINE q == [pds EXCEPT ![i] = new]
<1>3. q[i] = new /\ \A j \in PdIndices : j # i => q[j] = pds[j]
  OBVIOUS
<1>4. \A p, x : x \in Held(p) <=> \E j \in PdIndices : \E y \in Elements(p[j]) : x = <<j, y>>
  BY DEF Held
<1>5. after = Held(q)
  OBVIOUS
<1> HIDE DEF before, after, all, q
<1>6. \A x : x \in after <=>
             \/ \E y \in Elements(new) : x = <<i, y>>
             \/ \E j \in PdIndices \ {i} : \E y \in Elements(pds[j]) : x = <<j, y>>
  BY <1>3, <1>4, <1>5
<1>7. \A x : x \in all <=>
             \/ \E y \in before : x = <<i, y>>
             \/ \E j \in PdIndices \ {i} : \E y \in Elements(pds[j]) : x = <<j, y>>
  BY <1>4 DEF before, all
<1>8. ASSUME NEW f, f \notin before, Elements(new) = before \cup {f}
      PROVE  IsFiniteSet(after) /\ Cardinality(after) = Cardinality(all) + 1
  <2>1. after = all \cup {<<i, f>>} /\ <<i, f>> \notin all
    BY <1>6, <1>7, <1>8
  <2> QED BY <1>1, <2>1, FS_AddElement
<1>9. ASSUME NEW e \in before, Elements(new) = before \ {e}
      PROVE  IsFiniteSet(after) /\ Cardinality(after) = Cardinality(all) - 1
  <2>1. after = all \ {<<i, e>>} /\ <<i, e>> \in all
    BY <1>6, <1>7, <1>9
  <2> QED BY <1>1, <2>1, FS_RemoveElement
<1>10. ASSUME NEW e \in before, NEW f, f \notin before \ {e},
             Elements(new) = (before \ {e}) \cup {f}
      PROVE  IsFiniteSet(after) /\ Cardinality(after) = Cardinality(all)
  <2> DEFINE less == all \ {<<i, e>>}
  <2>1. after = less \cup {<<i, f>>} /\ <<i, e>> \in all /\ <<i, f>> \notin less
    BY <1>6, <1>7, <1>10
  <2>2. IsFiniteSet(less) /\ Cardinality(less) = Cardinality(all) - 1
    BY <1>1, <2>1, FS_RemoveElement
  <2> HIDE DEF less
  <2>3. IsFiniteSet(after) /\ Cardinality(after) = Cardinality(less) + 1
    BY <2>1, <2>2, FS_AddElement
  <2> QED BY <1>1, <2>2, <2>3
<1> QED BY <1>8, <1>9, <1>10 DEF before, after, all

(***************************************************************************)
(* The invariant.                                                          *)
(***************************************************************************)
PdsFit ==
  /\ DOMAIN pd_array = PdIndices
  /\ \A i \in PdIndices : Fits(pd_array[i])

CapacityIsHeld ==
  IsFiniteSet(Held(pd_array)) /\ capacity = Cardinality(Held(pd_array))

CountersType ==
  /\ \A n \in {insertions_total_counter, insertions_eviction_counter,
               total_remove_counter, true_remove_counter} : n \in Nat
  /\ live \in [Items -> Nat]

IInv == PdsFit /\ CapacityIsHeld /\ CountersType /\ NoGhosts

LEMMA ItemParts ==
  ASSUME NEW item \in Items
  PROVE  /\ item[1] \in PdIndices /\ item[2] \in Quots /\ item[3] \in Rems
         /\ \A it \in Items :
              it[1] = item[1] /\ it[2] = item[2] /\ it[3] = item[3] => it = item
BY DEF Items

LEMMA StoredType ==
  ASSUME PdsFit, NEW item \in Items
  PROVE  Stored(item) \in Nat /\ (lookup(item) <=> Stored(item) > 0)
<1>1. pd_array[item[1]] \in Runs
  BY ItemParts DEF PdsFit, Fits, RunsOK
<1> QED BY <1>1, ItemParts, OccurrencesType DEF Stored, lookup

LEMMA InitInv == Init => IInv
<1> SUFFICES ASSUME Init PROVE IInv
  OBVIOUS
<1>1. NoRuns \in Runs /\ \A q \in Quots : NoRuns[q] = << >> /\ DOMAIN NoRuns[q] = {}
  BY EmptySeq DEF NoRuns, Runs
<1>2. Elements(NoRuns) = {}
  BY <1>1 DEF Elements
<1>3. Fits(NoRuns)
  BY <1>1, <1>2, FS_EmptySet, PdSizesAreNatural DEF Fits, RunsOK, Size
<1>4. PdsFit
  BY <1>3 DEF Init, PdsFit
<1>5. CapacityIsHeld
  <2>1. Held(pd_array) = {}
    BY <1>2 DEF Init, Held
  <2> QED BY <2>1, FS_EmptySet DEF Init, CapacityIsHeld
<1>6. CountersType
  BY DEF Init, CountersType
<1>7. ASSUME NEW item \in Items PROVE Stored(item) <= live[item]
  <2>1. Places(NoRuns[item[2]], item[3]) = {}
    BY <1>1, ItemParts DEF Places
  <2>2. Stored(item) = Cardinality(Places(NoRuns[item[2]], item[3]))
    BY ItemParts DEF Init, Stored, Occurrences, Places
  <2> QED BY <2>1, <2>2, FS_EmptySet DEF Init
<1> QED BY <1>4, <1>5, <1>6, <1>7 DEF IInv, NoGhosts

(* An insertion keeps the invariant, and what it inserted is found. *)
LEMMA InsertStep ==
  ASSUME IInv, NEW item \in Items, insert(item)
  PROVE  IInv' /\ lookup(item)' /\ \A it \in Items : live'[it] > live[it] => it = item
<1> DEFINE i == item[1]
           runs == pd_array[i]
           new == AddTo(runs, item[2], item[3])
<1>1. /\ i \in PdIndices /\ item[2] \in Quots /\ item[3] \in Rems
      /\ DOMAIN pd_array = PdIndices /\ \A j \in PdIndices : Fits(pd_array[j])
      /\ live \in [Items -> Nat]
  BY ItemParts DEF IInv, PdsFit, CountersType
<1>2. /\ pd_array' = [pd_array EXCEPT ![i] = new]
      /\ live' = [live EXCEPT ![item] = @ + 1]
      /\ insert_count(IsFull(runs))
  BY DEF insert
<1>3. /\ Fits(new) /\ Stores(new, item[2], item[3])
      /\ \A q \in Quots : \A r :
           Occurrences(new, q, r) <= Occurrences(runs, q, r) + One(q = item[2] /\ r = item[3])
      /\ IF IsFull(runs)
           THEN \E e \in Elements(runs) : \E f :
                  /\ f \notin Elements(runs) \ {e}
                  /\ Elements(new) = (Elements(runs) \ {e}) \cup {f}
           ELSE \E f : f \notin Elements(runs) /\ Elements(new) = Elements(runs) \cup {f}
  BY <1>1, AddEffect
<1> HIDE DEF new
<1>4. pd_array'[i] = new /\ \A j \in PdIndices : j # i => pd_array'[j] = pd_array[j]
  BY <1>1, <1>2
<1>5. PdsFit'
  BY <1>1, <1>2, <1>3, <1>4 DEF PdsFit, PdIndices
<1>6. CapacityIsHeld'
  <2> DEFINE after == Held([pd_array EXCEPT ![i] = new])
  <2>1. /\ IsFiniteSet(Held(pd_array)) /\ capacity = Cardinality(Held(pd_array))
        /\ DOMAIN pd_array = PdIndices
    BY <1>1 DEF IInv, CapacityIsHeld
  <2>2. CASE IsFull(runs)
    <3>1. IsFiniteSet(after) /\ Cardinality(after) = Cardinality(Held(pd_array))
      BY <1>1, <1>3, <2>1, <2>2, HeldCount
    <3>2. capacity' = capacity
      BY <1>2, <2>2 DEF insert_count
    <3> QED BY <1>2, <2>1, <3>1, <3>2 DEF CapacityIsHeld
  <2>3. CASE ~IsFull(runs)
    <3>1. IsFiniteSet(after) /\ Cardinality(after) = Cardinality(Held(pd_array)) + 1
      BY <1>1, <1>3, <2>1, <2>3, HeldCount
    <3>2. capacity' = capacity + 1
      BY <1>2, <2>3 DEF insert_count
    <3> QED BY <1>2, <2>1, <3>1, <3>2 DEF CapacityIsHeld
  <2> QED BY <2>2, <2>3
<1>7. CountersType'
  BY <1>1 DEF IInv, CountersType, insert, insert_count, Items, PdIndices
<1>8. ASSUME NEW it \in Items PROVE Stored(it)' <= live'[it]
  <2>1. Stored(it) \in Nat /\ Stored(it) <= live[it] /\ live[it] \in Nat
    BY <1>1, StoredType DEF IInv, NoGhosts
  <2>2. Stored(it)' \in Nat
    <3>1. it[1] \in PdIndices /\ it[2] \in Quots /\ pd_array'[it[1]] \in Runs
      BY <1>5, ItemParts DEF PdsFit, Fits, RunsOK, PdIndices
    <3> QED BY <3>1, OccurrencesType DEF Stored
  <2>3. CASE it[1] # i
    <3>1. Stored(it)' = Stored(it) /\ live'[it] = live[it]
      BY <1>1, <1>2, <1>4, <2>3, ItemParts DEF Stored
    <3> QED BY <2>1, <3>1
  <2>4. CASE it[1] = i
    <3>1. Stored(it)' <= Stored(it) + One(it[2] = item[2] /\ it[3] = item[3])
      BY <1>3, <1>4, <2>4, ItemParts DEF Stored
    <3>2. One(it[2] = item[2] /\ it[3] = item[3]) = One(it = item)
      BY <2>4, ItemParts DEF One
    <3>3. live'[it] = live[it] + One(it = item)
      BY <1>1, <1>2 DEF One
    <3>4. One(it = item) \in Nat
      BY DEF One
    <3> QED BY <2>1, <2>2, <3>1, <3>2, <3>3, <3>4
  <2> QED BY <2>3, <2>4
<1>9. NoGhosts'
  BY <1>8 DEF NoGhosts, Items, PdIndices
<1>10. lookup(item)'
  BY <1>3, <1>4 DEF lookup
<1>11. ASSUME NEW it \in Items, live'[it] > live[it] PROVE it = item
  BY <1>1, <1>2, <1>11
<1> QED BY <1>5, <1>6, <1>7, <1>9, <1>10, <1>11 DEF IInv

(* A removal keeps it, whether it finds the item or not. *)
LEMMA RemoveStep ==
  ASSUME IInv, NEW item \in Items, remove(item)
  PROVE  IInv' /\ \A it \in Items : ~(live'[it] > live[it])
<1> DEFINE i == item[1]
           runs == pd_array[i]
           new == RemoveFrom(runs, item[2], item[3])
<1>1. /\ i \in PdIndices /\ item[2] \in Quots /\ item[3] \in Rems
      /\ DOMAIN pd_array = PdIndices /\ \A j \in PdIndices : Fits(pd_array[j])
      /\ live \in [Items -> Nat]
  BY ItemParts DEF IInv, PdsFit, CountersType
<1>2. live' = [live EXCEPT ![item] = @ - 1] /\ live[item] > 0
  BY DEF remove
<1>3. CountersType'
  BY <1>1, <1>2
     DEF IInv, CountersType, remove, removeFound, removeMissing, Items, PdIndices
<1>4. \A it \in Items : ~(live'[it] > live[it])
  BY <1>1, <1>2
<1>5. \A it \in Items : live'[it] = live[it] - One(it = item)
  BY <1>1, <1>2 DEF One
<1>6. \A it \in Items : Stored(it) \in Nat /\ Stored(it) <= live[it] /\ live[it] \in Nat
  BY <1>1, StoredType DEF IInv, NoGhosts
<1>7. CASE removeFound(item)
  <2>1. /\ pd_array' = [pd_array EXCEPT ![i] = new] /\ capacity' = capacity - 1
        /\ Stores(runs, item[2], item[3])
    BY <1>7 DEF removeFound, lookup
  <2>2. /\ Fits(new) /\ Changes(runs, new, item[2], item[3], -1)
        /\ \E e \in Elements(runs) : Elements(new) = Elements(runs) \ {e}
    BY <1>1, <2>1, RemoveEffect
  <2> HIDE DEF new
  <2>3. pd_array'[i] = new /\ \A j \in PdIndices : j # i => pd_array'[j] = pd_array[j]
    BY <1>1, <2>1
  <2>4. PdsFit'
    BY <1>1, <2>1, <2>2, <2>3 DEF PdsFit, PdIndices
  <2>5. CapacityIsHeld'
    <3> DEFINE after == Held([pd_array EXCEPT ![i] = new])
    <3>1. /\ IsFiniteSet(Held(pd_array)) /\ capacity = Cardinality(Held(pd_array))
          /\ DOMAIN pd_array = PdIndices
      BY <1>1 DEF IInv, CapacityIsHeld
    <3>2. IsFiniteSet(after) /\ Cardinality(after) = Cardinality(Held(pd_array)) - 1
      BY <1>1, <2>2, <3>1, HeldCount
    <3> QED BY <2>1, <3>1, <3>2 DEF CapacityIsHeld
  <2>6. ASSUME NEW it \in Items PROVE Stored(it)' <= live'[it]
    <3>1. CASE it[1] # i
      <4>1. Stored(it)' = Stored(it) /\ live'[it] = live[it]
        BY <1>1, <1>2, <2>3, <3>1, ItemParts DEF Stored
      <4> QED BY <1>6, <4>1
    <3>2. CASE it[1] = i
      <4>1. Stored(it)' = Stored(it) - One(it[2] = item[2] /\ it[3] = item[3])
        <5>1. Stored(it)' = Occurrences(new, it[2], it[3])
              /\ Stored(it) = Occurrences(runs, it[2], it[3])
          BY <2>3, <3>2 DEF Stored
        <5>2. it[2] \in Quots
          BY ItemParts
        <5> HIDE DEF runs, i
        <5> QED BY <1>6, <2>2, <5>1, <5>2 DEF Changes, One
      <4>2. One(it[2] = item[2] /\ it[3] = item[3]) = One(it = item)
        BY <3>2, ItemParts DEF One
      <4>3. One(it = item) \in Nat
        BY DEF One
      <4> QED BY <1>5, <1>6, <4>1, <4>2, <4>3
    <3> QED BY <3>1, <3>2
  <2> QED BY <1>3, <1>4, <2>4, <2>5, <2>6 DEF IInv, NoGhosts, Items, PdIndices
<1>8. CASE removeMissing(item)
  <2>1. UNCHANGED <<pd_array, capacity>> /\ ~lookup(item)
    BY <1>8 DEF removeMissing
  <2>2. PdsFit' /\ CapacityIsHeld'
    BY <2>1 DEF IInv, PdsFit, CapacityIsHeld, PdIndices, Held
  <2>3. Stored(item) = 0
    BY <1>6, <2>1, StoredType DEF IInv
  <2>4. ASSUME NEW it \in Items PROVE Stored(it)' <= live'[it]
    <3>1. Stored(it)' = Stored(it)
      BY <2>1 DEF Stored
    <3>2. live'[it] = IF it = item THEN live[it] - 1 ELSE live[it]
      BY <1>1, <1>2
    <3> QED BY <1>2, <1>6, <2>3, <3>1, <3>2
  <2> QED BY <1>3, <1>4, <2>2, <2>4 DEF IInv, NoGhosts, Items, PdIndices
<1> QED BY <1>7, <1>8 DEF remove

LEMMA StutterStep ==
  ASSUME IInv, UNCHANGED vars
  PROVE  IInv'
<1>1. /\ UNCHANGED <<pd_array, capacity, live>>
      /\ UNCHANGED <<insertions_total_counter, insertions_eviction_counter,
                     total_remove_counter, true_remove_counter>>
  BY DEF vars, counters
<1> QED BY <1>1 DEF IInv, PdsFit, CapacityIsHeld, CountersType, NoGhosts, Stored

LEMMA NextInv == IInv /\ [Next]_vars => IInv'
<1> SUFFICES ASSUME IInv, [Next]_vars PROVE IInv'
  OBVIOUS
<1>1. ASSUME NEW item \in Items, insert(item) PROVE IInv'
  BY <1>1, InsertStep
<1>2. ASSUME NEW item \in Items, remove(item) PROVE IInv'
  BY <1>2, RemoveStep
<1> QED BY <1>1, <1>2, StutterStep DEF Next

(* The inductive invariant holds of every behaviour of the filter. *)
THEOREM Inductive == Spec => []IInv
BY InitInv, NextInv, PTL DEF Spec

(* Dictionaries are never overfull and capacity never falls below zero,     *)
(* though insertions that evict and removals that miss leave it alone.      *)
THEOREM TypeCorrect == Spec => []TypeOK
<1>1. IInv => TypeOK
  <2> SUFFICES ASSUME IInv PROVE TypeOK
    OBVIOUS
  <2>1. capacity \in Nat
    BY FS_CardinalityType DEF IInv, CapacityIsHeld
  <2> QED BY <2>1 DEF IInv, PdsFit, Fits, RunsOK, Runs, CountersType, TypeOK
<1> QED BY <1>1, Inductive, PTL

(* What is evicted may be anybody's, and the client deletes it later all    *)
(* the same; a dictionary still never holds more of a fingerprint than the  *)
(* client has in.                                                           *)
THEOREM NoLeftovers == Spec => []NoGhosts
<1>1. IInv => NoGhosts
  BY DEF IInv
<1> QED BY <1>1, Inductive, PTL

-----------------------------------------------------------------------------
(***************************************************************************)
(* What is missing.  A step changes at most one fingerprint's number of    *)
(* missing copies, by one.                                                 *)
(***************************************************************************)
(* Numbers of copies, and the copies. *)
Pile(m) == UNION {{x} \X (1 .. m[x]) : x \in Items}

MissingOf == [item \in Items |-> Missing(item)]

MissingType == MissingOf \in [Items -> Nat]

Counted == IsFiniteSet(MissingCopies) /\ MissingAreCounted

LEMMA PileGrows ==
  ASSUME NEW m \in [Items -> Nat], NEW n \in [Items -> Nat], NEW x \in Items,
         IsFiniteSet(Pile(m)),
         \A it \in Items : n[it] = m[it] + One(it = x)
  PROVE  IsFiniteSet(Pile(n)) /\ Cardinality(Pile(n)) = Cardinality(Pile(m)) + 1
<1>1. \A k \in [Items -> Nat] : \A y :
        y \in Pile(k) <=> \E it \in Items : \E j \in 1 .. k[it] : y = <<it, j>>
  BY DEF Pile
<1>2. n[x] = m[x] + 1 /\ m[x] \in Nat /\ \A it \in Items : it # x => n[it] = m[it]
  BY DEF One
<1>3. \A j : j \in 1 .. n[x] <=> j \in 1 .. m[x] \/ j = m[x] + 1
  BY <1>2
<1>4. Pile(n) = Pile(m) \cup {<<x, m[x] + 1>>}
  <2> SUFFICES ASSUME NEW y PROVE y \in Pile(n) <=> y \in Pile(m) \/ y = <<x, m[x] + 1>>
    OBVIOUS
  <2> QED BY <1>1, <1>2, <1>3
<1>5. <<x, m[x] + 1>> \notin Pile(m)
  BY <1>1, <1>2
<1> DEFINE A == Pile(m)
           e == <<x, m[x] + 1>>
<1>6. IsFiniteSet(A) /\ e \notin A
  BY <1>5
<1>7. IsFiniteSet(A \cup {e}) /\ Cardinality(A \cup {e}) = Cardinality(A) + 1
  <2> HIDE DEF A, e
  <2> QED BY <1>6, FS_AddElement
<1> QED BY <1>4, <1>7

LEMMA PileShrinks ==
  ASSUME NEW m \in [Items -> Nat], NEW n \in [Items -> Nat], NEW x \in Items,
         IsFiniteSet(Pile(m)),
         \A it \in Items : n[it] = m[it] - One(it = x)
  PROVE  IsFiniteSet(Pile(n)) /\ Cardinality(Pile(n)) = Cardinality(Pile(m)) - 1
<1>1. \A it \in Items : n[it] <= m[it] /\ m[it] = n[it] + One(it = x)
  BY DEF One
<1>2. Pile(n) \subseteq Pile(m)
  BY <1>1 DEF Pile
<1>3. IsFiniteSet(Pile(n))
  BY <1>2, FS_Subset
<1>4. Cardinality(Pile(m)) = Cardinality(Pile(n)) + 1
  BY <1>1, <1>3, PileGrows
<1> QED BY <1>3, <1>4, FS_CardinalityType

LEMMA MissingIsNatural == IInv => MissingType
<1> SUFFICES ASSUME IInv, NEW item \in Items PROVE Missing(item) \in Nat
  BY DEF MissingType, MissingOf
<1>1. Stored(item) \in Nat /\ live[item] \in Nat /\ Stored(item) <= live[item]
  BY StoredType DEF IInv, CountersType, NoGhosts
<1> QED BY <1>1 DEF Missing

(* What the invariant says of a step, in terms of what is missing. *)
LEMMA MissingInStep ==
  ASSUME IInv, IInv', Counted
  PROVE  /\ MissingOf \in [Items -> Nat] /\ MissingOf' \in [Items -> Nat]
         /\ MissingCopies = Pile(MissingOf) /\ MissingCopies' = Pile(MissingOf')
         /\ IsFiniteSet(Pile(MissingOf))
         /\ \A it \in Items : /\ MissingOf[it] = live[it] - Stored(it)
                              /\ MissingOf'[it] = live'[it] - Stored(it)'
                              /\ live[it] \in Nat /\ Stored(it) \in Nat
         /\ \A n \in {insertions_eviction_counter, total_remove_counter,
                      true_remove_counter} : n \in Nat
<1>1. MissingType /\ MissingType'
  BY MissingIsNatural, PTL
<1>2. MissingCopies = Pile(MissingOf) /\ MissingCopies' = Pile(MissingOf')
  BY DEF MissingCopies, Pile, MissingOf
<1>3. \A it \in Items : /\ MissingOf[it] = live[it] - Stored(it)
                        /\ MissingOf'[it] = live'[it] - Stored(it)'
  BY DEF MissingOf, Missing
<1>4. \A it \in Items : live[it] \in Nat /\ Stored(it) \in Nat
  BY StoredType DEF IInv, CountersType
<1> QED BY <1>1, <1>2, <1>3, <1>4 DEF MissingType, Counted, IInv, CountersType

LEMMA InsertCounts ==
  ASSUME IInv, IInv', Counted, NEW item \in Items, insert(item)
  PROVE  Counted'
<1> DEFINE i == item[1]
           runs == pd_array[i]
           new == AddTo(runs, item[2], item[3])
           evicted == insertions_eviction_counter
           removed == total_remove_counter - true_remove_counter
<1>1. /\ i \in PdIndices /\ item[2] \in Quots /\ item[3] \in Rems
      /\ DOMAIN pd_array = PdIndices /\ Fits(runs)
  BY ItemParts DEF IInv, PdsFit
<1>2. /\ pd_array' = [pd_array EXCEPT ![i] = new]
      /\ live' = [live EXCEPT ![item] = @ + 1]
      /\ UNCHANGED <<total_remove_counter, true_remove_counter>>
      /\ IF IsFull(runs) THEN evicted' = evicted + 1 ELSE evicted' = evicted
  BY DEF insert, insert_count
<1>3. IF IsFull(runs)
        THEN \E vq \in Quots, vr \in Rems : \A q \in Quots, r \in Rems :
               Occurrences(new, q, r) =
                 Occurrences(runs, q, r) - One(q = vq /\ r = vr)
                   + One(q = item[2] /\ r = item[3])
        ELSE \A q \in Quots, r \in Rems :
               Occurrences(new, q, r) = Occurrences(runs, q, r) + One(q = item[2] /\ r = item[3])
  BY ZenonT(30), <1>1, AddTrades
<1> HIDE DEF new, i
<1>4. pd_array'[i] = new /\ \A j \in PdIndices : j # i => pd_array'[j] = pd_array[j]
  BY <1>1, <1>2
<1>5. /\ \A it \in Items : live'[it] = live[it] + One(it = item)
      /\ Cardinality(Pile(MissingOf)) = evicted - removed
      /\ evicted \in Nat /\ removed \in Int
  BY <1>2, MissingInStep DEF IInv, CountersType, Counted, MissingAreCounted, One
<1>6. CASE IsFull(runs)
  <2>1. PICK vq \in Quots, vr \in Rems : \A q \in Quots, r \in Rems :
          Occurrences(new, q, r) =
            Occurrences(runs, q, r) - One(q = vq /\ r = vr) + One(q = item[2] /\ r = item[3])
    BY <1>3, <1>6
  <2> DEFINE victim == <<i, vq, vr>>
  <2>2. victim \in Items
    BY <1>1 DEF Items
  <2>3. ASSUME NEW it \in Items PROVE MissingOf'[it] = MissingOf[it] + One(it = victim)
    <3>1. it[2] \in Quots /\ it[3] \in Rems /\ it[1] \in PdIndices /\ it = <<it[1], it[2], it[3]>>
      BY DEF Items
    <3>2. Stored(it)' = Stored(it) - One(it = victim) + One(it = item)
      <4>1. CASE it[1] = i
        <5>1. Stored(it)' = Occurrences(new, it[2], it[3])
              /\ Stored(it) = Occurrences(runs, it[2], it[3])
          BY <1>4, <4>1 DEF Stored
        <5>2. /\ One(it = victim) = One(it[2] = vq /\ it[3] = vr)
              /\ One(it = item) = One(it[2] = item[2] /\ it[3] = item[3])
          BY <3>1, <4>1, ItemParts DEF One, i
        <5> HIDE DEF victim
        <5> QED BY <2>1, <3>1, <5>1, <5>2
      <4>2. CASE it[1] # i
        <5>1. One(it = victim) = 0 /\ One(it = item) = 0
          BY <4>2 DEF One, i
        <5>2. Stored(it)' = Stored(it)
          BY <1>4, <3>1, <4>2 DEF Stored
        <5> HIDE DEF victim
        <5> QED BY <5>1, <5>2, MissingInStep
      <4> QED BY <4>1, <4>2
    <3> HIDE DEF victim
    <3>3. One(it = victim) \in Nat /\ One(it = item) \in Nat
      BY DEF One
    <3> QED BY <1>5, <3>2, <3>3, MissingInStep
  <2> HIDE DEF victim
  <2>4. IsFiniteSet(Pile(MissingOf'))
        /\ Cardinality(Pile(MissingOf')) = Cardinality(Pile(MissingOf)) + 1
    BY <2>2, <2>3, MissingInStep, PileGrows
  <2> QED BY <1>2, <1>5, <1>6, <2>4, MissingInStep DEF Counted, MissingAreCounted
<1>7. CASE ~IsFull(runs)
  <2>1. ASSUME NEW it \in Items PROVE MissingOf'[it] = MissingOf[it]
    <3>1. it[2] \in Quots /\ it[3] \in Rems /\ it[1] \in PdIndices
      BY ItemParts
    <3>2. Stored(it)' = Stored(it) + One(it = item)
      <4>1. CASE it[1] = i
        <5>1. Stored(it)' = Occurrences(new, it[2], it[3])
              /\ Stored(it) = Occurrences(runs, it[2], it[3])
          BY <1>4, <4>1 DEF Stored
        <5>2. One(it = item) = One(it[2] = item[2] /\ it[3] = item[3])
          BY <4>1, ItemParts DEF One, i
        <5> QED BY <1>3, <1>7, <3>1, <5>1, <5>2
      <4>2. CASE it[1] # i
        <5>1. One(it = item) = 0
          BY <4>2 DEF One, i
        <5>2. Stored(it)' = Stored(it)
          BY <1>4, <3>1, <4>2 DEF Stored
        <5> QED BY <5>1, <5>2, MissingInStep
      <4> QED BY <4>1, <4>2
    <3>3. One(it = item) \in Nat
      BY DEF One
    <3> QED BY <1>5, <3>2, <3>3, MissingInStep
  <2>2. MissingOf' = MissingOf
    BY <2>1 DEF MissingOf
  <2> QED BY <1>2, <1>5, <1>7, <2>2, MissingInStep DEF Counted, MissingAreCounted
<1> QED BY <1>6, <1>7

LEMMA RemoveCounts ==
  ASSUME IInv, IInv', Counted, NEW item \in Items, remove(item)
  PROVE  Counted'
<1> DEFINE i == item[1]
           runs == pd_array[i]
           new == RemoveFrom(runs, item[2], item[3])
           evicted == insertions_eviction_counter
<1>1. /\ i \in PdIndices /\ item[2] \in Quots /\ item[3] \in Rems
      /\ DOMAIN pd_array = PdIndices /\ Fits(runs)
  BY ItemParts DEF IInv, PdsFit
<1>2. /\ live' = [live EXCEPT ![item] = @ - 1]
      /\ evicted' = evicted /\ total_remove_counter' = total_remove_counter + 1
  BY DEF remove
<1>3. /\ \A it \in Items : live'[it] = live[it] - One(it = item)
      /\ Cardinality(Pile(MissingOf)) = evicted - (total_remove_counter - true_remove_counter)
      /\ evicted \in Nat /\ total_remove_counter \in Nat /\ true_remove_counter \in Nat
  BY <1>2, MissingInStep DEF IInv, CountersType, Counted, MissingAreCounted, One
<1>4. CASE removeFound(item)
  <2>1. /\ pd_array' = [pd_array EXCEPT ![i] = new]
        /\ true_remove_counter' = true_remove_counter + 1
        /\ Stores(runs, item[2], item[3])
    BY <1>4 DEF removeFound, lookup
  <2>2. Changes(runs, new, item[2], item[3], -1)
    BY <1>1, <2>1, RemoveEffect
  <2> HIDE DEF new, i
  <2>3. pd_array'[i] = new /\ \A j \in PdIndices : j # i => pd_array'[j] = pd_array[j]
    BY <1>1, <2>1
  <2>4. ASSUME NEW it \in Items PROVE MissingOf'[it] = MissingOf[it]
    <3>1. it[2] \in Quots /\ it[3] \in Rems /\ it[1] \in PdIndices
      BY ItemParts
    <3>2. Stored(it)' = Stored(it) - One(it = item)
      <4>1. CASE it[1] = i
        <5>1. Stored(it)' = Occurrences(new, it[2], it[3])
              /\ Stored(it) = Occurrences(runs, it[2], it[3]) /\ Stored(it) \in Nat
          BY <2>3, <4>1, MissingInStep DEF Stored
        <5>2. One(it = item) = One(it[2] = item[2] /\ it[3] = item[3])
          BY <4>1, ItemParts DEF One, i
        <5> HIDE DEF runs
        <5> QED BY <2>2, <3>1, <5>1, <5>2 DEF Changes, One
      <4>2. CASE it[1] # i
        <5>1. One(it = item) = 0
          BY <4>2 DEF One, i
        <5>2. Stored(it)' = Stored(it)
          BY <2>3, <3>1, <4>2 DEF Stored
        <5> QED BY <5>1, <5>2, MissingInStep
      <4> QED BY <4>1, <4>2
    <3>3. One(it = item) \in Nat
      BY DEF One
    <3> QED BY <1>3, <3>2, <3>3, MissingInStep
  <2>5. MissingOf' = MissingOf
    BY <2>4 DEF MissingOf
  <2> QED BY <1>2, <1>3, <2>1, <2>5, MissingInStep DEF Counted, MissingAreCounted
<1>5. CASE removeMissing(item)
  <2>1. UNCHANGED <<pd_array, true_remove_counter>>
    BY <1>5 DEF removeMissing
  <2>2. ASSUME NEW it \in Items PROVE MissingOf'[it] = MissingOf[it] - One(it = item)
    <3>1. Stored(it)' = Stored(it)
      BY <2>1 DEF Stored
    <3>2. One(it = item) \in Nat
      BY DEF One
    <3> QED BY <1>3, <3>1, <3>2, MissingInStep
  <2>3. IsFiniteSet(Pile(MissingOf'))
        /\ Cardinality(Pile(MissingOf')) = Cardinality(Pile(MissingOf)) - 1
    BY <2>2, MissingInStep, PileShrinks
  <2> QED BY <1>2, <1>3, <2>1, <2>3, MissingInStep DEF Counted, MissingAreCounted
<1> QED BY <1>4, <1>5 DEF remove

(* The copies the client believes are in and the filter has lost are as    *)
(* many as its counters say: one for each eviction, less one for each      *)
(* removal that found nothing.                                             *)
THEOREM EvictionsAreMissing == Spec => []MissingAreCounted
<1>1. Init => Counted
  <2> SUFFICES ASSUME Init PROVE Counted
    OBVIOUS
  <2>1. ASSUME NEW item \in Items PROVE 1 .. Missing(item) = {}
    <3>1. MissingOf[item] \in Nat /\ Stored(item) \in Nat /\ live[item] = 0
      BY InitInv, MissingIsNatural, StoredType DEF IInv, MissingType, Init
    <3> QED BY <3>1 DEF MissingOf, Missing
  <2>2. MissingCopies = {}
    BY <2>1 DEF MissingCopies
  <2> QED BY <2>2, FS_EmptySet DEF Init, Counted, MissingAreCounted
<1>2. IInv /\ IInv' /\ Counted /\ [Next]_vars => Counted'
  <2> SUFFICES ASSUME IInv, IInv', Counted, [Next]_vars PROVE Counted'
    OBVIOUS
  <2>1. ASSUME NEW item \in Items, insert(item) PROVE Counted'
    BY <2>1, InsertCounts
  <2>2. ASSUME NEW item \in Items, remove(item) PROVE Counted'
    BY <2>2, RemoveCounts
  <2>3. CASE UNCHANGED vars
    BY <2>3 DEF vars, counters, Counted, MissingAreCounted, MissingCopies, Missing, Stored
  <2> QED BY <2>1, <2>2, <2>3 DEF Next
<1>3. Counted => MissingAreCounted
  BY DEF Counted
<1> QED BY <1>1, <1>2, <1>3, Inductive, PTL DEF Spec

(* A lookup right after an insertion finds it, though a full dictionary     *)
(* evicted an element in the same call.                                     *)
THEOREM InsertedAreFound == Spec => InsertedIsFound
<1>1. IInv /\ [Next]_vars =>
        [\A item \in Items : live'[item] > live[item] => lookup(item)']_vars
  <2> SUFFICES ASSUME IInv, Next, NEW item \in Items, live'[item] > live[item]
               PROVE  lookup(item)'
    OBVIOUS
  <2>1. PICK it \in Items : insert(it) \/ remove(it)
    BY DEF Next
  <2>2. CASE insert(it)
    <3>1. lookup(it)' /\ item = it
      BY <2>2, InsertStep
    <3> QED BY <3>1 DEF lookup
  <2>3. CASE remove(it)
    BY <2>3, RemoveStep
  <2> QED BY <2>1, <2>2, <2>3
<1> QED BY <1>1, Inductive, PTL DEF Spec, InsertedIsFound
=============================================================================
