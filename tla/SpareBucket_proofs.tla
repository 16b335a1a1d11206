-------------------------- MODULE SpareBucket_proofs --------------------------
(***************************************************************************)
(* The bits of a bucket of the spare are the multiset of slots that        *)
(* PackedSpare takes a bucket to be.  First the instructions on words:     *)
(* what they return for a word whose 1s are known.  Then the header as the *)
(* places' ends, the elements as its runs, and the four arrays as shifted  *)
(* alike by each operation.                                                *)
(***************************************************************************)
EXTENDS SpareBucket, FiniteSetTheorems, WellFoundedInduction, TLAPS

-----------------------------------------------------------------------------
(* Every nonempty set of naturals has a least member. *)
LEMMA LeastNat ==
  ASSUME NEW T \in SUBSET Nat, T # {}
  PROVE  \E n \in T : \A m \in T : n <= m
<1> DEFINE R == {ss \in Nat \X Nat : ss[1] < ss[2]}
<1>1. R = OpToRel(<, Nat)
  BY DEF OpToRel
<1>2. IsWellFoundedOn(R, Nat)
  BY <1>1, NatLessThanWellFounded
<1>3. PICK n \in T : \A m \in T : <<m, n>> \notin R
  <2> HIDE DEF R
  <2> QED BY <1>2, WFMin
<1>4. ASSUME NEW m \in T, m < n PROVE FALSE
  <2>1. m \in Nat /\ n \in Nat
    OBVIOUS
  <2>2. <<m, n>> \in R
    BY <1>4, <2>1
  <2> QED BY <1>3, <2>2
<1> QED BY <1>4

(* What Min and Max pick when it is known. *)
LEMMA MinIs ==
  ASSUME NEW S \in SUBSET Int, NEW x \in S, \A y \in S : x <= y
  PROVE  Min(S) = x
<1>1. \E m \in S : \A y \in S : m =< y
  OBVIOUS
<1>2. Min(S) \in S /\ \A y \in S : Min(S) =< y
  BY <1>1 DEF Min
<1>3. Min(S) \in Int /\ x \in Int /\ Min(S) <= x /\ x <= Min(S)
  BY <1>2
<1> QED BY <1>3

LEMMA MaxIs ==
  ASSUME NEW S \in SUBSET Int, NEW x \in S, \A y \in S : y <= x
  PROVE  Max(S) = x
<1>1. \E m \in S : \A y \in S : m >= y
  OBVIOUS
<1>2. Max(S) \in S /\ \A y \in S : Max(S) >= y
  BY <1>1 DEF Max
<1>3. Max(S) \in Int /\ x \in Int /\ Max(S) >= x /\ x >= Max(S)
  BY <1>2
<1> QED BY <1>3

(* Min is in its set, and below the rest of it. *)
LEMMA MinOfNats ==
  ASSUME NEW S \in SUBSET Nat, S # {}
  PROVE  Min(S) \in S /\ \A y \in S : Min(S) <= y
<1>1. \E m \in S : \A y \in S : m =< y
  BY LeastNat
<1> QED BY <1>1 DEF Min

(* The one way in which cardinalities are compared here. *)
LEMMA SameCardinality ==
  ASSUME NEW S, NEW T, IsFiniteSet(S), NEW f \in [S -> T],
         \A x, y \in S : f[x] = f[y] => x = y,
         \A t \in T : \E x \in S : f[x] = t
  PROVE  IsFiniteSet(T) /\ Cardinality(T) = Cardinality(S)
<1>1. f \in Bijection(S, T)
  BY DEF Bijection, Injection, Surjection, IsInjective
<1>2. ExistsBijection(S, T)
  BY <1>1 DEF ExistsBijection
<1> QED BY <1>2, FS_Bijection

-----------------------------------------------------------------------------
(***************************************************************************)
(* A word of n bits whose 1s are, in order, at f[0], ..., f[m - 1].        *)
(***************************************************************************)
Marks(w, n, f, m) ==
  /\ n \in Nat /\ m \in Nat
  /\ f \in [0 .. m - 1 -> 0 .. n - 1]
  /\ \A q, r \in 0 .. m - 1 : q < r => f[q] < f[r]
  /\ DOMAIN w = 0 .. n - 1
  /\ \A i \in 0 .. n - 1 : w[i] = 1 <=> \E q \in 0 .. m - 1 : i = f[q]

LEMMA SetBitsOf ==
  ASSUME NEW w, NEW n, NEW f, NEW m, Marks(w, n, f, m)
  PROVE  SetBits(w) = {f[r] : r \in 0 .. m - 1}
BY DEF Marks, SetBits

LEMMA PrefixCount ==
  ASSUME NEW w, NEW n, NEW f, NEW m, Marks(w, n, f, m), NEW q \in 0 .. m
  PROVE  Cardinality({f[r] : r \in 0 .. q - 1}) = q
<1> DEFINE S == 0 .. q - 1
           T == {f[r] : r \in S}
           g == [r \in S |-> f[r]]
<1>1. q \in Nat /\ m \in Nat /\ S \subseteq 0 .. m - 1 /\ S \subseteq Int
  BY DEF Marks
<1>2. IsFiniteSet(S) /\ Cardinality(S) = q
  <2>1. 0 \in Int /\ q - 1 \in Int
    BY <1>1
  <2> QED BY <1>1, <2>1, FS_Interval
<1>3. \A x, y \in S : g[x] = g[y] => x = y
  <2>1. \A x, y \in S : x < y => f[x] < f[y]
    BY <1>1 DEF Marks
  <2>2. \A x \in S : f[x] \in Int
    BY <1>1 DEF Marks
  <2> QED BY <1>1, <2>1, <2>2
<1>4. g \in [S -> T] /\ \A t \in T : \E x \in S : g[x] = t
  OBVIOUS
<1> HIDE DEF S, T, g
<1>5. Cardinality(T) = Cardinality(S)
  BY <1>2, <1>3, <1>4, SameCardinality
<1> QED BY <1>2, <1>5 DEF S, T

(* popcount, and the 1s below a position. *)
LEMMA PopcountIs ==
  ASSUME NEW w, NEW n, NEW f, NEW m, Marks(w, n, f, m)
  PROVE  Popcount(w) = m
<1>1. m \in 0 .. m
  BY DEF Marks
<1> QED BY <1>1, SetBitsOf, PrefixCount DEF Popcount

LEMMA OnesBelowIs ==
  ASSUME NEW w, NEW n, NEW f, NEW m, Marks(w, n, f, m), NEW q \in 0 .. m,
         NEW z \in Int, \A r \in 0 .. m - 1 : f[r] < z <=> r < q
  PROVE  OnesBelow(w, z) = q
<1>1. {k \in SetBits(w) : k < z} = {f[r] : r \in 0 .. q - 1}
  <2>1. 0 .. q - 1 = {r \in 0 .. m - 1 : r < q}
    BY DEF Marks
  <2> QED BY <2>1, SetBitsOf
<1> QED BY <1>1, PrefixCount DEF OnesBelow

(* pdep with tzcnt. *)
LEMMA SelectIs ==
  ASSUME NEW w, NEW n, NEW f, NEW m, Marks(w, n, f, m), NEW q \in 0 .. m - 1
  PROVE  Select(w, q) = f[q]
<1>1. ASSUME NEW r \in 0 .. m - 1 PROVE OnesBelow(w, f[r]) = r
  <2>1. r \in 0 .. m /\ f[r] \in Int
    BY DEF Marks
  <2>2. \A s \in 0 .. m - 1 : f[s] < f[r] <=> s < r
    <3> SUFFICES ASSUME NEW s \in 0 .. m - 1 PROVE f[s] < f[r] <=> s < r
      OBVIOUS
    <3>1. s < r => f[s] < f[r]
      BY DEF Marks
    <3>2. r < s => f[r] < f[s]
      BY DEF Marks
    <3>3. f[r] \in Int /\ f[s] \in Int /\ r \in Int /\ s \in Int
      BY DEF Marks
    <3> QED BY <3>1, <3>2, <3>3
  <2> QED BY <2>1, <2>2, OnesBelowIs
<1>2. f[q] \in SetBits(w) /\ \A i \in SetBits(w) : OnesBelow(w, i) = q => i = f[q]
  BY <1>1, SetBitsOf
<1> QED BY <1>1, <1>2 DEF Select

(* tzcnt and lzcnt. *)
LEMMA FirstAndLastOne ==
  ASSUME NEW w, NEW n, NEW f, NEW m, Marks(w, n, f, m)
  PROVE  /\ SetBits(w) = {} <=> m = 0
         /\ m > 0 => FirstOne(w) = f[0] /\ LastOne(w) = f[m - 1]
<1>1. SetBits(w) = {f[r] : r \in 0 .. m - 1} /\ SetBits(w) \in SUBSET Int
  <2>1. SetBits(w) = {f[r] : r \in 0 .. m - 1}
    BY SetBitsOf
  <2>2. \A r \in 0 .. m - 1 : f[r] \in Int
    BY DEF Marks
  <2> QED BY <2>1, <2>2
<1>2. m \in Nat
  BY DEF Marks
<1>3. SetBits(w) = {} <=> m = 0
  <2>1. m # 0 => 0 \in 0 .. m - 1
    BY <1>2
  <2>2. m = 0 => 0 .. m - 1 = {}
    OBVIOUS
  <2>3. m # 0 => f[0] \in SetBits(w)
    BY <1>1, <2>1
  <2>4. 0 .. m - 1 = {} => SetBits(w) = {}
    BY <1>1
  <2> QED BY <2>2, <2>3, <2>4
<1>4. ASSUME m > 0 PROVE FirstOne(w) = f[0] /\ LastOne(w) = f[m - 1]
  <2>1. 0 \in 0 .. m - 1 /\ m - 1 \in 0 .. m - 1
    BY <1>2, <1>4
  <2>2. \A r \in 0 .. m - 1 : f[0] <= f[r] /\ f[r] <= f[m - 1]
    <3> SUFFICES ASSUME NEW r \in 0 .. m - 1 PROVE f[0] <= f[r] /\ f[r] <= f[m - 1]
      OBVIOUS
    <3>1. f[0] \in Int /\ f[r] \in Int /\ f[m - 1] \in Int
      BY <2>1 DEF Marks
    <3>2. (0 < r => f[0] < f[r]) /\ (r < m - 1 => f[r] < f[m - 1])
      BY <2>1 DEF Marks
    <3>3. (0 < r \/ r = 0) /\ (r < m - 1 \/ r = m - 1)
      BY <1>2
    <3> QED BY <3>1, <3>2, <3>3
  <2>3. \A y \in SetBits(w) : f[0] <= y /\ y <= f[m - 1]
    BY <1>1, <2>2
  <2>4. f[0] \in SetBits(w) /\ f[m - 1] \in SetBits(w)
    BY <1>1, <2>1
  <2> QED BY <1>1, <2>3, <2>4, MinIs, MaxIs DEF FirstOne, LastOne
<1> QED BY <1>3, <1>4

-----------------------------------------------------------------------------
(***************************************************************************)
(* The header.  E[q] is where place q's elements end: how many elements    *)
(* are in the places up to q.  Its 1 stands behind them and behind the 1s  *)
(* of the places before.                                                   *)
(***************************************************************************)
Places == 0 .. BatchSize - 1

Ones(E) == [q \in Places |-> E[q] + q]

Ends(h, E) ==
  /\ E \in [Places -> 0 .. BucketCapacity]
  /\ \A q, r \in Places : q < r => E[q] <= E[r]
  /\ Marks(h, HeaderSize, Ones(E), BatchSize)

Begin(E, place) == IF place = 0 THEN 0 ELSE E[place - 1]

Run(E, place) == Begin(E, place) .. E[place] - 1

LEMMA Sizes ==
  /\ BatchSize \in Nat \ {0} /\ BucketCapacity \in Nat \ {0}
  /\ WORD_BITS \in Nat \ {0} /\ QuotsPerWord \in Nat \ {0}
  /\ MaxSpareQuot \in Nat /\ Rems \in Nat \ {0}
  /\ HeaderSize = BucketCapacity + BatchSize /\ HeaderSize \in Nat
  /\ WORD_BITS < HeaderSize
  /\ 0 \in Places /\ BatchSize - 1 \in Places
  /\ Places \subseteq Nat /\ Indices \subseteq Nat
BY BucketSizes, ItemKeysAssumption DEF HeaderSize, Places, Indices

LEMMA OnesAre ==
  ASSUME NEW h, NEW E, Ends(h, E)
  PROVE  /\ \A q \in Places : /\ E[q] \in 0 .. BucketCapacity
                              /\ Ones(E)[q] = E[q] + q
                              /\ Ones(E)[q] \in 0 .. HeaderSize - 1
         /\ \A q, r \in Places : q < r => E[q] <= E[r] /\ Ones(E)[q] < Ones(E)[r]
         /\ DOMAIN h = 0 .. HeaderSize - 1
         /\ \A i \in 0 .. HeaderSize - 1 : h[i] = 1 <=> \E q \in Places : i = Ones(E)[q]
<1>1. \A q \in Places : E[q] \in 0 .. BucketCapacity /\ Ones(E)[q] = E[q] + q
  BY DEF Ends, Ones
<1>2. \A q \in Places : Ones(E)[q] \in 0 .. HeaderSize - 1
  BY DEF Ends, Marks, Places
<1>3. \A q, r \in Places : q < r => E[q] <= E[r]
  BY DEF Ends
<1>4. \A q, r \in Places : q < r => Ones(E)[q] < Ones(E)[r]
  BY DEF Ends, Marks, Places
<1>5. DOMAIN h = 0 .. HeaderSize - 1
  BY DEF Ends, Marks
<1>6. \A i \in 0 .. HeaderSize - 1 : h[i] = 1 <=> \E q \in Places : i = Ones(E)[q]
  BY DEF Ends, Marks, Places
<1> QED BY <1>1, <1>2, <1>3, <1>4, <1>5, <1>6

(* A header is given by its ends, whatever the marks are called. *)
LEMMA EndsIf ==
  ASSUME NEW h, NEW E,
         E \in [Places -> 0 .. BucketCapacity],
         \A q, r \in Places : q < r => E[q] <= E[r],
         DOMAIN h = 0 .. HeaderSize - 1,
         \A i \in 0 .. HeaderSize - 1 : h[i] = 1 <=> \E q \in Places : i = E[q] + q
  PROVE  Ends(h, E)
<1>1. \A q \in Places : Ones(E)[q] = E[q] + q
  BY DEF Ones
<1>2. \A q \in Places : E[q] \in 0 .. BucketCapacity /\ q \in 0 .. BatchSize - 1
  BY DEF Places
<1>3. \A q \in Places : Ones(E)[q] \in 0 .. HeaderSize - 1
  BY <1>1, <1>2, Sizes
<1>4. Ones(E) \in [0 .. BatchSize - 1 -> 0 .. HeaderSize - 1]
  BY <1>3 DEF Ones, Places
<1>5. \A q, r \in Places : q < r => Ones(E)[q] < Ones(E)[r]
  <2> SUFFICES ASSUME NEW q \in Places, NEW r \in Places, q < r PROVE Ones(E)[q] < Ones(E)[r]
    OBVIOUS
  <2>1. E[q] <= E[r] /\ E[q] \in Int /\ E[r] \in Int /\ q \in Int /\ r \in Int
    BY <1>2
  <2> QED BY <1>1, <2>1
<1>6. \A i \in 0 .. HeaderSize - 1 : h[i] = 1 <=> \E q \in 0 .. BatchSize - 1 : i = Ones(E)[q]
  BY <1>1 DEF Places
<1>7. Marks(h, HeaderSize, Ones(E), BatchSize)
  BY <1>4, <1>5, <1>6, Sizes DEF Marks, Places
<1> QED BY <1>7 DEF Ends

(* The 1s of the two words: the first m places end in the first. *)
LoMarks(E, m) == [q \in 0 .. m - 1 |-> Ones(E)[q]]
HiMarks(E, m) == [q \in 0 .. (BatchSize - m) - 1 |-> Ones(E)[m + q] - WORD_BITS]

LEMMA HeaderSplits ==
  ASSUME NEW h, NEW E, Ends(h, E)
  PROVE  \E m \in 0 .. BatchSize :
            /\ Marks(Lo(h), WORD_BITS, LoMarks(E, m), m)
            /\ Marks(Hi(h), HeaderSize - WORD_BITS, HiMarks(E, m), BatchSize - m)
            /\ Popcount(Lo(h)) = m
<1> DEFINE f == Ones(E)
           T == {q \in 0 .. BatchSize : q = BatchSize \/ f[q] >= WORD_BITS}
<1>1. /\ \A q \in Places : f[q] \in 0 .. HeaderSize - 1
      /\ \A q, r \in Places : q < r => f[q] < f[r]
      /\ DOMAIN h = 0 .. HeaderSize - 1
      /\ \A i \in 0 .. HeaderSize - 1 : h[i] = 1 <=> \E q \in Places : i = f[q]
  <2> HIDE DEF f
  <2> QED BY OnesAre DEF f
<1>2. T \in SUBSET Nat /\ T # {}
  <2>1. BatchSize \in T
    BY Sizes
  <2> QED BY <2>1, Sizes
<1>3. PICK m \in T : \A r \in T : m <= r
  <2> HIDE DEF T
  <2> QED BY <1>2, LeastNat
<1>4. m \in 0 .. BatchSize /\ m \in Nat /\ BatchSize - m \in Nat
  BY Sizes
<1> HIDE DEF f
<1>5. \A q \in Places : q < m => f[q] < WORD_BITS
  <2> SUFFICES ASSUME NEW q \in Places, q < m, ~(f[q] < WORD_BITS) PROVE FALSE
    OBVIOUS
  <2>1. q \in 0 .. BatchSize /\ f[q] \in Int /\ q \in Int
    BY <1>1, Sizes DEF Places
  <2>2. f[q] >= WORD_BITS
    BY <2>1, Sizes
  <2>3. q \in T
    BY <2>1, <2>2
  <2>4. m <= q
    BY <1>3, <2>3
  <2> QED BY <1>4, <2>1, <2>4
<1>6. \A q \in Places : m <= q => f[q] >= WORD_BITS
  <2> SUFFICES ASSUME NEW q \in Places, m <= q PROVE f[q] >= WORD_BITS
    OBVIOUS
  <2>1. m < BatchSize /\ m \in Places
    BY <1>4, Sizes DEF Places
  <2>2. f[m] >= WORD_BITS
    BY <2>1, Sizes
  <2>3. m = q \/ f[m] < f[q]
    BY <1>1, <1>4, <2>1, Sizes
  <2>4. f[m] \in Int /\ f[q] \in Int
    BY <1>1, <2>1
  <2> QED BY <2>2, <2>3, <2>4, Sizes
<1> HIDE DEF T
<1>7. Marks(Lo(h), WORD_BITS, LoMarks(E, m), m)
  <2> DEFINE g == LoMarks(E, m)
  <2>1. \A q \in 0 .. m - 1 : q \in Places /\ q < m /\ g[q] = f[q]
    BY <1>4, Sizes DEF Places, LoMarks, f
  <2>2. \A q \in 0 .. m - 1 : g[q] \in 0 .. WORD_BITS - 1
    BY <1>1, <1>5, <2>1, Sizes
  <2>3. g \in [0 .. m - 1 -> 0 .. WORD_BITS - 1]
    BY <2>2 DEF LoMarks
  <2>4. \A q, r \in 0 .. m - 1 : q < r => g[q] < g[r]
    BY <1>1, <2>1
  <2>5. DOMAIN Lo(h) = 0 .. WORD_BITS - 1 /\ \A i \in 0 .. WORD_BITS - 1 : Lo(h)[i] = h[i]
    BY DEF Lo
  <2>6. ASSUME NEW i \in 0 .. WORD_BITS - 1
        PROVE  Lo(h)[i] = 1 <=> \E q \in 0 .. m - 1 : i = g[q]
    <3>1. i \in 0 .. HeaderSize - 1
      BY Sizes
    <3>2. Lo(h)[i] = 1 <=> \E q \in Places : i = f[q]
      BY <1>1, <2>5, <3>1
    <3>3. \A q \in Places : i = f[q] => q \in 0 .. m - 1
      <4> SUFFICES ASSUME NEW q \in Places, i = f[q] PROVE q \in 0 .. m - 1
        OBVIOUS
      <4>1. ~(f[q] >= WORD_BITS)
        BY Sizes
      <4>2. ~(m <= q)
        BY <1>6, <4>1
      <4> QED BY <1>4, <4>2, Sizes DEF Places
    <3> QED BY <2>1, <3>2, <3>3
  <2> HIDE DEF g
  <2> QED BY <1>4, <2>3, <2>4, <2>5, <2>6, Sizes DEF Marks, g
<1>8. Marks(Hi(h), HeaderSize - WORD_BITS, HiMarks(E, m), BatchSize - m)
  <2> DEFINE g == HiMarks(E, m)
             n == HeaderSize - WORD_BITS
             k == BatchSize - m
  <2>1. \A q \in 0 .. k - 1 : m + q \in Places /\ m <= m + q /\ g[q] = f[m + q] - WORD_BITS
    BY <1>4, Sizes DEF Places, HiMarks, f
  <2>2. \A q \in 0 .. k - 1 : g[q] \in 0 .. n - 1
    <3> SUFFICES ASSUME NEW q \in 0 .. k - 1 PROVE g[q] \in 0 .. n - 1
      OBVIOUS
    <3>1. f[m + q] \in 0 .. HeaderSize - 1 /\ f[m + q] >= WORD_BITS
      BY <1>1, <1>6, <2>1
    <3> QED BY <2>1, <3>1, Sizes
  <2>3. g \in [0 .. k - 1 -> 0 .. n - 1]
    BY <2>2 DEF HiMarks
  <2>4. \A q, r \in 0 .. k - 1 : q < r => g[q] < g[r]
    <3> SUFFICES ASSUME NEW q \in 0 .. k - 1, NEW r \in 0 .. k - 1, q < r PROVE g[q] < g[r]
      OBVIOUS
    <3>1. m + q < m + r
      BY <1>4
    <3>2. f[m + q] < f[m + r] /\ f[m + q] \in Int /\ f[m + r] \in Int
      BY <1>1, <2>1, <3>1
    <3> QED BY <2>1, <3>2, Sizes
  <2>5. DOMAIN Hi(h) = 0 .. n - 1 /\ \A i \in 0 .. n - 1 : Hi(h)[i] = h[WORD_BITS + i]
    BY DEF Hi
  <2>6. ASSUME NEW i \in 0 .. n - 1
        PROVE  Hi(h)[i] = 1 <=> \E q \in 0 .. k - 1 : i = g[q]
    <3>1. WORD_BITS + i \in 0 .. HeaderSize - 1
      BY Sizes
    <3>2. Hi(h)[i] = 1 <=> \E q \in Places : WORD_BITS + i = f[q]
      BY <1>1, <2>5, <3>1
    <3>3. ASSUME NEW q \in Places, WORD_BITS + i = f[q] PROVE \E r \in 0 .. k - 1 : i = g[r]
      <4>1. f[q] >= WORD_BITS
        BY <3>3, Sizes
      <4>2. ~(q < m)
        BY <1>1, <1>5, <4>1, Sizes
      <4>3. q - m \in 0 .. k - 1 /\ m + (q - m) = q
        BY <1>4, <4>2, Sizes DEF Places
      <4>4. g[q - m] = f[q] - WORD_BITS
        BY <2>1, <4>3
      <4>5. i = g[q - m]
        BY <3>3, <4>4, <1>1, Sizes
      <4> QED BY <4>3, <4>5
    <3>4. ASSUME NEW r \in 0 .. k - 1, i = g[r] PROVE WORD_BITS + i = f[m + r] /\ m + r \in Places
      <4>1. m + r \in Places /\ g[r] = f[m + r] - WORD_BITS
        BY <2>1
      <4> HIDE DEF g
      <4>2. f[m + r] \in 0 .. HeaderSize - 1
        BY <1>1, <4>1
      <4>3. f[m + r] \in Int /\ WORD_BITS \in Int
        BY <4>2, Sizes
      <4> QED BY <3>4, <4>1, <4>3
    <3> QED BY <3>2, <3>3, <3>4
  <2>7. n \in Nat /\ k \in Nat
    BY <1>4, Sizes
  <2> HIDE DEF g, n, k
  <2>8. Marks(Hi(h), n, g, k)
    BY <2>3, <2>4, <2>5, <2>6, <2>7 DEF Marks
  <2> QED BY <2>8 DEF g, n, k
<1> QED BY <1>4, <1>7, <1>8, PopcountIs

LEMMA HiMarkIs ==
  ASSUME NEW h, NEW E, Ends(h, E), NEW m \in 0 .. BatchSize, NEW j \in Places, m <= j
  PROVE  /\ j - m \in 0 .. (BatchSize - m) - 1
         /\ HiMarks(E, m)[j - m] = E[j] + j - WORD_BITS
<1>1. j \in Int /\ m \in Int /\ BatchSize \in Int /\ j < BatchSize
  BY Sizes DEF Places
<1>2. j - m \in 0 .. (BatchSize - m) - 1 /\ m + (j - m) = j
  BY <1>1
<1>3. HiMarks(E, m)[j - m] = Ones(E)[m + (j - m)] - WORD_BITS
  BY <1>2 DEF HiMarks
<1>4. Ones(E)[j] = E[j] + j /\ E[j] \in Int /\ WORD_BITS \in Int
  BY OnesAre, Sizes
<1>5. HiMarks(E, m)[j - m] = E[j] + j - WORD_BITS
  BY <1>1, <1>2, <1>3, <1>4
<1> QED BY <1>2, <1>5

(* select128 finds a place's 1 in whichever word it is. *)
LEMMA SelectsTheEnd ==
  ASSUME NEW h, NEW E, Ends(h, E), NEW j \in Places
  PROVE  select128(h, j) = E[j] + j
<1>1. PICK m \in 0 .. BatchSize :
            /\ Marks(Lo(h), WORD_BITS, LoMarks(E, m), m)
            /\ Marks(Hi(h), HeaderSize - WORD_BITS, HiMarks(E, m), BatchSize - m)
            /\ Popcount(Lo(h)) = m
  BY HeaderSplits
<1>2. Ones(E)[j] = E[j] + j /\ E[j] \in Int /\ j \in Int
  BY OnesAre, Sizes
<1>3. CASE j < m
  <2>1. j \in 0 .. m - 1
    BY <1>3, Sizes DEF Places
  <2>2. Select(Lo(h), j) = LoMarks(E, m)[j]
    BY <1>1, <2>1, SelectIs
  <2> QED BY <1>1, <1>2, <1>3, <2>1, <2>2 DEF select128, LoMarks
<1>4. CASE ~(j < m)
  <2>0. m <= j
    BY <1>4, Sizes
  <2>1. j - m \in 0 .. (BatchSize - m) - 1
    BY <2>0, HiMarkIs
  <2>2. Select(Hi(h), j - m) = HiMarks(E, m)[j - m]
    BY <1>1, <2>1, SelectIs
  <2>3. HiMarks(E, m)[j - m] = E[j] + j - WORD_BITS
    BY <2>0, HiMarkIs
  <2>4. select128(h, j) = WORD_BITS + (E[j] + j - WORD_BITS)
    BY <1>1, <1>4, <2>2, <2>3 DEF select128
  <2> QED BY <1>2, <2>4, Sizes
<1> QED BY <1>3, <1>4

(* Where a place's run begins and ends among the bits of the header. *)
LEMMA BeginAndEnd ==
  ASSUME NEW h, NEW E, Ends(h, E), NEW place \in Places
  PROVE  /\ Begin(E, place) \in 0 .. E[place] /\ E[place] \in 0 .. BucketCapacity
         /\ RunEnd(h, place) = E[place] + place
         /\ RunBegin(h, place) = Begin(E, place) + place
         /\ place # 0 => place - 1 \in Places
<1>1. E[place] \in 0 .. BucketCapacity /\ place \in Nat
  BY OnesAre, Sizes
<1>2. ASSUME place # 0
      PROVE  place - 1 \in Places /\ E[place - 1] \in 0 .. E[place]
             /\ select128(h, place - 1) = E[place - 1] + (place - 1)
  <2>1. place - 1 \in Places /\ place - 1 < place
    BY <1>2, <1>1, Sizes DEF Places
  <2>2. E[place - 1] <= E[place] /\ E[place - 1] \in 0 .. BucketCapacity
    BY <2>1, OnesAre
  <2> QED BY <1>1, <2>1, <2>2, SelectsTheEnd
<1>3. RunBegin(h, place) = Begin(E, place) + place
  BY <1>1, <1>2 DEF RunBegin, Begin
<1>4. Begin(E, place) \in 0 .. E[place]
  BY <1>1, <1>2 DEF Begin
<1> QED BY <1>1, <1>2, <1>3, <1>4, SelectsTheEnd DEF RunEnd

(* The four ways of get_mask_from_header are one. *)
LEMMA MaskIsTheRun ==
  ASSUME NEW h, NEW E, Ends(h, E), NEW place \in Places
  PROVE  get_mask_from_header(h, place) = Begin(E, place) + place .. E[place] + place - 1
<1>1. PICK m \in 0 .. BatchSize :
            /\ Marks(Lo(h), WORD_BITS, LoMarks(E, m), m)
            /\ Marks(Hi(h), HeaderSize - WORD_BITS, HiMarks(E, m), BatchSize - m)
            /\ Popcount(Lo(h)) = m
  BY HeaderSplits
<1>2. \A q \in Places : Ones(E)[q] = E[q] + q /\ E[q] \in Int /\ q \in Int
  BY OnesAre, Sizes
<1>3. \A q \in 0 .. m - 1 : q \in Places /\ LoMarks(E, m)[q] = E[q] + q
  BY <1>2, Sizes DEF LoMarks, Places
<1>4. \A q \in 0 .. (BatchSize - m) - 1 :
        m + q \in Places /\ HiMarks(E, m)[q] = E[m + q] + (m + q) - WORD_BITS
  BY <1>2, Sizes DEF HiMarks, Places
<1>5. m \in Nat /\ place \in Nat /\ place < BatchSize
  BY Sizes DEF Places
<1>6. CASE place = 0
  <2>1. Marks(h, HeaderSize, Ones(E), BatchSize) /\ BatchSize > 0
    BY Sizes DEF Ends
  <2>2. FirstOne(h) = E[0] + 0
    BY <2>1, <1>2, FirstAndLastOne, Sizes
  <2>3. get_mask_from_header(h, place) = 0 .. (E[0] + 0) - 1
    BY <1>1, <1>5, <1>6, <2>2 DEF get_mask_from_header
  <2>4. Begin(E, place) = 0
    BY <1>6 DEF Begin
  <2> QED BY <1>2, <1>6, <2>3, <2>4, Sizes
<1>7. CASE place # 0 /\ place < m
  <2>1. place \in 0 .. m - 1 /\ place - 1 \in 0 .. m - 1
    BY <1>5, <1>7
  <2>2. /\ Select(Lo(h), place - 1) = E[place - 1] + (place - 1)
        /\ Select(Lo(h), place) = E[place] + place
    BY <1>1, <1>3, <2>1, SelectIs
  <2>3. get_mask_from_header(h, place)
          = (E[place - 1] + (place - 1)) + 1 .. (E[place] + place) - 1
    BY <1>1, <1>5, <1>7, <2>2 DEF get_mask_from_header
  <2>4. Begin(E, place) = E[place - 1] /\ E[place - 1] \in Int /\ E[place] \in Int
    BY <1>2, <1>3, <1>7, <2>1 DEF Begin
  <2> QED BY <1>5, <2>3, <2>4
<1>8. CASE place # 0 /\ place = m
  <2>1. place - 1 \in 0 .. m - 1 /\ 0 \in 0 .. (BatchSize - m) - 1 /\ m > 0 /\ BatchSize - m > 0
    BY <1>5, <1>8, Sizes
  <2>2. LastOne(Lo(h)) = E[place - 1] + (place - 1)
    BY <1>1, <1>3, <1>8, <2>1, FirstAndLastOne
  <2>3. FirstOne(Hi(h)) = E[m + 0] + (m + 0) - WORD_BITS
    BY <1>1, <1>4, <2>1, FirstAndLastOne
  <2>4. get_mask_from_header(h, place)
          = (E[place - 1] + (place - 1)) + 1 .. WORD_BITS + (E[m + 0] + (m + 0) - WORD_BITS) - 1
    BY <1>1, <1>5, <1>8, <2>2, <2>3 DEF get_mask_from_header
  <2>5. m + 0 = place /\ Begin(E, place) = E[place - 1] /\ E[place - 1] \in Int /\ E[place] \in Int
    BY <1>2, <1>3, <1>5, <1>8, <2>1 DEF Begin
  <2> QED BY <1>5, <2>4, <2>5, Sizes
<1>9. CASE place > m
  <2>1. /\ place - m \in 0 .. (BatchSize - m) - 1 /\ m + (place - m) = place
        /\ place - m - 1 \in 0 .. (BatchSize - m) - 1 /\ m + (place - m - 1) = place - 1
    BY <1>5, <1>9, Sizes
  <2>2. /\ Select(Hi(h), place - m - 1) = E[place - 1] + (place - 1) - WORD_BITS
        /\ Select(Hi(h), place - m) = E[place] + place - WORD_BITS
    BY <1>1, <1>4, <2>1, SelectIs
  <2>3. ~(place = 0) /\ ~(place < m) /\ ~(place = m)
    BY <1>5, <1>9
  <2>4. get_mask_from_header(h, place)
          = WORD_BITS + (E[place - 1] + (place - 1) - WORD_BITS) + 1
              .. WORD_BITS + (E[place] + place - WORD_BITS) - 1
    BY <1>1, <1>9, <2>2, <2>3 DEF get_mask_from_header
  <2>5. place - 1 \in Places /\ Begin(E, place) = E[place - 1]
    BY <1>5, <2>3, Sizes DEF Begin, Places
  <2>6. E[place - 1] \in Int /\ E[place] \in Int
    BY <1>2, <2>5
  <2> QED BY <1>5, <2>4, <2>5, <2>6, Sizes
<1> QED BY <1>5, <1>6, <1>7, <1>8, <1>9

(* Shifted by the place it is the run, as indices of elements. *)
LEMMA RunMaskIs ==
  ASSUME NEW b, NEW E, Ends(b.header, E), NEW place \in Places
  PROVE  RunMask(b, place) = Run(E, place)
<1>1. get_mask_from_header(b.header, place) = Begin(E, place) + place .. E[place] + place - 1
  BY MaskIsTheRun
<1>2. Begin(E, place) \in Int /\ E[place] \in Int /\ place \in Int
  BY BeginAndEnd, Sizes
<1>3. \A i \in Int : i \in Begin(E, place) + place .. E[place] + place - 1
                       <=> i - place \in Run(E, place)
  BY <1>2 DEF Run
<1>4. \A k \in Run(E, place) : k \in Int /\ k + place \in Int /\ (k + place) - place = k
  BY <1>2 DEF Run
<1>5. \A k \in Run(E, place) : \E i \in Begin(E, place) + place .. E[place] + place - 1 : k = i - place
  BY <1>3, <1>4
<1>6. \A i \in Begin(E, place) + place .. E[place] + place - 1 : i \in Int
  BY <1>2
<1> QED BY <1>1, <1>3, <1>5, <1>6 DEF RunMask

(* How many elements there are. *)
Total(E) == E[BatchSize - 1]

(* get_capacity counts the elements; the last bit tells a full bucket. *)
LEMMA CapacityIsTotal ==
  ASSUME NEW b, NEW E, Ends(b.header, E)
  PROVE  /\ get_capacity(b) = Total(E)
         /\ Total(E) \in 0 .. BucketCapacity
         /\ is_full(b) <=> Total(E) = BucketCapacity
         /\ LastOne(b.header) = Total(E) + (BatchSize - 1)
<1> DEFINE h == b.header
           last == BatchSize - 1
<1>1. PICK m \in 0 .. BatchSize :
            /\ Marks(Lo(h), WORD_BITS, LoMarks(E, m), m)
            /\ Marks(Hi(h), HeaderSize - WORD_BITS, HiMarks(E, m), BatchSize - m)
            /\ Popcount(Lo(h)) = m
  BY HeaderSplits
<1>2. last \in Places /\ Ones(E)[last] = E[last] + last /\ E[last] \in 0 .. BucketCapacity
  BY OnesAre, Sizes
<1>3. m \in Nat /\ BatchSize - m \in Nat /\ BatchSize \in Nat \ {0}
  BY Sizes
<1>4. ASSUME m = BatchSize PROVE get_capacity(b) = Total(E)
  <2>1. SetBits(Hi(h)) = {}
    BY <1>1, <1>3, <1>4, FirstAndLastOne
  <2>2. LastOne(Lo(h)) = LoMarks(E, m)[m - 1]
    BY <1>1, <1>3, <1>4, FirstAndLastOne
  <2>3. LoMarks(E, m)[m - 1] = E[last] + last
    BY <1>2, <1>3, <1>4 DEF LoMarks, Places
  <2>4. get_capacity(b) = E[last] + last + 1 - BatchSize
    BY <2>1, <2>2, <2>3 DEF get_capacity
  <2>5. E[last] \in Int /\ last = BatchSize - 1
    BY <1>2, Sizes
  <2> HIDE DEF last
  <2> QED BY <1>3, <2>4, <2>5 DEF Total
<1>5. ASSUME m # BatchSize PROVE get_capacity(b) = Total(E)
  <2>1. BatchSize - m > 0
    BY <1>3, <1>5
  <2>2. SetBits(Hi(h)) # {} /\ LastOne(Hi(h)) = HiMarks(E, m)[(BatchSize - m) - 1]
    BY <1>1, <1>3, <2>1, FirstAndLastOne
  <2>3. m <= last /\ last - m = (BatchSize - m) - 1
    BY <1>3, <2>1
  <2>4. HiMarks(E, m)[(BatchSize - m) - 1] = E[last] + last - WORD_BITS
    BY <1>2, <2>3, HiMarkIs
  <2>5. get_capacity(b) = WORD_BITS + (E[last] + last - WORD_BITS) + 1 - BatchSize
    BY <2>2, <2>4 DEF get_capacity
  <2>6. E[last] \in Int /\ WORD_BITS \in Int /\ last = BatchSize - 1
    BY <1>2, Sizes
  <2> HIDE DEF last
  <2> QED BY <1>3, <2>5, <2>6 DEF Total
<1>6. Total(E) \in 0 .. BucketCapacity
  BY <1>2 DEF Total
<1>7. is_full(b) <=> Total(E) = BucketCapacity
  <2>1. HeaderSize - 1 \in 0 .. HeaderSize - 1
    BY Sizes
  <2>2. is_full(b) <=> \E q \in Places : HeaderSize - 1 = Ones(E)[q]
    BY <2>1, OnesAre DEF is_full
  <2>3. ASSUME NEW q \in Places, HeaderSize - 1 = Ones(E)[q] PROVE E[last] = BucketCapacity
    <3>1. q = last \/ q < last
      BY Sizes DEF Places
    <3>2. q < last => Ones(E)[q] < Ones(E)[last]
      BY <1>2, OnesAre
    <3>3. Ones(E)[last] \in 0 .. HeaderSize - 1
      BY <1>2, OnesAre
    <3>4. q = last
      BY <2>3, <3>1, <3>2, <3>3, Sizes
    <3> QED BY <2>3, <1>2, <3>4, Sizes
  <2>4. E[last] = BucketCapacity => HeaderSize - 1 = Ones(E)[last]
    BY <1>2, Sizes
  <2> QED BY <1>2, <2>2, <2>3, <2>4 DEF Total
<1>8. LastOne(h) = Total(E) + (BatchSize - 1)
  <2>1. Marks(h, HeaderSize, Ones(E), BatchSize) /\ BatchSize > 0
    BY Sizes DEF Ends
  <2> QED BY <1>2, <2>1, FirstAndLastOne DEF Total
<1> QED BY <1>4, <1>5, <1>6, <1>7, <1>8

-----------------------------------------------------------------------------
(***************************************************************************)
(* The elements.  Every index below the total lies in the run of one place.*)
(***************************************************************************)
LEMMA RunBounds ==
  ASSUME NEW h, NEW E, Ends(h, E), NEW place \in Places, NEW i \in Run(E, place)
  PROVE  /\ i \in 0 .. Total(E) - 1 /\ i \in Indices /\ i \in Nat
         /\ Begin(E, place) <= i /\ i < E[place]
<1>1. Begin(E, place) \in 0 .. E[place] /\ E[place] \in 0 .. BucketCapacity
  BY BeginAndEnd
<1>2. i \in Int /\ Begin(E, place) <= i /\ i < E[place] /\ 0 <= i
  BY <1>1, Sizes DEF Run
<1>3. E[place] <= Total(E)
  <2>1. BatchSize - 1 \in Places /\ (place = BatchSize - 1 \/ place < BatchSize - 1)
    BY Sizes DEF Places
  <2>2. place < BatchSize - 1 => E[place] <= E[BatchSize - 1]
    BY <2>1, OnesAre
  <2> QED BY <1>1, <2>1, <2>2, Sizes DEF Total
<1>4. Total(E) \in 0 .. BucketCapacity
  BY Sizes, OnesAre DEF Total
<1> QED BY <1>1, <1>2, <1>3, <1>4, Sizes DEF Indices

LEMMA RunsAreDisjoint ==
  ASSUME NEW h, NEW E, Ends(h, E), NEW p \in Places, NEW r \in Places,
         NEW i \in Run(E, p), i \in Run(E, r)
  PROVE  p = r
<1>1. ASSUME NEW x \in Places, NEW y \in Places, i \in Run(E, x), i \in Run(E, y), x < y
      PROVE  FALSE
  <2>1. i < E[x] /\ Begin(E, y) <= i /\ i \in Nat
    BY <1>1, RunBounds
  <2>2. y # 0 /\ y - 1 \in Places /\ (x = y - 1 \/ x < y - 1)
    BY <1>1, Sizes DEF Places
  <2>3. E[x] <= E[y - 1] /\ E[x] \in Int /\ E[y - 1] \in Int
    BY <2>2, OnesAre
  <2> QED BY <2>1, <2>2, <2>3 DEF Begin
<1> QED BY <1>1, Sizes DEF Places

LEMMA PlaceExists ==
  ASSUME NEW h, NEW E, Ends(h, E), NEW i \in 0 .. Total(E) - 1
  PROVE  \E p \in Places : i \in Run(E, p)
<1> DEFINE T == {q \in Places : i < E[q]}
<1>1. T \in SUBSET Nat /\ T # {}
  <2>1. BatchSize - 1 \in T
    BY OnesAre, Sizes DEF Total
  <2> QED BY <2>1, Sizes
<1>2. PICK p \in T : \A m \in T : p <= m
  <2> HIDE DEF T
  <2> QED BY <1>1, LeastNat
<1>3. p \in Places /\ i < E[p] /\ E[p] \in Int /\ i \in Nat
  BY OnesAre, Sizes DEF Total
<1>4. Begin(E, p) <= i /\ Begin(E, p) \in Int
  <2>1. CASE p = 0
    BY <1>3, <2>1 DEF Begin
  <2>2. CASE p # 0
    <3>1. p - 1 \in Places /\ ~(p <= p - 1)
      BY <1>3, <2>2, Sizes DEF Places
    <3>2. p - 1 \notin T
      BY <1>2, <3>1
    <3>3. ~(i < E[p - 1]) /\ E[p - 1] \in Int
      BY <3>1, <3>2, OnesAre
    <3> QED BY <1>3, <2>2, <3>3 DEF Begin
  <2> QED BY <2>1, <2>2
<1> QED BY <1>3, <1>4 DEF Run

(* The 0 of an element, and how Elements reads it. *)
LEMMA ZeroOfElement ==
  ASSUME NEW h \in [0 .. HeaderSize - 1 -> 0 .. 1], NEW E, Ends(h, E),
         NEW p \in Places, NEW i \in Run(E, p)
  PROVE  /\ i + p \in 0 .. LastOne(h)
         /\ h[i + p] = 0
         /\ OnesBelow(h, i + p) = p
<1>1. i < E[p] /\ Begin(E, p) <= i /\ i \in Nat /\ p \in Nat /\ E[p] \in Int
  BY RunBounds, OnesAre, Sizes
<1>2. \A r \in Places : E[r] \in Int /\ r \in Nat /\ Ones(E)[r] = E[r] + r
  BY OnesAre, Sizes
<1>3. \A r \in Places : /\ r < p => E[r] + r < i + p
                        /\ ~(r < p) => E[r] + r > i + p
  <2> SUFFICES ASSUME NEW r \in Places PROVE (r < p => E[r] + r < i + p) /\ (~(r < p) => E[r] + r > i + p)
    OBVIOUS
  <2>1. ASSUME r < p PROVE E[r] + r < i + p
    <3>1. p # 0 /\ p - 1 \in Places /\ (r = p - 1 \/ r < p - 1)
      BY <1>2, <2>1, Sizes DEF Places
    <3>2. E[r] <= E[p - 1]
      BY <1>2, <3>1, OnesAre
    <3> QED BY <1>1, <1>2, <2>1, <3>1, <3>2 DEF Begin
  <2>2. ASSUME ~(r < p) PROVE E[r] + r > i + p
    <3>1. r = p \/ p < r
      BY <1>2, <2>2
    <3>2. E[p] <= E[r]
      BY <1>2, <3>1, OnesAre
    <3> QED BY <1>1, <1>2, <2>2, <3>2
  <2> QED BY <2>1, <2>2
<1>4. \A r \in Places : Ones(E)[r] < i + p <=> r < p
  BY <1>1, <1>2, <1>3
<1>5. OnesBelow(h, i + p) = p
  <2>1. Marks(h, HeaderSize, Ones(E), BatchSize) /\ p \in 0 .. BatchSize /\ i + p \in Int
    BY <1>1, Sizes DEF Ends, Places
  <2> QED BY <1>4, <2>1, OnesBelowIs DEF Places
<1>6. i + p \in 0 .. HeaderSize - 1 /\ i + p <= Total(E) + (BatchSize - 1)
  <2>1. i < Total(E) /\ Total(E) <= BucketCapacity /\ Total(E) \in Int
    BY RunBounds, OnesAre, Sizes DEF Total
  <2> QED BY <1>1, <2>1, Sizes DEF Places
<1>7. h[i + p] # 1
  <2>1. \A q \in Places : i + p # Ones(E)[q]
    BY <1>1, <1>2, <1>3
  <2>2. \A k \in 0 .. HeaderSize - 1 : h[k] = 1 => \E q \in Places : k = Ones(E)[q]
    BY DEF Ends, Marks, Places
  <2> QED BY <1>6, <2>1, <2>2
<1>8. i + p \in 0 .. LastOne(h)
  <2>1. Marks(h, HeaderSize, Ones(E), BatchSize) /\ BatchSize > 0
    BY Sizes DEF Ends
  <2>2. LastOne(h) = Total(E) + (BatchSize - 1)
    BY <2>1, FirstAndLastOne, OnesAre, Sizes DEF Total
  <2>3. Total(E) \in Int
    BY OnesAre, Sizes DEF Total
  <2> QED BY <1>1, <1>6, <2>2, <2>3, Sizes
<1> QED BY <1>5, <1>6, <1>7, <1>8

LEMMA ElementsAre ==
  ASSUME NEW b, b.header \in [0 .. HeaderSize - 1 -> 0 .. 1], NEW E, Ends(b.header, E)
  PROVE  \A e : e \in Elements(b) <=> \E p \in Places : \E i \in Run(E, p) : e = <<i, p>>
<1> DEFINE h == b.header
<1>1. ASSUME NEW p \in Places, NEW i \in Run(E, p) PROVE <<i, p>> \in Elements(b)
  <2>1. i + p \in {z \in 0 .. LastOne(h) : h[z] = 0} /\ OnesBelow(h, i + p) = p
    BY ZeroOfElement
  <2>2. (i + p) - p = i
    BY RunBounds, Sizes
  <2> QED BY <2>1, <2>2 DEF Elements
<1>2. ASSUME NEW z \in 0 .. LastOne(h), h[z] = 0
      PROVE  \E p \in Places : \E i \in Run(E, p) : <<z - OnesBelow(h, z), OnesBelow(h, z)>> = <<i, p>>
  <2>1. LastOne(h) = Ones(E)[BatchSize - 1] /\ BatchSize - 1 \in Places
    <3>1. Marks(h, HeaderSize, Ones(E), BatchSize) /\ BatchSize > 0
      BY Sizes DEF Ends
    <3> QED BY <3>1, FirstAndLastOne, Sizes
  <2>2. \A q \in Places : Ones(E)[q] \in 0 .. HeaderSize - 1 /\ Ones(E)[q] = E[q] + q
                          /\ E[q] \in Int /\ q \in Nat
    BY OnesAre, Sizes
  <2>3. z \in 0 .. HeaderSize - 1 /\ z \in Nat
    BY <2>1, <2>2, Sizes
  <2>4. \A q \in Places : z # Ones(E)[q]
    BY <1>2, <2>3, OnesAre
  <2> DEFINE T == {q \in Places : z < Ones(E)[q]}
  <2>5. T \in SUBSET Nat /\ BatchSize - 1 \in T
    <3>1. T \in SUBSET Nat
      BY Sizes
    <3>2. z <= Ones(E)[BatchSize - 1] /\ z # Ones(E)[BatchSize - 1]
      BY <2>1, <2>4
    <3>3. Ones(E)[BatchSize - 1] \in Int
      BY <2>1, <2>2, Sizes
    <3>4. BatchSize - 1 \in T
      BY <2>1, <2>3, <3>2, <3>3
    <3> QED BY <3>1, <3>4
  <2>6. PICK p \in T : \A m \in T : p <= m
    <3> HIDE DEF T
    <3> QED BY <2>5, LeastNat
  <2>7. p \in Places /\ z < E[p] + p /\ p \in Nat /\ E[p] \in Int
    BY <2>2
  <2>8. Begin(E, p) <= z - p /\ Begin(E, p) \in Int
    <3>1. CASE p = 0
      BY <2>3, <3>1 DEF Begin
    <3>2. CASE p # 0
      <4>1. p - 1 \in Places /\ ~(p <= p - 1)
        BY <2>7, <3>2, Sizes DEF Places
      <4>2. p - 1 \notin T
        BY <2>6, <4>1
      <4>3. ~(z < E[p - 1] + (p - 1)) /\ z # E[p - 1] + (p - 1) /\ E[p - 1] \in Int
        BY <2>2, <2>4, <4>1, <4>2
      <4> QED BY <2>3, <2>7, <3>2, <4>3 DEF Begin
    <3> QED BY <3>1, <3>2
  <2>9. z - p \in Run(E, p) /\ (z - p) + p = z
    BY <2>3, <2>7, <2>8 DEF Run
  <2>10. OnesBelow(h, z) = p
    BY <2>7, <2>9, ZeroOfElement
  <2> QED BY <2>7, <2>9, <2>10
<1>3. \A e \in Elements(b) : \E z \in 0 .. LastOne(h) :
        h[z] = 0 /\ e = <<z - OnesBelow(h, z), OnesBelow(h, z)>>
  BY DEF Elements
<1> QED BY <1>1, <1>2, <1>3

(* There are as many elements as the last end says. *)
LEMMA ElementsCount ==
  ASSUME NEW b, b.header \in [0 .. HeaderSize - 1 -> 0 .. 1], NEW E, Ends(b.header, E)
  PROVE  Cardinality(Elements(b)) = Total(E)
<1> DEFINE S == 0 .. Total(E) - 1
           place(i) == CHOOSE p \in Places : i \in Run(E, p)
           f == [i \in S |-> <<i, place(i)>>]
<1>1. IsFiniteSet(S) /\ Cardinality(S) = Total(E)
  <2>1. Total(E) \in Nat
    BY OnesAre, Sizes DEF Total
  <2>2. 0 \in Int /\ Total(E) - 1 \in Int
    BY <2>1
  <2> QED BY <2>1, <2>2, FS_Interval
<1>2. \A i \in S : place(i) \in Places /\ i \in Run(E, place(i))
  BY PlaceExists
<1> HIDE DEF place
<1>3. \A i \in S : <<i, place(i)>> \in Elements(b)
  BY <1>2, ElementsAre
<1>4. f \in [S -> Elements(b)] /\ \A x, y \in S : f[x] = f[y] => x = y
  BY <1>3
<1>5. ASSUME NEW e \in Elements(b) PROVE \E i \in S : f[i] = e
  <2>1. PICK p \in Places : \E i \in Run(E, p) : e = <<i, p>>
    BY ElementsAre
  <2>2. PICK i \in Run(E, p) : e = <<i, p>>
    BY <2>1
  <2>3. i \in S
    BY RunBounds
  <2>4. place(i) = p
    BY <1>2, <2>3, RunsAreDisjoint
  <2> QED BY <2>2, <2>3, <2>4
<1> HIDE DEF S, f
<1> QED BY <1>1, <1>4, <1>5, SameCardinality

-----------------------------------------------------------------------------
(***************************************************************************)
(* Words of quotients as one list of quotients.                            *)
(***************************************************************************)
LEMMA DivMod ==
  ASSUME NEW n \in Nat \ {0}, NEW i \in Int
  PROVE  /\ i \div n \in Int /\ i % n \in 0 .. n - 1
         /\ i = n * (i \div n) + (i % n)
<1>1. i \div n \in Int
  OBVIOUS
<1>2. i % n \in 0 .. n - 1
  OBVIOUS
<1>3. i = n * (i \div n) + (i % n)
  OBVIOUS
<1> QED BY <1>1, <1>2, <1>3

LEMMA DivModUnique ==
  ASSUME NEW n \in Nat \ {0}, NEW d \in Int, NEW r \in 0 .. n - 1
  PROVE  (n * d + r) \div n = d /\ (n * d + r) % n = r
<1> DEFINE i == n * d + r
<1>1. i \in Int
  OBVIOUS
<1> HIDE DEF i
<1>2. i \div n \in Int /\ i % n \in 0 .. n - 1 /\ i = n * (i \div n) + (i % n)
  BY <1>1, DivMod
<1> DEFINE e == i \div n
           s == i % n
<1>3. e \in Int /\ s \in 0 .. n - 1 /\ n * d + r = n * e + s
  BY <1>2 DEF i
<1> HIDE DEF e, s
<1>4. n * (d - e) = s - r
  BY <1>3
<1>5. ~(d - e >= 1)
  BY <1>3, <1>4
<1>6. ~(d - e <= -1)
  BY <1>3, <1>4
<1>7. d = e
  BY <1>3, <1>5, <1>6
<1>8. r = s
  BY <1>3, <1>7
<1> QED BY <1>7, <1>8 DEF e, s, i

(* The index before i: in the same word, or the last of the one before. *)
LEMMA DivModBefore ==
  ASSUME NEW n \in Nat \ {0}, NEW i \in Int
  PROVE  IF i % n = 0
         THEN (i - 1) \div n = i \div n - 1 /\ (i - 1) % n = n - 1
         ELSE (i - 1) \div n = i \div n /\ (i - 1) % n = (i % n) - 1
<1> DEFINE e == i \div n
           s == i % n
<1>1. e \in Int /\ s \in 0 .. n - 1 /\ i = n * e + s
  BY DivMod
<1> HIDE DEF e, s
<1>2. CASE s = 0
  <2>1. i - 1 = n * (e - 1) + (n - 1)
    BY <1>1, <1>2
  <2>2. e - 1 \in Int /\ n - 1 \in 0 .. n - 1
    BY <1>1
  <2>3. (i - 1) \div n = e - 1 /\ (i - 1) % n = n - 1
    BY <2>1, <2>2, DivModUnique
  <2> QED BY <1>2, <2>3 DEF e, s
<1>3. CASE s # 0
  <2>1. i - 1 = n * e + (s - 1)
    BY <1>1, <1>3
  <2>2. s - 1 \in 0 .. n - 1
    BY <1>1, <1>3
  <2>3. (i - 1) \div n = e /\ (i - 1) % n = s - 1
    BY <1>1, <2>1, <2>2, DivModUnique
  <2> QED BY <1>3, <2>3 DEF e, s
<1> QED BY <1>2, <1>3

(* Indices are ordered by word, then by place in the word. *)
LEMMA DivModOrder ==
  ASSUME NEW n \in Nat \ {0}, NEW i \in Int, NEW k \in Int
  PROVE  k < i <=> \/ k \div n < i \div n
                   \/ k \div n = i \div n /\ k % n < i % n
<1> DEFINE e == i \div n
           s == i % n
           f == k \div n
           t == k % n
<1>1. /\ e \in Int /\ s \in 0 .. n - 1 /\ i = n * e + s
      /\ f \in Int /\ t \in 0 .. n - 1 /\ k = n * f + t
  BY DivMod
<1> HIDE DEF e, s, f, t
<1>2. \A x, y \in Int : x < y => n * x + n <= n * y
  <2> SUFFICES ASSUME NEW x \in Int, NEW y \in Int, x < y PROVE n * x + n <= n * y
    OBVIOUS
  <2>1. y - x - 1 \in Nat
    OBVIOUS
  <2>2. n * (y - x - 1) \in Nat
    BY <2>1
  <2>3. n * (y - x - 1) = n * y - n * x - n
    OBVIOUS
  <2> QED BY <2>2, <2>3
<1>3. CASE f < e
  <2>1. n * f + n <= n * e
    BY <1>1, <1>2, <1>3
  <2> QED BY <1>1, <1>3, <2>1 DEF e, f, s, t
<1>4. CASE f = e
  BY <1>1, <1>4 DEF e, f, s, t
<1>5. CASE e < f
  <2>1. n * e + n <= n * f
    BY <1>1, <1>2, <1>5
  <2> QED BY <1>1, <1>5, <2>1 DEF e, f, s, t
<1> QED BY <1>1, <1>3, <1>4, <1>5

QuotLists == [Words -> [InWord -> 0 .. MaxSpareQuot]]

(* Every index has its word and its place there, and only they have. *)
LEMMA IndexInWord ==
  ASSUME NEW k \in Int
  PROVE  /\ k \in Indices <=> k \div QuotsPerWord \in Words
         /\ k % QuotsPerWord \in InWord
         /\ k \div QuotsPerWord \in Int /\ k % QuotsPerWord \in Int
<1> DEFINE n == QuotsPerWord
           N == BucketCapacity \div QuotsPerWord
<1>1. n \in Nat \ {0} /\ BucketCapacity \in Int /\ BucketCapacity % n = 0
  BY Sizes, BucketSizes
<1> HIDE DEF n
<1>2. /\ k \div n \in Int /\ k % n \in 0 .. n - 1
      /\ N \in Int
  BY <1>1, DivMod DEF n
<1>3. 0 \div n = 0 /\ 0 % n = 0
  <2>1. n * 0 + 0 = 0 /\ 0 \in 0 .. n - 1
    BY <1>1
  <2> QED BY <1>1, <2>1, DivModUnique
<1>4. k < 0 <=> k \div n < 0
  <2>1. k < 0 <=> \/ k \div n < 0 \div n
                  \/ k \div n = 0 \div n /\ k % n < 0 % n
    BY <1>1, DivModOrder
  <2> QED BY <1>2, <1>3, <2>1
<1>5. k < BucketCapacity <=> k \div n < N
  <2>1. k < BucketCapacity <=> \/ k \div n < BucketCapacity \div n
                               \/ k \div n = BucketCapacity \div n /\ k % n < BucketCapacity % n
    BY <1>1, DivModOrder
  <2> QED BY <1>1, <1>2, <2>1 DEF n
<1>6. k \in Indices <=> 0 <= k /\ k < BucketCapacity
  BY <1>1 DEF Indices
<1>7. k \div n \in Words <=> 0 <= k \div n /\ k \div n < N
  BY <1>2 DEF Words
<1> HIDE DEF N
<1>8. k \in Indices <=> k \div n \in Words
  BY <1>2, <1>4, <1>5, <1>6, <1>7
<1> QED BY <1>2, <1>8 DEF InWord, n

LEMMA ReadType ==
  ASSUME NEW q \in QuotLists, NEW k \in Indices
  PROVE  read_quot_by_index(q, k) \in 0 .. MaxSpareQuot
<1>1. k \in Int
  BY Sizes
<1> QED BY <1>1, IndexInWord DEF read_quot_by_index, QuotLists

(* add shifts a quotient into the list as if it were one array. *)
LEMMA AddReads ==
  ASSUME NEW q \in QuotLists, NEW i \in Indices, NEW quot \in 0 .. MaxSpareQuot
  PROVE  /\ add(q, i, quot) \in QuotLists
         /\ \A k \in Indices :
              read_quot_by_index(add(q, i, quot), k) =
                IF k < i THEN read_quot_by_index(q, k)
                ELSE IF k = i THEN quot
                ELSE read_quot_by_index(q, k - 1)
<1> DEFINE n == QuotsPerWord
           word == i \div n
           a == add(q, i, quot)
<1>1. n \in Nat \ {0} /\ i \in Int /\ InWord = 0 .. n - 1 /\ Words \subseteq Nat
  BY Sizes DEF InWord, Words
<1>2. word \in Words /\ i % n \in InWord
  BY <1>1, IndexInWord
<1>3. \A w \in Words : /\ w < word => a[w] = q[w]
                       /\ w = word => a[w] = ShiftIn(q[w], i % n, quot)
                       /\ w > word => a[w] = ShiftIn(q[w], 0, q[w - 1][n - 1])
  BY <1>1, <1>2 DEF add
<1>4. ASSUME NEW x \in [InWord -> 0 .. MaxSpareQuot], NEW c \in InWord, NEW v \in 0 .. MaxSpareQuot
      PROVE  /\ ShiftIn(x, c, v) \in [InWord -> 0 .. MaxSpareQuot]
             /\ \A r \in InWord : ShiftIn(x, c, v)[r] =
                  IF r < c THEN x[r] ELSE IF r = c THEN v ELSE x[r - 1]
  <2>1. \A r \in InWord : ~(r < c) /\ r # c => r - 1 \in InWord
    BY <1>1
  <2> QED BY <1>4, <2>1 DEF ShiftIn
<1>5. \A w \in Words : q[w] \in [InWord -> 0 .. MaxSpareQuot]
  BY DEF QuotLists
<1>6. \A w \in Words : w > word => w - 1 \in Words /\ q[w - 1][n - 1] \in 0 .. MaxSpareQuot
  <2> SUFFICES ASSUME NEW w \in Words, w > word
               PROVE  w - 1 \in Words /\ q[w - 1][n - 1] \in 0 .. MaxSpareQuot
    OBVIOUS
  <2>1. w - 1 \in Words
    <3>1. BucketCapacity \div n \in Int
      BY <1>1, Sizes, DivMod
    <3>2. w \in Int /\ word \in Int /\ 0 <= word
      BY <1>1, <1>2
    <3> HIDE DEF word
    <3> QED BY <3>1, <3>2 DEF Words
  <2>2. n - 1 \in InWord
    BY <1>1
  <2> QED BY <1>5, <2>1, <2>2
<1> HIDE DEF a
<1>7. \A w \in Words : a[w] \in [InWord -> 0 .. MaxSpareQuot]
  <2> SUFFICES ASSUME NEW w \in Words PROVE a[w] \in [InWord -> 0 .. MaxSpareQuot]
    OBVIOUS
  <2>1. w < word \/ w = word \/ w > word
    BY <1>1, <1>2
  <2>2. 0 \in InWord
    BY <1>1
  <2> DEFINE x == q[w]
             v == q[w - 1][n - 1]
  <2>0. x \in [InWord -> 0 .. MaxSpareQuot]
    BY <1>5
  <2>3. w = word => a[w] \in [InWord -> 0 .. MaxSpareQuot]
    <3>1. ShiftIn(x, i % n, quot) \in [InWord -> 0 .. MaxSpareQuot]
      <4> HIDE DEF x, n
      <4> QED BY <1>2, <1>4, <2>0
    <3> QED BY <1>3, <3>1
  <2>4. w > word => a[w] \in [InWord -> 0 .. MaxSpareQuot]
    <3>1. w > word => v \in 0 .. MaxSpareQuot /\ a[w] = ShiftIn(x, 0, v)
      BY <1>3, <1>6
    <3>2. v \in 0 .. MaxSpareQuot => ShiftIn(x, 0, v) \in [InWord -> 0 .. MaxSpareQuot]
      <4> HIDE DEF x, v, n
      <4> QED BY <1>4, <2>0, <2>2
    <3> QED BY <3>1, <3>2
  <2> QED BY <1>3, <1>5, <2>1, <2>3, <2>4
<1>8. a \in QuotLists
  <2>1. DOMAIN a = Words /\ a = [w \in Words |-> a[w]]
    BY DEF a, add
  <2> QED BY <1>7, <2>1 DEF QuotLists
<1>9. ASSUME NEW k \in Indices
      PROVE  read_quot_by_index(a, k) =
                IF k < i THEN read_quot_by_index(q, k)
                ELSE IF k = i THEN quot
                ELSE read_quot_by_index(q, k - 1)
  <2> DEFINE w == k \div n
             r == k % n
  <2>1. k \in Int /\ w \in Words /\ r \in InWord
    BY Sizes, IndexInWord
  <2>2. k < i <=> w < word \/ (w = word /\ r < i % n)
    BY <1>1, <2>1, DivModOrder
  <2>3. i < k <=> word < w \/ (w = word /\ i % n < r)
    BY <1>1, <2>1, DivModOrder
  <2>4. IF r = 0 THEN (k - 1) \div n = w - 1 /\ (k - 1) % n = n - 1
                 ELSE (k - 1) \div n = w /\ (k - 1) % n = r - 1
    BY <1>1, <2>1, DivModBefore
  <2>5. /\ read_quot_by_index(a, k) = a[w][r] /\ read_quot_by_index(q, k) = q[w][r]
        /\ read_quot_by_index(q, k - 1) = q[(k - 1) \div n][(k - 1) % n]
    BY DEF read_quot_by_index
  <2>6. w \in Int /\ word \in Int /\ r \in Int /\ i % n \in Int /\ 0 \in InWord /\ ~(r < 0)
    BY <1>1, <1>2, <2>1
  <2> HIDE DEF w, r, word
  <2>7. CASE k < i
    <3>1. CASE w < word
      BY <1>3, <2>1, <2>5, <2>7, <3>1
    <3>2. CASE w = word /\ r < i % n
      <4>1. a[w][r] = q[w][r]
        BY <1>2, <1>3, <1>4, <1>5, <2>1, <3>2
      <4> QED BY <2>5, <2>7, <4>1
    <3> QED BY <2>2, <2>7, <3>1, <3>2
  <2>8. CASE k = i
    <3>1. w = word /\ r = i % n
      BY <2>8 DEF w, r, word
    <3>2. a[w][r] = quot
      <4>1. ~(r < i % n)
        BY <2>6, <3>1
      <4> QED BY <1>2, <1>3, <1>4, <1>5, <2>1, <3>1, <4>1
    <3>3. ~(k < i)
      BY <2>1, <2>8
    <3> QED BY <2>5, <2>8, <3>2, <3>3
  <2>9. CASE i < k
    <3>0. ~(k < i) /\ k # i
      BY <1>1, <2>1, <2>9
    <3>1. CASE word < w
      <4>1. a[w] = ShiftIn(q[w], 0, q[w - 1][n - 1]) /\ q[w - 1][n - 1] \in 0 .. MaxSpareQuot
        BY <1>3, <1>6, <2>1, <2>6, <3>1
      <4>2. a[w][r] = IF r = 0 THEN q[w - 1][n - 1] ELSE q[w][r - 1]
        BY <1>4, <1>5, <2>1, <2>6, <4>1
      <4> QED BY <2>4, <2>5, <3>0, <4>2
    <3>2. CASE w = word /\ i % n < r
      <4>1. ~(r < i % n) /\ r # i % n /\ r # 0
        BY <1>2, <2>6, <3>2, <1>1
      <4>2. a[w][r] = q[w][r - 1]
        BY <1>2, <1>3, <1>4, <1>5, <2>1, <3>2, <4>1
      <4> QED BY <2>4, <2>5, <3>0, <4>1, <4>2
    <3> QED BY <2>3, <2>9, <3>1, <3>2
  <2> QED BY <1>1, <2>1, <2>7, <2>8, <2>9
<1> QED BY <1>8, <1>9 DEF a

(* The reverse: a quotient is taken out, and a 0 comes in at the end. *)
LEMMA DeleteReads ==
  ASSUME NEW q \in QuotLists, NEW i \in Indices
  PROVE  /\ DeleteQuot(q, i) \in QuotLists
         /\ \A k \in Indices :
              read_quot_by_index(DeleteQuot(q, i), k) =
                IF k < i THEN read_quot_by_index(q, k)
                ELSE IF k + 1 \in Indices THEN read_quot_by_index(q, k + 1)
                ELSE 0
<1> DEFINE n == QuotsPerWord
           word == i \div n
           a == DeleteQuot(q, i)
           carry(w) == IF w + 1 \in Words THEN q[w + 1][0] ELSE 0
           from(w) == IF w = word THEN i % n ELSE 0
<1>1. n \in Nat \ {0} /\ i \in Int /\ InWord = 0 .. n - 1 /\ Words \subseteq Nat
      /\ MaxSpareQuot \in Nat
  BY Sizes DEF InWord, Words
<1>2. word \in Words /\ i % n \in InWord
  BY <1>1, IndexInWord
<1>3. \A w \in Words : a[w] = IF w < word THEN q[w] ELSE ShiftOut(q[w], from(w), carry(w))
  BY DEF DeleteQuot
<1>4. ASSUME NEW x \in [InWord -> 0 .. MaxSpareQuot], NEW c \in InWord, NEW v \in 0 .. MaxSpareQuot
      PROVE  /\ ShiftOut(x, c, v) \in [InWord -> 0 .. MaxSpareQuot]
             /\ \A r \in InWord : ShiftOut(x, c, v)[r] =
                  IF r < c THEN x[r] ELSE IF r + 1 \in InWord THEN x[r + 1] ELSE v
  BY <1>4 DEF ShiftOut
<1>5. \A w \in Words : q[w] \in [InWord -> 0 .. MaxSpareQuot]
  BY DEF QuotLists
<1>6. \A w \in Words : carry(w) \in 0 .. MaxSpareQuot /\ from(w) \in InWord
  <2>1. 0 \in InWord
    BY <1>1
  <2>2. \A w \in Words : w + 1 \in Words => q[w + 1][0] \in 0 .. MaxSpareQuot
    BY <1>5, <2>1
  <2>3. 0 \in 0 .. MaxSpareQuot
    BY <1>1
  <2> QED BY <1>2, <2>1, <2>2, <2>3
<1> HIDE DEF a
<1>7. \A w \in Words : a[w] \in [InWord -> 0 .. MaxSpareQuot]
  <2> HIDE DEF carry, from
  <2> QED BY <1>3, <1>4, <1>5, <1>6
<1>8. a \in QuotLists
  <2>1. DOMAIN a = Words /\ a = [w \in Words |-> a[w]]
    BY DEF a, DeleteQuot
  <2> QED BY <1>7, <2>1 DEF QuotLists
<1>9. ASSUME NEW k \in Indices
      PROVE  read_quot_by_index(a, k) =
                IF k < i THEN read_quot_by_index(q, k)
                ELSE IF k + 1 \in Indices THEN read_quot_by_index(q, k + 1)
                ELSE 0
  <2> DEFINE w == k \div n
             r == k % n
  <2>1. k \in Int /\ k + 1 \in Int /\ w \in Words /\ r \in InWord
    BY Sizes, IndexInWord
  <2>2. k < i <=> w < word \/ (w = word /\ r < i % n)
    BY <1>1, <2>1, DivModOrder
  <2>3. /\ k + 1 \in Indices <=> (k + 1) \div n \in Words
        /\ (k + 1) \div n \in Int /\ (k + 1) % n \in InWord
    BY <2>1, IndexInWord
  <2>4. IF (k + 1) % n = 0
        THEN w = (k + 1) \div n - 1 /\ r = n - 1
        ELSE w = (k + 1) \div n /\ r = ((k + 1) % n) - 1
    <3>1. (k + 1) - 1 = k
      BY <2>1
    <3> QED BY <1>1, <2>1, <3>1, DivModBefore
  <2>5. /\ read_quot_by_index(a, k) = a[w][r] /\ read_quot_by_index(q, k) = q[w][r]
        /\ read_quot_by_index(q, k + 1) = q[(k + 1) \div n][(k + 1) % n]
    BY DEF read_quot_by_index
  <2>6. w \in Int /\ word \in Int /\ r \in Int /\ i % n \in Int
    BY <1>1, <1>2, <2>1
  <2> HIDE DEF w, r, word
  <2>7. CASE k < i
    <3>1. CASE w < word
      BY <1>3, <2>1, <2>5, <2>7, <3>1
    <3>2. CASE w = word /\ r < i % n
      <4>1. a[w] = ShiftOut(q[w], i % n, carry(w))
        <5>1. ~(w < word)
          BY <2>6, <3>2
        <5> QED BY <1>3, <2>1, <3>2, <5>1
      <4>2. a[w][r] = q[w][r]
        <5> HIDE DEF carry, from
        <5> QED BY <1>2, <1>4, <1>5, <1>6, <2>1, <3>2, <4>1
      <4> QED BY <2>5, <2>7, <4>2
    <3> QED BY <2>2, <2>7, <3>1, <3>2
  <2>8. CASE ~(k < i)
    <3>1. ~(w < word) /\ ~(r < from(w))
      <4>1. ~(w < word) /\ (w = word => ~(r < i % n)) /\ ~(r < 0)
        BY <1>1, <2>1, <2>2, <2>8
      <4> QED BY <4>1
    <3>2. a[w][r] = IF r + 1 \in InWord THEN q[w][r + 1] ELSE carry(w)
      <4> HIDE DEF carry, from
      <4>1. a[w] = ShiftOut(q[w], from(w), carry(w))
        BY <1>3, <2>1, <3>1
      <4> QED BY <1>4, <1>5, <1>6, <2>1, <3>1, <4>1
    <3>3. CASE (k + 1) % n = 0
      <4>1. w + 1 = (k + 1) \div n /\ r + 1 \notin InWord
        BY <1>1, <2>3, <2>4, <2>6, <3>3
      <4>2. a[w][r] = IF k + 1 \in Indices THEN q[(k + 1) \div n][0] ELSE 0
        BY <2>3, <3>2, <4>1
      <4> QED BY <2>5, <2>8, <3>3, <4>2
    <3>4. CASE (k + 1) % n # 0
      <4>1. w = (k + 1) \div n /\ r + 1 = (k + 1) % n /\ r + 1 \in InWord
        BY <1>1, <2>3, <2>4, <2>6, <3>4
      <4>2. k + 1 \in Indices
        BY <2>1, <2>3, <4>1
      <4> QED BY <2>5, <2>8, <3>2, <4>1, <4>2
    <3> QED BY <3>3, <3>4
  <2> QED BY <2>7, <2>8
<1> QED BY <1>8, <1>9 DEF a

-----------------------------------------------------------------------------
(***************************************************************************)
(* A bucket whose places end at E.                                         *)
(***************************************************************************)
Arrays(b) ==
  /\ b.header \in [0 .. HeaderSize - 1 -> 0 .. 1]
  /\ b.location \in [Indices -> 0 .. 1]
  /\ b.body \in [Indices -> 0 .. Rems - 1]
  /\ b.Q_list \in QuotLists

Rep(b, E) ==
  /\ Arrays(b)
  /\ Ends(b.header, E)
  /\ \A i \in Indices : i >= Total(E) =>
       b.location[i] = 0 /\ read_quot_by_index(b.Q_list, i) = 0

(* The indices of the copies of a slot. *)
At(b, E, s) == {i \in Run(E, s[1]) : SlotAt(b, i, s[1]) = s}

LEMMA SlotAtIsSlot ==
  ASSUME NEW b, Arrays(b), NEW p \in Places, NEW i \in Indices
  PROVE  /\ SlotAt(b, i, p) \in Slots
         /\ SlotAt(b, i, p)[1] = p
<1>1. read_quot_by_index(b.Q_list, i) \in 0 .. MaxSpareQuot /\ b.body[i] \in 0 .. Rems - 1
  BY ReadType DEF Arrays
<1>2. (b.location[i] = 1) \in BOOLEAN
  OBVIOUS
<1> QED BY <1>1, <1>2 DEF SlotAt, Slots, Places

LEMMA SlotParts ==
  ASSUME NEW s \in Slots
  PROVE  /\ s[1] \in Places /\ s[2] \in BOOLEAN
         /\ s[3][1] \in 0 .. MaxSpareQuot /\ s[3][2] \in 0 .. Rems - 1
         /\ s = <<s[1], s[2], <<s[3][1], s[3][2]>>>>
BY DEF Slots, Places

LEMMA TripleFinite ==
  ASSUME NEW A, NEW B, NEW C, IsFiniteSet(A), IsFiniteSet(B), IsFiniteSet(C)
  PROVE  IsFiniteSet(A \X B \X C)
<1> DEFINE P == (A \X B) \X C
           f == [x \in P |-> <<x[1][1], x[1][2], x[2]>>]
<1>1. f \in [P -> A \X B \X C]
  OBVIOUS
<1>2. ASSUME NEW t \in A \X B \X C PROVE \E x \in P : f[x] = t
  <2>1. <<<<t[1], t[2]>>, t[3]>> \in P
    OBVIOUS
  <2>2. f[<<<<t[1], t[2]>>, t[3]>>] = t
    BY <2>1
  <2> QED BY <2>1, <2>2
<1>3. IsFiniteSet(P)
  BY FS_Product
<1> HIDE DEF f, P
<1>4. f \in Surjection(P, A \X B \X C)
  BY <1>1, <1>2 DEF Surjection
<1> QED BY <1>3, <1>4, FS_Surjection

LEMMA SlotsFinite == IsFiniteSet(Slots)
<1>1. IsFiniteSet(0 .. BatchSize - 1) /\ IsFiniteSet(0 .. MaxSpareQuot) /\ IsFiniteSet(0 .. Rems - 1)
  BY Sizes, FS_Interval
<1>2. IsFiniteSet(BOOLEAN)
  <2>1. BOOLEAN = {TRUE} \cup {FALSE}
    OBVIOUS
  <2>2. IsFiniteSet({TRUE}) /\ IsFiniteSet({FALSE})
    BY FS_Singleton, Zenon
  <2>3. IsFiniteSet({TRUE} \cup {FALSE})
    BY <2>2, FS_Union, Zenon
  <2> QED BY <2>1, <2>3
<1>3. IsFiniteSet((0 .. MaxSpareQuot) \X (0 .. Rems - 1))
  BY <1>1, FS_Product
<1>4. Slots = (0 .. BatchSize - 1) \X BOOLEAN \X ((0 .. MaxSpareQuot) \X (0 .. Rems - 1))
  BY DEF Slots
<1> DEFINE A == 0 .. BatchSize - 1
           K == (0 .. MaxSpareQuot) \X (0 .. Rems - 1)
<1> HIDE DEF A, K
<1>5. IsFiniteSet(A \X BOOLEAN \X K)
  BY <1>1, <1>2, <1>3, TripleFinite DEF A, K
<1> QED BY <1>4, <1>5 DEF A, K

(* The multiset counts the indices. *)
LEMMA SlotsOfCounts ==
  ASSUME NEW b, NEW E, Rep(b, E)
  PROVE  /\ SlotsOf(b) \in [Slots -> Nat]
         /\ \A s \in Slots : /\ IsFiniteSet(At(b, E, s))
                             /\ SlotsOf(b)[s] = Cardinality(At(b, E, s))
<1> DEFINE stored == {<<e[1], SlotAt(b, e[1], e[2])>> : e \in Elements(b)}
           copies(s) == {e \in stored : e[2] = s}
<1>1. SlotsOf(b) = [s \in Slots |-> Cardinality(copies(s))]
  BY DEF SlotsOf
<1>2. ASSUME NEW s \in Slots
      PROVE  IsFiniteSet(At(b, E, s)) /\ Cardinality(copies(s)) = Cardinality(At(b, E, s))
  <2> DEFINE S == At(b, E, s)
             f == [i \in S |-> <<i, s>>]
  <2>1. s[1] \in Places
    BY SlotParts
  <2>2. IsFiniteSet(S)
    <3>1. IsFiniteSet(Run(E, s[1]))
      <4>1. Begin(E, s[1]) \in Int /\ E[s[1]] - 1 \in Int
        BY <2>1, BeginAndEnd DEF Rep
      <4> QED BY <4>1, FS_Interval DEF Run
    <3>2. S \in SUBSET Run(E, s[1])
      BY DEF At
    <3> QED BY <3>1, <3>2, FS_Subset
  <2>3. \A e : e \in Elements(b) <=> \E p \in Places : \E i \in Run(E, p) : e = <<i, p>>
    BY ElementsAre DEF Rep, Arrays
  <2>4. \A i \in S : <<i, s>> \in copies(s)
    <3> SUFFICES ASSUME NEW i \in S PROVE <<i, s>> \in copies(s)
      OBVIOUS
    <3>1. i \in Run(E, s[1]) /\ SlotAt(b, i, s[1]) = s
      BY DEF At
    <3>2. <<i, s[1]>> \in Elements(b)
      BY <2>1, <2>3, <3>1
    <3>3. <<i, s>> \in stored
      BY <3>1, <3>2
    <3> QED BY <3>3
  <2>5. ASSUME NEW t \in copies(s) PROVE \E i \in S : t = <<i, s>>
    <3>1. PICK e \in Elements(b) : t = <<e[1], SlotAt(b, e[1], e[2])>> /\ t[2] = s
      BY <2>5
    <3>2. PICK p \in Places : \E i \in Run(E, p) : e = <<i, p>>
      BY <2>3, <3>1
    <3>3. PICK i \in Run(E, p) : e = <<i, p>>
      BY <3>2
    <3>4. t = <<i, SlotAt(b, i, p)>> /\ SlotAt(b, i, p) = s
      BY <3>1, <3>3
    <3>5. p = s[1]
      BY <3>4 DEF SlotAt
    <3>6. i \in S
      BY <3>3, <3>4, <3>5 DEF At
    <3> QED BY <3>4, <3>6
  <2> HIDE DEF S, stored, copies
  <2>6. f \in [S -> copies(s)]
    BY <2>4
  <2>7. \A x, y \in S : f[x] = f[y] => x = y
    OBVIOUS
  <2>8. \A t \in copies(s) : \E i \in S : f[i] = t
    BY <2>5
  <2> HIDE DEF f
  <2>9. Cardinality(copies(s)) = Cardinality(S)
    BY <2>2, <2>6, <2>7, <2>8, SameCardinality
  <2> QED BY <2>2, <2>9 DEF S
<1>3. \A s \in Slots : Cardinality(At(b, E, s)) \in Nat
  BY <1>2, FS_CardinalityType
<1> HIDE DEF copies
<1> QED BY <1>1, <1>2, <1>3

(* A slot is stored when some index holds it: what the lookup asks. *)
LEMMA StoredWhenAt ==
  ASSUME NEW b, NEW E, Rep(b, E), NEW s \in Slots
  PROVE  /\ SlotsOf(b)[s] > 0 <=> At(b, E, s) # {}
         /\ find(b, s[1], s[3][2], s[2]) \cap my_cmp_epu(s[3][1], b.Q_list) = At(b, E, s)
<1>1. SlotsOf(b)[s] > 0 <=> At(b, E, s) # {}
  <2>1. IsFiniteSet(At(b, E, s)) /\ SlotsOf(b)[s] = Cardinality(At(b, E, s)) /\ SlotsOf(b)[s] \in Nat
    BY SlotsOfCounts
  <2> QED BY <2>1, FS_EmptySet
<1>2. RunMask(b, s[1]) = Run(E, s[1])
  BY SlotParts, RunMaskIs DEF Rep
<1>3. \A i \in Run(E, s[1]) : i \in Indices
  BY SlotParts, RunBounds DEF Rep
<1>4. ASSUME NEW i \in Run(E, s[1])
      PROVE  SlotAt(b, i, s[1]) = s <=> /\ b.body[i] = s[3][2]
                                        /\ (b.location[i] = 1) = s[2]
                                        /\ read_quot_by_index(b.Q_list, i) = s[3][1]
  BY SlotParts DEF SlotAt
<1>5. find(b, s[1], s[3][2], s[2]) \cap my_cmp_epu(s[3][1], b.Q_list) = At(b, E, s)
  BY <1>2, <1>3, <1>4 DEF find, body_find, get_location_bitmask, my_cmp_epu, At
<1> QED BY <1>1, <1>5

-----------------------------------------------------------------------------
(***************************************************************************)
(* One element more.  Bucket c has b's elements, those from index i0 on    *)
(* moved up, and one at i0 that belongs to place p.  An insertion goes     *)
(* from b to c, a removal from c to b.                                     *)
(***************************************************************************)
Up(i0, k) == IF k < i0 THEN k ELSE k + 1

Further(E, F, p) ==
  /\ F \in [Places -> 0 .. BucketCapacity]
  /\ \A q \in Places : F[q] = IF q < p THEN E[q] ELSE E[q] + 1

Grown(b, E, c, F, p, i0) ==
  /\ Further(E, F, p)
  /\ i0 \in Run(F, p)
  /\ \A k \in 0 .. Total(E) - 1 :
       /\ c.location[Up(i0, k)] = b.location[k]
       /\ c.body[Up(i0, k)] = b.body[k]
       /\ read_quot_by_index(c.Q_list, Up(i0, k)) = read_quot_by_index(b.Q_list, k)

(* A place's run begins no earlier than the places before it end. *)
LEMMA EndsBeforeBegin ==
  ASSUME NEW h, NEW E, Ends(h, E), NEW q \in Places, NEW p \in Places, q < p
  PROVE  E[q] <= Begin(E, p)
<1>1. p # 0 /\ p - 1 \in Places /\ (q = p - 1 \/ q < p - 1)
  BY Sizes DEF Places
<1>2. E[q] <= E[p - 1]
  <2>1. E[q] \in Int
    BY OnesAre
  <2> QED BY <1>1, <2>1, OnesAre
<1> QED BY <1>1, <1>2 DEF Begin

(* The runs before p stay, p's gets an index, those behind move up. *)
LEMMA FurtherRuns ==
  ASSUME NEW h, NEW E, Ends(h, E), NEW g, NEW F, Ends(g, F),
         NEW p \in Places, Further(E, F, p), NEW q \in Places
  PROVE  /\ F[q] = IF q < p THEN E[q] ELSE E[q] + 1
         /\ Begin(F, q) = IF q <= p THEN Begin(E, q) ELSE Begin(E, q) + 1
         /\ Total(F) = Total(E) + 1
<1>1. F[q] = IF q < p THEN E[q] ELSE E[q] + 1
  BY DEF Further
<1>2. Begin(F, q) = IF q <= p THEN Begin(E, q) ELSE Begin(E, q) + 1
  <2>1. p \in Nat /\ q \in Nat
    BY Sizes
  <2>2. CASE q = 0
    BY <2>1, <2>2 DEF Begin
  <2>3. CASE q # 0
    <3>1. q - 1 \in Places /\ (q - 1 < p <=> q <= p)
      BY <2>1, <2>3, BeginAndEnd
    <3>2. F[q - 1] = IF q - 1 < p THEN E[q - 1] ELSE E[q - 1] + 1
      BY <3>1 DEF Further
    <3> QED BY <2>3, <3>1, <3>2 DEF Begin
  <2> QED BY <2>2, <2>3
<1>3. Total(F) = Total(E) + 1
  <2>1. BatchSize - 1 \in Places /\ ~(BatchSize - 1 < p)
    BY Sizes DEF Places
  <2> QED BY <2>1 DEF Further, Total
<1> QED BY <1>1, <1>2, <1>3

LEMMA UpInRun ==
  ASSUME NEW h, NEW E, Ends(h, E), NEW g, NEW F, Ends(g, F),
         NEW p \in Places, Further(E, F, p), NEW i0 \in Run(F, p), NEW q \in Places
  PROVE  /\ \A k \in Run(E, q) : Up(i0, k) \in Run(F, q) /\ Up(i0, k) # i0
         /\ \A j \in Run(F, q) : j # i0 => \E k \in Run(E, q) : j = Up(i0, k)
         /\ \A k, l \in Run(E, q) : k < l <=> Up(i0, k) < Up(i0, l)
         /\ i0 \in Run(F, q) => q = p
<1>1. /\ F[q] = IF q < p THEN E[q] ELSE E[q] + 1
      /\ Begin(F, q) = IF q <= p THEN Begin(E, q) ELSE Begin(E, q) + 1
      /\ F[p] = E[p] + 1
      /\ Begin(F, p) = Begin(E, p)
  <2>1. p \in Int
    BY Sizes
  <2>2. ~(p < p) /\ p <= p
    BY <2>1
  <2> QED BY <2>2, FurtherRuns
<1>2. /\ p \in Int /\ q \in Int /\ i0 \in Int /\ E[q] \in Int /\ Begin(E, q) \in Int
      /\ E[p] \in Int /\ Begin(E, p) \in Int
  BY Sizes, RunBounds, BeginAndEnd
<1>3. Begin(E, p) <= i0 /\ i0 <= E[p]
  BY <1>1, <1>2, RunBounds
<1>4. (q < p => E[q] <= Begin(E, p)) /\ (p < q => E[p] <= Begin(E, q))
  BY EndsBeforeBegin
<1>5. \A k \in Int : k \in Run(E, q) <=> Begin(E, q) <= k /\ k < E[q]
  BY <1>2 DEF Run
<1>6. \A k \in Int : k \in Run(F, q) <=> Begin(F, q) <= k /\ k < F[q]
  BY <1>1, <1>2 DEF Run
<1>7. \A k : k \in Run(E, q) \/ k \in Run(F, q) => k \in Int
  BY RunBounds
<1>8. ASSUME NEW k \in Run(E, q) PROVE Up(i0, k) \in Run(F, q) /\ Up(i0, k) # i0
  <2>1. k \in Int /\ Begin(E, q) <= k /\ k < E[q]
    BY <1>5, <1>7
  <2>2. CASE q < p
    BY <1>1, <1>2, <1>3, <1>4, <1>6, <2>1, <2>2 DEF Up
  <2>3. CASE q = p
    BY <1>1, <1>2, <1>3, <1>6, <2>1, <2>3 DEF Up
  <2>4. CASE p < q
    BY <1>1, <1>2, <1>3, <1>4, <1>6, <2>1, <2>4 DEF Up
  <2> QED BY <1>2, <2>2, <2>3, <2>4
<1>9. ASSUME NEW j \in Run(F, q), j # i0 PROVE \E k \in Run(E, q) : j = Up(i0, k)
  <2> DEFINE k == IF j < i0 THEN j ELSE j - 1
  <2>1. j \in Int /\ Begin(F, q) <= j /\ j < F[q]
    BY <1>6, <1>7
  <2>2. k \in Int /\ j = Up(i0, k)
    BY <1>2, <1>9, <2>1 DEF Up
  <2>3. CASE q < p
    BY <1>1, <1>2, <1>3, <1>4, <1>5, <2>1, <2>2, <2>3
  <2>4. CASE q = p
    BY <1>1, <1>2, <1>3, <1>5, <1>9, <2>1, <2>2, <2>4
  <2>5. CASE p < q
    BY <1>1, <1>2, <1>3, <1>4, <1>5, <2>1, <2>2, <2>5
  <2> QED BY <1>2, <2>3, <2>4, <2>5
<1>10. \A k, l \in Run(E, q) : k < l <=> Up(i0, k) < Up(i0, l)
  BY <1>2, <1>7 DEF Up
<1>11. i0 \in Run(F, q) => q = p
  BY RunsAreDisjoint
<1> QED BY <1>8, <1>9, <1>10, <1>11

(* The multiset has one copy more, of the slot at i0. *)
LEMMA GrownAdds ==
  ASSUME NEW b, NEW E, Rep(b, E), NEW c, NEW F, Rep(c, F),
         NEW p \in Places, NEW i0, Grown(b, E, c, F, p, i0)
  PROVE  /\ SlotAt(c, i0, p) \in Slots
         /\ SlotsOf(c) = AddCopy(SlotsOf(b), SlotAt(c, i0, p))
<1> DEFINE new == SlotAt(c, i0, p)
<1>1. Ends(b.header, E) /\ Ends(c.header, F) /\ Further(E, F, p) /\ i0 \in Run(F, p)
  BY DEF Rep, Grown
<1>2. new \in Slots /\ i0 \in Nat
  BY <1>1, RunBounds, SlotAtIsSlot DEF Rep
<1>3. SlotsOf(b) \in [Slots -> Nat] /\ SlotsOf(c) \in [Slots -> Nat]
  BY SlotsOfCounts
<1>4. ASSUME NEW s \in Slots
      PROVE  SlotsOf(c)[s] = IF s = new THEN SlotsOf(b)[s] + 1 ELSE SlotsOf(b)[s]
  <2> DEFINE q == s[1]
             S == At(b, E, s)
             T == At(c, F, s) \ {i0}
             f == [k \in S |-> Up(i0, k)]
  <2>1. q \in Places
    BY SlotParts
  <2> HIDE DEF q
  <2>2. /\ \A k \in Run(E, q) : Up(i0, k) \in Run(F, q) /\ Up(i0, k) # i0
        /\ \A j \in Run(F, q) : j # i0 => \E k \in Run(E, q) : j = Up(i0, k)
        /\ \A k, l \in Run(E, q) : k < l <=> Up(i0, k) < Up(i0, l)
        /\ i0 \in Run(F, q) => q = p
    BY <1>1, <2>1, UpInRun
  <2>3. \A k \in Run(E, q) : SlotAt(c, Up(i0, k), q) = SlotAt(b, k, q)
    <3>1. \A k \in Run(E, q) : k \in 0 .. Total(E) - 1
      BY <1>1, <2>1, RunBounds
    <3> QED BY <3>1 DEF SlotAt, Grown
  <2>4. \A k : k \in S <=> k \in Run(E, q) /\ SlotAt(b, k, q) = s
    BY DEF At, q
  <2>5. \A j : j \in At(c, F, s) <=> j \in Run(F, q) /\ SlotAt(c, j, q) = s
    BY DEF At, q
  <2>6. IsFiniteSet(S) /\ IsFiniteSet(At(c, F, s))
    BY SlotsOfCounts
  <2>7. f \in [S -> T]
    <3>1. \A k \in S : Up(i0, k) \in T
      <4> HIDE DEF S
      <4> QED BY <2>2, <2>3, <2>4, <2>5
    <3> QED BY <3>1
  <2>8. \A x, y \in S : f[x] = f[y] => x = y
    <3>1. \A x \in S : f[x] = Up(i0, x) /\ x \in Nat
      <4>1. \A x \in S : x \in Run(E, q)
        BY <2>4
      <4> QED BY <1>1, <2>1, <4>1, RunBounds
    <3> HIDE DEF f, S
    <3> QED BY <1>2, <3>1 DEF Up
  <2>9. \A t \in T : \E x \in S : f[x] = t
    <3> SUFFICES ASSUME NEW t \in T PROVE \E x \in S : f[x] = t
      OBVIOUS
    <3>1. t \in Run(F, q) /\ SlotAt(c, t, q) = s /\ t # i0
      BY <2>5
    <3>2. PICK x \in Run(E, q) : t = Up(i0, x)
      BY <2>2, <3>1
    <3>3. x \in S
      BY <2>3, <2>4, <3>1, <3>2
    <3> QED BY <3>2, <3>3
  <2> HIDE DEF f, S, T
  <2>10. IsFiniteSet(T) /\ Cardinality(T) = Cardinality(S)
    BY <2>6, <2>7, <2>8, <2>9, SameCardinality
  <2>11. SlotsOf(b)[s] = Cardinality(S) /\ SlotsOf(c)[s] = Cardinality(At(c, F, s))
    BY SlotsOfCounts DEF S
  <2>12. CASE s = new
    <3>1. q = p
      BY <2>12 DEF q, SlotAt
    <3>2. i0 \in At(c, F, s) /\ i0 \notin T
      BY <1>1, <2>5, <2>12, <3>1 DEF T
    <3>3. At(c, F, s) = T \cup {i0}
      BY <3>2 DEF T
    <3>4. Cardinality(T \cup {i0}) = Cardinality(T) + 1
      BY <2>10, <3>2, FS_AddElement
    <3> QED BY <2>10, <2>11, <2>12, <3>3, <3>4
  <2>13. CASE s # new
    <3>1. i0 \notin At(c, F, s)
      BY <2>2, <2>5, <2>13
    <3>2. At(c, F, s) = T
      BY <3>1 DEF T
    <3> QED BY <2>10, <2>11, <2>13, <3>2
  <2> QED BY <2>12, <2>13
<1>5. AddCopy(SlotsOf(b), new) \in [Slots -> Nat]
      /\ \A s \in Slots : AddCopy(SlotsOf(b), new)[s]
           = IF s = new THEN SlotsOf(b)[s] + 1 ELSE SlotsOf(b)[s]
  <2> HIDE DEF new
  <2> QED BY <1>2, <1>3 DEF AddCopy
<1> HIDE DEF new
<1>6. SlotsOf(c) = AddCopy(SlotsOf(b), new)
  BY <1>3, <1>4, <1>5
<1> QED BY <1>2, <1>6 DEF new

-----------------------------------------------------------------------------
(***************************************************************************)
(* Insertion.                                                              *)
(***************************************************************************)
(* Within a place remainders are in order, and of equal ones those of      *)
(* secondary elements come first.                                          *)
Before(r1, l1, r2, l2) == r1 < r2 \/ (r1 = r2 /\ l1 <= l2)

Ordered(b, E) ==
  \A p \in Places : \A i, k \in Run(E, p) :
    i < k => Before(b.body[i], b.location[i], b.body[k], b.location[k])

Bit(primary) == IF primary THEN 1 ELSE 0

(* Words and arrays of N members of V, and shifts of them. *)
Array(N, V) == [0 .. N - 1 -> V]

LEMMA ShiftInIs ==
  ASSUME NEW V, NEW N \in Nat, NEW x \in Array(N, V), NEW i \in 0 .. N - 1, NEW v \in V
  PROVE  /\ ShiftIn(x, i, v) \in Array(N, V)
         /\ \A k \in 0 .. N - 1 : ShiftIn(x, i, v)[k] =
              IF k < i THEN x[k] ELSE IF k = i THEN v ELSE x[k - 1]
<1>1. \A k \in 0 .. N - 1 : ~(k < i) /\ k # i => k - 1 \in 0 .. N - 1
  OBVIOUS
<1> QED BY <1>1 DEF ShiftIn, Array

LEMMA ShiftOutIs ==
  ASSUME NEW V, NEW N \in Nat, NEW x \in Array(N, V), NEW i \in 0 .. N - 1, NEW v \in V
  PROVE  /\ ShiftOut(x, i, v) \in Array(N, V)
         /\ \A k \in 0 .. N - 1 : ShiftOut(x, i, v)[k] =
              IF k < i THEN x[k] ELSE IF k + 1 \in 0 .. N - 1 THEN x[k + 1] ELSE v
BY DEF ShiftOut, Array

(* The place insert finds keeps the run in order. *)
LEMMA InsertIndexIs ==
  ASSUME NEW b, NEW E, Rep(b, E), Ordered(b, E), NEW s \in Slots, NEW i0,
         i0 = InsertIndex(b, s[1], s[3][2], s[2])
  PROVE  /\ i0 \in Begin(E, s[1]) .. E[s[1]]
         /\ \A i \in Run(E, s[1]) : i < i0 =>
              Before(b.body[i], b.location[i], s[3][2], Bit(s[2]))
         /\ \A i \in Run(E, s[1]) : ~(i < i0) =>
              Before(s[3][2], Bit(s[2]), b.body[i], b.location[i])
<1> DEFINE p == s[1]
           rem == s[3][2]
           begin == RunBegin(b.header, p) - p
           end == RunEnd(b.header, p) - p
           S == {i \in begin .. end : i = end \/ rem <= b.body[i]}
           first == Min(S)
           T == {i \in first .. end : i = end \/ b.body[i] # rem \/ b.location[i] = 1}
<1>1. p \in Places /\ rem \in Int /\ s[2] \in BOOLEAN /\ p \in Int
  BY SlotParts, Sizes
<1>2. begin = Begin(E, p) /\ end = E[p] /\ begin \in Nat /\ end \in Nat /\ begin <= end
  <2>1. /\ Begin(E, p) \in 0 .. E[p] /\ E[p] \in 0 .. BucketCapacity
        /\ RunEnd(b.header, p) = E[p] + p
        /\ RunBegin(b.header, p) = Begin(E, p) + p
    BY <1>1, BeginAndEnd DEF Rep
  <2> HIDE DEF p
  <2> QED BY <1>1, <2>1, Sizes
<1>3. \A i \in Int : i \in Run(E, p) <=> begin <= i /\ i < end
  BY <1>2 DEF Run
<1>4. \A i \in Run(E, p) : /\ i \in Int /\ b.body[i] \in Int
                           /\ b.location[i] \in 0 .. 1
  <2>1. \A i \in Run(E, p) : i \in Indices /\ i \in Int
    BY <1>1, RunBounds DEF Rep
  <2>2. \A i \in Indices : b.body[i] \in 0 .. Rems - 1 /\ b.location[i] \in 0 .. 1
    BY DEF Rep, Arrays
  <2>3. \A x \in 0 .. Rems - 1 : x \in Int
    BY Sizes
  <2> QED BY <2>1, <2>2, <2>3
<1>5. \A i, k \in Run(E, p) : i < k => Before(b.body[i], b.location[i], b.body[k], b.location[k])
  BY <1>1 DEF Ordered
<1>6. InsertIndex(b, p, rem, s[2]) = IF s[2] THEN Min(T) ELSE first
  BY DEF InsertIndex
<1> HIDE DEF begin, end, p, rem
<1>7. first \in S /\ \A y \in S : first <= y
  <2>1. S \in SUBSET Nat /\ end \in S
    BY <1>2
  <2> HIDE DEF S
  <2> QED BY <2>1, MinOfNats
<1>8. first \in begin .. end /\ first \in Nat /\ (first = end \/ rem <= b.body[first])
  BY <1>2, <1>7
<1>9. \A i \in Run(E, p) : i < first => b.body[i] < rem
  <2> SUFFICES ASSUME NEW i \in Run(E, p), i < first, ~(b.body[i] < rem) PROVE FALSE
    OBVIOUS
  <2>1. i \in begin .. end /\ i \in Int /\ b.body[i] \in Int
    BY <1>2, <1>3, <1>4
  <2>2. rem <= b.body[i]
    BY <1>1, <2>1
  <2>3. i \in S
    BY <2>1, <2>2
  <2>4. first <= i
    BY <1>7, <2>3
  <2> QED BY <1>8, <2>1, <2>4
<1> HIDE DEF S
<1>10. \A i \in Run(E, p) : ~(i < first) => rem <= b.body[i] /\ (b.body[first] < b.body[i] \/ i = first \/
            (b.body[first] = b.body[i] /\ b.location[first] <= b.location[i]))
  <2> SUFFICES ASSUME NEW i \in Run(E, p), ~(i < first)
               PROVE  rem <= b.body[i] /\ (b.body[first] < b.body[i] \/ i = first \/
                        (b.body[first] = b.body[i] /\ b.location[first] <= b.location[i]))
    OBVIOUS
  <2> HIDE DEF first
  <2>1. i \in Int /\ i < end /\ first <= i
    BY <1>3, <1>4, <1>8
  <2>2. first \in Run(E, p) /\ first # end
    BY <1>2, <1>3, <1>8, <2>1
  <2>3. rem <= b.body[first] /\ b.body[first] \in Int /\ b.body[i] \in Int
    BY <1>4, <1>8, <2>2
  <2>4. i = first \/ first < i
    BY <1>8, <2>1
  <2>5. first < i => Before(b.body[first], b.location[first], b.body[i], b.location[i])
    BY <1>5, <2>2
  <2> QED BY <1>1, <2>3, <2>4, <2>5 DEF Before
<1>11. CASE ~s[2]
  <2>1. i0 = first /\ Bit(s[2]) = 0
    BY <1>6, <1>11 DEF p, rem, Bit
  <2> HIDE DEF first
  <2>2. \A i \in Run(E, p) : i < i0 => Before(b.body[i], b.location[i], rem, Bit(s[2]))
    BY <1>9, <2>1 DEF Before
  <2>3. \A i \in Run(E, p) : ~(i < i0) => Before(rem, Bit(s[2]), b.body[i], b.location[i])
    <3>1. \A i \in Run(E, p) : ~(i < i0) => rem <= b.body[i]
      BY <1>10, <2>1
    <3>2. \A i \in Run(E, p) : 0 <= b.location[i]
      BY <1>4
    <3> QED BY <1>1, <1>4, <2>1, <3>1, <3>2 DEF Before
  <2> QED BY <1>2, <1>8, <2>1, <2>2, <2>3 DEF p, rem
<1>12. CASE s[2]
  <2>1. i0 = Min(T) /\ Bit(s[2]) = 1
    BY <1>6, <1>12 DEF p, rem, Bit
  <2> HIDE DEF first
  <2>2. i0 \in T /\ \A y \in T : i0 <= y
    <3>1. T \in SUBSET Nat /\ end \in T
      BY <1>2, <1>8
    <3> HIDE DEF T
    <3> QED BY <2>1, <3>1, MinOfNats
  <2>3. i0 \in first .. end /\ i0 \in Nat /\ (i0 = end \/ b.body[i0] # rem \/ b.location[i0] = 1)
    BY <1>2, <1>8, <2>2
  <2>4. \A i \in Run(E, p) : i < i0 => Before(b.body[i], b.location[i], rem, Bit(s[2]))
    <3> SUFFICES ASSUME NEW i \in Run(E, p), i < i0
                 PROVE  Before(b.body[i], b.location[i], rem, Bit(s[2]))
      OBVIOUS
    <3>1. i \in Int /\ i < end /\ b.location[i] \in 0 .. 1
      BY <1>3, <1>4
    <3>2. CASE i < first
      BY <1>9, <3>2 DEF Before
    <3>3. CASE ~(i < first)
      <4>1. i \in first .. end
        BY <1>2, <1>8, <3>1, <3>3
      <4>2. i \notin T
        BY <2>2, <2>3, <3>1
      <4>3. b.body[i] = rem
        BY <4>1, <4>2
      <4> QED BY <2>1, <3>1, <4>3 DEF Before
    <3> QED BY <3>2, <3>3
  <2>5. \A i \in Run(E, p) : ~(i < i0) => Before(rem, Bit(s[2]), b.body[i], b.location[i])
    <3> SUFFICES ASSUME NEW i \in Run(E, p), ~(i < i0)
                 PROVE  Before(rem, Bit(s[2]), b.body[i], b.location[i])
      OBVIOUS
    <3>1. i \in Int /\ i < end /\ begin <= i /\ b.location[i] \in 0 .. 1 /\ b.body[i] \in Int
      BY <1>3, <1>4
    <3>2. i0 <= i /\ i0 < end /\ ~(i0 < first) /\ i0 \in Run(E, p)
      BY <1>2, <1>3, <1>8, <2>3, <3>1
    <3>3. rem <= b.body[i0] /\ b.body[i0] \in Int /\ b.location[i0] \in 0 .. 1
      BY <1>4, <1>10, <3>2
    <3>4. b.body[i0] # rem \/ b.location[i0] = 1
      BY <1>2, <2>3, <3>2
    <3>5. i0 = i \/ Before(b.body[i0], b.location[i0], b.body[i], b.location[i])
      <4>1. i0 = i \/ i0 < i
        BY <2>3, <3>1, <3>2
      <4> QED BY <1>5, <3>2, <4>1
    <3> QED BY <1>1, <2>1, <3>1, <3>3, <3>4, <3>5 DEF Before
  <2>6. i0 \in begin .. end
    BY <1>2, <1>8, <2>3
  <2> QED BY <1>2, <2>4, <2>5, <2>6 DEF p, rem
<1> QED BY <1>1, <1>11, <1>12

(* The ends when a place gains an element. *)
Grow(E, p) == [q \in Places |-> IF q < p THEN E[q] ELSE E[q] + 1]

LEMMA GrowIs ==
  ASSUME NEW h, NEW E, Ends(h, E), NEW p \in Places, Total(E) < BucketCapacity
  PROVE  /\ Further(E, Grow(E, p), p)
         /\ \A q, r \in Places : q < r => Grow(E, p)[q] <= Grow(E, p)[r]
<1>1. \A q \in Places : E[q] \in 0 .. BucketCapacity /\ E[q] <= Total(E) /\ q \in Int
  <2> SUFFICES ASSUME NEW q \in Places
               PROVE  E[q] \in 0 .. BucketCapacity /\ E[q] <= Total(E) /\ q \in Int
    OBVIOUS
  <2>1. BatchSize - 1 \in Places /\ (q = BatchSize - 1 \/ q < BatchSize - 1)
    BY Sizes DEF Places
  <2>2. E[q] \in 0 .. BucketCapacity /\ (q < BatchSize - 1 => E[q] <= E[BatchSize - 1])
    BY <2>1, OnesAre
  <2> QED BY <2>1, <2>2, Sizes DEF Total
<1>2. Total(E) \in Int
  BY <1>1, Sizes DEF Total
<1>3. \A q \in Places : Grow(E, p)[q] = IF q < p THEN E[q] ELSE E[q] + 1
  BY DEF Grow
<1>4. \A q \in Places : Grow(E, p)[q] \in 0 .. BucketCapacity
  BY <1>1, <1>2, <1>3, Sizes
<1>5. Grow(E, p) \in [Places -> 0 .. BucketCapacity]
  BY <1>4 DEF Grow
<1>6. \A q, r \in Places : q < r => Grow(E, p)[q] <= Grow(E, p)[r]
  <2> SUFFICES ASSUME NEW q \in Places, NEW r \in Places, q < r
               PROVE  Grow(E, p)[q] <= Grow(E, p)[r]
    OBVIOUS
  <2>1. E[q] <= E[r]
    BY OnesAre
  <2> QED BY <1>1, <1>3, <2>1
<1> QED BY <1>3, <1>5, <1>6 DEF Further

(* A 0 put in where the place's 1 was moves that 1 and those behind it. *)
LEMMA InsertZeroGrows ==
  ASSUME NEW h \in [0 .. HeaderSize - 1 -> 0 .. 1], NEW E, Ends(h, E),
         NEW p \in Places, Total(E) < BucketCapacity
  PROVE  /\ InsertZero(h, E[p] + p) \in [0 .. HeaderSize - 1 -> 0 .. 1]
         /\ Ends(InsertZero(h, E[p] + p), Grow(E, p))
<1> DEFINE z == E[p] + p
           g == InsertZero(h, z)
           F == Grow(E, p)
<1>1. /\ \A q \in Places : E[q] \in Int /\ q \in Int /\ Ones(E)[q] = E[q] + q
      /\ z \in 0 .. HeaderSize - 1 /\ z = Ones(E)[p]
  <2>1. z = Ones(E)[p] /\ Ones(E)[p] \in 0 .. HeaderSize - 1
    BY OnesAre
  <2> QED BY <2>1, OnesAre, Sizes
<1>2. /\ g \in [0 .. HeaderSize - 1 -> 0 .. 1]
      /\ \A i \in 0 .. HeaderSize - 1 :
           g[i] = IF i < z THEN h[i] ELSE IF i = z THEN 0 ELSE h[i - 1]
  <2> DEFINE V == 0 .. 1
             N == HeaderSize
             zero == 0
             x == h
  <2>1. N \in Nat /\ zero \in V /\ x \in Array(N, V) /\ z \in 0 .. N - 1
    BY <1>1, Sizes DEF Array
  <2> HIDE DEF z, V, N, zero, x
  <2>2. /\ ShiftIn(x, z, zero) \in Array(N, V)
        /\ \A i \in 0 .. N - 1 :
             ShiftIn(x, z, zero)[i] = IF i < z THEN x[i] ELSE IF i = z THEN zero ELSE x[i - 1]
    BY <2>1, ShiftInIs
  <2> QED BY <2>2 DEF InsertZero, V, N, zero, x, Array
<1>3. \A q \in Places : F[q] = IF q < p THEN E[q] ELSE E[q] + 1
  BY DEF Grow
<1>4. \A q \in Places : (q < p => E[q] + q < z) /\ (~(q < p) => z <= E[q] + q)
  <2> SUFFICES ASSUME NEW q \in Places PROVE (q < p => E[q] + q < z) /\ (~(q < p) => z <= E[q] + q)
    OBVIOUS
  <2>1. q < p => Ones(E)[q] < Ones(E)[p]
    BY OnesAre
  <2>2. p < q => Ones(E)[p] < Ones(E)[q]
    BY OnesAre
  <2>3. q < p \/ q = p \/ p < q
    BY <1>1
  <2> QED BY <1>1, <2>1, <2>2, <2>3
<1>5. \A i \in 0 .. HeaderSize - 1 : h[i] = 1 <=> \E q \in Places : i = E[q] + q
  <2>1. \A i \in 0 .. HeaderSize - 1 : h[i] = 1 <=> \E q \in Places : i = Ones(E)[q]
    BY DEF Ends, Marks, Places
  <2> QED BY <1>1, <2>1
<1> HIDE DEF g, F, z
<1>6. ASSUME NEW i \in 0 .. HeaderSize - 1
      PROVE  g[i] = 1 <=> \E q \in Places : i = F[q] + q
  <2>0. i \in Int /\ z \in Int
    BY <1>1, Sizes
  <2>1. CASE i < z
    <3>1. \A q \in Places : i = E[q] + q <=> i = F[q] + q
      BY <1>1, <1>3, <1>4, <2>0, <2>1
    <3> QED BY <1>2, <1>5, <2>1, <3>1
  <2>2. CASE i = z
    <3>1. \A q \in Places : i # F[q] + q
      BY <1>1, <1>3, <1>4, <2>0, <2>2
    <3>2. g[i] = 0
      BY <1>2, <2>0, <2>2
    <3> QED BY <3>1, <3>2
  <2>3. CASE z < i
    <3>1. i - 1 \in 0 .. HeaderSize - 1 /\ g[i] = h[i - 1]
      BY <1>1, <1>2, <2>0, <2>3, Sizes
    <3>2. \A q \in Places : i - 1 = E[q] + q <=> i = F[q] + q
      BY SMTT(30), <1>1, <1>3, <1>4, <2>0, <2>3
    <3> QED BY <1>5, <3>1, <3>2
  <2> QED BY <2>0, <2>1, <2>2, <2>3
<1>7. F \in [Places -> 0 .. BucketCapacity] /\ \A q, r \in Places : q < r => F[q] <= F[r]
  BY GrowIs DEF F, Further
<1>8. DOMAIN g = 0 .. HeaderSize - 1
  BY <1>2
<1>9. Ends(g, F)
  BY <1>6, <1>7, <1>8, EndsIf
<1> QED BY <1>2, <1>9 DEF g, F, z

(* All four arrays make room at the same index for the slot. *)
LEMMA InsertedIs ==
  ASSUME NEW b, NEW E, Rep(b, E), Ordered(b, E), Total(E) < BucketCapacity,
         NEW s \in Slots, NEW c, c = Inserted(b, s[1], s[2], s[3]),
         NEW i0, i0 = InsertIndex(b, s[1], s[3][2], s[2])
  PROVE  /\ Rep(c, Grow(E, s[1]))
         /\ Grown(b, E, c, Grow(E, s[1]), s[1], i0)
         /\ SlotAt(c, i0, s[1]) = s
<1> DEFINE p == s[1]
           rem == s[3][2]
           quot == s[3][1]
           bit == Bit(s[2])
           F == Grow(E, p)
<1>1. p \in Places /\ rem \in 0 .. Rems - 1 /\ quot \in 0 .. MaxSpareQuot /\ s[2] \in BOOLEAN
      /\ bit \in 0 .. 1 /\ s = <<p, s[2], <<quot, rem>>>> /\ (bit = 1) = s[2]
  BY SlotParts DEF Bit
<1>2. /\ c.header = InsertZero(b.header, E[p] + p)
      /\ c.location = ShiftIn(b.location, i0, bit)
      /\ c.body = ShiftIn(b.body, i0, rem)
      /\ c.Q_list = add(b.Q_list, i0, quot)
  <2>1. RunEnd(b.header, p) = E[p] + p
    BY <1>1, BeginAndEnd DEF Rep
  <2> QED BY <2>1 DEF Inserted, Bit
<1>3. Ends(b.header, E) /\ Arrays(b)
  BY DEF Rep
<1> HIDE DEF p, rem, quot, bit, F
<1>4. /\ c.header \in [0 .. HeaderSize - 1 -> 0 .. 1]
      /\ Ends(c.header, F)
  BY <1>1, <1>2, <1>3, InsertZeroGrows DEF Arrays, F
<1>5. Further(E, F, p)
  BY <1>1, <1>3, GrowIs DEF F
<1>6. i0 \in Begin(E, p) .. E[p] /\ Begin(E, p) \in Nat /\ E[p] \in Int /\ i0 \in Nat
  <2>1. i0 \in Begin(E, p) .. E[p]
    BY InsertIndexIs DEF p
  <2>2. Begin(E, p) \in 0 .. E[p] /\ E[p] \in 0 .. BucketCapacity
    BY <1>1, <1>3, BeginAndEnd
  <2> QED BY <2>1, <2>2, Sizes
<1>7. i0 \in Run(F, p)
  <2>1. ~(p < p) /\ p <= p
    BY <1>1, Sizes
  <2>2. F[p] = E[p] + 1 /\ Begin(F, p) = Begin(E, p)
    BY <1>1, <1>3, <1>4, <1>5, <2>1, FurtherRuns
  <2> QED BY <1>6, <2>2 DEF Run
<1>8. Total(F) = Total(E) + 1 /\ i0 \in 0 .. Total(F) - 1 /\ i0 \in Indices
      /\ Total(E) \in Nat
  <2>1. Total(E) \in 0 .. BucketCapacity
    BY <1>3, OnesAre, Sizes DEF Total
  <2>2. Total(F) = Total(E) + 1
    BY <1>1, <1>3, <1>4, <1>5, FurtherRuns
  <2> QED BY <1>1, <1>4, <1>7, <2>1, <2>2, RunBounds
<1>9. /\ c.location \in [Indices -> 0 .. 1]
      /\ \A k \in Indices : c.location[k] =
           IF k < i0 THEN b.location[k] ELSE IF k = i0 THEN bit ELSE b.location[k - 1]
  <2> DEFINE V == 0 .. 1
             N == BucketCapacity
             x == b.location
  <2>1. N \in Nat /\ bit \in V /\ x \in Array(N, V) /\ i0 \in 0 .. N - 1
    BY <1>1, <1>3, <1>8, Sizes DEF Arrays, Indices, Array
  <2> HIDE DEF V, N, x
  <2>2. /\ ShiftIn(x, i0, bit) \in Array(N, V)
        /\ \A k \in 0 .. N - 1 : ShiftIn(x, i0, bit)[k] =
             IF k < i0 THEN x[k] ELSE IF k = i0 THEN bit ELSE x[k - 1]
    BY <2>1, ShiftInIs
  <2> QED BY <1>2, <2>2 DEF V, N, x, Indices, Array
<1>10. /\ c.body \in [Indices -> 0 .. Rems - 1]
       /\ \A k \in Indices : c.body[k] =
            IF k < i0 THEN b.body[k] ELSE IF k = i0 THEN rem ELSE b.body[k - 1]
  <2> DEFINE V == 0 .. Rems - 1
             N == BucketCapacity
             x == b.body
  <2>1. N \in Nat /\ rem \in V /\ x \in Array(N, V) /\ i0 \in 0 .. N - 1
    BY <1>1, <1>3, <1>8, Sizes DEF Arrays, Indices, Array
  <2> HIDE DEF V, N, x
  <2>2. /\ ShiftIn(x, i0, rem) \in Array(N, V)
        /\ \A k \in 0 .. N - 1 : ShiftIn(x, i0, rem)[k] =
             IF k < i0 THEN x[k] ELSE IF k = i0 THEN rem ELSE x[k - 1]
    BY <2>1, ShiftInIs
  <2> QED BY <1>2, <2>2 DEF V, N, x, Indices, Array
<1>11. /\ c.Q_list \in QuotLists
       /\ \A k \in Indices : read_quot_by_index(c.Q_list, k) =
            IF k < i0 THEN read_quot_by_index(b.Q_list, k)
            ELSE IF k = i0 THEN quot ELSE read_quot_by_index(b.Q_list, k - 1)
  BY <1>1, <1>2, <1>3, <1>8, AddReads DEF Arrays
<1>12. ASSUME NEW i \in Indices, i >= Total(F)
       PROVE  c.location[i] = 0 /\ read_quot_by_index(c.Q_list, i) = 0
  <2>1. i - 1 \in Indices /\ i - 1 >= Total(E) /\ ~(i < i0) /\ i # i0
    BY <1>6, <1>8, <1>12, Sizes DEF Indices
  <2>2. b.location[i - 1] = 0 /\ read_quot_by_index(b.Q_list, i - 1) = 0
    BY <2>1 DEF Rep
  <2> QED BY <1>9, <1>11, <2>1, <2>2
<1>13. Rep(c, F)
  BY <1>4, <1>9, <1>10, <1>11, <1>12 DEF Rep, Arrays
<1>14. ASSUME NEW k \in 0 .. Total(E) - 1
       PROVE  /\ c.location[Up(i0, k)] = b.location[k]
              /\ c.body[Up(i0, k)] = b.body[k]
              /\ read_quot_by_index(c.Q_list, Up(i0, k)) = read_quot_by_index(b.Q_list, k)
  <2>1. k \in Int /\ k \in Indices /\ k + 1 \in Indices /\ (k + 1) - 1 = k
    BY <1>8, Sizes DEF Indices
  <2>2. CASE k < i0
    BY <1>9, <1>10, <1>11, <2>1, <2>2 DEF Up
  <2>3. CASE ~(k < i0)
    <3>1. Up(i0, k) = k + 1 /\ ~(k + 1 < i0) /\ k + 1 # i0
      BY <1>6, <2>1, <2>3 DEF Up
    <3> QED BY <1>9, <1>10, <1>11, <2>1, <3>1
  <2> QED BY <2>2, <2>3
<1>15. Grown(b, E, c, F, p, i0)
  BY <1>5, <1>7, <1>14 DEF Grown
<1>16. SlotAt(c, i0, p) = s
  <2>1. ~(i0 < i0)
    BY <1>6
  <2>2. c.location[i0] = bit /\ c.body[i0] = rem /\ read_quot_by_index(c.Q_list, i0) = quot
    BY <1>8, <1>9, <1>10, <1>11, <2>1
  <2> QED BY <1>1, <2>2 DEF SlotAt
<1> QED BY <1>13, <1>15, <1>16 DEF F, p

(* The insertion keeps the runs in order. *)
LEMMA InsertedOrdered ==
  ASSUME NEW b, NEW E, Rep(b, E), Ordered(b, E), NEW c, NEW F, Rep(c, F),
         NEW p \in Places, NEW i0, Grown(b, E, c, F, p, i0),
         \A i \in Run(E, p) : i < i0 =>
           Before(b.body[i], b.location[i], c.body[i0], c.location[i0]),
         \A i \in Run(E, p) : ~(i < i0) =>
           Before(c.body[i0], c.location[i0], b.body[i], b.location[i])
  PROVE  Ordered(c, F)
<1> SUFFICES ASSUME NEW q \in Places, NEW i \in Run(F, q), NEW k \in Run(F, q), i < k
             PROVE  Before(c.body[i], c.location[i], c.body[k], c.location[k])
  BY DEF Ordered
<1>1. /\ Ends(b.header, E) /\ Ends(c.header, F) /\ Further(E, F, p) /\ i0 \in Run(F, p)
      /\ \A j \in 0 .. Total(E) - 1 : /\ c.location[Up(i0, j)] = b.location[j]
                                      /\ c.body[Up(i0, j)] = b.body[j]
  BY DEF Rep, Grown
<1>2. /\ \A j \in Run(F, q) : j # i0 => \E m \in Run(E, q) : j = Up(i0, m)
      /\ \A m, l \in Run(E, q) : m < l <=> Up(i0, m) < Up(i0, l)
      /\ i0 \in Run(F, q) => q = p
  BY <1>1, UpInRun
<1>3. \A m \in Run(E, q) : m \in 0 .. Total(E) - 1 /\ m \in Int
  BY <1>1, RunBounds
<1>4. i0 \in Int /\ i \in Int /\ k \in Int
  BY <1>1, RunBounds
<1>5. CASE i # i0 /\ k # i0
  <2>1. PICK m \in Run(E, q) : i = Up(i0, m)
    BY <1>2, <1>5
  <2>2. PICK l \in Run(E, q) : k = Up(i0, l)
    BY <1>2, <1>5
  <2>3. m < l
    BY <1>2, <2>1, <2>2
  <2>4. Before(b.body[m], b.location[m], b.body[l], b.location[l])
    BY <2>3 DEF Ordered
  <2> QED BY <1>1, <1>3, <2>1, <2>2, <2>4
<1>6. CASE i = i0
  <2>1. q = p /\ k # i0
    BY <1>2, <1>4, <1>6
  <2>2. PICK l \in Run(E, q) : k = Up(i0, l)
    BY <1>2, <2>1
  <2>3. ~(l < i0)
    BY <1>3, <1>4, <1>6, <2>2 DEF Up
  <2>4. Before(c.body[i0], c.location[i0], b.body[l], b.location[l])
    BY <2>1, <2>3
  <2> QED BY <1>1, <1>3, <1>6, <2>2, <2>4
<1>7. CASE k = i0
  <2>1. q = p /\ i # i0
    BY <1>2, <1>4, <1>7
  <2>2. PICK m \in Run(E, q) : i = Up(i0, m)
    BY <1>2, <2>1
  <2>3. m < i0
    BY <1>3, <1>4, <1>7, <2>2 DEF Up
  <2>4. Before(b.body[m], b.location[m], c.body[i0], c.location[i0])
    BY <2>1, <2>3
  <2> QED BY <1>1, <1>3, <1>7, <2>2, <2>4
<1> QED BY <1>5, <1>6, <1>7

-----------------------------------------------------------------------------
(***************************************************************************)
(* Removal.                                                                *)
(***************************************************************************)
Shrink(F, p) == [q \in Places |-> IF q < p THEN F[q] ELSE F[q] - 1]

LEMMA ShrinkIs ==
  ASSUME NEW h, NEW F, Ends(h, F), NEW p \in Places, NEW i0 \in Run(F, p)
  PROVE  /\ Shrink(F, p) \in [Places -> 0 .. BucketCapacity]
         /\ \A q, r \in Places : q < r => Shrink(F, p)[q] <= Shrink(F, p)[r]
         /\ Further(Shrink(F, p), F, p)
         /\ \A q \in Places : /\ q < p => F[q] <= Begin(F, p)
                              /\ ~(q < p) => F[q] > Begin(F, p)
<1>1. \A q \in Places : F[q] \in 0 .. BucketCapacity /\ q \in Nat
  BY OnesAre, Sizes
<1>2. Begin(F, p) \in Nat /\ Begin(F, p) < F[p] /\ p \in Nat
  BY <1>1, BeginAndEnd, RunBounds
<1>3. \A q \in Places : Shrink(F, p)[q] = IF q < p THEN F[q] ELSE F[q] - 1
  BY DEF Shrink
<1>4. ASSUME NEW q \in Places
      PROVE  (q < p => F[q] <= Begin(F, p)) /\ (~(q < p) => F[q] > Begin(F, p))
  <2>1. q < p => F[q] <= Begin(F, p)
    BY EndsBeforeBegin
  <2>2. ~(q < p) => F[p] <= F[q]
    <3>1. ~(q < p) => p = q \/ p < q
      BY <1>1
    <3>2. p < q => F[p] <= F[q]
      BY OnesAre
    <3> QED BY <1>1, <3>1, <3>2
  <2> QED BY <1>1, <1>2, <2>1, <2>2
<1>5. \A q \in Places : Shrink(F, p)[q] \in 0 .. BucketCapacity
  BY <1>1, <1>2, <1>3, <1>4, Sizes
<1>6. Shrink(F, p) \in [Places -> 0 .. BucketCapacity]
  BY <1>5 DEF Shrink
<1>7. \A q, r \in Places : q < r => Shrink(F, p)[q] <= Shrink(F, p)[r]
  <2> SUFFICES ASSUME NEW q \in Places, NEW r \in Places, q < r
               PROVE  Shrink(F, p)[q] <= Shrink(F, p)[r]
    OBVIOUS
  <2>1. F[q] <= F[r]
    BY OnesAre
  <2> QED BY <1>1, <1>2, <1>3, <1>4, <2>1
<1>8. \A q \in Places : F[q] = IF q < p THEN Shrink(F, p)[q] ELSE Shrink(F, p)[q] + 1
  BY <1>1, <1>3
<1>9. F \in [Places -> 0 .. BucketCapacity]
  BY DEF Ends
<1> QED BY <1>4, <1>6, <1>7, <1>8, <1>9 DEF Further

(* The first 0 of the run taken out: its 1 and those behind move down. *)
LEMMA DeleteZeroShrinks ==
  ASSUME NEW h, h \in [0 .. HeaderSize - 1 -> 0 .. 1], NEW F, Ends(h, F),
         NEW p \in Places, NEW i0 \in Run(F, p)
  PROVE  /\ DeleteZero(h, Begin(F, p) + p) \in [0 .. HeaderSize - 1 -> 0 .. 1]
         /\ Ends(DeleteZero(h, Begin(F, p) + p), Shrink(F, p))
<1> DEFINE z == Begin(F, p) + p
           g == DeleteZero(h, z)
           E == Shrink(F, p)
<1>1. /\ \A q \in Places : F[q] \in 0 .. BucketCapacity /\ q \in Nat /\ q < BatchSize
                           /\ F[q] + q <= HeaderSize - 1
      /\ z \in 0 .. HeaderSize - 1 /\ Begin(F, p) \in Nat /\ p \in Nat
  <2>1. \A q \in Places : F[q] \in 0 .. BucketCapacity /\ q \in Nat /\ q < BatchSize
    BY OnesAre, Sizes DEF Places
  <2>2. Begin(F, p) \in Nat /\ Begin(F, p) < F[p]
    BY <2>1, BeginAndEnd, RunBounds
  <2> QED BY <2>1, <2>2, Sizes
<1>2. \A q \in Places : /\ E[q] = IF q < p THEN F[q] ELSE F[q] - 1
                        /\ q < p => F[q] + q < z
                        /\ ~(q < p) => F[q] + q > z
  <2>1. \A q \in Places : E[q] = IF q < p THEN F[q] ELSE F[q] - 1
    BY DEF Shrink
  <2>2. \A q \in Places : /\ q < p => F[q] <= Begin(F, p)
                          /\ ~(q < p) => F[q] > Begin(F, p)
    BY ShrinkIs
  <2>3. \A q \in Places : (q < p => F[q] + q < z) /\ (~(q < p) => F[q] + q > z)
    BY <1>1, <2>2
  <2> QED BY <2>1, <2>3
<1>3. /\ g \in [0 .. HeaderSize - 1 -> 0 .. 1]
      /\ \A i \in 0 .. HeaderSize - 1 :
           g[i] = IF i < z THEN h[i] ELSE IF i + 1 \in 0 .. HeaderSize - 1 THEN h[i + 1] ELSE 0
  <2> DEFINE V == 0 .. 1
             N == HeaderSize
             zero == 0
             x == h
  <2>1. N \in Nat /\ zero \in V /\ x \in Array(N, V) /\ z \in 0 .. N - 1
    BY <1>1, Sizes DEF Array
  <2> HIDE DEF z, V, N, zero, x
  <2>2. /\ ShiftOut(x, z, zero) \in Array(N, V)
        /\ \A i \in 0 .. N - 1 : ShiftOut(x, z, zero)[i] =
             IF i < z THEN x[i] ELSE IF i + 1 \in 0 .. N - 1 THEN x[i + 1] ELSE zero
    BY <2>1, ShiftOutIs
  <2> QED BY <2>2 DEF DeleteZero, V, N, zero, x, Array
<1>4. \A i \in 0 .. HeaderSize - 1 : h[i] = 1 <=> \E q \in Places : i = F[q] + q
  <2>1. \A i \in 0 .. HeaderSize - 1 : h[i] = 1 <=> \E q \in Places : i = Ones(F)[q]
    BY DEF Ends, Marks, Places
  <2> QED BY <2>1, OnesAre
<1> HIDE DEF g, E, z
<1>5. ASSUME NEW i \in 0 .. HeaderSize - 1
      PROVE  g[i] = 1 <=> \E q \in Places : i = E[q] + q
  <2>0. i \in Int /\ z \in Int /\ HeaderSize \in Nat
    BY <1>1, Sizes
  <2>1. CASE i < z
    <3>1. \A q \in Places : i = F[q] + q <=> i = E[q] + q
      BY <1>1, <1>2, <2>0, <2>1
    <3> QED BY <1>3, <1>4, <2>1, <3>1
  <2>2. CASE ~(i < z) /\ i + 1 \in 0 .. HeaderSize - 1
    <3>1. \A q \in Places : i + 1 = F[q] + q <=> i = E[q] + q
      BY SMTT(30), <1>1, <1>2, <2>0, <2>2
    <3> QED BY <1>3, <1>4, <2>2, <3>1
  <2>3. CASE ~(i < z) /\ i + 1 \notin 0 .. HeaderSize - 1
    <3>1. i = HeaderSize - 1
      BY <2>0, <2>3
    <3>2. \A q \in Places : i # E[q] + q
      BY <1>1, <1>2, <2>0, <2>3, <3>1
    <3> QED BY <1>3, <2>3, <3>2
  <2> QED BY <2>1, <2>2, <2>3
<1>6. E \in [Places -> 0 .. BucketCapacity] /\ \A q, r \in Places : q < r => E[q] <= E[r]
  BY ShrinkIs DEF E
<1>7. DOMAIN g = 0 .. HeaderSize - 1
  BY <1>3
<1>8. Ends(g, E)
  BY <1>5, <1>6, <1>7, EndsIf
<1> QED BY <1>3, <1>8 DEF g, E, z

(* All four arrays close the gap at the same index. *)
LEMMA RemovedIs ==
  ASSUME NEW c, NEW F, Rep(c, F), NEW p \in Places, NEW i0 \in Run(F, p),
         NEW b, b = RemovedAt(c, p, i0)
  PROVE  /\ Rep(b, Shrink(F, p))
         /\ Grown(b, Shrink(F, p), c, F, p, i0)
<1> DEFINE E == Shrink(F, p)
<1>1. Ends(c.header, F) /\ Arrays(c)
  BY DEF Rep
<1>2. /\ b.header = DeleteZero(c.header, Begin(F, p) + p)
      /\ b.location = ShiftOut(c.location, i0, 0)
      /\ b.body = ShiftOut(c.body, i0, c.body[BucketCapacity - 1])
      /\ b.Q_list = DeleteQuot(c.Q_list, i0)
  <2>1. RunBegin(c.header, p) = Begin(F, p) + p
    BY <1>1, BeginAndEnd
  <2> QED BY <2>1 DEF RemovedAt
<1> HIDE DEF E
<1>3. b.header \in [0 .. HeaderSize - 1 -> 0 .. 1] /\ Ends(b.header, E)
  BY <1>1, <1>2, DeleteZeroShrinks DEF Arrays, E
<1>4. Further(E, F, p)
  BY <1>1, ShrinkIs DEF E
<1>5. i0 \in Indices /\ i0 \in Nat /\ i0 \in 0 .. Total(F) - 1 /\ Total(F) = Total(E) + 1
      /\ Total(E) \in 0 .. BucketCapacity /\ Total(F) \in 0 .. BucketCapacity
  <2>1. Total(F) = Total(E) + 1
    BY <1>1, <1>3, <1>4, FurtherRuns
  <2>2. Total(E) \in 0 .. BucketCapacity /\ Total(F) \in 0 .. BucketCapacity
    BY <1>1, <1>3, OnesAre, Sizes DEF Total
  <2> QED BY <1>1, <2>1, <2>2, RunBounds
<1>6. /\ b.location \in [Indices -> 0 .. 1]
      /\ \A k \in Indices : b.location[k] =
           IF k < i0 THEN c.location[k] ELSE IF k + 1 \in Indices THEN c.location[k + 1] ELSE 0
  <2> DEFINE V == 0 .. 1
             N == BucketCapacity
             x == c.location
             last == 0
  <2>1. N \in Nat /\ last \in V /\ x \in Array(N, V) /\ i0 \in 0 .. N - 1
    BY <1>1, <1>5, Sizes DEF Arrays, Indices, Array
  <2> HIDE DEF V, N, x, last
  <2>2. /\ ShiftOut(x, i0, last) \in Array(N, V)
        /\ \A k \in 0 .. N - 1 : ShiftOut(x, i0, last)[k] =
             IF k < i0 THEN x[k] ELSE IF k + 1 \in 0 .. N - 1 THEN x[k + 1] ELSE last
    BY <2>1, ShiftOutIs
  <2> QED BY <1>2, <2>2 DEF V, N, x, last, Indices, Array
<1>7. /\ b.body \in [Indices -> 0 .. Rems - 1]
      /\ \A k \in Indices : b.body[k] =
           IF k < i0 THEN c.body[k]
           ELSE IF k + 1 \in Indices THEN c.body[k + 1] ELSE c.body[BucketCapacity - 1]
  <2> DEFINE V == 0 .. Rems - 1
             N == BucketCapacity
             x == c.body
             last == c.body[BucketCapacity - 1]
  <2>1. N \in Nat /\ last \in V /\ x \in Array(N, V) /\ i0 \in 0 .. N - 1
    <3>1. BucketCapacity - 1 \in Indices
      BY Sizes DEF Indices
    <3> QED BY <1>1, <1>5, <3>1, Sizes DEF Arrays, Indices, Array
  <2> HIDE DEF V, N, x, last
  <2>2. /\ ShiftOut(x, i0, last) \in Array(N, V)
        /\ \A k \in 0 .. N - 1 : ShiftOut(x, i0, last)[k] =
             IF k < i0 THEN x[k] ELSE IF k + 1 \in 0 .. N - 1 THEN x[k + 1] ELSE last
    BY <2>1, ShiftOutIs
  <2> QED BY <1>2, <2>2 DEF V, N, x, last, Indices, Array
<1>8. /\ b.Q_list \in QuotLists
      /\ \A k \in Indices : read_quot_by_index(b.Q_list, k) =
           IF k < i0 THEN read_quot_by_index(c.Q_list, k)
           ELSE IF k + 1 \in Indices THEN read_quot_by_index(c.Q_list, k + 1) ELSE 0
  BY <1>1, <1>2, <1>5, DeleteReads DEF Arrays
<1>9. ASSUME NEW i \in Indices, i >= Total(E)
      PROVE  b.location[i] = 0 /\ read_quot_by_index(b.Q_list, i) = 0
  <2>1. ~(i < i0) /\ i + 1 >= Total(F)
    BY <1>5, <1>9, Sizes DEF Indices
  <2>2. i + 1 \in Indices => c.location[i + 1] = 0 /\ read_quot_by_index(c.Q_list, i + 1) = 0
    BY <2>1 DEF Rep
  <2> QED BY <1>6, <1>8, <2>1, <2>2
<1>10. Rep(b, E)
  BY <1>3, <1>6, <1>7, <1>8, <1>9 DEF Rep, Arrays
<1>11. ASSUME NEW k \in 0 .. Total(E) - 1
       PROVE  /\ c.location[Up(i0, k)] = b.location[k]
              /\ c.body[Up(i0, k)] = b.body[k]
              /\ read_quot_by_index(c.Q_list, Up(i0, k)) = read_quot_by_index(b.Q_list, k)
  <2>1. k \in Indices /\ k + 1 \in Indices
    BY <1>5, Sizes DEF Indices
  <2>2. CASE k < i0
    BY <1>6, <1>7, <1>8, <2>1, <2>2 DEF Up
  <2>3. CASE ~(k < i0)
    BY <1>6, <1>7, <1>8, <2>1, <2>3 DEF Up
  <2> QED BY <2>2, <2>3
<1>12. Grown(b, E, c, F, p, i0)
  BY <1>4, <1>11 DEF Grown
<1> QED BY <1>10, <1>12 DEF E

LEMMA RemovedOrdered ==
  ASSUME NEW c, NEW F, Rep(c, F), Ordered(c, F), NEW b, NEW E, Rep(b, E),
         NEW p \in Places, NEW i0, Grown(b, E, c, F, p, i0)
  PROVE  Ordered(b, E)
<1> SUFFICES ASSUME NEW q \in Places, NEW i \in Run(E, q), NEW k \in Run(E, q), i < k
             PROVE  Before(b.body[i], b.location[i], b.body[k], b.location[k])
  BY DEF Ordered
<1>1. /\ Ends(b.header, E) /\ Ends(c.header, F) /\ Further(E, F, p) /\ i0 \in Run(F, p)
      /\ \A j \in 0 .. Total(E) - 1 : /\ c.location[Up(i0, j)] = b.location[j]
                                      /\ c.body[Up(i0, j)] = b.body[j]
  BY DEF Rep, Grown
<1>2. Up(i0, i) \in Run(F, q) /\ Up(i0, k) \in Run(F, q) /\ Up(i0, i) < Up(i0, k)
  BY <1>1, UpInRun
<1>3. i \in 0 .. Total(E) - 1 /\ k \in 0 .. Total(E) - 1
  BY <1>1, RunBounds
<1>4. Before(c.body[Up(i0, i)], c.location[Up(i0, i)], c.body[Up(i0, k)], c.location[Up(i0, k)])
  BY <1>2 DEF Ordered
<1> QED BY <1>1, <1>3, <1>4

-----------------------------------------------------------------------------
(***************************************************************************)
(* Multisets: the copy added is taken again, and sizes follow.             *)
(***************************************************************************)
LEMMA CopiesFinite ==
  ASSUME NEW S, IsFiniteSet(S), NEW b \in [S -> Nat]
  PROVE  IsFiniteSet(Copies(b)) /\ Size(b) \in Nat
<1> DEFINE F == {{x} \X (1 .. b[x]) : x \in S}
           f == [x \in S |-> {x} \X (1 .. b[x])]
<1>1. IsFiniteSet(F)
  <2>1. f \in Surjection(S, F)
    BY DEF Surjection
  <2> QED BY <2>1, FS_Surjection
<1>2. ASSUME NEW T \in F PROVE IsFiniteSet(T)
  <2>1. PICK x \in S : T = {x} \X (1 .. b[x])
    OBVIOUS
  <2>2. 1 \in Int /\ b[x] \in Int
    OBVIOUS
  <2>3. IsFiniteSet({x}) /\ IsFiniteSet(1 .. b[x])
    BY <2>2, FS_Singleton, FS_Interval
  <2> QED BY <2>1, <2>3, FS_Product
<1>3. Copies(b) = UNION F
  BY DEF Copies
<1> HIDE DEF F
<1>4. IsFiniteSet(Copies(b))
  BY <1>1, <1>2, <1>3, FS_UNION
<1> QED BY <1>4, FS_CardinalityType DEF Size

LEMMA AddedCopy ==
  ASSUME NEW S, IsFiniteSet(S), NEW b \in [S -> Nat], NEW x \in S
  PROVE  /\ AddCopy(b, x) \in [S -> Nat] /\ AddCopy(b, x)[x] > 0
         /\ Size(AddCopy(b, x)) = Size(b) + 1
         /\ RemoveCopy(AddCopy(b, x), x) = b
<1>1. AddCopy(b, x) \in [S -> Nat] /\ AddCopy(b, x)[x] > 0
  BY DEF AddCopy
<1>2. Copies(AddCopy(b, x)) = Copies(b) \cup {<<x, b[x] + 1>>}
  BY DEF Copies, AddCopy
<1>3. <<x, b[x] + 1>> \notin Copies(b)
  BY DEF Copies
<1>4. Size(AddCopy(b, x)) = Size(b) + 1
  BY <1>2, <1>3, CopiesFinite, FS_AddElement DEF Size
<1>5. RemoveCopy(AddCopy(b, x), x) = b
  <2>1. RemoveCopy(AddCopy(b, x), x) = [y \in S |-> b[y]]
    BY DEF AddCopy, RemoveCopy
  <2> QED BY <2>1
<1> QED BY <1>1, <1>4, <1>5

-----------------------------------------------------------------------------
(***************************************************************************)
(* The inductive invariant: the four arrays represent some places' ends,   *)
(* every run is in order, and the multiset has as many copies as there are *)
(* elements.                                                               *)
(***************************************************************************)
Fits(b) ==
  \E E : Rep(b, E) /\ Ordered(b, E) /\ Size(SlotsOf(b)) = Total(E)

IInv == Fits(bucket)

EmptyBucket ==
  [header |-> [i \in 0 .. HeaderSize - 1 |-> IF i < BatchSize THEN 1 ELSE 0],
   location |-> [i \in Indices |-> 0],
   body |-> [i \in Indices |-> 0],
   Q_list |-> [w \in Words |-> [i \in InWord |-> 0]]]

LEMMA EmptyFits == Fits(EmptyBucket) /\ SlotsOf(EmptyBucket) = NoCopies(Slots)
<1> DEFINE b == EmptyBucket
           E == [q \in Places |-> 0]
<1>1. /\ b.header = [i \in 0 .. HeaderSize - 1 |-> IF i < BatchSize THEN 1 ELSE 0]
      /\ b.location = [i \in Indices |-> 0]
      /\ b.body = [i \in Indices |-> 0]
      /\ b.Q_list = [w \in Words |-> [i \in InWord |-> 0]]
  BY DEF EmptyBucket
<1>2. Total(E) = 0 /\ \A p \in Places : Run(E, p) = {}
  <2>1. Total(E) = 0
    BY Sizes DEF Total
  <2>2. \A p \in Places : p # 0 => p - 1 \in Places
    BY Sizes DEF Places
  <2>3. \A p \in Places : Begin(E, p) = 0 /\ E[p] = 0
    BY <2>2 DEF Begin
  <2>4. 0 .. 0 - 1 = {}
    OBVIOUS
  <2> HIDE DEF E
  <2> QED BY <2>1, <2>3, <2>4 DEF Run
<1>3. Ends(b.header, E)
  <2> DEFINE h == b.header
  <2>1. DOMAIN h = 0 .. HeaderSize - 1
        /\ \A i \in 0 .. HeaderSize - 1 : h[i] = IF i < BatchSize THEN 1 ELSE 0
    BY <1>1
  <2>2. ASSUME NEW i \in 0 .. HeaderSize - 1
        PROVE  h[i] = 1 <=> \E q \in Places : i = E[q] + q
    <3>1. \A q \in Places : E[q] + q = q
      BY Sizes
    <3>2. i < BatchSize <=> i \in Places
      BY Sizes DEF Places
    <3> HIDE DEF E, h
    <3> QED BY <2>1, <3>1, <3>2
  <2>3. E \in [Places -> 0 .. BucketCapacity] /\ \A q, r \in Places : q < r => E[q] <= E[r]
    BY Sizes
  <2> HIDE DEF E, h
  <2> QED BY <2>1, <2>2, <2>3, EndsIf DEF h
<1>4. Arrays(b)
  <2>1. 0 \in 0 .. Rems - 1 /\ 0 \in 0 .. MaxSpareQuot
    BY Sizes
  <2>2. b.header \in [0 .. HeaderSize - 1 -> 0 .. 1] /\ b.location \in [Indices -> 0 .. 1]
    BY <1>1
  <2>3. b.body \in [Indices -> 0 .. Rems - 1]
    BY <1>1, <2>1
  <2>4. b.Q_list \in QuotLists
    BY <1>1, <2>1 DEF QuotLists
  <2> QED BY <2>2, <2>3, <2>4 DEF Arrays
<1>5. ASSUME NEW i \in Indices
      PROVE  b.location[i] = 0 /\ read_quot_by_index(b.Q_list, i) = 0
  <2>1. i \div QuotsPerWord \in Words /\ i % QuotsPerWord \in InWord
    BY Sizes, IndexInWord
  <2> QED BY <1>1, <2>1 DEF read_quot_by_index
<1> HIDE DEF b, E
<1>6. Rep(b, E)
  BY <1>3, <1>4, <1>5 DEF Rep
<1>7. Ordered(b, E)
  BY <1>2 DEF Ordered
<1>8. SlotsOf(b) = NoCopies(Slots)
  <2>1. ASSUME NEW s \in Slots PROVE SlotsOf(b)[s] = 0
    <3>1. At(b, E, s) = {}
      BY <1>2, SlotParts DEF At
    <3>2. SlotsOf(b)[s] = Cardinality(At(b, E, s))
      BY <1>6, SlotsOfCounts
    <3> QED BY <3>1, <3>2, FS_EmptySet
  <2>2. SlotsOf(b) \in [Slots -> Nat]
    BY <1>6, SlotsOfCounts
  <2> QED BY <2>1, <2>2 DEF NoCopies
<1>9. Size(SlotsOf(b)) = 0
  <2>1. Copies(NoCopies(Slots)) = {}
    BY DEF Copies, NoCopies
  <2> QED BY <1>8, <2>1, FS_EmptySet DEF Size
<1>10. Fits(b)
  BY <1>2, <1>6, <1>7, <1>9 DEF Fits
<1> QED BY <1>8, <1>10 DEF b

(* An insertion that is not rejected adds a copy of the slot. *)
LEMMA InsertAdds ==
  ASSUME NEW b, Fits(b), ~is_full(b), NEW s \in Slots, NEW c, c = Inserted(b, s[1], s[2], s[3])
  PROVE  /\ Fits(c)
         /\ SlotsOf(c) = AddCopy(SlotsOf(b), s)
         /\ Size(SlotsOf(b)) < BucketCapacity
<1>1. PICK E : Rep(b, E) /\ Ordered(b, E) /\ Size(SlotsOf(b)) = Total(E)
  BY DEF Fits
<1> DEFINE i0 == InsertIndex(b, s[1], s[3][2], s[2])
           F == Grow(E, s[1])
<1>2. Ends(b.header, E) /\ s[1] \in Places
  BY <1>1, SlotParts DEF Rep
<1>3. Total(E) < BucketCapacity /\ Total(E) \in Nat
  <2>1. Total(E) \in 0 .. BucketCapacity /\ Total(E) # BucketCapacity
    BY <1>2, CapacityIsTotal
  <2> QED BY <2>1, Sizes
<1> HIDE DEF F, i0
<1>4. Rep(c, F) /\ Grown(b, E, c, F, s[1], i0) /\ SlotAt(c, i0, s[1]) = s
  BY <1>1, <1>3, InsertedIs DEF F, i0
<1>5. SlotsOf(c) = AddCopy(SlotsOf(b), s)
  BY <1>1, <1>2, <1>4, GrownAdds
<1>6. Total(F) = Total(E) + 1
  BY <1>2, <1>4, FurtherRuns DEF Rep, Grown
<1>7. Size(SlotsOf(c)) = Total(F)
  <2>1. SlotsOf(b) \in [Slots -> Nat]
    BY <1>1, SlotsOfCounts
  <2> QED BY <1>1, <1>5, <1>6, <2>1, SlotsFinite, AddedCopy
<1>8. Ordered(c, F)
  <2>1. c.body[i0] = s[3][2] /\ c.location[i0] = Bit(s[2])
    <3>1. SlotAt(c, i0, s[1]) = <<s[1], s[2], <<s[3][1], s[3][2]>>>> /\ s[2] \in BOOLEAN
      BY <1>4, SlotParts
    <3>2. c.body[i0] = s[3][2] /\ (c.location[i0] = 1) = s[2]
      BY <3>1 DEF SlotAt
    <3>3. i0 \in Indices
      BY <1>2, <1>4, RunBounds DEF Rep, Grown
    <3>4. c.location[i0] \in 0 .. 1
      BY <1>4, <3>3 DEF Rep, Arrays
    <3> QED BY <3>1, <3>2, <3>4 DEF Bit
  <2>2. /\ \A i \in Run(E, s[1]) : i < i0 =>
             Before(b.body[i], b.location[i], c.body[i0], c.location[i0])
        /\ \A i \in Run(E, s[1]) : ~(i < i0) =>
             Before(c.body[i0], c.location[i0], b.body[i], b.location[i])
    BY <1>1, <2>1, InsertIndexIs DEF i0
  <2> QED BY <1>1, <1>2, <1>4, <2>2, InsertedOrdered
<1>9. Fits(c)
  BY <1>4, <1>7, <1>8 DEF Fits
<1> QED BY <1>1, <1>3, <1>5, <1>9

(* A removal at an element's index takes a copy of its slot. *)
LEMMA RemoveTakes ==
  ASSUME NEW b, NEW E, Rep(b, E), NEW p \in Places, NEW i0 \in Run(E, p),
         NEW c, c = RemovedAt(b, p, i0)
  PROVE  /\ SlotAt(b, i0, p) \in Slots
         /\ SlotsOf(b)[SlotAt(b, i0, p)] > 0
         /\ SlotsOf(c) = RemoveCopy(SlotsOf(b), SlotAt(b, i0, p))
         /\ Ordered(b, E) /\ Size(SlotsOf(b)) = Total(E) => Fits(c)
<1> DEFINE F == Shrink(E, p)
           s == SlotAt(b, i0, p)
<1> HIDE DEF F, s
<1>1. Rep(c, F) /\ Grown(c, F, b, E, p, i0)
  BY RemovedIs DEF F
<1>2. s \in Slots /\ SlotsOf(b) = AddCopy(SlotsOf(c), s)
  BY <1>1, GrownAdds DEF s
<1>3. SlotsOf(c) \in [Slots -> Nat]
  BY <1>1, SlotsOfCounts
<1>4. /\ SlotsOf(b)[s] > 0
      /\ Size(SlotsOf(b)) = Size(SlotsOf(c)) + 1
      /\ SlotsOf(c) = RemoveCopy(SlotsOf(b), s)
      /\ Size(SlotsOf(c)) \in Nat
  BY <1>2, <1>3, SlotsFinite, AddedCopy, CopiesFinite
<1>5. ASSUME Ordered(b, E), Size(SlotsOf(b)) = Total(E) PROVE Fits(c)
  <2>1. Total(E) = Total(F) + 1
    BY <1>1, FurtherRuns DEF Rep, Grown
  <2>2. Total(F) \in Int
    BY <1>1, OnesAre, Sizes DEF Rep, Total
  <2>3. Size(SlotsOf(c)) = Total(F)
    BY <1>4, <1>5, <2>1, <2>2
  <2>4. Ordered(c, F)
    BY <1>1, <1>5, RemovedOrdered
  <2> QED BY <1>1, <2>3, <2>4 DEF Fits
<1> QED BY <1>2, <1>4, <1>5 DEF s

-----------------------------------------------------------------------------
(***************************************************************************)
(* The indices a removal and a pop take.                                   *)
(***************************************************************************)
LEMMA RemoveIndexIs ==
  ASSUME NEW b, NEW E, Rep(b, E), NEW s \in Slots, SlotsOf(b)[s] > 0
  PROVE  /\ RemoveIndex(b, s[1], s[2], s[3]) \in Run(E, s[1])
         /\ SlotAt(b, RemoveIndex(b, s[1], s[2], s[3]), s[1]) = s
<1>1. RemoveIndex(b, s[1], s[2], s[3]) = Min(At(b, E, s)) /\ At(b, E, s) # {}
  BY StoredWhenAt DEF RemoveIndex
<1>2. At(b, E, s) \in SUBSET Nat
  BY SlotParts, RunBounds DEF At, Rep
<1>3. Min(At(b, E, s)) \in At(b, E, s)
  BY <1>1, <1>2, MinOfNats
<1> QED BY <1>1, <1>3 DEF At

LEMMA PopMaskIs ==
  ASSUME NEW b, NEW E, Rep(b, E), NEW p \in Places, NEW primary \in BOOLEAN
  PROVE  /\ pop_get_mask(b, p, primary) = {i \in Run(E, p) : (b.location[i] = 1) = primary}
         /\ pop_get_mask(b, p, primary) \subseteq Indices
<1>1. RunMask(b, p) = Run(E, p) /\ \A i \in Run(E, p) : i \in Indices
  BY RunMaskIs, RunBounds DEF Rep
<1> QED BY <1>1 DEF pop_get_mask, get_location_bitmask

(* get_maximal_quot: some index has the biggest quotient, and is first. *)
LEMMA MaximalQuotIs ==
  ASSUME NEW q \in QuotLists, NEW mask \in SUBSET Indices, mask # {},
         NEW i, i = get_maximal_quot(q, mask)
  PROVE  /\ i \in mask
         /\ \A k \in mask : \/ read_quot_by_index(q, k) < read_quot_by_index(q, i)
                            \/ read_quot_by_index(q, k) = read_quot_by_index(q, i) /\ k >= i
<1> DEFINE r(k) == read_quot_by_index(q, k)
           T == {MaxSpareQuot - r(k) : k \in mask}
<1>1. \A k \in mask : r(k) \in 0 .. MaxSpareQuot /\ k \in Nat
  BY ReadType, Sizes
<1> HIDE DEF r
<1>2. PICK n \in T : \A t \in T : n <= t
  <2>1. \A k \in mask : MaxSpareQuot - r(k) \in Nat
    BY <1>1, Sizes
  <2>2. T \in SUBSET Nat /\ T # {}
    BY <2>1
  <2> HIDE DEF T
  <2> QED BY <2>2, LeastNat
<1>3. PICK m \in mask : n = MaxSpareQuot - r(m)
  OBVIOUS
<1>4. \A k \in mask : r(k) <= r(m)
  <2> SUFFICES ASSUME NEW k \in mask PROVE r(k) <= r(m)
    OBVIOUS
  <2>1. MaxSpareQuot - r(m) <= MaxSpareQuot - r(k)
    BY <1>2, <1>3
  <2> QED BY <1>1, <2>1, Sizes
<1> DEFINE U == {k \in mask : r(k) = r(m)}
<1>5. PICK j \in U : \A u \in U : j <= u
  <2>1. U \in SUBSET Nat /\ U # {}
    BY <1>1
  <2> HIDE DEF U
  <2> QED BY <2>1, LeastNat
<1>6. j \in mask /\ \A k \in mask : r(k) < r(j) \/ (r(k) = r(j) /\ k >= j)
  <2> SUFFICES ASSUME NEW k \in mask PROVE r(k) < r(j) \/ (r(k) = r(j) /\ k >= j)
    OBVIOUS
  <2>1. r(j) = r(m) /\ r(k) <= r(m) /\ r(k) \in Int /\ r(m) \in Int /\ k \in Int /\ j \in Int
    BY <1>1, <1>4
  <2>2. r(k) = r(m) => j <= k
    BY <1>5
  <2> QED BY <2>1, <2>2
<1>7. \E x \in mask : \A k \in mask : r(k) < r(x) \/ (r(k) = r(x) /\ k >= x)
  BY <1>6
<1> QED BY <1>7 DEF get_maximal_quot, r

(* A pop names an element of the place and side it was asked for. *)
LEMMA PopIndexIs ==
  ASSUME NEW b, NEW E, Rep(b, E), NEW p \in Places, NEW primary \in BOOLEAN,
         NEW i \in PopIndices(b, p, primary)
  PROVE  /\ i \in Run(E, p)
         /\ (b.location[i] = 1) = primary
         /\ \A k \in Run(E, p) : (b.location[k] = 1) = primary =>
              \/ read_quot_by_index(b.Q_list, k) < read_quot_by_index(b.Q_list, i)
              \/ read_quot_by_index(b.Q_list, k) = read_quot_by_index(b.Q_list, i) /\ k >= i
<1> DEFINE mask == pop_get_mask(b, p, primary)
<1>1. mask = {k \in Run(E, p) : (b.location[k] = 1) = primary} /\ mask \in SUBSET Indices
  BY PopMaskIs
<1> HIDE DEF mask
<1>2. mask # {} /\ i = get_maximal_quot(b.Q_list, mask)
  BY DEF PopIndices, mask
<1>3. b.Q_list \in QuotLists
  BY DEF Rep, Arrays
<1>4. /\ i \in mask
      /\ \A k \in mask :
           \/ read_quot_by_index(b.Q_list, k) < read_quot_by_index(b.Q_list, i)
           \/ read_quot_by_index(b.Q_list, k) = read_quot_by_index(b.Q_list, i) /\ k >= i
  BY <1>1, <1>2, <1>3, MaximalQuotIs
<1> QED BY <1>1, <1>4

LEMMA BagSlots == Bag!Slots = Slots
BY DEF Bag!Slots, Bag!BatchPlaces, Bag!SpareKeys, Slots

(* The nominee: the pop's key, and none if the place has nothing here. *)
LEMMA NomineesAre ==
  ASSUME NEW b, NEW E, Rep(b, E), Ordered(b, E), NEW p \in Places, NEW primary \in BOOLEAN
  PROVE  {SlotAt(b, i, p)[3] : i \in PopIndices(b, p, primary)}
           = Bag!Nominees(SlotsOf(b), p, primary)
<1> DEFINE bag == SlotsOf(b)
           mask == pop_get_mask(b, p, primary)
           key(i) == SlotAt(b, i, p)[3]
           keys == Bag!KeysOf(bag, p, primary)
<1>1. mask = {i \in Run(E, p) : (b.location[i] = 1) = primary} /\ mask \subseteq Indices
  BY PopMaskIs
<1>2. \A i \in mask : /\ key(i) = <<read_quot_by_index(b.Q_list, i), b.body[i]>>
                      /\ read_quot_by_index(b.Q_list, i) \in 0 .. MaxSpareQuot
                      /\ b.body[i] \in 0 .. Rems - 1
                      /\ SlotAt(b, i, p) = <<p, primary, key(i)>>
  BY <1>1, ReadType DEF SlotAt, Rep, Arrays
<1>3. Bag!SpareKeys = (0 .. MaxSpareQuot) \X (0 .. Rems - 1)
  BY DEF Bag!SpareKeys
<1>4. \A k : k \in keys <=> \E i \in mask : k = key(i)
  <2>1. ASSUME NEW k \in keys PROVE \E i \in mask : k = key(i)
    <3> DEFINE s == <<p, primary, k>>
    <3>1. k \in Bag!SpareKeys /\ bag[s] > 0
      BY DEF Bag!KeysOf
    <3>2. s \in Slots
      BY <1>3, <3>1 DEF Slots, Places
    <3>3. At(b, E, s) # {}
      BY <3>1, <3>2, StoredWhenAt
    <3>4. PICK i \in Run(E, p) : SlotAt(b, i, p) = s
      BY <3>3 DEF At
    <3>5. (b.location[i] = 1) = primary /\ key(i) = k
      BY <3>4 DEF SlotAt
    <3> QED BY <1>1, <3>5
  <2>2. ASSUME NEW i \in mask PROVE key(i) \in keys
    <3> DEFINE s == <<p, primary, key(i)>>
    <3>0. i \in Run(E, p) /\ SlotAt(b, i, p) = s
      BY <1>1, <1>2
    <3> HIDE DEF key, mask, s
    <3>1. i \in Run(E, p) /\ SlotAt(b, i, p) = s /\ key(i) \in Bag!SpareKeys
      BY <1>2, <1>3, <3>0
    <3> USE DEF s
    <3>2. s \in Slots
      BY <1>3, <3>1 DEF Slots, Places
    <3>3. i \in At(b, E, s)
      BY <3>1 DEF At
    <3>4. bag[s] > 0
      BY <3>2, <3>3, StoredWhenAt
    <3> QED BY <3>1, <3>4 DEF Bag!KeysOf
  <2> HIDE DEF keys, mask, key
  <2> QED BY <2>1, <2>2
<1>5. Bag!Nominees(bag, p, primary) = {k \in keys : \A other \in keys : ~Bag!PopsBefore(other, k)}
  BY DEF Bag!Nominees
<1>6. CASE mask = {}
  <2>1. PopIndices(b, p, primary) = {}
    BY <1>6 DEF PopIndices
  <2>2. keys = {}
    <3> HIDE DEF keys, mask, key
    <3> QED BY <1>4, <1>6
  <2> QED BY <1>5, <2>1, <2>2
<1>7. CASE mask # {}
  <2> DEFINE g == get_maximal_quot(b.Q_list, mask)
  <2>1. PopIndices(b, p, primary) = {g}
    BY <1>7 DEF PopIndices
  <2> HIDE DEF g
  <2>2. /\ g \in Run(E, p) /\ (b.location[g] = 1) = primary
        /\ \A k \in mask :
             \/ read_quot_by_index(b.Q_list, k) < read_quot_by_index(b.Q_list, g)
             \/ read_quot_by_index(b.Q_list, k) = read_quot_by_index(b.Q_list, g) /\ k >= g
    BY <1>1, <2>1, PopIndexIs
  <2>3. g \in mask
    BY <1>1, <2>2
  <2>4. \A i \in mask : ~Bag!PopsBefore(key(i), key(g))
    <3> SUFFICES ASSUME NEW i \in mask PROVE ~Bag!PopsBefore(key(i), key(g))
      OBVIOUS
    <3>1. i \in Nat /\ g \in Nat /\ i \in Run(E, p)
      BY <1>1, <2>3, Sizes
    <3>2. i > g => b.body[g] <= b.body[i]
      <4>1. i > g => Before(b.body[g], b.location[g], b.body[i], b.location[i])
        BY <2>2, <3>1 DEF Ordered
      <4>2. b.body[g] \in Int /\ b.body[i] \in Int
        BY <1>2, <2>3, Sizes
      <4> QED BY <4>1, <4>2 DEF Before
    <3>3. read_quot_by_index(b.Q_list, i) < read_quot_by_index(b.Q_list, g)
          \/ (read_quot_by_index(b.Q_list, i) = read_quot_by_index(b.Q_list, g)
              /\ b.body[g] <= b.body[i])
      <4>1. i = g \/ i > g => (i = g \/ b.body[g] <= b.body[i])
        BY <3>2
      <4>2. b.body[g] \in Int
        BY <1>2, <2>3, Sizes
      <4> QED BY <2>2, <3>1, <3>2, <4>2
    <3>4. /\ key(i) = <<read_quot_by_index(b.Q_list, i), b.body[i]>>
          /\ key(g) = <<read_quot_by_index(b.Q_list, g), b.body[g]>>
          /\ read_quot_by_index(b.Q_list, i) \in Int /\ read_quot_by_index(b.Q_list, g) \in Int
          /\ b.body[i] \in Int /\ b.body[g] \in Int
      BY <1>2, <2>3, Sizes
    <3> HIDE DEF key
    <3> QED BY <3>3, <3>4 DEF Bag!PopsBefore
  <2>5. key(g) \in Bag!Nominees(bag, p, primary)
    <3> HIDE DEF keys, mask, key
    <3> QED BY <1>4, <1>5, <2>3, <2>4
  <2>6. ASSUME NEW k \in Bag!Nominees(bag, p, primary) PROVE k = key(g)
    <3>1. k \in keys /\ ~Bag!PopsBefore(key(g), k)
      <4> HIDE DEF keys, mask, key
      <4> QED BY <1>4, <1>5, <2>3, <2>6
    <3>2. PICK i \in mask : k = key(i)
      <4> HIDE DEF keys, mask, key
      <4> QED BY <1>4, <3>1
    <3>3. ~Bag!PopsBefore(key(i), key(g)) /\ ~Bag!PopsBefore(key(g), key(i))
      <4> HIDE DEF keys, mask, key
      <4> QED BY <2>4, <3>1, <3>2
    <3>4. /\ key(i) = <<read_quot_by_index(b.Q_list, i), b.body[i]>>
          /\ key(g) = <<read_quot_by_index(b.Q_list, g), b.body[g]>>
          /\ read_quot_by_index(b.Q_list, i) \in Int /\ read_quot_by_index(b.Q_list, g) \in Int
          /\ b.body[i] \in Int /\ b.body[g] \in Int
      BY <1>2, <2>3, Sizes
    <3> HIDE DEF key, keys, mask
    <3> QED BY <3>2, <3>3, <3>4 DEF Bag!PopsBefore
  <2> HIDE DEF key, keys, mask, bag
  <2>7. Bag!Nominees(bag, p, primary) = {key(g)}
    BY <2>5, <2>6
  <2>8. {key(i) : i \in PopIndices(b, p, primary)} = {key(g)}
    BY <2>1
  <2> QED BY <2>7, <2>8 DEF key, bag
<1> QED BY <1>6, <1>7

-----------------------------------------------------------------------------
(***************************************************************************)
(* The invariant is inductive, and every step is one of the multiset's.    *)
(***************************************************************************)
LEMMA InitFits ==
  ASSUME Init
  PROVE  IInv /\ SlotsOf(bucket) = NoCopies(Slots)
<1>1. bucket = EmptyBucket
  BY DEF Init, EmptyBucket
<1> QED BY <1>1, EmptyFits DEF IInv

LEMMA InsertStep ==
  ASSUME IInv, NEW s \in UsedSlots, insert_helper(s[1], s[2], s[3])
  PROVE  /\ IInv'
         /\ Size(SlotsOf(bucket)) < BucketCapacity
         /\ SlotsOf(bucket)' = AddCopy(SlotsOf(bucket), s)
<1>1. s \in Slots
  BY UsedSlotsAreSlots
<1>2. ~is_full(bucket) /\ bucket' = Inserted(bucket, s[1], s[2], s[3]) /\ Fits(bucket)
  BY DEF insert_helper, IInv
<1>3. Fits(bucket') /\ SlotsOf(bucket') = AddCopy(SlotsOf(bucket), s)
      /\ Size(SlotsOf(bucket)) < BucketCapacity
  BY <1>1, <1>2, InsertAdds
<1> QED BY <1>3 DEF IInv

(* A removal at an index of the place. *)
LEMMA RemoveStep ==
  ASSUME IInv, NEW E, Rep(bucket, E), Ordered(bucket, E), Size(SlotsOf(bucket)) = Total(E),
         NEW p \in Places, NEW i \in Run(E, p), bucket' = RemovedAt(bucket, p, i)
  PROVE  /\ IInv'
         /\ \E s \in Support(SlotsOf(bucket)) : SlotsOf(bucket)' = RemoveCopy(SlotsOf(bucket), s)
<1> DEFINE s == SlotAt(bucket, i, p)
<1> HIDE DEF s
<1>1. /\ s \in Slots /\ SlotsOf(bucket)[s] > 0
      /\ SlotsOf(bucket') = RemoveCopy(SlotsOf(bucket), s)
      /\ Fits(bucket')
  BY RemoveTakes DEF s
<1>2. DOMAIN SlotsOf(bucket) = Slots
  BY SlotsOfCounts
<1>3. s \in Support(SlotsOf(bucket))
  BY <1>1, <1>2 DEF Support
<1> QED BY <1>1, <1>3 DEF IInv

(* One step: the three actions, and a stutter. *)
SlotStep ==
  \/ /\ Size(SlotsOf(bucket)) < BucketCapacity
     /\ \E s \in Slots : SlotsOf(bucket)' = AddCopy(SlotsOf(bucket), s)
  \/ \E s \in Support(SlotsOf(bucket)) : SlotsOf(bucket)' = RemoveCopy(SlotsOf(bucket), s)
  \/ SlotsOf(bucket)' = SlotsOf(bucket)

LEMMA StepFits ==
  ASSUME IInv, [Next]_bucket
  PROVE  IInv' /\ SlotStep
<1>1. CASE UNCHANGED bucket
  BY <1>1 DEF IInv, SlotStep
<1>2. CASE Next
  <2>1. PICK s \in UsedSlots : \/ insert_helper(s[1], s[2], s[3])
                               \/ insert_rejected(s[1], s[2], s[3])
                               \/ remove_helper(s[1], s[2], s[3])
    BY <1>2 DEF Next
  <2>2. s \in Slots /\ s[1] \in Places /\ s[2] \in BOOLEAN
    BY UsedSlotsAreSlots, SlotParts
  <2>3. PICK E : Rep(bucket, E) /\ Ordered(bucket, E) /\ Size(SlotsOf(bucket)) = Total(E)
    BY DEF IInv, Fits
  <2>4. CASE insert_helper(s[1], s[2], s[3])
    BY <2>2, <2>4, InsertStep DEF SlotStep
  <2>5. CASE insert_rejected(s[1], s[2], s[3])
    BY <2>5 DEF insert_rejected, IInv, SlotStep
  <2>6. CASE remove_helper(s[1], s[2], s[3])
    <3> DEFINE i == RemoveIndex(bucket, s[1], s[2], s[3])
    <3>1. SlotsOf(bucket)[s] > 0
      BY <2>2, <2>3, <2>6, StoredWhenAt DEF remove_helper, find_helper
    <3>2. i \in Run(E, s[1])
      BY <2>2, <2>3, <3>1, RemoveIndexIs
    <3>3. bucket' = RemovedAt(bucket, s[1], i)
      BY <2>6 DEF remove_helper
    <3> HIDE DEF i
    <3> QED BY <2>2, <2>3, <3>2, <3>3, RemoveStep DEF SlotStep
  <2> QED BY <2>1, <2>4, <2>5, <2>6
<1> QED BY <1>1, <1>2

(* In every state the arrays represent some ends, in order. *)
THEOREM Invariance == Spec => []IInv
<1>1. Init => IInv
  BY InitFits
<1>2. IInv /\ [Next]_bucket => IInv'
  BY StepFits
<1> QED BY <1>1, <1>2, PTL DEF Spec

-----------------------------------------------------------------------------
LEMMA TypeFollows ==
  ASSUME IInv
  PROVE  TypeOK
<1>1. PICK E : Rep(bucket, E)
  BY DEF IInv, Fits
<1>2. Popcount(bucket.header) = BatchSize
  BY <1>1, PopcountIs DEF Rep, Ends
<1>3. Cardinality(Elements(bucket)) = Total(E)
  BY <1>1, ElementsCount DEF Rep, Arrays
<1> QED BY <1>1, <1>2, <1>3 DEF TypeOK, Rep, Arrays, QuotLists

(***************************************************************************)
(* The four arrays keep their widths; the header always ends as many runs  *)
(* as there are places, and past the last element no location bit and no   *)
(* quotient is left over.                                                  *)
(***************************************************************************)
THEOREM Typed == Spec => []TypeOK
<1>1. IInv => TypeOK
  BY TypeFollows
<1> QED BY <1>1, Invariance, PTL

LEMMA FindsFollows ==
  ASSUME IInv
  PROVE  FindsTheSlots
<1>1. PICK E : Rep(bucket, E) /\ Size(SlotsOf(bucket)) = Total(E)
  BY DEF IInv, Fits
<1>2. ASSUME NEW s \in Bag!Slots
      PROVE  find_helper(bucket, s[1], s[2], s[3]) <=> SlotsOf(bucket)[s] > 0
  <2>1. s \in Slots
    BY BagSlots
  <2> QED BY <1>1, <2>1, StoredWhenAt DEF find_helper
<1>3. get_capacity(bucket) = Size(SlotsOf(bucket))
  BY <1>1, CapacityIsTotal DEF Rep
<1> QED BY <1>2, <1>3 DEF FindsTheSlots

(***************************************************************************)
(* find_helper answers yes exactly for the slots stored, wherever the run  *)
(* of the place lies in the header's two words, and get_capacity counts    *)
(* them.                                                                   *)
(***************************************************************************)
THEOREM FindsExactly == Spec => []FindsTheSlots
<1>1. IInv => FindsTheSlots
  BY FindsFollows
<1> QED BY <1>1, Invariance, PTL

LEMMA ContiguousFollows ==
  ASSUME IInv
  PROVE  FindMaskIsContiguous
<1>1. PICK E : Rep(bucket, E) /\ Ordered(bucket, E)
  BY DEF IInv, Fits
<1> SUFFICES ASSUME NEW s \in Bag!Slots,
                    NEW i \in find(bucket, s[1], s[3][2], s[2]),
                    NEW k \in find(bucket, s[1], s[3][2], s[2]),
                    NEW j \in i .. k
             PROVE  j \in find(bucket, s[1], s[3][2], s[2])
  BY DEF FindMaskIsContiguous
<1> DEFINE p == s[1]
           rem == s[3][2]
<1>2. s \in Slots /\ p \in Places /\ s[2] \in BOOLEAN
  BY BagSlots, SlotParts
<1>3. RunMask(bucket, p) = Run(E, p)
  BY <1>1, <1>2, RunMaskIs DEF Rep
<1>4. \A m \in Run(E, p) : /\ m \in Indices /\ m \in Int
                           /\ bucket.body[m] \in Int /\ bucket.location[m] \in 0 .. 1
  <2>1. \A m \in Run(E, p) : m \in Indices /\ m \in Int
    BY <1>1, <1>2, RunBounds DEF Rep
  <2>2. \A m \in Indices : bucket.body[m] \in 0 .. Rems - 1 /\ bucket.location[m] \in 0 .. 1
    BY <1>1 DEF Rep, Arrays
  <2>3. \A x \in 0 .. Rems - 1 : x \in Int
    BY Sizes
  <2> QED BY <2>1, <2>2, <2>3
<1>5. \A m : m \in find(bucket, p, rem, s[2]) <=>
               m \in Run(E, p) /\ bucket.body[m] = rem /\ (bucket.location[m] = 1) = s[2]
  BY <1>3, <1>4 DEF find, body_find, get_location_bitmask
<1> HIDE DEF p, rem
<1>6. /\ i \in Run(E, p) /\ bucket.body[i] = rem /\ (bucket.location[i] = 1) = s[2]
      /\ k \in Run(E, p) /\ bucket.body[k] = rem /\ (bucket.location[k] = 1) = s[2]
  BY <1>5 DEF p, rem
<1>7. i \in Int /\ k \in Int /\ j \in Int /\ i <= j /\ j <= k /\ j \in Run(E, p)
  <2>1. i \in Int /\ k \in Int
    BY <1>4, <1>6
  <2>2. Begin(E, p) \in Int /\ E[p] \in Int
    BY <1>1, <1>2, BeginAndEnd DEF Rep
  <2> QED BY <1>6, <2>1, <2>2 DEF Run
<1>8. /\ i = j \/ Before(bucket.body[i], bucket.location[i], bucket.body[j], bucket.location[j])
      /\ j = k \/ Before(bucket.body[j], bucket.location[j], bucket.body[k], bucket.location[k])
  <2>1. (i = j \/ i < j) /\ (j = k \/ j < k)
    BY <1>7
  <2> QED BY <1>1, <1>2, <1>6, <1>7, <2>1 DEF Ordered
<1>9. bucket.body[j] = rem /\ bucket.location[j] = bucket.location[i]
  <2>1. bucket.body[i] \in Int /\ bucket.body[j] \in Int
        /\ bucket.location[i] \in 0 .. 1 /\ bucket.location[j] \in 0 .. 1
        /\ bucket.location[k] \in 0 .. 1
    BY <1>4, <1>6, <1>7
  <2>2. bucket.location[i] = bucket.location[k]
    BY <1>6, <2>1
  <2> QED BY <1>6, <1>8, <2>1, <2>2 DEF Before
<1>10. j \in find(bucket, p, rem, s[2])
  BY <1>5, <1>6, <1>7, <1>9
<1> QED BY <1>10 DEF p, rem

(***************************************************************************)
(* Elements with the same remainder on the same side of a place lie side   *)
(* by side, as find asserts: insertions keep each run ordered by remainder *)
(* and, among equal ones, secondary before primary.                        *)
(***************************************************************************)
THEOREM MasksAreContiguous == Spec => []FindMaskIsContiguous
<1>1. IInv => FindMaskIsContiguous
  BY ContiguousFollows
<1> QED BY <1>1, Invariance, PTL

LEMMA TakesFollows ==
  ASSUME IInv
  PROVE  TakesTheOneMeant
<1>1. PICK E : Rep(bucket, E) /\ Ordered(bucket, E)
  BY DEF IInv, Fits
<1>2. ASSUME NEW s \in Support(SlotsOf(bucket))
      PROVE  SlotsOf(RemovedAt(bucket, s[1], RemoveIndex(bucket, s[1], s[2], s[3])))
               = RemoveCopy(SlotsOf(bucket), s)
  <2> DEFINE i == RemoveIndex(bucket, s[1], s[2], s[3])
  <2>1. s \in Slots /\ SlotsOf(bucket)[s] > 0
    <3>1. DOMAIN SlotsOf(bucket) = Slots
      BY <1>1, SlotsOfCounts
    <3> QED BY <3>1 DEF Support
  <2>2. i \in Run(E, s[1]) /\ SlotAt(bucket, i, s[1]) = s /\ s[1] \in Places
    BY <1>1, <2>1, RemoveIndexIs, SlotParts
  <2> HIDE DEF i
  <2>3. SlotsOf(RemovedAt(bucket, s[1], i)) = RemoveCopy(SlotsOf(bucket), s)
    BY <1>1, <2>2, RemoveTakes
  <2> QED BY <2>3 DEF i
<1>3. ASSUME NEW place \in 0 .. BatchSize - 1, NEW primary \in BOOLEAN
      PROVE  {SlotAt(bucket, i, place)[3] : i \in PopIndices(bucket, place, primary)}
               = Bag!Nominees(SlotsOf(bucket), place, primary)
  BY <1>1, NomineesAre DEF Places
<1> QED BY <1>2, <1>3 DEF TakesTheOneMeant

(***************************************************************************)
(* A removal takes a copy of the slot asked for and leaves every other;    *)
(* the pop takes the biggest quotient and of those the smallest remainder, *)
(* which is the nominee that PackedSpare pops.                             *)
(***************************************************************************)
THEOREM TakesExactly == Spec => []TakesTheOneMeant
<1>1. IInv => TakesTheOneMeant
  BY TakesFollows
<1> QED BY <1>1, Invariance, PTL

(* SlotBag's operators on multisets are those of this module. *)
LEMMA BagOperators ==
  /\ \A b : Bag!Size(b) = Size(b) /\ Bag!Support(b) = Support(b)
  /\ \A b, x : Bag!AddCopy(b, x) = AddCopy(b, x) /\ Bag!RemoveCopy(b, x) = RemoveCopy(b, x)
<1>1. \A S : Bag!Cardinality(S) = Cardinality(S)
  BY DEF Bag!Cardinality, Cardinality
<1>2. \A b : Bag!Copies(b) = Copies(b)
  BY DEF Bag!Copies, Copies
<1>3. \A b : Bag!Size(b) = Size(b)
  BY <1>1, <1>2 DEF Bag!Size, Size
<1>4. \A b : Bag!Support(b) = Support(b)
  BY DEF Bag!Support, Support
<1>5. \A b, x : Bag!AddCopy(b, x) = AddCopy(b, x)
  BY DEF Bag!AddCopy, AddCopy
<1>6. \A b, x : Bag!RemoveCopy(b, x) = RemoveCopy(b, x)
  BY DEF Bag!RemoveCopy, RemoveCopy
<1> QED BY <1>3, <1>4, <1>5, <1>6

(***************************************************************************)
(* The bits implement the multiset of slots: they start empty, and every   *)
(* operation adds a copy when fewer than the capacity are there, or takes  *)
(* one, or leaves the multiset as it was.                                  *)
(***************************************************************************)
THEOREM Implements == Spec => KeepsSlots
<1>1. Init => Bag!Init
  <2> SUFFICES ASSUME Init PROVE Bag!Init
    OBVIOUS
  <2>1. SlotsOf(bucket) = NoCopies(Slots)
    BY InitFits
  <2> QED BY <2>1, BagSlots DEF Bag!Init, Bag!NoCopies, NoCopies
<1>2. IInv /\ [Next]_bucket => [Bag!Next]_(SlotsOf(bucket))
  <2> SUFFICES ASSUME IInv, [Next]_bucket PROVE [Bag!Next]_(SlotsOf(bucket))
    OBVIOUS
  <2>1. SlotStep
    BY StepFits
  <2>2. CASE /\ Size(SlotsOf(bucket)) < BucketCapacity
             /\ \E s \in Slots : SlotsOf(bucket)' = AddCopy(SlotsOf(bucket), s)
    <3>1. Bag!Put
      BY <2>2, BagSlots, BagOperators DEF Bag!Put
    <3> QED BY <3>1 DEF Bag!Next
  <2>3. CASE \E s \in Support(SlotsOf(bucket)) :
               SlotsOf(bucket)' = RemoveCopy(SlotsOf(bucket), s)
    <3>1. Bag!Take
      BY <2>3, BagOperators DEF Bag!Take
    <3> QED BY <3>1 DEF Bag!Next
  <2>4. CASE SlotsOf(bucket)' = SlotsOf(bucket)
    BY <2>4
  <2> QED BY <2>1, <2>2, <2>3, <2>4 DEF SlotStep
<1> QED BY <1>1, <1>2, Invariance, PTL DEF Spec, KeepsSlots, Bag!Spec

=============================================================================
