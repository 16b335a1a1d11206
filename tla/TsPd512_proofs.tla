--------------------------- MODULE TsPd512_proofs ---------------------------
(***************************************************************************)
(* The bits of a pocket dictionary of DictApx512 are the runs EvictingPd   *)
(* takes it to be.  The header has the layout of a bucket of the spare, a  *)
(* place for each quotient, so SpareBucket_proofs' lemmas on words and     *)
(* headers apply; the body, the eviction and the padding are other.        *)
(***************************************************************************)
EXTENDS TsPd512, FiniteSetTheorems, SequenceTheorems, WellFoundedInduction, TLAPS

B == INSTANCE SpareBucket_proofs WITH
  Quots <- QUOTS, Rems <- 1, BatchSize <- QUOTS, BucketCapacity <- MAX_CAPACITY,
  MaxSpareQuot <- 0, QuotsPerWord <- 1, UsedSlots <- {}, bucket <- pd

LEMMA Sizes ==
  /\ QUOTS \in Nat \ {0} /\ MAX_CAPACITY \in Nat \ {0} /\ WORD_BITS \in Nat
  /\ HeaderBits = QUOTS + MAX_CAPACITY /\ HeaderBits \in Nat
  /\ MAX_CAPACITY < WORD_BITS /\ QUOTS < WORD_BITS /\ WORD_BITS < HeaderBits
  /\ 0 \in Quots /\ QUOTS - 1 \in Quots /\ Quots \subseteq Nat /\ Places \subseteq Nat
BY PdSizesAreNatural, WordSizeFits DEF HeaderBits, Quots, Places

(* The assumptions of SpareBucket hold of these sizes. *)
LEMMA Assumptions == B!ItemKeysAssumption /\ B!BucketSizes /\ B!UsedSlotsAreSlots
<1>1. B!ItemKeysAssumption
  BY Sizes DEF B!ItemKeysAssumption
<1>2. B!BucketSizes
  <2>1. MAX_CAPACITY % 1 = 0
    BY Sizes
  <2> QED BY <2>1, Sizes DEF B!BucketSizes, B!HeaderSize
<1>3. B!UsedSlotsAreSlots
  BY DEF B!UsedSlotsAreSlots
<1> QED BY <1>1, <1>2, <1>3

LEMMA BOperators ==
  /\ B!Places = Quots /\ B!Indices = Places /\ B!HeaderSize = HeaderBits
  /\ \A w : B!Popcount(w) = Popcount(w)
  /\ \A w, i : B!OnesBelow(w, i) = OnesBelow(w, i)
  /\ \A w, i : B!Select(w, i) = Select(w, i)
  /\ \A w : B!LastOne(w) = LastOne(w)
  /\ \A w, i : B!InsertZero(w, i) = InsertZero(w, i)
  /\ \A w, i : B!DeleteZero(w, i) = DeleteZero(w, i)
  /\ \A h : B!Lo(h) = H0(h)
  /\ \A S : B!Max(S) = Max(S) /\ B!Min(S) = Min(S)
  /\ \A S : B!IsFiniteSet(S) = IsFiniteSet(S)
<1>1. B!Places = Quots /\ B!Indices = Places /\ B!HeaderSize = HeaderBits
  BY Sizes DEF B!Places, Quots, B!Indices, Places, B!HeaderSize, HeaderBits
<1>2. \A S : B!Cardinality(S) = Cardinality(S)
  BY DEF B!Cardinality, Cardinality
<1>3. \A w : B!SetBits(w) = SetBits(w)
  BY DEF B!SetBits, SetBits
<1>4. \A w : B!Popcount(w) = Popcount(w)
  BY <1>2, <1>3 DEF B!Popcount, Popcount
<1>5. \A w, i : B!OnesBelow(w, i) = OnesBelow(w, i)
  BY <1>2, <1>3 DEF B!OnesBelow, OnesBelow
<1>6. \A w, i : B!Select(w, i) = Select(w, i)
  BY <1>3, <1>5 DEF B!Select, Select
<1>7. \A S : B!Max(S) = Max(S)
  BY DEF B!Max, Max
<1>8. \A w : B!LastOne(w) = LastOne(w)
  BY <1>3, <1>7 DEF B!LastOne, LastOne
<1>9. \A w, i : B!InsertZero(w, i) = InsertZero(w, i)
  BY DEF B!InsertZero, InsertZero, B!ShiftIn, ShiftIn
<1>10. \A w, i : B!DeleteZero(w, i) = DeleteZero(w, i)
  BY DEF B!DeleteZero, DeleteZero, B!ShiftOut, ShiftOut
<1>11. \A h : B!Lo(h) = H0(h)
  BY DEF B!Lo, H0
<1>12. \A S : B!Min(S) = Min(S)
  BY DEF B!Min, Min
<1>13. \A S : B!IsFiniteSet(S) = IsFiniteSet(S)
  BY DEF B!IsFiniteSet, IsFiniteSet
<1> QED BY <1>1, <1>4, <1>5, <1>6, <1>7, <1>8, <1>9, <1>10, <1>11, <1>12, <1>13

-----------------------------------------------------------------------------
(***************************************************************************)
(* The header.  E[q] is the number of elements of the quotients up to q;   *)
(* the 1 of q is behind those and behind the 1s of the quotients before.   *)
(***************************************************************************)
Ends(h, E) ==
  /\ E \in [Quots -> 0 .. MAX_CAPACITY]
  /\ \A q, r \in Quots : q < r => E[q] <= E[r]
  /\ h \in [0 .. HeaderBits - 1 -> 0 .. 1]
  /\ \A i \in 0 .. HeaderBits - 1 : h[i] = 1 <=> \E q \in Quots : i = E[q] + q

Begin(E, quot) == IF quot = 0 THEN 0 ELSE E[quot - 1]

Run(E, quot) == Begin(E, quot) .. E[quot] - 1

Total(E) == E[QUOTS - 1]

LEMMA EndsAre ==
  ASSUME NEW h \in [0 .. HeaderBits - 1 -> 0 .. 1], NEW E
  PROVE  Ends(h, E) <=> B!Ends(h, E)
<1>1. ASSUME Ends(h, E) PROVE B!Ends(h, E)
  <2>1. /\ E \in [B!Places -> 0 .. MAX_CAPACITY]
        /\ \A q, r \in B!Places : q < r => E[q] <= E[r]
        /\ DOMAIN h = 0 .. B!HeaderSize - 1
        /\ \A i \in 0 .. B!HeaderSize - 1 : h[i] = 1 <=> \E q \in B!Places : i = E[q] + q
    BY <1>1, BOperators DEF Ends
  <2> QED BY <2>1, Assumptions, B!EndsIf
<1>2. ASSUME B!Ends(h, E) PROVE Ends(h, E)
  <2>1. E \in [Quots -> 0 .. MAX_CAPACITY]
    BY <1>2, BOperators DEF B!Ends
  <2>2. \A q \in Quots : B!Ones(E)[q] = E[q] + q
    BY BOperators DEF B!Ones
  <2>3. \A q, r \in Quots : q < r => E[q] <= E[r]
    BY <1>2, BOperators DEF B!Ends
  <2>4. \A i \in 0 .. HeaderBits - 1 : h[i] = 1 <=> \E q \in Quots : i = B!Ones(E)[q]
    BY <1>2, BOperators DEF B!Ends, B!Marks, Quots
  <2> QED BY <2>1, <2>2, <2>3, <2>4 DEF Ends
<1> QED BY <1>1, <1>2

LEMMA MarksAre ==
  ASSUME NEW h, NEW E, Ends(h, E)
  PROVE  /\ B!Marks(h, HeaderBits, B!Ones(E), QUOTS)
         /\ \A q \in Quots : B!Ones(E)[q] = E[q] + q
<1>1. B!Ends(h, E)
  BY EndsAre DEF Ends
<1> QED BY <1>1, BOperators DEF B!Ends, B!Ones

LEMMA EndTypes ==
  ASSUME NEW h, NEW E, Ends(h, E), NEW quot \in Quots
  PROVE  /\ quot \in Nat /\ quot < QUOTS
         /\ E[quot] \in 0 .. MAX_CAPACITY /\ Begin(E, quot) \in 0 .. E[quot]
         /\ quot # 0 => quot - 1 \in Quots
         /\ E[quot] <= Total(E) /\ Total(E) \in 0 .. MAX_CAPACITY
<1>1. quot \in Nat /\ quot < QUOTS /\ (quot # 0 => quot - 1 \in Quots)
  BY Sizes DEF Quots
<1>2. \A q \in Quots : E[q] \in 0 .. MAX_CAPACITY
  BY DEF Ends
<1>3. Begin(E, quot) \in 0 .. E[quot]
  <2>1. quot # 0 => E[quot - 1] <= E[quot]
    BY <1>1, Sizes DEF Ends
  <2> QED BY <1>1, <1>2, <2>1, Sizes DEF Begin
<1>4. E[quot] <= Total(E)
  <2>1. quot = QUOTS - 1 \/ quot < QUOTS - 1
    BY <1>1, Sizes
  <2> QED BY <1>2, <2>1, Sizes DEF Ends, Total
<1> QED BY <1>1, <1>2, <1>3, <1>4, Sizes DEF Total

(* What the instructions find in the whole header. *)
LEMMA HeaderReads ==
  ASSUME NEW h, NEW E, Ends(h, E)
  PROVE  /\ Popcount(h) = QUOTS
         /\ \A q \in Quots : Select(h, q) = E[q] + q
         /\ \A q \in Quots : RunBegin(h, q) = Begin(E, q) + q
<1>1. Popcount(h) = QUOTS
  <2>1. B!Marks(h, HeaderBits, B!Ones(E), QUOTS)
    BY MarksAre
  <2>2. B!Popcount(h) = QUOTS
    BY <2>1, Assumptions, B!PopcountIs
  <2> QED BY <2>2, BOperators
<1>2. \A q \in Quots : Select(h, q) = E[q] + q
  <2> SUFFICES ASSUME NEW q \in Quots PROVE Select(h, q) = E[q] + q
    OBVIOUS
  <2>1. q \in 0 .. QUOTS - 1
    BY DEF Quots
  <2>2. B!Select(h, q) = B!Ones(E)[q]
    BY <2>1, MarksAre, Assumptions, B!SelectIs
  <2> QED BY <2>2, MarksAre, BOperators
<1>3. ASSUME NEW q \in Quots PROVE RunBegin(h, q) = Begin(E, q) + q
  <2>1. q # 0 => q - 1 \in Quots /\ E[q - 1] \in Int /\ q \in Int
    BY EndTypes
  <2> QED BY <1>2, <2>1 DEF RunBegin, Begin
<1> QED BY <1>1, <1>2, <1>3

LEMMA MinIs ==
  ASSUME NEW S \in SUBSET Int, NEW x \in S, \A y \in S : x <= y
  PROVE  Min(S) = x
BY Assumptions, B!MinIs, BOperators

LEMMA MaxIs ==
  ASSUME NEW S \in SUBSET Int, NEW x \in S, \A y \in S : y <= x
  PROVE  Max(S) = x
BY Assumptions, B!MaxIs, BOperators

LEMMA LeastNat ==
  ASSUME NEW T \in SUBSET Nat, T # {}
  PROVE  \E n \in T : \A m \in T : n <= m
BY Assumptions, B!LeastNat

LEMMA EndsBeforeBegin ==
  ASSUME NEW h, NEW E, Ends(h, E), NEW q \in Quots, NEW p \in Quots, q < p
  PROVE  E[q] <= Begin(E, p)
<1>1. q \in Nat /\ p \in Nat /\ p # 0 /\ p - 1 \in Quots /\ E[q] \in Int
  BY EndTypes, Sizes
<1>2. q = p - 1 \/ q < p - 1
  BY <1>1
<1>3. q < p - 1 => E[q] <= E[p - 1]
  BY <1>1 DEF Ends
<1> QED BY <1>1, <1>2, <1>3 DEF Begin

(***************************************************************************)
(* The header's two words.  The first has m of the 1s, that of quotient 0  *)
(* among them, since there are too few 0s to fill it; the second has the   *)
(* others and the padding behind them.                                     *)
(***************************************************************************)
LEMMA WordsSplit ==
  ASSUME NEW h, NEW E, Ends(h, E)
  PROVE  \E m \in 1 .. QUOTS :
           /\ Popcount(H0(h)) = m
           /\ \A q \in Quots : q < m => Select(H0(h), q) = E[q] + q
           /\ \A q \in Quots : m <= q => /\ Select(H1(h), q - m) \in Int
                                        /\ WORD_BITS + Select(H1(h), q - m) = E[q] + q
           /\ LastOne(H0(h)) = E[m - 1] + m - 1
           /\ \A q \in Quots : q < m <=> E[q] + q < WORD_BITS
<1>1. B!Ends(h, E)
  BY EndsAre DEF Ends
<1>2. PICK m \in 0 .. QUOTS :
         /\ B!Marks(B!Lo(h), WORD_BITS, B!LoMarks(E, m), m)
         /\ B!Marks(B!Hi(h), B!HeaderSize - WORD_BITS, B!HiMarks(E, m), QUOTS - m)
         /\ B!Popcount(B!Lo(h)) = m
  BY <1>1, Assumptions, B!HeaderSplits
<1>3. B!Marks(H0(h), WORD_BITS, B!LoMarks(E, m), m)
  BY <1>2, BOperators
<1>4. \A q \in 0 .. m - 1 : q \in Quots /\ B!LoMarks(E, m)[q] = E[q] + q
  <2>1. \A q \in 0 .. m - 1 : q \in Quots
    BY Sizes DEF Quots
  <2> QED BY <2>1, MarksAre DEF B!LoMarks
<1>5. \A q \in 0 .. m - 1 : Select(H0(h), q) = E[q] + q
  <2> SUFFICES ASSUME NEW q \in 0 .. m - 1 PROVE Select(H0(h), q) = E[q] + q
    OBVIOUS
  <2>1. B!Select(H0(h), q) = B!LoMarks(E, m)[q]
    BY <1>3, Assumptions, B!SelectIs
  <2> QED BY <1>4, <2>1, BOperators
<1>6. m > 0
  <2>1. E[0] \in 0 .. WORD_BITS - 1 /\ E[0] \in 0 .. HeaderBits - 1
    BY EndTypes, Sizes
  <2>2. h[E[0]] = 1
    BY <2>1, Sizes DEF Ends
  <2>3. H0(h)[E[0]] = 1
    BY <2>1, <2>2 DEF H0
  <2>4. \E q \in 0 .. m - 1 : E[0] = B!LoMarks(E, m)[q]
    BY <1>3, <2>1, <2>3 DEF B!Marks
  <2> QED BY <2>4
<1>7. LastOne(H0(h)) = E[m - 1] + m - 1
  <2>1. B!LastOne(H0(h)) = B!LoMarks(E, m)[m - 1]
    BY <1>3, <1>6, Assumptions, B!FirstAndLastOne
  <2>2. m - 1 \in 0 .. m - 1
    BY <1>6
  <2>3. E[m - 1] + (m - 1) = E[m - 1] + m - 1
    BY <1>4, <2>2, EndTypes
  <2> QED BY <1>4, <2>1, <2>2, <2>3, BOperators
<1>8. B!Marks(H1(h), HeaderBits - WORD_BITS + 1, B!HiMarks(E, m), QUOTS - m)
  <2> DEFINE n == HeaderBits - WORD_BITS
             f == B!HiMarks(E, m)
             k == QUOTS - m
  <2>1. B!Marks(B!Hi(h), n, f, k)
    BY <1>2, BOperators
  <2>2. n \in Nat \ {0} /\ 0 .. n - 1 \subseteq 0 .. n /\ n + 1 \in Nat /\ (n + 1) - 1 = n
    BY Sizes
  <2>3. \A i \in 0 .. n : H1(h)[i] = 1 <=> i \in 0 .. n - 1 /\ B!Hi(h)[i] = 1
    BY <2>2, Sizes, BOperators DEF H1, B!Hi
  <2>4. DOMAIN H1(h) = 0 .. n
    BY DEF H1
  <2> HIDE DEF n, f, k
  <2>5. f \in [0 .. k - 1 -> 0 .. n - 1] /\ k \in Nat
    BY <2>1 DEF B!Marks
  <2>6. f \in [0 .. k - 1 -> 0 .. n]
    BY <2>2, <2>5
  <2>7. \A i \in 0 .. n : H1(h)[i] = 1 <=> \E q \in 0 .. k - 1 : i = f[q]
    BY <2>1, <2>3, <2>5 DEF B!Marks
  <2>8. \A q, r \in 0 .. k - 1 : q < r => f[q] < f[r]
    BY <2>1 DEF B!Marks
  <2>9. B!Marks(H1(h), n + 1, f, k)
    BY <2>2, <2>4, <2>5, <2>6, <2>7, <2>8 DEF B!Marks
  <2> QED BY <2>9 DEF n, f, k
<1>9. ASSUME NEW q \in Quots, m <= q
      PROVE  Select(H1(h), q - m) \in Int /\ WORD_BITS + Select(H1(h), q - m) = E[q] + q
  <2>1. q - m \in 0 .. (QUOTS - m) - 1
    BY <1>9, Sizes DEF Quots
  <2>2. B!Select(H1(h), q - m) = B!HiMarks(E, m)[q - m]
    BY <1>8, <2>1, Assumptions, B!SelectIs
  <2>3. q \in B!Places
    BY BOperators
  <2>4. B!HiMarks(E, m)[q - m] = E[q] + q - WORD_BITS
    BY <1>1, <1>9, <2>3, Assumptions, B!HiMarkIs
  <2>5. E[q] \in Int /\ q \in Int
    BY EndTypes
  <2> QED BY <2>2, <2>4, <2>5, Sizes, BOperators
<1>10. ASSUME NEW q \in Quots PROVE q < m <=> E[q] + q < WORD_BITS
  <2>1. q \in Nat /\ E[q] \in Nat /\ q < QUOTS
    BY EndTypes
  <2>2. CASE q < m
    <3>1. q \in 0 .. m - 1 /\ B!LoMarks(E, m)[q] \in 0 .. WORD_BITS - 1
      BY <1>3, <2>1, <2>2 DEF B!Marks
    <3> QED BY <1>4, <2>2, <3>1, Sizes
  <2>3. CASE m <= q
    <3>1. q - m \in 0 .. (QUOTS - m) - 1
      BY <2>1, <2>3, Sizes
    <3>2. B!HiMarks(E, m)[q - m] \in 0 .. HeaderBits - WORD_BITS
      BY <1>8, <3>1, Sizes DEF B!Marks
    <3>3. q \in B!Places
      BY BOperators
    <3>4. B!HiMarks(E, m)[q - m] = E[q] + q - WORD_BITS
      BY <1>1, <2>3, <3>3, Assumptions, B!HiMarkIs
    <3> QED BY <2>1, <2>3, <3>2, <3>4, Sizes
  <2> QED BY <2>1, <2>2, <2>3
<1>11. \A q \in Quots : q < m => q \in 0 .. m - 1
  BY Sizes DEF Quots
<1> QED BY <1>2, <1>5, <1>6, <1>7, <1>9, <1>10, <1>11, BOperators

(* Where add_when_not_full writes, and where add_when_full finds the run.  *)
LEMMA EndOfRunIs ==
  ASSUME NEW h, NEW E, Ends(h, E), NEW quot \in Quots
  PROVE  EndOfRun(h, quot) = E[quot] + quot
<1>1. PICK m \in 1 .. QUOTS :
           /\ Popcount(H0(h)) = m
           /\ \A q \in Quots : q < m => Select(H0(h), q) = E[q] + q
           /\ \A q \in Quots : m <= q => WORD_BITS + Select(H1(h), q - m) = E[q] + q
  BY WordsSplit
<1>2. quot \in Nat /\ m \in Nat
  BY EndTypes
<1>3. quot < m \/ (m <= quot /\ ~(quot < m))
  BY <1>2
<1> QED BY <1>1, <1>3 DEF EndOfRun

LEMMA BeginAndEndIs ==
  ASSUME NEW h, NEW E, Ends(h, E), NEW quot \in Quots, quot # 0
  PROVE  /\ BeginAndEnd(h, quot)[1] = Begin(E, quot) + quot - 1
         /\ BeginAndEnd(h, quot)[2] = E[quot] + quot
<1>1. PICK m \in 1 .. QUOTS :
           /\ Popcount(H0(h)) = m
           /\ \A q \in Quots : q < m => Select(H0(h), q) = E[q] + q
           /\ \A q \in Quots : m <= q => WORD_BITS + Select(H1(h), q - m) = E[q] + q
           /\ LastOne(H0(h)) = E[m - 1] + m - 1
  BY WordsSplit
<1>2. /\ quot - 1 \in Quots /\ quot \in Nat /\ m \in Nat
      /\ Begin(E, quot) = E[quot - 1] /\ E[quot - 1] \in Int
  BY EndTypes DEF Begin
<1>3. E[quot - 1] + (quot - 1) = Begin(E, quot) + quot - 1
  BY <1>2
<1>4. CASE quot < m
  <2>1. quot - 1 < m
    BY <1>2, <1>4
  <2>2. BeginAndEnd(h, quot) = <<Select(H0(h), quot - 1), Select(H0(h), quot)>>
    BY <1>1, <1>4 DEF BeginAndEnd
  <2> QED BY <1>1, <1>2, <1>3, <1>4, <2>1, <2>2
<1>5. CASE quot > m
  <2>1. m <= quot - 1 /\ m <= quot /\ ~(quot < m) /\ quot - m - 1 = quot - 1 - m
    BY <1>2, <1>5
  <2>2. BeginAndEnd(h, quot) =
          <<WORD_BITS + Select(H1(h), quot - 1 - m), WORD_BITS + Select(H1(h), quot - m)>>
    BY <1>1, <1>5, <2>1 DEF BeginAndEnd
  <2> QED BY <1>1, <1>2, <1>3, <2>1, <2>2
<1>6. CASE quot = m
  <2>1. m <= quot /\ quot - m = 0 /\ ~(quot < m) /\ ~(quot > m)
    BY <1>2, <1>6
  <2>2. BeginAndEnd(h, quot) = <<LastOne(H0(h)), WORD_BITS + Select(H1(h), 0)>>
    BY <1>1, <2>1 DEF BeginAndEnd
  <2>3. E[m - 1] + m - 1 = Begin(E, quot) + quot - 1
    BY <1>2, <1>6
  <2> QED BY <1>1, <2>1, <2>2, <2>3
<1> QED BY <1>2, <1>4, <1>5, <1>6

(* The lookup's bounds, in four cases, are the run's. *)
LEMMA FindRangeIs ==
  ASSUME NEW p, NEW E, Ends(p.header, E), NEW quot \in Quots
  PROVE  FindRange(p, quot) = Run(E, quot)
<1> DEFINE h == p.header
<1>0. Ends(h, E)
  OBVIOUS
<1> HIDE DEF h
<1>1. PICK m \in 1 .. QUOTS :
           /\ Popcount(H0(h)) = m
           /\ \A q \in Quots : q < m => Select(H0(h), q) = E[q] + q
           /\ \A q \in Quots : m <= q => /\ Select(H1(h), q - m) \in Int
                                        /\ WORD_BITS + Select(H1(h), q - m) = E[q] + q
           /\ LastOne(H0(h)) = E[m - 1] + m - 1
  BY <1>0, WordsSplit
<1>2. quot \in Nat /\ m \in Nat /\ 0 < m /\ E[quot] \in Int
  BY <1>0, EndTypes
<1>3. CASE quot = 0
  <2>1. FindRange(p, quot) = 0 .. Select(H0(h), 0) - 1
    BY <1>3 DEF FindRange, h
  <2>2. Select(H0(h), 0) = E[0] + 0
    BY <1>1, <1>2, Sizes
  <2>3. Select(H0(h), 0) - 1 = E[quot] - 1
    BY <1>2, <1>3, <2>2
  <2> QED BY <1>3, <2>1, <2>3 DEF Run, Begin
<1>4. CASE quot # 0
  <2>1. /\ quot - 1 \in Quots /\ Begin(E, quot) = E[quot - 1] /\ E[quot - 1] \in Int
    BY <1>0, <1>4, EndTypes DEF Begin
  <2>2. CASE quot < m
    <3>1. FindRange(p, quot) =
            Select(H0(h), quot - 1) + 1 - quot .. Select(H0(h), quot) - quot - 1
      BY <1>1, <1>4, <2>2 DEF FindRange, h
    <3>2. Select(H0(h), quot - 1) = E[quot - 1] + (quot - 1) /\ Select(H0(h), quot) = E[quot] + quot
      BY <1>1, <1>2, <2>1, <2>2
    <3>3. /\ Select(H0(h), quot - 1) + 1 - quot = Begin(E, quot)
          /\ Select(H0(h), quot) - quot - 1 = E[quot] - 1
      <4>1. Select(H0(h), quot - 1) \in Int /\ Select(H0(h), quot) \in Int
        BY <1>2, <2>1, <3>2
      <4> QED BY <1>2, <2>1, <3>2, <4>1
    <3> QED BY <3>1, <3>3 DEF Run
  <2>3. CASE quot > m
    <3>1. FindRange(p, quot) =
            WORD_BITS + Select(H1(h), quot - m - 1) + 1 - quot ..
              WORD_BITS + Select(H1(h), quot - m) - quot - 1
      BY <1>1, <1>2, <1>4, <2>3 DEF FindRange, h
    <3>2. /\ WORD_BITS + Select(H1(h), quot - m - 1) = E[quot - 1] + (quot - 1)
          /\ WORD_BITS + Select(H1(h), quot - m) = E[quot] + quot
          /\ Select(H1(h), quot - m - 1) \in Int /\ Select(H1(h), quot - m) \in Int
      <4>1. m <= quot - 1 /\ m <= quot /\ quot - m - 1 = quot - 1 - m
        BY <1>2, <2>3
      <4> QED BY <1>1, <2>1, <4>1
    <3>3. /\ WORD_BITS + Select(H1(h), quot - m - 1) + 1 - quot = Begin(E, quot)
          /\ WORD_BITS + Select(H1(h), quot - m) - quot - 1 = E[quot] - 1
      BY <1>2, <2>1, <3>2, Sizes
    <3> QED BY <3>1, <3>3 DEF Run
  <2>4. CASE quot = m
    <3>1. FindRange(p, quot) =
            LastOne(H0(h)) + 1 - quot .. WORD_BITS + Select(H1(h), 0) - quot - 1
      BY <1>1, <1>2, <1>4, <2>4 DEF FindRange, h
    <3>2. /\ LastOne(H0(h)) = E[quot - 1] + (quot - 1)
          /\ WORD_BITS + Select(H1(h), 0) = E[quot] + quot
          /\ LastOne(H0(h)) \in Int /\ Select(H1(h), 0) \in Int
      <4>1. m <= quot /\ quot - m = 0
        BY <1>2, <2>4
      <4>2. E[m - 1] + m - 1 = E[quot - 1] + (quot - 1)
        BY <1>2, <2>1, <2>4
      <4> QED BY <1>1, <1>2, <2>1, <4>1, <4>2
    <3>3. /\ LastOne(H0(h)) + 1 - quot = Begin(E, quot)
          /\ WORD_BITS + Select(H1(h), 0) - quot - 1 = E[quot] - 1
      BY <1>2, <2>1, <3>2, Sizes
    <3> QED BY <3>1, <3>3 DEF Run
  <2> QED BY <1>2, <2>2, <2>3, <2>4
<1> QED BY <1>3, <1>4

(* The 1s below a position count the quotients that end before it. *)
LEMMA OnesBelowIs ==
  ASSUME NEW h, NEW E, Ends(h, E), NEW q \in 0 .. QUOTS, NEW z \in Int,
         \A r \in Quots : E[r] + r < z <=> r < q
  PROVE  OnesBelow(h, z) = q
<1>1. \A r \in 0 .. QUOTS - 1 : B!Ones(E)[r] < z <=> r < q
  BY MarksAre DEF Quots
<1>2. B!OnesBelow(h, z) = q
  BY <1>1, MarksAre, Assumptions, B!OnesBelowIs
<1> QED BY <1>2, BOperators

(* There is always such a number of quotients. *)
LEMMA EndsBelow ==
  ASSUME NEW h, NEW E, Ends(h, E), NEW z \in Int
  PROVE  \E q \in 0 .. QUOTS : \A r \in Quots : E[r] + r < z <=> r < q
<1> DEFINE T == {q \in 0 .. QUOTS : q = QUOTS \/ E[q] + q >= z}
<1>1. T \in SUBSET Nat /\ QUOTS \in T
  BY Sizes
<1>2. PICK q \in T : \A r \in T : q <= r
  <2> HIDE DEF T
  <2> QED BY <1>1, LeastNat
<1>3. q \in 0 .. QUOTS /\ (q = QUOTS \/ E[q] + q >= z)
  OBVIOUS
<1>4. ASSUME NEW r \in Quots PROVE E[r] + r < z <=> r < q
  <2>1. r \in Nat /\ r < QUOTS /\ E[r] \in Nat /\ r \in 0 .. QUOTS
    BY EndTypes, Sizes
  <2>2. CASE r < q
    <3>1. r \notin T
      BY <1>2, <1>3, <2>1, <2>2
    <3> QED BY <2>1, <2>2, <3>1
  <2>3. CASE q <= r
    <3>0. q \in Quots /\ q \in Nat /\ E[q] + q >= z
      BY <1>3, <2>1, <2>3, Sizes DEF Quots
    <3>1. E[q] \in Nat
      BY <3>0, EndTypes
    <3>2. q = r \/ q < r
      BY <2>1, <2>3, <3>0
    <3>3. q < r => E[q] <= E[r]
      BY <3>0 DEF Ends
    <3> QED BY <2>1, <2>3, <3>0, <3>1, <3>2, <3>3
  <2> QED BY <1>3, <2>1, <2>2, <2>3
<1> QED BY <1>3, <1>4

(* An element's bit: a 0 with as many 1s below as its quotient. *)
LEMMA ElementBit ==
  ASSUME NEW h, NEW E, Ends(h, E), NEW quot \in Quots, NEW i \in Nat
  PROVE  /\ i \in Run(E, quot) => i \in Places /\ i + quot < HeaderBits
         /\ i + quot < HeaderBits =>
              (h[i + quot] = 0 /\ OnesBelow(h, i + quot) = quot <=> i \in Run(E, quot))
<1> DEFINE z == i + quot
<1>1. /\ quot \in Nat /\ quot < QUOTS /\ E[quot] \in 0 .. MAX_CAPACITY /\ Begin(E, quot) \in Nat
      /\ z \in Int
  BY EndTypes
<1>2. i \in Run(E, quot) => i \in Places /\ i + quot < HeaderBits
  BY <1>1, Sizes DEF Run, Places
<1>3. ASSUME z < HeaderBits, i \in Run(E, quot)
      PROVE  h[z] = 0 /\ OnesBelow(h, z) = quot
  <2>1. Begin(E, quot) <= i /\ i < E[quot]
    BY <1>1, <1>3 DEF Run
  <2>2. ASSUME NEW r \in Quots
        PROVE  (E[r] + r < z <=> r < quot) /\ E[r] + r # z
    <3>1. r \in Nat /\ E[r] \in Nat
      BY EndTypes
    <3>2. r < quot => E[r] <= Begin(E, quot)
      BY EndsBeforeBegin
    <3>3. quot < r => E[quot] <= E[r]
      BY DEF Ends
    <3>4. r < quot \/ r = quot \/ quot < r
      BY <1>1, <3>1
    <3> QED BY <1>1, <2>1, <3>1, <3>2, <3>3, <3>4
  <2>3. OnesBelow(h, z) = quot
    <3>1. quot \in 0 .. QUOTS
      BY <1>1, Sizes
    <3> QED BY <1>1, <2>2, <3>1, OnesBelowIs
  <2>4. z \in 0 .. HeaderBits - 1
    BY <1>1, <1>3, Sizes
  <2>5. h[z] # 1 /\ h[z] \in 0 .. 1
    BY <2>2, <2>4 DEF Ends
  <2> QED BY <2>3, <2>5
<1>4. ASSUME z < HeaderBits, h[z] = 0, OnesBelow(h, z) = quot
      PROVE  i \in Run(E, quot)
  <2>1. PICK q \in 0 .. QUOTS : \A r \in Quots : E[r] + r < z <=> r < q
    BY <1>1, EndsBelow
  <2>2. q = quot
    BY <1>1, <1>4, <2>1, OnesBelowIs
  <2>3. z \in 0 .. HeaderBits - 1
    BY <1>1, <1>4, Sizes
  <2>4. E[quot] + quot # z
    BY <1>4, <2>3 DEF Ends
  <2>5. i < E[quot]
    BY <1>1, <2>1, <2>2, <2>4
  <2>6. Begin(E, quot) <= i
    <3>1. CASE quot = 0
      BY <3>1 DEF Begin
    <3>2. CASE quot # 0
      <4>1. quot - 1 \in Quots /\ E[quot - 1] \in Nat /\ quot - 1 < quot
        BY <1>1, <3>2, EndTypes
      <4>2. E[quot - 1] + (quot - 1) < z
        BY <2>1, <2>2, <4>1
      <4> QED BY <1>1, <3>2, <4>1, <4>2 DEF Begin
    <3> QED BY <3>1, <3>2
  <2> QED BY <1>1, <2>5, <2>6 DEF Run
<1> QED BY <1>2, <1>3, <1>4

-----------------------------------------------------------------------------
(***************************************************************************)
(* The body and the runs read off it.                                      *)
(***************************************************************************)
Bytes == Rems \cup {0}

Layout(p, E) ==
  /\ p = [header |-> p.header, body |-> p.body]
  /\ Ends(p.header, E)
  /\ p.body \in [Places -> Bytes]

Clean(p, E) == \A i \in Places : i >= Total(E) => p.body[i] = 0

LEMMA RunPlaces ==
  ASSUME NEW h, NEW E, Ends(h, E), NEW quot \in Quots, NEW i \in Run(E, quot)
  PROVE  i \in Places /\ i \in Nat /\ Begin(E, quot) <= i /\ i < E[quot] /\ i < Total(E)
<1>1. E[quot] \in 0 .. MAX_CAPACITY /\ Begin(E, quot) \in 0 .. E[quot] /\ E[quot] <= Total(E)
      /\ Total(E) \in Nat
  BY EndTypes
<1> QED BY <1>1, Sizes DEF Run, Places

(* The lookup, with its short cut for a single match, searches the run. *)
LEMMA FindIs ==
  ASSUME NEW p, NEW E, Layout(p, E), NEW quot \in Quots, NEW rem
  PROVE  find(quot, rem, p) <=> \E i \in Run(E, quot) : p.body[i] = rem
<1> DEFINE v == Matches(p, rem)
<1>1. Ends(p.header, E)
  BY DEF Layout
<1>2. \A i : i \in v <=> i \in Places /\ p.body[i] = rem
  BY DEF Matches
<1>3. \A i \in Run(E, quot) : i \in Places
  BY <1>1, RunPlaces
<1>4. IsFiniteSet(v)
  <2>1. IsFiniteSet(Places)
    BY Sizes, FS_Interval DEF Places
  <2>2. v \subseteq Places
    BY <1>2
  <2> HIDE DEF v
  <2> QED BY <2>1, <2>2, FS_Subset
<1>5. ASSUME NEW i \in Places PROVE FindSingle(p, quot, i) <=> i \in Run(E, quot)
  <2>1. i \in Nat
    BY Sizes
  <2>2. /\ i \in Run(E, quot) => i + quot < HeaderBits
        /\ i + quot < HeaderBits =>
             (p.header[i + quot] = 0 /\ OnesBelow(p.header, i + quot) = quot <=> i \in Run(E, quot))
    BY <1>1, <2>1, ElementBit
  <2> QED BY <2>2 DEF FindSingle
<1>6. CASE Cardinality(v) = 1
  <2>1. PICK i : v = {i}
    <3> HIDE DEF v
    <3> QED BY <1>4, <1>6, FS_Singleton
  <2>2. find(quot, rem, p) <=> FindSingle(p, quot, i)
    BY <1>6, <2>1 DEF find
  <2> HIDE DEF v
  <2> QED BY <1>2, <1>3, <1>5, <2>1, <2>2
<1>7. CASE Cardinality(v) # 1
  <2>1. find(quot, rem, p) <=> v \cap FindRange(p, quot) # {}
    BY <1>7 DEF find
  <2>2. FindRange(p, quot) = Run(E, quot)
    BY <1>1, FindRangeIs
  <2> HIDE DEF v
  <2> QED BY <1>2, <1>3, <2>1, <2>2
<1> QED BY <1>6, <1>7

(* The run of a quotient as a sequence. *)
LEMMA RunOfIs ==
  ASSUME NEW p, NEW E, Layout(p, E), NEW quot \in Quots
  PROVE  /\ RunsOf(p)[quot] = RunOf(p, quot)
         /\ RunOf(p, quot) = [i \in 1 .. E[quot] - Begin(E, quot) |-> p.body[Begin(E, quot) + i - 1]]
         /\ RunOf(p, quot) \in Seq(Bytes)
         /\ Len(RunOf(p, quot)) = E[quot] - Begin(E, quot)
<1>1. Ends(p.header, E)
  BY DEF Layout
<1>2. quot \in Int /\ Begin(E, quot) \in Int /\ E[quot] \in Int /\ E[quot] - Begin(E, quot) \in Nat
  BY <1>1, EndTypes
<1>3. Select(p.header, quot) = E[quot] + quot /\ RunBegin(p.header, quot) = Begin(E, quot) + quot
  BY <1>1, HeaderReads
<1>4. RunBegin(p.header, quot) - quot = Begin(E, quot) /\ Select(p.header, quot) - quot = E[quot]
  BY <1>2, <1>3
<1>5. RunOf(p, quot) = [i \in 1 .. E[quot] - Begin(E, quot) |-> p.body[Begin(E, quot) + i - 1]]
  BY <1>4 DEF RunOf
<1>6. \A i \in 1 .. E[quot] - Begin(E, quot) : p.body[Begin(E, quot) + i - 1] \in Bytes
  <2> SUFFICES ASSUME NEW i \in 1 .. E[quot] - Begin(E, quot)
               PROVE  p.body[Begin(E, quot) + i - 1] \in Bytes
    OBVIOUS
  <2>1. Begin(E, quot) + i - 1 \in Run(E, quot)
    BY <1>2 DEF Run
  <2>2. Begin(E, quot) + i - 1 \in Places
    BY <1>1, <2>1, RunPlaces
  <2> QED BY <2>2 DEF Layout
<1>7. RunOf(p, quot) \in [1 .. E[quot] - Begin(E, quot) -> Bytes]
  BY <1>5, <1>6
<1>8. RunOf(p, quot) \in Seq(Bytes) /\ Len(RunOf(p, quot)) = E[quot] - Begin(E, quot)
  BY <1>2, <1>7, SeqDef, LenProperties
<1> QED BY <1>5, <1>8 DEF RunsOf

(* Places of the run and positions in the sequence. *)
LEMMA RunReads ==
  ASSUME NEW p, NEW E, Layout(p, E), NEW quot \in Quots
  PROVE  /\ \A i \in 1 .. Len(RunOf(p, quot)) :
              /\ Begin(E, quot) + i - 1 \in Run(E, quot)
              /\ RunOf(p, quot)[i] = p.body[Begin(E, quot) + i - 1]
         /\ \A i \in Run(E, quot) :
              /\ i - Begin(E, quot) + 1 \in 1 .. Len(RunOf(p, quot))
              /\ RunOf(p, quot)[i - Begin(E, quot) + 1] = p.body[i]
<1>1. Begin(E, quot) \in Int /\ E[quot] \in Int
  BY EndTypes DEF Layout
<1> DEFINE b == Begin(E, quot)
           n == E[quot] - b
<1>2. Len(RunOf(p, quot)) = n /\ RunOf(p, quot) = [i \in 1 .. n |-> p.body[b + i - 1]]
  BY RunOfIs
<1>3. \A i \in 1 .. n : b + i - 1 \in Run(E, quot)
  BY <1>1 DEF Run
<1>4. \A i \in Run(E, quot) : i - b + 1 \in 1 .. n /\ b + (i - b + 1) - 1 = i
  BY <1>1 DEF Run
<1> HIDE DEF n
<1>5. \A i \in Run(E, quot) : RunOf(p, quot)[i - b + 1] = p.body[b + (i - b + 1) - 1]
  BY <1>2, <1>4
<1> QED BY <1>2, <1>3, <1>4, <1>5

LEMMA StoresIs ==
  ASSUME NEW p, NEW E, Layout(p, E), NEW quot \in Quots, NEW rem
  PROVE  Stores(RunsOf(p), quot, rem) <=> \E i \in Run(E, quot) : p.body[i] = rem
<1>1. RunsOf(p)[quot] = RunOf(p, quot) /\ RunOf(p, quot) \in Seq(Bytes)
  BY RunOfIs
<1>2. DOMAIN RunOf(p, quot) = 1 .. Len(RunOf(p, quot))
  BY <1>1, LenProperties
<1>3. Stores(RunsOf(p), quot, rem) <=>
        \E i \in 1 .. Len(RunOf(p, quot)) : RunOf(p, quot)[i] = rem
  BY <1>1, <1>2 DEF Stores, Range
<1> QED BY <1>3, RunReads

(* A place of an element is in one run. *)
LEMMA OneRun ==
  ASSUME NEW h, NEW E, Ends(h, E)
  PROVE  /\ \A i \in 0 .. Total(E) - 1 : \E q \in Quots : i \in Run(E, q)
         /\ \A q, r \in Quots : \A i : i \in Run(E, q) /\ i \in Run(E, r) => q = r
<1>1. B!Ends(h, E)
  BY EndsAre DEF Ends
<1>2. /\ B!Total(E) = Total(E) /\ B!Places = Quots
      /\ \A q : B!Run(E, q) = Run(E, q)
  BY BOperators DEF B!Total, Total, B!Run, Run, B!Begin, Begin
<1>3. \A i \in 0 .. Total(E) - 1 : \E q \in Quots : i \in Run(E, q)
  BY <1>1, <1>2, Assumptions, B!PlaceExists
<1>4. \A q, r \in Quots : \A i : i \in Run(E, q) /\ i \in Run(E, r) => q = r
  <2> SUFFICES ASSUME NEW q \in Quots, NEW r \in Quots, NEW i, i \in Run(E, q), i \in Run(E, r)
               PROVE  q = r
    OBVIOUS
  <2>1. q \in B!Places /\ r \in B!Places /\ i \in B!Run(E, q) /\ i \in B!Run(E, r)
    BY <1>2
  <2> QED BY <1>1, <2>1, Assumptions, B!RunsAreDisjoint
<1> QED BY <1>3, <1>4

LEMMA ElementsAre ==
  ASSUME NEW p, NEW E, Layout(p, E), NEW e
  PROVE  e \in Elements(RunsOf(p)) <=>
           \E q \in Quots : \E i \in 1 .. Len(RunOf(p, q)) : e = <<q, i>>
<1>1. \A q \in Quots : RunsOf(p)[q] = RunOf(p, q) /\ DOMAIN RunsOf(p)[q] = 1 .. Len(RunOf(p, q))
  BY RunOfIs, LenProperties
<1> QED BY <1>1 DEF Elements

LEMMA SizeIs ==
  ASSUME NEW p, NEW E, Layout(p, E)
  PROVE  Size(RunsOf(p)) = Total(E)
<1> DEFINE S == 0 .. Total(E) - 1
           Q(i) == CHOOSE q \in Quots : i \in Run(E, q)
           f == [i \in S |-> <<Q(i), i - Begin(E, Q(i)) + 1>>]
<1>1. Ends(p.header, E) /\ Total(E) \in Nat
  BY EndTypes, Sizes DEF Layout
<1>2. \A i \in S : Q(i) \in Quots /\ i \in Run(E, Q(i)) /\ i \in Int
  BY <1>1, OneRun
<1>3. \A i \in S : f[i] = <<Q(i), i - Begin(E, Q(i)) + 1>>
  OBVIOUS
<1> HIDE DEF Q, f
<1>4. f \in [S -> Elements(RunsOf(p))]
  <2>1. \A i \in S : f[i] \in Elements(RunsOf(p))
    BY <1>2, <1>3, RunReads, ElementsAre
  <2> QED BY <2>1 DEF f
<1>5. ASSUME NEW x \in S, NEW y \in S, f[x] = f[y] PROVE x = y
  <2>1. Q(x) = Q(y) /\ x - Begin(E, Q(x)) + 1 = y - Begin(E, Q(x)) + 1
    BY <1>3, <1>5
  <2>2. Begin(E, Q(x)) \in Int /\ x \in Int /\ y \in Int
    BY <1>1, <1>2, EndTypes
  <2> QED BY <2>1, <2>2
<1>6. ASSUME NEW e \in Elements(RunsOf(p)) PROVE \E x \in S : f[x] = e
  <2>0. PICK q \in Quots : \E i \in 1 .. Len(RunOf(p, q)) : e = <<q, i>>
    BY ElementsAre
  <2>1. PICK i \in 1 .. Len(RunOf(p, q)) : e = <<q, i>>
    BY <2>0
  <2> DEFINE x == Begin(E, q) + i - 1
  <2>2. x \in Run(E, q) /\ Begin(E, q) \in Int
    BY <1>1, RunReads, EndTypes
  <2>3. x \in S
    BY <1>1, <2>2, RunPlaces
  <2>4. Q(x) = q
    BY <1>1, <1>2, <2>2, <2>3, OneRun
  <2>5. x - Begin(E, q) + 1 = i
    BY <2>2
  <2> QED BY <1>3, <2>1, <2>3, <2>4, <2>5
<1>7. IsFiniteSet(S) /\ Cardinality(S) = Total(E)
  BY <1>1, FS_Interval
<1>8. Cardinality(Elements(RunsOf(p))) = Cardinality(S)
  <2> HIDE DEF S
  <2>1. B!IsFiniteSet(S)
    BY <1>7, BOperators
  <2>2. B!Cardinality(Elements(RunsOf(p))) = B!Cardinality(S)
    BY <1>4, <1>5, <1>6, <2>1, Assumptions, B!SameCardinality
  <2> QED BY <2>2 DEF B!Cardinality, Cardinality
<1> QED BY <1>7, <1>8 DEF Size

(* The last bit of the header tells a full dictionary. *)
LEMMA FullIs ==
  ASSUME NEW p, NEW E, Layout(p, E)
  PROVE  /\ pd_full(p) <=> Total(E) = MAX_CAPACITY
         /\ IsFull(RunsOf(p)) <=> Total(E) = MAX_CAPACITY
<1>1. Ends(p.header, E)
  BY DEF Layout
<1>2. HeaderBits - 1 \in 0 .. HeaderBits - 1 /\ QUOTS - 1 \in Quots
  BY Sizes
<1>3. \A q \in Quots : q \in Int /\ q <= QUOTS - 1 /\ E[q] \in 0 .. MAX_CAPACITY /\ E[q] <= Total(E)
  BY <1>1, EndTypes, Sizes
<1>4. pd_full(p) <=> \E q \in Quots : HeaderBits - 1 = E[q] + q
  BY <1>1, <1>2 DEF Ends, pd_full
<1>5. Total(E) = E[QUOTS - 1] /\ Total(E) \in 0 .. MAX_CAPACITY
  BY <1>2, <1>3 DEF Total
<1>6. Total(E) = MAX_CAPACITY => HeaderBits - 1 = E[QUOTS - 1] + (QUOTS - 1)
  BY <1>5, Sizes
<1>7. \A q \in Quots : HeaderBits - 1 = E[q] + q => Total(E) = MAX_CAPACITY
  BY <1>3, <1>5, Sizes
<1> QED BY <1>2, <1>4, <1>6, <1>7, SizeIs DEF IsFull

-----------------------------------------------------------------------------
(***************************************************************************)
(* What the operations do to the runs, by what they do to header and body. *)
(***************************************************************************)
RunsFrom(p, E) == [q \in Quots |-> [i \in 1 .. E[q] - Begin(E, q) |-> p.body[Begin(E, q) + i - 1]]]

LEMMA RunsOfIs ==
  ASSUME NEW p, NEW E, Layout(p, E)
  PROVE  RunsOf(p) = RunsFrom(p, E) /\ RunsOf(p) \in [Quots -> Seq(Bytes)]
<1>1. \A q \in Quots : /\ RunOf(p, q) = [i \in 1 .. E[q] - Begin(E, q) |-> p.body[Begin(E, q) + i - 1]]
                       /\ RunOf(p, q) \in Seq(Bytes)
  BY RunOfIs
<1> QED BY <1>1 DEF RunsOf, RunsFrom

(* Functions on the quotients to sequences that agree are the same. *)
LEMMA SameRuns ==
  ASSUME NEW p, NEW E, Layout(p, E), NEW f \in [Quots -> Seq(Bytes)],
         \A q \in Quots : /\ Len(f[q]) = E[q] - Begin(E, q)
                          /\ \A i \in 1 .. E[q] - Begin(E, q) : f[q][i] = p.body[Begin(E, q) + i - 1]
  PROVE  RunsOf(p) = f
<1>1. ASSUME NEW q \in Quots PROVE RunsOf(p)[q] = f[q]
  <2>1. RunOf(p, q) \in Seq(Bytes) /\ Len(RunOf(p, q)) = Len(f[q]) /\ f[q] \in Seq(Bytes)
    BY RunOfIs
  <2>2. \A i \in 1 .. Len(f[q]) : RunOf(p, q)[i] = f[q][i]
    BY <2>1, RunReads, RunOfIs
  <2>3. RunOf(p, q) = f[q]
    BY <2>1, <2>2, SeqEqual
  <2> QED BY <2>3, RunOfIs
<1> QED BY <1>1, RunsOfIs

(* An element more at the end of quot's run. *)
Inserted(p, E, c, F, quot, rem) ==
  /\ \A q \in Quots : F[q] = IF q < quot THEN E[q] ELSE E[q] + 1
  /\ \A k \in 0 .. Total(F) - 1 :
       c.body[k] = IF k < E[quot] THEN p.body[k]
                   ELSE IF k = E[quot] THEN rem ELSE p.body[k - 1]

LEMMA InsertedAppends ==
  ASSUME NEW p, NEW E, Layout(p, E), NEW c, NEW F, Layout(c, F),
         NEW quot \in Quots, NEW rem \in Bytes, Inserted(p, E, c, F, quot, rem)
  PROVE  RunsOf(c) = AppendTo(RunsOf(p), quot, rem)
<1> DEFINE f == AppendTo(RunsOf(p), quot, rem)
<1>1. Ends(p.header, E) /\ Ends(c.header, F)
  BY DEF Layout
<1>2. RunsOf(p) \in [Quots -> Seq(Bytes)] /\ quot \in Nat
  BY RunsOfIs, Sizes
<1>3. f \in [Quots -> Seq(Bytes)]
  BY <1>2 DEF AppendTo
<1>4. ASSUME NEW q \in Quots
      PROVE  /\ Len(f[q]) = F[q] - Begin(F, q)
             /\ \A i \in 1 .. F[q] - Begin(F, q) : f[q][i] = c.body[Begin(F, q) + i - 1]
  <2>1. /\ q \in Nat /\ E[q] \in Nat /\ Begin(E, q) \in Nat /\ Begin(E, q) <= E[q]
        /\ E[quot] \in Nat /\ Begin(F, q) \in Nat
    BY <1>1, EndTypes
  <2>2. F[q] = IF q < quot THEN E[q] ELSE E[q] + 1
    BY DEF Inserted
  <2>3. Begin(F, q) = IF q <= quot THEN Begin(E, q) ELSE Begin(E, q) + 1
    <3>1. CASE q = 0
      BY <1>2, <3>1 DEF Begin
    <3>2. CASE q # 0
      <4>1. q - 1 \in Quots /\ (q - 1 < quot <=> q <= quot)
        BY <1>1, <1>2, <2>1, <3>2, EndTypes
      <4>2. F[q - 1] = IF q - 1 < quot THEN E[q - 1] ELSE E[q - 1] + 1
        BY <4>1 DEF Inserted
      <4> QED BY <3>2, <4>1, <4>2 DEF Begin
    <3> QED BY <3>1, <3>2
  <2>4. \A i \in 1 .. F[q] - Begin(F, q) :
          Begin(F, q) + i - 1 \in Run(F, q) /\ Begin(F, q) + i - 1 \in 0 .. Total(F) - 1
    <3> SUFFICES ASSUME NEW i \in 1 .. F[q] - Begin(F, q)
                 PROVE  Begin(F, q) + i - 1 \in Run(F, q) /\ Begin(F, q) + i - 1 \in 0 .. Total(F) - 1
      OBVIOUS
    <3>1. Begin(F, q) + i - 1 \in Run(F, q)
      BY <2>1, <2>2 DEF Run
    <3>2. Total(F) \in Nat
      BY <1>1, EndTypes
    <3> QED BY <1>1, <3>1, <3>2, RunPlaces
  <2>5. \A i \in 1 .. F[q] - Begin(F, q) :
          c.body[Begin(F, q) + i - 1] =
            IF Begin(F, q) + i - 1 < E[quot] THEN p.body[Begin(F, q) + i - 1]
            ELSE IF Begin(F, q) + i - 1 = E[quot] THEN rem ELSE p.body[(Begin(F, q) + i - 1) - 1]
    BY <2>4 DEF Inserted
  <2>6. /\ RunsOf(p)[q] \in Seq(Bytes) /\ Len(RunsOf(p)[q]) = E[q] - Begin(E, q)
        /\ \A i \in 1 .. E[q] - Begin(E, q) : RunsOf(p)[q][i] = p.body[Begin(E, q) + i - 1]
    BY RunOfIs, RunReads
  <2>7. CASE q < quot
    <3>1. f[q] = RunsOf(p)[q]
      BY <1>2, <2>1, <2>7 DEF AppendTo
    <3>2. E[q] <= E[quot]
      BY <1>1, <2>7 DEF Ends
    <3>3. Begin(F, q) = Begin(E, q) /\ F[q] = E[q]
      BY <1>2, <2>1, <2>2, <2>3, <2>7
    <3>4. \A i \in 1 .. E[q] - Begin(E, q) : Begin(E, q) + i - 1 < E[quot]
      BY <2>1, <3>2
    <3> HIDE DEF f
    <3> QED BY <2>5, <2>6, <3>1, <3>3, <3>4
  <2>8. CASE q = quot
    <3>1. f[q] = Append(RunsOf(p)[q], rem)
      BY <1>2, <2>8 DEF AppendTo
    <3>2. F[q] = E[q] + 1 /\ Begin(F, q) = Begin(E, q)
      BY <1>2, <2>1, <2>2, <2>3, <2>8
    <3> DEFINE n == E[q] - Begin(E, q)
    <3>3. n \in Nat /\ F[q] - Begin(F, q) = n + 1
      BY <2>1, <3>2
    <3>4. Len(f[q]) = n + 1 /\ \A i \in 1 .. n + 1 : f[q][i] = IF i <= n THEN RunsOf(p)[q][i] ELSE rem
      <4>1. Len(Append(RunsOf(p)[q], rem)) = n + 1
            /\ \A i \in 1 .. n : Append(RunsOf(p)[q], rem)[i] = RunsOf(p)[q][i]
            /\ Append(RunsOf(p)[q], rem)[n + 1] = rem
        BY <2>6, AppendProperties
      <4> HIDE DEF f, n
      <4> QED BY <3>1, <3>3, <4>1
    <3>5. \A i \in 1 .. n : Begin(E, q) + i - 1 < E[quot]
      BY <2>1, <2>8
    <3>6. Begin(E, q) + (n + 1) - 1 = E[quot]
      BY <2>1, <2>8
    <3> HIDE DEF f, n
    <3>7. \A i \in 1 .. n + 1 : f[q][i] = c.body[Begin(F, q) + i - 1]
      <4> SUFFICES ASSUME NEW i \in 1 .. n + 1 PROVE f[q][i] = c.body[Begin(F, q) + i - 1]
        OBVIOUS
      <4>1. CASE i \in 1 .. n
        BY <2>5, <2>6, <3>2, <3>3, <3>4, <3>5, <4>1 DEF n
      <4>2. CASE i = n + 1
        <5>1. c.body[Begin(E, q) + i - 1] = rem
          BY <2>1, <2>5, <3>2, <3>3, <3>6, <4>2
        <5>2. f[q][i] = rem
          BY <3>3, <3>4, <4>2
        <5> QED BY <3>2, <5>1, <5>2
      <4> QED BY <3>3, <4>1, <4>2
    <3> QED BY <3>3, <3>4, <3>7
  <2>9. CASE quot < q
    <3>1. f[q] = RunsOf(p)[q]
      BY <1>2, <2>1, <2>9 DEF AppendTo
    <3>2. E[quot] <= Begin(E, q)
      BY <1>1, <2>9, EndsBeforeBegin
    <3>3. Begin(F, q) = Begin(E, q) + 1 /\ F[q] = E[q] + 1
      BY <1>2, <2>1, <2>2, <2>3, <2>9
    <3>4. F[q] - Begin(F, q) = E[q] - Begin(E, q)
      BY <2>1, <3>3
    <3> HIDE DEF f
    <3>5. \A i \in 1 .. E[q] - Begin(E, q) : f[q][i] = c.body[Begin(F, q) + i - 1]
      <4> SUFFICES ASSUME NEW i \in 1 .. E[q] - Begin(E, q)
                   PROVE  f[q][i] = c.body[Begin(F, q) + i - 1]
        OBVIOUS
      <4>1. /\ ~(Begin(F, q) + i - 1 < E[quot]) /\ Begin(F, q) + i - 1 # E[quot]
            /\ (Begin(F, q) + i - 1) - 1 = Begin(E, q) + i - 1
        BY <2>1, <3>2, <3>3
      <4>2. c.body[Begin(F, q) + i - 1] = p.body[Begin(E, q) + i - 1]
        BY <2>5, <3>4, <4>1
      <4> QED BY <2>6, <3>1, <4>2
    <3> QED BY <2>6, <3>1, <3>4, <3>5
  <2> QED BY <1>2, <2>1, <2>7, <2>8, <2>9
<1> HIDE DEF f
<1>5. RunsOf(c) = f
  BY <1>3, <1>4, SameRuns
<1> QED BY <1>5 DEF f

Grow(E, quot) == [q \in Quots |-> IF q < quot THEN E[q] ELSE E[q] + 1]

Shrink(E, quot) == [q \in Quots |-> IF q < quot THEN E[q] ELSE E[q] - 1]

LEMMA TotalOf ==
  ASSUME NEW E, NEW quot \in Quots
  PROVE  Total(Grow(E, quot)) = Total(E) + 1 /\ Total(Shrink(E, quot)) = Total(E) - 1
<1>1. QUOTS - 1 \in Quots /\ ~(QUOTS - 1 < quot)
  BY Sizes DEF Quots
<1> QED BY <1>1 DEF Total, Grow, Shrink

(* add_when_not_full. *)
LEMMA AddedIs ==
  ASSUME NEW p, NEW E, Layout(p, E), Total(E) < MAX_CAPACITY, NEW quot \in Quots, NEW rem \in Bytes
  PROVE  /\ Layout(AddedWhenNotFull(p, quot, rem), Grow(E, quot))
         /\ Inserted(p, E, AddedWhenNotFull(p, quot, rem), Grow(E, quot), quot, rem)
         /\ Clean(p, E) => Clean(AddedWhenNotFull(p, quot, rem), Grow(E, quot))
<1> DEFINE c == AddedWhenNotFull(p, quot, rem)
           F == Grow(E, quot)
<1>1. /\ Ends(p.header, E) /\ p.header \in [0 .. HeaderBits - 1 -> 0 .. 1]
      /\ p.body \in [Places -> Bytes]
  BY DEF Layout, Ends
<1>2. /\ quot \in Nat /\ E[quot] \in 0 .. MAX_CAPACITY /\ E[quot] <= Total(E)
      /\ Total(E) \in 0 .. MAX_CAPACITY
  BY <1>1, EndTypes
<1>3. c = [header |-> InsertZero(p.header, E[quot] + quot), body |-> ShiftIn(p.body, E[quot], rem)]
  <2>1. EndOfRun(p.header, quot) = E[quot] + quot
    BY <1>1, EndOfRunIs
  <2>2. (E[quot] + quot) - quot = E[quot]
    BY <1>2
  <2> QED BY <2>1, <2>2 DEF AddedWhenNotFull
<1>4. Ends(c.header, F)
  <2>1. B!Ends(p.header, E) /\ B!Total(E) < MAX_CAPACITY /\ quot \in B!Places
    BY <1>1, EndsAre, BOperators DEF B!Total, Total
  <2>2. B!Grow(E, quot) = F
    BY BOperators DEF B!Grow, Grow
  <2>3. p.header \in [0 .. B!HeaderSize - 1 -> 0 .. 1]
    BY <1>1, BOperators
  <2>4. /\ B!InsertZero(p.header, E[quot] + quot) \in [0 .. B!HeaderSize - 1 -> 0 .. 1]
        /\ B!Ends(B!InsertZero(p.header, E[quot] + quot), B!Grow(E, quot))
    BY <2>1, <2>3, Assumptions, B!InsertZeroGrows
  <2>5. c.header = B!InsertZero(p.header, E[quot] + quot)
    BY <1>3, BOperators
  <2>6. c.header \in [0 .. HeaderBits - 1 -> 0 .. 1] /\ B!Ends(c.header, F)
    BY <2>2, <2>4, <2>5, BOperators
  <2> HIDE DEF c, F
  <2> QED BY <2>6, EndsAre
<1>5. /\ c.body \in [Places -> Bytes]
      /\ \A k \in Places : c.body[k] = IF k < E[quot] THEN p.body[k]
                                       ELSE IF k = E[quot] THEN rem ELSE p.body[k - 1]
  <2>1. c.body = ShiftIn(p.body, E[quot], rem) /\ DOMAIN p.body = Places
    BY <1>1, <1>3
  <2>2. \A k \in Places : ~(k < E[quot]) /\ k # E[quot] => k - 1 \in Places
    BY <1>2, Sizes DEF Places
  <2>3. \A k \in Places : c.body[k] = IF k < E[quot] THEN p.body[k]
                                      ELSE IF k = E[quot] THEN rem ELSE p.body[k - 1]
    BY <2>1 DEF ShiftIn
  <2>4. \A k \in Places : c.body[k] \in Bytes
    BY <1>1, <2>2, <2>3
  <2>5. c.body = [k \in Places |-> c.body[k]]
    BY <2>1 DEF ShiftIn
  <2> HIDE DEF c
  <2> QED BY <2>3, <2>4, <2>5
<1>6. c = [header |-> c.header, body |-> c.body]
  BY <1>3
<1>7. Total(F) = Total(E) + 1
  BY TotalOf
<1>8. \A k \in 0 .. Total(F) - 1 : k \in Places
  BY <1>2, <1>7, Sizes DEF Places
<1>9. \A q \in Quots : F[q] = IF q < quot THEN E[q] ELSE E[q] + 1
  BY DEF Grow
<1> HIDE DEF c, F
<1>10. Layout(c, F)
  BY <1>4, <1>5, <1>6 DEF Layout
<1>11. Inserted(p, E, c, F, quot, rem)
  BY <1>5, <1>8, <1>9 DEF Inserted
<1>12. ASSUME Clean(p, E), NEW i \in Places, i >= Total(F) PROVE c.body[i] = 0
  <2>1. i \in Nat /\ ~(i < E[quot]) /\ i # E[quot] /\ i - 1 \in Places /\ i - 1 >= Total(E)
    BY <1>2, <1>7, <1>12, Sizes DEF Places
  <2> QED BY <1>5, <1>12, <2>1 DEF Clean
<1>13. Clean(p, E) => Clean(c, F)
  BY <1>12 DEF Clean
<1> QED BY <1>10, <1>11, <1>13 DEF c, F

-----------------------------------------------------------------------------
(* The element at place i0 of quot's run is taken out. *)
TakenOut(p, E, c, F, quot, i0) ==
  /\ \A q \in Quots : F[q] = IF q < quot THEN E[q] ELSE E[q] - 1
  /\ \A k \in 0 .. Total(F) - 1 : c.body[k] = IF k < i0 THEN p.body[k] ELSE p.body[k + 1]

(* remove_from_not_sorted_body_naive, and the deletion of the first element. *)
LEMMA DeletedIs ==
  ASSUME NEW p, NEW E, Layout(p, E), NEW quot \in Quots, NEW i0 \in Run(E, quot), NEW last \in Bytes,
         NEW bit, bit = Begin(E, quot) + quot
  PROVE  /\ Layout(DeleteElement(p, bit, i0, last), Shrink(E, quot))
         /\ TakenOut(p, E, DeleteElement(p, bit, i0, last), Shrink(E, quot), quot, i0)
         /\ Clean(p, E) /\ last = 0 => Clean(DeleteElement(p, bit, i0, last), Shrink(E, quot))
<1> DEFINE c == DeleteElement(p, bit, i0, last)
           F == Shrink(E, quot)
<1>1. /\ Ends(p.header, E) /\ p.header \in [0 .. HeaderBits - 1 -> 0 .. 1]
      /\ p.body \in [Places -> Bytes]
  BY DEF Layout, Ends
<1>2. i0 \in Nat /\ i0 \in Places /\ i0 < Total(E) /\ Total(E) \in 0 .. MAX_CAPACITY
  BY <1>1, EndTypes, RunPlaces
<1>3. c = [header |-> DeleteZero(p.header, Begin(E, quot) + quot), body |-> ShiftOut(p.body, i0, last)]
  BY DEF DeleteElement
<1>4. Ends(c.header, F)
  <2>1. B!Ends(p.header, E) /\ quot \in B!Places
    BY <1>1, EndsAre, BOperators
  <2>2. B!Shrink(E, quot) = F /\ B!Begin(E, quot) = Begin(E, quot) /\ i0 \in B!Run(E, quot)
    BY BOperators DEF B!Shrink, Shrink, B!Begin, Begin, B!Run, Run
  <2>3. p.header \in [0 .. B!HeaderSize - 1 -> 0 .. 1]
    BY <1>1, BOperators
  <2>4. /\ B!DeleteZero(p.header, B!Begin(E, quot) + quot) \in [0 .. B!HeaderSize - 1 -> 0 .. 1]
        /\ B!Ends(B!DeleteZero(p.header, B!Begin(E, quot) + quot), B!Shrink(E, quot))
    BY <2>1, <2>2, <2>3, Assumptions, B!DeleteZeroShrinks
  <2>5. c.header = B!DeleteZero(p.header, Begin(E, quot) + quot)
    BY <1>3, BOperators
  <2>6. c.header \in [0 .. HeaderBits - 1 -> 0 .. 1] /\ B!Ends(c.header, F)
    BY <2>2, <2>4, <2>5, BOperators
  <2> HIDE DEF c, F
  <2> QED BY <2>6, EndsAre
<1>5. /\ c.body \in [Places -> Bytes]
      /\ \A k \in Places : c.body[k] = IF k < i0 THEN p.body[k]
                                       ELSE IF k + 1 \in Places THEN p.body[k + 1] ELSE last
  <2>1. c.body = ShiftOut(p.body, i0, last) /\ DOMAIN p.body = Places
    BY <1>1, <1>3
  <2>2. \A k \in Places : c.body[k] = IF k < i0 THEN p.body[k]
                                       ELSE IF k + 1 \in Places THEN p.body[k + 1] ELSE last
    BY <2>1 DEF ShiftOut
  <2>3. \A k \in Places : c.body[k] \in Bytes
    BY <1>1, <2>2
  <2>4. c.body = [k \in Places |-> c.body[k]]
    BY <2>1 DEF ShiftOut
  <2> HIDE DEF c
  <2> QED BY <2>2, <2>3, <2>4
<1>6. c = [header |-> c.header, body |-> c.body]
  BY <1>3
<1>7. Total(F) = Total(E) - 1
  BY TotalOf
<1>8. \A k \in 0 .. Total(F) - 1 : k \in Places /\ k + 1 \in Places
  BY <1>2, <1>7, Sizes DEF Places
<1>9. \A q \in Quots : F[q] = IF q < quot THEN E[q] ELSE E[q] - 1
  BY DEF Shrink
<1> HIDE DEF c, F
<1>10. Layout(c, F)
  BY <1>4, <1>5, <1>6 DEF Layout
<1>11. TakenOut(p, E, c, F, quot, i0)
  BY <1>5, <1>8, <1>9 DEF TakenOut
<1>12. ASSUME Clean(p, E), last = 0, NEW i \in Places, i >= Total(F) PROVE c.body[i] = 0
  <2>1. i \in Nat /\ ~(i < i0) /\ (i + 1 \in Places => i + 1 >= Total(E))
    BY <1>2, <1>7, <1>12, Sizes DEF Places
  <2> QED BY <1>5, <1>12, <2>1 DEF Clean
<1>13. Clean(p, E) /\ last = 0 => Clean(c, F)
  BY <1>12 DEF Clean
<1> QED BY <1>10, <1>11, <1>13 DEF c, F

(* A sequence without its k-th element. *)
Without(s, k) == [i \in 1 .. Len(s) - 1 |-> IF i < k THEN s[i] ELSE s[i + 1]]

LEMMA WithoutType ==
  ASSUME NEW S, NEW s \in Seq(S), NEW k \in 1 .. Len(s)
  PROVE  Without(s, k) \in Seq(S) /\ Len(Without(s, k)) = Len(s) - 1
<1>1. Len(s) \in Nat /\ Len(s) - 1 \in Nat /\ \A i \in 1 .. Len(s) : s[i] \in S
  BY LenProperties, ElementOfSeq
<1>2. \A i \in 1 .. Len(s) - 1 : i \in 1 .. Len(s) /\ i + 1 \in 1 .. Len(s)
  BY <1>1
<1>3. Without(s, k) \in [1 .. Len(s) - 1 -> S]
  BY <1>1, <1>2 DEF Without
<1>4. Without(s, k) \in Seq(S)
  BY <1>1, <1>3, SeqDef
<1> QED BY <1>1, <1>3, <1>4, LenProperties

LEMMA TakenOutDrops ==
  ASSUME NEW p, NEW E, Layout(p, E), NEW c, NEW F, Layout(c, F),
         NEW quot \in Quots, NEW i0 \in Run(E, quot), TakenOut(p, E, c, F, quot, i0)
  PROVE  RunsOf(c) = [RunsOf(p) EXCEPT ![quot] = Without(@, i0 - Begin(E, quot) + 1)]
<1> DEFINE s == RunsOf(p)[quot]
           k0 == i0 - Begin(E, quot) + 1
           f == [RunsOf(p) EXCEPT ![quot] = Without(s, k0)]
<1>1. Ends(p.header, E) /\ Ends(c.header, F)
  BY DEF Layout
<1>2. RunsOf(p) \in [Quots -> Seq(Bytes)] /\ quot \in Nat
  BY RunsOfIs, Sizes
<1>3. i0 \in Nat /\ Begin(E, quot) <= i0 /\ i0 < E[quot] /\ E[quot] \in Nat /\ Begin(E, quot) \in Nat
  BY <1>1, EndTypes, RunPlaces
<1>4. /\ s \in Seq(Bytes) /\ Len(s) = E[quot] - Begin(E, quot)
      /\ \A i \in 1 .. Len(s) : s[i] = p.body[Begin(E, quot) + i - 1]
      /\ k0 \in 1 .. Len(s)
  BY RunOfIs, RunReads
<1> HIDE DEF s
<1>5. /\ Without(s, k0) \in Seq(Bytes) /\ Len(Without(s, k0)) = Len(s) - 1
      /\ \A i \in 1 .. Len(s) - 1 : Without(s, k0)[i] = IF i < k0 THEN s[i] ELSE s[i + 1]
  BY <1>4, WithoutType DEF Without
<1>6. f \in [Quots -> Seq(Bytes)]
  BY <1>2, <1>5
<1>7. ASSUME NEW q \in Quots
      PROVE  /\ Len(f[q]) = F[q] - Begin(F, q)
             /\ \A i \in 1 .. F[q] - Begin(F, q) : f[q][i] = c.body[Begin(F, q) + i - 1]
  <2>1. /\ q \in Nat /\ E[q] \in Nat /\ Begin(E, q) \in Nat /\ Begin(E, q) <= E[q]
        /\ Begin(F, q) \in Nat /\ F[q] \in Nat
    BY <1>1, EndTypes
  <2>2. F[q] = IF q < quot THEN E[q] ELSE E[q] - 1
    BY DEF TakenOut
  <2>3. Begin(F, q) = IF q <= quot THEN Begin(E, q) ELSE Begin(E, q) - 1
    <3>1. CASE q = 0
      BY <1>2, <3>1 DEF Begin
    <3>2. CASE q # 0
      <4>1. q - 1 \in Quots /\ (q - 1 < quot <=> q <= quot)
        BY <1>1, <1>2, <2>1, <3>2, EndTypes
      <4>2. F[q - 1] = IF q - 1 < quot THEN E[q - 1] ELSE E[q - 1] - 1
        BY <4>1 DEF TakenOut
      <4> QED BY <3>2, <4>1, <4>2 DEF Begin
    <3> QED BY <3>1, <3>2
  <2>4. \A i \in 1 .. F[q] - Begin(F, q) : Begin(F, q) + i - 1 \in 0 .. Total(F) - 1
    <3> SUFFICES ASSUME NEW i \in 1 .. F[q] - Begin(F, q)
                 PROVE  Begin(F, q) + i - 1 \in 0 .. Total(F) - 1
      OBVIOUS
    <3>1. Begin(F, q) + i - 1 \in Run(F, q)
      BY <2>1 DEF Run
    <3>2. Total(F) \in Nat
      BY <1>1, EndTypes
    <3> QED BY <1>1, <3>1, <3>2, RunPlaces
  <2>5. \A i \in 1 .. F[q] - Begin(F, q) :
          c.body[Begin(F, q) + i - 1] =
            IF Begin(F, q) + i - 1 < i0 THEN p.body[Begin(F, q) + i - 1]
            ELSE p.body[(Begin(F, q) + i - 1) + 1]
    BY <2>4 DEF TakenOut
  <2>6. /\ RunsOf(p)[q] \in Seq(Bytes) /\ Len(RunsOf(p)[q]) = E[q] - Begin(E, q)
        /\ \A i \in 1 .. E[q] - Begin(E, q) : RunsOf(p)[q][i] = p.body[Begin(E, q) + i - 1]
    BY RunOfIs, RunReads
  <2>7. CASE q < quot
    <3>1. f[q] = RunsOf(p)[q]
      BY <1>2, <2>1, <2>7
    <3>2. E[q] <= i0
      <4>1. E[q] <= Begin(E, quot)
        BY <1>1, <2>7, EndsBeforeBegin
      <4> QED BY <1>3, <2>1, <4>1
    <3>3. Begin(F, q) = Begin(E, q) /\ F[q] = E[q]
      BY <1>2, <2>1, <2>2, <2>3, <2>7
    <3>4. \A i \in 1 .. E[q] - Begin(E, q) : Begin(E, q) + i - 1 < i0
      BY <1>3, <2>1, <3>2
    <3> HIDE DEF f
    <3> QED BY <2>5, <2>6, <3>1, <3>3, <3>4
  <2>8. CASE q = quot
    <3>1. f[q] = Without(s, k0)
      BY <1>2, <2>8
    <3>2. F[q] - Begin(F, q) = Len(s) - 1 /\ Begin(F, q) = Begin(E, quot)
      BY <1>2, <1>3, <1>4, <2>1, <2>2, <2>3, <2>8
    <3>3. \A i \in 1 .. Len(s) - 1 :
            /\ i < k0 <=> Begin(E, quot) + i - 1 < i0
            /\ (Begin(E, quot) + i - 1) + 1 = Begin(E, quot) + (i + 1) - 1
            /\ i \in 1 .. Len(s) /\ i + 1 \in 1 .. Len(s)
      BY <1>3, <1>4
    <3> HIDE DEF f, k0
    <3>4. ASSUME NEW i \in 1 .. Len(s) - 1
          PROVE  f[q][i] = c.body[Begin(F, q) + i - 1]
      <4>1. c.body[Begin(E, quot) + i - 1] = IF i < k0 THEN p.body[Begin(E, quot) + i - 1]
                                             ELSE p.body[Begin(E, quot) + (i + 1) - 1]
        BY <2>5, <3>2, <3>3
      <4>2. f[q][i] = IF i < k0 THEN p.body[Begin(E, quot) + i - 1]
                      ELSE p.body[Begin(E, quot) + (i + 1) - 1]
        BY <1>4, <1>5, <3>1, <3>3
      <4> QED BY <3>2, <4>1, <4>2
    <3> QED BY <1>5, <3>1, <3>2, <3>4
  <2>9. CASE quot < q
    <3>1. f[q] = RunsOf(p)[q]
      BY <1>2, <2>1, <2>9
    <3>2. E[quot] <= Begin(E, q)
      BY <1>1, <2>9, EndsBeforeBegin
    <3>3. Begin(F, q) = Begin(E, q) - 1 /\ F[q] = E[q] - 1
      BY <1>2, <2>1, <2>2, <2>3, <2>9
    <3>4. F[q] - Begin(F, q) = E[q] - Begin(E, q)
      BY <2>1, <3>3
    <3> HIDE DEF f
    <3>5. \A i \in 1 .. E[q] - Begin(E, q) : f[q][i] = c.body[Begin(F, q) + i - 1]
      <4> SUFFICES ASSUME NEW i \in 1 .. E[q] - Begin(E, q)
                   PROVE  f[q][i] = c.body[Begin(F, q) + i - 1]
        OBVIOUS
      <4>1. /\ ~(Begin(F, q) + i - 1 < i0)
            /\ (Begin(F, q) + i - 1) + 1 = Begin(E, q) + i - 1
        BY <1>3, <2>1, <3>2, <3>3
      <4>2. c.body[Begin(F, q) + i - 1] = p.body[Begin(E, q) + i - 1]
        BY <2>5, <3>4, <4>1
      <4> QED BY <2>6, <3>1, <4>2
    <3> QED BY <2>6, <3>1, <3>4, <3>5
  <2> QED BY <1>2, <2>1, <2>7, <2>8, <2>9
<1>8. RunsOf(c) = f
  <2> HIDE DEF f
  <2> QED BY <1>6, <1>7, SameRuns
<1> QED BY <1>8 DEF s

(* The oldest of a run. *)
LEMMA TailIsWithout ==
  ASSUME NEW S, NEW s \in Seq(S), s # << >>
  PROVE  Len(s) \in Nat \ {0} /\ Tail(s) = Without(s, 1)
<1>1. Len(s) \in Nat \ {0}
  BY LenProperties, EmptySeq
<1>2. Tail(s) \in Seq(S) /\ Len(Tail(s)) = Len(s) - 1 /\ \A i \in 1 .. Len(s) - 1 : Tail(s)[i] = s[i + 1]
  BY <1>1, HeadTailProperties, EmptySeq
<1>3. Without(s, 1) \in Seq(S) /\ Len(Without(s, 1)) = Len(s) - 1
  BY <1>1, WithoutType
<1>4. \A i \in 1 .. Len(s) - 1 : Without(s, 1)[i] = s[i + 1]
  BY <1>1 DEF Without
<1>5. Tail(s) = Without(s, 1)
  BY <1>2, <1>3, <1>4, SeqEqual
<1> QED BY <1>1, <1>5

(* The first copy of a remainder. *)
LEMMA RemoveFirstIsWithout ==
  ASSUME NEW S, NEW s \in Seq(S), NEW k \in 1 .. Len(s), NEW rem, s[k] = rem,
         \A i \in 1 .. Len(s) : s[i] = rem => k <= i
  PROVE  RemoveFirst(s, rem) = Without(s, k)
<1> DEFINE I == {i \in 1 .. Len(s) : s[i] = rem}
           n == Len(s)
           u == SubSeq(s, 1, k - 1)
           v == SubSeq(s, k + 1, n)
<1>1. n \in Nat /\ \A i \in 1 .. n : s[i] \in S
  BY LenProperties, ElementOfSeq
<1>2. k \in I /\ I \in SUBSET Int /\ \A i \in I : k <= i
  OBVIOUS
<1>3. Min(I) = k
  <2> HIDE DEF I
  <2> QED BY <1>2, MinIs
<1>4. RemoveFirst(s, rem) = u \o v
  BY <1>2, <1>3 DEF RemoveFirst, SelectInSeq, RemoveAt
<1>5. k \in 1 .. n
  OBVIOUS
<1> HIDE DEF n
<1>6. u \in Seq(S) /\ Len(u) = k - 1 /\ \A i \in 1 .. k - 1 : u[i] = s[i]
  <2>1. /\ u \in Seq(S) /\ Len(u) = IF 1 <= k - 1 THEN (k - 1) - 1 + 1 ELSE 0
        /\ \A i \in 1 .. (k - 1) - 1 + 1 : u[i] = s[1 + i - 1]
    <3>1. 1 \in Int /\ k - 1 \in Int /\ \A i \in 1 .. k - 1 : s[i] \in S
      BY <1>1, <1>5
    <3> QED BY <3>1, SubSeqProperties
  <2> HIDE DEF u
  <2> QED BY <1>1, <1>5, <2>1
<1>7. v \in Seq(S) /\ Len(v) = n - k /\ \A i \in 1 .. n - k : v[i] = s[k + i]
  <2>1. /\ v \in Seq(S) /\ Len(v) = IF k + 1 <= n THEN n - (k + 1) + 1 ELSE 0
        /\ \A i \in 1 .. n - (k + 1) + 1 : v[i] = s[(k + 1) + i - 1]
    <3>1. k + 1 \in Int /\ n \in Int /\ \A i \in k + 1 .. n : s[i] \in S
      BY <1>1, <1>5
    <3> QED BY <3>1, SubSeqProperties
  <2> HIDE DEF v
  <2> QED BY <1>1, <1>5, <2>1
<1> HIDE DEF u, v
<1>8. /\ u \o v \in Seq(S) /\ Len(u \o v) = n - 1
      /\ \A i \in 1 .. n - 1 : (u \o v)[i] = IF i < k THEN s[i] ELSE s[i + 1]
  <2>1. /\ u \o v \in Seq(S) /\ Len(u \o v) = Len(u) + Len(v)
        /\ \A i \in 1 .. Len(u) + Len(v) :
             (u \o v)[i] = IF i <= Len(u) THEN u[i] ELSE v[i - Len(u)]
    BY <1>6, <1>7, ConcatProperties
  <2>2. Len(u) + Len(v) = n - 1
    BY <1>1, <1>5, <1>6, <1>7
  <2>3. ASSUME NEW i \in 1 .. n - 1
        PROVE  (u \o v)[i] = IF i < k THEN s[i] ELSE s[i + 1]
    <3>1. CASE i < k
      <4>1. i \in 1 .. k - 1 /\ i <= Len(u)
        BY <1>5, <1>6, <3>1
      <4> QED BY <1>6, <2>1, <2>2, <3>1, <4>1
    <3>2. CASE ~(i < k)
      <4>1. i - (k - 1) \in 1 .. n - k /\ k + (i - (k - 1)) = i + 1 /\ ~(i <= Len(u))
        BY <1>1, <1>5, <1>6, <3>2
      <4> QED BY <1>6, <1>7, <2>1, <2>2, <3>2, <4>1
    <3> QED BY <3>1, <3>2
  <2> QED BY <2>1, <2>2, <2>3
<1>9. Without(s, k) \in Seq(S) /\ Len(Without(s, k)) = n - 1
  BY <1>5, WithoutType DEF n
<1>10. \A i \in 1 .. n - 1 : (u \o v)[i] = Without(s, k)[i]
  BY <1>8 DEF Without, n
<1>11. u \o v = Without(s, k)
  BY <1>8, <1>9, <1>10, SeqEqual
<1> QED BY <1>4, <1>11

(* remove finds what is in the run and takes the first copy out. *)
LEMMA RemovedIs ==
  ASSUME NEW p, NEW E, Layout(p, E), Clean(p, E), NEW quot \in Quots, NEW rem
  PROVE  /\ RunMatches(p, quot, rem) = {i \in Run(E, quot) : p.body[i] = rem}
         /\ RunMatches(p, quot, rem) # {} =>
              /\ Layout(Removed(p, quot, rem), Shrink(E, quot))
              /\ Clean(Removed(p, quot, rem), Shrink(E, quot))
              /\ RunsOf(Removed(p, quot, rem)) = RemoveFrom(RunsOf(p), quot, rem)
<1> DEFINE M == RunMatches(p, quot, rem)
<1>1. Ends(p.header, E)
  BY DEF Layout
<1>2. quot \in Int /\ Begin(E, quot) \in Nat /\ E[quot] \in Nat
  BY <1>1, EndTypes
<1>3. RunBegin(p.header, quot) = Begin(E, quot) + quot /\ Select(p.header, quot) = E[quot] + quot
  BY <1>1, HeaderReads
<1>4. RunBegin(p.header, quot) - quot = Begin(E, quot) /\ Select(p.header, quot) - quot = E[quot]
  BY <1>2, <1>3
<1>5. M = {i \in Run(E, quot) : p.body[i] = rem}
  <2>1. \A i \in Places : i \in Run(E, quot) <=> i >= Begin(E, quot) /\ i < E[quot]
    BY <1>2, Sizes DEF Run
  <2>2. \A i \in Run(E, quot) : i \in Places
    BY <1>1, RunPlaces
  <2>3. \A i : i \in M <=> i \in Places /\ p.body[i] = rem /\ i >= Begin(E, quot) /\ i < E[quot]
    BY <1>4 DEF RunMatches, Matches
  <2> HIDE DEF M
  <2> QED BY <2>1, <2>2, <2>3
<1> HIDE DEF M
<1>6. ASSUME M # {}
      PROVE  /\ Layout(Removed(p, quot, rem), Shrink(E, quot))
             /\ Clean(Removed(p, quot, rem), Shrink(E, quot))
             /\ RunsOf(Removed(p, quot, rem)) = RemoveFrom(RunsOf(p), quot, rem)
  <2>1. M \in SUBSET Nat /\ M \in SUBSET Int
    BY <1>1, <1>5, RunPlaces
  <2>2. PICK i0 \in M : \A i \in M : i0 <= i
    BY <1>6, <2>1, LeastNat
  <2>3. Min(M) = i0
    BY <2>1, <2>2, MinIs
  <2> DEFINE c == DeleteElement(p, Begin(E, quot) + quot, i0, 0)
             F == Shrink(E, quot)
             s == RunsOf(p)[quot]
             k == i0 - Begin(E, quot) + 1
  <2>4. Removed(p, quot, rem) = c
    BY <1>3, <2>3 DEF Removed, M
  <2>5. i0 \in Run(E, quot) /\ p.body[i0] = rem /\ 0 \in Bytes
    BY <1>5 DEF Bytes
  <2>6. Layout(c, F) /\ TakenOut(p, E, c, F, quot, i0) /\ Clean(c, F)
    BY <2>5, DeletedIs
  <2> HIDE DEF c, F
  <2>7. RunsOf(c) = [RunsOf(p) EXCEPT ![quot] = Without(@, k)]
    BY <2>5, <2>6, TakenOutDrops
  <2>8. s \in Seq(Bytes) /\ k \in 1 .. Len(s) /\ s[k] = rem
    BY <2>5, RunOfIs, RunReads
  <2>9. \A i \in 1 .. Len(s) : s[i] = rem => k <= i
    <3> SUFFICES ASSUME NEW i \in 1 .. Len(s), s[i] = rem PROVE k <= i
      OBVIOUS
    <3>1. Begin(E, quot) + i - 1 \in M
      BY SMTT(30), <1>5, RunOfIs, RunReads
    <3>2. i0 <= Begin(E, quot) + i - 1 /\ i0 \in Int
      BY <2>1, <2>2, <3>1
    <3>3. i \in Int
      BY <2>8, LenProperties
    <3> QED BY <1>2, <3>2, <3>3
  <2> HIDE DEF s, k
  <2>10. RemoveFirst(s, rem) = Without(s, k)
    BY <2>8, <2>9, RemoveFirstIsWithout
  <2>11. RunsOf(c) = RemoveFrom(RunsOf(p), quot, rem)
    BY <2>7, <2>10 DEF RemoveFrom, s
  <2> QED BY <2>4, <2>6, <2>11 DEF F
<1> QED BY <1>5, <1>6 DEF M

-----------------------------------------------------------------------------
(***************************************************************************)
(* Evictions.                                                              *)
(***************************************************************************)
LEMMA NonemptyIs ==
  ASSUME NEW p, NEW E, Layout(p, E), NEW q \in Quots
  PROVE  q \in Nonempty(RunsOf(p)) <=> Begin(E, q) < E[q]
<1>1. Ends(p.header, E)
  BY DEF Layout
<1>2. RunsOf(p)[q] \in Seq(Bytes) /\ Len(RunsOf(p)[q]) = E[q] - Begin(E, q)
  BY RunOfIs
<1>3. RunsOf(p)[q] = << >> <=> Len(RunsOf(p)[q]) = 0
  BY <1>2, EmptySeq
<1>4. E[q] \in Nat /\ Begin(E, q) \in Nat /\ Begin(E, q) <= E[q]
  BY <1>1, EndTypes
<1> QED BY <1>2, <1>3, <1>4 DEF Nonempty

(* The first run at or after quot that is not empty is the one that evicts. *)
LEMMA EvictQuotIs ==
  ASSUME NEW p, NEW E, Layout(p, E), NEW quot \in Quots, NEW q1 \in Quots, quot <= q1,
         Begin(E, q1) < E[q1], \A q \in Quots : quot <= q /\ Begin(E, q) < E[q] => q1 <= q
  PROVE  EvictQuot(RunsOf(p), quot) = q1
<1> DEFINE S == {q \in Nonempty(RunsOf(p)) : q >= quot}
<1>1. \A q : q \in S <=> q \in Quots /\ Begin(E, q) < E[q] /\ q >= quot
  BY NonemptyIs DEF Nonempty
<1>2. S \in SUBSET Int /\ quot \in Int /\ \A q \in Quots : q \in Int
  <2>1. \A q \in Quots : q \in Int
    BY Sizes
  <2> HIDE DEF S
  <2> QED BY <1>1, <2>1
<1>3. q1 \in S /\ \A q \in S : q1 <= q
  BY <1>1, <1>2
<1>4. EvictQuot(RunsOf(p), quot) = Min(S)
  BY <1>3 DEF EvictQuot
<1> HIDE DEF S
<1> QED BY <1>2, <1>3, <1>4, MinIs

(* When there is none, the first of all. *)
LEMMA EvictFirst ==
  ASSUME NEW p, NEW E, Layout(p, E), NEW quot \in Quots, NEW q1 \in Quots,
         Begin(E, q1) < E[q1], \A q \in Quots : Begin(E, q) < E[q] => q1 <= q /\ q < quot
  PROVE  EvictQuot(RunsOf(p), quot) = q1
<1> DEFINE S == Nonempty(RunsOf(p))
<1>1. \A q : q \in S <=> q \in Quots /\ Begin(E, q) < E[q]
  BY NonemptyIs DEF Nonempty
<1>2. S \in SUBSET Int /\ quot \in Int /\ \A q \in Quots : q \in Int
  <2>1. \A q \in Quots : q \in Int
    BY Sizes
  <2> HIDE DEF S
  <2> QED BY <1>1, <2>1
<1>3. q1 \in S /\ \A q \in S : q1 <= q
  BY <1>1
<1>4. ~\E q \in S : q >= quot
  BY <1>1, <1>2
<1>5. EvictQuot(RunsOf(p), quot) = Min(S)
  BY <1>4 DEF EvictQuot
<1> HIDE DEF S
<1> QED BY <1>2, <1>3, <1>5, MinIs

(* The element at the head of a run dropped and rem put at the end of quot's. *)
Turned(p, q1, quot, rem) == AppendTo(DropOldest(RunsOf(p), q1), quot, rem)

LEMMA AddToIs ==
  ASSUME NEW p, NEW E, Layout(p, E), NEW quot, NEW rem
  PROVE  /\ Total(E) = MAX_CAPACITY =>
              AddTo(RunsOf(p), quot, rem) = Turned(p, EvictQuot(RunsOf(p), quot), quot, rem)
         /\ Total(E) # MAX_CAPACITY =>
              AddTo(RunsOf(p), quot, rem) = AppendTo(RunsOf(p), quot, rem)
BY FullIs DEF AddTo, Turned

(* quot has a run: its oldest remainder makes room for rem. *)
LEMMA ReplacedIs ==
  ASSUME NEW p, NEW E, Layout(p, E), NEW quot \in Quots, NEW rem \in Bytes,
         Begin(E, quot) < E[quot]
  PROVE  LET c == [p EXCEPT !.body = ReplaceOldest(@, Begin(E, quot), E[quot] - 1, rem)]
         IN  Layout(c, E) /\ RunsOf(c) = Turned(p, quot, quot, rem)
<1> DEFINE b == Begin(E, quot)
           e == E[quot]
           c == [p EXCEPT !.body = ReplaceOldest(@, b, e - 1, rem)]
<1>1. Ends(p.header, E) /\ p = [header |-> p.header, body |-> p.body] /\ p.body \in [Places -> Bytes]
  BY DEF Layout
<1>2. b \in Nat /\ e \in 0 .. MAX_CAPACITY /\ b < e
  BY <1>1, EndTypes
<1>3. c = [header |-> p.header, body |-> ReplaceOldest(p.body, b, e - 1, rem)]
  BY <1>1
<1> HIDE DEF b, e
<1>4. /\ c.body \in [Places -> Bytes]
      /\ \A k \in Places : c.body[k] = IF k \in b .. (e - 1) - 1 THEN p.body[k + 1]
                                       ELSE IF k = e - 1 THEN rem ELSE p.body[k]
  <2>1. c.body = ReplaceOldest(p.body, b, e - 1, rem) /\ DOMAIN p.body = Places
    BY <1>1, <1>3
  <2>2. \A k \in b .. (e - 1) - 1 : k + 1 \in Places
    BY <1>2, Sizes DEF Places
  <2>3. \A k \in Places : c.body[k] = IF k \in b .. (e - 1) - 1 THEN p.body[k + 1]
                                      ELSE IF k = e - 1 THEN rem ELSE p.body[k]
    BY <2>1 DEF ReplaceOldest
  <2>4. \A k \in Places : c.body[k] \in Bytes
    BY <1>1, <2>2, <2>3
  <2>5. c.body = [k \in Places |-> c.body[k]]
    BY <2>1 DEF ReplaceOldest
  <2> HIDE DEF c
  <2> QED BY <2>3, <2>4, <2>5
<1>5. Layout(c, E)
  <2>1. c = [header |-> c.header, body |-> c.body] /\ c.header = p.header
    BY <1>3
  <2> HIDE DEF c
  <2> QED BY <1>1, <1>4, <2>1 DEF Layout
<1> HIDE DEF c
<1> DEFINE f == Turned(p, quot, quot, rem)
           s == RunsOf(p)[quot]
           n == e - b
<1>6. RunsOf(p) \in [Quots -> Seq(Bytes)] /\ quot \in Nat
  BY RunsOfIs, Sizes
<1>7. s \in Seq(Bytes) /\ Len(s) = n /\ \A i \in 1 .. n : s[i] = p.body[b + i - 1]
  BY RunOfIs, RunReads DEF b, e
<1>8. n \in Nat \ {0}
  BY <1>2
<1> HIDE DEF s, n
<1>9. s # << >>
  BY <1>7, <1>8, EmptySeq
<1>10. /\ Tail(s) \in Seq(Bytes) /\ Len(Tail(s)) = n - 1
       /\ \A i \in 1 .. n - 1 : Tail(s)[i] = s[i + 1]
  BY <1>7, <1>9, HeadTailProperties
<1>11. /\ Append(Tail(s), rem) \in Seq(Bytes) /\ Len(Append(Tail(s), rem)) = n
       /\ \A i \in 1 .. n : Append(Tail(s), rem)[i] = IF i <= n - 1 THEN s[i + 1] ELSE rem
  <2>1. /\ Append(Tail(s), rem) \in Seq(Bytes) /\ Len(Append(Tail(s), rem)) = (n - 1) + 1
        /\ \A i \in 1 .. n - 1 : Append(Tail(s), rem)[i] = Tail(s)[i]
        /\ Append(Tail(s), rem)[(n - 1) + 1] = rem
    BY <1>10, AppendProperties
  <2>2. (n - 1) + 1 = n /\ \A i \in 1 .. n : i \in 1 .. n - 1 \/ i = n
    BY <1>8
  <2> QED BY <1>8, <1>10, <2>1, <2>2
<1>12. f = [RunsOf(p) EXCEPT ![quot] = Append(Tail(s), rem)]
  BY <1>6 DEF Turned, AppendTo, DropOldest, s
<1>13. f \in [Quots -> Seq(Bytes)]
  BY <1>6, <1>11, <1>12
<1>14. ASSUME NEW q \in Quots
       PROVE  /\ Len(f[q]) = E[q] - Begin(E, q)
              /\ \A i \in 1 .. E[q] - Begin(E, q) : f[q][i] = c.body[Begin(E, q) + i - 1]
  <2>1. CASE q = quot
    <3>1. f[q] = Append(Tail(s), rem) /\ E[q] - Begin(E, q) = n /\ Begin(E, q) = b
      BY <1>6, <1>12, <2>1 DEF n, b, e
    <3>2. ASSUME NEW i \in 1 .. n PROVE Append(Tail(s), rem)[i] = c.body[b + i - 1]
      <4>1. b + i - 1 \in Places /\ n = e - b
        BY <1>2, Sizes DEF Places, n
      <4>2. CASE i <= n - 1
        <5>1. b + i - 1 \in b .. (e - 1) - 1 /\ (b + i - 1) + 1 = b + (i + 1) - 1 /\ i + 1 \in 1 .. n
          BY <1>2, <4>1, <4>2
        <5> QED BY <1>4, <1>7, <1>11, <4>1, <4>2, <5>1
      <4>3. CASE ~(i <= n - 1)
        <5>1. b + i - 1 \notin b .. (e - 1) - 1 /\ b + i - 1 = e - 1
          BY <1>2, <4>1, <4>3
        <5> QED BY <1>4, <1>11, <4>1, <4>3, <5>1
      <4> QED BY <4>2, <4>3
    <3> HIDE DEF f
    <3> QED BY <1>11, <3>1, <3>2
  <2>2. CASE q # quot
    <3>1. f[q] = RunsOf(p)[q]
      BY <1>6, <1>12, <2>2
    <3>2. /\ Len(RunsOf(p)[q]) = E[q] - Begin(E, q)
          /\ \A i \in 1 .. E[q] - Begin(E, q) : /\ RunsOf(p)[q][i] = p.body[Begin(E, q) + i - 1]
                                                /\ Begin(E, q) + i - 1 \in Run(E, q)
      BY RunOfIs, RunReads
    <3>3. ASSUME NEW k \in Run(E, q) PROVE c.body[k] = p.body[k]
      <4>1. k \in Places /\ k \in Nat /\ k \notin Run(E, quot)
        BY <1>1, <2>2, OneRun, RunPlaces
      <4>2. k \notin b .. (e - 1) - 1 /\ k # e - 1
        BY <1>2, <4>1 DEF Run, b, e
      <4> QED BY <1>4, <4>1, <4>2
    <3> HIDE DEF f
    <3> QED BY <3>1, <3>2, <3>3
  <2> QED BY <2>1, <2>2
<1> HIDE DEF f
<1>15. RunsOf(c) = f
  BY <1>5, <1>13, <1>14, SameRuns
<1> QED BY <1>5, <1>15 DEF c, f, b, e

(***************************************************************************)
(* quot has no run and the next is that of q1: the quotients from quot on, *)
(* up to q1, end one place later, and the element at q1's head is quot's.  *)
(***************************************************************************)
NextRun(E, quot, q1) ==
  /\ quot < q1
  /\ Begin(E, quot) = E[quot]
  /\ E[quot] < E[q1]
  /\ \A r \in Quots : quot <= r /\ r < q1 => E[r] = E[quot]

Moved(E, quot, q1) == [r \in Quots |-> IF quot <= r /\ r < q1 THEN E[r] + 1 ELSE E[r]]

LEMMA MovedEnds ==
  ASSUME NEW h, NEW E, Ends(h, E), NEW quot \in Quots, NEW q1 \in Quots, NextRun(E, quot, q1)
  PROVE  /\ Ends(SwapBits(h, E[quot] + quot, E[quot] + q1), Moved(E, quot, q1))
         /\ Total(Moved(E, quot, q1)) = Total(E)
         /\ \A q \in Quots :
              Begin(Moved(E, quot, q1), q) =
                IF quot < q /\ q <= q1 THEN Begin(E, q) + 1 ELSE Begin(E, q)
<1> DEFINE F == Moved(E, quot, q1)
           end == E[quot] + quot
           zero == E[quot] + q1
           g == SwapBits(h, end, zero)
<1>1. /\ \A r \in Quots : r \in Nat /\ r < QUOTS /\ E[r] \in 0 .. MAX_CAPACITY
      /\ \A q, r \in Quots : q < r => E[q] <= E[r]
      /\ h \in [0 .. HeaderBits - 1 -> 0 .. 1]
      /\ \A i \in 0 .. HeaderBits - 1 : h[i] = 1 <=> \E q \in Quots : i = E[q] + q
  BY EndTypes DEF Ends
<1>2. /\ quot < q1 /\ E[quot] < E[q1]
      /\ \A r \in Quots : quot <= r /\ r < q1 => E[r] = E[quot]
  BY DEF NextRun
<1>3. \A r \in Quots : F[r] = IF quot <= r /\ r < q1 THEN E[r] + 1 ELSE E[r]
  BY DEF Moved
<1>4. /\ \A r \in Quots : r < quot => E[r] <= E[quot]
      /\ \A r \in Quots : q1 <= r => E[q1] <= E[r]
  <2>1. \A r \in Quots : q1 <= r => q1 = r \/ q1 < r
    BY <1>1
  <2>2. \A r \in Quots : E[r] <= E[r]
    BY <1>1
  <2> QED BY <1>1, <2>1, <2>2
<1>5. F \in [Quots -> 0 .. MAX_CAPACITY]
  <2>1. \A r \in Quots : F[r] \in 0 .. MAX_CAPACITY
    BY <1>1, <1>2, <1>3, Sizes
  <2> QED BY <2>1 DEF Moved
<1>6. ASSUME NEW q \in Quots, NEW r \in Quots, q < r PROVE F[q] <= F[r]
  <2>1. E[q] <= E[r] /\ E[q] \in Int /\ E[r] \in Int /\ E[q1] \in Int /\ E[quot] \in Int
    BY <1>1, <1>6
  <2>2. CASE quot <= q /\ q < q1 /\ ~(r < q1)
    <3>1. q1 <= r /\ ~(quot <= r /\ r < q1)
      BY <1>1, <2>2
    <3>2. F[q] = E[quot] + 1 /\ F[r] = E[r] /\ E[q1] <= E[r]
      BY <1>2, <1>3, <1>4, <2>2, <3>1
    <3> QED BY <1>2, <2>1, <3>2
  <2>3. CASE ~(quot <= q /\ q < q1 /\ ~(r < q1))
    <3>1. quot <= q /\ q < q1 => quot <= r /\ r < q1
      BY <1>1, <1>6, <2>3
    <3> QED BY <1>3, <2>1, <3>1
  <2> QED BY <2>2, <2>3
<1>7. /\ end \in 0 .. HeaderBits - 1 /\ zero \in 0 .. HeaderBits - 1
      /\ end # zero /\ h[end] = 1 /\ h[zero] = 0
  <2>1. end \in 0 .. HeaderBits - 1 /\ zero \in 0 .. HeaderBits - 1 /\ end # zero
    BY <1>1, <1>2, Sizes
  <2>2. ASSUME NEW r \in Quots PROVE zero # E[r] + r
    <3>1. CASE r < quot
      BY <1>1, <1>2, <1>4, <3>1
    <3>2. CASE quot <= r /\ r < q1
      <4>1. E[r] = E[quot]
        BY <1>2, <3>2
      <4> QED BY <1>1, <3>2, <4>1
    <3>3. CASE q1 <= r
      BY <1>1, <1>2, <1>4, <3>3
    <3> QED BY <1>1, <3>1, <3>2, <3>3
  <2>3. h[zero] # 1 /\ h[zero] \in 0 .. 1
    BY <1>1, <2>1, <2>2
  <2> QED BY <1>1, <2>1, <2>3
<1> HIDE DEF F, end, zero
<1>8. /\ g \in [0 .. HeaderBits - 1 -> 0 .. 1]
      /\ \A i \in 0 .. HeaderBits - 1 : g[i] = IF i = end THEN 0 ELSE IF i = zero THEN 1 ELSE h[i]
  <2>1. \A i \in 0 .. HeaderBits - 1 : g[i] = IF i = end THEN 0 ELSE IF i = zero THEN 1 ELSE h[i]
    BY <1>1, <1>7 DEF SwapBits
  <2>2. \A i \in 0 .. HeaderBits - 1 : g[i] \in 0 .. 1
    BY <1>1, <2>1
  <2>3. g = [i \in 0 .. HeaderBits - 1 |-> g[i]]
    BY <1>1 DEF SwapBits
  <2> HIDE DEF g
  <2> QED BY <2>1, <2>2, <2>3
<1> HIDE DEF g
<1>9. ASSUME NEW i \in 0 .. HeaderBits - 1
      PROVE  g[i] = 1 <=> \E q \in Quots : i = F[q] + q
  <2>1. CASE i = end
    <3>1. ASSUME NEW q \in Quots PROVE i # F[q] + q
      <4>1. CASE q < quot
        <5>1. F[q] = E[q]
          BY <1>1, <1>3, <4>1
        <5> QED BY <1>1, <1>4, <2>1, <4>1, <5>1 DEF end
      <4>2. CASE quot <= q /\ q < q1
        <5>1. F[q] = E[quot] + 1
          BY <1>2, <1>3, <4>2
        <5> QED BY <1>1, <2>1, <4>2, <5>1 DEF end
      <4>3. CASE q1 <= q
        <5>1. F[q] = E[q]
          BY <1>1, <1>3, <4>3
        <5> QED BY <1>1, <1>2, <1>4, <2>1, <4>3, <5>1 DEF end
      <4> QED BY <1>1, <4>1, <4>2, <4>3
    <3> QED BY <1>8, <2>1, <3>1
  <2>2. CASE i = zero
    <3>1. q1 - 1 \in Quots /\ quot <= q1 - 1 /\ q1 - 1 < q1
      BY <1>1, <1>2, Sizes DEF Quots
    <3>2. F[q1 - 1] = E[quot] + 1
      BY <1>2, <1>3, <3>1
    <3>3. i = F[q1 - 1] + (q1 - 1)
      BY <1>1, <2>2, <3>2 DEF zero
    <3> QED BY <1>7, <1>8, <2>2, <3>1, <3>3
  <2>3. CASE i # end /\ i # zero
    <3>1. g[i] = 1 <=> \E q \in Quots : i = E[q] + q
      BY <1>1, <1>8, <2>3
    <3>2. ASSUME NEW q \in Quots, i = E[q] + q PROVE \E r \in Quots : i = F[r] + r
      <4>1. CASE quot <= q /\ q < q1
        <5>1. E[q] = E[quot] /\ q # quot
          BY <1>2, <2>3, <3>2, <4>1 DEF end
        <5>2. q - 1 \in Quots /\ quot <= q - 1 /\ q - 1 < q1
          BY <1>1, <4>1, <5>1, Sizes DEF Quots
        <5>3. F[q - 1] = E[quot] + 1
          BY <1>2, <1>3, <5>2
        <5>4. i = F[q - 1] + (q - 1)
          BY <1>1, <3>2, <5>1, <5>3
        <5> QED BY <5>2, <5>4
      <4>2. CASE ~(quot <= q /\ q < q1)
        BY <1>3, <3>2, <4>2
      <4> QED BY <4>1, <4>2
    <3>3. ASSUME NEW q \in Quots, i = F[q] + q PROVE \E r \in Quots : i = E[r] + r
      <4>1. CASE quot <= q /\ q < q1
        <5>1. F[q] = E[quot] + 1
          BY <1>2, <1>3, <4>1
        <5>7. E[quot] \in Int /\ q \in Int /\ i = (E[quot] + 1) + q
          BY <1>1, <3>3, <5>1
        <5>6. i = E[quot] + (q + 1)
          BY <5>7
        <5>2. q + 1 # q1
          BY <2>3, <5>6 DEF zero
        <5>3. q + 1 \in Quots /\ quot <= q + 1 /\ q + 1 < q1
          BY <1>1, <4>1, <5>2, Sizes DEF Quots
        <5>4. E[q + 1] = E[quot]
          BY <1>2, <5>3
        <5>5. i = E[q + 1] + (q + 1)
          BY <5>4, <5>6
        <5> QED BY <5>3, <5>5
      <4>2. CASE ~(quot <= q /\ q < q1)
        BY <1>3, <3>3, <4>2
      <4> QED BY <4>1, <4>2
    <3> QED BY <3>1, <3>2, <3>3
  <2> QED BY <2>1, <2>2, <2>3
<1>10. Ends(g, F)
  BY <1>5, <1>6, <1>8, <1>9 DEF Ends
<1>11. Total(F) = Total(E)
  <2>1. QUOTS - 1 \in Quots /\ ~(QUOTS - 1 < q1)
    BY <1>1, Sizes
  <2> QED BY <1>3, <2>1 DEF Total
<1>12. ASSUME NEW q \in Quots
       PROVE  Begin(F, q) = IF quot < q /\ q <= q1 THEN Begin(E, q) + 1 ELSE Begin(E, q)
  <2>1. CASE q = 0
    <3>1. ~(quot < q)
      BY <1>1, <2>1
    <3> QED BY <2>1, <3>1 DEF Begin
  <2>2. CASE q # 0
    <3>1. q - 1 \in Quots /\ (quot <= q - 1 /\ q - 1 < q1 <=> quot < q /\ q <= q1)
      BY <1>1, <2>2, Sizes DEF Quots
    <3> QED BY <1>3, <2>2, <3>1 DEF Begin
  <2> QED BY <2>1, <2>2
<1> QED BY <1>10, <1>11, <1>12 DEF F, g, end, zero

LEMMA MovedIs ==
  ASSUME NEW p, NEW E, Layout(p, E), NEW quot \in Quots, NEW q1 \in Quots, NextRun(E, quot, q1),
         NEW rem \in Bytes
  PROVE  LET c == MovedToRun(p, quot, rem, E[quot] + quot, E[quot] + q1)
         IN  Layout(c, Moved(E, quot, q1)) /\ RunsOf(c) = Turned(p, q1, quot, rem)
<1> DEFINE F == Moved(E, quot, q1)
           c == MovedToRun(p, quot, rem, E[quot] + quot, E[quot] + q1)
           e == E[quot]
<1>1. Ends(p.header, E) /\ p.body \in [Places -> Bytes]
  BY DEF Layout
<1>2. /\ \A r \in Quots : r \in Nat /\ E[r] \in 0 .. MAX_CAPACITY /\ Begin(E, r) \in Nat /\ Begin(E, r) <= E[r]
      /\ quot < q1 /\ Begin(E, quot) = e /\ e < E[q1]
      /\ \A r \in Quots : quot <= r /\ r < q1 => E[r] = e
  BY <1>1, EndTypes DEF NextRun
<1>3. c = [header |-> SwapBits(p.header, e + quot, e + q1), body |-> [p.body EXCEPT ![e] = rem]]
  <2>1. (e + quot) - quot = e
    BY <1>2
  <2> QED BY <2>1 DEF MovedToRun
<1>4. /\ Ends(c.header, F)
      /\ \A q \in Quots : Begin(F, q) = IF quot < q /\ q <= q1 THEN Begin(E, q) + 1 ELSE Begin(E, q)
  BY <1>1, <1>3, MovedEnds
<1>5. \A r \in Quots : F[r] = IF quot <= r /\ r < q1 THEN E[r] + 1 ELSE E[r]
  BY DEF Moved
<1> HIDE DEF F, e
<1>6. e \in Places
  BY <1>2, Sizes DEF Places
<1>7. /\ c.body \in [Places -> Bytes]
      /\ \A k \in Places : c.body[k] = IF k = e THEN rem ELSE p.body[k]
  BY <1>1, <1>3, <1>6
<1>8. Layout(c, F)
  <2>1. c = [header |-> c.header, body |-> c.body]
    BY <1>3
  <2> HIDE DEF c
  <2> QED BY <1>4, <1>7, <2>1 DEF Layout
<1> HIDE DEF c
<1>9. \A q \in Quots : quot < q /\ q <= q1 => Begin(E, q) = e
  <2> SUFFICES ASSUME NEW q \in Quots, quot < q, q <= q1 PROVE Begin(E, q) = e
    OBVIOUS
  <2>1. q # 0 /\ q - 1 \in Quots /\ quot <= q - 1 /\ q - 1 < q1
    BY <1>1, <1>2, EndTypes
  <2> QED BY <1>2, <2>1 DEF Begin
<1> DEFINE f == Turned(p, q1, quot, rem)
           s == RunsOf(p)[q1]
           n == E[q1] - e
<1>10. RunsOf(p) \in [Quots -> Seq(Bytes)]
  BY RunsOfIs
<1>11. s \in Seq(Bytes) /\ Len(s) = n /\ \A i \in 1 .. n : s[i] = p.body[e + i - 1]
  <2>1. Begin(E, q1) = e
    BY <1>2, <1>9
  <2> QED BY <2>1, RunOfIs, RunReads
<1>12. n \in Nat \ {0} /\ e \in Nat
  BY <1>2 DEF e
<1>13. RunsOf(p)[quot] = << >>
  <2>1. RunsOf(p)[quot] \in Seq(Bytes) /\ Len(RunsOf(p)[quot]) = E[quot] - Begin(E, quot)
    BY RunOfIs
  <2>2. E[quot] - Begin(E, quot) = 0
    BY <1>2 DEF e
  <2> QED BY <2>1, <2>2, EmptySeq
<1>14. f = [RunsOf(p) EXCEPT ![q1] = Tail(s), ![quot] = <<rem>>]
  <2>1. quot # q1
    BY <1>2
  <2>2. [RunsOf(p) EXCEPT ![q1] = Tail(s)][quot] = << >>
    BY <1>10, <1>13, <2>1
  <2>3. Append(<< >>, rem) = <<rem>>
    OBVIOUS
  <2>4. f = [[RunsOf(p) EXCEPT ![q1] = Tail(s)] EXCEPT ![quot] = Append(@, rem)]
    BY DEF Turned, AppendTo, DropOldest
  <2> HIDE DEF f, s
  <2>5. f = [[RunsOf(p) EXCEPT ![q1] = Tail(s)] EXCEPT ![quot] = <<rem>>]
    BY <1>10, <2>2, <2>3, <2>4
  <2> QED BY <1>10, <2>5
<1> HIDE DEF s, n
<1>15. /\ Tail(s) \in Seq(Bytes) /\ Len(Tail(s)) = n - 1
       /\ \A i \in 1 .. n - 1 : Tail(s)[i] = s[i + 1]
  <2>1. s # << >>
    BY <1>11, <1>12, EmptySeq
  <2> QED BY <1>11, <2>1, HeadTailProperties
<1>16. <<rem>> \in Seq(Bytes) /\ Len(<<rem>>) = 1 /\ <<rem>>[1] = rem
  OBVIOUS
<1> HIDE DEF f
<1>17. /\ f \in [Quots -> Seq(Bytes)] /\ f[q1] = Tail(s) /\ f[quot] = <<rem>>
       /\ \A q \in Quots : q # q1 /\ q # quot => f[q] = RunsOf(p)[q]
  <2>1. quot # q1
    BY <1>2
  <2> QED BY <1>10, <1>14, <1>15, <1>16, <2>1
<1>18. ASSUME NEW q \in Quots
       PROVE  /\ Len(f[q]) = F[q] - Begin(F, q)
              /\ \A i \in 1 .. F[q] - Begin(F, q) : f[q][i] = c.body[Begin(F, q) + i - 1]
  <2>1. CASE q = quot
    <3>1. F[q] = e + 1 /\ Begin(F, q) = e
      BY <1>2, <1>4, <1>5, <2>1
    <3>2. F[q] - Begin(F, q) = 1 /\ e + 1 - 1 = e
      BY <1>12, <3>1
    <3>3. \A i \in 1 .. 1 : i = 1
      OBVIOUS
    <3> QED BY ZenonT(30), <1>6, <1>7, <1>16, <1>17, <2>1, <3>1, <3>2, <3>3
  <2>2. CASE q = q1
    <3>1. F[q] = E[q1] /\ Begin(F, q) = e + 1
      BY <1>2, <1>4, <1>5, <1>9, <2>2
    <3>2. F[q] - Begin(F, q) = n - 1
      BY <1>2, <1>12, <3>1 DEF n
    <3>3. ASSUME NEW i \in 1 .. n - 1 PROVE Tail(s)[i] = c.body[e + 1 + i - 1]
      <4>1. i + 1 \in 1 .. n /\ e + (i + 1) - 1 = e + 1 + i - 1
        BY <1>12
      <4>2. e + 1 + i - 1 \in Places /\ e + 1 + i - 1 # e
        BY <1>2, <1>12, Sizes DEF Places, n
      <4> QED BY <1>7, <1>11, <1>15, <4>1, <4>2
    <3> QED BY <1>15, <1>17, <2>2, <3>1, <3>2, <3>3
  <2>3. CASE q # quot /\ q # q1
    <3>1. f[q] = RunsOf(p)[q]
      BY <1>17, <2>3
    <3>2. /\ Len(RunsOf(p)[q]) = E[q] - Begin(E, q)
          /\ \A i \in 1 .. E[q] - Begin(E, q) : /\ RunsOf(p)[q][i] = p.body[Begin(E, q) + i - 1]
                                                /\ Begin(E, q) + i - 1 \in Run(E, q)
      BY RunOfIs, RunReads
    <3>3. ASSUME NEW k \in Run(E, q) PROVE c.body[k] = p.body[k]
      <4>1. e \in Run(E, q1)
        BY <1>2, <1>9 DEF Run
      <4>2. k \in Places /\ k # e
        BY <1>1, <2>3, <4>1, OneRun, RunPlaces
      <4> QED BY <1>7, <4>2
    <3>4. CASE quot < q /\ q < q1
      <4>1. F[q] = e + 1 /\ Begin(F, q) = e + 1 /\ E[q] = e /\ Begin(E, q) = e
        BY <1>2, <1>4, <1>5, <1>9, <3>4
      <4>2. F[q] - Begin(F, q) = 0 /\ E[q] - Begin(E, q) = 0
        BY <1>12, <4>1
      <4>3. \A i \in 1 .. 0 : FALSE
        OBVIOUS
      <4> QED BY <3>1, <3>2, <4>2, <4>3
    <3>5. CASE ~(quot < q /\ q < q1)
      <4>1. F[q] = E[q] /\ Begin(F, q) = Begin(E, q)
        BY <1>2, <1>4, <1>5, <2>3, <3>5
      <4> QED BY <3>1, <3>2, <3>3, <4>1
    <3> QED BY <3>4, <3>5
  <2> QED BY <2>1, <2>2, <2>3
<1>19. RunsOf(c) = f
  BY <1>8, <1>17, <1>18, SameRuns
<1> QED BY <1>8, <1>19 DEF c, f, F, e

(* Every quotient with room behind it has a next run, or none follows. *)
LEMMA NextRunExists ==
  ASSUME NEW h, NEW E, Ends(h, E), NEW quot \in Quots, Begin(E, quot) = E[quot], E[quot] < Total(E)
  PROVE  \E q1 \in Quots :
           /\ NextRun(E, quot, q1)
           /\ Begin(E, q1) < E[q1]
           /\ \A q \in Quots : quot <= q /\ Begin(E, q) < E[q] => q1 <= q
<1> DEFINE T == {r \in Quots : quot <= r /\ E[quot] < E[r]}
<1>1. /\ \A r \in Quots : r \in Nat /\ r < QUOTS /\ E[r] \in Nat /\ Begin(E, r) \in Nat
      /\ \A q, r \in Quots : q < r => E[q] <= E[r]
  <2>1. \A r \in Quots : r \in Nat /\ r < QUOTS /\ E[r] \in Nat /\ Begin(E, r) \in Nat
    BY EndTypes
  <2> QED BY <2>1 DEF Ends
<1>2. T \in SUBSET Nat /\ QUOTS - 1 \in T
  <2>1. QUOTS - 1 \in Quots /\ quot <= QUOTS - 1
    BY <1>1, Sizes
  <2> QED BY <1>1, <2>1 DEF Total
<1>3. PICK q1 \in T : \A r \in T : q1 <= r
  <2> HIDE DEF T
  <2> QED BY <1>2, LeastNat
<1>4. q1 \in Quots /\ quot <= q1 /\ E[quot] < E[q1] /\ quot < q1
  BY <1>1
<1>5. ASSUME NEW r \in Quots, quot <= r, r < q1 PROVE E[r] = E[quot]
  <2>1. r \notin T
    BY <1>1, <1>3, <1>4, <1>5
  <2>2. quot = r \/ quot < r
    BY <1>1, <1>5
  <2> QED BY <1>1, <1>5, <2>1, <2>2
<1>6. NextRun(E, quot, q1)
  BY <1>4, <1>5 DEF NextRun
<1> HIDE DEF T
<1>7. Begin(E, q1) < E[q1]
  <2>1. q1 # 0 /\ q1 - 1 \in Quots /\ quot <= q1 - 1 /\ q1 - 1 < q1
    BY <1>1, <1>4, Sizes DEF Quots
  <2>2. Begin(E, q1) = E[quot]
    BY <1>5, <2>1 DEF Begin
  <2> QED BY <1>4, <2>2
<1>8. ASSUME NEW q \in Quots, quot <= q, Begin(E, q) < E[q] PROVE q1 <= q
  <2>1. CASE q = quot
    BY <1>1, <1>8, <2>1
  <2>2. CASE q # quot
    <3>1. q # 0 /\ q - 1 \in Quots /\ quot <= q - 1
      BY <1>1, <1>8, <2>2, Sizes DEF Quots
    <3>2. E[quot] <= E[q - 1]
      <4>1. quot = q - 1 \/ quot < q - 1
        BY <1>1, <3>1
      <4> QED BY <1>1, <3>1, <4>1
    <3>3. E[quot] < E[q]
      BY <1>1, <1>8, <3>1, <3>2 DEF Begin
    <3>4. q \in T
      BY <1>8, <3>3 DEF T
    <3> QED BY <1>3, <3>4
  <2> QED BY <2>1, <2>2
<1> QED BY <1>4, <1>6, <1>7, <1>8

(***************************************************************************)
(* The search for the element to evict.                                    *)
(***************************************************************************)
LEMMA ZeroFromIs ==
  ASSUME NEW w, DOMAIN w \subseteq Int, NEW i \in Int, NEW z \in DOMAIN w, z >= i, w[z] = 0,
         \A k \in DOMAIN w : k >= i /\ w[k] = 0 => z <= k
  PROVE  ZeroFrom(w, i) = z
<1> DEFINE S == {k \in DOMAIN w : k >= i /\ w[k] = 0}
<1>1. S \in SUBSET Int /\ z \in S /\ \A k \in S : z <= k
  OBVIOUS
<1>2. ZeroFrom(w, i) = Min(S)
  BY DEF ZeroFrom
<1> HIDE DEF S
<1> QED BY <1>1, <1>2, MinIs

(* In two words, and up to the padding. *)
LEMMA NextElementIs ==
  ASSUME NEW h \in [0 .. HeaderBits - 1 -> 0 .. 1], NEW end \in 0 .. HeaderBits - 1,
         NEW z \in end .. HeaderBits, z = HeaderBits \/ h[z] = 0, \A k \in end .. z - 1 : h[k] = 1
  PROVE  NextElement(h, end) = z
<1>1. WORD_BITS \in Nat /\ HeaderBits \in Nat /\ WORD_BITS < HeaderBits
  BY Sizes
<1>2. DOMAIN H0(h) = 0 .. WORD_BITS - 1 /\ \A i \in 0 .. WORD_BITS - 1 : H0(h)[i] = h[i]
  BY DEF H0
<1>3. /\ DOMAIN H1(h) = 0 .. HeaderBits - WORD_BITS
      /\ \A i \in 0 .. HeaderBits - WORD_BITS :
           H1(h)[i] = IF WORD_BITS + i < HeaderBits THEN h[WORD_BITS + i] ELSE 0
  BY DEF H1
<1> DEFINE Here == end < WORD_BITS /\ \E i \in end .. WORD_BITS - 1 : h[i] = 0
<1>4. CASE Here
  <2>1. PICK i \in end .. WORD_BITS - 1 : h[i] = 0
    BY <1>4
  <2>2. z <= i
    BY <1>1, <2>1
  <2>3. z \in DOMAIN H0(h) /\ z >= end /\ H0(h)[z] = 0
    BY <1>1, <1>2, <2>2
  <2>4. \A k \in DOMAIN H0(h) : k >= end /\ H0(h)[k] = 0 => z <= k
    BY <1>1, <1>2
  <2>6. DOMAIN H0(h) \subseteq Int /\ end \in Int
    BY <1>1, <1>2
  <2>5. ZeroFrom(H0(h), end) = z
    BY <2>3, <2>4, <2>6, ZeroFromIs, Zenon
  <2> QED BY <1>4, <2>5 DEF NextElement
<1>5. CASE ~Here
  <2> DEFINE i == IF end < WORD_BITS THEN 0 ELSE end - WORD_BITS
             k == z - WORD_BITS
  <2>1. NextElement(h, end) = WORD_BITS + ZeroFrom(H1(h), i)
    BY <1>5 DEF NextElement
  <2>2. z >= WORD_BITS
    BY <1>1, <1>5
  <2>3. k \in 0 .. HeaderBits - WORD_BITS /\ k >= i /\ i \in Int /\ WORD_BITS + k = z
    BY <1>1, <2>2
  <2>4. H1(h)[k] = 0
    BY <1>1, <1>3, <2>3
  <2>5. ASSUME NEW m \in 0 .. HeaderBits - WORD_BITS, m >= i, H1(h)[m] = 0 PROVE k <= m
    <3>1. WORD_BITS + m >= end /\ WORD_BITS + m \in Int
      BY <1>1, <2>5
    <3>2. CASE WORD_BITS + m < HeaderBits
      <4>1. h[WORD_BITS + m] = 0
        BY <1>3, <2>5, <3>2
      <4>2. WORD_BITS + m \notin end .. z - 1
        BY <4>1
      <4> QED BY <1>1, <3>1, <4>2
    <3>3. CASE ~(WORD_BITS + m < HeaderBits)
      BY <1>1, <2>3, <3>3
    <3> QED BY <3>2, <3>3
  <2> HIDE DEF i, k
  <2>7. /\ DOMAIN H1(h) \subseteq Int /\ i \in Int /\ k \in DOMAIN H1(h) /\ k >= i
        /\ \A m \in DOMAIN H1(h) : m >= i /\ H1(h)[m] = 0 => k <= m
    BY <1>1, <1>3, <2>3, <2>5
  <2>6. ZeroFrom(H1(h), i) = k
    BY <2>4, <2>7, ZeroFromIs, Zenon
  <2> QED BY <2>1, <2>3, <2>6
<1> QED BY <1>4, <1>5

(* The 1s from quot's own up to the first element behind it. *)
LEMMA BitsBehind ==
  ASSUME NEW h, NEW E, Ends(h, E), NEW quot \in Quots
  PROVE  /\ \A q1 \in Quots : NextRun(E, quot, q1) =>
              /\ E[quot] + q1 \in E[quot] + quot .. HeaderBits - 1
              /\ h[E[quot] + q1] = 0
              /\ \A k \in E[quot] + quot .. (E[quot] + q1) - 1 : h[k] = 1
         /\ E[quot] = MAX_CAPACITY =>
              \A k \in E[quot] + quot .. HeaderBits - 1 : h[k] = 1
         /\ E[quot] + quot \in 0 .. HeaderBits - 1
<1>1. /\ \A r \in Quots : r \in Nat /\ r < QUOTS /\ E[r] \in 0 .. MAX_CAPACITY
      /\ quot \in Nat
  BY EndTypes
<1>2. /\ \A q, r \in Quots : q < r => E[q] <= E[r]
      /\ h \in [0 .. HeaderBits - 1 -> 0 .. 1]
      /\ \A i \in 0 .. HeaderBits - 1 : h[i] = 1 <=> \E q \in Quots : i = E[q] + q
  BY DEF Ends
<1>3. E[quot] + quot \in 0 .. HeaderBits - 1
  BY <1>1, Sizes
<1>4. ASSUME NEW q1 \in Quots, NextRun(E, quot, q1)
      PROVE  /\ E[quot] + q1 \in E[quot] + quot .. HeaderBits - 1
             /\ h[E[quot] + q1] = 0
             /\ \A k \in E[quot] + quot .. (E[quot] + q1) - 1 : h[k] = 1
  <2>1. quot < q1 /\ E[quot] < E[q1] /\ \A r \in Quots : quot <= r /\ r < q1 => E[r] = E[quot]
    BY <1>4 DEF NextRun
  <2>2. E[quot] + q1 \in E[quot] + quot .. HeaderBits - 1 /\ E[quot] + q1 \in 0 .. HeaderBits - 1
    BY <1>1, <2>1, Sizes
  <2>3. ASSUME NEW r \in Quots PROVE E[quot] + q1 # E[r] + r
    <3>1. CASE r < q1
      <4>1. r < quot => E[r] <= E[quot]
        BY <1>2
      <4>2. E[r] <= E[quot]
        BY <1>1, <2>1, <3>1, <4>1
      <4> QED BY <1>1, <3>1, <4>2
    <3>2. CASE ~(r < q1)
      <4>1. q1 = r \/ q1 < r
        BY <1>1, <3>2
      <4>2. E[q1] <= E[r]
        BY <1>1, <1>2, <4>1
      <4> QED BY <1>1, <2>1, <3>2, <4>2
    <3> QED BY <3>1, <3>2
  <2>4. h[E[quot] + q1] # 1 /\ h[E[quot] + q1] \in 0 .. 1
    BY <1>2, <2>2, <2>3
  <2>5. ASSUME NEW k \in E[quot] + quot .. (E[quot] + q1) - 1 PROVE h[k] = 1
    <3>1. k - E[quot] \in Quots /\ quot <= k - E[quot] /\ k - E[quot] < q1
      BY <1>1, <2>1, Sizes DEF Quots
    <3>2. E[k - E[quot]] = E[quot]
      BY <2>1, <3>1
    <3>3. k = E[k - E[quot]] + (k - E[quot]) /\ k \in 0 .. HeaderBits - 1
      BY <1>1, <2>1, <3>2, Sizes
    <3> QED BY <1>2, <3>1, <3>3
  <2> QED BY <2>2, <2>4, <2>5
<1>5. ASSUME E[quot] = MAX_CAPACITY, NEW k \in E[quot] + quot .. HeaderBits - 1 PROVE h[k] = 1
  <2> DEFINE q == k - MAX_CAPACITY
  <2>1. q \in Quots /\ quot <= q /\ k = MAX_CAPACITY + q /\ k \in 0 .. HeaderBits - 1
    BY <1>1, <1>5, Sizes DEF Quots
  <2> HIDE DEF q
  <2>2. E[q] = MAX_CAPACITY
    <3>1. quot = q \/ quot < q
      BY <1>1, <2>1
    <3> QED BY <1>1, <1>2, <1>5, <2>1, <3>1, Sizes
  <2> QED BY <1>2, <2>1, <2>2
<1> QED BY <1>3, <1>4, <1>5

(* get_last_occupied_quot_for_full_pd is never too small. *)
LEMMA PastLastIs ==
  ASSUME NEW p, NEW E, Layout(p, E), Total(E) = MAX_CAPACITY, NEW quot \in Quots, quot # 0,
         PastLast(p, quot)
  PROVE  E[quot - 1] = MAX_CAPACITY
<1> DEFINE h == p.header
           T == {i \in WORD_BITS .. HeaderBits - 1 : \A k \in i .. HeaderBits - 1 : h[k] = 1}
           U == MAX_CAPACITY + quot .. HeaderBits - 1
<1>1. Ends(h, E)
  BY DEF Layout
<1>2. /\ \A r \in Quots : r \in Nat /\ r < QUOTS /\ E[r] \in 0 .. MAX_CAPACITY
      /\ quot \in Nat /\ quot - 1 \in Quots /\ quot - 1 \in Nat
  BY <1>1, EndTypes
<1>3. QUOTS - Cardinality(T) < quot
  BY DEF PastLast, LastOccupied
<1>4. IsFiniteSet(U) /\ Cardinality(U) = QUOTS - quot
  <2>1. MAX_CAPACITY + quot \in Int /\ HeaderBits - 1 \in Int
    BY <1>2, Sizes
  <2>2. /\ IsFiniteSet(U)
        /\ Cardinality(U) = IF MAX_CAPACITY + quot > HeaderBits - 1 THEN 0
                            ELSE (HeaderBits - 1) - (MAX_CAPACITY + quot) + 1
    BY <2>1, FS_Interval
  <2> QED BY <1>2, <2>2, Sizes
<1>5. PICK i \in T : i < MAX_CAPACITY + quot
  <2> SUFFICES ASSUME \A i \in T : ~(i < MAX_CAPACITY + quot) PROVE FALSE
    OBVIOUS
  <2>1. T \subseteq U
    BY <1>2, Sizes
  <2> HIDE DEF T, U
  <2>2. IsFiniteSet(T) /\ Cardinality(T) <= Cardinality(U) /\ Cardinality(T) \in Nat
    BY <1>4, <2>1, FS_Subset, FS_CardinalityType
  <2> QED BY <1>2, <1>3, <1>4, <2>2, Sizes
<1>6. i \in Int /\ \A k \in i .. HeaderBits - 1 : h[k] = 1
  BY Sizes
<1>7. \A k \in MAX_CAPACITY + quot - 1 .. HeaderBits - 1 : h[k] = 1
  BY <1>2, <1>5, <1>6, Sizes
<1> HIDE DEF T, U, h
<1> DEFINE L == {q \in Quots : E[q] = MAX_CAPACITY}
<1>8. L \in SUBSET Nat /\ QUOTS - 1 \in L
  BY Sizes DEF Total
<1>9. PICK m \in L : \A q \in L : m <= q
  <2> HIDE DEF L
  <2> QED BY <1>8, LeastNat
<1>10. m \in Quots /\ E[m] = MAX_CAPACITY
  OBVIOUS
<1>11. CASE m <= quot - 1
  <2>1. m = quot - 1 \/ m < quot - 1
    BY <1>2, <1>10, <1>11
  <2>2. E[m] <= E[quot - 1]
    BY <1>1, <1>2, <1>10, <2>1 DEF Ends
  <2> QED BY <1>2, <1>10, <2>2, Sizes
<1>12. CASE quot <= m
  <2>1. m - 1 \in Quots /\ ~(m <= m - 1) /\ m # 0
    BY <1>2, <1>10, <1>12, Sizes DEF Quots
  <2>2. E[m - 1] # MAX_CAPACITY
    BY <1>9, <2>1
  <2> HIDE DEF L
  <2> DEFINE k == MAX_CAPACITY + m - 1
  <2>3. k \in MAX_CAPACITY + quot - 1 .. HeaderBits - 1 /\ k \in 0 .. HeaderBits - 1
    BY <1>2, <1>10, <1>12, Sizes
  <2>4. PICK r \in Quots : k = E[r] + r
    BY <1>1, <1>7, <2>3 DEF Ends
  <2>5. r <= m - 1 \/ m <= r
    BY <1>2, <1>10
  <2>6. r <= m - 1 => E[r] <= E[m - 1]
    <3>1. r <= m - 1 => r = m - 1 \/ r < m - 1
      BY <1>2, <1>10
    <3>2. r < m - 1 => E[r] <= E[m - 1]
      BY <1>1, <2>1 DEF Ends
    <3> QED BY <1>2, <2>1, <3>1, <3>2
  <2>7. m <= r => E[r] = MAX_CAPACITY
    <3>1. m <= r => m = r \/ m < r
      BY <1>2, <1>10
    <3>2. m < r => E[m] <= E[r]
      BY <1>1, <1>10 DEF Ends
    <3> QED BY <1>2, <1>10, <3>1, <3>2, Sizes
  <2> QED BY <1>2, <1>10, <2>1, <2>2, <2>4, <2>5, <2>6, <2>7, Sizes
<1> QED BY <1>2, <1>10, <1>11, <1>12

(* The first 0 of the header is that of the first element. *)
LEMMA FirstElementIs ==
  ASSUME NEW h, NEW E, Ends(h, E), Total(E) > 0
  PROVE  \E q0 \in Quots :
           /\ ZeroFrom(H0(h), 0) = q0
           /\ Begin(E, q0) = 0 /\ E[q0] > 0
           /\ \A q \in Quots : Begin(E, q) < E[q] => q0 <= q
           /\ E[0] = 0 => NextRun(E, 0, q0)
<1>1. /\ \A r \in Quots : r \in Nat /\ r < QUOTS /\ E[r] \in 0 .. MAX_CAPACITY
      /\ 0 \in Quots /\ Begin(E, 0) = 0
  <2>1. \A r \in Quots : r \in Nat /\ r < QUOTS /\ E[r] \in 0 .. MAX_CAPACITY
    BY EndTypes
  <2> QED BY <2>1, Sizes DEF Begin
<1>2. DOMAIN H0(h) \subseteq Int /\ \A k \in DOMAIN H0(h) : H0(h)[k] = h[k] /\ k >= 0
  BY Sizes DEF H0
<1>3. CASE E[0] > 0
  <2>1. 0 \in 0 .. HeaderBits - 1 /\ 0 \in DOMAIN H0(h)
    BY Sizes DEF H0
  <2>2. \A r \in Quots : E[0] <= E[r]
    <3> SUFFICES ASSUME NEW r \in Quots PROVE E[0] <= E[r]
      OBVIOUS
    <3>1. r = 0 \/ 0 < r
      BY <1>1
    <3> QED BY <1>1, <3>1 DEF Ends
  <2>3. \A r \in Quots : 0 # E[r] + r
    BY <1>1, <1>3, <2>2
  <2>4. h[0] = 0
    BY <2>1, <2>3 DEF Ends
  <2>5. ZeroFrom(H0(h), 0) = 0
    <3>1. H0(h)[0] = 0 /\ 0 \in Int /\ 0 >= 0
      BY <1>2, <2>1, <2>4
    <3>2. \A k \in DOMAIN H0(h) : k >= 0 /\ H0(h)[k] = 0 => 0 <= k
      BY <1>2
    <3> QED BY <1>2, <2>1, <3>1, <3>2, ZeroFromIs, Zenon
  <2> QED BY <1>1, <1>3, <2>5
<1>4. CASE E[0] = 0
  <2>1. PICK q0 \in Quots :
           /\ NextRun(E, 0, q0)
           /\ Begin(E, q0) < E[q0]
           /\ \A q \in Quots : 0 <= q /\ Begin(E, q) < E[q] => q0 <= q
    BY <1>1, <1>4, NextRunExists
  <2>2. q0 \in Nat /\ 0 < q0 /\ q0 < QUOTS /\ q0 - 1 \in Quots /\ 0 <= q0 - 1 /\ q0 - 1 < q0
    BY <1>1, <2>1, Sizes DEF NextRun, Quots
  <2>3. Begin(E, q0) = 0
    BY <1>4, <2>1, <2>2 DEF NextRun, Begin
  <2>4. /\ h[E[0] + q0] = 0
        /\ \A k \in E[0] + 0 .. (E[0] + q0) - 1 : h[k] = 1
    BY <1>1, <2>1, BitsBehind
  <2>5. h[q0] = 0 /\ \A k \in 0 .. q0 - 1 : h[k] = 1
    <3>1. E[0] + q0 = q0 /\ E[0] + 0 = 0 /\ (E[0] + q0) - 1 = q0 - 1
      BY <1>4, <2>2
    <3> QED BY <2>4, <3>1
  <2>6. q0 \in DOMAIN H0(h) /\ q0 >= 0 /\ H0(h)[q0] = 0
    BY <1>2, <2>2, <2>5, Sizes DEF H0
  <2>7. \A k \in DOMAIN H0(h) : k >= 0 /\ H0(h)[k] = 0 => q0 <= k
    <3> SUFFICES ASSUME NEW k \in DOMAIN H0(h), H0(h)[k] = 0 PROVE q0 <= k
      OBVIOUS
    <3>1. k \in Int /\ k >= 0 /\ h[k] = 0
      BY <1>2
    <3>2. k \notin 0 .. q0 - 1
      BY <2>5, <3>1
    <3> QED BY <2>2, <3>1, <3>2
  <2>8. ZeroFrom(H0(h), 0) = q0
    <3>1. 0 \in Int
      OBVIOUS
    <3> QED BY <1>2, <2>6, <2>7, <3>1, ZeroFromIs, Zenon
  <2>9. \A q \in Quots : Begin(E, q) < E[q] => q0 <= q
    <3>1. \A q \in Quots : 0 <= q
      BY <1>1
    <3> QED BY <2>1, <3>1
  <2> QED BY <1>1, <2>1, <2>3, <2>8, <2>9
<1> QED BY <1>1, <1>3, <1>4

-----------------------------------------------------------------------------
(***************************************************************************)
(* add_when_full, by its cases.                                            *)
(***************************************************************************)
Adds(p, c, quot, rem) ==
  /\ \E F : Layout(c, F) /\ Clean(c, F)
  /\ RunsOf(c) = AddTo(RunsOf(p), quot, rem)

(* A full dictionary stays full, and has no bytes behind its elements. *)
LEMMA FullIsClean ==
  ASSUME NEW c, NEW F, Total(F) = MAX_CAPACITY
  PROVE  Clean(c, F)
BY Sizes DEF Clean, Places

LEMMA ReplacedAdds ==
  ASSUME NEW p, NEW E, Layout(p, E), Total(E) = MAX_CAPACITY, NEW quot \in Quots, NEW rem \in Bytes,
         Begin(E, quot) < E[quot]
  PROVE  Adds(p, [p EXCEPT !.body = ReplaceOldest(@, Begin(E, quot), E[quot] - 1, rem)], quot, rem)
<1> DEFINE c == [p EXCEPT !.body = ReplaceOldest(@, Begin(E, quot), E[quot] - 1, rem)]
<1>1. Layout(c, E) /\ RunsOf(c) = Turned(p, quot, quot, rem)
  BY ReplacedIs
<1>2. EvictQuot(RunsOf(p), quot) = quot
  <2>1. quot <= quot
    BY Sizes
  <2> QED BY <2>1, EvictQuotIs
<1> HIDE DEF c
<1>3. RunsOf(c) = AddTo(RunsOf(p), quot, rem)
  BY <1>1, <1>2, AddToIs
<1> QED BY <1>1, <1>3, FullIsClean DEF Adds, c

LEMMA MovedAdds ==
  ASSUME NEW p, NEW E, Layout(p, E), Total(E) = MAX_CAPACITY, NEW quot \in Quots, NEW rem \in Bytes,
         NEW q1 \in Quots, NextRun(E, quot, q1), Begin(E, q1) < E[q1],
         \A q \in Quots : quot <= q /\ Begin(E, q) < E[q] => q1 <= q
  PROVE  Adds(p, MovedToRun(p, quot, rem, E[quot] + quot, E[quot] + q1), quot, rem)
<1> DEFINE c == MovedToRun(p, quot, rem, E[quot] + quot, E[quot] + q1)
           F == Moved(E, quot, q1)
<1>1. Layout(c, F) /\ RunsOf(c) = Turned(p, q1, quot, rem)
  BY MovedIs
<1>2. Total(F) = MAX_CAPACITY
  BY MovedEnds DEF Layout
<1>3. EvictQuot(RunsOf(p), quot) = q1
  <2>1. quot <= q1
    BY Sizes DEF NextRun
  <2> QED BY <2>1, EvictQuotIs
<1> HIDE DEF c, F
<1>4. RunsOf(c) = AddTo(RunsOf(p), quot, rem)
  BY <1>1, <1>3, AddToIs
<1> QED BY <1>1, <1>2, <1>4, FullIsClean DEF Adds, c

LEMMA ZeroQuotAdds ==
  ASSUME NEW p, NEW E, Layout(p, E), Total(E) = MAX_CAPACITY, NEW rem \in Bytes
  PROVE  Adds(p, AddedToZeroQuot(p, rem), 0, rem)
<1> DEFINE h == p.header
<1>1. Ends(h, E) /\ 0 \in Quots /\ Begin(E, 0) = 0 /\ E[0] \in 0 .. MAX_CAPACITY
  <2>1. Ends(h, E) /\ 0 \in Quots
    BY Sizes DEF Layout
  <2> QED BY <2>1, EndTypes DEF Begin
<1>2. PICK q0 \in Quots :
           /\ ZeroFrom(H0(h), 0) = q0
           /\ Begin(E, q0) = 0 /\ E[q0] > 0
           /\ \A q \in Quots : Begin(E, q) < E[q] => q0 <= q
           /\ E[0] = 0 => NextRun(E, 0, q0)
  <2>1. Total(E) > 0
    BY Sizes
  <2> QED BY <1>1, <2>1, FirstElementIs
<1>3. H0(h)[0] = 1 <=> E[0] = 0
  <2>1. H0(h)[0] = h[0] /\ 0 \in 0 .. HeaderBits - 1
    BY Sizes DEF H0
  <2>2. \A q \in Quots : q \in Nat /\ E[q] \in Nat
    BY <1>1, EndTypes
  <2>3. E[0] = 0 <=> \E q \in Quots : 0 = E[q] + q
    BY <1>1, <2>2
  <2> QED BY <1>1, <2>1, <2>3 DEF Ends
<1>4. CASE E[0] = 0
  <2>1. AddedToZeroQuot(p, rem) = MovedToRun(p, 0, rem, 0, q0)
    BY <1>2, <1>3, <1>4 DEF AddedToZeroQuot
  <2>2. E[0] + 0 = 0 /\ E[0] + q0 = q0
    BY <1>4, Sizes
  <2>3. Begin(E, q0) < E[q0] /\ \A q \in Quots : 0 <= q /\ Begin(E, q) < E[q] => q0 <= q
    BY <1>2
  <2>4. Adds(p, MovedToRun(p, 0, rem, E[0] + 0, E[0] + q0), 0, rem)
    BY <1>1, <1>2, <1>4, <2>3, MovedAdds
  <2> QED BY <2>1, <2>2, <2>4
<1>5. CASE E[0] # 0
  <2>1. AddedToZeroQuot(p, rem) = [p EXCEPT !.body = ReplaceOldest(@, 0, Select(H0(h), 0) - 1, rem)]
    BY <1>3, <1>5 DEF AddedToZeroQuot
  <2>2. Select(H0(h), 0) = E[0]
    <3>1. PICK m \in 1 .. QUOTS : \A q \in Quots : q < m => Select(H0(h), q) = E[q] + q
      BY <1>1, WordsSplit
    <3>2. Select(H0(h), 0) = E[0] + 0
      BY <1>1, <3>1, Sizes
    <3> QED BY <1>1, <3>2
  <2>3. Begin(E, 0) < E[0]
    BY <1>1, <1>5
  <2>4. Adds(p, [p EXCEPT !.body = ReplaceOldest(@, Begin(E, 0), E[0] - 1, rem)], 0, rem)
    BY <1>1, <2>3, ReplacedAdds
  <2> QED BY <1>1, <2>1, <2>2, <2>4
<1> QED BY <1>4, <1>5

LEMMA DeletingFirstAdds ==
  ASSUME NEW p, NEW E, Layout(p, E), Total(E) = MAX_CAPACITY, NEW quot \in Quots, NEW rem \in Bytes,
         quot # 0, PastLast(p, quot)
  PROVE  Adds(p, AddedByDeletingFirst(p, quot, rem), quot, rem)
<1> DEFINE last == p.body[MAX_CAPACITY - 1]
<1>1. Ends(p.header, E) /\ p.body \in [Places -> Bytes] /\ last \in Bytes
  <2>1. MAX_CAPACITY - 1 \in Places
    BY Sizes DEF Places
  <2> QED BY <2>1 DEF Layout
<1>2. \A r \in Quots : r \in Nat /\ E[r] \in 0 .. MAX_CAPACITY /\ Begin(E, r) \in Nat
  BY <1>1, EndTypes
<1>3. PICK q0 \in Quots :
           /\ ZeroFrom(H0(p.header), 0) = q0
           /\ Begin(E, q0) = 0 /\ E[q0] > 0
           /\ \A q \in Quots : Begin(E, q) < E[q] => q0 <= q
  <2>1. Total(E) > 0
    BY Sizes
  <2> QED BY <1>1, <2>1, FirstElementIs
<1> DEFINE c == DeleteElement(p, q0, 0, last)
           F == Shrink(E, q0)
           d == AddedWhenNotFull(c, quot, rem)
           G == Grow(F, quot)
<1>4. AddedByDeletingFirst(p, quot, rem) = d
  BY <1>3 DEF AddedByDeletingFirst
<1>5. 0 \in Run(E, q0) /\ q0 = Begin(E, q0) + q0
  BY <1>2, <1>3 DEF Run
<1> HIDE DEF last
<1>6. Layout(c, F) /\ TakenOut(p, E, c, F, q0, 0)
  BY <1>1, <1>5, DeletedIs
<1>7. RunsOf(c) = DropOldest(RunsOf(p), q0)
  <2> HIDE DEF c, F
  <2>1. RunsOf(c) = [RunsOf(p) EXCEPT ![q0] = Without(@, 0 - Begin(E, q0) + 1)]
    BY <1>5, <1>6, TakenOutDrops
  <2>2. 0 - Begin(E, q0) + 1 = 1
    BY <1>3
  <2>3. RunsOf(p)[q0] \in Seq(Bytes) /\ RunsOf(p)[q0] # << >>
    <3>1. q0 \in Nonempty(RunsOf(p))
      BY <1>3, NonemptyIs
    <3> QED BY <3>1, RunsOfIs DEF Nonempty
  <2>4. Tail(RunsOf(p)[q0]) = Without(RunsOf(p)[q0], 1)
    BY <2>3, TailIsWithout
  <2> QED BY <2>1, <2>2, <2>4 DEF DropOldest
<1>8. Total(F) = MAX_CAPACITY - 1 /\ Total(F) < MAX_CAPACITY /\ Total(G) = MAX_CAPACITY
  <2>1. Total(F) = MAX_CAPACITY - 1
    BY TotalOf
  <2>2. Total(G) = Total(F) + 1
    BY TotalOf
  <2> HIDE DEF F, G
  <2> QED BY <2>1, <2>2, Sizes
<1> HIDE DEF c, F
<1>9. Layout(d, G) /\ Inserted(c, F, d, G, quot, rem)
  BY <1>6, <1>8, AddedIs
<1> HIDE DEF d, G
<1>10. RunsOf(d) = Turned(p, q0, quot, rem)
  BY <1>6, <1>7, <1>9, InsertedAppends DEF Turned
<1>11. EvictQuot(RunsOf(p), quot) = q0
  <2>1. E[quot - 1] = MAX_CAPACITY
    BY PastLastIs
  <2>2. ASSUME NEW q \in Quots, Begin(E, q) < E[q] PROVE q < quot
    <3> SUFFICES ASSUME quot <= q PROVE FALSE
      BY <1>2
    <3>1. quot - 1 \in Quots /\ q # 0 /\ q - 1 \in Quots /\ (quot - 1 = q - 1 \/ quot - 1 < q - 1)
      BY <1>1, <1>2, EndTypes
    <3>2. E[quot - 1] <= E[q - 1]
      BY <1>1, <1>2, <3>1 DEF Ends
    <3>3. Begin(E, q) = E[q - 1] /\ E[q - 1] \in 0 .. MAX_CAPACITY /\ E[q] \in 0 .. MAX_CAPACITY
      BY <1>2, <3>1 DEF Begin
    <3> QED BY <2>1, <2>2, <3>2, <3>3, Sizes
  <2>3. Begin(E, q0) < E[q0]
    BY <1>3
  <2> QED BY <1>3, <2>2, <2>3, EvictFirst
<1>12. RunsOf(d) = AddTo(RunsOf(p), quot, rem)
  BY <1>10, <1>11, AddToIs
<1> QED BY <1>4, <1>8, <1>9, <1>12, FullIsClean DEF Adds

LEMMA InRangeAdds ==
  ASSUME NEW p, NEW E, Layout(p, E), Total(E) = MAX_CAPACITY, NEW quot \in Quots, NEW rem \in Bytes,
         quot # 0, ~PastLast(p, quot), ~Overruns(p, quot)
  PROVE  Adds(p, AddedInRange(p, quot, rem), quot, rem)
<1> DEFINE run == BeginAndEnd(p.header, quot)
<1>1. Ends(p.header, E) /\ p.header \in [0 .. HeaderBits - 1 -> 0 .. 1]
  BY DEF Layout, Ends
<1>2. /\ quot \in Nat /\ E[quot] \in 0 .. MAX_CAPACITY /\ Begin(E, quot) \in Nat
      /\ Begin(E, quot) <= E[quot]
  BY <1>1, EndTypes
<1>3. run[1] = Begin(E, quot) + quot - 1 /\ run[2] = E[quot] + quot
  BY <1>1, BeginAndEndIs
<1> HIDE DEF run
<1>4. run[1] + 1 < run[2] <=> Begin(E, quot) < E[quot]
  BY <1>2, <1>3
<1>5. CASE Begin(E, quot) < E[quot]
  <2>1. AddedInRange(p, quot, rem) =
          [p EXCEPT !.body = ReplaceOldest(@, run[1] + 1 - quot, run[2] - quot - 1, rem)]
    BY <1>4, <1>5 DEF AddedInRange, ReplacedInRun, run
  <2>2. run[1] + 1 - quot = Begin(E, quot) /\ run[2] - quot - 1 = E[quot] - 1
    <3>1. run[1] \in Int /\ run[2] \in Int
      BY <1>2, <1>3
    <3> QED BY <1>2, <1>3, <3>1
  <2>3. Adds(p, [p EXCEPT !.body = ReplaceOldest(@, Begin(E, quot), E[quot] - 1, rem)], quot, rem)
    BY <1>5, ReplacedAdds
  <2>4. AddedInRange(p, quot, rem) =
          [p EXCEPT !.body = ReplaceOldest(@, Begin(E, quot), E[quot] - 1, rem)]
    BY <2>1, <2>2
  <2> QED BY <2>3, <2>4
<1>6. CASE ~(Begin(E, quot) < E[quot])
  <2>1. AddedInRange(p, quot, rem) =
          MovedToRun(p, quot, rem, E[quot] + quot, NextElement(p.header, E[quot] + quot))
    BY <1>3, <1>4, <1>6 DEF AddedInRange, run
  <2>2. run[1] + 1 = run[2] /\ Begin(E, quot) = E[quot]
    BY <1>2, <1>3, <1>6
  <2>3. pd_full(p)
    BY FullIs
  <2>4. NextElement(p.header, E[quot] + quot) # HeaderBits
    BY <1>3, <2>2, <2>3 DEF Overruns, run
  <2>5. E[quot] < Total(E)
    <3> SUFFICES ASSUME E[quot] = MAX_CAPACITY PROVE FALSE
      BY <1>2, Sizes
    <3> DEFINE end == E[quot] + quot
    <3>1. end \in 0 .. HeaderBits - 1 /\ \A k \in end .. HeaderBits - 1 : p.header[k] = 1
      BY <1>1, BitsBehind
    <3>2. HeaderBits \in end .. HeaderBits
      BY <3>1, Sizes
    <3> HIDE DEF end
    <3>3. NextElement(p.header, end) = HeaderBits
      BY <1>1, <3>1, <3>2, NextElementIs
    <3> QED BY <2>4, <3>3 DEF end
  <2>6. PICK q1 \in Quots :
           /\ NextRun(E, quot, q1)
           /\ Begin(E, q1) < E[q1]
           /\ \A q \in Quots : quot <= q /\ Begin(E, q) < E[q] => q1 <= q
    BY <1>1, <2>2, <2>5, NextRunExists
  <2>7. NextElement(p.header, E[quot] + quot) = E[quot] + q1
    <3> DEFINE end == E[quot] + quot
               z == E[quot] + q1
    <3>1. /\ end \in 0 .. HeaderBits - 1 /\ z \in end .. HeaderBits - 1 /\ p.header[z] = 0
          /\ \A k \in end .. z - 1 : p.header[k] = 1
      <4>1. NextRun(E, quot, q1) =>
              z \in end .. HeaderBits - 1 /\ p.header[z] = 0 /\ \A k \in end .. z - 1 : p.header[k] = 1
        BY <1>1, BitsBehind
      <4>2. end \in 0 .. HeaderBits - 1
        BY <1>1, BitsBehind
      <4> HIDE DEF end, z
      <4> QED BY <2>6, <4>1, <4>2
    <3>2. z \in end .. HeaderBits
      BY <3>1, Sizes
    <3> HIDE DEF end, z
    <3>3. NextElement(p.header, end) = z
      BY <1>1, <3>1, <3>2, NextElementIs
    <3> QED BY <3>3 DEF end, z
  <2>8. Adds(p, MovedToRun(p, quot, rem, E[quot] + quot, E[quot] + q1), quot, rem)
    BY <2>6, MovedAdds
  <2> QED BY <2>1, <2>7, <2>8
<1> QED BY <1>5, <1>6

(* Every addition that does not overrun is one of the runs'. *)
LEMMA AddedAdds ==
  ASSUME NEW p, NEW E, Layout(p, E), Clean(p, E), NEW quot \in Quots, NEW rem \in Bytes,
         ~Overruns(p, quot)
  PROVE  Adds(p, Added(p, quot, rem), quot, rem)
<1>1. CASE Total(E) = MAX_CAPACITY
  <2>1. Added(p, quot, rem) = AddedWhenFull(p, quot, rem)
    BY <1>1, FullIs DEF Added
  <2>2. CASE quot = 0
    <3>1. Added(p, quot, rem) = AddedToZeroQuot(p, rem)
      BY <2>1, <2>2 DEF AddedWhenFull
    <3> QED BY <1>1, <2>2, <3>1, ZeroQuotAdds
  <2>3. CASE quot # 0 /\ PastLast(p, quot)
    <3>1. Added(p, quot, rem) = AddedByDeletingFirst(p, quot, rem)
      BY <2>1, <2>3 DEF AddedWhenFull
    <3> QED BY <1>1, <2>3, <3>1, DeletingFirstAdds
  <2>4. CASE quot # 0 /\ ~PastLast(p, quot)
    <3>1. Added(p, quot, rem) = AddedInRange(p, quot, rem)
      BY <2>1, <2>4 DEF AddedWhenFull
    <3> QED BY <1>1, <2>4, <3>1, InRangeAdds
  <2> QED BY <2>2, <2>3, <2>4
<1>2. CASE Total(E) # MAX_CAPACITY
  <2> DEFINE c == AddedWhenNotFull(p, quot, rem)
             F == Grow(E, quot)
  <2>1. Added(p, quot, rem) = c
    BY <1>2, FullIs DEF Added
  <2>2. Total(E) < MAX_CAPACITY
    BY <1>2, EndTypes, Sizes DEF Layout
  <2>3. Layout(c, F) /\ Inserted(p, E, c, F, quot, rem) /\ Clean(c, F)
    BY <2>2, AddedIs
  <2> HIDE DEF c, F
  <2>4. RunsOf(c) = AppendTo(RunsOf(p), quot, rem)
    BY <2>3, InsertedAppends
  <2>5. RunsOf(c) = AddTo(RunsOf(p), quot, rem)
    BY <1>2, <2>4, AddToIs
  <2> QED BY <2>1, <2>3, <2>5 DEF Adds
<1> QED BY <1>1, <1>2

-----------------------------------------------------------------------------
(***************************************************************************)
(* In every state the header ends some runs and the bytes behind are 0.    *)
(***************************************************************************)
IInv ==
  /\ overrun \in BOOLEAN
  /\ \E E : Layout(pd, E) /\ Clean(pd, E)

LEMMA InitFits ==
  ASSUME Init
  PROVE  IInv /\ RunsOf(pd) = NoRuns
<1> DEFINE E == [q \in Quots |-> 0]
<1>1. /\ pd.header = [i \in 0 .. HeaderBits - 1 |-> IF i < QUOTS THEN 1 ELSE 0]
      /\ pd.body = [i \in Places |-> 0]
      /\ pd = [header |-> pd.header, body |-> pd.body] /\ overrun \in BOOLEAN
  BY DEF Init
<1>2. \A q \in Quots : E[q] = 0 /\ E[q] \in 0 .. MAX_CAPACITY /\ Begin(E, q) = 0
  <2>1. \A q \in Quots : E[q] = 0 /\ E[q] \in 0 .. MAX_CAPACITY
    BY Sizes
  <2>2. \A q \in Quots : q # 0 => q - 1 \in Quots
    BY Sizes DEF Quots
  <2> HIDE DEF E
  <2> QED BY <2>1, <2>2 DEF Begin
<1>3. E \in [Quots -> 0 .. MAX_CAPACITY]
  <2>1. 0 \in 0 .. MAX_CAPACITY
    BY Sizes
  <2> QED BY <2>1
<1> HIDE DEF E
<1>4. Ends(pd.header, E)
  <2>1. \A q, r \in Quots : q < r => E[q] <= E[r]
    BY <1>2
  <2>2. \A i \in 0 .. HeaderBits - 1 : pd.header[i] = IF i < QUOTS THEN 1 ELSE 0
    BY <1>1
  <2>3. pd.header \in [0 .. HeaderBits - 1 -> 0 .. 1]
    BY <1>1
  <2>4. \A i \in 0 .. HeaderBits - 1 : i < QUOTS <=> \E q \in Quots : i = E[q] + q
    <3>1. \A q \in Quots : E[q] + q = q
      BY <1>2, Sizes
    <3>2. \A i \in 0 .. HeaderBits - 1 : i < QUOTS <=> i \in Quots
      BY Sizes DEF Quots
    <3> QED BY <3>1, <3>2
  <2> QED BY <1>3, <2>1, <2>2, <2>3, <2>4 DEF Ends
<1>5. Layout(pd, E) /\ Clean(pd, E)
  BY <1>1, <1>4 DEF Layout, Clean, Bytes
<1>6. RunsOf(pd) = NoRuns
  <2>1. NoRuns \in [Quots -> Seq(Bytes)] /\ \A q \in Quots : NoRuns[q] = << >> /\ Len(NoRuns[q]) = 0
    BY DEF NoRuns
  <2>2. \A q \in Quots : E[q] - Begin(E, q) = 0
    BY <1>2
  <2>3. \A i \in 1 .. 0 : FALSE
    OBVIOUS
  <2> QED BY <1>5, <2>1, <2>2, <2>3, SameRuns
<1> QED BY <1>1, <1>5, <1>6 DEF IInv

(* A step of the bits as a step of the runs. *)
RunStep ==
  \/ \E quot \in Quots : \E rem \in Rems : RunsOf(pd)' = AddTo(RunsOf(pd), quot, rem)
  \/ \E quot \in Quots : \E rem \in Rems :
        Stores(RunsOf(pd), quot, rem) /\ RunsOf(pd)' = RemoveFrom(RunsOf(pd), quot, rem)
  \/ RunsOf(pd)' = RunsOf(pd)

LEMMA RemovesWhatIsFound ==
  ASSUME NEW p, NEW E, Layout(p, E), Clean(p, E), NEW quot \in Quots, NEW rem
  PROVE  /\ RunMatches(p, quot, rem) # {} <=> find(quot, rem, p)
         /\ RunMatches(p, quot, rem) # {} <=> Stores(RunsOf(p), quot, rem)
<1>1. RunMatches(p, quot, rem) = {i \in Run(E, quot) : p.body[i] = rem}
  BY RemovedIs
<1> QED BY <1>1, FindIs, StoresIs

LEMMA StepFits ==
  ASSUME IInv, [Next]_vars
  PROVE  IInv' /\ RunStep
<1>1. CASE UNCHANGED vars
  <2>1. pd' = pd /\ overrun' = overrun
    BY <1>1 DEF vars
  <2> QED BY <2>1 DEF IInv, RunStep
<1>2. CASE Next
  <2>1. PICK quot \in Quots, rem \in Rems : add(quot, rem) \/ remove(quot, rem)
    BY <1>2 DEF Next
  <2>2. PICK E : Layout(pd, E) /\ Clean(pd, E)
    BY DEF IInv
  <2>3. rem \in Bytes /\ overrun \in BOOLEAN
    BY DEF Bytes, IInv
  <2>4. CASE ~Overruns(pd, quot) /\ pd' = Added(pd, quot, rem) /\ UNCHANGED overrun
    <3>1. Adds(pd, pd', quot, rem)
      BY <2>2, <2>3, <2>4, AddedAdds
    <3> QED BY <2>3, <2>4, <3>1 DEF Adds, IInv, RunStep
  <2>5. CASE Overruns(pd, quot) /\ overrun' = TRUE /\ UNCHANGED pd
    BY <2>2, <2>5 DEF IInv, RunStep
  <2>6. CASE remove(quot, rem)
    <3>1. RunMatches(pd, quot, rem) # {} /\ pd' = Removed(pd, quot, rem) /\ overrun' = overrun
      BY <2>6 DEF remove
    <3>2. /\ \E F : Layout(pd', F) /\ Clean(pd', F)
          /\ RunsOf(pd') = RemoveFrom(RunsOf(pd), quot, rem)
      BY <2>2, <3>1, RemovedIs
    <3>3. Stores(RunsOf(pd), quot, rem)
      BY <2>2, <3>1, RemovesWhatIsFound
    <3> QED BY <2>3, <3>1, <3>2, <3>3 DEF IInv, RunStep
  <2> QED BY <2>1, <2>4, <2>5, <2>6 DEF add
<1> QED BY <1>1, <1>2

(***************************************************************************)
(* In every state reached the bits are those of some runs: the header is   *)
(* a unary code of their ends, and behind the last element are 0s.         *)
(***************************************************************************)
THEOREM Invariance == Spec => []IInv
<1>1. Init => IInv
  BY InitFits
<1>2. IInv /\ [Next]_vars => IInv'
  BY StepFits
<1> QED BY <1>1, <1>2, PTL DEF Spec

LEMMA TypeFollows ==
  ASSUME IInv
  PROVE  TypeOK
<1>1. PICK E : Layout(pd, E) /\ Clean(pd, E)
  BY DEF IInv
<1>2. Ends(pd.header, E)
  BY <1>1 DEF Layout
<1>3. Popcount(pd.header) = QUOTS
  BY <1>2, HeaderReads
<1>4. Fill(pd) = Total(E)
  <2>1. QUOTS - 1 \in Quots /\ E[QUOTS - 1] \in Int
    BY <1>2, EndTypes, Sizes
  <2>2. Select(pd.header, QUOTS - 1) = E[QUOTS - 1] + (QUOTS - 1)
    BY <1>2, <2>1, HeaderReads
  <2>3. Fill(pd) = (E[QUOTS - 1] + (QUOTS - 1)) - (QUOTS - 1)
    BY <2>2 DEF Fill
  <2> QED BY <2>1, <2>3, Sizes DEF Total
<1> QED BY <1>1, <1>2, <1>3, <1>4 DEF TypeOK, IInv, Layout, Ends, Clean, Bytes

(***************************************************************************)
(* The header always ends QUOTS runs, and no byte is left behind them,     *)
(* whichever way an addition or a removal rewrote the two.                 *)
(***************************************************************************)
THEOREM Typed == Spec => []TypeOK
<1>1. IInv => TypeOK
  BY TypeFollows
<1> QED BY <1>1, Invariance, PTL

LEMMA FindsFollows ==
  ASSUME IInv
  PROVE  FindReadsTheRun
<1>1. PICK E : Layout(pd, E) /\ Clean(pd, E)
  BY DEF IInv
<1> QED BY <1>1, FindIs, StoresIs DEF FindReadsTheRun

(***************************************************************************)
(* pd_find_50_v18 answers as a search of the quotient's run would, by its  *)
(* short cut for a single match and by each of its bounds for a run.       *)
(***************************************************************************)
THEOREM FindsExactly == Spec => []FindReadsTheRun
<1>1. IInv => FindReadsTheRun
  BY FindsFollows
<1> QED BY <1>1, Invariance, PTL

LEMMA UpdatesFollows ==
  ASSUME IInv
  PROVE  UpdatesTheRuns
<1>1. PICK E : Layout(pd, E) /\ Clean(pd, E)
  BY DEF IInv
<1> SUFFICES ASSUME NEW quot \in Quots, NEW rem \in Rems
             PROVE  /\ ~Overruns(pd, quot) =>
                          RunsOf(Added(pd, quot, rem)) = AddTo(RunsOf(pd), quot, rem)
                    /\ RunMatches(pd, quot, rem) # {} <=> find(quot, rem, pd)
                    /\ RunMatches(pd, quot, rem) # {} =>
                          RunsOf(Removed(pd, quot, rem)) = RemoveFrom(RunsOf(pd), quot, rem)
  BY DEF UpdatesTheRuns
<1>2. rem \in Bytes
  BY DEF Bytes
<1>3. ~Overruns(pd, quot) => Adds(pd, Added(pd, quot, rem), quot, rem)
  BY <1>1, <1>2, AddedAdds
<1>4. RunMatches(pd, quot, rem) # {} <=> find(quot, rem, pd)
  BY <1>1, RemovesWhatIsFound
<1>5. RunMatches(pd, quot, rem) # {} =>
        RunsOf(Removed(pd, quot, rem)) = RemoveFrom(RunsOf(pd), quot, rem)
  BY <1>1, RemovedIs
<1> QED BY <1>3, <1>4, <1>5 DEF Adds

(***************************************************************************)
(* On every content reached, for every element: each of add's seven ways   *)
(* evicts and appends as get_evict_qr says and disturbs no other run, and  *)
(* remove takes one copy, the first, of what find finds.  The additions    *)
(* that write behind the body are the only ones left out.                  *)
(***************************************************************************)
THEOREM UpdatesExactly == Spec => []UpdatesTheRuns
<1>1. IInv => UpdatesTheRuns
  BY UpdatesFollows
<1> QED BY <1>1, Invariance, PTL

(* EvictingPd's operators on runs are those of this module. *)
LEMMA AbstractOperators ==
  /\ Abstract!Quots = Quots /\ Abstract!NoRuns = NoRuns
  /\ \A r, q, x : Abstract!AddTo(r, q, x) = AddTo(r, q, x)
  /\ \A r, q, x : Abstract!RemoveFrom(r, q, x) = RemoveFrom(r, q, x)
  /\ \A r, q, x : Abstract!Stores(r, q, x) = Stores(r, q, x)
<1>1. Abstract!Quots = Quots /\ Abstract!NoRuns = NoRuns
  BY DEF Abstract!Quots, Quots, Abstract!NoRuns, NoRuns
<1>2. \A S : Abstract!Cardinality(S) = Cardinality(S) /\ Abstract!Min(S) = Min(S)
  BY DEF Abstract!Cardinality, Cardinality, Abstract!Min, Min
<1>3. \A r : Abstract!Elements(r) = Elements(r)
  BY <1>1 DEF Abstract!Elements, Elements
<1>4. \A r : Abstract!IsFull(r) <=> IsFull(r)
  BY <1>2, <1>3 DEF Abstract!IsFull, IsFull, Abstract!Size, Size
<1>5. \A r : Abstract!Nonempty(r) = Nonempty(r)
  BY <1>1 DEF Abstract!Nonempty, Nonempty
<1>6. \A r, q : Abstract!EvictQuot(r, q) = EvictQuot(r, q)
  BY <1>2, <1>5 DEF Abstract!EvictQuot, EvictQuot
<1>7. /\ \A r, q : Abstract!DropOldest(r, q) = DropOldest(r, q)
      /\ \A r, q, x : Abstract!AppendTo(r, q, x) = AppendTo(r, q, x)
  BY DEF Abstract!DropOldest, DropOldest, Abstract!AppendTo, AppendTo
<1>8. \A r, q, x : Abstract!AddTo(r, q, x) = AddTo(r, q, x)
  BY <1>4, <1>6, <1>7 DEF Abstract!AddTo, AddTo
<1>9. \A s, x : Abstract!RemoveFirst(s, x) = RemoveFirst(s, x)
  BY <1>2 DEF Abstract!RemoveFirst, RemoveFirst, Abstract!SelectInSeq, SelectInSeq,
     Abstract!RemoveAt, RemoveAt
<1>10. \A r, q, x : Abstract!RemoveFrom(r, q, x) = RemoveFrom(r, q, x)
  BY <1>9 DEF Abstract!RemoveFrom, RemoveFrom
<1>11. \A r, q, x : Abstract!Stores(r, q, x) = Stores(r, q, x)
  BY DEF Abstract!Stores, Stores, Abstract!Range, Range
<1> QED BY <1>1, <1>8, <1>10, <1>11

(***************************************************************************)
(* The bits implement EvictingPd: they start with no runs, and each step   *)
(* is one of its additions or removals, or leaves the runs as they were.   *)
(***************************************************************************)
THEOREM Implements == Spec => KeepsRuns
<1>1. Init => Abstract!Init
  BY InitFits, AbstractOperators DEF Abstract!Init
<1>2. IInv /\ [Next]_vars => [Abstract!Next]_(RunsOf(pd))
  <2> SUFFICES ASSUME IInv, [Next]_vars PROVE [Abstract!Next]_(RunsOf(pd))
    OBVIOUS
  <2>1. RunStep
    BY StepFits
  <2>2. CASE \E quot \in Quots : \E rem \in Rems : RunsOf(pd)' = AddTo(RunsOf(pd), quot, rem)
    <3>1. Abstract!Next
      BY <2>2, AbstractOperators DEF Abstract!Next, Abstract!Addition
    <3> QED BY <3>1
  <2>3. CASE \E quot \in Quots : \E rem \in Rems :
               Stores(RunsOf(pd), quot, rem) /\ RunsOf(pd)' = RemoveFrom(RunsOf(pd), quot, rem)
    <3>1. Abstract!Next
      BY <2>3, AbstractOperators DEF Abstract!Next, Abstract!Removal
    <3> QED BY <3>1
  <2>4. CASE RunsOf(pd)' = RunsOf(pd)
    BY <2>4
  <2> QED BY <2>1, <2>2, <2>3, <2>4 DEF RunStep
<1> QED BY <1>1, <1>2, Invariance, PTL DEF Spec, KeepsRuns, Abstract!Spec

=============================================================================
