-------------------------- MODULE Pd256Bits_proofs --------------------------
(***************************************************************************)
(* The bits of a pocket dictionary are the multiset and the cached bits    *)
(* OnePd takes it to be.  Header and body are laid out like a bucket of    *)
(* the spare without locations and quotients, a place for each quotient,   *)
(* so SpareBucket_proofs' lemmas on headers, runs and counts apply.        *)
(***************************************************************************)
EXTENDS Pd256Bits, FiniteSetTheorems, WellFoundedInduction, TLAPS

B == INSTANCE SpareBucket_proofs WITH
  BatchSize <- Quots, BucketCapacity <- Capacity, MaxSpareQuot <- 0,
  WORD_BITS <- Quots + Capacity - 1, QuotsPerWord <- 1, UsedSlots <- {}, bucket <- pd

QuotRange == 0 .. Quots - 1

LEMMA Sizes ==
  /\ Quots \in Nat \ {0} /\ Rems \in Nat \ {0}
  /\ Capacity \in Nat /\ Capacity >= 2
  /\ DROPPED_BITS \in Nat /\ DROPPED_BITS <= Capacity - 2
  /\ QUOT_BITS \in Nat /\ BYTE_BITS \in Nat \ {0}
  /\ HeaderSize = Quots + Capacity /\ HeaderSize \in Nat
  /\ 0 \in QuotRange /\ Quots - 1 \in QuotRange /\ QuotRange \subseteq Nat
  /\ Places \subseteq Nat /\ Capacity - 1 \in Places
BY ItemKeysAssumption, PdSizes DEF HeaderSize, Places, QuotRange

(* The assumptions of SpareBucket hold of these sizes. *)
LEMMA Assumptions == B!ItemKeysAssumption /\ B!BucketSizes /\ B!UsedSlotsAreSlots
<1>1. B!ItemKeysAssumption
  BY Sizes DEF B!ItemKeysAssumption
<1>2. B!BucketSizes
  <2>1. Capacity % 1 = 0
    BY Sizes
  <2> QED BY <2>1, Sizes DEF B!BucketSizes, B!HeaderSize
<1>3. B!UsedSlotsAreSlots
  BY DEF B!UsedSlotsAreSlots
<1> QED BY <1>1, <1>2, <1>3

LEMMA BOperators ==
  /\ B!Places = QuotRange /\ B!Indices = Places /\ B!HeaderSize = HeaderSize
  /\ \A w : B!Popcount(w) = Popcount(w)
  /\ \A w, i : B!OnesBelow(w, i) = OnesBelow(w, i)
  /\ \A w, i : B!Select(w, i) = Select(w, i)
  /\ \A w : B!LastOne(w) = LastOne(w)
  /\ \A w, i : B!InsertZero(w, i) = InsertZero(w, i)
  /\ \A w, i : B!DeleteZero(w, i) = DeleteZero(w, i)
  /\ \A S : B!Max(S) = Max(S) /\ B!Min(S) = Min(S)
<1>1. B!Places = QuotRange /\ B!Indices = Places /\ B!HeaderSize = HeaderSize
  BY Sizes DEF B!Places, QuotRange, B!Indices, Places, B!HeaderSize, HeaderSize
<1>2. \A S : B!Cardinality(S) = Cardinality(S)
  BY DEF B!Cardinality, Cardinality
<1>3. \A w : B!SetBits(w) = SetBits(w)
  BY DEF B!SetBits, SetBits
<1>4. \A w : B!Popcount(w) = Popcount(w)
  BY <1>2, <1>3 DEF B!Popcount, Popcount
<1>5. \A w, i : B!OnesBelow(w, i) = OnesBelow(w, i)
  BY <1>2, <1>3 DEF B!OnesBelow, OnesBelow
<1>6. \A w, i : B!Select(w, i) = Select(w, i)
  BY <1>3, <1>5 DEF B!Select, Select
<1>7. \A S : B!Max(S) = Max(S) /\ B!Min(S) = Min(S)
  BY DEF B!Max, Max, B!Min, Min
<1>8. \A w : B!LastOne(w) = LastOne(w)
  BY <1>3, <1>7 DEF B!LastOne, LastOne
<1>9. \A w, i : B!InsertZero(w, i) = InsertZero(w, i)
  BY DEF B!InsertZero, InsertZero, B!ShiftIn, ShiftIn
<1>10. \A w, i : B!DeleteZero(w, i) = DeleteZero(w, i)
  BY DEF B!DeleteZero, DeleteZero, B!ShiftOut, ShiftOut
<1> QED BY <1>1, <1>4, <1>5, <1>6, <1>7, <1>8, <1>9, <1>10

LEMMA BCounts ==
  /\ \A S : B!Cardinality(S) = Cardinality(S) /\ B!IsFiniteSet(S) = IsFiniteSet(S)
  /\ \A b, x : B!AddCopy(b, x) = AddCopy(b, x) /\ B!RemoveCopy(b, x) = RemoveCopy(b, x)
  /\ \A b : B!Size(b) = Size(b)
<1>1. \A S : B!Cardinality(S) = Cardinality(S)
  BY DEF B!Cardinality, Cardinality
<1>2. \A S : B!IsFiniteSet(S) = IsFiniteSet(S)
  BY DEF B!IsFiniteSet, IsFiniteSet
<1>3. \A b, x : B!AddCopy(b, x) = AddCopy(b, x) /\ B!RemoveCopy(b, x) = RemoveCopy(b, x)
  BY DEF B!AddCopy, AddCopy, B!RemoveCopy, RemoveCopy
<1>4. \A b : B!Copies(b) = Copies(b)
  BY DEF B!Copies, Copies
<1>5. \A b : B!Size(b) = Size(b)
  BY <1>1, <1>4 DEF B!Size, Size
<1> QED BY <1>1, <1>2, <1>3, <1>5

LEMMA MinIs ==
  ASSUME NEW S \in SUBSET Int, NEW x \in S, \A y \in S : x <= y
  PROVE  Min(S) = x
BY Assumptions, B!MinIs, BOperators

LEMMA MaxIs ==
  ASSUME NEW S \in SUBSET Int, NEW x \in S, \A y \in S : y <= x
  PROVE  Max(S) = x
BY Assumptions, B!MaxIs, BOperators

LEMMA LeastNat ==
  ASSUME NEW T \in SUBSET Nat, T # {}
  PROVE  \E n \in T : \A m \in T : n <= m
BY Assumptions, B!LeastNat

-----------------------------------------------------------------------------
(***************************************************************************)
(* The header.  E[q] is the number of elements of the quotients up to q;   *)
(* the 1 of q is behind those and behind the 1s of the quotients before.   *)
(***************************************************************************)
Ends(h, E) ==
  /\ E \in [QuotRange -> 0 .. Capacity]
  /\ \A q, r \in QuotRange : q < r => E[q] <= E[r]
  /\ h \in [0 .. HeaderSize - 1 -> 0 .. 1]
  /\ \A i \in 0 .. HeaderSize - 1 : h[i] = 1 <=> \E q \in QuotRange : i = E[q] + q

Begin(E, quot) == IF quot = 0 THEN 0 ELSE E[quot - 1]

Run(E, quot) == Begin(E, quot) .. E[quot] - 1

Total(E) == E[Quots - 1]

LEMMA EndsAre ==
  ASSUME NEW h \in [0 .. HeaderSize - 1 -> 0 .. 1], NEW E
  PROVE  Ends(h, E) <=> B!Ends(h, E)
<1>1. ASSUME Ends(h, E) PROVE B!Ends(h, E)
  <2>1. /\ E \in [B!Places -> 0 .. Capacity]
        /\ \A q, r \in B!Places : q < r => E[q] <= E[r]
        /\ DOMAIN h = 0 .. B!HeaderSize - 1
        /\ \A i \in 0 .. B!HeaderSize - 1 : h[i] = 1 <=> \E q \in B!Places : i = E[q] + q
    BY <1>1, BOperators DEF Ends
  <2> QED BY <2>1, Assumptions, B!EndsIf
<1>2. ASSUME B!Ends(h, E) PROVE Ends(h, E)
  <2>1. E \in [QuotRange -> 0 .. Capacity]
    BY <1>2, BOperators DEF B!Ends
  <2>2. \A q \in QuotRange : B!Ones(E)[q] = E[q] + q
    BY BOperators DEF B!Ones
  <2>3. \A q, r \in QuotRange : q < r => E[q] <= E[r]
    BY <1>2, BOperators DEF B!Ends
  <2>4. \A i \in 0 .. HeaderSize - 1 : h[i] = 1 <=> \E q \in QuotRange : i = B!Ones(E)[q]
    BY <1>2, BOperators DEF B!Ends, B!Marks, QuotRange
  <2> QED BY <2>1, <2>2, <2>3, <2>4 DEF Ends
<1> QED BY <1>1, <1>2

LEMMA RunsAre ==
  \A E, q : /\ B!Run(E, q) = Run(E, q) /\ B!Begin(E, q) = Begin(E, q)
            /\ B!Total(E) = Total(E)
BY DEF B!Run, Run, B!Begin, Begin, B!Total, Total

LEMMA MarksAre ==
  ASSUME NEW h, NEW E, Ends(h, E)
  PROVE  /\ B!Marks(h, HeaderSize, B!Ones(E), Quots)
         /\ \A q \in QuotRange : B!Ones(E)[q] = E[q] + q
<1>1. B!Ends(h, E)
  BY EndsAre DEF Ends
<1> QED BY <1>1, BOperators DEF B!Ends, B!Ones

LEMMA EndTypes ==
  ASSUME NEW h, NEW E, Ends(h, E), NEW quot \in QuotRange
  PROVE  /\ quot \in Nat /\ quot < Quots
         /\ E[quot] \in 0 .. Capacity /\ Begin(E, quot) \in 0 .. E[quot]
         /\ quot # 0 => quot - 1 \in QuotRange
         /\ E[quot] <= Total(E) /\ Total(E) \in 0 .. Capacity
<1>1. quot \in Nat /\ quot < Quots /\ (quot # 0 => quot - 1 \in QuotRange)
  BY Sizes DEF QuotRange
<1>2. \A q \in QuotRange : E[q] \in 0 .. Capacity
  BY DEF Ends
<1>3. Begin(E, quot) \in 0 .. E[quot]
  <2>1. quot # 0 => E[quot - 1] <= E[quot]
    BY <1>1, Sizes DEF Ends
  <2> QED BY <1>1, <1>2, <2>1, Sizes DEF Begin
<1>4. E[quot] <= Total(E)
  <2>1. quot = Quots - 1 \/ quot < Quots - 1
    BY <1>1, Sizes
  <2> QED BY <1>2, <2>1, Sizes DEF Ends, Total
<1> QED BY <1>1, <1>2, <1>3, <1>4, Sizes DEF Total

(* What the instructions find in the header. *)
LEMMA HeaderReads ==
  ASSUME NEW h, NEW E, Ends(h, E)
  PROVE  /\ Popcount(h) = Quots
         /\ LastOne(h) = Total(E) + (Quots - 1)
         /\ \A q \in QuotRange : RunEnd(h, q) = E[q] + q
         /\ \A q \in QuotRange : RunBegin(h, q) = Begin(E, q) + q
<1>1. B!Marks(h, HeaderSize, B!Ones(E), Quots)
  BY MarksAre
<1>2. Popcount(h) = Quots
  <2>1. B!Popcount(h) = Quots
    BY <1>1, Assumptions, B!PopcountIs
  <2> QED BY <2>1, BOperators
<1>3. LastOne(h) = Total(E) + (Quots - 1)
  <2>1. B!LastOne(h) = B!Ones(E)[Quots - 1]
    BY <1>1, Assumptions, B!FirstAndLastOne, Sizes
  <2> QED BY <2>1, MarksAre, BOperators, Sizes DEF Total
<1>4. \A q \in QuotRange : Select(h, q) = E[q] + q
  <2> SUFFICES ASSUME NEW q \in QuotRange PROVE Select(h, q) = E[q] + q
    OBVIOUS
  <2>1. q \in 0 .. Quots - 1
    BY DEF QuotRange
  <2>2. B!Select(h, q) = B!Ones(E)[q]
    BY <1>1, <2>1, Assumptions, B!SelectIs
  <2> QED BY <2>2, MarksAre, BOperators
<1>5. ASSUME NEW q \in QuotRange PROVE RunBegin(h, q) = Begin(E, q) + q
  <2>1. q # 0 => q - 1 \in QuotRange /\ E[q - 1] \in Int /\ q \in Int
    BY EndTypes
  <2> QED BY <1>4, <2>1 DEF RunBegin, Begin
<1> QED BY <1>2, <1>3, <1>4, <1>5 DEF RunEnd

LEMMA EndsBeforeBegin ==
  ASSUME NEW h, NEW E, Ends(h, E), NEW q \in QuotRange, NEW p \in QuotRange, q < p
  PROVE  E[q] <= Begin(E, p)
<1>1. q \in Nat /\ p \in Nat /\ p # 0 /\ p - 1 \in QuotRange /\ E[q] \in Int
  BY EndTypes, Sizes
<1>2. q = p - 1 \/ q < p - 1
  BY <1>1
<1>3. q < p - 1 => E[q] <= E[p - 1]
  BY <1>1 DEF Ends
<1> QED BY <1>1, <1>2, <1>3 DEF Begin

LEMMA RunPlaces ==
  ASSUME NEW h, NEW E, Ends(h, E), NEW quot \in QuotRange, NEW i \in Run(E, quot)
  PROVE  i \in Places /\ i \in Nat /\ Begin(E, quot) <= i /\ i < E[quot] /\ i < Total(E)
<1>1. E[quot] \in 0 .. Capacity /\ Begin(E, quot) \in 0 .. E[quot] /\ E[quot] <= Total(E)
      /\ Total(E) \in 0 .. Capacity
  BY EndTypes
<1> QED BY <1>1, Sizes DEF Run, Places

(* A place of an element is in one run. *)
LEMMA OneRun ==
  ASSUME NEW h, NEW E, Ends(h, E)
  PROVE  /\ \A i \in 0 .. Total(E) - 1 : \E q \in QuotRange : i \in Run(E, q)
         /\ \A q, r \in QuotRange : \A i : i \in Run(E, q) /\ i \in Run(E, r) => q = r
<1>1. B!Ends(h, E)
  BY EndsAre DEF Ends
<1>2. \A i \in 0 .. Total(E) - 1 : \E q \in QuotRange : i \in Run(E, q)
  <2>1. \A i \in 0 .. B!Total(E) - 1 : \E q \in B!Places : i \in B!Run(E, q)
    BY <1>1, Assumptions, B!PlaceExists
  <2> QED BY <2>1, RunsAre, BOperators
<1>3. \A q, r \in QuotRange : \A i : i \in Run(E, q) /\ i \in Run(E, r) => q = r
  <2> SUFFICES ASSUME NEW q \in QuotRange, NEW r \in QuotRange, NEW i, i \in Run(E, q), i \in Run(E, r)
               PROVE  q = r
    OBVIOUS
  <2>1. q \in B!Places /\ r \in B!Places /\ i \in B!Run(E, q) /\ i \in B!Run(E, r)
    BY RunsAre, BOperators
  <2> QED BY <1>1, <2>1, Assumptions, B!RunsAreDisjoint
<1> QED BY <1>2, <1>3

(* The 1s below a position count the quotients that end before it. *)
LEMMA OnesBelowIs ==
  ASSUME NEW h, NEW E, Ends(h, E), NEW q \in 0 .. Quots, NEW z \in Int,
         \A r \in QuotRange : E[r] + r < z <=> r < q
  PROVE  OnesBelow(h, z) = q
<1>1. \A r \in 0 .. Quots - 1 : B!Ones(E)[r] < z <=> r < q
  BY MarksAre DEF QuotRange
<1>2. B!OnesBelow(h, z) = q
  BY <1>1, MarksAre, Assumptions, B!OnesBelowIs
<1> QED BY <1>2, BOperators

(* There is always such a number of quotients. *)
LEMMA EndsBelow ==
  ASSUME NEW h, NEW E, Ends(h, E), NEW z \in Int
  PROVE  \E q \in 0 .. Quots : \A r \in QuotRange : E[r] + r < z <=> r < q
<1> DEFINE T == {q \in 0 .. Quots : q = Quots \/ E[q] + q >= z}
<1>1. T \in SUBSET Nat /\ Quots \in T
  BY Sizes
<1>2. PICK q \in T : \A r \in T : q <= r
  <2> HIDE DEF T
  <2> QED BY <1>1, LeastNat
<1>3. q \in 0 .. Quots /\ (q = Quots \/ E[q] + q >= z)
  OBVIOUS
<1>4. ASSUME NEW r \in QuotRange PROVE E[r] + r < z <=> r < q
  <2>1. r \in Nat /\ r < Quots /\ E[r] \in Nat /\ r \in 0 .. Quots
    BY EndTypes, Sizes
  <2>2. CASE r < q
    <3>1. r \notin T
      BY <1>2, <1>3, <2>1, <2>2
    <3> QED BY <2>1, <2>2, <3>1
  <2>3. CASE q <= r
    <3>0. q \in QuotRange /\ q \in Nat /\ E[q] + q >= z
      BY <1>3, <2>1, <2>3, Sizes DEF QuotRange
    <3>1. E[q] \in Nat
      BY <3>0, EndTypes
    <3>2. q = r \/ q < r
      BY <2>1, <2>3, <3>0
    <3>3. q < r => E[q] <= E[r]
      BY <3>0 DEF Ends
    <3> QED BY <2>1, <2>3, <3>0, <3>1, <3>2, <3>3
  <2> QED BY <1>3, <2>1, <2>2, <2>3
<1> QED BY <1>3, <1>4

(* An element's bit: a 0 with as many 1s below as its quotient. *)
LEMMA ElementBit ==
  ASSUME NEW h, NEW E, Ends(h, E), NEW quot \in QuotRange, NEW i \in Nat
  PROVE  /\ i \in Run(E, quot) => i \in Places /\ i + quot < HeaderSize
         /\ i + quot < HeaderSize =>
              (h[i + quot] = 0 /\ OnesBelow(h, i + quot) = quot <=> i \in Run(E, quot))
<1> DEFINE z == i + quot
<1>1. /\ quot \in Nat /\ quot < Quots /\ E[quot] \in 0 .. Capacity /\ Begin(E, quot) \in Nat
      /\ z \in Int
  BY EndTypes
<1>2. i \in Run(E, quot) => i \in Places /\ i + quot < HeaderSize
  BY <1>1, Sizes DEF Run, Places
<1>3. ASSUME z < HeaderSize, i \in Run(E, quot)
      PROVE  h[z] = 0 /\ OnesBelow(h, z) = quot
  <2>1. Begin(E, quot) <= i /\ i < E[quot]
    BY <1>1, <1>3 DEF Run
  <2>2. ASSUME NEW r \in QuotRange
        PROVE  (E[r] + r < z <=> r < quot) /\ E[r] + r # z
    <3>1. r \in Nat /\ E[r] \in Nat
      BY EndTypes
    <3>2. r < quot => E[r] <= Begin(E, quot)
      BY EndsBeforeBegin
    <3>3. quot < r => E[quot] <= E[r]
      BY DEF Ends
    <3>4. r < quot \/ r = quot \/ quot < r
      BY <1>1, <3>1
    <3> QED BY <1>1, <2>1, <3>1, <3>2, <3>3, <3>4
  <2>3. OnesBelow(h, z) = quot
    <3>1. quot \in 0 .. Quots
      BY <1>1, Sizes
    <3> QED BY <1>1, <2>2, <3>1, OnesBelowIs
  <2>4. z \in 0 .. HeaderSize - 1
    BY <1>1, <1>3, Sizes
  <2>5. h[z] # 1 /\ h[z] \in 0 .. 1
    BY <2>2, <2>4 DEF Ends
  <2> QED BY <2>3, <2>5
<1>4. ASSUME z < HeaderSize, h[z] = 0, OnesBelow(h, z) = quot
      PROVE  i \in Run(E, quot)
  <2>1. PICK q \in 0 .. Quots : \A r \in QuotRange : E[r] + r < z <=> r < q
    BY <1>1, EndsBelow
  <2>2. q = quot
    BY <1>1, <1>4, <2>1, OnesBelowIs
  <2>3. z \in 0 .. HeaderSize - 1
    BY <1>1, <1>4, Sizes
  <2>4. E[quot] + quot # z
    BY <1>4, <2>3 DEF Ends
  <2>5. i < E[quot]
    BY <1>1, <2>1, <2>2, <2>4
  <2>6. Begin(E, quot) <= i
    <3>1. CASE quot = 0
      BY <3>1 DEF Begin
    <3>2. CASE quot # 0
      <4>1. quot - 1 \in QuotRange /\ E[quot - 1] \in Nat /\ quot - 1 < quot
        BY <1>1, <3>2, EndTypes
      <4>2. E[quot - 1] + (quot - 1) < z
        BY <2>1, <2>2, <4>1
      <4> QED BY <1>1, <3>2, <4>1, <4>2 DEF Begin
    <3> QED BY <3>1, <3>2
  <2> QED BY <1>1, <2>5, <2>6 DEF Run
<1> QED BY <1>2, <1>3, <1>4

-----------------------------------------------------------------------------
(***************************************************************************)
(* The dictionary: its header ends at E, and each run is in order.  As a   *)
(* bucket, it is the header and the body without the two other arrays.     *)
(***************************************************************************)
Bytes == 0 .. Rems - 1

Layout(p, E) ==
  /\ Ends(p.header, E)
  /\ p.body \in [Places -> Bytes]

Sorted(p, E) ==
  \A q \in QuotRange : \A i, k \in Run(E, q) : i < k => p.body[i] <= p.body[k]

Bucket(p) ==
  [header |-> p.header, body |-> p.body, location |-> [i \in B!Indices |-> 0],
   Q_list |-> [w \in B!Words |-> [i \in B!InWord |-> 0]]]

Slot(x) == <<Quot(x), FALSE, <<0, Rem(x)>>>>

LEMMA BucketReads ==
  ASSUME NEW p
  PROVE  /\ \A i \in Places : /\ Bucket(p).location[i] = 0
                             /\ B!read_quot_by_index(Bucket(p).Q_list, i) = 0
         /\ Bucket(p).header = p.header /\ Bucket(p).body = p.body
<1>1. \A i \in Places : Bucket(p).location[i] = 0
  BY BOperators DEF Bucket
<1>2. ASSUME NEW i \in Places PROVE B!read_quot_by_index(Bucket(p).Q_list, i) = 0
  <2>1. i \in Int /\ i \in B!Indices
    BY Sizes, BOperators
  <2>2. i \div 1 \in B!Words /\ i % 1 \in B!InWord
    BY <2>1, Assumptions, B!IndexInWord
  <2> QED BY <2>2 DEF B!read_quot_by_index, Bucket
<1> QED BY <1>1, <1>2 DEF Bucket

LEMMA RepIs ==
  ASSUME NEW p, NEW E, Layout(p, E)
  PROVE  /\ B!Rep(Bucket(p), E)
         /\ B!Ordered(Bucket(p), E) <=> Sorted(p, E)
<1>1. /\ Ends(p.header, E) /\ p.header \in [0 .. HeaderSize - 1 -> 0 .. 1]
      /\ p.body \in [Places -> Bytes]
  BY DEF Layout, Ends
<1>2. B!Arrays(Bucket(p))
  <2>1. Bucket(p).Q_list \in B!QuotLists
    BY DEF B!QuotLists, Bucket
  <2>2. Bucket(p).location \in [B!Indices -> 0 .. 1]
    BY DEF Bucket
  <2>3. /\ Bucket(p).header \in [0 .. B!HeaderSize - 1 -> 0 .. 1]
        /\ Bucket(p).body \in [B!Indices -> 0 .. Rems - 1]
    BY <1>1, BucketReads, BOperators DEF Bytes
  <2> QED BY <2>1, <2>2, <2>3 DEF B!Arrays
<1>3. B!Ends(Bucket(p).header, E)
  BY <1>1, EndsAre, BucketReads
<1>4. B!Rep(Bucket(p), E)
  BY <1>2, <1>3, BucketReads, BOperators DEF B!Rep
<1>5. \A q \in QuotRange : \A i \in Run(E, q) :
        /\ Bucket(p).body[i] = p.body[i] /\ Bucket(p).location[i] = 0 /\ p.body[i] \in Int
  <2> SUFFICES ASSUME NEW q \in QuotRange, NEW i \in Run(E, q)
               PROVE  /\ Bucket(p).body[i] = p.body[i] /\ Bucket(p).location[i] = 0
                      /\ p.body[i] \in Int
    OBVIOUS
  <2>1. i \in Places
    BY <1>1, RunPlaces
  <2> QED BY <1>1, <2>1, BucketReads DEF Bytes
<1>6. B!Ordered(Bucket(p), E) <=> Sorted(p, E)
  BY <1>5, BOperators, RunsAre DEF B!Ordered, B!Before, Sorted
<1> QED BY <1>4, <1>6

LEMMA SlotIs ==
  /\ \A x \in QR : /\ Slot(x) \in B!Slots /\ Quot(x) \in QuotRange /\ Rem(x) \in Bytes
                   /\ x = <<Quot(x), Rem(x)>>
  /\ \A q \in QuotRange, r \in Bytes : /\ <<q, r>> \in QR
                                       /\ Quot(<<q, r>>) = q /\ Rem(<<q, r>>) = r
  /\ \A x, y \in QR : Slot(x) = Slot(y) => x = y
<1>1. \A x \in QR : Quot(x) \in QuotRange /\ Rem(x) \in Bytes /\ x = <<Quot(x), Rem(x)>>
  BY DEF QR, Quot, Rem, QuotRange, Bytes
<1>2. \A q \in QuotRange, r \in Bytes : /\ <<q, r>> \in QR
                                        /\ Quot(<<q, r>>) = q /\ Rem(<<q, r>>) = r
  BY DEF QR, Quot, Rem, QuotRange, Bytes
<1>3. \A q \in QuotRange, r \in Bytes : <<q, FALSE, <<0, r>>>> \in B!Slots
  <2>1. 0 \in 0 .. 0 /\ FALSE \in BOOLEAN
    OBVIOUS
  <2> QED BY <2>1 DEF B!Slots, QuotRange, Bytes
<1>4. \A x \in QR : Slot(x) \in B!Slots
  BY <1>1, <1>3 DEF Slot
<1>5. ASSUME NEW x \in QR, NEW y \in QR, Slot(x) = Slot(y) PROVE x = y
  <2>1. Slot(x)[1] = Quot(x) /\ Slot(x)[3][2] = Rem(x) /\ Slot(y)[1] = Quot(y) /\ Slot(y)[3][2] = Rem(y)
    BY DEF Slot
  <2> QED BY <1>1, <1>5, <2>1
<1> QED BY <1>1, <1>2, <1>4, <1>5

(* The places of the copies of an element. *)
Of(p, E, x) == {i \in Run(E, Quot(x)) : p.body[i] = Rem(x)}

LEMMA OfIsAt ==
  ASSUME NEW p, NEW E, Layout(p, E), NEW x \in QR
  PROVE  B!At(Bucket(p), E, Slot(x)) = Of(p, E, x)
<1>1. Slot(x)[1] = Quot(x)
  BY DEF Slot
<1>2. ASSUME NEW i \in Run(E, Quot(x))
      PROVE  B!SlotAt(Bucket(p), i, Quot(x)) = Slot(x) <=> p.body[i] = Rem(x)
  <2>1. i \in Places
    BY SlotIs, RunPlaces DEF Layout
  <2>2. B!SlotAt(Bucket(p), i, Quot(x)) = <<Quot(x), FALSE, <<0, p.body[i]>>>>
    <3>1. B!SlotAt(Bucket(p), i, Quot(x)) = <<Quot(x), 0 = 1, <<0, p.body[i]>>>>
      BY <2>1, BucketReads DEF B!SlotAt
    <3>2. (0 = 1) = FALSE
      OBVIOUS
    <3> QED BY <3>1, <3>2
  <2> QED BY <2>2 DEF Slot
<1> QED BY <1>1, <1>2, RunsAre DEF B!At, Of

LEMMA ElementsAre ==
  ASSUME NEW p, NEW E, Layout(p, E), NEW e
  PROVE  e \in Elements(p) <=> \E q \in QuotRange : \E i \in Run(E, q) : e = <<i, q>>
<1>1. Elements(p) = B!Elements(Bucket(p))
  BY BOperators, BucketReads DEF Elements, B!Elements
<1>2. Bucket(p).header \in [0 .. B!HeaderSize - 1 -> 0 .. 1] /\ B!Ends(Bucket(p).header, E)
  BY RepIs DEF B!Rep, B!Arrays
<1>3. e \in B!Elements(Bucket(p)) <=> \E q \in B!Places : \E i \in B!Run(E, q) : e = <<i, q>>
  BY <1>2, Assumptions, B!ElementsAre
<1> QED BY <1>1, <1>3, BOperators, RunsAre

(* The multiset counts the places. *)
LEMMA ItemsAre ==
  ASSUME NEW p, NEW E, Layout(p, E)
  PROVE  /\ ItemsOf(p) \in [QR -> Nat]
         /\ \A x \in QR : /\ ItemsOf(p)[x] = B!SlotsOf(Bucket(p))[Slot(x)]
                          /\ ItemsOf(p)[x] > 0 <=> Of(p, E, x) # {}
<1> DEFINE stored == {<<e[1], <<e[2], p.body[e[1]]>>>> : e \in Elements(p)}
           copies(x) == {e \in stored : e[2] = x}
<1>1. ItemsOf(p) = [x \in QR |-> Cardinality(copies(x))]
  BY DEF ItemsOf
<1>2. ASSUME NEW x \in QR
      PROVE  /\ IsFiniteSet(Of(p, E, x))
             /\ Cardinality(copies(x)) = Cardinality(Of(p, E, x))
             /\ B!SlotsOf(Bucket(p))[Slot(x)] = Cardinality(Of(p, E, x))
  <2> DEFINE S == Of(p, E, x)
             f == [i \in S |-> <<i, x>>]
  <2>1. IsFiniteSet(S) /\ B!SlotsOf(Bucket(p))[Slot(x)] = Cardinality(S)
    <3>1. B!Rep(Bucket(p), E) /\ Slot(x) \in B!Slots
      BY RepIs, SlotIs
    <3>2. /\ B!IsFiniteSet(B!At(Bucket(p), E, Slot(x)))
          /\ B!SlotsOf(Bucket(p))[Slot(x)] = B!Cardinality(B!At(Bucket(p), E, Slot(x)))
      BY <3>1, Assumptions, B!SlotsOfCounts
    <3> QED BY <3>2, OfIsAt, BCounts
  <2>2. Quot(x) \in QuotRange /\ x = <<Quot(x), Rem(x)>>
    BY SlotIs
  <2>3. \A i \in S : <<i, x>> \in copies(x)
    <3> SUFFICES ASSUME NEW i \in S PROVE <<i, x>> \in copies(x)
      OBVIOUS
    <3>1. i \in Run(E, Quot(x)) /\ p.body[i] = Rem(x)
      BY DEF Of
    <3>2. <<i, Quot(x)>> \in Elements(p)
      BY <2>2, <3>1, ElementsAre
    <3>3. <<i, x>> \in stored
      BY <2>2, <3>1, <3>2
    <3> QED BY <3>3
  <2>4. ASSUME NEW t \in copies(x) PROVE \E i \in S : t = <<i, x>>
    <3>1. PICK e \in Elements(p) : t = <<e[1], <<e[2], p.body[e[1]]>>>> /\ t[2] = x
      BY <2>4
    <3>2. PICK q \in QuotRange : \E i \in Run(E, q) : e = <<i, q>>
      BY <3>1, ElementsAre
    <3>3. PICK i \in Run(E, q) : e = <<i, q>>
      BY <3>2
    <3>4. t = <<i, <<q, p.body[i]>>>> /\ <<q, p.body[i]>> = x
      BY <3>1, <3>3
    <3>5. q = Quot(x) /\ p.body[i] = Rem(x)
      BY <3>4 DEF Quot, Rem
    <3>6. i \in S
      BY <3>3, <3>5 DEF Of
    <3> QED BY <3>4, <3>6
  <2> HIDE DEF S, stored, copies
  <2>5. f \in [S -> copies(x)]
    BY <2>3
  <2>6. \A i, k \in S : f[i] = f[k] => i = k
    OBVIOUS
  <2>7. \A t \in copies(x) : \E i \in S : f[i] = t
    BY <2>4
  <2> HIDE DEF f
  <2>8. B!IsFiniteSet(S)
    BY <2>1, BCounts
  <2>9. B!Cardinality(copies(x)) = B!Cardinality(S)
    BY <2>5, <2>6, <2>7, <2>8, Assumptions, B!SameCardinality
  <2> QED BY <2>1, <2>9, BCounts DEF S
<1> HIDE DEF copies
<1>3. \A x \in QR : Cardinality(copies(x)) \in Nat
  BY <1>2, FS_CardinalityType
<1>4. \A x \in QR : ItemsOf(p)[x] > 0 <=> Of(p, E, x) # {}
  <2> SUFFICES ASSUME NEW x \in QR PROVE ItemsOf(p)[x] > 0 <=> Of(p, E, x) # {}
    OBVIOUS
  <2>1. ItemsOf(p)[x] = Cardinality(Of(p, E, x)) /\ ItemsOf(p)[x] \in Nat
    BY <1>1, <1>2, <1>3
  <2>2. Cardinality(Of(p, E, x)) = 0 <=> Of(p, E, x) = {}
    BY <1>2, FS_EmptySet
  <2> QED BY <2>1, <2>2
<1> QED BY <1>1, <1>2, <1>3, <1>4

LEMMA QRFinite == IsFiniteSet(QR)
<1>1. IsFiniteSet(0 .. Quots - 1) /\ IsFiniteSet(0 .. Rems - 1)
  BY Sizes, FS_Interval
<1> QED BY <1>1, FS_Product DEF QR

(* The last bit of the header tells a full dictionary. *)
LEMMA FullIs ==
  ASSUME NEW p, NEW E, Layout(p, E)
  PROVE  pd_full(p) <=> Total(E) = Capacity
<1>1. B!Ends(Bucket(p).header, E)
  BY RepIs DEF B!Rep
<1>2. B!is_full(Bucket(p)) <=> B!Total(E) = Capacity
  BY <1>1, Assumptions, B!CapacityIsTotal
<1>3. B!is_full(Bucket(p)) <=> pd_full(p)
  BY BOperators, BucketReads DEF B!is_full, pd_full
<1> QED BY <1>2, <1>3, RunsAre

(***************************************************************************)
(* The lookup sees the run of its quotient, also with the short cut for a  *)
(* single match, which may lie in another run or behind all.               *)
(***************************************************************************)
LEMMA FindIs ==
  ASSUME NEW p, NEW E, Layout(p, E), NEW x \in QR
  PROVE  pd_find_25(x, p) <=> Of(p, E, x) # {}
<1> DEFINE matches == {i \in Places : p.body[i] = Rem(x)}
<1>1. Ends(p.header, E) /\ Quot(x) \in QuotRange
  BY SlotIs DEF Layout
<1>2. ASSUME NEW i \in Places
      PROVE  /\ p.header[i + Quot(x)] = 0 /\ OnesBelow(p.header, i + Quot(x)) = Quot(x)
                  <=> i \in Run(E, Quot(x))
             /\ i + Quot(x) \in RunBegin(p.header, Quot(x)) .. RunEnd(p.header, Quot(x)) - 1
                  <=> i \in Run(E, Quot(x))
  <2>1. i \in Nat /\ i + Quot(x) < HeaderSize
    BY <1>1, Sizes DEF Places, QuotRange
  <2>2. /\ RunBegin(p.header, Quot(x)) = Begin(E, Quot(x)) + Quot(x)
        /\ RunEnd(p.header, Quot(x)) = E[Quot(x)] + Quot(x)
    BY <1>1, HeaderReads
  <2>3. Begin(E, Quot(x)) \in Int /\ E[Quot(x)] \in Int /\ Quot(x) \in Int
    BY <1>1, EndTypes
  <2>4. i + Quot(x) \in RunBegin(p.header, Quot(x)) .. RunEnd(p.header, Quot(x)) - 1
          <=> i \in Run(E, Quot(x))
    BY <2>1, <2>2, <2>3 DEF Run
  <2> QED BY <1>1, <2>1, <2>4, ElementBit
<1>3. pd_find_25(x, p) <=> \E i \in matches : i \in Run(E, Quot(x))
  BY <1>2 DEF pd_find_25
<1>4. \A i \in Run(E, Quot(x)) : i \in Places
  BY <1>1, RunPlaces
<1> QED BY <1>3, <1>4 DEF Of

-----------------------------------------------------------------------------
(***************************************************************************)
(* One element more: c has p's elements, those from place i0 on moved up,  *)
(* and one at i0 that belongs to quotient q.  An insertion goes from p to  *)
(* c, a deletion from c to p.                                              *)
(***************************************************************************)
Up(i0, k) == IF k < i0 THEN k ELSE k + 1

Gains(p, E, c, F, q, i0) ==
  /\ \A r \in QuotRange : F[r] = IF r < q THEN E[r] ELSE E[r] + 1
  /\ i0 \in Run(F, q)
  /\ \A k \in 0 .. Total(E) - 1 : c.body[Up(i0, k)] = p.body[k]

LEMMA GainsIs ==
  ASSUME NEW p, NEW E, Layout(p, E), NEW c, NEW F, Layout(c, F),
         NEW q \in QuotRange, NEW i0, Gains(p, E, c, F, q, i0)
  PROVE  /\ B!Grown(Bucket(p), E, Bucket(c), F, q, i0)
         /\ Total(F) = Total(E) + 1 /\ Total(E) \in Nat
         /\ i0 \in Places /\ c.body[i0] \in Bytes
         /\ \A k \in 0 .. Total(E) - 1 : k \in Places /\ Up(i0, k) \in Places
<1>1. Ends(p.header, E) /\ Ends(c.header, F)
  BY DEF Layout
<1>2. Total(F) = Total(E) + 1 /\ Total(E) \in 0 .. Capacity /\ Total(F) \in 0 .. Capacity
  <2>1. Quots - 1 \in QuotRange /\ ~(Quots - 1 < q)
    BY Sizes DEF QuotRange
  <2> QED BY <1>1, <2>1, EndTypes DEF Gains, Total
<1>3. i0 \in Places /\ c.body[i0] \in Bytes
  <2>1. i0 \in Places
    BY <1>1, RunPlaces DEF Gains
  <2> QED BY <2>1 DEF Layout
<1>4. \A k \in 0 .. Total(E) - 1 : k \in Places /\ Up(i0, k) \in Places
  BY <1>2, <1>3, Sizes DEF Places, Up
<1>5. \A k : B!Up(i0, k) = Up(i0, k)
  BY DEF B!Up, Up
<1>6. F \in [B!Places -> 0 .. Capacity]
  BY <1>1, BOperators DEF Ends
<1>7. B!Further(E, F, q)
  BY <1>6, BOperators DEF Gains, B!Further
<1>8. i0 \in B!Run(F, q)
  BY RunsAre DEF Gains
<1>9. ASSUME NEW k \in 0 .. B!Total(E) - 1
      PROVE  /\ Bucket(c).location[B!Up(i0, k)] = Bucket(p).location[k]
             /\ Bucket(c).body[B!Up(i0, k)] = Bucket(p).body[k]
             /\ B!read_quot_by_index(Bucket(c).Q_list, B!Up(i0, k)) =
                  B!read_quot_by_index(Bucket(p).Q_list, k)
  <2>1. k \in Places /\ Up(i0, k) \in Places /\ c.body[Up(i0, k)] = p.body[k]
    BY <1>4, RunsAre DEF Gains
  <2> QED BY <1>5, <2>1, BucketReads
<1>10. B!Grown(Bucket(p), E, Bucket(c), F, q, i0)
  BY <1>7, <1>8, <1>9 DEF B!Grown
<1> QED BY <1>2, <1>3, <1>4, <1>10

LEMMA GainsAdds ==
  ASSUME NEW p, NEW E, Layout(p, E), NEW c, NEW F, Layout(c, F),
         NEW q \in QuotRange, NEW i0, Gains(p, E, c, F, q, i0),
         NEW y, y = <<q, c.body[i0]>>
  PROVE  /\ y \in QR
         /\ ItemsOf(c) = AddCopy(ItemsOf(p), y)
         /\ ItemsOf(p) = RemoveCopy(ItemsOf(c), y)
         /\ ItemsOf(c)[y] > 0
         /\ Size(ItemsOf(c)) = Size(ItemsOf(p)) + 1
<1>1. /\ B!Grown(Bucket(p), E, Bucket(c), F, q, i0)
      /\ i0 \in Places /\ c.body[i0] \in Bytes
  BY GainsIs
<1>2. y \in QR /\ Quot(y) = q /\ Rem(y) = c.body[i0]
  BY <1>1, SlotIs
<1>3. B!SlotAt(Bucket(c), i0, q) = Slot(y)
  <2>1. B!SlotAt(Bucket(c), i0, q) = <<q, 0 = 1, <<0, c.body[i0]>>>>
    BY <1>1, BucketReads DEF B!SlotAt
  <2>2. (0 = 1) = FALSE
    OBVIOUS
  <2> QED BY <1>2, <2>1, <2>2 DEF Slot
<1>4. B!SlotsOf(Bucket(c)) = B!AddCopy(B!SlotsOf(Bucket(p)), Slot(y))
  <2>1. B!Rep(Bucket(p), E) /\ B!Rep(Bucket(c), F) /\ q \in B!Places
    BY RepIs, BOperators
  <2> QED BY <1>1, <1>3, <2>1, Assumptions, B!GrownAdds
<1>5. B!SlotsOf(Bucket(p)) \in [B!Slots -> Nat]
  BY RepIs, Assumptions, B!SlotsOfCounts
<1>6. \A x \in QR : ItemsOf(c)[x] = IF x = y THEN ItemsOf(p)[x] + 1 ELSE ItemsOf(p)[x]
  <2> SUFFICES ASSUME NEW x \in QR
               PROVE  ItemsOf(c)[x] = IF x = y THEN ItemsOf(p)[x] + 1 ELSE ItemsOf(p)[x]
    OBVIOUS
  <2>1. Slot(x) = Slot(y) <=> x = y
    BY <1>2, SlotIs
  <2>2. Slot(x) \in B!Slots
    BY SlotIs
  <2>3. B!SlotsOf(Bucket(c))[Slot(x)] =
          IF x = y THEN B!SlotsOf(Bucket(p))[Slot(x)] + 1 ELSE B!SlotsOf(Bucket(p))[Slot(x)]
    BY <1>4, <1>5, <2>1, <2>2 DEF B!AddCopy
  <2> QED BY <2>3, ItemsAre
<1>7. ItemsOf(c) \in [QR -> Nat] /\ ItemsOf(p) \in [QR -> Nat]
  BY ItemsAre
<1>8. ItemsOf(c) = AddCopy(ItemsOf(p), y)
  BY <1>2, <1>6, <1>7 DEF AddCopy
<1>9. B!IsFiniteSet(QR)
  BY QRFinite, BCounts
<1>10. /\ B!AddCopy(ItemsOf(p), y)[y] > 0
       /\ B!Size(B!AddCopy(ItemsOf(p), y)) = B!Size(ItemsOf(p)) + 1
       /\ B!RemoveCopy(B!AddCopy(ItemsOf(p), y), y) = ItemsOf(p)
  BY <1>2, <1>7, <1>9, Assumptions, B!AddedCopy
<1> QED BY <1>2, <1>8, <1>10, BCounts

(* A run stays in order when a smaller or equal one is before the element, *)
(* and a bigger or equal one behind it, and when it loses one.             *)
LEMMA GainsSorted ==
  ASSUME NEW p, NEW E, Layout(p, E), NEW c, NEW F, Layout(c, F),
         NEW q \in QuotRange, NEW i0, Gains(p, E, c, F, q, i0)
  PROVE  /\ /\ Sorted(p, E)
            /\ \A i \in Run(E, q) : i < i0 => p.body[i] <= c.body[i0]
            /\ \A i \in Run(E, q) : ~(i < i0) => c.body[i0] <= p.body[i]
            => Sorted(c, F)
         /\ Sorted(c, F) => Sorted(p, E)
<1>1. /\ B!Grown(Bucket(p), E, Bucket(c), F, q, i0)
      /\ i0 \in Places
  BY GainsIs
<1>2. B!Rep(Bucket(p), E) /\ B!Rep(Bucket(c), F) /\ q \in B!Places
  BY RepIs, BOperators
<1>3. Sorted(c, F) => Sorted(p, E)
  <2>1. B!Ordered(Bucket(c), F) => B!Ordered(Bucket(p), E)
    BY <1>1, <1>2, Assumptions, B!RemovedOrdered
  <2> QED BY <2>1, RepIs
<1>4. ASSUME Sorted(p, E),
             \A i \in Run(E, q) : i < i0 => p.body[i] <= c.body[i0],
             \A i \in Run(E, q) : ~(i < i0) => c.body[i0] <= p.body[i]
      PROVE  Sorted(c, F)
  <2>1. \A i \in Run(E, q) : i \in Places /\ p.body[i] \in Int
    <3>1. \A i \in Run(E, q) : i \in Places
      BY RunPlaces DEF Layout
    <3> QED BY <3>1 DEF Layout, Bytes
  <2>2. c.body[i0] \in Int
    BY <1>1 DEF Layout, Bytes
  <2>3. /\ Bucket(c).body[i0] = c.body[i0] /\ Bucket(c).location[i0] = 0
        /\ \A i \in Run(E, q) : Bucket(p).body[i] = p.body[i] /\ Bucket(p).location[i] = 0
    BY <1>1, <2>1, BucketReads
  <2>4. \A i \in B!Run(E, q) : i < i0 =>
          B!Before(Bucket(p).body[i], Bucket(p).location[i], Bucket(c).body[i0], Bucket(c).location[i0])
    BY <1>4, <2>1, <2>2, <2>3, RunsAre DEF B!Before
  <2>5. \A i \in B!Run(E, q) : ~(i < i0) =>
          B!Before(Bucket(c).body[i0], Bucket(c).location[i0], Bucket(p).body[i], Bucket(p).location[i])
    BY <1>4, <2>1, <2>2, <2>3, RunsAre DEF B!Before
  <2>6. B!Ordered(Bucket(p), E)
    BY <1>4, RepIs
  <2>7. B!Ordered(Bucket(c), F)
    BY <1>1, <1>2, <2>4, <2>5, <2>6, Assumptions, B!InsertedOrdered
  <2> QED BY <2>7, RepIs
<1> QED BY <1>3, <1>4

-----------------------------------------------------------------------------
(***************************************************************************)
(* What the operations do to header and body.                              *)
(***************************************************************************)
Grow(E, quot) == [q \in QuotRange |-> IF q < quot THEN E[q] ELSE E[q] + 1]

Shrink(E, quot) == [q \in QuotRange |-> IF q < quot THEN E[q] ELSE E[q] - 1]

LEMMA HeaderInserts ==
  ASSUME NEW h, NEW E, Ends(h, E), Total(E) < Capacity, NEW q \in QuotRange
  PROVE  Ends(InsertZero(h, E[q] + q), Grow(E, q))
<1>1. /\ B!Ends(h, E) /\ B!Total(E) < Capacity /\ q \in B!Places
      /\ h \in [0 .. B!HeaderSize - 1 -> 0 .. 1]
  BY EndsAre, RunsAre, BOperators DEF Ends
<1>2. /\ B!InsertZero(h, E[q] + q) \in [0 .. B!HeaderSize - 1 -> 0 .. 1]
      /\ B!Ends(B!InsertZero(h, E[q] + q), B!Grow(E, q))
  BY <1>1, Assumptions, B!InsertZeroGrows
<1>3. B!Grow(E, q) = Grow(E, q)
  BY BOperators DEF B!Grow, Grow
<1>4. /\ InsertZero(h, E[q] + q) \in [0 .. HeaderSize - 1 -> 0 .. 1]
      /\ B!Ends(InsertZero(h, E[q] + q), Grow(E, q))
  BY <1>2, <1>3, BOperators
<1> QED BY <1>4, EndsAre

(* The 0s of a run are alike. *)
LEMMA HeaderDeletes ==
  ASSUME NEW h, NEW E, Ends(h, E), NEW q \in QuotRange, NEW i \in Run(E, q)
  PROVE  Ends(DeleteZero(h, i + q), Shrink(E, q))
<1> DEFINE b == Begin(E, q)
<1>1. /\ B!Ends(h, E) /\ q \in B!Places /\ b \in B!Run(E, q)
      /\ h \in [0 .. B!HeaderSize - 1 -> 0 .. 1]
  <2>1. b \in Nat /\ E[q] \in Nat /\ i \in Nat /\ b <= i /\ i < E[q]
    BY EndTypes, RunPlaces
  <2>2. b \in Run(E, q)
    BY <2>1 DEF Run
  <2> HIDE DEF b
  <2> QED BY <2>2, EndsAre, RunsAre, BOperators DEF Ends
<1>2. /\ B!DeleteZero(h, b + q) \in [0 .. B!HeaderSize - 1 -> 0 .. 1]
      /\ B!Ends(B!DeleteZero(h, b + q), B!Shrink(E, q))
  BY <1>1, Assumptions, RunsAre, B!DeleteZeroShrinks
<1>3. B!Shrink(E, q) = Shrink(E, q)
  BY BOperators DEF B!Shrink, Shrink
<1>4. /\ DeleteZero(h, b + q) \in [0 .. HeaderSize - 1 -> 0 .. 1]
      /\ B!Ends(DeleteZero(h, b + q), Shrink(E, q))
  BY <1>2, <1>3, BOperators
<1>5. ASSUME NEW k \in 0 .. HeaderSize - 1, b + q <= k, k < i + q
      PROVE  h[k] = 0 /\ k + 1 \in 0 .. HeaderSize - 1 /\ h[k + 1] = 0
  <2>1. /\ b \in Nat /\ q \in Nat /\ i \in Nat /\ b <= i /\ i < E[q] /\ E[q] \in Nat
    BY EndTypes, RunPlaces
  <2>2. k - q \in Run(E, q) /\ k + 1 - q \in Run(E, q) /\ k - q \in Nat /\ k + 1 - q \in Nat
    BY <1>5, <2>1 DEF Run
  <2>3. (k - q) + q = k /\ (k + 1 - q) + q = k + 1
    BY <2>1
  <2> QED BY <2>1, <2>2, <2>3, ElementBit, Sizes
<1>6. DeleteZero(h, i + q) = DeleteZero(h, b + q)
  <2>1. b \in Nat /\ q \in Nat /\ i \in Nat /\ b <= i
    BY EndTypes, RunPlaces
  <2>2. DOMAIN h = 0 .. HeaderSize - 1
    BY DEF Ends
  <2> DEFINE bit(z, k) == IF k < z THEN h[k] ELSE IF k + 1 \in 0 .. HeaderSize - 1 THEN h[k + 1] ELSE 0
  <2>3. \A z : DeleteZero(h, z) = [k \in 0 .. HeaderSize - 1 |-> bit(z, k)]
    BY <2>2 DEF DeleteZero, ShiftOut
  <2>4. ASSUME NEW k \in 0 .. HeaderSize - 1 PROVE bit(i + q, k) = bit(b + q, k)
    <3>1. CASE k < b + q
      BY <2>1, <3>1
    <3>2. CASE b + q <= k /\ k < i + q
      BY <1>5, <2>1, <3>2
    <3>3. CASE i + q <= k
      BY <2>1, <3>3
    <3> QED BY <2>1, <3>1, <3>2, <3>3
  <2> HIDE DEF bit
  <2> QED BY <2>3, <2>4
<1> QED BY <1>4, <1>6, EndsAre

LEMMA BodyInserts ==
  ASSUME NEW b \in [Places -> Bytes], NEW i0 \in Places, NEW rem \in Bytes
  PROVE  /\ ShiftIn(b, i0, rem) \in [Places -> Bytes]
         /\ ShiftIn(b, i0, rem)[i0] = rem
         /\ \A k \in Places : Up(i0, k) \in Places => ShiftIn(b, i0, rem)[Up(i0, k)] = b[k]
<1> DEFINE c == ShiftIn(b, i0, rem)
<1>1. /\ c = [k \in Places |-> c[k]]
      /\ \A k \in Places : c[k] = IF k < i0 THEN b[k] ELSE IF k = i0 THEN rem ELSE b[k - 1]
  BY DEF ShiftIn
<1> HIDE DEF c
<1>2. \A k \in Places : ~(k < i0) /\ k # i0 => k - 1 \in Places
  BY Sizes DEF Places
<1>3. \A k \in Places : c[k] \in Bytes
  BY <1>1, <1>2
<1>4. ASSUME NEW k \in Places, Up(i0, k) \in Places PROVE c[Up(i0, k)] = b[k]
  <2>1. k \in Int /\ i0 \in Int
    BY Sizes
  <2>2. CASE k < i0
    BY <1>1, <2>2 DEF Up
  <2>3. CASE ~(k < i0)
    <3>1. Up(i0, k) = k + 1
      BY <2>3 DEF Up
    <3>2. ~(k + 1 < i0) /\ k + 1 # i0 /\ (k + 1) - 1 = k
      BY <2>1, <2>3
    <3>3. k + 1 \in Places
      BY <1>4, <3>1
    <3>4. c[k + 1] = b[(k + 1) - 1]
      BY <1>1, <3>2, <3>3
    <3> QED BY <3>1, <3>2, <3>4
  <2> QED BY <2>2, <2>3
<1>5. ~(i0 < i0)
  BY Sizes
<1> QED BY <1>1, <1>3, <1>4, <1>5 DEF c

LEMMA BodyDeletes ==
  ASSUME NEW b \in [Places -> Bytes], NEW i0 \in Places, NEW last \in Bytes
  PROVE  /\ ShiftOut(b, i0, last) \in [Places -> Bytes]
         /\ \A k \in Places : Up(i0, k) \in Places => b[Up(i0, k)] = ShiftOut(b, i0, last)[k]
<1> DEFINE c == ShiftOut(b, i0, last)
<1>1. /\ c = [k \in Places |-> c[k]]
      /\ \A k \in Places : c[k] = IF k < i0 THEN b[k] ELSE IF k + 1 \in Places THEN b[k + 1] ELSE last
  BY DEF ShiftOut
<1> HIDE DEF c
<1>2. \A k \in Places : c[k] \in Bytes
  BY <1>1
<1>3. \A k \in Places : Up(i0, k) \in Places => b[Up(i0, k)] = c[k]
  BY <1>1 DEF Up
<1> QED BY <1>1, <1>2, <1>3 DEF c

(* The order an insertion into a run keeps. *)
LEMMA SortedIndexIs ==
  ASSUME NEW p, p.body \in [Places -> Bytes], NEW rem \in Bytes,
         NEW begin \in Nat, NEW end \in Nat, begin <= end, end <= Capacity
  PROVE  /\ SortedIndex(p, rem, begin, end) \in begin .. end
         /\ \A i \in begin .. end - 1 : i < SortedIndex(p, rem, begin, end) => p.body[i] < rem
         /\ SortedIndex(p, rem, begin, end) # end => rem <= p.body[SortedIndex(p, rem, begin, end)]
<1> DEFINE T == {i \in begin .. end : i = end \/ rem <= p.body[i]}
<1>1. T \in SUBSET Nat /\ end \in T
  BY Sizes
<1>2. PICK i0 \in T : \A i \in T : i0 <= i
  <2> HIDE DEF T
  <2> QED BY <1>1, LeastNat
<1>3. SortedIndex(p, rem, begin, end) = i0
  <2>1. T \in SUBSET Int
    BY <1>1
  <2>2. SortedIndex(p, rem, begin, end) = Min(T)
    BY DEF SortedIndex
  <2> HIDE DEF T
  <2> QED BY <1>2, <2>1, <2>2, MinIs
<1>4. i0 \in begin .. end /\ (i0 = end \/ rem <= p.body[i0])
  OBVIOUS
<1>5. ASSUME NEW i \in begin .. end - 1, i < i0 PROVE p.body[i] < rem
  <2>1. i \in Places /\ i \in begin .. end
    BY <1>5, Sizes DEF Places
  <2>2. p.body[i] \in Int /\ rem \in Int
    BY <2>1 DEF Bytes
  <2>3. i \notin T
    <3> HIDE DEF T
    <3> QED BY <1>2, <1>4, <1>5
  <2> QED BY <2>1, <2>2, <2>3
<1> QED BY <1>3, <1>4, <1>5

LEMMA GrowIs ==
  ASSUME NEW h, NEW E, Ends(h, E), NEW q \in QuotRange
  PROVE  /\ Total(Grow(E, q)) = Total(E) + 1 /\ Total(Shrink(E, q)) = Total(E) - 1
         /\ Begin(Grow(E, q), q) = Begin(E, q) /\ Grow(E, q)[q] = E[q] + 1
         /\ Begin(Shrink(E, q), q) = Begin(E, q) /\ Shrink(E, q)[q] = E[q] - 1
         /\ Grow(Shrink(E, q), q) = E
<1>1. Quots - 1 \in QuotRange /\ ~(Quots - 1 < q) /\ q \in Int /\ ~(q < q)
  BY Sizes DEF QuotRange
<1>2. q # 0 => q - 1 \in QuotRange /\ q - 1 < q
  BY <1>1, EndTypes
<1>3. \A r \in QuotRange : Grow(Shrink(E, q), q)[r] = E[r]
  <2> SUFFICES ASSUME NEW r \in QuotRange PROVE Grow(Shrink(E, q), q)[r] = E[r]
    OBVIOUS
  <2>1. E[r] \in Int
    BY EndTypes
  <2> QED BY <2>1 DEF Grow, Shrink
<1>4. Grow(Shrink(E, q), q) = E
  <2>1. E = [r \in QuotRange |-> E[r]]
    BY DEF Ends
  <2>2. Grow(Shrink(E, q), q) = [r \in QuotRange |-> Grow(Shrink(E, q), q)[r]]
    BY DEF Grow
  <2> QED BY <1>3, <2>1, <2>2
<1> QED BY <1>1, <1>2, <1>4 DEF Total, Grow, Shrink, Begin

LEMMA InsertInRun ==
  ASSUME NEW p, NEW E, Layout(p, E), Sorted(p, E), Total(E) < Capacity,
         NEW q \in QuotRange, NEW rem \in Bytes, NEW i0 \in Begin(E, q) .. E[q],
         \A i \in Run(E, q) : i < i0 => p.body[i] <= rem,
         \A i \in Run(E, q) : ~(i < i0) => rem <= p.body[i],
         NEW c, Ends(c.header, Grow(E, q)), c.body = ShiftIn(p.body, i0, rem)
  PROVE  /\ Layout(c, Grow(E, q)) /\ Sorted(c, Grow(E, q))
         /\ Total(Grow(E, q)) = Total(E) + 1
         /\ <<q, rem>> \in QR
         /\ ItemsOf(c) = AddCopy(ItemsOf(p), <<q, rem>>)
         /\ Size(ItemsOf(c)) = Size(ItemsOf(p)) + 1
<1> DEFINE F == Grow(E, q)
<1>1. Ends(p.header, E) /\ p.body \in [Places -> Bytes]
  BY DEF Layout
<1>2. /\ E[q] \in 0 .. Capacity /\ Begin(E, q) \in 0 .. E[q]
      /\ E[q] <= Total(E) /\ Total(E) \in 0 .. Capacity
  BY <1>1, EndTypes
<1>3. i0 \in Places
  BY <1>2, Sizes DEF Places
<1>4. /\ c.body \in [Places -> Bytes] /\ c.body[i0] = rem
      /\ \A k \in Places : Up(i0, k) \in Places => c.body[Up(i0, k)] = p.body[k]
  BY <1>1, <1>3, BodyInserts
<1>5. Layout(c, F)
  BY <1>4 DEF Layout
<1>6. /\ Total(F) = Total(E) + 1 /\ Begin(F, q) = Begin(E, q) /\ F[q] = E[q] + 1
      /\ \A r \in QuotRange : F[r] = IF r < q THEN E[r] ELSE E[r] + 1
  BY <1>1, GrowIs DEF Grow
<1> HIDE DEF F
<1>7. \A k \in 0 .. Total(E) - 1 : k \in Places /\ Up(i0, k) \in Places
  BY <1>2, <1>3, Sizes DEF Places, Up
<1>8. i0 \in Run(F, q)
  BY <1>2, <1>6 DEF Run
<1>9. Gains(p, E, c, F, q, i0)
  BY <1>4, <1>6, <1>7, <1>8 DEF Gains
<1>10. Sorted(c, F)
  BY <1>4, <1>5, <1>9, GainsSorted
<1>11. /\ <<q, rem>> \in QR /\ ItemsOf(c) = AddCopy(ItemsOf(p), <<q, rem>>)
       /\ Size(ItemsOf(c)) = Size(ItemsOf(p)) + 1
  BY <1>4, <1>5, <1>9, GainsAdds
<1> QED BY <1>5, <1>6, <1>10, <1>11 DEF F

LEMMA TakeFromRun ==
  ASSUME NEW p, NEW E, Layout(p, E), Sorted(p, E),
         NEW q \in QuotRange, NEW i0 \in Run(E, q),
         NEW c, Ends(c.header, Shrink(E, q)), c.body \in [Places -> Bytes],
         \A k \in 0 .. Total(E) - 2 : c.body[k] = p.body[Up(i0, k)]
  PROVE  /\ Layout(c, Shrink(E, q)) /\ Sorted(c, Shrink(E, q))
         /\ Total(E) = Total(Shrink(E, q)) + 1
         /\ <<q, p.body[i0]>> \in QR /\ ItemsOf(p)[<<q, p.body[i0]>>] > 0
         /\ ItemsOf(c) = RemoveCopy(ItemsOf(p), <<q, p.body[i0]>>)
         /\ Size(ItemsOf(p)) = Size(ItemsOf(c)) + 1
<1> DEFINE F == Shrink(E, q)
<1>1. Ends(p.header, E)
  BY DEF Layout
<1>2. Total(E) \in Nat
  BY <1>1, EndTypes
<1>3. Layout(c, F)
  BY DEF Layout
<1>4. Total(F) = Total(E) - 1 /\ \A r \in QuotRange : E[r] = IF r < q THEN F[r] ELSE F[r] + 1
  <2>1. \A r \in QuotRange : E[r] \in Int
    BY <1>1, EndTypes
  <2> QED BY <1>1, <2>1, GrowIs DEF Shrink
<1> HIDE DEF F
<1>5. Total(F) - 1 = Total(E) - 2
  BY <1>2, <1>4
<1>6. Gains(c, F, p, E, q, i0)
  BY <1>4, <1>5 DEF Gains
<1>7. Sorted(c, F)
  BY <1>3, <1>6, GainsSorted
<1>8. /\ <<q, p.body[i0]>> \in QR /\ ItemsOf(p)[<<q, p.body[i0]>>] > 0
      /\ ItemsOf(c) = RemoveCopy(ItemsOf(p), <<q, p.body[i0]>>)
      /\ Size(ItemsOf(p)) = Size(ItemsOf(c)) + 1
  BY <1>3, <1>6, GainsAdds
<1> QED BY <1>2, <1>3, <1>4, <1>7, <1>8 DEF F

(* pd_add_25_core: a 0 in front of the quotient's 1, and the remainder at  *)
(* its place in the order of the run.                                      *)
LEMMA AddedIs ==
  ASSUME NEW p, NEW E, Layout(p, E), Sorted(p, E), Total(E) < Capacity, NEW x \in QR,
         NEW c, c = pd_add_25_core(x, p)
  PROVE  /\ Layout(c, Grow(E, Quot(x))) /\ Sorted(c, Grow(E, Quot(x)))
         /\ Total(Grow(E, Quot(x))) = Total(E) + 1
         /\ ItemsOf(c) = AddCopy(ItemsOf(p), x)
         /\ Size(ItemsOf(c)) = Size(ItemsOf(p)) + 1
         /\ c.last_quot = Max({p.last_quot, Quot(x)}) /\ c.exact = p.exact
<1> DEFINE q == Quot(x)
           i0 == SortedIndex(p, Rem(x), Begin(E, q), E[q])
<1>1. Ends(p.header, E) /\ p.body \in [Places -> Bytes]
  BY DEF Layout
<1>2. q \in QuotRange /\ Rem(x) \in Bytes /\ x = <<q, Rem(x)>>
  BY SlotIs
<1>3. /\ E[q] \in 0 .. Capacity /\ Begin(E, q) \in 0 .. E[q] /\ q \in Nat
      /\ E[q] <= Total(E) /\ Total(E) \in 0 .. Capacity
  BY <1>1, <1>2, EndTypes
<1>4. /\ c.header = InsertZero(p.header, E[q] + q) /\ c.body = ShiftIn(p.body, i0, Rem(x))
      /\ c.last_quot = Max({p.last_quot, q}) /\ c.exact = p.exact
  <2>1. RunBegin(p.header, q) = Begin(E, q) + q /\ RunEnd(p.header, q) = E[q] + q
    BY <1>1, <1>2, HeaderReads
  <2>2. RunBegin(p.header, q) - q = Begin(E, q) /\ RunEnd(p.header, q) - q = E[q]
    BY <1>3, <2>1
  <2> QED BY <2>1, <2>2 DEF pd_add_25_core
<1>5. /\ i0 \in Begin(E, q) .. E[q]
      /\ \A i \in Begin(E, q) .. E[q] - 1 : i < i0 => p.body[i] < Rem(x)
      /\ i0 # E[q] => Rem(x) <= p.body[i0]
  BY <1>1, <1>2, <1>3, SortedIndexIs
<1> HIDE DEF q, i0
<1>6. \A i \in Run(E, q) : i \in Nat /\ p.body[i] \in Int
  <2>1. \A i \in Run(E, q) : i \in Places /\ i \in Nat
    BY <1>1, <1>2, RunPlaces
  <2> QED BY <1>1, <2>1 DEF Bytes
<1>7. \A i \in Run(E, q) : i < i0 => p.body[i] <= Rem(x)
  BY <1>2, <1>5, <1>6 DEF Run, Bytes
<1>8. ASSUME NEW i \in Run(E, q), ~(i < i0) PROVE Rem(x) <= p.body[i]
  <2>1. i0 \in Run(E, q) /\ i0 # E[q] /\ i \in Nat /\ i0 \in Nat
    BY <1>3, <1>5, <1>6, <1>8 DEF Run
  <2>2. i0 = i \/ p.body[i0] <= p.body[i]
    BY <1>2, <1>8, <2>1 DEF Sorted
  <2> QED BY <1>2, <1>5, <1>6, <2>1, <2>2 DEF Bytes
<1>9. Ends(c.header, Grow(E, q))
  BY <1>1, <1>2, <1>4, HeaderInserts
<1>10. /\ Layout(c, Grow(E, q)) /\ Sorted(c, Grow(E, q)) /\ Total(Grow(E, q)) = Total(E) + 1
       /\ ItemsOf(c) = AddCopy(ItemsOf(p), <<q, Rem(x)>>)
       /\ Size(ItemsOf(c)) = Size(ItemsOf(p)) + 1
  BY <1>2, <1>4, <1>5, <1>7, <1>8, <1>9, InsertInRun
<1> QED BY <1>2, <1>4, <1>10 DEF q

-----------------------------------------------------------------------------
(***************************************************************************)
(* What the shifts of a word compute: n bits, the positions of the bits    *)
(* that stop a count, and below the word's first bit what a shift fills in.*)
(***************************************************************************)
Word(n) == [0 .. n - 1 -> 0 .. 1]

LEMMA BitsFinite ==
  ASSUME NEW n \in Nat
  PROVE  Cardinality(0 .. n - 1) = n
<1>1. Cardinality(0 .. n - 1) = IF 0 > n - 1 THEN 0 ELSE n - 1 - 0 + 1
  BY FS_Interval
<1> QED BY <1>1

(* The leading 0s, from the position of the highest 1, -1 if there is none. *)
LEMMA LzcntIs ==
  ASSUME NEW n \in Nat, NEW w \in Word(n), NEW t \in -1 .. n - 1, t # -1 => w[t] = 1,
         \A i \in 0 .. n - 1 : t < i => w[i] = 0
  PROVE  Lzcnt(w) = n - 1 - t
<1>1. DOMAIN w = 0 .. n - 1 /\ Cardinality(DOMAIN w) = n
  BY BitsFinite DEF Word
<1>2. SetBits(w) = {i \in 0 .. n - 1 : w[i] = 1}
  BY <1>1 DEF SetBits
<1>3. CASE t = -1
  <2>1. \A i \in 0 .. n - 1 : w[i] = 0
    BY <1>3
  <2>2. SetBits(w) = {}
    BY <1>2, <2>1
  <2> QED BY <1>1, <1>3, <2>2 DEF Lzcnt
<1>4. CASE t # -1
  <2>1. t \in 0 .. n - 1
    BY <1>4
  <2>2. t \in SetBits(w)
    BY <1>2, <1>4, <2>1
  <2>3. ASSUME NEW i \in SetBits(w) PROVE i <= t
    <3>1. i \in 0 .. n - 1 /\ w[i] = 1
      BY <1>2
    <3> QED BY <2>1, <3>1
  <2>4. Max(SetBits(w)) = t
    <3>1. SetBits(w) \in SUBSET Int
      BY <1>2
    <3> QED BY <2>2, <2>3, <3>1, MaxIs
  <2> QED BY <1>1, <2>2, <2>4 DEF Lzcnt, LastOne
<1> QED BY <1>3, <1>4

LEMMA ShiftTypes ==
  ASSUME NEW n \in Nat, NEW w \in Word(n), NEW k \in Nat
  PROVE  /\ Shl(w, k) \in Word(n) /\ Shr(w, k) \in Word(n) /\ Complement(w) \in Word(n)
         /\ \A i \in 0 .. n - 1 :
              /\ Shl(w, k)[i] = IF i >= k THEN w[i - k] ELSE 0
              /\ Shr(w, k)[i] = IF i + k < n THEN w[i + k] ELSE 0
              /\ Complement(w)[i] = 1 - w[i]
<1>1. DOMAIN w = 0 .. n - 1 /\ \A i \in 0 .. n - 1 : w[i] \in 0 .. 1
  BY DEF Word
<1>2. \A i \in 0 .. n - 1 : Shl(w, k)[i] = IF i >= k THEN w[i - k] ELSE 0
  BY <1>1 DEF Shl
<1>3. \A i \in 0 .. n - 1 : Shr(w, k)[i] = IF i + k < n THEN w[i + k] ELSE 0
  BY <1>1 DEF Shr
<1>4. \A i \in 0 .. n - 1 : Complement(w)[i] = 1 - w[i]
  BY <1>1 DEF Complement
<1>5. Shl(w, k) \in Word(n)
  <2>1. \A i \in 0 .. n - 1 : i >= k => i - k \in 0 .. n - 1
    OBVIOUS
  <2> QED BY <1>1, <1>2, <2>1 DEF Word, Shl
<1>6. Shr(w, k) \in Word(n)
  BY <1>1, <1>3 DEF Word, Shr
<1>7. Complement(w) \in Word(n)
  BY <1>1, <1>4 DEF Word, Complement
<1> QED BY <1>2, <1>3, <1>4, <1>5, <1>6, <1>7

(* The highest 1 shifted out and the rest complemented: what stops the     *)
(* count of the word's 1s below t is the 0 at z, or the word's end.        *)
Stop(n, t, z) == z + (n - t)

LEMMA OnesFromTop ==
  ASSUME NEW n \in Nat, NEW w \in Word(n), NEW t \in 0 .. n - 1, w[t] = 1,
         \A i \in 0 .. n - 1 : t < i => w[i] = 0,
         NEW z \in -1 .. t - 1, z # -1 => w[z] = 0,
         \A i \in 0 .. n - 1 : z < i /\ i < t => w[i] = 1,
         NEW c, c = Complement(Shl(w, Lzcnt(w) + 1))
  PROVE  /\ c \in Word(n) /\ Stop(n, t, z) \in 0 .. n - 1
         /\ c[Stop(n, t, z)] = 1
         /\ \A i \in 0 .. n - 1 : Stop(n, t, z) < i => c[i] = 0
         /\ \A i \in 0 .. n - 1 : c[i] = IF i >= n - t THEN 1 - w[i - (n - t)] ELSE 1
         /\ Lzcnt(c) = t - 1 - z
<1> DEFINE s == z + (n - t)
<1>1. n - t \in Nat /\ n - t >= 1 /\ s \in 0 .. n - 1
  OBVIOUS
<1>2. Lzcnt(w) + 1 = n - t
  <2>1. Lzcnt(w) = n - 1 - t
    BY LzcntIs
  <2> QED BY <2>1
<1>3. c \in Word(n) /\ \A i \in 0 .. n - 1 : c[i] = IF i >= n - t THEN 1 - w[i - (n - t)] ELSE 1
  <2>1. /\ Shl(w, n - t) \in Word(n)
        /\ \A i \in 0 .. n - 1 : Shl(w, n - t)[i] = IF i >= n - t THEN w[i - (n - t)] ELSE 0
    BY <1>1, ShiftTypes
  <2>2. /\ c \in Word(n)
        /\ \A i \in 0 .. n - 1 : c[i] = 1 - Shl(w, n - t)[i]
    BY <1>2, <2>1, ShiftTypes
  <2> QED BY <2>1, <2>2
<1>4. c[s] = 1
  <2>1. CASE z = -1
    BY <1>1, <1>3, <2>1
  <2>2. CASE z # -1
    <3>1. s >= n - t /\ s - (n - t) = z
      BY <2>2
    <3> HIDE DEF s
    <3> QED BY <1>1, <1>3, <2>2, <3>1
  <2> QED BY <2>1, <2>2
<1>5. ASSUME NEW i \in 0 .. n - 1, s < i PROVE c[i] = 0
  <2>1. i >= n - t /\ i - (n - t) \in 0 .. n - 1 /\ z < i - (n - t) /\ i - (n - t) < t
    BY <1>5
  <2>2. w[i - (n - t)] = 1
    BY <2>1
  <2> QED BY <1>3, <2>1, <2>2
<1>6. Lzcnt(c) = t - 1 - z
  <2>1. s \in -1 .. n - 1
    BY <1>1
  <2> HIDE DEF s
  <2>2. Lzcnt(c) = n - 1 - s
    BY <1>3, <1>4, <1>5, <2>1, LzcntIs
  <2> QED BY <2>2 DEF s
<1> QED BY <1>1, <1>3, <1>4, <1>5, <1>6 DEF Stop

(* From the highest 1 at s on: the 0s down to the 1 at r below it.         *)
LEMMA ZerosBelow ==
  ASSUME NEW n \in Nat, NEW w \in Word(n), NEW s \in 0 .. n - 1, w[s] = 1,
         \A i \in 0 .. n - 1 : s < i => w[i] = 0,
         NEW r \in 0 .. s - 1, w[r] = 1,
         \A i \in 0 .. n - 1 : r < i /\ i < s => w[i] = 0
  PROVE  Lzcnt(Shl(w, Lzcnt(w) + 1)) = s - 1 - r
<1> DEFINE v == Shl(w, n - s)
<1>1. Lzcnt(w) + 1 = n - s /\ n - s \in Nat /\ r + (n - s) \in 0 .. n - 1
  <2>1. Lzcnt(w) = n - 1 - s
    BY LzcntIs
  <2> QED BY <2>1
<1>2. v \in Word(n) /\ \A i \in 0 .. n - 1 : v[i] = IF i >= n - s THEN w[i - (n - s)] ELSE 0
  BY <1>1, ShiftTypes
<1> HIDE DEF v
<1>3. v[r + (n - s)] = 1
  <2>1. r + (n - s) >= n - s /\ (r + (n - s)) - (n - s) = r
    OBVIOUS
  <2> QED BY <1>1, <1>2, <2>1
<1>4. ASSUME NEW i \in 0 .. n - 1, r + (n - s) < i PROVE v[i] = 0
  <2>1. i >= n - s /\ i - (n - s) \in 0 .. n - 1 /\ r < i - (n - s) /\ i - (n - s) < s
    BY <1>4
  <2>2. w[i - (n - s)] = 0
    BY <2>1
  <2> QED BY <1>2, <2>1, <2>2
<1>5. Lzcnt(v) = n - 1 - (r + (n - s))
  BY <1>1, <1>2, <1>3, <1>4, LzcntIs
<1> QED BY <1>1, <1>5 DEF v

(* The 1s from the highest one at s on, down to the 0 at r, or all.        *)
LEMMA OnesBelowTop ==
  ASSUME NEW n \in Nat, NEW w \in Word(n), NEW s \in 0 .. n - 1, w[s] = 1,
         \A i \in 0 .. n - 1 : s < i => w[i] = 0,
         NEW r \in -1 .. s - 1, r # -1 => w[r] = 0,
         \A i \in 0 .. n - 1 : r < i /\ i < s => w[i] = 1
  PROVE  Lzcnt(Complement(Shl(w, Lzcnt(w)))) = s - r
<1> DEFINE k == n - 1 - s
           v == Shl(w, k)
           c == Complement(v)
<1>1. Lzcnt(w) = k /\ k \in Nat /\ r + k \in -1 .. n - 1
  <2>1. Lzcnt(w) = n - 1 - s
    BY LzcntIs
  <2> QED BY <2>1
<1>2. v \in Word(n) /\ \A i \in 0 .. n - 1 : v[i] = IF i >= k THEN w[i - k] ELSE 0
  <2> HIDE DEF k
  <2> QED BY <1>1, ShiftTypes
<1>3. c \in Word(n) /\ \A i \in 0 .. n - 1 : c[i] = IF i >= k THEN 1 - w[i - k] ELSE 1
  <2> HIDE DEF v, k
  <2>1. c \in Word(n) /\ \A i \in 0 .. n - 1 : c[i] = 1 - v[i]
    BY <1>2, ShiftTypes
  <2> QED BY <1>2, <2>1
<1> HIDE DEF c
<1>4. r + k # -1 => c[r + k] = 1
  <2>1. CASE r = -1
    BY <1>1, <1>3, <2>1
  <2>2. CASE r # -1
    <3>1. r + k \in 0 .. n - 1 /\ r + k >= k /\ (r + k) - k = r
      BY <2>2
    <3> HIDE DEF k
    <3> QED BY <1>1, <1>3, <2>2, <3>1
  <2> QED BY <2>1, <2>2
<1>5. ASSUME NEW i \in 0 .. n - 1, r + k < i PROVE c[i] = 0
  <2>1. i >= k /\ i - k \in 0 .. n - 1 /\ r < i - k /\ i - k <= s
    BY <1>1, <1>5
  <2>2. w[i - k] = 1
    BY <2>1
  <2> QED BY <1>3, <2>1, <2>2
<1>6. Lzcnt(c) = n - 1 - (r + k)
  BY <1>1, <1>3, <1>4, <1>5, LzcntIs
<1> QED BY <1>1, <1>6 DEF c, v

-----------------------------------------------------------------------------
(***************************************************************************)
(* The last quotient, L: the first quotient with no element after it, 0 of *)
(* an empty dictionary.                                                    *)
(***************************************************************************)
LastOf(E, L) ==
  /\ L \in QuotRange
  /\ E[L] = Total(E)
  /\ \A q \in QuotRange : q < L => E[q] < Total(E)

LEMMA LastExists ==
  ASSUME NEW h, NEW E, Ends(h, E)
  PROVE  \E L : LastOf(E, L)
<1> DEFINE T == {q \in QuotRange : E[q] = Total(E)}
<1>1. T \in SUBSET Nat /\ Quots - 1 \in T
  BY Sizes DEF Total
<1>2. PICK L \in T : \A q \in T : L <= q
  <2> HIDE DEF T
  <2> QED BY <1>1, LeastNat
<1>3. L \in QuotRange /\ E[L] = Total(E)
  OBVIOUS
<1>4. ASSUME NEW q \in QuotRange, q < L PROVE E[q] < Total(E)
  <2>1. q \in Nat /\ L \in Nat /\ E[q] \in Nat /\ Total(E) \in Nat /\ E[q] <= Total(E)
    BY <1>3, EndTypes
  <2>2. q \notin T
    BY <1>2, <1>4, <2>1
  <2> QED BY <2>1, <2>2
<1> QED BY <1>3, <1>4 DEF LastOf

LEMMA LastTypes ==
  ASSUME NEW h, NEW E, Ends(h, E), NEW L, LastOf(E, L)
  PROVE  /\ L \in QuotRange /\ L \in Nat /\ L < Quots
         /\ Total(E) \in Nat /\ Total(E) <= Capacity
         /\ Begin(E, L) \in Nat /\ E[L] = Total(E)
         /\ Total(E) = 0 => L = 0
         /\ Total(E) > 0 => Begin(E, L) <= Total(E) - 1 /\ Total(E) - 1 \in Run(E, L)
         /\ \A q \in QuotRange : q \in Nat /\ (L <= q => E[q] = Total(E))
<1>1. L \in QuotRange /\ E[L] = Total(E)
  BY DEF LastOf
<1>2. /\ L \in Nat /\ L < Quots /\ Total(E) \in Nat /\ Total(E) <= Capacity
      /\ Begin(E, L) \in Nat /\ Begin(E, L) <= Total(E)
      /\ L # 0 => L - 1 \in QuotRange
  BY <1>1, EndTypes
<1>3. ASSUME Total(E) = 0 PROVE L = 0
  <2>1. L # 0 => E[L - 1] \in Nat /\ E[L - 1] < 0
    BY <1>2, <1>3, EndTypes DEF LastOf
  <2> QED BY <2>1
<1>4. ASSUME Total(E) > 0 PROVE Begin(E, L) <= Total(E) - 1 /\ Total(E) - 1 \in Run(E, L)
  <2>1. L # 0 => E[L - 1] \in Nat /\ E[L - 1] < Total(E)
    BY <1>2, EndTypes DEF LastOf
  <2>2. Begin(E, L) <= Total(E) - 1
    BY <1>2, <1>4, <2>1 DEF Begin
  <2> QED BY <1>1, <1>2, <2>2 DEF Run
<1>5. ASSUME NEW q \in QuotRange PROVE q \in Nat /\ (L <= q => E[q] = Total(E))
  <2>1. q \in Nat /\ E[q] \in Nat /\ E[q] <= Total(E)
    BY EndTypes
  <2>2. L < q => E[L] <= E[q]
    BY <1>1 DEF Ends
  <2> QED BY <1>1, <1>2, <2>1, <2>2
<1> QED BY <1>1, <1>2, <1>3, <1>4, <1>5

(* The header from its last element up. *)
LEMMA LastBits ==
  ASSUME NEW h, NEW E, Ends(h, E), NEW L, LastOf(E, L), NEW i \in 0 .. HeaderSize - 1
  PROVE  /\ i > Total(E) + Quots - 1 => h[i] = 0
         /\ Total(E) + L <= i /\ i <= Total(E) + Quots - 1 => h[i] = 1
         /\ Total(E) > 0 /\ i = Total(E) + L - 1 => h[i] = 0
         /\ Total(E) > 0 /\ Begin(E, L) + L <= i /\ i <= Total(E) + L - 1 => h[i] = 0
         /\ L > 0 /\ i = Begin(E, L) + L - 1 => h[i] = 1
<1>1. /\ L \in QuotRange /\ L \in Nat /\ L < Quots /\ Total(E) \in Nat /\ Begin(E, L) \in Nat
      /\ E[L] = Total(E)
      /\ Total(E) > 0 => Begin(E, L) <= Total(E) - 1
  BY LastTypes
<1>2. h[i] \in 0 .. 1 /\ (h[i] = 1 <=> \E q \in QuotRange : i = E[q] + q)
  BY DEF Ends
<1>3. \A q \in QuotRange : q \in Nat /\ q < Quots /\ E[q] \in Nat /\ E[q] <= Total(E)
  BY EndTypes
<1>4. i > Total(E) + Quots - 1 => h[i] = 0
  <2>1. i > Total(E) + Quots - 1 => \A q \in QuotRange : i # E[q] + q
    BY <1>1, <1>3, Sizes
  <2> QED BY <1>2, <2>1
<1>5. ASSUME Total(E) + L <= i, i <= Total(E) + Quots - 1 PROVE h[i] = 1
  <2> DEFINE q == i - Total(E)
  <2>1. q \in QuotRange /\ L <= q /\ q \in Int
    BY <1>1, <1>5, Sizes DEF QuotRange
  <2>2. E[q] = Total(E)
    <3> HIDE DEF q
    <3> QED BY <2>1, LastTypes
  <2>3. i = E[q] + q
    BY <1>1, <2>2
  <2> QED BY <1>2, <2>1, <2>3
<1>6. ASSUME Total(E) > 0, Begin(E, L) + L <= i, i <= Total(E) + L - 1 PROVE h[i] = 0
  <2> DEFINE k == i - L
  <2>1. k \in Nat /\ k \in Run(E, L) /\ k + L = i
    BY <1>1, <1>6 DEF Run
  <2> HIDE DEF k
  <2>2. h[k + L] = 0
    BY <1>1, <2>1, ElementBit, Sizes
  <2> QED BY <2>1, <2>2
<1>7. ASSUME L > 0, i = Begin(E, L) + L - 1 PROVE h[i] = 1
  <2>1. L - 1 \in QuotRange /\ Begin(E, L) = E[L - 1] /\ E[L - 1] \in Nat
    BY <1>1, <1>7, EndTypes DEF Begin
  <2>2. i = E[L - 1] + (L - 1)
    BY <1>1, <1>7, <2>1
  <2> QED BY <1>2, <2>1, <2>2
<1>8. Total(E) > 0 /\ i = Total(E) + L - 1 => h[i] = 0
  BY <1>1, <1>6
<1> QED BY <1>4, <1>5, <1>6, <1>7, <1>8

(* The dictionary without its last element: its 0 taken out of the header. *)
LEMMA HeaderWithout ==
  ASSUME NEW h, NEW E, Ends(h, E), NEW L, LastOf(E, L), Total(E) > 0
  PROVE  /\ Ends(DeleteZero(h, Total(E) - 1 + L), Shrink(E, L))
         /\ Total(Shrink(E, L)) = Total(E) - 1
<1>1. L \in QuotRange /\ Total(E) - 1 \in Run(E, L)
  BY LastTypes
<1> QED BY <1>1, HeaderDeletes, GrowIs

(* The header below its last element, down to the one before.              *)
LEMMA NextBits ==
  ASSUME NEW h, NEW E, Ends(h, E), NEW L, LastOf(E, L), Total(E) > 0,
         NEW M, LastOf(Shrink(E, L), M)
  PROVE  /\ M \in QuotRange /\ M \in Nat /\ M <= L
         /\ Total(E) = 1 => M = 0
         /\ \A i \in 0 .. HeaderSize - 1 :
              /\ Total(E) - 1 + M <= i /\ i < Total(E) - 1 + L => h[i] = 1
              /\ Total(E) > 1 /\ i = Total(E) - 2 + M => h[i] = 0
<1> DEFINE g == DeleteZero(h, Total(E) - 1 + L)
           F == Shrink(E, L)
<1>1. Ends(g, F) /\ Total(F) = Total(E) - 1
  BY HeaderWithout
<1>2. L \in QuotRange /\ L \in Nat /\ L < Quots /\ Total(E) \in Nat /\ E[L] = Total(E)
  BY LastTypes
<1>3. M \in QuotRange /\ M \in Nat /\ (Total(F) = 0 => M = 0)
  BY <1>1, LastTypes
<1>4. M <= L
  <2>1. F[L] = Total(F)
    BY <1>1, <1>2 DEF Shrink
  <2>2. L < M => F[L] < Total(F)
    BY <1>2 DEF LastOf
  <2>3. Total(F) \in Int
    BY <1>1, <1>2
  <2> HIDE DEF F
  <2> QED BY <1>2, <1>3, <2>1, <2>2, <2>3
<1>5. ASSUME NEW i \in 0 .. HeaderSize - 1, i < Total(E) - 1 + L PROVE g[i] = h[i]
  <2>1. DOMAIN h = 0 .. HeaderSize - 1
    BY DEF Ends
  <2> QED BY <1>5, <2>1 DEF DeleteZero, ShiftOut
<1>6. ASSUME NEW i \in 0 .. HeaderSize - 1
      PROVE  /\ Total(E) - 1 + M <= i /\ i < Total(E) - 1 + L => h[i] = 1
             /\ Total(E) > 1 /\ i = Total(E) - 2 + M => h[i] = 0
  <2> HIDE DEF g, F
  <2>1. /\ Total(F) + M <= i /\ i <= Total(F) + Quots - 1 => g[i] = 1
        /\ Total(F) > 0 /\ i = Total(F) + M - 1 => g[i] = 0
    BY <1>1, LastBits DEF F
  <2>2. ASSUME Total(E) - 1 + M <= i, i < Total(E) - 1 + L PROVE h[i] = 1
    <3>1. Total(F) + M <= i /\ i <= Total(F) + Quots - 1
      BY <1>1, <1>2, <1>3, <2>2, Sizes
    <3> QED BY <1>5, <2>1, <2>2, <3>1
  <2>3. ASSUME Total(E) > 1, i = Total(E) - 2 + M PROVE h[i] = 0
    <3>1. i < Total(E) - 1 + L /\ Total(F) > 0 /\ i = Total(F) + M - 1
      BY <1>1, <1>2, <1>3, <1>4, <2>3
    <3> QED BY <1>5, <2>1, <3>1
  <2> QED BY <2>2, <2>3
<1>7. Total(E) = 1 => M = 0
  BY <1>1, <1>3
<1> QED BY <1>3, <1>4, <1>6, <1>7

(* An insertion and a deletion move the last quotient. *)
LEMMA LastAfterGrow ==
  ASSUME NEW h, NEW E, Ends(h, E), NEW L, LastOf(E, L), NEW q \in QuotRange
  PROVE  LastOf(Grow(E, q), IF q <= L THEN L ELSE q)
<1> DEFINE G == Grow(E, q)
           M == IF q <= L THEN L ELSE q
<1>1. /\ L \in QuotRange /\ L \in Nat /\ q \in Nat /\ Total(E) \in Nat
      /\ \A r \in QuotRange : r \in Nat /\ (L <= r => E[r] = Total(E))
  BY LastTypes
<1>2. \A r \in QuotRange : E[r] \in Nat /\ E[r] <= Total(E) /\ (r < L => E[r] < Total(E))
  BY EndTypes DEF LastOf
<1>3. /\ Total(G) = Total(E) + 1
      /\ \A r \in QuotRange : G[r] = IF r < q THEN E[r] ELSE E[r] + 1
  BY GrowIs DEF Grow
<1> HIDE DEF G
<1>4. M \in QuotRange /\ G[M] = Total(G)
  BY <1>1, <1>2, <1>3
<1>5. \A r \in QuotRange : r < M => G[r] < Total(G)
  BY <1>1, <1>2, <1>3
<1> HIDE DEF M
<1>6. LastOf(G, M)
  BY <1>4, <1>5 DEF LastOf
<1> QED BY <1>6 DEF G, M

LEMMA LastAfterShrink ==
  ASSUME NEW h, NEW E, Ends(h, E), NEW L, LastOf(E, L),
         NEW q \in QuotRange, q < L, NEW i \in Run(E, q)
  PROVE  LastOf(Shrink(E, q), L)
<1> DEFINE F == Shrink(E, q)
<1>1. L \in QuotRange /\ L \in Nat /\ q \in Nat /\ Total(E) \in Nat /\ E[L] = Total(E)
  BY LastTypes
<1>2. /\ Begin(E, q) \in Nat /\ E[q] \in Nat /\ i \in Nat /\ Begin(E, q) <= i /\ i < E[q]
  BY EndTypes, RunPlaces
<1>3. /\ Total(F) = Total(E) - 1
      /\ \A r \in QuotRange : F[r] = IF r < q THEN E[r] ELSE E[r] - 1
  BY GrowIs DEF Shrink
<1> HIDE DEF F
<1>4. F[L] = Total(F)
  BY <1>1, <1>3
<1>5. ASSUME NEW r \in QuotRange, r < L PROVE F[r] < Total(F)
  <2>1. r \in Nat /\ E[r] \in Nat /\ E[r] < Total(E)
    BY <1>5, EndTypes DEF LastOf
  <2>2. E[q] < Total(E)
    BY DEF LastOf
  <2>3. r < q => E[r] <= Begin(E, q)
    BY EndsBeforeBegin
  <2> QED BY <1>1, <1>2, <1>3, <2>1, <2>2, <2>3
<1>6. LastOf(F, L)
  BY <1>1, <1>4, <1>5 DEF LastOf
<1> QED BY <1>6 DEF F

-----------------------------------------------------------------------------
(***************************************************************************)
(* The last quotient and its run, as the code finds them from the top of   *)
(* the header.                                                             *)
(***************************************************************************)
WideBits == HeaderSize + DROPPED_BITS

LEMMA WideIs ==
  ASSUME NEW p, p.header \in [0 .. HeaderSize - 1 -> 0 .. 1]
  PROVE  /\ WideBits \in Nat /\ Wide(p) \in Word(WideBits)
         /\ \A i \in 0 .. WideBits - 1 :
              Wide(p)[i] = IF i < HeaderSize THEN p.header[i] ELSE 0
<1>1. WideBits \in Nat
  BY Sizes DEF WideBits
<1>2. \A i \in 0 .. HeaderSize + DROPPED_BITS - 1 : i < HeaderSize => i \in 0 .. HeaderSize - 1
  BY Sizes
<1> DEFINE bit(i) == IF i < HeaderSize THEN p.header[i] ELSE 0
<1>3. ASSUME NEW i \in 0 .. HeaderSize + DROPPED_BITS - 1 PROVE bit(i) \in 0 .. 1
  <2>1. \A k \in 0 .. HeaderSize - 1 : p.header[k] \in 0 .. 1
    OBVIOUS
  <2>2. CASE i < HeaderSize
    BY <1>2, <2>1, <2>2
  <2>3. CASE ~(i < HeaderSize)
    BY <2>3
  <2> QED BY <2>2, <2>3
<1>8. 0 .. HeaderSize + DROPPED_BITS - 1 = 0 .. WideBits - 1
  BY Sizes DEF WideBits
<1>4. Wide(p) = [i \in 0 .. WideBits - 1 |-> bit(i)]
  BY <1>8 DEF Wide
<1>5. \A i \in 0 .. WideBits - 1 : bit(i) \in 0 .. 1
  <2> HIDE DEF bit
  <2> QED BY <1>3, <1>8
<1>6. \A i \in 0 .. WideBits - 1 : Wide(p)[i] = bit(i)
  BY <1>4
<1>7. Wide(p) \in Word(WideBits)
  <2> HIDE DEF bit
  <2> QED BY <1>4, <1>5 DEF Word
<1> QED BY <1>1, <1>6, <1>7

(* The header in the top of the word, and pushed out of its bottom.        *)
LEMMA UpAndDown ==
  ASSUME NEW p, p.header \in [0 .. HeaderSize - 1 -> 0 .. 1]
  PROVE  /\ Shl(Wide(p), DROPPED_BITS) \in Word(WideBits)
         /\ Shr(Wide(p), DROPPED_BITS) \in Word(WideBits)
         /\ \A i \in 0 .. WideBits - 1 :
              /\ Shl(Wide(p), DROPPED_BITS)[i] =
                   IF i >= DROPPED_BITS THEN p.header[i - DROPPED_BITS] ELSE 0
              /\ Shr(Wide(p), DROPPED_BITS)[i] =
                   IF i + DROPPED_BITS < HeaderSize THEN p.header[i + DROPPED_BITS] ELSE 0
<1>1. /\ WideBits \in Nat /\ Wide(p) \in Word(WideBits) /\ DROPPED_BITS \in Nat
      /\ WideBits = HeaderSize + DROPPED_BITS /\ HeaderSize \in Nat
      /\ \A i \in 0 .. WideBits - 1 :
           Wide(p)[i] = IF i < HeaderSize THEN p.header[i] ELSE 0
  BY WideIs, Sizes DEF WideBits
<1> DEFINE w == Wide(p)
<1> HIDE DEF w
<1>2. /\ Shl(w, DROPPED_BITS) \in Word(WideBits) /\ Shr(w, DROPPED_BITS) \in Word(WideBits)
      /\ \A i \in 0 .. WideBits - 1 :
           /\ Shl(w, DROPPED_BITS)[i] = IF i >= DROPPED_BITS THEN w[i - DROPPED_BITS] ELSE 0
           /\ Shr(w, DROPPED_BITS)[i] =
                IF i + DROPPED_BITS < WideBits THEN w[i + DROPPED_BITS] ELSE 0
  BY <1>1, ShiftTypes DEF w
<1>3. ASSUME NEW i \in 0 .. WideBits - 1
      PROVE  Shl(w, DROPPED_BITS)[i] =
               IF i >= DROPPED_BITS THEN p.header[i - DROPPED_BITS] ELSE 0
  <2>1. i >= DROPPED_BITS => i - DROPPED_BITS \in 0 .. WideBits - 1 /\ i - DROPPED_BITS < HeaderSize
    BY <1>1
  <2> QED BY <1>1, <1>2, <2>1 DEF w
<1>4. ASSUME NEW i \in 0 .. WideBits - 1
      PROVE  Shr(w, DROPPED_BITS)[i] =
               IF i + DROPPED_BITS < HeaderSize THEN p.header[i + DROPPED_BITS] ELSE 0
  <2>1. i + DROPPED_BITS < WideBits => i + DROPPED_BITS \in 0 .. WideBits - 1
    BY <1>1
  <2>2. i + DROPPED_BITS < HeaderSize => i + DROPPED_BITS < WideBits
    BY <1>1
  <2> QED BY <1>1, <1>2, <2>1, <2>2 DEF w
<1> QED BY <1>2, <1>3, <1>4 DEF w

(* The same bits of a header pushed down, from its last element up: the    *)
(* last element is not among those lost.                                   *)
LEMMA PushedDown ==
  ASSUME NEW p, NEW E, Ends(p.header, E), NEW L, LastOf(E, L), Total(E) > DROPPED_BITS,
         NEW c, LET w == Shr(Wide(p), DROPPED_BITS)
                IN  c = Complement(Shl(w, Lzcnt(w) + 1))
  PROVE  LET w == Shr(Wide(p), DROPPED_BITS)
             t == Total(E) + Quots - 1 - DROPPED_BITS
             z == Total(E) + L - 1 - DROPPED_BITS
         IN  /\ t \in 0 .. WideBits - 1 /\ z \in 0 .. t - 1
             /\ c \in Word(WideBits) /\ Stop(WideBits, t, z) \in 0 .. WideBits - 1
             /\ c[Stop(WideBits, t, z)] = 1
             /\ \A i \in 0 .. WideBits - 1 : Stop(WideBits, t, z) < i => c[i] = 0
             /\ \A i \in 0 .. WideBits - 1 :
                  c[i] = IF i >= WideBits - t THEN 1 - w[i - (WideBits - t)] ELSE 1
             /\ Lzcnt(c) = t - 1 - z
<1> DEFINE w == Shr(Wide(p), DROPPED_BITS)
           t == Total(E) + Quots - 1 - DROPPED_BITS
           z == Total(E) + L - 1 - DROPPED_BITS
<1>0. p.header \in [0 .. HeaderSize - 1 -> 0 .. 1]
  BY DEF Ends
<1>1. /\ L \in Nat /\ L < Quots /\ Total(E) \in Nat /\ Total(E) <= Capacity
  BY LastTypes DEF Ends
<1>2. /\ WideBits \in Nat /\ WideBits = Quots + Capacity + DROPPED_BITS
      /\ HeaderSize = Quots + Capacity /\ DROPPED_BITS \in Nat /\ Quots \in Nat /\ Capacity \in Nat
  BY Sizes DEF WideBits
<1>3. /\ w \in Word(WideBits)
      /\ \A i \in 0 .. WideBits - 1 :
           w[i] = IF i + DROPPED_BITS < HeaderSize THEN p.header[i + DROPPED_BITS] ELSE 0
  BY <1>0, <1>1, UpAndDown
<1> HIDE DEF w
<1>4. /\ t \in 0 .. WideBits - 1 /\ z \in 0 .. t - 1
      /\ t + DROPPED_BITS = Total(E) + Quots - 1 /\ z + DROPPED_BITS = Total(E) + L - 1
      /\ t + DROPPED_BITS < HeaderSize /\ Total(E) > 0
      /\ L + Total(E) <= z + DROPPED_BITS + 1 /\ t \in Int /\ z \in Int
  <2>1. /\ t + DROPPED_BITS = Total(E) + Quots - 1 /\ t \in Int
        /\ z + DROPPED_BITS = Total(E) + L - 1 /\ z \in Int
    <3>1. Total(E) \in Int /\ L \in Int /\ Quots \in Int /\ DROPPED_BITS \in Int
      BY <1>1, <1>2
    <3> QED BY <3>1
  <2> HIDE DEF t, z
  <2> QED BY <1>1, <1>2, <2>1
<1> HIDE DEF t, z
<1>5. w[t] = 1
  <2>1. t + DROPPED_BITS \in 0 .. HeaderSize - 1
    BY <1>2, <1>4
  <2>2. p.header[t + DROPPED_BITS] = 1
    <3>1. Total(E) + L <= Total(E) + Quots - 1
      BY <1>1, <1>2
    <3> QED BY <1>1, <1>2, <1>4, <2>1, <3>1, LastBits
  <2> QED BY <1>3, <1>4, <2>2
<1>6. ASSUME NEW i \in 0 .. WideBits - 1, t < i PROVE w[i] = 0
  <2>1. ASSUME i + DROPPED_BITS < HeaderSize PROVE p.header[i + DROPPED_BITS] = 0
    <3>1. i + DROPPED_BITS \in 0 .. HeaderSize - 1 /\ i + DROPPED_BITS > Total(E) + Quots - 1
      BY <1>1, <1>2, <1>4, <1>6, <2>1
    <3> QED BY <3>1, LastBits
  <2> QED BY <1>3, <2>1
<1>7. w[z] = 0
  <2>1. z + DROPPED_BITS \in 0 .. HeaderSize - 1 /\ z \in 0 .. WideBits - 1
    BY <1>2, <1>4
  <2>2. p.header[z + DROPPED_BITS] = 0
    BY <1>4, <2>1, LastBits
  <2> QED BY <1>2, <1>3, <2>1, <2>2
<1>8. ASSUME NEW i \in 0 .. WideBits - 1, z < i, i < t PROVE w[i] = 1
  <2>1. i + DROPPED_BITS \in 0 .. HeaderSize - 1
    BY <1>2, <1>4, <1>8
  <2>3. Total(E) + L <= i + DROPPED_BITS
    BY SMTT(30), <1>1, <1>2, <1>4, <1>8
  <2>4. i + DROPPED_BITS <= Total(E) + Quots - 1
    BY <1>1, <1>2, <1>4, <1>8
  <2>2. p.header[i + DROPPED_BITS] = 1
    BY <2>1, <2>3, <2>4, LastBits
  <2> QED BY <1>2, <1>3, <2>1, <2>2
<1>9. c = Complement(Shl(w, Lzcnt(w) + 1))
  BY DEF w
<1>10. z \in -1 .. t - 1
  BY <1>4
<1>11. /\ c \in Word(WideBits) /\ Stop(WideBits, t, z) \in 0 .. WideBits - 1
       /\ c[Stop(WideBits, t, z)] = 1
       /\ \A i \in 0 .. WideBits - 1 : Stop(WideBits, t, z) < i => c[i] = 0
       /\ \A i \in 0 .. WideBits - 1 :
            c[i] = IF i >= WideBits - t THEN 1 - w[i - (WideBits - t)] ELSE 1
       /\ Lzcnt(c) = t - 1 - z
  BY <1>2, <1>3, <1>4, <1>5, <1>6, <1>7, <1>8, <1>9, <1>10, OnesFromTop
<1> QED BY <1>4, <1>11 DEF t, z, w

(* After a deletion: the quotient of the biggest element.                  *)
LEMMA CurrLastIs ==
  ASSUME NEW p, NEW E, Ends(p.header, E), NEW L, LastOf(E, L), Total(E) > DROPPED_BITS
  PROVE  compute_curr_last_quot(p) = L
<1> DEFINE w == Shr(Wide(p), DROPPED_BITS)
           c == Complement(Shl(w, Lzcnt(w) + 1))
           t == Total(E) + Quots - 1 - DROPPED_BITS
           z == Total(E) + L - 1 - DROPPED_BITS
<1>1. Lzcnt(c) = t - 1 - z
  BY PushedDown
<1>2. compute_curr_last_quot(p) = Quots - 1 - Lzcnt(c)
  BY DEF compute_curr_last_quot
<1> HIDE DEF w, c
<1>3. L \in Int /\ Total(E) \in Int /\ Quots \in Int /\ DROPPED_BITS \in Int
  BY LastTypes, Sizes
<1> QED BY <1>1, <1>2, <1>3

(* Of a full dictionary: the size of the last run, or more than fits when  *)
(* no 1 is seen below it.                                                  *)
LEMMA LastCapacityIs ==
  ASSUME NEW p, NEW E, Ends(p.header, E), NEW L, LastOf(E, L), Total(E) = Capacity,
         ~(get_last_quot_capacity(p) > Capacity)
  PROVE  get_last_quot_capacity(p) = Capacity - Begin(E, L)
<1> DEFINE w == Shr(Wide(p), DROPPED_BITS)
           c == Complement(Shl(w, Lzcnt(w) + 1))
           t == Total(E) + Quots - 1 - DROPPED_BITS
           z == Total(E) + L - 1 - DROPPED_BITS
           s == Stop(WideBits, t, z)
           r == IF L > 0 /\ Begin(E, L) + L - 1 >= DROPPED_BITS
                THEN Begin(E, L) + L + DROPPED_BITS ELSE -1
           d == Complement(Shl(c, Lzcnt(c)))
<1>0. p.header \in [0 .. HeaderSize - 1 -> 0 .. 1]
  BY DEF Ends
<1>1. /\ L \in Nat /\ L < Quots /\ L \in QuotRange
      /\ Begin(E, L) \in Nat /\ Begin(E, L) <= Capacity - 1
      /\ Capacity \in Nat /\ Capacity > 0
  <2>1. Total(E) > 0
    BY Sizes
  <2>2. /\ L \in Nat /\ L < Quots /\ L \in QuotRange
        /\ Begin(E, L) \in Nat /\ Begin(E, L) <= Total(E) - 1
    BY <2>1, LastTypes
  <2> QED BY <2>2, Sizes DEF Ends
<1>2. /\ WideBits \in Nat /\ WideBits = Quots + Capacity + DROPPED_BITS
      /\ HeaderSize = Quots + Capacity /\ DROPPED_BITS \in Nat /\ Quots \in Nat /\ Capacity \in Nat
      /\ Capacity > DROPPED_BITS
  BY Sizes DEF WideBits
<1>3. \A i \in 0 .. WideBits - 1 :
        w[i] = IF i + DROPPED_BITS < HeaderSize THEN p.header[i + DROPPED_BITS] ELSE 0
  BY <1>0, <1>1, UpAndDown
<1>4. /\ c \in Word(WideBits) /\ s \in 0 .. WideBits - 1
      /\ c[s] = 1
      /\ \A i \in 0 .. WideBits - 1 : s < i => c[i] = 0
      /\ \A i \in 0 .. WideBits - 1 :
           c[i] = IF i >= WideBits - t THEN 1 - w[i - (WideBits - t)] ELSE 1
  BY <1>2, PushedDown
<1>5. get_last_quot_capacity(p) = Lzcnt(d)
  BY DEF get_last_quot_capacity
<1>6. s = Capacity + L + DROPPED_BITS /\ WideBits - t = 2 * DROPPED_BITS + 1
  BY SMTT(30), <1>1, <1>2 DEF Stop
<1> HIDE DEF w, c, s, t, z
<1>7. r \in -1 .. s - 1
  BY <1>1, <1>2, <1>6
<1>8. \A i \in 0 .. WideBits - 1 :
        c[i] = IF i >= 2 * DROPPED_BITS + 1 THEN 1 - w[i - (2 * DROPPED_BITS + 1)] ELSE 1
  BY <1>4, <1>6
<1>9. ASSUME r # -1 PROVE c[r] = 0
  <2> DEFINE k == Begin(E, L) + L - 1 - DROPPED_BITS
  <2>0. L > 0 /\ Begin(E, L) + L - 1 >= DROPPED_BITS /\ r = Begin(E, L) + L + DROPPED_BITS
    BY <1>9
  <2>1. /\ L > 0
        /\ k \in 0 .. WideBits - 1 /\ k + DROPPED_BITS = Begin(E, L) + L - 1
        /\ k + DROPPED_BITS \in 0 .. HeaderSize - 1
        /\ r - (2 * DROPPED_BITS + 1) = k /\ r \in 0 .. WideBits - 1 /\ r >= 2 * DROPPED_BITS + 1
    <3> HIDE DEF r
    <3> QED BY SMTT(30), <1>1, <1>2, <2>0
  <2> HIDE DEF k, r
  <2>2. p.header[k + DROPPED_BITS] = 1
    BY <2>1, LastBits
  <2>3. w[k] = 1
    BY <1>2, <1>3, <2>1, <2>2
  <2> QED BY <1>8, <2>1, <2>3
<1>10. ASSUME NEW i \in 0 .. WideBits - 1, r < i, i < s PROVE c[i] = 1
  <2> DEFINE k == i - (2 * DROPPED_BITS + 1)
  <2>1. CASE i >= 2 * DROPPED_BITS + 1
    <3>0. i <= Capacity + L + DROPPED_BITS - 1 /\ i \in Nat
      BY <1>1, <1>2, <1>6, <1>10
    <3>4. k \in Int /\ k + DROPPED_BITS = i - (DROPPED_BITS + 1)
      BY <1>2
    <3>5. k + DROPPED_BITS <= Capacity + L - 1
      BY <1>1, <1>2, <3>0, <3>4
    <3>6. Begin(E, L) + L <= k + DROPPED_BITS
      <4>1. CASE L > 0 /\ Begin(E, L) + L - 1 >= DROPPED_BITS
        <5>1. r = Begin(E, L) + L + DROPPED_BITS
          BY <4>1
        <5> HIDE DEF r, k
        <5>2. Begin(E, L) \in Int /\ L \in Int /\ DROPPED_BITS \in Int /\ i \in Int
          BY <1>1, <1>2
        <5>3. Begin(E, L) + L + DROPPED_BITS + 1 <= i
          BY <1>10, <5>1, <5>2
        <5>4. Begin(E, L) + L <= i - (DROPPED_BITS + 1)
          BY <5>2, <5>3
        <5> QED BY <3>4, <5>4
      <4>2. CASE ~(L > 0 /\ Begin(E, L) + L - 1 >= DROPPED_BITS)
        <5>1. L = 0 => Begin(E, L) = 0
          BY DEF Begin
        <5>2. Begin(E, L) + L <= DROPPED_BITS
          BY <1>1, <1>2, <4>2, <5>1
        <5>3. k + DROPPED_BITS >= DROPPED_BITS
          BY <1>2, <2>1, <3>0
        <5> QED BY <1>1, <1>2, <3>4, <5>2, <5>3
      <4> QED BY <4>1, <4>2
    <3>1. /\ k \in 0 .. WideBits - 1 /\ k + DROPPED_BITS \in 0 .. HeaderSize - 1
          /\ k + DROPPED_BITS <= Capacity + L - 1 /\ Begin(E, L) + L <= k + DROPPED_BITS
      <4>1. k + DROPPED_BITS >= DROPPED_BITS
        BY <1>2, <2>1, <3>0
      <4> HIDE DEF k
      <4> QED BY <1>1, <1>2, <3>4, <3>5, <3>6, <4>1
    <3> HIDE DEF k
    <3>2. p.header[k + DROPPED_BITS] = 0
      BY <1>1, <3>1, LastBits
    <3>3. w[k] = 0
      BY <1>2, <1>3, <3>1, <3>2
    <3> QED BY <1>8, <2>1, <3>3 DEF k
  <2>2. CASE ~(i >= 2 * DROPPED_BITS + 1)
    BY <1>8, <2>2
  <2> QED BY <2>1, <2>2
<1> HIDE DEF r
<1>11. Lzcnt(d) = s - r
  BY <1>2, <1>4, <1>7, <1>9, <1>10, OnesBelowTop
<1> HIDE DEF d
<1>12. /\ s - r \in Int /\ get_last_quot_capacity(p) = s - r
       /\ r # -1 => s - r = Capacity - Begin(E, L)
       /\ r = -1 => s - r > Capacity
  BY <1>1, <1>2, <1>5, <1>6, <1>11 DEF r
<1> QED BY <1>1, <1>12

(* Before a deletion: the last quotient without the last element, where an *)
(* only element has the 1s of all quotients before it and a 0 shifted in   *)
(* below, or nothing.                                                      *)
LEMMA NextLastIs ==
  ASSUME NEW p, NEW E, Ends(p.header, E), NEW L, LastOf(E, L), Total(E) > 0,
         NEW M, LastOf(Shrink(E, L), M)
  PROVE  compute_next_last_quot(p) = M
<1> DEFINE w == Shl(Wide(p), DROPPED_BITS)
           c == Complement(Shl(w, Lzcnt(w) + 1))
           t == Total(E) - 1 + Quots + DROPPED_BITS
           z == Total(E) - 1 + L + DROPPED_BITS
           y == Total(E) - 2 + M + DROPPED_BITS
           s == z + (WideBits - t)
           r == y + (WideBits - t)
           ran == Lzcnt(Shl(c, Lzcnt(c) + 1))
<1>0. p.header \in [0 .. HeaderSize - 1 -> 0 .. 1]
  BY DEF Ends
<1>1. /\ L \in Nat /\ L < Quots /\ Total(E) \in Nat /\ Total(E) <= Capacity
      /\ M \in Nat /\ M <= L /\ (Total(E) = 1 => M = 0)
  BY LastTypes, NextBits DEF Ends
<1>2. /\ WideBits \in Nat /\ WideBits = Quots + Capacity + DROPPED_BITS
      /\ HeaderSize = Quots + Capacity /\ DROPPED_BITS \in Nat /\ Quots \in Nat /\ Capacity \in Nat
  BY Sizes DEF WideBits
<1>3. /\ w \in Word(WideBits)
      /\ \A i \in 0 .. WideBits - 1 :
           w[i] = IF i >= DROPPED_BITS THEN p.header[i - DROPPED_BITS] ELSE 0
  BY <1>0, <1>1, UpAndDown
<1>4. /\ t \in 0 .. WideBits - 1 /\ z \in -1 .. t - 1 /\ z \in Nat /\ y \in -1 .. z - 1
      /\ z - y = 1 + L - M /\ t - z = Quots - L
      /\ s = z + (WideBits - t) /\ r = y + (WideBits - t)
  <2>1. t \in Int /\ t = (Total(E) - 1) + Quots + DROPPED_BITS
    BY <1>1, <1>2
  <2>2. z \in Int /\ z = (Total(E) - 1) + L + DROPPED_BITS
    BY <1>1, <1>2
  <2>3. y \in Int /\ y = (Total(E) - 2) + M + DROPPED_BITS
    BY <1>1, <1>2
  <2>4. t \in 0 .. WideBits - 1 /\ z \in -1 .. t - 1 /\ z \in Nat /\ t - z = Quots - L
    <3> HIDE DEF t, z
    <3> QED BY SMTT(30), <1>1, <1>2, <2>1, <2>2
  <2>5. y \in -1 .. z - 1 /\ z - y = 1 + L - M
    <3> HIDE DEF z, y
    <3>1. (Total(E) - 2) + M >= -1
      BY <1>1
    <3> QED BY SMTT(30), <1>1, <1>2, <2>2, <2>3, <3>1
  <2> QED BY <2>4, <2>5
<1>5. /\ \A i \in 0 .. WideBits - 1 : i > t => w[i] = 0
      /\ \A i \in 0 .. WideBits - 1 : z < i /\ i <= t => w[i] = 1
      /\ w[z] = 0
      /\ \A i \in 0 .. WideBits - 1 : y < i /\ i < z => w[i] = 1
      /\ y # -1 => w[y] = 0
  <2> SUFFICES ASSUME NEW i \in 0 .. WideBits - 1
               PROVE  /\ i > t => w[i] = 0
                      /\ z < i /\ i <= t => w[i] = 1
                      /\ i = z => w[i] = 0
                      /\ y < i /\ i < z => w[i] = 1
                      /\ i = y => w[i] = 0
    <3> HIDE DEF w, t, z, y
    <3>1. z \in 0 .. WideBits - 1 /\ (y # -1 => y \in 0 .. WideBits - 1)
      BY <1>2, <1>4
    <3> QED BY <3>1
  <2> DEFINE k == i - DROPPED_BITS
  <2>1. /\ t = (Total(E) - 1) + Quots + DROPPED_BITS /\ z = (Total(E) - 1) + L + DROPPED_BITS
        /\ y = (Total(E) - 2) + M + DROPPED_BITS /\ k + DROPPED_BITS = i /\ k \in Int
        /\ t \in Int /\ z \in Int /\ y \in Int
    BY <1>1, <1>2
  <2> HIDE DEF t, z, y, k
  <2>5. /\ Total(E) \in Int /\ Quots \in Int /\ L \in Int /\ M \in Int /\ DROPPED_BITS \in Int
        /\ i \in Int /\ HeaderSize \in Int
    BY <1>1, <1>2
  <2>2. CASE i >= DROPPED_BITS /\ k < HeaderSize
    <3>1. k \in 0 .. HeaderSize - 1 /\ w[i] = p.header[k]
      BY <1>2, <1>3, <2>1, <2>2 DEF k
    <3>2. /\ k > Total(E) + Quots - 1 => p.header[k] = 0
          /\ Total(E) + L <= k /\ k <= Total(E) + Quots - 1 => p.header[k] = 1
          /\ k = Total(E) + L - 1 => p.header[k] = 0
          /\ Total(E) - 1 + M <= k /\ k < Total(E) - 1 + L => p.header[k] = 1
          /\ Total(E) > 1 /\ k = Total(E) - 2 + M => p.header[k] = 0
      <4>1. /\ k > Total(E) + Quots - 1 => p.header[k] = 0
            /\ Total(E) + L <= k /\ k <= Total(E) + Quots - 1 => p.header[k] = 1
            /\ k = Total(E) + L - 1 => p.header[k] = 0
        BY <3>1, LastBits
      <4>2. /\ Total(E) - 1 + M <= k /\ k < Total(E) - 1 + L => p.header[k] = 1
            /\ Total(E) > 1 /\ k = Total(E) - 2 + M => p.header[k] = 0
        BY <3>1, NextBits
      <4> QED BY <4>1, <4>2
    <3>3. ASSUME i = y PROVE Total(E) > 1
      <4>1. k = (Total(E) - 2) + M /\ k >= 0
        BY <2>1, <2>2, <2>5, <3>3
      <4> QED BY <1>1, <4>1
    <3>4. i > t => k > Total(E) + Quots - 1
      BY <2>1, <2>5
    <3>5. z < i /\ i <= t => Total(E) + L <= k /\ k <= Total(E) + Quots - 1
      BY <2>1, <2>5
    <3>6. ASSUME i = z PROVE k = Total(E) + L - 1
      <4>1. k + DROPPED_BITS = (Total(E) - 1) + L + DROPPED_BITS
        BY <2>1, <3>6
      <4> QED BY <2>1, <2>5, <4>1
    <3>7. y < i /\ i < z => Total(E) - 1 + M <= k /\ k < Total(E) - 1 + L
      BY <2>1, <2>5
    <3>8. ASSUME i = y PROVE k = Total(E) - 2 + M
      <4>1. k + DROPPED_BITS = (Total(E) - 2) + M + DROPPED_BITS
        BY <2>1, <3>8
      <4> QED BY <2>1, <2>5, <4>1
    <3> QED BY <3>1, <3>2, <3>3, <3>4, <3>5, <3>6, <3>7, <3>8
  <2>3. CASE ~(i >= DROPPED_BITS)
    <3>1. w[i] = 0
      BY <1>3, <2>3
    <3>3. (Total(E) - 2) + M >= -1 /\ Total(E) - 1 + L >= 0
      BY <1>1
    <3>2. y >= DROPPED_BITS - 1 /\ i < z
      BY <2>1, <2>3, <2>5, <3>3
    <3> QED BY <1>2, <2>1, <2>3, <3>1, <3>2
  <2>4. CASE ~(k < HeaderSize)
    <3>1. FALSE
      BY <1>2, <2>1, <2>4 DEF k
    <3> QED BY <3>1
  <2> QED BY <2>2, <2>3, <2>4
<1>6. /\ w[t] = 1
      /\ \A i \in 0 .. WideBits - 1 : t < i => w[i] = 0
      /\ z # -1 => w[z] = 0
      /\ \A i \in 0 .. WideBits - 1 : z < i /\ i < t => w[i] = 1
  <2> HIDE DEF w, t, z, y
  <2> QED BY <1>2, <1>4, <1>5
<1> HIDE DEF w, t, z, y, s, r
<1>7. /\ c \in Word(WideBits) /\ s \in 0 .. WideBits - 1 /\ c[s] = 1
      /\ \A i \in 0 .. WideBits - 1 : s < i => c[i] = 0
      /\ \A i \in 0 .. WideBits - 1 :
           c[i] = IF i >= WideBits - t THEN 1 - w[i - (WideBits - t)] ELSE 1
      /\ Lzcnt(c) = t - 1 - z
  BY <1>2, <1>3, <1>4, <1>6, OnesFromTop DEF Stop
<1> HIDE DEF c
<1>8. r \in 0 .. s - 1 /\ r \in 0 .. WideBits - 1
  BY <1>2, <1>4, <1>7
<1>9. c[r] = 1
  <2>1. CASE y = -1
    <3>1. ~(r >= WideBits - t)
      BY <1>2, <1>4, <2>1
    <3> QED BY <1>7, <1>8, <3>1
  <2>2. CASE y # -1
    <3>1. r >= WideBits - t /\ r - (WideBits - t) = y
      BY <1>2, <1>4, <2>2
    <3> QED BY <1>5, <1>7, <1>8, <2>2, <3>1
  <2> QED BY <2>1, <2>2
<1>10. ASSUME NEW i \in 0 .. WideBits - 1, r < i, i < s PROVE c[i] = 0
  <2>1. /\ i >= WideBits - t /\ i - (WideBits - t) \in 0 .. WideBits - 1
        /\ y < i - (WideBits - t) /\ i - (WideBits - t) < z
    BY <1>2, <1>4, <1>10
  <2>2. w[i - (WideBits - t)] = 1
    BY <1>5, <2>1
  <2> QED BY <1>7, <2>1, <2>2
<1>11. ran = s - 1 - r
  BY <1>2, <1>7, <1>8, <1>9, <1>10, ZerosBelow
<1>12. compute_next_last_quot(p) = Quots - 1 - Lzcnt(c) - ran
  BY DEF compute_next_last_quot, w, c
<1> HIDE DEF ran
<1>13. /\ t \in Int /\ z \in Int /\ y \in Int /\ L \in Int /\ M \in Int /\ Quots \in Int
       /\ z - y = 1 + L - M /\ t - z = Quots - L
  BY <1>1, <1>2, <1>4
<1>14. Lzcnt(c) = (Quots - L) - 1
  BY <1>7, <1>13
<1>15. s - r = z - y /\ s \in Int /\ r \in Int
  BY <1>2, <1>4, <1>13
<1>16. ran = L - M
  BY <1>11, <1>13, <1>15
<1> QED BY <1>12, <1>13, <1>14, <1>16

(* For a swap with a full dictionary: the 0 before the last one. *)
LEMMA FutureLastIs ==
  ASSUME NEW p, NEW E, Ends(p.header, E), LastOf(E, p.last_quot), Total(E) = Capacity,
         NEW M, LastOf(Shrink(E, p.last_quot), M), NEW quot \in QuotRange, quot < p.last_quot
  PROVE  get_last_quot_after_future_swap(quot, p) = IF quot <= M THEN M ELSE quot
<1> DEFINE L == p.last_quot
           last == get_last_zero_index(p)
           S == {i \in 0 .. last - 1 : p.header[i] = 0}
           y == Capacity - 2 + M
<1>0. Total(E) > 0 /\ Total(E) > 1
  BY Sizes
<1>1. /\ L \in Nat /\ L < Quots /\ M \in Nat /\ M <= L
      /\ \A i \in 0 .. HeaderSize - 1 :
           /\ Capacity - 1 + M <= i /\ i < Capacity - 1 + L => p.header[i] = 1
           /\ i = Capacity - 2 + M => p.header[i] = 0
  <2>1. L \in Nat /\ L < Quots
    BY LastTypes
  <2>2. /\ M \in Nat /\ M <= L
        /\ \A i \in 0 .. HeaderSize - 1 :
             /\ Total(E) - 1 + M <= i /\ i < Total(E) - 1 + L => p.header[i] = 1
             /\ Total(E) > 1 /\ i = Total(E) - 2 + M => p.header[i] = 0
    BY <1>0, NextBits
  <2> QED BY <1>0, <2>1, <2>2
<1>2. /\ HeaderSize = Quots + Capacity /\ Quots \in Nat /\ Capacity \in Nat /\ Capacity >= 2
      /\ quot \in Nat
  BY Sizes
<1>3. last = L + (Capacity - 1)
  BY <1>1, <1>2 DEF get_last_zero_index
<1> HIDE DEF last, L
<1>4. y \in Nat /\ y = (Capacity - 2) + M /\ y \in 0 .. last - 1 /\ y \in 0 .. HeaderSize - 1
  BY <1>1, <1>2, <1>3
<1> HIDE DEF y
<1>5. y \in S
  BY <1>1, <1>2, <1>4
<1>6. ASSUME NEW i \in S PROVE i <= y
  <2>1. i \in 0 .. HeaderSize - 1 /\ p.header[i] = 0 /\ i < last /\ i \in 0 .. last - 1
    BY <1>1, <1>2, <1>3
  <2>2. CASE i > y
    <3>1. Capacity - 1 + M <= i /\ i < Capacity - 1 + L
      BY <1>1, <1>2, <1>3, <1>4, <2>1, <2>2
    <3> QED BY <1>1, <2>1, <3>1
  <2> QED BY <1>4, <2>1, <2>2
<1>7. Max(S) = y
  <2>1. S \in SUBSET Int
    OBVIOUS
  <2> HIDE DEF S
  <2> QED BY <1>5, <1>6, <2>1, MaxIs
<1>8. find_next_zero_from_msb(p, last) = y
  BY <1>7 DEF find_next_zero_from_msb
<1>9. L - (last - y - 1) = M
  BY <1>1, <1>2, <1>3, <1>4
<1>10. get_last_quot_after_future_swap(quot, p) = Max({quot, M})
  BY <1>1, <1>2, <1>8, <1>9 DEF get_last_quot_after_future_swap, L, last
<1>11. CASE quot <= M
  <2>1. Max({quot, M}) = M
    <3>1. {quot, M} \in SUBSET Int /\ M \in {quot, M} /\ \A i \in {quot, M} : i <= M
      BY <1>1, <1>2, <1>11
    <3> QED BY <3>1, MaxIs
  <2> QED BY <1>10, <1>11, <2>1
<1>12. CASE ~(quot <= M)
  <2>1. Max({quot, M}) = quot
    <3>1. {quot, M} \in SUBSET Int /\ quot \in {quot, M} /\ \A i \in {quot, M} : i <= quot
      BY <1>1, <1>2, <1>12
    <3> QED BY <3>1, MaxIs
  <2> QED BY <1>10, <1>12, <2>1
<1> QED BY <1>11, <1>12

(* For a deletion: what is left of the header above a 1 below the last run *)
(* when all above the run is shifted out.                                  *)
LEMMA LastRunIs ==
  ASSUME NEW p, NEW E, Ends(p.header, E), NEW L, LastOf(E, L), Total(E) = Capacity
  PROVE  LET run == Lzcnt(Shl(Wide(p), DROPPED_BITS + Quots - L))
         IN  \A i \in Places : Capacity - 1 - i < run <=> i >= Begin(E, L)
<1> DEFINE k == DROPPED_BITS + (Quots - L)
           v == Shl(Wide(p), k)
           b == IF L > 0 THEN Begin(E, L) + L - 1 + k ELSE -1
<1>0. p.header \in [0 .. HeaderSize - 1 -> 0 .. 1]
  BY DEF Ends
<1>1. /\ L \in Nat /\ L < Quots /\ L \in QuotRange
      /\ Begin(E, L) \in Nat /\ Begin(E, L) <= Capacity - 1
      /\ Capacity \in Nat /\ Capacity > 0
  <2>1. Total(E) > 0
    BY Sizes
  <2>2. /\ L \in Nat /\ L < Quots /\ L \in QuotRange
        /\ Begin(E, L) \in Nat /\ Begin(E, L) <= Total(E) - 1
    BY <2>1, LastTypes
  <2> QED BY <2>2, Sizes DEF Ends
<1>2. /\ WideBits \in Nat /\ WideBits = Quots + Capacity + DROPPED_BITS
      /\ HeaderSize = Quots + Capacity /\ DROPPED_BITS \in Nat /\ Quots \in Nat /\ Capacity \in Nat
      /\ k \in Nat /\ k = (DROPPED_BITS + Quots) - L
  BY <1>1, Sizes DEF WideBits
<1>3. /\ Wide(p) \in Word(WideBits)
      /\ \A i \in 0 .. WideBits - 1 :
           Wide(p)[i] = IF i < HeaderSize THEN p.header[i] ELSE 0
  BY <1>0, WideIs
<1>4. /\ v \in Word(WideBits)
      /\ \A i \in 0 .. WideBits - 1 : v[i] = IF i >= k THEN Wide(p)[i - k] ELSE 0
  <2> HIDE DEF k
  <2> QED BY <1>2, <1>3, ShiftTypes
<1> HIDE DEF v
<1>5. b \in -1 .. WideBits - 1
  BY <1>1, <1>2
<1>6. ASSUME b # -1 PROVE v[b] = 1
  <2>1. L > 0 /\ b = (Begin(E, L) + L - 1) + k /\ Begin(E, L) + L - 1 \in 0 .. HeaderSize - 1
    BY SMTT(30), <1>1, <1>2, <1>6
  <2>2. p.header[Begin(E, L) + L - 1] = 1
    BY <1>1, <2>1, LastBits
  <2> HIDE DEF b, k
  <2>4. b \in Int /\ k \in Int /\ HeaderSize <= WideBits /\ HeaderSize \in Int /\ WideBits \in Int
    BY <1>2, <1>5
  <2>3. b >= k /\ b - k = Begin(E, L) + L - 1 /\ b - k \in 0 .. WideBits - 1 /\ b \in 0 .. WideBits - 1
    BY <1>5, <1>6, <2>1, <2>4
  <2> QED BY <1>2, <1>3, <1>4, <2>1, <2>2, <2>3
<1>7. ASSUME NEW i \in 0 .. WideBits - 1, b < i PROVE v[i] = 0
  <2>1. CASE i >= k
    <3>1. i - k \in 0 .. HeaderSize - 1 /\ i - k \in 0 .. WideBits - 1 /\ i - k <= Capacity + L - 1
      BY SMTT(30), <1>1, <1>2, <2>1
    <3>2. Begin(E, L) + L <= i - k
      <4>1. CASE L > 0
        <5>1. b = (Begin(E, L) + L - 1) + k
          BY <1>1, <1>2, <4>1
        <5> HIDE DEF b, k
        <5> QED BY <1>1, <1>2, <1>7, <5>1
      <4>2. CASE L = 0
        <5>1. Begin(E, L) = 0
          BY <4>2 DEF Begin
        <5> QED BY <3>1, <4>2, <5>1
      <4> QED BY <1>1, <4>1, <4>2
    <3>3. p.header[i - k] = 0
      <4> HIDE DEF k
      <4> QED BY <1>1, <3>1, <3>2, LastBits
    <3> QED BY <1>2, <1>3, <1>4, <2>1, <3>1, <3>3
  <2>2. CASE ~(i >= k)
    BY <1>4, <2>2
  <2> QED BY <2>1, <2>2
<1>8. Lzcnt(v) = WideBits - 1 - b
  <2> HIDE DEF b
  <2> QED BY <1>2, <1>4, <1>5, <1>6, <1>7, LzcntIs
<1>9. ASSUME NEW i \in Places PROVE Capacity - 1 - i < WideBits - 1 - b <=> i >= Begin(E, L)
  <2>1. i \in Nat /\ i < Capacity
    BY <1>1 DEF Places
  <2>2. CASE L > 0
    <3>1. WideBits - 1 - b = Capacity - Begin(E, L)
      BY <1>1, <1>2, <2>2
    <3> HIDE DEF b
    <3> QED BY <1>1, <1>2, <2>1, <3>1
  <2>3. CASE L = 0
    <3>1. Begin(E, L) = 0 /\ b = -1
      BY <2>3 DEF Begin
    <3> HIDE DEF b
    <3> QED BY SMTT(30), <1>1, <1>2, <2>1, <3>1
  <2> QED BY <1>1, <2>2, <2>3
<1>10. Lzcnt(Shl(Wide(p), DROPPED_BITS + Quots - L)) = Lzcnt(v)
  <2>1. DROPPED_BITS + Quots - L = k
    OBVIOUS
  <2> QED BY <2>1 DEF v
<1> QED BY <1>8, <1>9, <1>10

-----------------------------------------------------------------------------
(***************************************************************************)
(* The abstract dictionary, and its biggest element: of the last quotient, *)
(* with the last byte of an element.                                       *)
(***************************************************************************)
Abs(p) == [items |-> ItemsOf(p), last_quot |-> p.last_quot, overflowed |-> p.exact = 0]

LEMMA AbstractOperators ==
  /\ Abstract!QR = QR
  /\ \A x : Abstract!Quot(x) = Quot(x) /\ Abstract!Rem(x) = Rem(x)
  /\ \A x, y : Abstract!Less(x, y) <=> Less(x, y)
  /\ \A b, x : Abstract!AddCopy(b, x) = AddCopy(b, x) /\ Abstract!RemoveCopy(b, x) = RemoveCopy(b, x)
  /\ \A b : Abstract!Support(b) = Support(b) /\ Abstract!Size(b) = Size(b)
  /\ \A S : Abstract!Biggest(S) = Biggest(S) /\ Abstract!NoCopies(S) = NoCopies(S)
<1>1. Abstract!QR = QR
  BY DEF Abstract!QR, QR
<1>2. \A x : Abstract!Quot(x) = Quot(x) /\ Abstract!Rem(x) = Rem(x)
  BY DEF Abstract!Quot, Quot, Abstract!Rem, Rem
<1>3. \A x, y : Abstract!Less(x, y) <=> Less(x, y)
  BY <1>2 DEF Abstract!Less, Less
<1>4. \A b, x : Abstract!AddCopy(b, x) = AddCopy(b, x) /\ Abstract!RemoveCopy(b, x) = RemoveCopy(b, x)
  BY DEF Abstract!AddCopy, AddCopy, Abstract!RemoveCopy, RemoveCopy
<1>5. \A b : Abstract!Support(b) = Support(b)
  BY DEF Abstract!Support, Support
<1>6. \A b : Abstract!Size(b) = Size(b)
  <2>1. \A b : Abstract!Copies(b) = Copies(b)
    BY DEF Abstract!Copies, Copies
  <2>2. \A S : Abstract!Cardinality(S) = Cardinality(S)
    BY DEF Abstract!Cardinality, Cardinality
  <2> QED BY <2>1, <2>2 DEF Abstract!Size, Size
<1>7. \A S : Abstract!Biggest(S) = Biggest(S)
  BY <1>3 DEF Abstract!Biggest, Biggest
<1>8. \A S : Abstract!NoCopies(S) = NoCopies(S)
  BY DEF Abstract!NoCopies, NoCopies
<1> QED BY <1>1, <1>2, <1>3, <1>4, <1>5, <1>6, <1>7, <1>8

LEMMA LessIsTotalOrder ==
  ASSUME NEW x \in QR, NEW y \in QR, NEW z \in QR
  PROVE  /\ ~Less(x, x)
         /\ Less(x, y) => ~Less(y, x)
         /\ ~Less(x, y) /\ ~Less(y, z) => ~Less(x, z)
         /\ Less(x, y) \/ Less(y, x) \/ x = y
         /\ ~Less(x, y) => Quot(y) <= Quot(x)
BY Sizes DEF QR, Less, Quot, Rem

LEMMA BiggestIsUnique ==
  ASSUME NEW S \in SUBSET QR, NEW x \in S, \A y \in S : ~Less(x, y)
  PROVE  Biggest(S) = x
<1>1. Biggest(S) \in S /\ \A y \in S : ~Less(Biggest(S), y)
  BY DEF Biggest
<1> QED BY <1>1, LessIsTotalOrder

(* The places of the elements, by their order. *)
LEMMA ElementsBelow ==
  ASSUME NEW p, NEW E, Layout(p, E), Sorted(p, E), NEW L, LastOf(E, L),
         NEW y \in QR, ItemsOf(p)[y] > 0
  PROVE  /\ Total(E) > 0
         /\ <<L, p.body[Total(E) - 1]>> \in QR
         /\ ~Less(<<L, p.body[Total(E) - 1]>>, y)
         /\ ItemsOf(p)[<<L, p.body[Total(E) - 1]>>] > 0
<1> DEFINE last == Total(E) - 1
           m == <<L, p.body[last]>>
<1>1. Ends(p.header, E) /\ p.body \in [Places -> Bytes]
  BY DEF Layout
<1>2. PICK i \in Run(E, Quot(y)) : p.body[i] = Rem(y)
  BY ItemsAre DEF Of
<1>3. /\ Quot(y) \in QuotRange /\ Rem(y) \in Bytes
      /\ i \in Places /\ i \in Nat /\ Begin(E, Quot(y)) <= i /\ i < Total(E)
      /\ Begin(E, Quot(y)) \in Nat /\ Quot(y) \in Nat
  BY <1>1, <1>2, SlotIs, RunPlaces, EndTypes
<1>4. /\ L \in QuotRange /\ L \in Nat /\ Total(E) \in Nat /\ Total(E) > 0
      /\ last \in Run(E, L) /\ E[L] = Total(E)
  BY <1>1, <1>3, LastTypes
<1>5. last \in Places /\ p.body[last] \in Bytes
  <2> HIDE DEF last
  <2> QED BY <1>1, <1>4, RunPlaces
<1> HIDE DEF last
<1>6. m \in QR /\ Quot(m) = L /\ Rem(m) = p.body[last]
  BY <1>4, <1>5, SlotIs
<1>7. ItemsOf(p)[m] > 0
  <2>1. last \in Of(p, E, m)
    BY <1>4, <1>6 DEF Of
  <2> HIDE DEF m
  <2> QED BY <1>6, <2>1, ItemsAre
<1>8. ~Less(m, y)
  <2>1. Quot(y) <= L
    <3>1. L < Quot(y) => E[L] <= Begin(E, Quot(y))
      BY <1>1, <1>3, <1>4, EndsBeforeBegin
    <3> QED BY <1>3, <1>4, <3>1
  <2>2. ASSUME Quot(y) = L PROVE Rem(y) <= p.body[last]
    <3>1. i \in Run(E, L) /\ (i = last \/ i < last)
      BY <1>2, <1>3, <1>4, <2>2 DEF last
    <3>2. i < last => p.body[i] <= p.body[last]
      BY <1>4, <3>1 DEF Sorted
    <3> QED BY <1>2, <1>3, <1>5, <3>1, <3>2 DEF Bytes
  <2> HIDE DEF m
  <2> QED BY <1>3, <1>4, <1>5, <1>6, <2>1, <2>2 DEF Less, Bytes
<1> QED BY <1>4, <1>6, <1>7, <1>8 DEF last

LEMMA BiggestIs ==
  ASSUME NEW p, NEW E, Layout(p, E), Sorted(p, E), NEW L, LastOf(E, L), Total(E) > 0
  PROVE  /\ Biggest(Support(ItemsOf(p))) = <<L, p.body[Total(E) - 1]>>
         /\ <<L, p.body[Total(E) - 1]>> \in QR
         /\ p.body[Total(E) - 1] \in Bytes
         /\ ItemsOf(p)[<<L, p.body[Total(E) - 1]>>] > 0
<1> DEFINE last == Total(E) - 1
           m == <<L, p.body[last]>>
<1>1. Ends(p.header, E) /\ p.body \in [Places -> Bytes]
  BY DEF Layout
<1>2. L \in QuotRange /\ last \in Run(E, L)
  BY <1>1, LastTypes
<1>3. last \in Places /\ p.body[last] \in Bytes
  <2> HIDE DEF last
  <2> QED BY <1>1, <1>2, RunPlaces
<1>4. m \in QR /\ ItemsOf(p)[m] > 0
  <2> HIDE DEF last
  <2>1. m \in QR /\ Quot(m) = L /\ Rem(m) = p.body[last]
    BY <1>2, <1>3, SlotIs
  <2>2. last \in Of(p, E, m)
    BY <1>2, <2>1 DEF Of
  <2> HIDE DEF m
  <2> QED BY <2>1, <2>2, ItemsAre
<1>5. Support(ItemsOf(p)) = {y \in QR : ItemsOf(p)[y] > 0}
  BY ItemsAre DEF Support
<1>6. \A y \in Support(ItemsOf(p)) : ~Less(m, y)
  BY <1>5, ElementsBelow
<1>7. Biggest(Support(ItemsOf(p))) = m
  <2> HIDE DEF m
  <2> QED BY <1>4, <1>5, <1>6, BiggestIsUnique
<1> QED BY <1>3, <1>4, <1>7

LEMMA LastQuotIs ==
  ASSUME NEW p, NEW E, Layout(p, E), Sorted(p, E), NEW L, LastOf(E, L)
  PROVE  Abstract!compute_last_quot(ItemsOf(p)) = L
<1>1. Support(ItemsOf(p)) = {y \in QR : ItemsOf(p)[y] > 0}
  BY ItemsAre DEF Support
<1>2. CASE Total(E) > 0
  <2>1. Biggest(Support(ItemsOf(p))) = <<L, p.body[Total(E) - 1]>> /\ Support(ItemsOf(p)) # {}
    BY <1>1, <1>2, BiggestIs
  <2>2. Abstract!compute_last_quot(ItemsOf(p)) = Quot(Biggest(Support(ItemsOf(p))))
    BY <2>1, AbstractOperators DEF Abstract!compute_last_quot
  <2> QED BY <2>1, <2>2 DEF Quot
<1>3. CASE ~(Total(E) > 0)
  <2>1. Support(ItemsOf(p)) = {}
    BY <1>1, <1>3, ElementsBelow
  <2>2. L = 0
    BY <1>3, LastTypes DEF Layout
  <2> QED BY <2>1, <2>2, AbstractOperators DEF Abstract!compute_last_quot
<1> QED BY <1>2, <1>3

-----------------------------------------------------------------------------
(***************************************************************************)
(* The operations on a dictionary whose cached quotient is right.          *)
(***************************************************************************)
Pds == [last_quot : QuotRange, exact : 0 .. 1,
        header : [0 .. HeaderSize - 1 -> 0 .. 1], body : [Places -> Bytes]]

(* p holds the elements that E lays out, and its last quotient is L. *)
Holds(p, E, L) ==
  /\ p \in Pds
  /\ Layout(p, E) /\ Sorted(p, E) /\ LastOf(E, L)
  /\ Size(ItemsOf(p)) = Total(E)

LEMMA HoldsTypes ==
  ASSUME NEW p, NEW E, NEW L, Holds(p, E, L)
  PROVE  /\ p.last_quot \in QuotRange /\ p.last_quot \in Nat /\ p.exact \in 0 .. 1
         /\ Ends(p.header, E) /\ p.body \in [Places -> Bytes]
         /\ L \in QuotRange /\ L \in Nat /\ Total(E) \in Nat /\ Total(E) <= Capacity
         /\ ItemsOf(p) \in [QR -> Nat]
         /\ \A y : y \in Support(ItemsOf(p)) <=> y \in QR /\ ItemsOf(p)[y] > 0
<1>1. p.last_quot \in QuotRange /\ p.last_quot \in Nat /\ p.exact \in 0 .. 1
  BY Sizes DEF Holds, Pds
<1>2. Ends(p.header, E) /\ p.body \in [Places -> Bytes] /\ LastOf(E, L)
  BY DEF Holds, Layout
<1>3. L \in QuotRange /\ L \in Nat /\ Total(E) \in Nat /\ Total(E) <= Capacity
  BY <1>2, LastTypes
<1>4. ItemsOf(p) \in [QR -> Nat]
  BY ItemsAre DEF Holds
<1>5. \A y : y \in Support(ItemsOf(p)) <=> y \in QR /\ ItemsOf(p)[y] > 0
  BY <1>4 DEF Support
<1> QED BY <1>1, <1>2, <1>3, <1>4, <1>5

(* The dictionary without its biggest element, and its last quotient. *)
LEMMA WithoutIs ==
  ASSUME NEW p, NEW E, NEW L, Holds(p, E, L), Total(E) > 0, NEW c \in Pds,
         c.header = DeleteZero(p.header, Total(E) - 1 + L), c.body = p.body
  PROVE  /\ \E M : Holds(c, Shrink(E, L), M)
         /\ Total(E) = Total(Shrink(E, L)) + 1
         /\ ItemsOf(c) = RemoveCopy(ItemsOf(p), Biggest(Support(ItemsOf(p))))
<1> DEFINE last == Total(E) - 1
<1>1. /\ Layout(p, E) /\ Sorted(p, E) /\ LastOf(E, L) /\ Ends(p.header, E)
      /\ p.body \in [Places -> Bytes] /\ L \in QuotRange /\ Total(E) \in Nat
      /\ Size(ItemsOf(p)) = Total(E)
  BY HoldsTypes DEF Holds
<1>2. last \in Run(E, L)
  BY <1>1, LastTypes
<1>3. Ends(c.header, Shrink(E, L))
  BY <1>1, HeaderWithout
<1>4. \A k \in 0 .. Total(E) - 2 : c.body[k] = p.body[Up(last, k)]
  BY <1>1 DEF Up
<1>5. Biggest(Support(ItemsOf(p))) = <<L, p.body[last]>>
  BY <1>1, BiggestIs
<1> HIDE DEF last
<1>6. /\ Layout(c, Shrink(E, L)) /\ Sorted(c, Shrink(E, L))
      /\ Total(E) = Total(Shrink(E, L)) + 1
      /\ ItemsOf(c) = RemoveCopy(ItemsOf(p), <<L, p.body[last]>>)
      /\ Size(ItemsOf(p)) = Size(ItemsOf(c)) + 1
      /\ ItemsOf(p)[<<L, p.body[last]>>] > 0
  BY <1>1, <1>2, <1>3, <1>4, TakeFromRun
<1>7. PICK M : LastOf(Shrink(E, L), M)
  BY <1>3, LastExists
<1>8. Size(ItemsOf(c)) = Total(Shrink(E, L))
  <2>1. Size(ItemsOf(c)) \in Nat /\ Total(Shrink(E, L)) \in Nat
    <3>1. B!Size(ItemsOf(c)) \in B!Nat
      BY <1>6, ItemsAre, QRFinite, BCounts, Assumptions, B!CopiesFinite
    <3> QED BY <1>3, <1>7, <3>1, LastTypes, BCounts
  <2> QED BY <1>1, <1>6, <2>1
<1> QED BY <1>5, <1>6, <1>7, <1>8 DEF Holds

LEMMA NextQuotIs ==
  ASSUME NEW p, NEW E, NEW L, Holds(p, E, L), Total(E) > 0, NEW M, LastOf(Shrink(E, L), M)
  PROVE  Abstract!compute_last_quot(RemoveCopy(ItemsOf(p), Biggest(Support(ItemsOf(p))))) = M
<1> DEFINE c == [p EXCEPT !.header = DeleteZero(@, Total(E) - 1 + L)]
<1>1. Ends(p.header, E) /\ LastOf(E, L) /\ p \in Pds
  BY HoldsTypes DEF Holds
<1>2. DeleteZero(p.header, Total(E) - 1 + L) \in [0 .. HeaderSize - 1 -> 0 .. 1]
  BY <1>1, HeaderWithout DEF Ends
<1>3. /\ c \in Pds /\ c.body = p.body
      /\ c.header = DeleteZero(p.header, Total(E) - 1 + L)
  BY <1>1, <1>2 DEF Pds
<1> HIDE DEF c
<1>4. /\ \E K : Holds(c, Shrink(E, L), K)
      /\ ItemsOf(c) = RemoveCopy(ItemsOf(p), Biggest(Support(ItemsOf(p))))
  BY <1>3, WithoutIs
<1>5. Abstract!compute_last_quot(ItemsOf(c)) = M
  BY <1>4, LastQuotIs DEF Holds
<1> QED BY <1>4, <1>5

LEMMA SameItems ==
  ASSUME NEW p, NEW c, c.header = p.header, c.body = p.body
  PROVE  /\ ItemsOf(c) = ItemsOf(p)
         /\ \A E : (Layout(c, E) <=> Layout(p, E)) /\ (Sorted(c, E) <=> Sorted(p, E))
<1>1. Elements(c) = Elements(p)
  BY DEF Elements
<1> QED BY <1>1 DEF ItemsOf, Layout, Sorted

(* An element added, with any quotient in the cache. *)
LEMMA AddedHolds ==
  ASSUME NEW p, NEW E, NEW L, Holds(p, E, L), Total(E) < Capacity, NEW x \in QR,
         NEW l \in QuotRange, NEW a, a = pd_add_25_core(x, p),
         NEW c, c = [last_quot |-> l, exact |-> p.exact, header |-> a.header, body |-> a.body]
  PROVE  /\ Holds(c, Grow(E, Quot(x)), IF Quot(x) <= L THEN L ELSE Quot(x))
         /\ Total(Grow(E, Quot(x))) = Total(E) + 1
         /\ ItemsOf(c) = AddCopy(ItemsOf(p), x)
         /\ c.last_quot = l /\ c.exact = p.exact
<1> DEFINE F == Grow(E, Quot(x))
<1>1. /\ Layout(p, E) /\ Sorted(p, E) /\ LastOf(E, L) /\ p.exact \in 0 .. 1
      /\ Size(ItemsOf(p)) = Total(E) /\ Ends(p.header, E)
  BY HoldsTypes DEF Holds
<1>2. /\ Layout(a, F) /\ Sorted(a, F) /\ Total(F) = Total(E) + 1
      /\ ItemsOf(a) = AddCopy(ItemsOf(p), x)
      /\ Size(ItemsOf(a)) = Size(ItemsOf(p)) + 1
      /\ a.exact = p.exact
  BY <1>1, AddedIs
<1>4. Quot(x) \in QuotRange
  BY SlotIs
<1>5. c.last_quot = l /\ c.exact = p.exact /\ c.header = a.header /\ c.body = a.body
  OBVIOUS
<1>6. c \in Pds
  <2>1. a.header \in [0 .. HeaderSize - 1 -> 0 .. 1] /\ a.body \in [Places -> Bytes]
    BY <1>2 DEF Layout, Ends
  <2> QED BY <1>1, <2>1 DEF Pds
<1>7. Layout(c, F) /\ Sorted(c, F) /\ ItemsOf(c) = ItemsOf(a)
  BY <1>2, <1>5, SameItems
<1>8. LastOf(F, IF Quot(x) <= L THEN L ELSE Quot(x))
  BY <1>1, <1>4, LastAfterGrow
<1> HIDE DEF F
<1>9. Size(ItemsOf(c)) = Total(F)
  BY <1>1, <1>2, <1>7
<1>10. Holds(c, F, IF Quot(x) <= L THEN L ELSE Quot(x))
  BY <1>6, <1>7, <1>8, <1>9 DEF Holds
<1> QED BY <1>2, <1>5, <1>7, <1>10 DEF F

LEMMA Maximum ==
  ASSUME NEW i \in Nat, NEW k \in Nat
  PROVE  Max({i, k}) = IF k <= i THEN i ELSE k
<1>1. CASE k <= i
  <2>1. {i, k} \in SUBSET Int /\ i \in {i, k} /\ \A j \in {i, k} : j <= i
    BY <1>1
  <2> QED BY <1>1, <2>1, MaxIs
<1>2. CASE ~(k <= i)
  <2>1. {i, k} \in SUBSET Int /\ k \in {i, k} /\ \A j \in {i, k} : j <= k
    BY <1>2
  <2> QED BY <1>2, <2>1, MaxIs
<1> QED BY <1>1, <1>2

(* pd_add_25_core itself: the cache becomes the bigger of the quotients. *)
LEMMA InsertedHolds ==
  ASSUME NEW p, NEW E, NEW L, Holds(p, E, L), Total(E) < Capacity, NEW x \in QR,
         NEW c, c = pd_add_25_core(x, p)
  PROVE  /\ Holds(c, Grow(E, Quot(x)), IF Quot(x) <= L THEN L ELSE Quot(x))
         /\ Total(Grow(E, Quot(x))) = Total(E) + 1
         /\ ItemsOf(c) = AddCopy(ItemsOf(p), x)
         /\ c.last_quot = (IF Quot(x) <= p.last_quot THEN p.last_quot ELSE Quot(x))
         /\ c.exact = p.exact
<1> DEFINE l == IF Quot(x) <= p.last_quot THEN p.last_quot ELSE Quot(x)
<1>1. p.last_quot \in QuotRange /\ p.last_quot \in Nat /\ Quot(x) \in QuotRange /\ Quot(x) \in Nat
  BY HoldsTypes, SlotIs, Sizes
<1>2. Max({p.last_quot, Quot(x)}) = l /\ l \in QuotRange
  BY <1>1, Maximum
<1> HIDE DEF l
<1>3. c = [last_quot |-> l, exact |-> p.exact, header |-> c.header, body |-> c.body]
  BY <1>2 DEF pd_add_25_core
<1>4. l \in QuotRange
  BY <1>2
<1>5. /\ Holds(c, Grow(E, Quot(x)), IF Quot(x) <= L THEN L ELSE Quot(x))
      /\ Total(Grow(E, Quot(x))) = Total(E) + 1
      /\ ItemsOf(c) = AddCopy(ItemsOf(p), x)
      /\ c.last_quot = l /\ c.exact = p.exact
  BY <1>3, <1>4, AddedHolds
<1> QED BY <1>5 DEF l

(* The last byte of a full dictionary is its biggest element's. *)
LEMMA LastItemIs ==
  ASSUME NEW p, NEW E, Holds(p, E, p.last_quot), Total(E) = Capacity,
         NEW m, m = <<p.last_quot, get_last_byte(p)>>
  PROVE  /\ m \in QR /\ Quot(m) = p.last_quot /\ Rem(m) = get_last_byte(p)
         /\ get_last_byte(p) \in Bytes
         /\ Biggest(Support(ItemsOf(p))) = m
         /\ ItemsOf(p)[m] > 0
         /\ \A y \in QR : ItemsOf(p)[y] > 0 => ~Less(m, y)
         /\ Abstract!LastItem(Abs(p)) = m
<1>1. Total(E) > 0 /\ get_last_byte(p) = p.body[Total(E) - 1]
  BY Sizes DEF get_last_byte
<1>2. /\ Biggest(Support(ItemsOf(p))) = m /\ m \in QR
      /\ ItemsOf(p)[m] > 0 /\ get_last_byte(p) \in Bytes
  BY <1>1, BiggestIs DEF Holds
<1>3. \A y \in QR : ItemsOf(p)[y] > 0 => ~Less(m, y)
  BY <1>1, ElementsBelow DEF Holds
<1>4. Quot(m) = p.last_quot /\ Rem(m) = get_last_byte(p)
  BY DEF Quot, Rem
<1>5. Abstract!LastItem(Abs(p)) = <<p.last_quot, Rem(Biggest(Support(ItemsOf(p))))>>
  BY AbstractOperators DEF Abstract!LastItem, Abs
<1> QED BY <1>2, <1>3, <1>4, <1>5

(***************************************************************************)
(* The swap with a full dictionary: what it keeps is the smaller of the    *)
(* new element and the biggest one, and it is still full.                  *)
(***************************************************************************)
Swapped(p, x, c, qr) ==
  /\ \E F : Holds(c, F, c.last_quot) /\ Total(F) = Capacity
  /\ c.exact = 0
  /\ Abstract!pd_swap_short(x, Abs(p)) = [pd |-> Abs(c), qr |-> qr]
  /\ qr \in QR /\ ~Less(qr, <<p.last_quot, get_last_byte(p)>>)
  /\ \A y \in QR : ItemsOf(c)[y] > 0 => ~Less(<<p.last_quot, get_last_byte(p)>>, y)

LEMMA SwapKeepsAll ==
  ASSUME NEW p, NEW E, Holds(p, E, p.last_quot), Total(E) = Capacity, NEW x \in QR,
         Less(<<p.last_quot, get_last_byte(p)>>, x),
         NEW c, c = [last_quot |-> p.last_quot, exact |-> 0, header |-> p.header, body |-> p.body]
  PROVE  Swapped(p, x, c, x)
<1> DEFINE m == <<p.last_quot, get_last_byte(p)>>
<1>1. /\ m \in QR /\ Abstract!LastItem(Abs(p)) = m
      /\ \A y \in QR : ItemsOf(p)[y] > 0 => ~Less(m, y)
  BY LastItemIs
<1>2. /\ c.last_quot = p.last_quot /\ c.exact = 0 /\ c.header = p.header /\ c.body = p.body
  OBVIOUS
<1>3. ItemsOf(c) = ItemsOf(p) /\ Layout(c, E) /\ Sorted(c, E)
  BY <1>2, SameItems DEF Holds
<1>4. c \in Pds
  <2>1. /\ p.last_quot \in QuotRange /\ p.header \in [0 .. HeaderSize - 1 -> 0 .. 1]
        /\ p.body \in [Places -> Bytes] /\ 0 \in 0 .. 1
    BY HoldsTypes DEF Ends
  <2> QED BY <2>1 DEF Pds
<1>5. Holds(c, E, c.last_quot)
  BY <1>2, <1>3, <1>4 DEF Holds
<1>6. Abstract!pd_swap_short(x, Abs(p)) = [pd |-> Abs(c), qr |-> x]
  <2>1. Abstract!Less(Abstract!LastItem(Abs(p)), x)
    BY <1>1, AbstractOperators
  <2>2. Abs(p).items = ItemsOf(p) /\ Abs(p).last_quot = p.last_quot
    BY DEF Abs
  <2>3. Abs(c) = [items |-> ItemsOf(p), last_quot |-> p.last_quot, overflowed |-> TRUE]
    <3>1. (0 = 0) = TRUE
      OBVIOUS
    <3> QED BY <1>2, <1>3, <3>1 DEF Abs
  <2> QED BY <2>1, <2>2, <2>3 DEF Abstract!pd_swap_short
<1>7. ~Less(x, m)
  <2> HIDE DEF m
  <2>1. Less(m, x)
    BY DEF m
  <2> QED BY <1>1, <2>1, LessIsTotalOrder
<1> QED BY <1>1, <1>2, <1>3, <1>5, <1>6, <1>7 DEF Swapped

(* What both other cases have in common: the biggest element leaves. *)
LEMMA SwapTakes ==
  ASSUME NEW p, NEW E, Holds(p, E, p.last_quot), Total(E) = Capacity, NEW x \in QR,
         ~Less(<<p.last_quot, get_last_byte(p)>>, x),
         NEW c, NEW F, Holds(c, F, c.last_quot), Total(F) = Capacity, c.exact = 0,
         ItemsOf(c) = AddCopy(RemoveCopy(ItemsOf(p), Biggest(Support(ItemsOf(p)))), x),
         c.last_quot = (IF Quot(x) = p.last_quot THEN p.last_quot
                        ELSE Abstract!get_last_quot_after_future_swap(Quot(x), Abs(p)))
  PROVE  Swapped(p, x, c, <<p.last_quot, get_last_byte(p)>>)
<1> DEFINE m == <<p.last_quot, get_last_byte(p)>>
<1>1. /\ m \in QR /\ Abstract!LastItem(Abs(p)) = m /\ Biggest(Support(ItemsOf(p))) = m
      /\ \A y \in QR : ItemsOf(p)[y] > 0 => ~Less(m, y)
  BY LastItemIs
<1>2. ~Less(m, x)
  OBVIOUS
<1> HIDE DEF m
<1>3. Abstract!pd_swap_short(x, Abs(p)) = [pd |-> Abs(c), qr |-> m]
  <2>1. ~Abstract!Less(Abstract!LastItem(Abs(p)), x)
    BY <1>1, <1>2, AbstractOperators
  <2>2. Abs(p).items = ItemsOf(p) /\ Abs(p).last_quot = p.last_quot
    BY DEF Abs
  <2>3. Abs(c) = [items |-> ItemsOf(c), last_quot |-> c.last_quot, overflowed |-> TRUE]
    <3>1. (0 = 0) = TRUE
      OBVIOUS
    <3> QED BY <3>1 DEF Abs
  <2>4. ItemsOf(c) =
          Abstract!AddCopy(Abstract!RemoveCopy(Abs(p).items,
            Abstract!Biggest(Abstract!Support(Abs(p).items))), x)
    BY <2>2, AbstractOperators
  <2>5. c.last_quot = (IF Abstract!Quot(x) = Abs(p).last_quot THEN Abs(p).last_quot
                       ELSE Abstract!get_last_quot_after_future_swap(Abstract!Quot(x), Abs(p)))
    BY <2>2, AbstractOperators
  <2> QED BY <1>1, <2>1, <2>3, <2>4, <2>5 DEF Abstract!pd_swap_short
<1>4. ASSUME NEW y \in QR, ItemsOf(c)[y] > 0 PROVE ~Less(m, y)
  <2>1. ItemsOf(p) \in [QR -> Nat]
    BY HoldsTypes
  <2>2. y = x \/ ItemsOf(p)[y] > 0
    BY <1>1, <1>4, <2>1 DEF AddCopy, RemoveCopy
  <2> QED BY <1>1, <1>2, <2>2
<1>5. ~Less(m, m)
  BY <1>1, LessIsTotalOrder
<1> QED BY <1>1, <1>3, <1>4, <1>5 DEF Swapped, m

(* A smaller element of the last quotient: the last run is begun from the  *)
(* end of the body, and its last byte pushed out.                          *)
LEMMA SwapInLastRun ==
  ASSUME NEW p, NEW E, Holds(p, E, p.last_quot), Total(E) = Capacity, NEW x \in QR,
         ~Less(<<p.last_quot, get_last_byte(p)>>, x), Quot(x) = p.last_quot,
         NEW c, c = [last_quot |-> p.last_quot, exact |-> 0, header |-> p.header,
                     body |-> ShiftIn(p.body,
                       SortedIndex(p, Rem(x), Begin(E, p.last_quot), Capacity), Rem(x))]
  PROVE  Swapped(p, x, c, <<p.last_quot, get_last_byte(p)>>)
<1> DEFINE L == p.last_quot
           F == Shrink(E, L)
           d == [p EXCEPT !.header = DeleteZero(@, Total(E) - 1 + L)]
           i0 == SortedIndex(p, Rem(x), Begin(E, L), Capacity)
<1>1. /\ L \in QuotRange /\ Ends(p.header, E) /\ p.body \in [Places -> Bytes] /\ p \in Pds
      /\ Sorted(p, E) /\ LastOf(E, L) /\ Total(E) > 0 /\ Capacity \in Nat
      /\ Rem(x) \in Bytes /\ x = <<L, Rem(x)>>
  BY HoldsTypes, SlotIs, Sizes DEF Holds
<1>2. d \in Pds /\ d.body = p.body /\ d.header = DeleteZero(p.header, Total(E) - 1 + L)
  <2>1. DeleteZero(p.header, Total(E) - 1 + L) \in [0 .. HeaderSize - 1 -> 0 .. 1]
    BY <1>1, HeaderWithout DEF Ends
  <2> QED BY <1>1, <2>1 DEF Pds
<1> HIDE DEF d
<1>3. PICK M : Holds(d, F, M)
  BY <1>1, <1>2, WithoutIs
<1>4. /\ Total(F) = Capacity - 1 /\ Begin(F, L) = Begin(E, L) /\ F[L] = Capacity - 1
      /\ Grow(F, L) = E
      /\ ItemsOf(d) = RemoveCopy(ItemsOf(p), Biggest(Support(ItemsOf(p))))
  <2>1. E[L] = Capacity
    BY <1>1 DEF LastOf
  <2> QED BY <1>1, <1>2, <2>1, GrowIs, WithoutIs
<1>5. Begin(E, L) \in Nat /\ Begin(E, L) <= Capacity - 1
  BY <1>1, LastTypes
<1>6. /\ i0 \in Begin(E, L) .. Capacity
      /\ \A i \in Begin(E, L) .. Capacity - 1 : i < i0 => p.body[i] < Rem(x)
      /\ i0 # Capacity => Rem(x) <= p.body[i0]
  <2>1. Begin(E, L) <= Capacity /\ Capacity <= Capacity
    BY <1>1, <1>5
  <2> QED BY <1>1, <1>5, <2>1, SortedIndexIs
<1>7. c.body = ShiftIn(p.body, i0, Rem(x)) /\ c.header = p.header /\ c.last_quot = L /\ c.exact = 0
  OBVIOUS
<1> HIDE DEF i0
<1>8. i0 <= Capacity - 1
  <2>1. Capacity - 1 \in Begin(E, L) .. Capacity - 1
    BY <1>1, <1>5
  <2>2. Rem(x) <= p.body[Capacity - 1]
    <3>1. get_last_byte(p) \in Bytes
      BY LastItemIs
    <3> QED BY <1>1, <3>1 DEF Less, Quot, Rem, get_last_byte, Bytes
  <2>3. p.body[Capacity - 1] \in Int /\ Rem(x) \in Int
    BY <1>1, Sizes DEF Bytes
  <2>4. ~(Capacity - 1 < i0)
    BY <1>6, <2>1, <2>2, <2>3
  <2> QED BY <1>1, <1>5, <1>6, <2>4
<1>9. i0 \in Begin(F, L) .. F[L]
  BY <1>1, <1>4, <1>5, <1>6, <1>8
<1>10. Run(F, L) \in SUBSET Run(E, L) /\ i0 \in Run(E, L)
       /\ Run(E, L) = Begin(E, L) .. Capacity - 1
  <2>1. E[L] = Capacity
    BY <1>1 DEF LastOf
  <2> QED BY <1>1, <1>4, <1>5, <1>6, <1>8, <2>1 DEF Run
<1>11. \A i \in Run(E, L) : i \in Nat /\ p.body[i] \in Int
  <2>1. \A i \in Run(E, L) : i \in Places /\ i \in Nat
    BY <1>1, RunPlaces
  <2> QED BY <1>1, <2>1 DEF Bytes
<1>12. \A i \in Run(F, L) : i < i0 => d.body[i] <= Rem(x)
  BY <1>1, <1>2, <1>6, <1>10, <1>11 DEF Bytes
<1>13. ASSUME NEW i \in Run(F, L), ~(i < i0) PROVE Rem(x) <= d.body[i]
  <2>1. i \in Run(E, L) /\ i0 \in Nat /\ i \in Nat
    BY <1>10, <1>11
  <2>2. i0 = i \/ p.body[i0] <= p.body[i]
    <3>1. i0 = i \/ i0 < i
      BY <1>13, <2>1
    <3>2. i0 < i => p.body[i0] <= p.body[i]
      <4> HIDE DEF L, F
      <4> QED BY <1>1, <1>10, <2>1 DEF Sorted
    <3> QED BY <3>1, <3>2
  <2>3. Rem(x) <= p.body[i0]
    BY <1>1, <1>6, <1>8, <2>1
  <2> QED BY <1>1, <1>2, <1>10, <1>11, <2>1, <2>2, <2>3 DEF Bytes
<1>14. /\ Layout(c, E) /\ Sorted(c, E)
       /\ ItemsOf(c) = AddCopy(ItemsOf(d), x) /\ Size(ItemsOf(c)) = Size(ItemsOf(d)) + 1
  <2>1. Layout(d, F) /\ Sorted(d, F) /\ Total(F) < Capacity
    BY <1>1, <1>3, <1>4 DEF Holds
  <2>2. Ends(c.header, Grow(F, L)) /\ c.body = ShiftIn(d.body, i0, Rem(x))
    BY <1>1, <1>2, <1>4, <1>7
  <2> HIDE DEF F, L
  <2>3. /\ Layout(c, Grow(F, L)) /\ Sorted(c, Grow(F, L))
        /\ ItemsOf(c) = AddCopy(ItemsOf(d), <<L, Rem(x)>>)
        /\ Size(ItemsOf(c)) = Size(ItemsOf(d)) + 1
    BY <1>1, <1>9, <1>12, <1>13, <2>1, <2>2, InsertInRun
  <2> QED BY <1>1, <1>4, <2>3
<1>15. Holds(c, E, c.last_quot)
  <2>1. c.header \in [0 .. HeaderSize - 1 -> 0 .. 1] /\ c.body \in [Places -> Bytes]
    BY <1>14 DEF Layout, Ends
  <2>2. c \in Pds
    <3>1. c = [last_quot |-> L, exact |-> 0, header |-> c.header, body |-> c.body] /\ 0 \in 0 .. 1
      OBVIOUS
    <3> HIDE DEF L
    <3> QED BY <1>1, <2>1, <3>1 DEF Pds
  <2>3. Size(ItemsOf(c)) = Capacity
    BY <1>1, <1>3, <1>4, <1>14 DEF Holds
  <2> QED BY <1>1, <1>7, <1>14, <2>2, <2>3 DEF Holds
<1>16. ItemsOf(c) = AddCopy(RemoveCopy(ItemsOf(p), Biggest(Support(ItemsOf(p)))), x)
  BY <1>4, <1>14
<1> QED BY <1>7, <1>15, <1>16, SwapTakes

(* A smaller element of a smaller quotient: the last 0 is taken out, and   *)
(* the element added as to a dictionary that is not full.                  *)
LEMMA SwapInAnyRun ==
  ASSUME NEW p, NEW E, Holds(p, E, p.last_quot), Total(E) = Capacity, NEW x \in QR,
         Quot(x) < p.last_quot,
         NEW d, d = [last_quot |-> p.last_quot, exact |-> 0,
                     header |-> DeleteZero(p.header, get_last_zero_index(p)), body |-> p.body],
         NEW a, a = pd_add_25_core(x, d),
         NEW c, c = [last_quot |-> get_last_quot_after_future_swap(Quot(x), p), exact |-> 0,
                     header |-> a.header, body |-> a.body]
  PROVE  Swapped(p, x, c, <<p.last_quot, get_last_byte(p)>>)
<1> DEFINE L == p.last_quot
           F == Shrink(E, L)
           q == Quot(x)
<1>1. /\ L \in QuotRange /\ L \in Nat /\ Ends(p.header, E) /\ p.body \in [Places -> Bytes]
      /\ p \in Pds /\ LastOf(E, L) /\ Total(E) > 0 /\ Capacity \in Nat
      /\ q \in QuotRange /\ q \in Nat
  <2>1. /\ L \in QuotRange /\ L \in Nat /\ Ends(p.header, E) /\ p.body \in [Places -> Bytes]
        /\ p \in Pds /\ LastOf(E, L)
    BY HoldsTypes DEF Holds
  <2>2. Total(E) > 0 /\ Capacity \in Nat
    BY Sizes
  <2>3. q \in QuotRange /\ q \in Nat
    BY SlotIs, Sizes
  <2> QED BY <2>1, <2>2, <2>3
<1>2. /\ d \in Pds /\ d.body = p.body /\ d.header = DeleteZero(p.header, Total(E) - 1 + L)
      /\ d.exact = 0
  <2>1. get_last_zero_index(p) = Total(E) - 1 + L
    BY <1>1 DEF get_last_zero_index
  <2>2. DeleteZero(p.header, Total(E) - 1 + L) \in [0 .. HeaderSize - 1 -> 0 .. 1]
    BY <1>1, HeaderWithout DEF Ends
  <2>3. 0 \in 0 .. 1
    OBVIOUS
  <2> QED BY <1>1, <2>1, <2>2, <2>3 DEF Pds
<1>3. PICK M : Holds(d, F, M)
  BY <1>1, <1>2, WithoutIs
<1>4. /\ Total(F) = Capacity - 1
      /\ ItemsOf(d) = RemoveCopy(ItemsOf(p), Biggest(Support(ItemsOf(p))))
      /\ LastOf(F, M) /\ M \in Nat /\ M \in QuotRange
  BY <1>1, <1>2, <1>3, GrowIs, WithoutIs, HoldsTypes DEF Holds
<1> DEFINE l == IF q <= M THEN M ELSE q
<1>5. get_last_quot_after_future_swap(q, p) = l /\ l \in QuotRange
  BY <1>1, <1>4, FutureLastIs
<1>6. /\ Holds(c, Grow(F, q), IF q <= M THEN M ELSE q)
      /\ Total(Grow(F, q)) = Total(F) + 1
      /\ ItemsOf(c) = AddCopy(ItemsOf(d), x)
      /\ c.last_quot = l /\ c.exact = 0
  <2>1. c = [last_quot |-> l, exact |-> d.exact, header |-> a.header, body |-> a.body]
    BY <1>2, <1>5
  <2>2. Total(F) < Capacity
    BY <1>1, <1>4
  <2> HIDE DEF l, F
  <2>3. /\ Holds(c, Grow(F, Quot(x)), IF Quot(x) <= M THEN M ELSE Quot(x))
        /\ Total(Grow(F, Quot(x))) = Total(F) + 1
        /\ ItemsOf(c) = AddCopy(ItemsOf(d), x)
        /\ c.last_quot = l /\ c.exact = d.exact
    BY <1>3, <1>5, <2>1, <2>2, AddedHolds
  <2> QED BY <1>2, <2>3
<1>7. Total(Grow(F, q)) = Capacity
  BY <1>1, <1>4, <1>6
<1>8. Abstract!get_last_quot_after_future_swap(q, Abs(p)) = l
  <2>1. Abstract!compute_last_quot(RemoveCopy(ItemsOf(p), Biggest(Support(ItemsOf(p))))) = M
    BY <1>1, <1>4, NextQuotIs
  <2>2. Abs(p).items = ItemsOf(p)
    BY DEF Abs
  <2>3. Abstract!compute_last_quot(Abstract!RemoveCopy(Abs(p).items,
          Abstract!Biggest(Abstract!Support(Abs(p).items)))) = M
    BY <2>1, <2>2, AbstractOperators
  <2>4. Abstract!get_last_quot_after_future_swap(q, Abs(p)) = IF M < q THEN q ELSE M
    BY <2>3 DEF Abstract!get_last_quot_after_future_swap
  <2> QED BY <1>1, <1>4, <2>4
<1>9. Holds(c, Grow(F, q), c.last_quot)
  BY <1>6
<1>10. ItemsOf(c) = AddCopy(RemoveCopy(ItemsOf(p), Biggest(Support(ItemsOf(p)))), x)
  BY <1>4, <1>6
<1>11. q # p.last_quot /\ ~Less(<<p.last_quot, get_last_byte(p)>>, x)
  BY <1>1 DEF Less, Quot
<1> HIDE DEF F
<1>12. c.last_quot = (IF Quot(x) = p.last_quot THEN p.last_quot
                      ELSE Abstract!get_last_quot_after_future_swap(Quot(x), Abs(p)))
  BY <1>6, <1>8, <1>11
<1> QED BY <1>6, <1>7, <1>9, <1>10, <1>11, <1>12, SwapTakes

LEMMA SwapIs ==
  ASSUME NEW p, NEW E, Holds(p, E, p.last_quot), Total(E) = Capacity, NEW x \in QR,
         ~Overruns(x, p)
  PROVE  Swapped(p, x, pd_swap_short(x, p).pd, pd_swap_short(x, p).qr)
<1> DEFINE m == <<p.last_quot, get_last_byte(p)>>
           marked == [last_quot |-> p.last_quot, exact |-> 0, header |-> p.header, body |-> p.body]
<1>1. /\ p \in Pds /\ Ends(p.header, E) /\ LastOf(E, p.last_quot)
      /\ p.last_quot \in Nat /\ Quot(x) \in Nat
  BY HoldsTypes, SlotIs, Sizes DEF Holds
<1>2. [p EXCEPT !.exact = 0] = marked
  BY <1>1 DEF Pds
<1>3. CASE Less(m, x)
  <2>1. ~(Quot(x) < p.last_quot)
    BY <1>1, <1>3 DEF Less, Quot
  <2>2. pd_swap_short(x, p) = [pd |-> marked, qr |-> x]
    BY <1>2, <1>3, <2>1 DEF pd_swap_short
  <2> QED BY <1>3, <2>2, SwapKeepsAll
<1>4. CASE ~Less(m, x) /\ Quot(x) = p.last_quot
  <2> DEFINE c == [last_quot |-> p.last_quot, exact |-> 0, header |-> p.header,
                   body |-> ShiftIn(p.body,
                     SortedIndex(p, Rem(x), Begin(E, p.last_quot), Capacity), Rem(x))]
             rc == get_last_quot_capacity(p)
  <2>1. rc = Capacity - Begin(E, p.last_quot)
    <3>1. ~(rc > Capacity)
      BY <1>4 DEF Overruns
    <3> QED BY <1>1, <3>1, LastCapacityIs
  <2>2. Capacity - rc = Begin(E, p.last_quot)
    BY <1>1, <2>1, LastTypes, Sizes
  <2> HIDE DEF rc
  <2>3. \A i, k : SortedIndex(marked, Rem(x), i, k) = SortedIndex(p, Rem(x), i, k)
    BY DEF SortedIndex
  <2>4. pd_add_50_only_rem(Rem(x), rc, marked) = c
    BY <2>2, <2>3 DEF pd_add_50_only_rem
  <2>5. ~(Quot(x) < p.last_quot)
    BY <1>1, <1>4
  <2>6. pd_swap_short(x, p) = [pd |-> c, qr |-> m]
    BY <1>2, <1>4, <2>4, <2>5 DEF pd_swap_short, rc
  <2> QED BY <1>4, <2>6, SwapInLastRun
<1>5. CASE Quot(x) < p.last_quot
  <2> DEFINE d == [last_quot |-> p.last_quot, exact |-> 0,
                   header |-> DeleteZero(p.header, get_last_zero_index(p)), body |-> p.body]
             a == pd_add_25_core(x, d)
             c == [last_quot |-> get_last_quot_after_future_swap(Quot(x), p), exact |-> 0,
                   header |-> a.header, body |-> a.body]
  <2>1. remove_biggest_element(marked) = d
    BY DEF remove_biggest_element, get_last_zero_index
  <2>2. ~Less(m, x) /\ Quot(x) # p.last_quot
    BY <1>1, <1>5 DEF Less, Quot
  <2>3. [a EXCEPT !.last_quot = get_last_quot_after_future_swap(Quot(x), p)] = c
    BY DEF pd_add_25_core
  <2> HIDE DEF a
  <2>4. pd_swap_short(x, p) = [pd |-> c, qr |-> m]
    BY <1>2, <1>5, <2>1, <2>2, <2>3 DEF pd_swap_short, a
  <2>5. Swapped(p, x, c, m)
    BY <1>5, SwapInAnyRun DEF a
  <2> QED BY <2>4, <2>5
<1>6. Less(m, x) \/ (~Less(m, x) /\ Quot(x) = p.last_quot) \/ Quot(x) < p.last_quot
  BY <1>1 DEF Less, Quot
<1> QED BY <1>3, <1>4, <1>5, <1>6

-----------------------------------------------------------------------------
(***************************************************************************)
(* Deletions.  One of the run's 0s and one of the bytes that match leave;  *)
(* which of them, no reader can tell.                                      *)
(***************************************************************************)
LEMMA TakenHolds ==
  ASSUME NEW p, NEW E, NEW L, Holds(p, E, L), NEW x \in QR,
         NEW i0 \in Of(p, E, x), NEW i \in Run(E, Quot(x)), NEW l \in QuotRange,
         NEW c, c = [last_quot |-> l, exact |-> p.exact,
                     header |-> DeleteZero(p.header, i + Quot(x)),
                     body |-> ShiftOut(p.body, i0, get_last_byte(p))]
  PROVE  /\ \E M : Holds(c, Shrink(E, Quot(x)), M)
         /\ Total(Shrink(E, Quot(x))) = Total(E) - 1
         /\ ItemsOf(c) = RemoveCopy(ItemsOf(p), x)
         /\ c.last_quot = l /\ c.exact = p.exact
<1> DEFINE q == Quot(x)
           F == Shrink(E, q)
<1>1. /\ Layout(p, E) /\ Sorted(p, E) /\ Ends(p.header, E) /\ p.body \in [Places -> Bytes]
      /\ p.exact \in 0 .. 1 /\ Total(E) \in Nat /\ Total(E) <= Capacity
      /\ Size(ItemsOf(p)) = Total(E)
  BY HoldsTypes DEF Holds
<1>2. q \in QuotRange /\ x = <<q, Rem(x)>>
  BY SlotIs
<1>3. i0 \in Run(E, q) /\ p.body[i0] = Rem(x)
  BY DEF Of
<1>4. i0 \in Places /\ i0 \in Nat /\ i0 < Total(E) /\ get_last_byte(p) \in Bytes
  <2>1. Capacity - 1 \in Places
    BY Sizes DEF Places
  <2> QED BY <1>1, <1>2, <1>3, <2>1, RunPlaces DEF get_last_byte
<1>5. /\ c.header = DeleteZero(p.header, i + q) /\ c.body = ShiftOut(p.body, i0, get_last_byte(p))
      /\ c.last_quot = l /\ c.exact = p.exact
  OBVIOUS
<1> HIDE DEF q
<1>6. Ends(c.header, F)
  BY <1>1, <1>2, <1>5, HeaderDeletes DEF q
<1>7. /\ c.body \in [Places -> Bytes]
      /\ \A k \in 0 .. Total(E) - 2 : c.body[k] = p.body[Up(i0, k)]
  <2>1. \A k \in 0 .. Total(E) - 2 : k \in Places /\ Up(i0, k) \in Places
    BY <1>1, <1>4, Sizes DEF Places, Up
  <2> QED BY <1>1, <1>4, <1>5, <2>1, BodyDeletes
<1>8. c \in Pds
  <2>1. c.header \in [0 .. HeaderSize - 1 -> 0 .. 1]
    BY <1>6 DEF Ends
  <2>2. c = [last_quot |-> l, exact |-> p.exact, header |-> c.header, body |-> c.body]
    OBVIOUS
  <2> QED BY <1>1, <1>7, <2>1, <2>2 DEF Pds
<1> HIDE DEF F
<1>9. /\ Layout(c, F) /\ Sorted(c, F) /\ Total(E) = Total(F) + 1
      /\ ItemsOf(c) = RemoveCopy(ItemsOf(p), <<q, p.body[i0]>>)
      /\ Size(ItemsOf(p)) = Size(ItemsOf(c)) + 1
  BY <1>1, <1>2, <1>3, <1>6, <1>7, TakeFromRun DEF F
<1>10. PICK M : LastOf(F, M)
  BY <1>6, LastExists
<1>11. Total(F) \in Nat /\ Size(ItemsOf(c)) \in Nat
  <2>1. B!Size(ItemsOf(c)) \in B!Nat
    BY <1>9, ItemsAre, QRFinite, BCounts, Assumptions, B!CopiesFinite
  <2> QED BY <1>6, <1>10, <2>1, LastTypes, BCounts
<1>12. Size(ItemsOf(c)) = Total(F) /\ Total(F) = Total(E) - 1
  BY <1>1, <1>9, <1>11
<1>13. Holds(c, F, M)
  BY <1>8, <1>9, <1>10, <1>12 DEF Holds
<1> QED BY <1>2, <1>3, <1>5, <1>9, <1>12, <1>13 DEF F, q

LEMMA Altered ==
  ASSUME NEW p \in Pds, NEW h, NEW b
  PROVE  [p EXCEPT !.header = h, !.body = b] =
           [last_quot |-> p.last_quot, exact |-> p.exact, header |-> h, body |-> b]
<1> DEFINE s == [p EXCEPT !.header = h]
<1>1. s = [last_quot |-> p.last_quot, exact |-> p.exact, header |-> h, body |-> p.body]
  BY DEF Pds
<1>2. [p EXCEPT !.header = h, !.body = b] = [s EXCEPT !.body = b]
  OBVIOUS
<1> HIDE DEF s
<1>3. s \in [last_quot : QuotRange, exact : 0 .. 1, header : {h}, body : [Places -> Bytes]]
  BY <1>1 DEF Pds
<1>4. [s EXCEPT !.body = b] =
        [last_quot |-> s.last_quot, exact |-> s.exact, header |-> s.header, body |-> b]
  BY <1>3
<1>5. s.last_quot = p.last_quot /\ s.exact = p.exact /\ s.header = h
  BY <1>1
<1> QED BY <1>2, <1>4, <1>5, Zenon

(* What delete_core takes: the first 0 of the run, and the first match. *)
LEMMA CoreIs ==
  ASSUME NEW p, NEW E, NEW L, Holds(p, E, L), NEW x \in QR
  PROVE  /\ delete_core(x, p) = {} <=> Of(p, E, x) = {}
         /\ \A c \in delete_core(x, p) : \E i0 \in Of(p, E, x), i \in Run(E, Quot(x)) :
              c = [last_quot |-> p.last_quot, exact |-> p.exact,
                   header |-> DeleteZero(p.header, i + Quot(x)),
                   body |-> ShiftOut(p.body, i0, get_last_byte(p))]
<1> DEFINE q == Quot(x)
           found == {i \in RunBegin(p.header, q) - q .. RunEnd(p.header, q) - q - 1 :
                       p.body[i] = Rem(x)}
           taken == [last_quot |-> p.last_quot, exact |-> p.exact,
                     header |-> DeleteZero(p.header, Begin(E, q) + q),
                     body |-> ShiftOut(p.body, Min(Of(p, E, x)), get_last_byte(p))]
<1>1. /\ Ends(p.header, E) /\ p \in Pds /\ q \in QuotRange
  BY HoldsTypes, SlotIs DEF Holds
<1>2. /\ RunBegin(p.header, q) = Begin(E, q) + q /\ RunEnd(p.header, q) = E[q] + q
      /\ Begin(E, q) \in Nat /\ E[q] \in Nat /\ q \in Nat
  BY <1>1, HeaderReads, EndTypes
<1>3. found = Of(p, E, x)
  <2>1. RunBegin(p.header, q) - q = Begin(E, q) /\ RunEnd(p.header, q) - q - 1 = E[q] - 1
    BY <1>2
  <2> QED BY <2>1 DEF Of, Run
<1>4. \A i \in found : [p EXCEPT !.header = DeleteZero(@, RunBegin(p.header, q)),
                                !.body = ShiftOut(@, Min(found), get_last_byte(p))] = taken
  <2>1. \A h, b : [p EXCEPT !.header = h, !.body = b] =
                     [last_quot |-> p.last_quot, exact |-> p.exact, header |-> h, body |-> b]
    BY <1>1, Altered
  <2> HIDE DEF found
  <2>2. /\ DeleteZero(p.header, RunBegin(p.header, q)) = DeleteZero(p.header, Begin(E, q) + q)
        /\ ShiftOut(p.body, Min(found), get_last_byte(p)) =
             ShiftOut(p.body, Min(Of(p, E, x)), get_last_byte(p))
    BY <1>2, <1>3
  <2> QED BY <2>1, <2>2
<1>5. delete_core(x, p) = {taken : i \in Of(p, E, x)}
  <2>1. delete_core(x, p) =
          {[p EXCEPT !.header = DeleteZero(@, RunBegin(p.header, q)),
                     !.body = ShiftOut(@, Min(found), get_last_byte(p))] : i \in found}
    BY DEF delete_core
  <2> HIDE DEF found, taken
  <2> QED BY <1>3, <1>4, <2>1
<1>6. ASSUME Of(p, E, x) # {}
      PROVE  Min(Of(p, E, x)) \in Of(p, E, x) /\ Begin(E, q) \in Run(E, q)
  <2>1. \A i \in Of(p, E, x) : i \in Run(E, q) /\ i \in Nat /\ Begin(E, q) <= i /\ i < E[q]
    BY <1>1, RunPlaces DEF Of
  <2>2. PICK i0 \in Of(p, E, x) : \A i \in Of(p, E, x) : i0 <= i
    BY <1>6, <2>1, LeastNat
  <2>3. Of(p, E, x) \in SUBSET Int
    BY <2>1
  <2>4. Min(Of(p, E, x)) = i0
    BY <2>2, <2>3, MinIs
  <2>5. Begin(E, q) \in Run(E, q)
    BY <1>2, <2>1, <2>2 DEF Run
  <2> QED BY <2>2, <2>4, <2>5
<1> QED BY <1>5, <1>6

(* What a deletion leaves.  Of an overflowed dictionary the cached quotient *)
(* is as it was, and no element lies behind it.                            *)
Deleted(p, E, x, c) ==
  /\ \E F : \E M : /\ Holds(c, F, M) /\ Total(F) = Total(E) - 1
                  /\ (p.exact = 1 => M = c.last_quot)
                  /\ (p.exact = 0 => F[c.last_quot] = Total(F))
  /\ (p.exact = 0 => c.last_quot = p.last_quot)
  /\ c.exact = p.exact
  /\ Abs(c) = Abstract!delete_element(x, Abs(p))


LEMMA DeletedIf ==
  ASSUME NEW p, NEW E, NEW L, Holds(p, E, L), NEW x \in QR, NEW c, NEW F,
         \E M : Holds(c, F, M) /\ (p.exact = 1 => M = c.last_quot),
         Total(F) = Total(E) - 1, p.exact = 0 => F[c.last_quot] = Total(F),
         ItemsOf(c) = RemoveCopy(ItemsOf(p), x), c.exact = p.exact,
         c.last_quot =
           (IF p.exact = 1 /\ Quot(x) = p.last_quot
            THEN Abstract!compute_last_quot(RemoveCopy(ItemsOf(p), Biggest(Support(ItemsOf(p)))))
            ELSE p.last_quot)
  PROVE  Deleted(p, E, x, c)
<1>1. p.exact \in 0 .. 1
  BY HoldsTypes
<1>2. Abs(c) = Abstract!delete_element(x, Abs(p))
  <2>1. /\ Abs(p).items = ItemsOf(p) /\ Abs(p).last_quot = p.last_quot
        /\ Abs(p).overflowed <=> p.exact = 0
        /\ Abs(p).overflowed = (p.exact = 0)
    BY DEF Abs
  <2>2. Abs(c) = [items |-> ItemsOf(c), last_quot |-> c.last_quot, overflowed |-> p.exact = 0]
    BY DEF Abs
  <2>3. ItemsOf(c) = Abstract!RemoveCopy(Abs(p).items, x)
    BY <2>1, AbstractOperators
  <2>4. c.last_quot =
          (IF ~Abs(p).overflowed /\ Abstract!Quot(x) = Abs(p).last_quot
           THEN Abstract!compute_last_quot(Abstract!RemoveCopy(Abs(p).items,
                  Abstract!Biggest(Abstract!Support(Abs(p).items))))
           ELSE Abs(p).last_quot)
    BY <1>1, <2>1, AbstractOperators
  <2> QED BY <2>1, <2>2, <2>3, <2>4 DEF Abstract!delete_element
<1> QED BY <1>1, <1>2 DEF Deleted

(* Of a quotient below the last one, the cache stays right. *)
LEMMA CoreDeletes ==
  ASSUME NEW p, NEW E, Holds(p, E, p.last_quot), NEW x \in QR,
         Quot(x) < p.last_quot, NEW c \in delete_core(x, p)
  PROVE  Deleted(p, E, x, c)
<1> DEFINE q == Quot(x)
           L == p.last_quot
           F == Shrink(E, q)
<1>1. /\ Ends(p.header, E) /\ LastOf(E, L) /\ L \in QuotRange /\ L \in Nat
      /\ q \in QuotRange /\ q \in Nat
  BY HoldsTypes, SlotIs, Sizes DEF Holds
<1>2. PICK i0 \in Of(p, E, x), i \in Run(E, q) :
        c = [last_quot |-> L, exact |-> p.exact, header |-> DeleteZero(p.header, i + q),
             body |-> ShiftOut(p.body, i0, get_last_byte(p))]
  BY CoreIs
<1>3. /\ \E M : Holds(c, F, M)
      /\ Total(F) = Total(E) - 1 /\ ItemsOf(c) = RemoveCopy(ItemsOf(p), x)
      /\ c.last_quot = L /\ c.exact = p.exact
  BY <1>1, <1>2, TakenHolds
<1>4. LastOf(F, L)
  BY <1>1, LastAfterShrink
<1> HIDE DEF F
<1>5. Holds(c, F, L) /\ F[L] = Total(F)
  BY <1>3, <1>4 DEF Holds, LastOf
<1>6. ~(p.exact = 1 /\ q = L)
  BY <1>1
<1> QED BY <1>3, <1>5, <1>6, DeletedIf

(* Of the last quotient, while the cache is kept right: it is computed as  *)
(* if the last element went, and only the number in the run matters.       *)
LEMMA LastDeletes ==
  ASSUME NEW p, NEW E, Holds(p, E, p.last_quot), p.exact = 1, NEW x \in QR,
         Quot(x) = p.last_quot, NEW d \in delete_core(x, p),
         NEW c, c = [last_quot |-> compute_next_last_quot(p), exact |-> d.exact,
                     header |-> d.header, body |-> d.body]
  PROVE  Deleted(p, E, x, c)
<1> DEFINE q == Quot(x)
           L == p.last_quot
           F == Shrink(E, q)
<1>1. /\ Ends(p.header, E) /\ LastOf(E, L) /\ L \in QuotRange /\ L \in Nat
      /\ q \in QuotRange /\ q \in Nat
  BY HoldsTypes, SlotIs, Sizes DEF Holds
<1>2. PICK i0 \in Of(p, E, x), i \in Run(E, q) :
        d = [last_quot |-> L, exact |-> p.exact, header |-> DeleteZero(p.header, i + q),
             body |-> ShiftOut(p.body, i0, get_last_byte(p))]
  BY CoreIs
<1>3. Total(E) > 0
  <2>1. i \in Nat /\ i < Total(E)
    BY <1>1, <1>2, RunPlaces
  <2> QED BY <1>1, <2>1, LastTypes
<1>4. PICK K : LastOf(F, K)
  BY <1>1, <1>3, HeaderWithout, LastExists
<1>5. compute_next_last_quot(p) = K /\ K \in QuotRange
  BY <1>1, <1>3, <1>4, NextLastIs DEF LastOf
<1>6. c = [last_quot |-> K, exact |-> p.exact, header |-> DeleteZero(p.header, i + q),
           body |-> ShiftOut(p.body, i0, get_last_byte(p))]
  BY <1>2, <1>5
<1>7. /\ \E M : Holds(c, F, M)
      /\ Total(F) = Total(E) - 1 /\ ItemsOf(c) = RemoveCopy(ItemsOf(p), x)
      /\ c.last_quot = K /\ c.exact = p.exact
  BY <1>2, <1>5, <1>6, TakenHolds
<1> HIDE DEF F
<1>8. Holds(c, F, K)
  BY <1>4, <1>7 DEF Holds
<1>9. Abstract!compute_last_quot(RemoveCopy(ItemsOf(p), Biggest(Support(ItemsOf(p))))) = K
  BY <1>1, <1>3, <1>4, NextQuotIs DEF F
<1> QED BY <1>7, <1>8, <1>9, DeletedIf


(* Of the last quotient, once the dictionary overflowed. *)
(* No byte before the body is taken for a place of it. *)
LEMMA HeadMatchesBelow ==
  ASSUME NEW rem, NEW p
  PROVE  \A k \in HeadMatches(rem, p) : k \in Int /\ k < 0
<1>1. HeadBytes \in Int
  BY Sizes DEF HeadBytes
<1> QED BY <1>1 DEF HeadMatches

(***************************************************************************)
(* Where FastFind finds a place of the body, it is the last equal one, and *)
(* the bytes before the body made no difference.                           *)
(***************************************************************************)
LEMMA FastFindIs ==
  ASSUME NEW p, NEW x
  PROVE  FastFind(x, p) \cap Places =
           {i \in {i \in Places : p.body[i] = Rem(x)} :
              /\ \A k \in {k \in Places : p.body[k] = Rem(x)} : k <= i
              /\ Capacity - 1 - i < Lzcnt(Shl(Wide(p), DROPPED_BITS + Quots - Quot(x)))}
<1> DEFINE matches == {i \in Places : p.body[i] = Rem(x)}
           head == HeadMatches(Rem(x), p)
           run == Lzcnt(Shl(Wide(p), DROPPED_BITS + Quots - Quot(x)))
           near(i) == Capacity - 1 - i < run
<1>1. FastFind(x, p) = {i \in matches \cup head : (\A k \in matches \cup head : k <= i) /\ near(i)}
  BY DEF FastFind
<1>2. \A i \in Places : i \in Nat
  BY Sizes
<1>3. \A k \in head : k \in Int /\ k < 0
  BY HeadMatchesBelow
<1>4. \A k \in head : \A i \in Places : k <= i /\ k # i
  BY <1>2, <1>3
<1>5. matches \subseteq Places
  OBVIOUS
<1> HIDE DEF matches, head, near
<1>6. FastFind(x, p) \cap Places = {i \in matches : (\A k \in matches : k <= i) /\ near(i)}
  BY <1>1, <1>4, <1>5
<1> QED BY <1>6 DEF matches, near

LEMMA EqualDeletes ==
  ASSUME NEW p, NEW E, Holds(p, E, p.last_quot), p.exact = 0, Total(E) = Capacity,
         NEW x \in QR, Quot(x) = p.last_quot
  PROVE  /\ delete_equal_to_last(x, p) = {} <=> Of(p, E, x) = {}
         /\ \A c \in delete_equal_to_last(x, p) : Deleted(p, E, x, c)
<1> DEFINE L == p.last_quot
           F == Shrink(E, L)
           last == get_last_byte(p)
           matches == {i \in Places : p.body[i] = Rem(x)}
           run == Lzcnt(Shl(Wide(p), DROPPED_BITS + Quots - Quot(x)))
           greatest == {i \in matches : (\A k \in matches : k <= i) /\ Capacity - 1 - i < run}
           taken(i) == [last_quot |-> L, exact |-> p.exact,
                        header |-> DeleteZero(p.header, Capacity + Quot(x) - 1),
                        body |-> ShiftOut(p.body, i, last)]
           without == [last_quot |-> L, exact |-> p.exact,
                       header |-> DeleteZero(p.header, get_last_zero_index(p)), body |-> p.body]
<1>1. /\ Ends(p.header, E) /\ LastOf(E, L) /\ L \in QuotRange /\ L \in Nat /\ p \in Pds
      /\ p.body \in [Places -> Bytes] /\ Sorted(p, E) /\ Layout(p, E)
      /\ Quot(x) = L /\ Rem(x) \in Bytes /\ Rem(x) \in Int /\ x = <<L, Rem(x)>>
  <2>1. /\ Ends(p.header, E) /\ LastOf(E, L) /\ L \in QuotRange /\ L \in Nat /\ p \in Pds
        /\ p.body \in [Places -> Bytes] /\ Sorted(p, E) /\ Layout(p, E)
    BY HoldsTypes DEF Holds
  <2>2. Quot(x) = L /\ Rem(x) \in Bytes /\ Rem(x) \in Int /\ x = <<L, Rem(x)>>
    BY SlotIs DEF Bytes
  <2> QED BY <2>1, <2>2
<1>2. /\ Capacity \in Nat /\ Total(E) > 0 /\ Capacity - 1 \in Places
      /\ last = p.body[Capacity - 1] /\ last \in Bytes /\ last \in Int
  BY <1>1, Sizes DEF get_last_byte, Places, Bytes
<1>3. /\ Begin(E, L) \in Nat /\ E[L] = Capacity /\ Capacity - 1 \in Run(E, L)
      /\ Run(E, L) = Begin(E, L) .. Capacity - 1
  <2>1. Begin(E, L) \in Nat /\ E[L] = Capacity /\ Capacity - 1 \in Run(E, L)
    BY <1>1, <1>2, LastTypes
  <2> QED BY <2>1 DEF Run
<1>4. \A i \in Run(E, L) : i \in Places /\ i \in Nat /\ i <= Capacity - 1 /\ p.body[i] \in Int
                           /\ p.body[i] <= last
  <2> SUFFICES ASSUME NEW i \in Run(E, L)
               PROVE  i \in Places /\ i \in Nat /\ i <= Capacity - 1 /\ p.body[i] \in Int
                      /\ p.body[i] <= last
    OBVIOUS
  <2>1. i \in Places /\ i \in Nat /\ i <= Capacity - 1
    BY <1>1, <1>3, RunPlaces
  <2>2. p.body[i] \in Int
    BY <1>1, <2>1 DEF Bytes
  <2>3. i = Capacity - 1 \/ i < Capacity - 1
    BY <1>2, <2>1
  <2>4. i < Capacity - 1 => p.body[i] <= last
    <3> HIDE DEF L, last
    <3> QED BY <1>1, <1>2, <1>3 DEF Sorted
  <2> QED BY <1>2, <2>1, <2>2, <2>3, <2>4
<1>5. \A i \in Places : Capacity - 1 - i < run <=> i \in Run(E, L)
  <2>1. \A i \in Places : Capacity - 1 - i < run <=> i >= Begin(E, L)
    BY <1>1, LastRunIs
  <2>2. \A i \in Places : i >= Begin(E, L) <=> i \in Run(E, L)
    BY <1>2, <1>3 DEF Places
  <2> QED BY <2>1, <2>2
<1>6. \A h, b : [p EXCEPT !.header = h, !.body = b] =
                  [last_quot |-> L, exact |-> p.exact, header |-> h, body |-> b]
  BY <1>1, Altered
<1>7. CASE last < Rem(x)
  <2>1. Of(p, E, x) = {}
    BY <1>1, <1>2, <1>4, <1>7 DEF Of
  <2>2. delete_equal_to_last(x, p) = {}
    <3>1. ~(last = Rem(x)) /\ ~(last > Rem(x))
      BY <1>1, <1>2, <1>7
    <3> QED BY <1>7, <3>1 DEF delete_equal_to_last
  <2> QED BY <2>1, <2>2
<1>8. CASE last = Rem(x)
  <2>1. Capacity - 1 \in Of(p, E, x)
    BY <1>1, <1>2, <1>3, <1>8 DEF Of
  <2>2. delete_equal_to_last(x, p) = {remove_biggest_element(p)}
    <3>1. ~(last < Rem(x)) /\ ~(last > Rem(x))
      BY <1>1, <1>2, <1>8
    <3> QED BY <1>8, <3>1 DEF delete_equal_to_last
  <2>3. remove_biggest_element(p) = without
    BY <1>1 DEF remove_biggest_element, Pds
  <2>4. get_last_zero_index(p) = Total(E) - 1 + L
    BY <1>1, <1>2 DEF get_last_zero_index
  <2>5. without \in Pds /\ without.header = DeleteZero(p.header, Total(E) - 1 + L)
        /\ without.body = p.body /\ without.exact = p.exact /\ without.last_quot = L
    <3>1. DeleteZero(p.header, Total(E) - 1 + L) \in [0 .. HeaderSize - 1 -> 0 .. 1]
      BY <1>1, <1>2, HeaderWithout DEF Ends
    <3>2. p.exact \in 0 .. 1
      BY HoldsTypes
    <3> QED BY <1>1, <2>4, <3>1, <3>2 DEF Pds
  <2> HIDE DEF without
  <2>6. /\ \E M : Holds(without, F, M)
        /\ Total(E) = Total(F) + 1
        /\ ItemsOf(without) = RemoveCopy(ItemsOf(p), Biggest(Support(ItemsOf(p))))
    BY <1>2, <2>5, WithoutIs
  <2>7. Biggest(Support(ItemsOf(p))) = x
    <3>1. Biggest(Support(ItemsOf(p))) = <<p.last_quot, get_last_byte(p)>>
      BY LastItemIs
    <3> QED BY <1>1, <1>8, <3>1
  <2>8. Total(F) = Total(E) - 1 /\ F[L] = Total(F)
    BY <1>1, <1>2, <1>3, GrowIs
  <2> HIDE DEF F, L
  <2>9. Deleted(p, E, x, without)
    <3>1. /\ \E M : Holds(without, F, M) /\ (p.exact = 1 => M = without.last_quot)
          /\ F[without.last_quot] = Total(F)
      BY <2>5, <2>6, <2>8
    <3>2. ItemsOf(without) = RemoveCopy(ItemsOf(p), x) /\ without.last_quot = p.last_quot
      BY <2>5, <2>6, <2>7 DEF L
    <3> HIDE DEF matches, run, greatest, taken
    <3> QED BY <2>5, <2>8, <3>1, <3>2, DeletedIf
  <2> QED BY <2>1, <2>2, <2>3, <2>9
<1>9. CASE last > Rem(x)
  <2>1. delete_equal_to_last(x, p) =
          {[p EXCEPT !.header = DeleteZero(@, Capacity + Quot(x) - 1),
                     !.body = ShiftOut(@, i, last)] : i \in greatest}
    <3>1. ~(last < Rem(x)) /\ ~(last = Rem(x))
      BY <1>1, <1>2, <1>9
    <3>2. FastFind(x, p) \cap Places = greatest
      BY FastFindIs
    <3> HIDE DEF greatest
    <3> QED BY <1>9, <3>1, <3>2 DEF delete_equal_to_last
  <2> HIDE DEF greatest, last, L
  <2>2. delete_equal_to_last(x, p) = {taken(i) : i \in greatest}
    <3>1. \A i \in greatest :
            [p EXCEPT !.header = DeleteZero(@, Capacity + Quot(x) - 1),
                      !.body = ShiftOut(@, i, last)] = taken(i)
      BY <1>6
    <3> HIDE DEF taken
    <3> QED BY <2>1, <3>1, Zenon
  <2> HIDE DEF taken
  <2>3. greatest \in SUBSET Of(p, E, x)
    BY <1>1, <1>5 DEF Of, greatest
  <2>4. ASSUME Of(p, E, x) # {} PROVE greatest # {}
    <3>1. \A i \in Of(p, E, x) : i \in matches /\ i \in Run(E, L) /\ i \in Nat
      BY <1>1, <1>4 DEF Of
    <3>2. PICK j \in Of(p, E, x) : TRUE
      BY <2>4
    <3>3. matches \in SUBSET (0 .. Capacity - 1) /\ IsFiniteSet(matches) /\ matches # {}
      <4>1. IsFiniteSet(0 .. Capacity - 1)
        BY <1>2, FS_Interval
      <4>2. matches \in SUBSET (0 .. Capacity - 1)
        BY DEF Places
      <4> QED BY <3>1, <3>2, <4>1, <4>2, FS_Subset
    <3>4. PICK m \in matches : \A k \in matches : k <= m
      <4> DEFINE T == {Capacity - 1 - k : k \in matches}
      <4>1. T \in SUBSET Nat /\ T # {}
        BY <1>2, <3>3
      <4>2. PICK n \in T : \A r \in T : n <= r
        BY <4>1, LeastNat
      <4>3. PICK m \in matches : n = Capacity - 1 - m
        BY <4>2
      <4>4. \A k \in matches : Capacity - 1 - m <= Capacity - 1 - k
        BY <4>2, <4>3
      <4>5. \A k \in matches : k <= m
        <5> HIDE DEF matches
        <5> QED BY <1>2, <3>3, <4>3, <4>4
      <4> QED BY <4>3, <4>5
    <3>5. m \in Run(E, L)
      <4>1. j <= m /\ m \in 0 .. Capacity - 1 /\ j \in Run(E, L)
        BY <3>1, <3>2, <3>3, <3>4
      <4> QED BY <1>2, <1>3, <4>1
    <3>6. m \in greatest
      BY <1>5, <3>4, <3>5 DEF greatest
    <3> QED BY <3>6
  <2>5. ASSUME NEW i \in greatest PROVE Deleted(p, E, x, taken(i))
    <3>1. i \in Of(p, E, x) /\ Capacity - 1 \in Run(E, Quot(x)) /\ p.last_quot \in QuotRange
      BY <1>1, <1>3, <2>3 DEF L
    <3>2. taken(i) = [last_quot |-> p.last_quot, exact |-> p.exact,
                      header |-> DeleteZero(p.header, (Capacity - 1) + Quot(x)),
                      body |-> ShiftOut(p.body, i, get_last_byte(p))]
      <4>1. Capacity + Quot(x) - 1 = (Capacity - 1) + Quot(x)
        BY <1>1, <1>2
      <4> QED BY <4>1 DEF taken, L, last
    <3> DEFINE c == taken(i)
    <3> HIDE DEF c
    <3>3. /\ \E M : Holds(c, Shrink(E, Quot(x)), M)
          /\ Total(Shrink(E, Quot(x))) = Total(E) - 1
          /\ ItemsOf(c) = RemoveCopy(ItemsOf(p), x)
          /\ c.last_quot = p.last_quot /\ c.exact = p.exact
      BY <3>1, <3>2, TakenHolds DEF c
    <3>4. Shrink(E, Quot(x)) = F
      BY <1>1
    <3>5. F[L] = Total(F)
      BY <1>1, <1>2, <1>3, GrowIs
    <3> HIDE DEF F
    <3>6. Deleted(p, E, x, c)
      BY <3>3, <3>4, <3>5, DeletedIf DEF L
    <3> QED BY <3>6 DEF c
  <2> QED BY <2>2, <2>3, <2>4, <2>5
<1>10. last < Rem(x) \/ last = Rem(x) \/ last > Rem(x)
  BY <1>1, <1>2
<1> QED BY <1>7, <1>8, <1>9, <1>10

(* A deletion finds exactly what is there, and takes exactly that. *)
LEMMA DeletesIs ==
  ASSUME NEW p, NEW E, Holds(p, E, p.last_quot), p.exact = 0 => Total(E) = Capacity,
         NEW x \in QR
  PROVE  /\ delete_element_wrapper(x, p) # {} <=> Abstract!CanDelete(x, Abs(p))
         /\ Abstract!CanDelete(x, Abs(p)) =>
              Quot(x) <= p.last_quot /\ ItemsOf(p)[x] > 0 /\ Total(E) > 0
         /\ \A c \in delete_element_wrapper(x, p) : Deleted(p, E, x, c)
<1>1. /\ Quot(x) \in Nat /\ p.last_quot \in Nat /\ p.exact \in 0 .. 1 /\ Layout(p, E)
      /\ Sorted(p, E) /\ LastOf(E, p.last_quot)
  BY HoldsTypes, SlotIs, Sizes DEF Holds
<1>2. ItemsOf(p)[x] > 0 <=> Of(p, E, x) # {}
  BY <1>1, ItemsAre
<1>3. Abstract!CanDelete(x, Abs(p)) <=> Quot(x) <= p.last_quot /\ Of(p, E, x) # {}
  BY <1>2, AbstractOperators DEF Abstract!CanDelete, Abstract!pd_find_25, Abs
<1>4. Of(p, E, x) # {} => Total(E) > 0
  BY <1>1, <1>2, ElementsBelow
<1>5. CASE Quot(x) > p.last_quot
  <2>1. delete_element_wrapper(x, p) = {} /\ ~(Quot(x) <= p.last_quot)
    BY <1>1, <1>5 DEF delete_element_wrapper
  <2> QED BY <1>3, <2>1
<1>6. CASE Quot(x) <= p.last_quot /\ ~did_pd_overflowed(p)
  <2>1. /\ ~(Quot(x) > p.last_quot) /\ did_pd_overflowed(p) = (p.exact = 0) /\ p.exact = 1
    BY <1>1, <1>6 DEF did_pd_overflowed
  <2>2. delete_element_wrapper(x, p) = delete_from_non_overflowing_pd(x, p)
    BY <1>6, <2>1 DEF delete_element_wrapper
  <2>3. CASE Quot(x) = p.last_quot
    <3> DEFINE changed(d) == [last_quot |-> compute_next_last_quot(p), exact |-> d.exact,
                              header |-> d.header, body |-> d.body]
    <3>1. \A d \in delete_core(x, p) :
            [d EXCEPT !.last_quot = compute_next_last_quot(p)] = changed(d)
      <4> SUFFICES ASSUME NEW d \in delete_core(x, p)
                   PROVE  [d EXCEPT !.last_quot = compute_next_last_quot(p)] = changed(d)
        OBVIOUS
      <4>1. PICK i0 \in Of(p, E, x), i \in Run(E, Quot(x)) :
              d = [last_quot |-> p.last_quot, exact |-> p.exact,
                   header |-> DeleteZero(p.header, i + Quot(x)),
                   body |-> ShiftOut(p.body, i0, get_last_byte(p))]
        BY CoreIs
      <4> QED BY <4>1
    <3>2. delete_from_non_overflowing_pd(x, p) = {changed(d) : d \in delete_core(x, p)}
      <4>1. delete_from_non_overflowing_pd(x, p) =
              {[d EXCEPT !.last_quot = compute_next_last_quot(p)] : d \in delete_core(x, p)}
        BY <2>3 DEF delete_from_non_overflowing_pd
      <4> HIDE DEF changed
      <4> QED BY <3>1, <4>1, Zenon
    <3>3. \A d \in delete_core(x, p) : Deleted(p, E, x, changed(d))
      BY <2>1, <2>3, LastDeletes
    <3>4. delete_core(x, p) = {} <=> Of(p, E, x) = {}
      BY CoreIs
    <3> HIDE DEF changed
    <3> QED BY <1>2, <1>3, <1>4, <1>6, <2>2, <3>2, <3>3, <3>4
  <2>4. CASE Quot(x) # p.last_quot
    <3>1. Quot(x) < p.last_quot /\ delete_from_non_overflowing_pd(x, p) = delete_core(x, p)
      BY <1>1, <1>6, <2>4 DEF delete_from_non_overflowing_pd
    <3>2. delete_core(x, p) = {} <=> Of(p, E, x) = {}
      BY CoreIs
    <3>3. \A c \in delete_core(x, p) : Deleted(p, E, x, c)
      BY <3>1, CoreDeletes
    <3> QED BY <1>2, <1>3, <1>4, <1>6, <2>2, <3>1, <3>2, <3>3
  <2> QED BY <2>3, <2>4
<1>7. CASE Quot(x) < p.last_quot /\ did_pd_overflowed(p)
  <2>1. /\ ~(Quot(x) > p.last_quot) /\ Quot(x) # p.last_quot /\ Quot(x) <= p.last_quot
        /\ delete_element_wrapper(x, p) = delete_core(x, p)
    BY <1>1, <1>7 DEF delete_element_wrapper
  <2>2. delete_core(x, p) = {} <=> Of(p, E, x) = {}
    BY CoreIs
  <2>3. \A c \in delete_core(x, p) : Deleted(p, E, x, c)
    BY <1>7, CoreDeletes
  <2> QED BY <1>2, <1>3, <1>4, <2>1, <2>2, <2>3
<1>8. CASE Quot(x) = p.last_quot /\ did_pd_overflowed(p)
  <2>1. /\ ~(Quot(x) > p.last_quot) /\ ~(Quot(x) < p.last_quot) /\ Quot(x) <= p.last_quot
        /\ delete_element_wrapper(x, p) = delete_equal_to_last(x, p)
    BY <1>1, <1>8 DEF delete_element_wrapper
  <2>2. /\ delete_equal_to_last(x, p) = {} <=> Of(p, E, x) = {}
        /\ \A c \in delete_equal_to_last(x, p) : Deleted(p, E, x, c)
    BY <1>8, EqualDeletes DEF did_pd_overflowed
  <2> QED BY <1>2, <1>3, <1>4, <2>1, <2>2
<1> QED BY <1>1, <1>5, <1>6, <1>7, <1>8


-----------------------------------------------------------------------------
(***************************************************************************)
(* The pops that follow the deletion from an overflowed dictionary.  Until *)
(* then the cached quotient may be of no element, but none lies behind it. *)
(***************************************************************************)
LEMMA PopHolds ==
  ASSUME NEW p, NEW E, NEW K, Holds(p, E, K), Total(E) = Capacity - 1,
         E[p.last_quot] = Total(E), NEW y \in QR, p.last_quot <= Quot(y),
         NEW quot \in QuotRange, quot <= p.last_quot, NEW c, c = pd_pop_add(y, quot, p)
  PROVE  /\ Holds(c, Grow(E, Quot(y)), c.last_quot)
         /\ Total(Grow(E, Quot(y))) = Capacity
         /\ ItemsOf(c) = AddCopy(ItemsOf(p), y)
         /\ c.exact = p.exact
         /\ Abs(c) = Abstract!pd_pop_add(y, quot, Abs(p))
<1> DEFINE a == pd_add_25_core(y, p)
<1>1. /\ Ends(p.header, E) /\ LastOf(E, K) /\ K \in QuotRange /\ K \in Nat
      /\ p.last_quot \in QuotRange /\ p.last_quot \in Nat
      /\ Quot(y) \in QuotRange /\ Quot(y) \in Nat /\ quot \in Nat
  BY HoldsTypes, SlotIs, Sizes DEF Holds
<1>2. K <= p.last_quot
  <2>1. ~(p.last_quot < K)
    <3>1. \A q \in QuotRange : E[q] \in Int
      BY <1>1, EndTypes
    <3>2. p.last_quot < K => E[p.last_quot] < Total(E)
      BY <1>1 DEF LastOf
    <3> QED BY <1>1, <3>1, <3>2
  <2> QED BY <1>1, <2>1
<1>3. Total(E) < Capacity /\ Total(E) + 1 = Capacity
  BY Sizes
<1>4. /\ Holds(a, Grow(E, Quot(y)), IF Quot(y) <= K THEN K ELSE Quot(y))
      /\ Total(Grow(E, Quot(y))) = Total(E) + 1
      /\ ItemsOf(a) = AddCopy(ItemsOf(p), y)
      /\ a.last_quot = (IF Quot(y) <= p.last_quot THEN p.last_quot ELSE Quot(y))
      /\ a.exact = p.exact
  <2> HIDE DEF a
  <2> QED BY <1>3, InsertedHolds DEF a
<1>5. a.last_quot = Quot(y) /\ (IF Quot(y) <= K THEN K ELSE Quot(y)) = Quot(y)
  BY <1>1, <1>2, <1>4
<1>6. c = a
  <2>1. [a EXCEPT !.last_quot = a.last_quot] = a
    BY DEF pd_add_25_core
  <2> HIDE DEF a
  <2>2. [a EXCEPT !.last_quot = Quot(y)] = a
    BY <1>5, <2>1, Zenon
  <2> QED BY <2>2 DEF pd_pop_add, a
<1> HIDE DEF a
<1>7. Abs(c) = Abstract!pd_pop_add(y, quot, Abs(p))
  <2>1. Quot(y) = IF quot < Quot(y) THEN Quot(y) ELSE p.last_quot
    BY <1>1
  <2>2. Abs(c) = [items |-> AddCopy(ItemsOf(p), y), last_quot |-> Quot(y), overflowed |-> p.exact = 0]
    BY <1>4, <1>5, <1>6 DEF Abs
  <2>3. /\ Abs(p).items = ItemsOf(p) /\ Abs(p).last_quot = p.last_quot
        /\ Abs(p).overflowed = (p.exact = 0)
    BY DEF Abs
  <2>4. Abstract!pd_pop_add(y, quot, Abs(p)) =
          [items |-> AddCopy(ItemsOf(p), y),
           last_quot |-> IF quot < Quot(y) THEN Quot(y) ELSE p.last_quot,
           overflowed |-> p.exact = 0]
    BY <2>3, AbstractOperators DEF Abstract!pd_pop_add
  <2> QED BY <2>1, <2>2, <2>4
<1> QED BY <1>3, <1>4, <1>5, <1>6, <1>7

LEMMA ClearHolds ==
  ASSUME NEW p, NEW E, NEW K, Holds(p, E, K), Total(E) = Capacity - 1,
         NEW c, c = clear_overflow_bit(update_quot_after_pop(p))
  PROVE  /\ Holds(c, E, c.last_quot) /\ c.exact = 1 /\ ItemsOf(c) = ItemsOf(p)
         /\ Abs(c) = Abstract!pop_helper_no_element_to_pop(Abs(p))
<1> DEFINE d == [last_quot |-> K, exact |-> 1, header |-> p.header, body |-> p.body]
<1>1. /\ p \in Pds /\ Ends(p.header, E) /\ LastOf(E, K) /\ K \in QuotRange
      /\ Layout(p, E) /\ Sorted(p, E) /\ Size(ItemsOf(p)) = Total(E)
  BY HoldsTypes DEF Holds
<1>2. compute_curr_last_quot(p) = K
  <2>1. Total(E) > DROPPED_BITS
    BY Sizes
  <2> QED BY <1>1, <2>1, CurrLastIs
<1>3. c = d
  <2> DEFINE u == [last_quot |-> K, exact |-> p.exact, header |-> p.header, body |-> p.body]
  <2>1. [p EXCEPT !.last_quot = K] = u
    BY <1>1 DEF Pds
  <2>2. update_quot_after_pop(p) = u
    BY <1>2, <2>1 DEF update_quot_after_pop
  <2>3. [u EXCEPT !.exact = 1] = d
    OBVIOUS
  <2> HIDE DEF u, d
  <2> QED BY <2>2, <2>3 DEF clear_overflow_bit
<1>4. c.last_quot = K /\ c.exact = 1 /\ c.header = p.header /\ c.body = p.body
  BY <1>3
<1>5. c \in Pds
  <2>1. 1 \in 0 .. 1
    OBVIOUS
  <2> QED BY <1>1, <1>3, <2>1 DEF Pds
<1> HIDE DEF d
<1>6. ItemsOf(c) = ItemsOf(p) /\ Layout(c, E) /\ Sorted(c, E)
  BY <1>1, <1>4, SameItems
<1>7. Holds(c, E, c.last_quot)
  BY <1>1, <1>4, <1>5, <1>6 DEF Holds
<1>8. Abs(c) = Abstract!pop_helper_no_element_to_pop(Abs(p))
  <2>1. Abstract!compute_last_quot(ItemsOf(p)) = K
    BY <1>1, LastQuotIs
  <2>2. Abs(p).items = ItemsOf(p)
    BY DEF Abs
  <2>3. (1 = 0) = FALSE
    OBVIOUS
  <2>4. Abs(c) = [items |-> ItemsOf(p), last_quot |-> K, overflowed |-> FALSE]
    BY <1>4, <1>6, <2>3 DEF Abs
  <2> QED BY <2>1, <2>2, <2>4 DEF Abstract!pop_helper_no_element_to_pop
<1> QED BY <1>4, <1>6, <1>7, <1>8

-----------------------------------------------------------------------------
(***************************************************************************)
(* The inductive invariant.  The bits hold the elements of a layout E.  As *)
(* long as nothing waits for a pop, the cached quotient is the last one,   *)
(* and a dictionary that overflowed is full; while a deletion waits, one   *)
(* place is free and no element lies behind the cached quotient.  No       *)
(* element given away is smaller than one that stayed.                     *)
(***************************************************************************)
Covered ==
  \A y, z \in QR : given[y] > 0 /\ ItemsOf(pd)[z] > 0 => ~Less(y, z)

Settled(E, K) ==
  /\ removed = {} => K = pd.last_quot /\ (pd.exact = 0 => Total(E) = Capacity)
  /\ removed # {} => Total(E) = Capacity - 1 /\ E[pd.last_quot] = Total(E)

IInv ==
  /\ given \in [QR -> Nat] /\ overrun \in BOOLEAN
  /\ \E E : \E K : Holds(pd, E, K) /\ Settled(E, K)
  /\ pd.exact = 1 => removed = {} /\ \A y \in QR : given[y] = 0
  /\ \A quot \in removed : quot \in QuotRange /\ quot <= pd.last_quot
  /\ removed # {} => \A y \in QR : given[y] > 0 => pd.last_quot <= Quot(y)
  /\ Covered

LEMMA InitHolds ==
  ASSUME Init
  PROVE  IInv /\ Abs(pd) = Abstract!EmptyPD
<1> DEFINE E == [q \in QuotRange |-> 0]
<1>1. /\ pd.last_quot = 0 /\ pd.exact = 1
      /\ pd.header = [i \in 0 .. HeaderSize - 1 |-> IF i < Quots THEN 1 ELSE 0]
      /\ pd.body = [i \in Places |-> 0]
      /\ given = NoCopies(QR) /\ removed = {} /\ overrun = FALSE
  BY DEF Init
<1>2. /\ \A q \in QuotRange : E[q] = 0 /\ q \in Nat /\ q < Quots /\ (q # 0 => q - 1 \in QuotRange)
      /\ Total(E) = 0
  BY Sizes DEF QuotRange, Total
<1>3. \A q \in QuotRange : Run(E, q) = {}
  <2>1. \A q \in QuotRange : Begin(E, q) = 0
    <3> HIDE DEF E
    <3> QED BY <1>2 DEF Begin
  <2>2. 0 .. 0 - 1 = {}
    OBVIOUS
  <2> HIDE DEF E
  <2> QED BY <1>2, <2>1, <2>2 DEF Run
<1>4. Ends(pd.header, E)
  <2>1. E \in [QuotRange -> 0 .. Capacity] /\ \A q, r \in QuotRange : q < r => E[q] <= E[r]
    BY Sizes
  <2>2. pd.header \in [0 .. HeaderSize - 1 -> 0 .. 1]
    BY <1>1
  <2>3. ASSUME NEW i \in 0 .. HeaderSize - 1
        PROVE  pd.header[i] = 1 <=> \E q \in QuotRange : i = E[q] + q
    <3> HIDE DEF E
    <3>1. \A q \in QuotRange : E[q] + q = q
      BY <1>2
    <3>2. i < Quots <=> i \in QuotRange
      BY Sizes DEF QuotRange
    <3>3. pd.header[i] = 1 <=> i < Quots
      BY <1>1
    <3> QED BY <3>1, <3>2, <3>3
  <2> HIDE DEF E
  <2> QED BY <2>1, <2>2, <2>3 DEF Ends
<1>5. LastOf(E, 0)
  BY <1>2, Sizes DEF LastOf, QuotRange
<1> HIDE DEF E
<1>6. Layout(pd, E) /\ Sorted(pd, E)
  <2>1. 0 \in Bytes
    BY Sizes DEF Bytes
  <2>2. pd.body \in [Places -> Bytes]
    BY <1>1, <2>1
  <2> QED BY <1>3, <1>4, <2>2 DEF Layout, Sorted
<1>7. ItemsOf(pd) = NoCopies(QR)
  <2>1. \A x \in QR : ItemsOf(pd)[x] \in Nat /\ ~(ItemsOf(pd)[x] > 0)
    <3>1. \A x \in QR : Of(pd, E, x) = {}
      BY <1>3, SlotIs DEF Of
    <3> QED BY <1>6, <3>1, ItemsAre
  <2>2. ItemsOf(pd) \in [QR -> Nat] /\ \A x \in QR : ItemsOf(pd)[x] = 0
    BY <1>6, <2>1, ItemsAre
  <2> QED BY <2>2 DEF NoCopies
<1>8. Size(ItemsOf(pd)) = 0
  <2>1. Copies(NoCopies(QR)) = {}
    BY DEF Copies, NoCopies
  <2> QED BY <1>7, <2>1, FS_EmptySet DEF Size
<1>9. pd \in Pds
  <2>1. pd.header \in [0 .. HeaderSize - 1 -> 0 .. 1] /\ pd.body \in [Places -> Bytes]
    BY <1>4, <1>6 DEF Ends, Layout
  <2>2. pd = [last_quot |-> 0, exact |-> 1, header |-> pd.header, body |-> pd.body]
    BY DEF Init
  <2>3. 0 \in QuotRange /\ 1 \in 0 .. 1
    BY Sizes DEF QuotRange
  <2> QED BY <2>1, <2>2, <2>3 DEF Pds
<1>10. Holds(pd, E, 0)
  BY <1>2, <1>5, <1>6, <1>8, <1>9 DEF Holds
<1>11. Settled(E, 0)
  BY <1>1 DEF Settled
<1>12. given \in [QR -> Nat] /\ \A y \in QR : given[y] = 0
  BY <1>1 DEF NoCopies
<1>13. IInv
  <2>1. Covered
    BY <1>12 DEF Covered
  <2> QED BY <1>1, <1>10, <1>11, <1>12, <2>1 DEF IInv
<1>14. Abs(pd) = Abstract!EmptyPD
  <2>1. (1 = 0) = FALSE
    OBVIOUS
  <2> QED BY <1>1, <1>7, <2>1, AbstractOperators DEF Abs, Abstract!EmptyPD
<1> QED BY <1>13, <1>14

(* What holds whenever a call may come. *)
LEMMA ReadyHolds ==
  ASSUME IInv, Ready
  PROVE  /\ \E E : Holds(pd, E, pd.last_quot) /\ (pd.exact = 0 => Total(E) = Capacity)
         /\ given \in [QR -> Nat] /\ removed = {} /\ pd.exact \in 0 .. 1
         /\ ItemsOf(pd) \in [QR -> Nat]
         /\ pd.exact = 1 => \A y \in QR : given[y] = 0
<1>1. PICK E, K : Holds(pd, E, K) /\ Settled(E, K)
  BY DEF IInv
<1>2. removed = {}
  BY DEF Ready
<1>3. pd.exact \in 0 .. 1 /\ ItemsOf(pd) \in [QR -> Nat]
  BY <1>1, HoldsTypes
<1> QED BY <1>1, <1>2, <1>3 DEF IInv, Settled


LEMMA AddedGives ==
  ASSUME NEW b \in [QR -> Nat], NEW x \in QR
  PROVE  /\ AddCopy(b, x) \in [QR -> Nat]
         /\ \A y \in QR : AddCopy(b, x)[y] > 0 <=> y = x \/ b[y] > 0
         /\ b[x] > 0 => RemoveCopy(b, x) \in [QR -> Nat]
         /\ \A y \in QR : RemoveCopy(b, x)[y] > 0 => b[y] > 0
<1>1. \A y \in QR : b[y] \in Nat
  OBVIOUS
<1>2. \A y \in QR : AddCopy(b, x)[y] = IF y = x THEN b[y] + 1 ELSE b[y]
  BY DEF AddCopy
<1>3. \A y \in QR : RemoveCopy(b, x)[y] = IF y = x THEN b[y] - 1 ELSE b[y]
  BY DEF RemoveCopy
<1>4. AddCopy(b, x) \in [QR -> Nat]
  BY DEF AddCopy
<1>5. b[x] > 0 => RemoveCopy(b, x) \in [QR -> Nat]
  BY DEF RemoveCopy
<1> QED BY <1>1, <1>2, <1>3, <1>4, <1>5

(* A dictionary that is not full is exact, so nothing was given away. *)
LEMMA NotFullStep ==
  ASSUME IInv, NEW x \in QR, insert_into_not_full_pd(x)
  PROVE  IInv' /\ Abstract!InsertNotFull(x)
<1>1. /\ Ready /\ ~pd_full(pd) /\ pd' = pd_add_25_core(x, pd)
      /\ given' = given /\ removed' = removed /\ overrun' = overrun
  BY DEF insert_into_not_full_pd
<1>2. PICK E : Holds(pd, E, pd.last_quot) /\ (pd.exact = 0 => Total(E) = Capacity)
  BY <1>1, ReadyHolds
<1>3. /\ removed = {} /\ pd.exact \in 0 .. 1 /\ given \in [QR -> Nat]
      /\ Layout(pd, E) /\ Size(ItemsOf(pd)) = Total(E) /\ Total(E) \in Nat /\ Total(E) <= Capacity
      /\ ItemsOf(pd) \in [QR -> Nat]
  BY <1>1, <1>2, ReadyHolds, HoldsTypes DEF Holds
<1>4. Total(E) # Capacity /\ Total(E) < Capacity
  BY <1>1, <1>3, FullIs, Sizes
<1>5. pd.exact = 1 /\ \A y \in QR : given[y] = 0
  BY <1>1, <1>2, <1>3, <1>4, ReadyHolds
<1> DEFINE F == Grow(E, Quot(x))
<1>6. /\ Holds(pd', F, IF Quot(x) <= pd.last_quot THEN pd.last_quot ELSE Quot(x))
      /\ ItemsOf(pd') = AddCopy(ItemsOf(pd), x)
      /\ pd'.last_quot = (IF Quot(x) <= pd.last_quot THEN pd.last_quot ELSE Quot(x))
      /\ pd'.exact = pd.exact
  BY <1>1, <1>2, <1>4, InsertedHolds
<1> HIDE DEF F
<1>7. IInv'
  <2>1. Holds(pd', F, pd'.last_quot) /\ pd'.exact = 1
    BY <1>5, <1>6
  <2>2. (\E D : \E K : Holds(pd, D, K) /\ Settled(D, K))'
    <3>1. Settled(F, pd.last_quot)'
      BY <1>1, <1>3, <2>1 DEF Settled
    <3> QED BY <2>1, <3>1
  <2>3. Covered'
    BY <1>1, <1>5 DEF Covered
  <2>4. (overrun \in BOOLEAN)'
    BY <1>1 DEF IInv
  <2> QED BY <1>1, <1>3, <1>5, <2>1, <2>2, <2>3, <2>4 DEF IInv
<1>8. Abstract!InsertNotFull(x)
  <2>1. ~Abstract!pd_full(Abs(pd))
    <3>1. Abs(pd).items = ItemsOf(pd)
      BY DEF Abs
    <3> QED BY <1>3, <1>4, <3>1, AbstractOperators DEF Abstract!pd_full
  <2>2. Abs(pd') = Abstract!pd_add_50_not_full(x, Abs(pd))
    <3>1. /\ Abs(pd).items = ItemsOf(pd) /\ Abs(pd).last_quot = pd.last_quot
          /\ Abs(pd).overflowed = (pd.exact = 0)
      BY DEF Abs
    <3>2. Abs(pd') = [items |-> AddCopy(ItemsOf(pd), x),
                      last_quot |-> IF Quot(x) <= pd.last_quot THEN pd.last_quot ELSE Quot(x),
                      overflowed |-> pd.exact = 0]
      BY <1>6 DEF Abs
    <3>3. Abstract!pd_add_50_not_full(x, Abs(pd)) =
            [items |-> AddCopy(ItemsOf(pd), x),
             last_quot |-> IF Quot(x) <= pd.last_quot THEN pd.last_quot ELSE Quot(x),
             overflowed |-> pd.exact = 0]
      BY <3>1, AbstractOperators DEF Abstract!pd_add_50_not_full
    <3> QED BY <3>2, <3>3
  <2> QED BY <1>1, <1>3, <2>1, <2>2 DEF Abstract!InsertNotFull, Abs
<1> QED BY <1>7, <1>8

(* Of a full dictionary the biggest element covers all that was given. *)
LEMMA FullStep ==
  ASSUME IInv, NEW x \in QR, insert_into_full_pd(x)
  PROVE  IInv' /\ Abstract!InsertFull(x)
<1> DEFINE c == pd_swap_short(x, pd).pd
           qr == pd_swap_short(x, pd).qr
           m == <<pd.last_quot, get_last_byte(pd)>>
<1>1. /\ Ready /\ pd_full(pd) /\ ~Overruns(x, pd) /\ Size(given) < MaxGiven
      /\ pd' = c /\ given' = AddCopy(given, qr)
      /\ removed' = removed /\ overrun' = overrun
  BY DEF insert_into_full_pd
<1> HIDE DEF c, qr
<1>2. PICK E : Holds(pd, E, pd.last_quot) /\ (pd.exact = 0 => Total(E) = Capacity)
  BY <1>1, ReadyHolds
<1>3. /\ removed = {} /\ given \in [QR -> Nat] /\ Layout(pd, E)
      /\ Size(ItemsOf(pd)) = Total(E) /\ ItemsOf(pd) \in [QR -> Nat]
  BY <1>1, <1>2, ReadyHolds DEF Holds
<1>4. Total(E) = Capacity
  BY <1>1, <1>3, FullIs
<1>5. Swapped(pd, x, c, qr)
  BY <1>1, <1>2, <1>4, SwapIs DEF c, qr
<1>6. PICK F : Holds(c, F, c.last_quot) /\ Total(F) = Capacity
  BY <1>5 DEF Swapped
<1>7. m \in QR /\ ItemsOf(pd)[m] > 0
  BY <1>2, <1>4, LastItemIs
<1>8. /\ c.exact = 0 /\ qr \in QR /\ ~Less(qr, m)
      /\ \A y \in QR : ItemsOf(c)[y] > 0 => ~Less(m, y)
      /\ Abstract!pd_swap_short(x, Abs(pd)) = [pd |-> Abs(c), qr |-> qr]
  BY <1>5 DEF Swapped
<1> HIDE DEF m
<1>9. IInv'
  <2>1. given' \in [QR -> Nat] /\ \A y \in QR : given'[y] > 0 <=> y = qr \/ given[y] > 0
    BY <1>1, <1>3, <1>8, AddedGives
  <2>2. ASSUME NEW y \in QR, NEW z \in QR, given'[y] > 0, ItemsOf(c)[z] > 0 PROVE ~Less(y, z)
    <3>1. ~Less(y, m)
      BY <1>7, <1>8, <2>1, <2>2 DEF IInv, Covered
    <3> QED BY <1>7, <1>8, <2>2, <3>1, LessIsTotalOrder
  <2>3. Covered'
    BY <1>1, <2>2 DEF Covered
  <2>4. (\E D : \E K : Holds(pd, D, K) /\ Settled(D, K))'
    <3>1. Holds(pd', F, pd'.last_quot) /\ pd'.last_quot = c.last_quot
      BY <1>1, <1>6
    <3>2. Settled(F, pd.last_quot)'
      BY <1>1, <1>3, <1>6 DEF Settled
    <3> QED BY <3>1, <3>2
  <2>5. (overrun \in BOOLEAN)'
    BY <1>1 DEF IInv
  <2> QED BY <1>1, <1>3, <1>8, <2>1, <2>3, <2>4, <2>5 DEF IInv
<1>10. Abstract!InsertFull(x)
  <2>1. Abstract!pd_full(Abs(pd))
    <3>1. Abs(pd).items = ItemsOf(pd)
      BY DEF Abs
    <3> QED BY <1>3, <1>4, <3>1, AbstractOperators DEF Abstract!pd_full
  <2>2. /\ Abs(pd') = Abstract!pd_swap_short(x, Abs(pd)).pd
        /\ given' = Abstract!AddCopy(given, Abstract!pd_swap_short(x, Abs(pd)).qr)
    BY <1>1, <1>8, AbstractOperators
  <2>3. Abstract!Size(given) < MaxGiven
    BY <1>1, AbstractOperators
  <2> QED BY <1>1, <1>3, <2>1, <2>2, <2>3 DEF Abstract!InsertFull, Abs
<1> QED BY <1>9, <1>10


LEMMA DeleteStep ==
  ASSUME IInv, NEW x \in QR, remove_from_l1(x)
  PROVE  IInv' /\ Abstract!Delete(x)
<1>1. /\ Ready /\ pd' \in delete_element_wrapper(x, pd)
      /\ removed' = (IF did_pd_overflowed(pd) THEN {Quot(x)} ELSE {})
      /\ given' = given /\ overrun' = overrun
  BY DEF remove_from_l1
<1>2. PICK E : Holds(pd, E, pd.last_quot) /\ (pd.exact = 0 => Total(E) = Capacity)
  BY <1>1, ReadyHolds
<1>3. /\ removed = {} /\ given \in [QR -> Nat] /\ pd.exact \in 0 .. 1
      /\ ItemsOf(pd) \in [QR -> Nat] /\ Quot(x) \in QuotRange
      /\ (pd.exact = 1 => \A y \in QR : given[y] = 0)
  BY <1>1, ReadyHolds, SlotIs
<1>4. Abstract!CanDelete(x, Abs(pd)) /\ Deleted(pd, E, x, pd')
  BY <1>1, <1>2, DeletesIs
<1>5. Quot(x) <= pd.last_quot /\ ItemsOf(pd)[x] > 0
  BY <1>2, <1>4, DeletesIs
<1>6. PICK F, M : /\ Holds(pd', F, M) /\ Total(F) = Total(E) - 1
                  /\ (pd.exact = 1 => M = pd'.last_quot)
                  /\ (pd.exact = 0 => F[pd'.last_quot] = Total(F))
  BY <1>4 DEF Deleted
<1>7. /\ (pd.exact = 0 => pd'.last_quot = pd.last_quot) /\ pd'.exact = pd.exact
      /\ Abs(pd') = Abstract!delete_element(x, Abs(pd))
  BY <1>4 DEF Deleted
<1>8. ItemsOf(pd') = RemoveCopy(ItemsOf(pd), x)
  <2>1. Abs(pd').items = ItemsOf(pd') /\ Abs(pd).items = ItemsOf(pd)
    BY DEF Abs
  <2> QED BY <1>7, <2>1, AbstractOperators DEF Abstract!delete_element
<1>9. did_pd_overflowed(pd) <=> pd.exact = 0
  BY DEF did_pd_overflowed
<1>10. IInv'
  <2>1. Covered'
    <3>1. \A z \in QR : ItemsOf(pd')[z] > 0 => ItemsOf(pd)[z] > 0
      BY <1>3, <1>8, AddedGives
    <3> QED BY <1>1, <3>1 DEF IInv, Covered
  <2>2. (\E D : \E K : Holds(pd, D, K) /\ Settled(D, K))'
    <3>1. Settled(F, M)'
      BY <1>1, <1>2, <1>3, <1>6, <1>7, <1>9 DEF Settled
    <3> QED BY <1>6, <3>1
  <2>3. ASSUME pd.exact = 0, NEW y \in QR, given[y] > 0 PROVE pd.last_quot <= Quot(y)
    <3> DEFINE m == <<pd.last_quot, get_last_byte(pd)>>
    <3>1. m \in QR /\ ItemsOf(pd)[m] > 0 /\ Quot(m) = pd.last_quot
      BY <1>2, <2>3, LastItemIs
    <3> HIDE DEF m
    <3>2. ~Less(y, m)
      BY <2>3, <3>1 DEF IInv, Covered
    <3> QED BY <3>1, <3>2, LessIsTotalOrder
  <2>4. (overrun \in BOOLEAN)'
    BY <1>1 DEF IInv
  <2>5. CASE pd.exact = 0
    <3>1. removed' = {Quot(x)} /\ ~(pd'.exact = 1) /\ pd'.last_quot = pd.last_quot
      BY <1>1, <1>7, <1>9, <2>5
    <3> QED BY <1>1, <1>3, <1>5, <2>1, <2>2, <2>3, <2>4, <2>5, <3>1 DEF IInv
  <2>6. CASE pd.exact = 1
    <3>1. removed' = {}
      BY <1>1, <1>9, <2>6
    <3> QED BY <1>1, <1>3, <2>1, <2>2, <2>4, <2>6, <3>1 DEF IInv
  <2> QED BY <1>3, <2>5, <2>6
<1>11. Abstract!Delete(x)
  <2>1. removed' = IF pd.exact = 0 THEN {Abstract!Quot(x)} ELSE {}
    BY <1>1, <1>9, AbstractOperators
  <2> QED BY <1>1, <1>3, <1>4, <1>7, <2>1 DEF Abstract!Delete, Abs
<1> QED BY <1>10, <1>11

LEMMA DeleteGivenStep ==
  ASSUME IInv, NEW x \in QR, remove_from_spare(x)
  PROVE  IInv' /\ Abstract!DeleteGiven(x)
<1>1. /\ Ready /\ did_pd_overflowed(pd) /\ given[x] > 0 /\ delete_element_wrapper(x, pd) = {}
      /\ given' = RemoveCopy(given, x)
      /\ pd' = pd /\ removed' = removed /\ overrun' = overrun
  BY DEF remove_from_spare
<1>2. PICK E : Holds(pd, E, pd.last_quot) /\ (pd.exact = 0 => Total(E) = Capacity)
  BY <1>1, ReadyHolds
<1>3. removed = {} /\ given \in [QR -> Nat] /\ pd.exact = 0
  BY <1>1, ReadyHolds DEF did_pd_overflowed
<1>4. ~Abstract!CanDelete(x, Abs(pd))
  BY <1>1, <1>2, DeletesIs
<1>5. given' \in [QR -> Nat] /\ \A y \in QR : given'[y] > 0 => given[y] > 0
  BY <1>1, <1>3, AddedGives
<1>6. IInv'
  <2>1. Covered'
    BY <1>1, <1>5 DEF IInv, Covered
  <2>2. (\E D : \E K : Holds(pd, D, K) /\ Settled(D, K))'
    <3>1. Settled(E, pd.last_quot)'
      BY <1>1, <1>2, <1>3 DEF Settled
    <3> QED BY <1>1, <1>2, <3>1
  <2>3. (overrun \in BOOLEAN)'
    BY <1>1 DEF IInv
  <2> QED BY <1>1, <1>3, <1>5, <2>1, <2>2, <2>3 DEF IInv
<1>7. Abstract!DeleteGiven(x)
  <2>1. given' = Abstract!RemoveCopy(given, x)
    BY <1>1, AbstractOperators
  <2> QED BY <1>1, <1>3, <1>4, <2>1 DEF Abstract!DeleteGiven, Abs
<1> QED BY <1>6, <1>7

LEMMA RefillStep ==
  ASSUME IInv, pop_and_add_to_l1
  PROVE  IInv' /\ Abstract!Refill
<1>1. PICK quot \in removed, y \in Support(given) :
        /\ \A z \in Support(given) : ~Less(z, y)
        /\ pd' = pd_pop_add(y, quot, pd) /\ given' = RemoveCopy(given, y)
        /\ removed' = {} /\ overrun' = overrun
  BY DEF pop_and_add_to_l1
<1>2. PICK E, K : Holds(pd, E, K) /\ Settled(E, K)
  BY DEF IInv
<1>3. /\ given \in [QR -> Nat] /\ Total(E) = Capacity - 1 /\ E[pd.last_quot] = Total(E)
      /\ quot \in QuotRange /\ quot <= pd.last_quot /\ pd.exact # 1
      /\ ItemsOf(pd) \in [QR -> Nat]
  <2>1. removed # {}
    BY <1>1
  <2> QED BY <1>1, <1>2, <2>1, HoldsTypes DEF IInv, Settled
<1>4. \A z : z \in Support(given) <=> z \in QR /\ given[z] > 0
  BY <1>3 DEF Support
<1>5. y \in QR /\ given[y] > 0 /\ pd.last_quot <= Quot(y)
  <2>1. removed # {}
    BY <1>1
  <2> QED BY <1>1, <1>4, <2>1 DEF IInv
<1> DEFINE F == Grow(E, Quot(y))
<1>6. /\ Holds(pd', F, pd'.last_quot) /\ Total(F) = Capacity
      /\ ItemsOf(pd') = AddCopy(ItemsOf(pd), y) /\ pd'.exact = pd.exact
      /\ Abs(pd') = Abstract!pd_pop_add(y, quot, Abs(pd))
  BY <1>1, <1>2, <1>3, <1>5, PopHolds
<1> HIDE DEF F
<1>7. given' \in [QR -> Nat] /\ \A z \in QR : given'[z] > 0 => given[z] > 0
  BY <1>1, <1>3, <1>5, AddedGives
<1>8. IInv'
  <2>1. Covered'
    <3>1. \A z \in QR : ItemsOf(pd')[z] > 0 <=> z = y \/ ItemsOf(pd)[z] > 0
      BY <1>3, <1>5, <1>6, AddedGives
    <3>2. ASSUME NEW g \in QR, NEW z \in QR, given'[g] > 0, ItemsOf(pd')[z] > 0
          PROVE  ~Less(g, z)
      <4>1. given[g] > 0
        BY <1>7, <3>2
      <4>2. z = y => ~Less(g, z)
        BY <1>1, <1>4, <4>1
      <4> QED BY <3>1, <3>2, <4>1, <4>2 DEF IInv, Covered
    <3> QED BY <3>2 DEF Covered
  <2>2. (\E D : \E C : Holds(pd, D, C) /\ Settled(D, C))'
    <3>1. Settled(F, pd.last_quot)'
      BY <1>1, <1>6 DEF Settled
    <3> QED BY <1>6, <3>1
  <2>3. (overrun \in BOOLEAN)'
    BY <1>1 DEF IInv
  <2> QED BY <1>1, <1>3, <1>6, <1>7, <2>1, <2>2, <2>3 DEF IInv
<1>9. Abstract!Smallest(Abstract!Support(given)) = y
  <2>1. ASSUME NEW z \in Support(given), \A u \in Support(given) : ~Less(u, z) PROVE z = y
    BY <1>1, <1>4, <2>1, LessIsTotalOrder
  <2>2. Abstract!Smallest(Support(given)) =
          CHOOSE z \in Support(given) : \A u \in Support(given) : ~Less(u, z)
    BY AbstractOperators DEF Abstract!Smallest
  <2> QED BY <1>1, <2>1, <2>2, AbstractOperators
<1>10. Abstract!Refill
  <2>1. Abstract!Support(given) # {}
    BY <1>1, AbstractOperators
  <2>2. given' = Abstract!RemoveCopy(given, y)
    BY <1>1, AbstractOperators
  <2> QED BY <1>1, <1>6, <1>9, <2>1, <2>2 DEF Abstract!Refill, Abs
<1> QED BY <1>8, <1>10

LEMMA NothingGivenStep ==
  ASSUME IInv, pop_helper_no_element_to_pop
  PROVE  IInv' /\ Abstract!NothingGiven
<1>1. /\ removed # {} /\ Support(given) = {}
      /\ pd' = clear_overflow_bit(update_quot_after_pop(pd))
      /\ removed' = {} /\ given' = given /\ overrun' = overrun
  BY DEF pop_helper_no_element_to_pop
<1>2. PICK E, K : Holds(pd, E, K) /\ Settled(E, K)
  BY DEF IInv
<1>3. given \in [QR -> Nat] /\ Total(E) = Capacity - 1
  BY <1>1, <1>2 DEF IInv, Settled
<1>4. \A y \in QR : given[y] = 0
  <2>1. \A y \in QR : given[y] \in Nat /\ ~(given[y] > 0)
    BY <1>1, <1>3 DEF Support
  <2> QED BY <2>1
<1>5. /\ Holds(pd', E, pd'.last_quot) /\ pd'.exact = 1
      /\ Abs(pd') = Abstract!pop_helper_no_element_to_pop(Abs(pd))
  BY <1>1, <1>2, <1>3, ClearHolds
<1>6. IInv'
  <2>1. Covered'
    BY <1>1, <1>4 DEF Covered
  <2>2. (\E D : \E C : Holds(pd, D, C) /\ Settled(D, C))'
    <3>1. Settled(E, pd.last_quot)'
      BY <1>1, <1>5 DEF Settled
    <3> QED BY <1>5, <3>1
  <2>3. (overrun \in BOOLEAN)'
    BY <1>1 DEF IInv
  <2> QED BY <1>1, <1>3, <1>4, <1>5, <2>1, <2>2, <2>3 DEF IInv
<1>7. Abstract!NothingGiven
  BY <1>1, <1>5, AbstractOperators DEF Abstract!NothingGiven, Abs
<1> QED BY <1>6, <1>7

(* An overrun is recorded and leaves the dictionary as it was. *)
LEMMA OtherSteps ==
  ASSUME IInv, UNCHANGED <<pd, given, removed>>, overrun' \in BOOLEAN
  PROVE  IInv' /\ UNCHANGED <<Abs(pd), given, removed>>
<1>1. /\ pd' = pd /\ given' = given /\ removed' = removed
  OBVIOUS
<1>2. Covered'
  BY <1>1 DEF IInv, Covered
<1>3. (\E D : \E C : Holds(pd, D, C) /\ Settled(D, C))'
  BY <1>1 DEF IInv, Settled
<1> QED BY <1>1, <1>2, <1>3 DEF IInv


LEMMA StepHolds ==
  ASSUME IInv, [Next]_vars
  PROVE  IInv' /\ (Abstract!Next \/ UNCHANGED <<Abs(pd), given, removed>>)
<1>1. CASE UNCHANGED vars
  <2>1. UNCHANGED <<pd, given, removed>> /\ overrun' \in BOOLEAN
    BY <1>1 DEF vars, IInv
  <2> QED BY <2>1, OtherSteps
<1>2. ASSUME NEW x \in QR, insert_into_not_full_pd(x) PROVE IInv' /\ Abstract!Next
  <2>1. IInv' /\ Abstract!InsertNotFull(x)
    BY <1>2, NotFullStep
  <2> QED BY <2>1, AbstractOperators DEF Abstract!Next
<1>3. ASSUME NEW x \in QR, insert_into_full_pd(x) PROVE IInv' /\ Abstract!Next
  <2>1. IInv' /\ Abstract!InsertFull(x)
    BY <1>3, FullStep
  <2> QED BY <2>1, AbstractOperators DEF Abstract!Next
<1>4. ASSUME NEW x \in QR, insert_overruns(x)
      PROVE  IInv' /\ UNCHANGED <<Abs(pd), given, removed>>
  <2>1. UNCHANGED <<pd, given, removed>> /\ overrun' \in BOOLEAN
    BY <1>4 DEF insert_overruns
  <2> QED BY <2>1, OtherSteps
<1>5. ASSUME NEW x \in QR, remove_from_l1(x) PROVE IInv' /\ Abstract!Next
  <2>1. IInv' /\ Abstract!Delete(x)
    BY <1>5, DeleteStep
  <2> QED BY <2>1, AbstractOperators DEF Abstract!Next
<1>6. ASSUME NEW x \in QR, remove_from_spare(x) PROVE IInv' /\ Abstract!Next
  <2>1. IInv' /\ Abstract!DeleteGiven(x)
    BY <1>6, DeleteGivenStep
  <2> QED BY <2>1, AbstractOperators DEF Abstract!Next
<1>7. ASSUME NEW x \in QR, remove_overruns(x)
      PROVE  IInv' /\ UNCHANGED <<Abs(pd), given, removed>>
  <2>1. UNCHANGED <<pd, given, removed>> /\ overrun' \in BOOLEAN
    BY <1>7 DEF remove_overruns
  <2> QED BY <2>1, OtherSteps
<1>8. CASE pop_and_add_to_l1
  BY <1>8, RefillStep DEF Abstract!Next
<1>9. CASE pop_helper_no_element_to_pop
  BY <1>9, NothingGivenStep DEF Abstract!Next
<1> QED BY <1>1, <1>2, <1>3, <1>4, <1>5, <1>6, <1>7, <1>8, <1>9 DEF Next

(***************************************************************************)
(* The code keeps header and body laid out, the cached quotient the last   *)
(* one whenever a call may come, an overflowed dictionary full, and what   *)
(* it gave away above what it kept.                                        *)
(***************************************************************************)
THEOREM Invariance == Spec => []IInv
<1>1. Init => IInv
  BY InitHolds
<1>2. IInv /\ [Next]_vars => IInv'
  BY StepHolds
<1> QED BY <1>1, <1>2, PTL DEF Spec

LEMMA TypeFollows ==
  ASSUME IInv
  PROVE  TypeOK
<1>1. PICK E, K : Holds(pd, E, K)
  BY DEF IInv
<1>2. /\ pd \in Pds /\ Layout(pd, E) /\ Sorted(pd, E) /\ Ends(pd.header, E)
  BY <1>1, HoldsTypes DEF Holds
<1>3. Popcount(pd.header) = Quots
  BY <1>2, HeaderReads
<1>4. ASSUME NEW e \in Elements(pd), NEW f \in Elements(pd), e[2] = f[2], e[1] < f[1]
      PROVE  pd.body[e[1]] <= pd.body[f[1]]
  <2>1. PICK q \in QuotRange : \E i \in Run(E, q) : e = <<i, q>>
    BY <1>2, ElementsAre
  <2>2. PICK r \in QuotRange : \E k \in Run(E, r) : f = <<k, r>>
    BY <1>2, ElementsAre
  <2>3. PICK i \in Run(E, q), k \in Run(E, r) : e = <<i, q>> /\ f = <<k, r>>
    BY <2>1, <2>2
  <2>4. q = r /\ i < k /\ e[1] = i /\ f[1] = k
    BY <1>4, <2>3
  <2>5. pd.body[i] <= pd.body[k]
    BY <1>2, <2>3, <2>4 DEF Sorted
  <2> QED BY <2>4, <2>5
<1>5. pd.last_quot \in 0 .. Quots - 1 /\ pd.exact \in 0 .. 1
      /\ pd.header \in [0 .. HeaderSize - 1 -> 0 .. 1] /\ pd.body \in [Places -> 0 .. Rems - 1]
  BY <1>2 DEF Pds, QuotRange, Bytes
<1> QED BY <1>3, <1>4, <1>5 DEF TypeOK

(* TypeOK, for every number of quotients and places: each part keeps its   *)
(* bits, the header its 1s, and each run its order.                        *)
THEOREM Typed == Spec => []TypeOK
<1>1. IInv => TypeOK
  BY TypeFollows
<1> QED BY <1>1, Invariance, PTL

(* What is in, in the dictionary or given away, is deleted where it is.    *)
LEMMA DeletionsFollow ==
  ASSUME IInv, Ready, NEW x \in QR
  PROVE  /\ delete_element_wrapper(x, pd) # {} <=> ItemsOf(pd)[x] > 0
         /\ DeletesInHead(x, pd) => ItemsOf(pd)[x] = 0 /\ given[x] = 0
<1>1. PICK E : Holds(pd, E, pd.last_quot) /\ (pd.exact = 0 => Total(E) = Capacity)
  BY ReadyHolds
<1>2. given[x] \in Nat /\ ItemsOf(pd)[x] \in Nat
  BY ReadyHolds
<1>3. /\ Quot(x) \in Nat /\ pd.last_quot \in Nat /\ Rem(x) \in Int
  <2>1. Quot(x) \in Nat /\ pd.last_quot \in Nat
    BY <1>1, HoldsTypes, SlotIs, Sizes
  <2>2. Rem(x) \in Int
    BY SlotIs DEF Bytes
  <2> QED BY <2>1, <2>2
<1>4. ItemsOf(pd)[x] > 0 => Quot(x) <= pd.last_quot
  <2> SUFFICES ASSUME ItemsOf(pd)[x] > 0 PROVE Quot(x) <= pd.last_quot
    OBVIOUS
  <2> DEFINE m == <<pd.last_quot, pd.body[Total(E) - 1]>>
  <2>1. m \in QR /\ ~Less(m, x)
    BY <1>1, ElementsBelow DEF Holds
  <2> QED BY <1>3, <2>1 DEF Less, Quot
<1>5. delete_element_wrapper(x, pd) # {} <=> ItemsOf(pd)[x] > 0
  <2>1. delete_element_wrapper(x, pd) # {} <=> Abstract!CanDelete(x, Abs(pd))
    BY <1>1, DeletesIs
  <2>2. Abstract!CanDelete(x, Abs(pd)) => ItemsOf(pd)[x] > 0
    BY <1>1, DeletesIs
  <2>3. Abstract!CanDelete(x, Abs(pd)) <=> Quot(x) <= pd.last_quot /\ ItemsOf(pd)[x] > 0
    BY <1>4, <2>2, AbstractOperators DEF Abstract!CanDelete, Abstract!pd_find_25, Abs
  <2> QED BY <1>4, <2>1, <2>3
<1>6. ASSUME DeletesInHead(x, pd) PROVE ItemsOf(pd)[x] = 0 /\ given[x] = 0
  <2>1. /\ did_pd_overflowed(pd) /\ pd.exact = 0 /\ Quot(x) = pd.last_quot
        /\ get_last_byte(pd) > Rem(x)
    BY <1>6 DEF DeletesInHead, did_pd_overflowed
  <2>2. PICK k \in FastFind(x, pd) : k < 0
    BY <1>6 DEF DeletesInHead
  <2> DEFINE m == <<pd.last_quot, get_last_byte(pd)>>
  <2>3. m \in QR /\ Rem(m) = get_last_byte(pd) /\ Quot(m) = pd.last_quot /\ ItemsOf(pd)[m] > 0
        /\ get_last_byte(pd) \in Bytes
    BY <1>1, <2>1, LastItemIs
  <2>4. Less(x, m)
    BY <1>3, <2>1, <2>3 DEF Less
  <2>5. given[x] = 0
    <3>1. ~(given[x] > 0)
      BY <2>3, <2>4 DEF IInv, Covered
    <3> QED BY <1>2, <3>1
  <2>6. FastFind(x, pd) \cap Places = {}
    <3> SUFFICES ASSUME NEW i \in FastFind(x, pd) \cap Places PROVE FALSE
      OBVIOUS
    <3>1. i <= k
      BY <2>2 DEF FastFind
    <3>2. i \in Nat
      BY Sizes
    <3>3. k \in Int
      BY <2>2, HeadMatchesBelow, Sizes DEF FastFind
    <3> QED BY <2>2, <3>1, <3>2, <3>3
  <2>7. delete_element_wrapper(x, pd) = delete_equal_to_last(x, pd)
    BY <1>3, <2>1 DEF delete_element_wrapper
  <2>8. delete_equal_to_last(x, pd) = {}
    <3>1. ~(get_last_byte(pd) < Rem(x)) /\ get_last_byte(pd) # Rem(x)
      BY <1>3, <2>1, <2>3 DEF Bytes
    <3> QED BY <2>1, <2>6, <3>1 DEF delete_equal_to_last
  <2>9. ~(ItemsOf(pd)[x] > 0)
    BY <1>5, <2>7, <2>8
  <2> QED BY <1>2, <2>5, <2>9
<1> QED BY <1>5, <1>6

LEMMA FindsFollows ==
  ASSUME IInv
  PROVE  FindsTheElements
<1>1. PICK E, K : Holds(pd, E, K)
  BY DEF IInv
<1>2. Layout(pd, E)
  BY <1>1 DEF Holds
<1>3. \A x \in QR : pd_find_25(x, pd) <=> ItemsOf(pd)[x] > 0
  BY <1>2, FindIs, ItemsAre
<1> QED BY <1>3, DeletionsFollow DEF FindsTheElements

(* pd_find_25's short cuts answer by the elements alone: neither a byte    *)
(* left behind them nor an equal byte of another run is taken for one.     *)
(* A deletion finds exactly the elements as well, and mistakes a byte of   *)
(* the header for one only if what it shall delete is in no level.         *)
THEOREM FindsExactly == Spec => []FindsTheElements
<1>1. IInv => FindsTheElements
  BY FindsFollows
<1> QED BY <1>1, Invariance, PTL

(***************************************************************************)
(* The refinement: the bits implement the multiset with its cached         *)
(* quotient, and the shifts, counts and moves of every operation compute   *)
(* what OnePd says, also while the quotient is stale.  Two calls are not   *)
(* operations of OnePd, for they write outside the body, and none follows  *)
(* them: the insertion that begins below it, and the mistaken deletion     *)
(* that takes a byte of the header for its element.                        *)
(***************************************************************************)
THEOREM Implements == Spec => KeepsPd
<1>1. Init => Abstract!Init
  <2> SUFFICES ASSUME Init PROVE Abstract!Init
    OBVIOUS
  <2>1. Abs(pd) = Abstract!EmptyPD
    BY InitHolds
  <2> QED BY <2>1, AbstractOperators DEF Abstract!Init, Abs, Init
<1>2. IInv /\ [Next]_vars => [Abstract!Next]_(Abstract!vars)
  <2> SUFFICES ASSUME IInv, [Next]_vars PROVE [Abstract!Next]_(Abstract!vars)
    OBVIOUS
  <2>1. Abstract!Next \/ UNCHANGED <<Abs(pd), given, removed>>
    BY StepHolds
  <2>2. UNCHANGED <<Abs(pd), given, removed>> => UNCHANGED Abstract!vars
    BY DEF Abstract!vars, Abs
  <2> QED BY <2>1, <2>2
<1> QED BY <1>1, <1>2, Invariance, PTL DEF Spec, KeepsPd, Abstract!Spec

=============================================================================
