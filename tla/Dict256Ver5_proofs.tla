------------------------- MODULE Dict256Ver5_proofs -------------------------
(***************************************************************************)
(* The insert-only filter: whatever its table drops, the lookup by the     *)
(* Bloom filter has no false negative; the table is a set that loses one   *)
(* element a failure; and the lookup in the table is exact until the       *)
(* first.  All for every number of dictionaries, buckets, cells and kicks. *)
(***************************************************************************)
EXTENDS Dict256Ver5, FiniteSetTheorems, WellFoundedInduction, TLAPS

-----------------------------------------------------------------------------
(***************************************************************************)
(* Fingerprints and pocket dictionaries are those of Dict256, and so are   *)
(* the facts about them; its spare has no part in these, and any sizes     *)
(* that fit the dictionaries will do for it.                               *)
(***************************************************************************)
P == INSTANCE Dict256_proofs WITH
  NumPds <- number_of_pd, BatchSize <- 1, NumBuckets <- number_of_pd + 1, BucketCapacity <- 1,
  MaxSpareQuot <- 0, ClientKeys <- {}, main_buckets <- {}, big_quots_set <- {},
  dropped <- FALSE, popped_past_l3 <- FALSE

(* A PD holds at most what fits, and is full once it has overflowed. *)
PDOK(pd) ==
  /\ pd \in PD
  /\ Size(pd.items) <= Capacity
  /\ pd.overflowed => pd_full(pd)

(* The cached last quotient is the one the header holds. *)
Exact(pd) == pd.last_quot = compute_last_quot(pd.items)

Held(pd) == Support(pd.items)

(* new holds one copy of x more than pd. *)
Gains(pd, new, x) ==
  \A y \in QR : new.items[y] = pd.items[y] + IF y = x THEN 1 ELSE 0

LEMMA Assumptions ==
  P!ItemKeysAssumption /\ P!CapacityAssumption /\ P!SpareAssumption /\ P!DictAssumption
<1>1. P!ItemKeysAssumption /\ P!CapacityAssumption
  BY ItemKeysAssumption, CapacityAssumption DEF P!ItemKeysAssumption, P!CapacityAssumption
<1>2. P!SpareAssumption
  BY Ver5Assumption, ItemKeysAssumption DEF P!SpareAssumption
<1>3. P!DictAssumption
  <2>1. P!Keys = Keys
    BY DEF P!Keys, Keys, P!Pds, Pds, P!QR, QR
  <2> QED BY <2>1, Ver5Assumption DEF P!DictAssumption
<1> QED BY <1>1, <1>2, <1>3

(* Its operators are the same ones. *)
LEMMA ItemOperators ==
  /\ P!QR = QR
  /\ \A x : P!Quot(x) = Quot(x) /\ P!Rem(x) = Rem(x)
  /\ \A x, y : P!Less(x, y) = Less(x, y)
  /\ \A S : P!NoCopies(S) = NoCopies(S) /\ P!Biggest(S) = Biggest(S)
  /\ \A b, x : P!AddCopy(b, x) = AddCopy(b, x) /\ P!RemoveCopy(b, x) = RemoveCopy(b, x)
  /\ \A b : P!Support(b) = Support(b) /\ P!Size(b) = Size(b)
<1>1. P!QR = QR
  BY DEF P!QR, QR
<1>2. \A x : P!Quot(x) = Quot(x) /\ P!Rem(x) = Rem(x)
  BY DEF P!Quot, Quot, P!Rem, Rem
<1>3. \A x, y : P!Less(x, y) = Less(x, y)
  BY <1>2 DEF P!Less, Less
<1>4. \A S : P!NoCopies(S) = NoCopies(S) /\ P!Biggest(S) = Biggest(S)
  BY <1>3 DEF P!NoCopies, NoCopies, P!Biggest, Biggest
<1>5. \A b, x : P!AddCopy(b, x) = AddCopy(b, x) /\ P!RemoveCopy(b, x) = RemoveCopy(b, x)
  BY DEF P!AddCopy, AddCopy, P!RemoveCopy, RemoveCopy
<1>6. \A b : P!Support(b) = Support(b)
  BY DEF P!Support, Support
<1>7. \A b : P!Size(b) = Size(b)
  <2>1. \A b : P!Copies(b) = Copies(b)
    BY DEF P!Copies, Copies
  <2>2. \A S : P!Cardinality(S) = Cardinality(S)
    BY DEF P!Cardinality, Cardinality
  <2> QED BY <2>1, <2>2 DEF P!Size, Size
<1> QED BY <1>1, <1>2, <1>3, <1>4, <1>5, <1>6, <1>7

LEMMA PdOperators ==
  /\ P!PD = PD /\ P!EmptyPD = EmptyPD
  /\ \A pd : P!pd_full(pd) = pd_full(pd) /\ P!LastItem(pd) = LastItem(pd)
  /\ \A b : P!compute_last_quot(b) = compute_last_quot(b)
  /\ \A x, pd : /\ P!pd_add_50_not_full(x, pd) = pd_add_50_not_full(x, pd)
                /\ P!pd_swap_short(x, pd) = pd_swap_short(x, pd)
  /\ \A pd : P!PDOK(pd) = PDOK(pd) /\ P!Exact(pd) = Exact(pd) /\ P!Held(pd) = Held(pd)
  /\ \A pd, new, x : P!Gains(pd, new, x) = Gains(pd, new, x)
<1>1. P!PD = PD /\ P!EmptyPD = EmptyPD
  BY ItemOperators DEF P!PD, PD, P!EmptyPD, EmptyPD
<1>2. \A pd : P!pd_full(pd) = pd_full(pd) /\ P!LastItem(pd) = LastItem(pd)
  BY ItemOperators DEF P!pd_full, pd_full, P!LastItem, LastItem
<1>3. \A b : P!compute_last_quot(b) = compute_last_quot(b)
  BY ItemOperators DEF P!compute_last_quot, compute_last_quot
<1>4. \A x, pd : P!pd_add_50_not_full(x, pd) = pd_add_50_not_full(x, pd)
  BY ItemOperators DEF P!pd_add_50_not_full, pd_add_50_not_full
<1>5. \A q, pd : P!get_last_quot_after_future_swap(q, pd) = get_last_quot_after_future_swap(q, pd)
  BY <1>3, ItemOperators DEF P!get_last_quot_after_future_swap, get_last_quot_after_future_swap
<1>6. \A x, pd : P!pd_swap_short(x, pd) = pd_swap_short(x, pd)
  BY <1>2, <1>5, ItemOperators DEF P!pd_swap_short, pd_swap_short
<1>7. \A pd : P!PDOK(pd) = PDOK(pd) /\ P!Exact(pd) = Exact(pd) /\ P!Held(pd) = Held(pd)
  BY <1>1, <1>2, <1>3, ItemOperators DEF P!PDOK, PDOK, P!Exact, Exact, P!Held, Held
<1>8. \A pd, new, x : P!Gains(pd, new, x) = Gains(pd, new, x)
  BY ItemOperators DEF P!Gains, Gains
<1> QED BY <1>1, <1>2, <1>3, <1>4, <1>6, <1>7, <1>8

LEMMA LessIsTotalOrder ==
  ASSUME NEW x \in QR, NEW y \in QR, NEW z \in QR
  PROVE  /\ ~Less(x, x)
         /\ Less(x, y) => ~Less(y, x)
         /\ Less(x, y) /\ Less(y, z) => Less(x, z)
         /\ ~Less(x, y) /\ ~Less(y, z) => ~Less(x, z)
         /\ Less(x, y) \/ Less(y, x) \/ x = y
BY Assumptions, ItemOperators, P!LessIsTotalOrder

LEMMA QuotRem ==
  ASSUME NEW x \in QR
  PROVE  /\ Quot(x) \in 0 .. Quots - 1
         /\ Rem(x) \in 0 .. Rems - 1
         /\ x = <<Quot(x), Rem(x)>>
         /\ \A y \in QR : ~Less(x, y) => Quot(y) <= Quot(x)
BY Assumptions, ItemOperators, P!QuotRem

LEMMA LeastNat ==
  ASSUME NEW T \in SUBSET Nat, T # {}
  PROVE  \E n \in T : \A m \in T : n <= m
BY Assumptions, P!LeastNat

LEMMA QRFinite == IsFiniteSet(QR)
<1>1. IsFiniteSet(0 .. Quots - 1) /\ IsFiniteSet(0 .. Rems - 1)
  BY FS_Interval, ItemKeysAssumption
<1> QED BY <1>1, FS_Product DEF QR

LEMMA HeldIsFingerprints ==
  ASSUME NEW b \in [QR -> Nat]
  PROVE  /\ Support(b) \in SUBSET QR
         /\ \A y \in QR : y \in Support(b) <=> b[y] > 0
BY DEF Support

LEMMA LastItemType ==
  ASSUME NEW pd, PDOK(pd), Held(pd) # {}
  PROVE  /\ LastItem(pd) \in QR
         /\ Quot(LastItem(pd)) = pd.last_quot
         /\ Exact(pd) => /\ LastItem(pd) = Biggest(Held(pd))
                         /\ LastItem(pd) \in Held(pd)
                         /\ \A y \in Held(pd) : ~Less(LastItem(pd), y)
BY Assumptions, ItemOperators, PdOperators, P!LastItemType

LEMMA FullIsNotEmpty ==
  ASSUME NEW pd, PDOK(pd), pd_full(pd)
  PROVE  /\ Held(pd) # {}
         /\ \A x \in QR : pd.items[x] > 0 => Support(RemoveCopy(pd.items, x)) # {}
BY Assumptions, ItemOperators, PdOperators, P!FullIsNotEmpty

LEMMA EmptyPDOK == PDOK(EmptyPD) /\ Exact(EmptyPD)
BY Assumptions, PdOperators, P!EmptyPDOK

LEMMA AddNotFull ==
  ASSUME NEW pd, PDOK(pd), ~pd_full(pd), NEW x \in QR
  PROVE  LET new == pd_add_50_not_full(x, pd)
         IN  /\ PDOK(new) /\ ~pd.overflowed /\ ~new.overflowed
             /\ Gains(pd, new, x)
             /\ Exact(pd) => Exact(new)
BY Assumptions, ItemOperators, PdOperators, P!AddNotFull

LEMMA SwapWhenFull ==
  ASSUME NEW pd, PDOK(pd), pd_full(pd), NEW x \in QR
  PROVE  LET s == pd_swap_short(x, pd)
         IN  /\ PDOK(s.pd) /\ pd_full(s.pd) /\ s.pd.overflowed
             /\ s.qr \in QR
             /\ Exact(pd) =>
                  /\ Exact(s.pd)
                  /\ \A y \in QR : pd.items[y] + (IF y = x THEN 1 ELSE 0)
                                   = s.pd.items[y] + (IF y = s.qr THEN 1 ELSE 0)
                  /\ ~Less(LastItem(pd), LastItem(s.pd))
                  /\ ~Less(s.qr, LastItem(s.pd))
BY Assumptions, ItemOperators, PdOperators, P!SwapWhenFull

-----------------------------------------------------------------------------
(***************************************************************************)
(* The filter.                                                             *)
(***************************************************************************)

Tables == [Cells -> Elements \cup {empty_slot}]

ContentsOf(T) == {T[c] : c \in Cells} \ {empty_slot}

Occupied(T) == {c \in Cells : T[c] # empty_slot}

(* A table of different elements, each where a search looks for it. *)
Placed(T) ==
  /\ T \in Tables
  /\ \A c \in Cells : T[c] # empty_slot => c[1] \in {b1(T[c]), b2(T[c])}
  /\ \A c, d \in Cells : T[c] = T[d] /\ T[c] # empty_slot => c = d

(* The element in hand is not in the table, and one of its buckets is next. *)
TableInv ==
  /\ Placed(Table)
  /\ capacity = Cardinality(Occupied(Table))
  /\ hold \in Elements \cup {empty_slot}
  /\ bucket_index \in HtBuckets
  /\ loop \in 0 .. MAX_CUCKOO_LOOP
  /\ Inserting => /\ hold \notin ContentsOf(Table)
                  /\ bucket_index \in {b1(hold), b2(hold)}

(* What the table stores or a call has in hand. *)
Kept == ContentsOf(Table) \cup (IF Inserting THEN {hold} ELSE {})

(* The dictionary does not hold more than the client inserted. *)
Behind(k) == live[k] >= pd_array[k[1]].items[k[2]]

(* What was sent to the table is looked for there, and the Bloom filter knows. *)
Covered(k) ==
  live[k] > pd_array[k[1]].items[k[2]] =>
    /\ pd_array[k[1]].overflowed
    /\ ~Less(k[2], LastItem(pd_array[k[1]]))
    /\ SpareFilterBits[k] \subseteq BitsAfterCall

PdsGood ==
  /\ pd_array \in [Pds -> PD]
  /\ \A p \in Pds : PDOK(pd_array[p]) /\ Exact(pd_array[p])
  /\ live \in [Keys -> Nat]
  /\ \A k \in Keys : Behind(k) /\ Covered(k)

CallGood ==
  /\ spare_filter \subseteq UNION {SpareFilterBits[k] : k \in Keys}
  /\ failures \in 0 .. MaxFailures
  /\ Inserting => spare_val \in Keys /\ failures < MaxFailures
  /\ ~Inserting => spare_val = empty_slot

IInv ==
  /\ TableInv
  /\ PdsGood
  /\ CallGood
  /\ Kept \subseteq Sent
  /\ Cardinality(Sent \ Kept) <= failures
-----------------------------------------------------------------------------
LEMMA TableConstants ==
  /\ IsFiniteSet(Cells) /\ 0 \in HtBuckets /\ 0 \in 0 .. MAX_CUCKOO_LOOP
  /\ HtBuckets \subseteq Nat
  /\ empty_slot \notin Elements /\ Elements = Keys
  /\ \A x \in Elements : b1(x) \in HtBuckets /\ b2(x) \in HtBuckets
<1>1. IsFiniteSet(HtBuckets) /\ IsFiniteSet(0 .. bucket_size - 1)
  BY AlignedTableAssumption, FS_Interval DEF HtBuckets
<1>2. IsFiniteSet(Cells)
  BY <1>1, FS_Product DEF Cells
<1>3. /\ 0 \in HtBuckets /\ 0 \in 0 .. MAX_CUCKOO_LOOP /\ HtBuckets \subseteq Nat
  BY AlignedTableAssumption DEF HtBuckets
<1>4. \A x \in Elements : b1(x) \in HtBuckets /\ b2(x) \in HtBuckets
  BY AlignedTableAssumption DEF b1, b2
<1> QED BY <1>2, <1>3, <1>4, AlignedTableAssumption, Ver5Assumption

LEMMA OccupiedCount ==
  ASSUME NEW T \in Tables
  PROVE  /\ IsFiniteSet(Occupied(T))
         /\ Cardinality(Occupied(T)) \in 0 .. Cardinality(Cells)
<1>1. /\ IsFiniteSet(Occupied(T)) /\ Cardinality(Occupied(T)) <= Cardinality(Cells)
  BY TableConstants, FS_Subset DEF Occupied
<1> QED BY <1>1, TableConstants, FS_CardinalityType

(* As many elements as occupied cells. *)
LEMMA ContentsCount ==
  ASSUME NEW T, Placed(T)
  PROVE  Cardinality(ContentsOf(T)) = Cardinality(Occupied(T))
<1> DEFINE f == [c \in Occupied(T) |-> T[c]]
<1>1. f \in Surjection(Occupied(T), ContentsOf(T))
  BY DEF Surjection, Occupied, ContentsOf
<1>2. f \in Injection(Occupied(T), ContentsOf(T))
  <2>1. f \in [Occupied(T) -> ContentsOf(T)]
    BY <1>1 DEF Surjection
  <2>2. ASSUME NEW c \in Occupied(T), NEW d \in Occupied(T), f[c] = f[d] PROVE c = d
    BY <2>2 DEF Placed, Occupied
  <2>3. DOMAIN f = Occupied(T)
    OBVIOUS
  <2> HIDE DEF f
  <2> QED BY <2>1, <2>2, <2>3 DEF Injection, IsInjective
<1>3. IsFiniteSet(Occupied(T))
  BY OccupiedCount DEF Placed
<1> HIDE DEF f
<1> QED BY <1>1, <1>2, <1>3, FS_Surjection

(* Putting an element into a cell where a search looks for it. *)
LEMMA PutIn ==
  ASSUME NEW T, Placed(T), NEW c \in Cells, NEW x \in Elements, x \notin ContentsOf(T),
         c[1] \in {b1(x), b2(x)}
  PROVE  LET W == [T EXCEPT ![c] = x]
         IN  /\ Placed(W)
             /\ ContentsOf(W) = (ContentsOf(T) \ {T[c]}) \cup {x}
             /\ Cardinality(Occupied(W)) =
                  Cardinality(Occupied(T)) + IF T[c] = empty_slot THEN 1 ELSE 0
             /\ T[c] \notin ContentsOf(W)
<1> DEFINE W == [T EXCEPT ![c] = x]
<1>1. /\ W \in Tables /\ W[c] = x /\ \A d \in Cells : d # c => W[d] = T[d]
      /\ T \in Tables /\ x # empty_slot
  BY TableConstants DEF Placed, Tables
<1>2. \A d \in Cells : T[d] # x
  BY <1>1 DEF ContentsOf
<1> HIDE DEF W
<1>3. Placed(W)
  <2>1. ASSUME NEW d \in Cells, W[d] # empty_slot PROVE d[1] \in {b1(W[d]), b2(W[d])}
    BY <1>1, <2>1 DEF Placed
  <2>2. ASSUME NEW d \in Cells, NEW e \in Cells, W[d] = W[e], W[d] # empty_slot PROVE d = e
    BY <1>1, <1>2, <2>2 DEF Placed
  <2> QED BY <1>1, <2>1, <2>2 DEF Placed
<1>4. \A d \in Cells : d # c /\ T[c] # empty_slot => T[d] # T[c]
  BY DEF Placed
<1>5. ContentsOf(W) = (ContentsOf(T) \ {T[c]}) \cup {x}
  BY <1>1, <1>2, <1>4 DEF ContentsOf
<1>6. Occupied(W) = Occupied(T) \cup {c}
  BY <1>1 DEF Occupied
<1>7. Cardinality(Occupied(W)) = Cardinality(Occupied(T)) + IF T[c] = empty_slot THEN 1 ELSE 0
  <2>1. IsFiniteSet(Occupied(T)) /\ Cardinality(Occupied(T)) \in Nat
    BY <1>1, OccupiedCount, FS_CardinalityType
  <2>2. c \in Occupied(T) <=> T[c] # empty_slot
    BY DEF Occupied
  <2>3. Cardinality(Occupied(T) \cup {c}) =
          IF c \in Occupied(T) THEN Cardinality(Occupied(T)) ELSE Cardinality(Occupied(T)) + 1
    BY <2>1, FS_AddElement
  <2> QED BY <1>6, <2>1, <2>2, <2>3
<1> QED BY <1>2, <1>3, <1>5, <1>7 DEF W

(* A search finds what the table stores. *)
LEMMA FindIs ==
  ASSUME Placed(Table), NEW x \in Elements
  PROVE  find(x) <=> x \in ContentsOf(Table)
<1>1. x # empty_slot
  BY TableConstants
<1>2. find(x) <=> \E c \in Cells : c[1] \in {b1(x), b2(x)} /\ Table[c] = x
  BY DEF find, find_helper
<1>3. x \in ContentsOf(Table) <=> \E c \in Cells : Table[c] = x
  BY <1>1 DEF ContentsOf
<1> QED BY <1>1, <1>2, <1>3 DEF Placed

LEMMA FirstEmptyHolds ==
  ASSUME NEW b, EmptyCells(b) # {}
  PROVE  FirstEmpty(b) \in EmptyCells(b)
<1> DEFINE S == {c[2] : c \in EmptyCells(b)}
<1>1. S \in SUBSET Nat /\ S # {}
  BY AlignedTableAssumption DEF EmptyCells, Cells
<1>2. \E n \in S : \A m \in S : n <= m
  <2> HIDE DEF S
  <2> QED BY <1>1, LeastNat
<1>3. \E c \in EmptyCells(b) : \A d \in EmptyCells(b) : c[2] <= d[2]
  BY <1>2
<1> QED BY <1>3 DEF FirstEmpty
-----------------------------------------------------------------------------
LEMMA TableInitInv == TableInit => TableInv /\ Kept = {}
<1> SUFFICES ASSUME TableInit PROVE TableInv /\ Kept = {}
  OBVIOUS
<1>1. Table \in Tables /\ \A c \in Cells : Table[c] = empty_slot
  BY DEF TableInit, Tables
<1>2. Placed(Table) /\ ContentsOf(Table) = {} /\ Occupied(Table) = {}
  BY <1>1 DEF Placed, ContentsOf, Occupied
<1>3. capacity = Cardinality(Occupied(Table))
  BY <1>2, FS_EmptySet DEF TableInit
<1> QED BY <1>2, <1>3, TableConstants DEF TableInit, TableInv, Kept, Inserting

(* An element in the first empty cell of one of its buckets; the call is over. *)
LEMMA PutInEmpty ==
  ASSUME TableInv, NEW x \in Elements, x \notin ContentsOf(Table),
         NEW b \in {b1(x), b2(x)}, insert_if_bucket_not_full(x, b), Returned
  PROVE  TableInv' /\ Kept' = ContentsOf(Table) \cup {x} /\ ~Inserting'
<1> DEFINE c == FirstEmpty(b)
<1>1. c \in Cells /\ c[1] = b /\ Table[c] = empty_slot
  BY FirstEmptyHolds DEF insert_if_bucket_not_full, EmptyCells
<1>2. Table' = [Table EXCEPT ![c] = x] /\ capacity' = capacity + 1
  BY DEF insert_if_bucket_not_full
<1> HIDE DEF c
<1>3. /\ Placed(Table')
      /\ ContentsOf(Table') = (ContentsOf(Table) \ {empty_slot}) \cup {x}
      /\ Cardinality(Occupied(Table')) = Cardinality(Occupied(Table)) + 1
  BY <1>1, <1>2, PutIn DEF TableInv
<1>4. hold' = empty_slot /\ bucket_index' = 0 /\ loop' = 0
  BY DEF Returned
<1>5. TableInv'
  BY <1>2, <1>3, <1>4, TableConstants DEF TableInv, Inserting
<1>6. Kept' = ContentsOf(Table) \cup {x} /\ ~Inserting'
  BY <1>3, <1>4 DEF Kept, Inserting, ContentsOf
<1> QED BY <1>5, <1>6

(* insert: the element is in the table or in hand. *)
LEMMA StartStep ==
  ASSUME TableInv, ~Inserting, NEW x \in Elements, StartInsert(x)
  PROVE  TableInv' /\ Kept' = Kept \cup {x}
<1>1. find(x) <=> x \in ContentsOf(Table)
  BY FindIs DEF TableInv
<1>2. Kept = ContentsOf(Table)
  BY DEF Kept
<1>3. CASE find(x) /\ UNCHANGED tableVars
  BY <1>1, <1>2, <1>3 DEF tableVars, TableInv, Kept, Inserting
<1>4. CASE ~find(x) /\ insert_if_bucket_not_full(x, b2(x)) /\ Returned
  BY <1>1, <1>2, <1>4, PutInEmpty DEF Inserting
<1>5. CASE /\ ~find(x) /\ EmptyCells(b2(x)) = {}
           /\ hold' = x /\ bucket_index' = b1(x) /\ loop' = 0
           /\ UNCHANGED <<Table, capacity>>
  <2>1. TableInv'
    BY <1>1, <1>5, TableConstants DEF TableInv, Inserting
  <2>2. x # empty_slot
    BY TableConstants
  <2> QED BY <1>2, <1>5, <2>1, <2>2 DEF Kept, Inserting
<1> QED BY <1>3, <1>4, <1>5 DEF StartInsert

LEMMA PlaceStep ==
  ASSUME TableInv, Place
  PROVE  TableInv' /\ Kept' = Kept /\ ~Inserting'
<1>1. /\ Inserting /\ hold \in Elements /\ hold \notin ContentsOf(Table)
      /\ bucket_index \in {b1(hold), b2(hold)}
      /\ insert_if_bucket_not_full(hold, bucket_index) /\ Returned
  BY DEF Place, TableInv, Inserting
<1> QED BY <1>1, PutInEmpty DEF Kept

(* A swap takes an element out of its bucket and goes on with its other one. *)
LEMMA SwapStep ==
  ASSUME TableInv, cuckoo_swap
  PROVE  TableInv' /\ Kept' = Kept /\ Inserting'
<1>1. /\ Inserting /\ hold \in Elements /\ hold \notin ContentsOf(Table)
      /\ bucket_index \in {b1(hold), b2(hold)}
      /\ EmptyCells(bucket_index) = {} /\ loop' = loop + 1 /\ capacity' = capacity
      /\ loop < MAX_CUCKOO_LOOP
  BY DEF cuckoo_swap, TableInv, Inserting
<1>2. PICK c \in Cells :
        /\ c[1] = bucket_index
        /\ Table' = [Table EXCEPT ![c] = hold]
        /\ hold' = Table[c]
        /\ bucket_index' = OtherBucket(Table[c], bucket_index)
  BY DEF cuckoo_swap
<1>3. Table[c] # empty_slot /\ Table[c] \in Elements
  BY <1>1, <1>2 DEF EmptyCells, TableInv, Placed, Tables
<1>4. /\ Placed(Table')
      /\ ContentsOf(Table') = (ContentsOf(Table) \ {Table[c]}) \cup {hold}
      /\ Cardinality(Occupied(Table')) = Cardinality(Occupied(Table)) + 0
      /\ Table[c] \notin ContentsOf(Table')
  BY <1>1, <1>2, <1>3, PutIn DEF TableInv
<1>5. capacity' = Cardinality(Occupied(Table'))
  BY <1>1, <1>4, OccupiedCount DEF TableInv, Placed
<1>6. bucket_index' \in {b1(hold'), b2(hold')} /\ bucket_index' \in HtBuckets
  BY <1>2, <1>3, TableConstants DEF OtherBucket
<1>7. loop' \in 0 .. MAX_CUCKOO_LOOP
  BY <1>1, AlignedTableAssumption DEF TableInv
<1>8. TableInv' /\ Inserting'
  BY <1>2, <1>3, <1>4, <1>5, <1>6, <1>7 DEF TableInv, Inserting
<1>9. Table[c] \in ContentsOf(Table)
  BY <1>3 DEF ContentsOf
<1>10. Kept' = Kept
  BY <1>1, <1>2, <1>4, <1>8, <1>9 DEF Kept, ContentsOf
<1> QED BY <1>8, <1>10

(* A failure loses what is in hand, and nothing else. *)
LEMMA FailsStep ==
  ASSUME TableInv, Fails
  PROVE  TableInv' /\ Kept' = Kept \ {hold} /\ ~Inserting'
<1>1. /\ Table' = Table /\ capacity' = capacity /\ Inserting
      /\ hold' = empty_slot /\ bucket_index' = 0 /\ loop' = 0
  BY DEF Fails, Returned
<1>2. TableInv' /\ ~Inserting'
  BY <1>1, TableConstants DEF TableInv, Inserting
<1>3. Kept' = Kept \ {hold}
  BY <1>1, <1>2 DEF Kept, TableInv
<1> QED BY <1>2, <1>3

LEMMA TableIdle ==
  ASSUME TableInv, UNCHANGED tableVars
  PROVE  TableInv' /\ Kept' = Kept /\ (Inserting' <=> Inserting)
BY DEF tableVars, TableInv, Kept, Inserting
-----------------------------------------------------------------------------
LEMMA Types ==
  ASSUME IInv, NEW k \in Keys
  PROVE  /\ k[1] \in Pds /\ k[2] \in QR /\ k = <<k[1], k[2]>>
         /\ live[k] \in Nat /\ pd_array[k[1]].items[k[2]] \in Nat
         /\ PDOK(pd_array[k[1]]) /\ Exact(pd_array[k[1]])
         /\ Behind(k) /\ Covered(k)
<1>1. k[1] \in Pds /\ k[2] \in QR /\ k = <<k[1], k[2]>>
  BY DEF Keys
<1>2. PdsGood
  BY DEF IInv
<1> QED BY <1>1, <1>2 DEF PdsGood, PDOK, PD

LEMMA SentFinite == IsFiniteSet(Keys) /\ IsFiniteSet(Sent)
<1>1. IsFiniteSet(Pds)
  BY Ver5Assumption, FS_Interval DEF Pds
<1>2. IsFiniteSet(Keys)
  BY <1>1, QRFinite, FS_Product DEF Keys
<1> QED BY <1>2, FS_Subset DEF Sent

(* The client has one more of <<p, x>>. *)
LEMMA LiveAfter ==
  ASSUME IInv, NEW p \in Pds, NEW x \in QR, insert(p, x)
  PROVE  /\ <<p, x>> \in Keys /\ live' \in [Keys -> Nat]
         /\ \A k \in Keys : live'[k] = live[k] + IF k[1] = p /\ k[2] = x THEN 1 ELSE 0
<1>1. <<p, x>> \in Keys /\ live \in [Keys -> Nat]
  BY DEF Keys, IInv, PdsGood
<1>2. live' \in [Keys -> Nat] /\ \A k \in Keys : live'[k] = IF k = <<p, x>> THEN live[k] + 1 ELSE live[k]
  <2>1. live' = AddCopy(live, <<p, x>>)
    BY DEF insert
  <2>2. /\ AddCopy(live, <<p, x>>) \in [Keys -> Nat]
        /\ \A k \in Keys :
             AddCopy(live, <<p, x>>)[k] = IF k = <<p, x>> THEN live[k] + 1 ELSE live[k]
    BY <1>1 DEF AddCopy
  <2> QED BY <2>1, <2>2
<1>3. \A k \in Keys : k = <<p, x>> <=> k[1] = p /\ k[2] = x
  BY DEF Keys
<1>4. \A k \in Keys : live[k] \in Nat
  BY <1>1
<1> QED BY <1>1, <1>2, <1>3, <1>4

(* A fingerprint that finds room in its dictionary is not sent anywhere. *)
LEMMA InsertNotFullStep ==
  ASSUME IInv, NEW p \in Pds, NEW x \in QR, insert(p, x), insert_not_full(p, x)
  PROVE  IInv'
<1> DEFINE pd == pd_array[p]
           new == pd_add_50_not_full(x, pd)
<1>1. /\ pd_array' = [pd_array EXCEPT ![p] = new] /\ ~pd_full(pd) /\ pd_array \in [Pds -> PD]
      /\ UNCHANGED <<tableVars, spare_filter, spare_val, failures>>
  BY DEF insert, insert_not_full, IInv, PdsGood
<1>2. PDOK(pd) /\ Exact(pd)
  BY DEF IInv, PdsGood
<1> HIDE DEF pd
<1>3. PDOK(new) /\ Exact(new) /\ ~pd.overflowed /\ ~new.overflowed /\ Gains(pd, new, x)
  BY <1>1, <1>2, AddNotFull
<1> HIDE DEF new
<1>4. /\ pd_array' \in [Pds -> PD] /\ pd_array'[p] = new
      /\ \A q \in Pds : q # p => pd_array'[q] = pd_array[q]
  BY <1>1, <1>3 DEF PDOK
<1>5. TableInv' /\ Kept' = Kept /\ BitsAfterCall' = BitsAfterCall
  BY <1>1, TableIdle DEF IInv, BitsAfterCall, tableVars, Inserting
<1>6. ASSUME NEW k \in Keys
      PROVE  /\ Behind(k)'
             /\ live'[k] > pd_array'[k[1]].items[k[2]] <=> live[k] > pd_array[k[1]].items[k[2]]
  <2>1. /\ k[1] \in Pds /\ k[2] \in QR /\ live[k] \in Nat
        /\ pd_array[k[1]].items[k[2]] \in Nat /\ live[k] >= pd_array[k[1]].items[k[2]]
    BY Types DEF Behind
  <2>2. live'[k] = live[k] + IF k[1] = p /\ k[2] = x THEN 1 ELSE 0
    BY LiveAfter
  <2>3. pd_array'[k[1]].items[k[2]] =
          pd_array[k[1]].items[k[2]] + IF k[1] = p /\ k[2] = x THEN 1 ELSE 0
    <3>1. CASE k[1] = p
      BY <1>3, <1>4, <2>1, <3>1 DEF Gains, pd
    <3>2. CASE k[1] # p
      BY <1>4, <2>1, <3>2
    <3> QED BY <3>1, <3>2
  <2> QED BY <2>1, <2>2, <2>3 DEF Behind
<1>7. ASSUME NEW k \in Keys PROVE Covered(k)'
  <2>1. k[1] \in Pds /\ Covered(k)
    BY Types
  <2>2. CASE k[1] = p
    BY <1>3, <1>6, <2>1, <2>2 DEF Covered, pd
  <2>3. CASE k[1] # p
    BY <1>4, <1>5, <1>6, <2>1, <2>3 DEF Covered
  <2> QED BY <2>2, <2>3
<1>8. \A q \in Pds : PDOK(pd_array'[q]) /\ Exact(pd_array'[q])
  <2>1. \A q \in Pds : PDOK(pd_array[q]) /\ Exact(pd_array[q])
    BY DEF IInv, PdsGood
  <2> QED BY <1>3, <1>4, <2>1
<1>9. PdsGood'
  BY <1>4, <1>6, <1>7, <1>8, LiveAfter DEF PdsGood
<1>10. CallGood'
  BY <1>1 DEF IInv, CallGood, tableVars, Inserting
<1>11. Sent' = Sent
  BY <1>6 DEF Sent
<1> QED BY <1>1, <1>5, <1>9, <1>10, <1>11 DEF IInv

(* Whoever leaves a full dictionary is in the table or in hand. *)
LEMMA InsertFullStep ==
  ASSUME IInv, NEW p \in Pds, NEW x \in QR, insert(p, x), insert_full(p, x)
  PROVE  IInv'
<1> DEFINE pd == pd_array[p]
           s == pd_swap_short(x, pd)
           new == s.pd
           qr == s.qr
           val == <<p, qr>>
<1>1. /\ pd_array' = [pd_array EXCEPT ![p] = new] /\ pd_full(pd) /\ pd_array \in [Pds -> PD]
      /\ StartInsert(val) /\ ~Inserting
      /\ IF hold' = empty_slot
           THEN spare_filter' = spare_filter \cup SpareFilterBits[val] /\ spare_val' = spare_val
           ELSE spare_val' = val /\ spare_filter' = spare_filter
      /\ failures' = failures /\ failures < MaxFailures
  BY DEF insert, insert_full, spare_filter_Add, IInv, PdsGood
<1>2. PDOK(pd) /\ Exact(pd)
  BY DEF IInv, PdsGood
<1> HIDE DEF pd
<1>3. /\ PDOK(new) /\ new.overflowed /\ qr \in QR /\ Exact(new)
      /\ \A y \in QR : pd.items[y] + (IF y = x THEN 1 ELSE 0)
                       = new.items[y] + (IF y = qr THEN 1 ELSE 0)
      /\ ~Less(LastItem(pd), LastItem(new))
      /\ ~Less(qr, LastItem(new))
      /\ LastItem(pd) \in QR /\ LastItem(new) \in QR
  <2>1. /\ PDOK(new) /\ pd_full(new) /\ new.overflowed /\ qr \in QR /\ Exact(new)
        /\ \A y \in QR : pd.items[y] + (IF y = x THEN 1 ELSE 0)
                         = new.items[y] + (IF y = qr THEN 1 ELSE 0)
        /\ ~Less(LastItem(pd), LastItem(new))
        /\ ~Less(qr, LastItem(new))
    BY <1>1, <1>2, SwapWhenFull
  <2> HIDE DEF new, qr
  <2>2. LastItem(pd) \in QR /\ LastItem(new) \in QR
    BY <1>1, <1>2, <2>1, FullIsNotEmpty, LastItemType
  <2> QED BY <2>1, <2>2
<1> HIDE DEF s, new, qr
<1>4. /\ pd_array' \in [Pds -> PD] /\ pd_array'[p] = new
      /\ \A q \in Pds : q # p => pd_array'[q] = pd_array[q]
  BY <1>1, <1>3 DEF PDOK
<1>5. val \in Keys /\ val \in Elements
  BY <1>3, TableConstants DEF Keys
<1> HIDE DEF val
<1>6. TableInv' /\ Kept' = Kept \cup {val}
  BY <1>1, <1>5, StartStep DEF IInv
<1>7. BitsAfterCall' = BitsAfterCall \cup SpareFilterBits[val]
  BY <1>1 DEF BitsAfterCall, Inserting
<1>8. ASSUME NEW k \in Keys
      PROVE  /\ Behind(k)'
             /\ live'[k] > pd_array'[k[1]].items[k[2]]
                  <=> k = val \/ live[k] > pd_array[k[1]].items[k[2]]
  <2>1. /\ k[1] \in Pds /\ k[2] \in QR /\ live[k] \in Nat
        /\ pd_array[k[1]].items[k[2]] \in Nat /\ live[k] >= pd_array[k[1]].items[k[2]]
        /\ k = <<k[1], k[2]>>
    BY Types DEF Behind
  <2>2. live'[k] = live[k] + IF k[1] = p /\ k[2] = x THEN 1 ELSE 0
    BY LiveAfter
  <2>3. k = val <=> k[1] = p /\ k[2] = qr
    BY <2>1 DEF val
  <2>4. pd_array[k[1]].items[k[2]] + (IF k[1] = p /\ k[2] = x THEN 1 ELSE 0)
          = pd_array'[k[1]].items[k[2]] + (IF k = val THEN 1 ELSE 0)
    <3>1. CASE k[1] = p
      BY <1>3, <1>4, <2>1, <2>3, <3>1 DEF pd
    <3>2. CASE k[1] # p
      BY <1>4, <2>1, <2>3, <3>2
    <3> QED BY <3>1, <3>2
  <2>5. pd_array'[k[1]].items[k[2]] \in Nat
    BY <1>4, <2>1 DEF PD
  <2> QED BY <2>1, <2>2, <2>4, <2>5 DEF Behind
<1>9. ASSUME NEW k \in Keys PROVE Covered(k)'
  <2>1. k[1] \in Pds /\ k[2] \in QR /\ Covered(k) /\ k = <<k[1], k[2]>>
    BY Types
  <2>2. CASE k = val
    <3>1. k[1] = p /\ k[2] = qr
      BY <2>2 DEF val
    <3> QED BY <1>3, <1>4, <1>7, <2>2, <3>1 DEF Covered
  <2>3. CASE k # val /\ k[1] = p
    <3>1. ASSUME live'[k] > pd_array'[k[1]].items[k[2]]
          PROVE  ~Less(k[2], LastItem(new)) /\ SpareFilterBits[k] \subseteq BitsAfterCall
      <4>1. ~Less(k[2], LastItem(pd)) /\ SpareFilterBits[k] \subseteq BitsAfterCall
        BY <1>8, <2>1, <2>3, <3>1 DEF Covered, pd
      <4> QED BY <1>3, <2>1, <4>1, LessIsTotalOrder
    <3> QED BY <1>3, <1>4, <1>7, <2>3, <3>1 DEF Covered
  <2>4. CASE k # val /\ k[1] # p
    BY <1>4, <1>7, <1>8, <2>1, <2>4 DEF Covered
  <2> QED BY <2>2, <2>3, <2>4
<1>10. \A q \in Pds : PDOK(pd_array'[q]) /\ Exact(pd_array'[q])
  <2>1. \A q \in Pds : PDOK(pd_array[q]) /\ Exact(pd_array[q])
    BY DEF IInv, PdsGood
  <2> QED BY <1>3, <1>4, <2>1
<1>11. PdsGood'
  BY <1>4, <1>8, <1>9, <1>10, LiveAfter DEF PdsGood
<1>12. CallGood'
  BY <1>1, <1>5 DEF IInv, CallGood, Inserting
<1>13. Sent' = Sent \cup {val}
  BY <1>5, <1>8 DEF Sent
<1>14. Sent' \ Kept' \subseteq Sent \ Kept
  BY <1>6, <1>13
<1>15. Cardinality(Sent' \ Kept') <= failures'
  <2>1. IsFiniteSet(Sent \ Kept)
    BY SentFinite, FS_Subset
  <2>2. /\ Cardinality(Sent' \ Kept') <= Cardinality(Sent \ Kept) /\ IsFiniteSet(Sent' \ Kept')
    BY <1>14, <2>1, FS_Subset
  <2>3. Cardinality(Sent' \ Kept') \in Nat /\ Cardinality(Sent \ Kept) \in Nat
    BY <2>1, <2>2, FS_CardinalityType
  <2>4. Cardinality(Sent \ Kept) <= failures /\ failures \in Nat /\ failures' = failures
    BY <1>1, Ver5Assumption DEF IInv, CallGood
  <2> QED BY <2>2, <2>3, <2>4
<1>16. Kept' \subseteq Sent'
  BY <1>6, <1>13 DEF IInv
<1> QED BY <1>6, <1>11, <1>12, <1>15, <1>16 DEF IInv
-----------------------------------------------------------------------------
(* The steps of a call after its first leave the dictionaries alone. *)
LEMMA SameDictionaries ==
  ASSUME PdsGood, pd_array' = pd_array, live' = live, BitsAfterCall' = BitsAfterCall
  PROVE  PdsGood' /\ Sent' = Sent
<1>1. \A q \in Pds : PDOK(pd_array'[q]) /\ Exact(pd_array'[q])
  BY DEF PdsGood
<1>2. \A k \in Keys : Behind(k)' /\ Covered(k)'
  BY DEF PdsGood, Behind, Covered
<1>3. pd_array' \in [Pds -> PD] /\ live' \in [Keys -> Nat]
  BY DEF PdsGood
<1> QED BY <1>1, <1>2, <1>3 DEF PdsGood, Sent

LEMMA KickStep ==
  ASSUME IInv, Swap
  PROVE  IInv' /\ BitsAfterCall' = BitsAfterCall
<1>1. /\ cuckoo_swap /\ pd_array' = pd_array /\ spare_filter' = spare_filter
      /\ spare_val' = spare_val /\ live' = live /\ failures' = failures
  BY DEF Swap
<1>2. TableInv' /\ Kept' = Kept /\ Inserting' /\ Inserting
  BY <1>1, SwapStep DEF IInv, cuckoo_swap
<1>3. BitsAfterCall' = BitsAfterCall
  BY <1>1, <1>2 DEF BitsAfterCall
<1>4. PdsGood' /\ Sent' = Sent
  BY <1>1, <1>3, SameDictionaries DEF IInv
<1>5. CallGood'
  BY <1>1, <1>2 DEF IInv, CallGood
<1> QED BY <1>1, <1>2, <1>3, <1>4, <1>5 DEF IInv

(* The Bloom filter is told of the element of the call, placed or not. *)
LEMMA FinishStep ==
  ASSUME IInv, Finish
  PROVE  IInv' /\ BitsAfterCall' = BitsAfterCall
<1>1. /\ pd_array' = pd_array /\ live' = live /\ spare_val' = empty_slot
      /\ spare_filter' = spare_filter \cup SpareFilterBits[spare_val]
      /\ \/ Place /\ failures' = failures
         \/ Fails /\ failures' = failures + 1
  BY DEF Finish, spare_filter_Add
<1>2. Inserting
  BY <1>1 DEF Place, Fails
<1>3. TableInv' /\ ~Inserting'
  BY <1>1, PlaceStep, FailsStep DEF IInv
<1>4. BitsAfterCall' = BitsAfterCall
  BY <1>1, <1>2, <1>3 DEF BitsAfterCall
<1>5. PdsGood' /\ Sent' = Sent
  BY <1>1, <1>4, SameDictionaries DEF IInv
<1>6. /\ spare_val \in Keys /\ failures < MaxFailures /\ failures \in Nat /\ MaxFailures \in Nat
      /\ spare_filter \subseteq UNION {SpareFilterBits[k] : k \in Keys}
      /\ failures \in 0 .. MaxFailures
  BY <1>2, Ver5Assumption DEF IInv, CallGood
<1>7. CallGood'
  <2>1. spare_filter' \subseteq UNION {SpareFilterBits[k] : k \in Keys}
    BY <1>1, <1>6
  <2>2. failures' \in 0 .. MaxFailures
    BY <1>1, <1>6
  <2> QED BY <1>1, <1>3, <2>1, <2>2 DEF CallGood
<1>8. IsFiniteSet(Sent \ Kept) /\ Cardinality(Sent \ Kept) \in Nat
  BY SentFinite, FS_Subset, FS_CardinalityType
<1>9. Kept' \subseteq Sent' /\ Cardinality(Sent' \ Kept') <= failures'
  <2>1. CASE Place /\ failures' = failures
    BY <1>5, <2>1, PlaceStep DEF IInv
  <2>2. CASE Fails /\ failures' = failures + 1
    <3>1. Kept' = Kept \ {hold} /\ Kept \subseteq Sent /\ Cardinality(Sent \ Kept) <= failures
      BY <2>2, FailsStep DEF IInv
    <3>2. hold \in Kept
      BY <1>2 DEF Kept
    <3>3. Sent' \ Kept' = (Sent \ Kept) \cup {hold}
      BY <1>5, <3>1, <3>2
    <3>4. Cardinality((Sent \ Kept) \cup {hold}) =
            IF hold \in Sent \ Kept THEN Cardinality(Sent \ Kept) ELSE Cardinality(Sent \ Kept) + 1
      BY <1>8, FS_AddElement
    <3>5. Cardinality(Sent' \ Kept') = Cardinality(Sent \ Kept) + 1
      BY <3>2, <3>3, <3>4
    <3>6. Cardinality(Sent' \ Kept') <= failures'
      BY <1>6, <1>8, <2>2, <3>1, <3>5
    <3> QED BY <1>5, <3>1, <3>6
  <2> QED BY <1>1, <2>1, <2>2
<1> QED BY <1>3, <1>4, <1>5, <1>7, <1>9 DEF IInv

LEMMA IdleStep ==
  ASSUME IInv, UNCHANGED vars
  PROVE  IInv' /\ BitsAfterCall' = BitsAfterCall
<1>1. /\ UNCHANGED tableVars /\ pd_array' = pd_array /\ spare_filter' = spare_filter
      /\ spare_val' = spare_val /\ live' = live /\ failures' = failures
  BY DEF vars
<1>2. TableInv' /\ Kept' = Kept /\ (Inserting' <=> Inserting)
  BY <1>1, TableIdle DEF IInv
<1>3. BitsAfterCall' = BitsAfterCall
  BY <1>1, <1>2 DEF BitsAfterCall
<1>4. PdsGood' /\ Sent' = Sent
  BY <1>1, <1>3, SameDictionaries DEF IInv
<1>5. CallGood'
  BY <1>1, <1>2 DEF IInv, CallGood
<1> QED BY <1>1, <1>2, <1>3, <1>4, <1>5 DEF IInv

LEMMA InitIInv == Init => IInv
<1> SUFFICES ASSUME Init PROVE IInv
  OBVIOUS
<1>1. TableInv /\ Kept = {} /\ ~Inserting
  BY TableInitInv DEF Init, TableInit, Inserting
<1>2. \A p \in Pds : pd_array[p] = EmptyPD /\ PDOK(pd_array[p]) /\ Exact(pd_array[p])
  BY EmptyPDOK DEF Init
<1>3. pd_array \in [Pds -> PD] /\ live \in [Keys -> Nat] /\ \A k \in Keys : live[k] = 0
  BY EmptyPDOK DEF Init, PDOK, NoCopies
<1>4. \A k \in Keys : k[1] \in Pds /\ pd_array[k[1]].items[k[2]] = 0
  BY <1>2 DEF EmptyPD, NoCopies, Keys
<1>5. PdsGood
  BY <1>2, <1>3, <1>4 DEF PdsGood, Behind, Covered
<1>6. Sent = {} /\ failures = 0
  BY <1>3, <1>4 DEF Sent, Init
<1>7. CallGood
  BY <1>1, Ver5Assumption DEF CallGood, Init
<1> QED BY <1>1, <1>5, <1>6, <1>7, FS_EmptySet DEF IInv

LEMMA NextIInv == IInv /\ [Next]_vars => IInv'
<1> SUFFICES ASSUME IInv, [Next]_vars PROVE IInv'
  OBVIOUS
<1>1. ASSUME NEW k \in Keys, insert(k[1], k[2]) PROVE IInv'
  <2>1. k[1] \in Pds /\ k[2] \in QR
    BY Types
  <2> QED BY <1>1, <2>1, InsertNotFullStep, InsertFullStep DEF insert
<1>2. CASE Swap
  BY <1>2, KickStep
<1>3. CASE Finish
  BY <1>3, FinishStep
<1>4. CASE UNCHANGED vars
  BY <1>4, IdleStep
<1> QED BY <1>1, <1>2, <1>3, <1>4 DEF Next

(* The invariant holds in every state of every behaviour of the filter. *)
THEOREM Inductive == Spec => []IInv
<1> QED BY InitIInv, NextIInv, PTL DEF Spec
-----------------------------------------------------------------------------
(* TypeOK: the variables keep their types; the count fits the table. *)
THEOREM TypeCorrect == Spec => []TypeOK
<1>1. IInv => TypeOK
  <2> SUFFICES ASSUME IInv PROVE TypeOK
    OBVIOUS
  <2>1. Table \in Tables /\ capacity \in 0 .. Cardinality(Cells)
    BY OccupiedCount DEF IInv, TableInv, Placed
  <2>2. TableTypeOK
    BY <2>1 DEF IInv, TableInv, TableTypeOK, Tables
  <2>3. Inserting <=> spare_val # empty_slot
    BY TableConstants DEF IInv, CallGood
  <2> QED BY <2>2, <2>3 DEF IInv, PdsGood, CallGood, TypeOK
<1> QED BY <1>1, Inductive, PTL

(* SpareKeepsSent: kicks and failures leave the table a set of what was sent *)
(* to it, that lacks at most one element a failure.                          *)
THEOREM KeepsWhatWasSent == Spec => []SpareKeepsSent
<1>1. IInv => SpareKeepsSent
  <2> SUFFICES ASSUME IInv PROVE SpareKeepsSent
    OBVIOUS
  <2>1. Contents = ContentsOf(Table) /\ Occupied(Table) = {c \in Cells : Table[c] # empty_slot}
    BY DEF Contents, ContentsOf, Occupied
  <2>2. TableInv /\ Placed(Table)
    BY DEF IInv, TableInv
  <2>3. capacity = Cardinality(Occupied(Table)) /\ capacity = Cardinality(Contents)
    BY <2>1, <2>2, ContentsCount DEF TableInv
  <2>4. ASSUME NEW k \in Contents PROVE find(k) /\ k # hold
    <3>1. k \in Elements /\ k \in ContentsOf(Table) /\ k # empty_slot
      BY <2>1, <2>2 DEF ContentsOf, Placed, Tables
    <3> QED BY <2>2, <3>1, FindIs DEF TableInv, Inserting
  <2>5. Kept \subseteq Sent /\ Cardinality(Sent \ Kept) <= failures
    BY DEF IInv
  <2> QED BY <2>1, <2>3, <2>4, <2>5 DEF SpareKeepsSent, Kept
<1> QED BY <1>1, Inductive, PTL

(* What a dictionary says of a fingerprint, and when the other level is asked. *)
LEMMA AtDictionary ==
  ASSUME IInv, NEW k \in Keys
  PROVE  LET pd == pd_array[k[1]]
         IN  /\ cmp_qr1(k[2], pd) => pd.items[k[2]] = 0 /\ pd.overflowed
             /\ ~cmp_qr1(k[2], pd) => (live[k] > 0 <=> pd.items[k[2]] > 0)
             /\ pd.overflowed => LastItem(pd) \in QR /\ Quot(LastItem(pd)) = pd.last_quot
             /\ live[k] >= pd.items[k[2]] /\ live[k] \in Nat /\ pd.items[k[2]] \in Nat
<1> DEFINE pd == pd_array[k[1]]
<1>1. /\ PDOK(pd) /\ Exact(pd) /\ k[2] \in QR
      /\ live[k] > pd.items[k[2]] =>
           pd.overflowed /\ ~Less(k[2], LastItem(pd))
      /\ live[k] >= pd.items[k[2]] /\ live[k] \in Nat /\ pd.items[k[2]] \in Nat
  BY Types DEF Behind, Covered
<1> HIDE DEF pd
<1>2. ASSUME pd.overflowed
      PROVE  /\ LastItem(pd) \in QR /\ pd.items[LastItem(pd)] > 0
             /\ Quot(LastItem(pd)) = pd.last_quot
             /\ \A y \in QR : pd.items[y] > 0 => ~Less(LastItem(pd), y)
  <2>1. /\ LastItem(pd) \in QR /\ LastItem(pd) \in Held(pd)
        /\ Quot(LastItem(pd)) = pd.last_quot
        /\ \A y \in Held(pd) : ~Less(LastItem(pd), y)
    BY <1>1, <1>2, FullIsNotEmpty, LastItemType DEF PDOK
  <2>2. \A y \in QR : y \in Held(pd) <=> pd.items[y] > 0
    BY <1>1, HeldIsFingerprints DEF Held, PDOK, PD
  <2> QED BY <2>1, <2>2
<1>3. ASSUME cmp_qr1(k[2], pd) PROVE pd.items[k[2]] = 0 /\ pd.overflowed
  BY <1>1, <1>2, <1>3 DEF cmp_qr1
<1>4. ASSUME ~cmp_qr1(k[2], pd), live[k] > 0 PROVE pd.items[k[2]] > 0
  <2> SUFFICES ASSUME pd.items[k[2]] = 0 PROVE FALSE
    BY <1>1
  <2>1. pd.overflowed /\ ~Less(k[2], LastItem(pd)) /\ ~Less(LastItem(pd), k[2])
    BY <1>1, <1>4 DEF cmp_qr1
  <2>2. k[2] = LastItem(pd)
    BY <1>1, <1>2, <2>1, LessIsTotalOrder
  <2> QED BY <1>2, <2>1, <2>2
<1> QED BY <1>1, <1>2, <1>3, <1>4 DEF pd

(* BranchIsExact: until the first failure, the lookup in the table is exact. *)
THEOREM ExactUntilFailure == Spec => []BranchIsExact
<1>1. IInv => BranchIsExact
  <2> SUFFICES ASSUME IInv, failures = 0, ~Inserting, NEW k \in Keys
               PROVE  lookup_branch(k) <=> live[k] > 0
    BY DEF BranchIsExact
  <2> DEFINE pd == pd_array[k[1]]
  <2>1. Sent = ContentsOf(Table)
    <3>1. IsFiniteSet(Sent \ Kept) /\ Cardinality(Sent \ Kept) \in Nat
      BY SentFinite, FS_Subset, FS_CardinalityType
    <3>2. Sent \ Kept = {}
      BY <3>1, FS_EmptySet DEF IInv
    <3> QED BY <3>2 DEF IInv, Kept
  <2>2. find(k) <=> live[k] > pd.items[k[2]]
    <3>1. find(k) <=> k \in ContentsOf(Table)
      BY FindIs, TableConstants DEF IInv, TableInv
    <3> QED BY <2>1, <3>1 DEF Sent
  <2>3. /\ cmp_qr1(k[2], pd) => pd.items[k[2]] = 0 /\ pd.overflowed
        /\ ~cmp_qr1(k[2], pd) => (live[k] > 0 <=> pd.items[k[2]] > 0)
        /\ pd.overflowed => LastItem(pd) \in QR /\ Quot(LastItem(pd)) = pd.last_quot
        /\ k[2] \in QR
    BY AtDictionary, Types
  <2>4. lookup_branch(k) <=> IF cmp_qr1(k[2], pd) THEN find(k) ELSE pd.items[k[2]] > 0
    <3> HIDE DEF pd
    <3>1. CASE ~pd.overflowed
      BY <3>1 DEF lookup_branch, pd, cmp_qr1, pd_find_25
    <3>2. CASE pd.overflowed
      <4>1. \/ pd.last_quot > Quot(k[2])
            \/ pd.last_quot = Quot(k[2]) /\ Rem(LastItem(pd)) >= Rem(k[2])
            <=> ~Less(LastItem(pd), k[2])
        BY <2>3, <3>2, QuotRem DEF Less
      <4> QED BY <3>2, <4>1 DEF lookup_branch, pd, cmp_qr1, pd_find_25
    <3> QED BY <3>1, <3>2
  <2> QED BY <2>2, <2>3, <2>4
<1> QED BY <1>1, Inductive, PTL
-----------------------------------------------------------------------------
Positive == {k \in Keys : lookup(BitsAfterCall, k)}

NoFalseNegatives == \A k \in Keys : live[k] > 0 => k \in Positive

(* What is in is found, by the dictionary or the Bloom filter. *)
LEMMA FindsWhatIsIn == IInv => NoFalseNegatives
<1> SUFFICES ASSUME IInv, NEW k \in Keys, live[k] > 0 PROVE k \in Positive
  BY DEF NoFalseNegatives
<1> DEFINE pd == pd_array[k[1]]
<1>1. /\ cmp_qr1(k[2], pd) => pd.items[k[2]] = 0
      /\ ~cmp_qr1(k[2], pd) => pd.items[k[2]] > 0
  BY AtDictionary
<1>2. live[k] > pd.items[k[2]] => SpareFilterBits[k] \subseteq BitsAfterCall
  BY Types DEF Covered
<1> QED BY <1>1, <1>2 DEF Positive, lookup, Find, pd_find_25

(* An insertion leaves what is past a dictionary's last element past it. *)
LEMMA InsertKeepsPast ==
  ASSUME IInv, NEW p \in Pds, NEW x \in QR, insert(p, x),
         NEW k \in Keys, cmp_qr1(k[2], pd_array[k[1]])
  PROVE  cmp_qr1(k[2], pd_array'[k[1]])
<1> DEFINE pd == pd_array[p]
<1>1. PDOK(pd) /\ Exact(pd) /\ pd_array \in [Pds -> PD] /\ k[1] \in Pds /\ k[2] \in QR
  BY Types DEF IInv, PdsGood
<1>2. CASE insert_not_full(p, x)
  <2>1. pd_array' = [pd_array EXCEPT ![p] = pd_add_50_not_full(x, pd)] /\ ~pd_full(pd)
    BY <1>2 DEF insert_not_full
  <2>2. ~pd.overflowed
    BY <1>1, <2>1 DEF PDOK
  <2> QED BY <1>1, <2>1, <2>2 DEF cmp_qr1
<1>3. CASE insert_full(p, x)
  <2> DEFINE s == pd_swap_short(x, pd)
             new == s.pd
  <2>1. pd_array' = [pd_array EXCEPT ![p] = new] /\ pd_full(pd)
    BY <1>3 DEF insert_full
  <2> HIDE DEF pd
  <2>2. /\ PDOK(new) /\ pd_full(new) /\ new.overflowed
        /\ ~Less(LastItem(pd), LastItem(new))
    BY <1>1, <2>1, SwapWhenFull
  <2> HIDE DEF s, new
  <2>3. LastItem(pd) \in QR /\ LastItem(new) \in QR
    BY <1>1, <2>1, <2>2, FullIsNotEmpty, LastItemType
  <2>4. CASE k[1] = p
    <3>1. Less(LastItem(pd), k[2])
      BY <2>4 DEF cmp_qr1, pd
    <3>2. Less(LastItem(new), k[2])
      BY <1>1, <2>2, <2>3, <3>1, LessIsTotalOrder
    <3> QED BY <1>1, <2>1, <2>2, <2>4, <3>2 DEF cmp_qr1
  <2>5. CASE k[1] # p
    BY <1>1, <2>1, <2>5
  <2> QED BY <2>4, <2>5
<1> QED BY <1>2, <1>3 DEF insert

(* KeepsPromise: no false negatives, and no insertion turns a yes into a no, *)
(* whatever the table's kicks and failures do to its contents.               *)
THEOREM Implements == Spec => KeepsPromise
<1>1. Init /\ IInv => Promise!Init
  <2> SUFFICES ASSUME Init, IInv PROVE Promise!Init
    OBVIOUS
  <2>1. ASSUME NEW k \in Keys PROVE ~lookup(BitsAfterCall, k)
    BY DEF Keys, Init, lookup, cmp_qr1, pd_find_25, EmptyPD, NoCopies
  <2> QED BY <2>1 DEF Init, Promise!Init, NoCopies
<1>2. IInv /\ IInv' /\ [Next]_vars => [Promise!Next]_(Promise!vars)
  <2> SUFFICES ASSUME IInv, IInv', [Next]_vars PROVE [Promise!Next]_(Promise!vars)
    OBVIOUS
  <2>1. \A k \in Keys : live'[k] > 0 => k \in Positive'
    <3>1. NoFalseNegatives'
      BY FindsWhatIsIn, PTL
    <3> QED BY <3>1 DEF NoFalseNegatives
  <2>2. ASSUME NEW e \in Keys, insert(e[1], e[2]) PROVE Promise!Next
    <3>1. e[1] \in Pds /\ e[2] \in QR /\ e = <<e[1], e[2]>>
      BY Types
    <3>2. live' = [live EXCEPT ![e] = @ + 1]
      BY <2>2, <3>1 DEF insert, AddCopy
    <3>3. ASSUME NEW k \in Keys, k \in Positive PROVE k \in Positive'
      <4>1. CASE live[k] > 0
        <5>1. live'[k] > 0
          BY <2>2, <3>1, <4>1, LiveAfter, Types
        <5> QED BY <2>1, <5>1
      <4>2. CASE ~(live[k] > 0)
        <5>1. cmp_qr1(k[2], pd_array[k[1]]) /\ SpareFilterBits[k] \subseteq BitsAfterCall
          BY <3>3, <4>2, AtDictionary DEF Positive, lookup, Find, pd_find_25
        <5>2. cmp_qr1(k[2], pd_array'[k[1]])
          BY <2>2, <3>1, <5>1, InsertKeepsPast
        <5>3. BitsAfterCall \subseteq BitsAfterCall'
          BY <2>2 DEF BitsAfterCall, insert, insert_not_full, insert_full, spare_filter_Add
        <5> QED BY <5>1, <5>2, <5>3 DEF Positive, lookup, Find
      <4> QED BY <4>1, <4>2
    <3>4. e \in Positive'
      <4>1. live'[e] > 0
        BY <2>2, <3>1, LiveAfter, Types
      <4> QED BY <2>1, <4>1
    <3>5. Promise!Insert(e)
      BY <3>2, <3>3, <3>4 DEF Promise!Insert, Positive
    <3> QED BY <3>5 DEF Promise!Next
  <2>3. ASSUME live' = live, pd_array' = pd_array, BitsAfterCall' = BitsAfterCall
        PROVE  UNCHANGED Promise!vars
    BY <2>3 DEF Promise!vars, lookup
  <2>4. CASE Swap
    BY <2>3, <2>4, KickStep DEF Swap
  <2>5. CASE Finish
    BY <2>3, <2>5, FinishStep DEF Finish
  <2>6. CASE UNCHANGED vars
    BY <2>3, <2>6, IdleStep DEF vars
  <2> QED BY <2>2, <2>4, <2>5, <2>6 DEF Next
<1> QED BY <1>1, <1>2, Inductive, PTL DEF Spec, Promise!Spec, KeepsPromise
=============================================================================
