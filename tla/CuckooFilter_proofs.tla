------------------------ MODULE CuckooFilter_proofs ------------------------
(***************************************************************************)
(* The cuckoo filter loses no tag, answers exactly by fingerprint, and     *)
(* implements ApproxSet, whatever rand() kicks out and for every number of *)
(* buckets, cells, tags and kicks.                                         *)
(*                                                                         *)
(* Conservation is not inductive alone.  It needs that no victim exists    *)
(* while a tag is in flight, for there is one place for both; and          *)
(* VictimHasNoRoom needs that the bucket the loop comes from is full.      *)
(***************************************************************************)
EXTENDS CuckooFilter, FiniteSetTheorems, WellFoundedInduction, TLAPS

-----------------------------------------------------------------------------
(***************************************************************************)
(* What writing a cell of the table does to the copies of each tag, and an *)
(* item that comes or goes to what a client has in.                        *)
(***************************************************************************)
Tables == [Cells -> 0 .. MaxTag]

LEMMA Constants ==
  /\ Buckets \subseteq Nat /\ Slots \subseteq Nat /\ Tags \subseteq Nat
  /\ Tags \subseteq 0 .. MaxTag /\ 0 \notin Tags
  /\ 0 \in Buckets /\ 0 \in Slots /\ 0 \in 0 .. MaxTag
  /\ IsFiniteSet(Cells)
  /\ \A t \in 0 .. MaxTag : t # 0 => t \in Tags
<1>1. IsFiniteSet(Buckets) /\ IsFiniteSet(Slots)
  BY SizesAreNatural, FS_Interval DEF Buckets, Slots
<1>2. IsFiniteSet(Cells)
  BY <1>1, FS_Product DEF Cells
<1> QED BY <1>2, SizesAreNatural DEF Buckets, Slots, Tags

LEMMA AltIndexBack ==
  ASSUME NEW i \in Buckets, NEW t \in Tags
  PROVE  AltIndex(i, t) \in Buckets /\ AltIndex(AltIndex(i, t), t) = i
BY AltIndexIsInvolution

(* The two buckets of a tag form a pair. *)
LEMMA Pairs ==
  ASSUME NEW i \in Buckets, NEW b \in Buckets, NEW t \in Tags
  PROVE  AltIndex(i, t) \in {b, AltIndex(b, t)} <=> i \in {b, AltIndex(b, t)}
BY AltIndexBack

LEMMA ItemTypes ==
  ASSUME NEW item \in Items
  PROVE  IndexOf(item) \in Buckets /\ TagOf(item) \in Tags
BY SizesAreNatural DEF Items, IndexOf, TagOf, TagHash, Tags

(* Sets that agree but for one element differ by one, or not at all. *)
LEMMA ExchangeOne ==
  ASSUME NEW S, NEW T, NEW x, IsFiniteSet(S), IsFiniteSet(T), S \ {x} = T \ {x}
  PROVE  Cardinality(T) = Cardinality(S) + One(x \in T) - One(x \in S)
<1>1. /\ Cardinality(S) \in Nat /\ Cardinality(T) \in Nat
  BY FS_CardinalityType
<1>2. Cardinality(S \ {x}) = Cardinality(S) - One(x \in S)
  BY <1>1, FS_RemoveElement DEF One
<1>3. Cardinality(T \ {x}) = Cardinality(T) - One(x \in T)
  BY <1>1, FS_RemoveElement DEF One
<1>4. Cardinality(S) - One(x \in S) = Cardinality(T) - One(x \in T)
  BY <1>2, <1>3
<1>5. One(x \in S) \in Int /\ One(x \in T) \in Int
  BY DEF One
<1> QED BY <1>1, <1>4, <1>5

(* Every nonempty set of naturals has a least member. *)
LEMMA LeastSlot ==
  ASSUME NEW T \in SUBSET Nat, T # {}
  PROVE  \E n \in T : \A m \in T : n <= m
<1> DEFINE R == {ss \in Nat \X Nat : ss[1] < ss[2]}
<1>1. IsWellFoundedOn(R, Nat)
  BY NatLessThanWellFounded DEF OpToRel
<1>2. PICK n \in T : \A m \in T : <<m, n>> \notin R
  <2> HIDE DEF R
  <2> QED BY <1>1, WFMin
<1>3. ASSUME NEW m \in T, m < n PROVE FALSE
  <2>1. <<m, n>> \in R
    BY <1>3
  <2> QED BY <1>2, <2>1
<1> QED BY <1>3

LEMMA FirstSlotHolds ==
  ASSUME NEW table, NEW i, NEW tag, Holds(table, i, tag)
  PROVE  FirstSlot(table, i, tag) \in Slots /\ table[<<i, FirstSlot(table, i, tag)>>] = tag
<1> DEFINE T == {j \in Slots : table[<<i, j>>] = tag}
<1>1. T \in SUBSET Nat /\ T # {}
  BY Constants DEF Holds
<1>2. \E n \in T : \A m \in T : n <= m
  <2> HIDE DEF T
  <2> QED BY <1>1, LeastSlot
<1> QED BY <1>2 DEF FirstSlot

(***************************************************************************)
(* Writing one cell.                                                       *)
(***************************************************************************)
LEMMA WriteType ==
  ASSUME NEW table \in Tables, NEW i \in Buckets, NEW j \in Slots, NEW new \in 0 .. MaxTag
  PROVE  /\ WriteTag(table, i, j, new) \in Tables
         /\ <<i, j>> \in Cells
         /\ table[<<i, j>>] \in 0 .. MaxTag
         /\ WriteTag(table, i, j, new)[<<i, j>>] = new
         /\ \A c \in Cells : c # <<i, j>> => WriteTag(table, i, j, new)[c] = table[c]
BY DEF WriteTag, Tables, Cells

LEMMA WriteCopies ==
  ASSUME NEW table \in Tables, NEW i \in Buckets, NEW j \in Slots, NEW new \in 0 .. MaxTag,
         NEW b \in Buckets, NEW t \in Tags
  PROVE  Copies(WriteTag(table, i, j, new), b, t) =
           Copies(table, b, t)
             + One(new = t /\ i \in {b, AltIndex(b, t)})
             - One(table[<<i, j>>] = t /\ i \in {b, AltIndex(b, t)})
<1> DEFINE x == <<i, j>>
           W == WriteTag(table, i, j, new)
           S == Holding(table, b, t)
           T == Holding(W, b, t)
<1>1. IsFiniteSet(S) /\ IsFiniteSet(T)
  BY Constants, FS_Subset DEF Holding
<1>2. /\ x \in Cells /\ x[1] = i /\ W[x] = new
      /\ \A c \in Cells : c # x => W[c] = table[c]
  BY WriteType
<1>3. S \ {x} = T \ {x}
  BY <1>2 DEF Holding
<1>4. /\ x \in T <=> (new = t /\ i \in {b, AltIndex(b, t)})
      /\ x \in S <=> (table[x] = t /\ i \in {b, AltIndex(b, t)})
  BY <1>2 DEF Holding
<1>5. Cardinality(T) = Cardinality(S) + One(x \in T) - One(x \in S)
  <2> HIDE DEF S, T, x, W
  <2> QED BY <1>1, <1>3, ExchangeOne
<1>6. /\ One(x \in T) = One(new = t /\ i \in {b, AltIndex(b, t)})
      /\ One(x \in S) = One(table[x] = t /\ i \in {b, AltIndex(b, t)})
  BY <1>4 DEF One
<1> QED BY <1>5, <1>6 DEF Copies

LEMMA WriteOccupied ==
  ASSUME NEW table \in Tables, NEW i \in Buckets, NEW j \in Slots, NEW new \in 0 .. MaxTag
  PROVE  Cardinality(Occupied(WriteTag(table, i, j, new))) =
           Cardinality(Occupied(table)) + One(new # 0) - One(table[<<i, j>>] # 0)
<1> DEFINE x == <<i, j>>
           W == WriteTag(table, i, j, new)
           S == Occupied(table)
           T == Occupied(W)
<1>1. IsFiniteSet(S) /\ IsFiniteSet(T)
  BY Constants, FS_Subset DEF Occupied
<1>2. /\ x \in Cells /\ W[x] = new
      /\ \A c \in Cells : c # x => W[c] = table[c]
  BY WriteType
<1>3. S \ {x} = T \ {x}
  BY <1>2 DEF Occupied
<1>4. (x \in T <=> new # 0) /\ (x \in S <=> table[x] # 0)
  BY <1>2 DEF Occupied
<1>5. Cardinality(T) = Cardinality(S) + One(x \in T) - One(x \in S)
  <2> HIDE DEF S, T, x, W
  <2> QED BY <1>1, <1>3, ExchangeOne
<1>6. One(x \in T) = One(new # 0) /\ One(x \in S) = One(table[x] # 0)
  BY <1>4 DEF One
<1> QED BY <1>5, <1>6

LEMMA CopiesType ==
  ASSUME NEW table \in Tables, NEW b \in Buckets, NEW t \in Tags
  PROVE  /\ Copies(table, b, t) \in Nat
         /\ Copies(table, b, t) > 0 <=> FindTagInBuckets(table, b, AltIndex(b, t), t)
<1>1. IsFiniteSet(Holding(table, b, t))
  BY Constants, FS_Subset DEF Holding
<1>2. ASSUME NEW c \in Holding(table, b, t)
      PROVE  FindTagInBuckets(table, b, AltIndex(b, t), t)
  <2>1. c \in Cells /\ c[1] \in {b, AltIndex(b, t)} /\ table[c] = t
    BY DEF Holding
  <2>2. c = <<c[1], c[2]>> /\ c[2] \in Slots
    BY <2>1 DEF Cells
  <2>3. table[<<c[1], c[2]>>] = t
    BY <2>1, <2>2
  <2>4. Holds(table, c[1], t)
    BY <2>2, <2>3 DEF Holds
  <2> QED BY <2>1, <2>4 DEF FindTagInBuckets
<1>3. ASSUME NEW a \in {b, AltIndex(b, t)}, Holds(table, a, t)
      PROVE  Holding(table, b, t) # {}
  <2>1. PICK j \in Slots : table[<<a, j>>] = t
    BY <1>3 DEF Holds
  <2>2. <<a, j>> \in Cells /\ <<a, j>>[1] = a
    BY AltIndexBack DEF Cells
  <2>3. <<a, j>> \in Holding(table, b, t)
    BY <2>1, <2>2 DEF Holding
  <2> QED BY <2>3
<1>4. Holding(table, b, t) # {} <=> FindTagInBuckets(table, b, AltIndex(b, t), t)
  BY <1>2, <1>3 DEF FindTagInBuckets
<1> QED BY <1>1, <1>4, FS_CardinalityType, FS_EmptySet DEF Copies

LEMMA OccupiedType ==
  ASSUME NEW table \in Tables
  PROVE  /\ Cardinality(Occupied(table)) \in Nat
         /\ \A c \in Cells : table[c] # 0 => Cardinality(Occupied(table)) > 0
<1>1. IsFiniteSet(Occupied(table))
  BY Constants, FS_Subset DEF Occupied
<1>2. \A c \in Cells : table[c] # 0 => Occupied(table) # {}
  BY DEF Occupied
<1> QED BY <1>1, <1>2, FS_CardinalityType, FS_EmptySet

LEMMA EmptyTableIsEmpty ==
  /\ EmptyTable \in Tables
  /\ Cardinality(Occupied(EmptyTable)) = 0
  /\ \A b \in Buckets, t \in Tags : Copies(EmptyTable, b, t) = 0
<1>1. EmptyTable \in Tables /\ Occupied(EmptyTable) = {}
  BY Constants DEF EmptyTable, Tables, Occupied
<1>2. \A b \in Buckets, t \in Tags : Holding(EmptyTable, b, t) = {}
  BY Constants DEF EmptyTable, Holding
<1> QED BY <1>1, <1>2, FS_EmptySet DEF Copies

(***************************************************************************)
(* What the client has in.                                                 *)
(***************************************************************************)
LEMMA LiveTagsType ==
  ASSUME NEW held \in [Items -> Nat], NEW b \in Buckets, NEW t \in Tags
  PROVE  /\ LiveAt(held, b, t) \in Nat
         /\ LiveTags(held, b, t) \in Nat
<1>1. \A c \in Buckets : LiveAt(held, c, t) \in Nat
  BY Constants DEF LiveAt, Items
<1> QED BY <1>1, AltIndexBack DEF LiveTags

LEMMA LiveAtChanges ==
  ASSUME NEW held \in [Items -> Nat], NEW item \in Items, NEW d \in Int,
         NEW b \in Buckets, NEW t \in Tags
  PROVE  LiveAt([held EXCEPT ![item] = @ + d], b, t) =
           LiveAt(held, b, t) + (IF TagOf(item) = t /\ IndexOf(item) = b THEN d ELSE 0)
<1> DEFINE l == [held EXCEPT ![item] = @ + d]
<1>1. /\ <<b, t>> \in Items /\ <<b, 0>> \in Items /\ t # 0
      /\ held[<<b, t>>] \in Nat /\ held[<<b, 0>>] \in Nat
  BY Constants DEF Items
<1>2. \A k \in Items : l[k] = held[k] + (IF k = item THEN d ELSE 0)
  OBVIOUS
<1>3. /\ l[<<b, t>>] = held[<<b, t>>] + (IF <<b, t>> = item THEN d ELSE 0)
      /\ l[<<b, 0>>] = held[<<b, 0>>] + (IF <<b, 0>> = item THEN d ELSE 0)
  BY <1>1, <1>2
<1>4. item = <<item[1], item[2]>> /\ item[2] \in Nat
  BY SizesAreNatural DEF Items
<1>5. TagOf(item) = t /\ IndexOf(item) = b <=>
        \/ <<b, t>> = item
        \/ <<b, 0>> = item /\ t = TagHash(0)
  BY <1>1, <1>4 DEF TagOf, IndexOf, TagHash
<1>6. ~(<<b, t>> = item /\ <<b, 0>> = item)
  BY <1>1
<1> QED
  <2> HIDE DEF l
  <2>1. LiveAt(l, b, t) = l[<<b, t>>] + (IF t = TagHash(0) THEN l[<<b, 0>>] ELSE 0)
    BY DEF LiveAt
  <2>2. LiveAt(held, b, t) = held[<<b, t>>] + (IF t = TagHash(0) THEN held[<<b, 0>>] ELSE 0)
    BY DEF LiveAt
  <2>3. LiveAt(l, b, t) =
          LiveAt(held, b, t) + (IF TagOf(item) = t /\ IndexOf(item) = b THEN d ELSE 0)
    BY <1>1, <1>3, <1>5, <1>6, <2>1, <2>2
  <2> QED BY <2>3 DEF l

(* The client gets d more copies of an item. *)
Gains(held, l, item, d) == l = [held EXCEPT ![item] = @ + d]

LEMMA LiveTagsChange ==
  ASSUME NEW held \in [Items -> Nat], NEW item \in Items, NEW d \in Int,
         NEW l, Gains(held, l, item, d),
         NEW b \in Buckets, NEW t \in Tags
  PROVE  LiveTags(l, b, t) =
           LiveTags(held, b, t)
             + (IF TagOf(item) = t /\ IndexOf(item) \in {b, AltIndex(b, t)} THEN d ELSE 0)
<1> DEFINE a == AltIndex(b, t)
<1>1. a \in Buckets
  BY AltIndexBack
<1> USE DEF Gains
<1>2. /\ LiveAt(l, b, t) = LiveAt(held, b, t) + (IF TagOf(item) = t /\ IndexOf(item) = b THEN d ELSE 0)
      /\ LiveAt(l, a, t) = LiveAt(held, a, t) + (IF TagOf(item) = t /\ IndexOf(item) = a THEN d ELSE 0)
  <2> HIDE DEF a
  <2> QED BY ZenonT(30), <1>1, LiveAtChanges
<1>3. LiveAt(held, b, t) \in Nat /\ LiveAt(held, a, t) \in Nat
  <2> HIDE DEF a
  <2> QED BY <1>1, LiveTagsType
<1>4. /\ LiveTags(l, b, t) = LiveAt(l, b, t) + (IF a = b THEN 0 ELSE LiveAt(l, a, t))
      /\ LiveTags(held, b, t) = LiveAt(held, b, t) + (IF a = b THEN 0 ELSE LiveAt(held, a, t))
  BY DEF LiveTags
<1>5. LiveTags(l, b, t) =
        LiveTags(held, b, t) + (IF TagOf(item) = t /\ IndexOf(item) \in {b, a} THEN d ELSE 0)
  <2> HIDE DEF a
  <2> QED BY <1>2, <1>3, <1>4
<1> QED BY <1>5

(* An item that is in counts for its fingerprint. *)
LEMMA LiveItemCounts ==
  ASSUME NEW held \in [Items -> Nat], NEW item \in Items, held[item] > 0
  PROVE  LiveTags(held, IndexOf(item), TagOf(item)) > 0
<1> DEFINE b == IndexOf(item)
           t == TagOf(item)
<1>1. b \in Buckets /\ t \in Tags
  BY ItemTypes
<1>2. /\ <<b, t>> \in Items /\ <<b, 0>> \in Items
      /\ held[<<b, t>>] \in Nat /\ held[<<b, 0>>] \in Nat
  BY <1>1, Constants DEF Items
<1>3. \/ item = <<b, t>>
      \/ item = <<b, 0>> /\ t = TagHash(0)
  BY SizesAreNatural DEF Items, IndexOf, TagOf, TagHash
<1>4. LiveAt(held, b, t) > 0
  <2> HIDE DEF b, t
  <2> QED BY <1>2, <1>3 DEF LiveAt
<1>5. LiveAt(held, AltIndex(b, t), t) \in Nat /\ LiveAt(held, b, t) \in Nat
  <2> HIDE DEF b, t
  <2> QED BY <1>1, AltIndexBack, LiveTagsType
<1> QED
  <2> HIDE DEF b, t
  <2>1. LiveTags(held, b, t) > 0
    BY <1>4, <1>5 DEF LiveTags
  <2> QED BY <2>1 DEF b, t

-----------------------------------------------------------------------------

(* What the loop keeps. *)
LoopInv ==
  Running => /\ ~victim_.used
             /\ count > 0 => ~Holds(table_, AltIndex(curindex, curtag), 0)

IInv ==
  /\ StateTypes
  /\ Conservation
  /\ SizeCountsCells
  /\ VictimHasNoRoom
  /\ LoopInv

Present(b, t) ==
  Copies(table_, b, t) + One(IsVictim(b, AltIndex(b, t), t)) + One(InFlight(b, t))

LEMMA ConservationIsPresence ==
  Conservation <=> \A b \in Buckets, t \in Tags : Present(b, t) = LiveTags(live, b, t)
BY DEF Conservation, Present

LEMMA Types ==
  ASSUME StateTypes
  PROVE  /\ table_ \in Tables
         /\ num_items_ \in Nat /\ count \in 0 .. kMaxCuckooCount /\ count \in Nat
         /\ curindex \in Buckets /\ curtag \in 0 .. MaxTag
         /\ Running => curtag \in Tags
         /\ victim_ \in [index : Buckets, tag : 0 .. MaxTag, used : BOOLEAN]
         /\ victim_.used => victim_.tag \in Tags
         /\ live \in [Items -> Nat]
         /\ \A b \in Buckets, t \in Tags : Copies(table_, b, t) \in Nat
         /\ \A b \in Buckets, t \in Tags : LiveTags(live, b, t) \in Nat
BY KicksAreNatural, CopiesType, LiveTagsType DEF StateTypes, Tables, Running

(***************************************************************************)
(* The loop.                                                               *)
(***************************************************************************)
LEMMA StoreTagStep == ASSUME IInv, StoreTag PROVE IInv'
<1> USE DEF IInv
<1> DEFINE j == FirstSlot(table_, curindex, 0)
<1>1. /\ Running /\ ~victim_.used
      /\ curindex \in Buckets /\ curtag \in Tags /\ curtag \in 0 .. MaxTag
      /\ table_ \in Tables /\ num_items_ \in Nat
  BY Types DEF StoreTag, InLoop, LoopInv
<1>2. j \in Slots /\ table_[<<curindex, j>>] = 0
  BY FirstSlotHolds DEF StoreTag
<1>3. table_' = WriteTag(table_, curindex, j, curtag)
  BY DEF StoreTag, InsertTagToEmpty
<1>4. UNCHANGED <<victim_, live>> /\ status' = "Ok" /\ num_items_' = num_items_ + 1
      /\ curindex' = 0 /\ curtag' = 0 /\ count' = 0
  BY DEF StoreTag, Return
<1> HIDE DEF j
<1>5. StateTypes'
  <2>1. table_' \in Tables
    BY <1>1, <1>2, <1>3, WriteType
  <2> QED BY <2>1, <1>1, <1>4, Constants, KicksAreNatural DEF StateTypes, Tables, Running
<1>6. ASSUME NEW b \in Buckets, NEW t \in Tags PROVE Present(b, t)' = LiveTags(live, b, t)'
  <2>1. Copies(table_, b, t)' =
          Copies(table_, b, t) + One(curtag = t /\ curindex \in {b, AltIndex(b, t)})
  <3>1. ~(table_[<<curindex, j>>] = t)
    BY <1>2, Constants
  <3>2. One(table_[<<curindex, j>>] = t /\ curindex \in {b, AltIndex(b, t)}) = 0
    BY <3>1 DEF One
  <3>3. Copies(table_, b, t)' =
          Copies(table_, b, t) + One(curtag = t /\ curindex \in {b, AltIndex(b, t)}) - 0
    BY <1>1, <1>2, <1>3, <3>2, WriteCopies
  <3>4. Copies(table_, b, t) \in Nat /\ One(curtag = t /\ curindex \in {b, AltIndex(b, t)}) \in Nat
    BY <1>1, CopiesType DEF One
  <3> QED BY <3>3, <3>4
  <2>2. One(InFlight(b, t)) = One(curtag = t /\ curindex \in {b, AltIndex(b, t)})
        /\ One(InFlight(b, t))' = 0
    BY <1>1, <1>4 DEF InFlight, One, Running
  <2>3. One(IsVictim(b, AltIndex(b, t), t)) = 0 /\ One(IsVictim(b, AltIndex(b, t), t))' = 0
    BY <1>1, <1>4 DEF IsVictim, One
  <2>4. Copies(table_, b, t) \in Nat /\ One(InFlight(b, t)) \in Nat
    BY <1>1, CopiesType DEF One
  <2>5. Present(b, t) = LiveTags(live, b, t) /\ LiveTags(live, b, t)' = LiveTags(live, b, t)
    BY <1>4, ConservationIsPresence
  <2> QED BY <2>1, <2>2, <2>3, <2>4, <2>5 DEF Present
<1>7. SizeCountsCells'
  <2>1. One(curtag # 0) = 1 /\ One(table_[<<curindex, j>>] # 0) = 0
    BY <1>1, <1>2, Constants DEF One
  <2>2. Cardinality(Occupied(table_))' = Cardinality(Occupied(table_)) + 1 - 0
    BY <1>1, <1>2, <1>3, <2>1, WriteOccupied
  <2> QED BY <1>1, <1>4, <2>2, OccupiedType DEF SizeCountsCells
<1>8. VictimHasNoRoom' /\ LoopInv'
  BY <1>1, <1>4 DEF VictimHasNoRoom, LoopInv, Running
<1>9. Conservation'
  BY <1>6 DEF Conservation, Present
<1> QED BY <1>5, <1>7, <1>8, <1>9

LEMMA TryOtherBucketStep == ASSUME IInv, TryOtherBucket PROVE IInv'
<1> USE DEF IInv
<1>1. /\ Running /\ ~victim_.used /\ count = 0 /\ count < kMaxCuckooCount
      /\ curindex \in Buckets /\ curtag \in Tags
      /\ ~Holds(table_, curindex, 0)
  BY Types DEF TryOtherBucket, InLoop, LoopInv
<1>2. UNCHANGED <<table_, victim_, num_items_, status, curtag, live>>
      /\ curindex' = AltIndex(curindex, curtag) /\ count' = count + 1
  BY DEF TryOtherBucket
<1>3. AltIndex(curindex, curtag) \in Buckets /\ AltIndex(AltIndex(curindex, curtag), curtag) = curindex
  BY <1>1, AltIndexBack
<1>4. StateTypes'
  BY <1>1, <1>2, <1>3, KicksAreNatural DEF StateTypes, Running
<1>5. Conservation'
  <2> SUFFICES ASSUME NEW b \in Buckets, NEW t \in Tags
               PROVE  InFlight(b, t)' <=> InFlight(b, t)
    BY <1>2 DEF Conservation, One, IsVictim
  <2>1. AltIndex(curindex, t) \in {b, AltIndex(b, t)} <=> curindex \in {b, AltIndex(b, t)}
    BY <1>1, Pairs
  <2> QED BY <1>2, <2>1 DEF InFlight, Running
<1>6. SizeCountsCells' /\ VictimHasNoRoom' /\ LoopInv'
  BY <1>1, <1>2, <1>3 DEF SizeCountsCells, VictimHasNoRoom, LoopInv, Running
<1> QED BY <1>4, <1>5, <1>6

LEMMA KickStep == ASSUME IInv, Kick PROVE IInv'
<1> USE DEF IInv
<1>1. /\ Running /\ ~victim_.used /\ count > 0 /\ count < kMaxCuckooCount /\ count \in Nat
      /\ curindex \in Buckets /\ curtag \in Tags /\ curtag \in 0 .. MaxTag
      /\ ~Holds(table_, curindex, 0)
      /\ table_ \in Tables
  BY Types DEF Kick, InLoop, LoopInv
<1>2. UNCHANGED <<victim_, num_items_, status, live>> /\ count' = count + 1
  BY DEF Kick
<1>3. PICK r \in Slots :
        /\ table_' = WriteTag(table_, curindex, r, curtag)
        /\ curtag' = table_[<<curindex, r>>]
        /\ curindex' = AltIndex(curindex, table_[<<curindex, r>>])
  BY DEF Kick, KickTagOut
<1> DEFINE oldtag == table_[<<curindex, r>>]
<1>4. oldtag \in Tags /\ oldtag # 0
  BY <1>1, WriteType, Constants DEF Holds
<1> HIDE DEF oldtag
<1>5. AltIndex(curindex, oldtag) \in Buckets /\ AltIndex(AltIndex(curindex, oldtag), oldtag) = curindex
  BY <1>1, <1>4, AltIndexBack
<1>6. curtag' = oldtag /\ curindex' = AltIndex(curindex, oldtag)
  BY <1>3 DEF oldtag
<1>7. StateTypes'
  <2>1. table_' \in Tables
    BY <1>1, <1>3, WriteType
  <2>2. curtag' \in Tags /\ curtag' \in 0 .. MaxTag /\ curindex' \in Buckets
    BY <1>4, <1>5, <1>6, Constants
  <2>3. count' \in 0 .. kMaxCuckooCount
    BY <1>1, <1>2, KicksAreNatural
  <2> QED BY <1>2, <2>1, <2>2, <2>3 DEF StateTypes, Tables
<1>8. ASSUME NEW b \in Buckets, NEW t \in Tags PROVE Present(b, t)' = LiveTags(live, b, t)'
  <2>1. Copies(table_, b, t)' =
          Copies(table_, b, t)
            + One(curtag = t /\ curindex \in {b, AltIndex(b, t)})
            - One(oldtag = t /\ curindex \in {b, AltIndex(b, t)})
    BY <1>1, <1>3, WriteCopies DEF oldtag
  <2>2. One(InFlight(b, t)) = One(curtag = t /\ curindex \in {b, AltIndex(b, t)})
    BY <1>1 DEF InFlight
  <2>3. AltIndex(curindex, t) \in {b, AltIndex(b, t)} <=> curindex \in {b, AltIndex(b, t)}
    BY <1>1, Pairs
  <2>4. InFlight(b, t)' <=> (oldtag = t /\ curindex \in {b, AltIndex(b, t)})
    BY <1>1, <1>2, <1>6, <2>3 DEF InFlight, Running
  <2>5. One(InFlight(b, t))' = One(oldtag = t /\ curindex \in {b, AltIndex(b, t)})
    BY <2>4 DEF One
  <2>6. One(IsVictim(b, AltIndex(b, t), t)) = 0 /\ One(IsVictim(b, AltIndex(b, t), t))' = 0
    BY <1>1, <1>2 DEF IsVictim, One
  <2>7. Copies(table_, b, t) \in Nat /\ One(InFlight(b, t)) \in Nat /\ One(InFlight(b, t))' \in Nat
    BY <1>1, CopiesType DEF One
  <2>8. Present(b, t) = LiveTags(live, b, t) /\ LiveTags(live, b, t)' = LiveTags(live, b, t)
    BY <1>2, ConservationIsPresence
  <2> QED BY <2>1, <2>2, <2>5, <2>6, <2>7, <2>8 DEF Present
<1>9. SizeCountsCells'
  <2>1. One(curtag # 0) = 1 /\ One(oldtag # 0) = 1
    BY <1>1, <1>4, Constants DEF One
  <2>2. Cardinality(Occupied(table_))' =
          Cardinality(Occupied(table_)) + One(curtag # 0) - One(oldtag # 0)
    BY <1>1, <1>3, WriteOccupied DEF oldtag
  <2> QED BY <1>1, <1>2, <2>1, <2>2, OccupiedType DEF SizeCountsCells
<1>10. VictimHasNoRoom'
  BY <1>1, <1>2 DEF VictimHasNoRoom
<1>11. LoopInv'
  <2>1. ~Holds(table_', curindex, 0)
    <3> SUFFICES ASSUME NEW k \in Slots PROVE table_'[<<curindex, k>>] # 0
      BY DEF Holds
    <3>1. table_[<<curindex, k>>] # 0 /\ <<curindex, k>> \in Cells
      BY <1>1 DEF Holds, Cells
    <3> QED BY <1>1, <1>3, <3>1, WriteType, Constants
  <2>2. AltIndex(curindex', curtag') = curindex
    BY <1>5, <1>6
  <2> QED BY <1>1, <1>2, <2>1, <2>2 DEF LoopInv
<1>12. Conservation'
  BY <1>8 DEF Conservation, Present
<1> QED BY <1>7, <1>9, <1>10, <1>11, <1>12

LEMMA KeepVictimStep == ASSUME IInv, KeepVictim PROVE IInv'
<1> USE DEF IInv
<1>1. /\ Running /\ ~victim_.used /\ count = kMaxCuckooCount /\ count > 0
      /\ curindex \in Buckets /\ curtag \in Tags /\ curtag \in 0 .. MaxTag
      /\ ~Holds(table_, AltIndex(curindex, curtag), 0)
  BY Types, KicksAreNatural DEF KeepVictim, LoopInv
<1>2. UNCHANGED <<table_, num_items_, live>> /\ status' = "Ok"
      /\ victim_' = [index |-> curindex, tag |-> curtag, used |-> TRUE]
      /\ curindex' = 0 /\ curtag' = 0 /\ count' = 0
  BY DEF KeepVictim, Return
<1>3. StateTypes'
  BY <1>1, <1>2, Constants, KicksAreNatural DEF StateTypes, Running
<1>4. Conservation'
  <2> SUFFICES ASSUME NEW b \in Buckets, NEW t \in Tags
               PROVE  (Copies(table_, b, t) + One(IsVictim(b, AltIndex(b, t), t))
                         + One(InFlight(b, t)))' = LiveTags(live, b, t)'
    BY DEF Conservation
  <2>1. ~IsVictim(b, AltIndex(b, t), t) /\ ~InFlight(b, t)'
    BY <1>1, <1>2 DEF IsVictim, InFlight, Running
  <2>2. IsVictim(b, AltIndex(b, t), t)' <=> InFlight(b, t)
    BY <1>1, <1>2 DEF IsVictim, InFlight
  <2>3. Copies(table_, b, t) + One(IsVictim(b, AltIndex(b, t), t)) + One(InFlight(b, t))
          = LiveTags(live, b, t)
    BY DEF Conservation
  <2>4. Copies(table_, b, t) \in Nat
    BY Types
  <2> QED BY <1>2, <2>1, <2>2, <2>3, <2>4 DEF One
<1>5. SizeCountsCells' /\ VictimHasNoRoom' /\ LoopInv'
  BY <1>1, <1>2 DEF SizeCountsCells, VictimHasNoRoom, LoopInv, Running
<1> QED BY <1>3, <1>4, <1>5

(***************************************************************************)
(* The calls.                                                              *)
(***************************************************************************)
LEMMA AddStep == ASSUME IInv, NEW item \in Items, Add(item) PROVE IInv'
<1> USE DEF IInv
<1> DEFINE i == IndexOf(item)
           tag == TagOf(item)
<1>1. i \in Buckets /\ tag \in Tags /\ tag \in 0 .. MaxTag
  BY ItemTypes, Constants
<1>2. /\ ~Running /\ ~victim_.used /\ live \in [Items -> Nat]
      /\ UNCHANGED <<table_, victim_, num_items_>> /\ status' = "running"
      /\ curindex' = i /\ curtag' = tag /\ count' = 0
      /\ live' = [live EXCEPT ![item] = @ + 1]
  BY Types DEF Add, CallAddImpl
<1> HIDE DEF i, tag
<1>3. StateTypes'
  BY <1>1, <1>2, KicksAreNatural DEF StateTypes, Running
<1>4. ASSUME NEW b \in Buckets, NEW t \in Tags PROVE Present(b, t)' = LiveTags(live, b, t)'
  <2>1. LiveTags(live', b, t) =
          LiveTags(live, b, t) + (IF tag = t /\ i \in {b, AltIndex(b, t)} THEN 1 ELSE 0)
    <3>1. Gains(live, live', item, 1)
      BY <1>2 DEF Gains
    <3> QED BY <1>2, <3>1, LiveTagsChange DEF i, tag
  <2>2. ~InFlight(b, t) /\ (InFlight(b, t)' <=> (tag = t /\ i \in {b, AltIndex(b, t)}))
    BY <1>2 DEF InFlight, Running
  <2>3. IsVictim(b, AltIndex(b, t), t)' <=> IsVictim(b, AltIndex(b, t), t)
    BY <1>2 DEF IsVictim
  <2>4. Copies(table_, b, t) \in Nat /\ Copies(table_, b, t)' = Copies(table_, b, t)
    BY <1>2, Types
  <2>5. Present(b, t) = LiveTags(live, b, t)
    BY ConservationIsPresence
  <2> QED BY <2>1, <2>2, <2>3, <2>4, <2>5 DEF Present, One
<1>5. Conservation'
  BY <1>4 DEF Conservation, Present
<1>6. SizeCountsCells' /\ VictimHasNoRoom' /\ LoopInv'
  BY <1>2 DEF SizeCountsCells, VictimHasNoRoom, LoopInv
<1> QED BY <1>3, <1>5, <1>6

LEMMA AddRefusedStep == ASSUME IInv, AddRefused PROVE IInv'
<1> USE DEF IInv
<1>1. /\ ~Running /\ UNCHANGED <<table_, victim_, num_items_, live>>
      /\ status' = "NotEnoughSpace" /\ curindex' = 0 /\ curtag' = 0 /\ count' = 0
  BY DEF AddRefused, Return
<1>2. StateTypes'
  BY <1>1, Constants, KicksAreNatural DEF StateTypes, Running
<1>3. Conservation'
  BY <1>1 DEF Conservation, IsVictim, InFlight, One, Running
<1>4. SizeCountsCells' /\ VictimHasNoRoom' /\ LoopInv'
  BY <1>1 DEF SizeCountsCells, VictimHasNoRoom, LoopInv, Running
<1> QED BY <1>2, <1>3, <1>4

(* A deletion of something that is in finds it; otherwise it finds nothing *)
(* and leaves live alone.                                                  *)
LEMMA DeleteFinds ==
  ASSUME IInv, NEW item \in Items, Delete(item)
  PROVE  /\ live[item] \in Nat
         /\ \/ /\ live[item] > 0 /\ Contain(item)
               /\ live' = [live EXCEPT ![item] = @ + (-1)]
            \/ /\ live[item] = 0 /\ ~Contain(item) /\ live' = live
<1> USE DEF IInv
<1> DEFINE i == IndexOf(item)
           tag == TagOf(item)
<1>1. live \in [Items -> Nat] /\ live[item] \in Nat /\ i \in Buckets /\ tag \in Tags /\ ~Running
  BY Types, ItemTypes DEF Delete
<1>2. live[item] > 0 \/ ~Contain(item)
  BY DEF Delete
<1>3. live' = [live EXCEPT ![item] = IF @ > 0 THEN @ - 1 ELSE 0]
  BY DEF Delete
<1>4. CASE live[item] > 0
  <2>1. live' = [live EXCEPT ![item] = @ + (-1)]
    BY <1>1, <1>3, <1>4
  <2>2. LiveTags(live, i, tag) > 0
    BY <1>1, <1>4, LiveItemCounts
  <2>3. Contain(item)
    <3> SUFFICES ASSUME ~Contain(item) PROVE FALSE
      OBVIOUS
    <3>1. ~IsVictim(i, AltIndex(i, tag), tag) /\ ~FindTagInBuckets(table_, i, AltIndex(i, tag), tag)
      BY DEF Contain
    <3> HIDE DEF i, tag
    <3>2. Copies(table_, i, tag) = 0
      BY <1>1, <3>1, Types, CopiesType
    <3>3. One(IsVictim(i, AltIndex(i, tag), tag)) = 0 /\ One(InFlight(i, tag)) = 0
      BY <1>1, <3>1 DEF One, InFlight
    <3>4. LiveTags(live, i, tag) = 0
      BY <1>1, <3>2, <3>3 DEF Conservation
    <3> QED BY <2>2, <3>4
  <2> QED BY <1>1, <1>4, <2>1, <2>3
<1>5. CASE ~(live[item] > 0)
  <2>1. live[item] = 0 /\ live' = live
    BY <1>1, <1>3, <1>5
  <2> QED BY <1>1, <1>2, <1>5, <2>1
<1> QED BY <1>4, <1>5

(* What is in of each fingerprint after a deletion that found its item. *)
LEMMA LiveAfterDelete ==
  ASSUME IInv, NEW item \in Items, live' = [live EXCEPT ![item] = @ + (-1)],
         NEW b \in Buckets, NEW t \in Tags
  PROVE  LiveTags(live, b, t)' =
           LiveTags(live, b, t)
             - One(TagOf(item) = t /\ IndexOf(item) \in {b, AltIndex(b, t)})
<1> DEFINE P == TagOf(item) = t /\ IndexOf(item) \in {b, AltIndex(b, t)}
<1>1. live \in [Items -> Nat] /\ LiveTags(live, b, t) \in Nat
  BY Types DEF IInv
<1>2. LiveTags(live', b, t) = LiveTags(live, b, t) + (IF P THEN -1 ELSE 0)
  <2>1. -1 \in Int
    OBVIOUS
  <2>2. Gains(live, live', item, -1)
    BY DEF Gains
  <2>3. LiveTags(live', b, t) =
          LiveTags(live, b, t)
            + (IF TagOf(item) = t /\ IndexOf(item) \in {b, AltIndex(b, t)} THEN -1 ELSE 0)
    BY <1>1, <2>1, <2>2, LiveTagsChange
  <2> QED BY <2>3
<1> QED
  <2> HIDE DEF P
  <2>1. LiveTags(live', b, t) = LiveTags(live, b, t) - One(P)
    BY <1>1, <1>2 DEF One
  <2> QED BY <2>1 DEF P

(* The tag is taken out of bucket i, and the victim, if any, is in flight. *)
LEMMA DeleteFromBucketStep ==
  ASSUME IInv, NEW item \in Items, ~Running,
         live' = [live EXCEPT ![item] = @ + (-1)], live[item] > 0,
         NEW i \in {IndexOf(item), AltIndex(IndexOf(item), TagOf(item))},
         Holds(table_, i, TagOf(item)), DeleteFromBucket(i, TagOf(item))
  PROVE  IInv'
<1> USE DEF IInv
<1> DEFINE tag == TagOf(item)
           j == FirstSlot(table_, i, tag)
<1>1. /\ IndexOf(item) \in Buckets /\ i \in Buckets /\ tag \in Tags /\ tag # 0 /\ 0 \in 0 .. MaxTag
      /\ table_ \in Tables /\ num_items_ \in Nat /\ live \in [Items -> Nat]
  BY Types, ItemTypes, AltIndexBack, Constants
<1>2. j \in Slots /\ table_[<<i, j>>] = tag
  BY FirstSlotHolds
<1>3. table_' = WriteTag(table_, i, j, 0) /\ num_items_' = num_items_ - 1
  BY DEF DeleteFromBucket, DeleteTagFromBucket
<1>4. \/ /\ victim_.used /\ victim_' = [victim_ EXCEPT !.used = FALSE]
         /\ status' = "running" /\ curindex' = victim_.index /\ curtag' = victim_.tag /\ count' = 0
      \/ /\ ~victim_.used /\ victim_' = victim_
         /\ status' = "Ok" /\ curindex' = 0 /\ curtag' = 0 /\ count' = 0
  BY DEF DeleteFromBucket, TryEliminateVictim, CallAddImpl, Return
<1> HIDE DEF tag, j
<1>5. ~victim_'.used
  <2>1. victim_ \in [index : Buckets, tag : 0 .. MaxTag, used : BOOLEAN]
    BY Types
  <2> QED BY <1>4, <2>1
<1>6. num_items_ = Cardinality(Occupied(table_)) /\ num_items_ > 0
  <2>1. <<i, j>> \in Cells /\ table_[<<i, j>>] # 0
    BY <1>1, <1>2 DEF Cells
  <2> QED BY <1>1, <2>1, OccupiedType DEF SizeCountsCells
<1>7. StateTypes'
  <2>1. table_' \in Tables
    BY <1>1, <1>2, <1>3, WriteType
  <2>2. victim_ \in [index : Buckets, tag : 0 .. MaxTag, used : BOOLEAN]
        /\ (victim_.used => victim_.tag \in Tags)
    BY Types
  <2>3. live' \in [Items -> Nat]
    <3>1. live[item] + (-1) \in Nat
      BY <1>1
    <3> QED BY <1>1, <3>1
  <2>4. num_items_' \in Nat
    BY <1>1, <1>3, <1>6
  <2>5. victim_' \in [index : Buckets, tag : 0 .. MaxTag, used : BOOLEAN]
    BY <1>4, <2>2
  <2>6. curindex' \in Buckets /\ curtag' \in 0 .. MaxTag /\ count' \in 0 .. kMaxCuckooCount
    BY <1>4, <2>2, Constants, KicksAreNatural
  <2>7. status' \in {"Ok", "NotFound", "NotEnoughSpace", "running"} /\ (Running' => curtag' \in Tags)
    BY <1>4, <2>2 DEF Running
  <2> QED BY <1>5, <2>1, <2>3, <2>4, <2>5, <2>6, <2>7 DEF StateTypes, Tables
<1>8. ASSUME NEW b \in Buckets, NEW t \in Tags PROVE Present(b, t)' = LiveTags(live, b, t)'
  <2> DEFINE Q == tag = t /\ i \in {b, AltIndex(b, t)}
             V == victim_.tag = t /\ victim_.index \in {b, AltIndex(b, t)}
  <2>1. Copies(table_, b, t)' = Copies(table_, b, t) - One(Q)
    <3>1. One(0 = t /\ i \in {b, AltIndex(b, t)}) = 0
      BY Constants DEF One
    <3>2. One(table_[<<i, j>>] = t /\ i \in {b, AltIndex(b, t)}) = One(Q)
      BY <1>2
    <3>3. Copies(table_, b, t)' = Copies(table_, b, t) + 0 - One(Q)
      BY <1>1, <1>2, <1>3, <3>1, <3>2, WriteCopies
    <3>4. Copies(table_, b, t) \in Nat /\ One(Q) \in Nat
      BY <1>1, CopiesType DEF One
    <3> HIDE DEF Q
    <3> QED BY <3>3, <3>4
  <2>2. Q <=> (TagOf(item) = t /\ IndexOf(item) \in {b, AltIndex(b, t)})
    BY <1>1, Pairs DEF tag
  <2>3. LiveTags(live, b, t)' = LiveTags(live, b, t) - One(Q)
    BY <2>2, LiveAfterDelete DEF One
  <2>4. One(IsVictim(b, AltIndex(b, t), t)) = One(InFlight(b, t))'
    <3>1. IsVictim(b, AltIndex(b, t), t) <=> InFlight(b, t)'
      BY <1>4 DEF IsVictim, InFlight, Running
    <3> QED BY <3>1 DEF One
  <2>5. One(InFlight(b, t)) = 0 /\ One(IsVictim(b, AltIndex(b, t), t))' = 0
    BY <1>5 DEF One, InFlight, IsVictim
  <2>6. Copies(table_, b, t) \in Nat /\ One(Q) \in Nat /\ One(IsVictim(b, AltIndex(b, t), t)) \in Nat
    BY <1>1, CopiesType DEF One
  <2>7. Present(b, t) = LiveTags(live, b, t)
    BY ConservationIsPresence
  <2> HIDE DEF Q
  <2> QED BY <2>1, <2>3, <2>4, <2>5, <2>6, <2>7 DEF Present
<1>9. Conservation'
  BY <1>8 DEF Conservation, Present
<1>10. SizeCountsCells'
  <2>1. One(0 # 0) = 0 /\ One(table_[<<i, j>>] # 0) = 1
    BY <1>1, <1>2 DEF One
  <2>2. Cardinality(Occupied(table_))' = Cardinality(Occupied(table_)) + 0 - 1
    BY <1>1, <1>2, <1>3, <2>1, WriteOccupied
  <2> QED BY <1>1, <1>3, <1>6, <2>2 DEF SizeCountsCells
<1>11. VictimHasNoRoom' /\ LoopInv'
  BY <1>4, <1>5 DEF VictimHasNoRoom, LoopInv, Running
<1> QED BY <1>7, <1>9, <1>10, <1>11

LEMMA DeleteVictimStep ==
  ASSUME IInv, NEW item \in Items, ~Running,
         live' = [live EXCEPT ![item] = @ + (-1)], live[item] > 0,
         IsVictim(IndexOf(item), AltIndex(IndexOf(item), TagOf(item)), TagOf(item)),
         DeleteVictim
  PROVE  IInv'
<1> USE DEF IInv
<1> DEFINE tag == TagOf(item)
<1>1. /\ IndexOf(item) \in Buckets /\ tag \in Tags /\ live \in [Items -> Nat]
      /\ victim_ \in [index : Buckets, tag : 0 .. MaxTag, used : BOOLEAN]
      /\ victim_.used /\ victim_.tag = tag /\ victim_.index \in {IndexOf(item), AltIndex(IndexOf(item), tag)}
  BY Types, ItemTypes DEF IsVictim
<1>2. UNCHANGED <<table_, num_items_>> /\ victim_' = [victim_ EXCEPT !.used = FALSE]
      /\ status' = "Ok" /\ curindex' = 0 /\ curtag' = 0 /\ count' = 0
  BY DEF DeleteVictim, Return
<1> HIDE DEF tag
<1>3. ~victim_'.used
  BY <1>1, <1>2
<1>4. StateTypes'
  <2>1. live[item] + (-1) \in Nat
    BY <1>1
  <2>2. live' \in [Items -> Nat]
    BY <1>1, <2>1
  <2>3. victim_' \in [index : Buckets, tag : 0 .. MaxTag, used : BOOLEAN]
    BY <1>1, <1>2
  <2>4. table_ \in [Cells -> 0 .. MaxTag] /\ num_items_ \in Nat
    BY DEF StateTypes
  <2> QED BY <1>2, <1>3, <2>2, <2>3, <2>4, Constants, KicksAreNatural DEF StateTypes, Running
<1>5. ASSUME NEW b \in Buckets, NEW t \in Tags PROVE Present(b, t)' = LiveTags(live, b, t)'
  <2>1. IsVictim(b, AltIndex(b, t), t) <=> (tag = t /\ IndexOf(item) \in {b, AltIndex(b, t)})
    <3>1. AltIndex(IndexOf(item), t) \in {b, AltIndex(b, t)} <=> IndexOf(item) \in {b, AltIndex(b, t)}
      BY <1>1, Pairs
    <3> QED BY <1>1, <3>1 DEF IsVictim
  <2>2. LiveTags(live, b, t)' = LiveTags(live, b, t) - One(IsVictim(b, AltIndex(b, t), t))
    BY <2>1, LiveAfterDelete DEF One, tag
  <2>3. One(InFlight(b, t)) = 0 /\ One(InFlight(b, t))' = 0 /\ One(IsVictim(b, AltIndex(b, t), t))' = 0
    BY <1>2, <1>3 DEF One, InFlight, IsVictim, Running
  <2>4. Copies(table_, b, t) \in Nat /\ One(IsVictim(b, AltIndex(b, t), t)) \in Nat
        /\ Copies(table_, b, t)' = Copies(table_, b, t)
    BY <1>2, Types DEF One
  <2>5. Present(b, t) = LiveTags(live, b, t)
    BY ConservationIsPresence
  <2> QED BY <2>2, <2>3, <2>4, <2>5 DEF Present
<1>6. Conservation'
  BY <1>5 DEF Conservation, Present
<1>7. SizeCountsCells' /\ VictimHasNoRoom' /\ LoopInv'
  BY <1>2, <1>3 DEF SizeCountsCells, VictimHasNoRoom, LoopInv, Running
<1> QED BY <1>4, <1>6, <1>7

LEMMA DeleteNothingStep ==
  ASSUME IInv, ~Running, live' = live, DeleteNothing
  PROVE  IInv'
<1> USE DEF IInv
<1>1. UNCHANGED <<table_, num_items_, victim_, live>>
      /\ status' = "NotFound" /\ curindex' = 0 /\ curtag' = 0 /\ count' = 0
  BY DEF DeleteNothing, Return
<1>2. StateTypes'
  BY <1>1, Constants, KicksAreNatural DEF StateTypes, Running
<1>3. Conservation'
  BY <1>1 DEF Conservation, IsVictim, InFlight, One, Running
<1>4. SizeCountsCells' /\ VictimHasNoRoom' /\ LoopInv'
  BY <1>1 DEF SizeCountsCells, VictimHasNoRoom, LoopInv, Running
<1> QED BY <1>2, <1>3, <1>4

LEMMA DeleteStep == ASSUME IInv, NEW item \in Items, Delete(item) PROVE IInv'
<1> DEFINE i1 == IndexOf(item)
           tag == TagOf(item)
           i2 == AltIndex(i1, tag)
<1>1. ~Running /\ DeleteTag(i1, i2, tag)
  BY DEF Delete
<1>2. Contain(item) <=> IsVictim(i1, i2, tag) \/ FindTagInBuckets(table_, i1, i2, tag)
  BY DEF Contain
<1>3. CASE live[item] > 0 /\ Contain(item) /\ live' = [live EXCEPT ![item] = @ + (-1)]
  <2>1. CASE Holds(table_, i1, tag) /\ DeleteFromBucket(i1, tag)
    BY <1>1, <1>3, <2>1, DeleteFromBucketStep
  <2>2. CASE Holds(table_, i2, tag) /\ DeleteFromBucket(i2, tag)
    BY <1>1, <1>3, <2>2, DeleteFromBucketStep
  <2>3. CASE IsVictim(i1, i2, tag) /\ DeleteVictim
    BY <1>1, <1>3, <2>3, DeleteVictimStep
  <2>4. CASE ~FindTagInBuckets(table_, i1, i2, tag) /\ ~IsVictim(i1, i2, tag)
    BY <1>2, <1>3, <2>4
  <2> QED BY <1>1, <2>1, <2>2, <2>3, <2>4 DEF DeleteTag
<1>4. CASE ~Contain(item) /\ live' = live
  <2>1. DeleteNothing
    BY <1>1, <1>2, <1>4 DEF DeleteTag, FindTagInBuckets
  <2> QED BY <1>1, <1>4, <2>1, DeleteNothingStep
<1> QED BY <1>3, <1>4, DeleteFinds

LEMMA StutterStep == ASSUME IInv, UNCHANGED vars PROVE IInv'
BY DEF IInv, StateTypes, Conservation, SizeCountsCells, VictimHasNoRoom, LoopInv,
       IsVictim, InFlight, Running, One, vars, locals

LEMMA InitInv == Init => IInv
<1> SUFFICES ASSUME Init PROVE IInv
  OBVIOUS
<1>1. /\ table_ = EmptyTable /\ num_items_ = 0 /\ status = "Ok"
      /\ victim_ = [index |-> 0, tag |-> 0, used |-> FALSE]
      /\ curindex = 0 /\ curtag = 0 /\ count = 0
      /\ live = [item \in Items |-> 0]
  BY DEF Init
<1>2. StateTypes
  BY <1>1, EmptyTableIsEmpty, Constants, KicksAreNatural DEF StateTypes, Tables, Running
<1>3. ASSUME NEW b \in Buckets, NEW t \in Tags
      PROVE  Copies(table_, b, t) = 0 /\ LiveTags(live, b, t) = 0
             /\ ~IsVictim(b, AltIndex(b, t), t) /\ ~InFlight(b, t)
  <2>1. \A c \in Buckets : LiveAt(live, c, t) = 0
    BY <1>1, Constants DEF LiveAt, Items
  <2>2. LiveTags(live, b, t) = 0
    BY <2>1, AltIndexBack DEF LiveTags
  <2> QED BY <1>1, <2>2, EmptyTableIsEmpty DEF IsVictim, InFlight, Running
<1>4. Conservation
  BY <1>3 DEF Conservation, One
<1>5. SizeCountsCells /\ VictimHasNoRoom /\ LoopInv
  BY <1>1, EmptyTableIsEmpty DEF SizeCountsCells, VictimHasNoRoom, LoopInv, Running
<1> QED BY <1>2, <1>4, <1>5 DEF IInv

LEMMA NextInv == IInv /\ [Next]_vars => IInv'
<1> SUFFICES ASSUME IInv, [Next]_vars PROVE IInv'
  OBVIOUS
<1>1. ASSUME NEW item \in Items, Add(item) PROVE IInv'
  BY <1>1, AddStep
<1>2. ASSUME NEW item \in Items, Delete(item) PROVE IInv'
  BY <1>2, DeleteStep
<1>3. CASE AddRefused
  BY <1>3, AddRefusedStep
<1>4. CASE AddImpl
  BY <1>4, StoreTagStep, TryOtherBucketStep, KickStep, KeepVictimStep DEF AddImpl
<1>5. CASE UNCHANGED vars
  BY <1>5, StutterStep
<1> QED BY <1>1, <1>2, <1>3, <1>4, <1>5 DEF Next

(* The inductive invariant holds of every behaviour of the cuckoo filter. *)
THEOREM Inductive == Spec => []IInv
BY InitInv, NextInv, PTL DEF Spec

(* The filter's state, the victim and the loop's locals keep their types,  *)
(* and num_items_ counts the cells.                                        *)
THEOREM TypeCorrect == Spec => []TypeOK
<1>1. IInv => TypeOK
  BY DEF IInv, TypeOK
<1> QED BY <1>1, Inductive, PTL

(* No chain of kicks loses a tag: each one that is in is in a cell of one  *)
(* of its two buckets, or the victim, or being moved by AddImpl.           *)
THEOREM NoTagLost == Spec => []Conservation
<1>1. IInv => Conservation
  BY DEF IInv
<1> QED BY <1>1, Inductive, PTL

(* Size() is the number of occupied cells, whatever became of victims. *)
THEOREM SizeIsOccupancy == Spec => []SizeCountsCells
<1>1. IInv => SizeCountsCells
  BY DEF IInv
<1> QED BY <1>1, Inductive, PTL

(* A victim stays one only while the bucket it was kicked out of is full. *)
THEOREM VictimIsOutOfRoom == Spec => []VictimHasNoRoom
<1>1. IInv => VictimHasNoRoom
  BY DEF IInv
<1> QED BY <1>1, Inductive, PTL

(* The filter answers yes, or will when AddImpl is done, to the items that *)
(* share their fingerprint with one that is in.                            *)
LEMMA PositiveIsLive ==
  ASSUME IInv, NEW item \in Items
  PROVE  Contain(item) \/ InFlight(IndexOf(item), TagOf(item))
           <=> LiveTags(live, IndexOf(item), TagOf(item)) > 0
<1> DEFINE i == IndexOf(item)
           tag == TagOf(item)
<1>1. i \in Buckets /\ tag \in Tags
  BY ItemTypes
<1>2. Contain(item) <=> IsVictim(i, AltIndex(i, tag), tag) \/ FindTagInBuckets(table_, i, AltIndex(i, tag), tag)
  BY DEF Contain
<1> HIDE DEF i, tag
<1>3. Copies(table_, i, tag) \in Nat
      /\ (Copies(table_, i, tag) > 0 <=> FindTagInBuckets(table_, i, AltIndex(i, tag), tag))
  BY <1>1, Types, CopiesType DEF IInv
<1>4. Copies(table_, i, tag) + One(IsVictim(i, AltIndex(i, tag), tag)) + One(InFlight(i, tag))
        = LiveTags(live, i, tag)
  BY <1>1 DEF IInv, Conservation
<1>5. Contain(item) \/ InFlight(i, tag) <=> LiveTags(live, i, tag) > 0
  BY <1>2, <1>3, <1>4 DEF One
<1> QED BY <1>5 DEF i, tag

(* Between calls Contain is right but for shared fingerprints: there is no *)
(* false negative, with or without a victim.                               *)
THEOREM AnswersAreExact == Spec => []AnswersByFingerprint
<1>1. IInv => AnswersByFingerprint
  BY PositiveIsLive DEF AnswersByFingerprint, InFlight
<1> QED BY <1>1, Inductive, PTL

(* A deletion of something that is in is never answered NotFound. *)
THEOREM DeletesFind == Spec => DeleteFindsWhatIsIn
<1>1. IInv /\ [Next]_vars => [\A item \in Items : live'[item] < live[item] => status' # "NotFound"]_vars
  <2> SUFFICES ASSUME IInv, Next, NEW item \in Items, live'[item] < live[item]
               PROVE  status' # "NotFound"
    OBVIOUS
  <2>1. live \in [Items -> Nat]
    BY Types DEF IInv
  <2>2. CASE AddRefused \/ AddImpl
    BY <2>1, <2>2 DEF AddRefused, AddImpl, StoreTag, TryOtherBucket, Kick, KeepVictim
  <2>3. ASSUME NEW k \in Items, Add(k) PROVE FALSE
    BY <2>1, <2>3 DEF Add
  <2>4. ASSUME NEW k \in Items, Delete(k) PROVE status' # "NotFound"
    <3>1. Contain(k)
      BY <2>1, <2>4, DeleteFinds
    <3>2. ~(/\ ~FindTagInBuckets(table_, IndexOf(k), AltIndex(IndexOf(k), TagOf(k)), TagOf(k))
            /\ ~IsVictim(IndexOf(k), AltIndex(IndexOf(k), TagOf(k)), TagOf(k)))
      BY <3>1 DEF Contain
    <3> QED BY <2>4, <3>2 DEF Delete, DeleteTag, DeleteFromBucket, TryEliminateVictim,
                              CallAddImpl, DeleteVictim, Return
  <2> QED BY <2>2, <2>3, <2>4 DEF Next
<1> QED BY <1>1, Inductive, PTL DEF Spec, DeleteFindsWhatIsIn

Positive ==
  {item \in Items : Contain(item) \/ InFlight(IndexOf(item), TagOf(item))}

PositiveMeansLive ==
  \A item \in Items : item \in Positive <=> LiveTags(live, IndexOf(item), TagOf(item)) > 0

LEMMA PositiveMeansLiveHolds == IInv => PositiveMeansLive
BY PositiveIsLive DEF Positive, PositiveMeansLive

(* The filter keeps the promise of ApproxSet and never gives up on it. *)
THEOREM Implements == Spec => KeepsPromise
<1>1. Init => Promise!Init
  <2> SUFFICES ASSUME Init PROVE Promise!Init
    OBVIOUS
  <2>1. ~Running /\ ~victim_.used /\ table_ = EmptyTable
    BY DEF Init, Running
  <2>2. ASSUME NEW item \in Items
        PROVE  ~Contain(item) /\ ~InFlight(IndexOf(item), TagOf(item))
    <3>1. ~FindTagInBuckets(table_, IndexOf(item), AltIndex(IndexOf(item), TagOf(item)), TagOf(item))
      BY <2>1, ItemTypes, EmptyTableIsEmpty, CopiesType
    <3> QED BY <2>1, <3>1 DEF Contain, IsVictim, InFlight
  <2> QED BY <2>2 DEF Init, Promise!Init
<1>2. IInv /\ IInv' /\ [Next]_vars => [Promise!Next]_(Promise!vars)
  <2> SUFFICES ASSUME IInv, IInv', [Next]_vars PROVE [Promise!Next]_(Promise!vars)
    OBVIOUS
  <2>1. PositiveMeansLive /\ PositiveMeansLive'
    BY PositiveMeansLiveHolds, PTL
  <2>2. live \in [Items -> Nat] /\ live' \in [Items -> Nat]
    BY DEF IInv, StateTypes
  <2>3. ASSUME NEW item \in Items, live'[item] > 0 PROVE item \in Positive'
    <3>1. LiveTags(live', IndexOf(item), TagOf(item)) > 0
      BY <2>2, <2>3, LiveItemCounts
    <3> QED BY <2>1, <3>1 DEF PositiveMeansLive
  <2>4. CASE live' = live
    <3>1. \A item \in Items : item \in Positive <=> item \in Positive'
      BY <2>1, <2>4 DEF PositiveMeansLive
    <3>2. Positive' = Positive
      BY <3>1 DEF Positive
    <3> QED BY <2>4, <3>2 DEF Promise!vars, Positive
  <2>5. ASSUME NEW item \in Items, Add(item) PROVE Promise!Next
    <3>1. live' = [live EXCEPT ![item] = @ + 1]
      BY <2>5 DEF Add
    <3>2. item \in Positive'
      BY <2>2, <2>3, <3>1
    <3>3. Positive \subseteq Positive'
      <4> SUFFICES ASSUME NEW k \in Items, k \in Positive PROVE k \in Positive'
        BY DEF Positive
      <4> DEFINE b == IndexOf(k)
                 t == TagOf(k)
      <4>1. b \in Buckets /\ t \in Tags
        BY ItemTypes
      <4>2. LiveTags(live, b, t) > 0 /\ LiveTags(live, b, t) \in Nat
        BY <2>1, <2>2, <4>1, LiveTagsType DEF PositiveMeansLive
      <4>3. Gains(live, live', item, 1)
        BY <3>1 DEF Gains
      <4>4. LiveTags(live', b, t) =
              LiveTags(live, b, t) + (IF TagOf(item) = t /\ IndexOf(item) \in {b, AltIndex(b, t)} THEN 1 ELSE 0)
        <5> HIDE DEF b, t
        <5> QED BY <2>2, <4>1, <4>3, LiveTagsChange
      <4>5. LiveTags(live', b, t) > 0
        <5> HIDE DEF b, t
        <5> QED BY <4>2, <4>4
      <4> QED BY <2>1, <4>5 DEF PositiveMeansLive
    <3>4. Promise!Insert(item)
      BY <3>1, <3>2, <3>3 DEF Promise!Insert, Positive
    <3> QED BY <3>4 DEF Promise!Next
  <2>6. ASSUME NEW item \in Items, Delete(item), live' # live PROVE Promise!Next
    <3>1. live[item] > 0 /\ live' = [live EXCEPT ![item] = @ + (-1)]
      BY <2>6, DeleteFinds
    <3>2. live' = [live EXCEPT ![item] = @ - 1]
      BY <2>2, <3>1
    <3>3. Positive' \subseteq Positive
      <4> SUFFICES ASSUME NEW k \in Items, k \in Positive' PROVE k \in Positive
        BY DEF Positive
      <4> DEFINE b == IndexOf(k)
                 t == TagOf(k)
      <4>1. b \in Buckets /\ t \in Tags
        BY ItemTypes
      <4>2. LiveTags(live', b, t) > 0 /\ LiveTags(live, b, t) \in Nat
        BY <2>1, <2>2, <4>1, LiveTagsType DEF PositiveMeansLive
      <4>3. LiveTags(live, b, t)' =
              LiveTags(live, b, t) - One(TagOf(item) = t /\ IndexOf(item) \in {b, AltIndex(b, t)})
        BY <3>1, <4>1, LiveAfterDelete
      <4>4. LiveTags(live, b, t) > 0
        <5> HIDE DEF b, t
        <5> QED BY <4>2, <4>3 DEF One
      <4> QED BY <2>1, <4>4 DEF PositiveMeansLive
    <3>4. Promise!In(live') \subseteq Positive'
      BY <2>3 DEF Promise!In
    <3>5. Promise!Remove(item)
      BY <3>1, <3>2, <3>3, <3>4 DEF Promise!Remove, Positive
    <3> QED BY <3>5 DEF Promise!Next
  <2>7. CASE AddRefused \/ AddImpl \/ UNCHANGED vars
    <3>1. live' = live
      BY <2>7 DEF AddRefused, AddImpl, StoreTag, TryOtherBucket, Kick, KeepVictim, vars
    <3> QED BY <2>4, <3>1
  <2> QED BY <2>4, <2>5, <2>6, <2>7 DEF Next
<1> QED BY <1>1, <1>2, Inductive, PTL DEF Spec, Promise!Spec, KeepsPromise
=============================================================================
