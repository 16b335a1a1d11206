----------------------- MODULE TSCuckooFilter_proofs -----------------------
(***************************************************************************)
(* The cuckoo filter that drops tags never answers yes for a fingerprint   *)
(* of which the client has nothing in, and implements ApproxSet until its  *)
(* first failure, for every number of buckets, cells, tags and kicks.      *)
(*                                                                         *)
(* NoGhosts is inductive but for a deletion: that num_items_ stays a       *)
(* natural needs it to count the cells.  The refinement needs more: until  *)
(* the first failure the table holds exactly what the client has in.       *)
(***************************************************************************)
EXTENDS TSCuckooFilter, FiniteSetTheorems, TLAPS

-----------------------------------------------------------------------------
(***************************************************************************)
(* CuckooFilter_proofs' lemmas on tables, in the terms of this module.     *)
(***************************************************************************)
Tables == [Cells -> 0 .. MaxTag]

(* The client gets d more copies of an item. *)
Gains(l, m, item, d) == m = [l EXCEPT ![item] = @ + d]

KP == INSTANCE CuckooFilter_proofs WITH
  kMaxCuckooCount <- max_relocations + 1

(* The assumptions of CuckooFilter hold. *)
LEMMA Assumptions == KP!SizesAreNatural /\ KP!AltIndexIsInvolution /\ KP!KicksAreNatural
BY SizesAreNatural, AltIndexIsInvolution, RelocationsAreNatural
   DEF KP!SizesAreNatural, KP!AltIndexIsInvolution, KP!KicksAreNatural, Buckets, Tags,
       KP!Buckets, KP!Tags

LEMMA KPOperators ==
  /\ KP!Buckets = Buckets /\ KP!Slots = Slots /\ KP!Tags = Tags /\ KP!Cells = Cells
  /\ KP!Items = Items /\ KP!Tables = Tables /\ KP!EmptyTable = EmptyTable
  /\ \A item : KP!IndexOf(item) = IndexOf(item) /\ KP!TagOf(item) = TagOf(item)
  /\ \A b : KP!One(b) = One(b)
  /\ \A table, i, t : KP!Holds(table, i, t) <=> Holds(table, i, t)
  /\ \A table, i, t : KP!FirstSlot(table, i, t) = FirstSlot(table, i, t)
  /\ \A table, i, k, t : KP!FindTagInBuckets(table, i, k, t) <=> FindTagInBuckets(table, i, k, t)
  /\ \A table, i, j, t : KP!WriteTag(table, i, j, t) = WriteTag(table, i, j, t)
  /\ \A table, i, t : KP!Copies(table, i, t) = Copies(table, i, t)
  /\ \A table : KP!Cardinality(KP!Occupied(table)) = Cardinality(Occupied(table))
  /\ \A l, i, t : KP!LiveTags(l, i, t) = LiveTags(l, i, t)
  /\ \A l, m, item, d : KP!Gains(l, m, item, d) <=> Gains(l, m, item, d)
<1>1. /\ KP!Buckets = Buckets /\ KP!Slots = Slots /\ KP!Tags = Tags /\ KP!Cells = Cells
      /\ KP!Items = Items /\ KP!Tables = Tables /\ KP!EmptyTable = EmptyTable
  BY DEF KP!Buckets, Buckets, KP!Slots, Slots, KP!Tags, Tags, KP!Cells, Cells, KP!Items, Items,
         KP!Tables, Tables, KP!EmptyTable, EmptyTable
<1>2. \A item : KP!IndexOf(item) = IndexOf(item) /\ KP!TagOf(item) = TagOf(item)
  BY DEF KP!IndexOf, IndexOf, KP!TagOf, TagOf, KP!TagHash, TagHash
<1>3. \A b : KP!One(b) = One(b)
  BY DEF KP!One, One
<1>4. \A table, i, t : KP!Holds(table, i, t) <=> Holds(table, i, t)
  BY <1>1 DEF KP!Holds, Holds
<1>5. \A table, i, t : KP!FirstSlot(table, i, t) = FirstSlot(table, i, t)
  BY DEF KP!FirstSlot, FirstSlot, KP!Slots, Slots
<1>6. \A table, i, k, t : KP!FindTagInBuckets(table, i, k, t) <=> FindTagInBuckets(table, i, k, t)
  BY <1>4 DEF KP!FindTagInBuckets, FindTagInBuckets
<1>7. \A table, i, j, t : KP!WriteTag(table, i, j, t) = WriteTag(table, i, j, t)
  BY DEF KP!WriteTag, WriteTag
<1>8. \A S : KP!Cardinality(S) = Cardinality(S)
  BY DEF KP!Cardinality, Cardinality
<1>9. \A table, i, t : KP!Copies(table, i, t) = Copies(table, i, t)
  <2>1. \A table, i, t : KP!Holding(table, i, t) = Holding(table, i, t)
    BY <1>1 DEF KP!Holding, Holding
  <2> QED BY <1>8, <2>1 DEF KP!Copies, Copies
<1>10. \A table : KP!Cardinality(KP!Occupied(table)) = Cardinality(Occupied(table))
  <2>1. \A table : KP!Occupied(table) = Occupied(table)
    BY <1>1 DEF KP!Occupied, Occupied
  <2> QED BY <1>8, <2>1
<1>11. \A l, i, t : KP!LiveTags(l, i, t) = LiveTags(l, i, t)
  BY DEF KP!LiveTags, LiveTags, KP!LiveAt, LiveAt, KP!TagHash, TagHash
<1>12. \A l, m, item, d : KP!Gains(l, m, item, d) <=> Gains(l, m, item, d)
  BY DEF KP!Gains, Gains
<1> QED BY <1>1, <1>2, <1>3, <1>4, <1>5, <1>6, <1>7, <1>9, <1>10, <1>11, <1>12

LEMMA Constants ==
  /\ Buckets \subseteq Nat /\ Slots \subseteq Nat /\ Tags \subseteq Nat
  /\ Tags \subseteq 0 .. MaxTag /\ 0 \notin Tags
  /\ 0 \in Buckets /\ 0 \in Slots /\ 0 \in 0 .. MaxTag
  /\ IsFiniteSet(Cells)
  /\ \A t \in 0 .. MaxTag : t # 0 => t \in Tags
<1>1. IsFiniteSet(Buckets) /\ IsFiniteSet(Slots)
  BY SizesAreNatural, FS_Interval DEF Buckets, Slots
<1>2. IsFiniteSet(Cells)
  BY <1>1, FS_Product DEF Cells
<1> QED BY <1>2, SizesAreNatural DEF Buckets, Slots, Tags

LEMMA AltIndexBack ==
  ASSUME NEW i \in Buckets, NEW t \in Tags
  PROVE  AltIndex(i, t) \in Buckets /\ AltIndex(AltIndex(i, t), t) = i
BY AltIndexIsInvolution

(* The two buckets of a tag form a pair. *)
LEMMA Pairs ==
  ASSUME NEW i \in Buckets, NEW b \in Buckets, NEW t \in Tags
  PROVE  AltIndex(i, t) \in {b, AltIndex(b, t)} <=> i \in {b, AltIndex(b, t)}
BY AltIndexBack

LEMMA ItemTypes ==
  ASSUME NEW item \in Items
  PROVE  IndexOf(item) \in Buckets /\ TagOf(item) \in Tags
BY SizesAreNatural DEF Items, IndexOf, TagOf, TagHash, Tags

LEMMA FirstSlotHolds ==
  ASSUME NEW table, NEW i, NEW tag, Holds(table, i, tag)
  PROVE  FirstSlot(table, i, tag) \in Slots /\ table[<<i, FirstSlot(table, i, tag)>>] = tag
<1>1. KP!Holds(table, i, tag)
  BY KPOperators
<1>2. /\ KP!FirstSlot(table, i, tag) \in KP!Slots
      /\ table[<<i, KP!FirstSlot(table, i, tag)>>] = tag
  BY <1>1, Assumptions, KP!FirstSlotHolds
<1> QED BY <1>2, KPOperators

LEMMA WriteType ==
  ASSUME NEW table \in Tables, NEW i \in Buckets, NEW j \in Slots, NEW new \in 0 .. MaxTag
  PROVE  /\ WriteTag(table, i, j, new) \in Tables
         /\ <<i, j>> \in Cells
         /\ table[<<i, j>>] \in 0 .. MaxTag
         /\ WriteTag(table, i, j, new)[<<i, j>>] = new
         /\ \A c \in Cells : c # <<i, j>> => WriteTag(table, i, j, new)[c] = table[c]
BY DEF WriteTag, Tables, Cells

LEMMA WriteCopies ==
  ASSUME NEW table \in Tables, NEW i \in Buckets, NEW j \in Slots, NEW new \in 0 .. MaxTag,
         NEW b \in Buckets, NEW t \in Tags
  PROVE  Copies(WriteTag(table, i, j, new), b, t) =
           Copies(table, b, t)
             + One(new = t /\ i \in {b, AltIndex(b, t)})
             - One(table[<<i, j>>] = t /\ i \in {b, AltIndex(b, t)})
<1>1. /\ table \in KP!Tables /\ i \in KP!Buckets /\ j \in KP!Slots
      /\ b \in KP!Buckets /\ t \in KP!Tags
  BY KPOperators
<1>2. KP!Copies(KP!WriteTag(table, i, j, new), b, t) =
        KP!Copies(table, b, t)
          + KP!One(new = t /\ i \in {b, AltIndex(b, t)})
          - KP!One(table[<<i, j>>] = t /\ i \in {b, AltIndex(b, t)})
  BY <1>1, Assumptions, KP!WriteCopies
<1> QED BY <1>2, KPOperators

LEMMA WriteOccupied ==
  ASSUME NEW table \in Tables, NEW i \in Buckets, NEW j \in Slots, NEW new \in 0 .. MaxTag
  PROVE  Cardinality(Occupied(WriteTag(table, i, j, new))) =
           Cardinality(Occupied(table)) + One(new # 0) - One(table[<<i, j>>] # 0)
<1>1. table \in KP!Tables /\ i \in KP!Buckets /\ j \in KP!Slots
  BY KPOperators
<1>2. KP!Cardinality(KP!Occupied(KP!WriteTag(table, i, j, new))) =
        KP!Cardinality(KP!Occupied(table)) + KP!One(new # 0) - KP!One(table[<<i, j>>] # 0)
  BY <1>1, Assumptions, KP!WriteOccupied
<1> QED BY <1>2, KPOperators

LEMMA CopiesType ==
  ASSUME NEW table \in Tables, NEW b \in Buckets, NEW t \in Tags
  PROVE  /\ Copies(table, b, t) \in Nat
         /\ Copies(table, b, t) > 0 <=> FindTagInBuckets(table, b, AltIndex(b, t), t)
<1>1. table \in KP!Tables /\ b \in KP!Buckets /\ t \in KP!Tags
  BY KPOperators
<1>2. /\ KP!Copies(table, b, t) \in Nat
      /\ KP!Copies(table, b, t) > 0 <=> KP!FindTagInBuckets(table, b, AltIndex(b, t), t)
  BY <1>1, Assumptions, KP!CopiesType
<1> QED BY <1>2, KPOperators

LEMMA OccupiedType ==
  ASSUME NEW table \in Tables
  PROVE  /\ Cardinality(Occupied(table)) \in Nat
         /\ \A c \in Cells : table[c] # 0 => Cardinality(Occupied(table)) > 0
<1>1. table \in KP!Tables
  BY KPOperators
<1>2. /\ KP!Cardinality(KP!Occupied(table)) \in Nat
      /\ \A c \in KP!Cells : table[c] # 0 => KP!Cardinality(KP!Occupied(table)) > 0
  BY <1>1, Assumptions, KP!OccupiedType
<1> QED BY <1>2, KPOperators

LEMMA EmptyTableIsEmpty ==
  /\ EmptyTable \in Tables
  /\ Cardinality(Occupied(EmptyTable)) = 0
  /\ \A b \in Buckets, t \in Tags : Copies(EmptyTable, b, t) = 0
<1>1. /\ KP!EmptyTable \in KP!Tables
      /\ KP!Cardinality(KP!Occupied(KP!EmptyTable)) = 0
      /\ \A b \in KP!Buckets, t \in KP!Tags : KP!Copies(KP!EmptyTable, b, t) = 0
  BY Assumptions, KP!EmptyTableIsEmpty
<1> QED BY <1>1, KPOperators

LEMMA LiveTagsType ==
  ASSUME NEW l \in [Items -> Nat], NEW b \in Buckets, NEW t \in Tags
  PROVE  LiveTags(l, b, t) \in Nat
<1>1. l \in [KP!Items -> Nat] /\ b \in KP!Buckets /\ t \in KP!Tags
  BY KPOperators
<1>2. KP!LiveTags(l, b, t) \in Nat
  BY <1>1, Assumptions, KP!LiveTagsType
<1> QED BY <1>2, KPOperators

LEMMA LiveTagsChange ==
  ASSUME NEW l \in [Items -> Nat], NEW item \in Items, NEW d \in Int,
         NEW m, Gains(l, m, item, d),
         NEW b \in Buckets, NEW t \in Tags
  PROVE  LiveTags(m, b, t) =
           LiveTags(l, b, t)
             + (IF TagOf(item) = t /\ IndexOf(item) \in {b, AltIndex(b, t)} THEN d ELSE 0)
<1>1. /\ l \in [KP!Items -> Nat] /\ item \in KP!Items /\ KP!Gains(l, m, item, d)
      /\ b \in KP!Buckets /\ t \in KP!Tags
  BY KPOperators
<1>2. KP!LiveTags(m, b, t) =
        KP!LiveTags(l, b, t)
          + (IF KP!TagOf(item) = t /\ KP!IndexOf(item) \in {b, AltIndex(b, t)} THEN d ELSE 0)
  BY <1>1, Assumptions, KP!LiveTagsChange
<1> QED BY <1>2, KPOperators

LEMMA LiveItemCounts ==
  ASSUME NEW l \in [Items -> Nat], NEW item \in Items, l[item] > 0
  PROVE  LiveTags(l, IndexOf(item), TagOf(item)) > 0
<1>1. l \in [KP!Items -> Nat] /\ item \in KP!Items
  BY KPOperators
<1>2. KP!LiveTags(l, KP!IndexOf(item), KP!TagOf(item)) > 0
  BY <1>1, Assumptions, KP!LiveItemCounts
<1> QED BY <1>2, KPOperators

-----------------------------------------------------------------------------

CellsAreCounted == num_items_ = Cardinality(Occupied(table_))

ExactUntilFailure ==
  insertions_failed_counter = 0 =>
    \A i \in Buckets, tag \in Tags : Present(i, tag) = LiveTags(live, i, tag)

IInv ==
  /\ TypeOK
  /\ CellsAreCounted
  /\ NoGhosts
  /\ ExactUntilFailure

(* CuckooFilter's operators on tables are CuckooTable's. *)
LEMMA KicksOperators ==
  /\ Kicks!Buckets = Buckets /\ Kicks!Slots = Slots /\ Kicks!Tags = Tags
  /\ Kicks!Cells = Cells /\ Kicks!Items = Items /\ Kicks!EmptyTable = EmptyTable
  /\ \A item : Kicks!IndexOf(item) = IndexOf(item) /\ Kicks!TagOf(item) = TagOf(item)
  /\ \A table, i, t : Kicks!Holds(table, i, t) <=> Holds(table, i, t)
  /\ \A table, i, t : Kicks!InsertTagToEmpty(table, i, t) = InsertTagToEmpty(table, i, t)
  /\ \A table, i, j, t : Kicks!KickTagOut(table, i, j, t) = WriteTag(table, i, j, t)
<1>1. /\ Kicks!Buckets = Buckets /\ Kicks!Slots = Slots /\ Kicks!Tags = Tags
      /\ Kicks!Cells = Cells /\ Kicks!Items = Items /\ Kicks!EmptyTable = EmptyTable
  BY DEF Kicks!Buckets, Buckets, Kicks!Slots, Slots, Kicks!Tags, Tags, Kicks!Cells, Cells,
         Kicks!Items, Items, Kicks!EmptyTable, EmptyTable
<1>2. \A item : Kicks!IndexOf(item) = IndexOf(item) /\ Kicks!TagOf(item) = TagOf(item)
  BY DEF Kicks!IndexOf, IndexOf, Kicks!TagOf, TagOf, Kicks!TagHash, TagHash
<1>3. \A table, i, t : Kicks!Holds(table, i, t) <=> Holds(table, i, t)
  BY <1>1 DEF Kicks!Holds, Holds
<1>4. \A table, i, t : Kicks!InsertTagToEmpty(table, i, t) = InsertTagToEmpty(table, i, t)
  BY DEF Kicks!InsertTagToEmpty, InsertTagToEmpty, Kicks!WriteTag, WriteTag,
         Kicks!FirstSlot, FirstSlot, Kicks!Slots, Slots
<1>5. \A table, i, j, t : Kicks!KickTagOut(table, i, j, t) = WriteTag(table, i, j, t)
  BY DEF Kicks!KickTagOut, Kicks!WriteTag, WriteTag
<1> QED BY <1>1, <1>2, <1>3, <1>4, <1>5

LEMMA Types ==
  ASSUME TypeOK
  PROVE  /\ table_ \in Tables
         /\ num_items_ \in Nat /\ count \in 0 .. max_relocations + 1
         /\ curindex \in Buckets /\ curtag \in 0 .. MaxTag
         /\ Running => curtag \in Tags
         /\ victim_ \in [index : Buckets, tag : 0 .. MaxTag, used : BOOLEAN]
         /\ live \in [Items -> Nat]
         /\ insertions_failed_counter \in Nat
         /\ \A b \in Buckets, t \in Tags : Copies(table_, b, t) \in Nat
         /\ \A b \in Buckets, t \in Tags : LiveTags(live, b, t) \in Nat
BY KicksOperators, CopiesType, LiveTagsType
   DEF TypeOK, Kicks!StateTypes, Tables, Running

(* TypeOK in the terms of this module. *)
Typed ==
  /\ table_ \in Tables /\ num_items_ \in Nat /\ count \in 0 .. max_relocations + 1
  /\ curindex \in Buckets /\ curtag \in 0 .. MaxTag /\ (Running => curtag \in Tags)
  /\ status \in {"Ok", "NotFound", "NotEnoughSpace", "running"}
  /\ victim_ \in [index : Buckets, tag : 0 .. MaxTag, used : BOOLEAN]
  /\ victim_.used => victim_.tag \in Tags
  /\ live \in [Items -> Nat] /\ insertions_failed_counter \in Nat

LEMMA TypedIs == Typed <=> TypeOK
BY KicksOperators DEF Typed, TypeOK, Kicks!StateTypes, Tables, Running

InFlight(b, t) == Running /\ curtag = t /\ curindex \in {b, AltIndex(b, t)}

LEMMA PresentIs ==
  ASSUME NEW b, NEW t
  PROVE  Present(b, t) = Copies(table_, b, t) + One(InFlight(b, t))
BY DEF Present, Kicks!InFlight, InFlight, Running

LEMMA PresentWillBe ==
  ASSUME NEW b, NEW t
  PROVE  Present(b, t)' = Copies(table_, b, t)' + One(InFlight(b, t))'
BY DEF Present, Kicks!InFlight, InFlight, Running

(* What a step does to the copies that are missing: nothing; one is lost,  *)
(* and counted; or the client has given some up.                           *)
LosesNothing ==
  /\ \A b \in Buckets, t \in Tags : Missing(b, t)' = Missing(b, t)
  /\ UNCHANGED insertions_failed_counter

LosesOne ==
  /\ \E f \in Fingerprints : \A g \in Fingerprints :
       Missing(g[1], g[2])' = Missing(g[1], g[2]) + One(g = f)
  /\ insertions_failed_counter' = insertions_failed_counter + 1

GivesUp ==
  /\ \A b \in Buckets, t \in Tags : Missing(b, t)' <= Missing(b, t)
  /\ UNCHANGED insertions_failed_counter

PresentTypes ==
  \A b \in Buckets, t \in Tags : Present(b, t) \in Nat /\ LiveTags(live, b, t) \in Nat

LEMMA PresentType == TypeOK => PresentTypes
<1> SUFFICES ASSUME TypeOK, NEW b \in Buckets, NEW t \in Tags
             PROVE  Present(b, t) \in Nat /\ LiveTags(live, b, t) \in Nat
  BY DEF PresentTypes
<1>1. Copies(table_, b, t) \in Nat /\ LiveTags(live, b, t) \in Nat
  BY Types
<1>2. One(InFlight(b, t)) \in Nat
  BY DEF One
<1> QED BY <1>1, <1>2, PresentIs

LEMMA LosingNothing ==
  ASSUME IInv, TypeOK', LosesNothing
  PROVE  NoGhosts' /\ ExactUntilFailure'
<1>1. ASSUME NEW b \in Buckets, NEW t \in Tags
      PROVE  /\ Present(b, t) \in Nat /\ LiveTags(live, b, t) \in Nat
             /\ Present(b, t)' \in Nat /\ LiveTags(live, b, t)' \in Nat
             /\ LiveTags(live, b, t)' - Present(b, t)' = LiveTags(live, b, t) - Present(b, t)
  <2>1. PresentTypes /\ PresentTypes'
    BY PresentType, PTL DEF IInv
  <2> QED BY <2>1 DEF PresentTypes, LosesNothing, Missing
<1>2. NoGhosts'
  <2> SUFFICES ASSUME NEW b \in Buckets, NEW t \in Tags
               PROVE  Present(b, t)' <= LiveTags(live, b, t)'
    BY DEF NoGhosts
  <2>1. Present(b, t) <= LiveTags(live, b, t)
    BY DEF IInv, NoGhosts
  <2> QED BY <1>1, <2>1
<1>3. ExactUntilFailure'
  <2> SUFFICES ASSUME insertions_failed_counter' = 0, NEW b \in Buckets, NEW t \in Tags
               PROVE  Present(b, t)' = LiveTags(live, b, t)'
    BY DEF ExactUntilFailure
  <2>1. Present(b, t) = LiveTags(live, b, t)
    BY DEF IInv, ExactUntilFailure, LosesNothing
  <2> QED BY <1>1, <2>1
<1> QED BY <1>2, <1>3

(***************************************************************************)
(* The loop.                                                               *)
(***************************************************************************)
LEMMA StoreTagStep == ASSUME IInv, StoreTag PROVE IInv' /\ LosesNothing
<1> DEFINE j == FirstSlot(table_, curindex, 0)
<1>1. /\ Running /\ curindex \in Buckets /\ curtag \in Tags /\ curtag \in 0 .. MaxTag
      /\ table_ \in Tables /\ num_items_ \in Nat
      /\ victim_ \in [index : Buckets, tag : 0 .. MaxTag, used : BOOLEAN]
      /\ live \in [Items -> Nat] /\ insertions_failed_counter \in Nat
      /\ (victim_.used => victim_.tag \in Tags)
  BY Types, KicksOperators DEF IInv, TypeOK, Kicks!StateTypes, StoreTag, Kicks!StoreTag, Kicks!InLoop, Running
<1>2. j \in Slots /\ table_[<<curindex, j>>] = 0
  BY FirstSlotHolds, KicksOperators DEF StoreTag, Kicks!StoreTag
<1>3. table_' = WriteTag(table_, curindex, j, curtag)
  BY KicksOperators DEF StoreTag, Kicks!StoreTag, InsertTagToEmpty
<1>4. UNCHANGED <<victim_, live, insertions_failed_counter>>
      /\ status' = "Ok" /\ num_items_' = num_items_ + 1
      /\ curindex' = 0 /\ curtag' = 0 /\ count' = 0
  BY DEF StoreTag, Kicks!StoreTag, Kicks!Return
<1> HIDE DEF j
<1>5. ~Running'
  BY <1>4 DEF Running, Kicks!Running
<1>6. TypeOK'
  <2>1. table_' \in Tables
    BY <1>1, <1>2, <1>3, WriteType
  <2>2. /\ num_items_' \in Nat /\ count' \in 0 .. max_relocations + 1
        /\ curindex' \in Buckets /\ curtag' \in 0 .. MaxTag
    BY <1>1, <1>4, Constants, RelocationsAreNatural
  <2>3. Typed'
    BY <1>1, <1>4, <1>5, <2>1, <2>2 DEF Typed
  <2> QED BY <2>3, TypedIs, PTL
<1>7. LosesNothing
  <2> SUFFICES ASSUME NEW b \in Buckets, NEW t \in Tags PROVE Missing(b, t)' = Missing(b, t)
    BY <1>4 DEF LosesNothing
  <2> DEFINE Q == curtag = t /\ curindex \in {b, AltIndex(b, t)}
  <2>1. One(table_[<<curindex, j>>] = t /\ curindex \in {b, AltIndex(b, t)}) = 0
    BY <1>2, Constants DEF One
  <2>2. Copies(table_, b, t)' = Copies(table_, b, t) + One(Q) - 0
    BY <1>1, <1>2, <1>3, <2>1, WriteCopies
  <2>3. One(InFlight(b, t)) = One(Q) /\ One(InFlight(b, t))' = 0
    BY <1>1, <1>5 DEF InFlight, One
  <2>4. Copies(table_, b, t) \in Nat /\ One(Q) \in Nat
    BY <1>1, CopiesType DEF One
  <2> HIDE DEF Q
  <2>5. Present(b, t) = Copies(table_, b, t) + One(Q)
        /\ Present(b, t)' = Copies(table_, b, t)' + 0
    BY <2>3, PresentIs, PresentWillBe
  <2>6. Present(b, t)' = Present(b, t)
    BY <2>2, <2>4, <2>5
  <2> QED BY <1>4, <2>6 DEF Missing
<1>8. CellsAreCounted'
  <2>1. One(curtag # 0) = 1 /\ One(table_[<<curindex, j>>] # 0) = 0
    BY <1>1, <1>2, Constants DEF One
  <2>2. Cardinality(Occupied(table_))' = Cardinality(Occupied(table_)) + 1 - 0
    BY <1>1, <1>2, <1>3, <2>1, WriteOccupied
  <2> QED BY <1>1, <1>4, <2>2, OccupiedType DEF IInv, CellsAreCounted
<1> QED BY <1>6, <1>7, <1>8, LosingNothing DEF IInv

LEMMA TryOtherBucketStep ==
  ASSUME IInv, Kicks!TryOtherBucket, UNCHANGED insertions_failed_counter
  PROVE  IInv' /\ LosesNothing
<1>1. /\ Running /\ count \in Nat /\ count < max_relocations + 1
      /\ curindex \in Buckets /\ curtag \in Tags
      /\ victim_.used => victim_.tag \in Tags
  BY Types, KicksOperators DEF IInv, TypeOK, Kicks!StateTypes, Kicks!TryOtherBucket, Kicks!InLoop, Running
<1>2. UNCHANGED <<table_, victim_, num_items_, status, curtag, live>>
      /\ curindex' = AltIndex(curindex, curtag) /\ count' = count + 1
  BY DEF Kicks!TryOtherBucket
<1>3. AltIndex(curindex, curtag) \in Buckets
  BY <1>1, AltIndexBack
<1>4. TypeOK'
  BY <1>1, <1>2, <1>3, KicksOperators, RelocationsAreNatural DEF IInv, TypeOK, Kicks!StateTypes, Kicks!Running
<1>5. LosesNothing
  <2> SUFFICES ASSUME NEW b \in Buckets, NEW t \in Tags PROVE Missing(b, t)' = Missing(b, t)
    BY DEF LosesNothing
  <2>1. AltIndex(curindex, t) \in {b, AltIndex(b, t)} <=> curindex \in {b, AltIndex(b, t)}
    BY <1>1, Pairs
  <2>2. InFlight(b, t)' <=> InFlight(b, t)
    BY <1>2, <2>1 DEF InFlight, Running, Kicks!Running
  <2>3. One(InFlight(b, t))' = One(InFlight(b, t))
    BY <2>2 DEF One
  <2>4. Present(b, t)' = Present(b, t)
    BY <1>2, <2>3, PresentIs, PresentWillBe
  <2> QED BY <1>2, <2>4 DEF Missing
<1> QED BY <1>2, <1>4, <1>5, LosingNothing DEF IInv, CellsAreCounted

LEMMA KickStep ==
  ASSUME IInv, Kicks!Kick, UNCHANGED insertions_failed_counter
  PROVE  IInv' /\ LosesNothing
<1>1. /\ Running /\ count \in Nat /\ count < max_relocations + 1
      /\ curindex \in Buckets /\ curtag \in Tags /\ curtag \in 0 .. MaxTag
      /\ ~Holds(table_, curindex, 0)
      /\ table_ \in Tables /\ Typed
  BY Types, TypedIs, KicksOperators DEF IInv, Kicks!Kick, Kicks!InLoop, Running
<1>2. UNCHANGED <<victim_, num_items_, status, live>> /\ count' = count + 1
  BY DEF Kicks!Kick
<1>3. PICK r \in Slots :
        /\ table_' = WriteTag(table_, curindex, r, curtag)
        /\ curtag' = table_[<<curindex, r>>]
        /\ curindex' = AltIndex(curindex, table_[<<curindex, r>>])
  BY KicksOperators DEF Kicks!Kick
<1> DEFINE oldtag == table_[<<curindex, r>>]
<1>4. oldtag \in Tags /\ oldtag # 0
  BY <1>1, WriteType, Constants DEF Holds
<1> HIDE DEF oldtag
<1>5. AltIndex(curindex, oldtag) \in Buckets
  BY <1>1, <1>4, AltIndexBack
<1>6. curtag' = oldtag /\ curindex' = AltIndex(curindex, oldtag)
  BY <1>3 DEF oldtag
<1>7. TypeOK'
  <2>1. table_' \in Tables
    BY <1>1, <1>3, WriteType
  <2>2. curtag' \in Tags /\ curtag' \in 0 .. MaxTag /\ curindex' \in Buckets
    BY <1>4, <1>5, <1>6, Constants
  <2>3. count' \in 0 .. max_relocations + 1
    BY <1>1, <1>2, RelocationsAreNatural
  <2>4. Typed'
    BY <1>1, <1>2, <2>1, <2>2, <2>3 DEF Typed
  <2> QED BY <2>4, TypedIs, PTL
<1>8. LosesNothing
  <2> SUFFICES ASSUME NEW b \in Buckets, NEW t \in Tags PROVE Missing(b, t)' = Missing(b, t)
    BY DEF LosesNothing
  <2>1. Copies(table_, b, t)' =
          Copies(table_, b, t)
            + One(curtag = t /\ curindex \in {b, AltIndex(b, t)})
            - One(oldtag = t /\ curindex \in {b, AltIndex(b, t)})
    BY <1>1, <1>3, WriteCopies DEF oldtag
  <2>2. One(InFlight(b, t)) = One(curtag = t /\ curindex \in {b, AltIndex(b, t)})
    BY <1>1 DEF InFlight
  <2>3. AltIndex(curindex, t) \in {b, AltIndex(b, t)} <=> curindex \in {b, AltIndex(b, t)}
    BY <1>1, Pairs
  <2>4. InFlight(b, t)' <=> (oldtag = t /\ curindex \in {b, AltIndex(b, t)})
    BY <1>1, <1>2, <1>6, <2>3 DEF InFlight, Running, Kicks!Running
  <2>5. One(InFlight(b, t))' = One(oldtag = t /\ curindex \in {b, AltIndex(b, t)})
    BY <2>4 DEF One
  <2>6. Copies(table_, b, t) \in Nat /\ One(InFlight(b, t)) \in Nat /\ One(InFlight(b, t))' \in Nat
    BY <1>1, CopiesType DEF One
  <2>7. Present(b, t)' = Present(b, t)
    BY <2>1, <2>2, <2>5, <2>6, PresentIs, PresentWillBe
  <2> QED BY <1>2, <2>7 DEF Missing
<1>9. CellsAreCounted'
  <2>1. One(curtag # 0) = 1 /\ One(oldtag # 0) = 1
    BY <1>1, <1>4, Constants DEF One
  <2>2. Cardinality(Occupied(table_))' =
          Cardinality(Occupied(table_)) + One(curtag # 0) - One(oldtag # 0)
    BY <1>1, <1>3, WriteOccupied DEF oldtag
  <2> QED BY <1>1, <1>2, <2>1, <2>2, OccupiedType DEF IInv, CellsAreCounted
<1> QED BY <1>7, <1>8, <1>9, LosingNothing DEF IInv

(* The tag that is dropped is lost, and the failure is counted. *)
LEMMA DropTagStep == ASSUME IInv, DropTag PROVE IInv' /\ LosesOne
<1>1. Running /\ Typed
  BY TypedIs DEF IInv, DropTag
<1>2. UNCHANGED <<table_, victim_, num_items_, live>> /\ status' = "Ok"
      /\ curindex' = 0 /\ curtag' = 0 /\ count' = 0
      /\ insertions_failed_counter' = insertions_failed_counter + 1
  BY DEF DropTag, Kicks!Return
<1>3. ~Running'
  BY <1>2 DEF Running, Kicks!Running
<1>4. TypeOK'
  <2>1. curindex' \in Buckets /\ curtag' \in 0 .. MaxTag /\ count' \in 0 .. max_relocations + 1
    BY <1>2, Constants, RelocationsAreNatural
  <2>2. Typed'
    BY <1>1, <1>2, <1>3, <2>1 DEF Typed
  <2> QED BY <2>2, TypedIs, PTL
<1>5. NoGhosts'
  <2> SUFFICES ASSUME NEW b \in Buckets, NEW t \in Tags
               PROVE  Present(b, t)' <= LiveTags(live, b, t)'
    BY DEF NoGhosts
  <2>1. Present(b, t) <= LiveTags(live, b, t)
    BY DEF IInv, NoGhosts
  <2>2. One(InFlight(b, t))' = 0 /\ One(InFlight(b, t)) \in Nat
    BY <1>3 DEF One, InFlight
  <2>3. Copies(table_, b, t) \in Nat /\ LiveTags(live, b, t) \in Nat
    BY Types DEF IInv
  <2>4. Present(b, t) = Copies(table_, b, t) + One(InFlight(b, t))
        /\ Present(b, t)' = Copies(table_, b, t) + 0
        /\ LiveTags(live, b, t)' = LiveTags(live, b, t)
    BY <1>2, <2>2, PresentIs, PresentWillBe
  <2> QED BY <2>1, <2>2, <2>3, <2>4
<1>6. ExactUntilFailure' /\ CellsAreCounted'
  BY <1>1, <1>2 DEF ExactUntilFailure, CellsAreCounted, Typed, IInv
<1>7. LosesOne
  <2> DEFINE other == AltIndex(curindex, curtag)
             f == <<IF curindex <= other THEN curindex ELSE other, curtag>>
  <2>1. /\ curindex \in Buckets /\ curtag \in Tags
        /\ other \in Buckets /\ AltIndex(other, curtag) = curindex
        /\ Buckets \in SUBSET Int
    <3>1. curindex \in Buckets /\ curtag \in Tags
      BY <1>1, Types DEF IInv
    <3> QED BY <3>1, AltIndexBack, Constants DEF Buckets
  <2>2. f \in Fingerprints
    <3> HIDE DEF other
    <3>1. CASE curindex <= other
      BY <2>1, <3>1 DEF Fingerprints, other
    <3>2. CASE ~(curindex <= other)
      <4>1. other <= curindex /\ f = <<other, curtag>>
        BY <2>1, <3>2
      <4> QED BY <2>1, <4>1 DEF Fingerprints
    <3> QED BY <3>1, <3>2
  <2>3. ASSUME NEW g \in Fingerprints
        PROVE  Missing(g[1], g[2])' = Missing(g[1], g[2]) + One(g = f)
    <3>1. /\ g[1] \in Buckets /\ g[2] \in Tags /\ g = <<g[1], g[2]>>
          /\ g[1] <= AltIndex(g[1], g[2])
      BY DEF Fingerprints
    <3>2. AltIndex(g[1], g[2]) \in Buckets /\ AltIndex(AltIndex(g[1], g[2]), g[2]) = g[1]
      BY <3>1, AltIndexBack
    <3>3. InFlight(g[1], g[2]) <=> g = f
      <4>1. InFlight(g[1], g[2]) <=> g[2] = curtag /\ (g[1] = curindex \/ g[1] = other)
        BY <1>1, <2>1, <3>2 DEF InFlight
      <4> HIDE DEF other
      <4>2. g = f <=> g[2] = curtag /\ g[1] = IF curindex <= other THEN curindex ELSE other
        BY <3>1
      <4>3. CASE g[2] = curtag /\ g[1] = curindex
        <5>1. curindex <= other
          BY <3>1, <4>3 DEF other
        <5> QED BY <4>1, <4>2, <4>3, <5>1
      <4>4. CASE g[2] = curtag /\ g[1] = other
        <5>1. other <= curindex
          BY <2>1, <3>1, <4>4
        <5> QED BY <2>1, <4>1, <4>2, <4>4, <5>1
      <4> QED BY <4>1, <4>2, <4>3, <4>4
    <3>4. One(InFlight(g[1], g[2])) = One(g = f) /\ One(g = f) \in Nat
      BY <3>3 DEF One
    <3>5. One(InFlight(g[1], g[2]))' = 0
      BY <1>3 DEF One, InFlight
    <3>6. Copies(table_, g[1], g[2]) \in Nat /\ LiveTags(live, g[1], g[2]) \in Nat
      BY <3>1, Types DEF IInv
    <3>7. Present(g[1], g[2]) = Copies(table_, g[1], g[2]) + One(InFlight(g[1], g[2]))
          /\ Present(g[1], g[2])' = Copies(table_, g[1], g[2]) + 0
          /\ LiveTags(live, g[1], g[2])' = LiveTags(live, g[1], g[2])
      BY <1>2, <3>5, PresentIs, PresentWillBe
    <3> HIDE DEF f
    <3> QED BY <3>4, <3>6, <3>7 DEF Missing
  <2> QED BY <1>2, <2>2, <2>3 DEF LosesOne
<1> QED BY <1>4, <1>5, <1>6, <1>7 DEF IInv

(***************************************************************************)
(* The calls.                                                              *)
(***************************************************************************)
LEMMA AddStep ==
  ASSUME IInv, NEW item \in Items, Add(item)
  PROVE  IInv' /\ LosesNothing
<1> DEFINE i == IndexOf(item)
           tag == TagOf(item)
<1>1. i \in Buckets /\ tag \in Tags /\ tag \in 0 .. MaxTag
  BY ItemTypes, Constants
<1>2. /\ ~Running /\ Typed
      /\ UNCHANGED <<table_, victim_, num_items_, insertions_failed_counter>>
      /\ status' = "running"
      /\ curindex' = i /\ curtag' = tag /\ count' = 0
      /\ live' = [live EXCEPT ![item] = @ + 1]
  BY TypedIs, KicksOperators DEF IInv, Add, Kicks!Add, Kicks!CallAddImpl, Running
<1> HIDE DEF i, tag
<1>3. live \in [Items -> Nat] /\ Running'
  BY <1>2 DEF Typed, Running, Kicks!Running
<1>4. TypeOK'
  <2>1. count' \in 0 .. max_relocations + 1 /\ live' \in [Items -> Nat]
    BY <1>2, <1>3, RelocationsAreNatural
  <2>2. Typed'
    BY <1>1, <1>2, <2>1 DEF Typed
  <2> QED BY <2>2, TypedIs, PTL
<1>5. LosesNothing
  <2> SUFFICES ASSUME NEW b \in Buckets, NEW t \in Tags PROVE Missing(b, t)' = Missing(b, t)
    BY <1>2 DEF LosesNothing
  <2> DEFINE Q == tag = t /\ i \in {b, AltIndex(b, t)}
  <2>1. LiveTags(live', b, t) = LiveTags(live, b, t) + (IF Q THEN 1 ELSE 0)
    <3>1. Gains(live, live', item, 1)
      BY <1>2 DEF Gains
    <3> QED BY <1>3, <3>1, LiveTagsChange DEF i, tag
  <2>2. One(InFlight(b, t)) = 0 /\ One(InFlight(b, t))' = One(Q)
    BY <1>2, <1>3 DEF InFlight, One
  <2>3. Copies(table_, b, t) \in Nat /\ LiveTags(live, b, t) \in Nat
    BY Types DEF IInv
  <2> HIDE DEF Q
  <2>4. Present(b, t) = Copies(table_, b, t) + 0
        /\ Present(b, t)' = Copies(table_, b, t) + One(Q)
    BY <1>2, <2>2, PresentIs, PresentWillBe
  <2>5. LiveTags(live, b, t)' = LiveTags(live, b, t) + One(Q) /\ One(Q) \in Nat
    BY <2>1 DEF One
  <2> QED BY <2>3, <2>4, <2>5 DEF Missing
<1> QED BY <1>2, <1>4, <1>5, LosingNothing DEF IInv, CellsAreCounted

(* One copy of an item leaves the client. *)
LEMMA LiveAfterDelete ==
  ASSUME IInv, NEW item \in Items, live' = [live EXCEPT ![item] = @ + (-1)],
         NEW b \in Buckets, NEW t \in Tags
  PROVE  LiveTags(live, b, t)' =
           LiveTags(live, b, t)
             - One(TagOf(item) = t /\ IndexOf(item) \in {b, AltIndex(b, t)})
<1> DEFINE P == TagOf(item) = t /\ IndexOf(item) \in {b, AltIndex(b, t)}
<1>1. live \in [Items -> Nat] /\ LiveTags(live, b, t) \in Nat
  BY Types DEF IInv
<1>2. LiveTags(live', b, t) = LiveTags(live, b, t) + (IF P THEN -1 ELSE 0)
  <2>1. -1 \in Int
    OBVIOUS
  <2>2. Gains(live, live', item, -1)
    BY DEF Gains
  <2> QED BY <1>1, <2>1, <2>2, LiveTagsChange
<1> QED
  <2> HIDE DEF P
  <2>1. LiveTags(live', b, t) = LiveTags(live, b, t) - One(P)
    BY <1>1, <1>2 DEF One
  <2> QED BY <2>1 DEF P

(* What Delete sees: what is in may be missing, what is found is in. *)
LEMMA DeleteSees ==
  ASSUME IInv, NEW item \in Items, Delete(item)
  PROVE  LET i1 == IndexOf(item)
             tag == TagOf(item)
             found == FindTagInBuckets(table_, i1, AltIndex(i1, tag), tag)
         IN  /\ ~Running /\ UNCHANGED <<victim_, insertions_failed_counter>>
             /\ curindex' = 0 /\ curtag' = 0 /\ count' = 0
             /\ live[item] \in Nat
             /\ \/ live[item] > 0 /\ live' = [live EXCEPT ![item] = @ + (-1)]
                \/ live[item] = 0 /\ ~found /\ live' = live
             /\ \/ /\ found /\ status' = "Ok"
                   /\ \E i \in {i1, AltIndex(i1, tag)} :
                        /\ Holds(table_, i, tag)
                        /\ table_' = DeleteTagFromBucket(table_, i, tag)
                        /\ num_items_' = num_items_ - 1
                \/ /\ ~found /\ status' = "NotFound"
                   /\ UNCHANGED <<table_, num_items_>>
<1> DEFINE i1 == IndexOf(item)
           tag == TagOf(item)
           i2 == AltIndex(i1, tag)
           found == FindTagInBuckets(table_, i1, i2, tag)
<1>1. live \in [Items -> Nat] /\ live[item] \in Nat
  BY Types DEF IInv
<1>2. /\ ~Running /\ UNCHANGED <<victim_, insertions_failed_counter>>
      /\ live[item] > 0 \/ ~Contain(item)
      /\ live' = [live EXCEPT ![item] = IF @ > 0 THEN @ - 1 ELSE 0]
      /\ DeleteTag(i1, i2, tag)
  BY DEF Delete
<1>3. found => Contain(item)
  BY KicksOperators DEF Contain, Kicks!Contain, Kicks!FindTagInBuckets, FindTagInBuckets
<1>4. \/ live[item] > 0 /\ live' = [live EXCEPT ![item] = @ + (-1)]
      \/ live[item] = 0 /\ ~found /\ live' = live
  <2>1. CASE live[item] > 0
    BY <1>1, <1>2, <2>1
  <2>2. CASE live[item] = 0
    <3>1. live' = live
      BY <1>1, <1>2, <2>2
    <3> HIDE DEF found
    <3> QED BY <1>2, <1>3, <2>2, <3>1
  <2> QED BY <1>1, <2>1, <2>2
<1>5. found <=> Holds(table_, i1, tag) \/ Holds(table_, i2, tag)
  BY DEF FindTagInBuckets
<1>6. /\ curindex' = 0 /\ curtag' = 0 /\ count' = 0
      /\ \/ /\ found /\ status' = "Ok"
            /\ \E i \in {i1, i2} :
                 /\ Holds(table_, i, tag)
                 /\ table_' = DeleteTagFromBucket(table_, i, tag)
                 /\ num_items_' = num_items_ - 1
         \/ /\ ~found /\ status' = "NotFound"
            /\ UNCHANGED <<table_, num_items_>>
  <2> HIDE DEF i1, i2, tag
  <2>1. CASE Holds(table_, i1, tag) /\ DeleteFromBucket(i1, tag)
    BY <1>5, <2>1 DEF DeleteFromBucket, Kicks!Return
  <2>2. CASE Holds(table_, i2, tag) /\ DeleteFromBucket(i2, tag)
    BY <1>5, <2>2 DEF DeleteFromBucket, Kicks!Return
  <2>3. CASE ~found /\ Kicks!Return("NotFound") /\ UNCHANGED <<table_, num_items_>>
    BY <2>3 DEF Kicks!Return
  <2> QED BY <1>2, <2>1, <2>2, <2>3 DEF DeleteTag
<1> QED BY <1>1, <1>2, <1>4, <1>6

LEMMA DeleteFoundStep ==
  ASSUME IInv, NEW item \in Items, Delete(item),
         FindTagInBuckets(table_, IndexOf(item), AltIndex(IndexOf(item), TagOf(item)), TagOf(item))
  PROVE  IInv' /\ LosesNothing
<1> DEFINE tag == TagOf(item)
<1>1. PICK i \in {IndexOf(item), AltIndex(IndexOf(item), tag)} :
        /\ Holds(table_, i, tag)
        /\ table_' = DeleteTagFromBucket(table_, i, tag)
        /\ num_items_' = num_items_ - 1
  BY DeleteSees
<1>2. /\ ~Running /\ UNCHANGED <<victim_, insertions_failed_counter>> /\ status' = "Ok"
      /\ curindex' = 0 /\ curtag' = 0 /\ count' = 0
      /\ live[item] \in Nat /\ live[item] > 0 /\ live' = [live EXCEPT ![item] = @ + (-1)]
  BY DeleteSees
<1>3. /\ IndexOf(item) \in Buckets /\ i \in Buckets /\ tag \in Tags /\ tag # 0 /\ 0 \in 0 .. MaxTag
      /\ Typed /\ table_ \in Tables /\ num_items_ \in Nat /\ live \in [Items -> Nat]
  BY Types, TypedIs, ItemTypes, AltIndexBack, Constants DEF IInv
<1> DEFINE j == FirstSlot(table_, i, tag)
<1>4. j \in Slots /\ table_[<<i, j>>] = tag
  BY <1>1, FirstSlotHolds
<1>5. table_' = WriteTag(table_, i, j, 0)
  BY <1>1 DEF DeleteTagFromBucket
<1>6. ~Running'
  BY <1>2 DEF Running, Kicks!Running
<1> HIDE DEF tag, j
<1>7. num_items_ = Cardinality(Occupied(table_)) /\ num_items_ > 0
  <2>1. <<i, j>> \in Cells /\ table_[<<i, j>>] # 0
    BY <1>3, <1>4 DEF Cells
  <2> QED BY <1>3, <2>1, OccupiedType DEF IInv, CellsAreCounted
<1>8. TypeOK'
  <2>1. table_' \in Tables
    BY <1>3, <1>4, <1>5, WriteType
  <2>2. live' \in [Items -> Nat]
    <3>1. live[item] + (-1) \in Nat
      BY <1>2
    <3> QED BY <1>2, <1>3, <3>1
  <2>3. /\ num_items_' \in Nat /\ count' \in 0 .. max_relocations + 1
        /\ curindex' \in Buckets /\ curtag' \in 0 .. MaxTag
    BY <1>1, <1>2, <1>3, <1>7, Constants, RelocationsAreNatural
  <2>4. Typed'
    BY <1>2, <1>3, <1>6, <2>1, <2>2, <2>3 DEF Typed
  <2> QED BY <2>4, TypedIs, PTL
<1>9. LosesNothing
  <2> SUFFICES ASSUME NEW b \in Buckets, NEW t \in Tags PROVE Missing(b, t)' = Missing(b, t)
    BY <1>2 DEF LosesNothing
  <2> DEFINE Q == tag = t /\ i \in {b, AltIndex(b, t)}
  <2>1. Copies(table_, b, t)' = Copies(table_, b, t) + 0 - One(Q)
    <3>1. One(0 = t /\ i \in {b, AltIndex(b, t)}) = 0
      BY Constants DEF One
    <3>2. One(table_[<<i, j>>] = t /\ i \in {b, AltIndex(b, t)}) = One(Q)
      BY <1>4
    <3> QED BY <1>3, <1>4, <1>5, <3>1, <3>2, WriteCopies
  <2>2. Q <=> (TagOf(item) = t /\ IndexOf(item) \in {b, AltIndex(b, t)})
    BY <1>3, Pairs DEF tag
  <2>3. LiveTags(live, b, t)' = LiveTags(live, b, t) - One(Q)
    BY <1>2, <2>2, LiveAfterDelete DEF One
  <2>4. One(InFlight(b, t)) = 0 /\ One(InFlight(b, t))' = 0
    BY <1>2, <1>6 DEF One, InFlight
  <2>5. Copies(table_, b, t) \in Nat /\ LiveTags(live, b, t) \in Nat /\ One(Q) \in Nat
    BY Types DEF IInv, One
  <2> HIDE DEF Q
  <2>6. Present(b, t) = Copies(table_, b, t) + 0
        /\ Present(b, t)' = Copies(table_, b, t)' + 0
    BY <2>4, PresentIs, PresentWillBe
  <2> QED BY <2>1, <2>3, <2>5, <2>6 DEF Missing
<1>10. CellsAreCounted'
  <2>1. One(0 # 0) = 0 /\ One(table_[<<i, j>>] # 0) = 1
    BY <1>3, <1>4 DEF One
  <2>2. Cardinality(Occupied(table_))' = Cardinality(Occupied(table_)) + 0 - 1
    BY <1>3, <1>4, <1>5, <2>1, WriteOccupied
  <2> QED BY <1>1, <1>3, <1>7, <2>2 DEF CellsAreCounted
<1> QED BY <1>8, <1>9, <1>10, LosingNothing DEF IInv

(* A fingerprint that is not found is not present. *)
LEMMA NotFoundIsAbsent ==
  ASSUME IInv, ~Running, NEW item \in Items,
         ~FindTagInBuckets(table_, IndexOf(item), AltIndex(IndexOf(item), TagOf(item)), TagOf(item)),
         NEW b \in Buckets, IndexOf(item) \in {b, AltIndex(b, TagOf(item))}
  PROVE  Present(b, TagOf(item)) = 0
<1> DEFINE t == TagOf(item)
<1>1. IndexOf(item) \in Buckets /\ t \in Tags /\ table_ \in Tables
  BY Types, ItemTypes DEF IInv
<1> HIDE DEF t
<1>2. AltIndex(b, t) \in Buckets /\ AltIndex(AltIndex(b, t), t) = b
  BY <1>1, AltIndexBack
<1>3. ~FindTagInBuckets(table_, b, AltIndex(b, t), t)
  BY <1>2 DEF FindTagInBuckets, t
<1>4. Copies(table_, b, t) = 0
  BY <1>1, <1>3, CopiesType
<1>5. One(InFlight(b, t)) = 0
  BY DEF InFlight, One
<1>6. Present(b, t) = 0
  BY <1>4, <1>5, PresentIs
<1> QED BY <1>6 DEF t

LEMMA DeleteMissingStep ==
  ASSUME IInv, NEW item \in Items, Delete(item),
         ~FindTagInBuckets(table_, IndexOf(item), AltIndex(IndexOf(item), TagOf(item)), TagOf(item))
  PROVE  IInv' /\ GivesUp
<1>1. /\ ~Running /\ UNCHANGED <<victim_, insertions_failed_counter>> /\ status' = "NotFound"
      /\ UNCHANGED <<table_, num_items_>>
      /\ curindex' = 0 /\ curtag' = 0 /\ count' = 0
  BY DeleteSees
<1>2. /\ live[item] \in Nat
      /\ \/ live[item] > 0 /\ live' = [live EXCEPT ![item] = @ + (-1)]
         \/ live' = live
  BY DeleteSees
<1>3. ~Running' /\ Typed /\ live \in [Items -> Nat]
  BY <1>1, TypedIs DEF Running, Kicks!Running, IInv, Typed
<1>4. TypeOK'
  <2>1. live[item] > 0 => live[item] + (-1) \in Nat
    BY <1>2
  <2>2. live' \in [Items -> Nat]
    BY <1>2, <1>3, <2>1
  <2>3. curindex' \in Buckets /\ curtag' \in 0 .. MaxTag /\ count' \in 0 .. max_relocations + 1
    BY <1>1, Constants, RelocationsAreNatural
  <2>4. Typed'
    BY <1>1, <1>3, <2>2, <2>3 DEF Typed
  <2> QED BY <2>4, TypedIs, PTL
<1>5. CellsAreCounted'
  BY <1>1 DEF IInv, CellsAreCounted
<1>6. ASSUME NEW b \in Buckets, NEW t \in Tags
      PROVE  Present(b, t)' = Present(b, t) /\ Present(b, t) \in Nat /\ LiveTags(live, b, t) \in Nat
  <2>1. One(InFlight(b, t)) = 0 /\ One(InFlight(b, t))' = 0
    BY <1>1, <1>3 DEF One, InFlight
  <2>2. Present(b, t)' = Present(b, t)
    BY <1>1, <2>1, PresentIs, PresentWillBe
  <2> QED BY <2>2, PresentType DEF PresentTypes, IInv
<1>7. CASE live' = live
  <2>1. LosesNothing
    BY <1>1, <1>6, <1>7 DEF LosesNothing, Missing
  <2>2. GivesUp
    BY <1>1, <1>6, <1>7 DEF GivesUp, Missing
  <2> QED BY <1>4, <1>5, <2>1, <2>2, LosingNothing DEF IInv
<1>8. CASE live[item] > 0 /\ live' = [live EXCEPT ![item] = @ + (-1)]
  <2>1. insertions_failed_counter # 0
    <3> SUFFICES ASSUME insertions_failed_counter = 0 PROVE FALSE
      OBVIOUS
    <3>1. IndexOf(item) \in Buckets /\ TagOf(item) \in Tags
      BY ItemTypes
    <3>2. Present(IndexOf(item), TagOf(item)) = LiveTags(live, IndexOf(item), TagOf(item))
      BY <3>1 DEF IInv, ExactUntilFailure
    <3>3. Present(IndexOf(item), TagOf(item)) = 0
      BY <1>1, <3>1, NotFoundIsAbsent
    <3>4. LiveTags(live, IndexOf(item), TagOf(item)) > 0
      BY <1>3, <1>8, LiveItemCounts
    <3> QED BY <3>2, <3>3, <3>4
  <2>2. ExactUntilFailure'
    BY <1>1, <2>1 DEF ExactUntilFailure
  <2>3. NoGhosts'
    <3> SUFFICES ASSUME NEW b \in Buckets, NEW t \in Tags
                 PROVE  Present(b, t)' <= LiveTags(live, b, t)'
      BY DEF NoGhosts
    <3> DEFINE Q == TagOf(item) = t /\ IndexOf(item) \in {b, AltIndex(b, t)}
    <3>1. LiveTags(live, b, t)' = LiveTags(live, b, t) - One(Q)
      BY <1>8, LiveAfterDelete
    <3>2. Present(b, t) <= LiveTags(live, b, t)
      BY DEF IInv, NoGhosts
    <3>3. CASE Q
      <4>1. Present(b, t)' = 0
        BY <1>1, <1>6, <3>3, NotFoundIsAbsent
      <4>2. LiveTags(live, b, t)' \in Nat
        <5>1. PresentTypes'
          BY <1>4, PresentType, PTL
        <5> QED BY <5>1 DEF PresentTypes
      <4> QED BY <4>1, <4>2
    <3>4. CASE ~Q
      <4>1. One(Q) = 0
        BY <3>4 DEF One
      <4> HIDE DEF Q
      <4> QED BY <1>6, <3>1, <3>2, <4>1
    <3> QED BY <3>3, <3>4
  <2>4. GivesUp
    <3> SUFFICES ASSUME NEW b \in Buckets, NEW t \in Tags
                 PROVE  Missing(b, t)' <= Missing(b, t)
      BY <1>1 DEF GivesUp
    <3> DEFINE Q == TagOf(item) = t /\ IndexOf(item) \in {b, AltIndex(b, t)}
    <3>1. LiveTags(live, b, t)' = LiveTags(live, b, t) - One(Q) /\ One(Q) \in Nat
      BY <1>8, LiveAfterDelete DEF One
    <3> HIDE DEF Q
    <3> QED BY <1>6, <3>1 DEF Missing
  <2> QED BY <1>4, <1>5, <2>2, <2>3, <2>4 DEF IInv
<1> QED BY <1>2, <1>7, <1>8

LEMMA StutterStep == ASSUME IInv, UNCHANGED vars PROVE IInv' /\ LosesNothing
<1>1. UNCHANGED <<table_, victim_, num_items_, status, curindex, curtag, count,
                  insertions_failed_counter, live>>
  BY DEF vars, locals
<1>2. Typed'
  <2>1. Typed
    BY TypedIs DEF IInv
  <2> QED BY <1>1, <2>1 DEF Typed, Running, Kicks!Running
<1>3. TypeOK'
  BY <1>2, TypedIs, PTL
<1>4. LosesNothing
  BY <1>1 DEF LosesNothing, Missing, Present, Kicks!InFlight, Kicks!Running
<1> QED BY <1>1, <1>3, <1>4, LosingNothing DEF IInv, CellsAreCounted

LEMMA NothingLive ==
  ASSUME live = [item \in Items |-> 0], NEW b \in Buckets, NEW t \in Tags
  PROVE  LiveTags(live, b, t) = 0
<1>1. \A c \in Buckets : LiveAt(live, c, t) = 0
  BY Constants DEF LiveAt, Items
<1> QED BY <1>1, AltIndexBack DEF LiveTags

LEMMA InitInv == Init => IInv
<1> SUFFICES ASSUME Init PROVE IInv
  OBVIOUS
<1>1. /\ table_ = EmptyTable /\ num_items_ = 0 /\ status = "Ok"
      /\ victim_ = [index |-> 0, tag |-> 0, used |-> FALSE]
      /\ curindex = 0 /\ curtag = 0 /\ count = 0
      /\ live = [item \in Items |-> 0] /\ insertions_failed_counter = 0
  BY KicksOperators DEF Init, Kicks!Init
<1>2. ~Running
  BY <1>1 DEF Running, Kicks!Running
<1>3. TypeOK
  <2>1. Typed
    BY <1>1, <1>2, EmptyTableIsEmpty, Constants, RelocationsAreNatural DEF Typed
  <2> QED BY <2>1, TypedIs
<1>4. ASSUME NEW b \in Buckets, NEW t \in Tags
      PROVE  Present(b, t) = 0 /\ LiveTags(live, b, t) = 0
  <2>1. LiveTags(live, b, t) = 0
    BY <1>1, NothingLive
  <2>2. One(InFlight(b, t)) = 0
    BY <1>2 DEF One, InFlight
  <2> QED BY <1>1, <2>1, <2>2, EmptyTableIsEmpty, PresentIs
<1>5. NoGhosts /\ ExactUntilFailure
  BY <1>4 DEF NoGhosts, ExactUntilFailure
<1>6. CellsAreCounted
  BY <1>1, EmptyTableIsEmpty DEF CellsAreCounted
<1> QED BY <1>3, <1>5, <1>6 DEF IInv

LEMMA NextInv == IInv /\ [Next]_vars => IInv'
<1> SUFFICES ASSUME IInv, [Next]_vars PROVE IInv'
  OBVIOUS
<1>1. ASSUME NEW item \in Items, Add(item) PROVE IInv'
  BY <1>1, AddStep
<1>2. ASSUME NEW item \in Items, Delete(item) PROVE IInv'
  BY <1>2, DeleteFoundStep, DeleteMissingStep
<1>3. CASE AddImpl_with_fn
  BY <1>3, StoreTagStep, TryOtherBucketStep, KickStep, DropTagStep DEF AddImpl_with_fn, MoveOn
<1>4. CASE UNCHANGED vars
  BY <1>4, StutterStep
<1> QED BY <1>1, <1>2, <1>3, <1>4 DEF Next

(* The inductive invariant holds of every behaviour of the filter. *)
THEOREM Inductive == Spec => []IInv
BY InitInv, NextInv, PTL DEF Spec

(* The state, the loop's locals and the counters keep their types; the     *)
(* count of items never falls below zero.                                  *)
THEOREM TypeCorrect == Spec => []TypeOK
<1>1. IInv => TypeOK
  BY DEF IInv
<1> QED BY <1>1, Inductive, PTL

(* However many tags were dropped, the table holds no more of a tag than   *)
(* the client has in.                                                      *)
THEOREM NoGhostTags == Spec => []NoGhosts
<1>1. IInv => NoGhosts
  BY DEF IInv
<1> QED BY <1>1, Inductive, PTL

-----------------------------------------------------------------------------
(* The missing copies are finitely many, and no more than the failures. *)
Counted == IsFiniteSet(MissingCopies) /\ MissingAreCounted

MissingType ==
  \A f \in Fingerprints : Missing(f[1], f[2]) \in Nat

LEMMA MissingIsNatural == IInv => MissingType
<1> SUFFICES ASSUME IInv, NEW f \in Fingerprints PROVE Missing(f[1], f[2]) \in Nat
  BY DEF MissingType
<1>1. f[1] \in Buckets /\ f[2] \in Tags
  BY DEF Fingerprints
<1>2. Present(f[1], f[2]) \in Nat /\ LiveTags(live, f[1], f[2]) \in Nat
      /\ Present(f[1], f[2]) <= LiveTags(live, f[1], f[2])
  BY <1>1, PresentType DEF PresentTypes, IInv, NoGhosts
<1> QED BY <1>2 DEF Missing

(* Copies that are no longer missing leave the set. *)
LEMMA MissingShrinks ==
  ASSUME IInv, IInv', Counted,
         \A f \in Fingerprints : Missing(f[1], f[2])' <= Missing(f[1], f[2]),
         UNCHANGED insertions_failed_counter
  PROVE  Counted'
<1>1. MissingType /\ MissingType'
  BY MissingIsNatural, PTL
<1>2. insertions_failed_counter \in Nat
  BY Types DEF IInv
<1>3. MissingCopies' \subseteq MissingCopies
  BY <1>1 DEF MissingCopies, MissingType
<1>4. /\ IsFiniteSet(MissingCopies) /\ Cardinality(MissingCopies) \in Nat
      /\ Cardinality(MissingCopies) <= insertions_failed_counter
  BY FS_CardinalityType DEF Counted, MissingAreCounted
<1>5. /\ IsFiniteSet(MissingCopies') /\ Cardinality(MissingCopies') \in Nat
      /\ Cardinality(MissingCopies') <= Cardinality(MissingCopies)
  BY <1>3, <1>4, FS_Subset, FS_CardinalityType
<1> QED BY <1>2, <1>4, <1>5 DEF Counted, MissingAreCounted

LEMMA MissingGrows == ASSUME IInv, IInv', Counted, LosesOne PROVE Counted'
<1>1. MissingType /\ MissingType'
  BY MissingIsNatural, PTL
<1>2. insertions_failed_counter \in Nat
      /\ insertions_failed_counter' = insertions_failed_counter + 1
  BY Types DEF IInv, LosesOne
<1>3. PICK f \in Fingerprints : \A g \in Fingerprints :
        Missing(g[1], g[2])' = Missing(g[1], g[2]) + One(g = f)
  BY DEF LosesOne
<1> DEFINE e == <<f, Missing(f[1], f[2]) + 1>>
<1>4. MissingCopies' \subseteq MissingCopies \cup {e}
  <2> SUFFICES ASSUME NEW g \in Fingerprints, NEW n \in 1 .. Missing(g[1], g[2])'
               PROVE  <<g, n>> \in MissingCopies \/ <<g, n>> = e
    BY DEF MissingCopies
  <2>1. Missing(g[1], g[2]) \in Nat /\ Missing(g[1], g[2])' = Missing(g[1], g[2]) + One(g = f)
    BY <1>1, <1>3 DEF MissingType
  <2>2. n \in 1 .. Missing(g[1], g[2]) => <<g, n>> \in MissingCopies
    BY DEF MissingCopies
  <2>3. CASE g = f
    <3>1. n \in 1 .. Missing(f[1], f[2]) + 1
      BY <2>1, <2>3 DEF One
    <3>2. n \in 1 .. Missing(f[1], f[2]) \/ n = Missing(f[1], f[2]) + 1
      BY <2>1, <2>3, <3>1
    <3> QED BY <2>2, <2>3, <3>2
  <2>4. CASE g # f
    <3>1. Missing(g[1], g[2])' = Missing(g[1], g[2])
      BY <2>1, <2>4 DEF One
    <3> QED BY <2>2, <3>1
  <2> QED BY <2>3, <2>4
<1> DEFINE more == MissingCopies \cup {e}
<1> HIDE DEF e
<1>5. /\ IsFiniteSet(MissingCopies) /\ Cardinality(MissingCopies) \in Nat
      /\ Cardinality(MissingCopies) <= insertions_failed_counter
  BY FS_CardinalityType DEF Counted, MissingAreCounted
<1>6. /\ IsFiniteSet(more)
      /\ Cardinality(more) \in Nat
      /\ Cardinality(more) <= Cardinality(MissingCopies) + 1
  <2>1. CASE e \in MissingCopies
    <3>1. more = MissingCopies
      BY <2>1
    <3> HIDE DEF more
    <3> QED BY <1>5, <3>1
  <2>2. CASE e \notin MissingCopies
    <3>1. /\ IsFiniteSet(more)
          /\ Cardinality(more) = Cardinality(MissingCopies) + 1
      BY <1>5, <2>2, FS_AddElement
    <3> HIDE DEF more
    <3> QED BY <1>5, <3>1
  <2> QED BY <2>1, <2>2
<1>7. /\ IsFiniteSet(MissingCopies') /\ Cardinality(MissingCopies') \in Nat
      /\ Cardinality(MissingCopies') <= Cardinality(more)
  BY <1>4, <1>6, FS_Subset, FS_CardinalityType
<1>8. Cardinality(MissingCopies') <= insertions_failed_counter'
  BY <1>2, <1>5, <1>6, <1>7
<1> QED BY <1>7, <1>8 DEF Counted, MissingAreCounted

(* The copies the client believes are in and the table has lost are never  *)
(* more than the failures counted, for a kick moves a tag between its two  *)
(* buckets only and a deletion takes one copy of its own fingerprint.      *)
THEOREM FailuresCoverMissing == Spec => []MissingAreCounted
<1>1. Init => Counted
  <2> SUFFICES ASSUME Init PROVE Counted
    OBVIOUS
  <2>1. IInv /\ ExactUntilFailure /\ insertions_failed_counter = 0
    BY InitInv DEF IInv, Init
  <2>2. ASSUME NEW f \in Fingerprints PROVE 1 .. Missing(f[1], f[2]) = {}
    <3>1. f[1] \in Buckets /\ f[2] \in Tags
      BY DEF Fingerprints
    <3>2. Present(f[1], f[2]) = LiveTags(live, f[1], f[2]) /\ Present(f[1], f[2]) \in Nat
      BY <2>1, <3>1, PresentType DEF ExactUntilFailure, IInv, PresentTypes
    <3>3. Missing(f[1], f[2]) = 0
      BY <3>2 DEF Missing
    <3> QED BY <3>3
  <2>3. MissingCopies = {}
    BY <2>2 DEF MissingCopies
  <2> QED BY <2>1, <2>3, FS_EmptySet DEF Counted, MissingAreCounted
<1>2. IInv /\ IInv' /\ Counted /\ [Next]_vars => Counted'
  <2> SUFFICES ASSUME IInv, IInv', Counted, [Next]_vars PROVE Counted'
    OBVIOUS
  <2>1. LosesNothing \/ LosesOne \/ GivesUp
    BY AddStep, DeleteFoundStep, DeleteMissingStep, StoreTagStep, TryOtherBucketStep,
       KickStep, DropTagStep, StutterStep DEF Next, AddImpl_with_fn, MoveOn
  <2>2. CASE LosesOne
    BY <2>2, MissingGrows
  <2>3. CASE GivesUp
    BY <2>3, MissingShrinks DEF GivesUp, Fingerprints
  <2>4. CASE LosesNothing
    <3>1. \A f \in Fingerprints : Missing(f[1], f[2])' <= Missing(f[1], f[2])
      <4>1. MissingType
        BY MissingIsNatural
      <4> QED BY <2>4, <4>1 DEF LosesNothing, MissingType, Fingerprints
    <3> QED BY <2>4, <3>1, MissingShrinks DEF LosesNothing
  <2> QED BY <2>1, <2>2, <2>3, <2>4
<1>3. Counted => MissingAreCounted
  BY DEF Counted
<1> QED BY <1>1, <1>2, <1>3, Inductive, PTL DEF Spec

-----------------------------------------------------------------------------
Positive ==
  {item \in Items : Contain(item) \/ Kicks!InFlight(IndexOf(item), TagOf(item))}

Failed == insertions_failed_counter > 0

(* Until the first failure the filter answers yes exactly for what shares  *)
(* its fingerprint with something that is in.                              *)
PositiveMeansLive ==
  ~Failed => \A item \in Items :
               item \in Positive <=> LiveTags(live, IndexOf(item), TagOf(item)) > 0

(* No victim is ever made. *)
NoVictim == ~victim_.used

LEMMA NoVictimInductive == Spec => []NoVictim
<1>1. Init => NoVictim
  BY DEF Init, Kicks!Init, NoVictim
<1>2. NoVictim /\ [Next]_vars => NoVictim'
  <2> SUFFICES ASSUME NoVictim, [Next]_vars PROVE NoVictim'
    OBVIOUS
  <2>1. victim_' = victim_
    BY DEF Next, vars, Add, Kicks!Add, Delete, AddImpl_with_fn, StoreTag, Kicks!StoreTag,
           MoveOn, Kicks!TryOtherBucket, Kicks!Kick, DropTag
  <2> QED BY <2>1 DEF NoVictim
<1> QED BY <1>1, <1>2, PTL DEF Spec

LEMMA PositiveMeansLiveHolds == IInv /\ NoVictim => PositiveMeansLive
<1> SUFFICES ASSUME IInv, NoVictim, ~Failed, NEW item \in Items
             PROVE  item \in Positive <=> LiveTags(live, IndexOf(item), TagOf(item)) > 0
  BY DEF PositiveMeansLive
<1> DEFINE i == IndexOf(item)
           tag == TagOf(item)
           found == FindTagInBuckets(table_, i, AltIndex(i, tag), tag)
<1>1. i \in Buckets /\ tag \in Tags /\ table_ \in Tables /\ insertions_failed_counter = 0
  BY Types, ItemTypes DEF IInv, Failed
<1>2. item \in Positive <=> found \/ InFlight(i, tag)
  <2>1. Contain(item) <=> found
    BY KicksOperators DEF NoVictim, Contain, Kicks!Contain, Kicks!IsVictim,
                          Kicks!FindTagInBuckets, FindTagInBuckets
  <2>2. Kicks!InFlight(i, tag) <=> InFlight(i, tag)
    BY DEF Kicks!InFlight, InFlight, Running
  <2> QED BY <2>1, <2>2 DEF Positive
<1> HIDE DEF i, tag
<1>3. Copies(table_, i, tag) \in Nat /\ (Copies(table_, i, tag) > 0 <=> found)
  BY <1>1, CopiesType
<1>4. Copies(table_, i, tag) + One(InFlight(i, tag)) = LiveTags(live, i, tag)
  BY <1>1, PresentIs DEF IInv, ExactUntilFailure
<1> HIDE DEF found
<1>5. item \in Positive <=> LiveTags(live, i, tag) > 0
  BY <1>2, <1>3, <1>4 DEF One
<1> QED BY <1>5 DEF i, tag

(* The filter keeps the promise of ApproxSet until its first failure.      *)
THEOREM Implements == Spec => KeepsPromise
<1>1. Init => Promise!Init
  <2> SUFFICES ASSUME Init PROVE Promise!Init
    OBVIOUS
  <2>1. IInv /\ NoVictim /\ insertions_failed_counter = 0 /\ live = [item \in Items |-> 0]
    BY InitInv, KicksOperators DEF Init, Kicks!Init, NoVictim
  <2>2. ASSUME NEW item \in Items PROVE item \notin Positive
    <3>1. IndexOf(item) \in Buckets /\ TagOf(item) \in Tags
      BY ItemTypes
    <3>2. LiveTags(live, IndexOf(item), TagOf(item)) = 0
      BY <2>1, <3>1, NothingLive
    <3> QED BY <2>1, <3>2, PositiveMeansLiveHolds DEF PositiveMeansLive, Failed
  <2>3. Positive = {}
    BY <2>2 DEF Positive
  <2> QED BY <2>1, <2>3 DEF Promise!Init, Positive
<1>2. IInv /\ IInv' /\ NoVictim /\ NoVictim' /\ [Next]_vars => [Promise!Next]_(Promise!vars)
  <2> SUFFICES ASSUME IInv, IInv', NoVictim, NoVictim', [Next]_vars
               PROVE  [Promise!Next]_(Promise!vars)
    OBVIOUS
  <2>1. PositiveMeansLive /\ PositiveMeansLive'
    BY PositiveMeansLiveHolds, PTL
  <2>2. /\ live \in [Items -> Nat] /\ live' \in [Items -> Nat]
        /\ insertions_failed_counter \in Nat /\ insertions_failed_counter' \in Nat
    <3>1. Typed /\ Typed'
      BY TypedIs, PTL DEF IInv
    <3> QED BY <3>1 DEF Typed
  <2>3. ASSUME NEW item \in Items, ~Failed', live'[item] > 0 PROVE item \in Positive'
    <3>1. LiveTags(live', IndexOf(item), TagOf(item)) > 0
      BY <2>2, <2>3, LiveItemCounts
    <3> QED BY <2>1, <2>3, <3>1 DEF PositiveMeansLive
  <2>4. CASE live' = live /\ insertions_failed_counter' = insertions_failed_counter
    <3>1. CASE Failed
      BY <2>4, <3>1 DEF Promise!Next, Promise!GiveUp, Failed
    <3>2. CASE ~Failed
      <4>1. ~Failed'
        BY <2>4, <3>2 DEF Failed
      <4>2. \A item \in Items : item \in Positive <=> item \in Positive'
        BY <2>1, <2>4, <3>2, <4>1 DEF PositiveMeansLive
      <4>3. Positive' = Positive
        BY <4>2 DEF Positive
      <4> QED BY <2>4, <4>3 DEF Promise!vars, Positive
    <3> QED BY <3>1, <3>2
  <2>5. ASSUME NEW item \in Items, Add(item) PROVE Promise!Next
    <3>1. live' = [live EXCEPT ![item] = @ + 1]
          /\ insertions_failed_counter' = insertions_failed_counter
      BY <2>5 DEF Add, Kicks!Add
    <3>2. CASE ~Failed
      <4>1. ~Failed'
        BY <3>1, <3>2 DEF Failed
      <4>2. item \in Positive'
        BY <2>2, <2>3, <3>1, <4>1
      <4>3. Positive \subseteq Positive'
        <5> SUFFICES ASSUME NEW k \in Items, k \in Positive PROVE k \in Positive'
          BY DEF Positive
        <5> DEFINE b == IndexOf(k)
                   t == TagOf(k)
        <5>1. b \in Buckets /\ t \in Tags
          BY ItemTypes
        <5>2. LiveTags(live, b, t) > 0 /\ LiveTags(live, b, t) \in Nat
          BY <2>1, <2>2, <3>2, <5>1, LiveTagsType DEF PositiveMeansLive
        <5>3. Gains(live, live', item, 1)
          BY <3>1 DEF Gains
        <5>4. LiveTags(live', b, t) =
                LiveTags(live, b, t) + (IF TagOf(item) = t /\ IndexOf(item) \in {b, AltIndex(b, t)} THEN 1 ELSE 0)
          <6> HIDE DEF b, t
          <6> QED BY <2>2, <5>1, <5>3, LiveTagsChange
        <5>5. LiveTags(live', b, t) > 0
          <6> HIDE DEF b, t
          <6> QED BY <5>2, <5>4
        <5> QED BY <2>1, <4>1, <5>5 DEF PositiveMeansLive
      <4>4. Promise!Insert(item)
        BY <3>1, <3>2, <4>1, <4>2, <4>3 DEF Promise!Insert, Positive, Failed
      <4> QED BY <4>4 DEF Promise!Next
    <3>3. CASE Failed
      BY <3>1, <3>3 DEF Promise!Next, Promise!Insert, Failed
    <3> QED BY <3>2, <3>3
  <2>6. ASSUME NEW item \in Items, Delete(item), live' # live PROVE Promise!Next
    <3>1. live[item] > 0 /\ live' = [live EXCEPT ![item] = @ + (-1)]
          /\ insertions_failed_counter' = insertions_failed_counter
      BY <2>6, DeleteSees
    <3>2. live' = [live EXCEPT ![item] = @ - 1]
      BY <2>2, <3>1
    <3>3. CASE Failed
      BY <3>1, <3>2, <3>3 DEF Promise!Next, Promise!Remove, Failed
    <3>4. CASE ~Failed
      <4>1. ~Failed'
        BY <3>1, <3>4 DEF Failed
      <4>2. Positive' \subseteq Positive
        <5> SUFFICES ASSUME NEW k \in Items, k \in Positive' PROVE k \in Positive
          BY DEF Positive
        <5> DEFINE b == IndexOf(k)
                   t == TagOf(k)
        <5>1. b \in Buckets /\ t \in Tags
          BY ItemTypes
        <5>2. LiveTags(live', b, t) > 0 /\ LiveTags(live, b, t) \in Nat
          BY <2>1, <2>2, <4>1, <5>1, LiveTagsType DEF PositiveMeansLive
        <5>3. LiveTags(live, b, t)' =
                LiveTags(live, b, t) - One(TagOf(item) = t /\ IndexOf(item) \in {b, AltIndex(b, t)})
          BY <3>1, <5>1, LiveAfterDelete
        <5>4. LiveTags(live, b, t) > 0
          <6> HIDE DEF b, t
          <6> QED BY <5>2, <5>3 DEF One
        <5> QED BY <2>1, <3>4, <5>4 DEF PositiveMeansLive
      <4>3. Promise!In(live') \subseteq Positive'
        BY <2>3, <4>1 DEF Promise!In
      <4>4. Promise!Remove(item)
        BY <3>1, <3>2, <3>4, <4>1, <4>2, <4>3 DEF Promise!Remove, Positive, Failed
      <4> QED BY <4>4 DEF Promise!Next
    <3> QED BY <3>3, <3>4
  <2>7. CASE DropTag
    <3>1. live' = live /\ insertions_failed_counter' = insertions_failed_counter + 1
      BY <2>7 DEF DropTag
    <3> QED BY <2>2, <3>1 DEF Promise!Next, Promise!GiveUp
  <2>8. CASE StoreTag \/ MoveOn \/ UNCHANGED vars
    BY <2>4, <2>8 DEF StoreTag, Kicks!StoreTag, MoveOn, Kicks!TryOtherBucket, Kicks!Kick, vars
  <2>9. ASSUME NEW item \in Items, Delete(item), live' = live PROVE [Promise!Next]_(Promise!vars)
    BY <2>4, <2>9 DEF Delete
  <2> QED BY <2>5, <2>6, <2>7, <2>8, <2>9 DEF Next, AddImpl_with_fn
<1> QED BY <1>1, <1>2, Inductive, NoVictimInductive, PTL DEF Spec, Promise!Spec, KeepsPromise
=============================================================================
