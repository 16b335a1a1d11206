----------------------------- MODULE SpareBucket -----------------------------
(***************************************************************************)
(* A bucket of the spare as its bits: MainBucket and Quotients             *)
(* (PD_Filter/L2_pd/twoDimPD.hpp), as packed_spare.hpp uses them.          *)
(*                                                                         *)
(*   header    one 0 for each element of a place and then a 1, place by    *)
(*             place; it spills from a first word into a second            *)
(*   location  one bit for each element: this is its primary bucket        *)
(*   body      a remainder for each element, ordered within a place        *)
(*   Q_list    a quotient for each element, packed into words              *)
(*                                                                         *)
(* The four must be shifted alike by every operation.                      *)
(***************************************************************************)
EXTENDS ItemKeys, WordBits

CONSTANTS
  BatchSize,       (* batch_size, 32.                                       *)
  BucketCapacity,  (* max_capacity, 48.                                     *)
  MaxSpareQuot,    (* MASK(quot_length), 15.                                *)
  WORD_BITS,       (* Bits of a header word, 64.                            *)
  QuotsPerWord,    (* word_capacity: quotients that a word packs, 16.       *)
  UsedSlots        (* The slots the runs put in.                            *)

HeaderSize == BucketCapacity + BatchSize

(* The empty header, MASK(batch_size), lies in the first word. *)
ASSUME BucketSizes ==
  /\ {BatchSize, BucketCapacity, WORD_BITS, QuotsPerWord} \subseteq Nat \ {0}
  /\ MaxSpareQuot \in Nat
  /\ BatchSize <= WORD_BITS
  /\ WORD_BITS < HeaderSize /\ HeaderSize <= 2 * WORD_BITS
  /\ BucketCapacity % QuotsPerWord = 0

Slots == (0 .. BatchSize - 1) \X BOOLEAN \X ((0 .. MaxSpareQuot) \X (0 .. Rems - 1))

ASSUME UsedSlotsAreSlots == UsedSlots \subseteq Slots

VARIABLE bucket

Indices == 0 .. BucketCapacity - 1
Words == 0 .. (BucketCapacity \div QuotsPerWord) - 1
InWord == 0 .. QuotsPerWord - 1

-----------------------------------------------------------------------------
(* The header's two words. *)
Lo(h) == [i \in 0 .. WORD_BITS - 1 |-> h[i]]
Hi(h) == [i \in 0 .. HeaderSize - WORD_BITS - 1 |-> h[WORD_BITS + i]]

select128(h, j) ==
  LET pop == Popcount(Lo(h))
  IN  IF j < pop THEN Select(Lo(h), j) ELSE WORD_BITS + Select(Hi(h), j - pop)

(* A place's bits of the header: begin is its first, end its 1. *)
RunBegin(h, place) == IF place = 0 THEN 0 ELSE select128(h, place - 1) + 1
RunEnd(h, place) == select128(h, place)

(* Mutant: the 0s the run has in the first word are left out. *)
get_mask_from_header_HiOnly(h, place) ==
  LET pop == Popcount(Lo(h))
  IN  CASE place = 0 -> 0 .. FirstOne(h) - 1
        [] place # 0 /\ place < pop -> Select(Lo(h), place - 1) + 1 .. Select(Lo(h), place) - 1
        [] place # 0 /\ place = pop -> WORD_BITS .. WORD_BITS + FirstOne(Hi(h)) - 1
        [] place > pop -> WORD_BITS + Select(Hi(h), place - pop - 1) + 1
                            .. WORD_BITS + Select(Hi(h), place - pop) - 1

(***************************************************************************)
(* The positions of a place's 0s.  The run lies in the first word, in the  *)
(* second, or goes from the last 1 of the first to the first 1 of the      *)
(* second.                                                                 *)
(***************************************************************************)
get_mask_from_header(h, place) ==
  LET pop == Popcount(Lo(h))
  IN  CASE place = 0 -> 0 .. FirstOne(h) - 1
        [] place # 0 /\ place < pop -> Select(Lo(h), place - 1) + 1 .. Select(Lo(h), place) - 1
        [] place # 0 /\ place = pop -> LastOne(Lo(h)) + 1 .. WORD_BITS + FirstOne(Hi(h)) - 1
        [] place > pop -> WORD_BITS + Select(Hi(h), place - pop - 1) + 1
                            .. WORD_BITS + Select(Hi(h), place - pop) - 1

(* The same as indices of elements: the mask shifted by the place. *)
RunMask(b, place) == {i - place : i \in get_mask_from_header(b.header, place)}

get_location_bitmask(b, primary) == {i \in Indices : (b.location[i] = 1) = primary}

body_find(b, rem) == {i \in Indices : b.body[i] = rem}

find(b, place, rem, primary) ==
  body_find(b, rem) \cap RunMask(b, place) \cap get_location_bitmask(b, primary)

pop_get_mask(b, place, primary) ==
  RunMask(b, place) \cap get_location_bitmask(b, primary)

(* From the last 1 of the header, in the second word if there is one. *)
get_capacity(b) ==
  IF SetBits(Hi(b.header)) # {}
    THEN WORD_BITS + LastOne(Hi(b.header)) + 1 - BatchSize
    ELSE LastOne(Lo(b.header)) + 1 - BatchSize

is_full(b) == b.header[HeaderSize - 1] = 1

-----------------------------------------------------------------------------
(* Quotients: the list of quotients over its words. *)
read_quot_by_index(q, i) == q[i \div QuotsPerWord][i % QuotsPerWord]

my_cmp_epu(quot, q) == {i \in Indices : read_quot_by_index(q, i) = quot}

(* Mutant: what falls off the end of a word is not carried into the next. *)
add_NoCarry(q, i, quot) ==
  LET word == i \div QuotsPerWord
  IN  [w \in Words |->
         IF w < word THEN q[w]
         ELSE IF w = word THEN ShiftIn(q[w], i % QuotsPerWord, quot)
         ELSE ShiftIn(q[w], 0, 0)]

(* add_simple_shift: the later words move up, each taking the last quotient *)
(* of the one before.                                                       *)
add(q, i, quot) ==
  LET word == i \div QuotsPerWord
  IN  [w \in Words |->
         IF w < word THEN q[w]
         ELSE IF w = word THEN ShiftIn(q[w], i % QuotsPerWord, quot)
         ELSE ShiftIn(q[w], 0, q[w - 1][QuotsPerWord - 1])]

(* Mutant: nothing is shifted into the last word, which keeps its last. *)
DeleteQuot_KeepLast(q, i) ==
  LET word == i \div QuotsPerWord
      carry(w) == IF w + 1 \in Words THEN q[w + 1][0] ELSE q[w][QuotsPerWord - 1]
  IN  [w \in Words |->
         IF w < word THEN q[w]
         ELSE ShiftOut(q[w], IF w = word THEN i % QuotsPerWord ELSE 0, carry(w))]

(* conditional_remove_simple_shift_helper: the reverse; the last quotient *)
(* of a word is the first of the next, and of the last word 0.            *)
DeleteQuot(q, i) ==
  LET word == i \div QuotsPerWord
      carry(w) == IF w + 1 \in Words THEN q[w + 1][0] ELSE 0
  IN  [w \in Words |->
         IF w < word THEN q[w]
         ELSE ShiftOut(q[w], IF w = word THEN i % QuotsPerWord ELSE 0, carry(w))]

(* The first index of the mask with the biggest quotient. *)
get_maximal_quot(q, mask) ==
  CHOOSE i \in mask :
    \A k \in mask : \/ read_quot_by_index(q, k) < read_quot_by_index(q, i)
                    \/ read_quot_by_index(q, k) = read_quot_by_index(q, i) /\ k >= i

-----------------------------------------------------------------------------
(* packed_spare's helpers over the two. *)
find_helper(b, place, primary, key) ==
  find(b, place, key[2], primary) \cap my_cmp_epu(key[1], b.Q_list) # {}

(* Mutant: a primary element goes in front of the secondary ones. *)
InsertIndex_IgnoresLocation(b, place, rem, primary) ==
  LET begin == RunBegin(b.header, place) - place
      end == RunEnd(b.header, place) - place
  IN  Min({i \in begin .. end : i = end \/ rem <= b.body[i]})

(* Where insert puts a remainder: in front of the first that is not        *)
(* smaller, but, if primary, behind the equal ones that are not.           *)
InsertIndex(b, place, rem, primary) ==
  LET begin == RunBegin(b.header, place) - place
      end == RunEnd(b.header, place) - place
      first == Min({i \in begin .. end : i = end \/ rem <= b.body[i]})
  IN  IF primary
      THEN Min({i \in first .. end : i = end \/ b.body[i] # rem \/ b.location[i] = 1})
      ELSE first

Inserted(b, place, primary, key) ==
  LET i == InsertIndex(b, place, key[2], primary)
  IN  [header |-> InsertZero(b.header, RunEnd(b.header, place)),
       location |-> ShiftIn(b.location, i, IF primary THEN 1 ELSE 0),
       body |-> ShiftIn(b.body, i, key[2]),
       Q_list |-> add(b.Q_list, i, key[1])]

(* pop_remove_by_index after conditional_remove: bit, bit, byte, quotient. *)
RemovedAt(b, place, i) ==
  [header |-> DeleteZero(b.header, RunBegin(b.header, place)),
   location |-> ShiftOut(b.location, i, 0),
   body |-> ShiftOut(b.body, i, b.body[BucketCapacity - 1]),
   Q_list |-> DeleteQuot(b.Q_list, i)]

(* Mutant: conditional_remove takes the first of the mask, whatever its quotient. *)
RemoveIndex_First(b, place, primary, key) == Min(find(b, place, key[2], primary))

RemoveIndex(b, place, primary, key) ==
  Min(find(b, place, key[2], primary) \cap my_cmp_epu(key[1], b.Q_list))

(* get_pop_next_item_helper: no index, or the one of the pop's nominee. *)
PopIndices(b, place, primary) ==
  IF pop_get_mask(b, place, primary) = {} THEN {}
  ELSE {get_maximal_quot(b.Q_list, pop_get_mask(b, place, primary))}

-----------------------------------------------------------------------------
Init ==
  bucket = [header |-> [i \in 0 .. HeaderSize - 1 |-> IF i < BatchSize THEN 1 ELSE 0],
            location |-> [i \in Indices |-> 0],
            body |-> [i \in Indices |-> 0],
            Q_list |-> [w \in Words |-> [i \in InWord |-> 0]]]

insert_helper(place, primary, key) ==
  /\ ~is_full(bucket)
  /\ bucket' = Inserted(bucket, place, primary, key)

(* insert returns max_capacity, and insert_helper false. *)
insert_rejected(place, primary, key) ==
  /\ is_full(bucket)
  /\ UNCHANGED bucket

remove_helper(place, primary, key) ==
  /\ find_helper(bucket, place, primary, key)
  /\ bucket' = RemovedAt(bucket, place, RemoveIndex(bucket, place, primary, key))

Next ==
  \E s \in UsedSlots :
    \/ insert_helper(s[1], s[2], s[3])
    \/ insert_rejected(s[1], s[2], s[3])
    \/ remove_helper(s[1], s[2], s[3])

Spec == Init /\ [][Next]_bucket

-----------------------------------------------------------------------------
(* The elements: every 0 below the last 1 of the header, as its index and  *)
(* the place it belongs to, the number of 1s below it.                     *)
Elements(b) ==
  {<<z - OnesBelow(b.header, z), OnesBelow(b.header, z)>> :
     z \in {z \in 0 .. LastOne(b.header) : b.header[z] = 0}}

SlotAt(b, i, place) ==
  <<place, b.location[i] = 1, <<read_quot_by_index(b.Q_list, i), b.body[i]>>>>

(* What the four arrays store, as a multiset of slots. *)
SlotsOf(b) ==
  LET stored == {<<e[1], SlotAt(b, e[1], e[2])>> : e \in Elements(b)}
  IN  [s \in Slots |-> Cardinality({e \in stored : e[2] = s})]

(***************************************************************************)
(* Each array has its bits, the header ends BatchSize runs, and past the   *)
(* last element the location bits and quotients are 0, so that shifting    *)
(* them in loses nothing.  The bytes there may be left over.               *)
(***************************************************************************)
TypeOK ==
  /\ bucket.header \in [0 .. HeaderSize - 1 -> 0 .. 1]
  /\ bucket.location \in [Indices -> 0 .. 1]
  /\ bucket.body \in [Indices -> 0 .. Rems - 1]
  /\ bucket.Q_list \in [Words -> [InWord -> 0 .. MaxSpareQuot]]
  /\ Popcount(bucket.header) = BatchSize
  /\ \A i \in Indices : i >= Cardinality(Elements(bucket)) =>
       bucket.location[i] = 0 /\ read_quot_by_index(bucket.Q_list, i) = 0

Bag == INSTANCE SlotBag WITH slots <- SlotsOf(bucket)

(***************************************************************************)
(* find_helper joins three bit masks computed from three arrays, the one   *)
(* of the header in four ways.  It finds exactly the slots stored; and the *)
(* last 1 of the header, in either word, tells how many they are.          *)
(***************************************************************************)
FindsTheSlots ==
  LET bag == SlotsOf(bucket)
  IN  /\ \A s \in Bag!Slots : find_helper(bucket, s[1], s[2], s[3]) <=> bag[s] > 0
      /\ get_capacity(bucket) = Size(bag)

(***************************************************************************)
(* find asserts that its mask is one stretch of bits: elements that differ *)
(* only in their quotients lie side by side, whatever the order in which   *)
(* primary and secondary ones come and go.  A todo (twoDimPD.hpp:40) says  *)
(* that this is unlikely, as insertion disregards the location bits: it is *)
(* older than insert, which goes by them among equal remainders.           *)
(***************************************************************************)
FindMaskIsContiguous ==
  \A s \in Bag!Slots :
    LET mask == find(bucket, s[1], s[3][2], s[2])
    IN  \A i, k \in mask : i .. k \subseteq mask

(***************************************************************************)
(* A removal takes a copy of the slot it was asked for, though it looks at *)
(* remainders first and quotients after.  A pop names an element, which a  *)
(* removal then searches for again: the first index of the biggest         *)
(* quotient.  As remainders are in order that is the smallest remainder of *)
(* it, PackedSpare's nominee, and none exactly if the place has nothing    *)
(* here.                                                                   *)
(***************************************************************************)
TakesTheOneMeant ==
  LET bag == SlotsOf(bucket)
  IN  /\ \A s \in Support(bag) :
           SlotsOf(RemovedAt(bucket, s[1], RemoveIndex(bucket, s[1], s[2], s[3])))
             = RemoveCopy(bag, s)
      /\ \A place \in 0 .. BatchSize - 1, primary \in BOOLEAN :
           {SlotAt(bucket, i, place)[3] : i \in PopIndices(bucket, place, primary)}
             = Bag!Nominees(bag, place, primary)

(***************************************************************************)
(* The bits implement the multiset PackedSpare has for a bucket: no        *)
(* insertion or removal disturbs another slot, and none is lost.           *)
(***************************************************************************)
KeepsSlots == Bag!Spec

=============================================================================
