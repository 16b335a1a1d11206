----------------------------- MODULE PackedSpare -----------------------------
(***************************************************************************)
(* The second level: packed_spare (PD_Filter/HashTables/packed_spare.hpp), *)
(* the table that takes the elements full pocket dictionaries push out,    *)
(* with its Level3 overflow (PD_Filter/HashTables/Level3.hpp).             *)
(*                                                                         *)
(* The dictionaries come in batches.  The elements of dictionary p live in *)
(* two buckets: the primary one of its batch and a secondary one that      *)
(* depends on p's place within the batch.  A bucket keeps of p only that   *)
(* place and one bit saying "primary", so both must tell which dictionary  *)
(* an element is from.  A quotient is stored upside down in quot_length    *)
(* bits; an element whose spare quotient does not fit goes to Level3.      *)
(***************************************************************************)
EXTENDS ItemKeys

CONSTANTS
  NumPds,          (* number_of_buckets_in_l1: the pocket dictionaries.     *)
  BatchSize,       (* batch_size: dictionaries per primary bucket, 32.      *)
  NumBuckets,      (* number_of_buckets of the spare.                       *)
  BucketCapacity,  (* bucket_capacity: elements that fit into a bucket, 48. *)
  MaxSpareQuot     (* MASK(quot_length): the biggest storable quotient, 15. *)

(* packed_spare.hpp:56 asserts 64 < number_of_buckets, twice the batch size. *)
ASSUME SpareAssumption ==
  /\ {NumPds, BatchSize, NumBuckets, BucketCapacity} \subseteq Nat \ {0}
  /\ MaxSpareQuot \in 0 .. Quots - 1
  /\ BatchSize < NumBuckets
  /\ NumPds <= NumBuckets * BatchSize

VARIABLES
  main_buckets,    (* what each bucket holds (MainBucket with Quotients).   *)
  big_quots_set,   (* Level3: a sorted vector, so a multiset.               *)
  capacity         (* The counter of stored elements.                       *)

spareVars == <<main_buckets, big_quots_set, capacity>>

Pds == 0 .. NumPds - 1
Buckets == 0 .. NumBuckets - 1

(* A key is <<spare_quot, rem>>; a slot of a bucket tells the place of the *)
(* dictionary in its batch, whether this is its primary bucket, and a key. *)
SpareKeys == (0 .. MaxSpareQuot) \X (0 .. Rems - 1)
Slots == (0 .. BatchSize - 1) \X BOOLEAN \X SpareKeys
BigItems == Pds \X QR

Rel(p) == p % BatchSize

BucketOf(p, primary) ==
  IF primary THEN p \div BatchSize
             ELSE ((p \div BatchSize) + 1 + Rel(p)) % NumBuckets

(* Mutant: a slot does not tell the primary bucket from the secondary one. *)
Slot_WithoutPrimary(p, primary, key) == <<Rel(p), TRUE, key>>

Slot(p, primary, key) == <<Rel(p), primary, key>>

FitsInBucket(x) == Quots - 1 - Quot(x) <= MaxSpareQuot

get_capacity(b) == Size(main_buckets[b])

is_full(b) == get_capacity(b) = BucketCapacity

find_helper(p, key, primary) ==
  main_buckets[BucketOf(p, primary)][Slot(p, primary, key)] > 0

SpareFind(p, x) ==
  IF FitsInBucket(x) THEN \E primary \in BOOLEAN : find_helper(p, FlipQuot(x), primary)
                     ELSE big_quots_set[<<p, x>>] > 0

SpareTypeOK ==
  /\ main_buckets \in [Buckets -> [Slots -> Nat]]
  /\ big_quots_set \in [BigItems -> Nat]
  /\ capacity \in Int
-----------------------------------------------------------------------------
SpareInit ==
  /\ main_buckets = [b \in Buckets |-> NoCopies(Slots)]
  /\ big_quots_set = NoCopies(BigItems)
  /\ capacity = 0

InsertIntoLevel3(p, x) ==
  /\ ~FitsInBucket(x)
  /\ big_quots_set' = AddCopy(big_quots_set, <<p, x>>)
  /\ capacity' = capacity + 1
  /\ UNCHANGED main_buckets

(* The emptier of the two buckets takes the element, the secondary on a tie. *)
TakesPrimary(p) == get_capacity(BucketOf(p, TRUE)) < get_capacity(BucketOf(p, FALSE))

InsertIntoBucket(p, x) ==
  LET b == BucketOf(p, TakesPrimary(p))
  IN  /\ FitsInBucket(x)
      /\ ~is_full(b)
      /\ main_buckets' = [main_buckets EXCEPT
                            ![b] = AddCopy(@, Slot(p, TakesPrimary(p), FlipQuot(x)))]
      /\ capacity' = capacity + 1
      /\ UNCHANGED big_quots_set

(* Both buckets full: a message, and the element is in neither. *)
Drops(p, x) == FitsInBucket(x) /\ is_full(BucketOf(p, TakesPrimary(p)))

InsertDropped(p, x) ==
  /\ Drops(p, x)
  /\ capacity' = capacity + 1
  /\ UNCHANGED <<main_buckets, big_quots_set>>

SpareInsert(p, x) ==
  InsertIntoLevel3(p, x) \/ InsertIntoBucket(p, x) \/ InsertDropped(p, x)
-----------------------------------------------------------------------------

RemoveFromLevel3(p, x) ==
  /\ big_quots_set[<<p, x>>] > 0
  /\ big_quots_set' = RemoveCopy(big_quots_set, <<p, x>>)
  /\ capacity' = capacity - 1
  /\ UNCHANGED main_buckets

(* Found in both buckets: remove_from_fuller. *)
RemoveFromBucket(p, key, primary) ==
  /\ find_helper(p, key, primary)
  /\ find_helper(p, key, ~primary) =>
       primary = (get_capacity(BucketOf(p, TRUE)) >= get_capacity(BucketOf(p, FALSE)))
  /\ main_buckets' = [main_buckets EXCEPT
                        ![BucketOf(p, primary)] = RemoveCopy(@, Slot(p, primary, key))]
  /\ capacity' = capacity - 1
  /\ UNCHANGED big_quots_set

(* In neither bucket: only the counter moves.  (A key missing from Level3  *)
(* makes its erase undefined, and no step describes that.)                 *)
RemoveMissing(p, key) ==
  /\ \A primary \in BOOLEAN : ~find_helper(p, key, primary)
  /\ capacity' = capacity - 1
  /\ UNCHANGED <<main_buckets, big_quots_set>>

SpareRemove(p, x) ==
  IF FitsInBucket(x)
  THEN \/ \E primary \in BOOLEAN : RemoveFromBucket(p, FlipQuot(x), primary)
       \/ RemoveMissing(p, FlipQuot(x))
  ELSE RemoveFromLevel3(p, x)
-----------------------------------------------------------------------------
(***************************************************************************)
(* pop: take the element of p that is to go back to its dictionary.  The   *)
(* buckets' nominee has the biggest spare quotient, then the smallest      *)
(* remainder; Level3 is asked only when neither bucket has an element of p.*)
(***************************************************************************)
(* Mutant: among equal quotients the biggest remainder is popped. *)
PopsBefore_BigRem(k, l) == k[1] > l[1] \/ (k[1] = l[1] /\ k[2] > l[2])

PopsBefore(k, l) == k[1] > l[1] \/ (k[1] = l[1] /\ k[2] < l[2])

KeysInBuckets(p) == {key \in SpareKeys : \E primary \in BOOLEAN : find_helper(p, key, primary)}

BucketNominee(p) ==
  CHOOSE key \in KeysInBuckets(p) : \A other \in KeysInBuckets(p) : ~PopsBefore(other, key)

(* item_key_t::operator< on <<pd_index, <<quot, rem>>>> *)
ItemLess(e, f) == e[1] < f[1] \/ (e[1] = f[1] /\ Less(e[2], f[2]))

(* std::upper_bound in Level3's vector: no element, or the first one after e. *)
UpperBound(e) ==
  LET after == {f \in Support(big_quots_set) : ItemLess(e, f)}
  IN  {f \in after : \A g \in after : ~ItemLess(g, f)}

(* Level3 probes with the key {pd_index, 15, 256}. *)
Level3Nominee(p) == UpperBound(<<p, <<MaxSpareQuot, Rems>>>>)

(* The element a pop returns, as a set of at most one <<pd_index, <<quot, rem>>>>. *)
get_pop_element(p) ==
  IF KeysInBuckets(p) # {} THEN {<<p, FlipQuot(BucketNominee(p))>>}
                           ELSE Level3Nominee(p)

SparePop(item) == SpareRemove(item[1], item[2])
-----------------------------------------------------------------------------
(* How many copies of <<p, x>> the spare holds. *)
SpareCount(p, x) ==
  IF FitsInBucket(x)
  THEN main_buckets[BucketOf(p, TRUE)][Slot(p, TRUE, FlipQuot(x))]
       + main_buckets[BucketOf(p, FALSE)][Slot(p, FALSE, FlipQuot(x))]
  ELSE big_quots_set[<<p, x>>]

=============================================================================
