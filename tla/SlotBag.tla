------------------------------- MODULE SlotBag -------------------------------
(***************************************************************************)
(* What PackedSpare takes a bucket of the spare to be: a multiset of       *)
(* slots, each the place of a dictionary in its batch, whether the bucket  *)
(* is that dictionary's primary one, and a key <<spare_quot, rem>>.        *)
(***************************************************************************)
EXTENDS ItemKeys

CONSTANTS
  BatchSize,       (* batch_size: places per bucket, 32.                    *)
  BucketCapacity,  (* max_capacity: elements that fit into a bucket, 48.    *)
  MaxSpareQuot     (* MASK(quot_length): the biggest storable quotient, 15. *)

VARIABLE slots     (* How many copies of each slot the bucket holds.        *)

BatchPlaces == 0 .. BatchSize - 1
SpareKeys == (0 .. MaxSpareQuot) \X (0 .. Rems - 1)
Slots == BatchPlaces \X BOOLEAN \X SpareKeys

Init == slots = NoCopies(Slots)

Put ==
  LET bag == slots
  IN  Size(bag) < BucketCapacity /\ slots' \in {AddCopy(bag, s) : s \in Slots}

Take ==
  LET bag == slots
  IN  slots' \in {RemoveCopy(bag, s) : s \in Support(bag)}

Next == Put \/ Take

Spec == Init /\ [][Next]_slots

(* The slots of one place on one side, and the key a pop takes among them: *)
(* the biggest spare quotient, then the smallest remainder.                *)
KeysOf(bag, place, primary) == {key \in SpareKeys : bag[<<place, primary, key>>] > 0}

PopsBefore(k, l) == k[1] > l[1] \/ (k[1] = l[1] /\ k[2] < l[2])

Nominees(bag, place, primary) ==
  LET keys == KeysOf(bag, place, primary)
  IN  {key \in keys : \A other \in keys : ~PopsBefore(other, key)}

=============================================================================
