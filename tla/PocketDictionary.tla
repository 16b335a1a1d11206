-------------------------- MODULE PocketDictionary --------------------------
(***************************************************************************)
(* One pocket dictionary (PD) of the first level: a 256 bit word holding   *)
(* up to 25 fingerprints in order (PD_Filter/Dict320/pd256_plus.hpp).      *)
(*                                                                         *)
(* A PD is a record:                                                       *)
(*   items       the multiset of fingerprints it holds.  The word holds    *)
(*               them as a unary header of quotients and a sorted array of *)
(*               remainder bytes; the multiset is what both determine.     *)
(*   last_quot   the five meta bits that cache the biggest quotient        *)
(*   overflowed  the sixth meta bit (stored inverted): an element of this  *)
(*               PD may be in the spare                                    *)
(*                                                                         *)
(* Every operation that changes the word is an operator from PD to PD.     *)
(***************************************************************************)
EXTENDS ItemKeys

CONSTANT Capacity      (* CAPACITY25: remainders that fit into one PD, 25.  *)

ASSUME CapacityAssumption == Capacity \in Nat /\ Capacity >= 2

PD == [items : [QR -> Nat], last_quot : 0 .. Quots - 1, overflowed : BOOLEAN]

EmptyPD == [items |-> NoCopies(QR), last_quot |-> 0, overflowed |-> FALSE]

pd_full(pd) == Size(pd.items) = Capacity

(***************************************************************************)
(* What a scan of the header finds: the quotient of the biggest element, 0 *)
(* in an empty PD.  The code caches it in last_quot.                       *)
(***************************************************************************)
compute_last_quot(items) ==
  IF Support(items) = {} THEN 0 ELSE Quot(Biggest(Support(items)))

(***************************************************************************)
(* The fingerprint the PD is compared by: the cached quotient and the last *)
(* remainder byte.  That byte belongs to the biggest element only when the *)
(* PD is full, and is read only when it has overflowed.                    *)
(***************************************************************************)
LastItem(pd) == <<pd.last_quot, Rem(Biggest(Support(pd.items)))>>

(***************************************************************************)
(* TRUE: look only in the second level.  FALSE: look only in this PD.      *)
(***************************************************************************)
(* Mutant: what equals the last element is sent to the spare too. *)
cmp_qr1_AlsoEqual(x, pd) == pd.overflowed /\ ~Less(x, LastItem(pd))

cmp_qr1(x, pd) == pd.overflowed /\ Less(LastItem(pd), x)

pd_find_25(x, pd) == pd.items[x] > 0

(***************************************************************************)
(* pd_conditional_add_50 on a PD that is not full.                         *)
(***************************************************************************)
pd_add_50_not_full(x, pd) ==
  [items |-> AddCopy(pd.items, x),
   last_quot |-> IF Quot(x) <= pd.last_quot THEN pd.last_quot ELSE Quot(x),
   overflowed |-> pd.overflowed]

(***************************************************************************)
(* The last quotient once the biggest element made room for one of a       *)
(* smaller quotient: the next occupied quotient, or the new one.           *)
(***************************************************************************)
(* Mutant: the next occupied quotient, even when the new one is bigger. *)
get_last_quot_after_future_swap_NextOnly(q, pd) ==
  compute_last_quot(RemoveCopy(pd.items, Biggest(Support(pd.items))))

get_last_quot_after_future_swap(q, pd) ==
  LET nom == compute_last_quot(RemoveCopy(pd.items, Biggest(Support(pd.items))))
  IN  IF nom < q THEN q ELSE nom

(***************************************************************************)
(* pd_conditional_add_50 on a full PD: mark it overflowed, and keep the    *)
(* smaller of the new element and the biggest one.  qr is the element that *)
(* must go to the spare.                                                   *)
(***************************************************************************)
pd_swap_short(x, pd) ==
  IF Less(LastItem(pd), x)
  THEN [pd |-> [items |-> pd.items, last_quot |-> pd.last_quot, overflowed |-> TRUE],
        qr |-> x]
  ELSE [pd |-> [items |-> AddCopy(RemoveCopy(pd.items, Biggest(Support(pd.items))), x),
                last_quot |-> IF Quot(x) = pd.last_quot
                              THEN pd.last_quot
                              ELSE get_last_quot_after_future_swap(Quot(x), pd),
                overflowed |-> TRUE],
        qr |-> LastItem(pd)]

(***************************************************************************)
(* Whether delete_element_wrapper finds an element to delete, and the PD   *)
(* it leaves.  An overflowed PD's last_quot is repaired only later, by the *)
(* pop that refills the PD.                                                *)
(***************************************************************************)
(* Mutant: a quotient the PD may hold is taken for an element it holds. *)
CanDelete_ByQuot(x, pd) == Quot(x) <= pd.last_quot

CanDelete(x, pd) == Quot(x) <= pd.last_quot /\ pd_find_25(x, pd)

(***************************************************************************)
(* An element below the last one that an overflowed PD does not hold is in *)
(* no level.  Where the last quotient is 0, delete_element_wrapper may     *)
(* take a byte of the header for it (DeletesInHead of Pd256Bits) and       *)
(* damage the PD.                                                          *)
(***************************************************************************)
MayDeleteInHead(x, pd) ==
  /\ pd.overflowed /\ pd.last_quot = 0 /\ Quot(x) = 0
  /\ Less(x, LastItem(pd)) /\ ~pd_find_25(x, pd)

delete_element(x, pd) ==
  [items |-> RemoveCopy(pd.items, x),
   last_quot |-> IF ~pd.overflowed /\ Quot(x) = pd.last_quot
                 THEN compute_last_quot(RemoveCopy(pd.items, Biggest(Support(pd.items))))
                 ELSE pd.last_quot,
   overflowed |-> pd.overflowed]

(***************************************************************************)
(* Refill after the deletion of an element of quotient removed_quot with   *)
(* the element y popped from the spare.                                    *)
(***************************************************************************)
(* Mutant: the cache is not updated for the element that came back. *)
pd_pop_add_StaleQuot(y, removed_quot, pd) == [pd EXCEPT !.items = AddCopy(@, y)]

pd_pop_add(y, removed_quot, pd) ==
  [items |-> AddCopy(pd.items, y),
   last_quot |-> IF removed_quot < Quot(y) THEN Quot(y) ELSE pd.last_quot,
   overflowed |-> pd.overflowed]

(***************************************************************************)
(* Nothing to refill with: the PD is exact again.                          *)
(***************************************************************************)
(* Mutant: the PD stays marked as overflowed. *)
pop_helper_no_element_to_pop_KeepsFlag(pd) ==
  [pd EXCEPT !.last_quot = compute_last_quot(pd.items)]

pop_helper_no_element_to_pop(pd) ==
  [items |-> pd.items, last_quot |-> compute_last_quot(pd.items), overflowed |-> FALSE]

=============================================================================
