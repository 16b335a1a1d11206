------------------------------- MODULE Dict256 -------------------------------
(***************************************************************************)
(* The pocket dictionary filter Dict256_Ver7 (PD_Filter/Dict320/           *)
(* Dict256_Ver7.hpp): an array of pocket dictionaries, the spare that      *)
(* takes what full ones push out, and a small Bloom filter that stands in  *)
(* for the spare in lookups.                                               *)
(*                                                                         *)
(* A full PD keeps its smallest elements and pushes the others out, so a   *)
(* lookup compares the element with the PD's last one and asks one level   *)
(* only: the PD for what is not bigger, the spare's Bloom filter for what  *)
(* is.  A deletion from an overflowed PD pops the smallest element of the  *)
(* spare back.  The filter has no false negative as long as every element  *)
(* in the spare is at least as big as the last one of its PD.              *)
(*                                                                         *)
(* The asserts of the source are no actions: they are the properties.      *)
(***************************************************************************)
EXTENDS PackedSpare, PocketDictionary, Folds

CONSTANTS
  SpareFilterBits, (* The bits the Bloom filter sets for <<pd, qr>>.        *)
  ClientKeys,      (* The <<pd, qr>> the client's elements hash to.         *)
  MaxItems         (* Bound: elements in the filter at a time.              *)

Keys == Pds \X QR

ASSUME DictAssumption ==
  /\ ClientKeys \subseteq Keys
  /\ MaxItems \in Nat
  /\ \A k \in Keys : k \in DOMAIN SpareFilterBits

VARIABLES
  pd_array,        (* The first level.                                      *)
  spare_filter,    (* The bits set in the spare's Bloom filter, never unset.*)
  live,            (* History: copies inserted and not removed.             *)
  dropped,         (* History: the spare dropped an element.                *)
  popped_past_l3   (* History: a pop was made while Level3 held elements.   *)

l1Vars == <<pd_array, spare_filter>>
vars == <<spareVars, l1Vars, live, dropped, popped_past_l3>>

spare_filter_Find(k) == SpareFilterBits[k] \subseteq spare_filter

(* Mutant: what the PD misses is looked for in the spare, too. *)
Lookup_BothLevels(p, x) ==
  \/ pd_find_25(x, pd_array[p])
  \/ pd_array[p].overflowed /\ spare_filter_Find(<<p, x>>)

(***************************************************************************)
(* lookup_with_l2_filter                                                   *)
(***************************************************************************)
Lookup(p, x) ==
  IF cmp_qr1(x, pd_array[p]) THEN spare_filter_Find(<<p, x>>)
                             ELSE pd_find_25(x, pd_array[p])

Positive == {k \in Keys : Lookup(k[1], k[2])}
-----------------------------------------------------------------------------
Init ==
  /\ SpareInit
  /\ pd_array = [p \in Pds |-> EmptyPD]
  /\ spare_filter = {}
  /\ live = NoCopies(Keys)
  /\ dropped = FALSE
  /\ popped_past_l3 = FALSE

insert_into_not_full_pd_helper(p, x) ==
  /\ ~pd_full(pd_array[p])
  /\ pd_array' = [pd_array EXCEPT ![p] = pd_add_50_not_full(x, @)]
  /\ UNCHANGED <<spareVars, spare_filter, dropped>>

(* Mutant: the Bloom filter gets the new element, whichever went to the spare. *)
insert_into_full_pd_helper_FiltersNew(p, x) ==
  LET swap == pd_swap_short(x, pd_array[p])
  IN  /\ pd_full(pd_array[p])
      /\ pd_array' = [pd_array EXCEPT ![p] = swap.pd]
      /\ SpareInsert(p, swap.qr)
      /\ spare_filter' = spare_filter \cup SpareFilterBits[<<p, x>>]
      /\ dropped' = (dropped \/ Drops(p, swap.qr))

(* The new element, or the one it swapped out, goes to the spare. *)
insert_into_full_pd_helper(p, x) ==
  LET swap == pd_swap_short(x, pd_array[p])
  IN  /\ pd_full(pd_array[p])
      /\ pd_array' = [pd_array EXCEPT ![p] = swap.pd]
      /\ SpareInsert(p, swap.qr)
      /\ spare_filter' = spare_filter \cup SpareFilterBits[<<p, swap.qr>>]
      /\ dropped' = (dropped \/ Drops(p, swap.qr))

Insert(p, x) ==
  /\ Size(live) < MaxItems
  /\ live' = AddCopy(live, <<p, x>>)
  /\ insert_into_not_full_pd_helper(p, x) \/ insert_into_full_pd_helper(p, x)
  /\ UNCHANGED popped_past_l3
-----------------------------------------------------------------------------
remove_from_l1(p, x) ==
  /\ ~pd_array[p].overflowed
  /\ CanDelete(x, pd_array[p])
  /\ pd_array' = [pd_array EXCEPT ![p] = delete_element(x, @)]
  /\ UNCHANGED <<spareVars, popped_past_l3>>

(* Neither level has the element: delete_element_wrapper fails, and the     *)
(* assert on its result is the only trace.                                  *)
remove_from_l1_missing(p, x) ==
  /\ ~pd_array[p].overflowed
  /\ ~CanDelete(x, pd_array[p])
  /\ UNCHANGED <<pd_array, spareVars, popped_past_l3>>

(* After a drop the client may remove what no level has: a removal that     *)
(* may damage the PD is not followed.                                       *)
remove_from_spare(p, x) ==
  /\ pd_array[p].overflowed
  /\ ~MayDeleteInHead(x, pd_array[p])
  /\ ~CanDelete(x, pd_array[p])
  /\ SpareRemove(p, x)
  /\ UNCHANGED <<pd_array, popped_past_l3>>

pop_and_add_to_l1(p, x) ==
  /\ pd_array[p].overflowed
  /\ CanDelete(x, pd_array[p])
  /\ \E item \in get_pop_element(p) :
       /\ SparePop(item)
       /\ pd_array' = [pd_array EXCEPT
                         ![p] = pd_pop_add(item[2], Quot(x), delete_element(x, @))]
  /\ popped_past_l3' = (popped_past_l3 \/ Support(big_quots_set) # {})

nothing_to_pop(p, x) ==
  /\ pd_array[p].overflowed
  /\ CanDelete(x, pd_array[p])
  /\ get_pop_element(p) = {}
  /\ pd_array' = [pd_array EXCEPT
                    ![p] = pop_helper_no_element_to_pop(delete_element(x, @))]
  /\ popped_past_l3' = (popped_past_l3 \/ Support(big_quots_set) # {})
  /\ UNCHANGED spareVars

(* A client removes only what it inserted. *)
Remove(p, x) ==
  /\ live[<<p, x>>] > 0
  /\ live' = RemoveCopy(live, <<p, x>>)
  /\ \/ remove_from_l1(p, x)
     \/ remove_from_l1_missing(p, x)
     \/ remove_from_spare(p, x)
     \/ pop_and_add_to_l1(p, x)
     \/ nothing_to_pop(p, x)
  /\ UNCHANGED <<spare_filter, dropped>>

Next == \E k \in ClientKeys : Insert(k[1], k[2]) \/ Remove(k[1], k[2])

Spec == Init /\ [][Next]_vars
-----------------------------------------------------------------------------
TypeOK ==
  /\ SpareTypeOK
  /\ pd_array \in [Pds -> PD]
  /\ spare_filter \subseteq UNION {SpareFilterBits[k] : k \in Keys}
  /\ live \in [Keys -> Nat]
  /\ dropped \in BOOLEAN
  /\ popped_past_l3 \in BOOLEAN

(***************************************************************************)
(* The spare has lost nothing so far: no insertion met two full buckets,   *)
(* and no deletion popped while Level3 held an element (which of its       *)
(* elements such a pop takes is wrong, see FindsEverythingIn).             *)
(***************************************************************************)
Intact == ~dropped /\ ~popped_past_l3

(***************************************************************************)
(* README: "the filter does not have a false negative".  Every element     *)
(* inserted and not removed is found, whichever level it is in and         *)
(* whatever swaps and pops moved it there.                                 *)
(***************************************************************************)
NoFalseNegatives == Intact => \A k \in Keys : live[k] > 0 => k \in Positive

(***************************************************************************)
(* The first level holds the smallest elements: nothing in the spare is    *)
(* smaller than the last element of its dictionary, which is what lets a   *)
(* lookup ask one level only.                                              *)
(***************************************************************************)
LowestInL1 ==
  Intact => \A p \in Pds, x \in QR :
    SpareCount(p, x) > 0 => pd_array[p].overflowed /\ ~Less(x, LastItem(pd_array[p]))

(***************************************************************************)
(* The Bloom filter that lookups ask instead of the spare knows everything *)
(* the spare holds, also what a swap moved there long after its insertion. *)
(***************************************************************************)
SpareFilterCovers ==
  Intact => \A p \in Pds, x \in QR : SpareCount(p, x) > 0 => spare_filter_Find(<<p, x>>)

(***************************************************************************)
(* No element is lost, duplicated or taken for another dictionary's: each  *)
(* copy the client has in is stored once, in the PD or in the spare.       *)
(***************************************************************************)
Conservation ==
  Intact => \A p \in Pds, x \in QR :
    live[<<p, x>>] = pd_array[p].items[x] + SpareCount(p, x)

(***************************************************************************)
(* validate_decoding: between operations the cached last quotient is the   *)
(* one the header holds.  Deletions leave it stale until their pop repairs *)
(* it.                                                                     *)
(***************************************************************************)
LastQuotDecodes ==
  Intact => \A p \in Pds : pd_array[p].last_quot = compute_last_quot(pd_array[p].items)

(***************************************************************************)
(* An overflowed PD is full (cmp_qr1 reads the last remainder byte, which  *)
(* is stale in a PD that is not), and no PD ever holds more than fits.     *)
(***************************************************************************)
OverflowedIsFull ==
  \A p \in Pds : /\ Size(pd_array[p].items) <= Capacity
                 /\ pd_array[p].overflowed => pd_full(pd_array[p])

(***************************************************************************)
(* A false positive of the spare's filter shows only for what is bigger    *)
(* than the last element of an overflowed PD; below it, and in every PD    *)
(* that got its elements back, the answer is exact.                        *)
(***************************************************************************)
FalsePositivesPastLast ==
  Intact => \A k \in Positive :
    live[k] = 0 => cmp_qr1(k[2], pd_array[k[1]])

(***************************************************************************)
(* The filter keeps the promise of ApproxSet: insertions turn no yes into  *)
(* a no, removals turn no "no" into a yes, and what is in is found.        *)
(***************************************************************************)
Promise == INSTANCE ApproxSet WITH positive <- Positive, failed <- ~Intact

KeepsPromise == Promise!Spec
-----------------------------------------------------------------------------
(***************************************************************************)
(* What asserts of the source say of every state an operation starts in.   *)
(***************************************************************************)

(* README and test.hpp: a filter finds what was inserted and not removed,  *)
(* here without the condition that the spare was not popped past Level3.   *)
FindsEverythingIn == ~dropped => \A k \in Keys : live[k] > 0 => k \in Positive
=============================================================================
