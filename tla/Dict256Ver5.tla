----------------------------- MODULE Dict256Ver5 -----------------------------
(***************************************************************************)
(* The insert-only filter Dict256_Ver5: the pocket dictionaries of         *)
(* Dict256_Ver7 in front of a cuckoo hash table of whole fingerprints, and *)
(* the Bloom filter that lookup asks instead of that table.                *)
(*                                                                         *)
(* The build with asserts off goes on after an insertion into the table    *)
(* failed: the table has lost an element, the Bloom filter is told of the  *)
(* one that was to be inserted all the same.                               *)
(***************************************************************************)
EXTENDS AlignedTable, PocketDictionary

CONSTANTS
  number_of_pd,
  SpareFilterBits,     (* The bits the Bloom filter sets for <<pd, qr>>.    *)
  MaxItems,            (* Bound: elements inserted.                         *)
  MaxFailures          (* Bound: the client stops after so many failures.   *)

Pds == 0 .. number_of_pd - 1
Keys == Pds \X QR

ASSUME Ver5Assumption ==
  /\ number_of_pd \in Nat \ {0}
  /\ Elements = Keys
  /\ \A k \in Keys : k \in DOMAIN SpareFilterBits
  /\ MaxItems \in Nat
  /\ MaxFailures \in Nat

VARIABLES
  pd_array,
  spare_filter,        (* The bits set in the Bloom filter.                 *)
  spare_val,           (* Local of insert: what it is handing to the spare. *)
  live,                (* History: copies inserted.                         *)
  failures             (* History: insertions the table refused.            *)

vars == <<tableVars, pd_array, spare_filter, spare_val, live, failures>>

Init ==
  /\ TableInit
  /\ pd_array = [p \in Pds |-> EmptyPD]
  /\ spare_filter = {}
  /\ spare_val = empty_slot
  /\ live = NoCopies(Keys)
  /\ failures = 0

Find(bits, k) == SpareFilterBits[k] \subseteq bits

(* lookup2, given the bits of the Bloom filter. *)
lookup(bits, k) ==
  IF cmp_qr1(k[2], pd_array[k[1]]) THEN Find(bits, k)
                                   ELSE pd_find_25(k[2], pd_array[k[1]])

(* The lookup that asks the table itself. *)
lookup_branch(k) ==
  LET pd == pd_array[k[1]]
  IN  IF \/ ~pd.overflowed
         \/ pd.last_quot > Quot(k[2])
         \/ pd.last_quot = Quot(k[2]) /\ Rem(LastItem(pd)) >= Rem(k[2])
      THEN pd_find_25(k[2], pd)
      ELSE find(k)

(* Mutant: the Bloom filter is told of the element in hand. *)
spare_filter_Add_InHand(k) ==
  spare_filter' = spare_filter \cup SpareFilterBits[IF Inserting THEN hold ELSE k]

spare_filter_Add(k) == spare_filter' = spare_filter \cup SpareFilterBits[k]

insert_not_full(p, x) ==
  /\ ~pd_full(pd_array[p])
  /\ pd_array' = [pd_array EXCEPT ![p] = pd_add_50_not_full(x, @)]
  /\ UNCHANGED <<tableVars, spare_filter, spare_val>>

(* The new element, or the one it swapped out, goes to the spare.  If the  *)
(* table begins to kick, the rest of the call is Kicks.                    *)
insert_full(p, x) ==
  LET swap == pd_swap_short(x, pd_array[p])
      val  == <<p, swap.qr>>
  IN  /\ pd_full(pd_array[p])
      /\ pd_array' = [pd_array EXCEPT ![p] = swap.pd]
      /\ StartInsert(val)
      /\ IF hold' = empty_slot
           THEN spare_filter_Add(val) /\ UNCHANGED spare_val
           ELSE spare_val' = val /\ UNCHANGED spare_filter

insert(p, x) ==
  /\ ~Inserting
  /\ Size(live) < MaxItems
  /\ failures < MaxFailures
  /\ live' = AddCopy(live, <<p, x>>)
  /\ insert_not_full(p, x) \/ insert_full(p, x)
  /\ UNCHANGED failures

Swap ==
  /\ cuckoo_swap
  /\ UNCHANGED <<pd_array, spare_filter, spare_val, live, failures>>

(* insert_to_spare_without_pop returns; it only prints that it failed. *)
Finish ==
  /\ \/ Place /\ UNCHANGED failures
     \/ Fails /\ failures' = failures + 1
  /\ spare_filter_Add(spare_val)
  /\ spare_val' = empty_slot
  /\ UNCHANGED <<pd_array, live>>

Next ==
  \/ \E k \in Keys : insert(k[1], k[2])
  \/ Swap \/ Finish

Spec == Init /\ [][Next]_vars
-----------------------------------------------------------------------------
TypeOK ==
  /\ TableTypeOK
  /\ pd_array \in [Pds -> PD]
  /\ spare_filter \subseteq UNION {SpareFilterBits[k] : k \in Keys}
  /\ live \in [Keys -> Nat]
  /\ failures \in 0 .. MaxFailures
  /\ Inserting <=> spare_val # empty_slot

(* The fingerprints of which a dictionary handed a copy to the spare. *)
Sent == {k \in Keys : live[k] > pd_array[k[1]].items[k[2]]}

(***************************************************************************)
(* Kicks and failures leave the table a set: what it stores and what is in *)
(* hand was sent to it, each element once, where a search of its two       *)
(* buckets finds it.  Each failure loses at most one of the elements sent, *)
(* whichever was in hand.                                                  *)
(***************************************************************************)
SpareKeepsSent ==
  LET kept == Contents \cup (IF Inserting THEN {hold} ELSE {})
  IN  /\ kept \subseteq Sent
      /\ Cardinality(Sent \ kept) <= failures
      /\ capacity = Cardinality(Contents)
      /\ capacity = Cardinality({c \in Cells : Table[c] # empty_slot})
      /\ \A k \in Contents : find(k) /\ k # hold

(***************************************************************************)
(* The lookup that asks the table is exact by fingerprint until the first  *)
(* failure: what is in the table is past its dictionary's last element,    *)
(* and all of what is past it is in the table.                             *)
(***************************************************************************)
BranchIsExact ==
  failures = 0 /\ ~Inserting => \A k \in Keys : lookup_branch(k) <=> live[k] > 0

(***************************************************************************)
(* lookup, which asks the Bloom filter, never has a false negative, not    *)
(* even after the table has lost elements; and no insertion turns a yes    *)
(* into a no.  While a call is on, a lookup is taken as the end of the     *)
(* call leaves it.                                                         *)
(***************************************************************************)
BitsAfterCall ==
  spare_filter \cup (IF Inserting THEN SpareFilterBits[spare_val] ELSE {})

Promise == INSTANCE ApproxSet WITH
  positive <- {k \in Keys : lookup(BitsAfterCall, k)},
  failed <- FALSE

KeepsPromise == Promise!Spec
=============================================================================
