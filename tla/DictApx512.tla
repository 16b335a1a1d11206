----------------------------- MODULE DictApx512 -----------------------------
(***************************************************************************)
(* The filter that forgets instead of failing (DictApx512.hpp): an array   *)
(* of pocket dictionaries, each as EvictingPd promises, and the counters   *)
(* its report and the approximation tests read.  An insertion into a full  *)
(* dictionary evicts, so a lookup may miss what is in; the client, as in   *)
(* dict_approximation_tests.hpp, deletes what it inserted all the same.    *)
(***************************************************************************)
EXTENDS QuotientRuns

CONSTANTS
  number_of_pd,
  MaxInsertions        (* Bound: insertions of a behaviour.                 *)

ASSUME ArrayIsNatural ==
  /\ number_of_pd \in Nat \ {0}
  /\ MaxInsertions \in Nat

VARIABLES
  pd_array,
  insertions_total_counter, insertions_eviction_counter,
  total_remove_counter, true_remove_counter, capacity,
  live                 (* History: the copies the client believes are in.   *)

counters ==
  <<insertions_total_counter, insertions_eviction_counter,
    total_remove_counter, true_remove_counter, capacity>>

vars == <<pd_array, counters, live>>

PdIndices == 0 .. number_of_pd - 1

(* An item, as its hash: its dictionary, its quotient and its remainder. *)
Items == PdIndices \X Quots \X Rems

Init ==
  /\ pd_array = [i \in PdIndices |-> NoRuns]
  /\ insertions_total_counter = 0 /\ insertions_eviction_counter = 0
  /\ total_remove_counter = 0 /\ true_remove_counter = 0
  /\ capacity = 0
  /\ live = [item \in Items |-> 0]

lookup(item) == Stores(pd_array[item[1]], item[2], item[3])

(* add returns whether the dictionary was full. *)
insert_count(evicts) ==
  \/ /\ evicts
     /\ insertions_eviction_counter' = insertions_eviction_counter + 1
     /\ UNCHANGED capacity
  \/ /\ ~evicts
     /\ capacity' = capacity + 1
     /\ UNCHANGED insertions_eviction_counter

insert(item) ==
  LET runs == pd_array[item[1]]
  IN  /\ insertions_total_counter < MaxInsertions
      /\ insertions_total_counter' = insertions_total_counter + 1
      /\ pd_array' = [pd_array EXCEPT ![item[1]] = AddTo(runs, item[2], item[3])]
      /\ insert_count(IsFull(runs))
      /\ live' = [live EXCEPT ![item] = @ + 1]
      /\ UNCHANGED <<total_remove_counter, true_remove_counter>>

removeFound(item) ==
  /\ lookup(item)
  /\ pd_array' =
       [pd_array EXCEPT ![item[1]] = RemoveFrom(@, item[2], item[3])]
  /\ true_remove_counter' = true_remove_counter + 1
  /\ capacity' = capacity - 1

removeMissing(item) ==
  /\ ~lookup(item)
  /\ UNCHANGED <<pd_array, true_remove_counter, capacity>>

remove(item) ==
  /\ live[item] > 0
  /\ total_remove_counter' = total_remove_counter + 1
  /\ removeFound(item) \/ removeMissing(item)
  /\ live' = [live EXCEPT ![item] = @ - 1]
  /\ UNCHANGED <<insertions_total_counter, insertions_eviction_counter>>

Next == \E item \in Items : insert(item) \/ remove(item)

Spec == Init /\ [][Next]_vars

-----------------------------------------------------------------------------
TypeOK ==
  /\ \A i \in PdIndices :
       /\ pd_array[i] \in [Quots -> Seq(Rems)]
       /\ Size(pd_array[i]) <= MAX_CAPACITY
  /\ \A n \in {insertions_total_counter, insertions_eviction_counter,
               total_remove_counter, true_remove_counter} : n \in Nat
  /\ capacity \in Nat
  /\ live \in [Items -> Nat]

Stored(item) == Occurrences(pd_array[item[1]], item[2], item[3])

(***************************************************************************)
(* Though the client deletes items that were evicted, and an eviction may  *)
(* take any item, a dictionary never holds more of a fingerprint than the  *)
(* client has in: a positive answer is a shared fingerprint, no leftover.  *)
(***************************************************************************)
NoGhosts == \A item \in Items : Stored(item) <= live[item]

(***************************************************************************)
(* What the tests measure as false negatives is what the filter counted:   *)
(* an eviction adds one copy that is missing, and a deletion that finds    *)
(* nothing takes one away.                                                 *)
(***************************************************************************)
Missing(item) == live[item] - Stored(item)

MissingCopies == UNION {{item} \X (1 .. Missing(item)) : item \in Items}

MissingAreCounted ==
  Cardinality(MissingCopies)
    = insertions_eviction_counter - (total_remove_counter - true_remove_counter)

(***************************************************************************)
(* add asserts it: what was just inserted is found, whatever it evicted.   *)
(***************************************************************************)
InsertedIsFound ==
  [][\A item \in Items : live'[item] > live[item] => lookup(item)']_vars
=============================================================================
