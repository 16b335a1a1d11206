------------------------------- MODULE OnePd -------------------------------
(***************************************************************************)
(* The abstract specification of one pocket dictionary: PocketDictionary's *)
(* multiset with its cached bits, under the calls Dict256_Ver7 makes.  A   *)
(* full dictionary gives elements away (to the spare) and, after a         *)
(* deletion, gets back the smallest of them.                               *)
(***************************************************************************)
EXTENDS PocketDictionary

CONSTANT MaxGiven    (* Bound: elements given away at a time.              *)

VARIABLES
  pd,                (* The dictionary, a record of PD.                    *)
  given,             (* The elements it gave away, a multiset.             *)
  removed            (* The quotient of an element whose deletion is to be *)
                     (* followed by a refill, in a set of at most one.     *)

vars == <<pd, given, removed>>

Smallest(S) == CHOOSE x \in S : \A y \in S : ~Less(y, x)

Init == pd = EmptyPD /\ given = NoCopies(QR) /\ removed = {}

InsertNotFull(x) ==
  /\ removed = {} /\ ~pd_full(pd)
  /\ pd' = pd_add_50_not_full(x, pd)
  /\ UNCHANGED <<given, removed>>

InsertFull(x) ==
  /\ removed = {} /\ pd_full(pd)
  /\ Size(given) < MaxGiven
  /\ pd' = pd_swap_short(x, pd).pd
  /\ given' = AddCopy(given, pd_swap_short(x, pd).qr)
  /\ UNCHANGED removed

Delete(x) ==
  /\ removed = {} /\ CanDelete(x, pd)
  /\ pd' = delete_element(x, pd)
  /\ removed' = IF pd.overflowed THEN {Quot(x)} ELSE {}
  /\ UNCHANGED given

DeleteGiven(x) ==
  /\ removed = {} /\ pd.overflowed /\ ~CanDelete(x, pd)
  /\ given[x] > 0
  /\ given' = RemoveCopy(given, x)
  /\ UNCHANGED <<pd, removed>>

Refill ==
  \E quot \in removed :
    /\ Support(given) # {}
    /\ pd' = pd_pop_add(Smallest(Support(given)), quot, pd)
    /\ given' = RemoveCopy(given, Smallest(Support(given)))
    /\ removed' = {}

NothingGiven ==
  /\ removed # {} /\ Support(given) = {}
  /\ pd' = pop_helper_no_element_to_pop(pd)
  /\ removed' = {}
  /\ UNCHANGED given

Next ==
  \/ \E x \in QR : InsertNotFull(x) \/ InsertFull(x) \/ Delete(x) \/ DeleteGiven(x)
  \/ Refill
  \/ NothingGiven

Spec == Init /\ [][Next]_vars

=============================================================================
