------------------------------ MODULE ApproxSet ------------------------------
(***************************************************************************)
(* What a filter with deletions promises its client, whatever is inside    *)
(* it.  The client's side is a multiset: what it inserted and has not      *)
(* removed.  The filter's side is the set of keys it answers "yes" for.    *)
(*                                                                         *)
(* While the filter has not failed, it answers yes for everything that is  *)
(* in (no false negatives), an insertion turns no yes into a no, and a     *)
(* removal turns no "no" into a yes.  A filter that ran out of room may    *)
(* announce that it has failed, and promises nothing from then on.         *)
(***************************************************************************)
EXTENDS Integers

CONSTANT Keys          (* The hashed elements.                              *)

VARIABLES
  live,                (* Copies of each key inserted and not removed.      *)
  positive,            (* The keys a lookup answers yes for.                *)
  failed               (* The filter has given up its promise.              *)

vars == <<live, positive, failed>>

In(l) == {k \in Keys : l[k] > 0}

TypeOK ==
  /\ live \in [Keys -> Nat]
  /\ positive \subseteq Keys
  /\ failed \in BOOLEAN

Init ==
  /\ live = [k \in Keys |-> 0]
  /\ positive = {}
  /\ failed = FALSE

Insert(k) ==
  /\ live' = [live EXCEPT ![k] = @ + 1]
  /\ \/ failed'
     \/ /\ ~failed /\ ~failed'
        /\ positive \cup {k} \subseteq positive'

Remove(k) ==
  /\ live[k] > 0
  /\ live' = [live EXCEPT ![k] = @ - 1]
  /\ \/ failed'
     \/ /\ ~failed /\ ~failed'
        /\ In(live') \subseteq positive'
        /\ positive' \subseteq positive

(* What follows the announcement, or the announcement on its own. *)
GiveUp ==
  /\ failed'
  /\ UNCHANGED live

Next == (\E k \in Keys : Insert(k) \/ Remove(k)) \/ GiveUp

Spec == Init /\ [][Next]_vars
=============================================================================
