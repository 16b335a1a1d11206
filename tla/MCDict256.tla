------------------------------ MODULE MCDict256 ------------------------------
(***************************************************************************)
(* Small instances of Dict256 for TLC.                                     *)
(*                                                                         *)
(* Dictionaries 0 and 2 stand at the same place of their batches and share *)
(* bucket 1, the secondary one of 0 and the primary one of 2; 0 and 1      *)
(* share their primary bucket.                                             *)
(***************************************************************************)
EXTENDS Dict256

(* Two bits out of five per fingerprint, so that keys collide. *)
MCSpareFilterBits ==
  [k \in Keys |-> {(k[1] + Quot(k[2])) % 3, 3 + ((k[1] + Quot(k[2]) + Rem(k[2])) % 2)}]

(* One dictionary in depth: every fingerprint. *)
OneDictKeys == {0} \X QR

(* Two dictionaries that share a bucket, with two elements in common, and   *)
(* one of the first for Level3.  The first slot 2 takes is in its secondary *)
(* bucket, the second in the shared one, where 0 has its second too.        *)
SharedKeys ==
  ({0} \X {<<0, 0>>, <<1, 0>>, <<1, 1>>, <<2, 0>>}) \cup ({2} \X {<<1, 0>>, <<2, 0>>})

(* Two dictionaries whose elements of quotient 0 go to Level3. *)
Level3Keys == {0, 2} \X {<<0, 0>>, <<0, 1>>, <<1, 0>>}

(***************************************************************************)
(* Bound of the runs in which the spare fails.  Once it dropped an element *)
(* or a pop past Level3 went wrong, elements the client no longer has may  *)
(* pile up in it, and its counter, which counts dropped elements and       *)
(* removals that find nothing, drifts without end.                         *)
(***************************************************************************)
SpareBound ==
  /\ capacity \in 0 .. MaxItems
  /\ Size(big_quots_set) <= 3
=============================================================================
