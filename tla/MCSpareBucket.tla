---------------------------- MODULE MCSpareBucket ----------------------------
(***************************************************************************)
(* A small bucket for TLC: three places whose runs begin in the first word *)
(* of the header, cross into the second, or lie there.                     *)
(***************************************************************************)
EXTENDS SpareBucket

(* Equal remainders on both sides, with equal and with different quotients. *)
MCUsedSlots ==
  ({0} \X BOOLEAN \X {<<0, 0>>}) \cup {<<0, TRUE, <<1, 1>>>>}
  \cup ({1} \X BOOLEAN \X {<<1, 0>>}) \cup ({1} \X {TRUE} \X {<<0, 0>>, <<0, 1>>})
  \cup ({2} \X BOOLEAN \X {<<1, 1>>})
=============================================================================
