----------------------------- MODULE MCTSCuckoo -----------------------------
(***************************************************************************)
(* TSCuckooFilter for TLC, with the AltIndex of the code as in MCCuckoo.   *)
(***************************************************************************)
EXTENDS TSCuckooFilter, Bitwise

(* 0x5bd1e995 modulo a power of two up to 256. *)
MurmurConstant == 149

AltIndexXor(index, tag) ==
  (index ^^ ((tag * MurmurConstant) % NumBuckets)) % NumBuckets
=============================================================================
