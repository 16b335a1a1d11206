------------------------------ MODULE MCCuckoo ------------------------------
(***************************************************************************)
(* The cuckoo filter for TLC, with the AltIndex of the code: the buckets   *)
(* are a power of two, so the low bits of the product decide.              *)
(***************************************************************************)
EXTENDS CuckooFilter, Bitwise

(* 0x5bd1e995 modulo a power of two up to 256. *)
MurmurConstant == 149

AltIndexXor(index, tag) ==
  (index ^^ ((tag * MurmurConstant) % NumBuckets)) % NumBuckets
=============================================================================
