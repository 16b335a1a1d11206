--------------------------- MODULE MCDict256Ver5 ---------------------------
(***************************************************************************)
(* Dict256Ver5 for TLC.                                                    *)
(***************************************************************************)
EXTENDS Dict256Ver5

(* Elements that share one bucket or both, and some whose two are one. *)
MCBucketsOf ==
  [k \in Keys |-> <<(k[1] + Quot(k[2])) % num_of_buckets,
                    (k[1] + Quot(k[2]) + Rem(k[2])) % num_of_buckets>>]

(* Two bits out of five, so that keys collide. *)
MCSpareFilterBits ==
  [k \in Keys |-> {(k[1] + Quot(k[2])) % 3, 3 + ((k[1] + Quot(k[2]) + Rem(k[2])) % 2)}]
=============================================================================
