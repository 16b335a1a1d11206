------------------------------ MODULE ItemKeys ------------------------------
(***************************************************************************)
(* The fingerprints every level of the filter stores, and multisets of     *)
(* them.                                                                   *)
(*                                                                         *)
(* A hashed element is a pocket dictionary index and a 13 bit value "qr":  *)
(* a quotient and an 8 bit remainder, (quot << 8) | rem in the code.  Here *)
(* qr is the pair <<quot, rem>>; comparing two qr as integers is comparing *)
(* the pairs lexicographically, which is also what item_key_t's operator<  *)
(* does for two elements of the same dictionary.                           *)
(*                                                                         *)
(* The same fingerprint may be stored several times (two elements with the *)
(* same hash, or one inserted twice), so every container is a multiset: a  *)
(* function from its possible members to their number of copies.           *)
(***************************************************************************)
EXTENDS Integers, FiniteSets

CONSTANTS
  Quots,       (* QUOT_SIZE25: the number of quotients of a dictionary, 25. *)
  Rems         (* The number of remainders, 2^bits_per_item = 256.          *)

ASSUME ItemKeysAssumption ==
  /\ Quots \in Nat \ {0}
  /\ Rems \in Nat \ {0}

QR == (0 .. Quots - 1) \X (0 .. Rems - 1)

Quot(x) == x[1]
Rem(x) == x[2]

Less(x, y) == \/ Quot(x) < Quot(y)
              \/ Quot(x) = Quot(y) /\ Rem(x) < Rem(y)

(***************************************************************************)
(* The spare stores quotients upside down: spare_quot = 24 - quot.  The    *)
(* same subtraction gives the quotient back.                               *)
(***************************************************************************)
FlipQuot(x) == <<Quots - 1 - Quot(x), Rem(x)>>

NoCopies(S) == [x \in S |-> 0]

AddCopy(b, x) == [b EXCEPT ![x] = @ + 1]

RemoveCopy(b, x) == [b EXCEPT ![x] = @ - 1]

Support(b) == {x \in DOMAIN b : b[x] > 0}

(***************************************************************************)
(* The number of copies in a multiset, counted as the number of pairs      *)
(* <<member, i>> with i up to the member's multiplicity.                   *)
(***************************************************************************)
Copies(b) == UNION {{x} \X (1 .. b[x]) : x \in DOMAIN b}

Size(b) == Cardinality(Copies(b))

Biggest(S) == CHOOSE x \in S : \A y \in S : ~Less(x, y)

=============================================================================
