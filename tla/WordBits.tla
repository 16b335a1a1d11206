------------------------------ MODULE WordBits ------------------------------
(***************************************************************************)
(* Words as their bits, and arrays of bytes.  A word is a function from    *)
(* its positions, the lowest first, to 0 and 1.  The instructions the      *)
(* dictionaries use (pdep with tzcnt, popcount, lzcnt, shifts under a      *)
(* mask, memmove) appear as what they compute.                             *)
(***************************************************************************)
EXTENDS Integers, FiniteSets, FiniteSetsExt

SetBits(w) == {i \in DOMAIN w : w[i] = 1}

Popcount(w) == Cardinality(SetBits(w))

OnesBelow(w, i) == Cardinality({k \in SetBits(w) : k < i})

(* Positions of the j-th 1, counted from 0, and of the last and the first. *)
Select(w, j) == CHOOSE i \in SetBits(w) : OnesBelow(w, i) = j

LastOne(w) == Max(SetBits(w))

FirstOne(w) == Min(SetBits(w))

(* The position of the first 0 at or after i: what tzcnt(~(w >> i)) finds. *)
ZeroFrom(w, i) == Min({k \in DOMAIN w : k >= i /\ w[k] = 0})

(* Shifts of a word by k, its complement, and its number of leading 0s. *)
Shl(w, k) == [i \in DOMAIN w |-> IF i >= k THEN w[i - k] ELSE 0]

Shr(w, k) == [i \in DOMAIN w |-> IF i + k \in DOMAIN w THEN w[i + k] ELSE 0]

Complement(w) == [i \in DOMAIN w |-> 1 - w[i]]

Lzcnt(w) ==
  IF SetBits(w) = {} THEN Cardinality(DOMAIN w) ELSE Cardinality(DOMAIN w) - 1 - LastOne(w)

(* The positions from i on move up by one and v takes place i; the last is lost. *)
ShiftIn(w, i, v) ==
  [k \in DOMAIN w |-> IF k < i THEN w[k] ELSE IF k = i THEN v ELSE w[k - 1]]

(* The positions after i move down by one and last takes the last place. *)
ShiftOut(w, i, last) ==
  [k \in DOMAIN w |->
     IF k < i THEN w[k] ELSE IF k + 1 \in DOMAIN w THEN w[k + 1] ELSE last]

(* Unary header: a 0 for each element of a place, then a 1 for the place.  *)
InsertZero(h, i) == ShiftIn(h, i, 0)

DeleteZero(h, i) == ShiftOut(h, i, 0)

=============================================================================
