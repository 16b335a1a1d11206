---------------------------- MODULE QuotientRuns ----------------------------
(***************************************************************************)
(* The pocket dictionary of DictApx512 as what it stores: for every        *)
(* quotient the run of its remainders, oldest first.  A full dictionary    *)
(* evicts to make room; get_evict_qr says what (ts_pd512.hpp).             *)
(***************************************************************************)
EXTENDS Integers, SequencesExt

CONSTANTS
  QUOTS,               (* Quotients of a dictionary, 50.                    *)
  MAX_CAPACITY,        (* Elements it has room for, 51.                     *)
  Rems                 (* Remainders, a byte each.                          *)

ASSUME PdSizesAreNatural ==
  /\ QUOTS \in Nat \ {0}
  /\ MAX_CAPACITY \in Nat \ {0}

Quots == 0 .. QUOTS - 1

NoRuns == [q \in Quots |-> << >>]

(* The places of the runs: a quotient and a position in its run. *)
Elements(runs) == UNION {{q} \X DOMAIN runs[q] : q \in Quots}

Size(runs) == Cardinality(Elements(runs))

(* Mutant: one element too many is let in. *)
IsFull_OneMore(runs) == Size(runs) > MAX_CAPACITY

IsFull(runs) == Size(runs) = MAX_CAPACITY

Stores(runs, quot, rem) == rem \in Range(runs[quot])

Occurrences(runs, quot, rem) ==
  Cardinality({i \in DOMAIN runs[quot] : runs[quot][i] = rem})

Nonempty(runs) == {q \in Quots : runs[q] # << >>}

(* The first quotient that is not empty, at or after quot; or the first of all. *)
EvictQuot(runs, quot) ==
  IF \E q \in Nonempty(runs) : q >= quot
    THEN Min({q \in Nonempty(runs) : q >= quot})
    ELSE Min(Nonempty(runs))

DropOldest(runs, quot) == [runs EXCEPT ![quot] = Tail(@)]

AppendTo(runs, quot, rem) == [runs EXCEPT ![quot] = Append(@, rem)]

(* Mutant: a full dictionary drops the new element. *)
AddTo_DropNew(runs, quot, rem) ==
  IF IsFull(runs) THEN runs ELSE AppendTo(runs, quot, rem)

AddTo(runs, quot, rem) ==
  AppendTo(
    IF IsFull(runs) THEN DropOldest(runs, EvictQuot(runs, quot)) ELSE runs,
    quot, rem)

(* Mutants: the oldest of the run goes, or every copy of the remainder. *)
RemoveFrom_Oldest(runs, quot, rem) == DropOldest(runs, quot)

RemoveFrom_All(runs, quot, rem) ==
  [runs EXCEPT ![quot] = SelectSeq(@, LAMBDA r : r # rem)]

RemoveFrom(runs, quot, rem) ==
  [runs EXCEPT ![quot] = RemoveFirst(@, rem)]
=============================================================================
