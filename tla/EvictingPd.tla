----------------------------- MODULE EvictingPd -----------------------------
(***************************************************************************)
(* What a pocket dictionary of DictApx512 promises: additions that evict   *)
(* by get_evict_qr when it is full, and removals of the oldest copy.       *)
(***************************************************************************)
EXTENDS QuotientRuns

VARIABLE runs

Init == runs = NoRuns

Addition(quot, rem) == runs' = AddTo(runs, quot, rem)

Removal(quot, rem) ==
  /\ Stores(runs, quot, rem)
  /\ runs' = RemoveFrom(runs, quot, rem)

Next == \E quot \in Quots, rem \in Rems : Addition(quot, rem) \/ Removal(quot, rem)

Spec == Init /\ [][Next]_runs
=============================================================================
