------------------------------ MODULE TsPd512 ------------------------------
(***************************************************************************)
(* A pocket dictionary of DictApx512 as its bits (ts_pd512.hpp).  The      *)
(* header writes for every quotient one 0 for each of its elements and     *)
(* then a 1; the body holds the remainders in the same order.  The header  *)
(* is read as two words, h0 and h1, and most operations ask which of the   *)
(* two the run of a quotient lies in.  Beyond the header h1 goes on with   *)
(* padding bits, which are 0.                                              *)
(***************************************************************************)
EXTENDS QuotientRuns, WordBits

CONSTANT WORD_BITS     (* Bits of a word, 64.                               *)

HeaderBits == QUOTS + MAX_CAPACITY

(* There are too few 0s and too few 1s to fill a word with, and the header *)
(* is longer than one.                                                     *)
ASSUME WordSizeFits ==
  /\ WORD_BITS \in Nat
  /\ MAX_CAPACITY < WORD_BITS
  /\ QUOTS < WORD_BITS
  /\ WORD_BITS < HeaderBits

VARIABLES
  pd,                  (* The header and the body.                          *)
  overrun              (* A write went beyond the body.                     *)

vars == <<pd, overrun>>

Places == 0 .. MAX_CAPACITY - 1

(***************************************************************************)
(* Words and their bits.  A word is a function from its positions.         *)
(***************************************************************************)
H0(h) == [i \in 0 .. WORD_BITS - 1 |-> h[i]]

H1(h) ==
  [i \in 0 .. HeaderBits - WORD_BITS |->
     IF WORD_BITS + i < HeaderBits THEN h[WORD_BITS + i] ELSE 0]

SwapBits(h, i, k) == [h EXCEPT ![i] = 1 - @, ![k] = 1 - @]

(* The bytes of from .. to move down by one and rem takes the last place. *)
ReplaceOldest(b, from, to, rem) ==
  [k \in DOMAIN b |->
     IF k \in from .. to - 1 THEN b[k + 1] ELSE IF k = to THEN rem ELSE b[k]]

-----------------------------------------------------------------------------

pd_full(p) == p.header[HeaderBits - 1] = 1

(* get_last_occupied_quot_for_full_pd.  It reads the header bits of h1. *)
LastOccupied(h) ==
  QUOTS - Cardinality({i \in WORD_BITS .. HeaderBits - 1 :
                         \A k \in i .. HeaderBits - 1 : h[k] = 1})

(* The bytes that equal rem, in the run of quot or not. *)
Matches(p, rem) == {i \in Places : p.body[i] = rem}

(* Mutant: that the bit is 0 is taken for enough. *)
FindSingle_BitOnly(p, quot, i) ==
  /\ i + quot < HeaderBits
  /\ p.header[i + quot] = 0

(* pd_find_50_v18.  A single match is looked up in the header on its own.  *)
FindSingle(p, quot, i) ==
  /\ i + quot < HeaderBits
  /\ p.header[i + quot] = 0
  /\ OnesBelow(p.header, i + quot) = quot

(* Bounds of a run as places of the body, by the word it lies in. *)
FindRange(p, quot) ==
  LET h0 == H0(p.header)
      h1 == H1(p.header)
      pop == Popcount(h0)
  IN  IF quot = 0 THEN 0 .. Select(h0, 0) - 1
      ELSE IF quot < pop
        THEN Select(h0, quot - 1) + 1 - quot .. Select(h0, quot) - quot - 1
      ELSE IF quot > pop
        THEN WORD_BITS + Select(h1, quot - pop - 1) + 1 - quot ..
               WORD_BITS + Select(h1, quot - pop) - quot - 1
      ELSE LastOne(h0) + 1 - quot .. WORD_BITS + Select(h1, 0) - quot - 1

find(quot, rem, p) ==
  LET v == Matches(p, rem)
  IN  IF Cardinality(v) = 1
        THEN \A i \in v : FindSingle(p, quot, i)
        ELSE v \cap FindRange(p, quot) # {}

-----------------------------------------------------------------------------
(* remove_from_not_sorted_body_naive. *)
RunBegin(h, quot) == IF quot = 0 THEN 0 ELSE Select(h, quot - 1) + 1

(* Mutant: the end of the run is forgotten. *)
RunMatches_NoEnd(p, quot, rem) ==
  {i \in Matches(p, rem) : i >= RunBegin(p.header, quot) - quot}

RunMatches(p, quot, rem) ==
  {i \in Matches(p, rem) :
     /\ i >= RunBegin(p.header, quot) - quot
     /\ i < Select(p.header, quot) - quot}

DeleteElement(p, bit, i, last) ==
  [header |-> DeleteZero(p.header, bit), body |-> ShiftOut(p.body, i, last)]

(* Mutant: the last byte is left where it was. *)
Removed_KeepLast(p, quot, rem) ==
  DeleteElement(p, RunBegin(p.header, quot), Min(RunMatches(p, quot, rem)),
                p.body[MAX_CAPACITY - 1])

Removed(p, quot, rem) ==
  DeleteElement(p, RunBegin(p.header, quot), Min(RunMatches(p, quot, rem)), 0)

(***************************************************************************)
(* add_when_not_full: a 0 goes in front of the 1 of quot, whose position   *)
(* is looked for in h0 or in h1, and the remainder at the end of its run.  *)
(***************************************************************************)
EndOfRun(h, quot) ==
  LET pop == Popcount(H0(h))
  IN  IF quot < pop THEN Select(H0(h), quot)
                    ELSE WORD_BITS + Select(H1(h), quot - pop)

AddedWhenNotFull(p, quot, rem) ==
  LET end == EndOfRun(p.header, quot)
  IN  [header |-> InsertZero(p.header, end),
       body |-> ShiftIn(p.body, end - quot, rem)]

(***************************************************************************)
(* add_when_full.  If quot has a run its oldest remainder is overwritten.  *)
(* If it has none the first element of the next run changes its quotient:  *)
(* the 1 of quot and the 0 of that element swap.                           *)
(***************************************************************************)
ReplacedInRun(p, quot, rem, begin, end) ==
  [p EXCEPT !.body = ReplaceOldest(@, begin + 1 - quot, end - quot - 1, rem)]

MovedToRun(p, quot, rem, end, zero) ==
  [header |-> SwapBits(p.header, end, zero),
   body |-> [p.body EXCEPT ![end - quot] = rem]]

(* add_when_full_with_zero_quot *)
AddedToZeroQuot(p, rem) ==
  LET h0 == H0(p.header)
  IN  IF h0[0] = 1
        THEN MovedToRun(p, 0, rem, 0, ZeroFrom(h0, 0))
        ELSE [p EXCEPT !.body = ReplaceOldest(@, 0, Select(h0, 0) - 1, rem)]

(* add_when_full_by_deleting_first_qr, with remove_with_assertion *)
AddedByDeletingFirst(p, quot, rem) ==
  LET q == ZeroFrom(H0(p.header), 0)
  IN  AddedWhenNotFull(
        DeleteElement(p, q, 0, p.body[MAX_CAPACITY - 1]), quot, rem)

(* Beginning and end of the run of quot > 0, its own 1 and the one before. *)
BeginAndEnd(h, quot) ==
  LET h0 == H0(h)
      h1 == H1(h)
      pop == Popcount(h0)
  IN  IF quot < pop
        THEN <<Select(h0, quot - 1), Select(h0, quot)>>
      ELSE IF quot > pop
        THEN <<WORD_BITS + Select(h1, quot - pop - 1),
               WORD_BITS + Select(h1, quot - pop)>>
      ELSE <<LastOne(h0), WORD_BITS + Select(h1, 0)>>

(***************************************************************************)
(* The first 0 after the 1 of quot: the element to evict when quot has no  *)
(* run.  It is looked for in h0, if the 1 is in h0 and a 0 follows there,  *)
(* and else in h1, where the padding stops the search.                     *)
(***************************************************************************)
NextElement(h, end) ==
  IF end < WORD_BITS /\ \E i \in end .. WORD_BITS - 1 : h[i] = 0
    THEN ZeroFrom(H0(h), end)
  ELSE IF end < WORD_BITS
    THEN WORD_BITS + ZeroFrom(H1(h), 0)
    ELSE WORD_BITS + ZeroFrom(H1(h), end - WORD_BITS)

AddedInRange(p, quot, rem) ==
  LET run == BeginAndEnd(p.header, quot)
  IN  IF run[1] + 1 < run[2]
        THEN ReplacedInRun(p, quot, rem, run[1], run[2])
        ELSE MovedToRun(p, quot, rem, run[2], NextElement(p.header, run[2]))

PastLast(p, quot) == LastOccupied(p.header) < quot

(* add_when_full *)
AddedWhenFull(p, quot, rem) ==
  CASE quot = 0                        -> AddedToZeroQuot(p, rem)
    [] quot # 0 /\ PastLast(p, quot)   -> AddedByDeletingFirst(p, quot, rem)
    [] quot # 0 /\ ~PastLast(p, quot)  -> AddedInRange(p, quot, rem)

Added(p, quot, rem) ==
  IF pd_full(p) THEN AddedWhenFull(p, quot, rem)
                ELSE AddedWhenNotFull(p, quot, rem)

(***************************************************************************)
(* When the bits of the header in h1 are all 1 LastOccupied may be too     *)
(* great.  There is then no element after quot: the search finds a padding *)
(* bit, and the remainder is written to the first byte after the body.     *)
(* What follows depends on what lies there and is left out.                *)
(***************************************************************************)
Overruns(p, quot) ==
  /\ pd_full(p)
  /\ quot # 0
  /\ ~PastLast(p, quot)
  /\ LET run == BeginAndEnd(p.header, quot)
     IN  /\ run[1] + 1 = run[2]
         /\ NextElement(p.header, run[2]) = HeaderBits

-----------------------------------------------------------------------------
Init ==
  /\ pd = [header |-> [i \in 0 .. HeaderBits - 1 |-> IF i < QUOTS THEN 1 ELSE 0],
           body |-> [i \in Places |-> 0]]
  /\ overrun = FALSE

(* Mutant: an addition that fills the dictionary goes on to evict. *)
add_FallsThrough(quot, rem) ==
  /\ ~Overruns(pd, quot)
  /\ LET p == Added(pd, quot, rem)
     IN  pd' = IF ~pd_full(pd) /\ pd_full(p) /\ ~Overruns(p, quot)
                 THEN Added(p, quot, rem) ELSE p
  /\ UNCHANGED overrun

(* Whether an element was evicted add returns: pd_full before. *)
add(quot, rem) ==
  \/ /\ ~Overruns(pd, quot)
     /\ pd' = Added(pd, quot, rem)
     /\ UNCHANGED overrun
  \/ /\ Overruns(pd, quot)
     /\ overrun' = TRUE
     /\ UNCHANGED pd

remove(quot, rem) ==
  /\ RunMatches(pd, quot, rem) # {}
  /\ pd' = Removed(pd, quot, rem)
  /\ UNCHANGED overrun

Next ==
  /\ ~overrun
  /\ \E quot \in Quots, rem \in Rems : add(quot, rem) \/ remove(quot, rem)

Spec == Init /\ [][Next]_vars

-----------------------------------------------------------------------------
(***************************************************************************)
(* The header always ends QUOTS runs, and only the bytes of elements are   *)
(* other than 0.                                                           *)
(***************************************************************************)
Fill(p) == Select(p.header, QUOTS - 1) - (QUOTS - 1)

TypeOK ==
  /\ pd.header \in [0 .. HeaderBits - 1 -> 0 .. 1]
  /\ pd.body \in [Places -> Rems \cup {0}]
  /\ overrun \in BOOLEAN
  /\ Popcount(pd.header) = QUOTS
  /\ \A i \in Places : i >= Fill(pd) => pd.body[i] = 0

(* The run of a quotient, read off the header and the body. *)
RunOf(p, quot) ==
  LET begin == RunBegin(p.header, quot) - quot
      end == Select(p.header, quot) - quot
  IN  [i \in 1 .. end - begin |-> p.body[begin + i - 1]]

RunsOf(p) == [quot \in Quots |-> RunOf(p, quot)]

(***************************************************************************)
(* pd_find_50_v18 takes a short cut for single matches and four others for *)
(* the word of the run.  It answers as a search of the run would.          *)
(***************************************************************************)
FindReadsTheRun ==
  \A quot \in Quots, rem \in Rems :
    find(quot, rem, pd) <=> Stores(RunsOf(pd), quot, rem)

(***************************************************************************)
(* add_when_full_quot_gt_pop and add_when_full_quot_eq_pop assert that the *)
(* element they evict has a quotient below QUOTS.                          *)
(***************************************************************************)
EvictsAnElement == ~overrun

(***************************************************************************)
(* add chooses among seven ways to write the header and the body, by the   *)
(* words the run lies in.  On every content, and for every element, the    *)
(* one it takes evicts and appends as get_evict_qr and the comment of      *)
(* add_pd_full_naive_split_qlru say, and disturbs no other run.  remove    *)
(* finds what find finds, and takes one copy out of that run alone.        *)
(***************************************************************************)
UpdatesTheRuns ==
  \A quot \in Quots, rem \in Rems :
    LET found == RunMatches(pd, quot, rem) # {}
    IN  /\ ~Overruns(pd, quot) =>
             RunsOf(Added(pd, quot, rem)) = AddTo(RunsOf(pd), quot, rem)
        /\ found <=> find(quot, rem, pd)
        /\ found => RunsOf(Removed(pd, quot, rem)) = RemoveFrom(RunsOf(pd), quot, rem)

(***************************************************************************)
(* The bits implement EvictingPd.                                          *)
(***************************************************************************)
Abstract == INSTANCE EvictingPd WITH runs <- RunsOf(pd)

KeepsRuns == Abstract!Spec
=============================================================================
