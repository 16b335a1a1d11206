----------------------------- MODULE Pd256Bits -----------------------------
(***************************************************************************)
(* A pocket dictionary as its 256 bits (PD_Filter/Dict320/pd256_plus.hpp): *)
(*                                                                         *)
(*   last_quot  five bits: the quotient of the biggest element             *)
(*   exact      one bit: 0 once the dictionary overflowed                  *)
(*   header     50 bits: a 0 for each element of a quotient, then a 1      *)
(*   body       25 bytes: the remainders, ordered within a quotient        *)
(*                                                                         *)
(* The first 56 bits share a word of 64 with a byte of the body, and what  *)
(* the code computes about the last quotient it computes by shifting the   *)
(* header in a word, with the shifts' zeros coming in at either end.       *)
(***************************************************************************)
EXTENDS ItemKeys, WordBits

CONSTANTS
  Capacity,        (* CAPACITY25, 25.                                       *)
  DROPPED_BITS,    (* Bits of a word that the header leaves free, 14.       *)
  QUOT_BITS,       (* Bits of last_quot, 5.                                 *)
  BYTE_BITS,       (* Bits of a byte, and so of a remainder, 8.             *)
  MaxGiven         (* Bound: elements pushed out to the spare at a time.    *)

ASSUME PdSizes ==
  /\ Capacity \in Nat /\ Capacity >= 2
  /\ DROPPED_BITS \in 0 .. Capacity - 2
  /\ QUOT_BITS \in Nat /\ BYTE_BITS \in Nat \ {0}
  /\ Quots <= 2^QUOT_BITS /\ Rems <= 2^BYTE_BITS

VARIABLES
  pd,              (* The four parts, as a record.                          *)
  given,           (* The dictionary's elements in the spare, a multiset.   *)
  removed,         (* The quotient of a deletion that waits for its pop.    *)
  overrun          (* Something was written outside the body.               *)

vars == <<pd, given, removed, overrun>>

HeaderSize == Quots + Capacity
Places == 0 .. Capacity - 1

(* The clean header in a machine word. *)
Wide(p) ==
  [i \in 0 .. HeaderSize + DROPPED_BITS - 1 |-> IF i < HeaderSize THEN p.header[i] ELSE 0]

pd_full(p) == p.header[HeaderSize - 1] = 1

get_last_byte(p) == p.body[Capacity - 1]

did_pd_overflowed(p) == p.exact = 0

(* A quotient's run of 0s in the header: begin is its first, end its 1. *)
RunBegin(h, quot) == IF quot = 0 THEN 0 ELSE Select(h, quot - 1) + 1
RunEnd(h, quot) == Select(h, quot)

-----------------------------------------------------------------------------
(* The last quotient, from the top of the header. *)
get_last_zero_index(p) == p.last_quot + Capacity - 1

(* Of a full dictionary: its 1s from the top, then the 0s of the last run.  *)
(* The shift down loses the lowest bits.                                    *)
get_last_quot_capacity(p) ==
  LET header == Shr(Wide(p), DROPPED_BITS)
      header2 == Complement(Shl(header, Lzcnt(header) + 1))
  IN  Lzcnt(Complement(Shl(header2, Lzcnt(header2))))

(* Mutant: the element about to be deleted is not skipped. *)
compute_next_last_quot_NotSkipped(p) ==
  LET header == Shl(Wide(p), DROPPED_BITS)
      header2 == Complement(Shl(header, Lzcnt(header) + 1))
  IN  Quots - 1 - Lzcnt(header2)

(* Below the last element. *)
compute_next_last_quot(p) ==
  LET header == Shl(Wide(p), DROPPED_BITS)
      header2 == Complement(Shl(header, Lzcnt(header) + 1))
  IN  Quots - 1 - Lzcnt(header2) - Lzcnt(Shl(header2, Lzcnt(header2) + 1))

compute_curr_last_quot(p) ==
  LET header == Shr(Wide(p), DROPPED_BITS)
  IN  Quots - 1 - Lzcnt(Complement(Shl(header, Lzcnt(header) + 1)))

find_next_zero_from_msb(p, last) == Max({i \in 0 .. last - 1 : p.header[i] = 0})

get_last_quot_after_future_swap(quot, p) ==
  LET last == get_last_zero_index(p)
      nom == p.last_quot - (last - find_next_zero_from_msb(p, last) - 1)
  IN  IF quot >= p.last_quot THEN p.last_quot ELSE Max({quot, nom})

-----------------------------------------------------------------------------
(* Lookups. *)
(* Mutant: for a single match, that its bit is a 0 is taken for enough. *)
pd_find_25_BitOnly(x, p) ==
  LET matches == {i \in Places : p.body[i] = Rem(x)}
  IN  \E i \in matches :
        IF Cardinality(matches) = 1 THEN p.header[i + Quot(x)] = 0
        ELSE i + Quot(x) \in RunBegin(p.header, Quot(x)) .. RunEnd(p.header, Quot(x)) - 1

(* pd_find_25_ver9: a single match is tested by counting the 1s below it,  *)
(* several ones by the run's mask.                                         *)
pd_find_25(x, p) ==
  LET matches == {i \in Places : p.body[i] = Rem(x)}
  IN  \E i \in matches :
        IF Cardinality(matches) = 1
        THEN p.header[i + Quot(x)] = 0 /\ OnesBelow(p.header, i + Quot(x)) = Quot(x)
        ELSE i + Quot(x) \in RunBegin(p.header, Quot(x)) .. RunEnd(p.header, Quot(x)) - 1

cmp_qr1(x, p) == did_pd_overflowed(p) /\ Less(<<p.last_quot, get_last_byte(p)>>, x)

-----------------------------------------------------------------------------
(* Insertion. *)
(* Mutant: in front of the run, whatever is in it. *)
SortedIndex_First(p, rem, begin, end) == begin

SortedIndex(p, rem, begin, end) == Min({i \in begin .. end : i = end \/ rem <= p.body[i]})

pd_add_25_core(x, p) ==
  LET begin == RunBegin(p.header, Quot(x))
      end == RunEnd(p.header, Quot(x))
      i == SortedIndex(p, Rem(x), begin - Quot(x), end - Quot(x))
  IN  [last_quot |-> Max({p.last_quot, Quot(x)}),
       exact |-> p.exact,
       header |-> InsertZero(p.header, end),
       body |-> ShiftIn(p.body, i, Rem(x))]

pd_add_50_only_rem(rem, quot_capacity, p) ==
  [p EXCEPT !.body = ShiftIn(@, SortedIndex(p, rem, Capacity - quot_capacity, Capacity), rem)]

remove_biggest_element(p) == [p EXCEPT !.header = DeleteZero(@, get_last_zero_index(p))]

(* The dictionary after the swap, and the element to be given away. *)
pd_swap_short(x, p) ==
  LET last == <<p.last_quot, get_last_byte(p)>>
      marked == [p EXCEPT !.exact = 0]
  IN  CASE Less(last, x) -> [pd |-> marked, qr |-> x]
        [] ~Less(last, x) /\ Quot(x) = p.last_quot ->
             [pd |-> pd_add_50_only_rem(Rem(x), get_last_quot_capacity(p), marked), qr |-> last]
        [] Quot(x) < p.last_quot ->
             [pd |-> [pd_add_25_core(x, remove_biggest_element(marked)) EXCEPT
                        !.last_quot = get_last_quot_after_future_swap(Quot(x), p)],
              qr |-> last]

(* pd_add_50_only_rem would begin below the body. *)
Overruns(x, p) ==
  /\ Quot(x) = p.last_quot /\ ~Less(<<p.last_quot, get_last_byte(p)>>, x)
  /\ get_last_quot_capacity(p) > Capacity

-----------------------------------------------------------------------------
(* Deletion: the set of the dictionary it leaves, empty if nothing is found. *)
delete_core(x, p) ==
  LET begin == RunBegin(p.header, Quot(x))
      found == {i \in begin - Quot(x) .. RunEnd(p.header, Quot(x)) - Quot(x) - 1 :
                  p.body[i] = Rem(x)}
  IN  {[p EXCEPT !.header = DeleteZero(@, begin),
                 !.body = ShiftOut(@, Min(found), get_last_byte(p))] : i \in found}

(* The cached quotient is computed before the element is taken out. *)
delete_from_non_overflowing_pd(x, p) ==
  IF Quot(x) = p.last_quot
  THEN {[q EXCEPT !.last_quot = compute_next_last_quot(p)] : q \in delete_core(x, p)}
  ELSE delete_core(x, p)

(* The bytes before the body hold the quotient, the exact bit and the      *)
(* header.  They are numbered on downwards, byte -1 next to the body.      *)
HeadBytes == (QUOT_BITS + 1 + HeaderSize) \div BYTE_BITS

HeadBit(p, b) ==
  IF b < QUOT_BITS THEN (p.last_quot \div 2^b) % 2
  ELSE IF b = QUOT_BITS THEN p.exact ELSE p.header[b - QUOT_BITS - 1]

HeadMatches(rem, p) ==
  {i \in -HeadBytes .. -1 : \A k \in 0 .. BYTE_BITS - 1 :
     HeadBit(p, BYTE_BITS * (HeadBytes + i) + k) = (rem \div 2^k) % 2}

(* The highest equal byte, if it lies nearer to the end of the body than   *)
(* the last run begins; 31 - 7 less the code's lzcnt.  All 32 bytes are    *)
(* compared.  Of quotient 0 nothing is left of the shifted header, the run *)
(* counts as a whole word, and a byte before the body passes for one of it.*)
FastFind(x, p) ==
  LET matches == {i \in Places : p.body[i] = Rem(x)} \cup HeadMatches(Rem(x), p)
      run == Lzcnt(Shl(Wide(p), DROPPED_BITS + Quots - Quot(x)))
  IN  {i \in matches : (\A k \in matches : k <= i) /\ Capacity - 1 - i < run}

delete_equal_to_last(x, p) ==
  CASE get_last_byte(p) < Rem(x) -> {}
    [] get_last_byte(p) = Rem(x) -> {remove_biggest_element(p)}
    [] get_last_byte(p) > Rem(x) ->
         {[p EXCEPT !.header = DeleteZero(@, Capacity + Quot(x) - 1),
                    !.body = ShiftOut(@, i, get_last_byte(p))] : i \in FastFind(x, p) \cap Places}

(* The byte found is none of the body: one before it would be removed.     *)
DeletesInHead(x, p) ==
  /\ did_pd_overflowed(p) /\ Quot(x) = p.last_quot /\ get_last_byte(p) > Rem(x)
  /\ \E i \in FastFind(x, p) : i < 0

delete_element_wrapper(x, p) ==
  CASE Quot(x) > p.last_quot -> {}
    [] Quot(x) <= p.last_quot /\ ~did_pd_overflowed(p) -> delete_from_non_overflowing_pd(x, p)
    [] Quot(x) < p.last_quot /\ did_pd_overflowed(p) -> delete_core(x, p)
    [] Quot(x) = p.last_quot /\ did_pd_overflowed(p) -> delete_equal_to_last(x, p)

pd_pop_add(y, removed_quot, p) ==
  LET added == pd_add_25_core(y, p)
  IN  IF removed_quot < Quot(y) THEN [added EXCEPT !.last_quot = Quot(y)] ELSE added

update_quot_after_pop(p) == [p EXCEPT !.last_quot = compute_curr_last_quot(p)]

clear_overflow_bit(p) == [p EXCEPT !.exact = 1]

-----------------------------------------------------------------------------
Init ==
  /\ pd = [last_quot |-> 0, exact |-> 1,
           header |-> [i \in 0 .. HeaderSize - 1 |-> IF i < Quots THEN 1 ELSE 0],
           body |-> [i \in Places |-> 0]]
  /\ given = NoCopies(QR)
  /\ removed = {}
  /\ overrun = FALSE

(* No call comes between a deletion and its pop, none after an overrun. *)
Ready == removed = {} /\ ~overrun

insert_into_not_full_pd(x) ==
  /\ Ready /\ ~pd_full(pd)
  /\ pd' = pd_add_25_core(x, pd)
  /\ UNCHANGED <<given, removed, overrun>>

insert_into_full_pd(x) ==
  /\ Ready /\ pd_full(pd) /\ ~Overruns(x, pd)
  /\ Size(given) < MaxGiven
  /\ pd' = pd_swap_short(x, pd).pd
  /\ given' = AddCopy(given, pd_swap_short(x, pd).qr)
  /\ UNCHANGED <<removed, overrun>>

insert_overruns(x) ==
  /\ Ready /\ pd_full(pd) /\ Overruns(x, pd)
  /\ overrun' = TRUE
  /\ UNCHANGED <<pd, given, removed>>

remove_from_l1(x) ==
  /\ Ready
  /\ pd' \in delete_element_wrapper(x, pd)
  /\ removed' = IF did_pd_overflowed(pd) THEN {Quot(x)} ELSE {}
  /\ UNCHANGED <<given, overrun>>

remove_from_spare(x) ==
  /\ Ready /\ did_pd_overflowed(pd)
  /\ given[x] > 0 /\ delete_element_wrapper(x, pd) = {} /\ ~DeletesInHead(x, pd)
  /\ given' = RemoveCopy(given, x)
  /\ UNCHANGED <<pd, removed, overrun>>

(* Only a mistaken deletion comes here, of an element not in the filter.   *)
remove_overruns(x) ==
  /\ Ready /\ DeletesInHead(x, pd)
  /\ overrun' = TRUE
  /\ UNCHANGED <<pd, given, removed>>

(* The spare pops the smallest element it has of this dictionary. *)
pop_and_add_to_l1 ==
  \E quot \in removed, y \in Support(given) :
    /\ \A z \in Support(given) : ~Less(z, y)
    /\ pd' = pd_pop_add(y, quot, pd)
    /\ given' = RemoveCopy(given, y)
    /\ removed' = {}
    /\ UNCHANGED overrun

pop_helper_no_element_to_pop ==
  /\ removed # {} /\ Support(given) = {}
  /\ pd' = clear_overflow_bit(update_quot_after_pop(pd))
  /\ removed' = {}
  /\ UNCHANGED <<given, overrun>>

Next ==
  \/ \E x \in QR : \/ insert_into_not_full_pd(x)
                  \/ insert_into_full_pd(x)
                  \/ insert_overruns(x)
                  \/ remove_from_l1(x)
                  \/ remove_from_spare(x)
                  \/ remove_overruns(x)
  \/ pop_and_add_to_l1
  \/ pop_helper_no_element_to_pop

Spec == Init /\ [][Next]_vars

-----------------------------------------------------------------------------
(* The elements, by the header: place in the body and quotient. *)
Elements(p) ==
  {<<z - OnesBelow(p.header, z), OnesBelow(p.header, z)>> :
     z \in {z \in 0 .. LastOne(p.header) : p.header[z] = 0}}

ItemsOf(p) ==
  LET stored == {<<e[1], <<e[2], p.body[e[1]]>>>> : e \in Elements(p)}
  IN  [x \in QR |-> Cardinality({e \in stored : e[2] = x})]

(***************************************************************************)
(* Each part has its bits, the header ends Quots runs, and each run is in  *)
(* order: the last byte of a full dictionary is its biggest remainder.     *)
(***************************************************************************)
TypeOK ==
  /\ pd.last_quot \in 0 .. Quots - 1 /\ pd.exact \in 0 .. 1
  /\ pd.header \in [0 .. HeaderSize - 1 -> 0 .. 1]
  /\ pd.body \in [Places -> 0 .. Rems - 1]
  /\ Popcount(pd.header) = Quots
  /\ \A e, f \in Elements(pd) :
       e[2] = f[2] /\ e[1] < f[1] => pd.body[e[1]] <= pd.body[f[1]]

(***************************************************************************)
(* The short cuts of a lookup and of a deletion see the elements and       *)
(* nothing else, neither left over bytes past the last element nor equal   *)
(* bytes of other runs; a byte before the body is taken for an element     *)
(* only when one is deleted that is in no level.                           *)
(***************************************************************************)
FindsTheElements ==
  LET items == ItemsOf(pd)
  IN  /\ \A x \in QR : pd_find_25(x, pd) <=> items[x] > 0
      /\ Ready => \A x \in QR :
           /\ delete_element_wrapper(x, pd) # {} <=> items[x] > 0
           /\ DeletesInHead(x, pd) => items[x] = 0 /\ given[x] = 0

(***************************************************************************)
(* pd_add_50_only_rem asserts that the run it adds to begins in the body;  *)
(* a deletion, that the byte it removes is one of the body                 *)
(* (read_rem_by_index) and that pd_find_25 finds it too.                   *)
(***************************************************************************)
StaysInBody == ~overrun

(***************************************************************************)
(* The bits implement PocketDictionary, the cached quotient and the stale  *)
(* times of it included, and a deletion finds exactly what is there, until *)
(* something is written outside the body.                                  *)
(***************************************************************************)
Abstract == INSTANCE OnePd WITH
  pd <- [items |-> ItemsOf(pd), last_quot |-> pd.last_quot, overflowed |-> pd.exact = 0]

KeepsPd == Abstract!Spec

=============================================================================
