# Comparing Filters: models, checks and proofs

The repository implements and compares approximate-membership filters: data
structures that answer "is this key in?" with *no* only when it is not, and with
*yes* sometimes wrongly. Every program is single-threaded and keeps nothing on
disk, so nothing here races or crashes. What is hard is the long sequence of legal
calls: an element moves between levels, buckets or words, its bookkeeping is cached
in a few bits, and a mistake shows many operations later as a false negative or a
wrong counter. A unit test with random keys rarely meets the boundary (a full
dictionary, two full buckets, a fingerprint that occurs twice, a run that ends where
a machine word does) where that happens.

Four filters carry the logic, and each is modelled from its array down to its
buckets: `Dict256_Ver7` and its insert-only predecessor `Dict256_Ver5`, the cuckoo
filters, and `DictApx512`. The two pocket dictionaries and the spare's bucket are
modelled a second time, on their bits, and shown to implement what the filters take
them for.

## 1. Inventory

| Part | Source | State | Operations | What makes it correct |
| --- | --- | --- | --- | --- |
| `Dict256_Ver7`, two level filter | `PD_Filter/Dict320/Dict256_Ver7.hpp` | array of pocket dictionaries (PDs), a spare, a Bloom filter of the spare | `insert`, `lookup_with_l2_filter`, `remove` | no false negative; each element in one level only; below a PD's last element answers are exact |
| `pd256_plus`, its PD | `PD_Filter/Dict320/pd256_plus.hpp` | 256 bits: unary header of quotients, 25 remainders, cached last quotient, overflow bit | `pd_conditional_add_50`, `pd_find_25`, `cmp_qr1`, `delete_element_wrapper`, `pd_pop_add`, `update_quot_after_pop` | the cache is the header's; an overflowed PD is full; it holds the smallest elements |
| `packed_spare`, second level | `PD_Filter/HashTables/packed_spare.hpp` | buckets of 48 shared by batches of 32 PDs, a counter | `insert`, `find`, `remove`, `pop` | no PD takes another's element; a pop returns the smallest; the counter is right |
| `Level3` | `PD_Filter/HashTables/Level3.hpp` | sorted vector of elements whose quotient does not fit a bucket | `insert`, `find`, `remove`, `get_pop_element` | its pop returns an element of the PD that asked |
| `MainBucket`, `Quotients`: bits of one spare bucket | `PD_Filter/L2_pd/twoDimPD.hpp` | header of batch places, remainders, location bits, packed quotients | `insert`, `find`, `conditional_remove`, `pop_*` | the same multiset as `packed_spare` believes |
| `CuckooFilter` | `cuckoofilter/src/cuckoofilter.h`, `singletable.h` | table of tags, one victim, a counter | `Add`, `Contain`, `Delete` | kicks lose no tag; the victim is always found; `Size()` is right |
| `ts_CuckooFilter` | `cuckoofilter/src/ts_cuckoofilter.h` | the same without victim, a counter of failures | `Add`, `Contain`, `Delete` | one missing item per counted failure |
| `DictApx512` | `PD_Filter/Dict512/DictApx512.hpp` | array of PDs, counters | `insert`, `lookup`, `remove` | what is missing is what the counters say |
| `ts_pd512`, its PD | `PD_Filter/Dict512/ts_pd512.hpp`, `pd512.hpp` | header of 101 bits read as two words, 51 remainders | `add` (which evicts when full), `remove`, `find` | each of the word-by-word cases does to the runs the same thing |
| `Dict256_Ver5`, insert-only filter | `PD_Filter/Dict320/Dict256_Ver5.hpp` | array of PDs, a hash table as spare, a Bloom filter of the spare | `insert`, `lookup2`, `lookup_branch` | no false negative by the Bloom filter; exact by the table until the table fails |
| `hashTable_Aligned`, its spare | `PD_Filter/HashTables/hashTable_Aligned.hpp` | buckets of 4 cells, a counter | `insert` with kicks, `find` | a set; a failed insertion loses one element |
| Bloom filters | `Bloom_Filter/`, `cuckoofilter/src/simd-block.h` | bits | `Add`, `Find` | bits are only set |
| Earlier and unused versions | `Dict256_Ver4`, `Dict256_Ver6`, `Dict320`, `Dict512*`, `Fixed_PD`, `tpd`, other hash tables, `morton` | | | |
| Programs and tests | `main.cpp`, `Spec_main.cpp`, `sa_main.cpp`, `Tests/` | | | |

How they interact. `Dict256_Ver7` calls its PDs and its spare; the spare calls its
buckets and Level3; nothing calls back. A PD knows nothing of the spare: the filter
reads the PD's overflow bit to decide whom to ask. `CuckooFilter::Delete` calls
`AddImpl` again for the victim. `DictApx512` calls one PD per operation. The
programs insert, look up, and delete what they inserted; those of
`dict_approximation_tests.hpp` also delete what a filter dropped, because nothing
tells them. That is the client each module assumes.

What is hard here, each at its line under `hazards` in `PROJECT.json`:

* the swap that pushes the biggest element of a full PD into the spare, and the
  deletion that pops the smallest one back; between the two steps of a deletion the
  cached last quotient is stale;
* the last remainder byte, which belongs to the biggest element only in a full PD,
  and the element equal to the last one;
* spare buckets shared by PDs of different batches, the same fingerprint in both
  buckets of a PD, two full buckets, and the third level with its probe;
* chains of kicks, the victim that is in no bucket, its return on deletion, tags
  whose two buckets are one;
* insertions that drop or evict somebody else's element, deletions of what was
  dropped, and the counters through both;
* a header that crosses a word: the run and the element to evict in either word or
  in both;
* four arrays of a spare bucket shifted by four routines at one index; a pop that
  names an element from two of them, which a removal then searches for again;
* a run's length computed in a machine word by shifts that drop bits at one end and
  bring zeros in at the other;
* a chain of kicks that fails: the element lost is not the one inserted.

## 2. Modules

    ItemKeys -- PocketDictionary --\
        \------ PackedSpare -------- Dict256 -- MCDict256      implements ApproxSet
    ItemKeys -- PocketDictionary --\
    AlignedTable ------------------- Dict256Ver5 -- MCDict256Ver5
                                                               implements ApproxSet
    CuckooTable -- CuckooFilter -- MCCuckoo                    implements ApproxSet
             \---- TSCuckooFilter -- MCTSCuckoo                implements ApproxSet
    QuotientRuns -- EvictingPd <- implemented by - TsPd512
             \----- DictApx512
    PocketDictionary -- OnePd <-- implemented by - Pd256Bits
    ItemKeys --------- SlotBag <- implemented by - SpareBucket -- MCSpareBucket
    WordBits: words, for TsPd512, Pd256Bits and SpareBucket

**`ItemKeys`**: fingerprints `<<quotient, remainder>>`, their order, and multisets of
them (`AddCopy`, `RemoveCopy`, `Size`, `Biggest`).

**`PocketDictionary`**: a PD is a record of the multiset that header and remainder
bytes determine, the five cached bits `last_quot`, and the overflow bit. Each C++
operation is an operator from PD to PD with the same name. `last_quot` is written by
the same branches as in the code, so that it can be stale.

**`PackedSpare`**: `main_buckets` maps each bucket to a multiset of slots; a slot is
only what the code stores: the place in the batch, the bit "primary", the flipped
quotient and the remainder. So two PDs can share a slot if the code lets them.
`big_quots_set` is Level3's vector, `capacity` the counter. The dropped insertion,
the removal that finds nothing and `Level3`'s two probes are as in the source.

**`Dict256`**: `Insert` and `Remove`, with one disjunct for each branch
(`insert_into_not_full_pd_helper`, `insert_into_full_pd_helper`, `remove_from_l1`,
`remove_from_l1_missing`, `remove_from_spare`, `pop_and_add_to_l1`, `nothing_to_pop`).
A call is one step, its trailing pop and refill included: nothing interleaves with it.
`live` (what the client has in), `dropped` and `popped_past_l3` are history; no guard
of the filter reads them. `Intact` is neither of the last two.

**`ApproxSet`**: the abstract specification. A filter keeps its promise as long as it
has not `failed`: what is in is answered yes, an insertion turns no yes into a no, a
removal no "no" into a yes.

**`WordBits`**: a word as a function from its positions to bits; select, popcount,
lzcnt, shifts, and the `memmove`s of bytes, as what they compute.

**`OnePd`, `Pd256Bits`**: `OnePd` is `PocketDictionary` as a state machine, under the
calls `Dict256_Ver7` makes; `Pd256Bits` has the same calls on the 50 header bits and 25
bytes, with `last_quot` computed by the code's shifts and leading zero counts
(`get_last_quot_capacity`, `compute_next_last_quot`, `compute_curr_last_quot`,
`find_next_zero_from_msb`). `FastFind` compares all 32 bytes, as the code does, those of the
header included: `remove_overruns` is the deletion that takes one of them for its
element. Like `insert_overruns` it ends the model. The refinement maps bits to the multiset they store.

**`SlotBag`, `SpareBucket`**: the multiset of slots that `PackedSpare` takes a bucket
for, and the bucket as `MainBucket` and `Quotients` store it: a header of two words,
location bits, remainders, and quotients packed into words, each shifted by its own
routine. `find_helper` joins the three masks, the header's computed in four cases.

**`AlignedTable`, `Dict256Ver5`**: the hash table cell by cell, an iteration of its
insertion a step, `rand()`'s choice open; and the filter in front of it. Asserts are
off, so an insertion that fails only prints, and the filter goes on: `Fails` drops
the element in hand, `Finish` then tells the Bloom filter of the one that was handed
over. `BucketsOf` (the hash) and `SpareFilterBits` are constants.

**`CuckooTable`, `CuckooFilter`**: the table cell by cell, since the insertion takes
the first empty cell and the kick a cell chosen by `rand()`. `AltIndex` is a
constant, of which only the involution is assumed (`AltIndexIsInvolution`); the MC
modules give it the xor and multiplication of the code. An iteration of `AddImpl` is
a step, so that a cycle of kicks can be talked about; `status = "running"` and the
locals are in the state while a call is on.

**`TSCuckooFilter`**: the same loop (an `INSTANCE` of `CuckooFilter`) with one more
iteration, no victim, and `insertions_failed_counter` as it is under `COUNT`.

**`QuotientRuns`, `EvictingPd`**: what a PD of `DictApx512` stores, one sequence of
remainders per quotient, and what adding (with `get_evict_qr` when full) and removing
do to it. `EvictingPd` is the abstract specification.

**`TsPd512`**: the bits. The header is a function of positions, `H0` and `H1` its two
words, and `add`, `remove` and `find` are written case by case over the words as in
the source, with the word's size a constant. Writing beyond the body is a state of
its own (`overrun`), in which the model stops.

**`DictApx512`**: the array over `QuotientRuns`, the five counters, and the client
that goes on deleting what was evicted.

The `*_proofs` modules hold the theorems: `Dict256_proofs` (with the lemmas on
`ItemKeys`, `PocketDictionary` and `PackedSpare`), `Dict256Ver5_proofs`,
`CuckooFilter_proofs` (with those on `CuckooTable`), `TSCuckooFilter_proofs`,
`DictApx512_proofs`, `TsPd512_proofs`, `Pd256Bits_proofs`, `SpareBucket_proofs`. Operators named
`Something_Variant` that a comment calls a mutant are plausible bugs, which the
project's properties must and do notice; nothing else uses them.

## 3. What the runs show

| Run | Instance | Shows |
| --- | --- | --- |
| `dict_one` | one PD in use, all six fingerprints of 3 quotients and 2 remainders, capacity 2, spare buckets of 2, up to 7 elements | types; no false negative; the cached quotient decodes; an overflowed PD is full; a wrong yes only past the last element; `ApproxSet` is implemented, with failure announced when both buckets are full |
| `dict_shared` | PDs 0 and 2, whose secondary and primary bucket are the same, three places in it; two fingerprints in common, up to 8 elements; one of PD 0 goes to Level3 | each element is in one place and no PD takes another's; the Bloom filter knows the spare; the spare holds nothing smaller than the PD's last; all that with elements of both PDs in the shared bucket at once and Level3 non-empty, as long as nothing is popped past Level3 |
| `dict_level3_finds` | the same PDs, buckets of 2 | violation, finding 1 |
| `cuckoo` | 2 buckets of 2 cells, 3 tags (one with one bucket only), 4 kicks | types; conservation of tags; the victim has no room; answers are exact by fingerprint; deletions find; every call returns; `ApproxSet` is implemented and never given up |
| `ts_cuckoo` | 2 buckets of 2 cells, 3 relocations, 2 failures | types; no leftover tags; at most one missing item a failure; `ApproxSet` until the first failure |
| `ts_pd` | 5 quotients, 5 elements, words of 6 bits | `find`, `pd_full`, `add` and `remove` on bits agree with the runs, on every reachable content; `EvictingPd` is implemented |
| `ts_pd_evicts` | the same | violation, finding 3 |
| `dict_apx` | 2 PDs of 3 quotients and 2 elements, 5 insertions | no leftovers; missing items are exactly evictions less deletions that found nothing; `capacity` is what is stored; what was just inserted is found |
| `spare_bucket` | 3 places, 6 elements, header words of 5 bits, 2 quotients a word | lookups, capacity and the pop's nominee read the four arrays right; a removal takes the slot it was asked for; `SlotBag` is implemented |
| `pd256_bits` | 4 quotients, 4 elements, 1 bit dropped | lookups and deletions see the elements and nothing left over; `OnePd` is implemented, the stale `last_quot` between deletion and pop included |
| `pd256_overrun` | 3 quotients, 4 elements, 2 bits dropped | violation, finding 2 |
| `dict_ver5` | 2 PDs of 2 elements, a table of 3 cells, 3 kicks, 7 elements | the table stays a set where lookups find its elements, and loses one a failure; `lookup_branch` is exact until then; `lookup` keeps `ApproxSet`'s promise even after |

**Bounds.** Every bound is a constant or a definition with a name.

* `MaxItems` (4, 7 and 8) bounds what the client has in. With capacity 2 and buckets of
  2, six elements fill the PD and both its buckets and the seventh is dropped; with four
  the PD, a bucket and Level3 are non-empty together. `BatchSize = 2` with three buckets is the
  smallest array in which one bucket is primary to one PD and secondary to another
  of the same place; `BucketCapacity = 3` in `dict_shared` lets that bucket hold
  elements of both at once. A tie between a PD's buckets goes to the secondary one, so
  PD 2 comes to the shared bucket, its primary, only with its second spare element, and
  PD 0's next one evades it; `MaxItems = 8` leaves the PDs four elements beyond their own, and slots
  of both, of the same key too, lie in that bucket together. Three quotients are needed for "below, equal, above".
* `MaxSpareQuot` is the biggest quotient a bucket can hold: `2` when Level3 is to stay
  out of a run, `1` when quotient 0 is to go there.
* `SpareBound` (constraint of the three `dict_` runs of `Dict256`): after a drop, or a pop past
  Level3 (finding 1), the counter and Level3 drift without end; the runs follow them
  only while they are within `0 .. MaxItems` and 3. No state with `Intact` is cut off.
* `MCSpareFilterBits` gives each fingerprint two of five bits, so that different ones
  collide and the Bloom filter's false positives occur.
* `kMaxCuckooCount` (3, 4; 500 in the code) and `max_relocations` (3): enough for a
  kick chain to come back to the bucket it started from and to end in a victim. Sizes
  of the table are powers of two, as the code makes them.
* `MaxFailed` (2): the second failure can hit what the first left behind.
* `QUOTS`, `MAX_CAPACITY`, `WORD_BITS` = 5, 5, 6 (50, 51, 64 in the code): the smallest
  sizes at which each of the cases of `add`, `remove` and `find` occurs, the
  empty quotient with its neighbours in the other word included. Remainder 0 is in,
  because empty bytes are 0.
* `SpareBucket`: a header of nine bits in two words of five, so that a place's run lies
  in the first, the second or both; three words of two quotients, so that a shift
  carries twice. `MCUsedSlots` has equal remainders of both kinds, with equal and different quotients.
* `Pd256Bits`: `DROPPED_BITS` (14 in the code) are the bits a 64 bit word leaves free of
  the header. The length of the last run is computed wrongly once the run reaches
  them (finding 2), where the model stops; with 1 bit only a PD full of quotient 0
  stops it, and a mistaken deletion (below); every other content is checked. `QUOT_BITS` and
  `BYTE_BITS` (2 and 1; 5 and 8) place the cached quotient, the exact bit and the header
  in the bytes before the body, with which a deletion compares too. `MaxGiven` (2): a refill after which the PD is
  still overflowed, and one after which it is not.
* `Dict256Ver5`: seven elements, of which up to five are handed to a table of three
  cells; `MAX_CUCKOO_LOOP = 3` kicks (256 in the code) lead back to the first bucket;
  the second failure (`MaxFailures = 2`) can lose what the first put in.
* `MaxInsertions` (5): with two PDs of two elements, one PD evicts three times, or both
  do, and there remain deletions of what was evicted.

**Deadlock** is checked except in six runs. `TsPd512` and `Pd256Bits` (both runs of
each) stop when a write leaves the body, since what follows depends on memory outside
the structure; `DictApx512` stops when `MaxInsertions` are made and everything is
deleted; `Dict256Ver5` deletes nothing, and stops at `MaxItems`.

**Fairness** is assumed in one place: `WF_vars(AddImpl)` in `CuckooFilter`. The loop is
a function call; once entered it runs to its return. Nothing obliges the client to
call anything. The only liveness property, `CallsReturn`, says that the loop ends,
and its mutant is the loop whose kicks are not counted.

## 4. Findings

1. `Level3::get_pop_element` probes its vector with the key `{pd_index, 15, 256}`,
   where 15 is the biggest *spare* quotient, though Level3 stores quotients the right
   way up and all of them are below 9. So `upper_bound` skips every element of the PD
   that asks and returns the next PD's, or none. The assertion in the same function
   (`pop_item == pop_item2`) says otherwise. If the answer is none, the filter takes
   it that the spare has nothing left of this PD and clears its overflow bit; what
   Level3 holds is not looked for any more, a false negative. Run
   `dict_level3_finds`. With the real sizes Level3 is used only once more than 25
   elements of a PD have quotients below 9 (of 25), so this is rare.
2. `get_last_quot_capacity_att` shifts the header of a full PD right by 14 and left
   again to count the 0s of its last run. If the run reaches the 14 bits that fall out
   (the last quotient q is at most 14 and has at least q + 11 of the 25 elements), the
   zeros that come in are counted too and the length is 40 + q. `pd_add_50_only_rem`
   then starts at a negative index: the remainder is written before the PD's first
   byte, against the assertion `begin_fingerprint < end_fingerprint`. Run
   `pd256_overrun`. As with finding 1 it takes many elements of small quotients; one
   element inserted often enough does it.
3. `get_last_occupied_quot_for_full_pd` looks for the last element in the second
   word of the header only. If all 51 elements have quotients of at most 13 it
   overestimates; `add_when_full` may then look for an element to evict after the last
   one, writes a padding bit and one byte past the body. Run `ts_pd_evicts`. The
   operators evaluated with the real sizes show the same.

A smaller one has no run: `CuckooFilter::Size()` is documented as the number of
inserted items (`cuckoofilter.h:137`), and the victim, an inserted item, is not counted.
The code is consistent about it (`SizeIsOccupancy`; `TypeOK` has it as a conjunct).

Another is outside what the client does. `delete_from_overflowing_pd_quot_equal_to_last_helper`
(`pd256_plus.hpp:2325-2360`) compares all 32 bytes, and bounds the match by the leading
zeros of the header shifted left by 14 + 25 - quot. With quotient 0 nothing is left of
it, the bound is 64, and a byte of the header equal to the remainder counts as a match,
against `assert(fast_find_res == pd_find_25(...))` (2345): a 0 of the header is removed,
the `memmove` begins before the body, and the call returns true. It takes a deletion of an
element that is in neither level, as `FindsTheElements` shows (`DeletesInHead`), so no client that
deletes what it inserted reaches it unless the spare has dropped that element.

One comment is stale: the todo at `twoDimPD.hpp:40-42` says a lookup's mask is likely not
one contiguous sequence, because insertions disregard the location bits. The insertion
at 1353-1358 orders by them, and the mask is contiguous (`FindMaskIsContiguous`,
`MasksAreContiguous`).

Beyond these, TLC and TLAPS agree with the code, in particular on all the paths that do
not reach Level3.

## 5. What is proved

TLAPS proves the following for every value of the constants that meets the named
assumptions.

**`Dict256_proofs`**: `TypeCorrect`, `StaysFull`, `NothingLost`, `LowestStayInL1`,
`FilterCovers`, `CacheIsExact`, `FindsAll`, `ExactBelowLast`, and `Implements`
(`Spec => Promise!Spec`). They rest on one inductive invariant:

    IInv ==  TypeOK  /\  each PD is full if overflowed and never overfull
             /\  Intact => for each PD p:
                   live = items of p + copies in the spare          (Counted)
                   what the spare holds of p is not below p's last,
                   p is overflowed, the Bloom filter covers it      (Covered)
                   the cached quotient is the header's              (Exact)

None of the conjuncts is inductive alone. That lookups ask the right level needs
`Covered`; that a swap keeps `Covered` needs `Exact`, since the PD is compared by its
cache; that a deletion finds the element where it looks needs `Counted` and `Exact`;
that a pop keeps `Covered` needs that it takes the *smallest* element of the spare
(`PopTakesSmallest`) and that no slot is shared (`NoAliasing`). The latter uses
`BatchSize < NumBuckets`: a PD's secondary bucket is then another than its primary,
and two PDs at the same place of their batches have different ones.
The proof has a lemma per branch of `Insert` and `Remove`, over lemmas about
order, multisets and PDs as values, which `Dict256Ver5_proofs` takes by `INSTANCE`,
and about the spare's operations.
`StaysFull` holds without `Intact`: finding 1 and a dropped element break answers, never the
layout. The theorems about answers are conditional on `Intact` and say nothing of what
is answered after a drop.

**`Dict256Ver5_proofs`**: `TypeCorrect`, `KeepsWhatWasSent`, `ExactUntilFailure`, and
`Implements` (`ApproxSet` with `failed <- FALSE`: the table may fail, the filter does
not). The invariant has three parts:

    TableInv  the table's elements are different, each in one of its two buckets;
              the one in hand is not among them, and goes next to one of its buckets
    PdsGood   as for Dict256, with `what was sent` in place of `copies in the spare`:
              it is not below its PD's last, and the Bloom filter, as the call's
              end leaves it, covers it
    Kept \subseteq Sent  and  Cardinality(Sent \ Kept) <= failures

Only the last line relates the table to the PDs, and no promise of the lookup by the
Bloom filter rests on it; the lookup in the table is exact as long as it makes `Kept`
equal to `Sent`. A kick keeps `Kept`, a failure takes the element in hand out of it, so the
count of what is missing follows the failures although the elements lost are not those
whose insertion failed. That no insertion turns a yes into a no needs no case for each
level: what is in is found (`Covered`), and a false yes came from the Bloom filter past
the PD's last element, which an insertion only lowers (`InsertKeepsPast`).

**`CuckooFilter_proofs`**: `TypeCorrect`, `NoTagLost`, `SizeIsOccupancy`,
`VictimIsOutOfRoom`, `AnswersAreExact`, `DeletesFind`, `Implements` (with
`failed <- FALSE`: this filter refuses instead of failing). The invariant is
`StateTypes`, `Conservation`, `SizeCountsCells`, `VictimHasNoRoom` (`TypeOK` is the first
and the third), and `LoopInv`: while
the loop runs no victim is in use, and from its second iteration on the *other*
bucket of the tag in hand is full. `LoopInv` is what makes `VictimHasNoRoom` hold when
the loop gives up, and it needs that a kicked tag's other bucket's other bucket is the
one it was kicked from, the involution, which is the only thing assumed of `AltIndex`.
The first lemmas count copies of a tag in a bucket pair through a store, a kick
and a deletion; `TSCuckooFilter_proofs` takes them by `INSTANCE`.

**`TSCuckooFilter_proofs`**: `TypeCorrect`, `NoGhostTags`, `FailuresCoverMissing`, and
`Implements` (`ApproxSet` until the first failure). The invariant is `TypeOK`, `NoGhosts`, `CellsAreCounted`
(`num_items_` is the number of occupied cells, without which a deletion could take
it below 0), and `ExactUntilFailure`: with no failure counted, the table and the tag
in hand hold exactly what the client has in. `NoGhosts` alone says nothing of what is
*missing*, which the promise is about. `FailuresCoverMissing` adds that the missing
copies (`MissingCopies`, one element for each copy, so that their number is a
cardinality) are a finite set no bigger than the failures: a kick, a store and a
deletion add no copy to it, giving up adds one, that of the tag in hand.

**`DictApx512_proofs`**: `TypeCorrect`, `NoLeftovers`, `EvictionsAreMissing`, and the
action property `InsertedAreFound`. The invariant is `PdsFit` (no PD is overfull), `CapacityIsHeld`
(`get_capacity`, a difference of two counters, is the number of elements in all PDs),
the counters' types, and `NoGhosts`. An insertion into a full PD adds one element and
drops another, perhaps of the same fingerprint; the lemmas on `AddTo` and
`RemoveFrom` say by how much each fingerprint's count changes, and that what was
just appended is not what was dropped. With `NoGhosts` each fingerprint misses a
natural number of copies; by `EvictionsAreMissing` these pile up to the evictions less
the removals that found nothing, since a step changes the number of one fingerprint
by one or that of none.

**`SpareBucket_proofs`**: `Typed`, `FindsExactly`, `MasksAreContiguous`, `TakesExactly`
and `Implements` (`SlotBag`), from

    IInv ==  for some E, of which E[p] is the end of place p's run,
               the header's 1s are at E[q] + q, its other bits 0        (Ends)
               the arrays have their types; past the last end the
               location bits and quotients are 0                       (Rep)
               in each run the remainders ascend, and among equal
               ones those with location 0 come first                   (Ordered)
               the slots stored are as many as the last end

`E` is what no single array shows. From it follow which 1 `select` finds in either
word (`SelectsTheEnd`), that the four cases of `get_mask_from_header` compute the run
(`MaskIsTheRun`), and that `get_capacity` reads the last end (`CapacityIsTotal`). An
insertion adds 1 to the ends from its place on and shifts three arrays and the header;
that the packed quotients shift as an unpacked list would, the carry from word to word
included, are `AddReads` and `DeleteReads`. A slot's copies are counted by the bijection
that a shift is between the elements before and after (`GrownAdds`; a removal is read
as its inverse). `Ordered` is not needed for `FindsExactly` or
`Implements` but for the contiguous masks, and for the pop: the first index of the
biggest quotient has its smallest remainder only in an ordered run.
The assumption on sizes, `BucketSizes`, is what the code has: the empty header fits the
first word, and the whole fits two; words of quotients are full. It does
not fix 32, 48, 64 and 16.

**`TsPd512_proofs`**: `Typed`, `FindsExactly`, `UpdatesExactly` and `Implements`
(`EvictingPd`), from

    IInv ==  for some E, of which E[q] is the end of quotient q's run,
               the header's 1s are at E[q] + q, its other bits 0        (Ends)
               header and body have their types                         (Layout)
               the bytes from the last end on are 0                     (Clean)

The header is laid out like a spare bucket's, so the lemmas on it are those of
`SpareBucket_proofs`, by `INSTANCE`, with a quotient for a place. New is the second
word's padding, which a search for a 0 may run into, and everything that evicts. The
proof goes case by case through what `add` can do, each case saying what the ends and
the body become (`Adds`):

* not full: a 0 and a byte go in at the end of the run (`AddedIs`);
* full, and the quotient has a run: its bytes turn by one (`ReplacedIs`);
* full, and it has none: the first element of the next run that has elements
  (`NextRun`) changes its quotient. No byte moves, all ends between the two runs do
  (`MovedEnds`, `MovedIs`); that the 0 found is that element's, in `h0` or in `h1`
  behind a 1 in `h0`, is `NextElementIs`. It holds unless the search
  reaches the padding, which is exactly `Overruns`;
* full, and `get_last_occupied_quot_for_full_pd` is smaller than the quotient: the
  first element of all is deleted. That no run from the quotient on has an element
  then is `PastLastIs`. The converse fails, when `h1` is all 1s, which is how finding 3
  comes about.

`remove` takes the first match of the run, and what is left of it is `Without` that
place, as in `RemoveFrom`.
The proof supposes no order inside a run: the oldest element is the first one.
The assumption on sizes, `WordSizeFits`, has the header longer than a word and shorter
than two, as 50 + 51 bits and 64.

**`Pd256Bits_proofs`**: `Typed`, `FindsExactly` and `Implements` (`OnePd`), from

    IInv ==  for some E, of which E[q] is the end of quotient q's run,
               the header's 1s are at E[q] + q, its other bits 0        (Layout)
               the bytes of each run ascend                            (Sorted)
               the elements are as many as the last end
             nothing waits for a pop => the cached quotient is the last one,
               and a PD that overflowed is full                         (Settled)
             a deletion waits => one place is free, and no element
               lies behind the cached quotient, nor one of the spare's
               before it, nor the deleted one behind it
             no element in the spare is smaller than one in the PD      (Covered)

The header and the runs are again those of `SpareBucket_proofs`, without locations and
quotients. New is the cached quotient, which nothing recounts: each operation corrects
it by shifting the header in a wider word and counting leading zeros, and a wrong value
would spoil the next one.

* What a shift up, a complement and a count of leading 0s say about the header's last
  1s and 0s is in `OnesFromTop`, `ZerosBelow` and `OnesBelowTop`; from them come
  `NextLastIs` (before a deletion), `FutureLastIs` (before a swap) and `CurrLastIs` (when
  nothing is left to pop).
* `LastCapacityIs`: a full PD's last run has the length `get_last_quot_capacity` gives,
  *unless that exceeds the capacity*. This is finding 2 seen from its other side: a
  wrong length is always too big to pass unnoticed, so `Overruns` is all that can
  go wrong, and outside it `pd_add_50_only_rem` begins where the run does.
* `SwapIs` has the three cases of `pd_swap_short`; each pushes out the maximum of the PD
  and the new element, and `DeletesIs` the cases of `delete_element_wrapper`. That
  `delete_equal_to_last` may tell the run by its distance from the end of the body needs
  a full PD, hence `Settled`; that the bytes before the body make no difference to an
  element of the PD is `FastFindIs`. What is in either level is deleted where it is
  (`DeletionsFollow`): an element that a byte of the header is taken for is below the
  last one, hence by `Covered` not in the spare either.
* `PopHolds`: `pd_pop_add` sets the cached quotient to the popped element's if that is
  above the deleted one's. That this is the last quotient afterwards needs all of what
  `IInv` says while a deletion waits, and these need `Covered`: the element that comes
  back lies below none that stayed.

The quotient is stale between a deletion and its pop, and `Implements` says it is stale
exactly as `PocketDictionary` has it. It speaks of the steps until something is written
outside the body: the insertion of finding 2, or the mistaken deletion of section 4.
The assumption on sizes, `PdSizes`, has fewer bits
dropped than the capacity less one (14 and 25 in the code): `CurrLastIs` is about a PD
with one place free, whose last element must not be among the bits that fall out.

**Assumptions**: `ItemKeysAssumption`, `CapacityAssumption` (a PD holds at least two),
`SpareAssumption`, `DictAssumption`, `SizesAreNatural`, `AltIndexIsInvolution`,
`KicksAreNatural`, `RelocationsAreNatural`, `PdSizesAreNatural`, `ArrayIsNatural`,
`AlignedTableAssumption`, `Ver5Assumption`, `BucketSizes`, `UsedSlotsAreSlots`,
`WordSizeFits`, `PdSizes`.
TLC evaluates each on the runs.

**Only model-checked**: `CallsReturn`, liveness being out of the prover's reach. Every
other property of a passing run is a theorem. The findings are counterexamples and need no proof.

What the filters assume of their parts: `Dict256` and `Dict256Ver5` of their PDs what
`Pd256Bits_proofs` proves, which excludes the overrun of finding 2 and the mistaken deletion; `PackedSpare` of a bucket
what `SpareBucket_proofs` proves; `DictApx512` of its PDs what `TsPd512_proofs` proves,
which excludes the overrun of finding 3.

## 6. What is abstracted, and what is not modelled

* Hash functions: an arbitrary map, so the models quantify over hashed items.
* In `Dict256` and `Dict256Ver5`, PDs and spare buckets are the multisets their bits
  determine; equal elements are kept apart only by count, which is all any
  operation can tell. The bits are in `Pd256Bits` and `SpareBucket`.
* `hashTable_Aligned`'s own `remove`, and the insertion into it with pops, have no caller
  in `Dict256_Ver5`, whose `remove` is `assert(false)`.
* `assert`s: the release builds compile them out, so they are properties, not guards.
  Where the code goes on after a failed one, the model does too; where that would be
  undefined (erasing what Level3 does not hold), no step describes it. Nor is a removal
  followed that may damage a PD's header, which takes a drop before it (`MayDeleteInHead`).
* Bloom filters on their own: they only set bits; the spare's is a set of bits.
* Functions without caller (tombstone variants, `AddWithFN`, other lookups), earlier
  versions, experiments, third-party code, timing and printing: see the components
  marked `not_modelled` and their notes.

## 7. Plan

Done: the modules above, in the order in which they are listed; the most important
behaviour, the two level filter, came first.

Next, extending the model (a new run joins or replaces one of the same component):

1. `TableBits`: the word tricks of `cuckoofilter/src/bitsutil.h` and `SingleTable`'s
   packing of tags, against `Holds` of `CuckooTable`, over all words of a small width.
2. The blocked Bloom filter, as the set of bits that `Dict256` takes as a constant.
3. `Dict512` with its variants, if a program of the build comes to use them.

Then, proving more:

1. That `hashTable_Aligned`'s cells and `CuckooTable`'s implement a bag of the elements in
   the table, stated as modules of their own, as `SlotBag` is for a bucket.
2. With `TableBits`, that its word tricks find a tag in every word.
