--------------------------- MODULE TSCuckooFilter ---------------------------
(***************************************************************************)
(* The cuckoo filter that never refuses an insertion (ts_cuckoofilter.h).  *)
(* It runs the kicks of CuckooFilter, at most max_relocations of them, and *)
(* then drops the tag it holds, whosever it is, and counts a failure.      *)
(* Its victim is never used.  The client, which is told nothing, goes on   *)
(* to delete what it believes is in.                                       *)
(***************************************************************************)
EXTENDS CuckooTable

CONSTANTS
  max_relocations,
  MaxFailed            (* Bound: the client stops inserting after so many   *)
                       (* failures.                                         *)

ASSUME RelocationsAreNatural ==
  /\ max_relocations \in Nat
  /\ MaxFailed \in Nat

VARIABLES
  table_, victim_, num_items_, status, curindex, curtag, count,
  insertions_failed_counter,
  live                 (* History: the copies the client believes are in.   *)

locals == <<curindex, curtag, count>>
vars ==
  <<table_, victim_, num_items_, status, locals, insertions_failed_counter, live>>

(* The loop reads count <= max_relocations where CuckooFilter's reads      *)
(* count < kMaxCuckooCount, and is the same otherwise.                     *)
Kicks == INSTANCE CuckooFilter WITH
  kMaxCuckooCount <- max_relocations + 1

Running == Kicks!Running
(* Mutant: lookups search the first bucket only. *)
Contain_FirstBucket(item) == Holds(table_, IndexOf(item), TagOf(item))

Contain(item) == Kicks!Contain(item)

Init ==
  /\ Kicks!Init
  /\ insertions_failed_counter = 0

Add(item) ==
  /\ insertions_failed_counter < MaxFailed
  /\ Kicks!Add(item)
  /\ UNCHANGED insertions_failed_counter

StoreTag == Kicks!StoreTag /\ UNCHANGED insertions_failed_counter

MoveOn ==
  /\ Kicks!TryOtherBucket \/ Kicks!Kick
  /\ UNCHANGED insertions_failed_counter

DropTag ==
  /\ Running /\ count = max_relocations + 1
  /\ insertions_failed_counter' = insertions_failed_counter + 1
  /\ Kicks!Return("Ok")
  /\ UNCHANGED <<table_, victim_, num_items_, live>>

AddImpl_with_fn == StoreTag \/ MoveOn \/ DropTag

(* Mutant: the tag is deleted from both its buckets. *)
DeleteFromBucket_Both(i, tag) ==
  /\ table_' = LET i2 == AltIndex(i, tag)
                   t == DeleteTagFromBucket(table_, i, tag)
               IN  IF Holds(t, i2, tag) THEN DeleteTagFromBucket(t, i2, tag) ELSE t
  /\ num_items_' = num_items_ - 1
  /\ Kicks!Return("Ok")

DeleteFromBucket(i, tag) ==
  /\ table_' = DeleteTagFromBucket(table_, i, tag)
  /\ num_items_' = num_items_ - 1
  /\ Kicks!Return("Ok")

(* Mutant: only the first bucket is searched. *)
DeleteTag_FirstBucket(i1, i2, tag) ==
  \/ /\ Holds(table_, i1, tag)
     /\ DeleteFromBucket(i1, tag)
  \/ /\ ~Holds(table_, i1, tag)
     /\ Kicks!Return("NotFound")
     /\ UNCHANGED <<table_, num_items_>>

(* Mutant: a deletion that finds nothing is counted as well. *)
DeleteTag_CountsMissing(i1, i2, tag) ==
  \/ /\ Holds(table_, i1, tag)
     /\ DeleteFromBucket(i1, tag)
  \/ /\ ~Holds(table_, i1, tag) /\ Holds(table_, i2, tag)
     /\ DeleteFromBucket(i2, tag)
  \/ /\ ~FindTagInBuckets(table_, i1, i2, tag)
     /\ num_items_' = num_items_ - 1
     /\ Kicks!Return("NotFound")
     /\ UNCHANGED table_

DeleteTag(i1, i2, tag) ==
  \/ /\ Holds(table_, i1, tag)
     /\ DeleteFromBucket(i1, tag)
  \/ /\ ~Holds(table_, i1, tag) /\ Holds(table_, i2, tag)
     /\ DeleteFromBucket(i2, tag)
  \/ /\ ~FindTagInBuckets(table_, i1, i2, tag)
     /\ Kicks!Return("NotFound")
     /\ UNCHANGED <<table_, num_items_>>

Delete(item) ==
  LET tag == TagOf(item)
  IN  /\ ~Running
      /\ live[item] > 0 \/ ~Contain(item)
      /\ DeleteTag(IndexOf(item), AltIndex(IndexOf(item), tag), tag)
      /\ live' = [live EXCEPT ![item] = IF @ > 0 THEN @ - 1 ELSE 0]
      /\ UNCHANGED <<victim_, insertions_failed_counter>>

Next ==
  \/ \E item \in Items : Add(item) \/ Delete(item)
  \/ AddImpl_with_fn

Spec == Init /\ [][Next]_vars

-----------------------------------------------------------------------------
TypeOK ==
  /\ Kicks!StateTypes
  /\ insertions_failed_counter \in Nat

Present(i, tag) ==
  Copies(table_, i, tag) + One(Kicks!InFlight(i, tag))

(***************************************************************************)
(* However many insertions failed, the table never holds more of a tag     *)
(* than the client has in: deletions of dropped items clean up after them, *)
(* so a positive answer is always a shared fingerprint.                    *)
(***************************************************************************)
NoGhosts ==
  \A i \in Buckets, tag \in Tags : Present(i, tag) <= LiveTags(live, i, tag)

(***************************************************************************)
(* What the tests measure as false negatives stays below the failures the  *)
(* filter counted: each drops one tag, whosever it is, and a deletion of   *)
(* something dropped takes nothing from an item of another fingerprint.    *)
(* A fingerprint, a tag at either of its buckets, is counted once.         *)
(***************************************************************************)
Fingerprints ==
  {f \in Buckets \X Tags : f[1] <= AltIndex(f[1], f[2])}

Missing(i, tag) == LiveTags(live, i, tag) - Present(i, tag)

MissingCopies ==
  UNION {{f} \X (1 .. Missing(f[1], f[2])) : f \in Fingerprints}

MissingAreCounted == Cardinality(MissingCopies) <= insertions_failed_counter

(***************************************************************************)
(* The filter keeps the promise of ApproxSet until its first failure.      *)
(***************************************************************************)
Promise == INSTANCE ApproxSet WITH
  Keys <- Items,
  live <- live,
  positive <- {item \in Items :
                 Contain(item) \/ Kicks!InFlight(IndexOf(item), TagOf(item))},
  failed <- insertions_failed_counter > 0

KeepsPromise == Promise!Spec
=============================================================================
