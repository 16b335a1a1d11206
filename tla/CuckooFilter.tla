---------------------------- MODULE CuckooFilter ----------------------------
(***************************************************************************)
(* The cuckoo filter the tests compare with (cuckoofilter.h).  Add and     *)
(* Delete share AddImpl, a loop that looks for room for a tag by kicking   *)
(* others to their other bucket, at most kMaxCuckooCount times; a tag that *)
(* found none becomes the victim.  An iteration of the loop is a step.     *)
(***************************************************************************)
EXTENDS CuckooTable

CONSTANT kMaxCuckooCount

ASSUME KicksAreNatural == kMaxCuckooCount \in Nat \ {0}

VARIABLES
  table_,              (* Cells -> tags.                                    *)
  victim_,             (* The tag that found no room.                       *)
  num_items_,          (* What Size() returns.                              *)
  status,              (* What the last call returned, or "running".        *)
  curindex, curtag,    (* Locals of the loop: the tag without a cell, and   *)
  count,               (* the bucket and the number of the next attempt.    *)
  live                 (* History: copies of each item the client has in.   *)

locals == <<curindex, curtag, count>>
vars == <<table_, victim_, num_items_, status, locals, live>>

Init ==
  /\ table_ = EmptyTable
  /\ victim_ = [index |-> 0, tag |-> 0, used |-> FALSE]
  /\ num_items_ = 0
  /\ status = "Ok"
  /\ curindex = 0 /\ curtag = 0 /\ count = 0
  /\ live = [item \in Items |-> 0]

(* Mutant: the victim is looked for in the first bucket only. *)
IsVictim_FirstBucket(i1, i2, tag) ==
  victim_.used /\ tag = victim_.tag /\ victim_.index = i1

IsVictim(i1, i2, tag) ==
  victim_.used /\ tag = victim_.tag /\ victim_.index \in {i1, i2}

Contain(item) ==
  LET i1 == IndexOf(item)
      tag == TagOf(item)
      i2 == AltIndex(i1, tag)
  IN  IsVictim(i1, i2, tag) \/ FindTagInBuckets(table_, i1, i2, tag)

(***************************************************************************)
(* AddImpl.                                                                *)
(***************************************************************************)
CallAddImpl(i, tag) ==
  /\ status' = "running"
  /\ curindex' = i /\ curtag' = tag /\ count' = 0

Return(s) ==
  /\ status' = s
  /\ curindex' = 0 /\ curtag' = 0 /\ count' = 0

Running == status = "running"

InLoop == Running /\ count < kMaxCuckooCount

StoreTag ==
  /\ InLoop
  /\ Holds(table_, curindex, 0)
  /\ table_' = InsertTagToEmpty(table_, curindex, curtag)
  /\ num_items_' = num_items_ + 1
  /\ Return("Ok")
  /\ UNCHANGED <<victim_, live>>

(* The first attempt kicks nothing out. *)
TryOtherBucket ==
  /\ InLoop /\ count = 0
  /\ ~Holds(table_, curindex, 0)
  /\ curindex' = AltIndex(curindex, curtag)
  /\ count' = count + 1
  /\ UNCHANGED <<table_, victim_, num_items_, status, curtag, live>>

(* The others kick out a tag chosen by rand(), and go on with it. *)
(* Mutant: the bucket is computed before the tag is replaced. *)
Kick_StaleTag ==
  /\ InLoop /\ count > 0
  /\ ~Holds(table_, curindex, 0)
  /\ \E r \in Slots :
       /\ table_' = KickTagOut(table_, curindex, r, curtag)
       /\ curtag' = table_[<<curindex, r>>]
       /\ curindex' = AltIndex(curindex, curtag)
  /\ count' = count + 1
  /\ UNCHANGED <<victim_, num_items_, status, live>>

(* Mutant: the kicks are not counted. *)
Kick_Uncounted ==
  /\ InLoop /\ count > 0
  /\ ~Holds(table_, curindex, 0)
  /\ \E r \in Slots :
       LET oldtag == table_[<<curindex, r>>]
       IN  /\ table_' = KickTagOut(table_, curindex, r, curtag)
           /\ curtag' = oldtag
           /\ curindex' = AltIndex(curindex, oldtag)
  /\ UNCHANGED <<count, victim_, num_items_, status, live>>

Kick ==
  /\ InLoop /\ count > 0
  /\ ~Holds(table_, curindex, 0)
  /\ \E r \in Slots :
       LET oldtag == table_[<<curindex, r>>]
       IN  /\ table_' = KickTagOut(table_, curindex, r, curtag)
           /\ curtag' = oldtag
           /\ curindex' = AltIndex(curindex, oldtag)
  /\ count' = count + 1
  /\ UNCHANGED <<victim_, num_items_, status, live>>

(* Mutant: the last tag is dropped, as AddImplWithFN does. *)
KeepVictim_Dropped ==
  /\ Running /\ count = kMaxCuckooCount
  /\ Return("Ok")
  /\ UNCHANGED <<table_, victim_, num_items_, live>>

KeepVictim ==
  /\ Running /\ count = kMaxCuckooCount
  /\ victim_' = [index |-> curindex, tag |-> curtag, used |-> TRUE]
  /\ Return("Ok")
  /\ UNCHANGED <<table_, num_items_, live>>

AddImpl == StoreTag \/ TryOtherBucket \/ Kick \/ KeepVictim

(***************************************************************************)
(* The calls.                                                              *)
(***************************************************************************)
Add(item) ==
  /\ ~Running
  /\ ~victim_.used
  /\ CallAddImpl(IndexOf(item), TagOf(item))
  /\ live' = [live EXCEPT ![item] = @ + 1]
  /\ UNCHANGED <<table_, victim_, num_items_>>

AddRefused ==
  /\ ~Running
  /\ victim_.used
  /\ Return("NotEnoughSpace")
  /\ UNCHANGED <<table_, victim_, num_items_, live>>

(* Mutant: the room a deletion makes is not offered to the victim. *)
TryEliminateVictim_Never == Return("Ok") /\ UNCHANGED victim_

TryEliminateVictim ==
  IF victim_.used
  THEN /\ victim_' = [victim_ EXCEPT !.used = FALSE]
       /\ CallAddImpl(victim_.index, victim_.tag)
  ELSE /\ Return("Ok")
       /\ UNCHANGED victim_

DeleteFromBucket(i, tag) ==
  /\ table_' = DeleteTagFromBucket(table_, i, tag)
  /\ num_items_' = num_items_ - 1
  /\ TryEliminateVictim

(* Mutants: the victim is taken off num_items_, or missed. *)
DeleteVictim_Counted ==
  /\ victim_' = [victim_ EXCEPT !.used = FALSE]
  /\ num_items_' = num_items_ - 1
  /\ Return("Ok")
  /\ UNCHANGED table_

DeleteVictim_NotFound ==
  /\ victim_' = [victim_ EXCEPT !.used = FALSE]
  /\ Return("NotFound")
  /\ UNCHANGED <<table_, num_items_>>

(* The victim was never counted, so num_items_ stays. *)
DeleteVictim ==
  /\ victim_' = [victim_ EXCEPT !.used = FALSE]
  /\ Return("Ok")
  /\ UNCHANGED <<table_, num_items_>>

DeleteNothing ==
  /\ Return("NotFound")
  /\ UNCHANGED <<table_, num_items_, victim_>>

DeleteTag(i1, i2, tag) ==
  \/ /\ Holds(table_, i1, tag)
     /\ DeleteFromBucket(i1, tag)
  \/ /\ ~Holds(table_, i1, tag) /\ Holds(table_, i2, tag)
     /\ DeleteFromBucket(i2, tag)
  \/ /\ ~FindTagInBuckets(table_, i1, i2, tag) /\ IsVictim(i1, i2, tag)
     /\ DeleteVictim
  \/ /\ ~FindTagInBuckets(table_, i1, i2, tag) /\ ~IsVictim(i1, i2, tag)
     /\ DeleteNothing

(* The client deletes what it has in, or what the filter does not have:    *)
(* deleting a false positive would break another item.                     *)
Delete(item) ==
  LET tag == TagOf(item)
  IN  /\ ~Running
      /\ live[item] > 0 \/ ~Contain(item)
      /\ DeleteTag(IndexOf(item), AltIndex(IndexOf(item), tag), tag)
      /\ live' = [live EXCEPT ![item] = IF @ > 0 THEN @ - 1 ELSE 0]

Next ==
  \/ \E item \in Items : Add(item) \/ Delete(item)
  \/ AddRefused
  \/ AddImpl

(* The loop runs to its end before the call returns. *)
Spec == Init /\ [][Next]_vars /\ WF_vars(AddImpl)

-----------------------------------------------------------------------------
StateTypes ==
  /\ table_ \in [Cells -> 0 .. MaxTag]
  /\ victim_ \in [index : Buckets, tag : 0 .. MaxTag, used : BOOLEAN]
  /\ victim_.used => victim_.tag \in Tags
  /\ num_items_ \in Nat
  /\ status \in {"Ok", "NotFound", "NotEnoughSpace", "running"}
  /\ Running => curtag \in Tags
  /\ curindex \in Buckets /\ curtag \in 0 .. MaxTag
  /\ count \in 0 .. kMaxCuckooCount
  /\ live \in [Items -> Nat]

(* num_items_ counts the occupied cells, and not the victim. *)
SizeCountsCells == num_items_ = Cardinality(Occupied(table_))

(***************************************************************************)
(* The state has its types, and Size() is the number of items in the       *)
(* table: through failed insertions, the victim's return, which is counted *)
(* then, and its deletion, which is not.                                   *)
(***************************************************************************)
TypeOK == StateTypes /\ SizeCountsCells

InFlight(i, tag) ==
  Running /\ curtag = tag /\ curindex \in {i, AltIndex(i, tag)}

(***************************************************************************)
(* Every tag the client has in is in one of its two buckets, or is the     *)
(* victim, or is being moved: each kick of AddImpl trades one tag for      *)
(* another and loses neither.                                              *)
(***************************************************************************)
Conservation ==
  \A i \in Buckets, tag \in Tags :
    Copies(table_, i, tag) + One(IsVictim(i, AltIndex(i, tag), tag))
      + One(InFlight(i, tag)) = LiveTags(live, i, tag)

(***************************************************************************)
(* Between two calls Contain answers Ok exactly for the items that share   *)
(* bucket pair and tag with one that is in.                                *)
(***************************************************************************)
AnswersByFingerprint ==
  ~Running =>
    \A item \in Items :
      Contain(item) <=> LiveTags(live, IndexOf(item), TagOf(item)) > 0

(***************************************************************************)
(* A victim is kept only while the bucket it was kicked out of is full:    *)
(* the room a deletion makes there is given to it.                         *)
(***************************************************************************)
VictimHasNoRoom ==
  victim_.used => ~Holds(table_, AltIndex(victim_.index, victim_.tag), 0)

(***************************************************************************)
(* Deleting an item that is in never returns NotFound.                     *)
(***************************************************************************)
DeleteFindsWhatIsIn ==
  [][\A item \in Items : live'[item] < live[item] => status' # "NotFound"]_vars

(***************************************************************************)
(* Every call returns: the kicks of AddImpl come to an end.                *)
(***************************************************************************)
CallsReturn == Running ~> ~Running

(***************************************************************************)
(* The filter keeps the promise of ApproxSet, and never gives up on it:    *)
(* when it is out of room it refuses the next item instead.                *)
(***************************************************************************)
Promise == INSTANCE ApproxSet WITH
  Keys <- Items,
  live <- live,
  positive <- {item \in Items :
                 LET i == IndexOf(item)
                     tag == TagOf(item)
                 IN  Contain(item) \/ InFlight(i, tag)},
  failed <- FALSE

KeepsPromise == Promise!Spec
=============================================================================
