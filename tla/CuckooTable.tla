----------------------------- MODULE CuckooTable -----------------------------
(***************************************************************************)
(* The bucket table of the cuckoo filters (singletable.h) and the way they *)
(* hash an item to a bucket and a tag.  A cell holds a tag, 0 when empty;  *)
(* how tags are packed in bytes is left out.                               *)
(***************************************************************************)
EXTENDS Integers, FiniteSets

CONSTANTS
  NumBuckets,          (* A power of two in the code.                       *)
  TagsPerBucket,       (* kTagsPerBucket, 4 in the code.                    *)
  MaxTag,              (* 2^bits_per_tag - 1.                               *)
  AltIndex(_, _)       (* The other bucket of a tag that is in a bucket.    *)

Buckets == 0 .. NumBuckets - 1
Slots == 0 .. TagsPerBucket - 1
Tags == 1 .. MaxTag
Cells == Buckets \X Slots

ASSUME SizesAreNatural ==
  /\ NumBuckets \in Nat \ {0}
  /\ TagsPerBucket \in Nat \ {0}
  /\ MaxTag \in Nat \ {0}

(* Contain asserts it: the two buckets of a tag lead to each other. *)
ASSUME AltIndexIsInvolution ==
  \A i \in Buckets, tag \in Tags :
    /\ AltIndex(i, tag) \in Buckets
    /\ AltIndex(AltIndex(i, tag), tag) = i

(* An item, as its hash: a bucket and the bits its tag is made of. *)
Items == Buckets \X (0 .. MaxTag)

TagHash(hv) == IF hv = 0 THEN 1 ELSE hv

(* The two halves of GenerateIndexTagHash. *)
IndexOf(item) == item[1]
TagOf(item) == TagHash(item[2])

EmptyTable == [c \in Cells |-> 0]

Holds(table, i, tag) == \E j \in Slots : table[<<i, j>>] = tag

FirstSlot(table, i, tag) ==
  CHOOSE j \in Slots :
    /\ table[<<i, j>>] = tag
    /\ \A k \in Slots : table[<<i, k>>] = tag => j <= k

WriteTag(table, i, j, tag) == [table EXCEPT ![<<i, j>>] = tag]

FindTagInBuckets(table, i1, i2, tag) ==
  Holds(table, i1, tag) \/ Holds(table, i2, tag)

DeleteTagFromBucket(table, i, tag) ==
  WriteTag(table, i, FirstSlot(table, i, tag), 0)

(* InsertTagToBucket when the bucket has an empty slot, and the slot r a   *)
(* full one gives up.                                                      *)
InsertTagToEmpty(table, i, tag) ==
  WriteTag(table, i, FirstSlot(table, i, 0), tag)

KickTagOut(table, i, r, tag) == WriteTag(table, i, r, tag)

(* What a bucket is asked about: the cells in either bucket of a tag that  *)
(* hold it.                                                                *)
Holding(table, i, tag) ==
  {c \in Cells : c[1] \in {i, AltIndex(i, tag)} /\ table[c] = tag}

Copies(table, i, tag) == Cardinality(Holding(table, i, tag))

Occupied(table) == {c \in Cells : table[c] # 0}

(* What a client has in of a tag at one bucket, and at either of its two,  *)
(* given how many copies of each item it has in.                           *)
LiveAt(live, i, tag) ==
  live[<<i, tag>>] + (IF tag = TagHash(0) THEN live[<<i, 0>>] ELSE 0)

LiveTags(live, i, tag) ==
  LET i2 == AltIndex(i, tag)
  IN  LiveAt(live, i, tag) + (IF i2 = i THEN 0 ELSE LiveAt(live, i2, tag))

One(b) == IF b THEN 1 ELSE 0
=============================================================================
