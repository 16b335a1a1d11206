---------------------------- MODULE AlignedTable ----------------------------
(***************************************************************************)
(* The cuckoo hash table hashTable_Aligned: a set of whole elements, each  *)
(* in one of the two buckets it hashes to.  An iteration of insert's loop  *)
(* is a step, so that the element in hand is in the state.  When the loop  *)
(* ends without an empty cell, insert returns false and what it holds, not *)
(* the element it was given, is gone.                                      *)
(***************************************************************************)
EXTENDS Integers, FiniteSets

CONSTANTS
  num_of_buckets,
  bucket_size,         (* Cells of a bucket, 4 in the code.                 *)
  BucketsOf,           (* The two buckets <<b1, b2>> of each element.       *)
  MAX_CUCKOO_LOOP,     (* 256 in the code.                                  *)
  empty_slot           (* No element.                                       *)

Elements == DOMAIN BucketsOf
HtBuckets == 0 .. num_of_buckets - 1
Cells == HtBuckets \X (0 .. bucket_size - 1)

ASSUME AlignedTableAssumption ==
  /\ num_of_buckets \in Nat \ {0}
  /\ bucket_size \in Nat \ {0}
  /\ MAX_CUCKOO_LOOP \in Nat
  /\ BucketsOf \in [Elements -> HtBuckets \X HtBuckets]
  /\ empty_slot \notin Elements

VARIABLES
  Table,
  capacity,
  hold, bucket_index, loop   (* Locals of insert; hold is empty_slot when   *)
                             (* no call is in its loop.                     *)

tableVars == <<Table, capacity, hold, bucket_index, loop>>

b1(x) == BucketsOf[x][1]
b2(x) == BucketsOf[x][2]

EmptyCells(b) == {c \in Cells : c[1] = b /\ Table[c] = empty_slot}
Contents == {Table[c] : c \in Cells} \ {empty_slot}
Inserting == hold # empty_slot

TableInit ==
  /\ Table = [c \in Cells |-> empty_slot]
  /\ capacity = 0
  /\ hold = empty_slot /\ bucket_index = 0 /\ loop = 0

find_helper(x, b) == \E c \in Cells : c[1] = b /\ Table[c] = x

(* Mutant: the second bucket is not searched. *)
find_FirstBucket(x) == find_helper(x, b1(x))

find(x) == find_helper(x, b1(x)) \/ find_helper(x, b2(x))

FirstEmpty(b) == CHOOSE c \in EmptyCells(b) : \A d \in EmptyCells(b) : c[2] <= d[2]

insert_if_bucket_not_full(x, b) ==
  /\ EmptyCells(b) # {}
  /\ Table' = [Table EXCEPT ![FirstEmpty(b)] = x]
  /\ capacity' = capacity + 1

Returned == hold' = empty_slot /\ bucket_index' = 0 /\ loop' = 0

(* insert up to its loop: the element is in, or finds room in its second  *)
(* bucket, or is the first in hand.                                       *)
StartInsert(x) ==
  \/ find(x) /\ UNCHANGED tableVars
  \/ ~find(x) /\ insert_if_bucket_not_full(x, b2(x)) /\ Returned
  \/ /\ ~find(x) /\ EmptyCells(b2(x)) = {}
     /\ hold' = x /\ bucket_index' = b1(x) /\ loop' = 0
     /\ UNCHANGED <<Table, capacity>>

Place ==
  /\ Inserting /\ loop < MAX_CUCKOO_LOOP
  /\ insert_if_bucket_not_full(hold, bucket_index)
  /\ Returned

OtherBucket(x, b) == IF b1(x) = b THEN b2(x) ELSE b1(x)

(* Mutants: the next bucket is that of the element put in, not taken out; a  *)
(* swap is counted as an insertion.                                         *)
cuckoo_swap_StaleHash ==
  /\ Inserting /\ loop < MAX_CUCKOO_LOOP
  /\ EmptyCells(bucket_index) = {}
  /\ \E c \in Cells :
       /\ c[1] = bucket_index
       /\ Table' = [Table EXCEPT ![c] = hold]
       /\ hold' = Table[c]
       /\ bucket_index' = OtherBucket(hold, bucket_index)
  /\ loop' = loop + 1
  /\ UNCHANGED capacity

cuckoo_swap_Counted ==
  /\ Inserting /\ loop < MAX_CUCKOO_LOOP
  /\ EmptyCells(bucket_index) = {}
  /\ \E c \in Cells :
       /\ c[1] = bucket_index
       /\ Table' = [Table EXCEPT ![c] = hold]
       /\ hold' = Table[c]
       /\ bucket_index' = OtherBucket(Table[c], bucket_index)
  /\ loop' = loop + 1
  /\ capacity' = capacity + 1

(* The cell is rand()'s choice. *)
cuckoo_swap ==
  /\ Inserting /\ loop < MAX_CUCKOO_LOOP
  /\ EmptyCells(bucket_index) = {}
  /\ \E c \in Cells :
       /\ c[1] = bucket_index
       /\ Table' = [Table EXCEPT ![c] = hold]
       /\ hold' = Table[c]
       /\ bucket_index' = OtherBucket(Table[c], bucket_index)
  /\ loop' = loop + 1
  /\ UNCHANGED capacity

(* insert returns false. *)
Fails ==
  /\ Inserting /\ loop = MAX_CUCKOO_LOOP
  /\ Returned
  /\ UNCHANGED <<Table, capacity>>

TableTypeOK ==
  /\ Table \in [Cells -> Elements \cup {empty_slot}]
  /\ capacity \in 0 .. Cardinality(Cells)
  /\ hold \in Elements \cup {empty_slot}
  /\ bucket_index \in HtBuckets
  /\ loop \in 0 .. MAX_CUCKOO_LOOP
=============================================================================
