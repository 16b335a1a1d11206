---------------------------- MODULE Dict256_proofs ----------------------------
(***************************************************************************)
(* The inductive invariant of Dict256, and what follows from it for every  *)
(* number of dictionaries, buckets, quotients, remainders and elements.    *)
(*                                                                         *)
(* Each dictionary is well formed at all times.  As long as the spare is   *)
(* intact, each dictionary is also good: its cached last quotient is       *)
(* exact, its elements and the spare's are the client's, and whatever the  *)
(* spare holds of it is past its last element and known to the spare's     *)
(* filter.  A step touches one dictionary p, so the proof of each step     *)
(* shows that p is good afterwards and that no other one noticed.          *)
(***************************************************************************)
EXTENDS Dict256, FiniteSetTheorems, WellFoundedInduction, TLAPS

-----------------------------------------------------------------------------
(***************************************************************************)
(* The order of fingerprints, multisets, and what each operation on a      *)
(* pocket dictionary does to the elements it holds, to its cached last     *)
(* quotient and to its biggest element.  Dict256Ver5_proofs uses these as  *)
(* well.                                                                   *)
(***************************************************************************)
(* The comparison of fingerprints is a strict total order. *)
LEMMA LessIsTotalOrder ==
  ASSUME NEW x \in QR, NEW y \in QR, NEW z \in QR
  PROVE  /\ ~Less(x, x)
         /\ Less(x, y) => ~Less(y, x)
         /\ Less(x, y) /\ Less(y, z) => Less(x, z)
         /\ ~Less(x, y) /\ ~Less(y, z) => ~Less(x, z)
         /\ Less(x, y) \/ Less(y, x) \/ x = y
BY ItemKeysAssumption DEF QR, Less, Quot, Rem

(* A fingerprint's parts, and their order when the fingerprints' is known. *)
LEMMA QuotRem ==
  ASSUME NEW x \in QR
  PROVE  /\ Quot(x) \in 0 .. Quots - 1
         /\ Rem(x) \in 0 .. Rems - 1
         /\ x = <<Quot(x), Rem(x)>>
         /\ \A y \in QR : ~Less(x, y) => Quot(y) <= Quot(x)
BY ItemKeysAssumption DEF QR, Less, Quot, Rem

(* Every nonempty set of naturals has a least member. *)
LEMMA LeastNat ==
  ASSUME NEW T \in SUBSET Nat, T # {}
  PROVE  \E n \in T : \A m \in T : n <= m
<1> DEFINE R == {ss \in Nat \X Nat : ss[1] < ss[2]}
<1>1. R = OpToRel(<, Nat)
  BY DEF OpToRel
<1>2. IsWellFoundedOn(R, Nat)
  BY <1>1, NatLessThanWellFounded
<1>3. PICK n \in T : \A m \in T : <<m, n>> \notin R
  <2> HIDE DEF R
  <2> QED BY <1>2, WFMin
<1>4. ASSUME NEW m \in T, m < n PROVE FALSE
  <2>1. m \in Nat /\ n \in Nat
    OBVIOUS
  <2>2. <<m, n>> \in R
    BY <1>4, <2>1
  <2> QED BY <1>3, <2>2
<1> QED BY <1>4

(* Every nonempty set of fingerprints has a biggest member. *)
LEMMA BiggestExists ==
  ASSUME NEW S \in SUBSET QR, S # {}
  PROVE  \E x \in S : \A y \in S : ~Less(x, y)
<1> DEFINE Q == {n \in Nat : \E x \in S : n = Quots - 1 - Quot(x)}
<1>1. \A x \in S : Quots - 1 - Quot(x) \in Nat /\ Rems - 1 - Rem(x) \in Nat
  BY QuotRem, ItemKeysAssumption
<1>2. Q # {}
  BY <1>1
<1>3. PICK n \in Q : \A m \in Q : n <= m
  <2> HIDE DEF Q
  <2>1. Q \in SUBSET Nat
    BY DEF Q
  <2> QED BY <1>2, <2>1, LeastNat
<1> DEFINE R == {k \in Nat : \E x \in S : n = Quots - 1 - Quot(x) /\ k = Rems - 1 - Rem(x)}
<1>4. R # {}
  BY <1>1, <1>3
<1>5. PICK k \in R : \A m \in R : k <= m
  <2> HIDE DEF R
  <2>1. R \in SUBSET Nat
    BY DEF R
  <2> QED BY <1>4, <2>1, LeastNat
<1>6. PICK x \in S : n = Quots - 1 - Quot(x) /\ k = Rems - 1 - Rem(x)
  BY <1>5
<1>7. ASSUME NEW y \in S, Less(x, y) PROVE FALSE
  <2>1. Quots - 1 - Quot(y) \in Q
    BY <1>1
  <2>2. n <= Quots - 1 - Quot(y)
    BY <1>3, <2>1
  <2>3. /\ x \in QR /\ y \in QR
        /\ Quot(x) \in Int /\ Quot(y) \in Int /\ Rem(x) \in Int /\ Rem(y) \in Int
        /\ Quots \in Int /\ Rems \in Int
    BY QuotRem, ItemKeysAssumption
  <2>4. Quot(y) = Quot(x) /\ Rem(x) < Rem(y)
    BY <1>6, <1>7, <2>2, <2>3 DEF Less
  <2>5. Rems - 1 - Rem(y) \in R
    BY <1>1, <1>6, <2>4
  <2>6. k <= Rems - 1 - Rem(y)
    BY <1>5, <2>5
  <2> HIDE DEF R, Q
  <2> QED BY <1>6, <2>3, <2>4, <2>6
<1> QED BY <1>6, <1>7

(* Biggest picks it. *)
LEMMA BiggestIsBiggest ==
  ASSUME NEW S \in SUBSET QR, S # {}
  PROVE  /\ Biggest(S) \in S
         /\ \A y \in S : ~Less(Biggest(S), y)
BY BiggestExists DEF Biggest

(* There is one biggest member. *)
LEMMA BiggestIsUnique ==
  ASSUME NEW S \in SUBSET QR, NEW x \in S, \A y \in S : ~Less(x, y)
  PROVE  Biggest(S) = x
<1>1. Biggest(S) \in S /\ ~Less(Biggest(S), x) /\ ~Less(x, Biggest(S))
  BY BiggestIsBiggest
<1> QED BY <1>1, LessIsTotalOrder

(* Turning a quotient upside down twice gives it back. *)
LEMMA FlipQuotTwice ==
  ASSUME NEW x \in QR
  PROVE  FlipQuot(x) \in QR /\ FlipQuot(FlipQuot(x)) = x
BY ItemKeysAssumption DEF QR, FlipQuot, Quot, Rem

-----------------------------------------------------------------------------
(* A multiset gains a copy of x and nothing else. *)
LEMMA AddCopyType ==
  ASSUME NEW S, NEW b \in [S -> Nat], NEW x \in S
  PROVE  /\ AddCopy(b, x) \in [S -> Nat]
         /\ \A y \in S : AddCopy(b, x)[y] = IF y = x THEN b[y] + 1 ELSE b[y]
         /\ Support(AddCopy(b, x)) = Support(b) \cup {x}
BY DEF AddCopy, Support

(* A multiset with a copy of x loses it and nothing else. *)
LEMMA RemoveCopyType ==
  ASSUME NEW S, NEW b \in [S -> Nat], NEW x \in S, b[x] > 0
  PROVE  /\ RemoveCopy(b, x) \in [S -> Nat]
         /\ \A y \in S : RemoveCopy(b, x)[y] = IF y = x THEN b[y] - 1 ELSE b[y]
         /\ Support(RemoveCopy(b, x)) =
              IF b[x] = 1 THEN Support(b) \ {x} ELSE Support(b)
BY DEF RemoveCopy, Support

(* A multiset over a finite set has finitely many copies. *)
LEMMA CopiesFinite ==
  ASSUME NEW S, IsFiniteSet(S), NEW b \in [S -> Nat]
  PROVE  IsFiniteSet(Copies(b)) /\ Size(b) \in Nat
<1> DEFINE F == {{x} \X (1 .. b[x]) : x \in S}
           f == [x \in S |-> {x} \X (1 .. b[x])]
<1>1. IsFiniteSet(F)
  <2>1. f \in Surjection(S, F)
    BY DEF Surjection
  <2> QED BY <2>1, FS_Surjection
<1>2. ASSUME NEW T \in F PROVE IsFiniteSet(T)
  <2>1. PICK x \in S : T = {x} \X (1 .. b[x])
    OBVIOUS
  <2>2. 1 \in Int /\ b[x] \in Int
    OBVIOUS
  <2>3. IsFiniteSet({x}) /\ IsFiniteSet(1 .. b[x])
    BY <2>2, FS_Singleton, FS_Interval
  <2> QED BY <2>1, <2>3, FS_Product
<1>3. Copies(b) = UNION F
  BY DEF Copies
<1> HIDE DEF F
<1>4. IsFiniteSet(Copies(b))
  BY <1>1, <1>2, <1>3, FS_UNION
<1> QED BY <1>4, FS_CardinalityType DEF Size

(* An empty multiset has size zero, and one of positive size a member. *)
LEMMA SizeAndSupport ==
  ASSUME NEW S, IsFiniteSet(S)
  PROVE  /\ Size(NoCopies(S)) = 0
         /\ \A b \in [S -> Nat] : Size(b) > 0 => Support(b) # {}
<1>1. Copies(NoCopies(S)) = {}
  BY DEF Copies, NoCopies
<1>2. ASSUME NEW b \in [S -> Nat], Support(b) = {} PROVE Size(b) = 0
  <2>1. Copies(b) = {}
    BY <1>2 DEF Copies, Support
  <2> QED BY <2>1, FS_EmptySet DEF Size
<1> QED BY <1>1, <1>2, FS_EmptySet DEF Size

(* Adding and removing a copy moves the size by one. *)
LEMMA SizeOfAddCopy ==
  ASSUME NEW S, IsFiniteSet(S), NEW b \in [S -> Nat], NEW x \in S
  PROVE  Size(AddCopy(b, x)) = Size(b) + 1
<1>1. Copies(AddCopy(b, x)) = Copies(b) \cup {<<x, b[x] + 1>>}
  BY DEF Copies, AddCopy
<1>2. <<x, b[x] + 1>> \notin Copies(b)
  BY DEF Copies
<1> QED BY <1>1, <1>2, CopiesFinite, FS_AddElement DEF Size

LEMMA SizeOfRemoveCopy ==
  ASSUME NEW S, IsFiniteSet(S), NEW b \in [S -> Nat], NEW x \in S, b[x] > 0
  PROVE  Size(RemoveCopy(b, x)) = Size(b) - 1
<1>1. RemoveCopy(b, x) \in [S -> Nat] /\ AddCopy(RemoveCopy(b, x), x) = b
  <2>1. RemoveCopy(b, x) \in [S -> Nat]
    BY RemoveCopyType
  <2>2. AddCopy(RemoveCopy(b, x), x) \in [S -> Nat]
    BY <2>1, AddCopyType
  <2>3. \A y \in S : AddCopy(RemoveCopy(b, x), x)[y] = b[y]
    BY <2>1, AddCopyType, RemoveCopyType
  <2> QED BY <2>1, <2>2, <2>3
<1>2. Size(b) = Size(RemoveCopy(b, x)) + 1
  BY <1>1, SizeOfAddCopy
<1> QED BY <1>1, <1>2, CopiesFinite

(* There are finitely many fingerprints. *)
LEMMA QRFinite == IsFiniteSet(QR)
<1>1. IsFiniteSet(0 .. Quots - 1) /\ IsFiniteSet(0 .. Rems - 1)
  BY FS_Interval, ItemKeysAssumption
<1> QED BY <1>1, FS_Product DEF QR

-----------------------------------------------------------------------------
(***************************************************************************)
(* Dictionaries.                                                           *)
(***************************************************************************)
(* A PD holds at most what fits, and is full once it has overflowed. *)
PDOK(pd) ==
  /\ pd \in PD
  /\ Size(pd.items) <= Capacity
  /\ pd.overflowed => pd_full(pd)

(* The cached last quotient is the one the header holds. *)
Exact(pd) == pd.last_quot = compute_last_quot(pd.items)

Held(pd) == Support(pd.items)
-----------------------------------------------------------------------------
LEMMA HeldIsFingerprints ==
  ASSUME NEW b \in [QR -> Nat]
  PROVE  /\ Support(b) \in SUBSET QR
         /\ \A y \in QR : y \in Support(b) <=> b[y] > 0
BY DEF Support

(* Any held element of the biggest quotient tells the last quotient. *)
LEMMA LastQuotIs ==
  ASSUME NEW b \in [QR -> Nat], NEW y \in Support(b), \A z \in Support(b) : Quot(z) <= Quot(y)
  PROVE  compute_last_quot(b) = Quot(y)
<1> DEFINE m == Biggest(Support(b))
<1>1. m \in Support(b) /\ ~Less(m, y) /\ m \in QR /\ y \in QR
  BY BiggestIsBiggest, HeldIsFingerprints
<1>2. Quot(y) <= Quot(m) /\ Quot(m) <= Quot(y)
  BY <1>1, QuotRem
<1>3. Quot(y) \in Int /\ Quot(m) \in Int
  BY <1>1, QuotRem
<1>4. compute_last_quot(b) = Quot(m)
  BY DEF compute_last_quot
<1> HIDE DEF m
<1> QED BY <1>2, <1>3, <1>4

LEMMA LastQuotType ==
  ASSUME NEW b \in [QR -> Nat]
  PROVE  /\ compute_last_quot(b) \in 0 .. Quots - 1
         /\ Support(b) # {} =>
              /\ Biggest(Support(b)) \in Support(b)
              /\ Biggest(Support(b)) \in QR
              /\ compute_last_quot(b) = Quot(Biggest(Support(b)))
              /\ \A z \in Support(b) : Quot(z) <= compute_last_quot(b)
<1>1. CASE Support(b) = {}
  BY <1>1, ItemKeysAssumption DEF compute_last_quot
<1>2. CASE Support(b) # {}
  <2> DEFINE m == Biggest(Support(b))
  <2>1. m \in Support(b) /\ m \in QR /\ \A z \in Support(b) : z \in QR /\ ~Less(m, z)
    BY <1>2, BiggestIsBiggest, HeldIsFingerprints
  <2>2. compute_last_quot(b) = Quot(m)
    BY <1>2 DEF compute_last_quot
  <2> HIDE DEF m
  <2>3. Quot(m) \in 0 .. Quots - 1 /\ \A z \in Support(b) : Quot(z) <= Quot(m)
    BY <2>1, QuotRem
  <2> QED BY <2>1, <2>2, <2>3 DEF m
<1> QED BY <1>1, <1>2

(* The last element of a full PD: well formed, and, if the cache is right, *)
(* the biggest element it holds.                                           *)
LEMMA LastItemType ==
  ASSUME NEW pd, PDOK(pd), Held(pd) # {}
  PROVE  /\ LastItem(pd) \in QR
         /\ Quot(LastItem(pd)) = pd.last_quot
         /\ Exact(pd) => /\ LastItem(pd) = Biggest(Held(pd))
                         /\ LastItem(pd) \in Held(pd)
                         /\ \A y \in Held(pd) : ~Less(LastItem(pd), y)
<1>1. pd.items \in [QR -> Nat] /\ pd.last_quot \in 0 .. Quots - 1
  BY DEF PDOK, PD
<1> DEFINE m == Biggest(Held(pd))
<1>2. m \in Held(pd) /\ m \in QR /\ \A y \in Held(pd) : ~Less(m, y)
  BY <1>1, BiggestIsBiggest, HeldIsFingerprints DEF Held
<1>3. LastItem(pd) = <<pd.last_quot, Rem(m)>>
  BY DEF LastItem, Held
<1>4. Exact(pd) => pd.last_quot = Quot(m)
  BY <1>1, LastQuotType DEF Exact, Held
<1> HIDE DEF m
<1>5. m = <<Quot(m), Rem(m)>> /\ Rem(m) \in 0 .. Rems - 1
  BY <1>2, QuotRem
<1>6. LastItem(pd) \in QR /\ Quot(LastItem(pd)) = pd.last_quot
  BY <1>1, <1>3, <1>5 DEF QR, Quot
<1>7. ASSUME Exact(pd) PROVE LastItem(pd) = m
  BY <1>3, <1>4, <1>5, <1>7
<1> QED BY <1>2, <1>6, <1>7 DEF m

(* A full PD holds something, and still does with one copy less. *)
LEMMA FullIsNotEmpty ==
  ASSUME NEW pd, PDOK(pd), pd_full(pd)
  PROVE  /\ Held(pd) # {}
         /\ \A x \in QR : pd.items[x] > 0 => Support(RemoveCopy(pd.items, x)) # {}
<1>1. pd.items \in [QR -> Nat] /\ Size(pd.items) = Capacity /\ Capacity \in Nat /\ Capacity >= 2
  BY CapacityAssumption DEF PDOK, PD, pd_full
<1>2. ASSUME NEW x \in QR, pd.items[x] > 0 PROVE Support(RemoveCopy(pd.items, x)) # {}
  <2>1. RemoveCopy(pd.items, x) \in [QR -> Nat] /\ Size(RemoveCopy(pd.items, x)) = Capacity - 1
    BY <1>1, <1>2, RemoveCopyType, SizeOfRemoveCopy, QRFinite
  <2> QED BY <1>1, <2>1, SizeAndSupport, QRFinite
<1> QED BY <1>1, <1>2, SizeAndSupport, QRFinite DEF Held

LEMMA EmptyPDOK == PDOK(EmptyPD) /\ Exact(EmptyPD)
<1>1. EmptyPD \in PD
  BY ItemKeysAssumption DEF EmptyPD, PD, NoCopies
<1>2. Size(EmptyPD.items) = 0
  BY SizeAndSupport, QRFinite DEF EmptyPD
<1>3. Support(EmptyPD.items) = {}
  BY DEF Support, EmptyPD, NoCopies
<1> QED BY <1>1, <1>2, <1>3, CapacityAssumption DEF PDOK, Exact, EmptyPD, compute_last_quot
-----------------------------------------------------------------------------
(* pd holds one copy of x more, or less, than before. *)
Gains(pd, new, x) ==
  \A y \in QR : new.items[y] = pd.items[y] + IF y = x THEN 1 ELSE 0

Loses(pd, new, x) ==
  \A y \in QR : new.items[y] = pd.items[y] - IF y = x THEN 1 ELSE 0

(* Inserting into a PD that is not full. *)
LEMMA AddNotFull ==
  ASSUME NEW pd, PDOK(pd), ~pd_full(pd), NEW x \in QR
  PROVE  LET new == pd_add_50_not_full(x, pd)
         IN  /\ PDOK(new) /\ ~pd.overflowed /\ ~new.overflowed
             /\ Gains(pd, new, x)
             /\ Exact(pd) => Exact(new)
<1> DEFINE new == pd_add_50_not_full(x, pd)
<1>1. /\ pd.items \in [QR -> Nat] /\ pd.last_quot \in 0 .. Quots - 1 /\ pd.overflowed = FALSE
      /\ pd \in PD /\ Size(pd.items) \in Nat /\ Size(pd.items) < Capacity /\ Capacity \in Nat
  BY CopiesFinite, QRFinite, CapacityAssumption DEF PDOK, PD, pd_full
<1>2. Quot(x) \in 0 .. Quots - 1
  BY QuotRem
<1>3. /\ new.items = AddCopy(pd.items, x)
      /\ new.last_quot = IF Quot(x) <= pd.last_quot THEN pd.last_quot ELSE Quot(x)
      /\ new.overflowed = FALSE
      /\ new = [items |-> new.items, last_quot |-> new.last_quot, overflowed |-> new.overflowed]
  BY <1>1 DEF pd_add_50_not_full
<1>4. /\ new.items \in [QR -> Nat]
      /\ Gains(pd, new, x)
      /\ Support(new.items) = Support(pd.items) \cup {x}
      /\ Size(new.items) = Size(pd.items) + 1
  BY <1>1, <1>3, AddCopyType, SizeOfAddCopy, QRFinite DEF Gains
<1> HIDE DEF new
<1>5. PDOK(new)
  <2>1. new \in PD
    BY <1>1, <1>2, <1>3, <1>4 DEF PD
  <2> QED BY <1>1, <1>3, <1>4, <2>1 DEF PDOK
<1>6. ASSUME Exact(pd) PROVE Exact(new)
  <2>1. \A z \in Support(pd.items) : z \in QR /\ Quot(z) \in Int
    BY <1>1, HeldIsFingerprints, QuotRem
  <2>2. CASE Support(pd.items) = {} \/ pd.last_quot < Quot(x)
    <3>1. \A z \in Support(new.items) : Quot(z) <= Quot(x)
      BY <1>1, <1>2, <1>4, <1>6, <2>1, <2>2, LastQuotType DEF Exact
    <3>2. compute_last_quot(new.items) = Quot(x)
      BY <1>4, <3>1, LastQuotIs
    <3>3. Support(pd.items) = {} => pd.last_quot = 0
      BY <1>6 DEF Exact, compute_last_quot
    <3> QED BY <1>1, <1>2, <1>3, <2>2, <3>2, <3>3 DEF Exact
  <2>3. CASE Support(pd.items) # {} /\ ~(pd.last_quot < Quot(x))
    <3> DEFINE m == Biggest(Support(pd.items))
    <3>1. /\ m \in Support(pd.items) /\ pd.last_quot = Quot(m)
          /\ \A z \in Support(pd.items) : Quot(z) <= Quot(m)
      BY <1>1, <1>6, <2>3, LastQuotType DEF Exact
    <3> HIDE DEF m
    <3>2. \A z \in Support(new.items) : Quot(z) <= Quot(m)
      BY <1>1, <1>2, <1>4, <2>3, <3>1
    <3>3. compute_last_quot(new.items) = Quot(m)
      BY <1>4, <3>1, <3>2, LastQuotIs
    <3> QED BY <1>1, <1>2, <1>3, <2>3, <3>1, <3>3 DEF Exact
  <2> QED BY <1>1, <1>2, <2>2, <2>3
<1> QED BY <1>1, <1>3, <1>4, <1>5, <1>6 DEF new
-----------------------------------------------------------------------------
(***************************************************************************)
(* The last quotient a PD has once its biggest element made room for x.    *)
(***************************************************************************)
LEMMA LastQuotAfterSwap ==
  ASSUME NEW b \in [QR -> Nat], Support(b) # {}, NEW x \in QR,
         Support(RemoveCopy(b, Biggest(Support(b)))) # {},
         ~Less(Biggest(Support(b)), x)
  PROVE  LET m   == Biggest(Support(b))
             nom == compute_last_quot(RemoveCopy(b, m))
         IN  /\ nom \in 0 .. Quots - 1
             /\ compute_last_quot(AddCopy(RemoveCopy(b, m), x)) =
                  IF Quot(x) = Quot(m) THEN Quot(m) ELSE IF nom < Quot(x) THEN Quot(x) ELSE nom
<1> DEFINE m == Biggest(Support(b))
           rest == RemoveCopy(b, m)
           new == AddCopy(rest, x)
           n == Biggest(Support(rest))
<1>1. m \in Support(b) /\ m \in QR /\ b[m] > 0 /\ \A z \in Support(b) : ~Less(m, z) /\ z \in QR
  BY BiggestIsBiggest, HeldIsFingerprints
<1>2. rest \in [QR -> Nat] /\ Support(rest) \in SUBSET Support(b)
  <2> HIDE DEF m
  <2> QED BY <1>1, RemoveCopyType
<1>3. new \in [QR -> Nat] /\ Support(new) = Support(rest) \cup {x}
  <2> HIDE DEF rest
  <2> QED BY <1>2, AddCopyType
<1>4. /\ n \in Support(rest) /\ n \in QR /\ compute_last_quot(rest) = Quot(n)
      /\ \A z \in Support(rest) : Quot(z) <= Quot(n)
  <2>1. Support(rest) # {}
    OBVIOUS
  <2> HIDE DEF rest
  <2> QED BY <1>2, <2>1, LastQuotType
<1> HIDE DEF m, rest, new, n
<1>5. /\ Quot(x) \in 0 .. Quots - 1 /\ Quot(n) \in 0 .. Quots - 1 /\ Quot(m) \in 0 .. Quots - 1
      /\ Quot(x) <= Quot(m)
      /\ \A z \in Support(rest) : Quot(z) <= Quot(m) /\ Quot(z) \in Int
  <2>1. ~Less(m, x)
    BY DEF m
  <2> QED BY <1>1, <1>2, <1>4, <2>1, QuotRem
<1>6. CASE Quot(x) = Quot(m)
  <2>1. \A z \in Support(new) : Quot(z) <= Quot(x)
    BY <1>3, <1>5, <1>6
  <2>2. compute_last_quot(new) = Quot(x)
    BY <1>3, <2>1, LastQuotIs
  <2> QED BY <1>4, <1>5, <1>6, <2>2 DEF m, rest, new
<1>7. CASE Quot(x) # Quot(m) /\ Quot(n) < Quot(x)
  <2>1. \A z \in Support(new) : Quot(z) <= Quot(x)
    BY <1>3, <1>4, <1>5, <1>7
  <2>2. compute_last_quot(new) = Quot(x)
    BY <1>3, <2>1, LastQuotIs
  <2> QED BY <1>4, <1>5, <1>7, <2>2 DEF m, rest, new
<1>8. CASE Quot(x) # Quot(m) /\ ~(Quot(n) < Quot(x))
  <2>1. \A z \in Support(new) : Quot(z) <= Quot(n)
    BY <1>3, <1>4, <1>5, <1>8
  <2>2. compute_last_quot(new) = Quot(n)
    BY <1>3, <1>4, <2>1, LastQuotIs
  <2> QED BY <1>4, <1>5, <1>8, <2>2 DEF m, rest, new
<1> QED BY <1>6, <1>7, <1>8

(***************************************************************************)
(* Inserting into a full PD.  What leaves is a fingerprint, and, if the    *)
(* cache is right, one that is not smaller than the PD's new last element; *)
(* the last element did not grow.                                          *)
(***************************************************************************)
LEMMA SwapWhenFull ==
  ASSUME NEW pd, PDOK(pd), pd_full(pd), NEW x \in QR
  PROVE  LET s == pd_swap_short(x, pd)
         IN  /\ PDOK(s.pd) /\ pd_full(s.pd) /\ s.pd.overflowed
             /\ s.qr \in QR
             /\ Exact(pd) =>
                  /\ Exact(s.pd)
                  /\ \A y \in QR : pd.items[y] + (IF y = x THEN 1 ELSE 0)
                                   = s.pd.items[y] + (IF y = s.qr THEN 1 ELSE 0)
                  /\ ~Less(LastItem(pd), LastItem(s.pd))
                  /\ ~Less(s.qr, LastItem(s.pd))
<1> DEFINE s == pd_swap_short(x, pd)
           last == LastItem(pd)
           m == Biggest(Support(pd.items))
           rest == RemoveCopy(pd.items, m)
<1>1. /\ pd.items \in [QR -> Nat] /\ pd.last_quot \in 0 .. Quots - 1
      /\ Size(pd.items) = Capacity /\ Capacity \in Nat /\ Held(pd) # {}
  BY FullIsNotEmpty, CapacityAssumption DEF PDOK, PD, pd_full
<1>2. /\ last \in QR /\ Quot(last) = pd.last_quot
      /\ Exact(pd) => last = m /\ last \in Held(pd) /\ \A y \in Held(pd) : ~Less(last, y)
  BY <1>1, LastItemType DEF Held
<1>3. m \in QR /\ pd.items[m] > 0
  BY <1>1, BiggestIsBiggest, HeldIsFingerprints DEF Held
<1>4. /\ rest \in [QR -> Nat] /\ Support(rest) # {} /\ Size(rest) = Capacity - 1
      /\ \A y \in QR : rest[y] = IF y = m THEN pd.items[y] - 1 ELSE pd.items[y]
  <2> HIDE DEF m
  <2> QED BY <1>1, <1>3, RemoveCopyType, SizeOfRemoveCopy, QRFinite, FullIsNotEmpty
<1>5. CASE Less(last, x)
  <2>1. /\ s.pd = [items |-> pd.items, last_quot |-> pd.last_quot, overflowed |-> TRUE]
        /\ s.qr = x
    BY <1>5 DEF pd_swap_short
  <2> HIDE DEF s, m, rest
  <2>2. /\ s.pd.items = pd.items /\ s.pd.last_quot = pd.last_quot /\ s.pd.overflowed = TRUE
        /\ s.pd \in PD
    BY <1>1, <2>1 DEF PD
  <2>3. PDOK(s.pd) /\ pd_full(s.pd)
    BY <1>1, <2>2 DEF PDOK, pd_full
  <2>4. LastItem(s.pd) = last /\ (Exact(pd) => Exact(s.pd))
    BY <2>2 DEF LastItem, Exact
  <2> HIDE DEF last
  <2>5. ~Less(last, last) /\ ~Less(x, last)
    BY <1>2, <1>5, LessIsTotalOrder
  <2> QED BY <1>5, <2>1, <2>2, <2>3, <2>4, <2>5 DEF last, s
<1>6. CASE ~Less(last, x)
  <2> DEFINE nom == compute_last_quot(rest)
             lq == IF Quot(x) = pd.last_quot THEN pd.last_quot
                   ELSE IF nom < Quot(x) THEN Quot(x) ELSE nom
  <2>1. /\ s.pd = [items |-> AddCopy(rest, x), last_quot |-> lq, overflowed |-> TRUE]
        /\ s.qr = last
    BY <1>6 DEF pd_swap_short, get_last_quot_after_future_swap
  <2> HIDE DEF rest
  <2>2. nom \in 0 .. Quots - 1 /\ Quot(x) \in 0 .. Quots - 1
    BY <1>4, LastQuotType, QuotRem
  <2>3. /\ AddCopy(rest, x) \in [QR -> Nat] /\ Size(AddCopy(rest, x)) = Capacity
        /\ \A y \in QR : AddCopy(rest, x)[y] = IF y = x THEN rest[y] + 1 ELSE rest[y]
        /\ Support(AddCopy(rest, x)) = Support(rest) \cup {x}
    <3>1. Size(AddCopy(rest, x)) = Size(rest) + 1
      BY <1>4, SizeOfAddCopy, QRFinite
    <3>2. Size(rest) + 1 = Capacity
      BY <1>1, <1>4
    <3>3. /\ AddCopy(rest, x) \in [QR -> Nat]
          /\ \A y \in QR : AddCopy(rest, x)[y] = IF y = x THEN rest[y] + 1 ELSE rest[y]
          /\ Support(AddCopy(rest, x)) = Support(rest) \cup {x}
      BY <1>4, AddCopyType
    <3> QED BY <3>1, <3>2, <3>3
  <2> HIDE DEF s, m, nom
  <2>4. lq \in 0 .. Quots - 1
    BY <1>1, <2>2
  <2> HIDE DEF lq
  <2>5. /\ s.pd.items = AddCopy(rest, x) /\ s.pd.last_quot = lq /\ s.pd.overflowed = TRUE
        /\ s.pd \in PD
    BY <2>1, <2>3, <2>4 DEF PD
  <2>6. PDOK(s.pd) /\ pd_full(s.pd)
    BY <1>1, <2>3, <2>5 DEF PDOK, pd_full
  <2>7. ASSUME Exact(pd)
        PROVE  /\ Exact(s.pd)
               /\ \A y \in QR : pd.items[y] + (IF y = x THEN 1 ELSE 0)
                                = s.pd.items[y] + (IF y = s.qr THEN 1 ELSE 0)
               /\ ~Less(last, LastItem(s.pd))
    <3>1. last = m /\ Quot(m) = pd.last_quot /\ ~Less(m, x)
      BY <1>2, <1>6, <2>7
    <3>2. Exact(s.pd)
      <4>1. compute_last_quot(AddCopy(rest, x)) =
              IF Quot(x) = Quot(m) THEN Quot(m) ELSE IF nom < Quot(x) THEN Quot(x) ELSE nom
        BY <1>1, <1>4, <3>1, LastQuotAfterSwap DEF rest, m, nom, Held
      <4> QED BY <2>5, <3>1, <4>1 DEF Exact, lq
    <3>3. ASSUME NEW y \in QR
          PROVE  pd.items[y] + (IF y = x THEN 1 ELSE 0)
                   = s.pd.items[y] + (IF y = s.qr THEN 1 ELSE 0)
      <4>1. s.pd.items[y] = IF y = x THEN rest[y] + 1 ELSE rest[y]
        BY <2>3, <2>5
      <4>2. rest[y] = IF y = m THEN pd.items[y] - 1 ELSE pd.items[y]
        BY <1>4
      <4>3. pd.items[y] \in Nat
        BY <1>1
      <4>4. s.qr = m
        BY <2>1, <3>1
      <4> QED BY <4>1, <4>2, <4>3, <4>4
    <3>4. ~Less(last, LastItem(s.pd))
      <4>1. Held(s.pd) = Support(rest) \cup {x}
        BY <2>3, <2>5 DEF Held
      <4>2. LastItem(s.pd) \in Held(s.pd)
        BY <2>6, <3>2, FullIsNotEmpty, LastItemType
      <4>3. Support(rest) \in SUBSET Held(pd)
        BY <1>1, <1>3, RemoveCopyType DEF rest, Held
      <4> QED BY <1>2, <1>6, <2>7, <4>1, <4>2, <4>3
    <3> QED BY <3>2, <3>3, <3>4
  <2> QED BY <2>1, <2>5, <2>6, <2>7, <1>2 DEF s
<1> QED BY <1>5, <1>6
-----------------------------------------------------------------------------
(* Deleting any element of the biggest quotient leaves the last quotient   *)
(* that deleting the biggest element leaves; deleting another changes      *)
(* nothing.                                                                *)
LEMMA LastQuotAfterDelete ==
  ASSUME NEW b \in [QR -> Nat], NEW x \in QR, b[x] > 0
  PROVE  LET m == Biggest(Support(b))
         IN  compute_last_quot(RemoveCopy(b, x)) =
               IF Quot(x) = compute_last_quot(b) THEN compute_last_quot(RemoveCopy(b, m))
                                                 ELSE compute_last_quot(b)
<1> DEFINE m == Biggest(Support(b))
<1>1. /\ m \in Support(b) /\ m \in QR /\ b[m] > 0 /\ x \in Support(b)
      /\ compute_last_quot(b) = Quot(m)
      /\ \A z \in Support(b) : Quot(z) <= Quot(m)
  <2>1. x \in Support(b)
    BY HeldIsFingerprints
  <2> QED BY <2>1, LastQuotType, HeldIsFingerprints
<1> HIDE DEF m
<1>2. CASE x = m
  BY <1>1, <1>2 DEF m
<1>3. CASE x # m
  <2>1. /\ RemoveCopy(b, x) \in [QR -> Nat]
        /\ Support(RemoveCopy(b, x)) \in SUBSET Support(b)
        /\ m \in Support(RemoveCopy(b, x))
    BY <1>1, <1>3, RemoveCopyType
  <2>2. compute_last_quot(RemoveCopy(b, x)) = Quot(m)
    <3>1. \A z \in Support(RemoveCopy(b, x)) : Quot(z) <= Quot(m)
      BY <1>1, <2>1
    <3> QED BY <2>1, <3>1, LastQuotIs
  <2>3. ASSUME Quot(x) = Quot(m) PROVE compute_last_quot(RemoveCopy(b, m)) = Quot(m)
    <3>1. /\ RemoveCopy(b, m) \in [QR -> Nat]
          /\ Support(RemoveCopy(b, m)) \in SUBSET Support(b)
          /\ x \in Support(RemoveCopy(b, m))
      BY <1>1, <1>3, RemoveCopyType
    <3>2. \A z \in Support(RemoveCopy(b, m)) : Quot(z) <= Quot(x)
      BY <1>1, <2>3, <3>1
    <3> QED BY <2>3, <3>1, <3>2, LastQuotIs
  <2> QED BY <1>1, <2>2, <2>3 DEF m
<1> QED BY <1>2, <1>3

(* Deleting from a PD that has not overflowed. *)
LEMMA DeleteNotOverflowed ==
  ASSUME NEW pd, PDOK(pd), ~pd.overflowed, NEW x \in QR, CanDelete(x, pd)
  PROVE  LET new == delete_element(x, pd)
         IN  /\ PDOK(new) /\ ~new.overflowed
             /\ Loses(pd, new, x)
             /\ Exact(pd) => Exact(new)
<1> DEFINE new == delete_element(x, pd)
           m == Biggest(Support(pd.items))
           lq == IF Quot(x) = pd.last_quot THEN compute_last_quot(RemoveCopy(pd.items, m))
                                           ELSE pd.last_quot
<1>1. /\ pd.items \in [QR -> Nat] /\ pd.last_quot \in 0 .. Quots - 1 /\ pd.overflowed = FALSE
      /\ Size(pd.items) \in Nat /\ Size(pd.items) <= Capacity /\ Capacity \in Nat
      /\ pd.items[x] > 0
  BY CopiesFinite, QRFinite, CapacityAssumption DEF PDOK, PD, CanDelete, pd_find_25
<1>2. new = [items |-> RemoveCopy(pd.items, x), last_quot |-> lq, overflowed |-> FALSE]
  BY <1>1 DEF delete_element
<1>3. m \in QR /\ pd.items[m] > 0
  <2>1. x \in Support(pd.items)
    BY <1>1, HeldIsFingerprints
  <2> QED BY <1>1, <2>1, BiggestIsBiggest, HeldIsFingerprints
<1> HIDE DEF new, m
<1>4. /\ RemoveCopy(pd.items, x) \in [QR -> Nat]
      /\ \A y \in QR : RemoveCopy(pd.items, x)[y] = IF y = x THEN pd.items[y] - 1 ELSE pd.items[y]
      /\ Size(RemoveCopy(pd.items, x)) = Size(pd.items) - 1
  BY <1>1, RemoveCopyType, SizeOfRemoveCopy, QRFinite
<1>5. lq \in 0 .. Quots - 1
  <2>1. RemoveCopy(pd.items, m) \in [QR -> Nat]
    BY <1>1, <1>3, RemoveCopyType
  <2> QED BY <1>1, <2>1, LastQuotType
<1>6. Exact(pd) => lq = compute_last_quot(RemoveCopy(pd.items, x))
  BY <1>1, LastQuotAfterDelete DEF m, Exact
<1> HIDE DEF lq
<1>7. /\ new.items = RemoveCopy(pd.items, x) /\ new.last_quot = lq /\ new.overflowed = FALSE
      /\ new \in PD
  BY <1>2, <1>4, <1>5 DEF PD
<1>8. PDOK(new)
  BY <1>1, <1>4, <1>7 DEF PDOK
<1>9. Loses(pd, new, x)
  BY <1>1, <1>4, <1>7 DEF Loses
<1> QED BY <1>6, <1>7, <1>8, <1>9 DEF new, Exact

(* Deleting from an overflowed PD and putting y into the free place. *)
LEMMA DeleteThenPop ==
  ASSUME NEW pd, PDOK(pd), pd.overflowed, NEW x \in QR, CanDelete(x, pd), NEW y \in QR
  PROVE  LET new == pd_pop_add(y, Quot(x), delete_element(x, pd))
         IN  /\ PDOK(new) /\ new.overflowed
             /\ \A z \in QR : new.items[z] + (IF z = x THEN 1 ELSE 0)
                              = pd.items[z] + IF z = y THEN 1 ELSE 0
             /\ Exact(pd) /\ ~Less(y, LastItem(pd)) => Exact(new) /\ LastItem(new) = y
<1> DEFINE new == pd_pop_add(y, Quot(x), delete_element(x, pd))
           rest == RemoveCopy(pd.items, x)
           lq == IF Quot(x) < Quot(y) THEN Quot(y) ELSE pd.last_quot
<1>1. /\ pd.items \in [QR -> Nat] /\ pd.last_quot \in 0 .. Quots - 1 /\ pd.overflowed = TRUE
      /\ Size(pd.items) = Capacity /\ Capacity \in Nat
      /\ pd.items[x] > 0 /\ pd_full(pd) /\ Held(pd) # {}
  BY FullIsNotEmpty, CapacityAssumption DEF PDOK, PD, CanDelete, pd_find_25, pd_full
<1>2. new = [items |-> AddCopy(rest, y), last_quot |-> lq, overflowed |-> TRUE]
  BY <1>1 DEF delete_element, pd_pop_add
<1> HIDE DEF new
<1>3. /\ rest \in [QR -> Nat] /\ Size(rest) + 1 = Capacity
      /\ \A z \in QR : rest[z] = IF z = x THEN pd.items[z] - 1 ELSE pd.items[z]
      /\ Support(rest) \in SUBSET Held(pd)
  <2>1. Size(rest) = Capacity - 1
    BY <1>1, SizeOfRemoveCopy, QRFinite
  <2>2. /\ rest \in [QR -> Nat]
        /\ \A z \in QR : rest[z] = IF z = x THEN pd.items[z] - 1 ELSE pd.items[z]
        /\ Support(rest) \in SUBSET Held(pd)
    BY <1>1, RemoveCopyType DEF Held
  <2> HIDE DEF rest
  <2> QED BY <1>1, <2>1, <2>2
<1> HIDE DEF rest
<1>4. /\ AddCopy(rest, y) \in [QR -> Nat]
      /\ \A z \in QR : AddCopy(rest, y)[z] = IF z = y THEN rest[z] + 1 ELSE rest[z]
      /\ Support(AddCopy(rest, y)) = Support(rest) \cup {y}
  BY <1>3, AddCopyType
<1>5. Size(AddCopy(rest, y)) = Capacity
  <2>1. Size(AddCopy(rest, y)) = Size(rest) + 1
    BY <1>3, SizeOfAddCopy, QRFinite
  <2> QED BY <1>3, <2>1
<1>6. Quot(x) \in 0 .. Quots - 1 /\ Quot(y) \in 0 .. Quots - 1 /\ lq \in 0 .. Quots - 1
  BY <1>1, QuotRem
<1> HIDE DEF lq
<1>8. /\ new.items = AddCopy(rest, y) /\ new.last_quot = lq /\ new.overflowed = TRUE
      /\ new \in PD
  BY <1>2, <1>4, <1>6 DEF PD
<1>9. PDOK(new) /\ pd_full(new)
  BY <1>1, <1>5, <1>8 DEF PDOK, pd_full
<1>10. ASSUME NEW z \in QR
       PROVE  new.items[z] + (IF z = x THEN 1 ELSE 0) = pd.items[z] + IF z = y THEN 1 ELSE 0
  <2>1. new.items[z] = IF z = y THEN rest[z] + 1 ELSE rest[z]
    BY <1>4, <1>8
  <2>2. rest[z] = IF z = x THEN pd.items[z] - 1 ELSE pd.items[z]
    BY <1>3
  <2>3. pd.items[z] \in Nat
    BY <1>1
  <2> QED BY <2>1, <2>2, <2>3
<1>11. ASSUME Exact(pd), ~Less(y, LastItem(pd))
       PROVE  Exact(new) /\ LastItem(new) = y
  <2> DEFINE last == LastItem(pd)
  <2>1. /\ last \in QR /\ Quot(last) = pd.last_quot /\ last \in Held(pd)
        /\ \A z \in Held(pd) : ~Less(last, z) /\ z \in QR
    BY <1>1, <1>11, LastItemType, HeldIsFingerprints DEF Held
  <2> HIDE DEF last
  <2>2. Held(new) = Support(rest) \cup {y} /\ Held(new) \in SUBSET QR
    BY <1>3, <1>4, <1>8, <2>1 DEF Held
  <2>3. \A z \in Held(new) : ~Less(y, z)
    <3>1. ~Less(y, last)
      BY <1>11 DEF last
    <3>2. \A z \in Held(pd) : ~Less(y, z)
      BY <2>1, <3>1, LessIsTotalOrder
    <3> QED BY <1>3, <2>2, <3>2, LessIsTotalOrder
  <2>4. \A z \in Held(new) : Quot(z) <= Quot(y)
    BY <2>2, <2>3, QuotRem
  <2>5. compute_last_quot(new.items) = Quot(y)
    BY <1>4, <1>8, <2>2, <2>4, LastQuotIs DEF Held
  <2>6. lq = Quot(y)
    <3>1. x \in Held(pd)
      BY <1>1 DEF Held, Support
    <3>2. ~Less(y, last) /\ ~Less(last, x)
      BY <1>11, <2>1, <3>1 DEF last
    <3>3. Quot(last) <= Quot(y) /\ Quot(x) <= Quot(last)
      BY <2>1, <3>2, QuotRem
    <3> QED BY <1>1, <1>6, <2>1, <3>3 DEF lq
  <2>7. Exact(new)
    BY <1>8, <2>5, <2>6 DEF Exact
  <2>8. LastItem(new) = Biggest(Held(new))
    BY <1>9, <2>2, <2>7, LastItemType
  <2>9. Biggest(Held(new)) = y
    BY <2>2, <2>3, BiggestIsUnique
  <2> QED BY <2>7, <2>8, <2>9
<1> QED BY <1>8, <1>9, <1>10, <1>11 DEF new

(* Deleting from an overflowed PD that the spare has nothing for. *)
LEMMA DeleteNothingToPop ==
  ASSUME NEW pd, PDOK(pd), pd.overflowed, NEW x \in QR, CanDelete(x, pd)
  PROVE  LET new == pop_helper_no_element_to_pop(delete_element(x, pd))
         IN  /\ PDOK(new) /\ ~new.overflowed
             /\ Loses(pd, new, x)
             /\ Exact(new)
<1> DEFINE new == pop_helper_no_element_to_pop(delete_element(x, pd))
           rest == RemoveCopy(pd.items, x)
<1>1. /\ pd.items \in [QR -> Nat] /\ pd.items[x] > 0
      /\ Size(pd.items) = Capacity /\ Capacity \in Nat
  BY CapacityAssumption DEF PDOK, PD, CanDelete, pd_find_25, pd_full
<1>2. new = [items |-> rest, last_quot |-> compute_last_quot(rest), overflowed |-> FALSE]
  BY DEF delete_element, pop_helper_no_element_to_pop
<1> HIDE DEF new
<1>3. /\ rest \in [QR -> Nat] /\ Size(rest) = Capacity - 1
      /\ \A z \in QR : rest[z] = IF z = x THEN pd.items[z] - 1 ELSE pd.items[z]
  BY <1>1, RemoveCopyType, SizeOfRemoveCopy, QRFinite
<1> HIDE DEF rest
<1>4. /\ new.items = rest /\ new.overflowed = FALSE /\ Exact(new)
      /\ new \in PD
  BY <1>2, <1>3, LastQuotType DEF PD, Exact
<1>5. PDOK(new)
  BY <1>1, <1>3, <1>4 DEF PDOK
<1>6. Loses(pd, new, x)
  BY <1>1, <1>3, <1>4 DEF Loses
<1> QED BY <1>4, <1>5, <1>6 DEF new

-----------------------------------------------------------------------------
(***************************************************************************)
(* The spare: what its operations do to the number of copies it holds of   *)
(* an element, whichever bucket or level they are in.                      *)
(***************************************************************************)
(* A dictionary's buckets exist. *)
LEMMA BucketOfType ==
  ASSUME NEW p \in Pds, NEW primary \in BOOLEAN
  PROVE  /\ BucketOf(p, primary) \in Buckets
         /\ Rel(p) \in 0 .. BatchSize - 1
         /\ p \div BatchSize \in 0 .. NumBuckets - 1
<1>1. /\ p \in Nat /\ BatchSize \in Nat \ {0} /\ NumBuckets \in Nat \ {0} /\ NumPds \in Nat
      /\ p < NumPds /\ NumPds <= NumBuckets * BatchSize
  BY SpareAssumption DEF Pds
<1>2. Rel(p) \in 0 .. BatchSize - 1
  BY <1>1 DEF Rel
<1>3. p \div BatchSize \in 0 .. NumBuckets - 1
  BY <1>1
<1>4. ((p \div BatchSize) + 1 + Rel(p)) % NumBuckets \in 0 .. NumBuckets - 1
  BY <1>1, <1>2, <1>3
<1> QED BY <1>2, <1>3, <1>4 DEF BucketOf, Buckets

(***************************************************************************)
(* The place in the batch and the primary bit tell, within a bucket, which *)
(* dictionary an element is from.                                          *)
(***************************************************************************)
LEMMA NoAliasing ==
  ASSUME NEW p \in Pds, NEW q \in Pds, NEW primary \in BOOLEAN,
         BucketOf(p, primary) = BucketOf(q, primary), Rel(p) = Rel(q)
  PROVE  p = q
<1> DEFINE m == p \div BatchSize
           n == q \div BatchSize
           r == Rel(p)
<1>1. /\ p \in Nat /\ q \in Nat
      /\ BatchSize \in Nat \ {0} /\ NumBuckets \in Nat \ {0} /\ BatchSize < NumBuckets
      /\ m \in 0 .. NumBuckets - 1 /\ n \in 0 .. NumBuckets - 1 /\ r \in 0 .. NumBuckets - 1
  BY SpareAssumption, BucketOfType DEF Pds
<1>2. m = n
  <2>1. CASE primary
    BY <2>1 DEF BucketOf
  <2>2. CASE ~primary
    <3>1. (m + 1 + r) % NumBuckets = (n + 1 + r) % NumBuckets
      BY <2>2 DEF BucketOf
    <3> HIDE DEF m, n, r
    <3> QED BY <1>1, <3>1
  <2> QED BY <2>1, <2>2
<1>3. p % BatchSize = q % BatchSize
  BY DEF Rel
<1> QED BY <1>1, <1>2, <1>3

(* The keys of the buckets are fingerprints upside down. *)
LEMMA KeysAreFingerprints ==
  /\ \A x \in QR : FitsInBucket(x) => FlipQuot(x) \in SpareKeys
  /\ \A key \in SpareKeys : /\ FlipQuot(key) \in QR /\ FitsInBucket(FlipQuot(key))
                            /\ FlipQuot(FlipQuot(key)) = key
BY ItemKeysAssumption, SpareAssumption DEF QR, FlipQuot, FitsInBucket, SpareKeys, Quot, Rem

LEMMA SlotType ==
  ASSUME NEW p \in Pds, NEW primary \in BOOLEAN, NEW key \in SpareKeys
  PROVE  Slot(p, primary, key) \in Slots
BY BucketOfType DEF Slot, Slots

(* Two elements share a slot of a bucket only when they are the same. *)
LEMMA SlotsDiffer ==
  ASSUME NEW p \in Pds, NEW q \in Pds, NEW primary \in BOOLEAN, NEW other \in BOOLEAN,
         NEW k \in SpareKeys, NEW l \in SpareKeys,
         BucketOf(p, primary) = BucketOf(q, other), Slot(p, primary, k) = Slot(q, other, l)
  PROVE  p = q /\ primary = other /\ k = l
<1>1. Rel(p) = Rel(q) /\ primary = other /\ k = l
  BY DEF Slot
<1> QED BY <1>1, NoAliasing

LEMMA BooleanCases == \A primary \in BOOLEAN : primary = TRUE \/ primary = FALSE
OBVIOUS

LEMMA SpareCountType ==
  ASSUME SpareTypeOK, NEW p \in Pds, NEW x \in QR
  PROVE  /\ SpareCount(p, x) \in Nat
         /\ FitsInBucket(x) =>
              \A primary \in BOOLEAN :
                main_buckets[BucketOf(p, primary)][Slot(p, primary, FlipQuot(x))] \in Nat
         /\ SpareCount(p, x) > 0 <=> SpareFind(p, x)
<1>1. ASSUME FitsInBucket(x), NEW primary \in BOOLEAN
      PROVE  main_buckets[BucketOf(p, primary)][Slot(p, primary, FlipQuot(x))] \in Nat
  BY <1>1, KeysAreFingerprints, SlotType, BucketOfType DEF SpareTypeOK
<1>2. <<p, x>> \in BigItems
  BY DEF BigItems
<1>3. CASE FitsInBucket(x)
  <2> DEFINE a1 == main_buckets[BucketOf(p, TRUE)][Slot(p, TRUE, FlipQuot(x))]
             a2 == main_buckets[BucketOf(p, FALSE)][Slot(p, FALSE, FlipQuot(x))]
  <2>1. a1 \in Nat /\ a2 \in Nat
    BY <1>1, <1>3
  <2>2. SpareCount(p, x) = a1 + a2
    BY <1>3 DEF SpareCount
  <2>3. SpareFind(p, x) <=> a1 > 0 \/ a2 > 0
    BY <1>3, BooleanCases DEF SpareFind, find_helper
  <2>4. SpareCount(p, x) \in Nat /\ (SpareCount(p, x) > 0 <=> SpareFind(p, x))
    <3> HIDE DEF a1, a2
    <3> QED BY <2>1, <2>2, <2>3
  <2> QED BY <1>1, <1>3, <2>4
<1>4. CASE ~FitsInBucket(x)
  BY <1>2, <1>4 DEF SpareTypeOK, SpareCount, SpareFind
<1> QED BY <1>3, <1>4
-----------------------------------------------------------------------------
(***************************************************************************)
(* A step that adds d (one, or minus one) to a slot of a bucket, or to an  *)
(* element of Level3, and what it does to the number of copies.            *)
(***************************************************************************)
SlotStep(p, x, primary, d) ==
  /\ FitsInBucket(x)
  /\ main_buckets[BucketOf(p, primary)][Slot(p, primary, FlipQuot(x))] + d \in Nat
  /\ main_buckets' = [main_buckets EXCEPT ![BucketOf(p, primary)] =
       [main_buckets[BucketOf(p, primary)] EXCEPT ![Slot(p, primary, FlipQuot(x))] =
          main_buckets[BucketOf(p, primary)][Slot(p, primary, FlipQuot(x))] + d]]
  /\ big_quots_set' = big_quots_set
  /\ capacity' \in Int

Level3Step(p, x, d) ==
  /\ ~FitsInBucket(x)
  /\ big_quots_set[<<p, x>>] + d \in Nat
  /\ big_quots_set' = [big_quots_set EXCEPT ![<<p, x>>] = big_quots_set[<<p, x>>] + d]
  /\ main_buckets' = main_buckets
  /\ capacity' \in Int

CountStep(p, x, d) ==
  \A q \in Pds, y \in QR :
    SpareCount(q, y)' = SpareCount(q, y) + IF q = p /\ y = x THEN d ELSE 0

(* One more or one less in a slot is one more or less of its element only. *)
LEMMA SlotStepCounts ==
  ASSUME SpareTypeOK, NEW p \in Pds, NEW x \in QR, NEW primary \in BOOLEAN, NEW d \in Int,
         SlotStep(p, x, primary, d)
  PROVE  SpareTypeOK' /\ CountStep(p, x, d)
<1> USE DEF SlotStep
<1> DEFINE b == BucketOf(p, primary)
           s == Slot(p, primary, FlipQuot(x))
<1>1. b \in Buckets /\ s \in Slots
  BY BucketOfType, KeysAreFingerprints, SlotType
<1>2. /\ \A c \in Buckets, t \in Slots :
           main_buckets'[c][t] = main_buckets[c][t] + IF c = b /\ t = s THEN d ELSE 0
      /\ SpareTypeOK'
  <2> DEFINE old == main_buckets[b]
             new == [old EXCEPT ![s] = old[s] + d]
  <2>1. /\ main_buckets' = [main_buckets EXCEPT ![b] = new]
        /\ main_buckets \in [Buckets -> [Slots -> Nat]]
        /\ old \in [Slots -> Nat] /\ old[s] + d \in Nat
    BY <1>1 DEF SpareTypeOK
  <2> HIDE DEF b, s
  <2>2. /\ new \in [Slots -> Nat]
        /\ \A t \in Slots : new[t] = old[t] + IF t = s THEN d ELSE 0
    <3> HIDE DEF old
    <3> QED BY <1>1, <2>1
  <2> HIDE DEF new
  <2>3. main_buckets' \in [Buckets -> [Slots -> Nat]]
    BY <1>1, <2>1, <2>2
  <2>4. ASSUME NEW c \in Buckets, NEW t \in Slots
        PROVE  main_buckets'[c][t] = main_buckets[c][t] + IF c = b /\ t = s THEN d ELSE 0
    <3>1. CASE c = b
      BY <1>1, <2>1, <2>2, <3>1
    <3>2. CASE c # b
      BY <1>1, <2>1, <3>2
    <3> QED BY <3>1, <3>2
  <2> QED BY <2>3, <2>4 DEF SpareTypeOK
<1>4. ASSUME NEW q \in Pds, NEW y \in QR
      PROVE  SpareCount(q, y)' = SpareCount(q, y) + IF q = p /\ y = x THEN d ELSE 0
  <2>1. CASE ~FitsInBucket(y)
    <3>1. <<q, y>> \in BigItems /\ ~(q = p /\ y = x)
      BY <2>1 DEF BigItems
    <3> QED BY <2>1, <3>1 DEF SpareCount, SpareTypeOK
  <2>2. CASE FitsInBucket(y)
    <3> DEFINE At(other) == main_buckets[BucketOf(q, other)][Slot(q, other, FlipQuot(y))]
    <3>1. \A other \in BOOLEAN : At(other) \in Nat
      BY <2>2, SpareCountType
    <3>2. ASSUME NEW other \in BOOLEAN
          PROVE  main_buckets'[BucketOf(q, other)][Slot(q, other, FlipQuot(y))]
                   = At(other) + IF q = p /\ y = x /\ other = primary THEN d ELSE 0
      <4>1. /\ BucketOf(q, other) \in Buckets /\ Slot(q, other, FlipQuot(y)) \in Slots
            /\ FlipQuot(y) \in SpareKeys /\ FlipQuot(x) \in SpareKeys
        BY <2>2, BucketOfType, KeysAreFingerprints, SlotType
      <4>2. (BucketOf(q, other) = b /\ Slot(q, other, FlipQuot(y)) = s)
              <=> (q = p /\ y = x /\ other = primary)
        <5>1. ASSUME BucketOf(q, other) = b, Slot(q, other, FlipQuot(y)) = s
              PROVE  q = p /\ y = x /\ other = primary
          <6>1. q = p /\ other = primary /\ FlipQuot(y) = FlipQuot(x)
            BY <4>1, <5>1, SlotsDiffer
          <6> QED BY <6>1, FlipQuotTwice
        <5> QED BY <5>1
      <4> HIDE DEF b, s
      <4> QED BY <1>2, <4>1, <4>2
    <3> DEFINE a1 == main_buckets[BucketOf(q, TRUE)][Slot(q, TRUE, FlipQuot(y))]
               a2 == main_buckets[BucketOf(q, FALSE)][Slot(q, FALSE, FlipQuot(y))]
               n1 == main_buckets'[BucketOf(q, TRUE)][Slot(q, TRUE, FlipQuot(y))]
               n2 == main_buckets'[BucketOf(q, FALSE)][Slot(q, FALSE, FlipQuot(y))]
    <3>3. SpareCount(q, y) = a1 + a2 /\ SpareCount(q, y)' = n1 + n2
      BY <2>2 DEF SpareCount
    <3>4. a1 \in Nat /\ a2 \in Nat
      BY <3>1
    <3>5. /\ n1 = a1 + IF q = p /\ y = x /\ TRUE = primary THEN d ELSE 0
          /\ n2 = a2 + IF q = p /\ y = x /\ FALSE = primary THEN d ELSE 0
      BY <3>2
    <3> HIDE DEF a1, a2, n1, n2
    <3>6. n1 + n2 = (a1 + a2) + IF q = p /\ y = x THEN d ELSE 0
      <4>1. CASE primary = TRUE
        BY <3>4, <3>5, <4>1
      <4>2. CASE primary = FALSE
        BY <3>4, <3>5, <4>2
      <4> QED BY <4>1, <4>2, BooleanCases
    <3> QED BY <3>3, <3>6
  <2> QED BY <2>1, <2>2
<1> QED BY <1>2, <1>4 DEF CountStep

(* The same for an element that Level3 holds. *)
LEMMA Level3StepCounts ==
  ASSUME SpareTypeOK, NEW p \in Pds, NEW x \in QR, NEW d \in Int, Level3Step(p, x, d)
  PROVE  SpareTypeOK' /\ CountStep(p, x, d)
<1> USE DEF Level3Step
<1>1. <<p, x>> \in BigItems
  BY DEF BigItems
<1>2. SpareTypeOK'
  BY <1>1 DEF SpareTypeOK
<1>3. ASSUME NEW q \in Pds, NEW y \in QR
      PROVE  SpareCount(q, y)' = SpareCount(q, y) + IF q = p /\ y = x THEN d ELSE 0
  <2>1. SpareCount(q, y) \in Nat
    BY SpareCountType
  <2>2. CASE FitsInBucket(y)
    <3>1. SpareCount(q, y)' = SpareCount(q, y) /\ y # x
      BY <2>2 DEF SpareCount
    <3> QED BY <2>1, <3>1
  <2>3. CASE ~FitsInBucket(y)
    <3>1. <<q, y>> \in BigItems
      BY DEF BigItems
    <3>2. SpareCount(q, y)' = big_quots_set'[<<q, y>>] /\ SpareCount(q, y) = big_quots_set[<<q, y>>]
      BY <2>3 DEF SpareCount
    <3>3. big_quots_set'[<<q, y>>] = big_quots_set[<<q, y>>] + IF q = p /\ y = x THEN d ELSE 0
      BY <1>1, <3>1 DEF SpareTypeOK
    <3> QED BY <3>2, <3>3
  <2> QED BY <2>2, <2>3
<1> QED BY <1>2, <1>3 DEF CountStep
-----------------------------------------------------------------------------
(***************************************************************************)
(* An insertion adds one copy of its element, unless both buckets are full *)
(* and the element is dropped.                                             *)
(***************************************************************************)
LEMMA SpareInsertEffect ==
  ASSUME SpareTypeOK, NEW p \in Pds, NEW x \in QR, SpareInsert(p, x)
  PROVE  /\ SpareTypeOK'
         /\ ~Drops(p, x) => CountStep(p, x, 1)
<1>1. CASE InsertIntoLevel3(p, x)
  <2>1. Level3Step(p, x, 1)
    BY <1>1 DEF InsertIntoLevel3, AddCopy, SpareTypeOK, BigItems, Level3Step
  <2> QED BY <2>1, Level3StepCounts
<1>2. CASE InsertIntoBucket(p, x)
  <2> DEFINE primary == TakesPrimary(p)
             b == BucketOf(p, primary)
             s == Slot(p, primary, FlipQuot(x))
  <2>1. /\ FitsInBucket(x) /\ primary \in BOOLEAN
        /\ main_buckets' = [main_buckets EXCEPT ![b] =
                              [main_buckets[b] EXCEPT ![s] = main_buckets[b][s] + 1]]
        /\ capacity' \in Int /\ big_quots_set' = big_quots_set
    BY <1>2 DEF InsertIntoBucket, AddCopy, SpareTypeOK, TakesPrimary
  <2>2. main_buckets[b][s] + 1 \in Nat
    <3>1. main_buckets[b][s] \in Nat
      BY <2>1, SpareCountType
    <3> HIDE DEF b, s
    <3> QED BY <3>1
  <2>3. SlotStep(p, x, primary, 1)
    BY <2>1, <2>2 DEF SlotStep
  <2> QED BY <2>1, <2>3, SlotStepCounts
<1>3. CASE InsertDropped(p, x)
  BY <1>3 DEF InsertDropped, SpareTypeOK
<1> QED BY <1>1, <1>2, <1>3 DEF SpareInsert

(***************************************************************************)
(* A removal keeps the spare well formed, and takes one copy of an element *)
(* that is there.                                                          *)
(***************************************************************************)
LEMMA SpareRemoveEffect ==
  ASSUME SpareTypeOK, NEW p \in Pds, NEW x \in QR, SpareRemove(p, x)
  PROVE  /\ SpareTypeOK'
         /\ SpareCount(p, x) > 0 => CountStep(p, x, -1)
<1>1. CASE ~FitsInBucket(x)
  <2>1. /\ big_quots_set[<<p, x>>] > 0
        /\ big_quots_set' = [big_quots_set EXCEPT ![<<p, x>>] = big_quots_set[<<p, x>>] - 1]
        /\ capacity' \in Int /\ main_buckets' = main_buckets
    BY <1>1 DEF SpareRemove, RemoveFromLevel3, RemoveCopy, SpareTypeOK
  <2>2. big_quots_set[<<p, x>>] \in Nat
    BY DEF SpareTypeOK, BigItems
  <2>3. /\ big_quots_set[<<p, x>>] + (-1) \in Nat
        /\ big_quots_set[<<p, x>>] + (-1) = big_quots_set[<<p, x>>] - 1
    BY <2>1, <2>2
  <2>4. Level3Step(p, x, -1)
    BY <1>1, <2>1, <2>3 DEF Level3Step
  <2> QED BY <2>4, Level3StepCounts
<1>2. CASE FitsInBucket(x)
  <2>1. CASE \E primary \in BOOLEAN : RemoveFromBucket(p, FlipQuot(x), primary)
    <3>1. PICK primary \in BOOLEAN : RemoveFromBucket(p, FlipQuot(x), primary)
      BY <2>1
    <3> DEFINE b == BucketOf(p, primary)
               s == Slot(p, primary, FlipQuot(x))
    <3>2. /\ main_buckets[b][s] > 0
          /\ main_buckets' = [main_buckets EXCEPT ![b] =
                                [main_buckets[b] EXCEPT ![s] = main_buckets[b][s] - 1]]
          /\ capacity' \in Int /\ big_quots_set' = big_quots_set
      BY <3>1 DEF RemoveFromBucket, find_helper, RemoveCopy, SpareTypeOK
    <3>3. main_buckets[b][s] \in Nat
      BY <1>2, SpareCountType
    <3>4. /\ main_buckets[b][s] + (-1) \in Nat
          /\ main_buckets[b][s] + (-1) = main_buckets[b][s] - 1
      <4>1. main_buckets[b][s] > 0
        BY <3>2
      <4> HIDE DEF b, s
      <4> QED BY <3>3, <4>1
    <3>5. SlotStep(p, x, primary, -1)
      BY <1>2, <3>2, <3>4 DEF SlotStep
    <3> QED BY <3>5, SlotStepCounts
  <2>2. CASE RemoveMissing(p, FlipQuot(x))
    <3>1. SpareTypeOK'
      BY <2>2 DEF RemoveMissing, SpareTypeOK
    <3>2. ~SpareFind(p, x)
      BY <1>2, <2>2 DEF RemoveMissing, SpareFind
    <3> QED BY <3>1, <3>2, SpareCountType
  <2> QED BY <1>2, <2>1, <2>2 DEF SpareRemove
<1> QED BY <1>1, <1>2
-----------------------------------------------------------------------------
(* The key a pop prefers is the one that, flipped, is the smallest. *)
LEMMA PopsSmallest ==
  ASSUME NEW k \in SpareKeys, NEW l \in SpareKeys
  PROVE  PopsBefore(k, l) <=> Less(FlipQuot(k), FlipQuot(l))
BY ItemKeysAssumption, SpareAssumption DEF SpareKeys, PopsBefore, Less, FlipQuot, Quot, Rem

LEMMA BucketNomineeExists ==
  ASSUME NEW p \in Pds, KeysInBuckets(p) # {}
  PROVE  /\ BucketNominee(p) \in KeysInBuckets(p)
         /\ \A key \in KeysInBuckets(p) : ~PopsBefore(key, BucketNominee(p))
<1> DEFINE S == {z \in QR : <<z[1], Rems - 1 - z[2]>> \in KeysInBuckets(p)}
<1>1. \A key \in KeysInBuckets(p) :
        /\ key \in SpareKeys
        /\ <<key[1], Rems - 1 - key[2]>> \in S
        /\ key = <<key[1], Rems - 1 - (Rems - 1 - key[2])>>
  <2> TAKE key \in KeysInBuckets(p)
  <2>1. key \in SpareKeys
    BY DEF KeysInBuckets
  <2>2. /\ key = <<key[1], key[2]>> /\ key[1] \in 0 .. Quots - 1 /\ key[2] \in 0 .. Rems - 1
        /\ Rems \in Nat
    BY <2>1, ItemKeysAssumption, SpareAssumption DEF SpareKeys
  <2>3. Rems - 1 - (Rems - 1 - key[2]) = key[2] /\ Rems - 1 - key[2] \in 0 .. Rems - 1
    BY <2>2
  <2> QED BY <2>1, <2>2, <2>3 DEF QR
<1>2. PICK z \in S : \A y \in S : ~Less(z, y)
  <2>1. S # {} /\ S \in SUBSET QR
    BY <1>1
  <2> HIDE DEF S
  <2> QED BY <2>1, BiggestExists
<1>3. <<z[1], Rems - 1 - z[2]>> \in KeysInBuckets(p)
  OBVIOUS
<1>4. ASSUME NEW key \in KeysInBuckets(p), PopsBefore(key, <<z[1], Rems - 1 - z[2]>>)
      PROVE  FALSE
  <2>1. /\ ~Less(z, <<key[1], Rems - 1 - key[2]>>)
        /\ key \in SpareKeys /\ z \in QR
    BY <1>1, <1>2
  <2>2. /\ key[1] \in Int /\ key[2] \in Int /\ z[1] \in Int /\ z[2] \in Int /\ Rems \in Int
    BY <2>1, ItemKeysAssumption, SpareAssumption DEF SpareKeys, QR
  <2> QED BY <1>4, <2>1, <2>2 DEF PopsBefore, Less, Quot, Rem
<1> HIDE DEF S
<1> QED BY <1>3, <1>4 DEF BucketNominee

(***************************************************************************)
(* What a pop takes is a fingerprint of some dictionary.  With Level3      *)
(* empty, it is the smallest element the spare holds of this one, and it   *)
(* finds none only when there is none.                                     *)
(***************************************************************************)
LEMMA PopElementType ==
  ASSUME SpareTypeOK, NEW p \in Pds, NEW item \in get_pop_element(p)
  PROVE  item[1] \in Pds /\ item[2] \in QR
<1>1. CASE KeysInBuckets(p) # {}
  <2>1. BucketNominee(p) \in SpareKeys
    BY <1>1, BucketNomineeExists DEF KeysInBuckets
  <2>2. item = <<p, FlipQuot(BucketNominee(p))>>
    BY <1>1 DEF get_pop_element
  <2> QED BY <2>1, <2>2, KeysAreFingerprints
<1>2. CASE KeysInBuckets(p) = {}
  <2>1. item \in Support(big_quots_set)
    BY <1>2 DEF get_pop_element, Level3Nominee, UpperBound
  <2> QED BY <2>1 DEF Support, SpareTypeOK, BigItems
<1> QED BY <1>1, <1>2

LEMMA PopTakesSmallest ==
  ASSUME SpareTypeOK, NEW p \in Pds, Support(big_quots_set) = {}
  PROVE  /\ get_pop_element(p) = {} => \A x \in QR : SpareCount(p, x) = 0
         /\ \A item \in get_pop_element(p) :
              /\ item[1] = p
              /\ SpareCount(p, item[2]) > 0
              /\ \A x \in QR : SpareCount(p, x) > 0 => ~Less(x, item[2])
<1>1. ASSUME NEW x \in QR, SpareCount(p, x) > 0
      PROVE  FitsInBucket(x) /\ FlipQuot(x) \in KeysInBuckets(p)
  <2>1. FitsInBucket(x)
    <3>1. SUFFICES ASSUME ~FitsInBucket(x) PROVE FALSE
      OBVIOUS
    <3>2. <<p, x>> \in Support(big_quots_set)
      BY <1>1, <3>1 DEF SpareCount, Support, SpareTypeOK, BigItems
    <3> QED BY <3>2
  <2>2. SpareFind(p, x)
    BY <1>1, SpareCountType
  <2> QED BY <2>1, <2>2, KeysAreFingerprints DEF SpareFind, KeysInBuckets
<1>2. CASE KeysInBuckets(p) = {}
  <2>1. get_pop_element(p) = {}
    BY <1>2 DEF get_pop_element, Level3Nominee, UpperBound
  <2>2. \A x \in QR : SpareCount(p, x) = 0
    BY <1>1, <1>2, SpareCountType
  <2> QED BY <2>1, <2>2
<1>3. CASE KeysInBuckets(p) # {}
  <2> DEFINE y == FlipQuot(BucketNominee(p))
  <2>1. /\ BucketNominee(p) \in KeysInBuckets(p) /\ BucketNominee(p) \in SpareKeys
        /\ \A key \in KeysInBuckets(p) : ~PopsBefore(key, BucketNominee(p))
    BY <1>3, BucketNomineeExists DEF KeysInBuckets
  <2>2. y \in QR /\ FitsInBucket(y) /\ FlipQuot(y) = BucketNominee(p)
    BY <2>1, KeysAreFingerprints
  <2>3. SpareCount(p, y) > 0
    <3>1. SpareFind(p, y)
      BY <2>1, <2>2 DEF SpareFind, KeysInBuckets
    <3> QED BY <2>2, <3>1, SpareCountType
  <2>4. ASSUME NEW x \in QR, SpareCount(p, x) > 0 PROVE ~Less(x, y)
    <3>1. FlipQuot(x) \in KeysInBuckets(p) /\ FlipQuot(x) \in SpareKeys
      BY <1>1, <2>4 DEF KeysInBuckets
    <3>2. ~Less(FlipQuot(FlipQuot(x)), FlipQuot(BucketNominee(p)))
      BY <2>1, <3>1, PopsSmallest
    <3> QED BY <3>2, FlipQuotTwice
  <2>5. get_pop_element(p) = {<<p, y>>}
    BY <1>3 DEF get_pop_element
  <2> HIDE DEF y
  <2>6. ASSUME NEW item \in get_pop_element(p) PROVE item[1] = p /\ item[2] = y
    <3>1. item = <<p, y>>
      BY <2>5
    <3> QED BY <3>1
  <2>7. get_pop_element(p) # {}
    BY <2>5
  <2> QED BY <2>3, <2>4, <2>6, <2>7
<1> QED BY <1>2, <1>3

-----------------------------------------------------------------------------
(***************************************************************************)
(* The filter.                                                             *)
(***************************************************************************)
(* Each copy the client has in is stored once. *)
Counted(p) ==
  \A x \in QR : live[<<p, x>>] = pd_array[p].items[x] + SpareCount(p, x)

(* What the spare holds of p is past p's last element, and in the filter. *)
Covered(p) ==
  \A x \in QR : SpareCount(p, x) > 0 =>
    /\ pd_array[p].overflowed
    /\ ~Less(x, LastItem(pd_array[p]))
    /\ spare_filter_Find(<<p, x>>)

PdGood(p) == Exact(pd_array[p]) /\ Counted(p) /\ Covered(p)

IInv ==
  /\ TypeOK
  /\ \A p \in Pds : PDOK(pd_array[p])
  /\ Intact => \A p \in Pds : PdGood(p)
-----------------------------------------------------------------------------
(* A step adds d copies of <<p, x>> to the client's elements. *)
LiveStep(p, x, d) ==
  \A q \in Pds, y \in QR :
    live'[<<q, y>>] = live[<<q, y>>] + IF q = p /\ y = x THEN d ELSE 0

(* A step leaves what there is of dictionary q alone. *)
Unnoticed(q) ==
  /\ pd_array'[q] = pd_array[q]
  /\ \A y \in QR : /\ live'[<<q, y>>] = live[<<q, y>>]
                   /\ SpareCount(q, y)' = SpareCount(q, y)

LEMMA LiveSteps ==
  ASSUME live \in [Keys -> Nat], NEW p \in Pds, NEW x \in QR
  PROVE  /\ live' = AddCopy(live, <<p, x>>) =>
              live' \in [Keys -> Nat] /\ LiveStep(p, x, 1)
         /\ live[<<p, x>>] > 0 /\ live' = RemoveCopy(live, <<p, x>>) =>
              live' \in [Keys -> Nat] /\ LiveStep(p, x, -1)
<1>1. <<p, x>> \in Keys
  BY DEF Keys
<1>2. \A q \in Pds, y \in QR : <<q, y>> \in Keys /\ (<<q, y>> = <<p, x>> <=> q = p /\ y = x)
  BY DEF Keys
<1>3. ASSUME live' = AddCopy(live, <<p, x>>)
      PROVE  live' \in [Keys -> Nat] /\ LiveStep(p, x, 1)
  <2>1. /\ live' \in [Keys -> Nat]
        /\ \A k \in Keys : live'[k] = IF k = <<p, x>> THEN live[k] + 1 ELSE live[k]
    <3>1. /\ AddCopy(live, <<p, x>>) \in [Keys -> Nat]
          /\ \A k \in Keys :
               AddCopy(live, <<p, x>>)[k] = IF k = <<p, x>> THEN live[k] + 1 ELSE live[k]
      BY <1>1 DEF AddCopy
    <3> QED BY <1>3, <3>1
  <2>2. ASSUME NEW q \in Pds, NEW y \in QR
        PROVE  live'[<<q, y>>] = live[<<q, y>>] + IF q = p /\ y = x THEN 1 ELSE 0
    <3>1. live[<<q, y>>] \in Nat
      BY <1>2
    <3> QED BY <1>2, <2>1, <3>1
  <2> QED BY <2>1, <2>2 DEF LiveStep
<1>4. ASSUME live[<<p, x>>] > 0, live' = RemoveCopy(live, <<p, x>>)
      PROVE  live' \in [Keys -> Nat] /\ LiveStep(p, x, -1)
  <2>1. /\ live' \in [Keys -> Nat]
        /\ \A k \in Keys : live'[k] = IF k = <<p, x>> THEN live[k] - 1 ELSE live[k]
    BY <1>1, <1>4, RemoveCopyType
  <2>2. ASSUME NEW q \in Pds, NEW y \in QR
        PROVE  live'[<<q, y>>] = live[<<q, y>>] + IF q = p /\ y = x THEN -1 ELSE 0
    <3>1. live[<<q, y>>] \in Nat
      BY <1>2
    <3> QED BY <1>2, <2>1, <3>1
  <2> QED BY <2>1, <2>2 DEF LiveStep
<1> QED BY <1>3, <1>4

(* The dictionaries a step does not touch stay good. *)
LEMMA UnnoticedStaysGood ==
  ASSUME NEW q \in Pds, PdGood(q), Unnoticed(q), spare_filter \subseteq spare_filter'
  PROVE  PdGood(q)'
<1>1. pd_array'[q] = pd_array[q]
  BY DEF Unnoticed
<1>2. Exact(pd_array[q])'
  BY <1>1 DEF PdGood, Exact
<1>3. ASSUME NEW x \in QR
      PROVE  (live[<<q, x>>] = pd_array[q].items[x] + SpareCount(q, x))'
  BY <1>1, <1>3 DEF PdGood, Counted, Unnoticed
<1>4. ASSUME NEW x \in QR, SpareCount(q, x)' > 0
      PROVE  /\ pd_array'[q].overflowed
             /\ ~Less(x, LastItem(pd_array'[q]))
             /\ spare_filter_Find(<<q, x>>)'
  <2>1. SpareCount(q, x) > 0
    BY <1>4 DEF Unnoticed
  <2> QED BY <1>1, <2>1 DEF PdGood, Covered, spare_filter_Find
<1>5. Counted(q)'
  BY <1>3 DEF Counted
<1>6. Covered(q)'
  BY <1>4 DEF Covered
<1> QED BY <1>2, <1>5, <1>6 DEF PdGood

(* What has to be shown of a step on dictionary p. *)
LEMMA StepOn ==
  ASSUME IInv, NEW p \in Pds, TypeOK',
         \A q \in Pds : q # p => pd_array'[q] = pd_array[q],
         PDOK(pd_array'[p]),
         Intact' => /\ Intact /\ PdGood(p)' /\ spare_filter \subseteq spare_filter'
                    /\ \A q \in Pds : q # p => Unnoticed(q)
  PROVE  IInv'
<1>1. ASSUME NEW q \in Pds PROVE PDOK(pd_array'[q])
  <2>1. CASE q = p
    BY <2>1
  <2>2. CASE q # p
    BY <2>2 DEF IInv
  <2> QED BY <2>1, <2>2
<1>2. ASSUME Intact', NEW q \in Pds PROVE PdGood(q)'
  <2>1. CASE q = p
    BY <1>2, <2>1
  <2>2. CASE q # p
    BY <1>2, <2>2, UnnoticedStaysGood DEF IInv
  <2> QED BY <2>1, <2>2
<1> QED BY <1>1, <1>2 DEF IInv
-----------------------------------------------------------------------------
LEMMA Types ==
  ASSUME IInv, NEW p \in Pds, NEW x \in QR
  PROVE  /\ SpareTypeOK /\ pd_array \in [Pds -> PD] /\ live \in [Keys -> Nat]
         /\ dropped \in BOOLEAN /\ popped_past_l3 \in BOOLEAN
         /\ PDOK(pd_array[p]) /\ pd_array[p] \in PD /\ pd_array[p].overflowed \in BOOLEAN
         /\ <<p, x>> \in Keys /\ live[<<p, x>>] \in Nat
         /\ pd_array[p].items[x] \in Nat /\ SpareCount(p, x) \in Nat
         /\ Intact => PdGood(p)
<1>1. /\ SpareTypeOK /\ pd_array \in [Pds -> PD] /\ live \in [Keys -> Nat]
      /\ dropped \in BOOLEAN /\ popped_past_l3 \in BOOLEAN
  BY DEF IInv, TypeOK
<1>2. pd_array[p] \in PD
  BY <1>1
<1>3. pd_array[p].items \in [QR -> Nat] /\ pd_array[p].overflowed \in BOOLEAN
  BY <1>2 DEF PD
<1>4. <<p, x>> \in Keys /\ live[<<p, x>>] \in Nat
  BY <1>1 DEF Keys
<1>5. SpareCount(p, x) \in Nat
  BY <1>1, SpareCountType
<1> QED BY <1>1, <1>2, <1>3, <1>4, <1>5 DEF IInv

(* The elements of an insertion that finds room. *)
LEMMA InsertNotFullStep ==
  ASSUME IInv, NEW p \in Pds, NEW x \in QR, Insert(p, x), insert_into_not_full_pd_helper(p, x)
  PROVE  IInv'
<1> DEFINE pd == pd_array[p]
           new == pd_add_50_not_full(x, pd)
<1>1. /\ pd_array' = [pd_array EXCEPT ![p] = new] /\ ~pd_full(pd)
      /\ UNCHANGED <<spareVars, spare_filter, dropped, popped_past_l3>>
      /\ live' = AddCopy(live, <<p, x>>)
  BY DEF Insert, insert_into_not_full_pd_helper
<1>2. /\ PDOK(pd) /\ SpareTypeOK /\ pd_array \in [Pds -> PD]
      /\ Intact => PdGood(p)
  BY Types
<1>3. live' \in [Keys -> Nat] /\ LiveStep(p, x, 1)
  BY <1>1, Types, LiveSteps
<1> HIDE DEF pd
<1>4. PDOK(new) /\ ~pd.overflowed /\ ~new.overflowed /\ Gains(pd, new, x) /\ (Exact(pd) => Exact(new))
  BY <1>1, <1>2, AddNotFull
<1> HIDE DEF new
<1>5. /\ pd_array' \in [Pds -> PD] /\ pd_array'[p] = new
      /\ \A q \in Pds : q # p => pd_array'[q] = pd_array[q]
  BY <1>1, <1>2, <1>4 DEF PDOK
<1>6. TypeOK'
  BY <1>1, <1>3, <1>5 DEF TypeOK, SpareTypeOK, IInv, spareVars
<1>7. Intact' => Intact
  BY <1>1 DEF Intact
<1>8. \A q \in Pds, y \in QR : SpareCount(q, y)' = SpareCount(q, y)
  BY <1>1 DEF SpareCount, spareVars
<1>9. ASSUME NEW q \in Pds, q # p PROVE Unnoticed(q)
  BY <1>3, <1>5, <1>8, <1>9, Types DEF LiveStep, Unnoticed
<1>10. ASSUME Intact' PROVE PdGood(p)'
  <2>1. PdGood(p) /\ pd = pd_array[p]
    BY <1>7, <1>10, Types DEF pd
  <2>2. Exact(pd_array[p])'
    BY <1>4, <1>5, <2>1 DEF PdGood, Exact
  <2>3. ASSUME NEW y \in QR
        PROVE  (live[<<p, y>>] = pd_array[p].items[y] + SpareCount(p, y))'
    <3>1. live'[<<p, y>>] = live[<<p, y>>] + IF y = x THEN 1 ELSE 0
      BY <1>3 DEF LiveStep
    <3>2. new.items[y] = pd.items[y] + IF y = x THEN 1 ELSE 0
      BY <1>4 DEF Gains
    <3>3. live[<<p, y>>] = pd.items[y] + SpareCount(p, y)
      BY <2>1 DEF PdGood, Counted
    <3>4. SpareCount(p, y) \in Nat /\ pd.items[y] \in Nat
      BY <2>1, Types
    <3> QED BY <1>5, <1>8, <3>1, <3>2, <3>3, <3>4
  <2>4. \A y \in QR : ~(SpareCount(p, y)' > 0)
    <3>1. \A y \in QR : ~(SpareCount(p, y) > 0)
      BY <1>4, <2>1 DEF PdGood, Covered
    <3> QED BY <1>8, <3>1
  <2>5. Counted(p)'
    BY <2>3 DEF Counted
  <2>6. Covered(p)'
    BY <2>4 DEF Covered
  <2> QED BY <2>2, <2>5, <2>6 DEF PdGood
<1>11. PDOK(pd_array'[p]) /\ spare_filter \subseteq spare_filter'
  BY <1>1, <1>4, <1>5
<1> QED BY <1>5, <1>6, <1>7, <1>9, <1>10, <1>11, StepOn

(* An insertion into a full dictionary: whoever leaves it is in the spare. *)
LEMMA InsertFullStep ==
  ASSUME IInv, NEW p \in Pds, NEW x \in QR, Insert(p, x), insert_into_full_pd_helper(p, x)
  PROVE  IInv'
<1> DEFINE pd == pd_array[p]
           s == pd_swap_short(x, pd)
           new == s.pd
           qr == s.qr
<1>1. /\ pd_array' = [pd_array EXCEPT ![p] = new] /\ pd_full(pd)
      /\ SpareInsert(p, qr)
      /\ spare_filter' = spare_filter \cup SpareFilterBits[<<p, qr>>]
      /\ dropped' = (dropped \/ Drops(p, qr))
      /\ popped_past_l3' = popped_past_l3
      /\ live' = AddCopy(live, <<p, x>>)
  BY DEF Insert, insert_into_full_pd_helper
<1>2. /\ PDOK(pd) /\ SpareTypeOK /\ pd_array \in [Pds -> PD]
      /\ Intact => PdGood(p)
      /\ dropped \in BOOLEAN /\ popped_past_l3 \in BOOLEAN
  BY Types
<1>3. live' \in [Keys -> Nat] /\ LiveStep(p, x, 1)
  BY <1>1, Types, LiveSteps
<1> HIDE DEF pd
<1>4. /\ PDOK(new) /\ new.overflowed /\ qr \in QR
      /\ Exact(pd) =>
           /\ Exact(new)
           /\ \A y \in QR : pd.items[y] + (IF y = x THEN 1 ELSE 0)
                            = new.items[y] + (IF y = qr THEN 1 ELSE 0)
           /\ ~Less(LastItem(pd), LastItem(new))
           /\ ~Less(qr, LastItem(new))
           /\ LastItem(pd) \in QR /\ LastItem(new) \in QR
  <2>1. /\ PDOK(new) /\ pd_full(new) /\ new.overflowed /\ qr \in QR
        /\ Exact(pd) =>
           /\ Exact(new)
           /\ \A y \in QR : pd.items[y] + (IF y = x THEN 1 ELSE 0)
                            = new.items[y] + (IF y = qr THEN 1 ELSE 0)
           /\ ~Less(LastItem(pd), LastItem(new))
           /\ ~Less(qr, LastItem(new))
    BY <1>1, <1>2, SwapWhenFull
  <2> HIDE DEF new, qr
  <2>2. LastItem(pd) \in QR /\ LastItem(new) \in QR
    BY <1>1, <1>2, <2>1, FullIsNotEmpty, LastItemType
  <2> QED BY <2>1, <2>2
<1> HIDE DEF s, new, qr
<1>5. /\ pd_array' \in [Pds -> PD] /\ pd_array'[p] = new
      /\ \A q \in Pds : q # p => pd_array'[q] = pd_array[q]
  BY <1>1, <1>2, <1>4 DEF PDOK
<1>6. SpareTypeOK' /\ (~Drops(p, qr) => CountStep(p, qr, 1))
  BY <1>1, <1>2, <1>4, SpareInsertEffect
<1>7. TypeOK'
  <2>1. <<p, qr>> \in Keys
    BY <1>4 DEF Keys
  <2>2. spare_filter' \subseteq UNION {SpareFilterBits[k] : k \in Keys}
    BY <1>1, <2>1 DEF IInv, TypeOK
  <2>3. dropped' \in BOOLEAN
    BY <1>1
  <2> QED BY <1>1, <1>2, <1>3, <1>5, <1>6, <2>2, <2>3 DEF TypeOK
<1>8. ASSUME Intact' PROVE Intact /\ ~Drops(p, qr)
  BY <1>1, <1>8 DEF Intact
<1>9. ASSUME Intact', NEW q \in Pds, q # p PROVE Unnoticed(q)
  <2>1. ASSUME NEW y \in QR
        PROVE  live'[<<q, y>>] = live[<<q, y>>] /\ SpareCount(q, y)' = SpareCount(q, y)
    <3>1. CountStep(p, qr, 1)
      BY <1>6, <1>8, <1>9
    <3>2. live[<<q, y>>] \in Nat /\ SpareCount(q, y) \in Nat
      BY Types
    <3> QED BY <1>3, <1>9, <3>1, <3>2 DEF LiveStep, CountStep
  <2> QED BY <1>5, <1>9, <2>1 DEF Unnoticed
<1>10. ASSUME Intact' PROVE PdGood(p)'
  <2>1. PdGood(p) /\ pd = pd_array[p] /\ CountStep(p, qr, 1) /\ Exact(pd)
    BY <1>2, <1>6, <1>8, <1>10 DEF pd, PdGood
  <2>2. Exact(pd_array[p])'
    BY <1>4, <1>5, <2>1 DEF PdGood, Exact
  <2>3. ASSUME NEW y \in QR
        PROVE  (live[<<p, y>>] = pd_array[p].items[y] + SpareCount(p, y))'
    <3>1. live'[<<p, y>>] = live[<<p, y>>] + IF y = x THEN 1 ELSE 0
      BY <1>3 DEF LiveStep
    <3>2. pd.items[y] + (IF y = x THEN 1 ELSE 0) = new.items[y] + (IF y = qr THEN 1 ELSE 0)
      BY <1>4, <2>1
    <3>3. live[<<p, y>>] = pd.items[y] + SpareCount(p, y)
      BY <2>1 DEF PdGood, Counted
    <3>4. SpareCount(p, y)' = SpareCount(p, y) + IF y = qr THEN 1 ELSE 0
      BY <2>1 DEF CountStep
    <3>5. SpareCount(p, y) \in Nat /\ pd.items[y] \in Nat /\ new.items[y] \in Nat
      BY <1>4, <2>1, Types DEF PDOK, PD
    <3> QED BY <1>5, <3>1, <3>2, <3>3, <3>4, <3>5
  <2>4. ASSUME NEW y \in QR, SpareCount(p, y)' > 0
        PROVE  ~Less(y, LastItem(new)) /\ spare_filter_Find(<<p, y>>)'
    <3>1. CASE y = qr
      BY <1>1, <1>4, <2>1, <3>1 DEF spare_filter_Find
    <3>2. CASE y # qr
      <4>1. SpareCount(p, y) > 0
        <5>1. SpareCount(p, y)' = SpareCount(p, y) + 0 /\ SpareCount(p, y) \in Nat
          BY <2>1, <3>2, Types DEF CountStep
        <5> QED BY <2>4, <5>1
      <4>2. ~Less(y, LastItem(pd)) /\ spare_filter_Find(<<p, y>>)
        BY <2>1, <4>1 DEF PdGood, Covered
      <4>3. ~Less(y, LastItem(new))
        BY <1>4, <2>1, <4>2, LessIsTotalOrder
      <4> QED BY <1>1, <4>2, <4>3 DEF spare_filter_Find
    <3> QED BY <3>1, <3>2
  <2>5. Counted(p)'
    BY <2>3 DEF Counted
  <2>6. Covered(p)'
    BY <1>4, <1>5, <2>4 DEF Covered
  <2> QED BY <2>2, <2>5, <2>6 DEF PdGood
<1>11. PDOK(pd_array'[p]) /\ spare_filter \subseteq spare_filter'
  BY <1>1, <1>4, <1>5
<1> QED BY <1>5, <1>7, <1>8, <1>9, <1>10, <1>11, StepOn
-----------------------------------------------------------------------------
(* A good dictionary deletes what it holds. *)
LEMMA CanDeleteHeld ==
  ASSUME NEW pd, PDOK(pd), Exact(pd), NEW x \in QR
  PROVE  CanDelete(x, pd) <=> pd.items[x] > 0
<1>1. pd.items \in [QR -> Nat]
  BY DEF PDOK, PD
<1>2. ASSUME pd.items[x] > 0 PROVE Quot(x) <= pd.last_quot
  <2>1. x \in Support(pd.items)
    BY <1>1, <1>2, HeldIsFingerprints
  <2> QED BY <1>1, <2>1, LastQuotType DEF Exact
<1> QED BY <1>2 DEF CanDelete, pd_find_25

(* What every branch of a removal shares. *)
LEMMA RemoveParts ==
  ASSUME IInv, NEW p \in Pds, NEW x \in QR, Remove(p, x)
  PROVE  /\ PDOK(pd_array[p]) /\ SpareTypeOK /\ pd_array \in [Pds -> PD]
         /\ Intact => PdGood(p) /\ Exact(pd_array[p])
         /\ live[<<p, x>>] > 0
         /\ live' \in [Keys -> Nat] /\ LiveStep(p, x, -1)
         /\ spare_filter' = spare_filter /\ dropped' = dropped
         /\ popped_past_l3 \in BOOLEAN
         /\ spare_filter' \subseteq UNION {SpareFilterBits[k] : k \in Keys}
         /\ dropped' \in BOOLEAN
<1>1. /\ live[<<p, x>>] > 0 /\ live' = RemoveCopy(live, <<p, x>>)
      /\ spare_filter' = spare_filter /\ dropped' = dropped
  BY DEF Remove
<1>2. live' \in [Keys -> Nat] /\ LiveStep(p, x, -1)
  BY <1>1, Types, LiveSteps
<1>3. spare_filter' \subseteq UNION {SpareFilterBits[k] : k \in Keys} /\ dropped' \in BOOLEAN
  BY <1>1 DEF IInv, TypeOK
<1> QED BY <1>1, <1>2, <1>3, Types DEF PdGood

LEMMA RemoveFromL1Step ==
  ASSUME IInv, NEW p \in Pds, NEW x \in QR, Remove(p, x), remove_from_l1(p, x)
  PROVE  IInv'
<1> DEFINE pd == pd_array[p]
           new == delete_element(x, pd)
<1>1. /\ pd_array' = [pd_array EXCEPT ![p] = new] /\ ~pd.overflowed /\ CanDelete(x, pd)
      /\ UNCHANGED <<spareVars, popped_past_l3>>
  BY DEF remove_from_l1
<1>2. /\ PDOK(pd) /\ SpareTypeOK /\ pd_array \in [Pds -> PD]
      /\ Intact => PdGood(p) /\ Exact(pd)
      /\ LiveStep(p, x, -1) /\ live' \in [Keys -> Nat]
      /\ spare_filter' = spare_filter /\ dropped' = dropped
  BY RemoveParts
<1> HIDE DEF pd
<1>4. PDOK(new) /\ ~new.overflowed /\ Loses(pd, new, x) /\ (Exact(pd) => Exact(new))
  BY <1>1, <1>2, DeleteNotOverflowed
<1> HIDE DEF new
<1>5. /\ pd_array' \in [Pds -> PD] /\ pd_array'[p] = new
      /\ \A q \in Pds : q # p => pd_array'[q] = pd_array[q]
  BY <1>1, <1>2, <1>4 DEF PDOK
<1>6. TypeOK'
  BY <1>1, <1>5, RemoveParts DEF TypeOK, SpareTypeOK, spareVars
<1>7. Intact' => Intact
  BY <1>1, <1>2 DEF Intact
<1>8. \A q \in Pds, y \in QR : SpareCount(q, y)' = SpareCount(q, y)
  BY <1>1 DEF SpareCount, spareVars
<1>9. ASSUME NEW q \in Pds, q # p PROVE Unnoticed(q)
  BY <1>2, <1>5, <1>8, <1>9, Types DEF LiveStep, Unnoticed
<1>10. ASSUME Intact' PROVE PdGood(p)'
  <2>1. PdGood(p) /\ pd = pd_array[p] /\ Exact(pd)
    BY <1>2, <1>7, <1>10 DEF pd
  <2>2. Exact(pd_array[p])'
    BY <1>4, <1>5, <2>1 DEF Exact
  <2>3. ASSUME NEW y \in QR
        PROVE  (live[<<p, y>>] = pd_array[p].items[y] + SpareCount(p, y))'
    <3>1. live'[<<p, y>>] = live[<<p, y>>] + IF y = x THEN -1 ELSE 0
      BY <1>2 DEF LiveStep
    <3>2. new.items[y] = pd.items[y] - IF y = x THEN 1 ELSE 0
      BY <1>4 DEF Loses
    <3>3. live[<<p, y>>] = pd.items[y] + SpareCount(p, y)
      BY <2>1 DEF PdGood, Counted
    <3>4. SpareCount(p, y) \in Nat /\ pd.items[y] \in Nat
      BY <2>1, Types
    <3> QED BY <1>5, <1>8, <3>1, <3>2, <3>3, <3>4
  <2>4. \A y \in QR : ~(SpareCount(p, y)' > 0)
    <3>1. \A y \in QR : ~(SpareCount(p, y) > 0)
      BY <1>1, <2>1 DEF PdGood, Covered
    <3> QED BY <1>8, <3>1
  <2>5. Counted(p)'
    BY <2>3 DEF Counted
  <2>6. Covered(p)'
    BY <2>4 DEF Covered
  <2> QED BY <2>2, <2>5, <2>6 DEF PdGood
<1>11. PDOK(pd_array'[p]) /\ spare_filter \subseteq spare_filter'
  BY <1>2, <1>4, <1>5
<1> QED BY <1>5, <1>6, <1>7, <1>9, <1>10, <1>11, StepOn

(* Neither level has what the client removes: not while the spare is intact. *)
LEMMA RemoveMissingStep ==
  ASSUME IInv, NEW p \in Pds, NEW x \in QR, Remove(p, x), remove_from_l1_missing(p, x)
  PROVE  IInv' /\ ~Intact'
<1>1. /\ pd_array' = pd_array /\ ~pd_array[p].overflowed /\ ~CanDelete(x, pd_array[p])
      /\ UNCHANGED <<spareVars, popped_past_l3>>
  BY DEF remove_from_l1_missing
<1>2. TypeOK'
  BY <1>1, RemoveParts DEF TypeOK, SpareTypeOK, spareVars
<1>3. ~Intact'
  <2>1. SUFFICES ASSUME Intact PROVE FALSE
    BY <1>1, RemoveParts DEF Intact
  <2>2. PdGood(p) /\ Exact(pd_array[p]) /\ PDOK(pd_array[p]) /\ live[<<p, x>>] > 0
    BY <2>1, RemoveParts
  <2>3. ~(pd_array[p].items[x] > 0) /\ ~(SpareCount(p, x) > 0)
    BY <1>1, <2>2, CanDeleteHeld DEF PdGood, Covered
  <2>4. live[<<p, x>>] = pd_array[p].items[x] + SpareCount(p, x)
    BY <2>2 DEF PdGood, Counted
  <2>5. pd_array[p].items[x] \in Nat /\ SpareCount(p, x) \in Nat
    BY Types
  <2> QED BY <2>2, <2>3, <2>4, <2>5
<1> QED BY <1>1, <1>2, <1>3 DEF IInv

LEMMA RemoveFromSpareStep ==
  ASSUME IInv, NEW p \in Pds, NEW x \in QR, Remove(p, x), remove_from_spare(p, x)
  PROVE  IInv'
<1> DEFINE pd == pd_array[p]
<1>1. /\ pd_array' = pd_array /\ pd.overflowed /\ ~CanDelete(x, pd)
      /\ SpareRemove(p, x) /\ popped_past_l3' = popped_past_l3
  BY DEF remove_from_spare
<1>2. /\ PDOK(pd) /\ SpareTypeOK /\ pd_array \in [Pds -> PD]
      /\ Intact => PdGood(p) /\ Exact(pd)
      /\ LiveStep(p, x, -1) /\ live' \in [Keys -> Nat] /\ live[<<p, x>>] > 0
      /\ spare_filter' = spare_filter /\ dropped' = dropped
  BY RemoveParts
<1> HIDE DEF pd
<1>3. SpareTypeOK' /\ (SpareCount(p, x) > 0 => CountStep(p, x, -1))
  BY <1>1, <1>2, SpareRemoveEffect
<1>4. TypeOK'
  BY <1>1, <1>3, RemoveParts DEF TypeOK
<1>5. Intact' => Intact
  BY <1>1, <1>2 DEF Intact
<1>6. ASSUME Intact PROVE CountStep(p, x, -1)
  <2>1. live[<<p, x>>] = pd.items[x] + SpareCount(p, x)
    BY <1>2, <1>6 DEF PdGood, Counted, pd
  <2>2. ~(pd.items[x] > 0)
    BY <1>1, <1>2, <1>6, CanDeleteHeld
  <2>3. pd.items[x] \in Nat /\ SpareCount(p, x) \in Nat
    BY Types DEF pd
  <2>4. SpareCount(p, x) > 0
    BY <1>2, <2>1, <2>2, <2>3
  <2> QED BY <1>3, <2>4
<1>7. ASSUME Intact', NEW q \in Pds, q # p PROVE Unnoticed(q)
  <2>1. ASSUME NEW y \in QR
        PROVE  live'[<<q, y>>] = live[<<q, y>>] /\ SpareCount(q, y)' = SpareCount(q, y)
    <3>1. CountStep(p, x, -1)
      BY <1>5, <1>6, <1>7
    <3>2. live[<<q, y>>] \in Nat /\ SpareCount(q, y) \in Nat
      BY Types
    <3> QED BY <1>2, <1>7, <3>1, <3>2 DEF LiveStep, CountStep
  <2> QED BY <1>1, <2>1 DEF Unnoticed
<1>8. ASSUME Intact' PROVE PdGood(p)'
  <2>1. PdGood(p) /\ pd = pd_array[p] /\ Exact(pd) /\ CountStep(p, x, -1)
    BY <1>2, <1>5, <1>6, <1>8 DEF pd
  <2>2. Exact(pd_array[p])'
    BY <1>1, <2>1 DEF Exact
  <2>3. ASSUME NEW y \in QR
        PROVE  /\ (live[<<p, y>>] = pd_array[p].items[y] + SpareCount(p, y))'
               /\ SpareCount(p, y)' > 0 => SpareCount(p, y) > 0
    <3>1. live'[<<p, y>>] = live[<<p, y>>] + IF y = x THEN -1 ELSE 0
      BY <1>2 DEF LiveStep
    <3>2. SpareCount(p, y)' = SpareCount(p, y) + IF y = x THEN -1 ELSE 0
      BY <2>1 DEF CountStep
    <3>3. live[<<p, y>>] = pd.items[y] + SpareCount(p, y)
      BY <2>1 DEF PdGood, Counted
    <3>4. SpareCount(p, y) \in Nat /\ pd.items[y] \in Nat
      BY <2>1, Types
    <3> QED BY <1>1, <2>1, <3>1, <3>2, <3>3, <3>4
  <2>4. Counted(p)'
    BY <2>3 DEF Counted
  <2>5. Covered(p)'
    BY <1>1, <1>2, <2>1, <2>3 DEF Covered, PdGood, spare_filter_Find
  <2> QED BY <2>2, <2>4, <2>5 DEF PdGood
<1>9. PDOK(pd_array'[p]) /\ spare_filter \subseteq spare_filter'
  BY <1>1, <1>2 DEF pd
<1> QED BY <1>1, <1>4, <1>5, <1>7, <1>8, <1>9, StepOn
(* A deletion from an overflowed dictionary that pops an element back. *)
LEMMA PopStep ==
  ASSUME IInv, NEW p \in Pds, NEW x \in QR, Remove(p, x), pop_and_add_to_l1(p, x)
  PROVE  /\ IInv'
         /\ Intact' => ~Less(LastItem(pd_array'[p]), LastItem(pd_array[p]))
<1>1. PICK item \in get_pop_element(p) :
        /\ SparePop(item)
        /\ pd_array' = [pd_array EXCEPT
                          ![p] = pd_pop_add(item[2], Quot(x), delete_element(x, pd_array[p]))]
  BY DEF pop_and_add_to_l1
<1> DEFINE pd == pd_array[p]
           y == item[2]
           new == pd_pop_add(y, Quot(x), delete_element(x, pd))
<1>2. /\ pd.overflowed /\ CanDelete(x, pd)
      /\ popped_past_l3' = (popped_past_l3 \/ Support(big_quots_set) # {})
  BY DEF pop_and_add_to_l1
<1>3. /\ PDOK(pd) /\ SpareTypeOK /\ pd_array \in [Pds -> PD]
      /\ Intact => PdGood(p) /\ Exact(pd)
      /\ LiveStep(p, x, -1) /\ live' \in [Keys -> Nat]
      /\ spare_filter' = spare_filter /\ dropped' = dropped
      /\ popped_past_l3 \in BOOLEAN
  BY RemoveParts
<1>4. item[1] \in Pds /\ y \in QR
  BY <1>3, PopElementType
<1>5. SpareTypeOK' /\ (SpareCount(item[1], y) > 0 => CountStep(item[1], y, -1))
  BY <1>1, <1>3, <1>4, SpareRemoveEffect DEF SparePop
<1>6. ASSUME Intact'
      PROVE  /\ Intact /\ PdGood(p) /\ Exact(pd)
             /\ CountStep(p, y, -1) /\ SpareCount(p, y) > 0
             /\ \A z \in QR : SpareCount(p, z) > 0 => ~Less(z, y)
             /\ ~Less(y, LastItem(pd)) /\ spare_filter_Find(<<p, y>>)
  <2>1. Intact /\ Support(big_quots_set) = {}
    BY <1>2, <1>3, <1>6 DEF Intact
  <2>2. /\ item[1] = p /\ SpareCount(p, y) > 0
        /\ \A z \in QR : SpareCount(p, z) > 0 => ~Less(z, y)
    BY <1>3, <2>1, PopTakesSmallest
  <2>3. ~Less(y, LastItem(pd)) /\ spare_filter_Find(<<p, y>>)
    BY <1>3, <1>4, <2>1, <2>2 DEF PdGood, Covered
  <2> QED BY <1>3, <1>5, <2>1, <2>2, <2>3
<1> HIDE DEF pd, y
<1>7. /\ PDOK(new) /\ new.overflowed
      /\ \A z \in QR : new.items[z] + (IF z = x THEN 1 ELSE 0)
                       = pd.items[z] + IF z = y THEN 1 ELSE 0
      /\ Exact(pd) /\ ~Less(y, LastItem(pd)) => Exact(new) /\ LastItem(new) = y
  BY <1>2, <1>3, <1>4, DeleteThenPop
<1>8. pd_array' = [pd_array EXCEPT ![p] = new]
  BY <1>1 DEF pd, y
<1> HIDE DEF new
<1>9. /\ pd_array' \in [Pds -> PD] /\ pd_array'[p] = new
      /\ \A q \in Pds : q # p => pd_array'[q] = pd_array[q]
  BY <1>3, <1>7, <1>8 DEF PDOK
<1>10. TypeOK'
  <2>1. popped_past_l3' \in BOOLEAN
    BY <1>2
  <2> QED BY <1>5, <1>9, <2>1, RemoveParts DEF TypeOK
<1>11. ASSUME Intact', NEW q \in Pds, q # p PROVE Unnoticed(q)
  <2>1. ASSUME NEW z \in QR
        PROVE  live'[<<q, z>>] = live[<<q, z>>] /\ SpareCount(q, z)' = SpareCount(q, z)
    <3>1. CountStep(p, y, -1)
      BY <1>6, <1>11
    <3>2. live[<<q, z>>] \in Nat /\ SpareCount(q, z) \in Nat
      BY Types
    <3> QED BY <1>3, <1>11, <3>1, <3>2 DEF LiveStep, CountStep
  <2> QED BY <1>9, <1>11, <2>1 DEF Unnoticed
<1>12. ASSUME Intact' PROVE PdGood(p)'
  <2>1. /\ PdGood(p) /\ pd = pd_array[p] /\ Exact(new) /\ LastItem(new) = y
        /\ CountStep(p, y, -1)
    BY <1>6, <1>7, <1>12 DEF pd
  <2>2. Exact(pd_array[p])'
    BY <1>9, <2>1 DEF Exact
  <2>3. ASSUME NEW z \in QR
        PROVE  /\ (live[<<p, z>>] = pd_array[p].items[z] + SpareCount(p, z))'
               /\ SpareCount(p, z)' > 0 => SpareCount(p, z) > 0
    <3>1. live'[<<p, z>>] = live[<<p, z>>] + IF z = x THEN -1 ELSE 0
      BY <1>3 DEF LiveStep
    <3>2. SpareCount(p, z)' = SpareCount(p, z) + IF z = y THEN -1 ELSE 0
      BY <2>1 DEF CountStep
    <3>3. live[<<p, z>>] = pd.items[z] + SpareCount(p, z)
      BY <2>1 DEF PdGood, Counted
    <3>4. SpareCount(p, z) \in Nat /\ pd.items[z] \in Nat /\ new.items[z] \in Nat
      BY <1>7, <2>1, Types DEF PDOK, PD
    <3>5. new.items[z] + (IF z = x THEN 1 ELSE 0) = pd.items[z] + IF z = y THEN 1 ELSE 0
      BY <1>7
    <3> QED BY <1>9, <3>1, <3>2, <3>3, <3>4, <3>5
  <2>4. Counted(p)'
    BY <2>3 DEF Counted
  <2>5. ASSUME NEW z \in QR, SpareCount(p, z)' > 0
        PROVE  /\ pd_array'[p].overflowed
               /\ ~Less(z, LastItem(pd_array'[p]))
               /\ spare_filter_Find(<<p, z>>)'
    <3>1. SpareCount(p, z) > 0
      BY <2>3, <2>5
    <3>2. ~Less(z, y)
      BY <1>6, <1>12, <3>1
    <3>3. spare_filter_Find(<<p, z>>)'
      BY <1>3, <2>1, <3>1 DEF PdGood, Covered, spare_filter_Find
    <3> QED BY <1>7, <1>9, <2>1, <3>2, <3>3
  <2>6. Covered(p)'
    BY <2>5 DEF Covered
  <2> QED BY <2>2, <2>4, <2>6 DEF PdGood
<1>13. PDOK(pd_array'[p]) /\ spare_filter \subseteq spare_filter'
  BY <1>3, <1>7, <1>9
<1>14. IInv'
  BY <1>6, <1>9, <1>10, <1>11, <1>12, <1>13, StepOn
<1>15. Intact' => ~Less(LastItem(pd_array'[p]), LastItem(pd_array[p]))
  BY <1>6, <1>7, <1>9 DEF pd
<1> QED BY <1>14, <1>15

(* A deletion from an overflowed dictionary the spare has nothing for. *)
LEMMA NothingToPopStep ==
  ASSUME IInv, NEW p \in Pds, NEW x \in QR, Remove(p, x), nothing_to_pop(p, x)
  PROVE  IInv' /\ ~pd_array'[p].overflowed
<1> DEFINE pd == pd_array[p]
           new == pop_helper_no_element_to_pop(delete_element(x, pd))
<1>1. /\ pd_array' = [pd_array EXCEPT ![p] = new] /\ pd.overflowed /\ CanDelete(x, pd)
      /\ get_pop_element(p) = {}
      /\ popped_past_l3' = (popped_past_l3 \/ Support(big_quots_set) # {})
      /\ UNCHANGED spareVars
  BY DEF nothing_to_pop
<1>2. /\ PDOK(pd) /\ SpareTypeOK /\ pd_array \in [Pds -> PD]
      /\ Intact => PdGood(p) /\ Exact(pd)
      /\ LiveStep(p, x, -1) /\ live' \in [Keys -> Nat]
      /\ spare_filter' = spare_filter /\ dropped' = dropped
      /\ popped_past_l3 \in BOOLEAN
  BY RemoveParts
<1> HIDE DEF pd
<1>3. PDOK(new) /\ ~new.overflowed /\ Loses(pd, new, x) /\ Exact(new)
  BY <1>1, <1>2, DeleteNothingToPop
<1> HIDE DEF new
<1>4. /\ pd_array' \in [Pds -> PD] /\ pd_array'[p] = new
      /\ \A q \in Pds : q # p => pd_array'[q] = pd_array[q]
  BY <1>1, <1>2, <1>3 DEF PDOK
<1>5. TypeOK'
  <2>1. popped_past_l3' \in BOOLEAN
    BY <1>1
  <2>2. SpareTypeOK'
    BY <1>1, <1>2 DEF SpareTypeOK, spareVars
  <2> QED BY <1>4, <2>1, <2>2, RemoveParts DEF TypeOK
<1>6. \A q \in Pds, y \in QR : SpareCount(q, y)' = SpareCount(q, y)
  BY <1>1 DEF SpareCount, spareVars
<1>7. ASSUME Intact'
      PROVE  Intact /\ PdGood(p) /\ \A y \in QR : SpareCount(p, y) = 0
  <2>1. Intact /\ Support(big_quots_set) = {}
    BY <1>1, <1>2, <1>7 DEF Intact
  <2> QED BY <1>1, <1>2, <2>1, PopTakesSmallest
<1>8. ASSUME NEW q \in Pds, q # p PROVE Unnoticed(q)
  BY <1>2, <1>4, <1>6, <1>8, Types DEF LiveStep, Unnoticed
<1>9. ASSUME Intact' PROVE PdGood(p)'
  <2>1. PdGood(p) /\ pd = pd_array[p] /\ \A y \in QR : SpareCount(p, y) = 0
    BY <1>7, <1>9 DEF pd
  <2>2. Exact(pd_array[p])'
    BY <1>3, <1>4 DEF Exact
  <2>3. ASSUME NEW y \in QR
        PROVE  (live[<<p, y>>] = pd_array[p].items[y] + SpareCount(p, y))'
    <3>1. live'[<<p, y>>] = live[<<p, y>>] + IF y = x THEN -1 ELSE 0
      BY <1>2 DEF LiveStep
    <3>2. new.items[y] = pd.items[y] - IF y = x THEN 1 ELSE 0
      BY <1>3 DEF Loses
    <3>3. live[<<p, y>>] = pd.items[y] + SpareCount(p, y)
      BY <2>1 DEF PdGood, Counted
    <3>4. SpareCount(p, y) \in Nat /\ pd.items[y] \in Nat
      BY <2>1, Types
    <3> QED BY <1>4, <1>6, <3>1, <3>2, <3>3, <3>4
  <2>4. Counted(p)'
    BY <2>3 DEF Counted
  <2>5. Covered(p)'
    <3>1. \A y \in QR : SpareCount(p, y)' = 0
      BY <1>6, <2>1
    <3> QED BY <3>1 DEF Covered
  <2> QED BY <2>2, <2>4, <2>5 DEF PdGood
<1>10. PDOK(pd_array'[p]) /\ spare_filter \subseteq spare_filter'
  BY <1>2, <1>3, <1>4
<1>11. IInv'
  BY <1>4, <1>5, <1>7, <1>8, <1>9, <1>10, StepOn
<1> QED BY <1>3, <1>4, <1>11
-----------------------------------------------------------------------------
LEMMA InitIInv == Init => IInv
<1> SUFFICES ASSUME Init PROVE IInv
  OBVIOUS
<1>1. TypeOK
  <2>1. EmptyPD \in PD
    BY EmptyPDOK DEF PDOK
  <2>2. SpareTypeOK
    <3>1. NoCopies(Slots) \in [Slots -> Nat] /\ NoCopies(BigItems) \in [BigItems -> Nat]
      BY DEF NoCopies
    <3> QED BY <3>1 DEF Init, SpareInit, SpareTypeOK
  <2>3. live \in [Keys -> Nat] /\ pd_array \in [Pds -> PD]
    BY <2>1 DEF Init, NoCopies
  <2> QED BY <2>2, <2>3 DEF Init, TypeOK
<1>2. \A p \in Pds : PDOK(pd_array[p]) /\ Exact(pd_array[p])
  BY EmptyPDOK DEF Init
<1>3. ASSUME NEW p \in Pds, NEW x \in QR
      PROVE  live[<<p, x>>] = 0 /\ pd_array[p].items[x] = 0 /\ SpareCount(p, x) = 0
  <2>1. live[<<p, x>>] = 0 /\ pd_array[p].items[x] = 0
    BY DEF Init, NoCopies, Keys, EmptyPD
  <2>2. CASE FitsInBucket(x)
    <3> DEFINE a1 == main_buckets[BucketOf(p, TRUE)][Slot(p, TRUE, FlipQuot(x))]
               a2 == main_buckets[BucketOf(p, FALSE)][Slot(p, FALSE, FlipQuot(x))]
    <3>1. ASSUME NEW primary \in BOOLEAN
          PROVE  main_buckets[BucketOf(p, primary)][Slot(p, primary, FlipQuot(x))] = 0
      <4>1. /\ BucketOf(p, primary) \in Buckets
            /\ Slot(p, primary, FlipQuot(x)) \in Slots
        BY <2>2, BucketOfType, KeysAreFingerprints, SlotType
      <4>2. main_buckets[BucketOf(p, primary)] = NoCopies(Slots)
        BY <4>1 DEF Init, SpareInit
      <4> QED BY <4>1, <4>2 DEF NoCopies
    <3>2. a1 = 0 /\ a2 = 0
      BY <3>1
    <3>3. SpareCount(p, x) = a1 + a2
      BY <2>2 DEF SpareCount
    <3> HIDE DEF a1, a2
    <3> QED BY <2>1, <3>2, <3>3
  <2>3. CASE ~FitsInBucket(x)
    BY <2>1, <2>3 DEF Init, SpareInit, NoCopies, SpareCount, BigItems
  <2> QED BY <2>2, <2>3
<1>4. \A p \in Pds : PdGood(p)
  BY <1>2, <1>3 DEF PdGood, Counted, Covered
<1> QED BY <1>1, <1>2, <1>4 DEF IInv

LEMMA NextIInv == IInv /\ [Next]_vars => IInv'
<1> SUFFICES ASSUME IInv, [Next]_vars PROVE IInv'
  OBVIOUS
<1>1. ASSUME NEW p \in Pds, NEW x \in QR, Insert(p, x) PROVE IInv'
  <2>1. insert_into_not_full_pd_helper(p, x) \/ insert_into_full_pd_helper(p, x)
    BY <1>1 DEF Insert
  <2> QED BY <1>1, <2>1, InsertNotFullStep, InsertFullStep
<1>2. ASSUME NEW p \in Pds, NEW x \in QR, Remove(p, x) PROVE IInv'
  <2>1. \/ remove_from_l1(p, x) \/ remove_from_l1_missing(p, x) \/ remove_from_spare(p, x)
        \/ pop_and_add_to_l1(p, x) \/ nothing_to_pop(p, x)
    BY <1>2 DEF Remove
  <2> QED BY <1>2, <2>1, RemoveFromL1Step, RemoveMissingStep, RemoveFromSpareStep, PopStep,
             NothingToPopStep
<1>3. ASSUME UNCHANGED vars PROVE IInv'
  <2>1. /\ UNCHANGED <<main_buckets, big_quots_set, capacity, pd_array, spare_filter, live,
                       dropped, popped_past_l3>>
    BY <1>3 DEF vars, spareVars, l1Vars
  <2>2. TypeOK' /\ (Intact' => Intact)
    BY <2>1 DEF IInv, TypeOK, SpareTypeOK, Intact
  <2>3. ASSUME NEW q \in Pds, PdGood(q) PROVE PdGood(q)'
    BY <2>1, <2>3 DEF PdGood, Exact, Counted, Covered, SpareCount, spare_filter_Find
  <2> QED BY <2>1, <2>2, <2>3 DEF IInv
<1>4. ASSUME Next
      PROVE  \E p \in Pds, x \in QR : Insert(p, x) \/ Remove(p, x)
  <2>1. PICK k \in ClientKeys : Insert(k[1], k[2]) \/ Remove(k[1], k[2])
    BY <1>4 DEF Next
  <2>2. k[1] \in Pds /\ k[2] \in QR
    BY DictAssumption DEF Keys
  <2> QED BY <2>1, <2>2
<1> QED BY <1>1, <1>2, <1>3, <1>4

(* The invariant holds in every state of every behaviour of the filter. *)
THEOREM Inductive == Spec => []IInv
<1> QED BY InitIInv, NextIInv, PTL DEF Spec
-----------------------------------------------------------------------------
(* TypeOK: the state variables keep their types. *)
THEOREM TypeCorrect == Spec => []TypeOK
<1>1. IInv => TypeOK
  BY DEF IInv
<1> QED BY <1>1, Inductive, PTL

(* OverflowedIsFull: the last remainder byte that lookups compare with is  *)
(* never the stale one of a dictionary with room.                          *)
THEOREM StaysFull == Spec => []OverflowedIsFull
<1>1. IInv => OverflowedIsFull
  BY DEF IInv, OverflowedIsFull, PDOK
<1> QED BY <1>1, Inductive, PTL

(* Conservation: every copy the client has in is stored exactly once. *)
THEOREM NothingLost == Spec => []Conservation
<1>1. IInv => Conservation
  BY DEF IInv, PdGood, Counted, Conservation
<1> QED BY <1>1, Inductive, PTL

(* LowestInL1: the spare holds nothing smaller than a dictionary's last. *)
THEOREM LowestStayInL1 == Spec => []LowestInL1
<1>1. IInv => LowestInL1
  BY DEF IInv, PdGood, Covered, LowestInL1
<1> QED BY <1>1, Inductive, PTL

(* SpareFilterCovers: the spare's filter knows all the spare holds. *)
THEOREM FilterCovers == Spec => []SpareFilterCovers
<1>1. IInv => SpareFilterCovers
  BY DEF IInv, PdGood, Covered, SpareFilterCovers
<1> QED BY <1>1, Inductive, PTL

(* LastQuotDecodes: the cached last quotient is right between operations. *)
THEOREM CacheIsExact == Spec => []LastQuotDecodes
<1>1. IInv => LastQuotDecodes
  BY DEF IInv, PdGood, Exact, LastQuotDecodes
<1> QED BY <1>1, Inductive, PTL

(* What an element is in: the lookup that asks one level asks the right one. *)
LEMMA FindsWhatIsIn ==
  ASSUME IInv, Intact, NEW p \in Pds, NEW x \in QR
  PROVE  /\ live[<<p, x>>] > 0 => Lookup(p, x)
         /\ Lookup(p, x) /\ live[<<p, x>>] = 0 => cmp_qr1(x, pd_array[p])
<1> DEFINE pd == pd_array[p]
<1>1. /\ PDOK(pd) /\ Exact(pd)
      /\ live[<<p, x>>] = pd.items[x] + SpareCount(p, x)
      /\ SpareCount(p, x) > 0 =>
           pd.overflowed /\ ~Less(x, LastItem(pd)) /\ spare_filter_Find(<<p, x>>)
      /\ pd.items[x] \in Nat /\ SpareCount(p, x) \in Nat
  BY Types DEF PdGood, Counted, Covered
<1>2. Lookup(p, x) <=> IF cmp_qr1(x, pd) THEN spare_filter_Find(<<p, x>>) ELSE pd.items[x] > 0
  BY DEF Lookup, pd_find_25
<1> HIDE DEF pd
<1>3. CASE ~pd.overflowed
  BY <1>1, <1>2, <1>3 DEF cmp_qr1, pd
<1>4. CASE pd.overflowed
  <2>1. /\ LastItem(pd) \in QR /\ LastItem(pd) \in Held(pd)
        /\ \A y \in Held(pd) : ~Less(LastItem(pd), y)
    BY <1>1, <1>4, FullIsNotEmpty, LastItemType DEF PDOK
  <2>2. \A y \in QR : y \in Held(pd) <=> pd.items[y] > 0
    BY <1>1, HeldIsFingerprints DEF Held, PDOK, PD
  <2>3. CASE Less(LastItem(pd), x)
    BY <1>1, <1>2, <1>4, <2>1, <2>2, <2>3 DEF cmp_qr1, pd
  <2>4. CASE ~Less(LastItem(pd), x)
    <3>1. x = LastItem(pd) => pd.items[x] > 0
      BY <2>1, <2>2
    <3>2. SpareCount(p, x) > 0 => x = LastItem(pd)
      BY <1>1, <2>1, <2>4, LessIsTotalOrder
    <3> QED BY <1>1, <1>2, <2>4, <3>1, <3>2 DEF cmp_qr1
  <2> QED BY <2>3, <2>4
<1> QED BY <1>3, <1>4

LEMMA IInvFinds == IInv => NoFalseNegatives /\ FalsePositivesPastLast
<1> SUFFICES ASSUME IInv, Intact, NEW k \in Keys
             PROVE  /\ live[k] > 0 => k \in Positive
                    /\ k \in Positive /\ live[k] = 0 => cmp_qr1(k[2], pd_array[k[1]])
  BY DEF NoFalseNegatives, FalsePositivesPastLast, Positive
<1>1. k[1] \in Pds /\ k[2] \in QR /\ k = <<k[1], k[2]>>
  BY DEF Keys
<1> QED BY <1>1, FindsWhatIsIn DEF Positive

(* NoFalseNegatives: README's promise, for every filter whose spare is intact. *)
THEOREM FindsAll == Spec => []NoFalseNegatives
<1> QED BY IInvFinds, Inductive, PTL

(* FalsePositivesPastLast: a wrong yes comes from the spare's filter only. *)
THEOREM ExactBelowLast == Spec => []FalsePositivesPastLast
<1> QED BY IInvFinds, Inductive, PTL
-----------------------------------------------------------------------------
(***************************************************************************)
(* The filter implements ApproxSet.  An insertion may move an element from *)
(* its dictionary to the spare: the same lookup then asks the filter.      *)
(***************************************************************************)
LEMMA InsertKeepsYes ==
  ASSUME IInv, Intact, Intact', NEW p \in Pds, NEW x \in QR, Insert(p, x)
  PROVE  Positive \subseteq Positive'
<1> SUFFICES ASSUME NEW q \in Pds, NEW y \in QR, Lookup(q, y) PROVE Lookup(q, y)'
  BY DEF Positive, Keys
<1> DEFINE pd == pd_array[p]
<1>1. PDOK(pd) /\ Exact(pd) /\ pd_array \in [Pds -> PD]
  BY Types DEF PdGood
<1>2. CASE insert_into_not_full_pd_helper(p, x)
  <2> DEFINE new == pd_add_50_not_full(x, pd)
  <2>1. pd_array' = [pd_array EXCEPT ![p] = new] /\ spare_filter' = spare_filter /\ ~pd_full(pd)
    BY <1>2 DEF insert_into_not_full_pd_helper
  <2>2. /\ ~pd.overflowed /\ ~new.overflowed
        /\ \A z \in QR : new.items[z] = pd.items[z] + IF z = x THEN 1 ELSE 0
    <3> HIDE DEF pd
    <3> QED BY <1>1, <2>1, AddNotFull DEF Gains
  <2> HIDE DEF new
  <2>3. CASE q = p
    <3>1. pd.items[y] > 0 /\ pd.items[y] \in Nat
      BY <1>1, <2>2, <2>3 DEF Lookup, cmp_qr1, pd_find_25, PDOK, PD
    <3>2. new.items[y] > 0
      BY <2>2, <3>1
    <3> QED BY <1>1, <2>1, <2>2, <2>3, <3>2 DEF Lookup, cmp_qr1, pd_find_25
  <2>4. CASE q # p
    BY <1>1, <2>1, <2>4 DEF Lookup, spare_filter_Find
  <2> QED BY <2>3, <2>4
<1>3. CASE insert_into_full_pd_helper(p, x)
  <2> DEFINE s == pd_swap_short(x, pd)
             new == s.pd
             qr == s.qr
  <2>1. /\ pd_array' = [pd_array EXCEPT ![p] = new] /\ pd_full(pd)
        /\ spare_filter' = spare_filter \cup SpareFilterBits[<<p, qr>>]
    BY <1>3 DEF insert_into_full_pd_helper
  <2> HIDE DEF pd
  <2>2. /\ PDOK(new) /\ pd_full(new) /\ new.overflowed /\ Exact(new) /\ qr \in QR
        /\ \A z \in QR : pd.items[z] + (IF z = x THEN 1 ELSE 0)
                         = new.items[z] + (IF z = qr THEN 1 ELSE 0)
        /\ ~Less(LastItem(pd), LastItem(new))
        /\ ~Less(qr, LastItem(new))
    BY <1>1, <2>1, SwapWhenFull
  <2> HIDE DEF s, new, qr
  <2>3. /\ LastItem(pd) \in QR
        /\ LastItem(new) \in QR /\ new.items[LastItem(new)] > 0
        /\ \A z \in QR : new.items[z] > 0 => ~Less(LastItem(new), z)
    <3>1. LastItem(pd) \in QR /\ LastItem(new) \in QR
      BY <1>1, <2>1, <2>2, FullIsNotEmpty, LastItemType
    <3>2. LastItem(new) \in Held(new) /\ \A z \in Held(new) : ~Less(LastItem(new), z)
      BY <2>2, FullIsNotEmpty, LastItemType
    <3>3. \A z \in QR : z \in Held(new) <=> new.items[z] > 0
      BY <2>2, HeldIsFingerprints DEF Held, PDOK, PD
    <3> QED BY <3>1, <3>2, <3>3
  <2>4. CASE q # p
    BY <1>1, <2>1, <2>4 DEF Lookup, spare_filter_Find
  <2>5. CASE q = p /\ Less(LastItem(new), y)
    <3>1. spare_filter_Find(<<p, y>>)'
      <4>1. CASE spare_filter_Find(<<p, y>>)
        BY <2>1, <4>1 DEF spare_filter_Find
      <4>2. CASE ~spare_filter_Find(<<p, y>>)
        <5>1. pd.items[y] > 0 /\ pd.items[y] \in Nat
          BY <1>1, <2>5, <4>2 DEF Lookup, pd_find_25, pd, PDOK, PD
        <5>2. new.items[y] \in Nat /\ ~(new.items[y] > 0)
          BY <2>2, <2>3, <2>5 DEF PDOK, PD
        <5>3. y = qr
          BY <2>2, <5>1, <5>2
        <5> QED BY <2>1, <5>3 DEF spare_filter_Find
      <4> QED BY <4>1, <4>2
    <3> QED BY <1>1, <2>1, <2>2, <2>5, <3>1 DEF Lookup, cmp_qr1
  <2>6. CASE q = p /\ ~Less(LastItem(new), y)
    <3>1. pd.items[y] > 0 /\ pd.items[y] \in Nat
      <4>1. ~Less(LastItem(pd), y)
        BY <2>2, <2>3, <2>6, LessIsTotalOrder
      <4> QED BY <1>1, <2>6, <4>1 DEF Lookup, cmp_qr1, pd_find_25, pd, PDOK, PD
    <3>2. new.items[y] > 0
      <4>1. CASE y = qr
        BY <2>2, <2>3, <2>6, <4>1, LessIsTotalOrder
      <4>2. CASE y # qr
        <5>1. pd.items[y] + (IF y = x THEN 1 ELSE 0) = new.items[y] + (IF y = qr THEN 1 ELSE 0)
          BY <2>2
        <5>2. new.items[y] \in Nat
          BY <2>2 DEF PDOK, PD
        <5> QED BY <3>1, <4>2, <5>1, <5>2
      <4> QED BY <4>1, <4>2
    <3> QED BY <1>1, <2>1, <2>6, <3>2 DEF Lookup, cmp_qr1, pd_find_25
  <2> QED BY <2>4, <2>5, <2>6
<1> QED BY <1>2, <1>3 DEF Insert

(* A removal never lowers the last element of a dictionary that stays overflowed. *)
LEMMA RemoveRaisesLast ==
  ASSUME IInv, Intact, Intact', NEW p \in Pds, NEW x \in QR, Remove(p, x)
  PROVE  /\ \A q \in Pds : q # p => pd_array'[q] = pd_array[q]
         /\ pd_array'[p].overflowed =>
              pd_array[p].overflowed /\ ~Less(LastItem(pd_array'[p]), LastItem(pd_array[p]))
<1>1. pd_array \in [Pds -> PD] /\ PDOK(pd_array[p])
  BY Types
<1>2. CASE remove_from_l1(p, x)
  BY <1>1, <1>2 DEF remove_from_l1, delete_element
<1>3. CASE remove_from_l1_missing(p, x)
  BY <1>3, RemoveMissingStep
<1>4. CASE remove_from_spare(p, x)
  <2>1. pd_array' = pd_array /\ pd_array[p].overflowed
    BY <1>4 DEF remove_from_spare
  <2>2. LastItem(pd_array[p]) \in QR
    BY <1>1, <2>1, FullIsNotEmpty, LastItemType DEF PDOK
  <2> QED BY <2>1, <2>2, LessIsTotalOrder
<1>5. CASE pop_and_add_to_l1(p, x)
  <2>1. /\ pd_array[p].overflowed
        /\ \A q \in Pds : q # p => pd_array'[q] = pd_array[q]
    BY <1>1, <1>5 DEF pop_and_add_to_l1
  <2> QED BY <1>5, <2>1, PopStep
<1>6. CASE nothing_to_pop(p, x)
  <2>1. \A q \in Pds : q # p => pd_array'[q] = pd_array[q]
    BY <1>1, <1>6 DEF nothing_to_pop
  <2> QED BY <1>6, <2>1, NothingToPopStep
<1> QED BY <1>2, <1>3, <1>4, <1>5, <1>6 DEF Remove

LEMMA RemoveKeepsNo ==
  ASSUME IInv, IInv', Intact, Intact', NEW p \in Pds, NEW x \in QR, Remove(p, x)
  PROVE  Positive' \subseteq Positive
<1> SUFFICES ASSUME NEW q \in Pds, NEW y \in QR, Lookup(q, y)' PROVE Lookup(q, y)
  BY DEF Positive, Keys
<1>1. CASE live[<<q, y>>] > 0
  BY <1>1, FindsWhatIsIn
<1>2. CASE ~(live[<<q, y>>] > 0)
  <2>1. live'[<<q, y>>] = 0
    <3>1. live[<<q, y>>] = 0 /\ ~(q = p /\ y = x)
      BY <1>2, Types, RemoveParts
    <3>2. LiveStep(p, x, -1)
      BY RemoveParts
    <3>3. live'[<<q, y>>] = live[<<q, y>>] + IF q = p /\ y = x THEN -1 ELSE 0
      BY <3>2 DEF LiveStep
    <3> QED BY <3>1, <3>3
  <2>2. cmp_qr1(y, pd_array'[q])
    <3>1. NoFalseNegatives' /\ FalsePositivesPastLast'
      BY IInvFinds, PTL
    <3>2. <<q, y>> \in Positive'
      BY DEF Positive, Keys
    <3> QED BY <2>1, <3>1, <3>2 DEF FalsePositivesPastLast
  <2>3. spare_filter_Find(<<q, y>>)
    BY <2>2, RemoveParts DEF Lookup, spare_filter_Find
  <2>4. cmp_qr1(y, pd_array[q])
    <3>1. CASE q # p
      BY <2>2, <3>1, RemoveRaisesLast
    <3>2. CASE q = p
      <4>1. /\ pd_array[p].overflowed /\ pd_array'[p].overflowed
            /\ ~Less(LastItem(pd_array'[p]), LastItem(pd_array[p]))
            /\ Less(LastItem(pd_array'[p]), y)
        BY <2>2, <3>2, RemoveRaisesLast DEF cmp_qr1
      <4>2. PDOK(pd_array[p]) /\ PDOK(pd_array'[p])
        BY DEF IInv
      <4>3. LastItem(pd_array[p]) \in QR
        BY <4>1, <4>2, FullIsNotEmpty, LastItemType DEF PDOK
      <4>4. LastItem(pd_array'[p]) \in QR
        BY <4>1, <4>2, FullIsNotEmpty, LastItemType DEF PDOK
      <4>5. Less(LastItem(pd_array[p]), y)
        BY <4>1, <4>3, <4>4, LessIsTotalOrder
      <4> QED BY <3>2, <4>1, <4>5 DEF cmp_qr1
    <3> QED BY <3>1, <3>2
  <2> QED BY <2>3, <2>4 DEF Lookup
<1> QED BY <1>1, <1>2

(* KeepsPromise: whatever swaps, pops and refills happen inside, the client *)
(* sees the abstract filter of ApproxSet.                                   *)
THEOREM Implements == Spec => KeepsPromise
<1>1. Init => Promise!Init
  <2> SUFFICES ASSUME Init PROVE Promise!Init
    OBVIOUS
  <2>1. ~(~Intact)
    BY DEF Init, Intact
  <2>2. ASSUME NEW k \in Keys PROVE ~Lookup(k[1], k[2])
    BY DEF Keys, Init, Lookup, cmp_qr1, pd_find_25, EmptyPD, NoCopies
  <2> QED BY <2>1, <2>2 DEF Init, Promise!Init, Positive, NoCopies
<1>2. IInv /\ IInv' /\ [Next]_vars => [Promise!Next]_(Promise!vars)
  <2> SUFFICES ASSUME IInv, IInv', [Next]_vars PROVE [Promise!Next]_(Promise!vars)
    OBVIOUS
  <2>1. ASSUME NEW p \in Pds, NEW x \in QR, Insert(p, x) PROVE Promise!Next
    <3>1. <<p, x>> \in Keys /\ live' = [live EXCEPT ![<<p, x>>] = @ + 1]
      BY <2>1 DEF Insert, AddCopy, Keys
    <3>2. ASSUME Intact' PROVE Intact /\ Positive \cup {<<p, x>>} \subseteq Positive'
      <4>1. Intact
        BY <2>1, <3>2, Types DEF Insert, insert_into_not_full_pd_helper,
                                 insert_into_full_pd_helper, Intact
      <4>2. Positive \subseteq Positive'
        BY <2>1, <3>2, <4>1, InsertKeepsYes
      <4>3. live'[<<p, x>>] > 0
        BY <2>1, <3>1, Types
      <4>4. Lookup(p, x)'
        <5>1. NoFalseNegatives'
          BY IInvFinds, PTL
        <5> QED BY <3>1, <3>2, <4>3, <5>1 DEF NoFalseNegatives, Positive
      <4> QED BY <3>1, <4>2, <4>1, <4>4 DEF Positive
    <3>3. Promise!Insert(<<p, x>>)
      BY <3>1, <3>2 DEF Promise!Insert
    <3> QED BY <3>1, <3>3 DEF Promise!Next
  <2>2. ASSUME NEW p \in Pds, NEW x \in QR, Remove(p, x) PROVE Promise!Next
    <3>1. /\ <<p, x>> \in Keys /\ live' = [live EXCEPT ![<<p, x>>] = @ - 1]
          /\ live[<<p, x>>] > 0
      BY <2>2 DEF Remove, RemoveCopy, Keys
    <3>2. ASSUME Intact'
          PROVE  /\ Intact /\ Positive' \subseteq Positive
                 /\ {k \in Keys : live'[k] > 0} \subseteq Positive'
      <4>1. Intact
        BY <2>2, <3>2, Types DEF Remove, remove_from_l1, remove_from_l1_missing,
             remove_from_spare, pop_and_add_to_l1, nothing_to_pop, Intact
      <4>2. Positive' \subseteq Positive
        BY <2>2, <3>2, <4>1, RemoveKeepsNo
      <4>3. NoFalseNegatives'
        BY IInvFinds, PTL
      <4> QED BY <3>2, <4>1, <4>2, <4>3 DEF NoFalseNegatives
    <3>3. Promise!Remove(<<p, x>>)
      BY <3>1, <3>2 DEF Promise!Remove, Promise!In
    <3> QED BY <3>1, <3>3 DEF Promise!Next
  <2>3. CASE UNCHANGED vars
    BY <2>3 DEF vars, spareVars, l1Vars, Promise!vars, Positive, Lookup, spare_filter_Find, Intact
  <2>4. CASE Next
    <3>1. PICK k \in ClientKeys : Insert(k[1], k[2]) \/ Remove(k[1], k[2])
      BY <2>4 DEF Next
    <3>2. k[1] \in Pds /\ k[2] \in QR
      BY DictAssumption DEF Keys
    <3> QED BY <2>1, <2>2, <3>1, <3>2
  <2> QED BY <2>3, <2>4
<1> QED BY <1>1, <1>2, Inductive, PTL DEF Spec, Promise!Spec, KeepsPromise
=============================================================================
