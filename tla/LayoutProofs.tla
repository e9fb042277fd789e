---------------------------- MODULE LayoutProofs ----------------------------
(***************************************************************************)
(* Facts about the cutting of a file (Layout), for every file size: what   *)
(* the arithmetic of Client::Put and its placement table guarantee.        *)
(***************************************************************************)
EXTENDS Layout, TLAPS

(* Integer division by four, the only arithmetic the layout needs.         *)
LEMMA QuarterOf ==
  ASSUME NEW size \in Nat
  PROVE  /\ size \div 4 \in Nat
         /\ size % 4 \in 0..3
         /\ size = 4 * (size \div 4) + (size % 4)
OBVIOUS

(* A part never has a negative length, and parts are cut from offset 0 on. *)
LEMMA PartSliceType ==
  ASSUME NEW size \in Nat, NEW p \in Part
  PROVE  PartLength(size, p) \in Nat /\ PartOffset(size, p) \in Nat
<1>1. size \div 4 \in Nat /\ size - (size \div 4) * 3 \in Nat
  BY QuarterOf
<1> QED
  BY <1>1 DEF PartLength, PartOffset, PartSizeFirst, PartSizeLast, Part

(* The four slices tile the file: they start at 0, follow each other, and  *)
(* end at the size, so the parts in order are the file.                    *)
LEMMA PartsTile ==
  ASSUME NEW size \in Nat
  PROVE  /\ PartOffset(size, 1) = 0
         /\ \A p \in 1..3 : PartOffset(size, p + 1) = PartOffset(size, p) + PartLength(size, p)
         /\ PartOffset(size, 4) + PartLength(size, 4) = size
BY QuarterOf DEF PartLength, PartOffset, PartSizeFirst, PartSizeLast

(* Every byte of the file belongs to one of the four parts.                *)
LEMMA EveryByteInAPart ==
  ASSUME NEW size \in Nat, NEW b \in 0..(size - 1)
  PROVE  \E p \in Part : /\ PartOffset(size, p) <= b
                         /\ b < PartOffset(size, p) + PartLength(size, p)
<1> DEFINE q == size \div 4
<1>1. q \in Nat /\ size = 4 * q + (size % 4) /\ size % 4 \in 0..3
  BY QuarterOf
<1>2. \A p \in Part : PartOffset(size, p) = q * (p - 1)
  BY DEF PartOffset, PartSizeFirst
<1>3. \A p \in 1..3 : PartLength(size, p) = q
  BY DEF PartLength, PartSizeFirst
<1>4. PartOffset(size, 4) + PartLength(size, 4) = size
  BY PartsTile
<1>5. CASE b < q
  BY <1>1, <1>2, <1>3, <1>5 DEF Part
<1>6. CASE q <= b /\ b < 2 * q
  BY <1>1, <1>2, <1>3, <1>6 DEF Part
<1>7. CASE 2 * q <= b /\ b < 3 * q
  BY <1>1, <1>2, <1>3, <1>7 DEF Part
<1>8. CASE 3 * q <= b
  <2>1. PartOffset(size, 4) = q * 3
    BY <1>1, <1>2 DEF Part
  <2> QED
    BY <1>4, <1>8, <2>1 DEF Part
<1> HIDE DEF q
<1> QED
  BY <1>1, <1>5, <1>6, <1>7, <1>8

(* The placement table: for every hash value the four servers get the four *)
(* pairs, one each.                                                        *)
LEMMA TableIsPermutation ==
  ASSUME NEW x \in HashValue
  PROVE  /\ \A s \in Server : FilePieces(s, x) \in PairNumber
         /\ \A s, t \in Server : FilePieces(s, x) = FilePieces(t, x) => s = t
         /\ \A k \in PairNumber : \E s \in Server : FilePieces(s, x) = k
<1>1. x = 0 \/ x = 1 \/ x = 2 \/ x = 3
  BY DEF HashValue
<1>2. CASE x = 0
  BY <1>2 DEF FilePieces, Server, PairNumber
<1>3. CASE x = 1
  BY <1>3 DEF FilePieces, Server, PairNumber
<1>4. CASE x = 2
  BY <1>4 DEF FilePieces, Server, PairNumber
<1>5. CASE x = 3
  BY <1>5 DEF FilePieces, Server, PairNumber
<1> QED
  BY <1>1, <1>2, <1>3, <1>4, <1>5

(* Every part is given to a server other than any one server: the loss of  *)
(* one server leaves a copy of each part.                                  *)
LEMMA EveryPartTwice ==
  ASSUME NEW x \in HashValue, NEW p \in Part, NEW lost \in Server
  PROVE  \E s \in Server \ {lost} : p \in PartsOf(s, x)
<1> DEFINE before == IF p = 1 THEN 4 ELSE p - 1
<1>1. p \in PairNumber /\ before \in PairNumber /\ before # p
  BY DEF Part, PairNumber
<1>2. Pair(p)[1] = p /\ Pair(before)[2] = p
  BY <1>1 DEF Pair, PairNumber, Part
<1>3. PICK s \in Server : FilePieces(s, x) = p
  BY <1>1, TableIsPermutation
<1>4. PICK t \in Server : FilePieces(t, x) = before
  BY <1>1, TableIsPermutation
<1>5. p \in PartsOf(s, x) /\ p \in PartsOf(t, x)
  BY <1>2, <1>3, <1>4 DEF PartsOf
<1>6. s # t
  BY <1>1, <1>3, <1>4
<1> QED
  BY <1>5, <1>6
=============================================================================
