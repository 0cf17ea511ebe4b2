----------------------------- MODULE SWF_proofs ------------------------------
(***************************************************************************)
(* Theorems about the single write frontier FTL, for every block size,      *)
(* plane size, set of trimmed lpns, erase budget and garbage collector: the *)
(* inductive invariant IInv, the properties it is made of, and that no page *)
(* is lost but through a stale entry or a failed write.                     *)
(***************************************************************************)
EXTENDS SWF, FlashPlane_proofs

-----------------------------------------------------------------------------
(* Old copies.                                                             *)

LEMMA AddressSets ==
  ASSUME NEW S \in SUBSET Address
  PROVE  IsFiniteSet(S) /\ Cardinality(S) \in Nat
<1> DEFINE f == [x \in Block \X PageNo |-> [block |-> x[1], page |-> x[2]]]
<1>1. IsFiniteSet(Block) /\ IsFiniteSet(PageNo)
  BY CollectorAssumption, BlockAssumption, FS_Interval DEF Block, PageNo
<1>2. IsFiniteSet(Block \X PageNo)
  BY <1>1, FS_Product
<1>3. f \in [Block \X PageNo -> Address]
  BY DEF Address
<1>4. ASSUME NEW a \in Address
      PROVE  \E x \in Block \X PageNo : f[x] = a
  <2>1. <<a.block, a.page>> \in Block \X PageNo /\ f[<<a.block, a.page>>] = a
    BY DEF Address
  <2> QED
    BY <2>1
<1>5. f \in Surjection(Block \X PageNo, Address)
  BY <1>3, <1>4 DEF Surjection
<1>6. IsFiniteSet(Address)
  BY <1>2, <1>5, FS_Surjection
<1>7. IsFiniteSet(S)
  BY <1>6, FS_Subset
<1> QED
  BY <1>7, FS_CardinalityType

(* A step that makes no new old copy.                                       *)
LEMMA FewerStale ==
  ASSUME StaleOnlyByFailure, failures \in Nat, failures' = failures,
         StaleCopies' \subseteq StaleCopies
  PROVE  StaleOnlyByFailure'
<1>1. StaleCopies \subseteq Address
  BY DEF StaleCopies
<1>2. IsFiniteSet(StaleCopies) /\ Cardinality(StaleCopies) \in Nat
  BY <1>1, AddressSets
<1>3. Cardinality(StaleCopies') <= Cardinality(StaleCopies)
  BY <1>2, FS_Subset
<1>4. Cardinality(StaleCopies') \in Nat
  BY <1>1, AddressSets
<1> QED
  BY <1>2, <1>3, <1>4 DEF StaleOnlyByFailure

-----------------------------------------------------------------------------
(* Counters that are too high.  A method treats a block as it treats the one  *)
(* whose counters are put right.                                            *)
Corrected(blk, i, j) == [blk EXCEPT !.pages_valid = @ - i, !.pages_invalid = @ - j]

LEMMA SameBlock ==
  ASSUME NEW b \in BlockState, NEW c \in BlockState,
         b.data = c.data, b.pages_valid = c.pages_valid, b.pages_invalid = c.pages_invalid,
         b.min_seek_empty = c.min_seek_empty, b.erases_remaining = c.erases_remaining
  PROVE  b = c
BY DEF BlockState

LEMMA CorrectedFacts ==
  ASSUME NEW blk \in BlockState, NEW i \in Int, NEW j \in Int
  PROVE  /\ Corrected(blk, i, j) \in BlockState
         /\ Corrected(blk, i, j).data = blk.data
         /\ Corrected(blk, i, j).pages_valid = blk.pages_valid - i
         /\ Corrected(blk, i, j).pages_invalid = blk.pages_invalid - j
         /\ Corrected(blk, i, j).min_seek_empty = blk.min_seek_empty
         /\ Corrected(blk, i, j).erases_remaining = blk.erases_remaining
         /\ FreePages(Corrected(blk, i, j)) = FreePages(blk)
<1> DEFINE c == Corrected(blk, i, j)
<1>1. /\ c \in BlockState
      /\ c.data = blk.data
      /\ c.pages_valid = blk.pages_valid - i
      /\ c.pages_invalid = blk.pages_invalid - j
      /\ c.min_seek_empty = blk.min_seek_empty
      /\ c.erases_remaining = blk.erases_remaining
  <2>1. /\ blk.data \in PageData /\ blk.pages_valid \in Int /\ blk.pages_invalid \in Int
        /\ blk.min_seek_empty \in 0 .. BLOCK_SIZE /\ blk.erases_remaining \in Nat
    BY DEF BlockState
  <2>2. blk.pages_valid - i \in Int /\ blk.pages_invalid - j \in Int
    BY <2>1
  <2>3. c = [blk EXCEPT !.pages_valid = blk.pages_valid - i,
                        !.pages_invalid = blk.pages_invalid - j]
    BY DEF Corrected
  <2>4. c \in BlockState
    BY <2>2, <2>3 DEF BlockState
  <2>5. /\ c.data = blk.data
        /\ c.min_seek_empty = blk.min_seek_empty
        /\ c.erases_remaining = blk.erases_remaining
    BY <2>3 DEF BlockState
  <2>6. /\ c.pages_valid = blk.pages_valid - i
        /\ c.pages_invalid = blk.pages_invalid - j
    BY <2>3 DEF BlockState
  <2> QED
    BY <2>4, <2>5, <2>6
<1> HIDE DEF c
<1>2. FreePages(c) = FreePages(blk)
  BY <1>1 DEF FreePages
<1> QED
  BY <1>1, <1>2 DEF c

LEMMA CountedButMeans ==
  ASSUME NEW blk \in BlockState, NEW n \in Nat
  PROVE  /\ CountedBut(blk, n) <=>
              \E i, j \in 0 .. n : i + j <= n /\ Counted(Corrected(blk, i, j))
         /\ Counted(blk) => CountedBut(blk, n)
<1>1. CountedBut(blk, n) <=>
        \E i, j \in 0 .. n : i + j <= n /\ Counted(Corrected(blk, i, j))
  BY DEF CountedBut, Corrected
<1>2. Corrected(blk, 0, 0) = blk
  <2>1. /\ Corrected(blk, 0, 0) \in BlockState
        /\ Corrected(blk, 0, 0).data = blk.data
        /\ Corrected(blk, 0, 0).pages_valid = blk.pages_valid - 0
        /\ Corrected(blk, 0, 0).pages_invalid = blk.pages_invalid - 0
        /\ Corrected(blk, 0, 0).min_seek_empty = blk.min_seek_empty
        /\ Corrected(blk, 0, 0).erases_remaining = blk.erases_remaining
    BY CorrectedFacts
  <2>2. blk.pages_valid - 0 = blk.pages_valid /\ blk.pages_invalid - 0 = blk.pages_invalid
    BY DEF BlockState
  <2> QED
    BY <2>1, <2>2, SameBlock
<1>3. 0 \in 0 .. n /\ 0 + 0 <= n
  OBVIOUS
<1> QED
  BY <1>1, <1>2, <1>3

(* It is enough to find a block that is counted and differs in its counters.  *)
LEMMA CountedButOf ==
  ASSUME NEW n \in Nat, NEW i \in 0 .. n, NEW j \in 0 .. n, i + j <= n,
         NEW new \in BlockState, NEW c \in BlockState, Counted(c), c.data = new.data,
         c.pages_valid = new.pages_valid - i, c.pages_invalid = new.pages_invalid - j,
         c.min_seek_empty = new.min_seek_empty, c.erases_remaining = new.erases_remaining
  PROVE  CountedBut(new, n)
<1>1. i \in Int /\ j \in Int
  OBVIOUS
<1>2. /\ Corrected(new, i, j) \in BlockState
      /\ Corrected(new, i, j).data = new.data
      /\ Corrected(new, i, j).pages_valid = new.pages_valid - i
      /\ Corrected(new, i, j).pages_invalid = new.pages_invalid - j
      /\ Corrected(new, i, j).min_seek_empty = new.min_seek_empty
      /\ Corrected(new, i, j).erases_remaining = new.erases_remaining
  BY <1>1, CorrectedFacts
<1>3. Corrected(new, i, j) = c
  BY <1>2, SameBlock
<1> QED
  BY <1>3, CountedButMeans

LEMMA CountedButGives ==
  ASSUME NEW blk \in BlockState, NEW n \in Nat, CountedBut(blk, n)
  PROVE  \E i, j \in 0 .. n : \E c \in BlockState :
           /\ i + j <= n /\ Counted(c) /\ c.data = blk.data
           /\ c.pages_valid = blk.pages_valid - i /\ c.pages_invalid = blk.pages_invalid - j
           /\ c.min_seek_empty = blk.min_seek_empty
           /\ c.erases_remaining = blk.erases_remaining
<1>1. PICK i \in 0 .. n, j \in 0 .. n : i + j <= n /\ Counted(Corrected(blk, i, j))
  BY CountedButMeans
<1>2. i \in Int /\ j \in Int
  OBVIOUS
<1>3. /\ Corrected(blk, i, j) \in BlockState
      /\ Corrected(blk, i, j).data = blk.data
      /\ Corrected(blk, i, j).pages_valid = blk.pages_valid - i
      /\ Corrected(blk, i, j).pages_invalid = blk.pages_invalid - j
      /\ Corrected(blk, i, j).min_seek_empty = blk.min_seek_empty
      /\ Corrected(blk, i, j).erases_remaining = blk.erases_remaining
  BY <1>2, CorrectedFacts
<1> QED
  BY <1>1, <1>3

LEMMA InvalidateFields ==
  ASSUME NEW blk \in BlockState, NEW p \in PageNo
  PROVE  LET new == InvalidatePage(blk, p)
         IN  /\ new.pages_valid =
                  IF blk.data[p] \in LPN THEN blk.pages_valid - 1 ELSE blk.pages_valid
             /\ new.pages_invalid =
                  IF blk.data[p] = INVALID THEN blk.pages_invalid ELSE blk.pages_invalid + 1
             /\ new.min_seek_empty = blk.min_seek_empty
             /\ new.erases_remaining = blk.erases_remaining
             /\ blk.pages_valid \in Int /\ blk.pages_invalid \in Int
BY BlockAssumption DEF InvalidatePage, BlockState

LEMMA WriteFields ==
  ASSUME NEW blk \in BlockState, NEW p \in PageNo, NEW l \in LPN
  PROVE  LET new == WritePage(blk, p, l)
         IN  /\ new.pages_valid = blk.pages_valid + 1
             /\ new.pages_invalid = blk.pages_invalid
             /\ new.min_seek_empty = blk.min_seek_empty
             /\ new.erases_remaining = blk.erases_remaining
             /\ blk.pages_valid \in Int /\ blk.pages_invalid \in Int
BY DEF WritePage, BlockState

LEMMA SeekFields ==
  ASSUME NEW blk \in BlockState
  PROVE  LET new == SeekNextPage(blk)
         IN  /\ new.pages_valid = blk.pages_valid
             /\ new.pages_invalid = blk.pages_invalid
             /\ new.min_seek_empty = NextPage(blk)
             /\ new.erases_remaining = blk.erases_remaining
BY DEF SeekNextPage, BlockState

LEMMA CountedButInvalidate ==
  ASSUME NEW blk \in BlockState, NEW n \in Nat, CountedBut(blk, n), NEW p \in PageNo
  PROVE  CountedBut(InvalidatePage(blk, p), n)
<1>1. PICK i \in 0 .. n, j \in 0 .. n : \E c \in BlockState :
        /\ i + j <= n /\ Counted(c) /\ c.data = blk.data
        /\ c.pages_valid = blk.pages_valid - i /\ c.pages_invalid = blk.pages_invalid - j
        /\ c.min_seek_empty = blk.min_seek_empty
        /\ c.erases_remaining = blk.erases_remaining
  BY CountedButGives
<1>2. PICK c \in BlockState :
        /\ i + j <= n /\ Counted(c) /\ c.data = blk.data
        /\ c.pages_valid = blk.pages_valid - i /\ c.pages_invalid = blk.pages_invalid - j
        /\ c.min_seek_empty = blk.min_seek_empty
        /\ c.erases_remaining = blk.erases_remaining
  BY <1>1
<1> DEFINE new   == InvalidatePage(blk, p)
           right == InvalidatePage(c, p)
<1>3. new \in BlockState /\ right \in BlockState /\ right.data = new.data /\ Counted(right)
  <2>1. new \in BlockState /\ new.data = [blk.data EXCEPT ![p] = INVALID]
    BY InvalidateType
  <2>2. right \in BlockState /\ right.data = [c.data EXCEPT ![p] = INVALID]
    BY InvalidateType
  <2>3. Counted(right)
    BY <1>2, CountedInvalidate
  <2> QED
    BY <1>2, <2>1, <2>2, <2>3
<1>4. /\ right.pages_valid = new.pages_valid - i
      /\ right.pages_invalid = new.pages_invalid - j
      /\ right.min_seek_empty = new.min_seek_empty
      /\ right.erases_remaining = new.erases_remaining
  BY <1>2, InvalidateFields
<1> HIDE DEF new, right
<1>5. CountedBut(new, n)
  BY <1>2, <1>3, <1>4, CountedButOf
<1> QED
  BY <1>5 DEF new

LEMMA CountedButSeek ==
  ASSUME NEW blk \in BlockState, NEW n \in Nat, CountedBut(blk, n), HasNextPage(blk)
  PROVE  CountedBut(SeekNextPage(blk), n)
<1>1. PICK i \in 0 .. n, j \in 0 .. n : \E c \in BlockState :
        /\ i + j <= n /\ Counted(c) /\ c.data = blk.data
        /\ c.pages_valid = blk.pages_valid - i /\ c.pages_invalid = blk.pages_invalid - j
        /\ c.min_seek_empty = blk.min_seek_empty
        /\ c.erases_remaining = blk.erases_remaining
  BY CountedButGives
<1>2. PICK c \in BlockState :
        /\ i + j <= n /\ Counted(c) /\ c.data = blk.data
        /\ c.pages_valid = blk.pages_valid - i /\ c.pages_invalid = blk.pages_invalid - j
        /\ c.min_seek_empty = blk.min_seek_empty
        /\ c.erases_remaining = blk.erases_remaining
  BY <1>1
<1> DEFINE new   == SeekNextPage(blk)
           right == SeekNextPage(c)
<1>3. HasNextPage(c) /\ NextPage(c) = NextPage(blk)
  BY <1>2 DEF HasNextPage, NextPage, FreePages
<1>4. new \in BlockState /\ right \in BlockState /\ right.data = new.data /\ Counted(right)
  <2>1. new \in BlockState /\ new.data = blk.data
    BY SeekType
  <2>2. right \in BlockState /\ right.data = c.data
    BY <1>3, SeekType
  <2>3. Counted(right)
    BY <1>2, <1>3, CountedSeek
  <2> QED
    BY <1>2, <2>1, <2>2, <2>3
<1>5. /\ right.pages_valid = new.pages_valid - i
      /\ right.pages_invalid = new.pages_invalid - j
      /\ right.min_seek_empty = new.min_seek_empty
      /\ right.erases_remaining = new.erases_remaining
  BY <1>2, <1>3, SeekFields
<1> HIDE DEF new, right
<1>6. CountedBut(new, n)
  BY <1>2, <1>4, <1>5, CountedButOf
<1> QED
  BY <1>6 DEF new

(* An erase counts afresh.                                                  *)
LEMMA CountedButErase ==
  ASSUME NEW blk \in BlockState
  PROVE  /\ Erase(blk) \in BlockState
         /\ CanErase(blk) => Counted(Erase(blk)) /\ \A p \in PageNo : Erase(blk).data[p] = EMPTY
         /\ ~CanErase(blk) => Erase(blk) = blk
<1>1. CASE CanErase(blk)
  <2>1. NewBlock \in BlockState /\ NewBlock.data = [p \in PageNo |-> EMPTY]
    BY NewBlockType DEF NewBlock
  <2>2. WearOne(blk) \in Nat
    BY <1>1 DEF CanErase, WearOne, BlockState
  <2>3. /\ Erase(blk) = [NewBlock EXCEPT !.erases_remaining = WearOne(blk)]
        /\ Erase(blk) \in BlockState
        /\ Erase(blk).pages_valid = 0 /\ Erase(blk).pages_invalid = 0
        /\ Erase(blk).min_seek_empty = 0
        /\ \A p \in PageNo : Erase(blk).data[p] = EMPTY
    BY <1>1, <2>1, <2>2 DEF Erase, NewBlock, BlockState
  <2>4. /\ ValidPages(Erase(blk)) = {} /\ InvalidPages(Erase(blk)) = {}
        /\ FreePages(Erase(blk)) = EmptyPages(Erase(blk))
    BY <2>3, BlockAssumption DEF ValidPages, InvalidPages, FreePages, EmptyPages, PageNo
  <2> QED
    BY <1>1, <2>3, <2>4, FS_EmptySet, CountedMeans
<1>2. CASE ~CanErase(blk)
  BY <1>2 DEF Erase
<1> QED
  BY <1>1, <1>2

(* A program over a page that need not be EMPTY: what was VALID is counted    *)
(* twice, what was INVALID is still counted as INVALID.                      *)
LEMMA CountedButProgram ==
  ASSUME NEW blk \in BlockState, NEW n \in Nat, CountedBut(blk, n),
         NEW p \in PageNo, NEW l \in LPN
  PROVE  /\ CountedBut(WritePage(blk, p, l), n + 1)
         /\ blk.data[p] = EMPTY => CountedBut(WritePage(blk, p, l), n)
<1>1. PICK i \in 0 .. n, j \in 0 .. n : \E c \in BlockState :
        /\ i + j <= n /\ Counted(c) /\ c.data = blk.data
        /\ c.pages_valid = blk.pages_valid - i /\ c.pages_invalid = blk.pages_invalid - j
        /\ c.min_seek_empty = blk.min_seek_empty
        /\ c.erases_remaining = blk.erases_remaining
  BY CountedButGives
<1>2. PICK c \in BlockState :
        /\ i + j <= n /\ Counted(c) /\ c.data = blk.data
        /\ c.pages_valid = blk.pages_valid - i /\ c.pages_invalid = blk.pages_invalid - j
        /\ c.min_seek_empty = blk.min_seek_empty
        /\ c.erases_remaining = blk.erases_remaining
  BY <1>1
<1> DEFINE new   == WritePage(blk, p, l)
           right == WritePage(c, p, l)
<1>3. /\ new \in BlockState /\ right \in BlockState /\ right.data = new.data
      /\ blk.data \in PageData /\ new.data = [blk.data EXCEPT ![p] = l]
  BY <1>2, WritePageType DEF BlockState
<1>4. /\ new.pages_valid = blk.pages_valid + 1 /\ new.pages_invalid = blk.pages_invalid
      /\ new.min_seek_empty = blk.min_seek_empty
      /\ new.erases_remaining = blk.erases_remaining
      /\ blk.pages_valid \in Int /\ blk.pages_invalid \in Int
  BY WriteFields
<1>5. /\ right.pages_valid = new.pages_valid - i /\ right.pages_invalid = new.pages_invalid - j
      /\ right.min_seek_empty = new.min_seek_empty
      /\ right.erases_remaining = new.erases_remaining
  BY <1>2, WriteFields
<1>6. blk.data[p] = EMPTY => Counted(right)
  BY <1>2, CountedWrite
<1> HIDE DEF new, right
<1>7. \A q \in PageNo : new.data[q] = IF q = p THEN l ELSE blk.data[q]
  BY <1>3 DEF PageData
<1>8. CASE blk.data[p] = EMPTY
  <2>1. CountedBut(new, n)
    BY <1>2, <1>3, <1>5, <1>6, <1>8, CountedButOf
  <2>2. n + 1 \in Nat /\ i \in 0 .. n + 1 /\ j \in 0 .. n + 1 /\ i + j <= n + 1
    BY <1>2
  <2>3. CountedBut(new, n + 1)
    BY <1>3, <1>5, <1>6, <1>8, <2>2, CountedButOf
  <2> QED
    BY <2>1, <2>3 DEF new
<1>9. /\ ValidPages(c) = ValidPages(blk) /\ InvalidPages(c) = InvalidPages(blk)
      /\ FreePages(c) = FreePages(blk) /\ EmptyPages(c) = EmptyPages(blk)
  BY <1>2 DEF ValidPages, InvalidPages, FreePages, EmptyPages
<1>10. /\ blk.pages_valid - i = Cardinality(ValidPages(blk))
       /\ blk.pages_invalid - j = Cardinality(InvalidPages(blk))
       /\ FreePages(blk) = EmptyPages(blk)
  BY <1>2, <1>9, CountedMeans
<1>11. IsFiniteSet(ValidPages(blk)) /\ IsFiniteSet(InvalidPages(blk))
       /\ Cardinality(ValidPages(blk)) \in Nat /\ Cardinality(InvalidPages(blk)) \in Nat
  BY PagesPartition
<1>12. ASSUME NEW x \in 0 .. n + 1, NEW y \in 0 .. n + 1, x + y <= n + 1,
              new.pages_valid - x = Cardinality(ValidPages(new)),
              new.pages_invalid - y = Cardinality(InvalidPages(new)),
              blk.data[p] # EMPTY
       PROVE  CountedBut(new, n + 1)
  <2> DEFINE d == Corrected(new, x, y)
  <2>1. x \in Int /\ y \in Int /\ n + 1 \in Nat
    OBVIOUS
  <2>2. /\ d \in BlockState /\ d.data = new.data /\ FreePages(d) = FreePages(new)
        /\ d.pages_valid = new.pages_valid - x /\ d.pages_invalid = new.pages_invalid - y
    BY <1>3, <2>1, CorrectedFacts
  <2> HIDE DEF d
  <2>3. ValidPages(d) = ValidPages(new) /\ InvalidPages(d) = InvalidPages(new)
    BY <2>2 DEF ValidPages, InvalidPages
  <2>4. FreePages(new) = FreePages(blk) /\ EmptyPages(new) = EmptyPages(blk)
    BY <1>4, <1>7, <1>12, BlockAssumption DEF FreePages, EmptyPages
  <2>5. FreePages(d) = EmptyPages(d)
    BY <1>10, <2>2, <2>4 DEF EmptyPages
  <2>6. Counted(d)
    BY <1>12, <2>2, <2>3, <2>5, CountedMeans
  <2>7. \E k, m \in 0 .. n + 1 : k + m <= n + 1 /\ Counted(Corrected(new, k, m))
    BY <1>12, <2>6 DEF d
  <2> QED
    BY <1>3, <2>1, <2>7, CountedButMeans
<1>13. CASE blk.data[p] \in LPN
  <2>1. ValidPages(new) = ValidPages(blk) /\ InvalidPages(new) = InvalidPages(blk)
    BY <1>7, <1>13, BlockAssumption DEF ValidPages, InvalidPages
  <2>2. /\ i + 1 \in 0 .. n + 1 /\ j \in 0 .. n + 1 /\ (i + 1) + j <= n + 1
        /\ new.pages_valid - (i + 1) = blk.pages_valid - i
        /\ new.pages_invalid - j = blk.pages_invalid - j
    BY <1>2, <1>4
  <2>3. CountedBut(new, n + 1)
    BY <1>10, <1>12, <1>13, <2>1, <2>2, BlockAssumption
  <2> QED
    BY <1>13, <2>3, BlockAssumption DEF new
<1>14. CASE blk.data[p] = INVALID
  <2>1. /\ p \notin ValidPages(blk) /\ p \in InvalidPages(blk)
        /\ ValidPages(new) = ValidPages(blk) \cup {p}
        /\ InvalidPages(new) = InvalidPages(blk) \ {p}
    BY <1>7, <1>14, BlockAssumption DEF ValidPages, InvalidPages
  <2>2. Cardinality(ValidPages(new)) = Cardinality(ValidPages(blk)) + 1
    BY <1>11, <2>1, FS_AddElement
  <2>3. Cardinality(InvalidPages(new)) = Cardinality(InvalidPages(blk)) - 1
    BY <1>11, <2>1, FS_RemoveElement
  <2>4. /\ i \in 0 .. n + 1 /\ j + 1 \in 0 .. n + 1 /\ i + (j + 1) <= n + 1
        /\ new.pages_valid - i = (blk.pages_valid - i) + 1
        /\ new.pages_invalid - (j + 1) = (blk.pages_invalid - j) - 1
    BY <1>2, <1>4
  <2>5. /\ new.pages_valid - i = Cardinality(ValidPages(new))
        /\ new.pages_invalid - (j + 1) = Cardinality(InvalidPages(new))
    BY <1>10, <2>2, <2>3, <2>4
  <2>6. CountedBut(new, n + 1)
    BY <1>12, <1>14, <2>4, <2>5, BlockAssumption
  <2> QED
    BY <1>14, <2>6, BlockAssumption DEF new
<1>15. blk.data[p] \in LPN \cup {EMPTY, INVALID}
  BY DEF BlockState, PageData
<1> QED
  BY <1>8, <1>13, <1>14, <1>15

-----------------------------------------------------------------------------
LEMMA DefaultIsAddress ==
  /\ DefaultAddress \in Address /\ DefaultAddress.block \in Block
  /\ DefaultAddress.page \in PageNo
BY CollectorAssumption, BlockAssumption DEF DefaultAddress, Address, Block, PageNo

(* By how much the counters of a block may be too high.                      *)
Overcount(b) == IF b = DefaultAddress.block THEN failures ELSE 0

LEMMA OvercountType ==
  ASSUME failures \in Nat
  PROVE  /\ \A b \in Block : Overcount(b) \in Nat
         /\ CountersExact <=> \A b \in Block : CountedBut(flash[b], Overcount(b))
BY DEF Overcount, CountersExact

LEMMA InitInvariant == Init => IInv
<1> SUFFICES ASSUME Init PROVE IInv
  OBVIOUS
<1> DEFINE allowed == [l \in LPN |-> Block \ {0}]
<1>1. PICK place \in Placements(allowed) : flash = PlacedFlash(place) /\ map = PlacedMap(place)
  BY DEF Init
<1> HIDE DEF allowed
<1>2. flash \in [Block -> BlockState] /\ map \in [LPN -> Address]
  BY <1>1, PlacedTypes
<1>3. 0 \in Block
  BY CollectorAssumption DEF Block
<1>4. currentPE \in 0 .. UINT_MOD - 1
  BY BlockAssumption, PlaneAssumption DEF Init
<1>5. TypeOK
  BY <1>2, <1>3, <1>4 DEF Init, TypeOK
<1>6. Integrity(flash, map, NONE)
  BY <1>1, PlacedIntegrity
<1>7. StaleCopies = {}
  <2>1. ASSUME NEW a \in StaleCopies
        PROVE  FALSE
    <3>1. /\ a \in Address /\ a.block \in Block /\ a.page \in PageNo
          /\ a = [block |-> a.block, page |-> a.page]
          /\ flash[a.block].data[a.page] \in LPN
      BY DEF StaleCopies, Address
    <3>2. a.page \in ValidPages(flash[a.block])
      BY <3>1 DEF ValidPages
    <3>3. map[flash[a.block].data[a.page]] = a /\ flash[a.block].data[a.page] # lpn
      BY <1>6, <3>1, <3>2 DEF Integrity, Init
    <3> QED
      BY <3>3 DEF StaleCopies
  <2> QED
    BY <2>1
<1>8. StaleOnlyByFailure
  BY <1>7, FS_EmptySet DEF StaleOnlyByFailure, Init
<1>9. WornOutIsFull
  <2>1. \A b \in Block : flash[b].erases_remaining = BLOCK_ERASES
    BY <1>1 DEF PlacedFlash, PlacedBlock, NewBlock
  <2> QED
    BY <2>1, SWFAssumption, BlockAssumption DEF WornOutIsFull, CanErase
<1>10. CountersExact
  <2>1. \A b \in Block : Counted(flash[b]) /\ flash[b] \in BlockState
    BY <1>1, <1>2, PlacementsFit, CountedPlaced
  <2>2. failures = 0
    BY DEF Init
  <2>3. \A b \in Block : CountedBut(flash[b], 0)
    BY <2>1, CountedButMeans
  <2> QED
    BY <2>2, <2>3 DEF CountersExact
<1> QED
  BY <1>5, <1>8, <1>9, <1>10 DEF Init, IInv, FailsOnlyWornOut

-----------------------------------------------------------------------------
(* Each action preserves the invariant.                                     *)

(* Invalidating the page an entry names, stale or not.                      *)
LEMMA InvalidateFacts ==
  ASSUME IInv, NEW l \in LPN, InvalidateMapped(l)
  PROVE  /\ flash' \in [Block -> BlockState]
         /\ map[l].block \in Block /\ map[l].page \in PageNo
         /\ map[l] = [block |-> map[l].block, page |-> map[l].page]
         /\ \A b \in Block, q \in PageNo :
              flash'[b].data[q] = IF b = map[l].block /\ q = map[l].page
                                    THEN INVALID ELSE flash[b].data[q]
         /\ \A b \in Block : CanErase(flash'[b]) <=> CanErase(flash[b])
         /\ \A b \in Block : HasNextPage(flash'[b]) => HasNextPage(flash[b])
         /\ failures' = failures => CountersExact'
<1> DEFINE a == map[l].block
           p == map[l].page
           new == InvalidatePage(flash[a], p)
<1>1. /\ flash \in [Block -> BlockState] /\ a \in Block /\ p \in PageNo /\ failures \in Nat
      /\ map[l] = [block |-> a, page |-> p]
      /\ \A b \in Block : Overcount(b) \in Nat /\ CountedBut(flash[b], Overcount(b))
  BY OvercountType DEF IInv, TypeOK, Address
<1>2. new \in BlockState /\ new.data = [flash[a].data EXCEPT ![p] = INVALID]
      /\ CountedBut(new, Overcount(a))
  BY <1>1, InvalidateType, CountedButInvalidate
<1>3. flash' = [flash EXCEPT ![a] = new]
  BY DEF InvalidateMapped
<1>4. new.erases_remaining = flash[a].erases_remaining
      /\ new.min_seek_empty = flash[a].min_seek_empty
  BY <1>1, InvalidateFields
<1>5. flash[a].data \in PageData
  BY <1>1 DEF BlockState
<1> HIDE DEF a, p, new
<1>6. \A q \in PageNo : new.data[q] = IF q = p THEN INVALID ELSE flash[a].data[q]
  BY <1>2, <1>5 DEF PageData
<1>7. HasNextPage(new) => HasNextPage(flash[a])
  BY <1>4, <1>6, BlockAssumption DEF HasNextPage, FreePages
<1>8. ASSUME failures' = failures
      PROVE  CountersExact'
  <2>1. \A b \in Block : CountedBut(flash'[b], Overcount(b))
    BY <1>1, <1>2, <1>3
  <2> QED
    BY <1>8, <2>1 DEF CountersExact, Overcount
<1> QED
  BY <1>1, <1>2, <1>3, <1>4, <1>6, <1>7, <1>8 DEF CanErase, a, p

LEMMA InvalidateStale ==
  ASSUME IInv, NEW l \in LPN, InvalidateMapped(l), map' = map, lpn' \in {l, lpn}
  PROVE  StaleCopies' \subseteq StaleCopies
<1> SUFFICES ASSUME NEW a \in StaleCopies' PROVE a \in StaleCopies
  OBVIOUS
<1>0. \A b \in Block, q \in PageNo :
        flash'[b].data[q] = IF b = map[l].block /\ q = map[l].page
                              THEN INVALID ELSE flash[b].data[q]
  BY InvalidateFacts
<1>1. /\ a \in Address /\ a.block \in Block /\ a.page \in PageNo
      /\ a = [block |-> a.block, page |-> a.page]
      /\ flash'[a.block].data[a.page] \in LPN
      /\ flash'[a.block].data[a.page] = lpn' \/ map[flash'[a.block].data[a.page]] # a
  BY DEF StaleCopies, Address
<1>2. /\ ~(a.block = map[l].block /\ a.page = map[l].page)
      /\ flash'[a.block].data[a.page] = flash[a.block].data[a.page]
  <2>1. flash'[a.block].data[a.page] =
          IF a.block = map[l].block /\ a.page = map[l].page
            THEN INVALID ELSE flash[a.block].data[a.page]
    BY <1>0, <1>1
  <2> QED
    BY <1>1, <2>1, BlockAssumption
<1>3. map[l] # a
  BY <1>1, <1>2
<1> QED
  BY <1>1, <1>2, <1>3 DEF StaleCopies

LEMMA WriteStartInvariant ==
  ASSUME IInv, NEW l \in LPN, WriteStart(l)
  PROVE  IInv'
<1>1. /\ InvalidateMapped(l) /\ lpn' = l /\ pc' = "gc" /\ map' = map /\ WF' = WF
      /\ failures' = failures
  BY DEF WriteStart
<1>2. TypeOK'
  BY <1>1, InvalidateFacts DEF IInv, TypeOK, WriteStart
<1>3. StaleOnlyByFailure'
  BY <1>1, InvalidateStale, FewerStale DEF IInv, TypeOK
<1>4. WornOutIsFull'
  BY <1>1, InvalidateFacts DEF IInv, WornOutIsFull
<1>5. CountersExact'
  BY <1>1, InvalidateFacts
<1> QED
  BY <1>1, <1>2, <1>3, <1>4, <1>5 DEF IInv, FailsOnlyWornOut

LEMMA TrimInvariant ==
  ASSUME IInv, NEW l \in LPN, Trim(l)
  PROVE  IInv'
<1>1. /\ InvalidateMapped(l) /\ lpn' = lpn /\ pc' = pc /\ pc = "idle" /\ map' = map
      /\ WF' = WF /\ failures' = failures
  BY DEF Trim
<1>2. TypeOK'
  BY <1>1, InvalidateFacts DEF IInv, TypeOK, Trim
<1>3. StaleOnlyByFailure'
  BY <1>1, InvalidateStale, FewerStale DEF IInv, TypeOK
<1>4. WornOutIsFull'
  BY <1>1, InvalidateFacts DEF IInv, WornOutIsFull
<1>5. CountersExact'
  BY <1>1, InvalidateFacts
<1> QED
  BY <1>1, <1>2, <1>3, <1>4, <1>5 DEF IInv, FailsOnlyWornOut

(* A victim that cannot be erased has no empty page: nothing is written back *)
(* and nothing changes.  One that can takes all its VALID pages back.        *)
LEMMA CollectFacts ==
  ASSUME IInv, NEW v \in Block, Collect(v)
  PROVE  LET old  == flash[v]
             copy == Erase(old)
         IN  /\ copy \in BlockState
             /\ flash' = [flash EXCEPT ![v] = CopyBlockAfter(old, copy)]
             /\ CopyBlockAfter(old, copy) \in BlockState
             /\ CopyBlockAfter(old, copy).erases_remaining = copy.erases_remaining
             /\ CanErase(old) =>
                  /\ Counted(CopyBlockAfter(old, copy))
                  /\ NumKept(old, copy) = 0
                  /\ \A p \in PageNo : copy.data[p] = EMPTY
                  /\ \A p \in ValidPages(old) : IsCopied(old, copy, p)
             /\ ~CanErase(old) =>
                  /\ CopyBlockAfter(old, copy) = old
                  /\ \A p \in ValidPages(old) : ~IsCopied(old, copy, p)
<1> DEFINE old  == flash[v]
           copy == Erase(old)
           new  == CopyBlockAfter(old, copy)
<1>1. flash \in [Block -> BlockState] /\ old \in BlockState
  BY DEF IInv, TypeOK
<1>2. /\ copy \in BlockState
      /\ CanErase(old) => Counted(copy) /\ \A p \in PageNo : copy.data[p] = EMPTY
      /\ ~CanErase(old) => copy = old
  BY <1>1, CountedButErase
<1> HIDE DEF copy
<1>3. new \in BlockState /\ (CanErase(old) => Counted(new))
  BY <1>1, <1>2, CopyBlockType, CountedCopy
<1>4. new.erases_remaining = copy.erases_remaining
  BY <1>2 DEF CopyBlockAfter, BlockState
<1>5. ASSUME CanErase(old)
      PROVE  NumKept(old, copy) = 0 /\ \A p \in ValidPages(old) : IsCopied(old, copy, p)
  <2>1. EmptyPages(copy) = PageNo
    BY <1>2, <1>5 DEF EmptyPages
  <2>2. FreePages(copy) = PageNo
    BY <1>2, <1>5, <2>1, CountedMeans
  <2>3. Cardinality(PageNo) = BLOCK_SIZE
    BY BlockAssumption, FS_Interval DEF PageNo
  <2>4. ValidPages(old) \in SUBSET PageNo
    BY DEF ValidPages
  <2>5. Cardinality(ValidPages(old)) \in 0 .. BLOCK_SIZE
    BY <2>4, PageSets
  <2>6. Cardinality(ValidPages(old)) <= Cardinality(FreePages(copy))
    BY <2>2, <2>3, <2>5, BlockAssumption
  <2>7. NumCopied(old, copy) = Cardinality(ValidPages(old))
    BY <2>2, <2>3, <2>5, <2>6, BlockAssumption DEF NumCopied, Lesser
  <2> QED
    BY <1>1, <1>2, <2>5, <2>6, <2>7, CopiedCount, BlockAssumption DEF NumKept
<1>6. ASSUME ~CanErase(old)
      PROVE  new = old /\ \A p \in ValidPages(old) : ~IsCopied(old, copy, p)
  <2>1. copy = old /\ FreePages(old) = {}
    BY <1>2, <1>6 DEF IInv, WornOutIsFull, HasNextPage, Collect
  <2>2. NumCopied(old, copy) = 0
    BY <2>1, FS_EmptySet, NumCopiedRange
  <2>3. ASSUME NEW p \in ValidPages(old)
        PROVE  ~IsCopied(old, copy, p)
    <3>1. ValidPages(old) \in SUBSET PageNo
      BY DEF ValidPages
    <3>2. Rank(ValidPages(old), p) \in Nat
      BY <3>1, PageSets, RankInRange
    <3> QED
      BY <2>2, <3>2 DEF IsCopied
  <2>4. old.data = [q \in PageNo |-> old.data[q]]
    BY <1>1 DEF BlockState, PageData
  <2>5. new = [old EXCEPT !.data = [q \in PageNo |-> old.data[q]],
                          !.pages_valid = old.pages_valid + 0]
    BY <1>1, <2>1, <2>2 DEF CopyBlockAfter, BlockState
  <2>6. old.pages_valid + 0 = old.pages_valid
    BY <1>1 DEF BlockState
  <2>7. [old EXCEPT !.data = old.data, !.pages_valid = old.pages_valid] = old
    BY <1>1 DEF BlockState
  <2> QED
    BY <2>3, <2>4, <2>5, <2>6, <2>7
<1>7. flash' = [flash EXCEPT ![v] = new]
  BY DEF Collect, copy
<1> QED
  BY <1>2, <1>3, <1>4, <1>5, <1>6, <1>7 DEF copy

(* The last page of the victim that holds an lpn is the one the map keeps.   *)
LEMMA LastPageFound ==
  ASSUME NEW blk, NEW l \in LPN, PagesOf(blk, l) # {}
  PROVE  /\ LastPageOf(blk, l) \in PagesOf(blk, l)
         /\ LastPageOf(blk, l) \in ValidPages(blk)
         /\ blk.data[LastPageOf(blk, l)] = l
<1> DEFINE S == PagesOf(blk, l)
           r == Cardinality(S) - 1
<1>1. S \in SUBSET PageNo /\ IsFiniteSet(S) /\ S \subseteq Int /\ Cardinality(S) \in Nat
  <2>1. S \in SUBSET PageNo
    BY DEF PagesOf
  <2> QED
    BY <2>1, PageSets, BlockAssumption
<1>2. r \in 0 .. Cardinality(S) - 1
  BY <1>1, FS_EmptySet
<1>3. PICK p \in S : Rank(S, p) = r
  BY <1>1, <1>2, NthExists
<1>4. ASSUME NEW q \in S
      PROVE  q <= p
  <2>1. q \in Int /\ p \in Int
    BY <1>1
  <2>2. CASE p < q
    <3>1. Rank(S, p) < Rank(S, q)
      BY <1>1, <2>2, RankMonotone
    <3>2. Rank(S, q) \in 0 .. Cardinality(S) - 1
      BY <1>1, RankInRange
    <3> QED
      BY <1>1, <1>3, <3>1, <3>2
  <2> QED
    BY <2>1, <2>2
<1>5. LastPageOf(blk, l) \in S
  BY <1>3, <1>4 DEF LastPageOf
<1> QED
  BY <1>5 DEF PagesOf, ValidPages

(* Where a collection leaves the entry of an lpn.                           *)
LEMMA CollectMap ==
  ASSUME IInv, NEW v \in Block, Collect(v)
  PROVE  /\ map' \in [LPN -> Address]
         /\ \A l \in LPN : PagesOf(flash[v], l) = {} => map'[l] = map[l]
         /\ ~CanErase(flash[v]) => map' = map
         /\ CanErase(flash[v]) =>
              \A l \in LPN : PagesOf(flash[v], l) # {} =>
                map'[l] = [block |-> v, page |-> NewPageOf(flash[v], Erase(flash[v]),
                                                           LastPageOf(flash[v], l))]
<1> DEFINE old  == flash[v]
           copy == Erase(old)
<1>1. map \in [LPN -> Address] /\ old \in BlockState
  BY DEF IInv, TypeOK
<1>2. map' = [l \in LPN |->
                IF WrittenBack(old, copy, l)
                  THEN [block |-> v, page |-> NewPageOf(old, copy, LastPageOf(old, l))]
                  ELSE map[l]]
  BY DEF Collect
<1>3. /\ copy \in BlockState
      /\ CanErase(old) => \A p \in ValidPages(old) : IsCopied(old, copy, p)
      /\ ~CanErase(old) => \A p \in ValidPages(old) : ~IsCopied(old, copy, p)
  BY CollectFacts
<1>4. \A l \in LPN : PagesOf(old, l) \subseteq ValidPages(old)
  BY DEF PagesOf, ValidPages
<1> HIDE DEF copy
<1>5. \A l \in LPN : PagesOf(old, l) = {} => map'[l] = map[l]
  BY <1>2 DEF WrittenBack
<1>6. ASSUME ~CanErase(old)
      PROVE  map' = map
  <2>1. \A l \in LPN : ~WrittenBack(old, copy, l)
    BY <1>3, <1>4, <1>6 DEF WrittenBack
  <2> QED
    BY <1>1, <1>2, <2>1
<1>7. ASSUME CanErase(old), NEW l \in LPN, PagesOf(old, l) # {}
      PROVE  map'[l] = [block |-> v, page |-> NewPageOf(old, copy, LastPageOf(old, l))]
  <2>1. WrittenBack(old, copy, l)
    BY <1>3, <1>4, <1>7 DEF WrittenBack
  <2> QED
    BY <1>2, <2>1
<1>8. ASSUME NEW l \in LPN
      PROVE  map'[l] \in Address
  <2>1. CASE CanErase(old) /\ PagesOf(old, l) # {}
    <3>1. LastPageOf(old, l) \in ValidPages(old)
      BY <2>1, LastPageFound
    <3>2. NewPageOf(old, copy, LastPageOf(old, l)) \in PageNo
      BY <1>1, <1>3, <2>1, <3>1, CopiedPage
    <3>3. map'[l] = [block |-> v, page |-> NewPageOf(old, copy, LastPageOf(old, l))]
      BY <1>7, <2>1
    <3> QED
      BY <3>2, <3>3 DEF Address
  <2>2. CASE ~CanErase(old) \/ PagesOf(old, l) = {}
    BY <1>1, <1>5, <1>6, <2>2
  <2> QED
    BY <2>1, <2>2
<1>9. map' \in [LPN -> Address]
  BY <1>2, <1>8
<1> QED
  BY <1>5, <1>6, <1>7, <1>9 DEF copy

(* A collection makes no old copy more.  Every old copy it leaves comes from   *)
(* one it found, or from the page the map named before it kept another page  *)
(* of the victim with the same lpn, which then was an old copy.              *)
LEMMA CollectStale ==
  ASSUME IInv, NEW v \in Block, Collect(v)
  PROVE  Cardinality(StaleCopies') <= Cardinality(StaleCopies)
<1> DEFINE old  == flash[v]
           copy == Erase(old)
           new  == CopyBlockAfter(old, copy)
           last(k) == LastPageOf(old, k)
<1>1. /\ flash \in [Block -> BlockState] /\ old \in BlockState /\ lpn' = lpn
      /\ map \in [LPN -> Address]
  BY DEF IInv, TypeOK, Collect
<1>2. /\ copy \in BlockState /\ new \in BlockState
      /\ flash' = [flash EXCEPT ![v] = new]
      /\ CanErase(old) =>
           /\ \A p \in PageNo : copy.data[p] = EMPTY
           /\ \A p \in ValidPages(old) : IsCopied(old, copy, p)
      /\ ~CanErase(old) => new = old
  BY CollectFacts
<1>3. StaleCopies \subseteq Address /\ IsFiniteSet(StaleCopies)
      /\ Cardinality(StaleCopies) \in Nat
  <2>1. StaleCopies \subseteq Address
    BY DEF StaleCopies
  <2> QED
    BY <2>1, AddressSets
<1>4. CASE ~CanErase(old)
  <2>1. flash' = flash /\ map' = map
    BY <1>1, <1>2, <1>4, CollectMap
  <2>2. StaleCopies' = StaleCopies
    BY <1>1, <2>1 DEF StaleCopies
  <2> QED
    BY <1>3, <2>2
<1>5. CASE CanErase(old)
  <2>1. /\ \A k \in LPN : PagesOf(old, k) = {} => map'[k] = map[k]
        /\ \A k \in LPN : PagesOf(old, k) # {} =>
              map'[k] = [block |-> v, page |-> NewPageOf(old, copy, last(k))]
    BY <1>5, CollectMap
  <2>2. ASSUME NEW q \in ValidPages(new)
        PROVE  \E p \in ValidPages(old) :
                 NewPageOf(old, copy, p) = q /\ new.data[q] = old.data[p]
    <3>1. ValidPages(copy) = {}
      BY <1>2, <1>5, BlockAssumption DEF ValidPages
    <3> QED
      BY <1>1, <1>2, <3>1, CopyBlockOrigins
  <2>3. /\ flash'[v] = new
        /\ \A b \in Block \ {v} : flash'[b] = flash[b]
    BY <1>1, <1>2
  <2>4. \A a \in StaleCopies :
          /\ a \in Address /\ flash[a.block].data[a.page] \in LPN
    BY DEF StaleCopies
  <2>5. \A a \in Address : /\ a.block \in Block /\ a.page \in PageNo
                           /\ a = [block |-> a.block, page |-> a.page]
    BY DEF Address
  <2>6. \A a \in StaleCopies' :
          /\ a \in Address /\ flash'[a.block].data[a.page] \in LPN
          /\ \/ flash'[a.block].data[a.page] = lpn
             \/ map'[flash'[a.block].data[a.page]] # a
    BY <1>1 DEF StaleCopies
  <2>7. \A a \in Address : flash[a.block].data[a.page] \in LPN /\ a \notin StaleCopies =>
          /\ flash[a.block].data[a.page] # lpn
          /\ map[flash[a.block].data[a.page]] = a
    BY DEF StaleCopies
  <2> HIDE DEF new, copy
  <2> DEFINE From(a, o) ==
               /\ flash[o.block].data[o.page] = flash'[a.block].data[a.page]
               /\ IF a.block = v
                    THEN o.block = v /\ NewPageOf(old, copy, o.page) = a.page
                    ELSE o = a
             Second(a, b) ==
               /\ flash[b.block].data[b.page] = flash'[a.block].data[a.page]
               /\ b = [block |-> v, page |-> last(flash'[a.block].data[a.page])]
               /\ PagesOf(old, flash'[a.block].data[a.page]) # {}
               /\ flash'[a.block].data[a.page] # lpn
               /\ From(a, map[flash'[a.block].data[a.page]])
             Witness(a, b) == From(a, b) \/ Second(a, b)
  <2>8. ASSUME NEW a \in StaleCopies'
        PROVE  \E o \in Address : From(a, o)
    <3>1. CASE a.block # v
      BY <2>3, <2>5, <2>6, <3>1
    <3>2. CASE a.block = v
      <4>1. a.page \in ValidPages(new)
        BY <2>3, <2>5, <2>6, <3>2 DEF ValidPages
      <4>2. PICK p \in ValidPages(old) :
              NewPageOf(old, copy, p) = a.page /\ new.data[a.page] = old.data[p]
        BY <2>2, <4>1
      <4>3. p \in PageNo
        BY DEF ValidPages
      <4>4. [block |-> v, page |-> p] \in Address
        BY <4>3 DEF Address
      <4> QED
        BY <2>3, <3>2, <4>2, <4>4
    <3> QED
      BY <3>1, <3>2
  <2>9. ASSUME NEW a \in StaleCopies'
        PROVE  \E b \in StaleCopies : Witness(a, b)
    <3> DEFINE k == flash'[a.block].data[a.page]
    <3>1. PICK o \in Address : From(a, o)
      BY <2>8
    <3>2. k \in LPN
      BY <2>6
    <3>3. CASE o \in StaleCopies
      BY <3>1, <3>3
    <3>4. CASE o \notin StaleCopies
      <4>1. k # lpn /\ map[k] = o
        BY <2>7, <3>1, <3>2, <3>4
      <4>2. map'[k] # a
        BY <2>6, <4>1
      <4>3. PagesOf(old, k) # {}
        <5>1. CASE a.block # v
          <6>1. map'[k] # map[k]
            BY <3>1, <4>1, <4>2, <5>1
          <6> QED
            BY <2>1, <3>2, <6>1
        <5>2. CASE a.block = v
          <6>1. o.block = v /\ o.page \in PageNo /\ old.data[o.page] = k
            BY <2>5, <3>1, <5>2
          <6> QED
            BY <6>1 DEF PagesOf
        <5> QED
          BY <5>1, <5>2
      <4>4. last(k) \in ValidPages(old) /\ old.data[last(k)] = k
        BY <3>2, <4>3, LastPageFound
      <4> DEFINE b == [block |-> v, page |-> last(k)]
      <4>5. b \in Address /\ flash[b.block].data[b.page] = k
        BY <4>4 DEF Address, ValidPages
      <4>6. map[k] # b
        <5>1. CASE a.block # v
          BY <3>1, <4>1, <5>1
        <5>2. CASE a.block = v
          <6>1. map'[k] = [block |-> v, page |-> NewPageOf(old, copy, last(k))]
            BY <2>1, <3>2, <4>3
          <6>2. NewPageOf(old, copy, last(k)) # a.page
            BY <2>5, <2>6, <4>2, <5>2, <6>1
          <6>3. NewPageOf(old, copy, o.page) = a.page
            BY <3>1, <5>2
          <6> QED
            BY <4>1, <6>2, <6>3
        <5> QED
          BY <5>1, <5>2
      <4>7. b \in StaleCopies
        BY <3>2, <4>5, <4>6 DEF StaleCopies
      <4>8. Second(a, b)
        BY <3>1, <4>1, <4>3, <4>5
      <4> QED
        BY <4>7, <4>8
    <3> QED
      BY <3>3, <3>4
  <2>10. ASSUME NEW a \in StaleCopies', NEW c \in StaleCopies', NEW o \in Address,
                From(a, o), From(c, o)
         PROVE  a = c
    BY <2>5, <2>6, <2>10
  <2>11. ASSUME NEW a \in StaleCopies', NEW c \in StaleCopies', NEW b \in StaleCopies,
                From(a, b), Second(c, b)
         PROVE  FALSE
    <3> DEFINE k == flash'[a.block].data[a.page]
    <3>1. /\ k \in LPN /\ k = flash'[c.block].data[c.page] /\ k # lpn
          /\ PagesOf(old, k) # {} /\ b = [block |-> v, page |-> last(k)]
      BY <2>6, <2>11
    <3>2. a.block = v /\ NewPageOf(old, copy, last(k)) = a.page
      <4>1. b.block = v /\ b.page = last(k)
        BY <3>1
      <4>2. CASE a.block # v
        <5>1. b = a
          BY <2>11, <4>2
        <5> QED
          BY <4>1, <4>2, <5>1
      <4>3. CASE a.block = v
        <5>1. NewPageOf(old, copy, b.page) = a.page
          BY <2>11, <4>3
        <5> QED
          BY <4>1, <4>3, <5>1
      <4> QED
        BY <4>2, <4>3
    <3>3. map'[k] = a
      BY <2>1, <2>5, <2>6, <3>1, <3>2
    <3> QED
      BY <2>6, <3>1, <3>3
  <2>12. ASSUME NEW a \in StaleCopies', NEW c \in StaleCopies', NEW b \in StaleCopies,
                Witness(a, b), Witness(c, b)
         PROVE  a = c
    <3>1. CASE From(a, b) /\ From(c, b)
      BY <2>4, <2>10, <3>1
    <3>2. CASE Second(a, b) /\ Second(c, b)
      <4>1. flash'[a.block].data[a.page] = flash'[c.block].data[c.page]
        BY <3>2
      <4>2. map[flash'[a.block].data[a.page]] \in Address
        BY <1>1, <2>6
      <4> DEFINE o == map[flash'[a.block].data[a.page]]
      <4>3. From(a, o)
        BY <3>2
      <4>4. From(c, o)
        <5>1. From(c, map[flash'[c.block].data[c.page]])
          BY <3>2
        <5> QED
          BY <4>1, <5>1
      <4> HIDE DEF From
      <4> QED
        BY <2>10, <4>2, <4>3, <4>4
    <3> QED
      BY <2>11, <2>12, <3>1, <3>2
  <2> HIDE DEF Witness
  <2> DEFINE f == [a \in StaleCopies' |-> CHOOSE b \in StaleCopies : Witness(a, b)]
  <2>13. \A a \in StaleCopies' : f[a] \in StaleCopies /\ Witness(a, f[a])
    BY <2>9
  <2>14. f \in [StaleCopies' -> StaleCopies]
    BY <2>13
  <2> HIDE DEF f
  <2>15. \A a, c \in StaleCopies' : f[a] = f[c] => a = c
    BY <2>12, <2>13
  <2>16. f \in Injection(StaleCopies', StaleCopies)
    BY <2>14, <2>15 DEF Injection, IsInjective
  <2> QED
    BY <1>3, <2>16, FS_Injection
<1> QED
  BY <1>4, <1>5

LEMMA CollectInvariant ==
  ASSUME IInv, NEW v \in Block, Collect(v)
  PROVE  IInv'
<1> DEFINE old  == flash[v]
           copy == Erase(old)
           new  == CopyBlockAfter(old, copy)
<1>1. /\ flash \in [Block -> BlockState] /\ old \in BlockState
      /\ pc = "gc" /\ lpn' = lpn /\ WF' = v /\ WF \in Block /\ lpn \in LPN
      /\ ~HasNextPage(flash[WF]) /\ failures' = failures /\ failures \in Nat
      /\ \A b \in Block : Overcount(b) \in Nat /\ CountedBut(flash[b], Overcount(b))
  BY OvercountType DEF IInv, TypeOK, Collect
<1>2. /\ copy \in BlockState
      /\ flash' = [flash EXCEPT ![v] = new]
      /\ new \in BlockState
      /\ CanErase(old) => NumKept(old, copy) = 0 /\ Counted(new)
      /\ ~CanErase(old) => new = old
  BY CollectFacts
<1>3. CountedBut(new, Overcount(v))
  BY <1>1, <1>2, CountedButMeans
<1>4. pc' \in {"gc", "failed"} /\ (pc' = "failed" <=> NumKept(old, copy) > 0)
  BY <1>1 DEF Collect
<1>5. currentPE' \in 0 .. UINT_MOD - 1
  <2>1. \A n \in Int : n % UINT_MOD \in 0 .. UINT_MOD - 1
    BY PlaneAssumption, BlockAssumption
  <2>2. currentPE - 1 \in Int /\ currentPE \in 0 .. UINT_MOD - 1
    BY PlaneAssumption DEF IInv, TypeOK
  <2> QED
    BY <2>1, <2>2 DEF Collect
<1>6. cursor' \in Block
  BY DEF Collect, IInv, TypeOK
<1> HIDE DEF copy, new
<1>7. TypeOK'
  BY <1>1, <1>2, <1>4, <1>5, <1>6, CollectMap DEF TypeOK
<1>8. StaleOnlyByFailure'
  <2>1. StaleCopies \subseteq Address
    BY DEF StaleCopies
  <2>2. StaleCopies' \subseteq Address
    BY DEF StaleCopies
  <2>3. Cardinality(StaleCopies) \in Nat
    BY <2>1, AddressSets
  <2>4. Cardinality(StaleCopies') \in Nat
    BY <2>2, AddressSets
  <2>5. Cardinality(StaleCopies') <= Cardinality(StaleCopies)
    BY CollectStale
  <2>6. Cardinality(StaleCopies) <= failures
    BY DEF IInv, StaleOnlyByFailure
  <2>7. Cardinality(StaleCopies') <= failures'
    BY <1>1, <2>3, <2>4, <2>5, <2>6
  <2> QED
    BY <2>7 DEF StaleOnlyByFailure
<1>9. WornOutIsFull'
  <2>1. ASSUME NEW b \in Block \ {v}
        PROVE  CanErase(flash'[b]) \/ ~HasNextPage(flash'[b])
    <3>1. flash'[b] = flash[b]
      BY <1>1, <1>2
    <3> QED
      BY <1>1, <3>1 DEF IInv, WornOutIsFull
  <2> QED
    BY <1>1, <2>1 DEF WornOutIsFull
<1>10. CountersExact'
  <2>1. \A b \in Block : CountedBut(flash'[b], Overcount(b))
    BY <1>1, <1>2, <1>3
  <2> QED
    BY <1>1, <2>1 DEF CountersExact, Overcount
<1>11. FailsOnlyWornOut'
  <2>1. ASSUME pc' = "failed"
        PROVE  ~CanErase(flash'[v])
    <3>1. ~CanErase(old)
      BY <1>2, <1>4, <2>1
    <3> QED
      BY <1>1, <1>2, <3>1
  <2> QED
    BY <1>1, <2>1 DEF FailsOnlyWornOut
<1> QED
  BY <1>4, <1>7, <1>8, <1>9, <1>10, <1>11 DEF IInv

LEMMA WriteFinishInvariant ==
  ASSUME IInv, WriteFinish
  PROVE  IInv'
<1> DEFINE q   == NextPage(flash[WF])
           new == SeekNextPage(flash[WF])
<1>1. /\ flash \in [Block -> BlockState] /\ map \in [LPN -> Address]
      /\ WF \in Block /\ lpn \in LPN /\ failures \in Nat
      /\ \A b \in Block : Overcount(b) \in Nat /\ CountedBut(flash[b], Overcount(b))
  BY OvercountType DEF IInv, TypeOK, WriteFinish
<1>2. q \in PageNo /\ flash[WF].data[q] = EMPTY /\ HasNextPage(flash[WF])
  BY NextPageIsFree DEF WriteFinish
<1>3. /\ new \in BlockState
      /\ new.data = flash[WF].data
      /\ new.erases_remaining = flash[WF].erases_remaining
      /\ CountedBut(new, Overcount(WF))
  BY <1>1, <1>2, SeekType, CountedButSeek
<1>4. /\ flash' = [flash EXCEPT ![WF] = new]
      /\ map' = [map EXCEPT ![lpn] = [block |-> WF, page |-> q]]
      /\ pc' = "program" /\ WF' = WF /\ lpn' = lpn /\ failures' = failures
  BY DEF WriteFinish
<1> HIDE DEF q, new
<1>5. /\ flash' \in [Block -> BlockState] /\ \A b \in Block : flash'[b].data = flash[b].data
      /\ \A b \in Block \ {WF} : flash'[b] = flash[b]
      /\ \A b \in Block : CountedBut(flash'[b], Overcount(b))
  BY <1>1, <1>3, <1>4
<1>6. /\ map' \in [LPN -> Address] /\ map'[lpn] = [block |-> WF, page |-> q]
      /\ \A l \in LPN : l # lpn => map'[l] = map[l]
  BY <1>1, <1>2, <1>4 DEF Address
<1>7. TypeOK'
  BY <1>5, <1>6 DEF IInv, TypeOK, WriteFinish
<1>8. StaleCopies' \subseteq StaleCopies
  <2> SUFFICES ASSUME NEW a \in StaleCopies' PROVE a \in StaleCopies
    OBVIOUS
  <2>1. /\ a \in Address /\ a.block \in Block
        /\ flash'[a.block].data[a.page] \in LPN
        /\ \/ flash'[a.block].data[a.page] = lpn
           \/ map'[flash'[a.block].data[a.page]] # a
    BY <1>4 DEF StaleCopies, Address
  <2> QED
    BY <1>5, <1>6, <2>1 DEF StaleCopies
<1>9. StaleOnlyByFailure'
  BY <1>1, <1>4, <1>8, FewerStale DEF IInv
<1>10. flash'[map'[lpn'].block].data[map'[lpn'].page] = EMPTY
  BY <1>1, <1>2, <1>4, <1>5, <1>6
<1>11. WornOutIsFull'
  BY <1>4, <1>5 DEF IInv, WornOutIsFull
<1>12. CountersExact'
  BY <1>4, <1>5 DEF CountersExact, Overcount
<1> QED
  BY <1>4, <1>7, <1>9, <1>10, <1>11, <1>12 DEF IInv, FailsOnlyWornOut

(* The physical write of an event, over an EMPTY page or not.               *)
LEMMA PhysicalWriteFacts ==
  ASSUME IInv, NEW a \in Address, PhysicalWrite(a), pc # "idle"
  PROVE  /\ flash' \in [Block -> BlockState]
         /\ \A b \in Block, q \in PageNo :
              flash'[b].data[q] = IF b = a.block /\ q = a.page THEN lpn ELSE flash[b].data[q]
         /\ \A b \in Block : CanErase(flash'[b]) <=> CanErase(flash[b])
         /\ \A b \in Block : HasNextPage(flash'[b]) => HasNextPage(flash[b])
         /\ \A b \in Block \ {a.block} : flash'[b] = flash[b]
         /\ CountedBut(flash'[a.block], Overcount(a.block) + 1)
         /\ flash[a.block].data[a.page] = EMPTY =>
              CountedBut(flash'[a.block], Overcount(a.block))
         /\ StaleCopies' \subseteq StaleCopies \cup {a}
         /\ map' = map /\ WF' = WF /\ pc' = "idle" /\ lpn' = NONE
         /\ WornOutIsFull'
<1> DEFINE new == WritePage(flash[a.block], a.page, lpn)
<1>1. /\ flash \in [Block -> BlockState] /\ lpn \in LPN /\ failures \in Nat
      /\ a.block \in Block /\ a.page \in PageNo
      /\ \A b \in Block : Overcount(b) \in Nat /\ CountedBut(flash[b], Overcount(b))
  BY OvercountType DEF IInv, TypeOK, Address
<1>2. /\ new \in BlockState /\ new.data = [flash[a.block].data EXCEPT ![a.page] = lpn]
      /\ new.erases_remaining = flash[a.block].erases_remaining
      /\ new.min_seek_empty = flash[a.block].min_seek_empty
  BY <1>1, WritePageType, WriteFields
<1>3. /\ CountedBut(new, Overcount(a.block) + 1)
      /\ flash[a.block].data[a.page] = EMPTY => CountedBut(new, Overcount(a.block))
  BY <1>1, CountedButProgram
<1>4. /\ flash' = [flash EXCEPT ![a.block] = new]
      /\ map' = map /\ WF' = WF /\ pc' = "idle" /\ lpn' = NONE
  BY DEF PhysicalWrite
<1>5. flash[a.block].data \in PageData
  BY <1>1 DEF BlockState
<1> HIDE DEF new
<1>6. \A q \in PageNo : new.data[q] = IF q = a.page THEN lpn ELSE flash[a.block].data[q]
  BY <1>2, <1>5 DEF PageData
<1>7. \A b \in Block, q \in PageNo :
        flash'[b].data[q] = IF b = a.block /\ q = a.page THEN lpn ELSE flash[b].data[q]
  BY <1>1, <1>4, <1>6
<1>8. HasNextPage(new) => HasNextPage(flash[a.block])
  BY <1>1, <1>2, <1>6, BlockAssumption DEF HasNextPage, FreePages
<1>9. /\ \A b \in Block : CanErase(flash'[b]) <=> CanErase(flash[b])
      /\ \A b \in Block : HasNextPage(flash'[b]) => HasNextPage(flash[b])
  BY <1>1, <1>2, <1>4, <1>8 DEF CanErase
<1>10. WornOutIsFull'
  BY <1>4, <1>9 DEF IInv, WornOutIsFull
<1>11. ASSUME NEW c \in StaleCopies', c # a
       PROVE  c \in StaleCopies
  <2>1. /\ c \in Address /\ c.block \in Block /\ c.page \in PageNo
        /\ c = [block |-> c.block, page |-> c.page]
        /\ a = [block |-> a.block, page |-> a.page]
        /\ flash'[c.block].data[c.page] \in LPN
        /\ \/ flash'[c.block].data[c.page] = NONE
           \/ map[flash'[c.block].data[c.page]] # c
    BY <1>4 DEF StaleCopies, Address
  <2>2. ~(c.block = a.block /\ c.page = a.page)
    BY <1>11, <2>1
  <2>3. flash'[c.block].data[c.page] = flash[c.block].data[c.page]
    BY <1>7, <2>1, <2>2
  <2> QED
    BY <2>1, <2>3, PlaneAssumption DEF StaleCopies
<1> QED
  BY <1>1, <1>2, <1>3, <1>4, <1>7, <1>9, <1>10, <1>11

LEMMA ProgramInvariant ==
  ASSUME IInv, Program
  PROVE  IInv'
<1>1. /\ map \in [LPN -> Address] /\ lpn \in LPN /\ failures \in Nat /\ pc = "program"
      /\ failures' = failures /\ PhysicalWrite(map[lpn])
      /\ flash[map[lpn].block].data[map[lpn].page] = EMPTY
      /\ \A b \in Block : CountedBut(flash[b], Overcount(b))
  BY OvercountType DEF IInv, TypeOK, Program
<1> DEFINE a == map[lpn]
<1>2. a \in Address /\ a.block \in Block /\ a.page \in PageNo
  BY <1>1 DEF Address
<1>3. /\ flash' \in [Block -> BlockState]
      /\ \A b \in Block \ {a.block} : flash'[b] = flash[b]
      /\ CountedBut(flash'[a.block], Overcount(a.block))
      /\ StaleCopies' \subseteq StaleCopies \cup {a}
      /\ map' = map /\ WF' = WF /\ pc' = "idle" /\ lpn' = NONE
      /\ WornOutIsFull'
  BY <1>1, <1>2, PhysicalWriteFacts
<1>4. flash'[a.block].data[a.page] = lpn
  BY <1>1, <1>2, PhysicalWriteFacts
<1>5. a \notin StaleCopies'
  BY <1>1, <1>3, <1>4, PlaneAssumption DEF StaleCopies
<1> HIDE DEF a
<1>6. StaleOnlyByFailure'
  <2>1. StaleCopies' \subseteq StaleCopies
    BY <1>3, <1>5
  <2> QED
    BY <1>1, <2>1, FewerStale DEF IInv
<1>7. TypeOK'
  BY <1>1, <1>3 DEF IInv, TypeOK, PhysicalWrite
<1>8. CountersExact'
  <2>1. \A b \in Block : CountedBut(flash'[b], Overcount(b))
    BY <1>1, <1>3
  <2> QED
    BY <1>1, <2>1 DEF CountersExact, Overcount
<1> QED
  BY <1>3, <1>6, <1>7, <1>8 DEF IInv, FailsOnlyWornOut

(* After a failed write one page more may be stale, and block 0 counts one    *)
(* page more.                                                              *)
LEMMA ProgramDefaultInvariant ==
  ASSUME IInv, ProgramDefault
  PROVE  IInv'
<1> DEFINE a == DefaultAddress
<1>1. /\ failures \in Nat /\ pc = "failed" /\ failures' = failures + 1
      /\ PhysicalWrite(a) /\ a \in Address /\ a.block \in Block
      /\ \A b \in Block : Overcount(b) \in Nat /\ CountedBut(flash[b], Overcount(b))
  BY OvercountType, DefaultIsAddress DEF IInv, TypeOK, ProgramDefault
<1>2. /\ flash' \in [Block -> BlockState]
      /\ \A b \in Block \ {a.block} : flash'[b] = flash[b]
      /\ CountedBut(flash'[a.block], Overcount(a.block) + 1)
      /\ StaleCopies' \subseteq StaleCopies \cup {a}
      /\ map' = map /\ WF' = WF /\ pc' = "idle" /\ lpn' = NONE
      /\ WornOutIsFull'
  BY <1>1, PhysicalWriteFacts
<1>3. TypeOK'
  BY <1>1, <1>2 DEF IInv, TypeOK, PhysicalWrite
<1>4. StaleOnlyByFailure'
  <2>1. StaleCopies \subseteq Address
    BY DEF StaleCopies
  <2>2. IsFiniteSet(StaleCopies) /\ Cardinality(StaleCopies) \in Nat
    BY <2>1, AddressSets
  <2>3. /\ IsFiniteSet(StaleCopies \cup {a})
        /\ Cardinality(StaleCopies \cup {a}) <= Cardinality(StaleCopies) + 1
        /\ Cardinality(StaleCopies \cup {a}) \in Nat
    BY <2>2, FS_AddElement
  <2>4. IsFiniteSet(StaleCopies')
        /\ Cardinality(StaleCopies') <= Cardinality(StaleCopies \cup {a})
    BY <1>2, <2>3, FS_Subset
  <2>5. Cardinality(StaleCopies') \in Nat
    BY <2>4, FS_CardinalityType
  <2>6. Cardinality(StaleCopies) <= failures
    BY DEF IInv, StaleOnlyByFailure
  <2>7. Cardinality(StaleCopies') <= failures'
    BY <1>1, <2>2, <2>3, <2>4, <2>5, <2>6
  <2> QED
    BY <2>7 DEF StaleOnlyByFailure
<1>5. CountersExact'
  <2>1. ASSUME NEW b \in Block
        PROVE  CountedBut(flash'[b], IF b = DefaultAddress.block THEN failures' ELSE 0)
    <3>1. CASE b = a.block
      BY <1>1, <1>2, <3>1 DEF Overcount
    <3>2. CASE b # a.block
      BY <1>1, <1>2, <3>2 DEF Overcount
    <3> QED
      BY <3>1, <3>2
  <2> QED
    BY <2>1 DEF CountersExact
<1> QED
  BY <1>2, <1>3, <1>4, <1>5 DEF IInv, FailsOnlyWornOut

LEMMA NextInvariant == IInv /\ [Next]_vars => IInv'
<1> SUFFICES ASSUME IInv, [Next]_vars PROVE IInv'
  OBVIOUS
<1>1. CASE UNCHANGED vars
  BY <1>1 DEF vars, IInv, TypeOK, StaleOnlyByFailure, StaleCopies, WornOutIsFull,
     CountersExact, FailsOnlyWornOut
<1> QED
  BY <1>1, WriteStartInvariant, CollectInvariant, WriteFinishInvariant,
     ProgramInvariant, ProgramDefaultInvariant, TrimInvariant DEF Next

(* IInv holds in every reachable state.                                     *)
THEOREM Invariant == Spec => []IInv
BY InitInvariant, NextInvariant, PTL DEF Spec

(* Type correctness.                                                        *)
THEOREM TypeCorrect == Spec => []TypeOK
<1>1. IInv => TypeOK
  BY DEF IInv
<1> QED
  BY <1>1, Invariant, PTL

(* Whatever is trimmed, collected and worn out, there are no more old copies  *)
(* of pages than writes have failed: none, as long as none has.             *)
THEOREM StaleByFailure == Spec => []StaleOnlyByFailure
<1>1. IInv => StaleOnlyByFailure
  BY DEF IInv
<1> QED
  BY <1>1, Invariant, PTL

(* write() gives up only on a worn-out victim.                              *)
THEOREM FailsWornOut == Spec => []FailsOnlyWornOut
<1>1. IInv => FailsOnlyWornOut
  BY DEF IInv
<1> QED
  BY <1>1, Invariant, PTL

(* The counters and min_seek_empty are exact in every block, for trims of    *)
(* EMPTY pages too, but for the pages block 0 counts again after a write    *)
(* that failed.                                                            *)
THEOREM CountersRight == Spec => []CountersExact
<1>1. IInv => CountersExact
  BY DEF IInv
<1> QED
  BY <1>1, Invariant, PTL

-----------------------------------------------------------------------------
(* What a step can lose.                                                    *)

(* Invalidating the page of m loses m, or what m's stale entry names.        *)
LEMMA InvalidateLoses ==
  ASSUME IInv, NEW m \in LPN, InvalidateMapped(m), map' = map, lpn' \in {m, lpn},
         NEW l \in StoredPages \ StoredPages'
  PROVE  m = l \/ m \notin StoredPages
<1>1. /\ l \in LPN /\ l # lpn /\ flash[map[l].block].data[map[l].page] = l
      /\ l = m \/ flash'[map[l].block].data[map[l].page] # l
  BY DEF StoredPages
<1>2. map[l].block \in Block /\ map[l].page \in PageNo
  BY <1>1 DEF IInv, TypeOK, Address
<1>3. CASE flash'[map[l].block].data[map[l].page] # l
  <2>1. \A b \in Block, q \in PageNo :
          flash'[b].data[q] = IF b = map[m].block /\ q = map[m].page
                                THEN INVALID ELSE flash[b].data[q]
    BY InvalidateFacts
  <2>2. map[l].block = map[m].block /\ map[l].page = map[m].page
    BY <1>1, <1>2, <1>3, <2>1
  <2>3. ASSUME m \in StoredPages
        PROVE  m = l
    BY <1>1, <2>2, <2>3 DEF StoredPages
  <2> QED
    BY <2>3
<1> QED
  BY <1>1, <1>3

LEMMA CollectLosesNothing ==
  ASSUME IInv, NEW v \in Block, Collect(v), NEW l \in StoredPages
  PROVE  l \in StoredPages'
<1> DEFINE old  == flash[v]
           copy == Erase(old)
           new  == CopyBlockAfter(old, copy)
           p    == LastPageOf(old, l)
<1>1. /\ flash \in [Block -> BlockState] /\ old \in BlockState /\ l \in LPN
      /\ map[l].block \in Block /\ map[l].page \in PageNo
      /\ flash[map[l].block].data[map[l].page] = l
      /\ l # lpn /\ lpn' = lpn
  BY DEF IInv, TypeOK, Address, StoredPages, Collect
<1>2. /\ copy \in BlockState
      /\ flash' = [flash EXCEPT ![v] = new]
      /\ CanErase(old) => \A q \in ValidPages(old) : IsCopied(old, copy, q)
      /\ ~CanErase(old) => new = old
  BY CollectFacts
<1> HIDE DEF copy, new
<1>3. CASE ~CanErase(old)
  <2>1. flash' = flash /\ map' = map
    BY <1>1, <1>2, <1>3, CollectMap
  <2> QED
    BY <1>1, <2>1 DEF StoredPages
<1>4. CASE CanErase(old) /\ PagesOf(old, l) = {}
  <2>1. map[l].block # v
    BY <1>1, <1>4 DEF PagesOf
  <2>2. map'[l] = map[l]
    BY <1>1, <1>4, CollectMap
  <2>3. flash'[map[l].block] = flash[map[l].block]
    BY <1>1, <1>2, <2>1
  <2> QED
    BY <1>1, <2>2, <2>3 DEF StoredPages
<1>5. CASE CanErase(old) /\ PagesOf(old, l) # {}
  <2>1. p \in ValidPages(old) /\ old.data[p] = l /\ IsCopied(old, copy, p)
    BY <1>1, <1>2, <1>5, LastPageFound
  <2>2. map'[l] = [block |-> v, page |-> NewPageOf(old, copy, p)]
    BY <1>1, <1>5, CollectMap DEF copy
  <2>3. new.data[NewPageOf(old, copy, p)] = old.data[p]
    BY <1>1, <1>2, <2>1, CopiedPage DEF new
  <2>4. flash'[v] = new
    BY <1>1, <1>2
  <2> HIDE DEF p
  <2> QED
    BY <1>1, <2>1, <2>2, <2>3, <2>4 DEF StoredPages
<1> QED
  BY <1>3, <1>4, <1>5

LEMMA FinishLosesNothing ==
  ASSUME IInv, WriteFinish, NEW l \in StoredPages
  PROVE  l \in StoredPages'
<1>1. /\ flash \in [Block -> BlockState] /\ map \in [LPN -> Address] /\ l \in LPN
      /\ WF \in Block /\ lpn \in LPN /\ l # lpn /\ lpn' = lpn
      /\ flash[map[l].block].data[map[l].page] = l
      /\ map[l].block \in Block
  BY DEF IInv, TypeOK, Address, StoredPages, WriteFinish
<1>2. map'[l] = map[l]
  BY <1>1 DEF WriteFinish
<1>3. \A b \in Block : flash'[b].data = flash[b].data
  BY <1>1, SeekType DEF WriteFinish
<1> QED
  BY <1>1, <1>2, <1>3 DEF StoredPages

(* A physical write loses no page but the one it is programmed over.         *)
LEMMA WriteLosesOnlyThere ==
  ASSUME IInv, NEW a \in Address, PhysicalWrite(a), pc # "idle",
         NEW l \in StoredPages, map[l] # a
  PROVE  l \in StoredPages'
<1>1. /\ map[l] \in Address /\ l \in LPN
      /\ flash[map[l].block].data[map[l].page] = l
  BY DEF IInv, TypeOK, StoredPages
<1>2. /\ map[l].block \in Block /\ map[l].page \in PageNo
      /\ map[l] = [block |-> map[l].block, page |-> map[l].page]
      /\ a = [block |-> a.block, page |-> a.page]
  BY <1>1 DEF Address
<1>3. /\ map' = map /\ lpn' = NONE
      /\ \A b \in Block, q \in PageNo :
           flash'[b].data[q] = IF b = a.block /\ q = a.page THEN lpn ELSE flash[b].data[q]
  BY PhysicalWriteFacts
<1>4. flash'[map[l].block].data[map[l].page] = l
  BY <1>1, <1>2, <1>3
<1> QED
  BY <1>1, <1>3, <1>4, PlaneAssumption DEF StoredPages

LEMMA ProgramLosesNothing ==
  ASSUME IInv, Program, NEW l \in StoredPages
  PROVE  l \in StoredPages'
<1>1. /\ map[lpn] \in Address /\ PhysicalWrite(map[lpn]) /\ pc # "idle"
      /\ flash[map[lpn].block].data[map[lpn].page] = EMPTY
  BY DEF IInv, TypeOK, Program
<1>2. flash[map[l].block].data[map[l].page] = l /\ l \in LPN
  BY DEF StoredPages
<1>3. map[l] # map[lpn]
  BY <1>1, <1>2, BlockAssumption
<1> QED
  BY <1>1, <1>3, WriteLosesOnlyThere

(* A logical page is lost only by being written or trimmed itself, by the     *)
(* write or trim of one that is not stored where its entry says, or by being  *)
(* the one at the default address when a write has failed.                  *)
THEOREM LosesOnlyStale == Spec => LosesOnlyThroughStaleEntry
<1>1. IInv /\ [Next]_vars => [LosesOnlyExpectedPages]_vars
  <2> SUFFICES ASSUME IInv, [Next]_vars, NEW l \in StoredPages \ StoredPages'
               PROVE  \/ \E m \in LPN : /\ WriteStart(m) \/ Trim(m)
                                        /\ m = l \/ m \notin StoredPages
                      \/ ProgramDefault /\ map[l] = DefaultAddress
    BY DEF LosesOnlyExpectedPages
  <2>1. ASSUME NEW m \in LPN, WriteStart(m) \/ Trim(m)
        PROVE  m = l \/ m \notin StoredPages
    <3>1. InvalidateMapped(m) /\ map' = map /\ lpn' \in {m, lpn}
      BY <2>1 DEF WriteStart, Trim
    <3> QED
      BY <3>1, InvalidateLoses
  <2>2. ~(UNCHANGED vars)
    BY DEF vars, StoredPages
  <2>3. ~WriteFinish /\ ~Program
    BY FinishLosesNothing, ProgramLosesNothing
  <2>4. ~(\E v \in Block : Collect(v))
    BY CollectLosesNothing
  <2>5. ASSUME ProgramDefault
        PROVE  map[l] = DefaultAddress
    <3>1. PhysicalWrite(DefaultAddress) /\ pc # "idle"
      BY <2>5 DEF ProgramDefault
    <3> QED
      BY <3>1, DefaultIsAddress, WriteLosesOnlyThere
  <2> QED
    BY <2>1, <2>2, <2>3, <2>4, <2>5 DEF Next
<1> QED
  BY <1>1, Invariant, PTL DEF Spec, LosesOnlyThroughStaleEntry

=============================================================================
