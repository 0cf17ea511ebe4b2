------------------------ MODULE BlockManager_proofs -------------------------
(***************************************************************************)
(* What the proofs about the FTLs with a block manager need to know of the  *)
(* flash as they see it and of the manager.                                *)
(***************************************************************************)
EXTENDS BlockManager, FiniteSetTheorems, SequenceTheorems, TLAPS

-----------------------------------------------------------------------------
(* The flash.                                                              *)

(* The marks of a page that carries no newest data differ.                  *)
LEMMA MarksDiffer == EMPTY # INVALID /\ EMPTY # OLD /\ INVALID # OLD
<1>1. Cardinality({EMPTY, INVALID, OLD}) = 3
  BY NandAssumption
<1>2. ASSUME NEW x, NEW y
      PROVE  Cardinality({x, y}) \in 1 .. 2
  <2>1. IsFiniteSet({x}) /\ Cardinality({x}) = 1
    BY FS_Singleton
  <2>2. {x, y} = {x} \cup {y}
    OBVIOUS
  <2>3. Cardinality({x} \cup {y}) \in 1 .. 2
    BY <2>1, FS_AddElement
  <2> QED
    BY <2>2, <2>3
<1>3. Cardinality({EMPTY, OLD}) # 3 /\ Cardinality({EMPTY, INVALID}) # 3
  <2>1. Cardinality({EMPTY, OLD}) \in 1 .. 2 /\ Cardinality({EMPTY, INVALID}) \in 1 .. 2
    BY <1>2
  <2> QED
    BY <2>1
<1>4. /\ EMPTY = INVALID => {EMPTY, INVALID, OLD} = {EMPTY, OLD}
      /\ EMPTY = OLD => {EMPTY, INVALID, OLD} = {EMPTY, INVALID}
      /\ INVALID = OLD => {EMPTY, INVALID, OLD} = {EMPTY, INVALID}
  OBVIOUS
<1> QED
  BY <1>1, <1>3, <1>4

LEMMA MarksAreNoPages ==
  ASSUME NEW l \in LPN
  PROVE  l # EMPTY /\ l # INVALID /\ l # OLD /\ IsValid(l)
BY NandAssumption DEF IsValid

LEMMA BlockSizeType == BLOCK_SIZE \in Nat \ {0}
BY NandAssumption

(* A logical page has a logical block and a place in it, and they are its    *)
(* own.                                                                    *)
LEMMA PositionType ==
  ASSUME NEW l \in LPN
  PROVE  LbaOf(l) \in LBA /\ OffsetOf(l) \in PageNo
<1>1. BLOCK_SIZE \in Nat /\ BLOCK_SIZE > 0 /\ NUM_LPN \in Int /\ l \in 0 .. NUM_LPN - 1
  BY BlockSizeType, NandAssumption DEF LPN
<1>2. OffsetOf(l) \in PageNo
  BY <1>1 DEF OffsetOf, PageNo
<1>3. l \div BLOCK_SIZE \in 0 .. (NUM_LPN - 1) \div BLOCK_SIZE
  BY <1>1
<1> QED
  BY <1>2, <1>3 DEF LbaOf, LBA

LEMMA PositionUnique ==
  ASSUME NEW l \in LPN, NEW m \in LPN, LbaOf(l) = LbaOf(m), OffsetOf(l) = OffsetOf(m)
  PROVE  l = m
<1>1. BLOCK_SIZE \in Nat /\ BLOCK_SIZE > 0 /\ l \in Nat /\ m \in Nat
  BY BlockSizeType, NandAssumption DEF LPN
<1>2. \A n \in Nat : n = BLOCK_SIZE * (n \div BLOCK_SIZE) + (n % BLOCK_SIZE)
  BY <1>1
<1> QED
  BY <1>1, <1>2 DEF LbaOf, OffsetOf

-----------------------------------------------------------------------------
(* Valid pages.                                                            *)

LEMMA ValidCount ==
  ASSUME NEW pages
  PROVE  /\ IsFiniteSet({p \in PageNo : IsValid(pages[p])})
         /\ get_pages_valid(pages) \in 0 .. BLOCK_SIZE
<1>1. /\ IsFiniteSet(PageNo) /\ Cardinality(PageNo) = BLOCK_SIZE
  BY BlockSizeType, FS_Interval DEF PageNo
<1>2. {p \in PageNo : IsValid(pages[p])} \in SUBSET PageNo
  OBVIOUS
<1>3. /\ IsFiniteSet({p \in PageNo : IsValid(pages[p])})
      /\ Cardinality({p \in PageNo : IsValid(pages[p])}) <= Cardinality(PageNo)
  BY <1>1, <1>2, FS_Subset
<1>4. Cardinality({p \in PageNo : IsValid(pages[p])}) \in Nat
  BY <1>3, FS_CardinalityType
<1> QED
  BY <1>1, <1>3, <1>4, BlockSizeType DEF get_pages_valid

(* The number of valid pages of a block written in order is the number of    *)
(* an EMPTY page, the first one, unless pages were invalidated or the block  *)
(* is full; and if it is the number of an EMPTY page, that is the first one. *)
LEMMA NextPageInOrder ==
  ASSUME NEW pages,
         \A p, q \in PageNo : p < q /\ pages[p] = EMPTY => pages[q] = EMPTY
  PROVE  /\ get_free_page(pages) \in PageNo /\ pages[get_free_page(pages)] = EMPTY =>
              \A p \in PageNo : p < get_free_page(pages) => pages[p] # EMPTY
         /\ (\A p \in PageNo : pages[p] # INVALID) /\ get_pages_valid(pages) # BLOCK_SIZE =>
              get_free_page(pages) \in PageNo /\ pages[get_free_page(pages)] = EMPTY
<1> DEFINE V == {p \in PageNo : IsValid(pages[p])}
           n == Cardinality(V)
<1>1. n \in 0 .. BLOCK_SIZE /\ IsFiniteSet(V)
  BY ValidCount DEF get_pages_valid
<1>2. get_free_page(pages) = n /\ get_pages_valid(pages) = n
  BY DEF get_free_page, get_pages_valid
<1>3. \A p \in V : p \in PageNo /\ pages[p] # EMPTY
  BY DEF IsValid
<1>4. ASSUME NEW p \in PageNo, pages[p] = EMPTY
      PROVE  n <= p
  <2>1. V \in SUBSET (0 .. p - 1)
    BY <1>3, <1>4 DEF PageNo
  <2>2. IsFiniteSet(0 .. p - 1) /\ Cardinality(0 .. p - 1) = p
    BY FS_Interval DEF PageNo
  <2>3. Cardinality(V) <= Cardinality(0 .. p - 1)
    BY <2>1, <2>2, FS_Subset
  <2> QED
    BY <2>2, <2>3
<1>5. ASSUME \A p \in PageNo : pages[p] # INVALID, n \in PageNo
      PROVE  pages[n] = EMPTY
  <2> SUFFICES ASSUME pages[n] # EMPTY PROVE FALSE
    OBVIOUS
  <2>1. \A p \in PageNo : p <= n => pages[p] # EMPTY
    BY <1>1, <1>5 DEF PageNo
  <2>2. \A p \in PageNo : p <= n => p \in V
    BY <2>1, <1>5 DEF IsValid
  <2>3. 0 .. n \in SUBSET V
    BY <2>2, <1>1, <1>5, BlockSizeType DEF PageNo
  <2>4. Cardinality(0 .. n) = n + 1
    BY <1>1, FS_Interval
  <2>5. Cardinality(0 .. n) <= n
    BY <2>3, <1>1, FS_Subset
  <2> QED
    BY <2>4, <2>5, <1>1
<1>6. n # BLOCK_SIZE => n \in PageNo
  BY <1>1, BlockSizeType DEF PageNo
<1> HIDE DEF V
<1>7. ASSUME NEW p \in PageNo, n \in PageNo, p < n
      PROVE  pages[p] # EMPTY
  BY <1>4, <1>7 DEF PageNo
<1> QED
  BY <1>2, <1>5, <1>6, <1>7

-----------------------------------------------------------------------------
(* The manager.                                                            *)

LEMMA NothingTwice ==
  ASSUME NEW bm \in Manager, HandsOutOnce(bm)
  PROVE  /\ NoBlockTwice(bm.free_list)
         /\ FreeBlocks(bm) \subseteq Block
<1> DEFINE list == bm.free_list
           n == Len(list)
<1>1. list \in Seq(Block) /\ n \in Nat /\ \A i \in 1 .. n : list[i] \in Block
  BY DEF Manager
<1>2. list \in Bijection(1 .. n, Blocks(list))
  <2>1. list \in [1 .. n -> Blocks(list)]
    BY <1>1 DEF Blocks
  <2>2. \A i, j \in 1 .. n : list[i] = list[j] => i = j
    BY DEF HandsOutOnce
  <2>3. \A b \in Blocks(list) : \E i \in 1 .. n : list[i] = b
    BY DEF Blocks
  <2> QED
    BY <2>1, <2>2, <2>3 DEF Bijection, Injection, Surjection, IsInjective
<1>3. IsFiniteSet(1 .. n) /\ Cardinality(1 .. n) = n
  BY <1>1, FS_Interval
<1>4. Cardinality(Blocks(list)) = n
  BY <1>2, <1>3, FS_Bijection DEF ExistsBijection
<1>5. NoBlockTwice(list)
  BY <1>4 DEF NoBlockTwice
<1>6. FreeBlocks(bm) \subseteq Block
  BY <1>1 DEF FreeBlocks, Blocks, Block, Manager
<1> QED
  BY <1>5, <1>6

(* The counters are kept apart from the lists.                              *)
LEMMA Counted ==
  ASSUME NEW bm \in Manager, NEW type, NEW new,
         new = Counting(bm, type) \/ new = Discounting(bm, type)
  PROVE  /\ new \in Manager
         /\ new.simpleCurrentFree = bm.simpleCurrentFree
         /\ new.free_list = bm.free_list
BY DEF Manager, Counting, Discounting

(* get_free_block: a block leaves those that are free.                      *)
LEMMA GetFreeBlock ==
  ASSUME NEW bm \in Manager, HandsOutOnce(bm), HasFreeBlock(bm), NEW type
  PROVE  /\ FreeBlock(bm) \in FreeBlocks(bm) /\ FreeBlock(bm) \in Block
         /\ get_free_block(bm, type) \in Manager
         /\ HandsOutOnce(get_free_block(bm, type))
         /\ FreeBlocks(get_free_block(bm, type)) = FreeBlocks(bm) \ {FreeBlock(bm)}
<1> DEFINE list == bm.free_list
           new == get_free_block(bm, type)
<1>1. /\ bm.simpleCurrentFree \in 0 .. NUM_BLOCKS /\ list \in Seq(Block)
      /\ bm.invalid_list \in Seq(Block) /\ bm.data_active \in Int /\ bm.log_active \in Int
      /\ NUM_BLOCKS \in Nat
  BY NandAssumption DEF Manager
<1>2. CASE IsSimple(bm)
  <2> DEFINE taken == [bm EXCEPT !.simpleCurrentFree = @ + 1]
  <2>0. /\ taken \in Manager /\ taken.simpleCurrentFree = bm.simpleCurrentFree + 1
        /\ taken.free_list = list
    BY <1>1, <1>2 DEF Manager, IsSimple
  <2>1. /\ FreeBlock(bm) = bm.simpleCurrentFree
        /\ new.simpleCurrentFree = bm.simpleCurrentFree + 1 /\ new.free_list = list
        /\ new \in Manager
    <3>1. new = Counting(taken, type)
      BY <1>2 DEF get_free_block
    <3> HIDE DEF taken, new
    <3> QED
      BY <1>2, <2>0, <3>1, Counted DEF FreeBlock
  <2>2. \A i \in 1 .. Len(list) : list[i] < bm.simpleCurrentFree /\ list[i] \in Int
    BY <1>1 DEF HandsOutOnce, Block
  <2>3. HandsOutOnce(new)
    BY <1>1, <2>1, <2>2 DEF HandsOutOnce
  <2>4. bm.simpleCurrentFree \notin Blocks(list)
    BY <1>1, <2>2 DEF Blocks
  <2>5. FreeBlocks(new) = FreeBlocks(bm) \ {bm.simpleCurrentFree}
    BY <1>1, <2>1, <2>4 DEF FreeBlocks
  <2>6. bm.simpleCurrentFree \in bm.simpleCurrentFree .. NUM_BLOCKS - 1
    BY <1>1, <1>2 DEF IsSimple
  <2>7. bm.simpleCurrentFree \in FreeBlocks(bm) /\ bm.simpleCurrentFree \in Block
    BY <1>1, <2>6 DEF FreeBlocks, Block
  <2> QED
    BY <2>1, <2>3, <2>5, <2>7
<1>3. CASE ~IsSimple(bm)
  <2> DEFINE taken == [bm EXCEPT !.free_list = Tail(@)]
  <2>1. FreeBlock(bm) = Head(list) /\ list # <<>>
    BY <1>3 DEF FreeBlock, HasFreeBlock
  <2>2. /\ Len(list) \in Nat /\ Len(list) > 0 /\ Head(list) = list[1]
        /\ Tail(list) \in Seq(Block) /\ Len(Tail(list)) = Len(list) - 1
        /\ \A i \in 1 .. Len(list) - 1 : Tail(list)[i] = list[i + 1]
    BY <1>1, <2>1
  <2>0. /\ taken \in Manager /\ taken.simpleCurrentFree = bm.simpleCurrentFree
        /\ taken.free_list = Tail(list)
    BY <2>2 DEF Manager
  <2>3. /\ new.simpleCurrentFree = bm.simpleCurrentFree /\ new.free_list = Tail(list)
        /\ new \in Manager
    <3>1. new = Counting(taken, type)
      BY <1>3 DEF get_free_block
    <3> HIDE DEF taken, new
    <3> QED
      BY <2>0, <3>1, Counted
  <2>4. HandsOutOnce(new)
    <3>1. ASSUME NEW i \in 1 .. Len(list) - 1, NEW j \in 1 .. Len(list) - 1,
                 Tail(list)[i] = Tail(list)[j]
          PROVE  i = j
      <4>1. list[i + 1] = list[j + 1] /\ i + 1 \in 1 .. Len(list) /\ j + 1 \in 1 .. Len(list)
        BY <2>2, <3>1
      <4>2. i + 1 = j + 1
        BY <4>1 DEF HandsOutOnce
      <4> QED
        BY <4>2
    <3>2. ASSUME NEW i \in 1 .. Len(list) - 1
          PROVE  Tail(list)[i] < bm.simpleCurrentFree
      <4>1. Tail(list)[i] = list[i + 1] /\ i + 1 \in 1 .. Len(list)
        BY <2>2
      <4> QED
        BY <4>1 DEF HandsOutOnce
    <3> QED
      BY <2>2, <2>3, <3>1, <3>2 DEF HandsOutOnce
  <2>5. Blocks(Tail(list)) = Blocks(list) \ {Head(list)}
    <3>1. ASSUME NEW b \in Blocks(Tail(list))
          PROVE  b \in Blocks(list) /\ b # Head(list)
      <4>1. PICK i \in 1 .. Len(list) - 1 : b = list[i + 1]
        BY <2>2 DEF Blocks
      <4>2. i + 1 \in 1 .. Len(list) /\ i + 1 # 1 /\ 1 \in 1 .. Len(list)
        BY <2>2
      <4>3. list[i + 1] # list[1]
        BY <4>2 DEF HandsOutOnce
      <4> QED
        BY <2>2, <4>1, <4>2, <4>3 DEF Blocks
    <3>2. ASSUME NEW b \in Blocks(list), b # Head(list)
          PROVE  b \in Blocks(Tail(list))
      <4>1. PICK i \in 1 .. Len(list) : b = list[i]
        BY DEF Blocks
      <4>2. i - 1 \in 1 .. Len(list) - 1 /\ Tail(list)[i - 1] = list[(i - 1) + 1]
        BY <2>2, <3>2, <4>1
      <4>3. Tail(list)[i - 1] = b
        BY <4>1, <4>2
      <4> QED
        BY <2>2, <4>2, <4>3 DEF Blocks
    <3> QED
      BY <3>1, <3>2
  <2>6. bm.simpleCurrentFree .. NUM_BLOCKS - 1 = {}
    BY <1>1, <1>3 DEF IsSimple
  <2>7. FreeBlocks(new) = FreeBlocks(bm) \ {Head(list)}
    BY <2>3, <2>5, <2>6 DEF FreeBlocks
  <2>8. Head(list) \in FreeBlocks(bm) /\ Head(list) \in Block
    BY <1>1, <2>2 DEF FreeBlocks, Blocks
  <2> QED
    BY <2>1, <2>3, <2>4, <2>7, <2>8
<1> QED
  BY <1>2, <1>3

(* erase_and_invalidate: a block that is not free becomes so.               *)
LEMMA EraseAndInvalidate ==
  ASSUME NEW bm \in Manager, HandsOutOnce(bm), NEW type,
         NEW b \in Block, b \notin FreeBlocks(bm)
  PROVE  /\ erase_and_invalidate(bm, b, type) \in Manager
         /\ HandsOutOnce(erase_and_invalidate(bm, b, type))
         /\ FreeBlocks(erase_and_invalidate(bm, b, type)) = FreeBlocks(bm) \cup {b}
<1> DEFINE list == bm.free_list
           new == erase_and_invalidate(bm, b, type)
<1>1. /\ bm.simpleCurrentFree \in 0 .. NUM_BLOCKS /\ list \in Seq(Block)
      /\ bm.invalid_list \in Seq(Block) /\ bm.data_active \in Int /\ bm.log_active \in Int
      /\ NUM_BLOCKS \in Nat /\ Len(list) \in Nat
  BY NandAssumption DEF Manager
<1>2. /\ Append(list, b) \in Seq(Block) /\ Len(Append(list, b)) = Len(list) + 1
      /\ \A i \in 1 .. Len(list) : Append(list, b)[i] = list[i]
      /\ Append(list, b)[Len(list) + 1] = b
  BY <1>1
<1> DEFINE given == [bm EXCEPT !.free_list = Append(@, b)]
<1>3. /\ given \in Manager /\ given.simpleCurrentFree = bm.simpleCurrentFree
      /\ given.free_list = Append(list, b)
  BY <1>2 DEF Manager
<1>4. /\ new.simpleCurrentFree = bm.simpleCurrentFree /\ new.free_list = Append(list, b)
      /\ new \in Manager
  <2>1. new = Discounting(given, type)
    BY DEF erase_and_invalidate
  <2> HIDE DEF given, new
  <2> QED
    BY <1>3, <2>1, Counted
<1>5. b \notin Blocks(list) /\ b < bm.simpleCurrentFree
  BY <1>1 DEF FreeBlocks, Block
<1>6. \A i \in 1 .. Len(list) : list[i] # b
  BY <1>5 DEF Blocks
<1>7. HandsOutOnce(new)
  <2>1. ASSUME NEW i \in 1 .. Len(list) + 1, NEW j \in 1 .. Len(list) + 1,
               Append(list, b)[i] = Append(list, b)[j]
        PROVE  i = j
    <3>1. CASE i \in 1 .. Len(list) /\ j \in 1 .. Len(list)
      BY <1>2, <2>1, <3>1 DEF HandsOutOnce
    <3>2. CASE i = Len(list) + 1 \/ j = Len(list) + 1
      BY <1>1, <1>2, <1>6, <2>1, <3>2
    <3> QED
      BY <1>1, <3>1, <3>2
  <2>2. ASSUME NEW i \in 1 .. Len(list) + 1
        PROVE  Append(list, b)[i] < bm.simpleCurrentFree
    <3>1. CASE i \in 1 .. Len(list)
      BY <1>2, <3>1 DEF HandsOutOnce
    <3>2. CASE i = Len(list) + 1
      BY <1>2, <1>5, <3>2
    <3> QED
      BY <1>1, <3>1, <3>2
  <2> QED
    BY <1>2, <1>4, <2>1, <2>2 DEF HandsOutOnce
<1>8. Blocks(Append(list, b)) = Blocks(list) \cup {b}
  <2>1. 1 .. Len(list) + 1 = (1 .. Len(list)) \cup {Len(list) + 1}
    BY <1>1
  <2> QED
    BY <1>2, <2>1 DEF Blocks
<1>9. FreeBlocks(new) = FreeBlocks(bm) \cup {b}
  BY <1>4, <1>8 DEF FreeBlocks
<1> QED
  BY <1>4, <1>7, <1>9

(* What the calls do to the counters.                                       *)
LEMMA ManagerCounters ==
  ASSUME NEW bm \in Manager, NEW b \in Block
  PROVE  /\ get_free_block(bm, "DATA").data_active = bm.data_active + 1
         /\ get_free_block(bm, "DATA").log_active = bm.log_active
         /\ get_free_block(bm, "LOG").log_active = bm.log_active + 1
         /\ get_free_block(bm, "LOG").data_active = bm.data_active
         /\ erase_and_invalidate(bm, b, "DATA").data_active = bm.data_active - 1
         /\ erase_and_invalidate(bm, b, "DATA").log_active = bm.log_active
         /\ erase_and_invalidate(bm, b, "LOG").log_active = bm.log_active - 1
         /\ erase_and_invalidate(bm, b, "LOG").data_active = bm.data_active
BY DEF Manager, get_free_block, erase_and_invalidate, Counting, Discounting

LEMMA PromoteToData ==
  ASSUME NEW bm \in Manager, HandsOutOnce(bm)
  PROVE  /\ promote_block(bm, "DATA") \in Manager
         /\ HandsOutOnce(promote_block(bm, "DATA"))
         /\ FreeBlocks(promote_block(bm, "DATA")) = FreeBlocks(bm)
         /\ promote_block(bm, "DATA").data_active = bm.data_active + 1
         /\ promote_block(bm, "DATA").log_active = bm.log_active - 1
<1> DEFINE half == Counting(bm, "DATA")
           new  == Discounting(half, "LOG")
<1>1. half.data_active = bm.data_active + 1 /\ half.log_active = bm.log_active
  BY DEF Manager, Counting
<1>2. /\ half \in Manager /\ half.simpleCurrentFree = bm.simpleCurrentFree
      /\ half.free_list = bm.free_list
  BY Counted
<1>3. promote_block(bm, "DATA") = new
  BY DEF promote_block
<1> HIDE DEF half
<1>4. new.data_active = half.data_active /\ new.log_active = half.log_active - 1
  BY <1>2 DEF Manager, Discounting
<1>5. /\ new \in Manager /\ new.simpleCurrentFree = bm.simpleCurrentFree
      /\ new.free_list = bm.free_list
  BY <1>2, Counted
<1> HIDE DEF new
<1>6. HandsOutOnce(new) /\ FreeBlocks(new) = FreeBlocks(bm)
  BY <1>5 DEF HandsOutOnce, FreeBlocks
<1> QED
  BY <1>1, <1>3, <1>4, <1>5, <1>6

-----------------------------------------------------------------------------
(* The flash and the manager together, and what insert_events does to them.  *)

Pages == [PageNo -> LPN \cup {EMPTY, INVALID, OLD}]

Memories == [bm : Manager, flash : [Block -> Pages]]

LEMMA ErasedType == Erased \in Pages
BY DEF Erased, Pages

LEMMA MemoryParts ==
  ASSUME NEW m \in Memories
  PROVE  m.bm \in Manager /\ m.flash \in [Block -> Pages]
BY DEF Memories

(* The blocks that are free, or are so once they are erased.                *)
Pool(bm) == FreeBlocks(bm) \cup Blocks(bm.invalid_list)

NoRepeat(s) == \A i, j \in 1 .. Len(s) : s[i] = s[j] => i = j

(* The manager of memory m hands out no block twice, none that is not       *)
(* Erased and none of those in S, which others have.                        *)
Managed(m, S) ==
  /\ HandsOutOnce(m.bm)
  /\ NoRepeat(m.bm.invalid_list)
  /\ FreeBlocks(m.bm) \cap Blocks(m.bm.invalid_list) = {}
  /\ Pool(m.bm) \cap S = {}
  /\ \A b \in FreeBlocks(m.bm) : m.flash[b] = Erased

(* The reclaimed blocks are the last ones of the list.                      *)
LEMMA ReclaimedAre ==
  ASSUME NEW bm \in Manager
  PROVE  /\ NumReclaimed(bm) \in 0 .. Len(bm.invalid_list) /\ Len(bm.invalid_list) \in Nat
         /\ Reclaimed(bm) \in Seq(Block) /\ Len(Reclaimed(bm)) = NumReclaimed(bm)
         /\ \A i \in 1 .. NumReclaimed(bm) :
              Reclaimed(bm)[i] = bm.invalid_list[Len(bm.invalid_list) + 1 - i]
<1> DEFINE list == bm.invalid_list
           n == NumReclaimed(bm)
<1>1. list \in Seq(Block) /\ Len(list) \in Nat /\ \A i \in 1 .. Len(list) : list[i] \in Block
  BY DEF Manager
<1>2. n \in 0 .. Len(list)
  BY <1>1 DEF NumReclaimed
<1> HIDE DEF n
<1>3. Reclaimed(bm) = [i \in 1 .. n |-> list[Len(list) + 1 - i]]
  BY DEF Reclaimed, n
<1>4. \A i \in 1 .. n : list[Len(list) + 1 - i] \in Block
  BY <1>1, <1>2
<1>5. Reclaimed(bm) \in Seq(Block) /\ Len(Reclaimed(bm)) = n
  BY <1>2, <1>3, <1>4
<1> QED
  BY <1>1, <1>2, <1>3, <1>5 DEF n

(* insert_events appends them to free_list and shortens invalid_list.        *)
LEMMA InsertEventsTyped ==
  ASSUME NEW bm \in Manager
  PROVE  /\ insert_events(bm) \in Manager
         /\ insert_events(bm).simpleCurrentFree = bm.simpleCurrentFree
         /\ insert_events(bm).data_active = bm.data_active
         /\ insert_events(bm).log_active = bm.log_active
         /\ insert_events(bm).free_list = bm.free_list \o Reclaimed(bm)
         /\ insert_events(bm).invalid_list =
              SubSeq(bm.invalid_list, 1, Len(bm.invalid_list) - NumReclaimed(bm))
<1> DEFINE kept == SubSeq(bm.invalid_list, 1, Len(bm.invalid_list) - NumReclaimed(bm))
<1>1. /\ bm.free_list \in Seq(Block) /\ bm.invalid_list \in Seq(Block)
      /\ \A i \in 1 .. Len(bm.invalid_list) : bm.invalid_list[i] \in Block
  BY DEF Manager
<1>2. bm.free_list \o Reclaimed(bm) \in Seq(Block)
  BY <1>1, ReclaimedAre, ConcatProperties
<1>3. kept \in Seq(Block)
  <2>1. \A i \in 1 .. Len(bm.invalid_list) - NumReclaimed(bm) : bm.invalid_list[i] \in Block
    BY <1>1, ReclaimedAre
  <2>2. Len(bm.invalid_list) - NumReclaimed(bm) \in Int
    BY ReclaimedAre
  <2> QED
    BY <2>1, <2>2, SubSeqProperties
<1>4. /\ insert_events(bm).simpleCurrentFree = bm.simpleCurrentFree
      /\ insert_events(bm).data_active = bm.data_active
      /\ insert_events(bm).log_active = bm.log_active
      /\ insert_events(bm).free_list = bm.free_list \o Reclaimed(bm)
      /\ insert_events(bm).invalid_list = kept
  BY DEF insert_events, Manager
<1>5. insert_events(bm) \in Manager
  BY <1>2, <1>3 DEF insert_events, Manager
<1> QED
  BY <1>4, <1>5

(* No block is lost on the way from one list to the other.                  *)
LEMMA InsertEventsLists ==
  ASSUME NEW bm \in Manager, HandsOutOnce(bm), NoRepeat(bm.invalid_list),
         FreeBlocks(bm) \cap Blocks(bm.invalid_list) = {}
  PROVE  /\ Blocks(Reclaimed(bm)) \subseteq Blocks(bm.invalid_list)
         /\ FreeBlocks(insert_events(bm)) = FreeBlocks(bm) \cup Blocks(Reclaimed(bm))
         /\ Blocks(insert_events(bm).invalid_list)
              = Blocks(bm.invalid_list) \ Blocks(Reclaimed(bm))
         /\ HandsOutOnce(insert_events(bm))
         /\ NoRepeat(insert_events(bm).invalid_list)
<1> DEFINE list == bm.invalid_list
           n == NumReclaimed(bm)
           r == Reclaimed(bm)
           free == bm.free_list
           kept == insert_events(bm).invalid_list
           first == bm.simpleCurrentFree
           new == insert_events(bm)
<1>1. /\ list \in Seq(Block) /\ Len(list) \in Nat /\ \A i \in 1 .. Len(list) : list[i] \in Block
      /\ free \in Seq(Block) /\ Len(free) \in Nat /\ \A i \in 1 .. Len(free) : free[i] \in Block
      /\ first \in 0 .. NUM_BLOCKS /\ NUM_BLOCKS \in Nat
  BY NandAssumption DEF Manager
<1>2. /\ n \in 0 .. Len(list) /\ r \in Seq(Block) /\ Len(r) = n
      /\ \A i \in 1 .. n : r[i] = list[Len(list) + 1 - i]
  BY ReclaimedAre
<1>3. /\ new.simpleCurrentFree = first /\ new.free_list = free \o r
      /\ kept = SubSeq(list, 1, Len(list) - n)
  BY InsertEventsTyped
<1>4. /\ Len(free \o r) = Len(free) + n
      /\ \A i \in 1 .. Len(free) + n :
           (free \o r)[i] = IF i <= Len(free) THEN free[i] ELSE r[i - Len(free)]
  <2>1. free \in Seq(Block) /\ r \in Seq(Block) /\ Len(r) = n
    BY <1>1, <1>2
  <2> HIDE DEF free, r, n
  <2> QED
    BY <2>1, ConcatProperties
<1>5. /\ Len(kept) = Len(list) - n
      /\ \A i \in 1 .. Len(list) - n : kept[i] = list[i]
  <2>1. Len(list) - n \in Int /\ \A i \in 1 .. Len(list) - n : list[i] \in Block
    BY <1>1, <1>2
  <2>2. /\ Len(kept) = IF 1 <= Len(list) - n THEN (Len(list) - n) - 1 + 1 ELSE 0
        /\ \A i \in 1 .. (Len(list) - n) - 1 + 1 : kept[i] = list[1 + i - 1]
    BY <1>3, <2>1, SubSeqProperties
  <2> HIDE DEF kept, n
  <2> QED
    BY <1>1, <1>2, <2>2
<1>6. \A i, j \in 1 .. Len(list) : list[i] = list[j] => i = j
  BY DEF NoRepeat
<1> HIDE DEF list, n, r, free, kept, first, new
<1>7. Blocks(r) \subseteq Blocks(list)
  BY <1>1, <1>2 DEF Blocks
<1>8. Blocks(new.free_list) = Blocks(free) \cup Blocks(r)
  <2>1. ASSUME NEW b \in Blocks(new.free_list) PROVE b \in Blocks(free) \cup Blocks(r)
    <3>1. PICK i \in 1 .. Len(free) + n : b = (free \o r)[i]
      BY <1>3, <1>4 DEF Blocks
    <3>2. CASE i <= Len(free)
      BY <1>1, <1>2, <1>4, <3>1, <3>2 DEF Blocks
    <3>3. CASE i > Len(free)
      <4>1. i - Len(free) \in 1 .. n
        BY <1>1, <1>2, <3>1, <3>3
      <4> QED
        BY <1>1, <1>2, <1>4, <3>1, <3>3, <4>1 DEF Blocks
    <3> QED
      BY <1>1, <1>2, <3>2, <3>3
  <2>2. ASSUME NEW b \in Blocks(free) PROVE b \in Blocks(new.free_list)
    <3>1. PICK i \in 1 .. Len(free) : b = free[i]
      BY DEF Blocks
    <3>2. i \in 1 .. Len(free) + n /\ (free \o r)[i] = b
      BY <1>1, <1>2, <1>4, <3>1
    <3> QED
      BY <1>3, <1>4, <3>2 DEF Blocks
  <2>3. ASSUME NEW b \in Blocks(r) PROVE b \in Blocks(new.free_list)
    <3>1. PICK i \in 1 .. n : b = r[i]
      BY <1>2 DEF Blocks
    <3>2. /\ Len(free) + i \in 1 .. Len(free) + n
          /\ (Len(free) + i) - Len(free) = i /\ ~(Len(free) + i <= Len(free))
      BY <1>1, <1>2, <3>1
    <3>3. (free \o r)[Len(free) + i] = b
      BY <1>4, <3>1, <3>2
    <3> QED
      BY <1>3, <1>4, <3>2, <3>3 DEF Blocks
  <2> QED
    BY <2>1, <2>2, <2>3
<1>9. FreeBlocks(new) = FreeBlocks(bm) \cup Blocks(r)
  BY <1>3, <1>8 DEF FreeBlocks, free, first
<1>10. Blocks(kept) = Blocks(list) \ Blocks(r)
  <2>1. ASSUME NEW b \in Blocks(kept) PROVE b \in Blocks(list) /\ b \notin Blocks(r)
    <3>1. PICK i \in 1 .. Len(list) - n : b = list[i]
      BY <1>5 DEF Blocks
    <3>2. i \in 1 .. Len(list)
      BY <1>1, <1>2
    <3>3. ASSUME NEW j \in 1 .. n PROVE r[j] # b
      <4>1. Len(list) + 1 - j \in 1 .. Len(list) /\ Len(list) + 1 - j # i
        BY <1>1, <1>2, <3>1
      <4> QED
        BY <1>2, <1>6, <3>1, <3>2, <4>1
    <3> QED
      BY <1>2, <3>1, <3>2, <3>3 DEF Blocks
  <2>2. ASSUME NEW b \in Blocks(list), b \notin Blocks(r) PROVE b \in Blocks(kept)
    <3>1. PICK i \in 1 .. Len(list) : b = list[i]
      BY DEF Blocks
    <3>2. CASE i <= Len(list) - n
      BY <1>1, <1>2, <1>5, <3>1, <3>2 DEF Blocks
    <3>3. CASE i > Len(list) - n
      <4>1. Len(list) + 1 - i \in 1 .. n /\ Len(list) + 1 - (Len(list) + 1 - i) = i
        BY <1>1, <1>2, <3>1, <3>3
      <4>2. r[Len(list) + 1 - i] = b
        BY <1>2, <3>1, <4>1
      <4> QED
        BY <1>2, <2>2, <4>1, <4>2 DEF Blocks
    <3> QED
      BY <1>1, <1>2, <3>2, <3>3
  <2> QED
    BY <2>1, <2>2
<1>11. NoRepeat(kept)
  BY <1>1, <1>2, <1>5, <1>6 DEF NoRepeat
<1>12. \A i \in 1 .. n : r[i] < first /\ r[i] \notin Blocks(free)
  <2>1. ASSUME NEW i \in 1 .. n PROVE r[i] < first /\ r[i] \notin Blocks(free)
    <3>1. r[i] \in Blocks(list) /\ r[i] \in Block
      BY <1>1, <1>2, <1>7 DEF Blocks
    <3>2. r[i] \notin FreeBlocks(bm)
      BY <3>1 DEF list
    <3> QED
      BY <1>1, <3>1, <3>2 DEF FreeBlocks, Block, free, first
  <2> QED
    BY <2>1
<1>13. HandsOutOnce(new)
  <2>1. ASSUME NEW i \in 1 .. Len(free) + n
        PROVE  (free \o r)[i] < first
    <3>1. CASE i <= Len(free)
      BY <1>1, <1>4, <3>1 DEF HandsOutOnce, free, first
    <3>2. CASE i > Len(free)
      <4>1. i - Len(free) \in 1 .. n
        BY <1>1, <1>2, <3>2
      <4> QED
        BY <1>1, <1>2, <1>4, <1>12, <3>2, <4>1
    <3> QED
      BY <1>1, <1>2, <3>1, <3>2
  <2>2. ASSUME NEW i \in 1 .. Len(free) + n, NEW j \in 1 .. Len(free) + n,
               (free \o r)[i] = (free \o r)[j]
        PROVE  i = j
    <3>1. CASE i <= Len(free) /\ j <= Len(free)
      BY <1>1, <1>4, <2>2, <3>1 DEF HandsOutOnce, free
    <3>2. CASE i > Len(free) /\ j > Len(free)
      <4> DEFINE k == i - Len(free)
                 h == j - Len(free)
      <4>1. k \in 1 .. n /\ h \in 1 .. n /\ r[k] = r[h]
        BY <1>1, <1>2, <1>4, <2>2, <3>2
      <4>2. Len(list) + 1 - k \in 1 .. Len(list) /\ Len(list) + 1 - h \in 1 .. Len(list)
        BY <1>1, <1>2, <4>1
      <4>3. Len(list) + 1 - k = Len(list) + 1 - h
        BY <1>2, <1>6, <4>1, <4>2
      <4> QED
        BY <1>1, <1>2, <4>1, <4>3
    <3>3. ASSUME NEW k \in 1 .. Len(free) + n, k <= Len(free),
                 NEW h \in 1 .. Len(free) + n, h > Len(free)
          PROVE  (free \o r)[k] # (free \o r)[h]
      <4>1. h - Len(free) \in 1 .. n /\ (free \o r)[h] = r[h - Len(free)]
        BY <1>1, <1>2, <1>4, <3>3
      <4>2. k \in 1 .. Len(free) /\ (free \o r)[k] = free[k]
        BY <1>1, <1>4, <3>3
      <4>3. free[k] \in Blocks(free)
        BY <4>2 DEF Blocks
      <4> QED
        BY <1>12, <4>1, <4>2, <4>3
    <3> QED
      BY <1>1, <1>2, <2>2, <3>1, <3>2, <3>3
  <2> QED
    BY <1>3, <1>4, <2>1, <2>2 DEF HandsOutOnce
<1> QED
  BY <1>7, <1>9, <1>10, <1>11, <1>13 DEF list, r, kept, new

(* Collected: what was free stays so, what is reclaimed is erased, and all   *)
(* other blocks are left alone.                                            *)
LEMMA CollectedTyped ==
  ASSUME NEW m \in Memories
  PROVE  /\ Collected(m) \in Memories
         /\ Collected(m).bm.data_active = m.bm.data_active
         /\ Collected(m).bm.log_active = m.bm.log_active
         /\ \A b \in Block : Collected(m).flash[b] \in {m.flash[b], Erased}
         /\ \A b \in Block \ Blocks(m.bm.invalid_list) : Collected(m).flash[b] = m.flash[b]
<1> DEFINE erased == {b \in Block : \E i \in 1 .. NumReclaimed(m.bm) : Reclaimed(m.bm)[i] = b}
           new == [b \in Block |-> IF b \in erased THEN Erased ELSE m.flash[b]]
<1>1. m.bm \in Manager /\ m.flash \in [Block -> Pages]
  BY MemoryParts
<1>2. Collected(m).bm = insert_events(m.bm) /\ Collected(m).flash = new
  BY DEF Collected
<1>3. Collected(m) = [bm |-> insert_events(m.bm), flash |-> new]
  BY DEF Collected
<1>4. new \in [Block -> Pages]
  BY <1>1, ErasedType
<1>5. insert_events(m.bm) \in Manager
  BY <1>1, InsertEventsTyped
<1>6. Collected(m) \in Memories
  BY <1>3, <1>4, <1>5 DEF Memories
<1>7. \A b \in erased : b \in Blocks(m.bm.invalid_list)
  <2>1. ASSUME NEW i \in 1 .. NumReclaimed(m.bm)
        PROVE  Reclaimed(m.bm)[i] \in Blocks(m.bm.invalid_list)
    <3>1. Len(m.bm.invalid_list) + 1 - i \in 1 .. Len(m.bm.invalid_list)
      BY <1>1, ReclaimedAre
    <3> QED
      BY <1>1, <3>1, ReclaimedAre DEF Blocks
  <2> QED
    BY <2>1
<1> QED
  BY <1>1, <1>2, <1>6, <1>7, InsertEventsTyped

LEMMA CollectedManaged ==
  ASSUME NEW m \in Memories, NEW S, Managed(m, S)
  PROVE  /\ Managed(Collected(m), S)
         /\ Pool(Collected(m).bm) = Pool(m.bm)
         /\ FreeBlocks(m.bm) \subseteq FreeBlocks(Collected(m).bm)
         /\ Blocks(Collected(m).bm.invalid_list) \subseteq Blocks(m.bm.invalid_list)
<1> DEFINE c == Collected(m)
           r == Blocks(Reclaimed(m.bm))
           old == m.bm
<1>1. old \in Manager /\ m.flash \in [Block -> Pages]
  BY MemoryParts
<1>2. c.bm = insert_events(old)
  BY DEF Collected
<1>3. /\ r \subseteq Blocks(old.invalid_list)
      /\ FreeBlocks(c.bm) = FreeBlocks(old) \cup r
      /\ Blocks(c.bm.invalid_list) = Blocks(old.invalid_list) \ r
      /\ HandsOutOnce(c.bm) /\ NoRepeat(c.bm.invalid_list)
  BY <1>1, <1>2, InsertEventsLists DEF Managed
<1>4. Pool(c.bm) = Pool(old)
  BY <1>3 DEF Pool
<1>5. FreeBlocks(c.bm) \cap Blocks(c.bm.invalid_list) = {}
  BY <1>3 DEF Managed
<1>6. \A b \in FreeBlocks(c.bm) : c.flash[b] = Erased
  <2>1. ASSUME NEW b \in r PROVE c.flash[b] = Erased
    <3>1. PICK i \in 1 .. NumReclaimed(old) : b = Reclaimed(old)[i]
      BY <1>1, ReclaimedAre DEF Blocks
    <3>2. b \in Block
      BY <1>1, <3>1, ReclaimedAre
    <3> QED
      BY <3>1, <3>2 DEF Collected
  <2>2. ASSUME NEW b \in FreeBlocks(old) PROVE c.flash[b] = Erased
    <3>1. b \in Block /\ b \notin Blocks(old.invalid_list)
      BY <1>1, <2>2, NothingTwice DEF Managed
    <3>2. c.flash[b] = m.flash[b]
      BY <3>1, CollectedTyped
    <3> QED
      BY <3>2 DEF Managed
  <2> QED
    BY <1>3, <2>1, <2>2
<1>7. Managed(c, S)
  BY <1>3, <1>4, <1>5, <1>6 DEF Managed
<1> QED
  BY <1>3, <1>4, <1>7

(* What get_page_block makes of the memory before it takes a block.         *)
LEMMA PreparedTyped ==
  ASSUME NEW m \in Memories
  PROVE  /\ Prepared(m) \in Memories
         /\ Prepared(m).bm.data_active = m.bm.data_active
         /\ Prepared(m).bm.log_active = m.bm.log_active
         /\ \A b \in Block : Prepared(m).flash[b] \in {m.flash[b], Erased}
         /\ \A b \in Block \ Blocks(m.bm.invalid_list) : Prepared(m).flash[b] = m.flash[b]
<1>1. CASE Prepared(m) = Collected(m)
  BY <1>1, CollectedTyped
<1>2. CASE Prepared(m) = m
  BY <1>2
<1> QED
  BY <1>1, <1>2 DEF Prepared

LEMMA PreparedManaged ==
  ASSUME NEW m \in Memories, NEW S, Managed(m, S)
  PROVE  /\ Managed(Prepared(m), S)
         /\ Pool(Prepared(m).bm) = Pool(m.bm)
         /\ Blocks(Prepared(m).bm.invalid_list) \subseteq Blocks(m.bm.invalid_list)
<1>1. CASE Prepared(m) = Collected(m)
  BY <1>1, CollectedManaged
<1>2. CASE Prepared(m) = m
  BY <1>2
<1> QED
  BY <1>1, <1>2 DEF Prepared

(* get_free_block with the events it inserts: the caller gets a block.      *)
LEMMA FreeBlockTyped ==
  ASSUME NEW bm \in Manager, HasFreeBlock(bm), NEW type
  PROVE  /\ FreeBlock(bm) \in Block
         /\ get_free_block(bm, type) \in Manager
         /\ get_free_block(bm, type).invalid_list = bm.invalid_list
<1>1. /\ bm.simpleCurrentFree \in 0 .. NUM_BLOCKS /\ bm.free_list \in Seq(Block)
      /\ NUM_BLOCKS \in Nat
  BY NandAssumption DEF Manager
<1>2. CASE IsSimple(bm)
  <2> DEFINE taken == [bm EXCEPT !.simpleCurrentFree = @ + 1]
  <2>1. taken \in Manager /\ taken.invalid_list = bm.invalid_list
    BY <1>1, <1>2 DEF Manager, IsSimple
  <2>2. get_free_block(bm, type) = Counting(taken, type)
    BY <1>2 DEF get_free_block
  <2>3. FreeBlock(bm) \in Block
    BY <1>1, <1>2 DEF FreeBlock, IsSimple, Block
  <2> HIDE DEF taken
  <2>4. Counting(taken, type).invalid_list = taken.invalid_list
    BY <2>1 DEF Manager, Counting
  <2> QED
    BY <2>1, <2>2, <2>3, <2>4, Counted
<1>3. CASE ~IsSimple(bm)
  <2> DEFINE taken == [bm EXCEPT !.free_list = Tail(@)]
  <2>1. bm.free_list # <<>> /\ FreeBlock(bm) = Head(bm.free_list)
    BY <1>3 DEF HasFreeBlock, FreeBlock
  <2>2. Head(bm.free_list) \in Block /\ Tail(bm.free_list) \in Seq(Block)
    BY <1>1, <2>1, HeadTailProperties
  <2>3. taken \in Manager /\ taken.invalid_list = bm.invalid_list
    BY <2>2 DEF Manager
  <2>4. get_free_block(bm, type) = Counting(taken, type)
    BY <1>3 DEF get_free_block
  <2> HIDE DEF taken
  <2>5. Counting(taken, type).invalid_list = taken.invalid_list
    BY <2>3 DEF Manager, Counting
  <2> QED
    BY <2>1, <2>2, <2>3, <2>4, <2>5, Counted
<1> QED
  BY <1>2, <1>3

LEMMA ObtainTyped ==
  ASSUME NEW m \in Memories, Obtainable(m), NEW type
  PROVE  /\ NewBlock(m) \in Block
         /\ Obtain(m, type) \in Memories
         /\ Obtain(m, type).flash = Prepared(m).flash
         /\ Obtain(m, type).bm = get_free_block(Prepared(m).bm, type)
<1> DEFINE c == Prepared(m)
<1>1. c \in Memories
  BY PreparedTyped
<1>2. c.bm \in Manager /\ c.flash \in [Block -> Pages] /\ HasFreeBlock(c.bm)
  BY <1>1, MemoryParts DEF Obtainable
<1>3. FreeBlock(c.bm) \in Block /\ get_free_block(c.bm, type) \in Manager
  BY <1>2, FreeBlockTyped
<1>4. Obtain(m, type) = [c EXCEPT !.bm = get_free_block(c.bm, type)]
  BY DEF Obtain
<1> HIDE DEF c
<1>5. /\ Obtain(m, type) \in Memories
      /\ Obtain(m, type).flash = c.flash
      /\ Obtain(m, type).bm = get_free_block(c.bm, type)
  BY <1>1, <1>3, <1>4 DEF Memories
<1> QED
  BY <1>3, <1>5 DEF NewBlock, c

LEMMA ObtainCounters ==
  ASSUME NEW m \in Memories, Obtainable(m)
  PROVE  /\ Obtain(m, "DATA").bm.data_active = m.bm.data_active + 1
         /\ Obtain(m, "DATA").bm.log_active = m.bm.log_active
         /\ Obtain(m, "LOG").bm.data_active = m.bm.data_active
         /\ Obtain(m, "LOG").bm.log_active = m.bm.log_active + 1
<1>1. Prepared(m).bm \in Manager
  BY PreparedTyped, MemoryParts
<1>2. 0 \in Block
  BY NandAssumption DEF Block
<1> QED
  BY <1>1, <1>2, ManagerCounters, ObtainTyped, PreparedTyped

LEMMA ObtainManaged ==
  ASSUME NEW m \in Memories, NEW S, Managed(m, S), Obtainable(m), NEW type
  PROVE  /\ NewBlock(m) \in Pool(m.bm) /\ NewBlock(m) \notin S
         /\ Obtain(m, type).flash[NewBlock(m)] = Erased
         /\ Managed(Obtain(m, type), S \cup {NewBlock(m)})
         /\ Pool(Obtain(m, type).bm) = Pool(m.bm) \ {NewBlock(m)}
         /\ NewBlock(m) \notin Blocks(Obtain(m, type).bm.invalid_list)
<1> DEFINE c == Prepared(m)
           o == Obtain(m, type)
           new == NewBlock(m)
<1>1. c \in Memories /\ c.bm \in Manager /\ HasFreeBlock(c.bm)
  BY PreparedTyped, MemoryParts DEF Obtainable
<1>2. Managed(c, S) /\ Pool(c.bm) = Pool(m.bm)
  BY PreparedManaged
<1>3. o.flash = c.flash /\ o.bm = get_free_block(c.bm, type) /\ new = FreeBlock(c.bm)
  BY ObtainTyped DEF NewBlock
<1> HIDE DEF c, o, new
<1>4. /\ new \in FreeBlocks(c.bm)
      /\ HandsOutOnce(o.bm)
      /\ FreeBlocks(o.bm) = FreeBlocks(c.bm) \ {new}
  BY <1>1, <1>2, <1>3, GetFreeBlock DEF Managed
<1>5. o.bm.invalid_list = c.bm.invalid_list
  BY <1>1, <1>3, FreeBlockTyped
<1>6. new \notin Blocks(c.bm.invalid_list) /\ new \notin S /\ new \in Pool(m.bm)
  BY <1>2, <1>4 DEF Managed, Pool
<1>7. Pool(o.bm) = Pool(m.bm) \ {new}
  BY <1>2, <1>4, <1>5, <1>6 DEF Pool
<1>8. Managed(o, S \cup {new})
  BY <1>2, <1>3, <1>4, <1>5, <1>6, <1>7 DEF Managed
<1> QED
  BY <1>2, <1>3, <1>4, <1>5, <1>6, <1>7, <1>8 DEF Managed, o, new

(* invalidate: a block that was taken goes to invalid_list.                  *)
Invalidated(m, b, type) == [m EXCEPT !.bm = invalidate(@, b, type)]

LEMMA InvalidateEffect ==
  ASSUME NEW bm \in Manager, NEW b \in Block, NEW type
  PROVE  /\ invalidate(bm, b, type) \in Manager
         /\ invalidate(bm, b, type).simpleCurrentFree = bm.simpleCurrentFree
         /\ invalidate(bm, b, type).free_list = bm.free_list
         /\ invalidate(bm, b, type).invalid_list = Append(bm.invalid_list, b)
         /\ invalidate(bm, b, "DATA").data_active = bm.data_active - 1
         /\ invalidate(bm, b, "DATA").log_active = bm.log_active
         /\ invalidate(bm, b, "LOG").data_active = bm.data_active
         /\ invalidate(bm, b, "LOG").log_active = bm.log_active - 1
<1> DEFINE given == [bm EXCEPT !.invalid_list = Append(@, b)]
<1>1. Append(bm.invalid_list, b) \in Seq(Block)
  BY AppendProperties DEF Manager
<1>2. /\ given \in Manager
      /\ given.simpleCurrentFree = bm.simpleCurrentFree /\ given.free_list = bm.free_list
      /\ given.invalid_list = Append(bm.invalid_list, b)
      /\ given.data_active = bm.data_active /\ given.log_active = bm.log_active
  BY <1>1 DEF Manager
<1>3. \A t : invalidate(bm, b, t) = Discounting(given, t)
  BY DEF invalidate
<1> HIDE DEF given
<1>4. \A t : Discounting(given, t).invalid_list = given.invalid_list
  BY <1>2 DEF Manager, Discounting
<1>5. /\ Discounting(given, "DATA").data_active = given.data_active - 1
      /\ Discounting(given, "DATA").log_active = given.log_active
      /\ Discounting(given, "LOG").data_active = given.data_active
      /\ Discounting(given, "LOG").log_active = given.log_active - 1
  BY <1>2 DEF Manager, Discounting
<1>6. /\ Discounting(given, type) \in Manager
      /\ Discounting(given, type).simpleCurrentFree = given.simpleCurrentFree
      /\ Discounting(given, type).free_list = given.free_list
  BY <1>2, Counted
<1> QED
  BY <1>2, <1>3, <1>4, <1>5, <1>6

LEMMA InvalidatedTyped ==
  ASSUME NEW m \in Memories, NEW b \in Block, NEW type
  PROVE  /\ Invalidated(m, b, type) \in Memories
         /\ Invalidated(m, b, type).flash = m.flash
         /\ Invalidated(m, b, type).bm = invalidate(m.bm, b, type)
<1>1. invalidate(m.bm, b, type) \in Manager
  BY MemoryParts, InvalidateEffect
<1> QED
  BY <1>1 DEF Invalidated, Memories

LEMMA InvalidatedCounters ==
  ASSUME NEW m \in Memories, NEW b \in Block
  PROVE  /\ Invalidated(m, b, "DATA").bm.data_active = m.bm.data_active - 1
         /\ Invalidated(m, b, "DATA").bm.log_active = m.bm.log_active
         /\ Invalidated(m, b, "LOG").bm.data_active = m.bm.data_active
         /\ Invalidated(m, b, "LOG").bm.log_active = m.bm.log_active - 1
BY MemoryParts, InvalidatedTyped, InvalidateEffect

LEMMA InvalidatedManaged ==
  ASSUME NEW m \in Memories, NEW S, Managed(m, S), NEW b \in Block, b \in S, NEW type
  PROVE  /\ Managed(Invalidated(m, b, type), S \ {b})
         /\ Pool(Invalidated(m, b, type).bm) = Pool(m.bm) \cup {b}
<1> DEFINE list == m.bm.invalid_list
           i == Invalidated(m, b, type)
<1>1. m.bm \in Manager /\ list \in Seq(Block) /\ Len(list) \in Nat
  BY MemoryParts DEF Manager
<1>2. /\ i.flash = m.flash /\ i.bm.simpleCurrentFree = m.bm.simpleCurrentFree
      /\ i.bm.free_list = m.bm.free_list /\ i.bm.invalid_list = Append(list, b)
  BY <1>1, InvalidatedTyped, InvalidateEffect
<1>3. /\ Len(Append(list, b)) = Len(list) + 1
      /\ \A k \in 1 .. Len(list) : Append(list, b)[k] = list[k]
      /\ Append(list, b)[Len(list) + 1] = b
  BY <1>1
<1>4. b \notin Pool(m.bm)
  BY DEF Managed
<1>5. \A k \in 1 .. Len(list) : list[k] # b
  BY <1>4 DEF Pool, Blocks
<1> HIDE DEF i
<1>6. Blocks(Append(list, b)) = Blocks(list) \cup {b}
  <2>1. 1 .. Len(list) + 1 = (1 .. Len(list)) \cup {Len(list) + 1}
    BY <1>1
  <2> QED
    BY <1>3, <2>1 DEF Blocks
<1>7. FreeBlocks(i.bm) = FreeBlocks(m.bm)
  BY <1>2 DEF FreeBlocks
<1>8. HandsOutOnce(i.bm)
  BY <1>2 DEF Managed, HandsOutOnce
<1>9. NoRepeat(i.bm.invalid_list)
  <2>1. ASSUME NEW k \in 1 .. Len(list) + 1, NEW h \in 1 .. Len(list) + 1,
               Append(list, b)[k] = Append(list, b)[h]
        PROVE  k = h
    <3>1. CASE k \in 1 .. Len(list) /\ h \in 1 .. Len(list)
      BY <1>3, <2>1, <3>1 DEF Managed, NoRepeat
    <3>2. CASE k = Len(list) + 1 \/ h = Len(list) + 1
      BY <1>1, <1>3, <1>5, <2>1, <3>2
    <3> QED
      BY <1>1, <3>1, <3>2
  <2> QED
    BY <1>2, <1>3, <2>1 DEF NoRepeat
<1>10. Pool(i.bm) = Pool(m.bm) \cup {b}
  BY <1>2, <1>6, <1>7 DEF Pool
<1>11. FreeBlocks(i.bm) \cap Blocks(i.bm.invalid_list) = {}
  BY <1>2, <1>4, <1>6, <1>7 DEF Managed, Pool
<1>12. Pool(i.bm) \cap (S \ {b}) = {}
  BY <1>10 DEF Managed
<1>13. \A f \in FreeBlocks(i.bm) : i.flash[f] = Erased
  BY <1>2, <1>7 DEF Managed
<1> QED
  BY <1>8, <1>9, <1>10, <1>11, <1>12, <1>13 DEF Managed, i

=============================================================================
