------------------------------- MODULE BDFTL --------------------------------
(***************************************************************************)
(* BDFTL (FTLs/bdftl_ftl.cpp): a logical block that is written in order is    *)
(* optimal and has a physical block of its own, without entries in            *)
(* trans_map.  The first write out of order converts it: it is written page   *)
(* by page from then on, as in DFTL, and what is free in its block is used up  *)
(* first.  The conversion means to enter the pages it has in trans_map, but    *)
(* looks at the block whose number is the logical block's, and only at pages   *)
(* that trans_map maps already.                                             *)
(***************************************************************************)
EXTENDS DftlParent

CONSTANTS
  TRIM_MAP,      (* trim_map, which the constructor does not initialise:        *)
                 (* the sets of logical pages it may be true for                *)
  WRAPPED        (* (2^32 - 1) modulo the number of pages                       *)

(* nextPage is an unsigned char.                                             *)
ASSUME BdftlAssumption ==
  /\ BLOCK_SIZE < 256
  /\ TRIM_MAP \subseteq SUBSET LPN
  /\ WRAPPED \in Page

VARIABLES
  block_map,     (* block_map: pbn, nextPage and optimal, of a logical block    *)
  trim_map,      (* the pages trim_map is true for                              *)
  inuseBlock,    (* the block of a converted logical block that is used up       *)
  blockQueue,    (* the blocks that come after it                               *)
  stray          (* history: a trim invalidated a page that is not its own       *)

bvars == <<block_map, trim_map, inuseBlock, blockQueue, stray>>

NewBPage == [pbn |-> NULL, nextPage |-> 0, optimal |-> TRUE]

BdftlInit ==
  /\ block_map = [a \in LBA |-> NewBPage]
  /\ trim_map \in TRIM_MAP
  /\ inuseBlock = NULL
  /\ blockQueue = <<>>
  /\ stray = FALSE

-----------------------------------------------------------------------------
(* An optimal block is read without a look at trans_map.                     *)
BdftlRead(l) ==
  /\ l \in READ
  /\ ~block_map[LbaOf(l)].optimal
  /\ EventArrives(l, "read")
  /\ UNCHANGED bvars

BdftlWrite(l) ==
  /\ l \in WRITTEN
  /\ EventArrives(l, "block")
  /\ trim_map' = trim_map \ {l}
  /\ UNCHANGED <<block_map, inuseBlock, blockQueue, stray>>

Lbn    == LbaOf(lpn)
Offset == OffsetOf(lpn)

(* Page 0 of a logical block without a block of its own: it gets one.         *)
NeedsBlock ==
  pc = "block" /\ block_map[Lbn].optimal /\ block_map[Lbn].pbn = NULL /\ Offset = 0

WriteNewBlock ==
  LET new == NewBlock(Memory)
  IN  /\ NeedsBlock
      /\ Obtainable(Memory)
      /\ bm' = Obtain(Memory, "DATA").bm
      /\ flash' = Obtain(Memory, "DATA").flash
      /\ block_map' = [block_map EXCEPT ![Lbn].pbn = new]
      /\ UNCHANGED <<table, reverse_trans_map, currentDataPage, pc, lpn, free_page,
                     trim_map, inuseBlock, blockQueue, stray>>

InOrder ==
  /\ pc = "block"
  /\ block_map[Lbn].optimal /\ block_map[Lbn].pbn # NULL
  /\ block_map[Lbn].nextPage = Offset

WriteInOrder ==
  /\ InOrder
  /\ MayProgram(flash, block_map[Lbn].pbn, Offset)
  /\ flash' = Program(flash, block_map[Lbn].pbn, Offset, lpn)
  /\ block_map' = [block_map EXCEPT ![Lbn].nextPage = @ + 1]
  /\ pc' = "idle"
  /\ lpn' = NULL
  /\ UNCHANGED <<bm, table, reverse_trans_map, currentDataPage, free_page, trim_map,
                 inuseBlock, blockQueue, stray>>

OutOfOrder ==
  /\ pc = "block"
  /\ block_map[Lbn].optimal /\ block_map[Lbn].pbn # NULL
  /\ block_map[Lbn].nextPage # Offset

(* The pages the conversion enters in trans_map.                              *)
Transferred(a) ==
  {l \in LPN : /\ LbaOf(l) = a
               /\ OffsetOf(l) < block_map[a].nextPage
               /\ IsValid(flash[a][OffsetOf(l)])
               /\ trans_map[l].ppn # -1}

HasRoom(b) == get_pages_valid(flash[b]) # BLOCK_SIZE

Convert ==
  LET b   == block_map[Lbn].pbn
      ppn(l) == b * BLOCK_SIZE + OffsetOf(l)
  IN  /\ OutOfOrder
      /\ trans_map' = [l \in LPN |-> IF l \notin Transferred(Lbn) THEN trans_map[l]
            ELSE [ppn |-> ppn(l), create_ts |-> 0, modified_ts |-> 0,
                  last_visited_time |-> trans_map[l].last_visited_time, cached |-> TRUE]]
      /\ reverse_trans_map' = [p \in Page |->
            IF \E l \in Transferred(Lbn) : ppn(l) = p
              THEN CHOOSE l \in Transferred(Lbn) : ppn(l) = p ELSE reverse_trans_map[p]]
      /\ cmt' = cmt + Cardinality(Transferred(Lbn))
      /\ block_map' = [block_map EXCEPT ![Lbn].optimal = FALSE]
      /\ inuseBlock' = IF HasRoom(b) /\ inuseBlock = NULL THEN b ELSE inuseBlock
      /\ blockQueue' = IF HasRoom(b) /\ inuseBlock # NULL THEN Append(blockQueue, b)
                       ELSE blockQueue
      /\ pc' = "page"
      /\ UNCHANGED <<flash, bm, persisted, currentDataPage, lpn, free_page, trim_map,
                     stray>>

(* No page of the logical block was written in order, or it is converted.     *)
WritePagewise ==
  /\ pc = "block"
  /\ \/ block_map[Lbn].optimal /\ block_map[Lbn].pbn = NULL /\ Offset # 0
     \/ ~block_map[Lbn].optimal
  /\ block_map' = [block_map EXCEPT ![Lbn].optimal = FALSE]
  /\ pc' = "page"
  /\ UNCHANGED <<flash, bm, table, reverse_trans_map, currentDataPage, lpn, free_page,
                 trim_map, inuseBlock, blockQueue, stray>>

-----------------------------------------------------------------------------
(* get_free_biftl_page: what is left in inuseBlock, or in the next block.     *)
EmptyPages(b) == {p \in PageNo : flash[b][p] = EMPTY}

UsedUp(b) == IF b = NULL THEN TRUE ELSE EmptyPages(b) = {}

FirstEmpty(b) == b * BLOCK_SIZE + Min(EmptyPages(b))

GetUsedPage ==
  /\ pc = "page"
  /\ \/ /\ ~UsedUp(inuseBlock)
        /\ free_page' = FirstEmpty(inuseBlock)
        /\ UNCHANGED <<inuseBlock, blockQueue>>
     \/ /\ UsedUp(inuseBlock) /\ blockQueue # <<>>
        /\ ~UsedUp(Head(blockQueue))
        /\ free_page' = FirstEmpty(Head(blockQueue))
        /\ inuseBlock' = Head(blockQueue)
        /\ blockQueue' = Tail(blockQueue)
  /\ pc' = "write"
  /\ UNCHANGED <<flash, bm, table, reverse_trans_map, currentDataPage, lpn, block_map,
                 trim_map, stray>>

NoUsedBlock == UsedUp(inuseBlock) /\ blockQueue = <<>>

GetDataPage ==
  /\ pc = "page" /\ NoUsedBlock
  /\ get_free_data_page("write")
  /\ inuseBlock' = NULL
  /\ UNCHANGED <<block_map, trim_map, blockQueue, stray>>

(* assert(false): the block queued last time has no free page left.           *)
QueuedBlockFull ==
  /\ pc = "page" /\ UsedUp(inuseBlock)
  /\ blockQueue # <<>> /\ UsedUp(Head(blockQueue))

-----------------------------------------------------------------------------
(* A trim in an optimal block without a physical one has an address built     *)
(* from pbn = 2^32 - 1, which wraps: page 0 is the last page WRAPPED, the     *)
(* others are those of block 0, one page earlier.                            *)
TrimmedPage(l) ==
  LET b == block_map[LbaOf(l)].pbn
  IN  IF b # NULL THEN b * BLOCK_SIZE + OffsetOf(l)
      ELSE IF OffsetOf(l) = 0 THEN WRAPPED ELSE OffsetOf(l) - 1

TrimOptimal(l) ==
  LET a == LbaOf(l)
      b == BlockOf(TrimmedPage(l))
      f == invalidate_page(flash, b, PageIn(TrimmedPage(l)))
  IN  /\ block_map[a].optimal
      /\ trim_map' = trim_map \cup {l}
      /\ stray' = (block_map[a].pbn = NULL)
      /\ IF IsInactive(f[b])
           THEN /\ flash' = Erase(f, b)
                /\ bm' = erase_and_invalidate(bm, b, "DATA")
                /\ block_map' = [block_map EXCEPT ![a].pbn = NULL, ![a].nextPage = 0]
           ELSE /\ flash' = f
                /\ UNCHANGED <<bm, block_map>>
      /\ UNCHANGED <<table, reverse_trans_map, currentDataPage>>

MutantSomeTrimmed(trims, a) == \E k \in trims : LbaOf(k) = a

AllTrimmed(trims, a) == \A k \in LPN : LbaOf(k) = a => k \in trims

TrimPagewise(l) ==
  LET a == LbaOf(l)
  IN  /\ ~block_map[a].optimal
      /\ trim_map' = trim_map \cup {l}
      /\ IF l \in Mapped THEN TrimMapped(l) ELSE UNCHANGED <<flash, table>>
      /\ block_map' = IF AllTrimmed(trim_map', a)
                        THEN [block_map EXCEPT ![a] = NewBPage] ELSE block_map
      /\ UNCHANGED <<bm, reverse_trans_map, currentDataPage, stray>>

BdftlTrim(l) ==
  /\ pc = "idle"
  /\ l \in TRIMMED
  /\ TrimOptimal(l) \/ TrimPagewise(l)
  /\ UNCHANGED <<pc, lpn, free_page, inuseBlock, blockQueue>>

BdftlStep ==
  \/ WriteNewBlock
  \/ WriteInOrder
  \/ Convert
  \/ WritePagewise
  \/ GetUsedPage
  \/ GetDataPage
  \/ resolve_mapping("program") /\ UNCHANGED bvars
  \/ MapAndIssue /\ UNCHANGED bvars

BdftlPageRead(l) ==
  LET m == block_map[LbaOf(l)]
      ppn == trans_map[l].ppn
  IN  IF m.optimal
        THEN IF m.pbn = NULL THEN EMPTY ELSE flash[m.pbn][OffsetOf(l)]
      ELSE IF ppn = -1 THEN EMPTY
      ELSE flash[BlockOf(ppn)][PageIn(ppn)]

=============================================================================
