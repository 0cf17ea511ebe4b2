-------------------------------- MODULE FAST --------------------------------
(***************************************************************************)
(* The FAST FTL (FTLs/fast_ftl.cpp) with its block manager, driven through   *)
(* Controller::event_arrive.  A page is first written at its place in the    *)
(* data block.  What is written again goes to the sequential log block, if   *)
(* the writes of a logical block come in order, or to the random log blocks, *)
(* which all logical blocks share.  A write runs in these steps:            *)
(*                                                                         *)
(*   FastWriteStart      the host's write                                    *)
(*   WriteInPlace        to the data block, a new one if there is none        *)
(*   AppendSequential    to the sequential log block                         *)
(*   SwitchSequential,   which then becomes the data block, or is merged     *)
(*   MergeSequential       with it,                                          *)
(*   StartSequential     and replaced by a new one, for this write            *)
(*   StartRandomMerge    the random log blocks are full: the logical blocks   *)
(*   MergeLogicalBlock     in the first of them are merged, one at a time,   *)
(*   ReplaceVictim         and a new log block takes its place               *)
(*   AppendRandom        to the random log blocks                            *)
(*   FastAbort           an assertion fails, or an index is out of bounds     *)
(***************************************************************************)
EXTENDS LogBlockFTL

CONSTANTS
  FAST_LOG_PAGE_LIMIT,   (* random log blocks                                *)
  WRITTEN,               (* the logical pages the host writes                 *)
  MAX_DISPOSED           (* bound: trims that empty a block before the host's *)
                         (* last call                                        *)

ASSUME FASTAssumption ==
  /\ FAST_LOG_PAGE_LIMIT \in Nat \ {0, 1}
  /\ FIRST_FREE \subseteq 0 .. NUM_BLOCKS - FAST_LOG_PAGE_LIMIT
  /\ NULL \notin Int
  /\ WRITTEN \subseteq LPN /\ TRIMMED \subseteq LPN
  /\ MAX_DISPOSED \in Nat

VARIABLES
  log_pages,       (* the random log blocks, the oldest first                  *)
  log_page_next,   (* pages written to them                                   *)
  sequential,      (* sequential_logicalblock_address, _address and _offset   *)
  mergeBlocks      (* logical blocks random_merge has still to merge          *)

fastvars == <<flash, bm, data_list, log_pages, log_page_next, sequential, pc, lpn,
              mergeBlocks>>

NewRandomLog(b) ==
  [address |-> b, aPages |-> [p \in PageNo |-> -1], numPages |-> 0]

Memory == [flash |-> flash, bm |-> bm]

(* initialize_log_pages runs on the first call.                             *)
FastInit ==
  /\ flash = [b \in Block |-> Erased]
  /\ \E first \in FIRST_FREE :
       /\ bm = [NewManager(first + FAST_LOG_PAGE_LIMIT)
                  EXCEPT !.log_active = FAST_LOG_PAGE_LIMIT]
       /\ log_pages = [i \in 1 .. FAST_LOG_PAGE_LIMIT |-> NewRandomLog(first + i - 1)]
  /\ data_list = [a \in LBA |-> NULL]
  /\ log_page_next = 0
  /\ sequential = [lba |-> NULL, address |-> NULL, offset |-> 0]
  /\ pc = "idle"
  /\ lpn = NULL
  /\ mergeBlocks = {}

-----------------------------------------------------------------------------
(* A place in the random log blocks is <<log block, page>>.  read() and      *)
(* trim() find a logical page at the first one of its places.               *)
LoggedAt(x) == log_pages[x[1]].aPages[x[2]]

LogPlaces(l) ==
  {x \in (1 .. FAST_LOG_PAGE_LIMIT) \X PageNo :
     x[2] < log_pages[x[1]].numPages /\ LoggedAt(x) = l}

FirstLogPlace(l) ==
  CHOOSE x \in LogPlaces(l) : \A y \in LogPlaces(l) :
    x[1] * BLOCK_SIZE + x[2] <= y[1] * BLOCK_SIZE + y[2]

InSequential(l) == sequential.lba = LbaOf(l) /\ sequential.offset > OffsetOf(l)

(* Page 0 of block 0, read as a noop, counts as no page here.               *)
FastPageRead(l) ==
  IF LogPlaces(l) # {}
    THEN flash[log_pages[FirstLogPlace(l)[1]].address][FirstLogPlace(l)[2]]
  ELSE IF InSequential(l) THEN flash[sequential.address][OffsetOf(l)]
  ELSE IF data_list[LbaOf(l)] # NULL THEN flash[data_list[LbaOf(l)]][OffsetOf(l)]
  ELSE EMPTY

-----------------------------------------------------------------------------
(* What random_merge and merge_sequential call before they copy.            *)
CollectedIfLow(m) == IF get_num_free_blocks(m.bm) < 5 THEN Collected(m) ELSE m

(* The end of write(): insert_events, and the event is issued.              *)
Issue(m, b, p) ==
  LET c == Collected(m)
  IN  /\ MayProgram(c.flash, b, p)
      /\ flash' = Program(c.flash, b, p, lpn)
      /\ bm' = c.bm
      /\ pc' = "idle"
      /\ lpn' = NULL

(* Every trim that empties a block discounts it as a log block.              *)
Disposals == FAST_LOG_PAGE_LIMIT - bm.log_active

FastWriteStart(l) ==
  /\ pc = "idle"
  /\ Disposals <= MAX_DISPOSED
  /\ pc' = "write"
  /\ lpn' = l
  /\ UNCHANGED <<flash, bm, data_list, log_pages, log_page_next, sequential, mergeBlocks>>

Lba    == LbaOf(lpn)
Offset == OffsetOf(lpn)

NeedsDataBlock == pc = "write" /\ data_list[Lba] = NULL

InPlace == pc = "write" /\ data_list[Lba] # NULL /\ flash[data_list[Lba]][Offset] = EMPTY

ToLog == pc = "write" /\ data_list[Lba] # NULL /\ flash[data_list[Lba]][Offset] # EMPTY

WriteInPlace ==
  /\ \/ /\ NeedsDataBlock
        /\ Obtainable(Memory)
        /\ data_list' = [data_list EXCEPT ![Lba] = NewBlock(Memory)]
        /\ Issue(Obtain(Memory, "DATA"), NewBlock(Memory), Offset)
     \/ /\ InPlace
        /\ Issue(Memory, data_list[Lba], Offset)
        /\ UNCHANGED data_list
  /\ UNCHANGED <<log_pages, log_page_next, sequential, mergeBlocks>>

-----------------------------------------------------------------------------
(* write_to_log_block                                                       *)
MutantExtendsAnySequential == ToLog /\ Offset # 0 /\ Offset = sequential.offset

ExtendsSequential ==
  ToLog /\ Offset # 0 /\ sequential.lba = Lba /\ Offset = sequential.offset

ReplacesSequential ==
  ToLog /\ (Offset = 0 \/ (sequential.lba = Lba /\ Offset # sequential.offset))

Switches == ReplacesSequential /\ Offset = 0 /\ sequential.offset = BLOCK_SIZE

Merges == ReplacesSequential /\ ~Switches

ToRandomLog == ToLog /\ Offset # 0 /\ sequential.lba # Lba

MutantAlwaysFirstPage == 0

NextSequentialPage == get_free_page(flash[sequential.address])

AppendSequential ==
  /\ ExtendsSequential
  /\ Issue(Memory, sequential.address, NextSequentialPage)
  /\ sequential' = [sequential EXCEPT !.offset = @ + 1]
  /\ UNCHANGED <<data_list, log_pages, log_page_next, mergeBlocks>>

MutantForgetsData(m, a) == m

InvalidateData(m, a) ==
  IF data_list[a] = NULL THEN m ELSE [m EXCEPT !.bm = invalidate(@, data_list[a], "DATA")]

(* sequential.lba may be -1, after a trim: data_list[-1].                   *)
SwitchSequential ==
  /\ Switches
  /\ sequential.lba # NULL
  /\ flash' = flash
  /\ bm' = InvalidateData(Memory, sequential.lba).bm
  /\ data_list' = [data_list EXCEPT ![sequential.lba] = sequential.address]
  /\ pc' = "sequential"
  /\ UNCHANGED <<log_pages, log_page_next, sequential, lpn, mergeBlocks>>

(* The pages merge_sequential takes from the sequential log block, or else   *)
(* from the data block.                                                    *)
MergedSequential(f) ==
  LET a == sequential.lba
  IN  [p \in PageNo |->
        IF IsValid(f[sequential.address][p]) THEN f[sequential.address][p]
        ELSE IF data_list[a] # NULL THEN ValidData(f[data_list[a]][p])
        ELSE EMPTY]

(* A merge into block b copies where something is VALID: assert(state ==     *)
(* EMPTY) again.                                                           *)
MayCopy(f, b, pages) == \A p \in PageNo : pages[p] # EMPTY => f[b][p] = EMPTY

CopyTo(f, b, pages) ==
  [f EXCEPT ![b] = [p \in PageNo |-> IF pages[p] # EMPTY THEN pages[p] ELSE @[p]]]

MergeSequential ==
  LET m   == CollectedIfLow(Obtain(Memory, "DATA"))
      new == NewBlock(Memory)
  IN  /\ Merges
      /\ pc' = "sequential"
      /\ IF sequential.lba = NULL
           THEN UNCHANGED <<flash, bm, data_list>>
           ELSE /\ Obtainable(Memory)
                /\ MayCopy(m.flash, new, MergedSequential(m.flash))
                /\ flash' = CopyTo(m.flash, new, MergedSequential(m.flash))
                /\ bm' = InvalidateData(
                           [m EXCEPT !.bm = invalidate(@, sequential.address, "DATA")],
                           sequential.lba).bm
                /\ data_list' = [data_list EXCEPT ![sequential.lba] = new]
      /\ UNCHANGED <<log_pages, log_page_next, sequential, lpn, mergeBlocks>>

(* Page 0 is written, whatever the offset of the logical page.              *)
StartSequential ==
  /\ pc = "sequential"
  /\ Obtainable(Memory)
  /\ sequential' = [lba |-> Lba, address |-> NewBlock(Memory), offset |-> 1]
  /\ Issue(Obtain(Memory, "DATA"), NewBlock(Memory), 0)
  /\ UNCHANGED <<data_list, log_pages, log_page_next, mergeBlocks>>

-----------------------------------------------------------------------------
LogFull == log_page_next = FAST_LOG_PAGE_LIMIT * BLOCK_SIZE

LbasIn(log) == {LbaOf(log.aPages[p]) : p \in {q \in PageNo : log.aPages[q] # -1}}

StartRandomMerge ==
  /\ ToRandomLog
  /\ LogFull
  /\ pc' = "merge"
  /\ mergeBlocks' = LbasIn(log_pages[1])
  /\ UNCHANGED <<flash, bm, data_list, log_pages, log_page_next, sequential, lpn>>

(* The scan of the log blocks leaves out page 0 of each.                    *)
Scanned(a) ==
  {x \in (1 .. FAST_LOG_PAGE_LIMIT) \X (PageNo \ {0}) :
     /\ x[2] < log_pages[x[1]].numPages
     /\ LoggedAt(x) # -1
     /\ LbaOf(LoggedAt(x)) = a}

(* The last one of every offset is copied; the others are struck out.       *)
IsLast(x, places) ==
  \A y \in places :
    LoggedAt(x) = LoggedAt(y)
      => y[1] * BLOCK_SIZE + y[2] <= x[1] * BLOCK_SIZE + x[2]

Copied(a) == {x \in Scanned(a) : IsLast(x, Scanned(a))}

MergedRandom(f, a) ==
  [p \in PageNo |->
    IF \E x \in Copied(a) : OffsetOf(LoggedAt(x)) = p
      THEN LET x == CHOOSE y \in Copied(a) : OffsetOf(LoggedAt(y)) = p
           IN  f[log_pages[x[1]].address][x[2]]
      ELSE ValidData(f[data_list[a]][p])]

MergeLogicalBlock(a) ==
  LET m   == Obtain(CollectedIfLow(Memory), "DATA")
      new == NewBlock(CollectedIfLow(Memory))
  IN  /\ pc = "merge"
      /\ \A c \in mergeBlocks : a <= c
      /\ Obtainable(CollectedIfLow(Memory))
      /\ data_list[a] # NULL
      /\ m.flash[new] = Erased
      /\ flash' = CopyTo(m.flash, new, MergedRandom(m.flash, a))
      /\ bm' = InvalidateData(m, a).bm
      /\ data_list' = [data_list EXCEPT ![a] = new]
      /\ log_pages' = [i \in 1 .. FAST_LOG_PAGE_LIMIT |->
           [log_pages[i] EXCEPT !.aPages = [p \in PageNo |->
              IF <<i, p>> \in Scanned(a) \ Copied(a) THEN -1 ELSE @[p]]]]
      /\ mergeBlocks' = mergeBlocks \ {a}
      /\ UNCHANGED <<log_page_next, sequential, pc, lpn>>

VictimOut == [Memory EXCEPT !.bm = invalidate(@, log_pages[1].address, "LOG")]

MutantKeepsLogPageNext == log_page_next

LogPageNextReplaced == log_page_next - BLOCK_SIZE

ReplaceVictim ==
  /\ pc = "merge"
  /\ mergeBlocks = {}
  /\ Obtainable(VictimOut)
  /\ log_pages' = Append(Tail(log_pages), NewRandomLog(NewBlock(VictimOut)))
  /\ flash' = Obtain(VictimOut, "LOG").flash
  /\ bm' = Obtain(VictimOut, "LOG").bm
  /\ log_page_next' = LogPageNextReplaced
  /\ pc' = "write"
  /\ UNCHANGED <<data_list, sequential, lpn, mergeBlocks>>

RandomLog == CHOOSE i \in 1 .. FAST_LOG_PAGE_LIMIT :
               /\ log_pages[i].numPages < BLOCK_SIZE
               /\ \A j \in 1 .. i - 1 : log_pages[j].numPages = BLOCK_SIZE

RandomPage == log_page_next % BLOCK_SIZE

AppendRandom ==
  /\ ToRandomLog
  /\ ~LogFull
  /\ log_pages' = [log_pages EXCEPT ![RandomLog].aPages[RandomPage] = lpn,
                                    ![RandomLog].numPages = @ + 1]
  /\ log_page_next' = log_page_next + 1
  /\ Issue(Memory, log_pages[RandomLog].address, RandomPage)
  /\ UNCHANGED <<data_list, sequential, mergeBlocks>>

-----------------------------------------------------------------------------
(* assert(free_list.size() != 0) in get_page_block.                         *)
FastNoFreeBlock ==
  \/ (NeedsDataBlock \/ pc = "sequential" \/ (Merges /\ sequential.lba # NULL))
       /\ ~Obtainable(Memory)
  \/ pc = "merge" /\ mergeBlocks # {} /\ ~Obtainable(CollectedIfLow(Memory))
  \/ pc = "merge" /\ mergeBlocks = {} /\ ~Obtainable(VictimOut)

(* data_list[-1], and the pages of the block at address -1.                 *)
OutOfBounds ==
  \/ Switches /\ sequential.lba = NULL
  \/ pc = "merge" /\ \E a \in mergeBlocks : data_list[a] = NULL

(* assert(state == EMPTY) in Page::_write.                                  *)
PageTaken ==
  \/ ExtendsSequential
       /\ ~MayProgram(Collected(Memory).flash, sequential.address, NextSequentialPage)
  \/ ToRandomLog /\ ~LogFull
       /\ ~MayProgram(Collected(Memory).flash, log_pages[RandomLog].address, RandomPage)

FastAbort ==
  /\ FastNoFreeBlock \/ OutOfBounds \/ PageTaken
  /\ pc' = "aborted"
  /\ UNCHANGED <<flash, bm, data_list, log_pages, log_page_next, sequential, lpn,
                 mergeBlocks>>

-----------------------------------------------------------------------------
(* trim() invalidates one page, and erases its block if it has no other.     *)
(* Every block is discounted as a log block, and a log block stays in the    *)
(* list while it goes to free_list.                                         *)
Disposed(f, b) ==
  IF IsInactive(f[b])
    THEN [flash |-> Erase(f, b), bm |-> erase_and_invalidate(bm, b, "LOG")]
    ELSE [flash |-> f, bm |-> bm]

TrimPage(l, b, p) ==
  LET m == Collected(Disposed(invalidate_page(flash, b, p), b))
  IN  /\ pc = "idle"
      /\ Disposals <= MAX_DISPOSED
      /\ flash' = m.flash
      /\ bm' = m.bm

Empties(b, p) == IsInactive(invalidate_page(flash, b, p)[b])

TrimInLog(l) ==
  LET x == FirstLogPlace(l)
      b == log_pages[x[1]].address
  IN  /\ LogPlaces(l) # {}
      /\ TrimPage(l, b, x[2])
      /\ log_pages' = [log_pages EXCEPT ![x[1]].aPages[x[2]] = -1]
      /\ data_list' = IF Empties(b, x[2]) THEN [data_list EXCEPT ![LbaOf(l)] = NULL]
                      ELSE data_list
      /\ UNCHANGED sequential

TrimInSequential(l) ==
  /\ LogPlaces(l) = {} /\ InSequential(l)
  /\ TrimPage(l, sequential.address, OffsetOf(l))
  /\ sequential' = IF Empties(sequential.address, OffsetOf(l))
                     THEN [sequential EXCEPT !.lba = NULL] ELSE sequential
  /\ UNCHANGED <<log_pages, data_list>>

TrimInData(l) ==
  LET b == data_list[LbaOf(l)]
  IN  /\ LogPlaces(l) = {} /\ ~InSequential(l) /\ b # NULL
      /\ TrimPage(l, b, OffsetOf(l))
      /\ data_list' = IF Empties(b, OffsetOf(l))
                        THEN [data_list EXCEPT ![LbaOf(l)] = NULL] ELSE data_list
      /\ UNCHANGED <<log_pages, sequential>>

FastTrim(l) ==
  /\ TrimInLog(l) \/ TrimInSequential(l) \/ TrimInData(l)
  /\ UNCHANGED <<log_page_next, pc, lpn, mergeBlocks>>

(* What a write does once it has been called.                               *)
Step ==
  \/ WriteInPlace
  \/ AppendSequential
  \/ SwitchSequential
  \/ MergeSequential
  \/ StartSequential
  \/ StartRandomMerge
  \/ \E a \in mergeBlocks : MergeLogicalBlock(a)
  \/ ReplaceVictim
  \/ AppendRandom
  \/ FastAbort

FastNext ==
  \/ \E l \in WRITTEN : FastWriteStart(l)
  \/ Step
  \/ \E l \in TRIMMED : FastTrim(l)

FastSpec == FastInit /\ [][FastNext]_fastvars

-----------------------------------------------------------------------------
RandomLogBlocks == {log_pages[i].address : i \in 1 .. FAST_LOG_PAGE_LIMIT}

(* The sequential log block has changed hands between its two steps.         *)
SequentialBlocks ==
  IF sequential.lba = NULL \/ pc = "sequential" THEN {} ELSE {sequential.address}

InvalidBlocks == Blocks(bm.invalid_list)

Used == DataBlocks \cup RandomLogBlocks \cup SequentialBlocks \cup InvalidBlocks

(* As long as no trim has emptied a block and no assertion has failed.       *)
Regular == Disposals = 0 /\ pc # "aborted"

(* No switch, merge or replacement leaks a block or leaves it with two       *)
(* owners, and the manager hands out erased blocks only.                   *)
FastEveryBlockOnce ==
  Regular =>
    /\ NoBlockTwice(bm.free_list) /\ NoBlockTwice(bm.invalid_list)
    /\ \A b \in FreeBlocks(bm) : flash[b] = Erased
    /\ Cardinality(DataBlocks) = Cardinality({a \in LBA : data_list[a] # NULL})
    /\ Cardinality(RandomLogBlocks) = FAST_LOG_PAGE_LIMIT
    /\ Cardinality(Used) = Cardinality(DataBlocks) + Cardinality(RandomLogBlocks)
                             + Cardinality(SequentialBlocks) + Cardinality(InvalidBlocks)
    /\ FreeBlocks(bm) \cap Used = {}
    /\ NUM_BLOCKS - Cardinality(FreeBlocks(bm) \cup Used) \in FIRST_FREE

(* log_page_next, kept apart from the log blocks, says where a random log     *)
(* page goes.                                                              *)
PagesInLog ==
  LET full == log_page_next \div BLOCK_SIZE
  IN  \A i \in 1 .. FAST_LOG_PAGE_LIMIT :
        log_pages[i].numPages = IF i <= full THEN BLOCK_SIZE
                                ELSE IF i = full + 1 THEN RandomPage ELSE 0

(* The counters kept apart from the lists are right: data_active, which feeds *)
(* the 90% test, and log_page_next.                                        *)
CountersMatchLists ==
  /\ Regular =>
       bm.data_active = Cardinality(DataBlocks) + Cardinality(SequentialBlocks)
  /\ PagesInLog

(* As long as no trim has emptied a block, every index is in bounds, and a    *)
(* page is programmed twice only behind a trimmed page of the sequential log  *)
(* block, where the number of valid pages is not the next page any more.      *)
AbortsOnlyAfterTrim ==
  Disposals = 0 =>
    /\ ~OutOfBounds
    /\ PageTaken => /\ ExtendsSequential
                    /\ \E p \in PageNo : flash[sequential.address][p] = INVALID

(* A wrong page of a logical block is returned for its page 0 only: the first *)
(* page of a sequential log block is written whatever its offset is.         *)
MisplacedAtPageZero ==
  \A l \in LPN : OffsetOf(l) # 0 => FastPageRead(l) \notin LPN \ {l}

-----------------------------------------------------------------------------
(* The inductive invariant, of which the properties are consequences.        *)

RandomLogBlock ==
  [address : Block, aPages : [PageNo -> LPN \cup {-1}], numPages : 0 .. BLOCK_SIZE]

FastTypeOK ==
  /\ flash \in [Block -> [PageNo -> LPN \cup {EMPTY, INVALID, OLD}]]
  /\ bm \in Manager
  /\ data_list \in [LBA -> Block \cup {NULL}]
  /\ log_pages \in [1 .. FAST_LOG_PAGE_LIMIT -> RandomLogBlock]
  /\ log_page_next \in 0 .. FAST_LOG_PAGE_LIMIT * BLOCK_SIZE
  /\ sequential \in [lba : LBA \cup {NULL}, address : Block \cup {NULL},
                     offset : 0 .. BLOCK_SIZE]
  /\ sequential.lba # NULL => sequential.address # NULL
  /\ pc \in {"idle", "write", "sequential", "merge", "aborted"}
  /\ lpn \in IF pc = "idle" THEN {NULL} ELSE LPN
  /\ mergeBlocks \subseteq LBA

(* A block is free, invalid, a data block of one logical block, one of the    *)
(* random log blocks or the sequential one, and nothing else.               *)
BlocksApart ==
  /\ HandsOutOnce(bm)
  /\ \A i, j \in 1 .. Len(bm.invalid_list) :
       bm.invalid_list[i] = bm.invalid_list[j] => i = j
  /\ \A b \in FreeBlocks(bm) : flash[b] = Erased
  /\ \A a, c \in LBA : data_list[a] # NULL /\ data_list[a] = data_list[c] => a = c
  /\ \A i, j \in 1 .. FAST_LOG_PAGE_LIMIT :
       log_pages[i].address = log_pages[j].address => i = j
  /\ DataBlocks \cap RandomLogBlocks = {}
  /\ SequentialBlocks \cap (DataBlocks \cup RandomLogBlocks) = {}
  /\ InvalidBlocks \cap (DataBlocks \cup RandomLogBlocks \cup SequentialBlocks) = {}
  /\ FreeBlocks(bm) \cap Used = {}
  /\ \E first \in FIRST_FREE : FreeBlocks(bm) \cup Used = first .. NUM_BLOCKS - 1

(* What is to be programmed next, by the counters, is EMPTY.                *)
EmptyAhead ==
  /\ \A i \in 1 .. FAST_LOG_PAGE_LIMIT : \A p \in PageNo :
       p >= log_pages[i].numPages => flash[log_pages[i].address][p] = EMPTY
  /\ sequential.lba = NULL => sequential.offset = 0
  /\ \A b \in SequentialBlocks : \A p \in PageNo :
       flash[b][p] = EMPTY <=> p >= sequential.offset

(* No block of a logical block holds a page of another place, but at its      *)
(* page 0.                                                                 *)
InPlaceFrom1(pages, a) ==
  \A p \in PageNo \ {0} : \A l \in LPN :
    pages[p] = l => LbaOf(l) = a /\ OffsetOf(l) = p

PagesPlaced ==
  /\ \A a \in LBA : data_list[a] # NULL => InPlaceFrom1(flash[data_list[a]], a)
  /\ sequential.lba # NULL => InPlaceFrom1(flash[sequential.address], sequential.lba)
  /\ \A i \in 1 .. FAST_LOG_PAGE_LIMIT : \A p \in PageNo :
       flash[log_pages[i].address][p] \in LPN =>
         log_pages[i].aPages[p] \in {-1, flash[log_pages[i].address][p]}

(* What has been logged, and what is merged, has a data block.              *)
LoggedHasData ==
  /\ \A i \in 1 .. FAST_LOG_PAGE_LIMIT : \A p \in PageNo :
       log_pages[i].aPages[p] # -1 => data_list[LbaOf(log_pages[i].aPages[p])] # NULL
  /\ \A a \in mergeBlocks : data_list[a] # NULL

FastIInv ==
  /\ FastTypeOK
  /\ bm.log_active <= FAST_LOG_PAGE_LIMIT
  /\ CountersMatchLists
  /\ pc = "merge" => LogFull
  /\ Regular => BlocksApart /\ EmptyAhead /\ LoggedHasData
  /\ Disposals = 0 => PagesPlaced

=============================================================================
