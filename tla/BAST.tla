-------------------------------- MODULE BAST --------------------------------
(***************************************************************************)
(* The BAST FTL (FTLs/bast_ftl.cpp) with its block manager, driven through   *)
(* Controller::event_arrive.  A logical block of data_list may have a log    *)
(* block of its own in log_map, which takes its writes in any order; a full  *)
(* log block is switched with the data block if it was written in order, and *)
(* merged with it otherwise.  A write runs in these steps:                   *)
(*                                                                           *)
(*   WriteStart      the host's write                                        *)
(*   SwitchLog,      is_sequential and random_merge, of the full log block   *)
(*   MergeLog          of this logical block, or of the victim when there is *)
(*                     no room for another log block                         *)
(*   AllocateLog     allocate_new_logblock                                   *)
(*   WriteInLog      the event is issued to the next page of the log block   *)
(*   Abort           an assertion of the code fails, the simulation stops    *)
(***************************************************************************)
EXTENDS LogBlockFTL

CONSTANT
  BAST_LOG_PAGE_LIMIT    (* log blocks at most                               *)

(* LogPageBlock: its block, and the page of it each logical page is in, or -1. *)
LogBlock == [address : Block, pages : [PageNo -> PageNo \cup {-1}]]

ASSUME BASTAssumption ==
  /\ BAST_LOG_PAGE_LIMIT \in Nat \ {0}
  /\ NULL \notin Int
  /\ NULL \notin LogBlock
  /\ TRIMMED \subseteq LPN

VARIABLE
  log_map      (* the log block of every logical block, and where its pages[] *)
               (* says the pages are                                         *)

vars == <<flash, bm, data_list, log_map, pc, lpn>>

NewLogBlock(b) == [address |-> b, pages |-> [p \in PageNo |-> -1]]

Logged == {a \in LBA : log_map[a] # NULL}

Init ==
  /\ flash = [b \in Block |-> Erased]
  /\ \E first \in FIRST_FREE : bm = NewManager(first)
  /\ data_list = [a \in LBA |-> NULL]
  /\ log_map = [a \in LBA |-> NULL]
  /\ pc = "idle"
  /\ lpn = NULL

-----------------------------------------------------------------------------
(* The page of the log or data block read() looks at; a page that is in     *)
(* neither, or INVALID, is read from page 0 of block 0, which counts as no  *)
(* page here.                                                              *)
InLog(l) == log_map[LbaOf(l)] # NULL /\ log_map[LbaOf(l)].pages[OffsetOf(l)] # -1

PageRead(l) ==
  LET a == LbaOf(l)
  IN  IF InLog(l)
        THEN flash[log_map[a].address][log_map[a].pages[OffsetOf(l)]]
      ELSE IF data_list[a] # NULL THEN flash[data_list[a]][OffsetOf(l)]
      ELSE EMPTY

-----------------------------------------------------------------------------
WriteStart(l) ==
  /\ pc = "idle"
  /\ pc' = "write"
  /\ lpn' = l
  /\ UNCHANGED <<flash, bm, data_list, log_map>>

MutantFullOnePageLate(a) == get_pages_valid(flash[log_map[a].address]) > BLOCK_SIZE

LogIsFull(a) == get_pages_valid(flash[log_map[a].address]) = BLOCK_SIZE

MutantVictimOnePastLimit(a) ==
  /\ a \in Logged
  /\ Cardinality(Logged) > BAST_LOG_PAGE_LIMIT
  /\ Cardinality(Logged) = 1 \/ \E c \in Logged : c > a

(* random()%log_map.size()-1 steps from the first entry: any but the last.  *)
IsVictim(a) ==
  /\ a \in Logged
  /\ Cardinality(Logged) >= BAST_LOG_PAGE_LIMIT
  /\ Cardinality(Logged) = 1 \/ \E c \in Logged : c > a

(* The log block that has to go before the write can proceed.               *)
MustGo(a) ==
  /\ pc = "write"
  /\ IF log_map[LbaOf(lpn)] = NULL THEN IsVictim(a) ELSE a = LbaOf(lpn) /\ LogIsFull(a)

IsSequential(a) == \A p \in PageNo : log_map[a].pages[p] = p

DataBlockErased(f, a) == IF data_list[a] = NULL THEN f ELSE Erase(f, data_list[a])

DataBlockFreed(m, a) ==
  IF data_list[a] = NULL THEN m ELSE erase_and_invalidate(m, data_list[a], "DATA")

(* is_sequential: the log block becomes the data block.                     *)
SwitchLog(a) ==
  /\ MustGo(a)
  /\ IsSequential(a)
  /\ flash' = DataBlockErased(flash, a)
  /\ bm' = DataBlockFreed(promote_block(bm, "DATA"), a)
  /\ data_list' = [data_list EXCEPT ![a] = log_map[a].address]
  /\ log_map' = [log_map EXCEPT ![a] = NULL]
  /\ UNCHANGED <<pc, lpn>>

MutantMergePrefersData(a) ==
  LET log == log_map[a]
  IN  [p \in PageNo |->
        ValidData(IF data_list[a] # NULL /\ flash[data_list[a]][p] # EMPTY
                    THEN flash[data_list[a]][p]
                  ELSE IF log.pages[p] # -1 THEN flash[log.address][log.pages[p]]
                  ELSE EMPTY)]

(* What random_merge writes to the new data block.                          *)
Merged(a) ==
  LET log == log_map[a]
  IN  [p \in PageNo |->
        ValidData(IF log.pages[p] # -1 THEN flash[log.address][log.pages[p]]
                  ELSE IF data_list[a] # NULL THEN flash[data_list[a]][p]
                  ELSE EMPTY)]

(* random_merge: log and data block are merged into a new data block.       *)
MergeLog(a) ==
  LET log == log_map[a].address
      new == FreeBlock(bm)
  IN  /\ MustGo(a)
      /\ ~IsSequential(a)
      /\ HasFreeBlock(bm)
      /\ flash' = DataBlockErased(Erase([flash EXCEPT ![new] = Merged(a)], log), a)
      /\ bm' = DataBlockFreed(
                 erase_and_invalidate(get_free_block(bm, "DATA"), log, "LOG"), a)
      /\ data_list' = [data_list EXCEPT ![a] = new]
      /\ log_map' = [log_map EXCEPT ![a] = NULL]
      /\ UNCHANGED <<pc, lpn>>

MayAllocate ==
  /\ pc = "write"
  /\ log_map[LbaOf(lpn)] = NULL
  /\ Cardinality(Logged) < BAST_LOG_PAGE_LIMIT

AllocateLog ==
  /\ MayAllocate
  /\ HasFreeBlock(bm)
  /\ log_map' = [log_map EXCEPT ![LbaOf(lpn)] = NewLogBlock(FreeBlock(bm))]
  /\ bm' = get_free_block(bm, "LOG")
  /\ UNCHANGED <<flash, data_list, pc, lpn>>

(* The log block has room for the write, by the number of its valid pages.  *)
MayWrite ==
  /\ pc = "write"
  /\ log_map[LbaOf(lpn)] # NULL
  /\ ~LogIsFull(LbaOf(lpn))

NextLogPage == get_free_page(flash[log_map[LbaOf(lpn)].address])

(* The page the write replaces: the one in the data block, whenever that    *)
(* has been written to, or else the previous one in the log block.          *)
Replaced(f) ==
  LET a    == LbaOf(lpn)
      off  == OffsetOf(lpn)
      log  == log_map[a]
  IN  IF data_list[a] # NULL /\ flash[data_list[a]][off] # EMPTY
        THEN invalidate_page(f, data_list[a], off)
      ELSE IF log.pages[off] # -1
        THEN invalidate_page(f, log.address, log.pages[off])
      ELSE f

WriteInLog ==
  /\ MayWrite
  /\ MayProgram(flash, log_map[LbaOf(lpn)].address, NextLogPage)
  /\ flash' = Replaced(Program(flash, log_map[LbaOf(lpn)].address, NextLogPage, lpn))
  /\ log_map' = [log_map EXCEPT ![LbaOf(lpn)].pages[OffsetOf(lpn)] = NextLogPage]
  /\ pc' = "idle"
  /\ lpn' = NULL
  /\ UNCHANGED <<bm, data_list>>

NoFreeBlock ==
  /\ ~HasFreeBlock(bm)
  /\ MayAllocate \/ \E a \in LBA : MustGo(a) /\ ~IsSequential(a)

LogPageTaken ==
  /\ MayWrite
  /\ ~MayProgram(flash, log_map[LbaOf(lpn)].address, NextLogPage)

Abort ==
  /\ NoFreeBlock \/ LogPageTaken
  /\ pc' = "aborted"
  /\ UNCHANGED <<flash, bm, data_list, log_map, lpn>>

-----------------------------------------------------------------------------
(* trim() invalidates the page in the log block and in the data block, and   *)
(* erases a block that has nothing but invalid pages.                       *)
LogPageTrimmed(l) ==
  IF ~InLog(l) THEN flash
  ELSE LET log == log_map[LbaOf(l)]
       IN  invalidate_page(flash, log.address, log.pages[OffsetOf(l)])

DisposesLog(l) == InLog(l) /\ IsInactive(LogPageTrimmed(l)[log_map[LbaOf(l)].address])

DataPageTrimmed(l) ==
  IF data_list[LbaOf(l)] = NULL THEN flash
  ELSE invalidate_page(flash, data_list[LbaOf(l)], OffsetOf(l))

DisposesData(l) ==
  data_list[LbaOf(l)] # NULL /\ IsInactive(DataPageTrimmed(l)[data_list[LbaOf(l)]])

Trim(l) ==
  LET a    == LbaOf(l)
      log  == log_map[a].address
      data == data_list[a]
      freed == IF DisposesLog(l) THEN erase_and_invalidate(bm, log, "LOG") ELSE bm
  IN  /\ pc = "idle"
      /\ l \in TRIMMED
      /\ flash' = [b \in Block |->
                    IF InLog(l) /\ b = log
                      THEN IF DisposesLog(l) THEN Erased ELSE LogPageTrimmed(l)[b]
                    ELSE IF DisposesData(l) /\ b = data THEN Erased
                    ELSE DataPageTrimmed(l)[b]]
      /\ bm' = IF DisposesData(l) THEN erase_and_invalidate(freed, data, "DATA") ELSE freed
      /\ log_map' = IF DisposesLog(l) THEN [log_map EXCEPT ![a] = NULL]
                    ELSE IF InLog(l) THEN [log_map EXCEPT ![a].pages[OffsetOf(l)] = -1]
                    ELSE log_map
      /\ data_list' = IF DisposesData(l) THEN [data_list EXCEPT ![a] = NULL] ELSE data_list
      /\ UNCHANGED <<pc, lpn>>

Next ==
  \/ \E l \in LPN : WriteStart(l)
  \/ \E a \in LBA : SwitchLog(a)
  \/ \E a \in LBA : MergeLog(a)
  \/ AllocateLog
  \/ WriteInLog
  \/ Abort
  \/ \E l \in LPN : Trim(l)

Spec == Init /\ [][Next]_vars

(* A call runs to its return.                                              *)
FairSpec ==
  Spec /\ WF_vars(AllocateLog \/ WriteInLog \/ Abort
                  \/ \E a \in LBA : SwitchLog(a) \/ MergeLog(a))

-----------------------------------------------------------------------------
TypeOK ==
  /\ flash \in [Block -> [PageNo -> LPN \cup {EMPTY, INVALID, OLD}]]
  /\ bm \in Manager
  /\ data_list \in [LBA -> Block \cup {NULL}]
  /\ log_map \in [LBA -> LogBlock \cup {NULL}]
  /\ pc \in {"idle", "write", "aborted"}
  /\ lpn \in LPN \cup {NULL}
  /\ pc = "idle" <=> lpn = NULL

LogBlocks  == {log_map[a].address : a \in Logged}

(* No switch, merge, eviction or trim leaks a block or leaves it with two    *)
(* owners, and the manager hands out erased blocks only (its caller programs *)
(* them without looking).                                                  *)
EveryBlockOnce ==
  /\ NoBlockTwice(bm.free_list)
  /\ DataBlocks \cap LogBlocks = {}
  /\ FreeBlocks(bm) \cap (DataBlocks \cup LogBlocks) = {}
  /\ \A b \in FreeBlocks(bm) : flash[b] = Erased
  /\ \A a, c \in LBA : a # c =>
       /\ data_list[a] # NULL => data_list[a] # data_list[c]
       /\ a \in Logged /\ c \in Logged => log_map[a].address # log_map[c].address
  /\ NUM_BLOCKS - Cardinality(FreeBlocks(bm) \cup DataBlocks \cup LogBlocks)
       \in FIRST_FREE

(* data_active and log_active, which feed the manager's idea of how full the *)
(* drive is and its limit on log blocks, are what the tables say.           *)
CountersMatchTables ==
  /\ bm.log_active = Cardinality(Logged)
  /\ bm.data_active = Cardinality(DataBlocks)
  /\ bm.log_active <= BAST_LOG_PAGE_LIMIT

(* What pages[] of a log block says is the newest data of its logical pages. *)
LogIsNewest == \A l \in LPN : InLog(l) => PageRead(l) = l

(* The pages of a log block are written in order.                           *)
LogInOrder ==
  \A a \in Logged : \A p, q \in PageNo :
    p < q /\ flash[log_map[a].address][p] = EMPTY =>
      flash[log_map[a].address][q] = EMPTY

(* The inductive invariant.                                                *)
IInv ==
  /\ TypeOK
  /\ HandsOutOnce(bm)
  /\ EveryBlockOnce
  /\ CountersMatchTables
  /\ LogIsNewest
  /\ LogInOrder

(* A write is given up only for want of a block, or in a log block in which  *)
(* a page was invalidated: where the number of valid pages is not the next   *)
(* page any more.                                                          *)
AbortsOnlyAfterInvalidation ==
  LogPageTaken => \E p \in PageNo : flash[log_map[LbaOf(lpn)].address][p] = INVALID

StoredPages == {l \in LPN : PageRead(l) = l}

Promise == INSTANCE SparseDisk WITH
             LogicalPage <- LPN, NoPage <- NULL,
             stored <- StoredPages, inflight <- lpn

(* Whatever is switched and merged on the way, a page that was written is    *)
(* read back, with its newest data, until it is trimmed.                    *)
ImplementsDisk == Promise!SparseDiskSpec

(* The loop of evictions, merges and allocations of a write ends.           *)
WriteReturns == pc = "write" ~> pc # "write"

=============================================================================
