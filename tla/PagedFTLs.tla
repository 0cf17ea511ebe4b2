----------------------------- MODULE PagedFTLs ------------------------------
(***************************************************************************)
(* DFTL and BDFTL with the block manager, driven through                     *)
(* Controller::event_arrive: FTL_IMPLEMENTATION says which of them it is.      *)
(* Abort is a failed assertion, which stops the simulation.                  *)
(***************************************************************************)
EXTENDS DFTL, BDFTL

VARIABLE ftl       (* FTL_IMPLEMENTATION: "DFTL" or "BDFTL"                   *)

parentvars == <<flash, bm, trans_map, reverse_trans_map, cmt, currentDataPage,
                persisted, pc, lpn, free_page>>

vars == <<parentvars, bvars, ftl>>

Init ==
  /\ ParentInit
  /\ BdftlInit
  /\ ftl \in {"DFTL", "BDFTL"}

(* Bound: after a trim that went astray the host makes no more calls.         *)
Call(l) ==
  /\ ~stray
  /\ \/ ftl = "DFTL" /\ UNCHANGED bvars /\ (DftlRead(l) \/ DftlWrite(l) \/ DftlTrim(l))
     \/ ftl = "BDFTL" /\ (BdftlRead(l) \/ BdftlWrite(l) \/ BdftlTrim(l))
  /\ UNCHANGED ftl

Step ==
  /\ \/ ftl = "DFTL" /\ UNCHANGED bvars /\ DftlStep
     \/ ftl = "BDFTL" /\ BdftlStep
  /\ UNCHANGED ftl

NoFreeBlock ==
  \/ /\ pc = "page" /\ NeedsDataBlock /\ ~Obtainable(Collected(Memory))
     /\ ftl = "BDFTL" => NoUsedBlock
  \/ NeedsBlock /\ ~Obtainable(Memory)

InOrderPageTaken == InOrder /\ ~MayProgram(flash, block_map[Lbn].pbn, Offset)

Abort ==
  /\ NoFreeBlock \/ PageTaken \/ InOrderPageTaken \/ NothingToEvict \/ QueuedBlockFull
  /\ pc' = "aborted"
  /\ UNCHANGED <<flash, bm, trans_map, reverse_trans_map, cmt, currentDataPage, persisted, lpn, free_page, bvars, ftl>>

Next == (\E l \in LPN : Call(l)) \/ Step \/ Abort

Spec == Init /\ [][Next]_vars

-----------------------------------------------------------------------------
(* The reverse map, which cleaning a block relies on, is right for every      *)
(* mapped page, and the page holds the newest data or is being replaced.      *)
ReverseMapExact ==
  ~stray => \A l \in Mapped :
    /\ reverse_trans_map[trans_map[l].ppn] = l
    /\ flash[BlockOf(trans_map[l].ppn)][PageIn(trans_map[l].ppn)] \in {l, OLD}

(* cmt, the counter, never says that there is more in the cache than there    *)
(* is, so that eviction finds something to evict, and keeps to the limit.      *)
CounterWithinCache ==
  /\ cmt <= Cardinality(Cached(trans_map))
  /\ cmt <= totalCMTentries

(* An entry that is dropped from the cache without being written back is on   *)
(* its translation page already: what the time stamps call clean is clean.    *)
NoMappingDropped ==
  \A l \in LPN \ (TRIMMED \cup {lpn}) :
    ~trans_map[l].cached \/ ~IsDirty(trans_map[l]) => persisted[l] = trans_map[l].ppn

PageRead(l) == IF ftl = "DFTL" THEN DftlPageRead(l) ELSE BdftlPageRead(l)

Promise == INSTANCE SparseDisk WITH
             LogicalPage <- LPN, NoPage <- NULL,
             stored <- {l \in LPN : PageRead(l) = l},
             inflight <- IF pc = "read" THEN NULL ELSE lpn

(* DFTL, and BDFTL but for its conversions, keep every page that was written   *)
(* until it is trimmed: evictions, recycled blocks, a logical block that goes  *)
(* back to optimal and trims of other pages lose nothing, and no read returns  *)
(* data that was replaced.                                                  *)
OnlyConversionsLosePages ==
  [][Promise!DiskNext \/ (ftl = "BDFTL" /\ OutOfOrder) \/ stray']_(Promise!diskvars)

(* A page is never programmed twice but in an optimal block, where the page    *)
(* was trimmed before it was written; eviction always finds a cached entry;    *)
(* and DFTL, which never gets a page back, stops for want of a block only when  *)
(* every page was programmed, but those of the blocks below the one the block *)
(* manager happened to start with.                                           *)
StopsOnlyFullOrTrimmed ==
  /\ ~PageTaken /\ ~NothingToEvict
  /\ InOrderPageTaken => flash[block_map[Lbn].pbn][Offset] = INVALID
  /\ ftl = "DFTL" /\ NoFreeBlock =>
       \E first \in FIRST_FREE : \A b \in first .. NUM_BLOCKS - 1, p \in PageNo :
         flash[b][p] # EMPTY

-----------------------------------------------------------------------------
(* What every step preserves, as long as no trim went astray: who uses a block *)
(* decides who may program its pages.                                        *)
TypeOK ==
  /\ flash \in [Block -> [PageNo -> LPN \cup {EMPTY, INVALID, OLD}]]
  /\ bm \in Manager
  /\ trans_map \in [LPN -> MPage]
  /\ reverse_trans_map \in [Page -> LPN \cup {NULL}]
  /\ cmt \in Int
  /\ currentDataPage \in Page \cup {-1}
  /\ persisted \in [LPN -> Page \cup {-1}]
  /\ pc \in {"idle", "read", "block", "page", "write", "program", "aborted"}
  /\ lpn \in IF pc = "idle" THEN {NULL} ELSE LPN
  /\ free_page \in Page \cup {NULL}
  /\ block_map \in [LBA -> [pbn : Block \cup {NULL}, nextPage : 0 .. BLOCK_SIZE,
                            optimal : BOOLEAN]]
  /\ trim_map \subseteq LPN
  /\ inuseBlock \in Block \cup {NULL}
  /\ blockQueue \in Seq(Block)
  /\ stray \in BOOLEAN
  /\ ftl \in {"DFTL", "BDFTL"}

HasOwnBlock(a) == block_map[a].optimal /\ block_map[a].pbn # NULL

CurrentBlocks == IF currentDataPage = -1 THEN {} ELSE {BlockOf(currentDataPage)}

BlocksToUseUp == ({inuseBlock} \ {NULL}) \cup Blocks(blockQueue)

MappedBlocks == {BlockOf(trans_map[l].ppn) : l \in Mapped}

(* A block written in order is nobody else's, and the block of the page        *)
(* written last is neither free nor to be used up.                            *)
BlocksApart ==
  /\ \A a \in LBA : HasOwnBlock(a) =>
       /\ block_map[a].pbn \notin
            FreeBlocks(bm) \cup CurrentBlocks \cup BlocksToUseUp \cup MappedBlocks
       /\ \A c \in LBA : HasOwnBlock(c) /\ block_map[c].pbn = block_map[a].pbn => c = a
  /\ CurrentBlocks \cap BlocksToUseUp = {}
  /\ FreeBlocks(bm) \cap (CurrentBlocks \cup BlocksToUseUp) = {}

EmptyAhead ==
  /\ \A b \in FreeBlocks(bm) : flash[b] = Erased
  /\ currentDataPage # -1 => \A p \in PageNo :
       p > PageIn(currentDataPage) => flash[BlockOf(currentDataPage)][p] = EMPTY
  /\ \A a \in LBA : HasOwnBlock(a) => \A p \in PageNo :
       p >= block_map[a].nextPage => flash[block_map[a].pbn][p] \in {EMPTY, INVALID}

(* The page a write has got is EMPTY, and stays the first one it may take.     *)
GotPage == pc = "program" \/ (pc = "write" /\ ftl = "BDFTL")

GotEmptyPage ==
  GotPage => /\ free_page \in Page
             /\ flash[BlockOf(free_page)][PageIn(free_page)] = EMPTY
             /\ free_page = currentDataPage \/ BlockOf(free_page) = inuseBlock

(* trans_map has no page of an optimal block, so that a conversion never       *)
(* enters one, nor of one that is trimmed.                                   *)
OptimalUnmapped ==
  ftl = "BDFTL" =>
    /\ \A l \in Mapped : l \notin trim_map /\ ~block_map[LbaOf(l)].optimal
    /\ pc \in {"block", "page", "write", "program"} => lpn \notin trim_map
    /\ pc \in {"page", "write", "program"} => ~block_map[Lbn].optimal

DftlHasNoBlocks ==
  ftl = "DFTL" =>
    /\ block_map = [a \in LBA |-> NewBPage]
    /\ inuseBlock = NULL /\ blockQueue = <<>>
    /\ pc # "block" /\ ~stray

(* DFTL programs every page of the blocks it gets.                             *)
DftlFillsBlocks ==
  ftl = "DFTL" =>
    /\ bm.free_list = <<>>
    /\ currentDataPage # -1 => BlockOf(currentDataPage) < bm.simpleCurrentFree
    /\ \E first \in FIRST_FREE :
         \A b \in first .. bm.simpleCurrentFree - 1, p \in PageNo : flash[b][p] = EMPTY =>
           /\ currentDataPage # -1 /\ b = BlockOf(currentDataPage)
           /\ \/ p > PageIn(currentDataPage)
              \/ pc = "program" /\ p = PageIn(currentDataPage)

(* The time stamps tell a changed entry from the one on its translation page,  *)
(* if events come two time units apart.                                      *)
Unresolved == pc \in {"block", "read", "write"} \/ (pc = "page" /\ ftl = "BDFTL")
Resolved   == pc = "program" \/ (pc = "page" /\ ftl = "DFTL")

StampsTell ==
  /\ \A l \in LPN \ TRIMMED :
       ~trans_map[l].cached \/ ~IsDirty(trans_map[l]) => persisted[l] = trans_map[l].ppn
  /\ \A l \in Cached(trans_map) : LET m == trans_map[l] IN
       /\ m.create_ts <= 1 /\ m.modified_ts <= 1
       /\ Unresolved => m.create_ts < 0 /\ m.modified_ts < 0
  /\ Resolved => trans_map[lpn].cached /\ IsDirty(trans_map[lpn])

Sound ==
  /\ HandsOutOnce(bm) /\ bm.invalid_list = <<>>
  /\ BlocksApart
  /\ EmptyAhead
  /\ GotEmptyPage
  /\ OptimalUnmapped

IInv ==
  /\ TypeOK
  /\ DftlHasNoBlocks
  /\ stray => pc = "idle"
  /\ ReverseMapExact
  /\ CounterWithinCache
  /\ ~stray => Sound

=============================================================================
