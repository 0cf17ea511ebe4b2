-------------------------------- MODULE DWF ---------------------------------
(***************************************************************************)
(* The double write frontier FTL (FTLs/dwf_ftl.cpp) on a plane of flash      *)
(* blocks.  The external frontier WFE takes the pages the host writes, the   *)
(* internal frontier WFI the pages garbage collection copies.  The simulator *)
(* is sequential: one write runs from FtlImpl_DWF::write to the physical     *)
(* write Ssd::event_arrive issues afterwards, in these steps:                *)
(*                                                                           *)
(*   WriteStart   the old page is invalidated                                *)
(*   CollectAll   one turn of the GC loop: the victim's valid pages fit in   *)
(*                WFI, and the victim becomes WFE                            *)
(*   CollectFill  one turn of the GC loop: they do not; the victim keeps     *)
(*                the rest and becomes WFI                                   *)
(*   WriteFinish  WFE has an empty page: the map points to it                *)
(*   Program      Ssd::event_arrive programs the page                        *)
(*                                                                           *)
(* read() and trim() of this FTL only look the map up.                       *)
(***************************************************************************)
EXTENDS FlashPlane

CONSTANT
  HOT         (* the lpns hcID->is_hot() answers true for                   *)

ASSUME DWFAssumption ==
  /\ PLANE_SIZE >= 3
  /\ NUM_LPN <= (PLANE_SIZE - 2) * BLOCK_SIZE
  /\ HOT \subseteq LPN

VARIABLES
  flash,          (* the plane: what every Block holds                       *)
  map,            (* map: the address of every lpn                           *)
  hotValidPages,  (* hotValidPages: valid hot pages the FTL counts per block *)
  WFE, WFI,       (* the write frontiers' blocks                             *)
  cursor,         (* FIFO collector: currentAddress.block                    *)
  currentPE,      (* stats.currentPE                                         *)
  pc,             (* where the write in flight is                            *)
  lpn             (* its logical page                                        *)

vars == <<flash, map, hotValidPages, WFE, WFI, cursor, currentPE, pc, lpn>>

HotPages(blk) == {p \in PageNo : blk.data[p] \in HOT}

IsHot(l) == IF l \in HOT THEN 1 ELSE 0

-----------------------------------------------------------------------------
(* initialize() places no page in the two frontiers.                        *)
Init ==
  /\ \E place \in Placements([l \in LPN |-> Block \ {0, 1}]) :
       /\ flash = PlacedFlash(place)
       /\ map = PlacedMap(place)
       /\ hotValidPages =
            [b \in Block |-> Cardinality({l \in HOT : place[l] = b})]
  /\ WFE = 0
  /\ WFI = 1
  /\ cursor = 0
  /\ currentPE = BLOCK_ERASES
  /\ pc = "idle"
  /\ lpn = NONE

-----------------------------------------------------------------------------
(* The driver issues a write; write() invalidates the page it replaces.     *)
WriteStart(l) ==
  /\ pc = "idle"
  /\ currentPE > MAX_PE
  /\ flash' = [flash EXCEPT ![map[l].block] = InvalidatePage(@, map[l].page)]
  /\ hotValidPages' = [hotValidPages EXCEPT ![map[l].block] = @ - IsHot(l)]
  /\ lpn' = l
  /\ pc' = "gc"
  /\ UNCHANGED <<map, WFE, WFI, cursor, currentPE>>

MutantHotCopiedCountsAll(v) == Cardinality(HotPages(flash[v]))

HotCopied(v) ==
  Cardinality({p \in HotPages(flash[v]) : IsCopied(flash[v], flash[WFI], p)})

(* _erase_and_copy(event, WFI, ...) on the victim, with its two callbacks.  *)
EraseAndCopyInto(v) ==
  IF CanErase(flash[v])
    THEN /\ flash' = [flash EXCEPT ![v] = VictimAfter(flash[v], flash[WFI]),
                                   ![WFI] = CopyBlockAfter(flash[v], flash[WFI])]
         /\ map' = MapAfter(map, flash[v], flash[WFI], WFI)
         /\ hotValidPages' = [hotValidPages EXCEPT ![v] = @ - HotCopied(v),
                                                   ![WFI] = @ + HotCopied(v)]
    ELSE UNCHANGED <<flash, map, hotValidPages>>

MutantVictimMayBeWFI(v) ==
  /\ pc = "gc"
  /\ ~HasNextPage(flash[WFE])
  /\ v \in Victims(cursor, {WFE})
  /\ cursor' = IF GC_ALGORITHM = "FIFO" THEN v ELSE cursor
  /\ EraseAndCopyInto(v)
  /\ currentPE' = PEAfter(currentPE, flash'[v].erases_remaining)
  /\ UNCHANGED <<pc, lpn>>

(* One turn of the GC loop, up to the choice between its two branches.      *)
CollectVictim(v) ==
  /\ pc = "gc"
  /\ ~HasNextPage(flash[WFE])
  /\ v \in Victims(cursor, {WFE, WFI})
  /\ cursor' = IF GC_ALGORITHM = "FIFO" THEN v ELSE cursor
  /\ EraseAndCopyInto(v)
  /\ currentPE' = PEAfter(currentPE, flash'[v].erases_remaining)
  /\ UNCHANGED <<pc, lpn>>

VictimFits(v) == flash[v].pages_valid <= get_pages_empty(flash[WFI])

MutantCollectAllKeepsWFE(v) ==
  /\ VictimFits(v)
  /\ CollectVictim(v)
  /\ UNCHANGED <<WFE, WFI>>

CollectAll(v) ==
  /\ VictimFits(v)
  /\ CollectVictim(v)
  /\ WFE' = v
  /\ UNCHANGED WFI

CollectFill(v) ==
  /\ ~VictimFits(v)
  /\ CollectVictim(v)
  /\ WFI' = v
  /\ UNCHANGED WFE

MutantFinishAtSeekPage ==
  /\ pc = "gc"
  /\ HasNextPage(flash[WFE])
  /\ map' = [map EXCEPT ![lpn] =
                [block |-> WFE, page |-> flash[WFE].min_seek_empty]]
  /\ hotValidPages' = [hotValidPages EXCEPT ![WFE] = @ + IsHot(lpn)]
  /\ pc' = "program"
  /\ UNCHANGED <<flash, WFE, WFI, cursor, currentPE, lpn>>

WriteFinish ==
  /\ pc = "gc"
  /\ HasNextPage(flash[WFE])
  /\ flash' = [flash EXCEPT ![WFE] = SeekNextPage(@)]
  /\ map' = [map EXCEPT ![lpn] = [block |-> WFE, page |-> NextPage(flash[WFE])]]
  /\ hotValidPages' = [hotValidPages EXCEPT ![WFE] = @ + IsHot(lpn)]
  /\ pc' = "program"
  /\ UNCHANGED <<WFE, WFI, cursor, currentPE, lpn>>

(* Ssd::event_arrive: the physical write of the event.                      *)
Program ==
  /\ pc = "program"
  /\ flash' = [flash EXCEPT ![map[lpn].block] = WritePage(@, map[lpn].page, lpn)]
  /\ pc' = "idle"
  /\ lpn' = NONE
  /\ UNCHANGED <<map, hotValidPages, WFE, WFI, cursor, currentPE>>

Next ==
  \/ \E l \in LPN : WriteStart(l)
  \/ \E v \in Block : CollectAll(v)
  \/ \E v \in Block : CollectFill(v)
  \/ WriteFinish
  \/ Program

Spec == Init /\ [][Next]_vars

(* A call runs to its return.  The random collectors draw every block with  *)
(* positive probability at every turn of the loop: a block that can be the  *)
(* victim again and again is drawn, which is strong fairness for each       *)
(* block.  FIFO visits every block in turn, which this implies.             *)
Fairness ==
  /\ WF_vars(WriteFinish)
  /\ WF_vars(Program)
  /\ \A v \in Block : SF_vars(CollectAll(v) \/ CollectFill(v))

FairSpec == Spec /\ Fairness

-----------------------------------------------------------------------------
TypeOK ==
  /\ flash \in [Block -> BlockState]
  /\ map \in [LPN -> Address]
  /\ hotValidPages \in [Block -> Int]
  /\ WFE \in Block /\ WFI \in Block
  /\ cursor \in Block
  /\ currentPE \in 0 .. UINT_MOD - 1
  /\ pc \in {"idle", "gc", "program"}
  /\ lpn \in IF pc = "idle" THEN {NONE} ELSE LPN

(* check_ftl_integrity: garbage collection, in any number of turns, neither *)
(* loses nor duplicates a logical page nor resurrects the replaced copy of  *)
(* the one in flight.                                                      *)
MapIntegrity == Integrity(flash, map, lpn)

(* The page the map promises to the write in flight is still EMPTY when     *)
(* Ssd::event_arrive programs it (assert(state == EMPTY) in Page::_write).  *)
ProgramsEmptyPage ==
  pc = "program" => flash[map[lpn].block].data[map[lpn].page] = EMPTY

(* The strengthening of MapIntegrity that every step preserves: the victim   *)
(* is never a frontier and the frontiers never meet, and the page promised   *)
(* to the write in flight stays EMPTY until it is programmed.               *)
IInv ==
  /\ TypeOK
  /\ WFE # WFI
  /\ MapIntegrity
  /\ ProgramsEmptyPage

(* The counters that drive victim selection and the j <= k test are exact,  *)
(* and the scan from min_seek_empty misses no empty page: were they not,    *)
(* CollectAll could leave a valid page in the block it makes WFE.           *)
CountersExact == \A b \in Block : Counted(flash[b])

(* check_hot_pages: hotValidPages is the number of VALID hot pages of every *)
(* block; between WriteFinish and Program it is one page ahead in WFE.      *)
HotPagesExact ==
  \A b \in Block :
    hotValidPages[b] = Cardinality(HotPages(flash[b]))
                       + IF pc = "program" /\ b = WFE THEN IsHot(lpn) ELSE 0

(* stats.currentPE, by which the drivers stop, is a lower bound of what any *)
(* block has left, until a block is worn out.                               *)
PEBoundsWear ==
  (\A b \in Block : flash[b].erases_remaining > 0)
    => \A b \in Block : currentPE <= flash[b].erases_remaining

(* Flash discipline: a page that was programmed takes another value only    *)
(* by becoming INVALID or by an erase of its block.                         *)
NoOverwriteWithoutErase ==
  [][\A b \in Block : \A p \in PageNo :
       \/ flash'[b].data[p] \in {flash[b].data[p], INVALID}
       \/ flash[b].data[p] = EMPTY
       \/ flash'[b].erases_remaining < flash[b].erases_remaining]_vars

(* The disk the caller sees, and what it may rely on.                       *)
StoredPages ==
  {l \in LPN : flash[map[l].block].data[map[l].page] = l}

Promise == INSTANCE LogicalDisk WITH
             LogicalPage <- LPN, NoPage <- NONE,
             stored <- StoredPages, inflight <- lpn

(* Every read the FTL can be given, but of the page in flight, finds its    *)
(* page, through any number of collections.                                *)
ImplementsDisk == Promise!DiskSafety

(* Every write completes: the loop that looks for space in WFE ends.        *)
ImplementsFairDisk == Promise!Disk

=============================================================================
