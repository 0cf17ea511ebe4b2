-------------------------------- MODULE HCWF --------------------------------
(***************************************************************************)
(* The hot/cold write frontier FTL (FTLs/hcwf_ftl.cpp; COLD, cold_ftl.cpp,  *)
(* differs from it in how it draws victims, see DChoicesGC).  Every block   *)
(* is hot or cold and holds pages of its own kind only; HWF is the          *)
(* frontier of the hot blocks, CWF of the cold ones.  Garbage collection    *)
(* runs until BOTH frontiers have an empty page.  A victim of the other      *)
(* kind changes kind if its pages fit in the other frontier.                 *)
(*                                                                           *)
(* The two halves of the GC loop, for a full HWF and for a full CWF, are     *)
(* mirror images; the actions below are written for "the full frontier" and  *)
(* "the other frontier".  The steps of a write are those of module DWF.      *)
(***************************************************************************)
EXTENDS FlashPlane

CONSTANTS
  HOT,             (* the lpns hcID->is_hot() answers true for               *)
  MAX_HOT_BLOCKS   (* maxHotBlocks: ceil(HOT_FRACTION * PLANE_SIZE) + 1       *)

NumHot  == Cardinality(HOT)
NumCold == NUM_LPN - NumHot

(* Without room for the pages of each kind initialize() does not return.     *)
ASSUME HCWFAssumption ==
  /\ PLANE_SIZE >= 3
  /\ HOT \subseteq LPN
  /\ MAX_HOT_BLOCKS \in 1 .. PLANE_SIZE - 1
  /\ NumHot <= (MAX_HOT_BLOCKS - 1) * BLOCK_SIZE
  /\ NumCold <= (PLANE_SIZE - MAX_HOT_BLOCKS - 1) * BLOCK_SIZE

VARIABLES
  flash,          (* the plane: what every Block holds                       *)
  map,            (* map: the address of every lpn                           *)
  blockIsHot,     (* blockIsHot: the kind of every block                     *)
  numHotBlocks,   (* numHotBlocks                                            *)
  HWF, CWF,       (* the write frontiers' blocks                             *)
  cursor,         (* FIFO collector: currentAddress.block                    *)
  currentPE,      (* stats.currentPE                                         *)
  pc,             (* where the write in flight is                            *)
  lpn             (* its logical page                                        *)

vars == <<flash, map, blockIsHot, numHotBlocks, HWF, CWF, cursor, currentPE, pc, lpn>>

-----------------------------------------------------------------------------
Init ==
  /\ HWF = 0
  /\ CWF = MAX_HOT_BLOCKS
  /\ blockIsHot = [b \in Block |-> b < MAX_HOT_BLOCKS]
  /\ numHotBlocks = MAX_HOT_BLOCKS
  /\ \E place \in Placements([l \in LPN |->
                    {b \in Block \ {HWF, CWF} : blockIsHot[b] <=> l \in HOT}]) :
       /\ flash = PlacedFlash(place)
       /\ map = PlacedMap(place)
  /\ cursor = 0
  /\ currentPE = BLOCK_ERASES
  /\ pc = "idle"
  /\ lpn = NONE

-----------------------------------------------------------------------------
(* The driver issues a write; write() invalidates the page it replaces.     *)
WriteStart(l) ==
  /\ pc = "idle"
  /\ currentPE > MAX_PE
  /\ flash' = [flash EXCEPT ![map[l].block] = InvalidatePage(@, map[l].page)]
  /\ lpn' = l
  /\ pc' = "gc"
  /\ UNCHANGED <<map, blockIsHot, numHotBlocks, HWF, CWF, cursor, currentPE>>

HWFInitiated == ~HasNextPage(flash[HWF])
CWFFull      == ~HasNextPage(flash[CWF])

FullFrontier  == IF HWFInitiated THEN HWF ELSE CWF
OtherFrontier == IF HWFInitiated THEN CWF ELSE HWF

ReplaceFull(v) ==
  /\ HWF' = IF HWFInitiated THEN v ELSE HWF
  /\ CWF' = IF HWFInitiated THEN CWF ELSE v

ReplaceOther(v) ==
  /\ HWF' = IF HWFInitiated THEN HWF ELSE v
  /\ CWF' = IF HWFInitiated THEN v ELSE CWF

(* The loop's condition asks HWF for its next page first, which moves its   *)
(* min_seek_empty unless it is full.                                       *)
Sought == IF HWFInitiated THEN flash ELSE [flash EXCEPT ![HWF] = SeekNextPage(@)]

EraseAndCopyInto(v, w) ==
  IF CanErase(flash[v])
    THEN /\ flash' = [Sought EXCEPT ![v] = VictimAfter(Sought[v], Sought[w]),
                                    ![w] = CopyBlockAfter(Sought[v], Sought[w])]
         /\ map' = MapAfter(map, Sought[v], Sought[w], w)
    ELSE /\ flash' = Sought
         /\ UNCHANGED map

(* One turn of the GC loop with victim v, whose pages go to frontier w.     *)
CollectVictim(v, w) ==
  /\ pc = "gc"
  /\ HWFInitiated \/ CWFFull
  /\ v \in Victims(cursor, {HWF, CWF})
  /\ cursor' = IF GC_ALGORITHM = "FIFO" THEN v ELSE cursor
  /\ EraseAndCopyInto(v, w)
  /\ currentPE' = PEAfter(currentPE, flash'[v].erases_remaining)
  /\ UNCHANGED <<pc, lpn>>

OfFullKind(v) == blockIsHot[v] <=> HWFInitiated

VictimFits(v) == flash[v].pages_valid <= get_pages_empty(flash[OtherFrontier])

MutantOwnKeepsFrontier(v) ==
  /\ OfFullKind(v)
  /\ CollectVictim(v, FullFrontier)
  /\ UNCHANGED <<HWF, CWF, blockIsHot, numHotBlocks>>

(* A victim of the full frontier's kind is compacted ("copy to self": the   *)
(* frontier it is copied to is full) and replaces it.                       *)
CollectOwn(v) ==
  /\ OfFullKind(v)
  /\ CollectVictim(v, FullFrontier)
  /\ ReplaceFull(v)
  /\ UNCHANGED <<blockIsHot, numHotBlocks>>

MutantConvertKeepsCount(v) ==
  /\ ~OfFullKind(v)
  /\ VictimFits(v)
  /\ CollectVictim(v, OtherFrontier)
  /\ ReplaceFull(v)
  /\ blockIsHot' = [blockIsHot EXCEPT ![v] = HWFInitiated]
  /\ UNCHANGED numHotBlocks

(* A victim of the other kind that is emptied changes kind and replaces it. *)
CollectConvert(v) ==
  /\ ~OfFullKind(v)
  /\ VictimFits(v)
  /\ CollectVictim(v, OtherFrontier)
  /\ ReplaceFull(v)
  /\ blockIsHot' = [blockIsHot EXCEPT ![v] = HWFInitiated]
  /\ numHotBlocks' = IF HWFInitiated THEN numHotBlocks + 1 ELSE numHotBlocks - 1

(* One that is not keeps its kind and replaces the other frontier.          *)
CollectFill(v) ==
  /\ ~OfFullKind(v)
  /\ ~VictimFits(v)
  /\ CollectVictim(v, OtherFrontier)
  /\ ReplaceOther(v)
  /\ UNCHANGED <<blockIsHot, numHotBlocks>>

MutantFinishInHWF ==
  /\ pc = "gc"
  /\ ~HWFInitiated /\ ~CWFFull
  /\ flash' = [flash EXCEPT ![HWF] = SeekNextPage(@), ![CWF] = SeekNextPage(@)]
  /\ map' = [map EXCEPT ![lpn] = [block |-> HWF, page |-> NextPage(flash[HWF])]]
  /\ pc' = "program"
  /\ UNCHANGED <<blockIsHot, numHotBlocks, HWF, CWF, cursor, currentPE, lpn>>

(* The loop's condition moved min_seek_empty of both frontiers.             *)
WriteFinish ==
  LET w == IF lpn \in HOT THEN HWF ELSE CWF
  IN  /\ pc = "gc"
      /\ ~HWFInitiated /\ ~CWFFull
      /\ flash' = [flash EXCEPT ![HWF] = SeekNextPage(@), ![CWF] = SeekNextPage(@)]
      /\ map' = [map EXCEPT ![lpn] = [block |-> w, page |-> NextPage(flash[w])]]
      /\ pc' = "program"
      /\ UNCHANGED <<blockIsHot, numHotBlocks, HWF, CWF, cursor, currentPE, lpn>>

(* Ssd::event_arrive: the physical write of the event.                      *)
Program ==
  /\ pc = "program"
  /\ flash' = [flash EXCEPT ![map[lpn].block] = WritePage(@, map[lpn].page, lpn)]
  /\ pc' = "idle"
  /\ lpn' = NONE
  /\ UNCHANGED <<map, blockIsHot, numHotBlocks, HWF, CWF, cursor, currentPE>>

Next ==
  \/ \E l \in LPN : WriteStart(l)
  \/ \E v \in Block : CollectOwn(v)
  \/ \E v \in Block : CollectConvert(v)
  \/ \E v \in Block : CollectFill(v)
  \/ WriteFinish
  \/ Program

Spec == Init /\ [][Next]_vars

(* As for DWF: a call runs to its return, and a block that can be the       *)
(* victim again and again is drawn.                                        *)
Fairness ==
  /\ WF_vars(WriteFinish)
  /\ WF_vars(Program)
  /\ \A v \in Block : SF_vars(CollectOwn(v) \/ CollectConvert(v) \/ CollectFill(v))

FairSpec == Spec /\ Fairness

-----------------------------------------------------------------------------
TypeOK ==
  /\ flash \in [Block -> BlockState]
  /\ map \in [LPN -> Address]
  /\ blockIsHot \in [Block -> BOOLEAN]
  /\ numHotBlocks \in Nat
  /\ HWF \in Block /\ CWF \in Block
  /\ cursor \in Block
  /\ currentPE \in 0 .. UINT_MOD - 1
  /\ pc \in {"idle", "gc", "program"}
  /\ lpn \in IF pc = "idle" THEN {NONE} ELSE LPN

(* As for DWF: no turn of the GC loop loses or duplicates a logical page.   *)
MapIntegrity == Integrity(flash, map, lpn)

(* check_ftl_hotness_integrity: every page but the one in flight lies in a  *)
(* block of its kind, so a conversion never strands a page of the old kind. *)
HotnessIntegrity ==
  \A l \in LPN \ {lpn} : blockIsHot[map[l].block] <=> l \in HOT

(* check_block_hotness, and the frontiers are distinct and of their kinds.  *)
FrontiersOfTheirKind ==
  /\ blockIsHot[HWF] /\ ~blockIsHot[CWF]
  /\ numHotBlocks = Cardinality({b \in Block : blockIsHot[b]})

(* The page the map promises to the write in flight is still EMPTY when     *)
(* Ssd::event_arrive programs it.                                          *)
ProgramsEmptyPage ==
  pc = "program" => flash[map[lpn].block].data[map[lpn].page] = EMPTY

(* The strengthening of MapIntegrity that every step preserves.              *)
IInv ==
  /\ TypeOK
  /\ MapIntegrity
  /\ FrontiersOfTheirKind
  /\ ProgramsEmptyPage

(* The disk the caller sees.                                                *)
StoredPages == {l \in LPN : flash[map[l].block].data[map[l].page] = l}

Promise == INSTANCE LogicalDisk WITH
             LogicalPage <- LPN, NoPage <- NONE,
             stored <- StoredPages, inflight <- lpn

ImplementsDisk == Promise!DiskSafety

(* Every write completes: the loop finds room for both frontiers.           *)
ImplementsFairDisk == Promise!Disk

=============================================================================
