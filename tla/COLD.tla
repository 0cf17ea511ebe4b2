-------------------------------- MODULE COLD --------------------------------
(***************************************************************************)
(* The COLD FTL (FTLs/cold_ftl.cpp): the variables, write frontiers, GC turns *)
(* and conversions of HCWF, over a std::map that need not know every lpn    *)
(* (map[l] is NONE while it has no entry l), with victims it draws itself    *)
(* when the cold frontier is to be replaced.                                *)
(* The draws are the steps of DChoicesGC, on the blocks as they are: each   *)
(* turn of the GC loop draws D samples, and again if they answer with a     *)
(* frontier.                                                                *)
(***************************************************************************)
EXTENDS HCWF

CONSTANTS
  D,               (* d, DCHOICES_D                                          *)
  PLACED,          (* the lpns initialize() is called for                    *)
  TRIMMED          (* the lpns the trace trims                               *)

ASSUME COLDAssumption ==
  /\ D \in Nat \ {0}
  /\ GC_ALGORITHM = "random"
  /\ PLACED \subseteq LPN
  /\ TRIMMED \subseteq LPN
  /\ NONE \notin Block
  /\ NONE \notin Address

VARIABLES
  i, minValidPages, victim, COLDvictim, samples   (* those of DChoicesGC      *)

sampling == <<i, minValidPages, victim, COLDvictim, samples>>
coldvars == <<vars, sampling>>

Draws == INSTANCE DChoicesGC WITH
           pagesValid <- [b \in Block |-> flash[b].pages_valid],
           replacingCWF <- ~HWFInitiated

(* A default Address, which map[lpn] inserts for an lpn it does not know.   *)
DefaultAddress == [block |-> 0, page |-> 0]

-----------------------------------------------------------------------------
(* initialize() for the lpns PLACED; the map has no entry for the others.   *)
ColdInit ==
  /\ HWF = 0
  /\ CWF = MAX_HOT_BLOCKS
  /\ blockIsHot = [b \in Block |-> b < MAX_HOT_BLOCKS]
  /\ numHotBlocks = MAX_HOT_BLOCKS
  /\ \E all \in Placements([l \in LPN |->
                  {b \in Block \ {HWF, CWF} : blockIsHot[b] <=> l \in HOT}]) :
       LET place == [l \in LPN |-> IF l \in PLACED THEN all[l] ELSE NONE]
       IN  /\ flash = PlacedFlash(place)
           /\ map = [l \in LPN |-> IF l \in PLACED THEN PlacedMap(place)[l] ELSE NONE]
  /\ cursor = 0
  /\ currentPE = BLOCK_ERASES
  /\ pc = "idle"
  /\ lpn = NONE
  /\ i = 0
  /\ minValidPages = BLOCK_SIZE + 1
  /\ victim = HWF
  /\ COLDvictim = FALSE
  /\ samples = {}

-----------------------------------------------------------------------------
Known(l) == map[l] # NONE

MutantColdWriteStart(l) ==
  LET old == IF Known(l) THEN map[l] ELSE DefaultAddress
  IN  /\ pc = "idle"
      /\ currentPE > MAX_PE
      /\ flash' = [flash EXCEPT ![old.block] = InvalidatePage(@, old.page)]
      /\ lpn' = l
      /\ pc' = "gc"
      /\ victim' = old.block
      /\ Draws!Start
      /\ UNCHANGED <<map, blockIsHot, numHotBlocks, HWF, CWF, cursor, currentPE>>

(* write() invalidates the page it replaces, if the map has one.  A victim   *)
(* is drawn over the address of that page, or over HWF.                     *)
ColdWriteStart(l) ==
  /\ pc = "idle"
  /\ currentPE > MAX_PE
  /\ flash' = IF Known(l)
                THEN [flash EXCEPT ![map[l].block] = InvalidatePage(@, map[l].page)]
                ELSE flash
  /\ lpn' = l
  /\ pc' = "gc"
  /\ victim' = IF Known(l) THEN map[l].block ELSE HWF
  /\ Draws!Start
  /\ UNCHANGED <<map, blockIsHot, numHotBlocks, HWF, CWF, cursor, currentPE>>

Collecting == pc = "gc" /\ (HWFInitiated \/ CWFFull)

(* One turn of the loop in gca_collect_COLD or GCImpl_DChoices::collect.    *)
Sample(b) ==
  /\ Collecting
  /\ UNCHANGED vars
  /\ Draws!Take(b) \/ Draws!Pass(b)

(* The victim is a frontier: collect again.                                *)
SampleAgain ==
  /\ Collecting
  /\ i = D
  /\ victim \in {HWF, CWF}
  /\ Draws!Start
  /\ UNCHANGED <<vars, victim>>

(* One turn of the GC loop, as in HCWF.                                     *)
Collect ==
  /\ i = D
  /\ \/ CollectOwn(victim)
     \/ CollectConvert(victim)
     \/ CollectFill(victim)
  /\ Draws!Start
  /\ victim' = IF Known(lpn) THEN map'[lpn].block ELSE HWF'

ColdWriteFinish == WriteFinish /\ UNCHANGED sampling

ColdProgram == Program /\ UNCHANGED sampling

(* trim() looks the lpn up with operator[], and does nothing more.          *)
Trim(l) ==
  /\ pc = "idle"
  /\ l \in TRIMMED
  /\ map' = IF Known(l) THEN map ELSE [map EXCEPT ![l] = DefaultAddress]
  /\ UNCHANGED <<flash, blockIsHot, numHotBlocks, HWF, CWF, cursor, currentPE, pc, lpn>>
  /\ UNCHANGED sampling

ColdNext ==
  \/ \E l \in LPN : ColdWriteStart(l)
  \/ \E b \in Block : Sample(b)
  \/ SampleAgain
  \/ Collect
  \/ ColdWriteFinish
  \/ ColdProgram
  \/ \E l \in LPN : Trim(l)

ColdSpec == ColdInit /\ [][ColdNext]_coldvars

-----------------------------------------------------------------------------
(* read() returns the newest data of these lpns.                            *)
ColdStoredPages ==
  {l \in LPN : Known(l) /\ flash[map[l].block].data[map[l].page] = l}

(* check_ftl_hotness_integrity, of the pages a read can return: neither a   *)
(* first write nor a conversion leaves a page in a block of the other kind. *)
ColdHotnessIntegrity ==
  \A l \in ColdStoredPages : blockIsHot[map[l].block] <=> l \in HOT

(* What the draws answer (see DChoicesGC) while the blocks change from turn *)
(* to turn: a block drawn in this turn, and no better one was drawn.        *)
VictimIsBestDrawn == Collecting => Draws!VictimWasDrawn /\ Draws!FewestValidPages

(* Within a turn, a hot sample never takes the place of a cold one when the  *)
(* cold frontier is to be replaced.                                        *)
ColdVictimsStay ==
  [][Collecting /\ ~HWFInitiated /\ victim \in samples /\ ~blockIsHot[victim]
       /\ samples' # {}
       => ~blockIsHot[victim']]_coldvars

(* A logical page that can be read stays readable, but for the page being   *)
(* written, unless the write is of an lpn whose own page could not be read  *)
(* although the map has an entry for it: the default entry of a trim, or     *)
(* the stale one of an lpn such a write has hit.  No GC turn loses a page.   *)
LosesOnlyThroughStaleEntry ==
  [][\A l \in ColdStoredPages \ ColdStoredPages' :
       /\ pc = "idle" /\ pc' = "gc"
       /\ l = lpn' \/ (Known(lpn') /\ lpn' \notin ColdStoredPages)]_coldvars

=============================================================================
