-------------------------------- MODULE SWF ---------------------------------
(***************************************************************************)
(* The single write frontier FTL (FTLs/swf_ftl.cpp) after initialize().     *)
(* There is one frontier, WF.  A victim is read, erased and written back    *)
(* page by page through Controller::issue, and becomes WF; WF itself may be *)
(* the victim.  trim() invalidates the page the map gives and leaves the    *)
(* map as it is.  The steps of a write are those of module DWF; a turn of   *)
(* the loop that cannot write a page back makes write() fail.               *)
(*                                                                         *)
(* The build is one with NDEBUG (dbg, profile, release, fast): the others    *)
(* stop at the write after a trim and at a write that fails.  Here          *)
(* Ssd::event_arrive only reports the failure and programs the page at the   *)
(* event's address all the same, which write() has not set.                 *)
(***************************************************************************)
EXTENDS FlashPlane

CONSTANTS
  TRIMMED,       (* the lpns the trace trims                                 *)
  MAX_FAILURES   (* bound: the failed writes after which the trace writes no *)
                 (* more                                                     *)

ASSUME SWFAssumption ==
  /\ PLANE_SIZE >= 2
  /\ BLOCK_ERASES > 0
  /\ NUM_LPN <= (PLANE_SIZE - 1) * BLOCK_SIZE
  /\ TRIMMED \subseteq LPN
  /\ MAX_FAILURES \in Nat

VARIABLES
  flash,          (* the plane: what every Block holds                       *)
  map,            (* map: the address of every lpn                           *)
  WF,             (* the write frontier's block                              *)
  cursor,         (* FIFO collector: currentAddress.block                    *)
  currentPE,      (* stats.currentPE                                         *)
  pc,             (* where the write in flight is; "failed": write() failed  *)
  lpn,            (* its logical page                                        *)
  failures        (* history: the writes that have failed                    *)

vars == <<flash, map, WF, cursor, currentPE, pc, lpn, failures>>

(* The address of an event nobody set: block 0, page 0.                     *)
DefaultAddress == [block |-> 0, page |-> 0]

-----------------------------------------------------------------------------
(* initialize() places no page in WF.                                       *)
Init ==
  /\ \E place \in Placements([l \in LPN |-> Block \ {0}]) :
       /\ flash = PlacedFlash(place)
       /\ map = PlacedMap(place)
  /\ WF = 0
  /\ cursor = 0
  /\ currentPE = BLOCK_ERASES
  /\ pc = "idle"
  /\ lpn = NONE
  /\ failures = 0

-----------------------------------------------------------------------------
InvalidateMapped(l) ==
  flash' = [flash EXCEPT ![map[l].block] = InvalidatePage(@, map[l].page)]

MutantWriteStartKeepsOld(l) ==
  /\ pc = "idle"
  /\ failures < MAX_FAILURES
  /\ lpn' = l
  /\ pc' = "gc"
  /\ UNCHANGED <<flash, map, WF, cursor, currentPE, failures>>

(* write() invalidates the page it replaces.                                *)
WriteStart(l) ==
  /\ pc = "idle"
  /\ failures < MAX_FAILURES
  /\ InvalidateMapped(l)
  /\ lpn' = l
  /\ pc' = "gc"
  /\ UNCHANGED <<map, WF, cursor, currentPE, failures>>

(* The lpns of the victim's VALID pages are collected, the victim is erased *)
(* (an erase that fails is only reported) and they are written to its next  *)
(* pages while there are any.                                              *)
MutantMapForgetsLast(old, copy, l) ==
  \E p \in PagesOf(old, l) : Rank(ValidPages(old), p) < NumCopied(old, copy) - 1

WrittenBack(old, copy, l) ==
  \E p \in PagesOf(old, l) : IsCopied(old, copy, p)

Collect(v) ==
  LET old  == flash[v]
      copy == Erase(old)
      worn == BLOCK_ERASES - copy.erases_remaining
  IN  /\ pc = "gc"
      /\ ~HasNextPage(flash[WF])
      /\ v \in Victims(cursor, {})
      /\ cursor' = IF GC_ALGORITHM = "FIFO" THEN v ELSE cursor
      /\ flash' = [flash EXCEPT ![v] = CopyBlockAfter(old, copy)]
      /\ map' = [l \in LPN |->
                  IF WrittenBack(old, copy, l)
                    THEN [block |-> v, page |-> NewPageOf(old, copy, LastPageOf(old, l))]
                    ELSE map[l]]
      /\ WF' = v
      /\ IF NumKept(old, copy) > 0
           THEN pc' = "failed" /\ UNCHANGED currentPE
           ELSE /\ UNCHANGED pc
                /\ currentPE' = IF currentPE < worn
                                  THEN (currentPE - 1) % UINT_MOD ELSE currentPE
      /\ UNCHANGED <<lpn, failures>>

WriteFinish ==
  /\ pc = "gc"
  /\ HasNextPage(flash[WF])
  /\ flash' = [flash EXCEPT ![WF] = SeekNextPage(@)]
  /\ map' = [map EXCEPT ![lpn] = [block |-> WF, page |-> NextPage(flash[WF])]]
  /\ pc' = "program"
  /\ UNCHANGED <<WF, cursor, currentPE, lpn, failures>>

(* Ssd::event_arrive: the physical write of the event, to the page at a.     *)
PhysicalWrite(a) ==
  /\ flash' = [flash EXCEPT ![a.block] = WritePage(@, a.page, lpn)]
  /\ pc' = "idle"
  /\ lpn' = NONE
  /\ UNCHANGED <<map, WF, cursor, currentPE>>

Program ==
  /\ pc = "program"
  /\ PhysicalWrite(map[lpn])
  /\ UNCHANGED failures

(* After a write that failed: whatever the page at the default address       *)
(* holds, it is VALID afterwards and counted once more.                     *)
ProgramDefault ==
  /\ pc = "failed"
  /\ PhysicalWrite(DefaultAddress)
  /\ failures' = failures + 1

Trim(l) ==
  /\ pc = "idle"
  /\ l \in TRIMMED
  /\ InvalidateMapped(l)
  /\ UNCHANGED <<map, WF, cursor, currentPE, pc, lpn, failures>>

Next ==
  \/ \E l \in LPN : WriteStart(l)
  \/ \E v \in Block : Collect(v)
  \/ WriteFinish
  \/ Program
  \/ ProgramDefault
  \/ \E l \in LPN : Trim(l)

Spec == Init /\ [][Next]_vars

-----------------------------------------------------------------------------
(* The VALID pages that hold the lpn in flight or are not where the map says  *)
(* of their lpn: old copies, that a collection would enter into the map.     *)
StaleCopies ==
  {a \in Address :
     LET l == flash[a.block].data[a.page]
     IN  l \in LPN /\ (l = lpn \/ map[l] # a)}

(* Whatever is trimmed, no old copy of a page comes back to life: a failed    *)
(* write leaves one page the map does not name, and nothing else does, not    *)
(* even a collection of such pages or a write of their lpn.                  *)
StaleOnlyByFailure == Cardinality(StaleCopies) <= failures

(* write() fails, its page invalidated and not written, only on a victim    *)
(* that is worn out.                                                       *)
FailsOnlyWornOut == pc = "failed" => ~CanErase(flash[WF])

(* pages_valid and pages_invalid are too high by at most n together.         *)
CountedBut(blk, n) ==
  \E i, j \in 0 .. n :
    /\ i + j <= n
    /\ Counted([blk EXCEPT !.pages_valid = @ - i, !.pages_invalid = @ - j])

(* The counters and min_seek_empty are exact in every block, but in the one   *)
(* of the default address, where a failed write may program a page that is   *)
(* counted already: by one page for each failure, until the block is erased. *)
CountersExact ==
  \A b \in Block :
    CountedBut(flash[b], IF b = DefaultAddress.block THEN failures ELSE 0)

TypeOK ==
  /\ flash \in [Block -> BlockState]
  /\ map \in [LPN -> Address]
  /\ WF \in Block
  /\ cursor \in Block
  /\ currentPE \in 0 .. UINT_MOD - 1
  /\ pc \in {"idle", "gc", "program", "failed"}
  /\ lpn \in IF pc = "idle" THEN {NONE} ELSE LPN
  /\ failures \in Nat

(* A block gets empty pages back by an erase, and is WF then: a block that   *)
(* cannot be erased has none elsewhere, so that pages are never written back *)
(* into a block that still holds them.                                     *)
WornOutIsFull ==
  \A b \in Block \ {WF} : CanErase(flash[b]) \/ ~HasNextPage(flash[b])

(* The strengthening of the invariants that every step preserves: the page    *)
(* promised to the write in flight is EMPTY.                               *)
IInv ==
  /\ TypeOK
  /\ StaleOnlyByFailure
  /\ pc = "program" => flash[map[lpn].block].data[map[lpn].page] = EMPTY
  /\ WornOutIsFull
  /\ CountersExact
  /\ FailsOnlyWornOut

(* read() returns data of these lpns, the newest if they have no stale copy.  *)
StoredPages == {l \in LPN \ {lpn} : flash[map[l].block].data[map[l].page] = l}

(* What a step may lose.                                                    *)
LosesOnlyExpectedPages ==
  \A l \in StoredPages \ StoredPages' :
    \/ \E m \in LPN : /\ WriteStart(m) \/ Trim(m)
                      /\ m = l \/ m \notin StoredPages
    \/ ProgramDefault /\ map[l] = DefaultAddress

(* A logical page that can be read stays readable unless it is written or    *)
(* trimmed, or another lpn is whose own page could not be read, because its   *)
(* entry is the stale one that trim() or a failed write leaves; or a failed   *)
(* write of another lpn is programmed over it, at the default address.  No   *)
(* turn of the loop loses a page, even one that finds its victim worn out    *)
(* and makes the write fail.                                               *)
LosesOnlyThroughStaleEntry == [][LosesOnlyExpectedPages]_vars

(* The assertion of write() that every other lpn is held by a VALID page    *)
(* (swf_ftl.cpp:216-224), of the lpns that are never trimmed only.          *)
UntrimmedPagesStored ==
  \A l \in LPN \ (TRIMMED \cup {lpn}) : flash[map[l].block].data[map[l].page] = l

=============================================================================
