# FlashSim (d-choices) in TLA+

TLA+ models of FlashSim: the write frontier FTLs of Robin Verschoren, the older
FTLs on FlashSim's block manager, and the hardware below them; the TLC runs that
check them on small instances, and TLAPS proofs about them. References such as
`dwf_ftl.cpp:184` are to the files of the repository.

## The system

FlashSim simulates a solid state disk. A driver (`run_Sim*.cpp`) builds an `Ssd`,
calls `initialize(numLPN)` and issues events. Nothing is concurrent: each event
runs to its end before the next.

    driver -> Ssd::event_arrive -> Controller::event_arrive -> FTL read/write/trim
                     |                                             |  GC loop:
                     |                                             |  collector picks a victim,
                     |                                             |  Block::_erase_and_copy moves its
                     |                                             |  pages, calling back into the map
                     +-> (WRITE) Package -> Die -> Plane -> Block::write -> Page::_write

A write frontier FTL (DWF, HCWF, SWF, COLD) only *chooses* the page of a write: it
returns the address in the event, and `Ssd::event_arrive` programs the page
afterwards (`ssd_ssd.cpp:254`). The older FTLs (BAST, FAST, DFTL, BDFTL) take their
blocks from the block manager and program pages themselves:

    FTL read/write/trim -> Controller::issue -> Bus::lock -> Channel::lock/unlock
          |                        +-> Ssd -> Package -> Die -> Plane -> Block -> Page
          +-> Block_manager get_free_block / promote_block / erase_and_invalidate
                            insert_events: erases blocks of the invalid list

| component | state | operations | what makes it correct |
|---|---|---|---|
| Page, Block (`ssd_page.cpp`, `ssd_block.cpp`) | state and lpn of each page; `pages_valid`, `pages_invalid`, `min_seek_empty`, `erases_remaining` | write, invalidate, replace, erase, erase-and-copy, find next page | counters agree with the pages; no page lost by in-place compaction; no overwrite without erase |
| Collectors (`GCAs/`) | FIFO cursor | `collect` | any victim is allowed; d-choices answers the sample with the fewest valid pages |
| DWF (`dwf_ftl.cpp`) | page map, frontiers WFE and WFI, hot pages per block | initialize, read, write, trim (no effect) | map and flash agree after any number of GC turns; writes complete |
| HCWF (`hcwf_ftl.cpp`) | page map, kind of each block, frontiers HWF and CWF | the same | also: pages lie in blocks of their kind |
| SWF (`swf_ftl.cpp`) | page map, frontier WF | the same; trim invalidates | a page is lost only through a stale entry or to the program of a failed write; writes fail on worn-out victims only |
| COLD (`cold_ftl.cpp`) | as HCWF, but a partial map | as HCWF, draws its own victims | as HCWF, for the pages a read returns; a cold victim drawn is kept |
| Stats (`ssd_stats.cpp`) | `currentPE`, counters | `next_currentPE` | `currentPE` bounds the wear of every block |
| Block manager (`ssd_bm.cpp`) | next block never handed out, free and invalid lists, counters of active blocks | get_free_block, invalidate, erase_and_invalidate, promote_block, insert_events | each block has one owner; what is handed out is erased; the counters are what the tables say |
| BAST (`bast_ftl.cpp`) | block map, one log block per logical block | read, write with switch, merge and eviction, trim | a read returns the newest data; no block leaks; a write ends |
| FAST (`fast_ftl.cpp`) | block map, a sequential and several random log blocks | read, write with sequential and random merges, trim | the same; indices in bounds |
| DFTL, BDFTL (`dftl_parent.cpp`, `dftl_ftl.cpp`, `bdftl_ftl.cpp`) | page map, reverse map, cached flags, `cmt`; BDFTL: block map, queue of partly used blocks | resolve, evict, read, write, convert, trim | cache bounded, dirty entries written back; reverse map right; a page is kept until it is trimmed |
| Plane, Die, Package, Ssd | free blocks per plane, least worn child per level | write, replace, erase | summaries agree with the blocks |
| Channel, Bus | table of reservations, `ready_at` | lock, unlock | no time is given away twice |

The rest (events, RAM delays, configuration, trace parsing, RAID, random numbers,
trace generators) carries data or parses text. `PROJECT.json` lists every
component and what is modelled of it.

What is hard here is not concurrency but long sequences of legal calls: the GC
loop runs any number of turns inside one write and exchanges the frontiers while
it runs; `_erase_and_copy` compacts a block over pages it has yet to read and
calls back into the FTL's map from the middle of its loop; one write of FAST may
merge several logical blocks; state is cached (`min_seek_empty`, `hotValidPages`,
`cmt`, `log_page_next`, the number of valid pages taken for the next page) and
trusted; erases fail and no caller looks; unsigned counters wrap; events reach the
bus with start times out of order. The `hazards` of `PROJECT.json` give each at its
line.

### The builds

The write frontier FTLs are modelled in the Makefile's build: `NOT_USE_BLOCKMGR`,
`SINGLE_PLANE`, `BYPASS_BUS`, `NO_NOOP`, `NO_BLOCK_STATE`, `NO_PLANE_STATE`, one
package, die and plane. For SWF it is one of those with `NDEBUG` (dbg, profile,
release, fast): with assertions a write after a trim stops at `swf_ftl.cpp:111`, and a
write that fails at `swf_ftl.cpp:176`, so that trims between writes, and writes after a
failed one, are only possible without.

The FTLs on the block manager are compiled by the Makefile but cannot run in that
build: `Address::set_linear_address` is an `assert(false)` there, so they stop at
the first block they ask for; and without `NOT_USE_BLOCKMGR`
`Block::get_next_page(uint &)` (`ssd_block.cpp:356`) does not compile. They are
modelled in the build they are written for, with the block manager and the state
of blocks, one plane, and with the boundary at `Controller::event_arrive`: above it,
`Ssd::event_arrive` writes the page of a WRITE a second time (`ssd_ssd.cpp:248`),
which only the write frontier FTLs need. `Device` is the hardware of that build
with any number of packages, dies and planes; `BYPASS_BUS` is of no importance to it,
since `Controller::issue` locks the bus in every build.

## Modules

| module | models |
|---|---|
| `FlashBlock` | a block as a value, one operator for each method of `Block`; `VictimAfter`, `CopyBlockAfter`, `NewPageOf` give the effect of a whole `_erase_and_copy` |
| `EraseAndCopy` | the loop of `_erase_and_copy`, one page per step; it justifies those three operators |
| `Collectors` | the victims a collector can end with |
| `DChoicesGC` | the sampling loops of `GCImpl_DChoices::collect` and `gca_collect_COLD`; `COLD` runs it on its own blocks |
| `FlashPlane` | a plane of blocks, the placement of `initialize`, the map callbacks, `currentPE` |
| `LogicalDisk` | abstract specification: logical pages that stay readable, writes that complete |
| `DWF`, `HCWF`, `SWF` | the FTLs, each with its driver and the physical write |
| `COLD` | the COLD FTL: extends `HCWF`, whose turns of the GC loop and last two steps of a write it shares; the draws of `DChoicesGC` (an INSTANCE) and a partial map are its own, and so are the actions called `Cold...` |
| `Nand` | the plane under `Controller::issue`: pages that hold data or not, the arithmetic of logical blocks and offsets |
| `BlockManager` | the block manager as a value, one operator per method; it is part of the state of each FTL that uses it |
| `SparseDisk` | abstract specification for drives that start empty: a page that was written can be read, with its newest data, until it is trimmed, also while its next write is in flight |
| `LogBlockFTL` | what the two log-block FTLs share: the plane, the block manager, the table of data blocks, one write in flight |
| `BAST`, `FAST` | the log-block FTLs, one merge or switch per step; the definitions of `FAST` that `BAST` has too are called `Fast...` |
| `DftlParent` | the page map and its cache: resolve, evict, update |
| `DFTL`, `BDFTL` | what the two FTLs add |
| `PagedFTLs` | their driver and failed assertions; the variable `ftl`, chosen at the start, says which of the two is running |
| `Bus` | channels: lock with its unlock and search for a gap |
| `Device` | READ, WRITE and ERASE under `Controller::issue`, and the trims that call a block directly: linear addresses, the bus, free-block counts and wear summaries of all levels |
| `FlashPlane_proofs`, `BlockManager_proofs` | lemmas about the operators: blocks, planes and collections; the block manager and the plane under it. `FlashPlane_proofs` has the theorems of `EraseAndCopy` too |
| `DWF_proofs`, `HCWF_proofs`, `SWF_proofs`, `LogBlockFTL_proofs`, `PagedFTLs_proofs`, `Bus_proofs` | the theorems; `HCWF_proofs` has those of `HCWF` and `COLD`, `LogBlockFTL_proofs` those of `BAST` and `FAST`, `Bus_proofs` those of `Bus` and `Device` |

How state corresponds. In the write frontier modules `flash[b]` is the `Block`
object b of the plane; `data[p]` is EMPTY, INVALID or the lpn of a VALID page (the
`lpn` field of other pages is never read). `map` is the FTL's `map`. An `Address`
keeps block and page. The block pointers (`WFEPtr` ...) always belong to the
addresses next to them and are not kept twice. `pc` and `lpn` are the position and
the argument of the call in flight; `currentPE` is `stats.currentPE` with the width
`UINT_MOD`. In the block-manager modules `flash[b][p]` is EMPTY, INVALID, the lpn
whose newest data the page holds, or OLD: a VALID page that holds data a later
write replaced (the code cannot tell it from newest data, the properties must).
`bm` is the block manager, `data_list`, `log_map`, `log_pages`, `trans_map` and so on
are the members of those names, -1 and null pointers being `NULL` where they index
nothing.

How steps correspond, for DWF: `WriteStart` is `write` up to its loop,
`CollectAll` and `CollectFill` one turn of the loop through either branch with
the whole `_erase_and_copy` and the callbacks, `WriteFinish` the code after the
loop, `Program` the physical write. Splitting a write at these points adds no
behaviour (nothing else runs), but lets invariants speak about the middle of a
write. HCWF writes its mirror-image halves once, for the "full" and the "other"
frontier, and replays a side effect of its loop condition: asking HWF for its
next page moves HWF's `min_seek_empty` (`Sought`). A turn of SWF's loop reads,
erases and writes back the victim; if a page cannot be written back, `write`
returns FAILURE (`pc = "failed"`), which `Ssd::event_arrive` only prints before it
programs the event's address: `write` has not set it, so it is block 0, page 0
(`ProgramDefault`). The host then goes on; `failures` counts such writes. COLD
draws its samples one by one, several rounds if they answer with a frontier.

BAST, FAST and the paged FTLs are split at the merges, conversions and evictions
inside a call. `Abort` is the assertion or the index that fails next (no free
block, a page that is programmed already, `data_list[-1]`); it is final, and what the
properties say is when it can happen.

`read` is the refinement mapping: `StoredPages` is the set of lpns for which the
page `read` chooses holds that lpn's newest data.

Choices made. Payload, timing (but the bus's) and statistics other than
`currentPE` and `hotValidPages` are left out. `is_hot` is a constant set of lpns,
which is what `Static_HCID` and `Oracle_HCID` compute. The random and d-choices
collectors are a choice of any block outside the frontiers: sampling changes
probabilities only. `initialize` is a choice among the placements its random draws
can produce. `COUNT_WEAR = FALSE` leaves `erases_remaining` alone; the drivers give
a block ten million erases. SWF is modelled from the state after its `initialize`;
the driver `run_SimSWF.cpp` does not call it. `FIRST_FREE` is the set of values
`simpleCurrentFree` may have: the constructor of `Block_manager` does not initialise
it. `TRIM_MAP` is the same for the array `trim_map` of BDFTL. Time stamps of DFTL are
kept relative to the event in flight, so that the states stay finitely many;
translation pages are noop events in the code and have no place in flash, so what
they would hold is the history variable `persisted`.

## Runs

| run | question | bounds |
|---|---|---|
| `erase_and_copy` | does the page loop compute what the FTL modules assume, losing no page on the way? | all pairs of programmed blocks of 4 pages |
| `dwf_wear` | is DWF safe with wear, to the end of the simulation? | 4 blocks of 2 pages, 4 lpns (2 hot), 2 erases per block |
| `dwf_live` | are the counters exact, do writes complete? | 4 blocks of 2 pages, 3 lpns (1 hot), unlimited erases |
| `hcwf_live` | is HCWF safe and live, with conversions? | 4 blocks of 3 pages, 4 lpns (1 hot), unlimited erases |
| `hcwf_worn_out` | violation: worn-out victims change kind with their pages | 5 blocks of 2 pages, 3 lpns (1 hot), one erase per block |
| `swf` | what survives trims and wear, when do writes fail? | 3 blocks of 2 pages, 3 lpns, 2 of them trimmed at any time, 2 erases per block, writes until 2 have failed |
| `swf_trim_loses` | violation: a trim costs another lpn its page | 3 blocks of 2 pages, 3 lpns, 1 of them trimmed, FIFO |
| `cold` | do partial maps, drawn victims and conversions lose or misplace pages? | 4 blocks of 2 pages, 4 lpns (2 hot, 1 not placed and trimmed), 2 samples, unlimited erases |
| `bast` | does BAST keep its promise, lose no block, and end every write? | 5 or 3 blocks of 2 pages, 4 lpns, 2 of them trimmed, 1 log block |
| `fast` | what can FAST's merges and trims damage, and what can they not? | 5 blocks of 2 pages, 3 of 4 lpns written, 2 trimmed, 2 random log blocks |
| `dftl` | do DFTL and BDFTL keep mappings, pages and their cache counter? | 3 blocks of 2 pages, 4 lpns, 3 of them written, 2 trimmed, 1 read; a cache of 2 entries, 2 entries per translation page |
| `device` | do planes count and name their blocks, does the bus keep events apart? | 1 channel, 2 dies of 1 plane of 3 blocks of 2 pages, 2 erases; start times 0 and 2, 3 locks, both pages of one block trimmed at any time |

Why the bounds are enough. Three or four blocks are the fewest with two frontiers
and a choice of victims; two or three pages per block give victims that fit in
the other frontier, fit partly and fit not at all, and with more lpns than a
block holds collections must move pages between blocks. Two erases let blocks
wear out while others have erases left, and a worn-out victim drawn at `currentPE = 0`
makes it wrap (`UINT_MOD = 8`). That wrap is real and no property forbids it:
`PEBoundsWear` speaks of the time before a block is worn out. In `swf` a second write can
fail in a drive that has a page the map does not name, and collections of that page
and writes and trims of its lpn come in between.
EraseAndCopy uses four pages because in-place compaction after a partly filled
copy block needs at least three. For BAST one log block for two logical blocks
forces evictions, and three blocks instead of five make the block manager run
out. FAST has five blocks because its three log blocks and two data blocks then
fill the drive, so that `insert_events` reclaims blocks in every long behaviour;
the host writes both pages of one logical block, in and out of order, and only the
last page of the other. In `dftl` the cache holds half the map, so that every second
access evicts, and the translation pages have two entries, so that an eviction
writes back more than the entry it drops. `device` has two dies, so that the
levels above a plane have children to compare, and three locks, the fewest with a
gap between two reservations; the trimmed block can be FREE, in part programmed, or
INACTIVE, and be erased or written in between.

Named bounds on the environment: `MAX_LOCKS` (locks of a channel; a history of the
bookings is kept), `STARTS` (start times), `MAX_FAILURES` (failed writes after which
the host of SWF writes no more; the theorems need no such bound), `MAX_DISPOSED`
(trims that empty a block of FAST before the last call: what follows such a trim is
undefined behaviour soon),
`STEPS` (time between two events of DFTL, see below), `WRITTEN`, `TRIMMED`, `READ`.
All runs but the violations explore every reachable state of their instance; there
is no state constraint.

Deadlock is switched off only where the program stops: the driver's end
(`dwf_wear`, `hcwf_worn_out`), a failed assertion (`bast`, `fast`, `dftl`), and the end
of a call (`erase_and_copy`).

Fairness. `FairSpec` of DWF and HCWF: a call runs to its return, so the steps of
a write are weakly fair; whether the driver writes again is not assumed. Random
draws give every block a positive probability in every turn, so a block that can
be the victim again and again is drawn: strong fairness for each block. FIFO
visits every block in turn, which implies it. `FairSpec` of BAST: only that a call
runs to its return, weak fairness of the steps of a write together; the log
block that is evicted is drawn at random, and any draw is allowed.

What the runs show beyond "holds". Several properties say exactly how far a
promise goes, since the plain promise is false:

* COLD and SWF lose a page only when an lpn is written (SWF: or trimmed) whose own
  page could not be read: the stale entry a trim leaves in SWF, the default address
  a trim of an unknown lpn inserts in COLD (`cold_ftl.cpp:404`, block 0, page 0). SWF can
  also lose the page at the default address, when a write that failed is programmed there.
* A write of SWF that fails leaves one page that the map does not name, and nothing else
  leaves any: a collection of such pages, which writes each back and enters one of them
  into the map, makes no more of them. It also leaves the counters of block 0 too
  high by one page, until the block is erased.
* BAST keeps its promise. It gives a write up where a page of a log block was
  invalidated, because it takes the number of valid pages for the next page.
* FAST returns a wrong page at offset 0 only (`fast_ftl.cpp:530` writes the first
  page of a sequential log block whatever its offset is), and its indices stay in
  bounds as long as no trim has emptied a block: a trim that empties a log block
  gives it back and leaves it in the list.
* DFTL keeps every page; BDFTL's conversion of a block (`bdftl_ftl.cpp:148`) looks at
  the block whose number is the logical block's, enters only pages that are mapped
  already, and so loses what was written in order. Neither FTL ever erases a block:
  the condition under which `insert_events` would clean one can never hold for them
  (`ssd_bm.cpp:208`), so both stop for want of a block; DFTL does when every page is used.
* DFTL's clean-or-dirty test compares two time stamps. `STEPS = {2}` keeps events
  apart by more than the delay between the stamps; closer events make a dirty
  entry look clean.
* `update_wear_stats` never updates its `max`: the block it names is the last that
  has more erases left than block 0, not the least worn, but one with an erase left
  whenever there is one.
* `Plane::free_blocks` is never too small, and too large only after a FREE block
  was erased or had a page trimmed.
* The bus gives time away twice only to an event that starts before one already
  served: `unlock` has then dropped reservations that are still to come for it. A
  READ's second lock, which starts when the data is there, makes such events
  possible.

Findings. *HCWF*: `_erase_and_copy` fails on a worn-out victim (`ssd_block.cpp:183`)
and the FTL goes on: the block changes kind with its pages in place, against the
assertion at `hcwf_ftl.cpp:411`. *SWF*: `trim` (`swf_ftl.cpp:254`) leaves the map
entry of the page it invalidates; the page is reused for another lpn, and the next
write or trim of the trimmed lpn invalidates that one, against the assertion at
`swf_ftl.cpp:220`.

## Proofs

Checked by TLAPS for every plane, block size, set of lpns, collector, block
manager, cache, geometry of the drive, delay and start time that the ASSUMEs of the
modules allow. Each module names its own (`BlockAssumption`, `CollectorAssumption`,
`PlaneAssumption`, `DWFAssumption`, `HCWFAssumption`, `COLDAssumption`, `SWFAssumption`, `NandAssumption`,
`BlockManagerAssumption`, `BASTAssumption`, `FASTAssumption`, `DftlAssumption`, `BdftlAssumption`,
`BusAssumption`, `DeviceAssumption`); they say that sizes are positive, that there are
blocks for the frontiers and the pages placed, that marks are no lpns, and what the
constructors require. `LogBlockFTL_proofs` sees the assumptions of both its FTLs; the
proofs about FAST cite only `FASTAssumption` and those of the modules below it.

| module | theorem: property |
|---|---|
| `FlashPlane_proofs` | `LoopComputesEraseAndCopy`, `NoPageLostMidway` |
| `DWF_proofs` | `TypeOK`, `MapIntegrity`, `ProgramsEmptyPage`, `PEBoundsWear`, `CountersExact`, `HotPagesExact`, `NoOverwriteWithoutErase` (when wear is counted), the safety part of the refinement of `LogicalDisk` |
| `HCWF_proofs` | HCWF: `TypeOK`, `MapIntegrity`, `FrontiersOfTheirKind`, `HotnessIntegrity` (without wear; with wear, until a block is worn out), the same refinement. COLD: `ColdHotnessIntegrity` (likewise), `LosesOnlyThroughStaleEntry`, `VictimIsBestDrawn`, `ColdVictimsStay` |
| `SWF_proofs` | `TypeOK`, `StaleOnlyByFailure`, `FailsOnlyWornOut`, `CountersExact`, `LosesOnlyThroughStaleEntry`, for any number of failed writes |
| `LogBlockFTL_proofs` | BAST: `TypeOK`, `EveryBlockOnce`, `CountersMatchTables`, `AbortsOnlyAfterInvalidation`, the refinement of `SparseDisk`. FAST: `FastTypeOK`, `FastEveryBlockOnce`, `CountersMatchLists`, `AbortsOnlyAfterTrim`, `MisplacedAtPageZero` (of the state before and after every step up to the first trim that empties a block; of every state if that trim ends the host's calls, as in the run) |
| `PagedFTLs_proofs` | `ReverseMapExact`, `CounterWithinCache`, `StopsOnlyFullOrTrimmed`, `OnlyConversionsLosePages`; `NoMappingDropped` if events are two units of time apart |
| `Bus_proofs` | `NoDoubleBooking`, for the bus alone and for the drive; the drive implements the bus specification; `FreeCountExact`, `LeastWornHasErases` |

**DWF and HCWF.** `MapIntegrity` alone is not inductive, for two reasons.
A collection whose victim is its own copy block would destroy it; the collectors
skip the frontiers, so what is needed is that the frontiers differ (`WFE # WFI`;
for HCWF the frontiers are of opposite kinds). And `Program` would destroy it if
the promised page held something; so `ProgramsEmptyPage` belongs to the invariant.
Together with the types these are `IInv` of each module.

The heart of the proof is that `_erase_and_copy` preserves the one-to-one
correspondence of map and pages (`CollectIntegrity` in `FlashPlane_proofs`). It
rests on lemmas about positions: `Rank` numbers the members
of a finite set of page numbers without gaps, so that the r-th valid page goes to
the r-th free page (`CopiedPage`, `KeptPage`), and, backwards, each page of either
block afterwards is an old page or has one origin (`CopyBlockOrigins`,
`VictimOrigins`). HCWF's conversion and its mirror-image halves need nothing more
than this lemma and a case for each role. The refinements follow from the invariant
alone: integrity makes `StoredPages` all lpns but the one in flight, so `WriteStart`
accepts a write, `Program` completes it and every other step is a stutter.

The counters need cardinalities before and after a step. `CountedCopy` and
`CountedVictim` say what a collection does to `pages_valid`, `pages_invalid` and
`min_seek_empty` of both blocks, through the set of pages that hold an lpn
(`CopyBlockHolding`, `VictimHolding`). `HotInv` does the same for the hot pages: the
callbacks count the copied pages one by one, and `CopiedCount` says that there
are as many of them in a set of lpns as the copied pages hold. HCWF keeps pages in
blocks of their kind (`KindsKept`) because a victim that changes kind is left with
no page (`FitsCopiesAll`), which takes an erase: the theorem holds as long as no
block is worn out, the case of the finding `hcwf_worn_out`.

**COLD.** HCWF and COLD share one invariant and one set of steps. `PlaneInv` does not say
that every lpn has a page, which is false of a partial map with stale entries, but
the converse, which no stale entry disturbs: every page that holds an lpn is the
one the map names (`Backed`). `Step` is what a step of either FTL does (`NextIsStep`,
`ColdNextIsStep`); it preserves `PlaneInv`, the counters and the kinds, and `StepLoses` says
which pages it may lose. HCWF's `IInv` adds that its map is total and all pages but the one
in flight can be read (`InvariantParts`), and for it `StepLoses` says that none is lost;
for COLD it is `LosesOnlyThroughStaleEntry`. The draws have an invariant of their own
(`SamplingInv`): the victim is the best of the samples so far (`BestSoFar`), the first
sample being taken because, the counters being exact, no block has more than
`BLOCK_SIZE` valid pages.

**The page loop** (`LoopInv`). After `n` turns the loop has done what the whole call does
to `Upto(victim, n)`, the victim without the pages still to be seen (`HalfErased`), so
at the end it has done what the FTL modules take in one step. A turn adds one page
behind all others, which moves none of them (`RankAdded`), and goes to the copy block
(`PageCopied`), to the front of the victim (`PageCompacted`) or nowhere (`PageCleared`).
No page is lost midway because the victim keeps no more pages than the loop has seen
(`HalfFacts`): the page written is EMPTY by then, or the one just read.

**SWF.** The frontier may be the victim, the erase of a victim may fail, and a trim
leaves its map entry. What makes the write-back safe is `WornOutIsFull`: a block gets
empty pages by an erase and is the frontier then, so a block that cannot be erased
has none elsewhere, and pages are never written back into a block that still holds
them. That the map names every VALID page is false after a failed write, so the invariant
counts: the VALID pages it does not name (`StaleCopies`) are at most as many as the
failures. The map names at most one page of each lpn, the one read last of those in the
victim; so the old copies after a collection go one to one into those
before it, each to the page it was copied from, but for the page the map named before, which takes
the place of the one it names now. The counters are exact up to a number of pages, for
block 0 only, that a failure raises by one and every other step leaves or lowers. A
collection reads the pages and not the counters, so it loses nothing either way.

**BAST.** Every switch, merge, eviction and disposal is an exchange: a block leaves
one of the free list, the data blocks and the log blocks and enters another
(`Exchange`), and only the one in motion is looked at. `HandsOutOnce` (the free
list and the counter name no block twice) belongs to the invariant. For the
refinement, `LogIsNewest` and `LogInOrder` are needed: a page of a log block that
`pages[]` names is the newest copy, and pages of a log block are written in order.
Each step then leaves what `read` returns alone (`SwitchReads`, `MergeReads`,
`WriteReads`, `TrimReads`), but for the page written or trimmed.

**FAST** (`FastIInv`). A trim that empties a block hands it back: a random log block
stays in the list and has two owners from then on, a data block leaves pages in the log
that can be merged with none. So the invariant has parts for three kinds of states. In
all of them (`FastBase`) the types hold, `log_active` is at most the number of log
blocks, `log_page_next` agrees with the pages of each log block (`PagesInLog`), and a
merge is under way only while the log is full. Until such a trim, or a failed assertion,
(`Regular`) each block has one owner (`BlocksApart`), the pages still to be programmed
are EMPTY (`EmptyAhead`), and what is logged or to be merged has a data block
(`LoggedHasData`), without which a merge would index with -1. And `PagesPlaced`, that a
page lies at its own offset in a data block and in the sequential block but for offset
0, and in the random log where `aPages` says, is also left by the trim itself. Every
block a trim hands back is discounted as a log block, so `log_active` tells the states
apart (`Disposals`); no step raises it (`FastNextBase`), so a state of the second kind
comes from one of that kind. As in BAST each step is an exchange of blocks; as a step
may also reclaim the invalid blocks first (`Collected`), that is a lemma about any set
of blocks in use (`Managed`, in `BlockManager_proofs`). A merge copies a page of the log
to the offset `aPages` has for it; `PagesPlaced` is what makes that the page's own
offset. `AbortsOnlyAfterTrim` follows because `EmptyAhead` leaves only the sequential
block, whose next page is its number of valid pages, a number that a trim lowers.

**DFTL and BDFTL.** One invariant for both. `BlocksApart` says who may program the
pages of a block (the block of `currentDataPage`, an optimal block, one of the queue
or the one in use), `EmptyAhead` that what they will program is EMPTY, `GotEmptyPage`
that this is still so for the page a write was given, between the step that gives
it and the one that programs it. `OptimalUnmapped`: the
pages of a logical block that is optimal are not in `trans_map`. So a conversion,
which enters only mapped pages, never enters any (`NothingTransferred`), and loses
all that was written in order.
A trim in an optimal logical block that has no physical one invalidates a page by an
address built from a wrapped number (`stray`); the invariant promises nothing after one.
`DftlFillsBlocks` adds what
`StopsOnlyFullOrTrimmed` needs: DFTL programs every page of the blocks it got.
`StampsTell` adds what `NoMappingDropped` needs: an entry of an earlier event has
stamps before the current one, so a hit makes them differ. It needs events two units
apart. With `STEPS = {1}`, all four logical pages written and one trimmed, TLC violates
the property: a trim in the instant of a load leaves a stamp that the next
load copies, and a changed entry looks clean.

**Bus** (`BusInv`). `NoDoubleBooking` speaks of
everything ever booked, the channel's table only of what `unlock` has left. The
invariant joins the two: reservations in the table are disjoint, and what was
booked is in the table still or has run out at the latest start time seen
(`clock`). A new reservation is clear of the table because `Times` yields a gap of it,
and clear of what was dropped because the event does not start before `clock`, or
else it is marked as `behind`. `EventInv` adds the READ between its two locks.

**Device.** Linear addresses are numbers with digits (`Digits`), so that different
blocks have different paths and a page lies in one plane (`PathsDiffer`). A write
that takes a FREE block makes one fewer, an erase one more; the count is then
inductive as it stands, with the history `miscounted` of the planes where a block was
erased or trimmed while FREE; a trim leaves the bus alone. For `LeastWornHasErases` the
invariant is that the summary of
a plane is what `update_wear_stats` would answer now (`LeastWornIsCurrent`): it is
recomputed for the plane of each erase, and no other plane's blocks change.

Only model-checked: all liveness (`ImplementsFairDisk`, `WriteReturns`), which is out of
the prover's reach. Every invariant and action property of the passing runs is
stated by a theorem.

## Not modelled

* The endless GC loop once every block is worn out in one write, and the
  out-of-bounds map access of `run_SimDWFTrace.cpp:80` (undefined behaviour).
* The clean-up of data blocks of DFTL and BDFTL (`cleanup_block`), and the order of
  the block manager's blocks by cost: dead code, see `ssd_bm.cpp:208`.
* `reverse_trans_map[-1]` (trim of an unmapped page of DFTL) and the NULL
  dereference of FAST with `FAST_LOG_PAGE_LIMIT = 1` (`fast_ftl.cpp:556`): undefined
  behaviour from which nothing follows.
* MERGE events, which no FTL issues; erase times; `Plane::next_page`; delays other
  than the bus's.
* Page FTL (a stub), wear leveling (never instantiated), RAID (forwards only),
  `WARM_HCID` (used by no FTL), configuration and trace parsing, trace tools, test
  drivers.

What could follow: `Plane::next_page`, RAID, and which pages of FAST are the newest copies
as long as nothing is trimmed.
