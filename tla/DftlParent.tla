----------------------------- MODULE DftlParent -----------------------------
(***************************************************************************)
(* FtlImpl_DftlParent (FTLs/dftl_parent.cpp): the page map of DFTL and        *)
(* BDFTL.  trans_map holds the whole map; the entries that are cached stand   *)
(* for the Cached Mapping Table, the others are on translation pages in       *)
(* flash.  An access to an entry that is not cached first evicts the least    *)
(* recently visited ones while the counter cmt says that the table is full;   *)
(* an evicted entry is written back to its translation page, with the other   *)
(* cached ones of that page, if its two time stamps differ.  Translation      *)
(* pages are written as noop events, which change nothing in flash; what they *)
(* would hold is kept in persisted.                                          *)
(*                                                                         *)
(* Times are relative to the start_time of the event in flight, which is 0.   *)
(***************************************************************************)
EXTENDS BlockManager, FiniteSetsExt

CONSTANTS
  CACHE_DFTL_LIMIT,      (* translation pages that fit in the cache           *)
  addressPerPage,        (* entries on a translation page                     *)
  STEPS,                 (* time units between two events, at least            *)
  NULL,                  (* no call, no logical page                          *)
  READ, WRITTEN, TRIMMED (* the logical pages the host reads, writes, trims     *)

totalCMTentries == CACHE_DFTL_LIMIT * addressPerPage

Page == 0 .. NUM_BLOCKS * BLOCK_SIZE - 1     (* linear addresses              *)

ASSUME DftlAssumption ==
  /\ CACHE_DFTL_LIMIT \in Nat \ {0}
  /\ addressPerPage \in Nat \ {0}
  /\ STEPS \subseteq Nat
  /\ NULL \notin Int
  /\ READ \subseteq LPN /\ WRITTEN \subseteq LPN /\ TRIMMED \subseteq LPN

VARIABLES
  flash, bm,             (* the plane, and the Block_manager                  *)
  trans_map,             (* trans_map: an MPage for every logical page        *)
  reverse_trans_map,     (* the logical page last mapped to a page            *)
  cmt,                   (* cmt: the entries in the Cached Mapping Table       *)
  currentDataPage,       (* the page written last, or -1                      *)
  persisted,             (* history: what the translation pages map, of the    *)
                         (* logical pages that are never trimmed             *)
  pc, lpn,               (* where the call in flight is, its logical page      *)
  free_page              (* the page it has got to write to                   *)

table == <<trans_map, cmt, persisted>>

MPage == [ppn : Page \cup {-1}, create_ts : Int, modified_ts : Int,
          last_visited_time : Int, cached : BOOLEAN]

NewMPage == [ppn |-> -1, create_ts |-> -2, modified_ts |-> -2,
             last_visited_time |-> -2, cached |-> FALSE]

ParentInit ==
  /\ flash = [b \in Block |-> Erased]
  /\ \E first \in FIRST_FREE : bm = NewManager(first)
  /\ trans_map = [l \in LPN |-> NewMPage]
  /\ reverse_trans_map = [p \in Page |-> NULL]
  /\ cmt = 0
  /\ currentDataPage = -1
  /\ persisted = [l \in LPN |-> -1]
  /\ pc = "idle"
  /\ lpn = NULL
  /\ free_page = NULL

BlockOf(ppn)  == ppn \div BLOCK_SIZE
PageIn(ppn)   == ppn % BLOCK_SIZE
Cached(tm)    == {l \in LPN : tm[l].cached}

-----------------------------------------------------------------------------
(* The host's event arrives, step units after the one before: what is past    *)
(* is only compared any more, the stamps of an entry with each other and the  *)
(* last visits of the entries.                                             *)
Past(t, same) == IF t >= 0 THEN t ELSE IF same THEN -1 ELSE -2

Visits(tm) == {tm[l].last_visited_time : l \in Cached(tm)}

Aged(tm, step) ==
  [l \in LPN |-> LET m == tm[l] IN
    IF ~m.cached THEN m
    ELSE [m EXCEPT
           !.create_ts = Past(@ - step, m.create_ts = m.modified_ts),
           !.modified_ts = Past(@ - step, TRUE),
           !.last_visited_time = - Cardinality({v \in Visits(tm) \cup {step} : v > @})]]

EventArrives(l, first) ==
  /\ pc = "idle"
  /\ pc' = first
  /\ lpn' = l
  /\ \E step \in STEPS : trans_map' = Aged(trans_map, step)
  /\ UNCHANGED <<flash, bm, reverse_trans_map, cmt, currentDataPage, persisted, free_page>>

-----------------------------------------------------------------------------
(* Evicting entry l: the group of its translation page, written back.        *)
IsDirty(m) == m.create_ts # m.modified_ts

SameTranslationPage(l, k) == l \div addressPerPage = k \div addressPerPage

WrittenBack(tm, l) ==
  IF ~IsDirty(tm[l]) THEN {}
  ELSE {k \in Cached(tm) : SameTranslationPage(l, k)}

Forgotten(m) == [NewMPage EXCEPT !.ppn = m.ppn]

Evicted(tm, l) ==
  [k \in LPN |->
    IF k = l THEN Forgotten(tm[k])
    ELSE IF k \in WrittenBack(tm, l) THEN [tm[k] EXCEPT !.create_ts = tm[k].modified_ts]
    ELSE tm[k]]

PersistedAfter(tm, l) ==
  [k \in LPN |-> IF k \in WrittenBack(tm, l) \ TRIMMED THEN tm[k].ppn ELSE persisted[k]]

IsLeastVisited(l) ==
  /\ l \in Cached(trans_map)
  /\ \A k \in Cached(trans_map) :
       trans_map[l].last_visited_time <= trans_map[k].last_visited_time

MutantEvictKeepsCount(l) ==
  /\ trans_map' = Evicted(trans_map, l)
  /\ persisted' = PersistedAfter(trans_map, l)
  /\ UNCHANGED cmt

EvictEntry(l) ==
  /\ trans_map' = Evicted(trans_map, l)
  /\ persisted' = PersistedAfter(trans_map, l)
  /\ cmt' = cmt - 1

-----------------------------------------------------------------------------
(* resolve_mapping, of a call that returns or goes on with step next.        *)
Resolving == pc \in {"read", "write"}

Proceed(next) ==
  IF pc = "read" THEN pc' = "idle" /\ lpn' = NULL ELSE pc' = next /\ UNCHANGED lpn

lookup_CMT == trans_map[lpn].cached

evict_page_from_cache ==
  /\ Resolving /\ ~lookup_CMT
  /\ cmt >= totalCMTentries
  /\ \E l \in LPN : IsLeastVisited(l) /\ EvictEntry(l)
  /\ UNCHANGED <<flash, bm, reverse_trans_map, currentDataPage, pc, lpn, free_page>>

MutantHitStaysClean(m) == [m EXCEPT !.last_visited_time = 0]

Visited(m) ==
  [m EXCEPT !.modified_ts = IF pc = "write" THEN 0 ELSE @, !.last_visited_time = 0]

Hit(next) ==
  /\ Resolving /\ lookup_CMT
  /\ trans_map' = [trans_map EXCEPT ![lpn] = Visited(@)]
  /\ Proceed(next)
  /\ UNCHANGED <<flash, bm, reverse_trans_map, cmt, currentDataPage, persisted,
                 free_page>>

(* The entry comes from its translation page (consult_GTD).                  *)
Loaded(m) ==
  [ppn |-> m.ppn, create_ts |-> 0, modified_ts |-> IF pc = "write" THEN 1 ELSE 0,
   last_visited_time |-> 0, cached |-> TRUE]

Miss(next) ==
  /\ Resolving /\ ~lookup_CMT
  /\ cmt < totalCMTentries
  /\ trans_map' = [trans_map EXCEPT ![lpn] = Loaded(@)]
  /\ cmt' = cmt + 1
  /\ Proceed(next)
  /\ UNCHANGED <<flash, bm, reverse_trans_map, currentDataPage, persisted, free_page>>

resolve_mapping(next) == evict_page_from_cache \/ Hit(next) \/ Miss(next)

-----------------------------------------------------------------------------
Memory == [bm |-> bm, flash |-> flash]

MutantNewBlockOnePageLate == currentDataPage = -1 \/ PageIn(currentDataPage) = 0

NeedsDataBlock == currentDataPage = -1 \/ PageIn(currentDataPage) = BLOCK_SIZE - 1

(* get_free_data_page: the page after the one written last, or page 0 of a   *)
(* new block, after insert_events.                                          *)
get_free_data_page(next) ==
  LET m == Collected(Memory)
  IN  /\ IF NeedsDataBlock
           THEN /\ Obtainable(m)
                /\ currentDataPage' = NewBlock(m) * BLOCK_SIZE
                /\ bm' = Obtain(m, "DATA").bm
                /\ flash' = Obtain(m, "DATA").flash
           ELSE /\ currentDataPage' = currentDataPage + 1
                /\ UNCHANGED <<bm, flash>>
      /\ free_page' = currentDataPage'
      /\ pc' = next
      /\ UNCHANGED <<trans_map, reverse_trans_map, cmt, persisted, lpn>>

MutantForgetsReverse(ppn, l) == reverse_trans_map

update_translation_map(ppn, l) == [reverse_trans_map EXCEPT ![ppn] = l]

(* The page is mapped, and the event issued with the page it replaces.       *)
MayIssue == MayProgram(flash, BlockOf(free_page), PageIn(free_page))

MapAndIssue ==
  LET old     == trans_map[lpn].ppn
      written == Program(flash, BlockOf(free_page), PageIn(free_page), lpn)
  IN  /\ pc = "program"
      /\ MayIssue
      /\ flash' = IF old = -1 THEN written
                  ELSE invalidate_page(written, BlockOf(old), PageIn(old))
      /\ trans_map' = [trans_map EXCEPT ![lpn].ppn = free_page]
      /\ reverse_trans_map' = update_translation_map(free_page, lpn)
      /\ pc' = "idle"
      /\ lpn' = NULL
      /\ free_page' = NULL
      /\ UNCHANGED <<bm, cmt, currentDataPage, persisted>>

-----------------------------------------------------------------------------
(* trim() of a mapped page: its entry is evicted, and then the copy of it    *)
(* that was made before is put back, cached again and without a page.        *)
TrimMapped(l) ==
  LET current == trans_map[l]
  IN  /\ flash' = invalidate_page(flash, BlockOf(current.ppn), PageIn(current.ppn))
      /\ cmt' = IF current.cached THEN cmt - 1 ELSE cmt
      /\ persisted' = IF current.cached THEN PersistedAfter(trans_map, l) ELSE persisted
      /\ trans_map' = [(IF current.cached THEN Evicted(trans_map, l) ELSE trans_map)
                         EXCEPT ![l] = [current EXCEPT !.ppn = -1]]

-----------------------------------------------------------------------------
(* assert(state == EMPTY), and the assertion of evict_page_from_cache that    *)
(* what it evicts is cached.                                               *)
PageTaken == pc = "program" /\ ~MayIssue

NothingToEvict ==
  Resolving /\ ~lookup_CMT /\ cmt >= totalCMTentries /\ Cached(trans_map) = {}

Mapped == {l \in LPN : trans_map[l].ppn # -1}

=============================================================================
