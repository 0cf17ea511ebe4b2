----------------------------- MODULE FlashPlane -----------------------------
(***************************************************************************)
(* What the write frontier FTLs (FTLs/{swf,dwf,hcwf,cold}_ftl.cpp) share: a *)
(* plane of blocks, the page map, the placement initialize() makes, the     *)
(* effect of an _erase_and_copy on the map, and the drivers' PE counter.    *)
(***************************************************************************)
EXTENDS FlashBlock, Collectors

CONSTANTS
  MAX_PE,     (* the drivers of DWF and HCWF write while currentPE > MAX_PE  *)
  UINT_MOD,   (* 2^32: stats.currentPE is an unsigned int                   *)
  NONE        (* no write is in flight                                      *)

ASSUME PlaneAssumption ==
  /\ MAX_PE \in Nat
  /\ UINT_MOD \in Nat /\ UINT_MOD > BLOCK_ERASES
  /\ NONE \notin LPN

Address == [block : Block, page : PageNo]

-----------------------------------------------------------------------------
(* initialize(): each lpn in turn goes to the next page of a random block,  *)
(* drawn again until it is one of the blocks the FTL allows and has room.   *)
Placements(allowed) ==
  {place \in [LPN -> Block] :
     /\ \A l \in LPN : place[l] \in allowed[l]
     /\ \A b \in Block : Cardinality({l \in LPN : place[l] = b}) <= BLOCK_SIZE}

PlacedBlock(place, b) ==
  LET here == {l \in LPN : place[l] = b}
      n    == Cardinality(here)
  IN  [NewBlock EXCEPT
        !.data = [p \in PageNo |-> IF p < n THEN Nth(here, p) ELSE EMPTY],
        !.pages_valid = n,
        !.min_seek_empty = IF n = 0 THEN 0 ELSE n - 1]

PlacedFlash(place) == [b \in Block |-> PlacedBlock(place, b)]

PlacedMap(place) ==
  [l \in LPN |->
    [block |-> place[l], page |-> Rank({m \in LPN : place[m] = place[l]}, l)]]

-----------------------------------------------------------------------------
(* The map after the callbacks of victim._erase_and_copy(..., copy, ...):   *)
(* a copied page gets its address in block w, the copy block; a kept page   *)
(* gets its page number only.  The last page that holds an lpn decides.     *)
PagesOf(victim, l) == {p \in PageNo : victim.data[p] = l}

LastPageOf(victim, l) ==
  CHOOSE p \in PagesOf(victim, l) : \A q \in PagesOf(victim, l) : q <= p

MutantMapForgetsKeptPages(m, victim, copy, w) ==
  [l \in LPN |->
    IF PagesOf(victim, l) = {} \/ ~IsCopied(victim, copy, LastPageOf(victim, l))
      THEN m[l]
      ELSE [block |-> w, page |-> NewPageOf(victim, copy, LastPageOf(victim, l))]]

MapAfter(m, victim, copy, w) ==
  [l \in LPN |->
    IF PagesOf(victim, l) = {}
      THEN m[l]
      ELSE LET p == LastPageOf(victim, l)
           IN  [block |-> IF IsCopied(victim, copy, p) THEN w ELSE m[l].block,
                page  |-> NewPageOf(victim, copy, p)]]

-----------------------------------------------------------------------------
(* stats.next_currentPE() if the victim is worn down to currentPE.          *)
MutantPENoWrap(pe, left) == IF pe >= left THEN pe - 1 ELSE pe

MutantPEInverted(pe, left) == IF pe <= left THEN (pe - 1) % UINT_MOD ELSE pe

PEAfter(pe, left) == IF pe >= left THEN (pe - 1) % UINT_MOD ELSE pe

-----------------------------------------------------------------------------
(* check_ftl_integrity: every lpn but the one being written is held by the   *)
(* VALID page the map gives for it, and the map gives every VALID page back. *)
Integrity(flash, m, busy) ==
  /\ \A l \in LPN \ {busy} : flash[m[l].block].data[m[l].page] = l
  /\ \A b \in Block : \A p \in ValidPages(flash[b]) :
       /\ flash[b].data[p] # busy
       /\ m[flash[b].data[p]] = [block |-> b, page |-> p]

(* The counters agree with the pages, and get_next_page, which starts at     *)
(* min_seek_empty, can find every page get_pages_empty counts.               *)
Counted(blk) ==
  /\ blk.pages_valid = Cardinality(ValidPages(blk))
  /\ blk.pages_invalid = Cardinality(InvalidPages(blk))
  /\ get_pages_empty(blk) = Cardinality(FreePages(blk))

=============================================================================
