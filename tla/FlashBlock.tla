----------------------------- MODULE FlashBlock -----------------------------
(***************************************************************************)
(* One flash block (ssd_block.cpp) and its pages (ssd_page.cpp), as a      *)
(* value and the operators that compute its next value.  The FTL modules   *)
(* keep a function from blocks to such values and update it with these     *)
(* operators, so that one operator stands for one method of Block.         *)
(*                                                                         *)
(* A page is EMPTY, INVALID or VALID; the `lpn' field of the C++ Page is    *)
(* read of a VALID page only, so a VALID page is represented by its lpn.   *)
(*                                                                         *)
(* The build modelled is the Makefile's: NOT_USE_BLOCKMGR, NO_NOOP,        *)
(* NO_BLOCK_STATE, NO_PLANE_STATE.  Times and delays are not modelled.     *)
(***************************************************************************)
EXTENDS Integers, FiniteSets

CONSTANTS
  BLOCK_SIZE,     (* pages in a block                                        *)
  BLOCK_ERASES,   (* erases a new block can stand                            *)
  COUNT_WEAR,     (* FALSE: erases_remaining is not counted (no run of the   *)
                  (* drivers comes near the 10,000,000 erases they give it)  *)
  NUM_LPN,        (* logical pages the drivers pass to initialize()          *)
  EMPTY, INVALID  (* page states; VALID is the page's lpn                    *)

LPN      == 0 .. NUM_LPN - 1
PageNo   == 0 .. BLOCK_SIZE - 1

ASSUME BlockAssumption ==
  /\ BLOCK_SIZE \in Nat \ {0}
  /\ BLOCK_ERASES \in Nat
  /\ COUNT_WEAR \in BOOLEAN
  /\ NUM_LPN \in Nat \ {0}
  /\ EMPTY \notin LPN
  /\ INVALID \notin LPN
  /\ EMPTY # INVALID

(* What data[] of a block can hold.                                        *)
PageData == [PageNo -> LPN \cup {EMPTY, INVALID}]

BlockState ==
  [data             : PageData,
   pages_valid      : Int,
   pages_invalid    : Int,
   min_seek_empty   : 0 .. BLOCK_SIZE,
   erases_remaining : Nat]

NewBlock ==
  [data             |-> [p \in PageNo |-> EMPTY],
   pages_valid      |-> 0,
   pages_invalid    |-> 0,
   min_seek_empty   |-> 0,
   erases_remaining |-> BLOCK_ERASES]

-----------------------------------------------------------------------------
(* Positions in a finite set of page numbers, counted from zero.           *)

Rank(S, p) == Cardinality({q \in S : q < p})

Nth(S, r) == CHOOSE p \in S : Rank(S, p) = r

Lesser(m, n) == IF m < n THEN m ELSE n

-----------------------------------------------------------------------------
(* Reading a block.                                                        *)

ValidPages(blk)   == {p \in PageNo : blk.data[p] \in LPN}
InvalidPages(blk) == {p \in PageNo : blk.data[p] = INVALID}

(* The empty pages get_next_page() can find: it scans from min_seek_empty. *)
FreePages(blk) == {p \in PageNo : p >= blk.min_seek_empty /\ blk.data[p] = EMPTY}

get_pages_empty(blk) == BLOCK_SIZE - blk.pages_invalid - blk.pages_valid

HasNextPage(blk) == FreePages(blk) # {}

NextPage(blk) == CHOOSE p \in FreePages(blk) : \A q \in FreePages(blk) : p <= q

-----------------------------------------------------------------------------
(* Changing a block.                                                       *)

(* A successful get_next_page() moves min_seek_empty to the page it found. *)
SeekNextPage(blk) == [blk EXCEPT !.min_seek_empty = NextPage(blk)]

(* Block::write after Page::_write.                                        *)
WritePage(blk, p, l) ==
  [blk EXCEPT !.data[p] = l, !.pages_valid = @ + 1]

MutantInvalidateKeepsCount(blk, p) ==
  IF blk.data[p] = INVALID
    THEN blk
    ELSE [blk EXCEPT !.data[p] = INVALID, !.pages_invalid = @ + 1]

InvalidatePage(blk, p) ==
  IF blk.data[p] = INVALID
    THEN blk
    ELSE [blk EXCEPT !.data[p] = INVALID,
                     !.pages_valid = IF blk.data[p] \in LPN THEN @ - 1 ELSE @,
                     !.pages_invalid = @ + 1]

(* _erase and _erase_and_copy return FAILURE and do nothing when no erase   *)
(* remains; no caller looks at the result.                                 *)
CanErase(blk) == blk.erases_remaining >= 1

MutantNoWear(blk) == blk.erases_remaining

WearOne(blk) ==
  IF COUNT_WEAR THEN blk.erases_remaining - 1 ELSE blk.erases_remaining

MutantEraseKeepsSeek(blk) ==
  IF CanErase(blk)
    THEN [NewBlock EXCEPT !.erases_remaining = WearOne(blk),
                          !.min_seek_empty = blk.min_seek_empty]
    ELSE blk

Erase(blk) ==
  IF CanErase(blk)
    THEN [NewBlock EXCEPT !.erases_remaining = WearOne(blk)]
    ELSE blk

-----------------------------------------------------------------------------
(* _erase_and_copy(event, copyBlock, ...): in page order, the VALID pages   *)
(* of the victim go to the successive empty pages of the copy block while  *)
(* there are any, the others to the pages 0, 1, ... of the victim itself.   *)
(* Module EraseAndCopy is the loop page by page, and shows that it          *)
(* computes what these operators say.                                      *)

NumCopied(victim, copy) ==
  Lesser(Cardinality(ValidPages(victim)), Cardinality(FreePages(copy)))

NumKept(victim, copy) ==
  Cardinality(ValidPages(victim)) - NumCopied(victim, copy)

IsCopied(victim, copy, p) == Rank(ValidPages(victim), p) < NumCopied(victim, copy)

(* The page of the copy block, or of the victim, that VALID page p of the   *)
(* victim is written to.                                                   *)
NewPageOf(victim, copy, p) ==
  IF IsCopied(victim, copy, p)
    THEN Nth(FreePages(copy), Rank(ValidPages(victim), p))
    ELSE Rank(ValidPages(victim), p) - NumCopied(victim, copy)

(* The copy block afterwards.                                              *)
CopyBlockAfter(victim, copy) ==
  LET n == NumCopied(victim, copy)
      F == FreePages(copy)
      V == ValidPages(victim)
  IN  [copy EXCEPT
        !.data = [q \in PageNo |->
                    IF q \in F /\ Rank(F, q) < n
                      THEN victim.data[Nth(V, Rank(F, q))]
                      ELSE copy.data[q]],
        !.pages_valid = @ + n,
        !.min_seek_empty = IF n = 0 THEN @ ELSE Nth(F, n - 1)]

(* The victim afterwards.                                                  *)
VictimAfter(victim, copy) ==
  LET n == NumCopied(victim, copy)
      k == NumKept(victim, copy)
      V == ValidPages(victim)
  IN  [data             |-> [q \in PageNo |->
                               IF q < k THEN victim.data[Nth(V, n + q)] ELSE EMPTY],
       pages_valid      |-> k,
       pages_invalid    |-> 0,
       min_seek_empty   |-> k,
       erases_remaining |-> WearOne(victim)]

=============================================================================
