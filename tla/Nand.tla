-------------------------------- MODULE Nand --------------------------------
(***************************************************************************)
(* The flash as the FTLs with a block manager (BAST, FAST, DFTL, BDFTL) see  *)
(* it through Controller::issue, in the build they are written for: without  *)
(* NOT_USE_BLOCKMGR, NO_NOOP and NO_BLOCK_STATE.  Addresses are linear, an   *)
(* event of type noop changes no page, and blocks do not wear out.          *)
(*                                                                         *)
(* A VALID page is modelled by the logical page whose data it carries       *)
(* (PAGE_ENABLE_DATA), or by OLD when that data has been written again       *)
(* elsewhere since: a page that only a wrong mapping would still return.    *)
(***************************************************************************)
EXTENDS Integers, FiniteSets, Sequences

CONSTANTS
  BLOCK_SIZE,     (* pages per block                                         *)
  NUM_BLOCKS,     (* NUMBER_OF_ADDRESSABLE_BLOCKS                            *)
  NUM_LPN,        (* the logical pages the host uses                         *)
  EMPTY, INVALID, OLD

Block  == 0 .. NUM_BLOCKS - 1
PageNo == 0 .. BLOCK_SIZE - 1
LPN    == 0 .. NUM_LPN - 1

(* The FTLs shift by log(BLOCK_SIZE)/log(2) where they mean to divide.       *)
ASSUME NandAssumption ==
  /\ \E k \in 0 .. 16 : BLOCK_SIZE = 2 ^ k
  /\ NUM_BLOCKS \in Nat \ {0}
  /\ NUM_LPN \in 1 .. NUM_BLOCKS * BLOCK_SIZE
  /\ Cardinality({EMPTY, INVALID, OLD}) = 3
  /\ LPN \cap {EMPTY, INVALID, OLD} = {}

LBA == 0 .. (NUM_LPN - 1) \div BLOCK_SIZE

LbaOf(l)    == l \div BLOCK_SIZE
OffsetOf(l) == l % BLOCK_SIZE

Erased == [p \in PageNo |-> EMPTY]

-----------------------------------------------------------------------------
IsValid(x) == x \notin {EMPTY, INVALID}

get_pages_valid(pages) == Cardinality({p \in PageNo : IsValid(pages[p])})

(* block state INACTIVE                                                    *)
IsInactive(pages) == \A p \in PageNo : pages[p] = INVALID

(* Plane::get_free_page takes the number of valid pages for the next page.  *)
get_free_page(pages) == get_pages_valid(pages)

invalidate_page(flash, b, p) == [flash EXCEPT ![b][p] = INVALID]

Erase(flash, b) == [flash EXCEPT ![b] = Erased]

-----------------------------------------------------------------------------
(* assert(state == EMPTY) in Page::_write.                                  *)
MayProgram(flash, b, p) == p \in PageNo /\ flash[b][p] = EMPTY

(* The host's new data for l lands in page p of block b.                    *)
Program(flash, b, p, l) ==
  [c \in Block |-> [q \in PageNo |->
     IF c = b /\ q = p THEN l
     ELSE IF flash[c][q] = l THEN OLD ELSE flash[c][q]]]

(* What a merge finds worth copying: the data of a VALID page.              *)
ValidData(x) == IF IsValid(x) THEN x ELSE EMPTY

=============================================================================
