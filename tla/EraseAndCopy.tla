---------------------------- MODULE EraseAndCopy ----------------------------
(***************************************************************************)
(* The loop of Block::_erase_and_copy (ssd_block.cpp), one page of the      *)
(* victim per step.  The FTL modules take the whole call as one step, with *)
(* the operators VictimAfter, CopyBlockAfter and NewPageOf of FlashBlock;  *)
(* this module shows that the loop computes exactly those, and that no     *)
(* logical page is unreachable between two iterations, although the victim *)
(* is compacted in place, over pages the same loop still has to read.      *)
(*                                                                         *)
(* The loop treats an lpn as an opaque tag, so it is enough to give VALID   *)
(* page p of the victim the tag p and VALID page p of the copy block the    *)
(* tag BLOCK_SIZE + p.                                                      *)
(***************************************************************************)
EXTENDS FlashBlock

VARIABLES
  erasing,     (* *this: the block being erased, the victim                *)
  filling,     (* *copyBlockPtr                                            *)
  where,       (* the map: what modifyFTL and modifyFTLPage write           *)
  at,          (* the loop's index i                                       *)
  erasing0,    (* the two blocks as the call found them                    *)
  filling0

loopvars == <<erasing, filling, where, at, erasing0, filling0>>

Victim == "victim"
Copy   == "copy"
Absent == [block |-> "none", page |-> 0]

(* Blocks that were programmed in page order up to page m, some of whose    *)
(* pages were invalidated since; get_next_page last found page m - 1, or m. *)
ProgrammedBlock(firstTag) ==
  {[data             |-> [p \in PageNo |-> CASE p \in V -> firstTag + p
                                             [] p < m /\ p \notin V -> INVALID
                                             [] OTHER -> EMPTY],
    pages_valid      |-> Cardinality(V),
    pages_invalid    |-> m - Cardinality(V),
    min_seek_empty   |-> s,
    erases_remaining |-> BLOCK_ERASES]
   : V \in SUBSET PageNo, m \in 0 .. BLOCK_SIZE, s \in 0 .. BLOCK_SIZE}

RealBlock(blk) ==
  LET used == {p \in PageNo : blk.data[p] # EMPTY}
      m    == Cardinality(used)
  IN  /\ blk \in BlockState
      /\ used = 0 .. m - 1
      /\ blk.pages_valid + blk.pages_invalid = m
      /\ blk.min_seek_empty \in {m - 1, m}

-----------------------------------------------------------------------------
(* The counters are cleared before the loop, then restored page by page.   *)
LoopInit ==
  /\ erasing0 \in {b \in ProgrammedBlock(0) : RealBlock(b)}
  /\ filling0 \in {b \in ProgrammedBlock(BLOCK_SIZE) : RealBlock(b)}
  /\ erasing = [erasing0 EXCEPT !.pages_valid = 0, !.pages_invalid = 0,
                              !.min_seek_empty = 0]
  /\ filling = filling0
  /\ at = 0
  /\ where = [l \in LPN |->
              IF \E p \in PageNo : erasing0.data[p] = l
                THEN [block |-> Victim, page |-> l]
              ELSE IF \E p \in PageNo : filling0.data[p] = l
                THEN [block |-> Copy, page |-> l - BLOCK_SIZE]
              ELSE Absent]

(* A VALID page moves to the next empty page of the copy block ...         *)
CopyOut ==
  /\ erasing.data[at] \in LPN
  /\ HasNextPage(filling)
  /\ filling' = WritePage(SeekNextPage(filling), NextPage(filling), erasing.data[at])
  /\ where' = [where EXCEPT ![erasing.data[at]] =
                [block |-> Copy, page |-> NextPage(filling)]]
  /\ erasing' = [erasing EXCEPT !.data[at] = EMPTY]

MutantCompactFromTheEnd ==
  LET l == erasing.data[at]
      s == BLOCK_SIZE - 1 - erasing.min_seek_empty
  IN  /\ l \in LPN
      /\ ~HasNextPage(filling)
      /\ erasing' = [erasing EXCEPT !.data = [@ EXCEPT ![at] = EMPTY, ![s] = l],
                                  !.min_seek_empty = @ + 1,
                                  !.pages_valid = @ + 1]
      /\ where' = [where EXCEPT ![l].page = s]
      /\ UNCHANGED filling

MutantCompactForgetsMap ==
  LET l == erasing.data[at]
      s == erasing.min_seek_empty
  IN  /\ l \in LPN
      /\ ~HasNextPage(filling)
      /\ erasing' = [erasing EXCEPT !.data = [@ EXCEPT ![at] = EMPTY, ![s] = l],
                                  !.min_seek_empty = s + 1,
                                  !.pages_valid = @ + 1]
      /\ UNCHANGED <<where, filling>>

(* ... or, when there is none, to the front of the victim itself.          *)
Compact ==
  LET l == erasing.data[at]
      s == erasing.min_seek_empty
  IN  /\ l \in LPN
      /\ ~HasNextPage(filling)
      /\ erasing' = [erasing EXCEPT !.data = [@ EXCEPT ![at] = EMPTY, ![s] = l],
                                  !.min_seek_empty = s + 1,
                                  !.pages_valid = @ + 1]
      /\ where' = [where EXCEPT ![l].page = s]
      /\ UNCHANGED filling

(* Any other page is erased.                                               *)
Clear ==
  /\ erasing.data[at] \notin LPN
  /\ erasing' = [erasing EXCEPT !.data[at] = EMPTY]
  /\ UNCHANGED <<where, filling>>

(* One iteration; nothing runs when no erase remains.                      *)
Iterate ==
  /\ at < BLOCK_SIZE
  /\ CanErase(erasing)
  /\ CopyOut \/ Compact \/ Clear
  /\ at' = at + 1
  /\ UNCHANGED <<erasing0, filling0>>

Return ==
  /\ at = BLOCK_SIZE
  /\ erasing' = [erasing EXCEPT !.erases_remaining = WearOne(erasing)]
  /\ at' = BLOCK_SIZE + 1
  /\ UNCHANGED <<filling, where, erasing0, filling0>>

LoopNext == Iterate \/ Return

LoopSpec == LoopInit /\ [][LoopNext]_loopvars

-----------------------------------------------------------------------------
Returned == at = BLOCK_SIZE + 1

MovedTo(victim, copy, p) ==
  [block |-> IF IsCopied(victim, copy, p) THEN Copy ELSE Victim,
   page  |-> NewPageOf(victim, copy, p)]

(* The loop computes what VictimAfter, CopyBlockAfter and NewPageOf say of  *)
(* the two blocks and of the map, the counters and min_seek_empty included. *)
LoopComputesEraseAndCopy ==
  Returned =>
    /\ erasing = VictimAfter(erasing0, filling0)
    /\ filling = CopyBlockAfter(erasing0, filling0)
    /\ \A p \in ValidPages(erasing0) :
         where[erasing0.data[p]] = MovedTo(erasing0, filling0, p)

(* Between any two iterations every logical page the two blocks held is     *)
(* where the map says, and nowhere else.                                    *)
NoPageLostMidway ==
  /\ \A l \in LPN : where[l].block = Victim => erasing.data[where[l].page] = l
  /\ \A l \in LPN : where[l].block = Copy => filling.data[where[l].page] = l
  /\ \A p \in ValidPages(erasing) : where[erasing.data[p]] = [block |-> Victim, page |-> p]
  /\ \A p \in ValidPages(filling) : where[filling.data[p]] = [block |-> Copy, page |-> p]

-----------------------------------------------------------------------------
(* The inductive invariant: at each turn the loop has done what a whole call  *)
(* does to a victim without the pages it has not reached.                   *)
Upto(victim, n) ==
  [victim EXCEPT !.data = [p \in PageNo |-> IF p < n THEN victim.data[p] ELSE EMPTY]]

HalfErased(victim, copy, n) ==
  LET done == VictimAfter(Upto(victim, n), copy)
  IN  [done EXCEPT !.data = [p \in PageNo |-> IF p < n THEN done.data[p]
                                                      ELSE victim.data[p]],
                   !.erases_remaining = victim.erases_remaining]

LoopTypeOK ==
  /\ {erasing, filling, erasing0, filling0} \subseteq BlockState
  /\ where \in [LPN -> [block : {Victim, Copy, Absent.block}, page : PageNo]]
  /\ at \in 0 .. BLOCK_SIZE + 1

LoopInv ==
  /\ LoopTypeOK
  /\ \A p, q \in ValidPages(erasing0) : erasing0.data[p] = erasing0.data[q] => p = q
  /\ at > 0 => CanErase(erasing0)
  /\ erasing = IF Returned THEN VictimAfter(erasing0, filling0)
                           ELSE HalfErased(erasing0, filling0, at)
  /\ filling = CopyBlockAfter(Upto(erasing0, at), filling0)
  /\ \A p \in ValidPages(Upto(erasing0, at)) :
       where[erasing0.data[p]] = MovedTo(Upto(erasing0, at), filling0, p)
  /\ NoPageLostMidway

=============================================================================
