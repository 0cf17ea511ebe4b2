----------------------------- MODULE DChoicesGC -----------------------------
(***************************************************************************)
(* The sampling loops behind a victim: GCImpl_DChoices::collect, and COLD's *)
(* own FtlImpl_COLD::gca_collect_COLD, which it uses to replace the cold     *)
(* frontier and which does not let a hot block displace a cold one.  The     *)
(* blocks do not change while the loop runs.  d = 0 is FIFO, see Collectors. *)
(* Module COLD puts the loop into the writes of an FTL.                      *)
(***************************************************************************)
EXTENDS Collectors

CONSTANTS
  BLOCK_SIZE,     (* pages in a block                                        *)
  D               (* d, DCHOICES_D                                           *)

VARIABLES
  pagesValid,     (* get_pages_valid of every block                          *)
  blockIsHot,     (* COLD: the kind of every block                           *)
  replacingCWF,   (* TRUE: gca_collect_COLD, FALSE: GCImpl_DChoices::collect *)
  i,              (* the loop's index                                        *)
  minValidPages,
  victim,         (* victimAddress, first any block the caller passed        *)
  COLDvictim,
  samples         (* the blocks drawn so far                                 *)

Given == <<pagesValid, blockIsHot, replacingCWF>>

(* The loop starts without a victim: any sample improves on                *)
(* BLOCK_SIZE + 1 valid pages.                                             *)
Start ==
  /\ i' = 0
  /\ minValidPages' = BLOCK_SIZE + 1
  /\ COLDvictim' = FALSE
  /\ samples' = {}

MutantHotDisplacesCold(b) == pagesValid[b] < minValidPages

MutantColdOnly(b) ==
  /\ pagesValid[b] < minValidPages
  /\ replacingCWF => ~blockIsHot[b]

Improves(b) ==
  /\ pagesValid[b] < minValidPages
  /\ replacingCWF => ~blockIsHot[b] \/ ~COLDvictim

Draw(b) ==
  /\ i < D
  /\ i' = i + 1
  /\ samples' = samples \cup {b}
  /\ UNCHANGED Given

(* A sample that improves on the victim so far becomes the victim.          *)
Take(b) ==
  /\ Improves(b)
  /\ Draw(b)
  /\ minValidPages' = pagesValid[b]
  /\ victim' = b
  /\ COLDvictim' = ~blockIsHot[b]

Pass(b) ==
  /\ ~Improves(b)
  /\ Draw(b)
  /\ UNCHANGED <<minValidPages, victim, COLDvictim>>

-----------------------------------------------------------------------------
(* The answer is a block that was drawn, whatever victimAddress was before, *)
(* even if no sample has a page that is not valid.                          *)
VictimWasDrawn == i = D => victim \in samples

(* No sample has fewer valid pages than the victim; when the cold frontier   *)
(* is replaced a cold victim is only measured against the cold samples.      *)
FewestValidPages ==
  i = D => \A s \in samples :
             \/ pagesValid[victim] <= pagesValid[s]
             \/ replacingCWF /\ ~blockIsHot[victim] /\ blockIsHot[s]

=============================================================================
