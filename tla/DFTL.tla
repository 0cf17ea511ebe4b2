-------------------------------- MODULE DFTL --------------------------------
(***************************************************************************)
(* DFTL (FTLs/dftl_ftl.cpp): the page map of DftlParent and nothing else.     *)
(* Its cleanup_block is never reached: Block_manager::insert_events calls it  *)
(* for a block that has invalid pages and BLOCK_SIZE valid ones.             *)
(***************************************************************************)
EXTENDS DftlParent

DftlRead(l) == l \in READ /\ EventArrives(l, "read")

DftlWrite(l) == l \in WRITTEN /\ EventArrives(l, "write")

DftlTrim(l) ==
  /\ pc = "idle"
  /\ l \in TRIMMED
  /\ l \in Mapped
  /\ TrimMapped(l)
  /\ UNCHANGED <<bm, reverse_trans_map, currentDataPage, pc, lpn, free_page>>

DftlStep ==
  \/ resolve_mapping("page")
  \/ pc = "page" /\ get_free_data_page("program")
  \/ MapAndIssue

DftlPageRead(l) ==
  LET ppn == trans_map[l].ppn
  IN  IF ppn = -1 THEN EMPTY ELSE flash[BlockOf(ppn)][PageIn(ppn)]

=============================================================================
