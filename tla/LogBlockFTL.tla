---------------------------- MODULE LogBlockFTL ----------------------------
(***************************************************************************)
(* What the two log-block FTLs (FTLs/bast_ftl.cpp, FTLs/fast_ftl.cpp) share: *)
(* the plane, the block manager, a data block for every logical block, and   *)
(* one write in flight.                                                    *)
(***************************************************************************)
EXTENDS BlockManager

CONSTANTS
  NULL,        (* -1 or a null pointer: no block, no write                   *)
  TRIMMED      (* the logical pages the host trims                           *)

VARIABLES
  flash,       (* the plane                                                  *)
  bm,          (* the Block_manager                                          *)
  data_list,   (* data_list: the data block of every logical block           *)
  pc,          (* where the write in flight is                               *)
  lpn          (* its logical page                                           *)

DataBlocks == {data_list[a] : a \in LBA} \ {NULL}

=============================================================================
