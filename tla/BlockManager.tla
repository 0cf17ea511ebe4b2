---------------------------- MODULE BlockManager ----------------------------
(***************************************************************************)
(* Block_manager (ssd_bm.cpp), which hands out the blocks of the plane to    *)
(* the FTLs and takes them back.  Blocks are first handed out in order, by   *)
(* the counter simpleCurrentFree (in blocks here, in pages in the code), and *)
(* then from free_list.  The counters data_active and log_active are kept    *)
(* apart from the lists.                                                    *)
(***************************************************************************)
EXTENDS Nand

CONSTANT
  FIRST_FREE      (* simpleCurrentFree, which the constructor leaves as it   *)
                  (* finds it in memory: the values it may have              *)

ASSUME BlockManagerAssumption == FIRST_FREE \subseteq 0 .. NUM_BLOCKS

NewManager(first) ==
  [simpleCurrentFree |-> first, free_list |-> <<>>, invalid_list |-> <<>>,
   data_active |-> 0, log_active |-> 0]

-----------------------------------------------------------------------------
IsSimple(bm) == bm.simpleCurrentFree < NUM_BLOCKS

(* get_page_block: assert(free_list.size() != 0).                           *)
HasFreeBlock(bm) == IsSimple(bm) \/ bm.free_list # <<>>

FreeBlock(bm) == IF IsSimple(bm) THEN bm.simpleCurrentFree ELSE Head(bm.free_list)

Counting(bm, type) ==
  IF type = "DATA" THEN [bm EXCEPT !.data_active = @ + 1]
                   ELSE [bm EXCEPT !.log_active = @ + 1]

Discounting(bm, type) ==
  IF type = "DATA" THEN [bm EXCEPT !.data_active = @ - 1]
                   ELSE [bm EXCEPT !.log_active = @ - 1]

get_free_block(bm, type) ==
  Counting(IF IsSimple(bm) THEN [bm EXCEPT !.simpleCurrentFree = @ + 1]
                           ELSE [bm EXCEPT !.free_list = Tail(@)], type)

MutantPromoteCountsOnly(bm, type) == Counting(bm, type)

promote_block(bm, type) ==
  Discounting(Counting(bm, type), IF type = "DATA" THEN "LOG" ELSE "DATA")

MutantEraseForgetsFreeList(bm, b, type) == Discounting(bm, type)

(* The erase of the block in flash is the caller's.                         *)
erase_and_invalidate(bm, b, type) ==
  Discounting([bm EXCEPT !.free_list = Append(@, b)], type)

invalidate(bm, b, type) ==
  Discounting([bm EXCEPT !.invalid_list = Append(@, b)], type)

-----------------------------------------------------------------------------
(* insert_events reclaims up to five blocks from the end of invalid_list     *)
(* when more than 90% of the blocks count as used (a float is compared with  *)
(* the double 0.90, so that exactly 90% is less).                           *)
UsedBlocks(bm) ==
  Len(bm.invalid_list) + bm.log_active + bm.data_active - Len(bm.free_list)

NearlyFull(bm) == 10 * UsedBlocks(bm) > 9 * NUM_BLOCKS

NumReclaimed(bm) ==
  IF ~NearlyFull(bm) THEN 0
  ELSE IF Len(bm.invalid_list) < 5 THEN Len(bm.invalid_list) ELSE 5

Reclaimed(bm) ==
  LET n == Len(bm.invalid_list)
  IN  [i \in 1 .. NumReclaimed(bm) |-> bm.invalid_list[n + 1 - i]]

insert_events(bm) ==
  [bm EXCEPT !.free_list = @ \o Reclaimed(bm),
             !.invalid_list = SubSeq(@, 1, Len(@) - NumReclaimed(bm))]

(* The same with the erases: m is the manager and the flash.                *)
Collected(m) ==
  [bm    |-> insert_events(m.bm),
   flash |-> [b \in Block |-> IF \E i \in 1 .. NumReclaimed(m.bm) : Reclaimed(m.bm)[i] = b
                               THEN Erased ELSE m.flash[b]]]

(* get_page_block calls insert_events before it takes the last free block.  *)
Prepared(m) ==
  IF ~IsSimple(m.bm) /\ Len(m.bm.free_list) <= 1 THEN Collected(m) ELSE m

(* A block for the caller: get_free_block, with the events it inserts.       *)
Obtainable(m) == HasFreeBlock(Prepared(m).bm)

NewBlock(m) == FreeBlock(Prepared(m).bm)

Obtain(m, type) == [Prepared(m) EXCEPT !.bm = get_free_block(@, type)]

(* As the code has it: while blocks are handed out in order, the blocks that *)
(* have been are counted, not those that are left.                          *)
get_num_free_blocks(bm) ==
  Len(bm.free_list) + (IF IsSimple(bm) THEN bm.simpleCurrentFree ELSE 0)

-----------------------------------------------------------------------------
(* The blocks the manager may hand out, at once or after an erase.          *)
Blocks(s) == {s[i] : i \in 1 .. Len(s)}

FreeBlocks(bm) == (bm.simpleCurrentFree .. NUM_BLOCKS - 1) \cup Blocks(bm.free_list)

NoBlockTwice(s) == Len(s) = Cardinality(Blocks(s))

(* What a Block_manager is, and that no block is still to be handed out both  *)
(* in order and from free_list, nor twice from free_list.                   *)
Manager ==
  [simpleCurrentFree : 0 .. NUM_BLOCKS, free_list : Seq(Block),
   invalid_list : Seq(Block), data_active : Int, log_active : Int]

HandsOutOnce(bm) ==
  /\ \A i, j \in 1 .. Len(bm.free_list) :
       bm.free_list[i] = bm.free_list[j] => i = j
  /\ \A i \in 1 .. Len(bm.free_list) : bm.free_list[i] < bm.simpleCurrentFree

=============================================================================
