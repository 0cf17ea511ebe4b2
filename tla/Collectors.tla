----------------------------- MODULE Collectors -----------------------------
(***************************************************************************)
(* The garbage collectors' choice of a victim (GCAs/*.cpp) in a plane of    *)
(* PLANE_SIZE blocks: one package, die and plane, as every driver sets.     *)
(*                                                                         *)
(* An FTL calls collect() until it returns none of the blocks it must skip; *)
(* Victims is the set of blocks that loop can end with.  d-choices samples  *)
(* with replacement, so every sample may be the same block and every block  *)
(* can be its answer, as it can be that of the random collector: what       *)
(* sampling changes is probabilities.  Module DChoicesGC models the samples.*)
(***************************************************************************)
EXTENDS Integers

CONSTANTS
  PLANE_SIZE,     (* blocks in the plane                                     *)
  GC_ALGORITHM    (* "FIFO", or "random" for the random and d-choices ones   *)

ASSUME CollectorAssumption ==
  /\ PLANE_SIZE \in Nat \ {0}
  /\ GC_ALGORITHM \in {"FIFO", "random"}

Block == 0 .. PLANE_SIZE - 1

(* FIFO steps its cursor by one block, wrapping, until it may stop.         *)
FIFOVictim(cursor, skip) ==
  LET after(n)  == (cursor + n) % PLANE_SIZE
      stops     == {n \in 1 .. PLANE_SIZE : after(n) \notin skip}
  IN  after(CHOOSE n \in stops : \A m \in stops : n <= m)

Victims(cursor, skip) ==
  IF GC_ALGORITHM = "FIFO"
    THEN {FIFOVictim(cursor, skip)}
    ELSE Block \ skip

=============================================================================
