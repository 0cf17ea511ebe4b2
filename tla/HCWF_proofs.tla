----------------------------- MODULE HCWF_proofs -----------------------------
(***************************************************************************)
(* Theorems about the two hot/cold write frontier FTLs, for every block      *)
(* size, plane size, number of logical pages, hot set, number of hot blocks  *)
(* and erase budget, worn-out victims included; for HCWF with either garbage *)
(* collector, for COLD for every number of draws and every set of placed and *)
(* of trimmed lpns.  The first part is about what they share: PlaneInv is an  *)
(* invariant of both, and every step of either is a Step.                    *)
(***************************************************************************)
EXTENDS COLD, FlashPlane_proofs

HotBlocks == {b \in Block : blockIsHot[b]}

-----------------------------------------------------------------------------
(* The invariant and the steps of both FTLs, of which COLD's map may have no *)
(* address for some lpns and a stale one for others.                        *)

PlaneTypeOK ==
  /\ flash \in [Block -> BlockState]
  /\ map \in [LPN -> Address \cup {NONE}]
  /\ blockIsHot \in [Block -> BOOLEAN]
  /\ numHotBlocks \in Nat
  /\ HWF \in Block /\ CWF \in Block
  /\ cursor \in Block
  /\ currentPE \in 0 .. UINT_MOD - 1
  /\ pc \in {"idle", "gc", "program"}
  /\ lpn \in IF pc = "idle" THEN {NONE} ELSE LPN

PlaneInv ==
  /\ PlaneTypeOK
  /\ Backed(flash, map, lpn)
  /\ FrontiersOfTheirKind
  /\ pc = "program" => map[lpn] \in Address
  /\ ProgramsEmptyPage

Starts(l) ==
  /\ pc = "idle" /\ pc' = "gc" /\ lpn' = l
  /\ flash' = IF map[l] \in Address
                THEN [flash EXCEPT ![map[l].block] = InvalidatePage(@, map[l].page)]
                ELSE flash
  /\ UNCHANGED <<map, blockIsHot, numHotBlocks, HWF, CWF, cursor, currentPE>>

Collects(v) == CollectOwn(v) \/ CollectConvert(v) \/ CollectFill(v)

Idles ==
  /\ UNCHANGED <<flash, blockIsHot, numHotBlocks, HWF, CWF, cursor, currentPE, pc, lpn>>
  /\ \/ UNCHANGED map
     \/ /\ pc = "idle"
        /\ \E l \in LPN : map[l] \notin Address /\ map' = [map EXCEPT ![l] = DefaultAddress]

Step ==
  \/ \E l \in LPN : Starts(l)
  \/ \E v \in Block : Collects(v)
  \/ WriteFinish
  \/ Program
  \/ Idles

LEMMA BlocksExist == 0 \in Block /\ 1 \in Block /\ 2 \in Block /\ MAX_HOT_BLOCKS \in Block
BY CollectorAssumption, HCWFAssumption DEF Block

LEMMA BlockSets ==
  ASSUME NEW S \in SUBSET Block
  PROVE  IsFiniteSet(S) /\ Cardinality(S) \in Nat
<1>1. IsFiniteSet(S) /\ Cardinality(S) \in 0 .. PLANE_SIZE
  BY CollectorAssumption, IntervalSubset DEF Block
<1> QED
  BY <1>1, CollectorAssumption

LEMMA FrontiersDiffer == PlaneInv => HWF # CWF
BY DEF PlaneInv, FrontiersOfTheirKind

-----------------------------------------------------------------------------
(* What each step does to the blocks and to the map.                        *)

LEMMA StartFacts ==
  ASSUME PlaneInv, NEW l \in LPN, Starts(l)
  PROVE  /\ map[l] \in Address => map[l].block \in Block /\ map[l].page \in PageNo
         /\ flash' \in [Block -> BlockState]
         /\ \A b \in Block, q \in PageNo :
              flash'[b].data[q] =
                IF map[l] \in Address /\ b = map[l].block /\ q = map[l].page
                  THEN INVALID ELSE flash[b].data[q]
         /\ \A b \in Block : flash'[b].erases_remaining = flash[b].erases_remaining
<1>1. flash \in [Block -> BlockState]
  BY DEF PlaneInv, PlaneTypeOK
<1>2. map[l] \in Address => map[l].block \in Block /\ map[l].page \in PageNo
  BY DEF Address
<1>3. CASE map[l] \in Address
  <2>1. flash' = [flash EXCEPT ![map[l].block] = InvalidatePage(@, map[l].page)]
    BY <1>3 DEF Starts
  <2>2. InvalidatePage(flash[map[l].block], map[l].page).erases_remaining
          = flash[map[l].block].erases_remaining
    BY <1>1, <1>2, <1>3 DEF InvalidatePage, BlockState
  <2>3. \A b \in Block : flash'[b].erases_remaining = flash[b].erases_remaining
    BY <1>1, <1>2, <1>3, <2>1, <2>2
  <2> QED
    BY <1>1, <1>2, <1>3, <2>1, <2>3, PageInvalidated
<1>4. CASE map[l] \notin Address
  BY <1>1, <1>4 DEF Starts
<1> QED
  BY <1>3, <1>4

(* Asking HWF for its next page moves its min_seek_empty only.              *)
LEMMA SoughtFacts ==
  ASSUME PlaneInv
  PROVE  /\ Sought \in [Block -> BlockState]
         /\ \A b \in Block : /\ Sought[b].data = flash[b].data
                             /\ Sought[b].erases_remaining = flash[b].erases_remaining
         /\ \A b \in Block : ValidPages(Sought[b]) = ValidPages(flash[b])
         /\ Backed(Sought, map, lpn)
<1>1. flash \in [Block -> BlockState] /\ HWF \in Block /\ Backed(flash, map, lpn)
  BY DEF PlaneInv, PlaneTypeOK
<1>2. /\ Sought \in [Block -> BlockState]
      /\ \A b \in Block : /\ Sought[b].data = flash[b].data
                          /\ Sought[b].erases_remaining = flash[b].erases_remaining
  <2>1. CASE HWFInitiated
    BY <1>1, <2>1 DEF Sought
  <2>2. CASE ~HWFInitiated
    <3>1. /\ SeekNextPage(flash[HWF]) \in BlockState
          /\ SeekNextPage(flash[HWF]).data = flash[HWF].data
          /\ SeekNextPage(flash[HWF]).erases_remaining = flash[HWF].erases_remaining
      BY <1>1, <2>2, SeekType DEF HWFInitiated
    <3> QED
      BY <1>1, <2>2, <3>1 DEF Sought
  <2> QED
    BY <2>1, <2>2
<1>3. \A b \in Block : ValidPages(Sought[b]) = ValidPages(flash[b])
  BY <1>2 DEF ValidPages
<1> QED
  BY <1>1, <1>2, <1>3 DEF Backed

(* A turn of the GC loop never takes a frontier for its victim, and leaves  *)
(* the plane collected, or as it was if the victim cannot be erased.         *)
LEMMA VictimFacts ==
  ASSUME PlaneInv, NEW v \in Block, NEW w \in {HWF, CWF}, CollectVictim(v, w)
  PROVE  /\ v # HWF /\ v # CWF /\ w \in Block /\ v # w
         /\ Sought[v] = flash[v]
         /\ \/ /\ CanErase(flash[v])
               /\ flash' = Collected(Sought, v, w)
               /\ map' = MapAfter(map, Sought[v], Sought[w], w)
            \/ flash' = Sought /\ map' = map
         /\ pc = "gc" /\ pc' = "gc" /\ lpn' = lpn /\ lpn \in LPN
<1>1. v # HWF /\ v # CWF
  <2>1. \E b \in Block : b \notin {HWF, CWF}
    BY BlocksExist
  <2> QED
    BY <2>1, VictimIsAllowed DEF CollectVictim, PlaneInv, PlaneTypeOK
<1>2. w \in Block /\ v # w
  BY <1>1 DEF PlaneInv, PlaneTypeOK
<1>3. Sought[v] = flash[v]
  BY <1>1 DEF Sought, PlaneInv, PlaneTypeOK
<1>4. pc = "gc" /\ pc' = "gc" /\ lpn' = lpn /\ lpn \in LPN
  BY DEF CollectVictim, PlaneInv, PlaneTypeOK
<1>5. \/ /\ CanErase(flash[v])
         /\ flash' = Collected(Sought, v, w)
         /\ map' = MapAfter(map, Sought[v], Sought[w], w)
      \/ flash' = Sought /\ map' = map
  BY DEF CollectVictim, EraseAndCopyInto, Collected
<1> QED
  BY <1>1, <1>2, <1>3, <1>4, <1>5

LEMMA CollectVictimInvariant ==
  ASSUME PlaneInv, NEW v \in Block, NEW w \in {HWF, CWF}, CollectVictim(v, w)
  PROVE  /\ flash' \in [Block -> BlockState] /\ map' \in [LPN -> Address \cup {NONE}]
         /\ cursor' \in Block /\ currentPE' \in 0 .. UINT_MOD - 1
         /\ Backed(flash', map', lpn)
         /\ \A l \in LPN : map[l] \in Address => map'[l] \in Address
         /\ \A l \in LPN : map[l] \in Address /\ Holds(flash, map, l) => Holds(flash', map', l)
<1>1. /\ w \in Block /\ v # w /\ Sought[v] = flash[v]
      /\ \/ /\ CanErase(flash[v])
            /\ flash' = Collected(Sought, v, w)
            /\ map' = MapAfter(map, Sought[v], Sought[w], w)
         \/ flash' = Sought /\ map' = map
  BY VictimFacts
<1>2. /\ Sought \in [Block -> BlockState] /\ map \in [LPN -> Address \cup {NONE}]
      /\ Backed(Sought, map, lpn)
  BY SoughtFacts DEF PlaneInv, PlaneTypeOK
<1>3. \A l \in LPN : map[l] \in Address /\ Holds(flash, map, l) => Holds(Sought, map, l)
  BY SoughtFacts DEF Holds, Address
<1>4. cursor' \in Block
  BY DEF CollectVictim, PlaneInv, PlaneTypeOK
<1>5. currentPE' \in 0 .. UINT_MOD - 1
  <2>1. \A n \in Int : n % UINT_MOD \in 0 .. UINT_MOD - 1
    BY PlaneAssumption, BlockAssumption
  <2>2. currentPE - 1 \in Int
    BY PlaneAssumption DEF PlaneInv, PlaneTypeOK
  <2> QED
    BY <2>1, <2>2 DEF CollectVictim, PEAfter, PlaneInv, PlaneTypeOK
<1>6. CASE /\ CanErase(flash[v])
           /\ flash' = Collected(Sought, v, w)
           /\ map' = MapAfter(map, Sought[v], Sought[w], w)
  <2>1. /\ VictimAfter(Sought[v], Sought[w]) \in BlockState
        /\ CopyBlockAfter(Sought[v], Sought[w]) \in BlockState
    BY <1>1, <1>2, <1>6, VictimType, CopyBlockType
  <2>2. flash' \in [Block -> BlockState]
    BY <1>1, <1>2, <1>6, <2>1 DEF Collected
  <2>3. /\ map' \in [LPN -> Address \cup {NONE}]
        /\ \A l \in LPN : map[l] \in Address => map'[l] \in Address
    <3>1. Address \subseteq Address \cup {NONE}
      OBVIOUS
    <3> QED
      BY <1>1, <1>2, <1>6, <3>1, MapAfterType
  <2>4. Backed(flash', map', lpn)
    BY <1>1, <1>2, <1>6, CollectBacked
  <2>5. ASSUME NEW l \in LPN, map[l] \in Address, Holds(flash, map, l)
        PROVE  Holds(flash', map', l)
    BY <1>1, <1>2, <1>3, <1>6, <2>5, CollectKeepsPage
  <2> QED
    BY <1>4, <1>5, <2>2, <2>3, <2>4, <2>5
<1>7. CASE flash' = Sought /\ map' = map
  BY <1>2, <1>3, <1>4, <1>5, <1>7
<1> QED
  BY <1>1, <1>6, <1>7

(* The kinds of the blocks are counted right, and each frontier is replaced *)
(* by a block of its kind.                                                  *)
LEMMA CollectKinds ==
  ASSUME PlaneInv, NEW v \in Block, v # HWF, v # CWF, Collects(v)
  PROVE  /\ blockIsHot' \in [Block -> BOOLEAN] /\ numHotBlocks' \in Nat
         /\ HWF' \in Block /\ CWF' \in Block
         /\ FrontiersOfTheirKind'
<1>1. /\ blockIsHot \in [Block -> BOOLEAN] /\ HWF \in Block /\ CWF \in Block
      /\ blockIsHot[HWF] /\ ~blockIsHot[CWF]
      /\ numHotBlocks = Cardinality(HotBlocks)
  BY DEF PlaneInv, PlaneTypeOK, FrontiersOfTheirKind, HotBlocks
<1>2. IsFiniteSet(HotBlocks) /\ numHotBlocks \in Nat
  BY <1>1, BlockSets DEF HotBlocks
<1>3. HWFInitiated \in BOOLEAN /\ blockIsHot[v] \in BOOLEAN
  BY <1>1 DEF HWFInitiated, HasNextPage
<1>4. ASSUME CollectOwn(v) \/ CollectFill(v)
      PROVE  /\ blockIsHot' = blockIsHot /\ numHotBlocks' = numHotBlocks
             /\ HWF' \in Block /\ CWF' \in Block
             /\ blockIsHot[HWF'] /\ ~blockIsHot[CWF']
  BY <1>1, <1>3, <1>4 DEF CollectOwn, CollectFill, ReplaceFull, ReplaceOther, OfFullKind
<1>5. ASSUME CollectConvert(v)
      PROVE  /\ blockIsHot' = [blockIsHot EXCEPT ![v] = HWFInitiated]
             /\ blockIsHot[v] # HWFInitiated
             /\ numHotBlocks' = IF HWFInitiated THEN numHotBlocks + 1
                                                ELSE numHotBlocks - 1
             /\ HWF' \in Block /\ CWF' \in Block
             /\ blockIsHot'[HWF'] /\ ~blockIsHot'[CWF']
  <2>1. /\ blockIsHot' = [blockIsHot EXCEPT ![v] = HWFInitiated]
        /\ ~OfFullKind(v) /\ ReplaceFull(v)
        /\ numHotBlocks' = IF HWFInitiated THEN numHotBlocks + 1
                                           ELSE numHotBlocks - 1
    BY <1>5 DEF CollectConvert
  <2>2. blockIsHot[v] # HWFInitiated
    BY <1>3, <2>1 DEF OfFullKind
  <2>3. CASE HWFInitiated
    BY <1>1, <2>1, <2>2, <2>3 DEF ReplaceFull
  <2>4. CASE ~HWFInitiated
    BY <1>1, <2>1, <2>2, <2>4 DEF ReplaceFull
  <2> QED
    BY <2>3, <2>4
<1>6. ASSUME CollectConvert(v)
      PROVE  numHotBlocks' = Cardinality(HotBlocks') /\ numHotBlocks' \in Nat
  <2>1. CASE HWFInitiated
    <3>1. v \notin HotBlocks /\ HotBlocks' = HotBlocks \cup {v}
      BY <1>1, <1>3, <1>5, <1>6, <2>1 DEF HotBlocks
    <3>2. Cardinality(HotBlocks \cup {v}) = Cardinality(HotBlocks) + 1
      BY <1>2, <3>1, FS_AddElement
    <3> QED
      BY <1>1, <1>2, <1>5, <1>6, <2>1, <3>1, <3>2
  <2>2. CASE ~HWFInitiated
    <3>1. v \in HotBlocks /\ HotBlocks' = HotBlocks \ {v}
      BY <1>1, <1>3, <1>5, <1>6, <2>2 DEF HotBlocks
    <3>2. /\ Cardinality(HotBlocks \ {v}) = Cardinality(HotBlocks) - 1
          /\ IsFiniteSet(HotBlocks \ {v})
      BY <1>2, <3>1, FS_RemoveElement
    <3>3. Cardinality(HotBlocks \ {v}) \in Nat
      BY <3>2, FS_CardinalityType
    <3> QED
      BY <1>1, <1>5, <1>6, <2>2, <3>1, <3>2, <3>3
  <2> QED
    BY <2>1, <2>2
<1>7. ASSUME CollectConvert(v)
      PROVE  blockIsHot' \in [Block -> BOOLEAN]
  BY <1>1, <1>3, <1>5, <1>7
<1>8. CASE CollectOwn(v) \/ CollectFill(v)
  BY <1>1, <1>2, <1>4, <1>8 DEF FrontiersOfTheirKind, HotBlocks
<1>9. CASE CollectConvert(v)
  BY <1>5, <1>6, <1>7, <1>9 DEF FrontiersOfTheirKind, HotBlocks
<1> QED
  BY <1>8, <1>9 DEF Collects

LEMMA CollectsVictim ==
  ASSUME NEW v, Collects(v)
  PROVE  \E w \in {HWF, CWF} : CollectVictim(v, w)
BY DEF Collects, CollectOwn, CollectConvert, CollectFill, FullFrontier, OtherFrontier

LEMMA FinishFacts ==
  ASSUME PlaneInv, WriteFinish
  PROVE  LET w == IF lpn \in HOT THEN HWF ELSE CWF
         IN  /\ lpn \in LPN /\ w \in Block /\ HWF # CWF
             /\ pc' = "program" /\ lpn' = lpn
             /\ flash' \in [Block -> BlockState]
             /\ \A b \in Block : /\ flash'[b].data = flash[b].data
                                 /\ flash'[b].erases_remaining = flash[b].erases_remaining
             /\ NextPage(flash[w]) \in PageNo
             /\ flash[w].data[NextPage(flash[w])] = EMPTY
             /\ map' = [map EXCEPT ![lpn] = [block |-> w, page |-> NextPage(flash[w])]]
<1> DEFINE w == IF lpn \in HOT THEN HWF ELSE CWF
<1>1. /\ flash \in [Block -> BlockState]
      /\ HWF \in Block /\ CWF \in Block /\ HWF # CWF /\ w \in Block /\ lpn \in LPN
  BY FrontiersDiffer DEF PlaneInv, PlaneTypeOK, WriteFinish
<1>2. HasNextPage(flash[HWF]) /\ HasNextPage(flash[CWF])
  BY DEF WriteFinish, HWFInitiated, CWFFull
<1>3. NextPage(flash[w]) \in PageNo /\ flash[w].data[NextPage(flash[w])] = EMPTY
  BY <1>2, NextPageIsFree
<1>4. \A b \in {HWF, CWF} : /\ SeekNextPage(flash[b]) \in BlockState
                            /\ SeekNextPage(flash[b]).data = flash[b].data
                            /\ SeekNextPage(flash[b]).erases_remaining = flash[b].erases_remaining
  BY <1>1, <1>2, SeekType
<1>5. /\ flash' = [flash EXCEPT ![HWF] = SeekNextPage(@), ![CWF] = SeekNextPage(@)]
      /\ map' = [map EXCEPT ![lpn] = [block |-> w, page |-> NextPage(flash[w])]]
      /\ pc' = "program" /\ lpn' = lpn
  BY DEF WriteFinish
<1> HIDE DEF w
<1>6. /\ flash' \in [Block -> BlockState]
      /\ \A b \in Block : /\ flash'[b].data = flash[b].data
                          /\ flash'[b].erases_remaining = flash[b].erases_remaining
  BY <1>1, <1>4, <1>5
<1> QED
  BY <1>1, <1>3, <1>5, <1>6 DEF w

LEMMA ProgramFacts ==
  ASSUME PlaneInv, Program
  PROVE  /\ lpn \in LPN /\ lpn' = NONE /\ pc' = "idle" /\ map' = map
         /\ map[lpn] \in Address /\ map[lpn].block \in Block /\ map[lpn].page \in PageNo
         /\ flash[map[lpn].block].data[map[lpn].page] = EMPTY
         /\ flash' \in [Block -> BlockState]
         /\ \A b \in Block, q \in PageNo :
              flash'[b].data[q] = IF b = map[lpn].block /\ q = map[lpn].page
                                    THEN lpn ELSE flash[b].data[q]
         /\ \A b \in Block : flash'[b].erases_remaining = flash[b].erases_remaining
<1>1. /\ flash \in [Block -> BlockState] /\ lpn \in LPN /\ lpn' = NONE /\ pc' = "idle"
      /\ map[lpn] \in Address /\ map' = map
      /\ flash[map[lpn].block].data[map[lpn].page] = EMPTY
      /\ flash' = [flash EXCEPT ![map[lpn].block] = WritePage(@, map[lpn].page, lpn)]
  BY DEF PlaneInv, PlaneTypeOK, ProgramsEmptyPage, Program
<1>2. map[lpn].block \in Block /\ map[lpn].page \in PageNo
  BY <1>1 DEF Address
<1>3. WritePage(flash[map[lpn].block], map[lpn].page, lpn).erases_remaining
        = flash[map[lpn].block].erases_remaining
  BY <1>1, <1>2 DEF WritePage, BlockState
<1> QED
  BY <1>1, <1>2, <1>3, PageProgrammed

-----------------------------------------------------------------------------
(* Each step preserves the invariant, and no lpn loses its map entry.        *)

LEMMA StartInvariant ==
  ASSUME PlaneInv, NEW l \in LPN, Starts(l)
  PROVE  PlaneInv'
<1>1. /\ flash' \in [Block -> BlockState]
      /\ \A b \in Block, q \in PageNo :
           flash'[b].data[q] =
             IF map[l] \in Address /\ b = map[l].block /\ q = map[l].page
               THEN INVALID ELSE flash[b].data[q]
  BY StartFacts
<1>2. Backed(flash, map, lpn) /\ PlaneTypeOK
  BY DEF PlaneInv
<1>3. Backed(flash', map, l)
  <2>1. CASE map[l] \in Address
    BY <1>1, <1>2, <2>1, InvalidationBacked
  <2>2. CASE map[l] \notin Address
    <3>1. flash' = flash
      BY <2>2 DEF Starts
    <3>2. ASSUME NEW b \in Block, NEW q \in ValidPages(flash[b])
          PROVE  flash[b].data[q] # l
      <4>1. map[flash[b].data[q]] = [block |-> b, page |-> q] /\ q \in PageNo
        BY <1>2 DEF Backed, ValidPages
      <4> QED
        BY <2>2, <4>1 DEF Address
    <3> QED
      BY <1>2, <3>1, <3>2 DEF Backed
  <2> QED
    BY <2>1, <2>2
<1>4. PlaneTypeOK'
  BY <1>1, <1>2 DEF PlaneTypeOK, Starts
<1> QED
  BY <1>3, <1>4 DEF PlaneInv, FrontiersOfTheirKind, ProgramsEmptyPage, Starts

LEMMA CollectInvariant ==
  ASSUME PlaneInv, NEW v \in Block, Collects(v)
  PROVE  PlaneInv'
<1>1. PICK w \in {HWF, CWF} : CollectVictim(v, w)
  BY CollectsVictim
<1>2. /\ v # HWF /\ v # CWF /\ pc' = "gc" /\ lpn' = lpn /\ lpn \in LPN
  BY <1>1, VictimFacts
<1>3. /\ flash' \in [Block -> BlockState] /\ map' \in [LPN -> Address \cup {NONE}]
      /\ cursor' \in Block /\ currentPE' \in 0 .. UINT_MOD - 1
      /\ Backed(flash', map', lpn)
  BY <1>1, CollectVictimInvariant
<1>4. /\ blockIsHot' \in [Block -> BOOLEAN] /\ numHotBlocks' \in Nat
      /\ HWF' \in Block /\ CWF' \in Block
      /\ FrontiersOfTheirKind'
  BY <1>2, CollectKinds
<1>5. PlaneTypeOK'
  BY <1>2, <1>3, <1>4 DEF PlaneTypeOK
<1> QED
  BY <1>2, <1>3, <1>4, <1>5 DEF PlaneInv, ProgramsEmptyPage

LEMMA FinishInvariant ==
  ASSUME PlaneInv, WriteFinish
  PROVE  PlaneInv'
<1> DEFINE w == IF lpn \in HOT THEN HWF ELSE CWF
           q == NextPage(flash[w])
<1>1. /\ lpn \in LPN /\ w \in Block /\ HWF # CWF
      /\ pc' = "program" /\ lpn' = lpn
      /\ flash' \in [Block -> BlockState]
      /\ \A b \in Block : flash'[b].data = flash[b].data
      /\ q \in PageNo
      /\ flash[w].data[q] = EMPTY
      /\ map' = [map EXCEPT ![lpn] = [block |-> w, page |-> q]]
  BY FinishFacts
<1>2. PlaneTypeOK /\ Backed(flash, map, lpn) /\ map \in [LPN -> Address \cup {NONE}]
  BY DEF PlaneInv, PlaneTypeOK
<1> HIDE DEF q, w
<1>3. /\ map' \in [LPN -> Address \cup {NONE}]
      /\ map'[lpn] = [block |-> w, page |-> q] /\ map'[lpn] \in Address
  BY <1>1, <1>2 DEF Address
<1>4. PlaneTypeOK'
  BY <1>1, <1>2, <1>3 DEF PlaneTypeOK, WriteFinish
<1>5. Backed(flash', map', lpn)
  BY <1>1, <1>2, PointBacked
<1>6. ProgramsEmptyPage'
  BY <1>1, <1>3 DEF ProgramsEmptyPage
<1> QED
  BY <1>1, <1>3, <1>4, <1>5, <1>6 DEF PlaneInv, FrontiersOfTheirKind, WriteFinish

LEMMA ProgramInvariant ==
  ASSUME PlaneInv, Program
  PROVE  PlaneInv'
<1>1. PlaneTypeOK /\ Backed(flash, map, lpn)
  BY DEF PlaneInv
<1>2. PlaneTypeOK'
  BY <1>1, ProgramFacts DEF PlaneTypeOK, Program
<1>3. Backed(flash', map, NONE)
  BY <1>1, ProgramFacts, ProgrammedBacked
<1> QED
  BY <1>2, <1>3 DEF PlaneInv, FrontiersOfTheirKind, ProgramsEmptyPage, Program

LEMMA IdleInvariant ==
  ASSUME PlaneInv, Idles
  PROVE  PlaneInv'
<1>1. CASE UNCHANGED map
  BY <1>1 DEF Idles, PlaneInv, PlaneTypeOK, FrontiersOfTheirKind, ProgramsEmptyPage
<1>2. ASSUME NEW l \in LPN, pc = "idle", map[l] \notin Address,
             map' = [map EXCEPT ![l] = DefaultAddress]
      PROVE  PlaneInv'
  <2>1. UNCHANGED <<flash, blockIsHot, numHotBlocks, HWF, CWF, cursor, currentPE, pc, lpn>>
    BY DEF Idles
  <2>2. PlaneTypeOK /\ Backed(flash, map, lpn)
    BY DEF PlaneInv
  <2>3. DefaultAddress \in Address
    BY BlocksExist, BlockAssumption DEF DefaultAddress, Address, PageNo
  <2>4. map' \in [LPN -> Address \cup {NONE}] /\ \A k \in LPN \ {l} : map'[k] = map[k]
    BY <1>2, <2>2, <2>3 DEF PlaneTypeOK
  <2>5. PlaneTypeOK'
    BY <2>1, <2>2, <2>4 DEF PlaneTypeOK
  <2>6. ASSUME NEW b \in Block, NEW q \in ValidPages(flash[b])
        PROVE  flash[b].data[q] \in LPN \ {l} /\ flash[b].data[q] # lpn
               /\ map[flash[b].data[q]] = [block |-> b, page |-> q]
    BY <1>2, <2>2 DEF Backed, ValidPages, Address
  <2>7. Backed(flash, map', lpn)
    BY <2>4, <2>6 DEF Backed
  <2> QED
    BY <1>2, <2>1, <2>5, <2>7 DEF PlaneInv, FrontiersOfTheirKind, ProgramsEmptyPage
<1> QED
  BY <1>1, <1>2 DEF Idles

LEMMA StepInvariant == PlaneInv /\ Step => PlaneInv'
BY StartInvariant, CollectInvariant, FinishInvariant, ProgramInvariant, IdleInvariant DEF Step

LEMMA StepKeepsEntry ==
  ASSUME PlaneInv, Step, NEW l \in LPN, map[l] \in Address
  PROVE  map'[l] \in Address
<1>1. map \in [LPN -> Address \cup {NONE}]
  BY DEF PlaneInv, PlaneTypeOK
<1>2. ASSUME NEW k \in LPN, Starts(k)
      PROVE  map'[l] \in Address
  BY <1>2 DEF Starts
<1>3. ASSUME NEW v \in Block, Collects(v)
      PROVE  map'[l] \in Address
  BY <1>3, CollectsVictim, CollectVictimInvariant
<1>4. ASSUME WriteFinish
      PROVE  map'[l] \in Address
  BY <1>1, <1>4, FinishFacts DEF Address
<1>5. ASSUME Program \/ Idles
      PROVE  map'[l] \in Address
  BY <1>1, <1>5 DEF Program, Idles
<1> QED
  BY <1>2, <1>3, <1>4, <1>5 DEF Step

(* Which pages a step may lose: that of the lpn whose write begins, or, if   *)
(* that lpn has an entry but no page of its own, the page the entry names.   *)
Stored(l) == map[l] \in Address /\ Holds(flash, map, l)

LEMMA StepLoses ==
  ASSUME PlaneInv, Step, NEW l \in LPN, Stored(l)
  PROVE  \/ Stored(l)'
         \/ \E k \in LPN : Starts(k) /\ map[k] \in Address /\ (l = k \/ ~Stored(k))
<1>1. /\ map \in [LPN -> Address \cup {NONE}] /\ map[l] \in Address
      /\ map[l].block \in Block /\ map[l].page \in PageNo
      /\ flash[map[l].block].data[map[l].page] = l
  BY DEF PlaneInv, PlaneTypeOK, Stored, Address, Holds
<1>2. Backed(flash, map, lpn)
  BY DEF PlaneInv
<1>3. l # lpn
  <2>1. map[l].page \in ValidPages(flash[map[l].block])
    BY <1>1 DEF ValidPages
  <2> QED
    BY <1>1, <1>2, <2>1 DEF Backed
<1>4. ASSUME NEW k \in LPN, Starts(k), map[k] \notin Address
      PROVE  Stored(l)'
  BY <1>4 DEF Starts, Stored, Holds
<1>5. ASSUME NEW k \in LPN, Starts(k), map[k] \in Address, l # k, Stored(k)
      PROVE  Stored(l)'
  <2>1. /\ map[k].block \in Block /\ map[k].page \in PageNo
        /\ flash[map[k].block].data[map[k].page] = k
    BY <1>5 DEF Stored, Address, Holds
  <2>2. flash'[map[l].block].data[map[l].page] = l
    BY <1>1, <1>5, <2>1, StartFacts
  <2> QED
    BY <1>1, <1>5, <2>2 DEF Starts, Stored, Holds
<1>6. ASSUME NEW v \in Block, Collects(v)
      PROVE  Stored(l)'
  BY <1>6, CollectsVictim, CollectVictimInvariant DEF Stored
<1>7. ASSUME WriteFinish
      PROVE  Stored(l)'
  <2>1. map'[l] = map[l]
    BY <1>1, <1>3, <1>7, FinishFacts
  <2>2. flash'[map[l].block].data[map[l].page] = l
    BY <1>1, <1>7, FinishFacts
  <2> QED
    BY <1>1, <2>1, <2>2 DEF Stored, Holds
<1>8. ASSUME Program
      PROVE  Stored(l)'
  <2>1. /\ map' = map
        /\ flash[map[lpn].block].data[map[lpn].page] = EMPTY
        /\ \A b \in Block, q \in PageNo :
             flash'[b].data[q] = IF b = map[lpn].block /\ q = map[lpn].page
                                   THEN lpn ELSE flash[b].data[q]
    BY <1>8, ProgramFacts
  <2>2. flash'[map[l].block].data[map[l].page] = l
    BY <1>1, <2>1, BlockAssumption
  <2> QED
    BY <1>1, <2>1, <2>2 DEF Stored, Holds
<1>9. ASSUME Idles
      PROVE  Stored(l)'
  <2>1. flash' = flash /\ map'[l] = map[l]
    BY <1>1, <1>9 DEF Idles
  <2> QED
    BY <1>1, <2>1 DEF Stored, Holds
<1> QED
  BY <1>4, <1>5, <1>6, <1>7, <1>8, <1>9 DEF Step

-----------------------------------------------------------------------------
(* The counters, the wear and the kinds of the blocks.                      *)

Counters == \A b \in Block : Counted(flash[b])

NoneWornOut == \A b \in Block : CanErase(flash[b])

(* As long as no block is worn out, VALID pages lie in blocks of their kind, *)
(* and so does the page promised to the write in flight.                    *)
KindsKept ==
  NoneWornOut =>
    /\ \A b \in Block : \A p \in ValidPages(flash[b]) :
         blockIsHot[b] <=> flash[b].data[p] \in HOT
    /\ pc = "program" => (blockIsHot[map[lpn].block] <=> lpn \in HOT)

LEMMA CountersStep == PlaneInv /\ Counters /\ Step => Counters'
<1> SUFFICES ASSUME PlaneInv, Counters, Step
             PROVE  \A b \in Block : Counted(flash'[b])
  BY DEF Counters
<1>1. /\ flash \in [Block -> BlockState]
      /\ HWF \in Block /\ CWF \in Block /\ HWF # CWF
      /\ \A b \in Block : Counted(flash[b])
  BY FrontiersDiffer DEF PlaneInv, PlaneTypeOK, Counters
<1>2. ASSUME NEW l \in LPN, Starts(l)
      PROVE  \A b \in Block : Counted(flash'[b])
  <2>1. CASE map[l] \in Address
    <3>1. map[l].block \in Block /\ map[l].page \in PageNo
      BY <2>1 DEF Address
    <3>2. Counted(InvalidatePage(flash[map[l].block], map[l].page))
      BY <1>1, <3>1, CountedInvalidate
    <3> QED
      BY <1>1, <1>2, <2>1, <3>1, <3>2, PlaneCounted DEF Starts
  <2>2. CASE map[l] \notin Address
    BY <1>1, <1>2, <2>2 DEF Starts
  <2> QED
    BY <2>1, <2>2
<1>3. ASSUME NEW v \in Block, Collects(v)
      PROVE  \A b \in Block : Counted(flash'[b])
  <2>1. PICK w \in {HWF, CWF} : CollectVictim(v, w)
    BY <1>3, CollectsVictim
  <2>2. /\ w \in Block /\ v # w /\ Sought[v] = flash[v]
        /\ \/ CanErase(flash[v]) /\ flash' = Collected(Sought, v, w)
           \/ flash' = Sought
    BY <2>1, VictimFacts
  <2>3. Sought \in [Block -> BlockState] /\ \A b \in Block : Counted(Sought[b])
    <3>1. Sought \in [Block -> BlockState]
      BY SoughtFacts
    <3> QED
      BY <1>1, <3>1, CountedSeek DEF Sought, HWFInitiated
  <2> QED
    BY <2>2, <2>3, CollectCounted DEF Collected
<1>4. ASSUME WriteFinish
      PROVE  \A b \in Block : Counted(flash'[b])
  <2>1. Counted(SeekNextPage(flash[HWF])) /\ Counted(SeekNextPage(flash[CWF]))
    BY <1>1, <1>4, CountedSeek DEF WriteFinish, HWFInitiated, CWFFull
  <2> QED
    BY <1>1, <1>4, <2>1 DEF WriteFinish
<1>5. ASSUME Program
      PROVE  \A b \in Block : Counted(flash'[b])
  <2>1. /\ lpn \in LPN /\ map[lpn].block \in Block /\ map[lpn].page \in PageNo
        /\ flash[map[lpn].block].data[map[lpn].page] = EMPTY
    BY <1>5, ProgramFacts
  <2>2. Counted(WritePage(flash[map[lpn].block], map[lpn].page, lpn))
    BY <1>1, <2>1, CountedWrite
  <2> QED
    BY <1>1, <1>5, <2>1, <2>2, PlaneCounted DEF Program
<1>6. ASSUME Idles
      PROVE  \A b \in Block : Counted(flash'[b])
  BY <1>1, <1>6 DEF Idles
<1> QED
  BY <1>2, <1>3, <1>4, <1>5, <1>6 DEF Step

(* No step gives a block an erase back.                                     *)
LEMMA WearStep ==
  ASSUME PlaneInv, Step
  PROVE  /\ NoneWornOut' => NoneWornOut
         /\ COUNT_WEAR = FALSE /\ NoneWornOut => NoneWornOut'
<1>1. flash \in [Block -> BlockState]
  BY DEF PlaneInv, PlaneTypeOK
<1> DEFINE Left(b) == flash[b].erases_remaining
           Same(b) == flash'[b].erases_remaining = Left(b)
           Worn(b) == CanErase(flash[b]) /\ flash'[b].erases_remaining = WearOne(flash[b])
<1>2. ASSUME NEW v \in Block, Collects(v), NEW b \in Block
      PROVE  Same(b) \/ Worn(b)
  <2>1. PICK w \in {HWF, CWF} : CollectVictim(v, w)
    BY <1>2, CollectsVictim
  <2>2. /\ w \in Block /\ v # w /\ Sought[v] = flash[v]
        /\ \/ CanErase(flash[v]) /\ flash' = Collected(Sought, v, w)
           \/ flash' = Sought
    BY <2>1, VictimFacts
  <2>3. /\ Sought \in [Block -> BlockState]
        /\ \A c \in Block : Sought[c].erases_remaining = flash[c].erases_remaining
    BY SoughtFacts
  <2>4. CASE CanErase(flash[v]) /\ flash' = Collected(Sought, v, w)
    <3>1. flash' = [Sought EXCEPT ![v] = VictimAfter(Sought[v], Sought[w]),
                                  ![w] = CopyBlockAfter(Sought[v], Sought[w])]
      BY <2>4 DEF Collected
    <3>2. VictimAfter(Sought[v], Sought[w]).erases_remaining = WearOne(flash[v])
      BY <2>2 DEF VictimAfter
    <3>3. CopyBlockAfter(Sought[v], Sought[w]).erases_remaining = Sought[w].erases_remaining
      BY <2>2, <2>3 DEF CopyBlockAfter, BlockState
    <3>4. CASE b = v
      BY <2>2, <2>3, <2>4, <3>1, <3>2, <3>4
    <3>5. CASE b = w
      BY <2>2, <2>3, <3>1, <3>3, <3>5
    <3>6. CASE b # v /\ b # w
      BY <2>2, <2>3, <3>1, <3>6
    <3> QED
      BY <3>4, <3>5, <3>6
  <2>5. CASE flash' = Sought
    BY <2>3, <2>5
  <2> QED
    BY <2>2, <2>4, <2>5
<1>3. \A b \in Block : Same(b) \/ Worn(b)
  BY <1>2, StartFacts, FinishFacts, ProgramFacts DEF Step, Idles
<1>4. \A b \in Block : Left(b) \in Nat
  BY <1>1 DEF BlockState
<1> QED
  BY <1>3, <1>4 DEF NoneWornOut, CanErase, WearOne

(* A victim that fits leaves no page behind.                                *)
LEMMA FitsCopiesAll ==
  ASSUME PlaneInv, Counters, NEW v \in Block \ {HWF, CWF}, VictimFits(v)
  PROVE  \A p \in ValidPages(Sought[v]) : IsCopied(Sought[v], Sought[OtherFrontier], p)
<1> DEFINE w == OtherFrontier
<1>1. /\ flash \in [Block -> BlockState] /\ HWF \in Block /\ CWF \in Block /\ HWF # CWF
      /\ w \in Block
  BY FrontiersDiffer DEF PlaneInv, PlaneTypeOK, OtherFrontier
<1>2. Sought \in [Block -> BlockState] /\ Sought[v] = flash[v]
  BY <1>1, SoughtFacts DEF Sought
<1>3. /\ Counted(Sought[w]) /\ get_pages_empty(Sought[w]) = get_pages_empty(flash[w])
  <2>1. CASE HWFInitiated
    BY <1>1, <2>1 DEF Sought, Counters
  <2>2. CASE ~HWFInitiated
    <3>1. w = HWF /\ Sought[w] = SeekNextPage(flash[HWF])
      BY <1>1, <2>2 DEF Sought, OtherFrontier
    <3>2. Counted(SeekNextPage(flash[HWF]))
      BY <1>1, <2>2, CountedSeek DEF Counters, HWFInitiated
    <3>3. get_pages_empty(SeekNextPage(flash[HWF])) = get_pages_empty(flash[HWF])
      BY <1>1 DEF get_pages_empty, SeekNextPage, BlockState
    <3> QED
      BY <3>1, <3>2, <3>3
  <2> QED
    BY <2>1, <2>2
<1>4. get_pages_empty(flash[w]) = Cardinality(FreePages(Sought[w]))
  BY <1>1, <1>2, <1>3, CountedMeans
<1>5. flash[v].pages_valid = Cardinality(ValidPages(Sought[v]))
  BY <1>2 DEF Counters, Counted
<1>6. Cardinality(ValidPages(Sought[v])) <= Cardinality(FreePages(Sought[w]))
  BY <1>4, <1>5 DEF VictimFits
<1> QED
  BY <1>1, <1>2, <1>6, CopiedCount

(* A collection moves pages between blocks of one kind only, and a block     *)
(* that changes its kind has no VALID page left.                            *)
LEMMA CollectHotness ==
  ASSUME PlaneInv, Counters, NEW v \in Block, Collects(v), CanErase(flash[v]),
         \A b \in Block : \A p \in ValidPages(flash[b]) :
           blockIsHot[b] <=> flash[b].data[p] \in HOT
  PROVE  \A b \in Block : \A p \in ValidPages(flash'[b]) :
           blockIsHot'[b] <=> flash'[b].data[p] \in HOT
<1>1. PICK w \in {HWF, CWF} :
        /\ CollectVictim(v, w)
        /\ blockIsHot[w] <=> blockIsHot[v]
        /\ CollectConvert(v) => w = OtherFrontier
  <2>1. blockIsHot[HWF] /\ ~blockIsHot[CWF]
    BY DEF PlaneInv, FrontiersOfTheirKind
  <2>2. CASE CollectOwn(v) \/ CollectFill(v)
    <3>1. ~CollectConvert(v)
      BY <2>2 DEF CollectOwn, CollectConvert, CollectFill
    <3> QED
      BY <2>1, <2>2, <3>1
         DEF CollectOwn, CollectFill, OfFullKind, FullFrontier, OtherFrontier
  <2>3. CASE CollectConvert(v)
    BY <2>1, <2>3 DEF CollectConvert, OfFullKind, OtherFrontier
  <2> QED
    BY <2>2, <2>3 DEF Collects
<1>2. /\ v # HWF /\ v # CWF /\ w \in Block /\ v # w
      /\ flash' = Collected(Sought, v, w)
  <2>1. CASE flash' = Sought
    BY <1>1, <2>1, VictimFacts DEF CollectVictim, EraseAndCopyInto, Collected
  <2> QED
    BY <1>1, <2>1, VictimFacts
<1>3. /\ Sought \in [Block -> BlockState]
      /\ \A b \in Block : \A p \in ValidPages(Sought[b]) :
           blockIsHot[b] <=> Sought[b].data[p] \in HOT
  BY SoughtFacts
<1>4. /\ flash'[v] = VictimAfter(Sought[v], Sought[w])
      /\ flash'[w] = CopyBlockAfter(Sought[v], Sought[w])
      /\ \A b \in Block \ {v, w} : flash'[b] = Sought[b]
  BY <1>2, <1>3 DEF Collected
<1>5. ASSUME NEW b \in Block \ {v}, NEW q \in ValidPages(flash'[b])
      PROVE  blockIsHot[b] <=> flash'[b].data[q] \in HOT
  <2>1. CASE b = w
    <3>1. \/ /\ q \in ValidPages(Sought[w])
             /\ flash'[w].data[q] = Sought[w].data[q]
          \/ \E p \in ValidPages(Sought[v]) : flash'[w].data[q] = Sought[v].data[p]
      BY <1>2, <1>3, <1>4, <2>1, CopyBlockOrigins
    <3> QED
      BY <1>1, <1>2, <1>3, <2>1, <3>1
  <2>2. CASE b # w
    BY <1>3, <1>4, <2>2
  <2> QED
    BY <2>1, <2>2
<1>6. ASSUME NEW q \in ValidPages(flash'[v])
      PROVE  \E p \in ValidPages(Sought[v]) : /\ ~IsCopied(Sought[v], Sought[w], p)
                                              /\ flash'[v].data[q] = Sought[v].data[p]
  BY <1>2, <1>3, <1>4, VictimOrigins
<1>7. blockIsHot \in [Block -> BOOLEAN]
  BY DEF PlaneInv, PlaneTypeOK
<1>8. CASE CollectOwn(v) \/ CollectFill(v)
  <2>1. blockIsHot' = blockIsHot
    BY <1>8 DEF CollectOwn, CollectFill
  <2>2. \A q \in ValidPages(flash'[v]) : blockIsHot[v] <=> flash'[v].data[q] \in HOT
    BY <1>3, <1>6
  <2> QED
    BY <1>5, <2>1, <2>2
<1>9. CASE CollectConvert(v)
  <2>1. /\ blockIsHot' = [blockIsHot EXCEPT ![v] = HWFInitiated]
        /\ VictimFits(v) /\ w = OtherFrontier
    BY <1>1, <1>9 DEF CollectConvert
  <2>2. ValidPages(flash'[v]) = {}
    BY <1>2, <1>6, <2>1, FitsCopiesAll
  <2>3. \A b \in Block \ {v} : blockIsHot'[b] = blockIsHot[b]
    BY <1>7, <2>1
  <2> QED
    BY <1>5, <2>2, <2>3
<1> QED
  BY <1>8, <1>9 DEF Collects

LEMMA KindsStep == PlaneInv /\ Counters /\ KindsKept /\ Step => KindsKept'
<1> DEFINE Pages == \A b \in Block : \A p \in ValidPages(flash[b]) :
                      blockIsHot[b] <=> flash[b].data[p] \in HOT
           Promised == blockIsHot[map[lpn].block] <=> lpn \in HOT
<1> SUFFICES ASSUME PlaneInv, Counters, KindsKept, Step, NoneWornOut'
             PROVE  Pages' /\ (pc' = "program" => Promised')
  BY DEF KindsKept
<1>1. NoneWornOut /\ Pages /\ (pc = "program" => Promised)
  BY WearStep DEF KindsKept
<1>2. ASSUME NEW l \in LPN, Starts(l)
      PROVE  Pages' /\ pc' = "gc"
  <2>1. ASSUME NEW b \in Block, NEW q \in ValidPages(flash'[b])
        PROVE  q \in ValidPages(flash[b]) /\ flash'[b].data[q] = flash[b].data[q]
    BY <1>2, StartFacts, BlockAssumption DEF ValidPages
  <2>2. blockIsHot' = blockIsHot /\ pc' = "gc"
    BY <1>2 DEF Starts
  <2> QED
    BY <1>1, <2>1, <2>2
<1>3. ASSUME NEW v \in Block, Collects(v)
      PROVE  Pages' /\ pc' = "gc"
  <2>1. pc' = "gc"
    BY <1>3, CollectsVictim, VictimFacts
  <2>2. CanErase(flash[v])
    BY <1>1 DEF NoneWornOut
  <2> QED
    BY <1>1, <1>3, <2>1, <2>2, CollectHotness
<1>4. ASSUME WriteFinish
      PROVE  Pages' /\ Promised'
  <2>1. /\ lpn \in LPN /\ lpn' = lpn /\ blockIsHot' = blockIsHot
        /\ map \in [LPN -> Address \cup {NONE}] /\ blockIsHot[HWF] /\ ~blockIsHot[CWF]
    BY <1>4, FinishFacts DEF WriteFinish, PlaneInv, PlaneTypeOK, FrontiersOfTheirKind
  <2>2. PICK p : map' = [map EXCEPT ![lpn] =
                           [block |-> IF lpn \in HOT THEN HWF ELSE CWF, page |-> p]]
    BY <1>4 DEF WriteFinish
  <2>3. Promised'
    BY <2>1, <2>2
  <2>4. \A b \in Block : flash'[b].data = flash[b].data
    BY <1>4, FinishFacts
  <2> QED
    BY <1>1, <2>1, <2>3, <2>4 DEF ValidPages
<1>5. ASSUME Program
      PROVE  Pages' /\ pc' = "idle"
  <2>1. /\ Promised /\ pc' = "idle" /\ blockIsHot' = blockIsHot
    BY <1>1, <1>5, ProgramFacts DEF Program
  <2>2. ASSUME NEW b \in Block, NEW q \in ValidPages(flash'[b])
        PROVE  blockIsHot[b] <=> flash'[b].data[q] \in HOT
    <3>1. /\ q \in PageNo /\ flash'[b].data[q] \in LPN
          /\ flash'[b].data[q] = IF b = map[lpn].block /\ q = map[lpn].page
                                   THEN lpn ELSE flash[b].data[q]
      BY <1>5, ProgramFacts DEF ValidPages
    <3> QED
      BY <1>1, <2>1, <3>1 DEF ValidPages
  <2> QED
    BY <2>1, <2>2
<1>6. ASSUME Idles
      PROVE  Pages' /\ (pc' = "program" => Promised')
  BY <1>1, <1>6 DEF Idles
<1> QED
  BY <1>2, <1>3, <1>4, <1>5, <1>6 DEF Step

-----------------------------------------------------------------------------
(* Both FTLs start with the frontiers of their kinds and the lpns placed in  *)
(* blocks of their kind.                                                    *)

LEMMA FirstKinds ==
  ASSUME HWF = 0, CWF = MAX_HOT_BLOCKS, numHotBlocks = MAX_HOT_BLOCKS,
         blockIsHot = [b \in Block |-> b < MAX_HOT_BLOCKS]
  PROVE  /\ blockIsHot \in [Block -> BOOLEAN] /\ numHotBlocks \in Nat
         /\ HWF \in Block /\ CWF \in Block
         /\ FrontiersOfTheirKind
<1>1. MAX_HOT_BLOCKS \in 1 .. PLANE_SIZE - 1 /\ PLANE_SIZE \in Nat
  BY HCWFAssumption, CollectorAssumption
<1>2. /\ 0 < MAX_HOT_BLOCKS /\ ~(MAX_HOT_BLOCKS < MAX_HOT_BLOCKS)
      /\ 0 \in Block /\ MAX_HOT_BLOCKS \in Block
  BY <1>1 DEF Block
<1>3. blockIsHot[HWF] /\ ~blockIsHot[CWF]
  BY <1>2
<1>4. {b \in Block : b < MAX_HOT_BLOCKS} = 0 .. MAX_HOT_BLOCKS - 1
  BY <1>1 DEF Block
<1>5. {b \in Block : blockIsHot[b]} = {b \in Block : b < MAX_HOT_BLOCKS}
  OBVIOUS
<1>6. Cardinality(0 .. MAX_HOT_BLOCKS - 1) = MAX_HOT_BLOCKS
  BY <1>1, FS_Interval
<1>7. numHotBlocks = Cardinality({b \in Block : blockIsHot[b]})
  BY <1>4, <1>5, <1>6
<1>8. blockIsHot \in [Block -> BOOLEAN]
  BY <1>1 DEF Block
<1>9. numHotBlocks \in Nat /\ HWF \in Block /\ CWF \in Block
  BY <1>1, <1>2
<1> QED
  BY <1>3, <1>7, <1>8, <1>9 DEF FrontiersOfTheirKind

(* Where Backed says a page lies, it was placed.                            *)
LEMMA FirstPages ==
  ASSUME PlaneInv,
         \A l \in LPN : map[l] \in Address => (blockIsHot[map[l].block] <=> l \in HOT)
  PROVE  \A b \in Block : \A p \in ValidPages(flash[b]) :
           blockIsHot[b] <=> flash[b].data[p] \in HOT
<1> SUFFICES ASSUME NEW b \in Block, NEW p \in ValidPages(flash[b])
             PROVE  blockIsHot[b] <=> flash[b].data[p] \in HOT
  OBVIOUS
<1>1. p \in PageNo /\ flash[b].data[p] \in LPN
      /\ map[flash[b].data[p]] = [block |-> b, page |-> p]
  BY DEF PlaneInv, Backed, ValidPages
<1>2. map[flash[b].data[p]] \in Address
  BY <1>1 DEF Address
<1> QED
  BY <1>1, <1>2

(* Until a block is worn out every page that can be read lies in a block of  *)
(* its kind.                                                                *)
LEMMA KindOfStored ==
  ASSUME PlaneInv, KindsKept, NoneWornOut, NEW l \in LPN, Stored(l)
  PROVE  blockIsHot[map[l].block] <=> l \in HOT
<1>1. /\ map[l].block \in Block /\ map[l].page \in PageNo
      /\ flash[map[l].block].data[map[l].page] = l
  BY DEF Stored, Address, Holds
<1> QED
  BY <1>1 DEF KindsKept, ValidPages

-----------------------------------------------------------------------------
(* HCWF: every lpn has an address, and every page but the one in flight can  *)
(* be read.                                                                 *)

LEMMA InvariantParts ==
  IInv <=> /\ PlaneInv
           /\ map \in [LPN -> Address]
           /\ \A l \in LPN \ {lpn} : Stored(l)
<1>1. IInv => /\ PlaneInv
              /\ map \in [LPN -> Address]
              /\ \A l \in LPN \ {lpn} : Stored(l)
  <2> SUFFICES ASSUME IInv
               PROVE  PlaneInv /\ \A l \in LPN \ {lpn} : Stored(l)
    BY DEF IInv, TypeOK
  <2>1. map \in [LPN -> Address] /\ TypeOK
    BY DEF IInv, TypeOK
  <2>2. /\ \A l \in LPN \ {lpn} : flash[map[l].block].data[map[l].page] = l
        /\ Backed(flash, map, lpn)
    BY IntegrityParts DEF IInv, MapIntegrity
  <2>3. map \in [LPN -> Address \cup {NONE}]
    BY <2>1
  <2>4. PlaneTypeOK
    BY <2>1, <2>3 DEF TypeOK, PlaneTypeOK
  <2>5. pc = "program" => map[lpn] \in Address
    BY <2>1 DEF TypeOK
  <2> QED
    BY <2>1, <2>2, <2>4, <2>5 DEF IInv, PlaneInv, Stored, Holds
<1>2. ASSUME PlaneInv, map \in [LPN -> Address], \A l \in LPN \ {lpn} : Stored(l)
      PROVE  IInv
  <2>1. Integrity(flash, map, lpn)
    BY <1>2, IntegrityParts DEF PlaneInv, Stored, Holds
  <2>2. TypeOK
    BY <1>2 DEF PlaneInv, PlaneTypeOK, TypeOK
  <2> QED
    BY <1>2, <2>1, <2>2 DEF PlaneInv, IInv, MapIntegrity
<1> QED
  BY <1>1, <1>2

LEMMA NextIsStep == IInv /\ [Next]_vars => Step
<1> SUFFICES ASSUME IInv, [Next]_vars PROVE Step
  OBVIOUS
<1>1. ASSUME NEW l \in LPN, WriteStart(l)
      PROVE  Starts(l)
  BY <1>1 DEF WriteStart, Starts, IInv, TypeOK
<1>2. ASSUME UNCHANGED vars
      PROVE  Idles
  BY <1>2 DEF vars, Idles
<1> QED
  BY <1>1, <1>2 DEF Next, Step, Collects

LEMMA InitInvariant == Init => IInv
<1> SUFFICES ASSUME Init PROVE IInv
  OBVIOUS
<1> DEFINE allowed == [l \in LPN |->
                         {b \in Block \ {HWF, CWF} : blockIsHot[b] <=> l \in HOT}]
<1>1. PICK place \in Placements(allowed) :
        flash = PlacedFlash(place) /\ map = PlacedMap(place)
  BY DEF Init
<1> HIDE DEF allowed
<1>2. flash \in [Block -> BlockState] /\ map \in [LPN -> Address]
  BY <1>1, PlacedTypes
<1>3. currentPE \in 0 .. UINT_MOD - 1
  BY BlockAssumption, PlaneAssumption DEF Init
<1>4. /\ blockIsHot \in [Block -> BOOLEAN] /\ numHotBlocks \in Nat
      /\ FrontiersOfTheirKind
  BY FirstKinds DEF Init
<1>5. TypeOK
  BY <1>2, <1>3, <1>4, BlocksExist DEF Init, TypeOK
<1>6. MapIntegrity
  BY <1>1, PlacedIntegrity DEF Init, MapIntegrity
<1> QED
  BY <1>4, <1>5, <1>6 DEF Init, IInv, ProgramsEmptyPage

LEMMA NextInvariant == IInv /\ [Next]_vars => IInv'
<1> SUFFICES ASSUME IInv, [Next]_vars PROVE IInv'
  OBVIOUS
<1>1. PlaneInv /\ map \in [LPN -> Address] /\ (\A l \in LPN \ {lpn} : Stored(l)) /\ Step
  BY InvariantParts, NextIsStep
<1>2. PlaneInv'
  BY <1>1, StepInvariant
<1>3. map' \in [LPN -> Address]
  <2>1. map' \in [LPN -> Address \cup {NONE}]
    BY <1>2 DEF PlaneInv, PlaneTypeOK
  <2>2. \A l \in LPN : map'[l] \in Address
    BY <1>1, StepKeepsEntry
  <2> QED
    BY <2>1, <2>2
<1>4. ASSUME NEW l \in LPN, l # lpn'
      PROVE  Stored(l)'
  <2>1. CASE l # lpn
    <3>1. ASSUME NEW k \in LPN, Starts(k), l = k \/ ~Stored(k)
          PROVE  FALSE
      <4>1. lpn = NONE /\ lpn' = k
        BY <1>1, <3>1 DEF Starts, PlaneInv, PlaneTypeOK
      <4> QED
        BY <1>1, <1>4, <3>1, <4>1, PlaneAssumption
    <3> QED
      BY <1>1, <2>1, <3>1, StepLoses
  <2>2. CASE l = lpn
    <3>1. Program
      BY <1>1, <1>4, <2>2, PlaneAssumption, CollectsVictim, VictimFacts, FinishFacts
         DEF Step, Starts, Idles, PlaneInv, PlaneTypeOK
    <3>2. /\ map' = map /\ map[lpn].block \in Block /\ map[lpn].page \in PageNo
          /\ flash'[map[lpn].block].data[map[lpn].page] = lpn
      BY <1>1, <3>1, ProgramFacts
    <3> QED
      BY <1>3, <2>2, <3>2 DEF Stored, Holds
  <2> QED
    BY <2>1, <2>2
<1>5. (PlaneInv /\ map \in [LPN -> Address] /\ \A l \in LPN \ {lpn} : Stored(l))'
  BY <1>2, <1>3, <1>4
<1> QED
  BY <1>5, InvariantParts, PTL

(* IInv holds in every reachable state.                                     *)
THEOREM Invariant == Spec => []IInv
<1>1. Init => IInv
  BY InitInvariant
<1>2. IInv /\ [Next]_vars => IInv'
  BY NextInvariant
<1> QED
  BY <1>1, <1>2, PTL DEF Spec

(* Type correctness; numHotBlocks never goes below zero.                    *)
THEOREM TypeCorrect == Spec => []TypeOK
<1>1. IInv => TypeOK
  BY DEF IInv
<1> QED
  BY <1>1, Invariant, PTL

(* No write, compaction, conversion or fill loses, duplicates or resurrects *)
(* a logical page (check_ftl_integrity).                                    *)
THEOREM MapSafe == Spec => []MapIntegrity
<1>1. IInv => MapIntegrity
  BY DEF IInv
<1> QED
  BY <1>1, Invariant, PTL

(* However blocks change kind, the frontiers stay distinct and of their     *)
(* kinds and numHotBlocks counts the hot blocks (check_block_hotness).      *)
THEOREM KindsSafe == Spec => []FrontiersOfTheirKind
<1>1. IInv => FrontiersOfTheirKind
  BY DEF IInv
<1> QED
  BY <1>1, Invariant, PTL

-----------------------------------------------------------------------------
(* The caller's view is that of DWF: compactions, conversions and fills are *)
(* invisible.                                                              *)

LEMMA StoredIsAllButInFlight == IInv => StoredPages = LPN \ {lpn}
BY AllButInFlightStored DEF IInv, TypeOK, MapIntegrity, StoredPages

LEMMA InitRefines == Init /\ IInv => Promise!DiskInit
<1> SUFFICES ASSUME Init, IInv PROVE Promise!DiskInit
  OBVIOUS
<1>1. lpn = NONE
  BY DEF Init
<1>2. StoredPages = LPN
  BY <1>1, StoredIsAllButInFlight, PlaneAssumption
<1> QED
  BY <1>1, <1>2 DEF Promise!DiskInit

LEMMA StepRefines ==
  IInv /\ IInv' /\ [Next]_vars => [Promise!DiskNext]_(Promise!diskvars)
<1> SUFFICES ASSUME IInv, IInv', [Next]_vars
             PROVE  Promise!DiskNext \/ UNCHANGED Promise!diskvars
  OBVIOUS
<1>1. StoredPages = LPN \ {lpn}
  BY StoredIsAllButInFlight
<1>2. StoredPages' = LPN \ {lpn'}
  <2>1. (IInv => StoredPages = LPN \ {lpn})'
    BY StoredIsAllButInFlight, PTL
  <2> QED
    BY <2>1
<1>3. CASE lpn' = lpn
  <2>1. StoredPages' = StoredPages
    BY <1>1, <1>2, <1>3
  <2> QED
    BY <1>3, <2>1 DEF Promise!diskvars
<1>4. ASSUME NEW l \in LPN, WriteStart(l)
      PROVE  Promise!DiskNext
  <2>1. lpn = NONE /\ lpn' = l
    BY <1>4 DEF WriteStart, IInv, TypeOK
  <2>2. StoredPages' = StoredPages \ {l}
    BY <1>1, <1>2, <2>1, PlaneAssumption
  <2>3. Promise!Accept(l)
    BY <2>1, <2>2 DEF Promise!Accept
  <2> QED
    BY <2>3 DEF Promise!DiskNext
<1>5. ASSUME Program
      PROVE  Promise!DiskNext
  <2>1. lpn \in LPN /\ lpn' = NONE
    BY <1>5 DEF Program, IInv, TypeOK
  <2>2. StoredPages' = StoredPages \cup {lpn}
    BY <1>1, <1>2, <2>1, PlaneAssumption
  <2>3. Promise!Complete
    BY <2>1, <2>2, PlaneAssumption DEF Promise!Complete
  <2> QED
    BY <2>3 DEF Promise!DiskNext
<1>6. ASSUME NEW v \in Block, CollectOwn(v) \/ CollectConvert(v) \/ CollectFill(v)
      PROVE  lpn' = lpn
  BY <1>6 DEF CollectOwn, CollectConvert, CollectFill, CollectVictim
<1>7. ASSUME WriteFinish
      PROVE  lpn' = lpn
  BY <1>7 DEF WriteFinish
<1>8. ASSUME UNCHANGED vars
      PROVE  lpn' = lpn
  BY <1>8 DEF vars
<1> QED
  BY <1>3, <1>4, <1>5, <1>6, <1>7, <1>8 DEF Next

(* Whatever blocks change kind during a write, every page but the one in    *)
(* flight can be read, and a write is completed before the next is accepted *)
(* (FtlImpl_HCWF::read, write, and Ssd::event_arrive).                      *)
THEOREM ImplementsDiskSafety == Spec => ImplementsDisk
<1>1. Init => IInv
  BY InitInvariant
<1>2. Init /\ IInv => Promise!DiskInit
  BY InitRefines
<1>3. IInv /\ IInv' /\ [Next]_vars => [Promise!DiskNext]_(Promise!diskvars)
  BY StepRefines
<1> QED
  BY <1>1, <1>2, <1>3, Invariant, PTL DEF Spec, ImplementsDisk, Promise!DiskSafety

-----------------------------------------------------------------------------
(* The kinds of HCWF's pages.                                               *)

LEMMA InitKinds == Init => Counters /\ KindsKept
<1> SUFFICES ASSUME Init PROVE Counters /\ KindsKept
  OBVIOUS
<1> DEFINE allowed == [l \in LPN |-> {b \in Block \ {HWF, CWF} : blockIsHot[b] <=> l \in HOT}]
<1>1. PICK place \in Placements(allowed) : flash = PlacedFlash(place) /\ map = PlacedMap(place)
  BY DEF Init
<1>2. Counters
  <2> HIDE DEF allowed
  <2> QED
    BY <1>1, PlacementsFit, CountedPlaced DEF Counters
<1>3. \A l \in LPN : blockIsHot[map[l].block] <=> l \in HOT
  <2>1. \A l \in LPN : place[l] \in allowed[l]
    BY DEF Placements
  <2>2. \A l \in LPN : map[l].block = place[l]
    BY <1>1 DEF PlacedMap
  <2> QED
    BY <2>1, <2>2
<1>4. PlaneInv
  BY InitInvariant, InvariantParts
<1> QED
  BY <1>2, <1>3, <1>4, FirstPages DEF KindsKept, Init

(* Until a block is worn out, collections and conversions never leave a page *)
(* in a block of the other kind: a conversion empties the block first, by    *)
(* the counters that say whether its pages fit.                             *)
THEOREM KindsUntilWornOut == Spec => [](NoneWornOut => HotnessIntegrity)
<1>1. Init => Counters /\ KindsKept
  BY InitKinds
<1>2. IInv /\ Counters /\ KindsKept /\ [Next]_vars => Counters' /\ KindsKept'
  BY InvariantParts, NextIsStep, CountersStep, KindsStep
<1>3. IInv /\ KindsKept => (NoneWornOut => HotnessIntegrity)
  BY InvariantParts, KindOfStored DEF HotnessIntegrity
<1> QED
  BY <1>1, <1>2, <1>3, Invariant, PTL DEF Spec

(* Where wear is not counted (check_ftl_hotness_integrity, which the drivers *)
(* run far from the end of the blocks' life) they never do.                 *)
THEOREM HotnessSafe ==
  ASSUME COUNT_WEAR = FALSE, BLOCK_ERASES > 0
  PROVE  Spec => []HotnessIntegrity
<1>1. Init => NoneWornOut
  <2> SUFFICES ASSUME Init, NEW b \in Block PROVE CanErase(flash[b])
    BY DEF NoneWornOut
  <2>1. PICK place : flash = PlacedFlash(place)
    BY DEF Init
  <2>2. flash[b].erases_remaining = BLOCK_ERASES
    BY <2>1 DEF PlacedFlash, PlacedBlock, NewBlock
  <2> QED
    BY <2>2, BlockAssumption DEF CanErase
<1>2. IInv /\ NoneWornOut /\ [Next]_vars => NoneWornOut'
  BY InvariantParts, NextIsStep, WearStep
<1> QED
  BY <1>1, <1>2, Invariant, KindsUntilWornOut, PTL DEF Spec

-----------------------------------------------------------------------------
(* COLD: the map knows only the lpns placed, written or trimmed.             *)

LEMMA KnownMeans ==
  ASSUME PlaneInv, NEW l \in LPN
  PROVE  /\ Known(l) <=> map[l] \in Address
         /\ Stored(l) <=> l \in ColdStoredPages
<1>1. map[l] \in Address \cup {NONE}
  BY DEF PlaneInv, PlaneTypeOK
<1>2. Known(l) <=> map[l] \in Address
  BY <1>1, COLDAssumption DEF Known
<1> QED
  BY <1>2 DEF Stored, Holds, ColdStoredPages

StoredLpns == {l \in LPN : Stored(l)}

LEMMA StoredIsReadable == PlaneInv => ColdStoredPages = StoredLpns
BY KnownMeans DEF StoredLpns, ColdStoredPages

LEMMA ColdNextIsStep == PlaneInv /\ [ColdNext]_coldvars => Step
<1> SUFFICES ASSUME PlaneInv, [ColdNext]_coldvars PROVE Step
  OBVIOUS
<1>1. ASSUME NEW l \in LPN, ColdWriteStart(l)
      PROVE  Starts(l)
  BY <1>1, KnownMeans DEF ColdWriteStart, Starts
<1>2. ASSUME NEW b \in Block, Sample(b)
      PROVE  Idles
  BY <1>2 DEF Sample, vars, Idles
<1>3. ASSUME SampleAgain \/ UNCHANGED coldvars
      PROVE  Idles
  BY <1>3 DEF SampleAgain, coldvars, vars, Idles
<1>4. ASSUME Collect
      PROVE  \E v \in Block : Collects(v)
  <2>1. Collects(victim)
    BY <1>4 DEF Collect, Collects
  <2>2. victim \in Block
    BY <2>1, CollectsVictim, COLDAssumption DEF CollectVictim, Victims
  <2> QED
    BY <2>1, <2>2
<1>5. ASSUME NEW l \in LPN, Trim(l)
      PROVE  Idles
  BY <1>5, KnownMeans DEF Trim, Idles
<1> QED
  BY <1>1, <1>2, <1>3, <1>4, <1>5 DEF ColdNext, ColdWriteFinish, ColdProgram, Step

(* initialize() places as in HCWF, and leaves out the lpns it is not called  *)
(* for.                                                                     *)
LEMMA ColdInitFacts ==
  ASSUME ColdInit
  PROVE  /\ PlaneInv /\ Counters
         /\ \A l \in LPN : map[l] \in Address => (blockIsHot[map[l].block] <=> l \in HOT)
         /\ \A b \in Block : flash[b].erases_remaining = BLOCK_ERASES
<1> DEFINE allowed == [l \in LPN |->
                         {b \in Block \ {HWF, CWF} : blockIsHot[b] <=> l \in HOT}]
<1>1. PICK all \in Placements(allowed) :
        LET place == [l \in LPN |-> IF l \in PLACED THEN all[l] ELSE NONE]
        IN  /\ flash = PlacedFlash(place)
            /\ map = [l \in LPN |-> IF l \in PLACED THEN PlacedMap(place)[l] ELSE NONE]
  BY DEF ColdInit
<1> DEFINE place == [l \in LPN |-> IF l \in PLACED THEN all[l] ELSE NONE]
<1>2. /\ flash = PlacedFlash(place)
      /\ map = [l \in LPN |-> IF l \in PLACED THEN PlacedMap(place)[l] ELSE NONE]
  BY <1>1
<1>3. /\ \A l \in LPN : all[l] \in Block
      /\ \A l \in LPN : blockIsHot[all[l]] <=> l \in HOT
  BY DEF Placements
<1>4. Fits(all)
  <2> HIDE DEF allowed
  <2> QED
    BY PlacementsFit
<1> HIDE DEF allowed
<1>5. /\ \A l \in PLACED : place[l] = all[l] /\ place[l] \in Block
      /\ \A l \in LPN \ PLACED : place[l] = NONE /\ place[l] \notin Block
  BY <1>3, COLDAssumption
<1> HIDE DEF place
<1>6. Fits(place)
  <2> SUFFICES ASSUME NEW b \in Block
               PROVE  Cardinality({l \in LPN : place[l] = b}) <= BLOCK_SIZE
    BY DEF Fits
  <2>1. {l \in LPN : place[l] = b} \subseteq {l \in LPN : all[l] = b}
    BY <1>5, COLDAssumption
  <2>2. /\ IsFiniteSet({l \in LPN : all[l] = b})
        /\ Cardinality({l \in LPN : all[l] = b}) \in 0 .. BLOCK_SIZE
    BY <1>4, Placed
  <2>3. /\ IsFiniteSet({l \in LPN : place[l] = b})
        /\ Cardinality({l \in LPN : place[l] = b}) <= Cardinality({l \in LPN : all[l] = b})
    BY <2>1, <2>2, FS_Subset
  <2>4. Cardinality({l \in LPN : place[l] = b}) \in Nat
    BY <2>3, FS_CardinalityType
  <2> QED
    BY <2>2, <2>3, <2>4, BlockAssumption
<1>7. ASSUME NEW l \in PLACED
      PROVE  /\ map[l] = [block |-> place[l],
                          page |-> Rank({k \in LPN : place[k] = place[l]}, l)]
             /\ map[l] \in Address
             /\ map[l].block = all[l]
  <2>1. l \in LPN /\ place[l] \in Block /\ place[l] = all[l]
    BY <1>5, COLDAssumption
  <2>2. map[l] = [block |-> place[l], page |-> Rank({k \in LPN : place[k] = place[l]}, l)]
    BY <1>2, <2>1 DEF PlacedMap
  <2>3. Rank({k \in LPN : place[k] = place[l]}, l) \in PageNo
    BY <1>6, <2>1, PlacedBlockFacts
  <2> QED
    BY <2>1, <2>2, <2>3 DEF Address
<1>8. \A l \in LPN \ PLACED : map[l] = NONE /\ map[l] \notin Address
  BY <1>2, COLDAssumption
<1>9. map \in [LPN -> Address \cup {NONE}]
  BY <1>2, <1>7, <1>8, COLDAssumption
<1>10. flash \in [Block -> BlockState] /\ Backed(flash, map, NONE)
  <2>1. \A l \in LPN, b \in Block :
          place[l] = b => map[l] = [block |-> b, page |-> Rank({k \in LPN : place[k] = b}, l)]
    BY <1>5, <1>7
  <2> QED
    BY <1>2, <1>6, <2>1, PlacedBacked
<1>11. /\ blockIsHot \in [Block -> BOOLEAN] /\ numHotBlocks \in Nat
       /\ HWF \in Block /\ CWF \in Block
       /\ FrontiersOfTheirKind
  BY FirstKinds DEF ColdInit
<1>12. currentPE \in 0 .. UINT_MOD - 1 /\ cursor \in Block
  BY BlocksExist, BlockAssumption, PlaneAssumption DEF ColdInit
<1>13. pc = "idle" /\ lpn = NONE
  BY DEF ColdInit
<1>14. PlaneInv
  BY <1>9, <1>10, <1>11, <1>12, <1>13 DEF PlaneInv, PlaneTypeOK, ProgramsEmptyPage
<1>15. Counters
  BY <1>2, <1>6, CountedPlaced DEF Counters
<1>16. \A l \in LPN : map[l] \in Address => (blockIsHot[map[l].block] <=> l \in HOT)
  BY <1>3, <1>7, <1>8
<1>17. \A b \in Block : flash[b].erases_remaining = BLOCK_ERASES
  BY <1>2 DEF PlacedFlash, PlacedBlock, NewBlock
<1> QED
  BY <1>14, <1>15, <1>16, <1>17

(* Every entry of the map is an address, every page that holds an lpn is the *)
(* one its entry names, the frontiers are of their kinds and the counters    *)
(* count, whichever lpns are placed, written or trimmed.                     *)
THEOREM ColdInvariant == ColdSpec => [](PlaneInv /\ Counters)
<1>1. ColdInit => PlaneInv /\ Counters
  BY ColdInitFacts
<1>2. PlaneInv /\ Counters /\ [ColdNext]_coldvars => PlaneInv' /\ Counters'
  BY ColdNextIsStep, StepInvariant, CountersStep
<1> QED
  BY <1>1, <1>2, PTL DEF ColdSpec

(* Until a block is worn out a page that can be read lies in a block of its  *)
(* kind, as in HCWF, although trims leave stale entries in the map.          *)
THEOREM ColdKindsUntilWornOut == ColdSpec => [](NoneWornOut => ColdHotnessIntegrity)
<1>1. ColdInit => KindsKept
  BY ColdInitFacts, FirstPages DEF KindsKept, ColdInit
<1>2. PlaneInv /\ Counters /\ KindsKept /\ [ColdNext]_coldvars => KindsKept'
  BY ColdNextIsStep, KindsStep
<1>3. PlaneInv /\ KindsKept => (NoneWornOut => ColdHotnessIntegrity)
  <2> SUFFICES ASSUME PlaneInv, KindsKept, NoneWornOut, NEW l \in ColdStoredPages
               PROVE  blockIsHot[map[l].block] <=> l \in HOT
    BY DEF ColdHotnessIntegrity
  <2>1. l \in LPN
    BY DEF ColdStoredPages
  <2> QED
    BY <2>1, KnownMeans, KindOfStored
<1> QED
  BY <1>1, <1>2, <1>3, ColdInvariant, PTL DEF ColdSpec

(* Where wear is not counted it always does (check_ftl_hotness_integrity).   *)
THEOREM ColdHotnessSafe ==
  ASSUME COUNT_WEAR = FALSE, BLOCK_ERASES > 0
  PROVE  ColdSpec => []ColdHotnessIntegrity
<1>1. ColdInit => NoneWornOut
  BY ColdInitFacts, BlockAssumption DEF NoneWornOut, CanErase
<1>2. PlaneInv /\ NoneWornOut /\ [ColdNext]_coldvars => NoneWornOut'
  BY ColdNextIsStep, WearStep
<1> QED
  BY <1>1, <1>2, ColdInvariant, ColdKindsUntilWornOut, PTL DEF ColdSpec

(* A page that can be read is lost only when its own write begins, or when a *)
(* write begins whose entry is stale: no turn of the GC loop, trim or        *)
(* program loses one.                                                       *)
THEOREM LosesSafe == ColdSpec => LosesOnlyThroughStaleEntry
<1> DEFINE Lost(l) == /\ pc = "idle" /\ pc' = "gc"
                      /\ l = lpn' \/ (Known(lpn') /\ lpn' \notin ColdStoredPages)
           Loses == \A l \in ColdStoredPages \ ColdStoredPages' : Lost(l)
<1>1. PlaneInv /\ PlaneInv' /\ [ColdNext]_coldvars => Loses
  <2> SUFFICES ASSUME PlaneInv, PlaneInv', [ColdNext]_coldvars,
                      NEW l \in ColdStoredPages \ ColdStoredPages'
               PROVE  Lost(l)
    OBVIOUS
  <2>1. l \in LPN /\ Stored(l) /\ Step
    BY KnownMeans, ColdNextIsStep DEF ColdStoredPages
  <2>2. ~Stored(l)'
    <3>1. (PlaneInv => ColdStoredPages = StoredLpns)'
      BY StoredIsReadable, PTL
    <3> QED
      BY <2>1, <3>1 DEF StoredLpns
  <2>3. PICK k \in LPN : Starts(k) /\ map[k] \in Address /\ (l = k \/ ~Stored(k))
    BY <2>1, <2>2, StepLoses
  <2>4. pc = "idle" /\ pc' = "gc" /\ lpn' = k
    BY <2>3 DEF Starts
  <2> QED
    BY <2>3, <2>4, KnownMeans
<1>2. [](PlaneInv /\ Counters) /\ [][ColdNext]_coldvars => [][Loses]_coldvars
  BY <1>1, PTL
<1> QED
  BY <1>2, ColdInvariant DEF ColdSpec, LosesOnlyThroughStaleEntry

-----------------------------------------------------------------------------
(* COLD's draws: once a sample is drawn, the victim is one of them and none  *)
(* is better.  The first one is taken, because it has at most BLOCK_SIZE     *)
(* VALID pages.                                                             *)

BestSoFar ==
  IF samples = {}
    THEN i = 0 /\ minValidPages = BLOCK_SIZE + 1 /\ COLDvictim = FALSE
    ELSE /\ victim \in samples
         /\ minValidPages = flash[victim].pages_valid
         /\ COLDvictim = ~blockIsHot[victim]
         /\ \A s \in samples :
              \/ flash[victim].pages_valid <= flash[s].pages_valid
              \/ ~HWFInitiated /\ ~blockIsHot[victim] /\ blockIsHot[s]

SamplingInv == Collecting => samples \subseteq Block /\ BestSoFar

LEMMA DrawKeepsBest ==
  ASSUME PlaneInv, Counters, SamplingInv, NEW b \in Block, Sample(b)
  PROVE  SamplingInv'
<1>1. /\ Collecting /\ samples \subseteq Block /\ BestSoFar
      /\ UNCHANGED vars
      /\ samples' = samples \cup {b}
  BY DEF Sample, SamplingInv, Draws!Take, Draws!Pass, Draws!Draw
<1>2. /\ \A c \in Block : flash[c].pages_valid \in 0 .. BLOCK_SIZE
      /\ BLOCK_SIZE \in Nat /\ blockIsHot \in [Block -> BOOLEAN]
      /\ HWFInitiated \in BOOLEAN
  <2>1. BLOCK_SIZE \in Nat /\ blockIsHot \in [Block -> BOOLEAN] /\ HWFInitiated \in BOOLEAN
    BY BlockAssumption DEF PlaneInv, PlaneTypeOK, HWFInitiated, HasNextPage
  <2>2. \A c \in Block : Cardinality(ValidPages(flash[c])) \in 0 .. BLOCK_SIZE
    BY BlockAssumption, IntervalSubset DEF ValidPages, PageNo
  <2> QED
    BY <2>1, <2>2 DEF Counters, Counted
<1>3. ASSUME Draws!Take(b)
      PROVE  BestSoFar'
  <2>1. /\ flash[b].pages_valid < minValidPages
        /\ ~HWFInitiated => ~blockIsHot[b] \/ ~COLDvictim
        /\ minValidPages' = flash[b].pages_valid /\ victim' = b /\ COLDvictim' = ~blockIsHot[b]
    BY <1>3 DEF Draws!Take, Draws!Improves
  <2>2. flash' = flash /\ blockIsHot' = blockIsHot /\ HWFInitiated' = HWFInitiated
    BY <1>1 DEF vars, HWFInitiated, HasNextPage
  <2>3. ASSUME NEW s \in samples
        PROVE  \/ flash[b].pages_valid <= flash[s].pages_valid
               \/ ~HWFInitiated /\ ~blockIsHot[b] /\ blockIsHot[s]
    BY <1>1, <1>2, <2>1, <2>3 DEF BestSoFar
  <2> QED
    BY <1>1, <1>2, <2>1, <2>2, <2>3 DEF BestSoFar
<1>4. ASSUME Draws!Pass(b)
      PROVE  BestSoFar'
  <2>1. /\ ~(/\ flash[b].pages_valid < minValidPages
             /\ ~HWFInitiated => ~blockIsHot[b] \/ ~COLDvictim)
        /\ UNCHANGED <<minValidPages, victim, COLDvictim>>
    BY <1>4 DEF Draws!Pass, Draws!Improves
  <2>2. flash' = flash /\ blockIsHot' = blockIsHot /\ HWFInitiated' = HWFInitiated
    BY <1>1 DEF vars, HWFInitiated, HasNextPage
  <2>3. samples # {}
    BY <1>1, <1>2, <2>1 DEF BestSoFar
  <2>4. \/ flash[victim].pages_valid <= flash[b].pages_valid
        \/ ~HWFInitiated /\ ~blockIsHot[victim] /\ blockIsHot[b]
    BY <1>1, <1>2, <2>1, <2>3 DEF BestSoFar
  <2> QED
    BY <1>1, <2>1, <2>2, <2>3, <2>4 DEF BestSoFar
<1>5. samples' \subseteq Block
  BY <1>1
<1> QED
  BY <1>3, <1>4, <1>5 DEF Sample, SamplingInv

LEMMA SamplingStep ==
  PlaneInv /\ Counters /\ SamplingInv /\ [ColdNext]_coldvars => SamplingInv'
<1> SUFFICES ASSUME PlaneInv, Counters, SamplingInv, [ColdNext]_coldvars PROVE SamplingInv'
  OBVIOUS
<1>1. ASSUME Draws!Start
      PROVE  SamplingInv'
  BY <1>1 DEF Draws!Start, SamplingInv, BestSoFar
<1>2. ASSUME NEW b \in Block, Sample(b)
      PROVE  SamplingInv'
  BY <1>2, DrawKeepsBest
<1>3. ASSUME ColdWriteFinish \/ ColdProgram \/ \E l \in LPN : Trim(l)
      PROVE  SamplingInv'
  <2>1. pc' # "gc"
    BY <1>3 DEF ColdWriteFinish, WriteFinish, ColdProgram, Program, Trim
  <2> QED
    BY <2>1 DEF SamplingInv, Collecting
<1>4. ASSUME UNCHANGED coldvars
      PROVE  SamplingInv'
  BY <1>4 DEF coldvars, vars, sampling, SamplingInv, Collecting, BestSoFar,
              HWFInitiated, CWFFull, HasNextPage
<1> QED
  BY <1>1, <1>2, <1>3, <1>4 DEF ColdNext, ColdWriteStart, SampleAgain, Collect

LEMMA ColdSampling == ColdSpec => []SamplingInv
<1>1. ColdInit => SamplingInv
  BY DEF ColdInit, SamplingInv, Collecting
<1> QED
  BY <1>1, SamplingStep, ColdInvariant, PTL DEF ColdSpec

(* Whatever the address write() passes down and however many samples are     *)
(* drawn, the victim is a block drawn in this turn, and no sample has fewer  *)
(* VALID pages, but that a cold one is kept for a hot one                    *)
(* (gca_collect_COLD, GCImpl_DChoices::collect).                             *)
THEOREM BestDrawnSafe == ColdSpec => []VictimIsBestDrawn
<1>1. SamplingInv => VictimIsBestDrawn
  <2> SUFFICES ASSUME Collecting, samples \subseteq Block, BestSoFar, i = D
               PROVE  /\ victim \in samples
                      /\ \A s \in samples :
                           \/ flash[victim].pages_valid <= flash[s].pages_valid
                           \/ ~HWFInitiated /\ ~blockIsHot[victim] /\ blockIsHot[s]
    BY DEF SamplingInv, VictimIsBestDrawn, Draws!VictimWasDrawn, Draws!FewestValidPages
  <2> QED
    BY COLDAssumption DEF BestSoFar
<1> QED
  BY <1>1, ColdSampling, PTL

(* When the cold frontier is to be replaced, a hot sample never takes the    *)
(* place of a cold one, however few VALID pages it has (gca_collect_COLD).    *)
THEOREM ColdVictimsStaySafe == ColdSpec => ColdVictimsStay
<1> DEFINE Stays == Collecting /\ ~HWFInitiated /\ victim \in samples /\ ~blockIsHot[victim]
                      /\ samples' # {}
                    => ~blockIsHot[victim']
<1>1. SamplingInv /\ [ColdNext]_coldvars => Stays
  <2> SUFFICES ASSUME SamplingInv, [ColdNext]_coldvars,
                      Collecting, ~HWFInitiated, victim \in samples, ~blockIsHot[victim],
                      samples' # {}
               PROVE  ~blockIsHot[victim']
    OBVIOUS
  <2>1. COLDvictim = TRUE
    BY DEF SamplingInv, BestSoFar
  <2>2. ASSUME NEW b \in Block, Sample(b)
        PROVE  ~blockIsHot[victim']
    BY <2>1, <2>2 DEF Sample, Draws!Take, Draws!Pass, Draws!Improves
  <2>3. ~Draws!Start
    BY DEF Draws!Start
  <2>4. pc = "gc" /\ (HWFInitiated \/ CWFFull)
    BY DEF Collecting
  <2>5. \/ \E b \in Block : Sample(b)
        \/ UNCHANGED coldvars
    BY <2>3, <2>4 DEF ColdNext, ColdWriteStart, SampleAgain, Collect, ColdWriteFinish,
                      WriteFinish, ColdProgram, Program, Trim
  <2> QED
    BY <2>2, <2>5 DEF coldvars, sampling
<1>2. []SamplingInv /\ [][ColdNext]_coldvars => [][Stays]_coldvars
  BY <1>1, PTL
<1> QED
  BY <1>2, ColdSampling DEF ColdSpec, ColdVictimsStay

=============================================================================
