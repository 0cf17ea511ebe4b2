----------------------------- MODULE DWF_proofs ------------------------------
(***************************************************************************)
(* Theorems about the double write frontier FTL, for every block size,      *)
(* plane size, number of logical pages, hot set, erase budget and garbage   *)
(* collector: the inductive invariant IInv, the properties that follow, and *)
(* that the FTL implements LogicalDisk but for liveness.                    *)
(***************************************************************************)
EXTENDS DWF, FlashPlane_proofs

-----------------------------------------------------------------------------
(* Init establishes the invariant.                                          *)

LEMMA BlocksExist == 0 \in Block /\ 1 \in Block /\ 2 \in Block
BY CollectorAssumption, DWFAssumption DEF Block

LEMMA InitInvariant == Init => IInv
<1> SUFFICES ASSUME Init PROVE IInv
  OBVIOUS
<1> DEFINE allowed == [l \in LPN |-> Block \ {0, 1}]
<1>1. PICK place \in Placements(allowed) :
        /\ flash = PlacedFlash(place)
        /\ map = PlacedMap(place)
        /\ hotValidPages = [b \in Block |-> Cardinality({l \in HOT : place[l] = b})]
  BY DEF Init
<1> HIDE DEF allowed
<1>2. flash \in [Block -> BlockState] /\ map \in [LPN -> Address]
  BY <1>1, PlacedTypes
<1>3. hotValidPages \in [Block -> Int]
  <2>1. ASSUME NEW b \in Block
        PROVE  Cardinality({l \in HOT : place[l] = b}) \in Int
    <3>1. {l \in HOT : place[l] = b} \in SUBSET (0 .. NUM_LPN - 1)
      BY DWFAssumption DEF LPN
    <3>2. Cardinality({l \in HOT : place[l] = b}) \in 0 .. NUM_LPN
      BY <3>1, BlockAssumption, IntervalSubset
    <3> QED
      BY <3>2, BlockAssumption
  <2> QED
    BY <1>1, <2>1
<1>4. currentPE \in 0 .. UINT_MOD - 1
  BY BlockAssumption, PlaneAssumption DEF Init
<1>5. TypeOK
  BY <1>2, <1>3, <1>4, BlocksExist DEF Init, TypeOK
<1>6. MapIntegrity
  BY <1>1, PlacedIntegrity DEF Init, MapIntegrity
<1> QED
  BY <1>5, <1>6 DEF Init, IInv, ProgramsEmptyPage

-----------------------------------------------------------------------------
(* Each action preserves it.                                                *)

LEMMA HotBitIsInt == \A l : IsHot(l) \in Int
BY DEF IsHot

LEMMA WriteStartInvariant ==
  ASSUME IInv, NEW l \in LPN, WriteStart(l)
  PROVE  IInv'
<1>1. map[l].block \in Block /\ map[l].page \in PageNo
  BY DEF IInv, TypeOK, Address
<1>2. InvalidatePage(flash[map[l].block], map[l].page) \in BlockState
  BY <1>1, InvalidateType DEF IInv, TypeOK
<1>3. flash' \in [Block -> BlockState]
  BY <1>1, <1>2 DEF IInv, TypeOK, WriteStart
<1>4. hotValidPages' \in [Block -> Int]
  BY <1>1, HotBitIsInt DEF IInv, TypeOK, WriteStart
<1>5. TypeOK'
  BY <1>3, <1>4 DEF IInv, TypeOK, WriteStart
<1>6. Integrity(flash, map, NONE)
  BY DEF IInv, TypeOK, MapIntegrity, WriteStart
<1>7. Integrity(flash', map, l)
  BY <1>6, InvalidateIntegrity DEF IInv, TypeOK, WriteStart
<1>8. MapIntegrity'
  BY <1>7 DEF MapIntegrity, WriteStart
<1> QED
  BY <1>5, <1>8 DEF IInv, ProgramsEmptyPage, WriteStart

(* The two branches of the GC loop differ only in the frontier they replace.*)
LEMMA CollectVictimInvariant ==
  ASSUME IInv, NEW v \in Block, CollectVictim(v)
  PROVE  /\ v # WFE /\ v # WFI
         /\ flash' \in [Block -> BlockState] /\ map' \in [LPN -> Address]
         /\ hotValidPages' \in [Block -> Int]
         /\ cursor' \in Block /\ currentPE' \in 0 .. UINT_MOD - 1
         /\ Integrity(flash', map', lpn)
<1>1. v # WFE /\ v # WFI
  <2>1. \E b \in Block : b \notin {WFE, WFI}
    BY BlocksExist
  <2> QED
    BY <2>1, VictimIsAllowed DEF CollectVictim, IInv, TypeOK
<1>2. /\ flash \in [Block -> BlockState] /\ map \in [LPN -> Address]
      /\ hotValidPages \in [Block -> Int] /\ WFI \in Block
      /\ Integrity(flash, map, lpn)
  BY DEF IInv, TypeOK, MapIntegrity
<1>3. ASSUME CanErase(flash[v])
      PROVE  /\ flash' \in [Block -> BlockState] /\ map' \in [LPN -> Address]
             /\ hotValidPages' \in [Block -> Int]
             /\ Integrity(flash', map', lpn)
  <2>1. /\ flash' = [flash EXCEPT ![v] = VictimAfter(flash[v], flash[WFI]),
                                  ![WFI] = CopyBlockAfter(flash[v], flash[WFI])]
        /\ map' = MapAfter(map, flash[v], flash[WFI], WFI)
        /\ hotValidPages' = [hotValidPages EXCEPT ![v] = @ - HotCopied(v),
                                                  ![WFI] = @ + HotCopied(v)]
    BY <1>3 DEF CollectVictim, EraseAndCopyInto
  <2>2. /\ VictimAfter(flash[v], flash[WFI]) \in BlockState
        /\ CopyBlockAfter(flash[v], flash[WFI]) \in BlockState
    BY <1>2, <1>3, VictimType, CopyBlockType
  <2>3. flash' \in [Block -> BlockState]
    BY <1>2, <2>1, <2>2
  <2>4. map' \in [LPN -> Address]
    <3>1. Backed(flash, map, lpn)
      BY <1>2, IntegrityParts
    <3> QED
      BY <1>2, <2>1, <3>1, MapAfterType
  <2>5. HotCopied(v) \in Int
    <3>1. {p \in HotPages(flash[v]) : IsCopied(flash[v], flash[WFI], p)} \in SUBSET PageNo
      BY DEF HotPages
    <3>2. HotCopied(v) \in 0 .. BLOCK_SIZE
      BY <3>1, PageSets DEF HotCopied
    <3> QED
      BY <3>2, BlockAssumption
  <2>6. hotValidPages' \in [Block -> Int]
    BY <1>2, <2>1, <2>5
  <2>7. Integrity(flash', map', lpn)
    BY <1>1, <1>2, <2>1, CollectIntegrity DEF Collected
  <2> QED
    BY <2>3, <2>4, <2>6, <2>7
<1>4. ASSUME ~CanErase(flash[v])
      PROVE  flash' = flash /\ map' = map /\ hotValidPages' = hotValidPages
  BY <1>4 DEF CollectVictim, EraseAndCopyInto
<1>5. cursor' \in Block
  BY DEF CollectVictim, IInv, TypeOK
<1>6. currentPE' \in 0 .. UINT_MOD - 1
  <2>1. \A n \in Int : n % UINT_MOD \in 0 .. UINT_MOD - 1
    BY PlaneAssumption, BlockAssumption
  <2>2. currentPE - 1 \in Int
    BY PlaneAssumption DEF IInv, TypeOK
  <2> QED
    BY <2>1, <2>2 DEF CollectVictim, PEAfter, IInv, TypeOK
<1>7. /\ flash' \in [Block -> BlockState] /\ map' \in [LPN -> Address]
      /\ hotValidPages' \in [Block -> Int]
      /\ Integrity(flash', map', lpn)
  BY <1>2, <1>3, <1>4
<1> QED
  BY <1>1, <1>5, <1>6, <1>7

LEMMA CollectInvariant ==
  ASSUME IInv, NEW v \in Block, CollectAll(v) \/ CollectFill(v)
  PROVE  IInv'
<1>1. CollectVictim(v)
  BY DEF CollectAll, CollectFill
<1>2. pc = "gc" /\ pc' = "gc" /\ lpn' = lpn
  BY <1>1 DEF CollectVictim
<1>3. WFE' \in Block /\ WFI' \in Block /\ WFE' # WFI'
  BY <1>1, CollectVictimInvariant DEF CollectAll, CollectFill, IInv, TypeOK
<1>4. TypeOK'
  BY <1>1, <1>2, <1>3, CollectVictimInvariant DEF IInv, TypeOK
<1>5. MapIntegrity'
  BY <1>1, <1>2, CollectVictimInvariant DEF MapIntegrity
<1> QED
  BY <1>2, <1>3, <1>4, <1>5 DEF IInv, ProgramsEmptyPage

LEMMA WriteFinishInvariant ==
  ASSUME IInv, WriteFinish
  PROVE  IInv'
<1> DEFINE q == NextPage(flash[WFE])
<1>1. /\ flash \in [Block -> BlockState] /\ map \in [LPN -> Address]
      /\ WFE \in Block /\ lpn \in LPN
      /\ Integrity(flash, map, lpn)
  BY DEF IInv, TypeOK, MapIntegrity, WriteFinish
<1>2. q \in PageNo /\ flash[WFE].data[q] = EMPTY
  BY NextPageIsFree DEF WriteFinish
<1>3. /\ SeekNextPage(flash[WFE]) \in BlockState
      /\ SeekNextPage(flash[WFE]).data = flash[WFE].data
  BY <1>1, SeekType DEF WriteFinish
<1>4. /\ flash' = [flash EXCEPT ![WFE] = SeekNextPage(@)]
      /\ map' = [map EXCEPT ![lpn] = [block |-> WFE, page |-> q]]
      /\ hotValidPages' = [hotValidPages EXCEPT ![WFE] = @ + IsHot(lpn)]
  BY DEF WriteFinish
<1> HIDE DEF q
<1>5. flash' \in [Block -> BlockState] /\ \A b \in Block : flash'[b].data = flash[b].data
  BY <1>1, <1>3, <1>4
<1>6. map' \in [LPN -> Address] /\ map'[lpn] = [block |-> WFE, page |-> q]
  BY <1>1, <1>2, <1>4 DEF Address
<1>7. hotValidPages' \in [Block -> Int]
  BY <1>1, <1>4, HotBitIsInt DEF IInv, TypeOK
<1>8. TypeOK'
  BY <1>5, <1>6, <1>7 DEF IInv, TypeOK, WriteFinish
<1>9. MapIntegrity'
  <2>1. Integrity(flash', map', lpn)
    BY <1>1, <1>4, <1>5, PointIntegrity
  <2> QED
    BY <2>1 DEF MapIntegrity, WriteFinish
<1>10. ProgramsEmptyPage'
  BY <1>1, <1>2, <1>5, <1>6 DEF ProgramsEmptyPage, WriteFinish
<1> QED
  BY <1>8, <1>9, <1>10 DEF IInv, WriteFinish

LEMMA ProgramInvariant ==
  ASSUME IInv, Program
  PROVE  IInv'
<1>1. /\ flash \in [Block -> BlockState] /\ map \in [LPN -> Address] /\ lpn \in LPN
      /\ Integrity(flash, map, lpn)
      /\ flash[map[lpn].block].data[map[lpn].page] = EMPTY
  BY DEF IInv, TypeOK, MapIntegrity, ProgramsEmptyPage, Program
<1>2. map[lpn].block \in Block /\ map[lpn].page \in PageNo
  BY <1>1 DEF Address
<1>3. flash' = [flash EXCEPT ![map[lpn].block] = WritePage(@, map[lpn].page, lpn)]
  BY DEF Program
<1>4. flash' \in [Block -> BlockState]
  BY <1>1, <1>2, <1>3, WritePageType
<1>5. TypeOK'
  BY <1>4 DEF IInv, TypeOK, Program
<1>6. Integrity(flash', map, NONE)
  BY <1>1, <1>3, ProgramIntegrity
<1>7. MapIntegrity'
  BY <1>6 DEF MapIntegrity, Program
<1> QED
  BY <1>5, <1>7 DEF IInv, ProgramsEmptyPage, Program

LEMMA StutterInvariant ==
  ASSUME IInv, UNCHANGED vars
  PROVE  IInv'
BY DEF vars, IInv, TypeOK, MapIntegrity, ProgramsEmptyPage

LEMMA NextInvariant == IInv /\ [Next]_vars => IInv'
<1> SUFFICES ASSUME IInv, [Next]_vars PROVE IInv'
  OBVIOUS
<1>1. CASE \E l \in LPN : WriteStart(l)
  BY <1>1, WriteStartInvariant
<1>2. CASE \E v \in Block : CollectAll(v)
  BY <1>2, CollectInvariant
<1>3. CASE \E v \in Block : CollectFill(v)
  BY <1>3, CollectInvariant
<1>4. CASE WriteFinish
  BY <1>4, WriteFinishInvariant
<1>5. CASE Program
  BY <1>5, ProgramInvariant
<1>6. CASE UNCHANGED vars
  BY <1>6, StutterInvariant
<1> QED
  BY <1>1, <1>2, <1>3, <1>4, <1>5, <1>6 DEF Next

(* IInv holds in every reachable state.                                     *)
THEOREM Invariant == Spec => []IInv
<1>1. Init => IInv
  BY InitInvariant
<1>2. IInv /\ [Next]_vars => IInv'
  BY NextInvariant
<1> QED
  BY <1>1, <1>2, PTL DEF Spec

(* Type correctness: every address the FTL computes exists, min_seek_empty  *)
(* stays within the block, erases_remaining never goes below zero.          *)
THEOREM TypeCorrect == Spec => []TypeOK
<1>1. IInv => TypeOK
  BY DEF IInv
<1> QED
  BY <1>1, Invariant, PTL

(* No sequence of writes and collections loses, duplicates or resurrects a  *)
(* logical page, worn-out victims included (check_ftl_integrity).           *)
THEOREM MapSafe == Spec => []MapIntegrity
<1>1. IInv => MapIntegrity
  BY DEF IInv
<1> QED
  BY <1>1, Invariant, PTL

(* The assertion of Page::_write never fails for a host write.              *)
THEOREM ProgramSafe == Spec => []ProgramsEmptyPage
<1>1. IInv => ProgramsEmptyPage
  BY DEF IInv
<1> QED
  BY <1>1, Invariant, PTL

-----------------------------------------------------------------------------
(* The caller's view: at any time the pages a read finds are all but the    *)
(* one in flight, so WriteStart accepts a write, Program completes it, and  *)
(* every other step is invisible.                                          *)

LEMMA StoredIsAllButInFlight == IInv => StoredPages = LPN \ {lpn}
BY AllButInFlightStored DEF IInv, TypeOK, MapIntegrity, StoredPages

LEMMA InitRefines == Init /\ IInv => Promise!DiskInit
<1> SUFFICES ASSUME Init, IInv PROVE Promise!DiskInit
  OBVIOUS
<1>1. lpn = NONE
  BY DEF Init
<1>2. StoredPages = LPN
  BY <1>1, StoredIsAllButInFlight, PlaneAssumption
<1> QED
  BY <1>1, <1>2 DEF Promise!DiskInit

LEMMA StepRefines ==
  IInv /\ IInv' /\ [Next]_vars => [Promise!DiskNext]_(Promise!diskvars)
<1> SUFFICES ASSUME IInv, IInv', [Next]_vars
             PROVE  Promise!DiskNext \/ UNCHANGED Promise!diskvars
  OBVIOUS
<1>1. StoredPages = LPN \ {lpn}
  BY StoredIsAllButInFlight
<1>2. StoredPages' = LPN \ {lpn'}
  <2>1. (IInv => StoredPages = LPN \ {lpn})'
    BY StoredIsAllButInFlight, PTL
  <2> QED
    BY <2>1
<1>3. CASE lpn' = lpn
  <2>1. StoredPages' = StoredPages
    BY <1>1, <1>2, <1>3
  <2> QED
    BY <1>3, <2>1 DEF Promise!diskvars
<1>4. ASSUME NEW l \in LPN, WriteStart(l)
      PROVE  Promise!DiskNext
  <2>1. lpn = NONE /\ lpn' = l
    BY <1>4 DEF WriteStart, IInv, TypeOK
  <2>2. StoredPages' = StoredPages \ {l}
    BY <1>1, <1>2, <2>1, PlaneAssumption
  <2>3. Promise!Accept(l)
    BY <2>1, <2>2 DEF Promise!Accept
  <2> QED
    BY <2>3 DEF Promise!DiskNext
<1>5. ASSUME Program
      PROVE  Promise!DiskNext
  <2>1. lpn \in LPN /\ lpn' = NONE
    BY <1>5 DEF Program, IInv, TypeOK
  <2>2. StoredPages' = StoredPages \cup {lpn}
    BY <1>1, <1>2, <2>1, PlaneAssumption
  <2>3. Promise!Complete
    BY <2>1, <2>2, PlaneAssumption DEF Promise!Complete
  <2> QED
    BY <2>3 DEF Promise!DiskNext
<1>6. ASSUME NEW v \in Block, CollectAll(v) \/ CollectFill(v)
      PROVE  lpn' = lpn
  BY <1>6 DEF CollectAll, CollectFill, CollectVictim
<1>7. ASSUME WriteFinish
      PROVE  lpn' = lpn
  BY <1>7 DEF WriteFinish
<1>8. ASSUME UNCHANGED vars
      PROVE  lpn' = lpn
  BY <1>8 DEF vars
<1> QED
  BY <1>3, <1>4, <1>5, <1>6, <1>7, <1>8 DEF Next

(* Every page but the one in flight can be read at any time, and a write is *)
(* completed before the next one is accepted.                              *)
THEOREM ImplementsDiskSafety == Spec => ImplementsDisk
<1>1. Init => IInv
  BY InitInvariant
<1>2. Init /\ IInv => Promise!DiskInit
  BY InitRefines
<1>3. IInv /\ IInv' /\ [Next]_vars => [Promise!DiskNext]_(Promise!diskvars)
  BY StepRefines
<1> QED
  BY <1>1, <1>2, <1>3, Invariant, PTL DEF Spec, ImplementsDisk, Promise!DiskSafety

-----------------------------------------------------------------------------
(* Wear.                                                                   *)

(* What a step does to the erase budgets and to the drivers' counter.       *)
LEMMA StepWear ==
  ASSUME IInv, [Next]_vars
  PROVE  \/ /\ \A b \in Block : flash'[b].erases_remaining = flash[b].erases_remaining
            /\ currentPE' = currentPE
         \/ \E v \in Block :
              /\ \A b \in Block \ {v} :
                   flash'[b].erases_remaining = flash[b].erases_remaining
              /\ flash'[v].erases_remaining =
                   IF CanErase(flash[v]) THEN WearOne(flash[v])
                                         ELSE flash[v].erases_remaining
              /\ currentPE' = PEAfter(currentPE, flash'[v].erases_remaining)
<1> DEFINE Same == \A b \in Block : flash'[b].erases_remaining = flash[b].erases_remaining
<1>1. /\ flash \in [Block -> BlockState] /\ map \in [LPN -> Address]
      /\ WFE \in Block /\ WFI \in Block
  BY DEF IInv, TypeOK
<1>2. ASSUME NEW l \in LPN, WriteStart(l)
      PROVE  Same /\ currentPE' = currentPE
  BY <1>1, <1>2 DEF WriteStart, InvalidatePage, BlockState, Address
<1>3. ASSUME NEW v \in Block, CollectVictim(v)
      PROVE  /\ \A b \in Block \ {v} :
                   flash'[b].erases_remaining = flash[b].erases_remaining
             /\ flash'[v].erases_remaining =
                   IF CanErase(flash[v]) THEN WearOne(flash[v])
                                         ELSE flash[v].erases_remaining
             /\ currentPE' = PEAfter(currentPE, flash'[v].erases_remaining)
  <2>1. v # WFI
    BY <1>3, CollectVictimInvariant
  <2>2. CASE CanErase(flash[v])
    <3>1. flash' = [flash EXCEPT ![v] = VictimAfter(flash[v], flash[WFI]),
                                 ![WFI] = CopyBlockAfter(flash[v], flash[WFI])]
      BY <1>3, <2>2 DEF CollectVictim, EraseAndCopyInto
    <3>2. VictimAfter(flash[v], flash[WFI]).erases_remaining = WearOne(flash[v])
      BY DEF VictimAfter
    <3>3. CopyBlockAfter(flash[v], flash[WFI]).erases_remaining
            = flash[WFI].erases_remaining
      BY <1>1 DEF CopyBlockAfter, BlockState
    <3> QED
      BY <1>1, <1>3, <2>1, <2>2, <3>1, <3>2, <3>3 DEF CollectVictim
  <2>3. CASE ~CanErase(flash[v])
    BY <1>3, <2>3 DEF CollectVictim, EraseAndCopyInto
  <2> QED
    BY <2>2, <2>3
<1>4. ASSUME WriteFinish
      PROVE  Same /\ currentPE' = currentPE
  BY <1>1, <1>4, SeekType DEF WriteFinish
<1>5. ASSUME Program
      PROVE  Same /\ currentPE' = currentPE
  BY <1>1, <1>5 DEF Program, WritePage, BlockState
<1>6. ASSUME UNCHANGED vars
      PROVE  Same /\ currentPE' = currentPE
  BY <1>6 DEF vars
<1> QED
  BY <1>2, <1>3, <1>4, <1>5, <1>6 DEF Next, CollectAll, CollectFill

LEMMA PEStep == IInv /\ PEBoundsWear /\ [Next]_vars => PEBoundsWear'
<1> SUFFICES ASSUME IInv, PEBoundsWear, [Next]_vars,
                    \A b \in Block : flash'[b].erases_remaining > 0,
                    NEW b \in Block
             PROVE  currentPE' <= flash'[b].erases_remaining
  BY DEF PEBoundsWear
<1> DEFINE before(c) == flash[c].erases_remaining
           after(c)  == flash'[c].erases_remaining
<1>1. \A c \in Block : before(c) \in Nat
  BY DEF IInv, TypeOK, BlockState
<1>2. currentPE \in Nat
  BY PlaneAssumption DEF IInv, TypeOK
<1>3. CASE /\ \A c \in Block : after(c) = before(c)
           /\ currentPE' = currentPE
  BY <1>3 DEF PEBoundsWear
<1>4. ASSUME NEW v \in Block,
             \A c \in Block \ {v} : after(c) = before(c),
             after(v) = IF CanErase(flash[v]) THEN WearOne(flash[v]) ELSE before(v),
             currentPE' = PEAfter(currentPE, after(v))
      PROVE  currentPE' <= after(b)
  <2>1. after(v) \in {before(v), before(v) - 1} /\ after(v) > 0
    BY <1>4 DEF WearOne
  <2>2. \A c \in Block : before(c) > 0
    BY <1>1, <1>4, <2>1
  <2>3. \A c \in Block : currentPE <= before(c)
    BY <2>2 DEF PEBoundsWear
  <2>4. CASE currentPE >= after(v)
    <3>1. currentPE - 1 \in 0 .. UINT_MOD - 1
      BY <1>1, <1>2, <2>1, <2>4, PlaneAssumption DEF IInv, TypeOK
    <3>2. (currentPE - 1) % UINT_MOD = currentPE - 1
      BY <3>1, PlaneAssumption, BlockAssumption
    <3>3. currentPE' = currentPE - 1
      BY <1>4, <2>4, <3>2 DEF PEAfter
    <3> QED
      BY <1>1, <1>2, <1>4, <2>1, <2>3, <3>3
  <2>5. CASE ~(currentPE >= after(v))
    <3>1. currentPE' = currentPE /\ currentPE <= after(v)
      BY <1>1, <1>2, <1>4, <2>1, <2>5 DEF PEAfter
    <3> QED
      BY <1>4, <2>3, <3>1
  <2> QED
    BY <2>4, <2>5
<1> QED
  BY <1>3, <1>4, StepWear

(* The counter by which the drivers stop never promises more than the most  *)
(* worn block has left, as long as no block is worn out.                    *)
THEOREM PESound == Spec => []PEBoundsWear
<1>1. Init => PEBoundsWear
  <2> SUFFICES ASSUME Init, NEW b \in Block
               PROVE  currentPE <= flash[b].erases_remaining
    BY DEF PEBoundsWear
  <2>1. PICK place : flash = PlacedFlash(place)
    BY DEF Init
  <2>2. flash[b].erases_remaining = BLOCK_ERASES
    BY <2>1 DEF PlacedFlash, PlacedBlock, NewBlock
  <2> QED
    BY <2>2, BlockAssumption DEF Init
<1>2. IInv /\ PEBoundsWear /\ [Next]_vars => PEBoundsWear'
  BY PEStep
<1> QED
  BY <1>1, <1>2, Invariant, PTL DEF Spec

-----------------------------------------------------------------------------
(* Flash discipline, for a build that counts wear.                          *)

LEMMA NoOverwriteStep ==
  ASSUME COUNT_WEAR = TRUE, IInv, [Next]_vars, NEW b \in Block, NEW p \in PageNo
  PROVE  \/ flash'[b].data[p] \in {flash[b].data[p], INVALID}
         \/ flash[b].data[p] = EMPTY
         \/ flash'[b].erases_remaining < flash[b].erases_remaining
<1> DEFINE Kept == flash'[b].data[p] \in {flash[b].data[p], INVALID}
<1>1. /\ flash \in [Block -> BlockState] /\ map \in [LPN -> Address]
      /\ WFE \in Block /\ WFI \in Block
  BY DEF IInv, TypeOK
<1>2. ASSUME NEW l \in LPN, WriteStart(l)
      PROVE  Kept
  <2>1. map[l].block \in Block /\ map[l].page \in PageNo
    BY <1>1 DEF Address
  <2>2. InvalidatePage(flash[map[l].block], map[l].page).data =
          [flash[map[l].block].data EXCEPT ![map[l].page] = INVALID]
    BY <1>1, <2>1, InvalidateType
  <2>3. flash[map[l].block].data \in PageData
    BY <1>1, <2>1 DEF BlockState
  <2> QED
    BY <1>1, <1>2, <2>1, <2>2, <2>3 DEF WriteStart, PageData
<1>3. ASSUME NEW v \in Block, CollectVictim(v)
      PROVE  \/ Kept
             \/ flash[b].data[p] = EMPTY
             \/ flash'[b].erases_remaining < flash[b].erases_remaining
  <2>1. v # WFI
    BY <1>3, CollectVictimInvariant
  <2>2. CASE CanErase(flash[v])
    <3>1. flash' = [flash EXCEPT ![v] = VictimAfter(flash[v], flash[WFI]),
                                 ![WFI] = CopyBlockAfter(flash[v], flash[WFI])]
      BY <1>3, <2>2 DEF CollectVictim, EraseAndCopyInto
    <3>2. CASE b = v
      <4>1. flash'[b].erases_remaining = flash[b].erases_remaining - 1
        BY <1>1, <2>1, <3>1, <3>2 DEF VictimAfter, WearOne
      <4>2. flash[b].erases_remaining \in Nat
        BY <1>1 DEF BlockState
      <4> QED
        BY <4>1, <4>2
    <3>3. CASE b = WFI
      <4>1. p \in FreePages(flash[b]) => flash[b].data[p] = EMPTY
        BY DEF FreePages
      <4>2. p \notin FreePages(flash[b]) => flash'[b].data[p] = flash[b].data[p]
        BY <1>1, <3>1, <3>3 DEF CopyBlockAfter, BlockState
      <4> QED
        BY <4>1, <4>2
    <3>4. CASE b \notin {v, WFI}
      BY <1>1, <3>1, <3>4
    <3> QED
      BY <3>2, <3>3, <3>4
  <2>3. CASE ~CanErase(flash[v])
    BY <1>3, <2>3 DEF CollectVictim, EraseAndCopyInto
  <2> QED
    BY <2>2, <2>3
<1>4. ASSUME WriteFinish
      PROVE  Kept
  BY <1>1, <1>4, SeekType DEF WriteFinish
<1>5. ASSUME Program
      PROVE  Kept \/ flash[b].data[p] = EMPTY
  <2>1. /\ lpn \in LPN /\ map[lpn].block \in Block /\ map[lpn].page \in PageNo
        /\ flash[map[lpn].block].data[map[lpn].page] = EMPTY
    BY <1>1, <1>5 DEF Program, IInv, TypeOK, Address, ProgramsEmptyPage
  <2>2. WritePage(flash[map[lpn].block], map[lpn].page, lpn).data =
          [flash[map[lpn].block].data EXCEPT ![map[lpn].page] = lpn]
    BY <1>1, <2>1, WritePageType
  <2>3. flash[map[lpn].block].data \in PageData
    BY <1>1, <2>1 DEF BlockState
  <2> QED
    BY <1>1, <1>5, <2>1, <2>2, <2>3 DEF Program, PageData
<1>6. ASSUME UNCHANGED vars
      PROVE  Kept
  BY <1>6 DEF vars
<1> QED
  BY <1>2, <1>3, <1>4, <1>5, <1>6 DEF Next, CollectAll, CollectFill

(* A programmed page is never programmed again before its block is erased.  *)
THEOREM NeverOverwrites ==
  ASSUME COUNT_WEAR = TRUE
  PROVE  Spec => NoOverwriteWithoutErase
<1>1. IInv /\ [Next]_vars =>
        [\A b \in Block : \A p \in PageNo :
           \/ flash'[b].data[p] \in {flash[b].data[p], INVALID}
           \/ flash[b].data[p] = EMPTY
           \/ flash'[b].erases_remaining < flash[b].erases_remaining]_vars
  BY NoOverwriteStep
<1> QED
  BY <1>1, Invariant, PTL DEF Spec, NoOverwriteWithoutErase

-----------------------------------------------------------------------------
(* The counters.                                                           *)

LEMMA CountersStep == IInv /\ CountersExact /\ [Next]_vars => CountersExact'
<1> SUFFICES ASSUME IInv, CountersExact, [Next]_vars
             PROVE  \A b \in Block : Counted(flash'[b])
  BY DEF CountersExact
<1>1. /\ flash \in [Block -> BlockState] /\ map \in [LPN -> Address]
      /\ WFE \in Block /\ WFI \in Block
      /\ \A b \in Block : Counted(flash[b])
  BY DEF IInv, TypeOK, CountersExact
<1>2. ASSUME NEW l \in LPN, WriteStart(l)
      PROVE  \A b \in Block : Counted(flash'[b])
  <2>1. map[l].block \in Block /\ map[l].page \in PageNo
    BY <1>1 DEF Address
  <2>2. Counted(InvalidatePage(flash[map[l].block], map[l].page))
    BY <1>1, <2>1, CountedInvalidate
  <2> QED
    BY <1>1, <1>2, <2>1, <2>2, PlaneCounted DEF WriteStart
<1>3. ASSUME NEW v \in Block, CollectVictim(v)
      PROVE  \A b \in Block : Counted(flash'[b])
  <2>1. v # WFI
    BY <1>3, CollectVictimInvariant
  <2>2. CASE CanErase(flash[v])
    BY <1>1, <1>3, <2>1, <2>2, CollectCounted DEF CollectVictim, EraseAndCopyInto
  <2>3. CASE ~CanErase(flash[v])
    BY <1>1, <1>3, <2>3 DEF CollectVictim, EraseAndCopyInto
  <2> QED
    BY <2>2, <2>3
<1>4. ASSUME WriteFinish
      PROVE  \A b \in Block : Counted(flash'[b])
  BY <1>1, <1>4, CountedSeek, PlaneCounted DEF WriteFinish
<1>5. ASSUME Program
      PROVE  \A b \in Block : Counted(flash'[b])
  <2>1. /\ lpn \in LPN /\ map[lpn].block \in Block /\ map[lpn].page \in PageNo
        /\ flash[map[lpn].block].data[map[lpn].page] = EMPTY
    BY <1>1, <1>5 DEF Program, IInv, TypeOK, Address, ProgramsEmptyPage
  <2>2. Counted(WritePage(flash[map[lpn].block], map[lpn].page, lpn))
    BY <1>1, <2>1, CountedWrite
  <2> QED
    BY <1>1, <1>5, <2>1, <2>2, PlaneCounted DEF Program
<1>6. ASSUME UNCHANGED vars
      PROVE  \A b \in Block : Counted(flash'[b])
  BY <1>1, <1>6 DEF vars
<1> QED
  BY <1>2, <1>3, <1>4, <1>5, <1>6 DEF Next, CollectAll, CollectFill

LEMMA InitCounters == Init => CountersExact
<1> SUFFICES ASSUME Init PROVE \A b \in Block : Counted(flash[b])
  BY DEF CountersExact
<1>1. PICK place \in Placements([l \in LPN |-> Block \ {0, 1}]) :
        flash = PlacedFlash(place)
  BY DEF Init
<1> QED
  BY <1>1, PlacementsFit, CountedPlaced

(* pages_valid and pages_invalid, which choose the victim and decide whether *)
(* it fits, are the numbers of pages of that kind, and get_next_page finds   *)
(* every page get_pages_empty counts, after any writes and collections.     *)
THEOREM CountersRight == Spec => []CountersExact
<1>1. Init => CountersExact
  BY InitCounters
<1>2. IInv /\ CountersExact /\ [Next]_vars => CountersExact'
  BY CountersStep
<1> QED
  BY <1>1, <1>2, Invariant, PTL DEF Spec

-----------------------------------------------------------------------------
(* hotValidPages.                                                           *)

(* Between WriteFinish and Program the page counted ahead is WFE's.          *)
HotInv ==
  /\ HotPagesExact
  /\ pc = "program" => map[lpn].block = WFE

LEMMA HotPagesAreHolding ==
  /\ \A blk : HotPages(blk) = PagesHolding(blk, HOT)
  /\ \A v \in Block : HotCopied(v) = Cardinality(CopiedHolding(flash[v], flash[WFI], HOT))
BY DEF HotPages, HotCopied, PagesHolding, CopiedHolding

LEMMA HotIsLPN == HOT \in SUBSET LPN
BY DWFAssumption

LEMMA WriteStartHot ==
  ASSUME IInv, HotInv, NEW l \in LPN, WriteStart(l)
  PROVE  HotInv'
<1> DEFINE a == map[l].block
           p == map[l].page
           new == InvalidatePage(flash[a], p)
<1>1. /\ flash \in [Block -> BlockState] /\ hotValidPages \in [Block -> Int]
      /\ a \in Block /\ p \in PageNo
  BY DEF IInv, TypeOK, Address
<1>2. flash[a].data[p] = l
  BY PlaneAssumption DEF WriteStart, IInv, TypeOK, MapIntegrity, Integrity
<1>3. \A b \in Block : hotValidPages[b] = Cardinality(PagesHolding(flash[b], HOT))
  BY HotPagesAreHolding, HoldingSets DEF HotInv, HotPagesExact, WriteStart
<1>4. Cardinality(PagesHolding(new, HOT)) = Cardinality(PagesHolding(flash[a], HOT)) - IsHot(l)
  BY <1>1, <1>2, InvalidateHolding, HotIsLPN, HoldingSets DEF IsHot
<1>5. /\ flash' = [flash EXCEPT ![a] = new]
      /\ hotValidPages' = [hotValidPages EXCEPT ![a] = @ - IsHot(l)]
      /\ pc' = "gc"
  BY DEF WriteStart
<1> HIDE DEF a, p, new
<1>6. \A b \in Block : hotValidPages'[b] = Cardinality(PagesHolding(flash'[b], HOT))
  BY <1>1, <1>3, <1>4, <1>5
<1> QED
  BY <1>5, <1>6, HotPagesAreHolding, HoldingSets DEF HotInv, HotPagesExact

LEMMA CollectHot ==
  ASSUME IInv, HotInv, NEW v \in Block, CollectVictim(v)
  PROVE  HotInv'
<1>1. /\ flash \in [Block -> BlockState] /\ hotValidPages \in [Block -> Int]
      /\ WFI \in Block /\ v # WFI
  BY CollectVictimInvariant DEF IInv, TypeOK
<1>2. pc = "gc" /\ pc' = "gc"
  BY DEF CollectVictim
<1>3. \A b \in Block : hotValidPages[b] = Cardinality(PagesHolding(flash[b], HOT))
  BY <1>2, HotPagesAreHolding, HoldingSets DEF HotInv, HotPagesExact
<1>4. CASE CanErase(flash[v])
  <2> DEFINE newV == VictimAfter(flash[v], flash[WFI])
             newW == CopyBlockAfter(flash[v], flash[WFI])
             n == Cardinality(CopiedHolding(flash[v], flash[WFI], HOT))
  <2>1. /\ flash' = [flash EXCEPT ![v] = newV, ![WFI] = newW]
        /\ hotValidPages' = [hotValidPages EXCEPT ![v] = @ - n, ![WFI] = @ + n]
    BY <1>4, HotPagesAreHolding DEF CollectVictim, EraseAndCopyInto
  <2>2. Cardinality(PagesHolding(newV, HOT)) = Cardinality(PagesHolding(flash[v], HOT)) - n
    BY <1>1, VictimHolding, HotIsLPN
  <2>3. Cardinality(PagesHolding(newW, HOT)) = Cardinality(PagesHolding(flash[WFI], HOT)) + n
    BY <1>1, CopyBlockHolding, HotIsLPN
  <2> HIDE DEF newV, newW, n
  <2>4. \A b \in Block : hotValidPages'[b] = Cardinality(PagesHolding(flash'[b], HOT))
    BY <1>1, <1>3, <2>1, <2>2, <2>3
  <2> QED
    BY <1>2, <2>4, HotPagesAreHolding, HoldingSets DEF HotInv, HotPagesExact
<1>5. CASE ~CanErase(flash[v])
  <2>1. flash' = flash /\ hotValidPages' = hotValidPages
    BY <1>5 DEF CollectVictim, EraseAndCopyInto
  <2> QED
    BY <1>2, <1>3, <2>1, HotPagesAreHolding, HoldingSets DEF HotInv, HotPagesExact
<1> QED
  BY <1>4, <1>5

LEMMA WriteFinishHot ==
  ASSUME IInv, HotInv, WriteFinish
  PROVE  HotInv'
<1>1. /\ flash \in [Block -> BlockState] /\ hotValidPages \in [Block -> Int]
      /\ map \in [LPN -> Address] /\ WFE \in Block /\ lpn \in LPN
  BY DEF IInv, TypeOK, WriteFinish
<1>2. /\ pc' = "program" /\ WFE' = WFE /\ lpn' = lpn
      /\ hotValidPages' = [hotValidPages EXCEPT ![WFE] = @ + IsHot(lpn)]
      /\ map' = [map EXCEPT ![lpn] = [block |-> WFE, page |-> NextPage(flash[WFE])]]
      /\ flash' = [flash EXCEPT ![WFE] = SeekNextPage(@)]
  BY DEF WriteFinish
<1>3. \A b \in Block : hotValidPages[b] = Cardinality(PagesHolding(flash[b], HOT))
  BY HotPagesAreHolding, HoldingSets DEF HotInv, HotPagesExact, WriteFinish
<1>4. \A b \in Block : flash'[b].data = flash[b].data
  BY <1>1, <1>2, SeekType DEF WriteFinish
<1>5. \A b \in Block : PagesHolding(flash'[b], HOT) = PagesHolding(flash[b], HOT)
  BY <1>4 DEF PagesHolding
<1>6. \A b \in Block : Cardinality(PagesHolding(flash[b], HOT)) \in Int
  BY HoldingSets
<1>7. \A b \in Block :
        hotValidPages'[b] = Cardinality(PagesHolding(flash'[b], HOT))
                            + IF b = WFE THEN IsHot(lpn) ELSE 0
  BY <1>1, <1>2, <1>3, <1>5, <1>6
<1>8. map'[lpn'].block = WFE'
  BY <1>1, <1>2
<1> QED
  BY <1>2, <1>7, <1>8, HotPagesAreHolding DEF HotInv, HotPagesExact, IsHot

LEMMA ProgramHot ==
  ASSUME IInv, HotInv, Program
  PROVE  HotInv'
<1> DEFINE p == map[lpn].page
           new == WritePage(flash[WFE], p, lpn)
<1>1. /\ flash \in [Block -> BlockState] /\ hotValidPages \in [Block -> Int]
      /\ WFE \in Block /\ lpn \in LPN /\ map[lpn].block = WFE /\ p \in PageNo
      /\ flash[WFE].data[p] = EMPTY
  BY DEF IInv, TypeOK, Address, Program, HotInv, ProgramsEmptyPage
<1>2. /\ pc = "program" /\ pc' = "idle" /\ hotValidPages' = hotValidPages
      /\ flash' = [flash EXCEPT ![WFE] = new]
  BY <1>1 DEF Program
<1>3. \A b \in Block :
        hotValidPages[b] = Cardinality(PagesHolding(flash[b], HOT))
                           + IF b = WFE THEN IsHot(lpn) ELSE 0
  BY <1>2, HotPagesAreHolding DEF HotInv, HotPagesExact
<1>4. Cardinality(PagesHolding(new, HOT)) =
        Cardinality(PagesHolding(flash[WFE], HOT)) + IsHot(lpn)
  BY <1>1, WriteHolding, HotIsLPN, HoldingSets DEF IsHot
<1>5. \A b \in Block : Cardinality(PagesHolding(flash[b], HOT)) \in Int
  BY HoldingSets
<1> HIDE DEF p, new
<1>6. \A b \in Block : hotValidPages'[b] = Cardinality(PagesHolding(flash'[b], HOT))
  BY <1>1, <1>2, <1>3, <1>4, <1>5
<1> QED
  BY <1>2, <1>6, HotPagesAreHolding, HoldingSets DEF HotInv, HotPagesExact

LEMMA InitHot == Init => HotInv
<1> SUFFICES ASSUME Init PROVE HotInv
  OBVIOUS
<1>1. PICK place \in Placements([l \in LPN |-> Block \ {0, 1}]) :
        /\ flash = PlacedFlash(place)
        /\ hotValidPages = [b \in Block |-> Cardinality({l \in HOT : place[l] = b})]
  BY DEF Init
<1>2. ASSUME NEW b \in Block
      PROVE  hotValidPages[b] = Cardinality(PagesHolding(flash[b], HOT))
  BY <1>1, PlacementsFit, PlacedHolding, HotIsLPN DEF PlacedFlash
<1>3. pc = "idle"
  BY DEF Init
<1> QED
  BY <1>2, <1>3, HotPagesAreHolding, HoldingSets DEF HotInv, HotPagesExact

LEMMA HotStep == IInv /\ HotInv /\ [Next]_vars => HotInv'
<1> SUFFICES ASSUME IInv, HotInv, [Next]_vars PROVE HotInv'
  OBVIOUS
<1>1. CASE UNCHANGED vars
  BY <1>1 DEF vars, HotInv, HotPagesExact
<1> QED
  BY <1>1, WriteStartHot, CollectHot, WriteFinishHot, ProgramHot
     DEF Next, CollectAll, CollectFill

(* hotValidPages, kept by the callbacks of every collection, is the number   *)
(* of hot pages of every block (check_hot_pages), one ahead in WFE while a   *)
(* hot page waits to be programmed.                                        *)
THEOREM HotPagesRight == Spec => []HotPagesExact
<1>1. Init => HotInv
  BY InitHot
<1>2. IInv /\ HotInv /\ [Next]_vars => HotInv'
  BY HotStep
<1>3. HotInv => HotPagesExact
  BY DEF HotInv
<1> QED
  BY <1>1, <1>2, <1>3, Invariant, PTL DEF Spec

=============================================================================
