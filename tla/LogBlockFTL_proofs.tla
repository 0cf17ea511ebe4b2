------------------------- MODULE LogBlockFTL_proofs -------------------------
(***************************************************************************)
(* Theorems about the two log-block FTLs, for every size of blocks, drive    *)
(* and log, every first free block and every set of pages that are written   *)
(* and trimmed.                                                            *)
(*                                                                         *)
(* BAST: the inductive invariant IInv, the properties that follow from it,   *)
(* and that the FTL implements SparseDisk.                                  *)
(*                                                                         *)
(* FAST: the inductive invariant FastIInv and the properties that follow.    *)
(* Its part FastBase holds of every state; FastRegular, of those before a    *)
(* trim empties a block.                                                   *)
(***************************************************************************)
EXTENDS BAST, FAST, BlockManager_proofs, WellFoundedInduction

-----------------------------------------------------------------------------
(* Who owns a block.  The definitions of BAST, with the state as parameters. *)

Own(d)  == {d} \ {NULL}
OwnLog(log) == IF log = NULL THEN {} ELSE {log.address}

DataOf(data)   == {data[a] : a \in LBA} \ {NULL}
LoggedIn(logs) == {a \in LBA : logs[a] # NULL}
LogOf(logs)    == {logs[a].address : a \in LoggedIn(logs)}

Owned(free, data, logs) == free \cup DataOf(data) \cup LogOf(logs)

Apart(free, data, logs) ==
  /\ \A a \in LBA : data[a] # NULL =>
       /\ data[a] \notin free
       /\ \A c \in LBA : c # a => data[c] # data[a]
       /\ \A c \in LBA : logs[c] # NULL => logs[c].address # data[a]
  /\ \A a \in LBA : logs[a] # NULL =>
       /\ logs[a].address \notin free
       /\ \A c \in LBA : c # a /\ logs[c] # NULL => logs[c].address # logs[a].address

LEMMA NullIsNoBlock == NULL \notin Block /\ \A b \in Block : NewLogBlock(b) # NULL
<1>1. \A b \in Block : NewLogBlock(b) \in LogBlock
  BY DEF NewLogBlock, LogBlock
<1> QED
  BY <1>1, BASTAssumption DEF Block

LEMMA EveryBlockOnceMeans ==
  EveryBlockOnce <=>
    /\ NoBlockTwice(bm.free_list)
    /\ Apart(FreeBlocks(bm), data_list, log_map)
    /\ \A b \in FreeBlocks(bm) : flash[b] = Erased
    /\ NUM_BLOCKS - Cardinality(Owned(FreeBlocks(bm), data_list, log_map)) \in FIRST_FREE
<1>1. DataBlocks = DataOf(data_list) /\ LogBlocks = LogOf(log_map)
  BY DEF DataBlocks, DataOf, LogBlocks, LogOf, Logged, LoggedIn
<1>2. Apart(FreeBlocks(bm), data_list, log_map) <=>
        /\ DataOf(data_list) \cap LogOf(log_map) = {}
        /\ FreeBlocks(bm) \cap (DataOf(data_list) \cup LogOf(log_map)) = {}
        /\ \A a, c \in LBA : a # c =>
             /\ data_list[a] # NULL => data_list[a] # data_list[c]
             /\ a \in Logged /\ c \in Logged => log_map[a].address # log_map[c].address
  BY DEF Apart, DataOf, LogOf, LoggedIn, Logged
<1> QED
  BY <1>1, <1>2 DEF EveryBlockOnce, Owned

(* How many they are.                                                      *)
One(x) == IF x = NULL THEN 0 ELSE 1

LEMMA CountExchanged ==
  ASSUME NEW S, IsFiniteSet(S), NEW x, NEW y,
         x # NULL => x \in S, y # NULL => y \notin S \ {x}, NULL \notin S
  PROVE  Cardinality((S \ {x}) \cup Own(y)) = Cardinality(S) - One(x) + One(y)
<1> DEFINE R == S \ {x}
<1>1. Cardinality(S) \in Nat
  BY FS_CardinalityType
<1>2. IsFiniteSet(R) /\ Cardinality(R) = Cardinality(S) - One(x)
  <2>1. CASE x = NULL
    <3>1. R = S
      BY <2>1
    <3>2. IsFiniteSet(R) /\ Cardinality(R) = Cardinality(S)
      BY <3>1
    <3>3. One(x) = 0
      BY <2>1 DEF One
    <3> HIDE DEF R
    <3> QED
      BY <1>1, <3>2, <3>3
  <2>2. CASE x # NULL
    <3>1. x \in S /\ One(x) = 1
      BY <2>2 DEF One
    <3>2. IsFiniteSet(R) /\ Cardinality(R) = Cardinality(S) - 1
      BY <3>1, FS_RemoveElement
    <3> HIDE DEF R
    <3> QED
      BY <3>1, <3>2
  <2> QED
    BY <2>1, <2>2
<1>3. Cardinality(R) \in Nat
  BY <1>2, FS_CardinalityType
<1>6. R \cup Own(y) = (S \ {x}) \cup Own(y)
  OBVIOUS
<1>7. One(x) \in {0, 1}
  BY DEF One
<1>8. y # NULL => y \notin R
  OBVIOUS
<1> HIDE DEF R
<1>4. CASE y = NULL
  <2>1. R \cup Own(y) = R /\ One(y) = 0
    BY <1>4 DEF Own, One
  <2> QED
    <3>1. Cardinality((S \ {x}) \cup Own(y)) = Cardinality(R)
      BY <2>1, <1>6
    <3> QED
      BY <1>1, <1>2, <1>7, <2>1, <3>1
<1>5. CASE y # NULL
  <2>1. R \cup Own(y) = R \cup {y} /\ One(y) = 1 /\ y \notin R
    BY <1>5, <1>8 DEF Own, One
  <2>2. IsFiniteSet(R \cup {y}) /\ Cardinality(R \cup {y}) = Cardinality(R) + 1
    BY <1>2, <2>1, FS_AddElement
  <2> QED
    <3>1. Cardinality((S \ {x}) \cup Own(y)) = Cardinality(R) + 1
      BY <2>1, <2>2, <1>6
    <3> QED
      BY <1>1, <1>2, <1>7, <2>1, <3>1
<1> QED
  BY <1>4, <1>5

LEMMA DataCount ==
  ASSUME NEW data \in [LBA -> Block \cup {NULL}],
         \A c, e \in LBA : c # e /\ data[c] # NULL => data[c] # data[e],
         NEW a \in LBA, NEW d \in Block \cup {NULL},
         d # NULL => \A c \in LBA \ {a} : data[c] # d
  PROVE  Cardinality(DataOf([data EXCEPT ![a] = d]))
           = Cardinality(DataOf(data)) - One(data[a]) + One(d)
<1>1. IsFiniteSet(Block)
  BY FS_Interval, NandAssumption DEF Block
<1>2. IsFiniteSet(DataOf(data))
  <2>1. DataOf(data) \in SUBSET Block
    BY DEF DataOf
  <2> QED
    BY <1>1, <2>1, FS_Subset
<1>3. /\ data[a] # NULL => data[a] \in DataOf(data)
      /\ d # NULL => d \notin DataOf(data) \ {data[a]}
      /\ NULL \notin DataOf(data)
  BY DEF DataOf
<1>4. DataOf([data EXCEPT ![a] = d]) = (DataOf(data) \ {data[a]}) \cup Own(d)
  BY DEF DataOf, Own
<1>5. Cardinality((DataOf(data) \ {data[a]}) \cup Own(d))
        = Cardinality(DataOf(data)) - One(data[a]) + One(d)
  BY <1>2, <1>3, CountExchanged
<1> QED
  BY <1>4, <1>5

LEMMA LogCount ==
  ASSUME NEW logs \in [LBA -> LogBlock \cup {NULL}],
         NEW a \in LBA, NEW log \in LogBlock \cup {NULL}
  PROVE  Cardinality(LoggedIn([logs EXCEPT ![a] = log]))
           = Cardinality(LoggedIn(logs)) - One(logs[a]) + One(log)
<1> DEFINE out == IF logs[a] = NULL THEN NULL ELSE a
           in  == IF log = NULL THEN NULL ELSE a
<1>1. (NUM_LPN - 1) \div BLOCK_SIZE \in Int
  BY BlockSizeType, NandAssumption
<1>2. IsFiniteSet(LBA) /\ NULL \notin LBA
  BY <1>1, FS_Interval, BASTAssumption DEF LBA
<1>3. IsFiniteSet(LoggedIn(logs))
  <2>1. LoggedIn(logs) \in SUBSET LBA
    BY DEF LoggedIn
  <2> QED
    BY <1>2, <2>1, FS_Subset
<1>4. /\ out # NULL => out \in LoggedIn(logs)
      /\ in # NULL => in \notin LoggedIn(logs) \ {out}
      /\ NULL \notin LoggedIn(logs)
  BY <1>2 DEF LoggedIn
<1>5. LoggedIn([logs EXCEPT ![a] = log]) = (LoggedIn(logs) \ {out}) \cup Own(in)
  BY <1>2 DEF LoggedIn, Own
<1>6. One(out) = One(logs[a]) /\ One(in) = One(log)
  BY <1>2 DEF One
<1> HIDE DEF out, in
<1>7. Cardinality((LoggedIn(logs) \ {out}) \cup Own(in))
        = Cardinality(LoggedIn(logs)) - One(out) + One(in)
  BY <1>3, <1>4, CountExchanged
<1> QED
  BY <1>5, <1>6, <1>7

-----------------------------------------------------------------------------
(* The invariant, owner by owner.                                          *)

NewestIn(f, log, a) ==
  \A l \in LPN : LbaOf(l) = a /\ log.pages[OffsetOf(l)] # -1 =>
    f[log.address][log.pages[OffsetOf(l)]] = l

InOrder(pages) ==
  \A p, q \in PageNo : p < q /\ pages[p] = EMPTY => pages[q] = EMPTY

LogRight(f, log, a) == log # NULL => NewestIn(f, log, a) /\ InOrder(f[log.address])

Free == FreeBlocks(bm)

Parts ==
  /\ TypeOK
  /\ HandsOutOnce(bm)
  /\ Apart(Free, data_list, log_map)
  /\ \A b \in Free : flash[b] = Erased
  /\ NUM_BLOCKS - Cardinality(Owned(Free, data_list, log_map)) \in FIRST_FREE
  /\ bm.log_active = Cardinality(LoggedIn(log_map))
  /\ bm.log_active <= BAST_LOG_PAGE_LIMIT
  /\ bm.data_active = Cardinality(DataOf(data_list))
  /\ \A a \in LBA : LogRight(flash, log_map[a], a)

LEMMA InvariantParts == IInv <=> Parts
<1>1. TypeOK /\ HandsOutOnce(bm) => NoBlockTwice(bm.free_list)
  BY NothingTwice DEF TypeOK
<1>2. DataBlocks = DataOf(data_list) /\ Logged = LoggedIn(log_map)
  BY DEF DataBlocks, DataOf, Logged, LoggedIn
<1>3. LogIsNewest /\ LogInOrder <=> \A a \in LBA : LogRight(flash, log_map[a], a)
  <2>1. LogInOrder <=> \A a \in LBA : log_map[a] # NULL => InOrder(flash[log_map[a].address])
    BY DEF LogInOrder, Logged, InOrder
  <2>2. LogIsNewest <=> \A a \in LBA : log_map[a] # NULL => NewestIn(flash, log_map[a], a)
    BY PositionType DEF LogIsNewest, InLog, PageRead, NewestIn
  <2> QED
    BY <2>1, <2>2 DEF LogRight
<1> QED
  BY <1>1, <1>2, <1>3, EveryBlockOnceMeans
     DEF IInv, Parts, Free, CountersMatchTables

LEMMA InvariantPartsNext == IInv' <=> Parts'
BY InvariantParts, PTL

-----------------------------------------------------------------------------
(* Init establishes the invariant, and each action preserves it.            *)

LEMMA InitInvariant == Init => IInv
<1> SUFFICES ASSUME Init PROVE IInv
  OBVIOUS
<1>1. PICK first \in FIRST_FREE : bm = NewManager(first)
  BY DEF Init
<1>2. first \in 0 .. NUM_BLOCKS /\ NUM_BLOCKS \in Nat
  BY BlockManagerAssumption, NandAssumption
<1>3. bm \in Manager /\ bm.simpleCurrentFree = first /\ bm.free_list = <<>>
  BY <1>1, <1>2 DEF NewManager, Manager
<1>4. HandsOutOnce(bm) /\ Free = first .. NUM_BLOCKS - 1
  BY <1>3 DEF HandsOutOnce, Free, FreeBlocks, Blocks
<1>5. TypeOK
  BY <1>3, ErasedType DEF Init, TypeOK, Pages
<1>6. DataOf(data_list) = {} /\ LoggedIn(log_map) = {} /\ LogOf(log_map) = {}
  BY DEF Init, DataOf, LoggedIn, LogOf
<1>7. NUM_BLOCKS - Cardinality(Owned(Free, data_list, log_map)) = first
  <2>1. Owned(Free, data_list, log_map) = first .. NUM_BLOCKS - 1
    BY <1>4, <1>6 DEF Owned
  <2>2. Cardinality(first .. NUM_BLOCKS - 1) = NUM_BLOCKS - first
    <3> DEFINE last == NUM_BLOCKS - 1
    <3>1. first \in Int /\ last \in Int /\ first <= last + 1 /\ NUM_BLOCKS = last + 1
      BY <1>2
    <3> HIDE DEF last
    <3>2. Cardinality(first .. last) = IF first > last THEN 0 ELSE last - first + 1
      BY <3>1, FS_Interval
    <3> QED
      BY <3>1, <3>2 DEF last
  <2> QED
    BY <1>2, <2>1, <2>2
<1>8. Cardinality({}) = 0
  BY FS_EmptySet
<1>9. bm.log_active = 0 /\ bm.data_active = 0
  BY <1>1 DEF NewManager
<1>10. \A b \in Free : flash[b] = Erased
  BY <1>2, <1>4 DEF Init, Block
<1>11. Apart(Free, data_list, log_map) /\ \A a \in LBA : LogRight(flash, log_map[a], a)
  BY DEF Init, Apart, LogRight
<1>12. Parts
  BY <1>3, <1>4, <1>5, <1>6, <1>7, <1>8, <1>9, <1>10, <1>11, BASTAssumption DEF Parts
<1> QED
  BY <1>12, InvariantParts

LEMMA UnchangedInvariant ==
  ASSUME IInv, TypeOK', UNCHANGED <<flash, bm, data_list, log_map>>
  PROVE  IInv'
<1>1. Parts
  BY InvariantParts
<1>2. Free' = Free
  BY DEF Free
<1>3. Parts'
  BY <1>1, <1>2 DEF Parts
<1> QED
  BY <1>3, InvariantPartsNext

LEMMA WriteStartInvariant ==
  ASSUME IInv, NEW l \in LPN, WriteStart(l)
  PROVE  IInv'
<1>1. l # NULL
  BY BASTAssumption, NandAssumption DEF LPN
<1>2. TypeOK'
  BY <1>1 DEF IInv, TypeOK, WriteStart
<1> QED
  BY <1>2, UnchangedInvariant DEF WriteStart

LEMMA AbortInvariant ==
  ASSUME IInv, Abort
  PROVE  IInv'
<1>1. pc = "write"
  BY DEF Abort, NoFreeBlock, MayAllocate, MustGo, LogPageTaken, MayWrite
<1>2. TypeOK'
  BY <1>1 DEF IInv, TypeOK, Abort
<1> QED
  BY <1>2, UnchangedInvariant DEF Abort

(* A log block whose pages did not change is still right.                   *)
LEMMA LogKept ==
  ASSUME NEW f, NEW g, NEW log, NEW a, LogRight(f, log, a),
         log # NULL => g[log.address] = f[log.address]
  PROVE  LogRight(g, log, a)
BY DEF LogRight, NewestIn

(* The data block of a is given back.                                       *)
LEMMA DataErased ==
  ASSUME NEW f \in [Block -> Pages], NEW a \in LBA, data_list[a] \in Block \cup {NULL}
  PROVE  /\ DataBlockErased(f, a) \in [Block -> Pages]
         /\ \A b \in Block : b # data_list[a] => DataBlockErased(f, a)[b] = f[b]
         /\ data_list[a] # NULL => DataBlockErased(f, a)[data_list[a]] = Erased
BY ErasedType DEF DataBlockErased, Erase

LEMMA DataFreed ==
  ASSUME NEW m \in Manager, HandsOutOnce(m), NEW a \in LBA,
         data_list[a] \in Block \cup {NULL},
         data_list[a] # NULL => data_list[a] \notin FreeBlocks(m)
  PROVE  /\ DataBlockFreed(m, a) \in Manager
         /\ HandsOutOnce(DataBlockFreed(m, a))
         /\ FreeBlocks(DataBlockFreed(m, a)) = FreeBlocks(m) \cup Own(data_list[a])
         /\ DataBlockFreed(m, a).log_active = m.log_active
         /\ DataBlockFreed(m, a).data_active = m.data_active - One(data_list[a])
<1>1. CASE data_list[a] = NULL
  <2>1. m.data_active = m.data_active - 0
    BY DEF Manager
  <2> QED
    BY <1>1, <2>1 DEF DataBlockFreed, Own, One
<1>2. CASE data_list[a] # NULL
  <2>1. /\ DataBlockFreed(m, a) = erase_and_invalidate(m, data_list[a], "DATA")
        /\ Own(data_list[a]) = {data_list[a]} /\ One(data_list[a]) = 1
        /\ data_list[a] \in Block /\ data_list[a] \notin FreeBlocks(m)
    BY <1>2 DEF DataBlockFreed, Own, One
  <2> QED
    BY <2>1, EraseAndInvalidate, ManagerCounters
<1> QED
  BY <1>1, <1>2

LEMMA MustGoIsLogged ==
  ASSUME TypeOK, NEW a \in LBA, MustGo(a)
  PROVE  log_map[a] # NULL /\ log_map[a] \in LogBlock /\ log_map[a].address \in Block
<1>1. log_map[a] # NULL
  BY DEF MustGo, IsVictim, Logged
<1> QED
  BY <1>1 DEF TypeOK, LogBlock

(* One logical block, and the free blocks, exchange what they own.          *)
LEMMA Exchange ==
  ASSUME Apart(Free, data_list, log_map),
         data_list \in [LBA -> Block \cup {NULL}], log_map \in [LBA -> LogBlock \cup {NULL}],
         NEW a \in LBA, NEW d \in Block \cup {NULL}, NEW log \in LogBlock \cup {NULL},
         data_list' = [data_list EXCEPT ![a] = d], log_map' = [log_map EXCEPT ![a] = log],
         Free' \cup Own(d) \cup OwnLog(log)
           = Free \cup Own(data_list[a]) \cup OwnLog(log_map[a]),
         d \notin Free' \/ d = NULL, d \notin OwnLog(log), OwnLog(log) \cap Free' = {}
  PROVE  /\ Apart(Free', data_list', log_map')
         /\ Owned(Free', data_list', log_map') = Owned(Free, data_list, log_map)
<1> DEFINE Here  == Free \cup Own(data_list[a]) \cup OwnLog(log_map[a])
<1>1. /\ data_list'[a] = d /\ \A c \in LBA : c # a => data_list'[c] = data_list[c]
      /\ log_map'[a] = log /\ \A c \in LBA : c # a => log_map'[c] = log_map[c]
  OBVIOUS
<1>2. \A c \in LBA : c # a =>
        /\ data_list[c] # NULL => data_list[c] \notin Here
        /\ log_map[c] # NULL => log_map[c].address \notin Here
  BY DEF Apart, Own, OwnLog
<1>3. /\ Free' \subseteq Here
      /\ d # NULL => d \in Here /\ d \notin Free'
      /\ log # NULL => log.address \in Here /\ log.address \notin Free' /\ log.address # d
  BY DEF Own, OwnLog
<1>4. \A x : x \in Here <=>
        x \in Free' \/ (d # NULL /\ x = d) \/ (log # NULL /\ x = log.address)
  BY DEF Own, OwnLog
<1>5. \A x : x \in Here <=>
        \/ x \in Free
        \/ data_list[a] # NULL /\ x = data_list[a]
        \/ log_map[a] # NULL /\ x = log_map[a].address
  BY DEF Own, OwnLog
<1> HIDE DEF Here
<1>6. Apart(Free', data_list', log_map')
  <2>1. ASSUME NEW c \in LBA, data_list'[c] # NULL
        PROVE  /\ data_list'[c] \notin Free'
               /\ \A e \in LBA : e # c => data_list'[e] # data_list'[c]
               /\ \A e \in LBA : log_map'[e] # NULL => log_map'[e].address # data_list'[c]
    <3>1. CASE c = a
      BY <1>1, <1>2, <1>3, <2>1, <3>1
    <3>2. CASE c # a
      BY <1>1, <1>2, <1>3, <2>1, <3>2 DEF Apart
    <3> QED
      BY <3>1, <3>2
  <2>2. ASSUME NEW c \in LBA, log_map'[c] # NULL
        PROVE  /\ log_map'[c].address \notin Free'
               /\ \A e \in LBA : e # c /\ log_map'[e] # NULL =>
                    log_map'[e].address # log_map'[c].address
    <3>1. CASE c = a
      BY <1>1, <1>2, <1>3, <2>2, <3>1
    <3>2. CASE c # a
      BY <1>1, <1>2, <1>3, <2>2, <3>2 DEF Apart
    <3> QED
      BY <3>1, <3>2
  <2> QED
    BY <2>1, <2>2 DEF Apart
<1>7. Owned(Free', data_list', log_map') = Owned(Free, data_list, log_map)
  <2>1. \A x : x \in Owned(Free', data_list', log_map') <=>
          \/ x \in Here
          \/ \E c \in LBA : c # a /\ data_list[c] # NULL /\ x = data_list[c]
          \/ \E c \in LBA : c # a /\ log_map[c] # NULL /\ x = log_map[c].address
    BY <1>1, <1>4 DEF Owned, DataOf, LogOf, LoggedIn
  <2>2. \A x : x \in Owned(Free, data_list, log_map) <=>
          \/ x \in Here
          \/ \E c \in LBA : c # a /\ data_list[c] # NULL /\ x = data_list[c]
          \/ \E c \in LBA : c # a /\ log_map[c] # NULL /\ x = log_map[c].address
    BY <1>5 DEF Owned, DataOf, LogOf, LoggedIn
  <2> QED
    BY <2>1, <2>2
<1> QED
  BY <1>6, <1>7

(* A step by which the logical block a and the free blocks exchange what they *)
(* own, as the manager counts it, preserves the invariant.                  *)
LEMMA ExchangeInvariant ==
  ASSUME Parts, NEW a \in LBA, NEW d \in Block \cup {NULL},
         NEW log \in LogBlock \cup {NULL},
         flash' \in [Block -> Pages], bm' \in Manager, HandsOutOnce(bm'),
         data_list' = [data_list EXCEPT ![a] = d],
         log_map' = [log_map EXCEPT ![a] = log],
         pc' \in {"idle", "write", "aborted"}, lpn' \in LPN \cup {NULL},
         pc' = "idle" <=> lpn' = NULL,
         Free' \cup Own(d) \cup OwnLog(log)
           = Free \cup Own(data_list[a]) \cup OwnLog(log_map[a]),
         d \notin Free' \/ d = NULL, d \notin OwnLog(log), OwnLog(log) \cap Free' = {},
         bm'.log_active = bm.log_active - One(log_map[a]) + One(log),
         bm'.data_active = bm.data_active - One(data_list[a]) + One(d),
         bm'.log_active <= BAST_LOG_PAGE_LIMIT,
         \A b \in Free' : flash'[b] = Erased,
         LogRight(flash', log, a),
         \A c \in LBA \ {a} : LogRight(flash', log_map[c], c)
  PROVE  IInv'
<1>1. /\ data_list \in [LBA -> Block \cup {NULL}]
      /\ log_map \in [LBA -> LogBlock \cup {NULL}]
      /\ bm.log_active = Cardinality(LoggedIn(log_map))
      /\ bm.data_active = Cardinality(DataOf(data_list))
      /\ Apart(Free, data_list, log_map)
      /\ NUM_BLOCKS - Cardinality(Owned(Free, data_list, log_map)) \in FIRST_FREE
  BY DEF Parts, TypeOK
<1>2. TypeOK'
  <2>1. /\ data_list' \in [LBA -> Block \cup {NULL}]
        /\ log_map' \in [LBA -> LogBlock \cup {NULL}]
    BY <1>1
  <2> QED
    BY <2>1 DEF TypeOK, Pages
<1>3. /\ Apart(Free', data_list', log_map')
      /\ Owned(Free', data_list', log_map') = Owned(Free, data_list, log_map)
  BY <1>1, Exchange
<1>4. bm'.log_active = Cardinality(LoggedIn(log_map'))
  <2>1. Cardinality(LoggedIn(log_map'))
          = Cardinality(LoggedIn(log_map)) - One(log_map[a]) + One(log)
    BY <1>1, LogCount
  <2> QED
    BY <1>1, <2>1
<1>5. bm'.data_active = Cardinality(DataOf(data_list'))
  <2>1. \A c, e \in LBA : c # e /\ data_list[c] # NULL => data_list[c] # data_list[e]
    BY <1>1 DEF Apart
  <2>2. d # NULL => \A c \in LBA \ {a} : data_list[c] # d
    BY <1>1, <1>3 DEF Apart
  <2>3. Cardinality(DataOf(data_list'))
          = Cardinality(DataOf(data_list)) - One(data_list[a]) + One(d)
    BY <1>1, <2>1, <2>2, DataCount
  <2> QED
    BY <1>1, <2>3
<1>6. \A c \in LBA : LogRight(flash', log_map'[c], c)
  BY <1>1
<1>7. Parts'
  BY <1>1, <1>2, <1>3, <1>4, <1>5, <1>6 DEF Parts
<1> QED
  BY <1>7, InvariantPartsNext

(* What the blocks of a are.                                               *)
LEMMA BlocksOf ==
  ASSUME Parts, NEW a \in LBA
  PROVE  /\ flash \in [Block -> Pages] /\ bm \in Manager /\ HandsOutOnce(bm)
         /\ data_list \in [LBA -> Block \cup {NULL}]
         /\ log_map \in [LBA -> LogBlock \cup {NULL}]
         /\ NULL \notin Block /\ Free \subseteq Block
         /\ data_list[a] \in Block \cup {NULL} /\ log_map[a] \in LogBlock \cup {NULL}
         /\ data_list[a] # NULL => data_list[a] \in Block /\ data_list[a] \notin Free
         /\ log_map[a] # NULL =>
              /\ log_map[a] \in LogBlock /\ log_map[a].address \in Block
              /\ log_map[a].address \notin Free /\ log_map[a].address # data_list[a]
<1>1. /\ flash \in [Block -> Pages] /\ bm \in Manager /\ HandsOutOnce(bm)
      /\ data_list \in [LBA -> Block \cup {NULL}]
      /\ log_map \in [LBA -> LogBlock \cup {NULL}]
      /\ Apart(Free, data_list, log_map)
  BY DEF Parts, TypeOK, Pages
<1>2. NULL \notin Block /\ Free \subseteq Block
  BY <1>1, NothingTwice, NullIsNoBlock DEF Free
<1>3. data_list[a] \in Block \cup {NULL} /\ log_map[a] \in LogBlock \cup {NULL}
  BY <1>1
<1>4. data_list[a] # NULL => data_list[a] \in Block /\ data_list[a] \notin Free
  BY <1>1, <1>3 DEF Apart
<1>5. log_map[a] # NULL => log_map[a] \in LogBlock /\ log_map[a].address \in Block
  BY <1>3 DEF LogBlock
<1>6. log_map[a] # NULL => log_map[a].address \notin Free
  BY <1>1 DEF Apart
<1>7. log_map[a] # NULL => log_map[a].address # data_list[a]
  BY <1>1, <1>2, <1>5 DEF Apart
<1> QED
  BY <1>1, <1>2, <1>3, <1>4, <1>5, <1>6, <1>7

(* Other log blocks are neither free nor a's.                               *)
LEMMA OthersKept ==
  ASSUME Parts, NEW a \in LBA, NEW g,
         \A b \in Block \ (Free \cup Own(data_list[a]) \cup OwnLog(log_map[a])) :
           g[b] = flash[b]
  PROVE  \A c \in LBA \ {a} : LogRight(g, log_map[c], c)
<1> SUFFICES ASSUME NEW c \in LBA \ {a}
             PROVE  LogRight(g, log_map[c], c)
  OBVIOUS
<1>1. LogRight(flash, log_map[c], c)
  BY DEF Parts
<1>2. ASSUME log_map[c] # NULL
      PROVE  g[log_map[c].address] = flash[log_map[c].address]
  <2>1. log_map[c].address \in Block /\ log_map[c].address \notin Free
    BY <1>2, BlocksOf
  <2>2. /\ data_list[a] # NULL => log_map[c].address # data_list[a]
        /\ log_map[a] # NULL => log_map[c].address # log_map[a].address
    BY <1>2 DEF Parts, Apart
  <2>3. log_map[c].address \notin Own(data_list[a]) \cup OwnLog(log_map[a])
    BY <2>2 DEF Own, OwnLog
  <2> QED
    BY <2>1, <2>3
<1> QED
  BY <1>1, <1>2, LogKept

LEMMA SwitchLogInvariant ==
  ASSUME IInv, NEW a \in LBA, SwitchLog(a)
  PROVE  IInv'
<1> DEFINE old == data_list[a]
           log == log_map[a]
           promoted == promote_block(bm, "DATA")
<1>1. Parts
  BY InvariantParts
<1>2. /\ flash \in [Block -> Pages] /\ bm \in Manager /\ HandsOutOnce(bm)
      /\ NULL \notin Block /\ Free \subseteq Block /\ old \in Block \cup {NULL}
      /\ old # NULL => old \notin Free
  BY <1>1, BlocksOf
<1>3. /\ log # NULL /\ log.address \in Block /\ log.address \notin Free
      /\ log.address # old
  BY <1>1, MustGoIsLogged, BlocksOf DEF Parts, SwitchLog
<1>4. /\ promoted \in Manager /\ HandsOutOnce(promoted) /\ FreeBlocks(promoted) = Free
      /\ promoted.data_active = bm.data_active + 1
      /\ promoted.log_active = bm.log_active - 1
  BY <1>2, PromoteToData DEF Free
<1>5. /\ bm' \in Manager /\ HandsOutOnce(bm')
      /\ Free' = Free \cup Own(old)
      /\ bm'.log_active = bm.log_active - 1
      /\ bm'.data_active = (bm.data_active + 1) - One(old)
  <2>1. bm' = DataBlockFreed(promoted, a)
    BY DEF SwitchLog
  <2> HIDE DEF promoted
  <2> QED
    BY <1>2, <1>4, <2>1, DataFreed DEF Free
<1>6. /\ flash' \in [Block -> Pages]
      /\ \A b \in Block : b # old => flash'[b] = flash[b]
      /\ old # NULL => flash'[old] = Erased
  BY <1>2, DataErased DEF SwitchLog
<1>7. /\ data_list' = [data_list EXCEPT ![a] = log.address]
      /\ log_map' = [log_map EXCEPT ![a] = NULL] /\ pc' = pc /\ lpn' = lpn
      /\ pc \in {"idle", "write", "aborted"} /\ lpn \in LPN \cup {NULL}
      /\ pc = "idle" <=> lpn = NULL
  BY <1>1 DEF SwitchLog, Parts, TypeOK
<1>8. /\ Free' \cup Own(log.address) \cup OwnLog(NULL) = Free \cup Own(old) \cup OwnLog(log)
      /\ log.address \notin Free' /\ log.address \notin OwnLog(NULL)
      /\ OwnLog(NULL) \cap Free' = {}
  BY <1>2, <1>3, <1>5 DEF Own, OwnLog
<1>9. \A b \in Free' : flash'[b] = Erased
  BY <1>1, <1>2, <1>5, <1>6 DEF Parts, Own
<1>10. /\ One(log) = 1 /\ One(NULL) = 0 /\ One(log.address) = 1 /\ One(old) \in Int
       /\ bm.log_active \in Int /\ bm.data_active \in Int
       /\ BAST_LOG_PAGE_LIMIT \in Int /\ bm.log_active <= BAST_LOG_PAGE_LIMIT
  BY <1>1, <1>2, <1>3, BASTAssumption DEF One, Manager, Parts
<1>11. LogRight(flash', NULL, a) /\ \A c \in LBA \ {a} : LogRight(flash', log_map[c], c)
  <2>1. \A b \in Block \ (Free \cup Own(old) \cup OwnLog(log)) : flash'[b] = flash[b]
    BY <1>2, <1>6 DEF Own
  <2>2. \A c \in LBA \ {a} : LogRight(flash', log_map[c], c)
    BY <1>1, <2>1, OthersKept
  <2> QED
    BY <2>2 DEF LogRight
<1> HIDE DEF old, log
<1>12. /\ bm'.log_active = bm.log_active - One(log) + One(NULL)
       /\ bm'.data_active = bm.data_active - One(old) + One(log.address)
       /\ bm'.log_active <= BAST_LOG_PAGE_LIMIT
  BY <1>5, <1>10
<1> QED
  BY <1>1, <1>3, <1>5, <1>6, <1>7, <1>8, <1>9, <1>11, <1>12, ExchangeInvariant DEF old, log

LEMMA MergedType ==
  ASSUME Parts, NEW a \in LBA, log_map[a] # NULL
  PROVE  Merged(a) \in Pages
<1>1. /\ flash \in [Block -> Pages] /\ log_map[a] \in LogBlock
      /\ log_map[a].address \in Block
      /\ data_list[a] # NULL => data_list[a] \in Block
  BY BlocksOf
<1>2. ASSUME NEW p \in PageNo
      PROVE  /\ log_map[a].pages[p] # -1 => log_map[a].pages[p] \in PageNo
             /\ Merged(a)[p] \in LPN \cup {EMPTY, INVALID, OLD}
  <2>1. log_map[a].pages[p] # -1 => log_map[a].pages[p] \in PageNo
    BY <1>1 DEF LogBlock
  <2>2. \A b \in Block, q \in PageNo : flash[b][q] \in LPN \cup {EMPTY, INVALID, OLD}
    BY <1>1 DEF Pages
  <2> QED
    BY <1>1, <2>1, <2>2 DEF Merged, ValidData
<1> QED
  BY <1>2 DEF Merged, Pages

(* What a merge does to the pages.                                         *)
LEMMA MergeEffect ==
  ASSUME Parts, NEW a \in LBA, MergeLog(a)
  PROVE  /\ FreeBlock(bm) \in Free /\ FreeBlock(bm) \in Block
         /\ flash' \in [Block -> Pages]
         /\ flash'[FreeBlock(bm)] = Merged(a)
         /\ flash'[log_map[a].address] = Erased
         /\ data_list[a] # NULL => flash'[data_list[a]] = Erased
         /\ \A b \in Block : b # data_list[a] /\ b # log_map[a].address /\ b # FreeBlock(bm)
              => flash'[b] = flash[b]
<1> DEFINE old == data_list[a]
           log == log_map[a]
           new == FreeBlock(bm)
           merged == [flash EXCEPT ![new] = Merged(a)]
           erased == Erase(merged, log.address)
<1>1. /\ flash \in [Block -> Pages] /\ bm \in Manager /\ HandsOutOnce(bm)
      /\ NULL \notin Block /\ old \in Block \cup {NULL}
      /\ old # NULL => old \notin Free
  BY BlocksOf
<1>2. /\ log # NULL /\ log.address \in Block /\ log.address \notin Free
      /\ log.address # old
  BY MustGoIsLogged, BlocksOf DEF Parts, MergeLog
<1>3. new \in Free /\ new \in Block
  BY <1>1, GetFreeBlock DEF MergeLog, Free
<1>4. merged \in [Block -> Pages]
  BY <1>1, <1>2, <1>3, MergedType
<1>5. erased \in [Block -> Pages] /\ erased[log.address] = Erased
  BY <1>2, <1>4, ErasedType DEF Erase
<1>6. /\ erased[new] = Merged(a)
      /\ \A b \in Block : b # log.address /\ b # new => erased[b] = flash[b]
  BY <1>1, <1>2, <1>3, <1>4 DEF Erase
<1>7. flash' = DataBlockErased(erased, a)
  BY DEF MergeLog
<1> HIDE DEF erased, merged
<1>8. /\ flash' \in [Block -> Pages]
      /\ \A b \in Block : b # old => flash'[b] = erased[b]
      /\ old # NULL => flash'[old] = Erased
  <2>1. /\ DataBlockErased(erased, a) \in [Block -> Pages]
        /\ \A b \in Block : b # old => DataBlockErased(erased, a)[b] = erased[b]
        /\ old # NULL => DataBlockErased(erased, a)[old] = Erased
    BY <1>1, <1>5, DataErased
  <2> QED
    BY <1>7, <2>1
<1>9. new # old /\ new # log.address
  BY <1>1, <1>2, <1>3
<1> HIDE DEF old, log, new
<1>10. flash'[new] = Merged(a) /\ flash'[log.address] = Erased
  BY <1>2, <1>3, <1>5, <1>6, <1>8, <1>9
<1>11. \A b \in Block : b # old /\ b # log.address /\ b # new => flash'[b] = flash[b]
  BY <1>6, <1>8
<1> QED
  BY <1>3, <1>8, <1>10, <1>11 DEF old, log, new

LEMMA MergeLogInvariant ==
  ASSUME IInv, NEW a \in LBA, MergeLog(a)
  PROVE  IInv'
<1> DEFINE old == data_list[a]
           log == log_map[a]
           new == FreeBlock(bm)
           taken == get_free_block(bm, "DATA")
           given == erase_and_invalidate(taken, log.address, "LOG")
<1>1. Parts
  BY InvariantParts
<1>2. /\ flash \in [Block -> Pages] /\ bm \in Manager /\ HandsOutOnce(bm)
      /\ NULL \notin Block /\ Free \subseteq Block /\ old \in Block \cup {NULL}
      /\ old # NULL => old \notin Free
  BY <1>1, BlocksOf
<1>3. /\ log # NULL /\ log.address \in Block /\ log.address \notin Free
      /\ log.address # old
  BY <1>1, MustGoIsLogged, BlocksOf DEF Parts, MergeLog
<1>4. /\ new \in Free /\ new \in Block
      /\ taken \in Manager /\ HandsOutOnce(taken) /\ FreeBlocks(taken) = Free \ {new}
      /\ taken.data_active = bm.data_active + 1 /\ taken.log_active = bm.log_active
  BY <1>2, <1>3, GetFreeBlock, ManagerCounters DEF MergeLog, Free
<1> HIDE DEF taken
<1>5. /\ given \in Manager /\ HandsOutOnce(given)
      /\ FreeBlocks(given) = (Free \ {new}) \cup {log.address}
      /\ given.data_active = bm.data_active + 1
      /\ given.log_active = bm.log_active - 1
  BY <1>3, <1>4, EraseAndInvalidate, ManagerCounters
<1>6. bm' = DataBlockFreed(given, a)
  BY DEF MergeLog, taken
<1> HIDE DEF given
<1>7. old # NULL => old \notin FreeBlocks(given)
  BY <1>2, <1>3, <1>5
<1>8. /\ bm' \in Manager /\ HandsOutOnce(bm')
      /\ Free' = (Free \ {new}) \cup {log.address} \cup Own(old)
      /\ bm'.log_active = bm.log_active - 1
      /\ bm'.data_active = (bm.data_active + 1) - One(old)
  BY <1>2, <1>5, <1>6, <1>7, DataFreed DEF Free
<1>9. /\ flash' \in [Block -> Pages]
      /\ \A b \in Block : b # old /\ b # log.address /\ b # new => flash'[b] = flash[b]
      /\ old # NULL => flash'[old] = Erased
      /\ flash'[log.address] = Erased
  BY <1>1, MergeEffect
<1>10. /\ data_list' = [data_list EXCEPT ![a] = new]
       /\ log_map' = [log_map EXCEPT ![a] = NULL] /\ pc' = pc /\ lpn' = lpn
       /\ pc \in {"idle", "write", "aborted"} /\ lpn \in LPN \cup {NULL}
       /\ pc = "idle" <=> lpn = NULL
  BY <1>1 DEF MergeLog, Parts, TypeOK
<1> HIDE DEF new
<1>11. /\ Free' \cup Own(new) \cup OwnLog(NULL) = Free \cup Own(old) \cup OwnLog(log)
       /\ new \notin Free' /\ new \notin OwnLog(NULL) /\ OwnLog(NULL) \cap Free' = {}
  BY <1>2, <1>3, <1>4, <1>8 DEF Own, OwnLog
<1>12. \A b \in Free' : flash'[b] = Erased
  BY <1>1, <1>2, <1>3, <1>8, <1>9 DEF Parts, Own
<1>13. /\ One(log) = 1 /\ One(NULL) = 0 /\ One(new) = 1 /\ One(old) \in Int
       /\ bm.log_active \in Int /\ bm.data_active \in Int
       /\ BAST_LOG_PAGE_LIMIT \in Int /\ bm.log_active <= BAST_LOG_PAGE_LIMIT
  BY <1>1, <1>2, <1>3, <1>4, BASTAssumption DEF One, Manager, Parts
<1>14. LogRight(flash', NULL, a) /\ \A c \in LBA \ {a} : LogRight(flash', log_map[c], c)
  <2>1. \A b \in Block \ (Free \cup Own(old) \cup OwnLog(log)) : flash'[b] = flash[b]
    BY <1>2, <1>3, <1>4, <1>9 DEF Own, OwnLog
  <2>2. \A c \in LBA \ {a} : LogRight(flash', log_map[c], c)
    BY <1>1, <2>1, OthersKept
  <2> QED
    BY <2>2 DEF LogRight
<1> HIDE DEF old, log
<1>15. /\ bm'.log_active = bm.log_active - One(log) + One(NULL)
       /\ bm'.data_active = bm.data_active - One(old) + One(new)
       /\ bm'.log_active <= BAST_LOG_PAGE_LIMIT
  BY <1>8, <1>13
<1> QED
  BY <1>1, <1>4, <1>8, <1>9, <1>10, <1>11, <1>12, <1>14, <1>15, ExchangeInvariant
     DEF old, log

(* The logical block of the write in flight.                                *)
LEMMA Writing ==
  ASSUME TypeOK, pc = "write"
  PROVE  lpn \in LPN /\ LbaOf(lpn) \in LBA /\ OffsetOf(lpn) \in PageNo
BY PositionType DEF TypeOK

LEMMA AllocateLogInvariant ==
  ASSUME IInv, AllocateLog
  PROVE  IInv'
<1> DEFINE a == LbaOf(lpn)
           new == FreeBlock(bm)
           log == NewLogBlock(new)
<1>1. Parts
  BY InvariantParts
<1>2. pc = "write" /\ lpn \in LPN /\ a \in LBA /\ log_map[a] = NULL
  BY <1>1, Writing DEF Parts, AllocateLog, MayAllocate
<1>3. /\ flash \in [Block -> Pages] /\ bm \in Manager /\ HandsOutOnce(bm)
      /\ data_list \in [LBA -> Block \cup {NULL}]
      /\ NULL \notin Block /\ data_list[a] \in Block \cup {NULL}
      /\ data_list[a] # NULL => data_list[a] \notin Free
  BY <1>1, <1>2, BlocksOf
<1>4. /\ new \in Free /\ new \in Block
      /\ bm' \in Manager /\ HandsOutOnce(bm') /\ Free' = Free \ {new}
      /\ bm'.log_active = bm.log_active + 1 /\ bm'.data_active = bm.data_active
  BY <1>3, GetFreeBlock, ManagerCounters DEF AllocateLog, Free
<1> HIDE DEF a, new
<1>5. /\ log \in LogBlock /\ log # NULL /\ log.address = new
      /\ \A p \in PageNo : log.pages[p] = -1
  BY <1>4, NullIsNoBlock DEF NewLogBlock, LogBlock
<1>6. /\ flash' = flash /\ data_list' = [data_list EXCEPT ![a] = data_list[a]]
      /\ log_map' = [log_map EXCEPT ![a] = log] /\ pc' = "write" /\ lpn' = lpn
  BY <1>2, <1>3 DEF AllocateLog, a, new
<1>7. /\ Free' \cup Own(data_list[a]) \cup OwnLog(log)
           = Free \cup Own(data_list[a]) \cup OwnLog(log_map[a])
      /\ data_list[a] \notin Free' \/ data_list[a] = NULL
      /\ data_list[a] \notin OwnLog(log) /\ OwnLog(log) \cap Free' = {}
  BY <1>2, <1>3, <1>4, <1>5 DEF OwnLog
<1>8. \A b \in Free' : flash'[b] = Erased
  BY <1>1, <1>4, <1>6 DEF Parts
<1>9. LogRight(flash', log, a)
  <2>1. NewestIn(flash', log, a)
    BY <1>5, PositionType DEF NewestIn
  <2>2. flash'[new] = Erased
    BY <1>1, <1>4, <1>6 DEF Parts
  <2>3. InOrder(flash'[log.address])
    BY <1>5, <2>2 DEF InOrder, Erased
  <2> QED
    BY <2>1, <2>3 DEF LogRight
<1>10. \A c \in LBA \ {a} : LogRight(flash', log_map[c], c)
  BY <1>1, <1>6 DEF Parts
<1> HIDE DEF log
<1>11. /\ bm'.log_active = bm.log_active - One(log_map[a]) + One(log)
       /\ bm'.data_active = bm.data_active - One(data_list[a]) + One(data_list[a])
       /\ bm'.log_active <= BAST_LOG_PAGE_LIMIT
  <2>1. /\ One(log_map[a]) = 0 /\ One(log) = 1 /\ One(data_list[a]) \in Int
        /\ bm.log_active \in Int /\ bm.data_active \in Int /\ BAST_LOG_PAGE_LIMIT \in Int
    BY <1>2, <1>3, <1>5, BASTAssumption DEF One, Manager
  <2>2. bm.log_active < BAST_LOG_PAGE_LIMIT
    BY <1>1 DEF Parts, LoggedIn, Logged, AllocateLog, MayAllocate
  <2> QED
    BY <1>4, <2>1, <2>2
<1>12. /\ flash' \in [Block -> Pages] /\ pc' \in {"idle", "write", "aborted"}
       /\ lpn' \in LPN \cup {NULL}
       /\ pc' = "idle" <=> lpn' = NULL
  <2>1. lpn # NULL
    BY <1>2, BASTAssumption, NandAssumption DEF LPN
  <2> QED
    BY <1>2, <1>3, <1>6, <2>1
<1> QED
  BY <1>1, <1>2, <1>3, <1>4, <1>5, <1>6, <1>7, <1>8, <1>9, <1>10, <1>11, <1>12,
     ExchangeInvariant

(* What a write does to the pages.                                         *)
LEMMA WriteEffect ==
  ASSUME Parts, WriteInLog,
         NEW a, a = LbaOf(lpn), NEW off, off = OffsetOf(lpn),
         NEW log, log = log_map[a], NEW old, old = data_list[a], NEW n, n = NextLogPage
  PROVE  /\ lpn \in LPN /\ a \in LBA /\ off \in PageNo /\ n \in PageNo
         /\ log # NULL /\ log \in LogBlock /\ log.address \in Block
         /\ log.address # old /\ log.address \notin Free
         /\ flash[log.address][n] = EMPTY
         /\ log.pages[off] # -1 => flash[log.address][log.pages[off]] = lpn
         /\ flash' \in [Block -> Pages]
         /\ flash'[log.address][n] = lpn
         /\ \A b \in Block, q \in PageNo :
              \/ flash'[b][q] = IF flash[b][q] = lpn THEN OLD ELSE flash[b][q]
              \/ b = log.address /\ q = n
              \/ b = old /\ q = off /\ flash[b][q] # EMPTY /\ flash'[b][q] = INVALID
              \/ /\ b = log.address /\ log.pages[off] # -1 /\ q = log.pages[off]
                 /\ flash'[b][q] = INVALID
<1>1. pc = "write" /\ log # NULL /\ lpn \in LPN /\ a \in LBA /\ off \in PageNo
  BY Writing DEF Parts, WriteInLog, MayWrite
<1>2. /\ flash \in [Block -> Pages] /\ log \in LogBlock /\ log.address \in Block
      /\ log.address # old /\ old \in Block \cup {NULL} /\ log.address \notin Free
  BY <1>1, BlocksOf
<1>3. n \in PageNo /\ flash[log.address][n] = EMPTY
  BY DEF WriteInLog, MayProgram
<1>4. log.pages[off] # -1 =>
        log.pages[off] \in PageNo /\ flash[log.address][log.pages[off]] = lpn
  <2>1. NewestIn(flash, log, a)
    BY <1>1 DEF Parts, LogRight
  <2> QED
    BY <1>1, <1>2, <2>1 DEF NewestIn, LogBlock
<1> DEFINE P == Program(flash, log.address, n, lpn)
<1>5. /\ P \in [Block -> Pages]
      /\ \A b \in Block, q \in PageNo :
           P[b][q] = IF b = log.address /\ q = n THEN lpn
                     ELSE IF flash[b][q] = lpn THEN OLD ELSE flash[b][q]
  BY <1>1, <1>2 DEF Program, Pages
<1>6. flash' = Replaced(P)
  BY DEF WriteInLog
<1> HIDE DEF P
<1>7. CASE old # NULL /\ flash[old][off] # EMPTY
  <2>1. flash' = [P EXCEPT ![old][off] = INVALID]
    BY <1>6, <1>7 DEF Replaced, invalidate_page
  <2>2. old \in Block
    BY <1>2, <1>7
  <2>3. flash' \in [Block -> Pages]
    BY <1>1, <1>5, <2>1, <2>2 DEF Pages
  <2>4. /\ flash'[old][off] = INVALID
        /\ \A b \in Block, q \in PageNo : b # old \/ q # off => flash'[b][q] = P[b][q]
    BY <1>1, <1>5, <2>1, <2>2 DEF Pages
  <2> QED
    BY <1>1, <1>2, <1>3, <1>4, <1>5, <1>7, <2>3, <2>4
<1>8. CASE ~(old # NULL /\ flash[old][off] # EMPTY) /\ log.pages[off] # -1
  <2>1. flash' = [P EXCEPT ![log.address][log.pages[off]] = INVALID]
    BY <1>6, <1>8 DEF Replaced, invalidate_page
  <2>3. flash' \in [Block -> Pages]
    BY <1>2, <1>4, <1>5, <1>8, <2>1 DEF Pages
  <2>4. /\ flash'[log.address][log.pages[off]] = INVALID
        /\ \A b \in Block, q \in PageNo :
             b # log.address \/ q # log.pages[off] => flash'[b][q] = P[b][q]
    BY <1>2, <1>4, <1>5, <1>8, <2>1 DEF Pages
  <2>5. log.pages[off] # n
    BY <1>1, <1>3, <1>4, <1>8, MarksAreNoPages
  <2> QED
    BY <1>1, <1>2, <1>3, <1>4, <1>5, <1>8, <2>3, <2>4, <2>5
<1>9. CASE ~(old # NULL /\ flash[old][off] # EMPTY) /\ log.pages[off] = -1
  <2>1. flash' = P
    BY <1>6, <1>9 DEF Replaced
  <2> QED
    BY <1>1, <1>2, <1>3, <1>4, <1>5, <1>9, <2>1
<1> QED
  BY <1>7, <1>8, <1>9

LEMMA WriteInLogInvariant ==
  ASSUME IInv, WriteInLog
  PROVE  IInv'
<1> DEFINE a == LbaOf(lpn)
           off == OffsetOf(lpn)
           log == log_map[a]
           old == data_list[a]
           n == NextLogPage
           log2 == [log EXCEPT !.pages[off] = n]
<1>1. Parts
  BY InvariantParts
<1>2. /\ lpn \in LPN /\ a \in LBA /\ off \in PageNo /\ n \in PageNo
      /\ log # NULL /\ log \in LogBlock /\ log.address \in Block
      /\ log.address # old /\ log.address \notin Free
      /\ flash[log.address][n] = EMPTY
      /\ log.pages[off] # -1 => flash[log.address][log.pages[off]] = lpn
      /\ flash' \in [Block -> Pages]
      /\ flash'[log.address][n] = lpn
      /\ \A b \in Block, q \in PageNo :
           \/ flash'[b][q] = IF flash[b][q] = lpn THEN OLD ELSE flash[b][q]
           \/ b = log.address /\ q = n
           \/ b = old /\ q = off /\ flash[b][q] # EMPTY /\ flash'[b][q] = INVALID
           \/ /\ b = log.address /\ log.pages[off] # -1 /\ q = log.pages[off]
              /\ flash'[b][q] = INVALID
  BY <1>1, WriteEffect
<1>3. /\ data_list \in [LBA -> Block \cup {NULL}] /\ bm \in Manager /\ HandsOutOnce(bm)
      /\ log_map \in [LBA -> LogBlock \cup {NULL}] /\ flash \in [Block -> Pages]
      /\ NULL \notin Block /\ old \in Block \cup {NULL} /\ Free \subseteq Block
      /\ old # NULL => old \notin Free
  BY <1>1, <1>2, BlocksOf
<1>4. /\ log2 \in LogBlock /\ log2.address = log.address
      /\ log2.pages = [log.pages EXCEPT ![off] = n]
  BY <1>2 DEF LogBlock
<1>5. /\ data_list' = [data_list EXCEPT ![a] = old]
      /\ log_map' = [log_map EXCEPT ![a] = log2]
      /\ bm' = bm /\ pc' = "idle" /\ lpn' = NULL /\ Free' = Free
  BY <1>2, <1>3 DEF WriteInLog, Free
<1>6. /\ EMPTY # OLD /\ INVALID # EMPTY /\ lpn # EMPTY
      /\ \A l \in LPN : l # EMPTY /\ l # OLD /\ l # INVALID
  BY <1>2, MarksDiffer, MarksAreNoPages
<1>7. InOrder(flash[log.address]) /\ NewestIn(flash, log, a)
  BY <1>1, <1>2 DEF Parts, LogRight
<1>8. \A p \in PageNo : p < n => flash[log.address][p] # EMPTY
  <2>1. n = get_free_page(flash[log.address])
    BY DEF NextLogPage
  <2> HIDE DEF n
  <2> QED
    BY <1>2, <1>7, <2>1, NextPageInOrder DEF InOrder
<1>9. log2 # NULL
  BY <1>4, BASTAssumption
<1> HIDE DEF a, off, log, old, n, log2
<1>10. \A b \in Block, q \in PageNo :
         b # log.address \/ q # n => flash'[b][q] = EMPTY <=> flash[b][q] = EMPTY
  BY <1>2, <1>6
<1>11. \A b \in Free' : flash'[b] = Erased
  <2> SUFFICES ASSUME NEW b \in Free PROVE flash'[b] = Erased
    BY <1>5
  <2>1. b \in Block /\ flash[b] = Erased /\ b # log.address
    BY <1>1, <1>2, <1>3 DEF Parts
  <2>2. \A q \in PageNo : flash'[b][q] = EMPTY
    BY <1>10, <2>1 DEF Erased
  <2>3. flash'[b] \in [PageNo -> LPN \cup {EMPTY, INVALID, OLD}]
    BY <1>2, <2>1 DEF Pages
  <2> QED
    BY <2>2, <2>3 DEF Erased
<1>12. NewestIn(flash', log2, a)
  <2> SUFFICES ASSUME NEW l \in LPN, LbaOf(l) = a, log2.pages[OffsetOf(l)] # -1
               PROVE  flash'[log2.address][log2.pages[OffsetOf(l)]] = l
    BY DEF NewestIn
  <2>1. CASE l = lpn
    BY <1>2, <1>4, <2>1 DEF LogBlock, off
  <2>2. CASE l # lpn
    <3> DEFINE q == log.pages[OffsetOf(l)]
    <3>1. OffsetOf(l) \in PageNo /\ OffsetOf(l) # off
      BY <2>2, PositionType, PositionUnique, <1>2 DEF a, off
    <3>2. log2.pages[OffsetOf(l)] = q /\ q # -1 /\ q \in PageNo
      BY <1>2, <1>4, <3>1 DEF LogBlock
    <3>3. flash[log.address][q] = l
      BY <1>7, <3>2 DEF NewestIn
    <3>4. q # n /\ (log.pages[off] # -1 => q # log.pages[off])
      BY <1>2, <1>6, <2>2, <3>3
    <3>5. flash'[log.address][q] = l
      BY <1>2, <2>2, <3>2, <3>3, <3>4
    <3> QED
      BY <1>4, <3>2, <3>5
  <2> QED
    BY <2>1, <2>2
<1>13. InOrder(flash'[log.address])
  <2> SUFFICES ASSUME NEW p \in PageNo, NEW q \in PageNo, p < q,
                      flash'[log.address][p] = EMPTY
               PROVE  flash'[log.address][q] = EMPTY
    BY DEF InOrder
  <2>1. p # n /\ flash[log.address][p] = EMPTY
    BY <1>2, <1>6, <1>10
  <2>2. flash[log.address][q] = EMPTY
    BY <1>7, <2>1 DEF InOrder
  <2>3. q # n
    BY <1>8, <2>1
  <2> QED
    BY <1>2, <1>10, <2>2, <2>3
<1>14. \A c \in LBA \ {a} : LogRight(flash', log_map[c], c)
  <2> SUFFICES ASSUME NEW c \in LBA \ {a}, log_map[c] # NULL
               PROVE  NewestIn(flash', log_map[c], c) /\ InOrder(flash'[log_map[c].address])
    BY DEF LogRight
  <2>1. /\ log_map[c] \in LogBlock /\ log_map[c].address \in Block
        /\ NewestIn(flash, log_map[c], c) /\ InOrder(flash[log_map[c].address])
    BY <1>1, BlocksOf DEF Parts, LogRight
  <2>2. log_map[c].address # log.address /\ log_map[c].address # old
    BY <1>1, <1>2, <1>3, <2>1 DEF Parts, Apart, log, old
  <2>3. ASSUME NEW l \in LPN, LbaOf(l) = c, log_map[c].pages[OffsetOf(l)] # -1
        PROVE  flash'[log_map[c].address][log_map[c].pages[OffsetOf(l)]] = l
    <3>1. log_map[c].pages[OffsetOf(l)] \in PageNo
      BY <2>1, <2>3, PositionType DEF LogBlock
    <3>2. flash[log_map[c].address][log_map[c].pages[OffsetOf(l)]] = l
      BY <2>1, <2>3 DEF NewestIn
    <3>3. l # lpn
      BY <2>3 DEF a
    <3> QED
      BY <1>2, <2>1, <2>2, <3>1, <3>2, <3>3
  <2>4. InOrder(flash'[log_map[c].address])
    BY <1>10, <2>1, <2>2 DEF InOrder
  <2> QED
    BY <2>3, <2>4 DEF NewestIn
<1>15. LogRight(flash', log2, a)
  BY <1>4, <1>12, <1>13 DEF LogRight
<1>16. /\ Free' \cup Own(old) \cup OwnLog(log2) = Free \cup Own(old) \cup OwnLog(log)
       /\ old \notin Free' \/ old = NULL
       /\ old \notin OwnLog(log2) /\ OwnLog(log2) \cap Free' = {}
  BY <1>2, <1>3, <1>4, <1>5, <1>9 DEF OwnLog
<1>17. /\ bm'.log_active = bm.log_active - One(log) + One(log2)
       /\ bm'.data_active = bm.data_active - One(old) + One(old)
       /\ bm'.log_active <= BAST_LOG_PAGE_LIMIT
  <2>1. One(log) = 1 /\ One(log2) = 1 /\ One(old) \in Int
    BY <1>2, <1>9 DEF One
  <2>2. bm.log_active \in Int /\ bm.data_active \in Int
    BY <1>3 DEF Manager
  <2>3. bm.log_active <= BAST_LOG_PAGE_LIMIT
    BY <1>1 DEF Parts
  <2> QED
    BY <1>5, <2>1, <2>2, <2>3
<1> QED
  BY <1>1, <1>2, <1>3, <1>4, <1>5, <1>11, <1>14, <1>15, <1>16, <1>17, ExchangeInvariant
     DEF log, old

(* What a trim does to the pages.                                          *)
Trimmed(l, a, off, log, old) ==
  /\ a \in LBA /\ off \in PageNo
  /\ flash' \in [Block -> Pages]
  /\ \A b \in Block \ (Own(old) \cup OwnLog(log)) : flash'[b] = flash[b]
  /\ InLog(l) =>
       /\ log # NULL /\ log.pages[off] \in PageNo
       /\ flash[log.address][log.pages[off]] = l
       /\ DisposesLog(l) =>
            /\ flash'[log.address] = Erased
            /\ \A q \in PageNo \ {log.pages[off]} : flash[log.address][q] = INVALID
       /\ ~DisposesLog(l) =>
            flash'[log.address] = [flash[log.address] EXCEPT ![log.pages[off]] = INVALID]
  /\ ~InLog(l) /\ log # NULL => flash'[log.address] = flash[log.address]
  /\ old # NULL =>
       /\ DisposesData(l) =>
            /\ flash'[old] = Erased
            /\ \A q \in PageNo \ {off} : flash[old][q] = INVALID
       /\ ~DisposesData(l) => flash'[old] = [flash[old] EXCEPT ![off] = INVALID]

LEMMA TrimEffect ==
  ASSUME Parts, NEW l \in LPN, Trim(l)
  PROVE  Trimmed(l, LbaOf(l), OffsetOf(l), log_map[LbaOf(l)], data_list[LbaOf(l)])
<1> DEFINE a == LbaOf(l)
           off == OffsetOf(l)
           log == log_map[a]
           old == data_list[a]
<1>1. a \in LBA /\ off \in PageNo
  BY PositionType
<1>2. /\ flash \in [Block -> Pages] /\ old \in Block \cup {NULL} /\ NULL \notin Block
      /\ log # NULL => log \in LogBlock /\ log.address \in Block /\ log.address # old
  BY <1>1, BlocksOf
<1>3. InLog(l) => /\ log # NULL /\ log.pages[off] \in PageNo
                  /\ flash[log.address][log.pages[off]] = l
  <2> SUFFICES ASSUME InLog(l)
               PROVE  /\ log # NULL /\ log.pages[off] \in PageNo
                      /\ flash[log.address][log.pages[off]] = l
    OBVIOUS
  <2>1. log # NULL /\ log.pages[off] # -1
    BY DEF InLog
  <2>2. NewestIn(flash, log, a)
    BY <1>1, <2>1 DEF Parts, LogRight
  <2> QED
    BY <1>1, <1>2, <2>1, <2>2 DEF NewestIn, LogBlock
<1>4. InLog(l) =>
        /\ LogPageTrimmed(l) = [flash EXCEPT ![log.address][log.pages[off]] = INVALID]
        /\ LogPageTrimmed(l) \in [Block -> Pages]
        /\ LogPageTrimmed(l)[log.address]
             = [flash[log.address] EXCEPT ![log.pages[off]] = INVALID]
  BY <1>2, <1>3 DEF LogPageTrimmed, invalidate_page, Pages
<1>5. InLog(l) /\ DisposesLog(l) =>
        \A q \in PageNo \ {log.pages[off]} : flash[log.address][q] = INVALID
  <2> SUFFICES ASSUME InLog(l), DisposesLog(l), NEW q \in PageNo \ {log.pages[off]}
               PROVE  flash[log.address][q] = INVALID
    OBVIOUS
  <2>1. LogPageTrimmed(l)[log.address][q] = INVALID
    BY DEF DisposesLog, IsInactive
  <2>2. flash[log.address] \in [PageNo -> LPN \cup {EMPTY, INVALID, OLD}]
    BY <1>2, <1>3 DEF Pages
  <2> QED
    BY <1>4, <2>1, <2>2
<1>6. old # NULL =>
        /\ DataPageTrimmed(l) = [flash EXCEPT ![old][off] = INVALID]
        /\ DataPageTrimmed(l)[old] = [flash[old] EXCEPT ![off] = INVALID]
  BY <1>1, <1>2 DEF DataPageTrimmed, invalidate_page
<1>7. /\ DataPageTrimmed(l) \in [Block -> Pages]
      /\ \A b \in Block : b # old => DataPageTrimmed(l)[b] = flash[b]
      /\ old = NULL => ~DisposesData(l)
  BY <1>1, <1>2 DEF DataPageTrimmed, invalidate_page, Pages, DisposesData
<1>8. old # NULL /\ DisposesData(l) => \A q \in PageNo \ {off} : flash[old][q] = INVALID
  <2> SUFFICES ASSUME old # NULL, DisposesData(l), NEW q \in PageNo \ {off}
               PROVE  flash[old][q] = INVALID
    OBVIOUS
  <2>1. DataPageTrimmed(l)[old][q] = INVALID
    BY DEF DisposesData, IsInactive
  <2>2. flash[old] \in [PageNo -> LPN \cup {EMPTY, INVALID, OLD}]
    BY <1>2 DEF Pages
  <2> QED
    BY <1>6, <2>1, <2>2
<1>9. flash' = [b \in Block |->
                 IF InLog(l) /\ b = log.address
                   THEN IF DisposesLog(l) THEN Erased ELSE LogPageTrimmed(l)[b]
                 ELSE IF DisposesData(l) /\ b = old THEN Erased
                 ELSE DataPageTrimmed(l)[b]]
  BY DEF Trim
<1>10. flash' \in [Block -> Pages]
  BY <1>4, <1>7, <1>9, ErasedType
<1>11. \A b \in Block \ (Own(old) \cup OwnLog(log)) : flash'[b] = flash[b]
  BY <1>2, <1>3, <1>7, <1>9 DEF Own, OwnLog
<1>12. InLog(l) =>
         /\ DisposesLog(l) => flash'[log.address] = Erased
         /\ ~DisposesLog(l) =>
              flash'[log.address] = [flash[log.address] EXCEPT ![log.pages[off]] = INVALID]
  BY <1>2, <1>3, <1>4, <1>9
<1>13. ~InLog(l) /\ log # NULL => flash'[log.address] = flash[log.address]
  BY <1>2, <1>7, <1>9
<1>14. old # NULL =>
         /\ DisposesData(l) => flash'[old] = Erased
         /\ ~DisposesData(l) => flash'[old] = [flash[old] EXCEPT ![off] = INVALID]
  BY <1>2, <1>3, <1>6, <1>9
<1> QED
  BY <1>1, <1>3, <1>5, <1>8, <1>10, <1>11, <1>12, <1>13, <1>14 DEF Trimmed

(* What a trim does to the tables.                                         *)
LEMMA TrimTables ==
  ASSUME Parts, NEW l \in LPN, Trim(l)
  PROVE  /\ data_list' = [data_list EXCEPT ![LbaOf(l)] =
                            IF DisposesData(l) THEN NULL ELSE @]
         /\ log_map' = [log_map EXCEPT ![LbaOf(l)] =
                          IF DisposesLog(l) THEN NULL
                          ELSE IF InLog(l) THEN [@ EXCEPT !.pages[OffsetOf(l)] = -1]
                          ELSE @]
<1>1. /\ data_list \in [LBA -> Block \cup {NULL}] /\ LbaOf(l) \in LBA
      /\ log_map \in [LBA -> LogBlock \cup {NULL}]
  BY PositionType, BlocksOf
<1>2. data_list = [data_list EXCEPT ![LbaOf(l)] = @] /\ log_map = [log_map EXCEPT ![LbaOf(l)] = @]
  BY <1>1
<1> QED
  BY <1>2 DEF Trim

LEMMA TrimInvariant ==
  ASSUME IInv, NEW l \in LPN, Trim(l)
  PROVE  IInv'
<1> DEFINE a == LbaOf(l)
           off == OffsetOf(l)
           log == log_map[a]
           old == data_list[a]
           d2 == IF DisposesData(l) THEN NULL ELSE old
           log2 == IF DisposesLog(l) THEN NULL
                   ELSE IF InLog(l) THEN [log EXCEPT !.pages[off] = -1] ELSE log
           freed == IF DisposesLog(l)
                      THEN erase_and_invalidate(bm, log.address, "LOG") ELSE bm
           lost == IF DisposesLog(l) THEN {log.address} ELSE {}
           lost2 == IF DisposesData(l) THEN {old} ELSE {}
<1>1. Parts
  BY InvariantParts
<1>2. a \in LBA /\ off \in PageNo
  BY PositionType
<1>3. /\ data_list \in [LBA -> Block \cup {NULL}] /\ bm \in Manager /\ HandsOutOnce(bm)
      /\ log_map \in [LBA -> LogBlock \cup {NULL}] /\ flash \in [Block -> Pages]
      /\ NULL \notin Block /\ old \in Block \cup {NULL} /\ Free \subseteq Block
      /\ old # NULL => old \in Block /\ old \notin Free
      /\ log \in LogBlock \cup {NULL}
      /\ log # NULL => /\ log \in LogBlock /\ log.address \in Block
                       /\ log.address \notin Free /\ log.address # old
  BY <1>1, <1>2, BlocksOf
<1>4. /\ flash' \in [Block -> Pages]
      /\ \A b \in Block \ (Own(old) \cup OwnLog(log)) : flash'[b] = flash[b]
      /\ InLog(l) =>
           /\ log # NULL /\ log.pages[off] \in PageNo
           /\ flash[log.address][log.pages[off]] = l
           /\ DisposesLog(l) => flash'[log.address] = Erased
           /\ ~DisposesLog(l) =>
                flash'[log.address] = [flash[log.address] EXCEPT ![log.pages[off]] = INVALID]
      /\ ~InLog(l) /\ log # NULL => flash'[log.address] = flash[log.address]
      /\ old # NULL /\ DisposesData(l) => flash'[old] = Erased
  <2>1. Trimmed(l, a, off, log, old)
    BY <1>1, TrimEffect
  <2> HIDE DEF a, off, log, old
  <2> QED
    BY <2>1 DEF Trimmed
<1>5. DisposesLog(l) => InLog(l) /\ log # NULL
  BY <1>4 DEF DisposesLog
<1>6. DisposesData(l) => old # NULL
  BY DEF DisposesData
<1>7. /\ pc = "idle" /\ pc' = pc /\ lpn' = lpn /\ lpn = NULL
      /\ data_list' = [data_list EXCEPT ![a] = d2]
      /\ log_map' = [log_map EXCEPT ![a] = log2]
      /\ bm' = IF DisposesData(l) THEN erase_and_invalidate(freed, old, "DATA") ELSE freed
  <2>1. /\ pc = "idle" /\ pc' = pc /\ lpn' = lpn /\ lpn = NULL
        /\ bm' = IF DisposesData(l) THEN erase_and_invalidate(freed, old, "DATA") ELSE freed
    BY <1>1 DEF Trim, Parts, TypeOK
  <2>2. data_list' = [data_list EXCEPT ![a] = d2]
    BY <1>2, <1>3 DEF Trim
  <2>3. log_map' = [log_map EXCEPT ![a] = log2]
    <3>1. log_map = [log_map EXCEPT ![a] = log]
      BY <1>2, <1>3
    <3> QED
      BY <1>2, <1>3, <1>4, <3>1 DEF Trim, LogBlock
  <2> QED
    BY <2>1, <2>2, <2>3
<1>8. /\ freed \in Manager /\ HandsOutOnce(freed) /\ FreeBlocks(freed) = Free \cup lost
      /\ freed.log_active = bm.log_active - (IF DisposesLog(l) THEN 1 ELSE 0)
      /\ freed.data_active = bm.data_active
  <2>1. CASE DisposesLog(l)
    BY <1>3, <1>5, <2>1, EraseAndInvalidate, ManagerCounters DEF Free
  <2>2. CASE ~DisposesLog(l)
    <3>1. bm.log_active = bm.log_active - 0
      BY <1>3 DEF Manager
    <3> QED
      BY <1>3, <2>2, <3>1 DEF Free
  <2> QED
    BY <2>1, <2>2
<1> HIDE DEF freed
<1>9. /\ bm' \in Manager /\ HandsOutOnce(bm') /\ Free' = Free \cup lost \cup lost2
      /\ bm'.log_active = freed.log_active
      /\ bm'.data_active = freed.data_active - (IF DisposesData(l) THEN 1 ELSE 0)
  <2>1. CASE DisposesData(l)
    <3>1. old \in Block /\ old \notin FreeBlocks(freed)
      BY <1>3, <1>5, <1>6, <1>8, <2>1
    <3> QED
      BY <1>7, <1>8, <2>1, <3>1, EraseAndInvalidate, ManagerCounters DEF Free
  <2>2. CASE ~DisposesData(l)
    <3>1. freed.data_active = freed.data_active - 0
      BY <1>8 DEF Manager
    <3> QED
      BY <1>7, <1>8, <2>2, <3>1 DEF Free
  <2> QED
    BY <2>1, <2>2
<1>10. /\ d2 \in Block \cup {NULL} /\ log2 \in LogBlock \cup {NULL}
       /\ log2 # NULL => log # NULL /\ log2.address = log.address /\ ~DisposesLog(l)
       /\ log # NULL /\ ~DisposesLog(l) => log2 # NULL
  <2>1. InLog(l) => /\ [log EXCEPT !.pages[off] = -1] \in LogBlock
                    /\ [log EXCEPT !.pages[off] = -1].address = log.address
    BY <1>2, <1>3, <1>4 DEF LogBlock
  <2> QED
    BY <1>3, <1>4, <2>1, BASTAssumption
<1>11. LogRight(flash', log2, a)
  <2>1. CASE log2 = NULL
    BY <2>1 DEF LogRight
  <2>2. CASE log2 # NULL /\ ~InLog(l)
    <3>1. log2 = log /\ flash'[log.address] = flash[log.address] /\ log # NULL
      BY <1>4, <1>5, <1>10, <2>2
    <3>2. LogRight(flash, log, a)
      BY <1>1, <1>2 DEF Parts
    <3> QED
      BY <3>1, <3>2, LogKept
  <2>3. CASE log2 # NULL /\ InLog(l)
    <3> DEFINE p == log.pages[off]
    <3>1. /\ log # NULL /\ log \in LogBlock /\ log.address \in Block /\ p \in PageNo
          /\ flash[log.address][p] = l /\ ~DisposesLog(l)
          /\ flash'[log.address] = [flash[log.address] EXCEPT ![p] = INVALID]
          /\ log2.address = log.address /\ log2.pages = [log.pages EXCEPT ![off] = -1]
      BY <1>3, <1>4, <1>10, <2>3
    <3>2. NewestIn(flash, log, a) /\ InOrder(flash[log.address])
      BY <1>1, <1>2, <3>1 DEF Parts, LogRight
    <3>3. /\ \A q \in PageNo : q # p => flash'[log.address][q] = flash[log.address][q]
          /\ flash'[log.address][p] = INVALID
      BY <1>3, <3>1 DEF Pages
    <3>4. INVALID # EMPTY /\ l # EMPTY
      BY MarksDiffer, MarksAreNoPages
    <3>5. ASSUME NEW m \in LPN, LbaOf(m) = a, log2.pages[OffsetOf(m)] # -1
          PROVE  flash'[log2.address][log2.pages[OffsetOf(m)]] = m
      <4>1. OffsetOf(m) \in PageNo /\ OffsetOf(m) # off
        BY <1>2, <3>1, <3>5, PositionType DEF LogBlock
      <4>2. /\ log2.pages[OffsetOf(m)] = log.pages[OffsetOf(m)]
            /\ log.pages[OffsetOf(m)] # -1 /\ log.pages[OffsetOf(m)] \in PageNo
        BY <1>2, <3>1, <3>5, <4>1 DEF LogBlock
      <4>3. flash[log.address][log.pages[OffsetOf(m)]] = m
        BY <3>2, <3>5, <4>2 DEF NewestIn
      <4>4. log.pages[OffsetOf(m)] # p
        BY <3>1, <4>1, <4>3
      <4> QED
        BY <3>1, <3>3, <4>2, <4>3, <4>4
    <3> HIDE DEF p
    <3>6. ASSUME NEW x \in PageNo, NEW y \in PageNo, x < y,
                 flash'[log.address][x] = EMPTY
          PROVE  flash'[log.address][y] = EMPTY
      <4>1. x # p /\ flash[log.address][x] = EMPTY
        BY <3>3, <3>4, <3>6
      <4>2. flash[log.address][y] = EMPTY
        BY <3>2, <3>6, <4>1 DEF InOrder
      <4>3. y # p
        BY <3>1, <3>4, <4>2
      <4> QED
        BY <3>3, <4>2, <4>3
    <3>7. InOrder(flash'[log2.address])
      BY <3>1, <3>6 DEF InOrder
    <3> QED
      BY <3>5, <3>7 DEF LogRight, NewestIn
  <2> QED
    BY <2>1, <2>2, <2>3
<1>12. \A c \in LBA \ {a} : LogRight(flash', log_map[c], c)
  <2>1. \A b \in Block \ (Free \cup Own(old) \cup OwnLog(log)) : flash'[b] = flash[b]
    BY <1>4
  <2> QED
    BY <1>1, <1>2, <2>1, OthersKept
<1> HIDE DEF log2, d2
<1>13. /\ Free' \cup Own(d2) \cup OwnLog(log2) = Free \cup Own(old) \cup OwnLog(log)
       /\ d2 \notin Free' \/ d2 = NULL
       /\ d2 \notin OwnLog(log2) /\ OwnLog(log2) \cap Free' = {}
  <2>1. /\ Own(d2) = Own(old) \ lost2
        /\ d2 = old \/ (d2 = NULL /\ lost2 \subseteq Own(old))
        /\ d2 # NULL => d2 = old /\ lost2 = {}
    BY <1>6 DEF Own, d2
  <2>2. OwnLog(log2) = OwnLog(log) \ lost /\ lost \subseteq OwnLog(log)
    BY <1>5, <1>10 DEF OwnLog, log2
  <2>3. /\ lost2 \subseteq Own(old) /\ Own(old) \cap OwnLog(log) = {}
        /\ Own(old) \cap Free = {} /\ OwnLog(log) \cap Free = {}
        /\ NULL \notin OwnLog(log)
    BY <1>3, <1>6 DEF Own, OwnLog
  <2>4. d2 # NULL => d2 \in Own(d2)
    BY DEF Own
  <2> HIDE DEF lost, lost2
  <2> QED
    BY <1>9, <2>1, <2>2, <2>3, <2>4
<1>14. /\ bm'.log_active = bm.log_active - One(log) + One(log2)
       /\ bm'.data_active = bm.data_active - One(old) + One(d2)
       /\ bm'.log_active <= BAST_LOG_PAGE_LIMIT
  <2>1. /\ bm.log_active \in Int /\ bm.data_active \in Int /\ BAST_LOG_PAGE_LIMIT \in Int
        /\ bm.log_active <= BAST_LOG_PAGE_LIMIT
    BY <1>1, <1>3, BASTAssumption DEF Manager, Parts
  <2>2. One(log2) = One(log) - (IF DisposesLog(l) THEN 1 ELSE 0)
    BY <1>5, <1>10 DEF One, log2
  <2>3. One(d2) = One(old) - (IF DisposesData(l) THEN 1 ELSE 0)
    BY <1>6 DEF One, d2
  <2>4. One(log) \in Int /\ One(old) \in Int
    BY DEF One
  <2> HIDE DEF log, old
  <2> QED
    BY <1>8, <1>9, <2>1, <2>2, <2>3, <2>4
<1>15. \A b \in Free' : flash'[b] = Erased
  BY <1>1, <1>3, <1>4, <1>5, <1>6, <1>9 DEF Parts, Own, OwnLog
<1>16. /\ pc' \in {"idle", "write", "aborted"} /\ lpn' \in LPN \cup {NULL}
       /\ pc' = "idle" <=> lpn' = NULL
  BY <1>7
<1> HIDE DEF lost, lost2
<1> QED
  BY <1>1, <1>2, <1>4, <1>7, <1>9, <1>10, <1>11, <1>12, <1>13, <1>14, <1>15, <1>16,
     ExchangeInvariant

-----------------------------------------------------------------------------
(* The theorems.                                                           *)

LEMMA StepInvariant == IInv /\ [Next]_vars => IInv'
<1> SUFFICES ASSUME IInv, [Next]_vars PROVE IInv'
  OBVIOUS
<1>1. CASE UNCHANGED vars
  <2>1. TypeOK'
    BY <1>1 DEF IInv, TypeOK, vars
  <2> QED
    BY <1>1, <2>1, UnchangedInvariant DEF vars
<1>2. ASSUME NEW l \in LPN, WriteStart(l)
      PROVE  IInv'
  BY <1>2, WriteStartInvariant
<1>3. ASSUME NEW a \in LBA, SwitchLog(a)
      PROVE  IInv'
  BY <1>3, SwitchLogInvariant
<1>4. ASSUME NEW a \in LBA, MergeLog(a)
      PROVE  IInv'
  BY <1>4, MergeLogInvariant
<1>5. ASSUME NEW l \in LPN, Trim(l)
      PROVE  IInv'
  BY <1>5, TrimInvariant
<1> QED
  BY <1>1, <1>2, <1>3, <1>4, <1>5, AllocateLogInvariant, WriteInLogInvariant,
     AbortInvariant DEF Next

(* Every behaviour keeps the invariant.                                     *)
THEOREM Invariant == Spec => []IInv
BY InitInvariant, StepInvariant, PTL DEF Spec

(* The types of the state.                                                 *)
THEOREM TypeCorrect == Spec => []TypeOK
<1>1. IInv => TypeOK
  BY DEF IInv
<1> QED
  BY <1>1, Invariant, PTL

(* However it switches, merges, evicts and trims, the FTL neither leaks a     *)
(* block nor gives it two owners, and hands out erased blocks only.          *)
THEOREM BlocksOwnedOnce == Spec => []EveryBlockOnce
<1>1. IInv => EveryBlockOnce
  BY DEF IInv
<1> QED
  BY <1>1, Invariant, PTL

(* The manager's counters are what the FTL's tables say, and there are never  *)
(* more log blocks than the limit.                                         *)
THEOREM CountersRight == Spec => []CountersMatchTables
<1>1. IInv => CountersMatchTables
  BY DEF IInv
<1> QED
  BY <1>1, Invariant, PTL

(* A log block that will not take the next write has an INVALID page.        *)
THEOREM AbortsExplained == Spec => []AbortsOnlyAfterInvalidation
<1>1. IInv => AbortsOnlyAfterInvalidation
  <2> SUFFICES ASSUME IInv, LogPageTaken,
                      \A p \in PageNo : flash[log_map[LbaOf(lpn)].address][p] # INVALID
               PROVE  FALSE
    BY DEF AbortsOnlyAfterInvalidation
  <2> DEFINE pages == flash[log_map[LbaOf(lpn)].address]
  <2>1. /\ log_map[LbaOf(lpn)] # NULL /\ LbaOf(lpn) \in LBA
        /\ get_pages_valid(pages) # BLOCK_SIZE
    BY Writing DEF IInv, LogPageTaken, MayWrite, LogIsFull
  <2>2. InOrder(pages)
    BY <2>1 DEF IInv, LogInOrder, Logged, InOrder
  <2>3. ~(get_free_page(pages) \in PageNo /\ pages[get_free_page(pages)] = EMPTY)
    BY DEF LogPageTaken, MayProgram, NextLogPage
  <2>4. \A p \in PageNo : pages[p] # INVALID
    OBVIOUS
  <2> HIDE DEF pages
  <2> QED
    BY <2>1, <2>2, <2>3, <2>4, NextPageInOrder DEF InOrder
<1> QED
  BY <1>1, Invariant, PTL

-----------------------------------------------------------------------------
(* The FTL implements SparseDisk.                                          *)

ReadIn(f, d, log, off) ==
  IF log # NULL /\ log.pages[off] # -1 THEN f[log.address][log.pages[off]]
  ELSE IF d # NULL THEN f[d][off] ELSE EMPTY

LEMMA PageReadIs ==
  ASSUME NEW l
  PROVE  PageRead(l) = ReadIn(flash, data_list[LbaOf(l)], log_map[LbaOf(l)], OffsetOf(l))
BY DEF PageRead, InLog, ReadIn

LEMMA PageReadNext ==
  ASSUME NEW l \in LPN
  PROVE  PageRead(l)'
           = ReadIn(flash', data_list'[LbaOf(l)], log_map'[LbaOf(l)], OffsetOf(l))
BY DEF PageRead, InLog, ReadIn

(* Pages of other logical blocks than a are read as before, when only a's    *)
(* blocks and free ones changed.                                           *)
LEMMA OthersRead ==
  ASSUME Parts, NEW a \in LBA,
         NEW d, data_list' = [data_list EXCEPT ![a] = d],
         NEW log, log_map' = [log_map EXCEPT ![a] = log],
         \A b \in Block \ (Free \cup Own(data_list[a]) \cup OwnLog(log_map[a])) :
           flash'[b] = flash[b],
         NEW l \in LPN, LbaOf(l) # a
  PROVE  PageRead(l)' = PageRead(l)
<1> DEFINE c == LbaOf(l)
<1>1. c \in LBA /\ c # a
  BY PositionType
<1>2. data_list'[c] = data_list[c] /\ log_map'[c] = log_map[c]
  BY <1>1, BlocksOf
<1>3. data_list[c] # NULL => flash'[data_list[c]] = flash[data_list[c]]
  <2> SUFFICES ASSUME data_list[c] # NULL PROVE flash'[data_list[c]] = flash[data_list[c]]
    OBVIOUS
  <2>1. data_list[c] \in Block /\ data_list[c] \notin Free
    BY <1>1, BlocksOf
  <2>2. data_list[c] \notin Own(data_list[a]) \cup OwnLog(log_map[a])
    BY <1>1 DEF Parts, Apart, Own, OwnLog
  <2> QED
    BY <2>1, <2>2
<1>4. log_map[c] # NULL => flash'[log_map[c].address] = flash[log_map[c].address]
  <2> SUFFICES ASSUME log_map[c] # NULL
               PROVE  flash'[log_map[c].address] = flash[log_map[c].address]
    OBVIOUS
  <2>1. log_map[c].address \in Block /\ log_map[c].address \notin Free
    BY <1>1, BlocksOf
  <2>2. log_map[c].address \notin Own(data_list[a]) \cup OwnLog(log_map[a])
    BY <1>1 DEF Parts, Apart, Own, OwnLog
  <2> QED
    BY <2>1, <2>2
<1>5. ReadIn(flash', data_list'[c], log_map'[c], OffsetOf(l))
        = ReadIn(flash, data_list[c], log_map[c], OffsetOf(l))
  BY <1>2, <1>3, <1>4 DEF ReadIn
<1> HIDE DEF c
<1> QED
  BY <1>5, PageReadIs, PageReadNext DEF c

LEMMA SwitchReads ==
  ASSUME Parts, NEW a \in LBA, SwitchLog(a), NEW l \in LPN
  PROVE  PageRead(l)' = PageRead(l)
<1> DEFINE old == data_list[a]
           log == log_map[a]
           off == OffsetOf(l)
<1>1. /\ flash \in [Block -> Pages] /\ NULL \notin Block
      /\ data_list \in [LBA -> Block \cup {NULL}] /\ log_map \in [LBA -> LogBlock \cup {NULL}]
      /\ old \in Block \cup {NULL}
  BY BlocksOf
<1>2. log # NULL /\ log.address \in Block /\ log.address # old
  BY MustGoIsLogged, BlocksOf DEF Parts, SwitchLog
<1>3. \A b \in Block : b # old => flash'[b] = flash[b]
  BY <1>1, DataErased DEF SwitchLog
<1>4. /\ data_list' = [data_list EXCEPT ![a] = log.address]
      /\ log_map' = [log_map EXCEPT ![a] = NULL]
  BY DEF SwitchLog
<1>5. CASE LbaOf(l) = a
  <2>1. off \in PageNo /\ log.pages[off] = off /\ off # -1
    BY PositionType DEF SwitchLog, IsSequential, PageNo
  <2>2. ReadIn(flash, old, log, off) = flash[log.address][off]
    BY <1>2, <2>1 DEF ReadIn
  <2>3. ReadIn(flash', data_list'[a], log_map'[a], off) = flash'[log.address][off]
    BY <1>1, <1>2, <1>4 DEF ReadIn
  <2>4. flash'[log.address] = flash[log.address]
    BY <1>2, <1>3
  <2> QED
    BY <1>5, <2>2, <2>3, <2>4, PageReadIs, PageReadNext
<1>6. CASE LbaOf(l) # a
  <2>1. \A b \in Block \ (Free \cup Own(old) \cup OwnLog(log)) : flash'[b] = flash[b]
    BY <1>1, <1>3 DEF Own
  <2> QED
    BY <1>4, <1>6, <2>1, OthersRead
<1> QED
  BY <1>5, <1>6

LEMMA MergeReads ==
  ASSUME Parts, NEW a \in LBA, MergeLog(a), NEW l \in LPN
  PROVE  PageRead(l)' = l <=> PageRead(l) = l
<1> DEFINE old == data_list[a]
           log == log_map[a]
           new == FreeBlock(bm)
           off == OffsetOf(l)
<1>1. /\ NULL \notin Block
      /\ data_list \in [LBA -> Block \cup {NULL}] /\ log_map \in [LBA -> LogBlock \cup {NULL}]
  BY BlocksOf
<1>2. /\ new \in Free /\ new \in Block /\ flash'[new] = Merged(a)
      /\ \A b \in Block : b # old /\ b # log.address /\ b # new => flash'[b] = flash[b]
  BY MergeEffect
<1>3. log # NULL
  BY MustGoIsLogged DEF Parts, MergeLog
<1>4. /\ data_list' = [data_list EXCEPT ![a] = new]
      /\ log_map' = [log_map EXCEPT ![a] = NULL]
  BY DEF MergeLog
<1>5. CASE LbaOf(l) = a
  <2>1. off \in PageNo
    BY PositionType
  <2>2. Merged(a)[off] = ValidData(ReadIn(flash, old, log, off))
    BY <1>3, <2>1 DEF Merged, ReadIn
  <2>3. ReadIn(flash', data_list'[a], log_map'[a], off) = Merged(a)[off]
    BY <1>1, <1>2, <1>4 DEF ReadIn
  <2>4. PageRead(l) = ReadIn(flash, old, log, off) /\ PageRead(l)' = Merged(a)[off]
    BY <1>5, <2>3, PageReadIs, PageReadNext
  <2>5. ValidData(PageRead(l)) = l <=> PageRead(l) = l
    BY MarksAreNoPages DEF ValidData
  <2> QED
    BY <2>2, <2>4, <2>5
<1>6. CASE LbaOf(l) # a
  <2>1. \A b \in Block \ (Free \cup Own(old) \cup OwnLog(log)) : flash'[b] = flash[b]
    BY <1>1, <1>2, <1>3 DEF Own, OwnLog
  <2> QED
    BY <1>4, <1>6, <2>1, OthersRead
<1> QED
  BY <1>5, <1>6

LEMMA AllocateReads ==
  ASSUME Parts, AllocateLog, NEW l \in LPN
  PROVE  PageRead(l)' = PageRead(l)
<1> DEFINE a == LbaOf(lpn)
           log == NewLogBlock(FreeBlock(bm))
<1>1. a \in LBA /\ log_map[a] = NULL
  BY Writing DEF Parts, AllocateLog, MayAllocate
<1>2. data_list \in [LBA -> Block \cup {NULL}] /\ log_map \in [LBA -> LogBlock \cup {NULL}]
  BY <1>1, BlocksOf
<1>3. /\ flash' = flash /\ data_list' = data_list
      /\ log_map' = [log_map EXCEPT ![a] = log]
      /\ \A p \in PageNo : log.pages[p] = -1
  BY DEF AllocateLog, NewLogBlock
<1> HIDE DEF log
<1>4. CASE LbaOf(l) = a
  <2>1. OffsetOf(l) \in PageNo
    BY PositionType
  <2>2. ReadIn(flash', data_list'[a], log_map'[a], OffsetOf(l))
          = ReadIn(flash, data_list[a], log_map[a], OffsetOf(l))
    BY <1>1, <1>2, <1>3, <2>1 DEF ReadIn
  <2> QED
    BY <1>4, <2>2, PageReadIs, PageReadNext
<1>5. CASE LbaOf(l) # a
  <2>1. log_map'[LbaOf(l)] = log_map[LbaOf(l)]
    BY <1>2, <1>3, <1>5, PositionType
  <2> QED
    BY <1>3, <2>1, PageReadIs, PageReadNext
<1> QED
  BY <1>4, <1>5

LEMMA WriteReads ==
  ASSUME Parts, WriteInLog, NEW l \in LPN
  PROVE  PageRead(l)' = l <=> PageRead(l) = l \/ l = lpn
<1> DEFINE a == LbaOf(lpn)
           off == OffsetOf(lpn)
           log == log_map[a]
           old == data_list[a]
           n == NextLogPage
           log2 == [log EXCEPT !.pages[off] = n]
           c == LbaOf(l)
           at == OffsetOf(l)
<1>1. /\ lpn \in LPN /\ a \in LBA /\ off \in PageNo /\ n \in PageNo
      /\ log # NULL /\ log \in LogBlock /\ log.address \in Block /\ log.address # old
      /\ flash[log.address][n] = EMPTY
      /\ log.pages[off] # -1 => flash[log.address][log.pages[off]] = lpn
      /\ flash'[log.address][n] = lpn
      /\ \A b \in Block, q \in PageNo :
           \/ flash'[b][q] = IF flash[b][q] = lpn THEN OLD ELSE flash[b][q]
           \/ b = log.address /\ q = n
           \/ b = old /\ q = off /\ flash[b][q] # EMPTY /\ flash'[b][q] = INVALID
           \/ /\ b = log.address /\ log.pages[off] # -1 /\ q = log.pages[off]
              /\ flash'[b][q] = INVALID
  BY WriteEffect
<1>2. /\ data_list \in [LBA -> Block \cup {NULL}] /\ log_map \in [LBA -> LogBlock \cup {NULL}]
      /\ NULL \notin Block /\ old \in Block \cup {NULL}
  BY <1>1, BlocksOf
<1>3. log2 # NULL /\ log2.address = log.address /\ log2.pages = [log.pages EXCEPT ![off] = n]
  <2>1. log2 \in LogBlock /\ log2.address = log.address
        /\ log2.pages = [log.pages EXCEPT ![off] = n]
    BY <1>1 DEF LogBlock
  <2> QED
    BY <2>1, BASTAssumption
<1>4. data_list' = data_list /\ log_map' = [log_map EXCEPT ![a] = log2]
  BY <1>1, <1>2 DEF WriteInLog
<1>5. c \in LBA /\ at \in PageNo
  BY PositionType
<1>6. l # EMPTY /\ l # OLD /\ l # INVALID
  BY MarksAreNoPages
<1>7. n # -1 /\ -1 \notin PageNo
  BY <1>1 DEF PageNo
<1>8. \A p \in PageNo : log.pages[p] \in PageNo \cup {-1}
  BY <1>1 DEF LogBlock
<1>9. PageRead(l) = ReadIn(flash, data_list[c], log_map[c], at)
  BY PageReadIs
<1>10. PageRead(l)' = ReadIn(flash', data_list'[c], log_map'[c], at)
  BY PageReadNext
<1>11. NewestIn(flash, log, a)
  BY <1>1 DEF Parts, LogRight
<1>12. c = a /\ at = off => l = lpn
  BY <1>1, PositionUnique
<1>13. l = lpn => c = a /\ at = off
  OBVIOUS
<1>14. c = a /\ log.pages[at] # -1 => flash[log.address][log.pages[at]] = l
  BY <1>11 DEF NewestIn
<1>15. ASSUME c # a
       PROVE  /\ log_map[c] # NULL => /\ log_map[c].address \in Block
                                      /\ log_map[c].address # log.address
                                      /\ log_map[c].address # old
                                      /\ log_map[c].pages[at] \in PageNo \cup {-1}
              /\ data_list[c] # NULL => /\ data_list[c] \in Block
                                        /\ data_list[c] # log.address
                                        /\ data_list[c] # old
  <2>1. /\ log_map[c] # NULL => log_map[c] \in LogBlock /\ log_map[c].address \in Block
        /\ data_list[c] # NULL => data_list[c] \in Block
    BY <1>5, BlocksOf
  <2>2. log_map[c] # NULL => log_map[c].pages[at] \in PageNo \cup {-1}
    BY <1>5, <2>1 DEF LogBlock
  <2>3. /\ log_map[c] # NULL => log_map[c].address # log.address
        /\ data_list[c] # NULL => data_list[c] # log.address /\ data_list[c] # old
    BY <1>1, <1>5, <1>15 DEF Parts, Apart
  <2>4. log_map[c] # NULL /\ old # NULL => log_map[c].address # old
    BY <1>1, <1>5, <1>15 DEF Parts, Apart
  <2>5. log_map[c] # NULL => log_map[c].address # old
    BY <1>2, <2>1, <2>4
  <2> QED
    BY <2>1, <2>2, <2>3, <2>5
<1> HIDE DEF a, off, log, old, n, log2, c, at
<1>16. CASE l = lpn
  <2>1. log_map'[c] = log2 /\ log2.pages[at] = n
    BY <1>1, <1>2, <1>3, <1>4, <1>13, <1>16 DEF LogBlock
  <2>2. PageRead(l)' = l
    BY <1>1, <1>3, <1>7, <1>10, <1>16, <2>1 DEF ReadIn
  <2> QED
    BY <1>16, <2>2
<1>17. CASE l # lpn /\ c = a
  <2>1. /\ log_map[c] = log /\ data_list[c] = old /\ data_list'[c] = old
        /\ log_map'[c] = log2 /\ log2.pages[at] = log.pages[at] /\ at # off
    BY <1>1, <1>2, <1>3, <1>4, <1>5, <1>12, <1>17 DEF LogBlock, log, old
  <2>2. CASE log.pages[at] # -1
    <3> DEFINE q == log.pages[at]
    <3>1. q \in PageNo /\ flash[log.address][q] = l
      BY <1>5, <1>8, <1>14, <1>17, <2>2
    <3>2. q # n /\ (log.pages[off] # -1 => q # log.pages[off])
      BY <1>1, <1>6, <1>17, <3>1
    <3>3. flash'[log.address][q] = l
      BY <1>1, <1>17, <3>1, <3>2
    <3> QED
      BY <1>1, <1>3, <1>9, <1>10, <2>1, <2>2, <3>1, <3>3 DEF ReadIn
  <2>3. CASE log.pages[at] = -1 /\ old # NULL
    <3>1. PageRead(l) = flash[old][at] /\ PageRead(l)' = flash'[old][at]
      BY <1>9, <1>10, <2>1, <2>3 DEF ReadIn
    <3>2. flash'[old][at] = IF flash[old][at] = lpn THEN OLD ELSE flash[old][at]
      BY <1>1, <1>2, <1>5, <2>1, <2>3
    <3> QED
      BY <1>6, <1>17, <3>1, <3>2
  <2>4. CASE log.pages[at] = -1 /\ old = NULL
    <3>1. PageRead(l) = EMPTY /\ PageRead(l)' = EMPTY
      BY <1>9, <1>10, <2>1, <2>4 DEF ReadIn
    <3> QED
      BY <1>17, <3>1
  <2> QED
    BY <2>2, <2>3, <2>4
<1>18. CASE l # lpn /\ c # a
  <2>1. data_list'[c] = data_list[c] /\ log_map'[c] = log_map[c]
    BY <1>2, <1>4, <1>5, <1>18
  <2>2. \A b \in Block, q \in PageNo : b # log.address /\ b # old =>
          (flash'[b][q] = l <=> flash[b][q] = l)
    BY <1>1, <1>6, <1>18
  <2>3. CASE log_map[c] # NULL /\ log_map[c].pages[at] # -1
    <3> DEFINE b == log_map[c].address
               q == log_map[c].pages[at]
    <3>1. b \in Block /\ q \in PageNo /\ b # log.address /\ b # old
      BY <1>15, <1>18, <2>3
    <3>2. PageRead(l) = flash[b][q] /\ PageRead(l)' = flash'[b][q]
      BY <1>9, <1>10, <2>1, <2>3 DEF ReadIn
    <3> HIDE DEF b, q
    <3>3. flash'[b][q] = l <=> flash[b][q] = l
      BY <2>2, <3>1
    <3> QED
      BY <1>18, <3>2, <3>3
  <2>4. CASE ~(log_map[c] # NULL /\ log_map[c].pages[at] # -1) /\ data_list[c] # NULL
    <3> DEFINE b == data_list[c]
    <3>1. b \in Block /\ b # log.address /\ b # old
      BY <1>15, <1>18, <2>4
    <3>2. PageRead(l) = flash[b][at] /\ PageRead(l)' = flash'[b][at]
      BY <1>9, <1>10, <2>1, <2>4 DEF ReadIn
    <3> HIDE DEF b
    <3>3. flash'[b][at] = l <=> flash[b][at] = l
      BY <1>5, <2>2, <3>1
    <3> QED
      BY <1>18, <3>2, <3>3
  <2>5. CASE ~(log_map[c] # NULL /\ log_map[c].pages[at] # -1) /\ data_list[c] = NULL
    <3>1. PageRead(l) = EMPTY /\ PageRead(l)' = EMPTY
      BY <1>9, <1>10, <2>1, <2>5 DEF ReadIn
    <3> QED
      BY <1>18, <3>1
  <2> QED
    BY <2>3, <2>4, <2>5
<1> QED
  BY <1>16, <1>17, <1>18

LEMMA TrimReads ==
  ASSUME Parts, NEW l \in LPN, Trim(l), NEW m \in LPN
  PROVE  PageRead(m)' = m <=> PageRead(m) = m /\ m # l
<1> DEFINE a == LbaOf(l)
           off == OffsetOf(l)
           log == log_map[a]
           old == data_list[a]
           d2 == IF DisposesData(l) THEN NULL ELSE old
           log2 == IF DisposesLog(l) THEN NULL
                   ELSE IF InLog(l) THEN [log EXCEPT !.pages[off] = -1] ELSE log
           at == OffsetOf(m)
<1>1. a \in LBA /\ off \in PageNo /\ at \in PageNo
  BY PositionType
<1>2. /\ data_list \in [LBA -> Block \cup {NULL}] /\ log_map \in [LBA -> LogBlock \cup {NULL}]
      /\ flash \in [Block -> Pages] /\ NULL \notin Block
      /\ old # NULL => old \in Block
      /\ log # NULL => log \in LogBlock /\ log.address \in Block
  BY <1>1, BlocksOf
<1>3. Trimmed(l, a, off, log, old)
  BY TrimEffect
<1>4. data_list' = [data_list EXCEPT ![a] = d2] /\ log_map' = [log_map EXCEPT ![a] = log2]
  BY TrimTables
<1>5. l # EMPTY /\ l # INVALID /\ m # EMPTY /\ m # INVALID /\ EMPTY # INVALID
  BY MarksAreNoPages, MarksDiffer
<1>6. InLog(l) <=> log # NULL /\ log.pages[off] # -1
  BY DEF InLog
<1>7. DisposesLog(l) => InLog(l)
  BY DEF DisposesLog
<1>8. DisposesData(l) => old # NULL
  BY DEF DisposesData
<1>9. PageRead(m) = ReadIn(flash, data_list[LbaOf(m)], log_map[LbaOf(m)], at)
  BY PageReadIs
<1>10. PageRead(m)' = ReadIn(flash', data_list'[LbaOf(m)], log_map'[LbaOf(m)], at)
  BY PageReadNext
<1>11. CASE LbaOf(m) # a
  <2>1. \A b \in Block \ (Free \cup Own(old) \cup OwnLog(log)) : flash'[b] = flash[b]
    BY <1>3 DEF Trimmed
  <2>2. PageRead(m)' = PageRead(m)
    BY <1>1, <1>4, <1>11, <2>1, OthersRead
  <2>3. m # l
    BY <1>11
  <2> QED
    BY <2>2, <2>3
<1>12. CASE LbaOf(m) = a
  <2>1. /\ data_list'[a] = d2 /\ log_map'[a] = log2
        /\ PageRead(m) = ReadIn(flash, old, log, at)
        /\ PageRead(m)' = ReadIn(flash', d2, log2, at)
    BY <1>1, <1>2, <1>4, <1>9, <1>10, <1>12
  <2>2. m # l <=> at # off
    BY <1>12, PositionUnique
  <2>3. InLog(l) => [log EXCEPT !.pages[off] = -1].pages = [log.pages EXCEPT ![off] = -1]
                    /\ [log EXCEPT !.pages[off] = -1].address = log.address
    BY <1>2, <1>6 DEF LogBlock
  <2>4. \A b \in Block : \A q \in PageNo :
          [flash[b] EXCEPT ![q] = INVALID][q] = INVALID
          /\ \A p \in PageNo : p # q => [flash[b] EXCEPT ![q] = INVALID][p] = flash[b][p]
    BY <1>2 DEF Pages
  <2>5. CASE m = l
    <3>1. log2 # NULL => log2.pages[off] = -1
      <4>1. CASE InLog(l)
        BY <1>1, <1>2, <1>6, <2>3, <4>1 DEF LogBlock
      <4>2. CASE ~InLog(l)
        BY <1>6, <1>7, <4>2
      <4> QED
        BY <4>1, <4>2
    <3>2. d2 # NULL => flash'[d2][off] = INVALID
      <4> SUFFICES ASSUME d2 # NULL PROVE flash'[d2][off] = INVALID
        OBVIOUS
      <4>1. d2 = old /\ old # NULL /\ ~DisposesData(l) /\ old \in Block
        BY <1>2
      <4>2. flash'[old] = [flash[old] EXCEPT ![off] = INVALID]
        BY <1>3, <4>1 DEF Trimmed
      <4>3. [flash[old] EXCEPT ![off] = INVALID][off] = INVALID
        BY <1>1, <2>4, <4>1
      <4> QED
        BY <4>1, <4>2, <4>3
    <3> HIDE DEF d2, log2
    <3>3. PageRead(m)' \in {EMPTY, INVALID}
      BY <2>1, <2>2, <2>5, <3>1, <3>2 DEF ReadIn
    <3> QED
      BY <1>5, <2>5, <3>3
  <2>6. CASE m # l /\ log # NULL /\ log.pages[at] # -1
    <3> DEFINE q == log.pages[at]
    <3>1. q \in PageNo /\ flash[log.address][q] = m
      <4>1. NewestIn(flash, log, a)
        BY <1>1, <2>6 DEF Parts, LogRight
      <4> QED
        BY <1>1, <1>2, <1>12, <2>6, <4>1 DEF NewestIn, LogBlock
    <3>2. InLog(l) => q # log.pages[off] /\ log.pages[off] \in PageNo
      BY <1>3, <2>6, <3>1 DEF Trimmed
    <3>3. ~DisposesLog(l)
      BY <1>3, <1>5, <1>7, <3>1, <3>2 DEF Trimmed
    <3>4. flash'[log.address][q] = m
      <4>1. CASE InLog(l)
        <5>1. flash'[log.address] = [flash[log.address] EXCEPT ![log.pages[off]] = INVALID]
          BY <1>3, <3>3, <4>1 DEF Trimmed
        <5> QED
          BY <1>2, <2>4, <2>6, <3>1, <3>2, <4>1, <5>1
      <4>2. CASE ~InLog(l)
        BY <1>3, <2>6, <3>1, <4>2 DEF Trimmed
      <4> QED
        BY <4>1, <4>2
    <3>5. log2 # NULL /\ log2.address = log.address /\ log2.pages[at] = q
      <4>1. CASE InLog(l)
        <5>1. [log EXCEPT !.pages[off] = -1] \in LogBlock
          BY <1>1, <1>2, <2>6 DEF LogBlock
        <5>2. log.pages \in [PageNo -> PageNo \cup {-1}]
          BY <1>2, <2>6 DEF LogBlock
        <5> QED
          BY <1>1, <2>2, <2>3, <2>6, <3>3, <4>1, <5>1, <5>2, BASTAssumption
      <4>2. CASE ~InLog(l)
        BY <2>6, <3>3, <4>2
      <4> QED
        BY <4>1, <4>2
    <3> HIDE DEF log2, d2
    <3>6. PageRead(m) = m /\ PageRead(m)' = m
      BY <2>1, <2>6, <3>1, <3>4, <3>5 DEF ReadIn
    <3> QED
      BY <2>6, <3>6
  <2>7. CASE m # l /\ ~(log # NULL /\ log.pages[at] # -1)
    <3>1. log2 # NULL => log2.pages[at] = -1
      <4>1. CASE InLog(l)
        <5>1. log.pages \in [PageNo -> PageNo \cup {-1}]
          BY <1>2, <1>6, <4>1 DEF LogBlock
        <5> QED
          BY <1>1, <1>6, <2>2, <2>3, <2>7, <4>1, <5>1
      <4>2. CASE ~InLog(l)
        BY <1>7, <2>7, <4>2
      <4> QED
        BY <4>1, <4>2
    <3>2. PageRead(m) = IF old # NULL THEN flash[old][at] ELSE EMPTY
      BY <2>1, <2>7 DEF ReadIn
    <3>3. PageRead(m)' = IF d2 # NULL THEN flash'[d2][at] ELSE EMPTY
      BY <2>1, <3>1 DEF ReadIn
    <3>4. CASE DisposesData(l)
      <4>1. d2 = NULL /\ old # NULL /\ flash[old][at] = INVALID
        BY <1>1, <1>3, <1>8, <2>2, <2>7, <3>4 DEF Trimmed
      <4> QED
        BY <1>5, <3>2, <3>3, <4>1
    <3>5. CASE ~DisposesData(l)
      <4>1. d2 = old
        BY <3>5
      <4>2. ASSUME old # NULL
            PROVE  flash'[old][at] = flash[old][at]
        <5>1. flash'[old] = [flash[old] EXCEPT ![off] = INVALID]
          BY <1>3, <3>5, <4>2 DEF Trimmed
        <5>2. [flash[old] EXCEPT ![off] = INVALID][at] = flash[old][at]
          BY <1>1, <1>2, <2>2, <2>4, <2>7, <4>2
        <5> QED
          BY <5>1, <5>2
      <4> QED
        BY <2>7, <3>2, <3>3, <4>1, <4>2
    <3> QED
      BY <3>4, <3>5
  <2> QED
    BY <2>5, <2>6, <2>7
<1> QED
  BY <1>11, <1>12

LEMMA InitRefines == Init => Promise!DiskInit
<1> SUFFICES ASSUME Init PROVE Promise!DiskInit
  OBVIOUS
<1>1. ASSUME NEW l \in LPN
      PROVE  PageRead(l) # l
  <2>1. PageRead(l) = EMPTY
    BY PositionType DEF Init, PageRead, InLog
  <2> QED
    BY <2>1, MarksAreNoPages
<1>2. StoredPages = {}
  BY <1>1 DEF StoredPages
<1> QED
  BY <1>2 DEF Init, Promise!DiskInit

LEMMA StepRefines ==
  IInv /\ [Next]_vars => [Promise!DiskNext]_(Promise!diskvars)
<1> SUFFICES ASSUME IInv, [Next]_vars
             PROVE  Promise!DiskNext \/ UNCHANGED Promise!diskvars
  BY DEF Promise!diskvars
<1>1. Parts
  BY InvariantParts
<1>2. StoredPages' = {l \in LPN : PageRead(l)' = l}
  BY DEF StoredPages
<1>3. ASSUME lpn' = lpn, \A l \in LPN : PageRead(l)' = l <=> PageRead(l) = l
      PROVE  UNCHANGED Promise!diskvars
  <2>1. StoredPages' = StoredPages
    BY <1>2, <1>3 DEF StoredPages
  <2> QED
    BY <1>3, <2>1 DEF Promise!diskvars
<1>4. ASSUME UNCHANGED <<flash, data_list, log_map>>
      PROVE  \A l \in LPN : PageRead(l)' = PageRead(l)
  BY <1>4, PageReadIs, PageReadNext
<1>5. CASE UNCHANGED vars
  BY <1>3, <1>4, <1>5 DEF vars
<1>6. ASSUME NEW l \in LPN, WriteStart(l)
      PROVE  Promise!DiskNext
  <2>1. StoredPages' = StoredPages
    BY <1>2, <1>4, <1>6 DEF WriteStart, StoredPages
  <2>2. lpn = NULL /\ lpn' = l
    BY <1>1, <1>6 DEF WriteStart, Parts, TypeOK
  <2>3. Promise!Accept(l)
    BY <2>1, <2>2 DEF Promise!Accept
  <2> QED
    BY <2>3 DEF Promise!DiskNext
<1>7. ASSUME NEW a \in LBA, SwitchLog(a)
      PROVE  UNCHANGED Promise!diskvars
  <2>1. \A l \in LPN : PageRead(l)' = PageRead(l)
    BY <1>1, <1>7, SwitchReads
  <2> QED
    BY <1>3, <1>7, <2>1 DEF SwitchLog
<1>8. ASSUME NEW a \in LBA, MergeLog(a)
      PROVE  UNCHANGED Promise!diskvars
  <2>1. \A l \in LPN : PageRead(l)' = l <=> PageRead(l) = l
    BY <1>1, <1>8, MergeReads
  <2> QED
    BY <1>3, <1>8, <2>1 DEF MergeLog
<1>9. ASSUME AllocateLog
      PROVE  UNCHANGED Promise!diskvars
  <2>1. \A l \in LPN : PageRead(l)' = PageRead(l)
    BY <1>1, <1>9, AllocateReads
  <2> QED
    BY <1>3, <1>9, <2>1 DEF AllocateLog
<1>10. ASSUME WriteInLog
       PROVE  Promise!DiskNext
  <2>1. lpn \in LPN /\ lpn # NULL /\ lpn' = NULL
    <3>1. pc = "write" /\ lpn' = NULL
      BY <1>10 DEF WriteInLog, MayWrite
    <3> QED
      BY <1>1, <3>1, Writing DEF Parts, TypeOK
  <2>2. \A l \in LPN : PageRead(l)' = l <=> PageRead(l) = l \/ l = lpn
    BY <1>1, <1>10, WriteReads
  <2>3. StoredPages' = StoredPages \cup {lpn}
    BY <1>2, <2>1, <2>2 DEF StoredPages
  <2>4. Promise!Complete
    BY <2>1, <2>3 DEF Promise!Complete
  <2> QED
    BY <2>4 DEF Promise!DiskNext
<1>11. ASSUME Abort
       PROVE  UNCHANGED Promise!diskvars
  BY <1>3, <1>4, <1>11 DEF Abort
<1>12. ASSUME NEW l \in LPN, Trim(l)
       PROVE  Promise!DiskNext
  <2>1. \A m \in LPN : PageRead(m)' = m <=> PageRead(m) = m /\ m # l
    BY <1>1, <1>12, TrimReads
  <2>2. StoredPages' = StoredPages \ {l}
    BY <1>2, <2>1 DEF StoredPages
  <2>3. lpn = NULL /\ lpn' = lpn
    BY <1>1, <1>12 DEF Trim, Parts, TypeOK
  <2>4. Promise!Trim(l)
    BY <2>2, <2>3 DEF Promise!Trim
  <2> QED
    BY <2>4 DEF Promise!DiskNext
<1> QED
  BY <1>5, <1>6, <1>7, <1>8, <1>9, <1>10, <1>11, <1>12 DEF Next

(* The FTL implements SparseDisk: whatever is switched, merged and evicted on *)
(* the way, a page that was written is read back, with its newest data, until *)
(* it is trimmed.                                                          *)
THEOREM Implements == Spec => ImplementsDisk
<1>1. Init => Promise!DiskInit
  BY InitRefines
<1>2. IInv /\ [Next]_vars => [Promise!DiskNext]_(Promise!diskvars)
  BY StepRefines
<1> QED
  BY <1>1, <1>2, Invariant, PTL DEF Spec, ImplementsDisk, Promise!SparseDiskSpec
-----------------------------------------------------------------------------
(* FAST.                                                                   *)

LogLimit == FAST_LOG_PAGE_LIMIT

LEMMA FastConstants ==
  /\ LogLimit \in Nat /\ LogLimit >= 2
  /\ BLOCK_SIZE \in Nat /\ BLOCK_SIZE >= 1
  /\ 0 \in PageNo
  /\ NULL \notin Block /\ NULL \notin LBA /\ NULL \notin LPN
BY FASTAssumption, BlockSizeType DEF LogLimit, Block, LBA, LPN, PageNo

(* Division by the size of a block.                                        *)
LEMMA Division ==
  ASSUME NEW n \in Nat
  PROVE  \E q \in Nat, r \in PageNo :
           n \div BLOCK_SIZE = q /\ n % BLOCK_SIZE = r /\ n = q * BLOCK_SIZE + r
<1>1. BLOCK_SIZE \in Nat /\ BLOCK_SIZE >= 1
  BY FastConstants
<1>2. n % BLOCK_SIZE \in PageNo
  BY <1>1 DEF PageNo
<1>3. n \div BLOCK_SIZE \in Nat
  BY <1>1
<1>4. n = BLOCK_SIZE * (n \div BLOCK_SIZE) + (n % BLOCK_SIZE)
  BY <1>1
<1>5. PICK q \in Nat, r \in PageNo : q = n \div BLOCK_SIZE /\ r = n % BLOCK_SIZE
  BY <1>2, <1>3
<1>6. n = BLOCK_SIZE * q + r
  BY <1>4, <1>5
<1>7. n = q * BLOCK_SIZE + r
  BY <1>1, <1>6 DEF PageNo
<1> QED
  BY <1>5, <1>7

LEMMA QuotientUnique ==
  ASSUME NEW q \in Nat, NEW r \in PageNo, NEW k \in Nat, NEW s \in PageNo,
         q * BLOCK_SIZE + r = k * BLOCK_SIZE + s
  PROVE  q = k /\ r = s
<1>1. BLOCK_SIZE \in Nat /\ BLOCK_SIZE >= 1 /\ r \in 0 .. BLOCK_SIZE - 1 /\ s \in 0 .. BLOCK_SIZE - 1
  BY FastConstants DEF PageNo
<1>2. (q - k) * BLOCK_SIZE = s - r
  BY <1>1
<1>3. ~(q - k >= 1)
  <2> SUFFICES ASSUME q - k >= 1 PROVE FALSE
    OBVIOUS
  <2>1. (q - k) * BLOCK_SIZE >= BLOCK_SIZE
    BY <1>1
  <2> QED
    BY <1>1, <1>2, <2>1
<1>4. ~(k - q >= 1)
  <2> SUFFICES ASSUME k - q >= 1 PROVE FALSE
    OBVIOUS
  <2>1. (k - q) * BLOCK_SIZE >= BLOCK_SIZE
    BY <1>1
  <2>2. (k - q) * BLOCK_SIZE = r - s
    BY <1>1, <1>2
  <2> QED
    BY <1>1, <2>1, <2>2
<1>5. q = k
  BY <1>3, <1>4
<1> QED
  BY <1>1, <1>2, <1>5

LEMMA QuotientIs ==
  ASSUME NEW n \in Nat, NEW q \in Nat, NEW r \in PageNo, n = q * BLOCK_SIZE + r
  PROVE  n \div BLOCK_SIZE = q /\ n % BLOCK_SIZE = r
<1>1. PICK k \in Nat, s \in PageNo :
        n \div BLOCK_SIZE = k /\ n % BLOCK_SIZE = s /\ n = k * BLOCK_SIZE + s
  BY Division
<1>2. q * BLOCK_SIZE + r = k * BLOCK_SIZE + s
  BY <1>1
<1>3. q = k /\ r = s
  BY <1>2, QuotientUnique
<1> QED
  BY <1>1, <1>3

(* Which random log block is written, by the count of pages written to all.  *)
LEMMA RandomLogIs ==
  ASSUME FastTypeOK, PagesInLog, ~LogFull
  PROVE  /\ RandomLog = log_page_next \div BLOCK_SIZE + 1
         /\ RandomLog \in 1 .. LogLimit
         /\ RandomPage \in PageNo
         /\ log_page_next = (RandomLog - 1) * BLOCK_SIZE + RandomPage
         /\ log_pages[RandomLog].numPages = RandomPage
<1> DEFINE full == log_page_next \div BLOCK_SIZE
           i == full + 1
<1>1. /\ log_page_next \in Nat /\ log_page_next < LogLimit * BLOCK_SIZE
      /\ LogLimit \in Nat /\ BLOCK_SIZE \in Nat /\ BLOCK_SIZE >= 1
  BY FastConstants DEF FastTypeOK, LogFull, LogLimit
<1>2. /\ full \in Nat /\ RandomPage \in PageNo
      /\ log_page_next = full * BLOCK_SIZE + RandomPage
  BY <1>1, Division DEF RandomPage
<1>3. RandomPage \in 0 .. BLOCK_SIZE - 1
  BY <1>2 DEF PageNo
<1> HIDE DEF full
<1>4. full < LogLimit
  <2> SUFFICES ASSUME full - LogLimit >= 0 PROVE FALSE
    BY <1>1, <1>2
  <2>1. (full - LogLimit) * BLOCK_SIZE >= 0
    BY <1>1, <1>2
  <2> QED
    BY <1>1, <1>2, <1>3, <2>1
<1>5. i \in 1 .. LogLimit
  BY <1>1, <1>2, <1>4
<1>6. \A j \in 1 .. LogLimit :
        log_pages[j].numPages = IF j <= full THEN BLOCK_SIZE
                                ELSE IF j = full + 1 THEN RandomPage ELSE 0
  BY DEF PagesInLog, full, LogLimit
<1>7. log_pages[i].numPages = RandomPage
  BY <1>2, <1>5, <1>6
<1>8. ASSUME NEW j \in 1 .. i - 1 PROVE log_pages[j].numPages = BLOCK_SIZE
  <2>1. j \in 1 .. LogLimit /\ j <= full
    BY <1>1, <1>2, <1>5, <1>8
  <2> QED
    BY <1>6, <2>1
<1>9. ASSUME NEW j \in 1 .. LogLimit, log_pages[j].numPages < BLOCK_SIZE,
             \A k \in 1 .. j - 1 : log_pages[k].numPages = BLOCK_SIZE
      PROVE  j = i
  <2>1. ~(j <= full)
    BY <1>1, <1>6, <1>9
  <2>2. ~(j > i)
    <3> SUFFICES ASSUME j > i PROVE FALSE
      OBVIOUS
    <3>1. i \in 1 .. j - 1
      BY <1>5
    <3> QED
      BY <1>1, <1>3, <1>7, <1>9, <3>1
  <2> QED
    BY <1>2, <2>1, <2>2
<1>10. log_pages[i].numPages < BLOCK_SIZE
  BY <1>1, <1>3, <1>7
<1>11. RandomLog = i
  BY <1>5, <1>8, <1>9, <1>10 DEF RandomLog, LogLimit
<1> QED
  BY <1>2, <1>5, <1>7, <1>11 DEF full
-----------------------------------------------------------------------------
(* The types of what the actions of FAST compute.                           *)

LEMMA FastTypes ==
  ASSUME FastTypeOK
  PROVE  /\ Memory \in Memories /\ Memory.bm = bm /\ Memory.flash = flash
         /\ flash \in [Block -> Pages] /\ bm \in Manager
         /\ \A a \in LBA : data_list[a] # NULL => data_list[a] \in Block
         /\ \A i \in 1 .. LogLimit :
              /\ log_pages[i] \in RandomLogBlock
              /\ log_pages[i].address \in Block
              /\ log_pages[i].aPages \in [PageNo -> LPN \cup {-1}]
              /\ log_pages[i].numPages \in 0 .. BLOCK_SIZE
         /\ sequential.lba # NULL => sequential.lba \in LBA /\ sequential.address \in Block
         /\ pc # "idle" => lpn \in LPN /\ Lba \in LBA /\ Offset \in PageNo
<1>1. flash \in [Block -> Pages] /\ bm \in Manager
  BY DEF FastTypeOK, Pages
<1>2. Memory \in Memories /\ Memory.bm = bm /\ Memory.flash = flash
  BY <1>1 DEF Memory, Memories
<1>3. \A a \in LBA : data_list[a] # NULL => data_list[a] \in Block
  BY DEF FastTypeOK
<1>4. \A i \in 1 .. LogLimit : log_pages[i] \in RandomLogBlock
  BY DEF FastTypeOK, LogLimit
<1>5. \A i \in 1 .. LogLimit :
        /\ log_pages[i].address \in Block
        /\ log_pages[i].aPages \in [PageNo -> LPN \cup {-1}]
        /\ log_pages[i].numPages \in 0 .. BLOCK_SIZE
  BY <1>4 DEF RandomLogBlock
<1>6. sequential.lba # NULL => sequential.lba \in LBA /\ sequential.address \in Block
  BY DEF FastTypeOK
<1>7. pc # "idle" => lpn \in LPN
  BY DEF FastTypeOK
<1>8. pc # "idle" => Lba \in LBA /\ Offset \in PageNo
  BY <1>7, PositionType DEF Lba, Offset
<1> QED
  BY <1>1, <1>2, <1>3, <1>4, <1>5, <1>6, <1>7, <1>8

LEMMA CollectedIfLowTyped ==
  ASSUME NEW m \in Memories
  PROVE  /\ CollectedIfLow(m) \in Memories
         /\ CollectedIfLow(m).bm.data_active = m.bm.data_active
         /\ CollectedIfLow(m).bm.log_active = m.bm.log_active
         /\ \A b \in Block : CollectedIfLow(m).flash[b] \in {m.flash[b], Erased}
         /\ \A b \in Block \ Blocks(m.bm.invalid_list) :
              CollectedIfLow(m).flash[b] = m.flash[b]
<1>1. CASE CollectedIfLow(m) = Collected(m)
  BY <1>1, CollectedTyped
<1>2. CASE CollectedIfLow(m) = m
  BY <1>2
<1> QED
  BY <1>1, <1>2 DEF CollectedIfLow

LEMMA CollectedIfLowManaged ==
  ASSUME NEW m \in Memories, NEW S, Managed(m, S)
  PROVE  /\ Managed(CollectedIfLow(m), S)
         /\ Pool(CollectedIfLow(m).bm) = Pool(m.bm)
         /\ Blocks(CollectedIfLow(m).bm.invalid_list) \subseteq Blocks(m.bm.invalid_list)
<1>1. CASE CollectedIfLow(m) = Collected(m)
  BY <1>1, CollectedManaged
<1>2. CASE CollectedIfLow(m) = m
  BY <1>2
<1> QED
  BY <1>1, <1>2 DEF CollectedIfLow

(* The event of a write is issued: one EMPTY page is programmed, and nothing *)
(* else but what the page replaces changes.                                 *)
LEMMA IssueEffect ==
  ASSUME NEW l \in LPN, lpn = l, NEW m \in Memories, NEW b \in Block, NEW p, Issue(m, b, p)
  PROVE  /\ flash' \in [Block -> Pages] /\ bm' \in Manager /\ bm' = Collected(m).bm
         /\ bm'.data_active = m.bm.data_active /\ bm'.log_active = m.bm.log_active
         /\ pc' = "idle" /\ lpn' = NULL
         /\ p \in PageNo /\ Collected(m).flash[b][p] = EMPTY
         /\ flash'[b][p] = l
         /\ \A d \in Block, q \in PageNo : d # b \/ q # p =>
              flash'[d][q] = IF Collected(m).flash[d][q] = l THEN OLD
                             ELSE Collected(m).flash[d][q]
<1> DEFINE c == Collected(m)
<1>1. c \in Memories /\ c.flash \in [Block -> Pages] /\ c.bm \in Manager
  BY CollectedTyped, MemoryParts
<1>2. /\ MayProgram(c.flash, b, p) /\ flash' = Program(c.flash, b, p, l)
      /\ bm' = c.bm /\ pc' = "idle" /\ lpn' = NULL
  BY DEF Issue
<1>3. p \in PageNo /\ c.flash[b][p] = EMPTY
  BY <1>2 DEF MayProgram
<1>4. c.bm.data_active = m.bm.data_active /\ c.bm.log_active = m.bm.log_active
  BY CollectedTyped
<1> HIDE DEF c
<1>5. flash' \in [Block -> Pages]
  BY <1>1, <1>2 DEF Program, Pages
<1>6. /\ flash'[b][p] = l
      /\ \A d \in Block, q \in PageNo : d # b \/ q # p =>
           flash'[d][q] = IF c.flash[d][q] = l THEN OLD ELSE c.flash[d][q]
  BY <1>2, <1>3 DEF Program
<1> QED
  BY <1>1, <1>2, <1>3, <1>4, <1>5, <1>6 DEF c

LEMMA CopyToEffect ==
  ASSUME NEW f \in [Block -> Pages], NEW b \in Block, NEW pages \in Pages
  PROVE  /\ CopyTo(f, b, pages) \in [Block -> Pages]
         /\ \A d \in Block : d # b => CopyTo(f, b, pages)[d] = f[d]
         /\ CopyTo(f, b, pages)[b] =
              [p \in PageNo |-> IF pages[p] # EMPTY THEN pages[p] ELSE f[b][p]]
<1> DEFINE new == [p \in PageNo |-> IF pages[p] # EMPTY THEN pages[p] ELSE f[b][p]]
<1>1. CopyTo(f, b, pages) = [f EXCEPT ![b] = new]
  BY DEF CopyTo
<1>2. new \in Pages
  BY DEF Pages
<1> QED
  BY <1>1, <1>2

LEMMA ValidDataType ==
  ASSUME NEW x \in LPN \cup {EMPTY, INVALID, OLD}
  PROVE  ValidData(x) \in LPN \cup {EMPTY, INVALID, OLD}
BY DEF ValidData

LEMMA MergedSequentialType ==
  ASSUME FastTypeOK, sequential.lba # NULL, NEW f \in [Block -> Pages]
  PROVE  MergedSequential(f) \in Pages
<1>1. sequential.lba \in LBA /\ sequential.address \in Block
  BY FastTypes
<1>2. data_list[sequential.lba] # NULL => data_list[sequential.lba] \in Block
  BY <1>1, FastTypes
<1>3. ASSUME NEW p \in PageNo
      PROVE  /\ f[sequential.address][p] \in LPN \cup {EMPTY, INVALID, OLD}
             /\ data_list[sequential.lba] # NULL =>
                  ValidData(f[data_list[sequential.lba]][p]) \in LPN \cup {EMPTY, INVALID, OLD}
  BY <1>1, <1>2, ValidDataType DEF Pages
<1> QED
  BY <1>3 DEF MergedSequential, Pages

LEMMA ScannedAre ==
  ASSUME FastTypeOK, NEW a, NEW x \in Scanned(a)
  PROVE  /\ x[1] \in 1 .. LogLimit /\ x[2] \in PageNo /\ x[2] # 0
         /\ LoggedAt(x) \in LPN /\ LbaOf(LoggedAt(x)) = a
<1>1. /\ x[1] \in 1 .. LogLimit /\ x[2] \in PageNo /\ x[2] # 0
      /\ LoggedAt(x) # -1 /\ LbaOf(LoggedAt(x)) = a
  BY DEF Scanned, LogLimit
<1>2. LoggedAt(x) \in LPN \cup {-1}
  BY <1>1, FastTypes DEF LoggedAt
<1> QED
  BY <1>1, <1>2

(* A page of a random merge comes from a place that was scanned, or from the *)
(* data block.                                                             *)
LEMMA MergedRandomIs ==
  ASSUME FastTypeOK, NEW a \in LBA, NEW f, NEW p \in PageNo
  PROVE  \/ \E x \in Scanned(a) :
              /\ OffsetOf(LoggedAt(x)) = p
              /\ MergedRandom(f, a)[p] = f[log_pages[x[1]].address][x[2]]
         \/ MergedRandom(f, a)[p] = ValidData(f[data_list[a]][p])
<1> DEFINE At(x) == x \in Copied(a) /\ OffsetOf(LoggedAt(x)) = p
           y == CHOOSE x \in Copied(a) : OffsetOf(LoggedAt(x)) = p
<1>1. CASE \E x \in Copied(a) : OffsetOf(LoggedAt(x)) = p
  <2>1. y \in Copied(a) /\ OffsetOf(LoggedAt(y)) = p
    BY <1>1
  <2>2. MergedRandom(f, a)[p] = f[log_pages[y[1]].address][y[2]]
    BY <1>1 DEF MergedRandom
  <2>3. y \in Scanned(a)
    BY <2>1 DEF Copied
  <2> QED
    BY <2>1, <2>2, <2>3
<1>2. CASE ~\E x \in Copied(a) : OffsetOf(LoggedAt(x)) = p
  BY <1>2 DEF MergedRandom
<1> QED
  BY <1>1, <1>2

LEMMA MergedRandomType ==
  ASSUME FastTypeOK, NEW a \in LBA, data_list[a] # NULL, NEW f \in [Block -> Pages]
  PROVE  MergedRandom(f, a) \in Pages
<1>1. ASSUME NEW p \in PageNo
      PROVE  MergedRandom(f, a)[p] \in LPN \cup {EMPTY, INVALID, OLD}
  <2>1. ASSUME NEW x \in Scanned(a)
        PROVE  f[log_pages[x[1]].address][x[2]] \in LPN \cup {EMPTY, INVALID, OLD}
    <3>1. x[1] \in 1 .. LogLimit /\ x[2] \in PageNo
      BY ScannedAre
    <3>2. log_pages[x[1]].address \in Block
      BY <3>1, FastTypes
    <3> QED
      BY <3>1, <3>2 DEF Pages
  <2>2. ValidData(f[data_list[a]][p]) \in LPN \cup {EMPTY, INVALID, OLD}
    <3>1. f[data_list[a]][p] \in LPN \cup {EMPTY, INVALID, OLD}
      BY FastTypes DEF Pages
    <3> QED
      BY <3>1, ValidDataType
  <2> QED
    BY <2>1, <2>2, MergedRandomIs
<1> DEFINE g == MergedRandom(f, a)
<1>2. g = [p \in PageNo |-> g[p]]
  BY DEF MergedRandom
<1> HIDE DEF g
<1>3. \A p \in PageNo : g[p] \in LPN \cup {EMPTY, INVALID, OLD}
  BY <1>1 DEF g
<1>4. g \in Pages
  BY <1>2, <1>3 DEF Pages
<1> QED
  BY <1>4 DEF g

LEMMA InvalidateDataTyped ==
  ASSUME FastTypeOK, NEW m \in Memories, NEW a \in LBA
  PROVE  /\ InvalidateData(m, a) \in Memories
         /\ InvalidateData(m, a).flash = m.flash
         /\ InvalidateData(m, a).bm.log_active = m.bm.log_active
         /\ InvalidateData(m, a).bm.data_active = m.bm.data_active - One(data_list[a])
         /\ data_list[a] # NULL =>
              InvalidateData(m, a) = Invalidated(m, data_list[a], "DATA")
         /\ data_list[a] = NULL => InvalidateData(m, a) = m
<1>1. m.bm.data_active \in Int
  BY MemoryParts DEF Manager
<1>2. CASE data_list[a] = NULL
  <2>1. InvalidateData(m, a) = m /\ One(data_list[a]) = 0
    BY <1>2 DEF InvalidateData, One
  <2> QED
    BY <1>1, <1>2, <2>1
<1>3. CASE data_list[a] # NULL
  <2>1. InvalidateData(m, a) = Invalidated(m, data_list[a], "DATA") /\ One(data_list[a]) = 1
    BY <1>3 DEF InvalidateData, Invalidated, One
  <2>2. data_list[a] \in Block
    BY <1>3, FastTypes
  <2> QED
    BY <1>3, <2>1, <2>2, InvalidatedTyped, InvalidatedCounters
<1> QED
  BY <1>2, <1>3

LEMMA VictimOutTyped ==
  ASSUME FastTypeOK
  PROVE  /\ log_pages[1].address \in Block
         /\ VictimOut = Invalidated(Memory, log_pages[1].address, "LOG")
         /\ VictimOut \in Memories /\ VictimOut.flash = flash
         /\ VictimOut.bm.data_active = bm.data_active
         /\ VictimOut.bm.log_active = bm.log_active - 1
<1>1. 1 \in 1 .. LogLimit
  BY FastConstants
<1>2. log_pages[1].address \in Block /\ Memory \in Memories
  BY <1>1, FastTypes
<1>3. VictimOut = Invalidated(Memory, log_pages[1].address, "LOG")
  BY DEF VictimOut, Invalidated
<1>4. Memory.bm = bm /\ Memory.flash = flash
  BY FastTypes
<1> QED
  BY <1>2, <1>3, <1>4, InvalidatedTyped, InvalidatedCounters
-----------------------------------------------------------------------------
(* The part of the invariant that no trim can break: the types, and where    *)
(* the random log pages go.                                                *)

FastBase ==
  /\ FastTypeOK
  /\ bm.log_active <= LogLimit
  /\ PagesInLog
  /\ pc = "merge" => LogFull

(* What a step leaves of it when it does not touch the random log blocks.    *)
LEMMA LogPagesKept ==
  ASSUME UNCHANGED <<log_pages, log_page_next>>
  PROVE  (PagesInLog' <=> PagesInLog) /\ (LogFull' <=> LogFull)
BY DEF PagesInLog, LogFull, RandomPage

LEMMA WriteStartBase ==
  ASSUME FastBase, NEW l \in WRITTEN, FastWriteStart(l)
  PROVE  FastBase' /\ bm' = bm
<1>1. l \in LPN
  BY FASTAssumption
<1>2. FastTypeOK'
  BY <1>1 DEF FastBase, FastTypeOK, FastWriteStart
<1> QED
  BY <1>2, LogPagesKept DEF FastBase, FastWriteStart

LEMMA AbortBase ==
  ASSUME FastBase, FastAbort
  PROVE  FastBase' /\ bm' = bm /\ pc' = "aborted"
<1>1. pc # "idle"
  BY DEF FastAbort, FastNoFreeBlock, OutOfBounds, PageTaken, NeedsDataBlock, Merges, Switches,
         ReplacesSequential, ExtendsSequential, ToRandomLog, ToLog
<1>2. FastTypeOK'
  BY <1>1 DEF FastBase, FastTypeOK, FastAbort
<1> QED
  BY <1>2, LogPagesKept DEF FastBase, FastAbort

LEMMA WriteInPlaceBase ==
  ASSUME FastBase, WriteInPlace
  PROVE  FastBase' /\ bm'.log_active = bm.log_active /\ pc = "write"
<1>1. FastTypeOK /\ Memory \in Memories /\ Memory.bm = bm
  BY FastTypes DEF FastBase
<1>2. pc = "write" /\ UNCHANGED <<log_pages, log_page_next, sequential, mergeBlocks>>
  BY DEF WriteInPlace, NeedsDataBlock, InPlace
<1>3. lpn \in LPN /\ Lba \in LBA
  BY <1>1, <1>2, FastTypes
<1>4. CASE NeedsDataBlock /\ Obtainable(Memory)
           /\ data_list' = [data_list EXCEPT ![Lba] = NewBlock(Memory)]
           /\ Issue(Obtain(Memory, "DATA"), NewBlock(Memory), Offset)
  <2>1. /\ NewBlock(Memory) \in Block /\ Obtain(Memory, "DATA") \in Memories
        /\ Obtain(Memory, "DATA").bm.log_active = bm.log_active
    BY <1>1, <1>4, ObtainTyped, ObtainCounters
  <2>2. /\ flash' \in [Block -> Pages] /\ bm' \in Manager /\ bm'.log_active = bm.log_active
        /\ pc' = "idle" /\ lpn' = NULL
    BY <1>3, <1>4, <2>1, IssueEffect
  <2>3. data_list' \in [LBA -> Block \cup {NULL}]
    BY <1>1, <1>3, <1>4, <2>1 DEF FastTypeOK
  <2>4. FastTypeOK'
    BY <1>1, <1>2, <2>2, <2>3 DEF FastTypeOK, Pages
  <2> QED
    BY <1>2, <2>2, <2>4, LogPagesKept DEF FastBase
<1>5. CASE InPlace /\ Issue(Memory, data_list[Lba], Offset) /\ UNCHANGED data_list
  <2>1. data_list[Lba] \in Block
    BY <1>1, <1>3, <1>5, FastTypes DEF InPlace
  <2>2. /\ flash' \in [Block -> Pages] /\ bm' \in Manager /\ bm'.log_active = bm.log_active
        /\ pc' = "idle" /\ lpn' = NULL
    BY <1>1, <1>3, <1>5, <2>1, IssueEffect
  <2>3. FastTypeOK'
    BY <1>1, <1>2, <1>5, <2>2 DEF FastTypeOK, Pages
  <2> QED
    BY <1>2, <2>2, <2>3, LogPagesKept DEF FastBase
<1> QED
  BY <1>4, <1>5 DEF WriteInPlace

LEMMA AppendSequentialBase ==
  ASSUME FastBase, AppendSequential
  PROVE  FastBase' /\ bm'.log_active = bm.log_active /\ pc = "write"
<1>1. FastTypeOK /\ Memory \in Memories /\ Memory.bm = bm
  BY FastTypes DEF FastBase
<1>2. /\ pc = "write" /\ UNCHANGED <<data_list, log_pages, log_page_next, mergeBlocks>>
      /\ sequential.lba = Lba /\ Offset = sequential.offset
      /\ Issue(Memory, sequential.address, NextSequentialPage)
      /\ sequential' = [sequential EXCEPT !.offset = @ + 1]
  BY DEF AppendSequential, ExtendsSequential, ToLog
<1>3. lpn \in LPN /\ Lba \in LBA /\ Offset \in PageNo
  BY <1>1, <1>2, FastTypes
<1>4. sequential.lba # NULL /\ sequential.address \in Block
  BY <1>1, <1>2, <1>3, FastConstants, FastTypes
<1>5. /\ flash' \in [Block -> Pages] /\ bm' \in Manager /\ bm'.log_active = bm.log_active
      /\ pc' = "idle" /\ lpn' = NULL
  BY <1>1, <1>2, <1>3, <1>4, IssueEffect
<1>6. sequential.offset + 1 \in 0 .. BLOCK_SIZE
  BY <1>2, <1>3, FastConstants DEF PageNo
<1>7. /\ sequential' \in [lba : LBA \cup {NULL}, address : Block \cup {NULL},
                          offset : 0 .. BLOCK_SIZE]
      /\ sequential'.address = sequential.address /\ sequential'.lba = sequential.lba
  BY <1>1, <1>2, <1>6 DEF FastTypeOK
<1>8. FastTypeOK'
  BY <1>1, <1>2, <1>5, <1>7 DEF FastTypeOK, Pages
<1> QED
  BY <1>2, <1>5, <1>8, LogPagesKept DEF FastBase

LEMMA SwitchSequentialBase ==
  ASSUME FastBase, SwitchSequential
  PROVE  /\ FastBase' /\ bm'.log_active = bm.log_active /\ pc = "write"
         /\ bm'.data_active = bm.data_active - One(data_list[sequential.lba])
<1>1. FastTypeOK /\ Memory \in Memories /\ Memory.bm = bm /\ bm \in Manager
  BY FastTypes DEF FastBase
<1>2. /\ pc = "write" /\ sequential.lba # NULL
      /\ UNCHANGED <<flash, log_pages, log_page_next, sequential, lpn, mergeBlocks>>
      /\ bm' = InvalidateData(Memory, sequential.lba).bm /\ pc' = "sequential"
      /\ data_list' = [data_list EXCEPT ![sequential.lba] = sequential.address]
  BY DEF SwitchSequential, Switches, ReplacesSequential, ToLog
<1>3. sequential.lba \in LBA /\ sequential.address \in Block
  BY <1>1, <1>2, FastTypes
<1>4. /\ bm' \in Manager /\ bm'.log_active = bm.log_active
      /\ bm'.data_active = bm.data_active - One(data_list[sequential.lba])
  BY <1>1, <1>2, <1>3, InvalidateDataTyped, MemoryParts
<1>5. FastTypeOK'
  BY <1>1, <1>2, <1>3, <1>4 DEF FastTypeOK
<1> QED
  BY <1>2, <1>4, <1>5, LogPagesKept DEF FastBase

(* The memory merge_sequential copies in, and the one it leaves.            *)
MergingSequential == CollectedIfLow(Obtain(Memory, "DATA"))

SequentialOut == Invalidated(MergingSequential, sequential.address, "DATA")

LEMMA MergeSequentialIs ==
  ASSUME FastBase, MergeSequential, sequential.lba # NULL
  PROVE  /\ NewBlock(Memory) \in Block /\ sequential.address \in Block
         /\ Obtain(Memory, "DATA") \in Memories /\ MergingSequential \in Memories
         /\ SequentialOut \in Memories /\ Obtainable(Memory)
         /\ flash' = CopyTo(MergingSequential.flash, NewBlock(Memory),
                            MergedSequential(MergingSequential.flash))
         /\ flash' \in [Block -> Pages]
         /\ bm' = InvalidateData(SequentialOut, sequential.lba).bm /\ bm' \in Manager
         /\ bm'.log_active = bm.log_active
         /\ bm'.data_active = bm.data_active - One(data_list[sequential.lba])
         /\ data_list' = [data_list EXCEPT ![sequential.lba] = NewBlock(Memory)]
<1> DEFINE m == CollectedIfLow(Obtain(Memory, "DATA"))
           new == NewBlock(Memory)
<1>1. FastTypeOK /\ Memory \in Memories /\ Memory.bm = bm /\ bm \in Manager
  BY FastTypes DEF FastBase
<1>2. /\ Obtainable(Memory)
      /\ flash' = CopyTo(m.flash, new, MergedSequential(m.flash))
      /\ bm' = InvalidateData([m EXCEPT !.bm = invalidate(@, sequential.address, "DATA")],
                              sequential.lba).bm
      /\ data_list' = [data_list EXCEPT ![sequential.lba] = new]
  BY DEF MergeSequential
<1>3. m = MergingSequential
  BY DEF MergingSequential
<1>4. sequential.lba \in LBA /\ sequential.address \in Block
  BY <1>1, FastTypes
<1>5. new \in Block /\ Obtain(Memory, "DATA") \in Memories
  BY <1>1, <1>2, ObtainTyped
<1>6. /\ m \in Memories /\ m.bm.log_active = bm.log_active
      /\ m.bm.data_active = bm.data_active + 1
  BY <1>1, <1>2, <1>5, CollectedIfLowTyped, ObtainCounters
<1>7. SequentialOut = [m EXCEPT !.bm = invalidate(@, sequential.address, "DATA")]
  BY <1>3 DEF SequentialOut, Invalidated
<1> HIDE DEF m, new
<1>8. /\ SequentialOut \in Memories /\ SequentialOut.bm.log_active = bm.log_active
      /\ SequentialOut.bm.data_active = bm.data_active
  <2>1. bm.data_active \in Int
    BY <1>1 DEF Manager
  <2>2. SequentialOut = Invalidated(m, sequential.address, "DATA")
    BY <1>3 DEF SequentialOut
  <2>3. SequentialOut.bm.data_active = m.bm.data_active - 1
    BY <1>4, <1>6, <2>2, InvalidatedCounters
  <2>4. SequentialOut.bm.data_active = bm.data_active
    BY <1>6, <2>1, <2>3
  <2> QED
    BY <1>4, <1>6, <2>2, <2>4, InvalidatedTyped, InvalidatedCounters
<1>9. bm' = InvalidateData(SequentialOut, sequential.lba).bm
  BY <1>2, <1>7
<1>10. /\ bm' \in Manager /\ bm'.log_active = bm.log_active
       /\ bm'.data_active = bm.data_active - One(data_list[sequential.lba])
  BY <1>1, <1>4, <1>8, <1>9, InvalidateDataTyped, MemoryParts
<1>11. flash' \in [Block -> Pages]
  <2>1. m.flash \in [Block -> Pages]
    BY <1>6, MemoryParts
  <2>2. MergedSequential(m.flash) \in Pages
    BY <1>1, <2>1, MergedSequentialType
  <2> QED
    BY <1>2, <1>5, <2>1, <2>2, CopyToEffect
<1> QED
  BY <1>2, <1>3, <1>4, <1>5, <1>6, <1>8, <1>9, <1>10, <1>11 DEF new

LEMMA MergeSequentialBase ==
  ASSUME FastBase, MergeSequential
  PROVE  FastBase' /\ bm'.log_active = bm.log_active /\ pc = "write"
<1>1. FastTypeOK
  BY DEF FastBase
<1>2. /\ pc = "write" /\ pc' = "sequential"
      /\ UNCHANGED <<log_pages, log_page_next, sequential, lpn, mergeBlocks>>
  BY DEF MergeSequential, Merges, ReplacesSequential, ToLog
<1>3. CASE sequential.lba = NULL
  <2>1. UNCHANGED <<flash, bm, data_list>>
    BY <1>3 DEF MergeSequential
  <2>2. FastTypeOK'
    BY <1>1, <1>2, <2>1 DEF FastTypeOK
  <2> QED
    BY <1>2, <2>1, <2>2, LogPagesKept DEF FastBase
<1>4. CASE sequential.lba # NULL
  <2>1. sequential.lba \in LBA
    BY <1>1, <1>4, FastTypes
  <2>2. FastTypeOK'
    BY <1>1, <1>2, <1>4, <2>1, MergeSequentialIs DEF FastTypeOK, Pages
  <2> QED
    BY <1>2, <1>4, <2>2, MergeSequentialIs, LogPagesKept DEF FastBase
<1> QED
  BY <1>3, <1>4

LEMMA StartSequentialBase ==
  ASSUME FastBase, StartSequential
  PROVE  /\ FastBase' /\ bm'.log_active = bm.log_active /\ pc = "sequential"
         /\ bm'.data_active = bm.data_active + 1
<1>1. FastTypeOK /\ Memory \in Memories /\ Memory.bm = bm
  BY FastTypes DEF FastBase
<1>2. /\ pc = "sequential" /\ Obtainable(Memory)
      /\ sequential' = [lba |-> Lba, address |-> NewBlock(Memory), offset |-> 1]
      /\ Issue(Obtain(Memory, "DATA"), NewBlock(Memory), 0)
      /\ UNCHANGED <<data_list, log_pages, log_page_next, mergeBlocks>>
  BY DEF StartSequential
<1>3. lpn \in LPN /\ Lba \in LBA
  BY <1>1, <1>2, FastTypes
<1>4. /\ NewBlock(Memory) \in Block /\ Obtain(Memory, "DATA") \in Memories
      /\ Obtain(Memory, "DATA").bm.log_active = bm.log_active
      /\ Obtain(Memory, "DATA").bm.data_active = bm.data_active + 1
  BY <1>1, <1>2, ObtainTyped, ObtainCounters
<1>5. /\ flash' \in [Block -> Pages] /\ bm' \in Manager /\ bm'.log_active = bm.log_active
      /\ bm'.data_active = bm.data_active + 1
      /\ pc' = "idle" /\ lpn' = NULL
  BY <1>2, <1>3, <1>4, IssueEffect
<1>6. 1 \in 0 .. BLOCK_SIZE
  BY FastConstants
<1>7. NewBlock(Memory) # NULL
  BY <1>4, FastConstants
<1>8. FastTypeOK'
  BY <1>1, <1>2, <1>3, <1>4, <1>5, <1>6, <1>7 DEF FastTypeOK, Pages
<1> QED
  BY <1>2, <1>5, <1>8, LogPagesKept DEF FastBase

LEMMA StartRandomMergeBase ==
  ASSUME FastBase, StartRandomMerge
  PROVE  FastBase' /\ bm' = bm /\ pc = "write"
<1>1. FastTypeOK
  BY DEF FastBase
<1>2. /\ pc = "write" /\ LogFull /\ pc' = "merge" /\ mergeBlocks' = LbasIn(log_pages[1])
      /\ UNCHANGED <<flash, bm, data_list, log_pages, log_page_next, sequential, lpn>>
  BY DEF StartRandomMerge, ToRandomLog, ToLog
<1>3. LbasIn(log_pages[1]) \subseteq LBA
  <2>1. 1 \in 1 .. LogLimit
    BY FastConstants
  <2>2. log_pages[1].aPages \in [PageNo -> LPN \cup {-1}]
    BY <1>1, <2>1, FastTypes
  <2>3. \A p \in PageNo : log_pages[1].aPages[p] # -1 => LbaOf(log_pages[1].aPages[p]) \in LBA
    BY <2>2, PositionType
  <2> QED
    BY <2>3 DEF LbasIn
<1>4. FastTypeOK'
  BY <1>1, <1>2, <1>3 DEF FastTypeOK
<1> QED
  BY <1>2, <1>4, LogPagesKept DEF FastBase

(* The memory random_merge copies in, and the blocks of the log afterwards.  *)
MergingRandom == Obtain(CollectedIfLow(Memory), "DATA")

MergeTarget == NewBlock(CollectedIfLow(Memory))

LEMMA MergeLogicalBlockIs ==
  ASSUME FastBase, NEW a \in mergeBlocks, MergeLogicalBlock(a)
  PROVE  /\ a \in LBA /\ data_list[a] \in Block /\ data_list[a] # NULL
         /\ CollectedIfLow(Memory) \in Memories /\ Obtainable(CollectedIfLow(Memory))
         /\ MergingRandom \in Memories
         /\ MergeTarget \in Block /\ MergingRandom.flash[MergeTarget] = Erased
         /\ flash' = CopyTo(MergingRandom.flash, MergeTarget, MergedRandom(MergingRandom.flash, a))
         /\ flash' \in [Block -> Pages]
         /\ bm' = Invalidated(MergingRandom, data_list[a], "DATA").bm /\ bm' \in Manager
         /\ bm'.log_active = bm.log_active /\ bm'.data_active = bm.data_active
         /\ data_list' = [data_list EXCEPT ![a] = MergeTarget]
         /\ pc = "merge" /\ mergeBlocks' = mergeBlocks \ {a}
         /\ UNCHANGED <<log_page_next, sequential, pc, lpn>>
<1> DEFINE c == CollectedIfLow(Memory)
           m == Obtain(c, "DATA")
           new == NewBlock(c)
<1>1. FastTypeOK /\ Memory \in Memories /\ Memory.bm = bm /\ bm \in Manager
  BY FastTypes DEF FastBase
<1>2. /\ pc = "merge" /\ Obtainable(c) /\ data_list[a] # NULL /\ m.flash[new] = Erased
      /\ flash' = CopyTo(m.flash, new, MergedRandom(m.flash, a))
      /\ bm' = InvalidateData(m, a).bm
      /\ data_list' = [data_list EXCEPT ![a] = new]
      /\ mergeBlocks' = mergeBlocks \ {a}
      /\ UNCHANGED <<log_page_next, sequential, pc, lpn>>
  BY DEF MergeLogicalBlock
<1>3. a \in LBA
  BY <1>1 DEF FastTypeOK
<1>4. data_list[a] \in Block
  BY <1>1, <1>2, <1>3, FastTypes
<1>5. c \in Memories /\ c.bm.log_active = bm.log_active /\ c.bm.data_active = bm.data_active
  BY <1>1, CollectedIfLowTyped
<1> HIDE DEF c
<1>6. /\ new \in Block /\ m \in Memories /\ m.bm.log_active = bm.log_active
      /\ m.bm.data_active = bm.data_active + 1
  BY <1>2, <1>5, ObtainTyped, ObtainCounters
<1> HIDE DEF m, new
<1>7. InvalidateData(m, a) = Invalidated(m, data_list[a], "DATA")
  BY <1>1, <1>2, <1>3, <1>6, InvalidateDataTyped
<1>8. /\ bm' \in Manager /\ bm'.log_active = bm.log_active /\ bm'.data_active = bm.data_active
  <2>1. bm.data_active \in Int
    BY <1>1 DEF Manager
  <2>2. bm'.data_active = m.bm.data_active - 1
    BY <1>2, <1>4, <1>6, <1>7, InvalidatedCounters
  <2>3. bm'.log_active = bm.log_active
    BY <1>2, <1>4, <1>6, <1>7, InvalidatedCounters
  <2>4. bm' \in Manager
    BY <1>2, <1>4, <1>6, <1>7, InvalidatedTyped, MemoryParts
  <2>5. bm'.data_active = bm.data_active
    BY <1>6, <2>1, <2>2
  <2> QED
    BY <2>3, <2>4, <2>5
<1>9. flash' \in [Block -> Pages]
  <2>1. m.flash \in [Block -> Pages]
    BY <1>6, MemoryParts
  <2>2. MergedRandom(m.flash, a) \in Pages
    BY <1>1, <1>2, <1>3, <2>1, MergedRandomType
  <2> QED
    BY <1>2, <1>6, <2>1, <2>2, CopyToEffect
<1>10. m = MergingRandom /\ new = MergeTarget
  BY DEF m, new, c, MergingRandom, MergeTarget
<1>11. bm' = Invalidated(MergingRandom, data_list[a], "DATA").bm
  BY <1>2, <1>7, <1>10
<1>12. flash' = CopyTo(MergingRandom.flash, MergeTarget, MergedRandom(MergingRandom.flash, a))
  BY <1>2, <1>10
<1>13. MergingRandom.flash[MergeTarget] = Erased /\ data_list' = [data_list EXCEPT ![a] = MergeTarget]
  BY <1>2, <1>10
<1>14. Obtainable(CollectedIfLow(Memory)) /\ CollectedIfLow(Memory) \in Memories
  BY <1>2, <1>5 DEF c
<1> QED
  BY <1>2, <1>3, <1>4, <1>6, <1>8, <1>9, <1>10, <1>11, <1>12, <1>13, <1>14

LEMMA MergedLog ==
  ASSUME FastTypeOK, NEW a, MergeLogicalBlock(a)
  PROVE  /\ log_pages' \in [1 .. LogLimit -> RandomLogBlock]
         /\ \A i \in 1 .. LogLimit :
              /\ log_pages'[i].address = log_pages[i].address
              /\ log_pages'[i].numPages = log_pages[i].numPages
              /\ \A p \in PageNo : log_pages'[i].aPages[p] \in {-1, log_pages[i].aPages[p]}
<1> DEFINE P(i) == [p \in PageNo |-> IF <<i, p>> \in Scanned(a) \ Copied(a) THEN -1
                                     ELSE log_pages[i].aPages[p]]
<1>1. ASSUME NEW i \in 1 .. LogLimit
      PROVE  /\ log_pages'[i] \in RandomLogBlock
             /\ log_pages'[i].address = log_pages[i].address
             /\ log_pages'[i].numPages = log_pages[i].numPages
             /\ \A p \in PageNo : log_pages'[i].aPages[p] \in {-1, log_pages[i].aPages[p]}
  <2>1. log_pages'[i] = [log_pages[i] EXCEPT !.aPages = P(i)]
    BY DEF MergeLogicalBlock, LogLimit
  <2>2. log_pages[i] \in RandomLogBlock /\ log_pages[i].aPages \in [PageNo -> LPN \cup {-1}]
    BY FastTypes
  <2>3. P(i) \in [PageNo -> LPN \cup {-1}]
    BY <2>2
  <2>4. \A p \in PageNo : P(i)[p] \in {-1, log_pages[i].aPages[p]}
    OBVIOUS
  <2> HIDE DEF P
  <2> QED
    BY <2>1, <2>2, <2>3, <2>4 DEF RandomLogBlock
<1>2. log_pages' = [i \in 1 .. LogLimit |-> log_pages'[i]]
  BY DEF MergeLogicalBlock, LogLimit
<1>3. log_pages' \in [1 .. LogLimit -> RandomLogBlock]
  BY <1>1, <1>2
<1> QED
  BY <1>1, <1>3

LEMMA MergeLogicalBlockBase ==
  ASSUME FastBase, NEW a \in mergeBlocks, MergeLogicalBlock(a)
  PROVE  FastBase' /\ bm'.log_active = bm.log_active
<1>1. FastTypeOK
  BY DEF FastBase
<1>2. /\ log_pages' \in [1 .. LogLimit -> RandomLogBlock]
      /\ \A i \in 1 .. LogLimit : log_pages'[i].numPages = log_pages[i].numPages
  BY <1>1, MergedLog
<1>3. PagesInLog' /\ (LogFull' <=> LogFull)
  BY <1>2, MergeLogicalBlockIs DEF FastBase, PagesInLog, RandomPage, LogFull, LogLimit
<1>4. data_list' \in [LBA -> Block \cup {NULL}]
  BY <1>1, MergeLogicalBlockIs DEF FastTypeOK
<1>5. FastTypeOK'
  BY <1>1, <1>2, <1>4, MergeLogicalBlockIs DEF FastTypeOK, Pages, LogLimit
<1> QED
  BY <1>3, <1>5, MergeLogicalBlockIs DEF FastBase

LEMMA ReplaceVictimIs ==
  ASSUME FastBase, ReplaceVictim
  PROVE  /\ pc = "merge" /\ pc' = "write" /\ mergeBlocks = {} /\ Obtainable(VictimOut)
         /\ NewBlock(VictimOut) \in Block
         /\ Obtain(VictimOut, "LOG") \in Memories
         /\ flash' = Obtain(VictimOut, "LOG").flash /\ flash' \in [Block -> Pages]
         /\ bm' = Obtain(VictimOut, "LOG").bm /\ bm' \in Manager
         /\ bm'.log_active = bm.log_active /\ bm'.data_active = bm.data_active
         /\ log_pages' \in [1 .. LogLimit -> RandomLogBlock]
         /\ \A i \in 1 .. LogLimit - 1 : log_pages'[i] = log_pages[i + 1]
         /\ log_pages'[LogLimit] = NewRandomLog(NewBlock(VictimOut))
         /\ UNCHANGED <<data_list, sequential, lpn, mergeBlocks>>
<1>1. FastTypeOK /\ Memory \in Memories /\ Memory.bm = bm /\ bm \in Manager
  BY FastTypes DEF FastBase
<1>2. /\ pc = "merge" /\ mergeBlocks = {} /\ Obtainable(VictimOut) /\ pc' = "write"
      /\ log_pages' = Append(Tail(log_pages), NewRandomLog(NewBlock(VictimOut)))
      /\ flash' = Obtain(VictimOut, "LOG").flash /\ bm' = Obtain(VictimOut, "LOG").bm
      /\ UNCHANGED <<data_list, sequential, lpn, mergeBlocks>>
  BY DEF ReplaceVictim
<1>3. /\ VictimOut \in Memories /\ VictimOut.bm.data_active = bm.data_active
      /\ VictimOut.bm.log_active = bm.log_active - 1
  BY <1>1, VictimOutTyped
<1>4. /\ NewBlock(VictimOut) \in Block /\ Obtain(VictimOut, "LOG") \in Memories
      /\ bm' \in Manager /\ flash' \in [Block -> Pages]
      /\ bm'.data_active = bm.data_active /\ bm'.log_active = VictimOut.bm.log_active + 1
  BY <1>2, <1>3, ObtainTyped, ObtainCounters, MemoryParts
<1>5. bm.log_active \in Int
  BY <1>1 DEF Manager
<1>6. bm'.log_active = bm.log_active
  BY <1>3, <1>4, <1>5
<1> DEFINE new == NewRandomLog(NewBlock(VictimOut))
<1>7. new \in RandomLogBlock
  <2>1. 0 \in 0 .. BLOCK_SIZE
    BY FastConstants
  <2> QED
    BY <1>4, <2>1 DEF NewRandomLog, RandomLogBlock
<1> HIDE DEF new
<1>8. log_pages \in Seq(RandomLogBlock) /\ Len(log_pages) = LogLimit /\ log_pages # <<>>
  <2>1. log_pages \in [1 .. LogLimit -> RandomLogBlock] /\ LogLimit \in Nat /\ LogLimit >= 2
    BY <1>1, FastConstants DEF FastTypeOK, LogLimit
  <2> HIDE DEF LogLimit
  <2>2. log_pages \in Seq(RandomLogBlock) /\ Len(log_pages) = LogLimit
    BY <2>1
  <2> QED
    BY <2>1, <2>2, EmptySeq
<1>9. /\ Tail(log_pages) \in Seq(RandomLogBlock) /\ Len(Tail(log_pages)) = LogLimit - 1
      /\ \A i \in 1 .. LogLimit - 1 : Tail(log_pages)[i] = log_pages[i + 1]
  BY <1>8, HeadTailProperties
<1>10. /\ log_pages' \in Seq(RandomLogBlock) /\ Len(log_pages') = LogLimit - 1 + 1
       /\ \A i \in 1 .. LogLimit - 1 : log_pages'[i] = log_pages[i + 1]
       /\ log_pages'[LogLimit - 1 + 1] = new
  BY <1>2, <1>7, <1>9, AppendProperties DEF new
<1>11. LogLimit - 1 + 1 = LogLimit
  BY FastConstants
<1>12. log_pages' \in [1 .. LogLimit -> RandomLogBlock]
  BY <1>10, <1>11, LenProperties
<1> QED
  BY <1>2, <1>4, <1>6, <1>10, <1>11, <1>12 DEF new

LEMMA ReplaceVictimBase ==
  ASSUME FastBase, ReplaceVictim
  PROVE  FastBase' /\ bm'.log_active = bm.log_active
<1>1. FastTypeOK /\ LogFull /\ PagesInLog /\ pc = "merge"
  BY ReplaceVictimIs DEF FastBase
<1>2. /\ LogLimit \in Nat /\ LogLimit >= 2 /\ BLOCK_SIZE \in Nat /\ BLOCK_SIZE >= 1
      /\ 0 \in PageNo
  BY FastConstants
<1>3. log_page_next = LogLimit * BLOCK_SIZE
  BY <1>1 DEF LogFull, LogLimit
<1>4. log_page_next' = (LogLimit - 1) * BLOCK_SIZE
  BY <1>2, <1>3 DEF ReplaceVictim, LogPageNextReplaced
<1>5. log_page_next \div BLOCK_SIZE = LogLimit
  <2>1. log_page_next \in Nat /\ log_page_next = LogLimit * BLOCK_SIZE + 0
    BY <1>2, <1>3
  <2> QED
    BY <1>2, <2>1, QuotientIs
<1>6. log_page_next' \in Nat /\ log_page_next' <= LogLimit * BLOCK_SIZE
  <2>1. LogLimit * BLOCK_SIZE - (LogLimit - 1) * BLOCK_SIZE = BLOCK_SIZE
    BY <1>2
  <2>2. (LogLimit - 1) * BLOCK_SIZE \in Nat
    BY <1>2
  <2>3. LogLimit * BLOCK_SIZE \in Nat
    BY <1>2
  <2> QED
    BY <1>2, <1>4, <2>1, <2>2, <2>3
<1>7. log_page_next' \div BLOCK_SIZE = LogLimit - 1 /\ log_page_next' % BLOCK_SIZE = 0
  <2>1. LogLimit - 1 \in Nat /\ log_page_next' = (LogLimit - 1) * BLOCK_SIZE + 0
    BY <1>2, <1>4, <1>6
  <2> QED
    BY <1>2, <1>6, <2>1, QuotientIs
<1>8. \A i \in 1 .. LogLimit : log_pages[i].numPages = BLOCK_SIZE
  <2>1. \A i \in 1 .. LogLimit :
          log_pages[i].numPages = IF i <= LogLimit THEN BLOCK_SIZE
                                  ELSE IF i = LogLimit + 1 THEN RandomPage ELSE 0
    BY <1>1, <1>5 DEF PagesInLog, LogLimit
  <2> QED
    BY <1>2, <2>1
<1>9. ASSUME NEW i \in 1 .. LogLimit
      PROVE  log_pages'[i].numPages = IF i <= LogLimit - 1 THEN BLOCK_SIZE
                                      ELSE IF i = LogLimit - 1 + 1 THEN 0 ELSE 0
  <2>1. CASE i <= LogLimit - 1
    <3>1. i \in 1 .. LogLimit - 1 /\ i + 1 \in 1 .. LogLimit
      BY <1>2, <2>1
    <3>2. log_pages'[i] = log_pages[i + 1]
      BY <3>1, ReplaceVictimIs
    <3> QED
      BY <1>8, <2>1, <3>1, <3>2
  <2>2. CASE i = LogLimit
    <3>1. log_pages'[i].numPages = 0
      BY <2>2, ReplaceVictimIs DEF NewRandomLog
    <3> QED
      BY <1>2, <2>2, <3>1
  <2> QED
    BY <1>2, <2>1, <2>2
<1>10. PagesInLog'
  BY <1>7, <1>9 DEF PagesInLog, RandomPage, LogLimit
<1>11. log_page_next' \in 0 .. LogLimit * BLOCK_SIZE
  <2>1. LogLimit * BLOCK_SIZE \in Nat
    BY <1>2
  <2> QED
    BY <1>6, <2>1
<1>12. FastTypeOK'
  BY <1>1, <1>11, ReplaceVictimIs DEF FastTypeOK, Pages, LogLimit
<1> QED
  BY <1>10, <1>12, ReplaceVictimIs DEF FastBase

LEMMA AppendRandomIs ==
  ASSUME FastBase, AppendRandom
  PROVE  /\ pc = "write" /\ ToRandomLog /\ ~LogFull
         /\ RandomLog \in 1 .. LogLimit /\ RandomPage \in PageNo
         /\ log_pages[RandomLog].numPages = RandomPage
         /\ log_pages' \in [1 .. LogLimit -> RandomLogBlock]
         /\ \A i \in 1 .. LogLimit :
              /\ log_pages'[i].address = log_pages[i].address
              /\ i # RandomLog => log_pages'[i] = log_pages[i]
              /\ \A p \in PageNo : i # RandomLog \/ p # RandomPage =>
                   log_pages'[i].aPages[p] = log_pages[i].aPages[p]
         /\ log_pages'[RandomLog].numPages = RandomPage + 1
         /\ log_pages'[RandomLog].aPages[RandomPage] = lpn
         /\ Issue(Memory, log_pages[RandomLog].address, RandomPage)
         /\ UNCHANGED <<data_list, sequential, mergeBlocks>>
<1> DEFINE i == RandomLog
           p == RandomPage
           log == log_pages[i]
           new == [address |-> log.address, aPages |-> [log.aPages EXCEPT ![p] = lpn],
                   numPages |-> log.numPages + 1]
<1>1. FastTypeOK /\ PagesInLog
  BY DEF FastBase
<1>2. /\ pc = "write" /\ ToRandomLog /\ ~LogFull
      /\ log_pages' = [log_pages EXCEPT ![i].aPages[p] = lpn, ![i].numPages = @ + 1]
      /\ Issue(Memory, log_pages[i].address, p)
      /\ UNCHANGED <<data_list, sequential, mergeBlocks>>
  BY DEF AppendRandom, ToRandomLog, ToLog
<1>3. i \in 1 .. LogLimit /\ p \in PageNo /\ log.numPages = p
  BY <1>1, <1>2, RandomLogIs
<1>4. lpn \in LPN
  BY <1>1, <1>2, FastTypes
<1>5. /\ log \in RandomLogBlock /\ log.address \in Block
      /\ log.aPages \in [PageNo -> LPN \cup {-1}] /\ log.numPages \in 0 .. BLOCK_SIZE
  BY <1>1, <1>3, FastTypes
<1>6. log_pages \in [1 .. LogLimit -> RandomLogBlock]
  BY <1>1 DEF FastTypeOK, LogLimit
<1> HIDE DEF i, p
<1>7. log = [address |-> log.address, aPages |-> log.aPages, numPages |-> log.numPages]
  BY <1>5 DEF RandomLogBlock
<1>8. log_pages' = [log_pages EXCEPT ![i] = new]
  <2>1. [log EXCEPT !.aPages[p] = lpn, !.numPages = @ + 1] = new
    <3> DEFINE half == [log EXCEPT !.aPages[p] = lpn]
               pages == [log.aPages EXCEPT ![p] = lpn]
    <3> HIDE DEF log
    <3>1. half = [address |-> log.address, aPages |-> pages, numPages |-> log.numPages]
      BY <1>7
    <3>2. [log EXCEPT !.aPages[p] = lpn, !.numPages = @ + 1]
            = [half EXCEPT !.numPages = log.numPages + 1]
      BY <3>1
    <3> HIDE DEF half, pages
    <3>3. [half EXCEPT !.numPages = log.numPages + 1]
            = [address |-> log.address, aPages |-> pages, numPages |-> log.numPages + 1]
      BY <3>1
    <3> QED
      BY <3>2, <3>3 DEF pages
  <2>2. log_pages' = [log_pages EXCEPT ![i] = [log EXCEPT !.aPages[p] = lpn, !.numPages = @ + 1]]
    BY <1>2, <1>3, <1>6
  <2> QED
    BY <2>1, <2>2
<1>9. /\ new.address = log.address /\ new.numPages = p + 1 /\ new.aPages[p] = lpn
      /\ \A q \in PageNo : q # p => new.aPages[q] = log.aPages[q]
      /\ new \in RandomLogBlock
  <2>1. p + 1 \in 0 .. BLOCK_SIZE
    BY <1>3, FastConstants DEF PageNo
  <2> QED
    BY <1>3, <1>4, <1>5, <2>1 DEF RandomLogBlock
<1> HIDE DEF new, log
<1>10. log_pages' \in [1 .. LogLimit -> RandomLogBlock]
  BY <1>6, <1>8, <1>9
<1>11. log_pages'[i] = new /\ \A k \in 1 .. LogLimit : k # i => log_pages'[k] = log_pages[k]
  BY <1>3, <1>6, <1>8
<1>12. ASSUME NEW k \in 1 .. LogLimit
       PROVE  /\ log_pages'[k].address = log_pages[k].address
              /\ k # i => log_pages'[k] = log_pages[k]
              /\ \A q \in PageNo : k # i \/ q # p =>
                   log_pages'[k].aPages[q] = log_pages[k].aPages[q]
  BY <1>9, <1>11 DEF log
<1> QED
  BY <1>2, <1>3, <1>9, <1>10, <1>11, <1>12 DEF i, p, log

LEMMA AppendRandomBase ==
  ASSUME FastBase, AppendRandom
  PROVE  FastBase' /\ bm'.log_active = bm.log_active /\ bm'.data_active = bm.data_active
<1> DEFINE full == RandomLog - 1
           r == RandomPage
<1>1. FastTypeOK /\ PagesInLog /\ ~LogFull /\ Memory \in Memories /\ Memory.bm = bm
  BY AppendRandomIs, FastTypes DEF FastBase
<1>2. /\ LogLimit \in Nat /\ LogLimit >= 2 /\ BLOCK_SIZE \in Nat /\ BLOCK_SIZE >= 1
      /\ 0 \in PageNo
  BY FastConstants
<1>3. /\ RandomLog \in 1 .. LogLimit /\ r \in PageNo
      /\ RandomLog = log_page_next \div BLOCK_SIZE + 1
      /\ log_page_next = full * BLOCK_SIZE + r
  BY <1>1, RandomLogIs
<1>4. log_page_next \in Nat /\ log_page_next <= LogLimit * BLOCK_SIZE /\ log_page_next # LogLimit * BLOCK_SIZE
  BY <1>1, <1>2 DEF FastTypeOK, LogFull, LogLimit
<1>5. log_page_next' = log_page_next + 1
  BY DEF AppendRandom
<1> HIDE DEF full, r
<1>6. full \in Nat /\ RandomLog = full + 1 /\ full < LogLimit
  BY <1>2, <1>3 DEF full
<1>7. log_page_next \div BLOCK_SIZE = full
  <2>1. log_page_next \div BLOCK_SIZE = full /\ log_page_next % BLOCK_SIZE = r
    BY <1>3, <1>4, <1>6, QuotientIs
  <2> QED
    BY <2>1
<1>8. \A i \in 1 .. LogLimit :
        log_pages[i].numPages = IF i <= full THEN BLOCK_SIZE
                                ELSE IF i = full + 1 THEN r ELSE 0
  BY <1>1, <1>7 DEF PagesInLog, LogLimit, r
<1>9. \A i \in 1 .. LogLimit :
        log_pages'[i].numPages = IF i = full + 1 THEN r + 1 ELSE log_pages[i].numPages
  BY <1>6, AppendRandomIs DEF r
<1>10. PagesInLog'
  <2>1. CASE r + 1 < BLOCK_SIZE
    <3>1. r + 1 \in PageNo
      BY <1>2, <1>3, <2>1 DEF PageNo
    <3>2. log_page_next' \in Nat /\ log_page_next' = full * BLOCK_SIZE + (r + 1)
      BY <1>2, <1>3, <1>4, <1>5, <1>6 DEF PageNo
    <3>3. log_page_next' \div BLOCK_SIZE = full /\ log_page_next' % BLOCK_SIZE = r + 1
      BY <1>6, <3>1, <3>2, QuotientIs
    <3>4. \A i \in 1 .. LogLimit :
            log_pages'[i].numPages = IF i <= full THEN BLOCK_SIZE
                                     ELSE IF i = full + 1 THEN r + 1 ELSE 0
      BY <1>6, <1>8, <1>9
    <3> QED
      BY <3>3, <3>4 DEF PagesInLog, RandomPage, LogLimit
  <2>2. CASE r + 1 = BLOCK_SIZE
    <3>1. full + 1 \in Nat
      BY <1>6
    <3>2. log_page_next' \in Nat /\ log_page_next' = (full + 1) * BLOCK_SIZE + 0
      BY <1>2, <1>3, <1>4, <1>5, <1>6, <2>2 DEF PageNo
    <3>3. log_page_next' \div BLOCK_SIZE = full + 1 /\ log_page_next' % BLOCK_SIZE = 0
      BY <1>2, <3>1, <3>2, QuotientIs
    <3>4. \A i \in 1 .. LogLimit :
            log_pages'[i].numPages = IF i <= full + 1 THEN BLOCK_SIZE
                                     ELSE IF i = full + 1 + 1 THEN 0 ELSE 0
      BY <1>6, <1>8, <1>9, <2>2
    <3> QED
      BY <3>3, <3>4 DEF PagesInLog, RandomPage, LogLimit
  <2> QED
    BY <1>2, <1>3, <2>1, <2>2 DEF PageNo
<1>11. log_page_next' \in 0 .. LogLimit * BLOCK_SIZE
  <2>1. LogLimit * BLOCK_SIZE \in Nat
    BY <1>2
  <2> QED
    BY <1>4, <1>5, <2>1
<1>12. /\ flash' \in [Block -> Pages] /\ bm' \in Manager
       /\ bm'.log_active = bm.log_active /\ bm'.data_active = bm.data_active
       /\ pc' = "idle" /\ lpn' = NULL
  <2>1. lpn \in LPN /\ log_pages[RandomLog].address \in Block
    BY <1>1, <1>3, AppendRandomIs, FastTypes
  <2> QED
    BY <1>1, <2>1, AppendRandomIs, IssueEffect
<1>13. FastTypeOK'
  BY <1>1, <1>11, <1>12, AppendRandomIs DEF FastTypeOK, Pages, LogLimit
<1> QED
  BY <1>10, <1>12, <1>13 DEF FastBase

LEMMA LeastNatural ==
  ASSUME NEW T, T \subseteq Nat, T # {}
  PROVE  \E n \in T : \A k \in T : n <= k
<1>1. PICK n \in T : \A k \in T : ~ (<<k, n>> \in OpToRel(<, Nat))
  BY NatLessThanWellFounded, WFMin
<1>2. ASSUME NEW k \in T PROVE n <= k
  <2>1. k \in Nat /\ n \in Nat
    OBVIOUS
  <2>2. ~(k < n)
    BY <1>1, <2>1 DEF OpToRel
  <2> QED
    BY <2>1, <2>2
<1> QED
  BY <1>2

LEMMA FirstLogPlaceIs ==
  ASSUME NEW l, LogPlaces(l) # {}
  PROVE  /\ FirstLogPlace(l) \in LogPlaces(l)
         /\ FirstLogPlace(l)[1] \in 1 .. LogLimit /\ FirstLogPlace(l)[2] \in PageNo
         /\ FirstLogPlace(l)[2] < log_pages[FirstLogPlace(l)[1]].numPages
         /\ log_pages[FirstLogPlace(l)[1]].aPages[FirstLogPlace(l)[2]] = l
<1> DEFINE Rank(x) == x[1] * BLOCK_SIZE + x[2]
           T == {Rank(x) : x \in LogPlaces(l)}
<1>1. \A x \in LogPlaces(l) : x[1] \in 1 .. LogLimit /\ x[2] \in PageNo
  BY DEF LogPlaces, LogLimit
<1>2. \A x \in LogPlaces(l) : Rank(x) \in Nat
  BY <1>1, FastConstants DEF PageNo
<1>3. T \subseteq Nat /\ T # {}
  BY <1>2
<1>4. PICK n \in T : \A k \in T : n <= k
  BY <1>3, LeastNatural
<1>5. PICK x \in LogPlaces(l) : n = Rank(x)
  BY <1>4
<1>6. \A y \in LogPlaces(l) : Rank(x) <= Rank(y)
  BY <1>4, <1>5
<1>7. FirstLogPlace(l) \in LogPlaces(l)
  BY <1>6 DEF FirstLogPlace
<1> QED
  BY <1>1, <1>7 DEF LogPlaces, LoggedAt

(* trim() leaves every page as it is, or without data, and gives a block     *)
(* back only if it has nothing else.                                        *)
PageInvalidated(b, p) == [flash |-> invalidate_page(flash, b, p), bm |-> bm]

LEMMA TrimPageEffect ==
  ASSUME FastTypeOK, NEW l, NEW b \in Block, NEW p \in PageNo, TrimPage(l, b, p)
  PROVE  /\ flash' \in [Block -> Pages] /\ bm' \in Manager
         /\ \A d \in Block, q \in PageNo : flash'[d][q] \in {flash[d][q], INVALID, EMPTY}
         /\ Empties(b, p) => bm'.log_active = bm.log_active - 1
         /\ PageInvalidated(b, p) \in Memories
         /\ ~Empties(b, p) => /\ bm' = Collected(PageInvalidated(b, p)).bm
                              /\ flash' = Collected(PageInvalidated(b, p)).flash
                              /\ bm'.log_active = bm.log_active
                              /\ bm'.data_active = bm.data_active
<1> DEFINE f == invalidate_page(flash, b, p)
           d == Disposed(f, b)
<1>1. flash \in [Block -> Pages] /\ bm \in Manager
  BY FastTypes
<1>2. /\ f \in [Block -> Pages]
      /\ \A c \in Block, q \in PageNo : f[c][q] \in {flash[c][q], INVALID}
  <2>1. [flash[b] EXCEPT ![p] = INVALID] \in Pages
    BY <1>1 DEF Pages
  <2>2. f = [flash EXCEPT ![b] = [flash[b] EXCEPT ![p] = INVALID]]
    BY <1>1 DEF invalidate_page
  <2>3. \A q \in PageNo : [flash[b] EXCEPT ![p] = INVALID][q] \in {flash[b][q], INVALID}
    BY <1>1 DEF Pages
  <2> QED
    BY <1>1, <2>1, <2>2, <2>3
<1>3. PageInvalidated(b, p) = [flash |-> f, bm |-> bm]
  BY DEF PageInvalidated
<1>4. PageInvalidated(b, p) \in Memories
  BY <1>1, <1>2, <1>3 DEF Memories
<1>5. flash' = Collected(d).flash /\ bm' = Collected(d).bm
  BY DEF TrimPage
<1>6. Empties(b, p) <=> IsInactive(f[b])
  BY DEF Empties
<1> HIDE DEF f
<1>7. CASE Empties(b, p)
  <2> DEFINE g == Erase(f, b)
             e == erase_and_invalidate(bm, b, "LOG")
  <2>1. d = [flash |-> g, bm |-> e]
    BY <1>6, <1>7 DEF Disposed
  <2>2. g \in [Block -> Pages]
    BY <1>2, ErasedType DEF Erase
  <2>3. \A c \in Block, q \in PageNo : g[c][q] \in {flash[c][q], INVALID, EMPTY}
    BY <1>2 DEF Erase, Erased
  <2>4. e \in Manager
    <3> DEFINE given == [bm EXCEPT !.free_list = Append(@, b)]
    <3>1. Append(bm.free_list, b) \in Seq(Block)
      BY <1>1, AppendProperties DEF Manager
    <3>2. given \in Manager
      BY <1>1, <3>1 DEF Manager
    <3>3. e = Discounting(given, "LOG")
      BY DEF erase_and_invalidate
    <3> HIDE DEF given
    <3> QED
      BY <3>2, <3>3, Counted
  <2>5. e.log_active = bm.log_active - 1
    BY <1>1, ManagerCounters
  <2> HIDE DEF g, e
  <2>6. d \in Memories /\ d.bm = e /\ d.flash = g
    BY <2>1, <2>2, <2>4 DEF Memories
  <2>7. /\ Collected(d) \in Memories /\ Collected(d).bm.log_active = e.log_active
        /\ \A c \in Block : Collected(d).flash[c] \in {g[c], Erased}
    BY <2>6, CollectedTyped
  <2>8. \A c \in Block, q \in PageNo : flash'[c][q] \in {flash[c][q], INVALID, EMPTY}
    BY <1>5, <2>3, <2>7 DEF Erased
  <2> QED
    BY <1>4, <1>5, <1>7, <2>5, <2>7, <2>8, MemoryParts
<1>8. CASE ~Empties(b, p)
  <2>1. d = PageInvalidated(b, p)
    BY <1>3, <1>6, <1>8 DEF Disposed
  <2>2. d \in Memories /\ d.bm = bm /\ d.flash = f
    BY <1>3, <1>4, <2>1
  <2> HIDE DEF d
  <2>3. /\ Collected(d) \in Memories /\ Collected(d).bm.log_active = bm.log_active
        /\ Collected(d).bm.data_active = bm.data_active
        /\ \A c \in Block : Collected(d).flash[c] \in {f[c], Erased}
    BY <2>2, CollectedTyped
  <2>4. \A c \in Block, q \in PageNo : flash'[c][q] \in {flash[c][q], INVALID, EMPTY}
    BY <1>2, <1>5, <2>3 DEF Erased
  <2> QED
    BY <1>4, <1>5, <1>8, <2>1, <2>3, <2>4, MemoryParts
<1> QED
  BY <1>7, <1>8

(* The block and the page a trim invalidates.                               *)
LEMMA TrimInLogIs ==
  ASSUME FastTypeOK, NEW l \in LPN, TrimInLog(l)
  PROVE  \E i \in 1 .. LogLimit, p \in PageNo :
           /\ log_pages[i].address \in Block
           /\ p < log_pages[i].numPages /\ log_pages[i].aPages[p] = l
           /\ TrimPage(l, log_pages[i].address, p)
           /\ log_pages' \in [1 .. LogLimit -> RandomLogBlock]
           /\ \A k \in 1 .. LogLimit :
                /\ log_pages'[k].address = log_pages[k].address
                /\ log_pages'[k].numPages = log_pages[k].numPages
                /\ \A q \in PageNo : log_pages'[k].aPages[q] \in {-1, log_pages[k].aPages[q]}
           /\ data_list' = IF Empties(log_pages[i].address, p)
                             THEN [data_list EXCEPT ![LbaOf(l)] = NULL] ELSE data_list
           /\ UNCHANGED sequential
<1> DEFINE x == FirstLogPlace(l)
           i == x[1]
           p == x[2]
           log == log_pages[i]
<1>1. /\ LogPlaces(l) # {} /\ TrimPage(l, log.address, p)
      /\ log_pages' = [log_pages EXCEPT ![i].aPages[p] = -1]
      /\ data_list' = IF Empties(log.address, p)
                        THEN [data_list EXCEPT ![LbaOf(l)] = NULL] ELSE data_list
      /\ UNCHANGED sequential
  BY DEF TrimInLog
<1>2. /\ i \in 1 .. LogLimit /\ p \in PageNo /\ p < log.numPages /\ log.aPages[p] = l
  BY <1>1, FirstLogPlaceIs
<1> HIDE DEF x
<1>3. /\ log_pages \in [1 .. LogLimit -> RandomLogBlock] /\ log \in RandomLogBlock
      /\ log.address \in Block /\ log.aPages \in [PageNo -> LPN \cup {-1}]
  BY <1>2, FastTypes DEF FastTypeOK, LogLimit
<1> DEFINE new == [log EXCEPT !.aPages[p] = -1]
           pages == [log.aPages EXCEPT ![p] = -1]
<1>4. log_pages' = [log_pages EXCEPT ![i] = new]
  BY <1>1, <1>2, <1>3
<1> HIDE DEF log
<1>5. new = [log EXCEPT !.aPages = pages]
  BY <1>3 DEF RandomLogBlock
<1>6. pages \in [PageNo -> LPN \cup {-1}] /\ \A q \in PageNo : pages[q] \in {-1, log.aPages[q]}
  BY <1>2, <1>3
<1> HIDE DEF pages, new
<1>7. /\ new \in RandomLogBlock /\ new.address = log.address /\ new.numPages = log.numPages
      /\ new.aPages = pages
  BY <1>3, <1>5, <1>6 DEF RandomLogBlock
<1>8. log_pages' \in [1 .. LogLimit -> RandomLogBlock]
  BY <1>3, <1>4, <1>7
<1>9. ASSUME NEW k \in 1 .. LogLimit
      PROVE  /\ log_pages'[k].address = log_pages[k].address
             /\ log_pages'[k].numPages = log_pages[k].numPages
             /\ \A q \in PageNo : log_pages'[k].aPages[q] \in {-1, log_pages[k].aPages[q]}
  <2>1. CASE k = i
    <3>1. log_pages'[k] = new /\ log_pages[k] = log
      BY <1>3, <1>4, <2>1 DEF log
    <3> QED
      BY <1>6, <1>7, <3>1
  <2>2. CASE k # i
    <3>1. log_pages'[k] = log_pages[k]
      BY <1>3, <1>4, <2>2
    <3> QED
      BY <3>1
  <2> QED
    BY <2>1, <2>2
<1> HIDE DEF i, p
<1> QED
  BY <1>1, <1>2, <1>3, <1>8, <1>9 DEF log

LEMMA TrimInSequentialIs ==
  ASSUME FastTypeOK, NEW l \in LPN, TrimInSequential(l)
  PROVE  /\ sequential.lba = LbaOf(l) /\ sequential.lba # NULL /\ sequential.address \in Block
         /\ OffsetOf(l) \in PageNo /\ OffsetOf(l) < sequential.offset
         /\ TrimPage(l, sequential.address, OffsetOf(l))
         /\ sequential' = IF Empties(sequential.address, OffsetOf(l))
                            THEN [sequential EXCEPT !.lba = NULL] ELSE sequential
         /\ UNCHANGED <<log_pages, data_list>>
<1>1. LbaOf(l) \in LBA /\ OffsetOf(l) \in PageNo
  BY PositionType
<1>2. sequential.lba = LbaOf(l) /\ sequential.offset > OffsetOf(l)
  BY DEF TrimInSequential, InSequential
<1>3. sequential.lba # NULL /\ sequential.address \in Block
  BY <1>1, <1>2, FastConstants, FastTypes
<1>4. sequential.offset \in 0 .. BLOCK_SIZE
  BY DEF FastTypeOK
<1>5. OffsetOf(l) < sequential.offset
  BY <1>1, <1>2, <1>4, FastConstants DEF PageNo
<1> QED
  BY <1>1, <1>2, <1>3, <1>5 DEF TrimInSequential

LEMMA TrimInDataIs ==
  ASSUME FastTypeOK, NEW l \in LPN, TrimInData(l)
  PROVE  /\ LbaOf(l) \in LBA /\ data_list[LbaOf(l)] \in Block /\ OffsetOf(l) \in PageNo
         /\ TrimPage(l, data_list[LbaOf(l)], OffsetOf(l))
         /\ data_list' = IF Empties(data_list[LbaOf(l)], OffsetOf(l))
                           THEN [data_list EXCEPT ![LbaOf(l)] = NULL] ELSE data_list
         /\ UNCHANGED <<log_pages, sequential>>
<1>1. LbaOf(l) \in LBA /\ OffsetOf(l) \in PageNo
  BY PositionType
<1>2. data_list[LbaOf(l)] # NULL
  BY DEF TrimInData
<1>3. data_list[LbaOf(l)] \in Block
  BY <1>1, <1>2, FastTypes
<1> QED
  BY <1>1, <1>3 DEF TrimInData

(* A trim that takes the block away is seen in log_active.                   *)
LEMMA TrimIs ==
  ASSUME FastTypeOK, NEW l \in LPN, FastTrim(l)
  PROVE  /\ pc = "idle" /\ UNCHANGED <<log_page_next, pc, lpn, mergeBlocks>>
         /\ \E b \in Block, p \in PageNo : TrimPage(l, b, p)
         /\ log_pages' \in [1 .. LogLimit -> RandomLogBlock]
         /\ \A k \in 1 .. LogLimit :
              /\ log_pages'[k].address = log_pages[k].address
              /\ log_pages'[k].numPages = log_pages[k].numPages
              /\ \A q \in PageNo : log_pages'[k].aPages[q] \in {-1, log_pages[k].aPages[q]}
         /\ data_list' = data_list \/ data_list' = [data_list EXCEPT ![LbaOf(l)] = NULL]
         /\ sequential' = sequential \/ sequential' = [sequential EXCEPT !.lba = NULL]
<1>1. pc = "idle" /\ UNCHANGED <<log_page_next, pc, lpn, mergeBlocks>>
  BY DEF FastTrim, TrimInLog, TrimInSequential, TrimInData, TrimPage
<1>2. log_pages \in [1 .. LogLimit -> RandomLogBlock]
  BY DEF FastTypeOK, LogLimit
<1>3. CASE TrimInLog(l)
  BY <1>1, <1>3, TrimInLogIs
<1>4. CASE TrimInSequential(l)
  BY <1>1, <1>2, <1>4, TrimInSequentialIs
<1>5. CASE TrimInData(l)
  BY <1>1, <1>2, <1>5, TrimInDataIs
<1> QED
  BY <1>3, <1>4, <1>5 DEF FastTrim

LEMMA TrimBase ==
  ASSUME FastBase, NEW l \in LPN, FastTrim(l)
  PROVE  FastBase'
<1>1. FastTypeOK /\ bm.log_active \in Int /\ LogLimit \in Nat
  BY FastTypes, FastConstants DEF FastBase, Manager
<1>2. PICK b \in Block, p \in PageNo : TrimPage(l, b, p)
  BY <1>1, TrimIs
<1>3. /\ flash' \in [Block -> Pages] /\ bm' \in Manager
      /\ bm'.log_active = bm.log_active - 1 \/ bm'.log_active = bm.log_active
  BY <1>1, <1>2, TrimPageEffect
<1>4. data_list' \in [LBA -> Block \cup {NULL}]
  BY <1>1, TrimIs DEF FastTypeOK
<1>5. /\ sequential' \in [lba : LBA \cup {NULL}, address : Block \cup {NULL},
                          offset : 0 .. BLOCK_SIZE]
      /\ sequential'.lba # NULL => sequential'.address # NULL
  BY <1>1, TrimIs DEF FastTypeOK
<1>6. FastTypeOK'
  BY <1>1, <1>3, <1>4, <1>5, TrimIs DEF FastTypeOK, Pages, LogLimit
<1>7. PagesInLog' /\ (LogFull' <=> LogFull)
  BY <1>1, TrimIs DEF FastBase, PagesInLog, RandomPage, LogFull, LogLimit
<1>8. bm'.log_active <= LogLimit
  BY <1>1, <1>3 DEF FastBase
<1> QED
  BY <1>6, <1>7, <1>8, TrimIs DEF FastBase

LEMMA FastInitBase ==
  ASSUME FastInit
  PROVE  FastBase
<1>1. PICK first \in FIRST_FREE :
        /\ bm = [NewManager(first + FAST_LOG_PAGE_LIMIT)
                   EXCEPT !.log_active = FAST_LOG_PAGE_LIMIT]
        /\ log_pages = [i \in 1 .. FAST_LOG_PAGE_LIMIT |-> NewRandomLog(first + i - 1)]
  BY DEF FastInit
<1>2. /\ LogLimit \in Nat /\ LogLimit >= 2 /\ NUM_BLOCKS \in Nat
      /\ first \in 0 .. NUM_BLOCKS - LogLimit
  BY FastConstants, FASTAssumption, NandAssumption DEF LogLimit
<1>3. first + LogLimit \in 0 .. NUM_BLOCKS
  BY <1>2
<1>4. bm \in Manager /\ bm.log_active = LogLimit
  <2>1. bm = [simpleCurrentFree |-> first + LogLimit, free_list |-> <<>>,
              invalid_list |-> <<>>, data_active |-> 0, log_active |-> LogLimit]
    BY <1>1 DEF NewManager, LogLimit
  <2>2. <<>> \in Seq(Block) /\ 0 \in Int /\ LogLimit \in Int
    BY <1>2
  <2> HIDE DEF LogLimit
  <2> QED
    BY <1>3, <2>1, <2>2 DEF Manager
<1>5. ASSUME NEW i \in 1 .. LogLimit PROVE first + i - 1 \in Block
  BY <1>2, <1>5 DEF Block
<1>6. 0 \in 0 .. BLOCK_SIZE /\ 0 \in 0 .. FAST_LOG_PAGE_LIMIT * BLOCK_SIZE
  BY FastConstants DEF LogLimit
<1>7. log_pages \in [1 .. LogLimit -> RandomLogBlock]
  BY <1>1, <1>5, <1>6 DEF RandomLogBlock, NewRandomLog, LogLimit
<1>8. flash \in [Block -> Pages]
  BY ErasedType DEF FastInit
<1>9. FastTypeOK
  BY <1>4, <1>6, <1>7, <1>8 DEF FastTypeOK, FastInit, Pages, LogLimit
<1>10. 0 \div BLOCK_SIZE = 0 /\ 0 % BLOCK_SIZE = 0
  BY QuotientIs, FastConstants
<1>11. ASSUME NEW i \in 1 .. FAST_LOG_PAGE_LIMIT PROVE log_pages[i].numPages = 0
  BY <1>1 DEF NewRandomLog
<1>12. log_page_next = 0 /\ pc = "idle"
  BY DEF FastInit
<1>13. PagesInLog
  <2> SUFFICES ASSUME NEW i \in 1 .. FAST_LOG_PAGE_LIMIT
               PROVE  log_pages[i].numPages
                        = IF i <= log_page_next \div BLOCK_SIZE THEN BLOCK_SIZE
                          ELSE IF i = log_page_next \div BLOCK_SIZE + 1 THEN RandomPage ELSE 0
    BY DEF PagesInLog
  <2>1. log_page_next \div BLOCK_SIZE = 0 /\ RandomPage = 0
    BY <1>10, <1>12 DEF RandomPage
  <2>2. ~(i <= 0)
    BY <1>2 DEF LogLimit
  <2> QED
    BY <1>11, <2>1, <2>2
<1> QED
  BY <1>2, <1>4, <1>9, <1>12, <1>13 DEF FastBase

(* log_active never grows; an aborted simulation goes no further.           *)
LEMMA FastNextBase ==
  ASSUME FastBase, FastNext
  PROVE  /\ FastBase'
         /\ pc # "aborted"
         /\ bm'.log_active <= bm.log_active
<1>1. FastTypeOK /\ bm.log_active \in Int
  BY FastTypes DEF FastBase, Manager
<1>2. ASSUME NEW l \in WRITTEN, FastWriteStart(l)
      PROVE  FastBase' /\ pc # "aborted" /\ bm'.log_active = bm.log_active
  BY <1>2, WriteStartBase DEF FastWriteStart
<1>3. ASSUME NEW a \in mergeBlocks, MergeLogicalBlock(a)
      PROVE  FastBase' /\ pc # "aborted" /\ bm'.log_active = bm.log_active
  BY <1>3, MergeLogicalBlockBase DEF MergeLogicalBlock
<1>4. ASSUME NEW l \in TRIMMED, FastTrim(l)
      PROVE  FastBase' /\ pc # "aborted" /\ bm'.log_active <= bm.log_active
  <2>1. l \in LPN
    BY FASTAssumption
  <2>2. FastBase' /\ pc = "idle"
    BY <1>1, <1>4, <2>1, TrimBase, TrimIs
  <2>3. PICK b \in Block, p \in PageNo : TrimPage(l, b, p)
    BY <1>1, <1>4, <2>1, TrimIs
  <2>4. bm'.log_active = bm.log_active - 1 \/ bm'.log_active = bm.log_active
    BY <1>1, <2>3, TrimPageEffect
  <2> QED
    BY <1>1, <2>2, <2>4
<1>5. CASE FastAbort
  <2>1. pc # "aborted"
    BY <1>5 DEF FastAbort, FastNoFreeBlock, OutOfBounds, PageTaken, NeedsDataBlock, Merges,
                Switches, ReplacesSequential, ExtendsSequential, ToRandomLog, ToLog
  <2> QED
    BY <1>1, <1>5, <2>1, AbortBase
<1>6. CASE ReplaceVictim
  BY <1>1, <1>6, ReplaceVictimBase DEF ReplaceVictim
<1>7. CASE AppendRandom
  BY <1>1, <1>7, AppendRandomBase, AppendRandomIs
<1>8. CASE WriteInPlace
  BY <1>1, <1>8, WriteInPlaceBase
<1>9. CASE AppendSequential
  BY <1>1, <1>9, AppendSequentialBase
<1>10. CASE SwitchSequential
  BY <1>1, <1>10, SwitchSequentialBase
<1>11. CASE MergeSequential
  BY <1>1, <1>11, MergeSequentialBase
<1>12. CASE StartSequential
  BY <1>1, <1>12, StartSequentialBase
<1>13. CASE StartRandomMerge
  BY <1>1, <1>13, StartRandomMergeBase
<1> QED
  BY <1>1, <1>2, <1>3, <1>4, <1>5, <1>6, <1>7, <1>8, <1>9, <1>10, <1>11, <1>12, <1>13
  DEF FastNext, Step

LEMMA FastUnchangedBase ==
  ASSUME FastBase, UNCHANGED fastvars
  PROVE  FastBase'
<1>1. FastTypeOK'
  BY DEF FastBase, FastTypeOK, fastvars
<1> QED
  BY <1>1, LogPagesKept DEF FastBase, fastvars

-----------------------------------------------------------------------------
(* Who owns a block.                                                       *)

Taken == DataBlocks \cup RandomLogBlocks \cup SequentialBlocks

Distinct ==
  /\ \A a, c \in LBA : data_list[a] # NULL /\ data_list[a] = data_list[c] => a = c
  /\ \A i, j \in 1 .. LogLimit : log_pages[i].address = log_pages[j].address => i = j
  /\ DataBlocks \cap RandomLogBlocks = {}
  /\ SequentialBlocks \cap (DataBlocks \cup RandomLogBlocks) = {}

AllBlocks(S) == \E first \in FIRST_FREE : S = first .. NUM_BLOCKS - 1

FastOwners ==
  /\ Managed(Memory, Taken)
  /\ Distinct
  /\ AllBlocks(Pool(bm) \cup Taken)

LEMMA FastOwnersMean == BlocksApart <=> FastOwners
<1>1. Pool(bm) \cup Taken = FreeBlocks(bm) \cup Used
  BY DEF Pool, Taken, Used, InvalidBlocks
<1>2. Memory.bm = bm /\ Memory.flash = flash
  BY DEF Memory
<1>3. AllBlocks(Pool(bm) \cup Taken)
        <=> \E first \in FIRST_FREE : FreeBlocks(bm) \cup Used = first .. NUM_BLOCKS - 1
  BY <1>1 DEF AllBlocks
<1> QED
  BY <1>2, <1>3 DEF BlocksApart, FastOwners, Managed, NoRepeat, Distinct, LogLimit, Pool, Taken,
                    Used, InvalidBlocks

LEMMA FastOwnersNext == BlocksApart' <=> FastOwners'
BY FastOwnersMean, PTL

(* What happens to a page that is not written: it may be invalidated, or     *)
(* lose its data to a newer page.                                          *)
Follows(x, y) == (x = EMPTY <=> y = EMPTY) /\ (x \in LPN => x = y)

(* A step that leaves the manager of memory m.                              *)
LEMMA ManagedNext ==
  ASSUME NEW m, NEW S, Managed(m, S), bm' = m.bm,
         \A b \in FreeBlocks(m.bm) : flash'[b] = m.flash[b]
  PROVE  Managed(Memory', S)
<1>1. Memory'.bm = m.bm /\ Memory'.flash = flash'
  BY DEF Memory
<1> QED
  BY <1>1 DEF Managed

LEMMA ManagedFree ==
  ASSUME NEW m \in Memories, NEW S, Managed(m, S)
  PROVE  /\ FreeBlocks(m.bm) \subseteq Block
         /\ Blocks(m.bm.invalid_list) \subseteq Block
         /\ Pool(m.bm) \subseteq Block
         /\ \A b \in S : b \notin FreeBlocks(m.bm) /\ b \notin Blocks(m.bm.invalid_list)
<1>1. m.bm \in Manager
  BY MemoryParts
<1>2. FreeBlocks(m.bm) \subseteq Block
  BY <1>1, NothingTwice DEF Managed
<1>3. m.bm.invalid_list \in Seq(Block)
  BY <1>1 DEF Manager
<1>4. Blocks(m.bm.invalid_list) \subseteq Block
  BY <1>3 DEF Blocks
<1> QED
  BY <1>2, <1>4 DEF Managed, Pool

(* The write is issued to a block that has been taken.                      *)
LEMMA IssueManaged ==
  ASSUME NEW l \in LPN, lpn = l, NEW m \in Memories, NEW S, S \subseteq Block, Managed(m, S),
         NEW b \in S, NEW p, Issue(m, b, p)
  PROVE  /\ Managed(Memory', S) /\ Pool(bm') = Pool(m.bm)
         /\ bm'.data_active = m.bm.data_active
         /\ p \in PageNo /\ m.flash[b][p] = EMPTY /\ flash'[b][p] = l
         /\ \A d \in S, q \in PageNo : d # b \/ q # p => Follows(flash'[d][q], m.flash[d][q])
<1> DEFINE c == Collected(m)
<1>1. c \in Memories /\ \A d \in Block \ Blocks(m.bm.invalid_list) : c.flash[d] = m.flash[d]
  BY CollectedTyped
<1>2. Managed(c, S) /\ Pool(c.bm) = Pool(m.bm)
  BY CollectedManaged
<1>3. /\ flash' \in [Block -> Pages] /\ bm' = c.bm
      /\ bm'.data_active = m.bm.data_active
      /\ p \in PageNo /\ c.flash[b][p] = EMPTY /\ flash'[b][p] = l
      /\ \A d \in Block, q \in PageNo : d # b \/ q # p =>
           flash'[d][q] = IF c.flash[d][q] = l THEN OLD ELSE c.flash[d][q]
  BY IssueEffect
<1>4. \A d \in S : d \in Block /\ c.flash[d] = m.flash[d]
  BY <1>1, ManagedFree
<1>5. l # EMPTY /\ OLD # EMPTY /\ OLD \notin LPN
  BY MarksAreNoPages, MarksDiffer
<1>6. \A d \in S, q \in PageNo : d # b \/ q # p => Follows(flash'[d][q], m.flash[d][q])
  BY <1>3, <1>4, <1>5 DEF Follows
<1>7. ASSUME NEW d \in FreeBlocks(c.bm) PROVE flash'[d] = c.flash[d]
  <2>1. d \in Block /\ d # b
    BY <1>1, <1>2, ManagedFree
  <2>2. c.flash[d] = Erased
    BY <1>2 DEF Managed
  <2>3. \A q \in PageNo : flash'[d][q] = EMPTY
    BY <1>3, <1>5, <2>1, <2>2 DEF Erased
  <2>4. flash'[d] \in Pages
    BY <1>3, <2>1
  <2> QED
    BY <2>2, <2>3, <2>4 DEF Pages, Erased
<1>8. Managed(Memory', S)
  BY <1>2, <1>3, <1>7, ManagedNext
<1> QED
  BY <1>2, <1>3, <1>4, <1>6, <1>8

-----------------------------------------------------------------------------
(* The part of the invariant that holds as long as no trim has emptied a     *)
(* block, owner by owner.                                                  *)

LogsRight ==
  \A i \in 1 .. LogLimit, p \in PageNo :
    /\ p >= log_pages[i].numPages => flash[log_pages[i].address][p] = EMPTY
    /\ flash[log_pages[i].address][p] \in LPN =>
         log_pages[i].aPages[p] \in {-1, flash[log_pages[i].address][p]}

DataRight == \A a \in LBA : data_list[a] # NULL => InPlaceFrom1(flash[data_list[a]], a)

SequentialRight ==
  /\ sequential.lba = NULL => sequential.offset = 0
  /\ sequential.lba # NULL => InPlaceFrom1(flash[sequential.address], sequential.lba)
  /\ \A b \in SequentialBlocks, p \in PageNo : flash[b][p] = EMPTY <=> p >= sequential.offset

DataCounted ==
  bm.data_active = Cardinality(DataBlocks) + Cardinality(SequentialBlocks)

FastRegular ==
  /\ FastOwners
  /\ LogsRight /\ DataRight /\ SequentialRight
  /\ LoggedHasData
  /\ DataCounted

LEMMA FastRightMeans == EmptyAhead /\ PagesPlaced <=> LogsRight /\ DataRight /\ SequentialRight
BY DEF EmptyAhead, PagesPlaced, LogsRight, DataRight, SequentialRight, LogLimit

LEMMA FastRightNext ==
  (EmptyAhead /\ PagesPlaced)' <=> LogsRight' /\ DataRight' /\ SequentialRight'
BY FastRightMeans, PTL

LEMMA Owners ==
  ASSUME FastTypeOK, FastOwners
  PROVE  /\ Taken \subseteq Block /\ Memory \in Memories /\ Managed(Memory, Taken)
         /\ IsFiniteSet(DataBlocks) /\ NULL \notin DataBlocks
         /\ \A a \in LBA : data_list[a] # NULL => data_list[a] \in DataBlocks
         /\ DataBlocks \subseteq Taken
         /\ \A i \in 1 .. LogLimit : log_pages[i].address \in RandomLogBlocks
         /\ RandomLogBlocks \subseteq Taken
         /\ SequentialBlocks \subseteq Taken
         /\ sequential.lba # NULL /\ pc # "sequential" =>
              SequentialBlocks = {sequential.address} /\ sequential.address \in Block
<1>1. /\ Memory \in Memories
      /\ \A a \in LBA : data_list[a] # NULL => data_list[a] \in Block
      /\ \A i \in 1 .. LogLimit : log_pages[i].address \in Block
      /\ sequential.lba # NULL => sequential.lba \in LBA /\ sequential.address \in Block
  BY FastTypes
<1>2. DataBlocks \subseteq Block
  BY <1>1 DEF DataBlocks
<1>3. RandomLogBlocks \subseteq Block
  BY <1>1 DEF RandomLogBlocks, LogLimit
<1>4. SequentialBlocks \subseteq Block
  BY <1>1 DEF SequentialBlocks
<1>5. IsFiniteSet(DataBlocks)
  <2>1. IsFiniteSet(Block)
    BY FS_Interval, NandAssumption DEF Block
  <2> QED
    BY <1>2, <2>1, FS_Subset
<1> QED
  BY <1>1, <1>2, <1>3, <1>4, <1>5
  DEF Taken, FastOwners, DataBlocks, RandomLogBlocks, SequentialBlocks, LogLimit

LEMMA OwnersCounted ==
  ASSUME FastTypeOK, FastOwners
  PROVE  /\ Cardinality(DataBlocks) \in Nat /\ Cardinality(SequentialBlocks) \in Nat
         /\ sequential.lba # NULL /\ pc # "sequential" => Cardinality(SequentialBlocks) = 1
         /\ sequential.lba = NULL \/ pc = "sequential" => Cardinality(SequentialBlocks) = 0
<1>1. Cardinality(DataBlocks) \in Nat
  BY Owners, FS_CardinalityType
<1>2. SequentialBlocks = {} \/ SequentialBlocks = {sequential.address}
  BY DEF SequentialBlocks
<1>3. SequentialBlocks = {} => Cardinality(SequentialBlocks) = 0
  BY FS_EmptySet
<1>4. Cardinality({sequential.address}) = 1
  BY FS_Singleton
<1> QED
  BY <1>1, <1>2, <1>3, <1>4 DEF SequentialBlocks

(* What a step leaves alone stays right.                                    *)
LEMMA FollowedPlaced ==
  ASSUME NEW x, NEW y, NEW a, InPlaceFrom1(y, a), \A q \in PageNo : Follows(x[q], y[q])
  PROVE  InPlaceFrom1(x, a)
BY DEF InPlaceFrom1, Follows

LEMMA LogsKept ==
  ASSUME LogsRight, log_pages' = log_pages,
         \A d \in RandomLogBlocks, q \in PageNo : Follows(flash'[d][q], flash[d][q])
  PROVE  LogsRight'
<1> SUFFICES ASSUME NEW i \in 1 .. LogLimit, NEW p \in PageNo
             PROVE  /\ p >= log_pages[i].numPages => flash'[log_pages[i].address][p] = EMPTY
                    /\ flash'[log_pages[i].address][p] \in LPN =>
                         log_pages[i].aPages[p] \in {-1, flash'[log_pages[i].address][p]}
  BY DEF LogsRight, LogLimit
<1>1. log_pages[i].address \in RandomLogBlocks
  BY DEF RandomLogBlocks, LogLimit
<1>2. Follows(flash'[log_pages[i].address][p], flash[log_pages[i].address][p])
  BY <1>1
<1> QED
  BY <1>2 DEF LogsRight, Follows

LEMMA DataKept ==
  ASSUME DataRight, NEW a \in LBA, data_list'[a] = data_list[a],
         \A d \in DataBlocks, q \in PageNo : Follows(flash'[d][q], flash[d][q])
  PROVE  data_list'[a] # NULL => InPlaceFrom1(flash'[data_list'[a]], a)
BY FollowedPlaced DEF DataRight, DataBlocks

LEMMA SequentialKept ==
  ASSUME SequentialRight, sequential' = sequential,
         SequentialBlocks' \subseteq SequentialBlocks,
         sequential.lba # NULL => \A q \in PageNo :
           Follows(flash'[sequential.address][q], flash[sequential.address][q])
  PROVE  SequentialRight'
<1>1. \A b \in SequentialBlocks : b = sequential.address /\ sequential.lba # NULL
  BY DEF SequentialBlocks
<1>2. \A b \in SequentialBlocks', p \in PageNo : flash'[b][p] = EMPTY <=> p >= sequential.offset
  BY <1>1 DEF SequentialRight, Follows
<1>3. sequential.lba # NULL => InPlaceFrom1(flash'[sequential.address], sequential.lba)
  BY FollowedPlaced DEF SequentialRight
<1> QED
  BY <1>2, <1>3 DEF SequentialRight

LEMMA LoggedKept ==
  ASSUME FastTypeOK, LoggedHasData, mergeBlocks' \subseteq mergeBlocks,
         \A i \in 1 .. LogLimit, p \in PageNo :
           log_pages'[i].aPages[p] \in {-1, log_pages[i].aPages[p]},
         \A a \in LBA : data_list[a] # NULL => data_list'[a] # NULL
  PROVE  LoggedHasData'
<1>1. ASSUME NEW i \in 1 .. LogLimit, NEW p \in PageNo, log_pages'[i].aPages[p] # -1
      PROVE  data_list'[LbaOf(log_pages'[i].aPages[p])] # NULL
  <2>1. log_pages'[i].aPages[p] = log_pages[i].aPages[p] /\ log_pages[i].aPages[p] # -1
    BY <1>1
  <2>2. log_pages[i].aPages[p] \in LPN
    BY <2>1, FastTypes
  <2>3. data_list[LbaOf(log_pages[i].aPages[p])] # NULL
    BY <2>1 DEF LoggedHasData, LogLimit
  <2> QED
    BY <2>1, <2>2, <2>3, PositionType
<1>2. \A a \in mergeBlocks' : data_list'[a] # NULL
  BY DEF LoggedHasData, FastTypeOK
<1> QED
  BY <1>1, <1>2 DEF LoggedHasData, LogLimit

(* The data block of a becomes d.                                          *)
LEMMA DataExchanged ==
  ASSUME FastTypeOK, Distinct, NEW a \in LBA, NEW d \in Block \cup {NULL},
         data_list' = [data_list EXCEPT ![a] = d], d \notin DataBlocks
  PROVE  /\ data_list'[a] = d /\ \A c \in LBA \ {a} : data_list'[c] = data_list[c]
         /\ DataBlocks' = (DataBlocks \ {data_list[a]}) \cup Own(d)
         /\ \A c, e \in LBA : data_list'[c] # NULL /\ data_list'[c] = data_list'[e] => c = e
         /\ Cardinality(DataBlocks') = Cardinality(DataBlocks) - One(data_list[a]) + One(d)
<1>1. data_list \in [LBA -> Block \cup {NULL}]
  BY DEF FastTypeOK
<1>2. data_list'[a] = d /\ \A c \in LBA \ {a} : data_list'[c] = data_list[c]
  BY <1>1
<1>3. \A c \in LBA : data_list[c] # NULL => data_list[c] \in DataBlocks
  BY DEF DataBlocks
<1>4. \A c, e \in LBA : c # e /\ data_list[c] # NULL => data_list[c] # data_list[e]
  BY DEF Distinct
<1>5. DataBlocks' = (DataBlocks \ {data_list[a]}) \cup Own(d)
  BY <1>2, <1>4 DEF DataBlocks, Own
<1>6. \A c, e \in LBA : data_list'[c] # NULL /\ data_list'[c] = data_list'[e] => c = e
  BY <1>2, <1>3, <1>4
<1>7. d # NULL => \A c \in LBA \ {a} : data_list[c] # d
  BY <1>3
<1>8. DataBlocks = DataOf(data_list) /\ DataBlocks' = DataOf(data_list')
  BY DEF DataBlocks, DataOf
<1>9. Cardinality(DataBlocks') = Cardinality(DataBlocks) - One(data_list[a]) + One(d)
  BY <1>1, <1>4, <1>7, <1>8, DataCount
<1> QED
  BY <1>2, <1>5, <1>6, <1>9

(* Nobody's block changes hands.                                           *)
LEMMA OwnersKept ==
  ASSUME FastOwners, DataCounted, Managed(Memory', Taken), Pool(bm') = Pool(bm),
         bm'.data_active = bm.data_active,
         data_list' = data_list, SequentialBlocks' = SequentialBlocks,
         \A i \in 1 .. LogLimit : log_pages'[i].address = log_pages[i].address
  PROVE  FastOwners' /\ DataCounted'
<1>1. DataBlocks' = DataBlocks
  BY DEF DataBlocks
<1>2. RandomLogBlocks' = RandomLogBlocks
  BY DEF RandomLogBlocks, LogLimit
<1>3. Taken' = Taken
  BY <1>1, <1>2 DEF Taken
<1>4. Distinct'
  BY <1>1, <1>2 DEF FastOwners, Distinct, LogLimit
<1> QED
  BY <1>1, <1>3, <1>4 DEF FastOwners, DataCounted

-----------------------------------------------------------------------------
(* Each action keeps it.                                                   *)

LEMMA NothingRegular ==
  ASSUME FastBase, FastRegular, SequentialBlocks' = SequentialBlocks,
         UNCHANGED <<flash, bm, data_list, log_pages, sequential>>
  PROVE  FastOwners' /\ LogsRight' /\ DataRight' /\ SequentialRight' /\ DataCounted'
<1>1. Managed(Memory', Taken)
  BY DEF FastRegular, FastOwners, Memory
<1>2. FastOwners' /\ DataCounted'
  BY <1>1, OwnersKept DEF FastRegular
<1> QED
  BY <1>2 DEF FastRegular, LogsRight, DataRight, SequentialRight, LogLimit

LEMMA WriteStartRegular ==
  ASSUME FastBase, FastRegular, NEW l \in WRITTEN, FastWriteStart(l)
  PROVE  FastRegular'
<1>1. FastTypeOK
  BY DEF FastBase
<1>2. /\ pc = "idle" /\ pc' = "write"
      /\ UNCHANGED <<flash, bm, data_list, log_pages, log_page_next, sequential, mergeBlocks>>
  BY DEF FastWriteStart
<1>3. LoggedHasData'
  BY <1>1, <1>2, LoggedKept DEF FastRegular
<1>4. SequentialBlocks' = SequentialBlocks
  BY <1>2 DEF SequentialBlocks
<1> QED
  BY <1>2, <1>3, <1>4, NothingRegular DEF FastRegular

LEMMA StartRandomMergeRegular ==
  ASSUME FastBase, FastRegular, StartRandomMerge
  PROVE  FastRegular'
<1>1. FastTypeOK /\ 1 \in 1 .. LogLimit
  BY FastConstants DEF FastBase
<1>2. /\ pc = "write" /\ pc' = "merge" /\ mergeBlocks' = LbasIn(log_pages[1])
      /\ UNCHANGED <<flash, bm, data_list, log_pages, log_page_next, sequential, lpn>>
  BY DEF StartRandomMerge, ToRandomLog, ToLog
<1>3. LoggedHasData'
  BY <1>1, <1>2 DEF FastRegular, LoggedHasData, LbasIn, LogLimit
<1>4. SequentialBlocks' = SequentialBlocks
  BY <1>2 DEF SequentialBlocks
<1> QED
  BY <1>2, <1>3, <1>4, NothingRegular DEF FastRegular

LEMMA WriteInPlaceRegular ==
  ASSUME FastBase, FastRegular, WriteInPlace
  PROVE  FastRegular'
<1>1. FastTypeOK /\ FastOwners /\ pc = "write"
  BY WriteInPlaceBase DEF FastBase, FastRegular
<1>2. UNCHANGED <<log_pages, log_page_next, sequential, mergeBlocks>>
  BY DEF WriteInPlace
<1>3. /\ lpn \in LPN /\ Lba \in LBA /\ Offset \in PageNo
      /\ Lba = LbaOf(lpn) /\ Offset = OffsetOf(lpn)
      /\ Memory.bm = bm /\ Memory.flash = flash
  BY <1>1, FastTypes DEF Lba, Offset
<1>4. /\ Managed(Memory, Taken) /\ Memory \in Memories /\ Taken \subseteq Block
      /\ DataBlocks \subseteq Taken /\ RandomLogBlocks \subseteq Taken
      /\ SequentialBlocks \subseteq Taken
      /\ sequential.lba # NULL => sequential.address \in Taken
      /\ \A i \in 1 .. LogLimit : log_pages'[i].address = log_pages[i].address
      /\ \A a \in LBA : data_list[a] # NULL => data_list[a] \in DataBlocks
  BY <1>1, <1>2, Owners
<1>5. ASSUME \A d \in Taken, q \in PageNo : Follows(flash'[d][q], flash[d][q]),
             pc' = "idle"
      PROVE  LogsRight' /\ SequentialRight' /\ SequentialBlocks' = SequentialBlocks
  <2>1. LogsRight'
    BY <1>2, <1>4, <1>5, LogsKept DEF FastRegular
  <2>2. SequentialBlocks' = SequentialBlocks
    BY <1>1, <1>2, <1>5 DEF SequentialBlocks
  <2> QED
    BY <1>2, <1>4, <1>5, <2>1, <2>2, SequentialKept DEF FastRegular
<1>6. CASE NeedsDataBlock /\ Obtainable(Memory)
           /\ data_list' = [data_list EXCEPT ![Lba] = NewBlock(Memory)]
           /\ Issue(Obtain(Memory, "DATA"), NewBlock(Memory), Offset)
  <2> DEFINE n == NewBlock(Memory)
             m == Obtain(Memory, "DATA")
             S == Taken \cup {n}
  <2>1. /\ n \in Block /\ m \in Memories /\ m.flash = Prepared(Memory).flash
        /\ m.bm.data_active = bm.data_active + 1
    BY <1>3, <1>4, <1>6, ObtainTyped, ObtainCounters
  <2>2. /\ n \in Pool(bm) /\ n \notin Taken /\ m.flash[n] = Erased
        /\ Managed(m, S) /\ Pool(m.bm) = Pool(bm) \ {n}
    BY <1>3, <1>4, <1>6, ObtainManaged
  <2>3. \A d \in Taken : m.flash[d] = flash[d]
    BY <1>3, <1>4, <2>1, PreparedTyped, ManagedFree
  <2>4. S \subseteq Block /\ n \in S
    BY <1>4, <2>1
  <2> HIDE DEF n, m, S
  <2>5. /\ Managed(Memory', S) /\ Pool(bm') = Pool(m.bm)
        /\ bm'.data_active = m.bm.data_active /\ pc' = "idle"
        /\ flash'[n][Offset] = lpn
        /\ \A d \in S, q \in PageNo : d # n \/ q # Offset => Follows(flash'[d][q], m.flash[d][q])
    <3>1. Issue(m, n, Offset)
      BY <1>6 DEF n, m
    <3>2. pc' = "idle"
      BY <3>1 DEF Issue
    <3> QED
      BY <1>3, <2>1, <2>2, <2>4, <3>1, <3>2, IssueManaged
  <2>6. \A d \in Taken, q \in PageNo : Follows(flash'[d][q], flash[d][q])
    BY <2>2, <2>3, <2>5 DEF S
  <2>7. LogsRight' /\ SequentialRight' /\ SequentialBlocks' = SequentialBlocks
    BY <1>5, <2>5, <2>6
  <2>8. data_list[Lba] = NULL /\ n \notin DataBlocks /\ n # NULL /\ NULL \notin DataBlocks
    BY <1>4, <1>6, <2>1, <2>2, FastConstants DEF NeedsDataBlock, DataBlocks
  <2>9. /\ data_list'[Lba] = n /\ \A c \in LBA \ {Lba} : data_list'[c] = data_list[c]
        /\ DataBlocks' = (DataBlocks \ {data_list[Lba]}) \cup Own(n)
        /\ \A c, e \in LBA : data_list'[c] # NULL /\ data_list'[c] = data_list'[e] => c = e
        /\ Cardinality(DataBlocks') = Cardinality(DataBlocks) - One(data_list[Lba]) + One(n)
    <3>1. data_list' = [data_list EXCEPT ![Lba] = n]
      BY <1>6 DEF n
    <3> QED
      BY <1>1, <1>3, <2>1, <2>8, <3>1, DataExchanged DEF FastOwners
  <2>10. DataBlocks' = DataBlocks \cup {n} /\ Cardinality(DataBlocks') = Cardinality(DataBlocks) + 1
    <3>1. Cardinality(DataBlocks) \in Nat
      BY <1>1, OwnersCounted
    <3> QED
      BY <2>8, <2>9, <3>1 DEF Own, One
  <2>11. RandomLogBlocks' = RandomLogBlocks
    BY <1>2 DEF RandomLogBlocks
  <2>12. Taken' = S /\ Pool(bm') \cup Taken' = Pool(bm) \cup Taken
    BY <2>2, <2>5, <2>7, <2>10, <2>11 DEF Taken, S
  <2>13. Distinct'
    BY <1>2, <1>4, <2>2, <2>7, <2>9, <2>10, <2>11 DEF Distinct, FastOwners, FastRegular
  <2>14. FastOwners'
    BY <2>5, <2>12, <2>13 DEF FastOwners, FastRegular
  <2>15. DataCounted'
    <3>1. Cardinality(DataBlocks) \in Nat /\ Cardinality(SequentialBlocks) \in Nat
      BY <1>1, OwnersCounted
    <3> QED
      BY <2>1, <2>5, <2>7, <2>10, <3>1 DEF DataCounted, FastRegular
  <2>16. InPlaceFrom1(flash'[n], Lba)
    <3> SUFFICES ASSUME NEW q \in PageNo, NEW l \in LPN, flash'[n][q] = l
                 PROVE  LbaOf(l) = Lba /\ OffsetOf(l) = q
      BY DEF InPlaceFrom1
    <3>1. q = Offset
      <4>1. q # Offset => Follows(l, EMPTY)
        BY <2>2, <2>4, <2>5 DEF Erased
      <4> QED
        BY <4>1, MarksAreNoPages DEF Follows
    <3> QED
      BY <1>3, <2>5, <3>1
  <2>17. DataRight'
    <3> SUFFICES ASSUME NEW a \in LBA, data_list'[a] # NULL
                 PROVE  InPlaceFrom1(flash'[data_list'[a]], a)
      BY DEF DataRight
    <3>1. CASE a = Lba
      BY <2>9, <2>16, <3>1
    <3>2. CASE a # Lba
      BY <1>4, <2>6, <2>9, <3>2, DataKept DEF FastRegular
    <3> QED
      BY <3>1, <3>2
  <2>18. LoggedHasData'
    <3>1. \A i \in 1 .. LogLimit, p \in PageNo :
           log_pages'[i].aPages[p] \in {-1, log_pages[i].aPages[p]}
      BY <1>2
    <3>2. \A a \in LBA : data_list[a] # NULL => data_list'[a] # NULL
      BY <2>8, <2>9
    <3> QED
      BY <1>1, <1>2, <3>1, <3>2, LoggedKept DEF FastRegular
  <2> QED
    BY <2>7, <2>14, <2>15, <2>17, <2>18 DEF FastRegular
<1>7. CASE InPlace /\ Issue(Memory, data_list[Lba], Offset) /\ UNCHANGED data_list
  <2>1. data_list[Lba] \in Taken /\ data_list[Lba] # NULL
    BY <1>3, <1>4, <1>7 DEF InPlace
  <2>2. /\ Managed(Memory', Taken) /\ Pool(bm') = Pool(bm)
        /\ bm'.data_active = bm.data_active /\ pc' = "idle"
        /\ flash[data_list[Lba]][Offset] = EMPTY /\ flash'[data_list[Lba]][Offset] = lpn
        /\ \A d \in Taken, q \in PageNo : d # data_list[Lba] \/ q # Offset =>
             Follows(flash'[d][q], flash[d][q])
    <3>1. pc' = "idle"
      BY <1>7 DEF Issue
    <3> QED
      BY <1>3, <1>4, <1>7, <2>1, <3>1, IssueManaged
  <2>3. \A d \in Taken, q \in PageNo : d # data_list[Lba] => Follows(flash'[d][q], flash[d][q])
    BY <2>2
  <2>4. data_list[Lba] \notin RandomLogBlocks /\ data_list[Lba] \notin SequentialBlocks
    BY <1>1, <1>3, <1>4, <2>1 DEF FastOwners, Distinct
  <2>5. LogsRight'
    BY <1>2, <1>4, <2>3, <2>4, LogsKept DEF FastRegular
  <2>6. SequentialBlocks' = SequentialBlocks
    BY <1>1, <1>2, <2>2 DEF SequentialBlocks
  <2>7. SequentialRight'
    <3>1. sequential.lba # NULL => sequential.address \in SequentialBlocks
      BY <1>1, Owners
    <3> QED
      BY <1>2, <1>4, <2>3, <2>4, <2>6, <3>1, SequentialKept DEF FastRegular
  <2>8. FastOwners' /\ DataCounted'
    BY <1>4, <1>7, <2>2, <2>6, OwnersKept DEF FastRegular
  <2>9. InPlaceFrom1(flash'[data_list[Lba]], Lba)
    <3> SUFFICES ASSUME NEW q \in PageNo \ {0}, NEW l \in LPN, flash'[data_list[Lba]][q] = l
                 PROVE  LbaOf(l) = Lba /\ OffsetOf(l) = q
      BY DEF InPlaceFrom1
    <3>1. CASE q = Offset
      BY <1>3, <2>2, <3>1
    <3>2. CASE q # Offset
      <4>1. flash[data_list[Lba]][q] = l
        BY <2>1, <2>2, <3>2 DEF Follows
      <4> QED
        BY <1>3, <2>1, <4>1 DEF FastRegular, DataRight, InPlaceFrom1
    <3> QED
      BY <3>1, <3>2
  <2>10. DataRight'
    <3> SUFFICES ASSUME NEW a \in LBA, data_list'[a] # NULL
                 PROVE  InPlaceFrom1(flash'[data_list'[a]], a)
      BY DEF DataRight
    <3>1. data_list'[a] = data_list[a] /\ data_list[a] \in Taken
      BY <1>4, <1>7
    <3>2. CASE a = Lba
      BY <2>9, <3>1, <3>2
    <3>3. CASE a # Lba
      <4>1. data_list[a] # data_list[Lba]
        BY <1>1, <1>3, <2>1, <3>3 DEF FastOwners, Distinct
      <4>2. InPlaceFrom1(flash[data_list[a]], a)
        BY <3>1 DEF FastRegular, DataRight
      <4> QED
        BY <2>3, <3>1, <4>1, <4>2, FollowedPlaced
    <3> QED
      BY <3>2, <3>3
  <2>11. LoggedHasData'
    BY <1>1, <1>2, <1>7, LoggedKept DEF FastRegular
  <2> QED
    BY <2>5, <2>7, <2>8, <2>10, <2>11 DEF FastRegular
<1> QED
  BY <1>6, <1>7 DEF WriteInPlace

LEMMA AppendSequentialRegular ==
  ASSUME FastBase, FastRegular, AppendSequential
  PROVE  FastRegular'
<1>1. FastTypeOK /\ FastOwners /\ pc = "write"
  BY AppendSequentialBase DEF FastBase, FastRegular
<1>2. /\ UNCHANGED <<data_list, log_pages, log_page_next, mergeBlocks>>
      /\ sequential.lba = Lba /\ Offset = sequential.offset
      /\ Issue(Memory, sequential.address, NextSequentialPage) /\ pc' = "idle"
      /\ sequential' = [sequential EXCEPT !.offset = @ + 1]
  BY DEF AppendSequential, ExtendsSequential, Issue
<1>3. /\ lpn \in LPN /\ Lba \in LBA /\ Offset \in PageNo
      /\ Lba = LbaOf(lpn) /\ Offset = OffsetOf(lpn)
      /\ Memory.bm = bm /\ Memory.flash = flash
  BY <1>1, FastTypes DEF Lba, Offset
<1>4. /\ Managed(Memory, Taken) /\ Memory \in Memories /\ Taken \subseteq Block
      /\ DataBlocks \subseteq Taken /\ RandomLogBlocks \subseteq Taken
      /\ SequentialBlocks \subseteq Taken
      /\ \A i \in 1 .. LogLimit : log_pages'[i].address = log_pages[i].address
  BY <1>1, <1>2, Owners
<1> DEFINE b == sequential.address
<1>5. /\ sequential.lba # NULL /\ SequentialBlocks = {b} /\ b \in Taken
      /\ b \notin DataBlocks /\ b \notin RandomLogBlocks
  BY <1>1, <1>2, <1>3, <1>4, FastConstants, Owners DEF FastOwners, Distinct
<1>6. \A q \in PageNo : flash[b][q] = EMPTY <=> q >= Offset
  BY <1>2, <1>5 DEF FastRegular, SequentialRight
<1>7. /\ sequential'.lba = sequential.lba /\ sequential'.address = b
      /\ sequential'.offset = Offset + 1
  BY <1>1, <1>2 DEF FastTypeOK
<1> HIDE DEF b
<1> DEFINE n == NextSequentialPage
<1>8. Issue(Memory, b, n) /\ n = get_free_page(flash[b])
  BY <1>2 DEF b, NextSequentialPage
<1> HIDE DEF n
<1>9. /\ Managed(Memory', Taken) /\ Pool(bm') = Pool(bm)
      /\ bm'.data_active = bm.data_active
      /\ n \in PageNo /\ flash[b][n] = EMPTY /\ flash'[b][n] = lpn
      /\ \A d \in Taken, q \in PageNo : d # b \/ q # n => Follows(flash'[d][q], flash[d][q])
  BY <1>3, <1>4, <1>5, <1>8, IssueManaged
<1>10. n = Offset
  <2>1. \A p, q \in PageNo : p < q /\ flash[b][p] = EMPTY => flash[b][q] = EMPTY
    BY <1>3, <1>6, FastConstants DEF PageNo
  <2>2. \A p \in PageNo : p < n => flash[b][p] # EMPTY
    <3> DEFINE pages == flash[b]
    <3>1. \A p, q \in PageNo : p < q /\ pages[p] = EMPTY => pages[q] = EMPTY
      BY <2>1
    <3>2. get_free_page(pages) \in PageNo /\ pages[get_free_page(pages)] = EMPTY
      BY <1>8, <1>9
    <3> HIDE DEF pages
    <3>3. \A p \in PageNo : p < get_free_page(pages) => pages[p] # EMPTY
      BY <3>1, <3>2, NextPageInOrder
    <3> QED
      BY <1>8, <3>3 DEF pages
  <2>3. n >= Offset
    BY <1>6, <1>9
  <2>4. ~(Offset < n)
    BY <1>3, <1>6, <2>2, FastConstants DEF PageNo
  <2> QED
    BY <1>3, <1>9, <2>3, <2>4, FastConstants DEF PageNo
<1>11. \A d \in Taken, q \in PageNo : d # b => Follows(flash'[d][q], flash[d][q])
  BY <1>9
<1>12. LogsRight'
  BY <1>2, <1>4, <1>5, <1>11, LogsKept DEF FastRegular
<1>13. SequentialBlocks' = SequentialBlocks
  BY <1>1, <1>2, <1>5, <1>7 DEF SequentialBlocks
<1>14. FastOwners' /\ DataCounted'
  BY <1>2, <1>4, <1>9, <1>13, OwnersKept DEF FastRegular
<1>15. DataRight'
  <2>1. \A d \in DataBlocks, q \in PageNo : Follows(flash'[d][q], flash[d][q])
    BY <1>4, <1>5, <1>11
  <2> QED
    BY <1>2, <2>1, DataKept DEF DataRight, FastRegular
<1>16. SequentialRight'
  <2>1. \A q \in PageNo : flash'[b][q] = EMPTY <=> q >= Offset + 1
    <3> SUFFICES ASSUME NEW q \in PageNo
                 PROVE  flash'[b][q] = EMPTY <=> q >= Offset + 1
      OBVIOUS
    <3>1. CASE q = Offset
      <4>1. flash'[b][q] # EMPTY
        BY <1>3, <1>9, <1>10, <3>1, MarksAreNoPages
      <4> QED
        BY <1>3, <3>1, <4>1, FastConstants DEF PageNo
    <3>2. CASE q # Offset
      <4>1. flash'[b][q] = EMPTY <=> flash[b][q] = EMPTY
        BY <1>5, <1>9, <1>10, <3>2 DEF Follows
      <4>2. q \in Int /\ Offset \in Int
        BY <1>3, FastConstants DEF PageNo
      <4> QED
        BY <1>6, <3>2, <4>1, <4>2
    <3> QED
      BY <3>1, <3>2
  <2>2. InPlaceFrom1(flash'[b], Lba)
    <3> SUFFICES ASSUME NEW q \in PageNo \ {0}, NEW l \in LPN, flash'[b][q] = l
                 PROVE  LbaOf(l) = Lba /\ OffsetOf(l) = q
      BY DEF InPlaceFrom1
    <3>1. CASE q = Offset
      BY <1>3, <1>9, <1>10, <3>1
    <3>2. CASE q # Offset
      <4>1. flash[b][q] = l
        BY <1>5, <1>9, <1>10, <3>2 DEF Follows
      <4>2. InPlaceFrom1(flash[b], Lba)
        BY <1>2, <1>5 DEF FastRegular, SequentialRight, b
      <4> QED
        BY <4>1, <4>2 DEF InPlaceFrom1
    <3> QED
      BY <3>1, <3>2
  <2> QED
    BY <1>2, <1>5, <1>7, <1>13, <2>1, <2>2 DEF SequentialRight
<1>17. LoggedHasData'
  BY <1>1, <1>2, LoggedKept DEF FastRegular
<1> QED
  BY <1>12, <1>14, <1>15, <1>16, <1>17 DEF FastRegular

LEMMA AppendRandomRegular ==
  ASSUME FastBase, FastRegular, AppendRandom
  PROVE  FastRegular'
<1>1. FastTypeOK /\ FastOwners
  BY DEF FastBase, FastRegular
<1>2. /\ pc = "write" /\ ToRandomLog /\ ~LogFull
      /\ RandomLog \in 1 .. LogLimit /\ RandomPage \in PageNo
      /\ log_pages[RandomLog].numPages = RandomPage
      /\ \A i \in 1 .. LogLimit :
           /\ log_pages'[i].address = log_pages[i].address
           /\ i # RandomLog => log_pages'[i] = log_pages[i]
           /\ \A p \in PageNo : i # RandomLog \/ p # RandomPage =>
                log_pages'[i].aPages[p] = log_pages[i].aPages[p]
      /\ log_pages'[RandomLog].numPages = RandomPage + 1
      /\ log_pages'[RandomLog].aPages[RandomPage] = lpn
      /\ Issue(Memory, log_pages[RandomLog].address, RandomPage)
      /\ UNCHANGED <<data_list, sequential, mergeBlocks>>
  BY AppendRandomIs
<1>3. /\ lpn \in LPN /\ Lba \in LBA /\ Lba = LbaOf(lpn) /\ data_list[Lba] # NULL
      /\ Memory.bm = bm /\ Memory.flash = flash /\ pc' = "idle"
  BY <1>1, <1>2, FastTypes DEF Lba, Issue, ToRandomLog, ToLog
<1>4. /\ Managed(Memory, Taken) /\ Memory \in Memories /\ Taken \subseteq Block
      /\ DataBlocks \subseteq Taken /\ RandomLogBlocks \subseteq Taken
      /\ SequentialBlocks \subseteq Taken
      /\ \A i \in 1 .. LogLimit : log_pages[i].address \in RandomLogBlocks
      /\ sequential.lba # NULL => sequential.address \in SequentialBlocks
  BY <1>1, <1>2, Owners
<1> DEFINE r == RandomLog
           n == RandomPage
           b == log_pages[RandomLog].address
<1>5. /\ r \in 1 .. LogLimit /\ n \in PageNo /\ b = log_pages[r].address
      /\ b \in RandomLogBlocks /\ b \notin DataBlocks /\ b \notin SequentialBlocks
      /\ \A i \in 1 .. LogLimit : log_pages[i].address = b => i = r
  BY <1>1, <1>2, <1>4 DEF FastOwners, Distinct
<1> HIDE DEF r, n, b
<1>6. /\ Managed(Memory', Taken) /\ Pool(bm') = Pool(bm)
      /\ bm'.data_active = bm.data_active
      /\ flash'[b][n] = lpn
      /\ \A d \in Taken, q \in PageNo : d # b \/ q # n => Follows(flash'[d][q], flash[d][q])
  <2>1. Issue(Memory, b, n)
    BY <1>2 DEF b, n
  <2> QED
    BY <1>3, <1>4, <1>5, <2>1, IssueManaged
<1>7. \A d \in Taken, q \in PageNo : d # b => Follows(flash'[d][q], flash[d][q])
  BY <1>6
<1>8. SequentialBlocks' = SequentialBlocks
  BY <1>2, <1>3 DEF SequentialBlocks
<1>9. FastOwners' /\ DataCounted'
  BY <1>2, <1>4, <1>6, <1>8, OwnersKept DEF FastRegular
<1>10. SequentialRight'
  BY <1>2, <1>4, <1>5, <1>7, <1>8, SequentialKept DEF FastRegular
<1>11. DataRight'
  <2>1. \A d \in DataBlocks, q \in PageNo : Follows(flash'[d][q], flash[d][q])
    BY <1>4, <1>5, <1>7
  <2> QED
    BY <1>2, <2>1, DataKept DEF DataRight, FastRegular
<1>12. LogsRight'
  <2> SUFFICES ASSUME NEW i \in 1 .. LogLimit, NEW p \in PageNo
               PROVE  /\ p >= log_pages'[i].numPages => flash'[log_pages[i].address][p] = EMPTY
                      /\ flash'[log_pages[i].address][p] \in LPN =>
                           log_pages'[i].aPages[p] \in {-1, flash'[log_pages[i].address][p]}
    BY <1>2 DEF LogsRight
  <2>1. /\ p >= log_pages[i].numPages => flash[log_pages[i].address][p] = EMPTY
        /\ flash[log_pages[i].address][p] \in LPN =>
             log_pages[i].aPages[p] \in {-1, flash[log_pages[i].address][p]}
    BY DEF FastRegular, LogsRight
  <2>2. log_pages[i].address \in Taken
    BY <1>4
  <2>3. CASE i # r
    <3>1. Follows(flash'[log_pages[i].address][p], flash[log_pages[i].address][p])
      BY <1>5, <1>7, <2>2, <2>3
    <3> QED
      BY <1>2, <2>1, <2>3, <3>1 DEF Follows, r
  <2>4. CASE i = r /\ p # n
    <3>1. Follows(flash'[log_pages[i].address][p], flash[log_pages[i].address][p])
      BY <1>5, <1>6, <2>2, <2>4
    <3>2. log_pages'[i].aPages[p] = log_pages[i].aPages[p]
      BY <1>2, <2>4 DEF n
    <3>3. p >= log_pages'[i].numPages => p >= log_pages[i].numPages
      <4>1. log_pages'[i].numPages = n + 1 /\ log_pages[i].numPages = n
        BY <1>2, <2>4 DEF r, n
      <4> QED
        BY <1>5, <4>1, FastConstants DEF PageNo
    <3> QED
      BY <2>1, <3>1, <3>2, <3>3 DEF Follows
  <2>5. CASE i = r /\ p = n
    <3>1. log_pages'[i].aPages[p] = lpn /\ flash'[log_pages[i].address][p] = lpn
      BY <1>2, <1>5, <1>6, <2>5 DEF r, n
    <3>2. ~(p >= log_pages'[i].numPages)
      <4>1. log_pages'[i].numPages = n + 1
        BY <1>2, <2>5 DEF r, n
      <4> QED
        BY <1>5, <2>5, <4>1, FastConstants DEF PageNo
    <3> QED
      BY <3>1, <3>2
  <2> QED
    BY <2>3, <2>4, <2>5
<1>13. LoggedHasData'
  <2>1. ASSUME NEW i \in 1 .. LogLimit, NEW p \in PageNo, log_pages'[i].aPages[p] # -1
        PROVE  data_list[LbaOf(log_pages'[i].aPages[p])] # NULL
    <3>1. CASE i = r /\ p = n
      BY <1>2, <1>3, <3>1 DEF r, n
    <3>2. CASE i # r \/ p # n
      BY <1>2, <2>1, <3>2 DEF r, n, FastRegular, LoggedHasData, LogLimit
    <3> QED
      BY <3>1, <3>2
  <2> QED
    BY <1>2, <2>1 DEF LoggedHasData, FastRegular, LogLimit
<1> QED
  BY <1>9, <1>10, <1>11, <1>12, <1>13 DEF FastRegular

(* A step that leaves every page as it is.                                  *)
LEMMA FollowsItself ==
  ASSUME NEW f, NEW S, flash' = f, \A d \in S : f[d] = flash[d]
  PROVE  \A d \in S, q \in PageNo : Follows(flash'[d][q], flash[d][q])
BY DEF Follows

LEMMA InvalidateDataManaged ==
  ASSUME FastTypeOK, NEW m \in Memories, NEW S, Managed(m, S), NULL \notin S, NEW a \in LBA,
         data_list[a] # NULL => data_list[a] \in S
  PROVE  /\ Managed(InvalidateData(m, a), S \ {data_list[a]})
         /\ Pool(InvalidateData(m, a).bm) = Pool(m.bm) \cup Own(data_list[a])
<1>1. CASE data_list[a] # NULL
  <2>1. data_list[a] \in Block /\ Own(data_list[a]) = {data_list[a]}
    BY <1>1, FastTypes DEF Own
  <2>2. InvalidateData(m, a) = Invalidated(m, data_list[a], "DATA")
    BY <1>1, InvalidateDataTyped
  <2> QED
    BY <1>1, <2>1, <2>2, InvalidatedManaged
<1>2. CASE data_list[a] = NULL
  <2>1. Own(data_list[a]) = {} /\ S \ {data_list[a]} = S
    BY <1>2 DEF Own
  <2> QED
    BY <1>2, <2>1, InvalidateDataTyped
<1> QED
  BY <1>1, <1>2

LEMMA SwitchSequentialRegular ==
  ASSUME FastBase, FastRegular, SwitchSequential
  PROVE  FastRegular'
<1>1. FastTypeOK /\ FastOwners /\ pc = "write"
  BY SwitchSequentialBase DEF FastBase, FastRegular
<1> DEFINE a == sequential.lba
           b == sequential.address
           old == data_list[sequential.lba]
<1>2. /\ a # NULL /\ flash' = flash /\ pc' = "sequential"
      /\ bm' = InvalidateData(Memory, a).bm
      /\ data_list' = [data_list EXCEPT ![a] = b]
      /\ UNCHANGED <<log_pages, log_page_next, sequential, lpn, mergeBlocks>>
      /\ bm'.data_active = bm.data_active - One(old)
  BY SwitchSequentialBase DEF SwitchSequential
<1>3. /\ Managed(Memory, Taken) /\ Memory \in Memories /\ Memory.bm = bm /\ Memory.flash = flash
      /\ Taken \subseteq Block /\ NULL \notin Block /\ NULL \notin DataBlocks
      /\ SequentialBlocks = {b} /\ b \in Block /\ a \in LBA
      /\ old # NULL => old \in DataBlocks
      /\ DataBlocks \subseteq Taken /\ b \in Taken
      /\ \A c \in LBA : data_list[c] # NULL => data_list[c] \in DataBlocks
  BY <1>1, <1>2, Owners, FastTypes, FastConstants
<1>4. /\ b \notin DataBlocks /\ b \notin RandomLogBlocks /\ DataBlocks \cap RandomLogBlocks = {}
  BY <1>1, <1>3 DEF FastOwners, Distinct
<1> HIDE DEF a, b, old
<1>5. old = data_list[a]
  BY DEF a, old
<1>6. /\ data_list'[a] = b /\ \A c \in LBA \ {a} : data_list'[c] = data_list[c]
      /\ DataBlocks' = (DataBlocks \ {old}) \cup Own(b)
      /\ \A c, e \in LBA : data_list'[c] # NULL /\ data_list'[c] = data_list'[e] => c = e
      /\ Cardinality(DataBlocks') = Cardinality(DataBlocks) - One(old) + One(b)
  BY <1>1, <1>2, <1>3, <1>4, <1>5, DataExchanged DEF FastOwners
<1>7. Own(b) = {b} /\ One(b) = 1
  BY <1>3 DEF Own, One
<1>8. SequentialBlocks' = {} /\ RandomLogBlocks' = RandomLogBlocks
  BY <1>2 DEF SequentialBlocks, RandomLogBlocks
<1>9. Taken' = Taken \ {old}
  BY <1>3, <1>4, <1>6, <1>7, <1>8 DEF Taken
<1>10. /\ Managed(InvalidateData(Memory, a), Taken \ {old})
       /\ Pool(bm') = Pool(bm) \cup Own(old)
  <2>1. NULL \notin Taken /\ (old # NULL => old \in Taken)
    BY <1>3
  <2> QED
    BY <1>1, <1>2, <1>3, <1>5, <2>1, InvalidateDataManaged
<1>11. Managed(Memory', Taken')
  <2>1. InvalidateData(Memory, a).flash = flash
    BY <1>1, <1>3, InvalidateDataTyped
  <2> QED
    BY <1>2, <1>9, <1>10, <2>1, ManagedNext
<1>12. Pool(bm') \cup Taken' = Pool(bm) \cup Taken
  BY <1>3, <1>9, <1>10 DEF Own
<1>13. Distinct'
  BY <1>1, <1>2, <1>4, <1>6, <1>7, <1>8 DEF Distinct, FastOwners
<1>14. FastOwners'
  BY <1>1, <1>11, <1>12, <1>13 DEF FastOwners
<1>15. DataCounted'
  <2>1. /\ Cardinality(DataBlocks) \in Nat /\ Cardinality(SequentialBlocks) = 1
        /\ Cardinality(SequentialBlocks') = 0 /\ One(old) \in Int
    <3>1. Cardinality(DataBlocks) \in Nat /\ Cardinality(SequentialBlocks) = 1
      BY <1>1, <1>2, OwnersCounted DEF a
    <3> QED
      BY <1>8, <3>1, FS_EmptySet DEF One
  <2> QED
    BY <1>2, <1>6, <1>7, <2>1 DEF DataCounted, FastRegular
<1>16. LogsRight'
  BY <1>2, LogsKept, FollowsItself DEF FastRegular
<1>17. SequentialRight'
  BY <1>2, <1>8, SequentialKept DEF FastRegular, Follows
<1>18. DataRight'
  <2> SUFFICES ASSUME NEW c \in LBA, data_list'[c] # NULL
               PROVE  InPlaceFrom1(flash'[data_list'[c]], c)
    BY DEF DataRight
  <2>1. CASE c = a
    BY <1>2, <1>6, <2>1 DEF FastRegular, SequentialRight, a, b
  <2>2. CASE c # a
    BY <1>2, <1>6, <2>2 DEF FastRegular, DataRight
  <2> QED
    BY <2>1, <2>2
<1>19. LoggedHasData'
  <2>1. \A c \in LBA : data_list[c] # NULL => data_list'[c] # NULL
    BY <1>3, <1>6
  <2> QED
    BY <1>1, <1>2, <2>1, LoggedKept DEF FastRegular
<1> QED
  BY <1>14, <1>15, <1>16, <1>17, <1>18, <1>19 DEF FastRegular

(* Where a merge takes the pages of one logical block from, they are in place. *)
LEMMA MergedSequentialPlaced ==
  ASSUME NEW a, a = sequential.lba, NEW f,
         InPlaceFrom1(f[sequential.address], a),
         data_list[a] # NULL => InPlaceFrom1(f[data_list[a]], a)
  PROVE  InPlaceFrom1(MergedSequential(f), a)
<1> SUFFICES ASSUME NEW p \in PageNo \ {0}, NEW l \in LPN, MergedSequential(f)[p] = l
             PROVE  LbaOf(l) = a /\ OffsetOf(l) = p
  BY DEF InPlaceFrom1
<1>1. l # EMPTY
  BY MarksAreNoPages
<1>2. \/ f[sequential.address][p] = l
      \/ data_list[a] # NULL /\ ValidData(f[data_list[a]][p]) = l
  BY <1>1 DEF MergedSequential
<1> QED
  BY <1>1, <1>2 DEF ValidData, InPlaceFrom1

LEMMA CopiedPlaced ==
  ASSUME NEW x, NEW pages \in Pages, NEW a, InPlaceFrom1(pages, a),
         x = [p \in PageNo |-> IF pages[p] # EMPTY THEN pages[p] ELSE Erased[p]]
  PROVE  InPlaceFrom1(x, a)
BY MarksAreNoPages DEF InPlaceFrom1, Erased

LEMMA MergeSequentialRegular ==
  ASSUME FastBase, FastRegular, MergeSequential
  PROVE  FastRegular'
<1>1. FastTypeOK /\ FastOwners /\ pc = "write" /\ pc' = "sequential"
  BY MergeSequentialBase DEF FastBase, FastRegular, MergeSequential
<1>2. UNCHANGED <<log_pages, log_page_next, sequential, lpn, mergeBlocks>>
  BY DEF MergeSequential
<1>3. CASE sequential.lba = NULL
  <2>1. UNCHANGED <<flash, bm, data_list>>
    BY <1>3 DEF MergeSequential
  <2>2. SequentialBlocks' = SequentialBlocks
    BY <1>2, <1>3 DEF SequentialBlocks
  <2>3. LoggedHasData'
    BY <1>1, <1>2, <2>1, LoggedKept DEF FastRegular
  <2> QED
    BY <1>2, <2>1, <2>2, <2>3, NothingRegular DEF FastRegular
<1>4. CASE sequential.lba # NULL
  <2> DEFINE a == sequential.lba
             b == sequential.address
             old == data_list[sequential.lba]
             n == NewBlock(Memory)
             m0 == Obtain(Memory, "DATA")
             m == MergingSequential
             out == SequentialOut
             S == Taken \cup {n}
  <2>1. /\ n \in Block /\ b \in Block /\ m0 \in Memories /\ m \in Memories /\ out \in Memories
        /\ Obtainable(Memory) /\ m = CollectedIfLow(m0) /\ out = Invalidated(m, b, "DATA")
        /\ flash' = CopyTo(m.flash, n, MergedSequential(m.flash))
        /\ bm' = InvalidateData(out, a).bm
        /\ bm'.data_active = bm.data_active - One(old)
        /\ data_list' = [data_list EXCEPT ![a] = n]
    BY <1>4, MergeSequentialIs DEF MergingSequential, SequentialOut
  <2>2. /\ Managed(Memory, Taken) /\ Memory \in Memories /\ Memory.bm = bm
        /\ Memory.flash = flash
        /\ Taken \subseteq Block /\ NULL \notin Block /\ NULL \notin DataBlocks
        /\ SequentialBlocks = {b} /\ a \in LBA
        /\ old # NULL => old \in DataBlocks
        /\ DataBlocks \subseteq Taken /\ RandomLogBlocks \subseteq Taken /\ b \in Taken
        /\ \A c \in LBA : data_list[c] # NULL => data_list[c] \in DataBlocks
    BY <1>1, <1>4, Owners, FastTypes, FastConstants
  <2>3. /\ b \notin DataBlocks /\ b \notin RandomLogBlocks
        /\ DataBlocks \cap RandomLogBlocks = {}
    BY <1>1, <2>2 DEF FastOwners, Distinct
  <2>4. old = data_list[a] /\ n = NewBlock(Memory) /\ m0 = Obtain(Memory, "DATA")
    OBVIOUS
  <2>5. /\ InPlaceFrom1(flash[b], a) /\ a = sequential.lba /\ b = sequential.address
        /\ old # NULL => InPlaceFrom1(flash[old], a)
    BY <1>4, <2>2 DEF FastRegular, SequentialRight, DataRight
  <2> HIDE DEF a, b, old, n, m0, m, out
  <2>6. /\ n \in Pool(bm) /\ n \notin Taken
        /\ m0.flash[n] = Erased /\ Managed(m0, S) /\ Pool(m0.bm) = Pool(bm) \ {n}
        /\ n \notin Blocks(m0.bm.invalid_list)
    BY <2>1, <2>2, <2>4, ObtainManaged
  <2>7. \A d \in Taken : m0.flash[d] = flash[d]
    <3>1. m0.flash = Prepared(Memory).flash
      BY <2>1, <2>2, <2>4, ObtainTyped
    <3> QED
      BY <2>2, <3>1, PreparedTyped, ManagedFree
  <2>8. /\ Managed(m, S) /\ Pool(m.bm) = Pool(bm) \ {n}
        /\ m.flash[n] = Erased /\ \A d \in Taken : m.flash[d] = flash[d]
    <3>1. Managed(m, S) /\ Pool(m.bm) = Pool(bm) \ {n}
      BY <2>1, <2>6, CollectedIfLowManaged
    <3>2. \A d \in S : m.flash[d] = m0.flash[d]
      <4>1. \A d \in S : d \in Block \ Blocks(m0.bm.invalid_list)
        BY <2>1, <2>2, <2>6, ManagedFree
      <4> QED
        BY <2>1, <4>1, CollectedIfLowTyped
    <3> QED
      BY <2>6, <2>7, <3>1, <3>2
  <2>9. /\ Managed(out, S \ {b}) /\ Pool(out.bm) = Pool(m.bm) \cup {b} /\ out.flash = m.flash
    <3>1. b \in S
      BY <2>2
    <3> HIDE DEF S
    <3>2. Managed(Invalidated(m, b, "DATA"), S \ {b})
          /\ Pool(Invalidated(m, b, "DATA").bm) = Pool(m.bm) \cup {b}
      BY <2>1, <2>8, <3>1, InvalidatedManaged
    <3>3. Invalidated(m, b, "DATA").flash = m.flash
      BY <2>1, InvalidatedTyped
    <3> QED
      BY <2>1, <3>2, <3>3
  <2>10. /\ Managed(InvalidateData(out, a), (S \ {b}) \ {old})
         /\ Pool(bm') = Pool(out.bm) \cup Own(old)
         /\ InvalidateData(out, a).flash = m.flash
    <3>1. NULL \notin S \ {b} /\ (data_list[a] # NULL => data_list[a] \in S \ {b})
      BY <2>1, <2>2, <2>3, <2>4
    <3>2. InvalidateData(out, a).flash = out.flash
      BY <1>1, <2>1, <2>2, InvalidateDataTyped
    <3> QED
      BY <1>1, <2>1, <2>2, <2>4, <2>9, <3>1, <3>2, InvalidateDataManaged
  <2>11. /\ \A d \in Block \ {n} : flash'[d] = m.flash[d]
         /\ flash'[n] = [p \in PageNo |-> IF MergedSequential(m.flash)[p] # EMPTY
                                            THEN MergedSequential(m.flash)[p] ELSE Erased[p]]
         /\ MergedSequential(m.flash) \in Pages
    <3>1. m.flash \in [Block -> Pages]
      BY <2>1, MemoryParts
    <3>2. MergedSequential(m.flash) \in Pages
      BY <1>1, <1>4, <3>1, MergedSequentialType
    <3> DEFINE pages == MergedSequential(m.flash)
    <3>3. pages \in Pages /\ flash' = CopyTo(m.flash, n, pages)
      BY <2>1, <3>2
    <3> HIDE DEF pages
    <3>4. \A d \in Block : d # n => CopyTo(m.flash, n, pages)[d] = m.flash[d]
      BY <2>1, <3>1, <3>3, CopyToEffect
    <3>5. CopyTo(m.flash, n, pages)[n] =
            [p \in PageNo |-> IF pages[p] # EMPTY THEN pages[p] ELSE m.flash[n][p]]
      BY <2>1, <3>1, <3>3, CopyToEffect
    <3>6. flash'[n] = [p \in PageNo |-> IF pages[p] # EMPTY THEN pages[p] ELSE Erased[p]]
      BY <2>8, <3>3, <3>5
    <3> QED
      BY <3>2, <3>3, <3>4, <3>6 DEF pages
  <2>12. Own(n) = {n} /\ One(n) = 1
    BY <2>1, <2>2 DEF Own, One
  <2>13. /\ data_list'[a] = n /\ \A c \in LBA \ {a} : data_list'[c] = data_list[c]
         /\ DataBlocks' = (DataBlocks \ {old}) \cup {n}
         /\ \A c, e \in LBA : data_list'[c] # NULL /\ data_list'[c] = data_list'[e] => c = e
         /\ Cardinality(DataBlocks') = Cardinality(DataBlocks) - One(old) + 1
    <3>1. n \notin DataBlocks
      BY <2>2, <2>6
    <3>2. Distinct /\ n \in Block \cup {NULL} /\ data_list' = [data_list EXCEPT ![a] = n]
      BY <1>1, <2>1 DEF FastOwners
    <3>3. /\ data_list'[a] = n /\ \A c \in LBA \ {a} : data_list'[c] = data_list[c]
          /\ DataBlocks' = (DataBlocks \ {data_list[a]}) \cup Own(n)
          /\ \A c, e \in LBA : data_list'[c] # NULL /\ data_list'[c] = data_list'[e] => c = e
          /\ Cardinality(DataBlocks') = Cardinality(DataBlocks) - One(data_list[a]) + One(n)
      BY <1>1, <2>2, <3>1, <3>2, DataExchanged
    <3> QED
      BY <2>4, <2>12, <3>3
  <2>14. SequentialBlocks' = {} /\ RandomLogBlocks' = RandomLogBlocks
    BY <1>1, <1>2 DEF SequentialBlocks, RandomLogBlocks
  <2>15. Taken' = (S \ {b}) \ {old} /\ n \in Taken'
    BY <2>1, <2>2, <2>3, <2>6, <2>13, <2>14 DEF Taken
  <2>16. Managed(Memory', Taken')
    <3>1. ASSUME NEW d \in FreeBlocks(InvalidateData(out, a).bm)
          PROVE  flash'[d] = InvalidateData(out, a).flash[d]
      <4>1. InvalidateData(out, a) \in Memories
        BY <1>1, <2>1, <2>2, InvalidateDataTyped
      <4>2. d \in Block /\ d # n
        BY <2>10, <2>15, <4>1, ManagedFree
      <4> QED
        BY <2>10, <2>11, <4>2
    <3> QED
      BY <2>1, <2>10, <2>15, <3>1, ManagedNext
  <2>17. Pool(bm') \cup Taken' = Pool(bm) \cup Taken
    BY <2>2, <2>6, <2>8, <2>9, <2>10, <2>15 DEF Own
  <2>18. Distinct'
    BY <1>1, <1>2, <2>2, <2>3, <2>6, <2>13, <2>14 DEF Distinct, FastOwners
  <2>19. FastOwners'
    BY <1>1, <2>16, <2>17, <2>18 DEF FastOwners
  <2>20. DataCounted'
    <3>1. /\ Cardinality(DataBlocks) \in Nat /\ Cardinality(SequentialBlocks) = 1
          /\ Cardinality(SequentialBlocks') = 0 /\ One(old) \in Int
      <4>1. Cardinality(DataBlocks) \in Nat /\ Cardinality(SequentialBlocks) = 1
        BY <1>1, <1>4, OwnersCounted
      <4> QED
        BY <2>14, <4>1, FS_EmptySet DEF One
    <3> QED
      BY <2>1, <2>13, <3>1 DEF DataCounted, FastRegular
  <2>21. \A d \in Taken : flash'[d] = flash[d]
    BY <2>2, <2>6, <2>8, <2>11
  <2>22. \A d \in Taken, q \in PageNo : Follows(flash'[d][q], flash[d][q])
    BY <2>21 DEF Follows
  <2>23. LogsRight'
    BY <1>2, <2>2, <2>22, LogsKept DEF FastRegular
  <2>24. SequentialRight'
    BY <1>2, <2>2, <2>5, <2>14, <2>22, SequentialKept DEF FastRegular
  <2>25. InPlaceFrom1(flash'[n], a)
    <3>1. m.flash[b] = flash[b] /\ (old # NULL => m.flash[old] = flash[old])
      BY <2>2, <2>8
    <3>2. InPlaceFrom1(MergedSequential(m.flash), a)
      BY <2>4, <2>5, <3>1, MergedSequentialPlaced
    <3> QED
      BY <2>11, <3>2, CopiedPlaced
  <2>26. DataRight'
    <3> SUFFICES ASSUME NEW c \in LBA, data_list'[c] # NULL
                 PROVE  InPlaceFrom1(flash'[data_list'[c]], c)
      BY DEF DataRight
    <3>1. CASE c = a
      BY <2>13, <2>25, <3>1
    <3>2. CASE c # a
      BY <2>2, <2>13, <2>22, <3>2, DataKept DEF FastRegular
    <3> QED
      BY <3>1, <3>2
  <2>27. LoggedHasData'
    <3>1. \A c \in LBA : data_list[c] # NULL => data_list'[c] # NULL
      BY <2>1, <2>2, <2>13
    <3> QED
      BY <1>1, <1>2, <3>1, LoggedKept DEF FastRegular
  <2> QED
    BY <2>19, <2>20, <2>23, <2>24, <2>26, <2>27 DEF FastRegular
<1> QED
  BY <1>3, <1>4

LEMMA StartSequentialRegular ==
  ASSUME FastBase, FastRegular, StartSequential
  PROVE  FastRegular'
<1>1. FastTypeOK /\ FastOwners /\ pc = "sequential"
  BY StartSequentialBase DEF FastBase, FastRegular
<1> DEFINE n == NewBlock(Memory)
           m == Obtain(Memory, "DATA")
           S == Taken \cup {n}
<1>2. /\ Obtainable(Memory) /\ sequential' = [lba |-> Lba, address |-> n, offset |-> 1]
      /\ Issue(m, n, 0) /\ pc' = "idle"
      /\ UNCHANGED <<data_list, log_pages, log_page_next, mergeBlocks>>
      /\ bm'.data_active = bm.data_active + 1
  BY StartSequentialBase DEF StartSequential, Issue
<1>3. /\ lpn \in LPN /\ Lba \in LBA /\ Lba # NULL /\ 0 \in PageNo
      /\ Memory.bm = bm /\ Memory.flash = flash
  BY <1>1, FastTypes, FastConstants
<1>4. /\ Managed(Memory, Taken) /\ Memory \in Memories /\ Taken \subseteq Block
      /\ DataBlocks \subseteq Taken /\ RandomLogBlocks \subseteq Taken
      /\ SequentialBlocks = {}
  BY <1>1, Owners DEF SequentialBlocks
<1>5. /\ n \in Block /\ m \in Memories /\ m.flash = Prepared(Memory).flash
  BY <1>2, <1>4, ObtainTyped
<1>6. /\ n \in Pool(bm) /\ n \notin Taken /\ m.flash[n] = Erased
      /\ Managed(m, S) /\ Pool(m.bm) = Pool(bm) \ {n}
  BY <1>2, <1>3, <1>4, ObtainManaged
<1> HIDE DEF n, m
<1>7. \A d \in Taken : m.flash[d] = flash[d]
  BY <1>3, <1>4, <1>5, PreparedTyped, ManagedFree
<1>8. /\ Managed(Memory', S) /\ Pool(bm') = Pool(m.bm)
      /\ flash'[n][0] = lpn
      /\ \A d \in S, q \in PageNo : d # n \/ q # 0 => Follows(flash'[d][q], m.flash[d][q])
  <2>1. S \subseteq Block /\ n \in S
    BY <1>4, <1>5
  <2> HIDE DEF S
  <2> QED
    BY <1>2, <1>3, <1>5, <1>6, <2>1, IssueManaged
<1>9. \A d \in Taken, q \in PageNo : Follows(flash'[d][q], flash[d][q])
  BY <1>6, <1>7, <1>8
<1>10. SequentialBlocks' = {n}
  BY <1>2, <1>3 DEF SequentialBlocks
<1>11. DataBlocks' = DataBlocks /\ RandomLogBlocks' = RandomLogBlocks
  BY <1>2 DEF DataBlocks, RandomLogBlocks
<1>12. Taken' = S
  BY <1>4, <1>10, <1>11 DEF Taken
<1>13. Distinct'
  BY <1>1, <1>2, <1>4, <1>6, <1>10, <1>11 DEF Distinct, FastOwners
<1>14. FastOwners'
  <2>1. Pool(bm') \cup Taken' = Pool(bm) \cup Taken
    BY <1>6, <1>8, <1>12
  <2> QED
    BY <1>1, <1>8, <1>12, <1>13, <2>1 DEF FastOwners
<1>15. DataCounted'
  <2>1. /\ Cardinality(DataBlocks) \in Nat /\ Cardinality(SequentialBlocks) = 0
        /\ Cardinality(SequentialBlocks') = 1
    BY <1>1, <1>10, OwnersCounted, FS_Singleton
  <2> QED
    BY <1>2, <1>11, <2>1 DEF DataCounted, FastRegular
<1>16. LogsRight'
  BY <1>2, <1>4, <1>9, LogsKept DEF FastRegular
<1>17. DataRight'
  <2>1. \A d \in DataBlocks, q \in PageNo : Follows(flash'[d][q], flash[d][q])
    BY <1>4, <1>9
  <2> QED
    BY <1>2, <2>1, DataKept DEF DataRight, FastRegular
<1>18. \A q \in PageNo : flash'[n][q] = EMPTY <=> q >= 1
  <2> SUFFICES ASSUME NEW q \in PageNo PROVE flash'[n][q] = EMPTY <=> q >= 1
    OBVIOUS
  <2>1. CASE q = 0
    <3>1. flash'[n][q] # EMPTY
      BY <1>3, <1>8, <2>1, MarksAreNoPages
    <3> QED
      BY <2>1, <3>1
  <2>2. CASE q # 0
    <3>1. Follows(flash'[n][q], EMPTY)
      BY <1>6, <1>8, <2>2 DEF Erased
    <3>2. q >= 1
      BY <2>2, FastConstants DEF PageNo
    <3> QED
      BY <3>1, <3>2 DEF Follows
  <2> QED
    BY <2>1, <2>2
<1>19. SequentialRight'
  <2>1. InPlaceFrom1(flash'[n], Lba)
    <3>1. ASSUME NEW q \in PageNo \ {0} PROVE flash'[n][q] \notin LPN
      <4>1. q >= 1
        BY <3>1, FastConstants DEF PageNo
      <4> QED
        BY <1>18, <4>1, MarksAreNoPages
    <3> QED
      BY <3>1 DEF InPlaceFrom1
  <2>2. sequential'.lba = Lba /\ sequential'.address = n /\ sequential'.offset = 1
    BY <1>2
  <2> QED
    BY <1>3, <1>10, <1>18, <2>1, <2>2 DEF SequentialRight
<1>20. LoggedHasData'
  BY <1>1, <1>2, LoggedKept DEF FastRegular
<1> QED
  BY <1>14, <1>15, <1>16, <1>17, <1>19, <1>20 DEF FastRegular

LEMMA MergedRandomPlaced ==
  ASSUME FastTypeOK, NEW a \in LBA, NEW f, InPlaceFrom1(f[data_list[a]], a),
         \A x \in Scanned(a) :
           f[log_pages[x[1]].address][x[2]] \in LPN =>
             LoggedAt(x) \in {-1, f[log_pages[x[1]].address][x[2]]}
  PROVE  InPlaceFrom1(MergedRandom(f, a), a)
<1> SUFFICES ASSUME NEW p \in PageNo \ {0}, NEW l \in LPN, MergedRandom(f, a)[p] = l
             PROVE  LbaOf(l) = a /\ OffsetOf(l) = p
  BY DEF InPlaceFrom1
<1>1. l # EMPTY
  BY MarksAreNoPages
<1>2. CASE \E x \in Scanned(a) :
             /\ OffsetOf(LoggedAt(x)) = p
             /\ MergedRandom(f, a)[p] = f[log_pages[x[1]].address][x[2]]
  <2>1. PICK x \in Scanned(a) :
             /\ OffsetOf(LoggedAt(x)) = p
             /\ MergedRandom(f, a)[p] = f[log_pages[x[1]].address][x[2]]
    BY <1>2
  <2>2. LoggedAt(x) \in LPN /\ LbaOf(LoggedAt(x)) = a
    BY ScannedAre
  <2>3. LoggedAt(x) # -1
    BY DEF Scanned
  <2>4. LoggedAt(x) = l
    BY <2>1, <2>3
  <2> QED
    BY <2>1, <2>2, <2>4
<1>3. CASE MergedRandom(f, a)[p] = ValidData(f[data_list[a]][p])
  BY <1>1, <1>3 DEF ValidData, InPlaceFrom1
<1> QED
  BY <1>2, <1>3, MergedRandomIs

LEMMA MergeLogicalBlockRegular ==
  ASSUME FastBase, FastRegular, NEW a \in mergeBlocks, MergeLogicalBlock(a)
  PROVE  FastRegular'
<1>1. FastTypeOK /\ FastOwners
  BY DEF FastBase, FastRegular
<1> DEFINE old == data_list[a]
           c0 == CollectedIfLow(Memory)
           n == MergeTarget
           m == MergingRandom
           S == Taken \cup {n}
<1>2. /\ a \in LBA /\ old \in Block /\ old # NULL /\ old = data_list[a]
      /\ c0 \in Memories /\ c0 = CollectedIfLow(Memory) /\ Obtainable(c0)
      /\ m \in Memories /\ m = Obtain(c0, "DATA") /\ n = NewBlock(c0)
      /\ n \in Block /\ m.flash[n] = Erased
      /\ flash' = CopyTo(m.flash, n, MergedRandom(m.flash, a))
      /\ bm' = Invalidated(m, old, "DATA").bm
      /\ bm'.data_active = bm.data_active
      /\ data_list' = [data_list EXCEPT ![a] = n]
      /\ pc = "merge" /\ mergeBlocks' = mergeBlocks \ {a}
      /\ UNCHANGED <<log_page_next, sequential, pc, lpn>>
  BY MergeLogicalBlockIs DEF MergingRandom, MergeTarget
<1>3. /\ \A i \in 1 .. LogLimit :
           /\ log_pages'[i].address = log_pages[i].address
           /\ log_pages'[i].numPages = log_pages[i].numPages
           /\ \A p \in PageNo : log_pages'[i].aPages[p] \in {-1, log_pages[i].aPages[p]}
  BY <1>1, MergedLog
<1>4. /\ Managed(Memory, Taken) /\ Memory \in Memories /\ Memory.bm = bm
      /\ Memory.flash = flash
      /\ Taken \subseteq Block /\ NULL \notin Block /\ NULL \notin DataBlocks
      /\ old \in DataBlocks
      /\ DataBlocks \subseteq Taken /\ RandomLogBlocks \subseteq Taken
      /\ SequentialBlocks \subseteq Taken
      /\ sequential.lba # NULL => sequential.address \in Taken
      /\ \A i \in 1 .. LogLimit : log_pages[i].address \in RandomLogBlocks
      /\ \A c \in LBA : data_list[c] # NULL => data_list[c] \in DataBlocks
  BY <1>1, <1>2, Owners, FastTypes, FastConstants
<1>5. /\ DataBlocks \cap RandomLogBlocks = {}
      /\ SequentialBlocks \cap (DataBlocks \cup RandomLogBlocks) = {}
  BY <1>1 DEF FastOwners, Distinct
<1> HIDE DEF old, c0, n, m
<1>6. Managed(c0, Taken) /\ Pool(c0.bm) = Pool(bm)
  BY <1>2, <1>4, CollectedIfLowManaged
<1>7. /\ n \in Pool(bm) /\ n \notin Taken /\ Managed(m, S) /\ Pool(m.bm) = Pool(bm) \ {n}
  BY <1>2, <1>6, ObtainManaged
<1>8. \A d \in Taken : m.flash[d] = flash[d]
  <2>1. \A d \in Taken : c0.flash[d] = flash[d]
    BY <1>2, <1>4, CollectedIfLowTyped, ManagedFree
  <2>2. m.flash = Prepared(c0).flash
    BY <1>2, ObtainTyped
  <2>3. \A d \in Taken : Prepared(c0).flash[d] = c0.flash[d]
    BY <1>2, <1>4, <1>6, PreparedTyped, ManagedFree
  <2> QED
    BY <2>1, <2>2, <2>3
<1>9. /\ Managed(Invalidated(m, old, "DATA"), S \ {old})
      /\ Pool(bm') = Pool(m.bm) \cup {old}
      /\ Invalidated(m, old, "DATA").flash = m.flash
      /\ Invalidated(m, old, "DATA") \in Memories
  <2>1. old \in S
    BY <1>4
  <2> HIDE DEF S
  <2>2. /\ Managed(Invalidated(m, old, "DATA"), S \ {old})
        /\ Pool(Invalidated(m, old, "DATA").bm) = Pool(m.bm) \cup {old}
    <3>1. m \in Memories /\ old \in Block /\ Managed(m, S)
      BY <1>2, <1>7 DEF S
    <3> QED
      BY <2>1, <3>1, InvalidatedManaged
  <2>3. /\ Invalidated(m, old, "DATA").flash = m.flash
        /\ Invalidated(m, old, "DATA") \in Memories
    BY <1>2, InvalidatedTyped
  <2> QED
    BY <1>2, <2>2, <2>3
<1>10. /\ \A d \in Block \ {n} : flash'[d] = m.flash[d]
       /\ flash'[n] = [p \in PageNo |-> IF MergedRandom(m.flash, a)[p] # EMPTY
                                          THEN MergedRandom(m.flash, a)[p] ELSE Erased[p]]
       /\ MergedRandom(m.flash, a) \in Pages
  <2>1. m.flash \in [Block -> Pages]
    BY <1>2, MemoryParts
  <2>2. MergedRandom(m.flash, a) \in Pages
    BY <1>1, <1>2, <2>1, MergedRandomType
  <2> DEFINE pages == MergedRandom(m.flash, a)
  <2>3. pages \in Pages /\ flash' = CopyTo(m.flash, n, pages)
    BY <1>2, <2>2
  <2> HIDE DEF pages
  <2>4. \A d \in Block : d # n => CopyTo(m.flash, n, pages)[d] = m.flash[d]
    BY <1>2, <2>1, <2>3, CopyToEffect
  <2>5. CopyTo(m.flash, n, pages)[n] =
          [p \in PageNo |-> IF pages[p] # EMPTY THEN pages[p] ELSE m.flash[n][p]]
    BY <1>2, <2>1, <2>3, CopyToEffect
  <2>6. flash'[n] = [p \in PageNo |-> IF pages[p] # EMPTY THEN pages[p] ELSE Erased[p]]
    BY <1>2, <2>3, <2>5
  <2> QED
    BY <2>2, <2>3, <2>4, <2>6 DEF pages
<1>11. Own(n) = {n} /\ One(n) = 1 /\ One(old) = 1
  BY <1>2, <1>4 DEF Own, One
<1>12. /\ data_list'[a] = n /\ \A c \in LBA \ {a} : data_list'[c] = data_list[c]
       /\ DataBlocks' = (DataBlocks \ {old}) \cup {n}
       /\ \A c, e \in LBA : data_list'[c] # NULL /\ data_list'[c] = data_list'[e] => c = e
       /\ Cardinality(DataBlocks') = Cardinality(DataBlocks) - 1 + 1
  <2>1. n \notin DataBlocks
    BY <1>4, <1>7
  <2>2. Distinct /\ n \in Block \cup {NULL} /\ data_list' = [data_list EXCEPT ![a] = n]
    BY <1>1, <1>2 DEF FastOwners
  <2>3. /\ data_list'[a] = n /\ \A c \in LBA \ {a} : data_list'[c] = data_list[c]
        /\ DataBlocks' = (DataBlocks \ {data_list[a]}) \cup Own(n)
        /\ \A c, e \in LBA : data_list'[c] # NULL /\ data_list'[c] = data_list'[e] => c = e
        /\ Cardinality(DataBlocks') = Cardinality(DataBlocks) - One(data_list[a]) + One(n)
    BY <1>1, <1>2, <2>1, <2>2, DataExchanged
  <2> QED
    BY <1>2, <1>11, <2>3
<1>13. SequentialBlocks' = SequentialBlocks
  BY <1>2 DEF SequentialBlocks
<1>14. RandomLogBlocks' = RandomLogBlocks
  BY <1>3 DEF RandomLogBlocks, LogLimit
<1>15. Taken' = S \ {old} /\ n \in Taken'
  BY <1>2, <1>4, <1>5, <1>7, <1>12, <1>13, <1>14 DEF Taken
<1>16. Managed(Memory', Taken')
  <2>1. ASSUME NEW d \in FreeBlocks(Invalidated(m, old, "DATA").bm)
        PROVE  flash'[d] = Invalidated(m, old, "DATA").flash[d]
    <3>1. d \in Block /\ d # n
      BY <1>9, <1>15, ManagedFree
    <3> QED
      BY <1>9, <1>10, <3>1
  <2> QED
    BY <1>2, <1>9, <1>15, <2>1, ManagedNext
<1>17. Distinct'
  BY <1>1, <1>3, <1>4, <1>5, <1>7, <1>12, <1>13, <1>14 DEF Distinct, FastOwners
<1>18. FastOwners'
  <2>1. Pool(bm') \cup Taken' = Pool(bm) \cup Taken
    BY <1>4, <1>7, <1>9, <1>15
  <2> QED
    BY <1>1, <1>16, <1>17, <2>1 DEF FastOwners
<1>19. DataCounted'
  <2>1. Cardinality(DataBlocks) \in Nat
    BY <1>1, OwnersCounted
  <2> QED
    BY <1>2, <1>12, <1>13, <2>1 DEF DataCounted, FastRegular
<1>20. \A d \in Taken : flash'[d] = flash[d]
  BY <1>4, <1>7, <1>8, <1>10
<1>21. \A d \in Taken, q \in PageNo : Follows(flash'[d][q], flash[d][q])
  BY <1>20 DEF Follows
<1>22. LogsRight'
  <2> SUFFICES ASSUME NEW i \in 1 .. LogLimit, NEW p \in PageNo
               PROVE  /\ p >= log_pages'[i].numPages => flash'[log_pages'[i].address][p] = EMPTY
                      /\ flash'[log_pages'[i].address][p] \in LPN =>
                           log_pages'[i].aPages[p] \in {-1, flash'[log_pages'[i].address][p]}
    BY DEF LogsRight
  <2>1. flash'[log_pages'[i].address] = flash[log_pages[i].address]
    BY <1>3, <1>4, <1>20
  <2> QED
    BY <1>3, <2>1 DEF FastRegular, LogsRight
<1>23. SequentialRight'
  BY <1>2, <1>4, <1>13, <1>21, SequentialKept DEF FastRegular
<1>24. InPlaceFrom1(flash'[n], a)
  <2>1. m.flash[old] = flash[old]
    BY <1>4, <1>8
  <2>2. ASSUME NEW x \in Scanned(a), m.flash[log_pages[x[1]].address][x[2]] \in LPN
        PROVE  LoggedAt(x) \in {-1, m.flash[log_pages[x[1]].address][x[2]]}
    <3>1. x[1] \in 1 .. LogLimit /\ x[2] \in PageNo
      BY <1>1, ScannedAre
    <3>2. m.flash[log_pages[x[1]].address] = flash[log_pages[x[1]].address]
      BY <1>4, <1>8, <3>1
    <3> QED
      BY <2>2, <3>1, <3>2 DEF FastRegular, LogsRight, LoggedAt
  <2>3. InPlaceFrom1(m.flash[data_list[a]], a)
    BY <1>2, <2>1 DEF FastRegular, DataRight
  <2>4. InPlaceFrom1(MergedRandom(m.flash, a), a)
    BY <1>1, <1>2, <2>2, <2>3, MergedRandomPlaced
  <2> QED
    BY <1>10, <2>4, CopiedPlaced
<1>25. DataRight'
  <2> SUFFICES ASSUME NEW c \in LBA, data_list'[c] # NULL
               PROVE  InPlaceFrom1(flash'[data_list'[c]], c)
    BY DEF DataRight
  <2>1. CASE c = a
    BY <1>12, <1>24, <2>1
  <2>2. CASE c # a
    BY <1>4, <1>12, <1>21, <2>2, DataKept DEF FastRegular
  <2> QED
    BY <2>1, <2>2
<1>26. LoggedHasData'
  <2>1. \A c \in LBA : data_list[c] # NULL => data_list'[c] # NULL
    BY <1>2, <1>4, <1>12
  <2> QED
    BY <1>1, <1>2, <1>3, <2>1, LoggedKept DEF FastRegular
<1> QED
  BY <1>18, <1>19, <1>22, <1>23, <1>25, <1>26 DEF FastRegular

LEMMA ReplaceVictimRegular ==
  ASSUME FastBase, FastRegular, ReplaceVictim
  PROVE  FastRegular'
<1>1. FastTypeOK /\ FastOwners
  BY DEF FastBase, FastRegular
<1> DEFINE v == log_pages[1].address
           out == VictimOut
           n == NewBlock(VictimOut)
           m == Obtain(VictimOut, "LOG")
           R == Taken \ {v}
<1>2. /\ pc = "merge" /\ pc' = "write" /\ mergeBlocks = {} /\ Obtainable(out)
      /\ n \in Block /\ n = NewBlock(out) /\ m \in Memories /\ m = Obtain(out, "LOG")
      /\ flash' = m.flash /\ flash' \in [Block -> Pages]
      /\ bm' = m.bm /\ bm'.data_active = bm.data_active
      /\ \A i \in 1 .. LogLimit - 1 : log_pages'[i] = log_pages[i + 1]
      /\ log_pages'[LogLimit] = NewRandomLog(n)
      /\ UNCHANGED <<data_list, sequential, lpn, mergeBlocks>>
  BY ReplaceVictimIs
<1>3. /\ v \in Block /\ v = log_pages[1].address
      /\ out = Invalidated(Memory, v, "LOG") /\ out \in Memories /\ out.flash = flash
  BY <1>1, VictimOutTyped
<1>4. /\ Managed(Memory, Taken) /\ Memory \in Memories /\ Memory.bm = bm
      /\ Memory.flash = flash /\ Taken \subseteq Block
      /\ DataBlocks \subseteq Taken /\ RandomLogBlocks \subseteq Taken
      /\ SequentialBlocks \subseteq Taken
      /\ sequential.lba # NULL => sequential.address \in SequentialBlocks
      /\ \A i \in 1 .. LogLimit : log_pages[i].address \in RandomLogBlocks
  BY <1>1, <1>2, Owners, FastTypes
<1>5. /\ LogLimit \in Nat /\ LogLimit >= 2 /\ 1 \in 1 .. LogLimit
      /\ \A i \in 1 .. LogLimit - 1 : i \in 1 .. LogLimit /\ i + 1 \in 1 .. LogLimit /\ i + 1 # 1
      /\ LogLimit \in 1 .. LogLimit
      /\ \A i \in 1 .. LogLimit : i # LogLimit => i \in 1 .. LogLimit - 1
      /\ \A i \in 1 .. LogLimit : i # 1 => i - 1 \in 1 .. LogLimit - 1 /\ (i - 1) + 1 = i
  BY FastConstants
<1>6. /\ v \in RandomLogBlocks /\ v \in Taken
      /\ DataBlocks \cap RandomLogBlocks = {}
      /\ SequentialBlocks \cap (DataBlocks \cup RandomLogBlocks) = {}
      /\ \A i, j \in 1 .. LogLimit : log_pages[i].address = log_pages[j].address => i = j
  BY <1>1, <1>3, <1>4, <1>5 DEF FastOwners, Distinct
<1> HIDE DEF v, out, n, m
<1>7. Managed(out, R) /\ Pool(out.bm) = Pool(bm) \cup {v}
  <2> DEFINE S == Taken
  <2>1. Managed(Memory, S) /\ v \in S
    BY <1>4, <1>6
  <2> HIDE DEF S
  <2>2. /\ Managed(Invalidated(Memory, v, "LOG"), S \ {v})
        /\ Pool(Invalidated(Memory, v, "LOG").bm) = Pool(Memory.bm) \cup {v}
    <3>1. Memory \in Memories /\ v \in Block
      BY <1>3, <1>4
    <3> QED
      BY <2>1, <3>1, InvalidatedManaged
  <2> QED
    BY <1>3, <1>4, <2>2 DEF S
<1>8. /\ n \in Pool(out.bm) /\ n \notin R /\ m.flash[n] = Erased
      /\ Managed(m, R \cup {n}) /\ Pool(m.bm) = Pool(out.bm) \ {n}
  <2> HIDE DEF R
  <2> QED
    BY <1>2, <1>3, <1>7, ObtainManaged
<1>9. \A d \in R : flash'[d] = flash[d]
  <2>1. m.flash = Prepared(out).flash
    BY <1>2, <1>3, ObtainTyped
  <2>2. \A d \in R : d \in Block \ Blocks(out.bm.invalid_list)
    BY <1>3, <1>4, <1>7, ManagedFree
  <2> QED
    BY <1>2, <1>3, <2>1, <2>2, PreparedTyped
<1>10. /\ \A i \in 1 .. LogLimit - 1 : log_pages'[i].address = log_pages[i + 1].address
       /\ log_pages'[LogLimit].address = n
  BY <1>2 DEF NewRandomLog
<1>11. RandomLogBlocks' = (RandomLogBlocks \ {v}) \cup {n}
  <2>1. ASSUME NEW i \in 1 .. LogLimit
        PROVE  log_pages'[i].address \in (RandomLogBlocks \ {v}) \cup {n}
    <3>1. CASE i = LogLimit
      BY <1>10, <3>1
    <3>2. CASE i # LogLimit
      <4>1. log_pages'[i].address = log_pages[i + 1].address /\ i + 1 \in 1 .. LogLimit /\ i + 1 # 1
        BY <1>5, <1>10, <3>2
      <4> QED
        BY <1>3, <1>4, <1>5, <1>6, <4>1
    <3> QED
      BY <3>1, <3>2
  <2>2. ASSUME NEW i \in 1 .. LogLimit, log_pages[i].address # v
        PROVE  \E j \in 1 .. LogLimit : log_pages'[j].address = log_pages[i].address
    <3>1. i # 1
      BY <1>3, <2>2
    <3>2. log_pages'[i - 1].address = log_pages[i].address /\ i - 1 \in 1 .. LogLimit
      BY <1>5, <1>10, <3>1
    <3> QED
      BY <3>2
  <2>3. RandomLogBlocks' \subseteq (RandomLogBlocks \ {v}) \cup {n}
    BY <2>1 DEF RandomLogBlocks, LogLimit
  <2>4. n \in RandomLogBlocks'
    BY <1>5, <1>10 DEF RandomLogBlocks, LogLimit
  <2>5. RandomLogBlocks \ {v} \subseteq RandomLogBlocks'
    BY <2>2 DEF RandomLogBlocks, LogLimit
  <2> QED
    BY <2>3, <2>4, <2>5
<1>12. DataBlocks' = DataBlocks /\ SequentialBlocks' = SequentialBlocks
  BY <1>2 DEF DataBlocks, SequentialBlocks
<1>13. Taken' = R \cup {n}
  BY <1>6, <1>11, <1>12 DEF Taken
<1>14. Managed(Memory', Taken')
  BY <1>2, <1>8, <1>13, ManagedNext
<1>15. Pool(bm') \cup Taken' = Pool(bm) \cup Taken
  BY <1>2, <1>6, <1>7, <1>8, <1>13
<1>16. Distinct'
  <2>1. ASSUME NEW i \in 1 .. LogLimit, NEW j \in 1 .. LogLimit,
               log_pages'[i].address = log_pages'[j].address
        PROVE  i = j
    <3>1. ASSUME NEW k \in 1 .. LogLimit, k # LogLimit
          PROVE  /\ log_pages'[k].address = log_pages[k + 1].address /\ k + 1 \in 1 .. LogLimit
                 /\ log_pages'[k].address # n /\ k \in Nat
      <4>1. log_pages'[k].address = log_pages[k + 1].address /\ k + 1 \in 1 .. LogLimit /\ k + 1 # 1
        BY <1>5, <1>10, <3>1
      <4>2. log_pages[k + 1].address # v
        BY <1>3, <1>5, <1>6, <4>1
      <4> QED
        BY <1>4, <1>8, <4>1, <4>2
    <3>2. CASE i # LogLimit /\ j # LogLimit
      <4>1. i + 1 = j + 1
        BY <1>6, <2>1, <3>1, <3>2
      <4> QED
        BY <4>1, <3>1, <3>2
    <3>3. CASE i = LogLimit \/ j = LogLimit
      BY <1>10, <2>1, <3>1, <3>3
    <3> QED
      BY <3>2, <3>3
  <2>2. n \notin DataBlocks /\ n \notin SequentialBlocks
    BY <1>4, <1>6, <1>8
  <2> QED
    BY <1>1, <1>2, <1>6, <1>11, <1>12, <2>1, <2>2 DEF Distinct, FastOwners
<1>17. FastOwners'
  BY <1>1, <1>14, <1>15, <1>16 DEF FastOwners
<1>18. DataCounted'
  BY <1>2, <1>12 DEF DataCounted, FastRegular
<1>19. \A d \in DataBlocks \cup SequentialBlocks, q \in PageNo : Follows(flash'[d][q], flash[d][q])
  BY <1>4, <1>6, <1>9 DEF Follows
<1>20. DataRight'
  <2>1. \A d \in DataBlocks, q \in PageNo : Follows(flash'[d][q], flash[d][q])
    BY <1>19
  <2> QED
    BY <1>2, <2>1, DataKept DEF DataRight, FastRegular
<1>21. SequentialRight'
  BY <1>2, <1>4, <1>12, <1>19, SequentialKept DEF FastRegular
<1>22. \A i \in 1 .. LogLimit, p \in PageNo :
         /\ p >= log_pages'[i].numPages => flash'[log_pages'[i].address][p] = EMPTY
         /\ flash'[log_pages'[i].address][p] \in LPN =>
              log_pages'[i].aPages[p] \in {-1, flash'[log_pages'[i].address][p]}
  <2> SUFFICES ASSUME NEW i \in 1 .. LogLimit, NEW p \in PageNo
               PROVE  /\ p >= log_pages'[i].numPages => flash'[log_pages'[i].address][p] = EMPTY
                      /\ flash'[log_pages'[i].address][p] \in LPN =>
                           log_pages'[i].aPages[p] \in {-1, flash'[log_pages'[i].address][p]}
    OBVIOUS
  <2>1. CASE i = LogLimit
    <3>1. flash'[log_pages'[i].address][p] = EMPTY
      BY <1>2, <1>8, <1>10, <2>1 DEF Erased
    <3> QED
      BY <3>1, MarksAreNoPages
  <2>2. CASE i # LogLimit
    <3>1. log_pages'[i] = log_pages[i + 1] /\ i + 1 \in 1 .. LogLimit /\ i + 1 # 1
      BY <1>2, <1>5, <2>2
    <3>2. log_pages[i + 1].address # v
      BY <1>3, <1>5, <1>6, <3>1
    <3>3. flash'[log_pages[i + 1].address] = flash[log_pages[i + 1].address]
      BY <1>4, <1>9, <3>1, <3>2
    <3> QED
      BY <3>1, <3>3 DEF FastRegular, LogsRight
  <2> QED
    BY <2>1, <2>2
<1>23. LogsRight'
  BY <1>22 DEF LogsRight
<1>24. LoggedHasData'
  <2>1. ASSUME NEW i \in 1 .. LogLimit, NEW p \in PageNo, log_pages'[i].aPages[p] # -1
        PROVE  data_list[LbaOf(log_pages'[i].aPages[p])] # NULL
    <3>1. i # LogLimit
      BY <1>2, <2>1 DEF NewRandomLog
    <3>2. log_pages'[i] = log_pages[i + 1] /\ i + 1 \in 1 .. LogLimit
      BY <1>2, <1>5, <3>1
    <3> QED
      BY <2>1, <3>2 DEF FastRegular, LoggedHasData, LogLimit
  <2> QED
    BY <1>2, <2>1 DEF LoggedHasData, LogLimit
<1> QED
  BY <1>17, <1>18, <1>20, <1>21, <1>23, <1>24 DEF FastRegular

(* A trim leaves no page in a wrong place, and no data in it.                *)
LEMMA TrimPlaced ==
  ASSUME FastTypeOK, PagesPlaced, NEW l \in LPN, FastTrim(l)
  PROVE  PagesPlaced'
<1>1. PICK b \in Block, p \in PageNo : TrimPage(l, b, p)
  BY TrimIs
<1>2. \A d \in Block, q \in PageNo : flash'[d][q] \in {flash[d][q], INVALID, EMPTY}
  BY <1>1, TrimPageEffect
<1>3. \A d \in Block, q \in PageNo : flash'[d][q] \in LPN => flash'[d][q] = flash[d][q]
  BY <1>2, MarksAreNoPages
<1>4. ASSUME NEW d \in Block, NEW a, InPlaceFrom1(flash[d], a)
      PROVE  InPlaceFrom1(flash'[d], a)
  BY <1>3, <1>4 DEF InPlaceFrom1
<1>5. ASSUME NEW a \in LBA, data_list'[a] # NULL
      PROVE  InPlaceFrom1(flash'[data_list'[a]], a)
  <2>1. data_list'[a] = data_list[a]
    BY <1>5, TrimIs DEF FastTypeOK
  <2>2. data_list[a] \in Block /\ InPlaceFrom1(flash[data_list[a]], a)
    BY <1>5, <2>1, FastTypes DEF PagesPlaced
  <2> QED
    BY <1>4, <2>1, <2>2
<1>6. ASSUME sequential'.lba # NULL
      PROVE  InPlaceFrom1(flash'[sequential'.address], sequential'.lba)
  <2>1. sequential' = sequential
    BY <1>6, TrimIs DEF FastTypeOK
  <2>2. sequential.address \in Block /\ InPlaceFrom1(flash[sequential.address], sequential.lba)
    BY <1>6, <2>1, FastTypes DEF PagesPlaced
  <2> QED
    BY <1>4, <2>1, <2>2
<1>7. ASSUME NEW i \in 1 .. LogLimit, NEW p1 \in PageNo,
             flash'[log_pages'[i].address][p1] \in LPN
      PROVE  log_pages'[i].aPages[p1] \in {-1, flash'[log_pages'[i].address][p1]}
  <2>1. /\ log_pages'[i].address = log_pages[i].address /\ log_pages[i].address \in Block
        /\ log_pages'[i].aPages[p1] \in {-1, log_pages[i].aPages[p1]}
    BY TrimIs, FastTypes
  <2>2. flash'[log_pages'[i].address][p1] = flash[log_pages[i].address][p1]
    BY <1>3, <1>7, <2>1
  <2>3. log_pages[i].aPages[p1] \in {-1, flash[log_pages[i].address][p1]}
    BY <1>7, <2>2 DEF PagesPlaced, LogLimit
  <2> QED
    BY <2>1, <2>2, <2>3
<1> QED
  BY <1>5, <1>6, <1>7 DEF PagesPlaced, LogLimit

(* A trim that takes no block away.                                         *)
LEMMA TrimManaged ==
  ASSUME FastTypeOK, FastOwners, NEW l, NEW b \in Taken, NEW p \in PageNo,
         TrimPage(l, b, p), bm'.log_active = bm.log_active
  PROVE  /\ Managed(Memory', Taken) /\ Pool(bm') = Pool(bm) /\ ~Empties(b, p)
         /\ bm'.data_active = bm.data_active
         /\ flash'[b][p] = INVALID
         /\ \A d \in Taken, q \in PageNo : d # b \/ q # p => flash'[d][q] = flash[d][q]
<1>1. /\ Taken \subseteq Block /\ Managed(Memory, Taken) /\ Memory \in Memories
      /\ flash \in [Block -> Pages] /\ bm \in Manager /\ bm.log_active \in Int
      /\ Memory.bm = bm /\ Memory.flash = flash
  BY Owners, FastTypes DEF Manager
<1> DEFINE m == PageInvalidated(b, p)
<1>2. ~Empties(b, p)
  <2>1. b \in Block
    BY <1>1
  <2>2. Empties(b, p) => bm'.log_active = bm.log_active - 1
    BY <2>1, TrimPageEffect
  <2> QED
    BY <1>1, <2>2
<1>3. /\ m \in Memories /\ bm' = Collected(m).bm /\ flash' = Collected(m).flash
      /\ bm'.data_active = bm.data_active
  BY <1>1, <1>2, TrimPageEffect
<1>4. /\ m.bm = bm /\ m.flash = [flash EXCEPT ![b][p] = INVALID]
  BY DEF PageInvalidated, invalidate_page
<1>5. /\ m.flash[b][p] = INVALID
      /\ \A d \in Block, q \in PageNo : d # b \/ q # p => m.flash[d][q] = flash[d][q]
      /\ \A d \in Block : d # b => m.flash[d] = flash[d]
  <2>1. b \in Block /\ flash[b] \in Pages
    BY <1>1
  <2>2. m.flash[b] = [flash[b] EXCEPT ![p] = INVALID] /\ \A d \in Block : d # b => m.flash[d] = flash[d]
    BY <1>1, <1>4, <2>1
  <2> QED
    BY <2>1, <2>2 DEF Pages
<1> HIDE DEF m
<1>6. Managed(m, Taken)
  <2>1. \A d \in FreeBlocks(bm) : d \in Block /\ d # b
    BY <1>1, ManagedFree
  <2>2. \A d \in FreeBlocks(bm) : m.flash[d] = Erased
    BY <1>1, <1>5, <2>1 DEF Managed
  <2> QED
    BY <1>1, <1>4, <2>2 DEF Managed
<1>7. Managed(Collected(m), Taken) /\ Pool(Collected(m).bm) = Pool(m.bm)
  BY <1>3, <1>6, CollectedManaged
<1>8. Managed(Memory', Taken) /\ Pool(bm') = Pool(bm)
  BY <1>3, <1>4, <1>7, ManagedNext
<1>9. \A d \in Taken : flash'[d] = m.flash[d]
  <2>1. \A d \in Taken : d \in Block \ Blocks(m.bm.invalid_list)
    BY <1>1, <1>3, <1>6, ManagedFree
  <2> QED
    BY <1>3, <2>1, CollectedTyped
<1> QED
  BY <1>1, <1>2, <1>3, <1>5, <1>8, <1>9

LEMMA TrimRegular ==
  ASSUME FastBase, FastRegular, NEW l \in LPN, FastTrim(l), bm'.log_active = bm.log_active
  PROVE  FastRegular'
<1>1. FastTypeOK /\ FastOwners
  BY DEF FastBase, FastRegular
<1>2. pc = "idle" /\ UNCHANGED <<log_page_next, pc, lpn, mergeBlocks>>
  BY <1>1, TrimIs
<1>3. /\ Taken \subseteq Block /\ DataBlocks \subseteq Taken /\ RandomLogBlocks \subseteq Taken
      /\ SequentialBlocks \subseteq Taken
      /\ \A a \in LBA : data_list[a] # NULL => data_list[a] \in DataBlocks
      /\ \A i \in 1 .. LogLimit : log_pages[i].address \in RandomLogBlocks
      /\ sequential.lba # NULL =>
           SequentialBlocks = {sequential.address} /\ sequential.address \in Block
      /\ \A i, j \in 1 .. LogLimit : log_pages[i].address = log_pages[j].address => i = j
      /\ SequentialBlocks \cap (DataBlocks \cup RandomLogBlocks) = {}
      /\ DataBlocks \cap RandomLogBlocks = {}
  BY <1>1, <1>2, Owners DEF FastOwners, Distinct
<1>4. DataRight' /\ (LogsRight /\ DataRight /\ SequentialRight => PagesPlaced')
  <2>1. PagesPlaced
    BY FastRightMeans DEF FastRegular
  <2>2. PagesPlaced'
    BY <1>1, <2>1, TrimPlaced
  <2> QED
    BY <2>2 DEF PagesPlaced, DataRight
<1>5. PagesPlaced'
  BY <1>4 DEF FastRegular
<1>6. ASSUME UNCHANGED <<data_list, sequential>>,
             \A k \in 1 .. LogLimit :
               /\ log_pages'[k].address = log_pages[k].address
               /\ log_pages'[k].numPages = log_pages[k].numPages
               /\ \A q \in PageNo : log_pages'[k].aPages[q] \in {-1, log_pages[k].aPages[q]},
             NEW b \in Taken, NEW p \in PageNo, TrimPage(l, b, p),
             \A i \in 1 .. LogLimit : log_pages[i].address = b => p < log_pages[i].numPages,
             b \in SequentialBlocks => p < sequential.offset
      PROVE  FastRegular'
  <2>1. /\ Managed(Memory', Taken) /\ Pool(bm') = Pool(bm)
        /\ bm'.data_active = bm.data_active
        /\ flash'[b][p] = INVALID
        /\ \A d \in Taken, q \in PageNo : d # b \/ q # p => flash'[d][q] = flash[d][q]
    BY <1>1, <1>6, TrimManaged
  <2>2. SequentialBlocks' = SequentialBlocks
    BY <1>2, <1>6 DEF SequentialBlocks
  <2>3. FastOwners' /\ DataCounted'
    BY <1>6, <2>1, <2>2, OwnersKept DEF FastRegular
  <2>4. LogsRight'
    <3> SUFFICES ASSUME NEW i \in 1 .. LogLimit, NEW q \in PageNo
                 PROVE  /\ q >= log_pages'[i].numPages => flash'[log_pages'[i].address][q] = EMPTY
                        /\ flash'[log_pages'[i].address][q] \in LPN =>
                             log_pages'[i].aPages[q] \in {-1, flash'[log_pages'[i].address][q]}
      BY DEF LogsRight
    <3>1. flash'[log_pages'[i].address][q] \in LPN =>
             log_pages'[i].aPages[q] \in {-1, flash'[log_pages'[i].address][q]}
      BY <1>5 DEF PagesPlaced, LogLimit
    <3>2. ASSUME q >= log_pages[i].numPages
          PROVE  flash'[log_pages[i].address][q] = EMPTY
      <4>1. flash[log_pages[i].address][q] = EMPTY
        BY <3>2 DEF FastRegular, LogsRight
      <4>2. log_pages[i].address = b => q # p
        <5>1. log_pages[i].numPages \in Int /\ q \in Int /\ p \in Int
          BY <1>1, FastTypes, FastConstants DEF PageNo
        <5> QED
          BY <1>6, <3>2, <5>1
      <4> QED
        BY <1>3, <2>1, <4>1, <4>2
    <3> QED
      BY <1>6, <3>1, <3>2
  <2>5. SequentialRight'
    <3>1. sequential'.lba = NULL => sequential'.offset = 0
      BY <1>6 DEF FastRegular, SequentialRight
    <3>2. ASSUME NEW d \in SequentialBlocks, NEW q \in PageNo
          PROVE  flash'[d][q] = EMPTY <=> q >= sequential.offset
      <4>1. flash[d][q] = EMPTY <=> q >= sequential.offset
        BY DEF FastRegular, SequentialRight
      <4>2. CASE d = b /\ q = p
        <5>1. sequential.offset \in Int /\ q \in Int
          BY <1>1, FastConstants DEF FastTypeOK, PageNo
        <5>2. q < sequential.offset
          BY <1>6, <4>2
        <5>3. flash'[d][q] # EMPTY
          BY <2>1, <4>2, MarksDiffer
        <5> QED
          BY <5>1, <5>2, <5>3
      <4>3. CASE d # b \/ q # p
        BY <1>3, <2>1, <4>1, <4>3
      <4> QED
        BY <4>2, <4>3
    <3> QED
      BY <1>5, <1>6, <2>2, <3>1, <3>2 DEF SequentialRight, PagesPlaced
  <2>6. LoggedHasData'
    BY <1>1, <1>2, <1>6, LoggedKept DEF FastRegular
  <2> QED
    BY <1>4, <2>3, <2>4, <2>5, <2>6 DEF FastRegular
<1>7. CASE TrimInLog(l)
  <2>1. PICK i \in 1 .. LogLimit, p \in PageNo :
           /\ log_pages[i].address \in Block
           /\ p < log_pages[i].numPages /\ log_pages[i].aPages[p] = l
           /\ TrimPage(l, log_pages[i].address, p)
           /\ \A k \in 1 .. LogLimit :
                /\ log_pages'[k].address = log_pages[k].address
                /\ log_pages'[k].numPages = log_pages[k].numPages
                /\ \A q \in PageNo : log_pages'[k].aPages[q] \in {-1, log_pages[k].aPages[q]}
           /\ data_list' = IF Empties(log_pages[i].address, p)
                             THEN [data_list EXCEPT ![LbaOf(l)] = NULL] ELSE data_list
           /\ UNCHANGED sequential
    BY <1>1, <1>7, TrimInLogIs
  <2>2. log_pages[i].address \in Taken /\ log_pages[i].address \notin SequentialBlocks
    BY <1>3
  <2>3. ~Empties(log_pages[i].address, p)
    BY <1>1, <2>1, <2>2, TrimManaged
  <2>4. \A k \in 1 .. LogLimit : log_pages[k].address = log_pages[i].address =>
          p < log_pages[k].numPages
    BY <1>3, <2>1
  <2> QED
    BY <1>6, <2>1, <2>2, <2>3, <2>4
<1>8. CASE TrimInSequential(l)
  <2>1. /\ sequential.lba # NULL /\ OffsetOf(l) \in PageNo /\ OffsetOf(l) < sequential.offset
        /\ TrimPage(l, sequential.address, OffsetOf(l))
        /\ sequential' = IF Empties(sequential.address, OffsetOf(l))
                           THEN [sequential EXCEPT !.lba = NULL] ELSE sequential
        /\ UNCHANGED <<log_pages, data_list>>
    BY <1>1, <1>8, TrimInSequentialIs
  <2>2. sequential.address \in Taken /\ sequential.address \notin RandomLogBlocks
    BY <1>3, <2>1
  <2>3. ~Empties(sequential.address, OffsetOf(l))
    BY <1>1, <2>1, <2>2, TrimManaged
  <2>4. \A k \in 1 .. LogLimit : log_pages[k].address # sequential.address
    BY <1>3, <2>2
  <2> QED
    BY <1>6, <2>1, <2>2, <2>3, <2>4
<1>9. CASE TrimInData(l)
  <2>1. /\ LbaOf(l) \in LBA /\ data_list[LbaOf(l)] \in Block /\ OffsetOf(l) \in PageNo
        /\ TrimPage(l, data_list[LbaOf(l)], OffsetOf(l))
        /\ data_list' = IF Empties(data_list[LbaOf(l)], OffsetOf(l))
                          THEN [data_list EXCEPT ![LbaOf(l)] = NULL] ELSE data_list
        /\ UNCHANGED <<log_pages, sequential>>
    BY <1>1, <1>9, TrimInDataIs
  <2>2. data_list[LbaOf(l)] \in Taken /\ data_list[LbaOf(l)] \in DataBlocks
    BY <1>3, <2>1, FastConstants
  <2>3. ~Empties(data_list[LbaOf(l)], OffsetOf(l))
    BY <1>1, <2>1, <2>2, TrimManaged
  <2>4. /\ \A k \in 1 .. LogLimit : log_pages[k].address # data_list[LbaOf(l)]
        /\ data_list[LbaOf(l)] \notin SequentialBlocks
    BY <1>3, <2>2
  <2> QED
    BY <1>6, <2>1, <2>2, <2>3, <2>4
<1> QED
  BY <1>7, <1>8, <1>9 DEF FastTrim

-----------------------------------------------------------------------------
(* The invariant of FAST.                                                  *)

FastParts ==
  /\ FastBase
  /\ Regular => FastRegular
  /\ Disposals = 0 => PagesPlaced

LEMMA FastInvariantParts == FastIInv <=> FastParts
BY FastOwnersMean, FastRightMeans
DEF FastIInv, FastParts, FastBase, FastRegular, CountersMatchLists, DataCounted, Regular,
    LogLimit

LEMMA FastInvariantPartsNext == FastIInv' <=> FastParts'
BY FastInvariantParts, PTL

LEMMA FastInitInvariant == FastInit => FastIInv
<1> SUFFICES ASSUME FastInit PROVE FastParts
  BY FastInvariantParts
<1>1. FastBase /\ FastTypeOK
  BY FastInitBase DEF FastBase
<1>2. PICK first \in FIRST_FREE :
        /\ bm = [NewManager(first + FAST_LOG_PAGE_LIMIT)
                   EXCEPT !.log_active = FAST_LOG_PAGE_LIMIT]
        /\ log_pages = [i \in 1 .. FAST_LOG_PAGE_LIMIT |-> NewRandomLog(first + i - 1)]
  BY DEF FastInit
<1>3. /\ LogLimit \in Nat /\ LogLimit >= 2 /\ NUM_BLOCKS \in Nat
      /\ first \in 0 .. NUM_BLOCKS - LogLimit
  BY FastConstants, FASTAssumption, NandAssumption DEF LogLimit
<1>4. /\ bm.simpleCurrentFree = first + LogLimit /\ bm.free_list = <<>>
      /\ bm.invalid_list = <<>> /\ bm.data_active = 0
  BY <1>2 DEF NewManager, LogLimit
<1>5. \A i \in 1 .. LogLimit :
        /\ log_pages[i].address = first + i - 1 /\ log_pages[i].numPages = 0
        /\ \A p \in PageNo : log_pages[i].aPages[p] = -1
  BY <1>2 DEF NewRandomLog, LogLimit
<1>6. /\ flash = [b \in Block |-> Erased] /\ data_list = [a \in LBA |-> NULL]
      /\ sequential.lba = NULL /\ sequential.offset = 0 /\ mergeBlocks = {}
  BY DEF FastInit
<1>7. DataBlocks = {} /\ SequentialBlocks = {}
  BY <1>6 DEF DataBlocks, SequentialBlocks
<1>8. RandomLogBlocks = first .. first + LogLimit - 1
  <2>1. \A i \in 1 .. LogLimit : log_pages[i].address \in first .. first + LogLimit - 1
    BY <1>3, <1>5
  <2>2. ASSUME NEW b \in first .. first + LogLimit - 1
        PROVE  \E i \in 1 .. LogLimit : log_pages[i].address = b
    <3>1. b - first + 1 \in 1 .. LogLimit /\ first + (b - first + 1) - 1 = b
      BY <1>3
    <3> QED
      BY <1>5, <3>1
  <2> QED
    BY <2>1, <2>2 DEF RandomLogBlocks, LogLimit
<1>9. /\ FreeBlocks(bm) = (first + LogLimit) .. NUM_BLOCKS - 1
      /\ Pool(bm) = (first + LogLimit) .. NUM_BLOCKS - 1
  BY <1>4 DEF FreeBlocks, Pool, Blocks
<1>10. Taken = first .. first + LogLimit - 1
  BY <1>7, <1>8 DEF Taken
<1>11. AllBlocks(Pool(bm) \cup Taken)
  <2>1. Pool(bm) \cup Taken = first .. NUM_BLOCKS - 1
    BY <1>3, <1>9, <1>10
  <2> QED
    BY <2>1 DEF AllBlocks
<1>12. Managed(Memory, Taken)
  <2>1. Memory.bm = bm /\ Memory.flash = flash
    BY DEF Memory
  <2>2. HandsOutOnce(bm) /\ NoRepeat(bm.invalid_list) /\ Blocks(bm.invalid_list) = {}
    BY <1>4 DEF HandsOutOnce, NoRepeat, Blocks
  <2>3. Pool(bm) \cap Taken = {}
    BY <1>3, <1>9, <1>10
  <2>4. \A b \in FreeBlocks(bm) : flash[b] = Erased
    BY <1>3, <1>6, <1>9 DEF Block
  <2> QED
    BY <2>1, <2>2, <2>3, <2>4 DEF Managed
<1>13. Distinct
  BY <1>3, <1>5, <1>6, <1>7 DEF Distinct
<1>14. \A b \in Block, p \in PageNo : flash[b][p] = EMPTY
  BY <1>6 DEF Erased
<1>15. LogsRight
  BY <1>1, <1>14, FastTypes, MarksAreNoPages DEF LogsRight
<1>16. DataRight /\ SequentialRight /\ LoggedHasData
  BY <1>5, <1>6, <1>7 DEF DataRight, SequentialRight, LoggedHasData, LogLimit
<1>17. DataCounted
  BY <1>4, <1>7, FS_EmptySet DEF DataCounted
<1>18. FastRegular
  BY <1>11, <1>12, <1>13, <1>15, <1>16, <1>17 DEF FastRegular, FastOwners
<1> QED
  BY <1>1, <1>18, FastRightMeans DEF FastParts, FastRegular

(* A step from a state in which all is regular: only a trim that takes a     *)
(* block away, and an assertion that fails, lead to one in which it is not.  *)
LEMMA RegularStep ==
  ASSUME FastBase, FastRegular, FastNext
  PROVE  /\ PagesPlaced'
         /\ pc' # "aborted" /\ bm'.log_active = bm.log_active => FastRegular'
<1>1. PagesPlaced /\ FastTypeOK
  BY FastRightMeans DEF FastRegular, FastBase
<1>2. FastRegular' => PagesPlaced'
  BY FastRightNext DEF FastRegular
<1>3. CASE FastAbort
  <2>1. UNCHANGED <<flash, data_list, log_pages, sequential>> /\ pc' = "aborted"
    BY <1>3 DEF FastAbort
  <2> QED
    BY <1>1, <2>1 DEF PagesPlaced
<1>4. ASSUME NEW l \in TRIMMED, FastTrim(l)
      PROVE  /\ PagesPlaced'
             /\ pc' # "aborted" /\ bm'.log_active = bm.log_active => FastRegular'
  <2>1. l \in LPN
    BY FASTAssumption
  <2> QED
    BY <1>1, <1>4, <2>1, TrimPlaced, TrimRegular
<1>5. ASSUME NEW l \in WRITTEN, FastWriteStart(l) PROVE FastRegular'
  BY <1>5, WriteStartRegular
<1>6. ASSUME NEW a \in mergeBlocks, MergeLogicalBlock(a) PROVE FastRegular'
  BY <1>6, MergeLogicalBlockRegular
<1> QED
  BY <1>2, <1>3, <1>4, <1>5, <1>6, WriteInPlaceRegular, AppendSequentialRegular,
     SwitchSequentialRegular, MergeSequentialRegular, StartSequentialRegular,
     StartRandomMergeRegular, ReplaceVictimRegular, AppendRandomRegular
  DEF FastNext, Step

LEMMA FastStepInvariant == FastIInv /\ [FastNext]_fastvars => FastIInv'
<1> SUFFICES ASSUME FastParts, [FastNext]_fastvars PROVE FastParts'
  BY FastInvariantParts, FastInvariantPartsNext
<1>1. CASE FastNext
  <2>1. /\ FastBase /\ FastBase' /\ pc # "aborted" /\ bm'.log_active <= bm.log_active
        /\ bm.log_active \in Int /\ bm'.log_active \in Int
    BY <1>1, FastNextBase DEF FastParts, FastBase, FastTypeOK, Manager
  <2>2. CASE Disposals' = 0
    <3>1. LogLimit \in Nat /\ bm.log_active <= LogLimit
      BY FastConstants DEF FastParts, FastBase
    <3>2. bm'.log_active = bm.log_active /\ Disposals = 0
      BY <2>1, <2>2, <3>1 DEF Disposals, LogLimit
    <3>3. FastRegular
      BY <2>1, <3>2 DEF FastParts, Regular
    <3> QED
      BY <1>1, <2>1, <3>2, <3>3, RegularStep DEF FastParts, Regular
  <2>3. CASE Disposals' # 0
    BY <2>1, <2>3 DEF FastParts, Regular
  <2> QED
    BY <2>2, <2>3
<1>2. CASE UNCHANGED fastvars
  <2>1. FastBase'
    BY <1>2, FastUnchangedBase DEF FastParts
  <2>2. UNCHANGED <<flash, bm, data_list, log_pages, sequential, pc, mergeBlocks>>
    BY <1>2 DEF fastvars
  <2>3. (Regular' <=> Regular) /\ Disposals' = Disposals /\ (PagesPlaced' <=> PagesPlaced)
    BY <2>2 DEF Regular, Disposals, PagesPlaced
  <2>4. SequentialBlocks' = SequentialBlocks
    BY <2>2 DEF SequentialBlocks
  <2>5. FastRegular => FastRegular'
    <3> SUFFICES ASSUME FastRegular PROVE FastRegular'
      OBVIOUS
    <3>1. LoggedHasData'
      BY <2>2 DEF FastRegular, LoggedHasData
    <3> QED
      BY <2>2, <2>4, <3>1, NothingRegular DEF FastRegular, FastParts
  <2> QED
    BY <2>1, <2>3, <2>5 DEF FastParts
<1> QED
  BY <1>1, <1>2

(* Counting what is kept apart.                                            *)
LEMMA CountImage ==
  ASSUME NEW S, IsFiniteSet(S), NEW f, \A x, y \in S : f[x] = f[y] => x = y
  PROVE  /\ IsFiniteSet({f[x] : x \in S})
         /\ Cardinality({f[x] : x \in S}) = Cardinality(S)
<1> DEFINE T == {f[x] : x \in S}
           g == [x \in S |-> f[x]]
<1>1. g \in [S -> T] /\ \A x \in S : g[x] = f[x]
  OBVIOUS
<1>2. \A x, y \in S : g[x] = g[y] => x = y
  BY <1>1
<1>3. \A t \in T : \E x \in S : g[x] = t
  BY <1>1
<1>4. g \in Bijection(S, T)
  BY <1>1, <1>2, <1>3 DEF Bijection, Injection, Surjection, IsInjective
<1> QED
  BY <1>4, FS_Bijection DEF ExistsBijection

LEMMA CountList ==
  ASSUME NEW s \in Seq(Block), NoRepeat(s)
  PROVE  NoBlockTwice(s) /\ IsFiniteSet(Blocks(s))
<1>1. Len(s) \in Nat
  OBVIOUS
<1>2. IsFiniteSet(1 .. Len(s)) /\ Cardinality(1 .. Len(s)) = Len(s)
  BY <1>1, FS_Interval
<1>3. \A i, j \in 1 .. Len(s) : s[i] = s[j] => i = j
  BY DEF NoRepeat
<1>4. Cardinality(Blocks(s)) = Cardinality(1 .. Len(s)) /\ IsFiniteSet(Blocks(s))
  BY <1>2, <1>3, CountImage DEF Blocks
<1> QED
  BY <1>2, <1>4 DEF NoBlockTwice

LEMMA CountUnion ==
  ASSUME NEW S, IsFiniteSet(S), NEW T, IsFiniteSet(T), S \cap T = {}
  PROVE  /\ IsFiniteSet(S \cup T)
         /\ Cardinality(S \cup T) = Cardinality(S) + Cardinality(T)
<1>1. /\ IsFiniteSet(S \cup T)
      /\ Cardinality(S \cup T) = Cardinality(S) + Cardinality(T) - Cardinality(S \cap T)
  BY FS_Union
<1>2. Cardinality(S \cap T) = 0 /\ Cardinality(S) \in Nat /\ Cardinality(T) \in Nat
  BY FS_EmptySet, FS_CardinalityType
<1> QED
  BY <1>1, <1>2

(* The invariant says of the owners what FastEveryBlockOnce says.            *)
LEMMA FastOnceFromOwners ==
  ASSUME FastTypeOK, FastOwners
  PROVE  FastEveryBlockOnce
<1>1. /\ Taken \subseteq Block /\ Managed(Memory, Taken) /\ Memory.bm = bm
      /\ Memory.flash = flash /\ bm \in Manager
      /\ IsFiniteSet(DataBlocks) /\ Distinct
      /\ DataBlocks \subseteq Taken /\ RandomLogBlocks \subseteq Taken
      /\ SequentialBlocks \subseteq Taken
  BY Owners, FastTypes DEF FastOwners
<1>2. HandsOutOnce(bm) /\ NoRepeat(bm.invalid_list) /\ bm.invalid_list \in Seq(Block)
  BY <1>1 DEF Managed, Manager
<1>3. /\ NoBlockTwice(bm.free_list) /\ NoBlockTwice(bm.invalid_list)
      /\ IsFiniteSet(InvalidBlocks)
  BY <1>1, <1>2, NothingTwice, CountList DEF InvalidBlocks
<1>4. \A b \in FreeBlocks(bm) : flash[b] = Erased
  BY <1>1 DEF Managed
<1>5. Cardinality(DataBlocks) = Cardinality({a \in LBA : data_list[a] # NULL})
  <2> DEFINE A == {a \in LBA : data_list[a] # NULL}
  <2>1. IsFiniteSet(LBA)
    <3>1. (NUM_LPN - 1) \div BLOCK_SIZE \in Int
      <4>1. NUM_LPN - 1 \in Nat
        BY NandAssumption, FastConstants
      <4>2. PICK q \in Nat : (NUM_LPN - 1) \div BLOCK_SIZE = q
        BY <4>1, Division
      <4> QED
        BY <4>2
    <3> QED
      BY <3>1, FS_Interval DEF LBA
  <2>2. IsFiniteSet(A)
    BY <2>1, FS_Subset
  <2>3. \A x, y \in A : data_list[x] = data_list[y] => x = y
    BY <1>1 DEF Distinct
  <2>4. DataBlocks = {data_list[a] : a \in A}
    BY DEF DataBlocks
  <2> QED
    BY <2>2, <2>3, <2>4, CountImage
<1>6. Cardinality(RandomLogBlocks) = LogLimit /\ IsFiniteSet(RandomLogBlocks)
  <2> DEFINE f == [i \in 1 .. LogLimit |-> log_pages[i].address]
  <2>1. IsFiniteSet(1 .. LogLimit) /\ Cardinality(1 .. LogLimit) = LogLimit
    BY FS_Interval, FastConstants
  <2>2. \A i \in 1 .. LogLimit : f[i] = log_pages[i].address
    OBVIOUS
  <2>3. \A i, j \in 1 .. LogLimit : f[i] = f[j] => i = j
    BY <1>1 DEF Distinct
  <2>4. RandomLogBlocks = {f[i] : i \in 1 .. LogLimit}
    BY <2>2 DEF RandomLogBlocks, LogLimit
  <2> DEFINE S == 1 .. LogLimit
  <2> HIDE DEF f, S
  <2>5. IsFiniteSet(S) /\ \A i, j \in S : f[i] = f[j] => i = j
    BY <2>1, <2>3 DEF S
  <2>6. IsFiniteSet({f[i] : i \in S}) /\ Cardinality({f[i] : i \in S}) = Cardinality(S)
    BY <2>5, CountImage
  <2> QED
    BY <2>1, <2>4, <2>6 DEF S
<1>7. IsFiniteSet(SequentialBlocks)
  BY FS_EmptySet, FS_Singleton DEF SequentialBlocks
<1>8. Cardinality(Used) = Cardinality(DataBlocks) + Cardinality(RandomLogBlocks)
                            + Cardinality(SequentialBlocks) + Cardinality(InvalidBlocks)
  <2>1. /\ DataBlocks \cap RandomLogBlocks = {}
        /\ (DataBlocks \cup RandomLogBlocks) \cap SequentialBlocks = {}
    BY <1>1 DEF Distinct
  <2>2. (DataBlocks \cup RandomLogBlocks \cup SequentialBlocks) \cap InvalidBlocks = {}
    BY <1>1 DEF Managed, Pool, Taken, InvalidBlocks
  <2>3. /\ IsFiniteSet(DataBlocks \cup RandomLogBlocks)
        /\ Cardinality(DataBlocks \cup RandomLogBlocks)
             = Cardinality(DataBlocks) + Cardinality(RandomLogBlocks)
    BY <1>1, <1>6, <2>1, CountUnion
  <2>4. /\ IsFiniteSet(DataBlocks \cup RandomLogBlocks \cup SequentialBlocks)
        /\ Cardinality(DataBlocks \cup RandomLogBlocks \cup SequentialBlocks)
             = Cardinality(DataBlocks \cup RandomLogBlocks) + Cardinality(SequentialBlocks)
    BY <1>7, <2>1, <2>3, CountUnion
  <2>5. Cardinality(DataBlocks \cup RandomLogBlocks \cup SequentialBlocks \cup InvalidBlocks)
          = Cardinality(DataBlocks \cup RandomLogBlocks \cup SequentialBlocks)
              + Cardinality(InvalidBlocks)
    BY <1>3, <2>2, <2>4, CountUnion
  <2> QED
    BY <2>3, <2>4, <2>5 DEF Used
<1>9. FreeBlocks(bm) \cap Used = {}
  BY <1>1 DEF Managed, Pool, Taken, Used, InvalidBlocks
<1>10. NUM_BLOCKS - Cardinality(FreeBlocks(bm) \cup Used) \in FIRST_FREE
  <2>1. PICK first \in FIRST_FREE : Pool(bm) \cup Taken = first .. NUM_BLOCKS - 1
    BY DEF FastOwners, AllBlocks
  <2>2. FreeBlocks(bm) \cup Used = first .. NUM_BLOCKS - 1
    BY <2>1 DEF Pool, Taken, Used, InvalidBlocks
  <2>3. first \in 0 .. NUM_BLOCKS /\ NUM_BLOCKS \in Nat
    BY BlockManagerAssumption, NandAssumption
  <2>4. Cardinality(first .. NUM_BLOCKS - 1)
          = IF first > NUM_BLOCKS - 1 THEN 0 ELSE NUM_BLOCKS - 1 - first + 1
    BY <2>3, FS_Interval
  <2>5. NUM_BLOCKS - Cardinality(first .. NUM_BLOCKS - 1) = first
    BY <2>3, <2>4
  <2> QED
    BY <2>2, <2>5
<1> QED
  BY <1>3, <1>4, <1>5, <1>6, <1>8, <1>9, <1>10 DEF FastEveryBlockOnce, LogLimit

-----------------------------------------------------------------------------
(* The theorems about FAST.                                                *)

(* Every behaviour keeps the invariant.                                     *)
THEOREM FastInvariant == FastSpec => []FastIInv
BY FastInitInvariant, FastStepInvariant, PTL DEF FastSpec

(* The types of the state.                                                 *)
THEOREM FastTypeCorrect == FastSpec => []FastTypeOK
<1>1. FastIInv => FastTypeOK
  BY DEF FastIInv
<1> QED
  BY <1>1, FastInvariant, PTL

(* As long as no trim has emptied a block and no assertion has failed, the    *)
(* FTL neither leaks a block nor gives it two owners when it switches, merges *)
(* and replaces log blocks, and is handed erased blocks only.                *)
THEOREM FastBlocksOwnedOnce == FastSpec => []FastEveryBlockOnce
<1>1. FastIInv => FastEveryBlockOnce
  <2>1. CASE Regular
    BY <2>1, FastInvariantParts, FastOnceFromOwners DEF FastParts, FastBase, FastRegular
  <2>2. CASE ~Regular
    BY <2>2 DEF FastEveryBlockOnce
  <2> QED
    BY <2>1, <2>2
<1> QED
  BY <1>1, FastInvariant, PTL

(* log_page_next says where the next random log page goes, and data_active is *)
(* the number of data blocks and of the sequential log block.               *)
THEOREM FastCountersRight == FastSpec => []CountersMatchLists
<1>1. FastIInv => CountersMatchLists
  BY DEF FastIInv
<1> QED
  BY <1>1, FastInvariant, PTL

(* A full block has no EMPTY page.                                          *)
LEMMA FullOfValid ==
  ASSUME NEW pages, get_pages_valid(pages) = BLOCK_SIZE, NEW p \in PageNo
  PROVE  pages[p] # EMPTY
<1> DEFINE V == {q \in PageNo : IsValid(pages[q])}
<1>1. IsFiniteSet(PageNo) /\ Cardinality(PageNo) = BLOCK_SIZE
  BY FS_Interval, FastConstants DEF PageNo
<1>2. V \subseteq PageNo /\ Cardinality(V) = BLOCK_SIZE
  BY DEF get_pages_valid
<1>3. V = PageNo
  BY <1>1, <1>2, FS_Subset
<1> QED
  BY <1>3 DEF IsValid

(* The sequential log block takes the write unless a page of it was trimmed.  *)
LEMMA SequentialPageFree ==
  ASSUME FastBase, FastRegular, ExtendsSequential,
         \A p \in PageNo : flash[sequential.address][p] # INVALID
  PROVE  MayProgram(Collected(Memory).flash, sequential.address, NextSequentialPage)
<1>1. FastTypeOK /\ FastOwners /\ pc = "write" /\ sequential.lba = Lba /\ Offset = sequential.offset
  BY DEF FastBase, FastRegular, ExtendsSequential, ToLog
<1> DEFINE b == sequential.address
           pages == flash[sequential.address]
<1>2. Lba \in LBA /\ Offset \in PageNo /\ sequential.lba # NULL
  BY <1>1, FastTypes, FastConstants
<1>3. SequentialBlocks = {b} /\ b \in Block /\ b \in Taken /\ Managed(Memory, Taken)
      /\ Memory \in Memories /\ Memory.bm = bm /\ Memory.flash = flash
  BY <1>1, <1>2, Owners, FastTypes
<1>4. \A q \in PageNo : pages[q] = EMPTY <=> q >= Offset
  BY <1>1, <1>3 DEF FastRegular, SequentialRight
<1>5. Collected(Memory).flash[b] = pages
  BY <1>3, CollectedTyped, ManagedFree
<1> HIDE DEF b, pages
<1>6. \A p, q \in PageNo : p < q /\ pages[p] = EMPTY => pages[q] = EMPTY
  BY <1>2, <1>4, FastConstants DEF PageNo
<1>7. get_pages_valid(pages) # BLOCK_SIZE
  <2>1. pages[Offset] = EMPTY
    BY <1>2, <1>4, FastConstants DEF PageNo
  <2> QED
    BY <1>2, <2>1, FullOfValid
<1>8. \A p \in PageNo : pages[p] # INVALID
  BY DEF pages
<1>9. get_free_page(pages) \in PageNo /\ pages[get_free_page(pages)] = EMPTY
  BY <1>6, <1>7, <1>8, NextPageInOrder
<1>10. NextSequentialPage = get_free_page(pages)
  BY DEF NextSequentialPage, pages
<1> QED
  BY <1>5, <1>9, <1>10 DEF MayProgram, b

LEMMA RandomPageFree ==
  ASSUME FastBase, FastRegular, ~LogFull
  PROVE  MayProgram(Collected(Memory).flash, log_pages[RandomLog].address, RandomPage)
<1>1. FastTypeOK /\ FastOwners /\ PagesInLog
  BY DEF FastBase, FastRegular
<1>2. /\ RandomLog \in 1 .. LogLimit /\ RandomPage \in PageNo
      /\ log_pages[RandomLog].numPages = RandomPage
  BY <1>1, RandomLogIs
<1> DEFINE b == log_pages[RandomLog].address
<1>3. /\ b \in Block /\ b \in Taken /\ Managed(Memory, Taken) /\ Memory \in Memories
      /\ Memory.bm = bm /\ Memory.flash = flash
  BY <1>1, <1>2, Owners, FastTypes
<1>4. Collected(Memory).flash[b] = flash[b]
  BY <1>3, CollectedTyped, ManagedFree
<1>5. flash[b][RandomPage] = EMPTY
  BY <1>2, FastConstants DEF FastRegular, LogsRight, PageNo
<1> QED
  BY <1>2, <1>4, <1>5 DEF MayProgram

(* As long as no trim has emptied a block every index is in bounds, and a     *)
(* page is programmed twice only in the sequential log block, behind a       *)
(* trimmed page.                                                           *)
THEOREM FastAbortsExplained == FastSpec => []AbortsOnlyAfterTrim
<1>1. FastIInv => AbortsOnlyAfterTrim
  <2> SUFFICES ASSUME FastParts, Disposals = 0
               PROVE  /\ ~OutOfBounds
                      /\ PageTaken => /\ ExtendsSequential
                                      /\ \E p \in PageNo : flash[sequential.address][p] = INVALID
    BY FastInvariantParts DEF AbortsOnlyAfterTrim
  <2>1. FastBase /\ FastTypeOK
    BY DEF FastParts, FastBase
  <2>2. ~OutOfBounds
    <3> SUFFICES ASSUME OutOfBounds PROVE FALSE
      OBVIOUS
    <3>1. pc # "aborted"
      BY DEF OutOfBounds, Switches, ReplacesSequential, ToLog
    <3>2. FastRegular
      BY <3>1 DEF FastParts, Regular
    <3>3. CASE Switches /\ sequential.lba = NULL
      BY <3>2, <3>3, FastConstants DEF Switches, FastRegular, SequentialRight
    <3>4. CASE pc = "merge" /\ \E a \in mergeBlocks : data_list[a] = NULL
      BY <3>2, <3>4 DEF FastRegular, LoggedHasData
    <3> QED
      BY <3>3, <3>4 DEF OutOfBounds
  <2>3. ASSUME PageTaken
        PROVE  ExtendsSequential /\ \E p \in PageNo : flash[sequential.address][p] = INVALID
    <3>1. pc # "aborted"
      BY <2>3 DEF PageTaken, ExtendsSequential, ToRandomLog, ToLog
    <3>2. FastRegular
      BY <3>1 DEF FastParts, Regular
    <3> QED
      BY <2>1, <2>3, <3>2, SequentialPageFree, RandomPageFree DEF PageTaken
  <2> QED
    BY <2>2, <2>3
<1> QED
  BY <1>1, FastInvariant, PTL

-----------------------------------------------------------------------------
(* Where the pages of a logical block are read.                             *)

LEMMA PlacedRead ==
  ASSUME FastTypeOK, PagesPlaced
  PROVE  MisplacedAtPageZero
<1> SUFFICES ASSUME NEW l \in LPN, OffsetOf(l) # 0, FastPageRead(l) \in LPN
             PROVE  FastPageRead(l) = l
  BY DEF MisplacedAtPageZero
<1>1. LbaOf(l) \in LBA /\ OffsetOf(l) \in PageNo \ {0}
  BY PositionType
<1>2. ASSUME NEW pages, InPlaceFrom1(pages, LbaOf(l)), FastPageRead(l) = pages[OffsetOf(l)]
      PROVE  FastPageRead(l) = l
  <2> DEFINE k == FastPageRead(l)
  <2>1. k \in LPN /\ pages[OffsetOf(l)] = k
    BY <1>2
  <2> HIDE DEF k
  <2>2. LbaOf(k) = LbaOf(l) /\ OffsetOf(k) = OffsetOf(l)
    BY <1>1, <1>2, <2>1 DEF InPlaceFrom1
  <2>3. k = l
    BY <2>1, <2>2, PositionUnique
  <2> QED
    BY <2>3 DEF k
<1>3. CASE LogPlaces(l) # {}
  <2> DEFINE x == FirstLogPlace(l)
  <2>1. /\ x[1] \in 1 .. LogLimit /\ x[2] \in PageNo
        /\ log_pages[x[1]].aPages[x[2]] = l
    BY <1>3, FirstLogPlaceIs
  <2>2. FastPageRead(l) = flash[log_pages[x[1]].address][x[2]]
    BY <1>3 DEF FastPageRead
  <2> HIDE DEF x
  <2>3. log_pages[x[1]].aPages[x[2]] \in {-1, flash[log_pages[x[1]].address][x[2]]}
    BY <2>1, <2>2 DEF PagesPlaced, LogLimit
  <2>4. l # -1
    BY DEF LPN
  <2> QED
    BY <2>1, <2>2, <2>3, <2>4
<1>4. CASE LogPlaces(l) = {} /\ InSequential(l)
  <2>1. FastPageRead(l) = flash[sequential.address][OffsetOf(l)]
    BY <1>4 DEF FastPageRead
  <2>2. InPlaceFrom1(flash[sequential.address], LbaOf(l))
    BY <1>1, <1>4, FastConstants DEF InSequential, PagesPlaced
  <2> QED
    BY <1>2, <2>1, <2>2
<1>5. CASE LogPlaces(l) = {} /\ ~InSequential(l) /\ data_list[LbaOf(l)] # NULL
  <2>1. FastPageRead(l) = flash[data_list[LbaOf(l)]][OffsetOf(l)]
    BY <1>5 DEF FastPageRead
  <2>2. InPlaceFrom1(flash[data_list[LbaOf(l)]], LbaOf(l))
    BY <1>1, <1>5 DEF PagesPlaced
  <2> QED
    BY <1>2, <2>1, <2>2
<1>6. CASE LogPlaces(l) = {} /\ ~InSequential(l) /\ data_list[LbaOf(l)] = NULL
  <2>1. FastPageRead(l) = EMPTY
    BY <1>6 DEF FastPageRead
  <2> QED
    BY <2>1, MarksAreNoPages
<1> QED
  BY <1>3, <1>4, <1>5, <1>6

LEMMA PlacedStep ==
  ASSUME FastIInv, FastNext, Disposals = 0
  PROVE  PagesPlaced'
<1>1. FastParts /\ pc # "aborted"
  BY FastInvariantParts, FastNextBase DEF FastParts
<1>2. FastBase /\ FastRegular
  BY <1>1 DEF FastParts, Regular
<1> QED
  BY <1>2, RegularStep

(* Until the first trim that empties a block, and by that trim, a wrong page  *)
(* of a logical block comes to be returned for its page 0 only.             *)
THEOREM FastMisplaced ==
  FastSpec => /\ [](Disposals = 0 => MisplacedAtPageZero)
              /\ [][Disposals = 0 => MisplacedAtPageZero']_fastvars
<1>1. FastIInv => (Disposals = 0 => MisplacedAtPageZero)
  BY PlacedRead DEF FastIInv
<1>2. FastTypeOK /\ PagesPlaced => MisplacedAtPageZero
  BY PlacedRead
<1>3. FastTypeOK' /\ PagesPlaced' => MisplacedAtPageZero'
  BY <1>2, PTL
<1>4. FastIInv /\ FastNext => (Disposals = 0 => MisplacedAtPageZero')
  <2> SUFFICES ASSUME FastIInv, FastNext, Disposals = 0 PROVE MisplacedAtPageZero'
    OBVIOUS
  <2>1. PagesPlaced'
    BY PlacedStep
  <2>2. FastIInv'
    BY FastStepInvariant
  <2> QED
    BY <1>3, <2>1, <2>2 DEF FastIInv
<1>5. FastIInv /\ [FastNext]_fastvars => [Disposals = 0 => MisplacedAtPageZero']_fastvars
  BY <1>4
<1> QED
  BY <1>1, <1>5, FastInvariant, PTL DEF FastSpec

(* When the host's calls end with the first trim that empties a block.       *)
FastPlaced == PagesPlaced /\ (Disposals # 0 => pc = "idle")

LEMMA FastPlacedStep ==
  ASSUME MAX_DISPOSED = 0, FastIInv, FastPlaced, [FastNext]_fastvars
  PROVE  FastPlaced'
<1>1. FastParts /\ FastBase /\ FastTypeOK /\ Disposals \in Nat
  <2>1. FastParts /\ FastBase /\ FastTypeOK
    BY FastInvariantParts DEF FastParts, FastBase
  <2>2. bm.log_active \in Int /\ bm.log_active <= LogLimit /\ LogLimit \in Nat
    BY <2>1, FastConstants DEF FastBase, FastTypeOK, Manager
  <2> QED
    BY <2>1, <2>2 DEF Disposals, LogLimit
<1>2. CASE UNCHANGED fastvars
  <2>1. UNCHANGED <<flash, bm, data_list, log_pages, sequential, pc>>
    BY <1>2 DEF fastvars
  <2> QED
    BY <2>1 DEF FastPlaced, PagesPlaced, Disposals
<1>3. CASE FastNext /\ Disposals = 0
  <2>1. PagesPlaced'
    BY <1>3, PlacedStep
  <2>2. ASSUME bm'.log_active # bm.log_active PROVE pc' = "idle"
    <3>1. ASSUME NEW l \in TRIMMED, FastTrim(l) PROVE pc' = "idle"
      <4>1. l \in LPN
        BY FASTAssumption
      <4> QED
        BY <1>1, <3>1, <4>1, TrimIs
    <3>2. ~ \E l \in WRITTEN : FastWriteStart(l)
      BY <1>1, <2>2, WriteStartBase
    <3>3. ~ \E a \in mergeBlocks : MergeLogicalBlock(a)
      BY <1>1, <2>2, MergeLogicalBlockBase
    <3> QED
      BY <1>1, <1>3, <2>2, <3>1, <3>2, <3>3, AbortBase, WriteInPlaceBase, AppendSequentialBase,
         SwitchSequentialBase, MergeSequentialBase, StartSequentialBase, StartRandomMergeBase,
         ReplaceVictimBase, AppendRandomBase
      DEF FastNext, Step
  <2>3. Disposals' # 0 => bm'.log_active # bm.log_active
    BY <1>3 DEF Disposals
  <2> QED
    BY <2>1, <2>2, <2>3 DEF FastPlaced
<1>4. CASE FastNext /\ Disposals # 0
  <2>1. pc = "idle"
    BY <1>4 DEF FastPlaced
  <2>2. ~(Disposals <= MAX_DISPOSED)
    BY <1>1, <1>4
  <2>3. ~ \E l \in WRITTEN : FastWriteStart(l)
    BY <2>2 DEF FastWriteStart
  <2>4. ~ \E l \in TRIMMED : FastTrim(l)
    BY <2>2 DEF FastTrim, TrimInLog, TrimInSequential, TrimInData, TrimPage
  <2>5. ~Step
    BY <2>1 DEF Step, WriteInPlace, NeedsDataBlock, InPlace, AppendSequential, ExtendsSequential,
                SwitchSequential, Switches, ReplacesSequential, MergeSequential, Merges,
                StartSequential, StartRandomMerge, MergeLogicalBlock, ReplaceVictim, AppendRandom,
                ToRandomLog, ToLog, FastAbort, FastNoFreeBlock, OutOfBounds, PageTaken
  <2> QED
    BY <1>4, <2>3, <2>4, <2>5 DEF FastNext
<1> QED
  BY <1>2, <1>3, <1>4

(* If the host stops with the first trim that empties a block, the drive      *)
(* returns a wrong page for a page 0 only.                                  *)
THEOREM FastMisplacedAtPageZero ==
  ASSUME MAX_DISPOSED = 0
  PROVE  FastSpec => []MisplacedAtPageZero
<1>1. FastInit => FastPlaced
  <2> SUFFICES ASSUME FastInit PROVE FastPlaced
    OBVIOUS
  <2>1. FastParts /\ pc = "idle" /\ Disposals = 0
    <3>1. FastParts
      BY FastInitInvariant, FastInvariantParts
    <3>2. PICK first \in FIRST_FREE :
            bm = [NewManager(first + FAST_LOG_PAGE_LIMIT)
                    EXCEPT !.log_active = FAST_LOG_PAGE_LIMIT]
      BY DEF FastInit
    <3>3. bm.log_active = LogLimit
      BY <3>2 DEF NewManager, LogLimit
    <3> QED
      BY <3>1, <3>3, FastConstants DEF FastInit, Disposals, LogLimit
  <2> QED
    BY <2>1 DEF FastParts, FastPlaced
<1>2. FastIInv /\ FastPlaced /\ [FastNext]_fastvars => FastPlaced'
  BY FastPlacedStep
<1>3. FastIInv /\ FastPlaced => MisplacedAtPageZero
  BY PlacedRead DEF FastIInv, FastPlaced
<1> QED
  BY <1>1, <1>2, <1>3, FastInvariant, PTL DEF FastSpec

=============================================================================
