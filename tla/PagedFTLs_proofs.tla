-------------------------- MODULE PagedFTLs_proofs --------------------------
(***************************************************************************)
(* Theorems about DFTL and BDFTL, for every size of blocks, drive and cache, *)
(* every first free block, and every set of pages read, written and trimmed: *)
(* the inductive invariant IInv, the properties that follow from it, what    *)
(* the time stamps and the order of the pages add to it, and that only a     *)
(* conversion of BDFTL loses a page.                                        *)
(***************************************************************************)
EXTENDS PagedFTLs, BlockManager_proofs, WellFoundedInduction

-----------------------------------------------------------------------------
(* Linear addresses.                                                        *)

LEMMA TwoDigits ==
  ASSUME NEW m \in Nat \ {0}, NEW q \in Int, NEW r \in 0 .. m - 1
  PROVE  (q * m + r) % m = r /\ (q * m + r) \div m = q
<1> DEFINE n == q * m + r
           k == n \div m
<1>1. n \in Int /\ q * m \in Int
  OBVIOUS
<1>2. n = m * k + (n % m) /\ n % m \in 0 .. m - 1 /\ k \in Int
  BY <1>1
<1>3. m * (q - k) = (n % m) - r
  BY <1>1, <1>2
<1>4. q - k = 0
  <2>1. q - k >= 1 => m * (q - k) >= m
    BY <1>2
  <2>2. q - k <= -1 => m * (q - k) <= -m
    BY <1>2
  <2>3. (n % m) - r < m /\ (n % m) - r > -m
    BY <1>2
  <2> QED
    BY <1>2, <1>3, <2>1, <2>2, <2>3
<1> QED
  BY <1>2, <1>3, <1>4

LEMMA PageOf ==
  ASSUME NEW b \in Block, NEW p \in PageNo
  PROVE  /\ b * BLOCK_SIZE + p \in Page
         /\ BlockOf(b * BLOCK_SIZE + p) = b /\ PageIn(b * BLOCK_SIZE + p) = p
<1>1. BLOCK_SIZE \in Nat \ {0} /\ NUM_BLOCKS \in Nat
  BY BlockSizeType, NandAssumption
<1>2. b \in 0 .. NUM_BLOCKS - 1 /\ p \in 0 .. BLOCK_SIZE - 1
  BY DEF Block, PageNo
<1>3. b * BLOCK_SIZE + p \in 0 .. NUM_BLOCKS * BLOCK_SIZE - 1
  <2>1. b * BLOCK_SIZE >= 0 /\ b * BLOCK_SIZE <= (NUM_BLOCKS - 1) * BLOCK_SIZE
    BY <1>1, <1>2
  <2> QED
    BY <1>1, <1>2, <2>1
<1>4. (b * BLOCK_SIZE + p) % BLOCK_SIZE = p /\ (b * BLOCK_SIZE + p) \div BLOCK_SIZE = b
  BY <1>1, <1>2, TwoDigits
<1> QED
  BY <1>3, <1>4 DEF Page, BlockOf, PageIn

LEMMA PageParts ==
  ASSUME NEW n \in Page
  PROVE  BlockOf(n) \in Block /\ PageIn(n) \in PageNo /\ n = BlockOf(n) * BLOCK_SIZE + PageIn(n)
<1>1. BLOCK_SIZE \in Nat \ {0} /\ NUM_BLOCKS \in Nat
  BY BlockSizeType, NandAssumption
<1>2. n \in 0 .. NUM_BLOCKS * BLOCK_SIZE - 1
  BY DEF Page
<1> DEFINE b == n \div BLOCK_SIZE
           p == n % BLOCK_SIZE
<1>3. b \in Int /\ p \in 0 .. BLOCK_SIZE - 1 /\ n = BLOCK_SIZE * b + p
  BY <1>1, <1>2
<1> HIDE DEF b, p
<1>4. b >= 0
  <2>1. b <= -1 => BLOCK_SIZE * b <= -BLOCK_SIZE
    BY <1>1, <1>3
  <2> QED
    BY <1>1, <1>2, <1>3, <2>1
<1>5. b <= NUM_BLOCKS - 1
  <2>1. b >= NUM_BLOCKS => BLOCK_SIZE * b >= BLOCK_SIZE * NUM_BLOCKS
    BY <1>1, <1>3
  <2> QED
    BY <1>1, <1>2, <1>3, <2>1
<1> QED
  BY <1>1, <1>3, <1>4, <1>5 DEF Block, PageNo, BlockOf, PageIn, b, p

LEMMA SamePage ==
  ASSUME NEW m \in Page, NEW n \in Page, BlockOf(m) = BlockOf(n), PageIn(m) = PageIn(n)
  PROVE  m = n
BY PageParts

LEMMA NextPage ==
  ASSUME NEW n \in Page, PageIn(n) # BLOCK_SIZE - 1
  PROVE  n + 1 \in Page /\ BlockOf(n + 1) = BlockOf(n) /\ PageIn(n + 1) = PageIn(n) + 1
<1>1. PageIn(n) + 1 \in PageNo
  BY PageParts, BlockSizeType DEF PageNo
<1>2. n + 1 = BlockOf(n) * BLOCK_SIZE + (PageIn(n) + 1)
  <2>1. BlockOf(n) \in Int /\ PageIn(n) \in Int /\ BLOCK_SIZE \in Int
    BY PageParts, BlockSizeType DEF PageNo, Block
  <2> QED
    BY <2>1, PageParts
<1> QED
  BY <1>1, <1>2, PageParts, PageOf

LEMMA FirstPageNo == 0 \in PageNo
BY BlockSizeType DEF PageNo

LEMMA NotUnmapped == -1 \notin Page /\ NULL \notin Page /\ NULL \notin LPN /\ NULL \notin Block
                     /\ NULL # -1
BY DftlAssumption DEF Page, LPN, Block

-----------------------------------------------------------------------------
(* Nothing is ever put on the invalid list, so that insert_events reclaims    *)
(* nothing.                                                                *)
LEMMA NothingReclaimed ==
  ASSUME NEW b \in Manager, b.invalid_list = <<>>,
         NEW f, f = [x \in Block |-> f[x]]
  PROVE  LET m == [bm |-> b, flash |-> f]
         IN  Collected(m) = m /\ Prepared(m) = m
<1> DEFINE m == [bm |-> b, flash |-> f]
<1>1. NumReclaimed(b) = 0 /\ Len(b.invalid_list) = 0
  BY DEF NumReclaimed
<1>2. b.free_list \in Seq(Block)
  BY DEF Manager
<1>3. Reclaimed(b) = <<>>
  BY <1>1 DEF Reclaimed
<1>4. b.free_list \o Reclaimed(b) = b.free_list
  BY <1>2, <1>3
<1>5. SubSeq(b.invalid_list, 1, Len(b.invalid_list) - NumReclaimed(b)) = b.invalid_list
  BY <1>1
<1>6. insert_events(b) = b
  BY <1>4, <1>5 DEF insert_events, Manager
<1>7. [x \in Block |-> IF \E i \in 1 .. NumReclaimed(b) : Reclaimed(b)[i] = x
                         THEN Erased ELSE f[x]] = f
  BY <1>1
<1>8. Collected(m) = m
  BY <1>6, <1>7 DEF Collected
<1> QED
  BY <1>8 DEF Prepared

-----------------------------------------------------------------------------
(* The table: which entries are cached, and which pages they have.           *)

SamePages(tm, old) == \A l \in LPN : tm[l].ppn = old[l].ppn

LEMMA LpnFinite == IsFiniteSet(LPN)
BY NandAssumption, FS_Interval DEF LPN

LEMMA CachedFinite ==
  ASSUME NEW tm
  PROVE  IsFiniteSet(Cached(tm)) /\ Cardinality(Cached(tm)) \in Nat
<1>1. IsFiniteSet(Cached(tm))
  BY LpnFinite, FS_Subset DEF Cached
<1> QED
  BY <1>1, FS_CardinalityType

LEMMA AgedTable ==
  ASSUME NEW tm \in [LPN -> MPage], NEW step \in Nat
  PROVE  /\ Aged(tm, step) \in [LPN -> MPage]
         /\ SamePages(Aged(tm, step), tm)
         /\ Cached(Aged(tm, step)) = Cached(tm)
         /\ \A l \in Cached(tm) :
              /\ Aged(tm, step)[l].create_ts =
                   Past(tm[l].create_ts - step, tm[l].create_ts = tm[l].modified_ts)
              /\ Aged(tm, step)[l].modified_ts = Past(tm[l].modified_ts - step, TRUE)
         /\ \A l \in LPN \ Cached(tm) : Aged(tm, step)[l] = tm[l]
<1> DEFINE later(l) == {v \in Visits(tm) \cup {step} : v > tm[l].last_visited_time}
<1>1. IsFiniteSet(Visits(tm) \cup {step})
  <2> DEFINE visit == [l \in Cached(tm) |-> tm[l].last_visited_time]
  <2>1. visit \in Surjection(Cached(tm), Visits(tm))
    BY DEF Surjection, Visits
  <2>2. IsFiniteSet(Visits(tm))
    BY <2>1, CachedFinite, FS_Surjection
  <2> QED
    BY <2>2, FS_AddElement
<1>2. ASSUME NEW l \in LPN
      PROVE  Cardinality(later(l)) \in Nat
  <2>1. IsFiniteSet(later(l))
    BY <1>1, FS_Subset
  <2> QED
    BY <2>1, FS_CardinalityType
<1>4. ASSUME NEW l \in LPN
      PROVE  Aged(tm, step)[l] =
               IF ~tm[l].cached THEN tm[l]
               ELSE [tm[l] EXCEPT
                      !.create_ts = Past(@ - step, tm[l].create_ts = tm[l].modified_ts),
                      !.modified_ts = Past(@ - step, TRUE),
                      !.last_visited_time = - Cardinality(later(l))]
  BY DEF Aged
<1>5. \A l \in LPN : /\ tm[l] \in MPage
                     /\ tm[l].create_ts \in Int /\ tm[l].modified_ts \in Int
                     /\ tm[l].cached \in BOOLEAN /\ tm[l].ppn \in Page \cup {-1}
  BY DEF MPage
<1> HIDE DEF later
<1>6. ASSUME NEW l \in LPN
      PROVE  /\ Aged(tm, step)[l] \in MPage
             /\ Aged(tm, step)[l].ppn = tm[l].ppn
             /\ Aged(tm, step)[l].cached = tm[l].cached
             /\ ~tm[l].cached => Aged(tm, step)[l] = tm[l]
             /\ tm[l].cached =>
                  /\ Aged(tm, step)[l].create_ts =
                       Past(tm[l].create_ts - step, tm[l].create_ts = tm[l].modified_ts)
                  /\ Aged(tm, step)[l].modified_ts = Past(tm[l].modified_ts - step, TRUE)
  <2>1. CASE ~tm[l].cached
    BY <1>4, <1>5, <2>1
  <2>2. CASE tm[l].cached
    <3> DEFINE c == Past(tm[l].create_ts - step, tm[l].create_ts = tm[l].modified_ts)
               m == Past(tm[l].modified_ts - step, TRUE)
               v == - Cardinality(later(l))
    <3>1. c \in Int /\ m \in Int
      BY <1>5 DEF Past
    <3>2. v \in Int
      BY <1>2
    <3>3. Aged(tm, step)[l] = [tm[l] EXCEPT !.create_ts = c, !.modified_ts = m,
                                            !.last_visited_time = v]
      BY <1>4, <2>2
    <3> HIDE DEF c, m, v
    <3>4. /\ Aged(tm, step)[l] \in MPage
          /\ Aged(tm, step)[l].ppn = tm[l].ppn
          /\ Aged(tm, step)[l].cached = tm[l].cached
          /\ Aged(tm, step)[l].create_ts = c /\ Aged(tm, step)[l].modified_ts = m
      BY <1>5, <3>1, <3>2, <3>3 DEF MPage
    <3> QED
      BY <2>2, <3>4 DEF c, m
  <2> QED
    BY <2>1, <2>2
<1>7. Aged(tm, step) = [l \in LPN |-> Aged(tm, step)[l]]
  BY DEF Aged
<1>8. Aged(tm, step) \in [LPN -> MPage]
  BY <1>6, <1>7
<1> QED
  BY <1>6, <1>8 DEF SamePages, Cached

LEMMA EvictedTable ==
  ASSUME NEW tm \in [LPN -> MPage], NEW l \in Cached(tm)
  PROVE  /\ Evicted(tm, l) \in [LPN -> MPage]
         /\ SamePages(Evicted(tm, l), tm)
         /\ Cached(Evicted(tm, l)) = Cached(tm) \ {l}
         /\ \A k \in LPN \ {l} :
              /\ Evicted(tm, l)[k].modified_ts = tm[k].modified_ts
              /\ Evicted(tm, l)[k].create_ts =
                   IF k \in WrittenBack(tm, l) THEN tm[k].modified_ts ELSE tm[k].create_ts
<1>1. ASSUME NEW k \in LPN
      PROVE  tm[k] \in MPage /\ tm[k].modified_ts \in Int /\ tm[k].create_ts \in Int
  BY DEF MPage
<1>2. WrittenBack(tm, l) \subseteq Cached(tm)
  BY DEF WrittenBack
<1>3. ASSUME NEW k \in LPN
      PROVE  /\ Evicted(tm, l)[k] \in MPage
             /\ Evicted(tm, l)[k].ppn = tm[k].ppn
             /\ Evicted(tm, l)[k].cached <=> (k # l /\ tm[k].cached)
             /\ k # l => /\ Evicted(tm, l)[k].modified_ts = tm[k].modified_ts
                         /\ Evicted(tm, l)[k].create_ts =
                              IF k \in WrittenBack(tm, l) THEN tm[k].modified_ts
                                                          ELSE tm[k].create_ts
  <2>1. CASE k = l
    <3> DEFINE r == tm[k]
               n == Forgotten(r)
    <3>1. Evicted(tm, l)[k] = n
      BY <2>1 DEF Evicted
    <3>2. r \in MPage
      BY <1>1
    <3> HIDE DEF r
    <3>3. n \in MPage /\ n.ppn = r.ppn
      <4>1. NewMPage \in MPage
        BY DEF NewMPage, MPage
      <4> QED
        BY <3>2, <4>1 DEF Forgotten, MPage
    <3>4. ~n.cached
      BY DEF Forgotten, NewMPage
    <3> HIDE DEF n
    <3>5. Evicted(tm, l)[k] \in MPage /\ Evicted(tm, l)[k].ppn = tm[k].ppn
      BY <3>1, <3>3 DEF r
    <3>6. ~Evicted(tm, l)[k].cached
      BY <3>1, <3>4
    <3> QED
      BY <2>1, <3>5, <3>6
  <2>2. CASE k # l /\ k \in WrittenBack(tm, l)
    <3> DEFINE r == tm[k]
               c == r.modified_ts
               n == [r EXCEPT !.create_ts = c]
    <3>1. Evicted(tm, l)[k] = n
      BY <2>2 DEF Evicted
    <3>2. r.cached
      BY <1>2, <2>2 DEF Cached
    <3>3. r \in MPage /\ c \in Int
      BY <1>1
    <3> HIDE DEF r, c
    <3>4. n \in MPage /\ n.ppn = r.ppn /\ n.modified_ts = r.modified_ts /\ n.create_ts = c
      BY <3>3 DEF MPage
    <3>5. n.cached <=> r.cached
      BY <3>3 DEF MPage
    <3> HIDE DEF n
    <3>6. Evicted(tm, l)[k].cached /\ tm[k].cached
      BY <3>1, <3>2, <3>5 DEF r
    <3>7. /\ Evicted(tm, l)[k] \in MPage /\ Evicted(tm, l)[k].ppn = tm[k].ppn
          /\ Evicted(tm, l)[k].modified_ts = tm[k].modified_ts
          /\ Evicted(tm, l)[k].create_ts = tm[k].modified_ts
      BY <3>1, <3>4 DEF r, c
    <3> QED
      BY <2>2, <3>6, <3>7
  <2>3. CASE k # l /\ k \notin WrittenBack(tm, l)
    <3>1. Evicted(tm, l)[k] = tm[k]
      BY <2>3 DEF Evicted
    <3> QED
      BY <1>1, <2>3, <3>1
  <2> QED
    BY <2>1, <2>2, <2>3
<1>4. Evicted(tm, l) \in [LPN -> MPage]
  <2>1. Evicted(tm, l) = [k \in LPN |-> Evicted(tm, l)[k]]
    BY DEF Evicted
  <2> QED
    BY <1>3, <2>1
<1> QED
  BY <1>3, <1>4 DEF SamePages, Cached

LEMMA PersistedType ==
  ASSUME TypeOK, NEW l
  PROVE  PersistedAfter(trans_map, l) \in [LPN -> Page \cup {-1}]
BY DEF TypeOK, PersistedAfter, MPage

-----------------------------------------------------------------------------
(* What a step keeps that maps no page, programs none and hands no block out. *)
LEMMA PagesKept ==
  ASSUME IInv, ~stray, SamePages(trans_map', trans_map),
         UNCHANGED <<flash, bm, reverse_trans_map, currentDataPage, free_page, block_map,
                     inuseBlock, blockQueue, stray, ftl>>
  PROVE  /\ Mapped' = Mapped
         /\ ReverseMapExact'
         /\ HandsOutOnce(bm)' /\ (bm.invalid_list = <<>>)'
         /\ BlocksApart'
         /\ EmptyAhead'
         /\ (GotPage' => GotPage) => GotEmptyPage'
<1>1. \A l \in LPN : trans_map'[l].ppn = trans_map[l].ppn
  BY DEF SamePages
<1>2. Mapped' = Mapped
  BY <1>1 DEF Mapped
<1>3. MappedBlocks' = MappedBlocks
  BY <1>1, <1>2 DEF MappedBlocks, BlockOf, Mapped
<1>4. ReverseMapExact /\ Sound
  BY DEF IInv
<1>5. ReverseMapExact'
  BY <1>1, <1>2, <1>4 DEF ReverseMapExact, BlockOf, PageIn, Mapped
<1>6. HandsOutOnce(bm)' /\ (bm.invalid_list = <<>>)'
  BY <1>4 DEF Sound, HandsOutOnce
<1>7. BlocksApart'
  <2>1. /\ FreeBlocks(bm)' = FreeBlocks(bm) /\ CurrentBlocks' = CurrentBlocks
        /\ BlocksToUseUp' = BlocksToUseUp
        /\ \A a \in LBA : HasOwnBlock(a)' <=> HasOwnBlock(a)
    BY DEF FreeBlocks, Blocks, CurrentBlocks, BlocksToUseUp, BlockOf, HasOwnBlock
  <2>2. BlocksApart
    BY <1>4 DEF Sound
  <2> QED
    BY <1>3, <2>1, <2>2 DEF BlocksApart
<1>8. EmptyAhead'
  BY <1>4 DEF Sound, EmptyAhead, HasOwnBlock, FreeBlocks, Blocks, BlockOf, PageIn
<1>9. (GotPage' => GotPage) => GotEmptyPage'
  BY <1>4 DEF Sound, GotEmptyPage, BlockOf, PageIn
<1> QED
  BY <1>2, <1>5, <1>6, <1>7, <1>8, <1>9

-----------------------------------------------------------------------------
(* The calls and the table, one lemma for each action.                       *)
LEMMA ArrivesKeeps ==
  ASSUME IInv, ~stray, NEW l \in LPN, NEW first, EventArrives(l, first),
         \/ first = "read" /\ UNCHANGED trim_map
         \/ first = "write" /\ ftl = "DFTL" /\ UNCHANGED trim_map
         \/ first = "block" /\ ftl = "BDFTL" /\ trim_map' = trim_map \ {l},
         UNCHANGED <<block_map, inuseBlock, blockQueue, stray, ftl>>
  PROVE  IInv'
<1>1. PICK step \in STEPS : trans_map' = Aged(trans_map, step)
  BY DEF EventArrives
<1>2. TypeOK /\ Sound /\ trans_map \in [LPN -> MPage] /\ step \in Nat
  BY DftlAssumption DEF IInv, TypeOK
<1>3. /\ trans_map' \in [LPN -> MPage]
      /\ SamePages(trans_map', trans_map)
      /\ Cached(trans_map') = Cached(trans_map)
  BY <1>1, <1>2, AgedTable
<1>4. /\ Mapped' = Mapped
      /\ ReverseMapExact'
      /\ HandsOutOnce(bm)' /\ (bm.invalid_list = <<>>)'
      /\ BlocksApart'
      /\ EmptyAhead'
      /\ (GotPage' => GotPage) => GotEmptyPage'
  BY <1>3, PagesKept DEF EventArrives
<1>5. ~GotPage'
  BY DEF EventArrives, GotPage
<1>6. TypeOK'
  <2>1. /\ pc' \in {"read", "block", "write"} /\ lpn' \in LPN
        /\ trim_map' \subseteq LPN
    BY <1>2 DEF EventArrives, TypeOK
  <2> QED
    BY <1>2, <1>3, <2>1 DEF EventArrives, TypeOK
<1>7. DftlHasNoBlocks'
  BY DEF IInv, DftlHasNoBlocks, EventArrives
<1>8. CounterWithinCache'
  BY <1>3 DEF IInv, CounterWithinCache, EventArrives
<1>9. OptimalUnmapped'
  BY <1>2, <1>4 DEF Sound, OptimalUnmapped, EventArrives, Lbn
<1> QED
  BY <1>4, <1>5, <1>6, <1>7, <1>8, <1>9 DEF IInv, Sound

LEMMA EvictKeeps ==
  ASSUME IInv, ~stray, evict_page_from_cache, UNCHANGED <<bvars, ftl>>
  PROVE  IInv'
<1>1. PICK l \in LPN : IsLeastVisited(l) /\ EvictEntry(l)
  BY DEF evict_page_from_cache
<1>2. TypeOK /\ Sound /\ trans_map \in [LPN -> MPage] /\ l \in Cached(trans_map)
  BY <1>1 DEF IInv, TypeOK, IsLeastVisited
<1>3. /\ trans_map' \in [LPN -> MPage]
      /\ SamePages(trans_map', trans_map)
      /\ Cached(trans_map') = Cached(trans_map) \ {l}
  BY <1>1, <1>2, EvictedTable DEF EvictEntry
<1>4. /\ Mapped' = Mapped
      /\ ReverseMapExact'
      /\ HandsOutOnce(bm)' /\ (bm.invalid_list = <<>>)'
      /\ BlocksApart'
      /\ EmptyAhead'
      /\ (GotPage' => GotPage) => GotEmptyPage'
  BY <1>3, PagesKept DEF evict_page_from_cache, bvars
<1>5. GotPage' => GotPage
  BY DEF evict_page_from_cache, GotPage
<1>6. TypeOK'
  <2>1. persisted' \in [LPN -> Page \cup {-1}] /\ cmt' \in Int
    BY <1>1, <1>2, PersistedType DEF EvictEntry, TypeOK
  <2> QED
    BY <1>2, <1>3, <2>1 DEF evict_page_from_cache, TypeOK, bvars
<1>7. DftlHasNoBlocks'
  BY DEF IInv, DftlHasNoBlocks, evict_page_from_cache, bvars
<1>8. CounterWithinCache'
  <2>1. cmt' = cmt - 1 /\ cmt \in Int /\ totalCMTentries \in Int
    BY <1>1, <1>2, DftlAssumption DEF EvictEntry, TypeOK, totalCMTentries
  <2>2. Cardinality(Cached(trans_map) \ {l}) = Cardinality(Cached(trans_map)) - 1
    BY <1>2, CachedFinite, FS_RemoveElement
  <2>3. Cardinality(Cached(trans_map)) \in Nat
    BY CachedFinite
  <2>4. cmt <= Cardinality(Cached(trans_map)) /\ cmt <= totalCMTentries
    BY DEF IInv, CounterWithinCache
  <2>5. cmt' <= Cardinality(Cached(trans_map)) - 1 /\ cmt' <= totalCMTentries
    BY <2>1, <2>3, <2>4
  <2> QED
    BY <1>3, <2>2, <2>5 DEF CounterWithinCache, totalCMTentries
<1>9. OptimalUnmapped'
  BY <1>2, <1>4 DEF Sound, OptimalUnmapped, evict_page_from_cache, Lbn, bvars
<1>10. (stray => pc = "idle")'
  BY DEF bvars
<1> QED
  BY <1>4, <1>5, <1>6, <1>7, <1>8, <1>9, <1>10 DEF IInv, Sound

(* Hit and Miss are alike but for the entry and the counter.                  *)
LEMMA ResolvedKeeps ==
  ASSUME IInv, ~stray, NEW next, Proceed(next), Resolving,
         next = IF ftl = "DFTL" THEN "page" ELSE "program",
         NEW m \in MPage, m.ppn = trans_map[lpn].ppn,
         trans_map' = [trans_map EXCEPT ![lpn] = m],
         cmt' \in Int, CounterWithinCache',
         UNCHANGED <<flash, bm, reverse_trans_map, currentDataPage, persisted, free_page,
                     bvars, ftl>>
  PROVE  IInv'
<1>1. TypeOK /\ Sound /\ trans_map \in [LPN -> MPage] /\ lpn \in LPN
  BY DEF IInv, TypeOK, Resolving
<1>2. /\ trans_map' \in [LPN -> MPage]
      /\ SamePages(trans_map', trans_map)
  BY <1>1 DEF SamePages
<1>3. /\ Mapped' = Mapped
      /\ ReverseMapExact'
      /\ HandsOutOnce(bm)' /\ (bm.invalid_list = <<>>)'
      /\ BlocksApart'
      /\ EmptyAhead'
      /\ (GotPage' => GotPage) => GotEmptyPage'
  BY <1>2, PagesKept DEF bvars
<1>4. GotPage' => GotPage
  BY <1>1 DEF Proceed, Resolving, GotPage, TypeOK
<1>5. TypeOK'
  <2>1. /\ pc' \in {"idle", "page", "program"}
        /\ lpn' \in IF pc' = "idle" THEN {NULL} ELSE LPN
    BY <1>1 DEF Proceed, Resolving
  <2> QED
    BY <1>1, <1>2, <2>1 DEF TypeOK, bvars
<1>6. DftlHasNoBlocks'
  BY DEF IInv, DftlHasNoBlocks, Proceed, bvars
<1>7. OptimalUnmapped'
  BY <1>1, <1>3 DEF Sound, OptimalUnmapped, Proceed, Resolving, Lbn, bvars
<1>8. (stray => pc = "idle")'
  BY DEF bvars
<1> QED
  BY <1>3, <1>4, <1>5, <1>6, <1>7, <1>8 DEF IInv, Sound

LEMMA HitKeeps ==
  ASSUME IInv, ~stray, NEW next, Hit(next),
         next = IF ftl = "DFTL" THEN "page" ELSE "program", UNCHANGED <<bvars, ftl>>
  PROVE  IInv' /\ Cached(trans_map') = Cached(trans_map)
<1>1. TypeOK /\ trans_map \in [LPN -> MPage] /\ lpn \in LPN
  BY DEF IInv, TypeOK, Hit, Resolving
<1> DEFINE r == trans_map[lpn]
           m == Visited(r)
<1>2. r \in MPage
  BY <1>1
<1>3. m \in MPage /\ m.ppn = r.ppn /\ (m.cached <=> r.cached)
  <2> DEFINE t == IF pc = "write" THEN 0 ELSE r.modified_ts
             v == 0
  <2>1. t \in Int /\ v \in Int
    BY <1>2 DEF MPage
  <2>2. m = [r EXCEPT !.modified_ts = t, !.last_visited_time = v]
    BY DEF Visited
  <2> HIDE DEF r, m, t, v
  <2>3. m \in MPage /\ m.ppn = r.ppn
    BY <1>2, <2>1, <2>2 DEF MPage
  <2>4. m.cached <=> r.cached
    BY <1>2, <2>2 DEF MPage
  <2> QED
    BY <2>3, <2>4
<1>4. trans_map' = [trans_map EXCEPT ![lpn] = m]
  BY DEF Hit
<1> HIDE DEF m
<1>5. Cached(trans_map') = Cached(trans_map)
  BY <1>1, <1>3, <1>4 DEF Cached
<1>6. CounterWithinCache'
  BY <1>5 DEF IInv, CounterWithinCache, Hit
<1>7. IInv'
  BY <1>1, <1>3, <1>4, <1>6, ResolvedKeeps DEF Hit, TypeOK
<1> QED
  BY <1>5, <1>7

LEMMA MissKeeps ==
  ASSUME IInv, ~stray, NEW next, Miss(next),
         next = IF ftl = "DFTL" THEN "page" ELSE "program", UNCHANGED <<bvars, ftl>>
  PROVE  IInv' /\ Cached(trans_map') = Cached(trans_map) \cup {lpn}
<1>1. TypeOK /\ trans_map \in [LPN -> MPage] /\ lpn \in LPN /\ lpn \notin Cached(trans_map)
  BY DEF IInv, TypeOK, Miss, Resolving, lookup_CMT, Cached
<1> DEFINE r == trans_map[lpn]
           m == Loaded(r)
<1>2. r.ppn \in Page \cup {-1}
  BY <1>1 DEF MPage
<1>3. m \in MPage /\ m.ppn = r.ppn /\ m.cached
  <2> HIDE DEF r
  <2> QED
    BY <1>2 DEF Loaded, MPage
<1>4. trans_map' = [trans_map EXCEPT ![lpn] = m]
  BY DEF Miss
<1> HIDE DEF m
<1>5. Cached(trans_map') = Cached(trans_map) \cup {lpn}
  BY <1>1, <1>3, <1>4 DEF Cached
<1>6. CounterWithinCache' /\ cmt' \in Int
  <2>1. Cardinality(Cached(trans_map) \cup {lpn}) = Cardinality(Cached(trans_map)) + 1
    BY <1>1, CachedFinite, FS_AddElement
  <2>2. Cardinality(Cached(trans_map)) \in Nat /\ cmt \in Int /\ totalCMTentries \in Int
    BY <1>1, CachedFinite, DftlAssumption DEF TypeOK, totalCMTentries
  <2>3. cmt' = cmt + 1 /\ cmt < totalCMTentries /\ cmt <= Cardinality(Cached(trans_map))
    BY DEF IInv, CounterWithinCache, Miss
  <2>4. /\ cmt' <= Cardinality(Cached(trans_map)) + 1 /\ cmt' <= totalCMTentries
        /\ cmt' \in Int
    BY <2>2, <2>3
  <2> QED
    BY <1>5, <2>1, <2>4 DEF CounterWithinCache, totalCMTentries
<1>7. IInv'
  BY <1>1, <1>3, <1>4, <1>6, ResolvedKeeps DEF Miss, TypeOK
<1> QED
  BY <1>5, <1>7

-----------------------------------------------------------------------------
(* Getting a page.                                                         *)
LEMMA MemoryPlain ==
  ASSUME IInv, ~stray
  PROVE  /\ Collected(Memory) = Memory
         /\ Obtainable(Memory) <=> HasFreeBlock(bm)
         /\ NewBlock(Memory) = FreeBlock(bm)
         /\ Obtain(Memory, "DATA").bm = get_free_block(bm, "DATA")
         /\ Obtain(Memory, "DATA").flash = flash
<1>1. bm \in Manager /\ bm.invalid_list = <<>> /\ flash = [b \in Block |-> flash[b]]
  BY DEF IInv, TypeOK, Sound
<1>2. Collected(Memory) = Memory /\ Prepared(Memory) = Memory
  BY <1>1, NothingReclaimed DEF Memory
<1>3. Memory.bm = bm /\ Memory.flash = flash
  BY DEF Memory
<1>4. Obtain(Memory, "DATA") = [bm |-> get_free_block(bm, "DATA"), flash |-> flash]
  BY <1>2 DEF Obtain, Memory
<1> QED
  BY <1>2, <1>3, <1>4 DEF Obtainable, NewBlock

(* A block that is free belongs to nobody, and has no page that is mapped.    *)
LEMMA TakeBlock ==
  ASSUME IInv, ~stray, HasFreeBlock(bm), bm' = get_free_block(bm, "DATA")
  PROVE  /\ FreeBlock(bm) \in Block /\ bm' \in Manager
         /\ HandsOutOnce(bm)' /\ (bm.invalid_list = <<>>)'
         /\ FreeBlocks(bm)' = FreeBlocks(bm) \ {FreeBlock(bm)}
         /\ flash[FreeBlock(bm)] = Erased
         /\ FreeBlock(bm) \notin CurrentBlocks \cup BlocksToUseUp \cup MappedBlocks
         /\ \A a \in LBA : HasOwnBlock(a) => block_map[a].pbn # FreeBlock(bm)
<1>1. /\ bm \in Manager /\ HandsOutOnce(bm) /\ bm.invalid_list = <<>>
      /\ BlocksApart /\ EmptyAhead /\ ReverseMapExact
  BY DEF IInv, TypeOK, Sound
<1>2. /\ FreeBlock(bm) \in FreeBlocks(bm) /\ FreeBlock(bm) \in Block
      /\ bm' \in Manager /\ HandsOutOnce(bm')
      /\ FreeBlocks(bm') = FreeBlocks(bm) \ {FreeBlock(bm)}
  BY <1>1, GetFreeBlock
<1>3. bm'.invalid_list = <<>>
  BY <1>1 DEF get_free_block, Counting, Manager
<1>4. flash[FreeBlock(bm)] = Erased
  BY <1>1, <1>2 DEF EmptyAhead
<1>5. FreeBlock(bm) \notin MappedBlocks
  <2>1. ASSUME NEW l \in Mapped, BlockOf(trans_map[l].ppn) = FreeBlock(bm)
        PROVE  FALSE
    <3>1. trans_map[l].ppn \in Page /\ l \in LPN
      BY DEF IInv, TypeOK, Mapped, MPage
    <3>2. flash[BlockOf(trans_map[l].ppn)][PageIn(trans_map[l].ppn)] = EMPTY
      BY <1>4, <2>1, <3>1, PageParts DEF Erased
    <3>3. flash[BlockOf(trans_map[l].ppn)][PageIn(trans_map[l].ppn)] \in {l, OLD}
      BY <1>1 DEF ReverseMapExact
    <3> QED
      BY <3>1, <3>2, <3>3, MarksDiffer, MarksAreNoPages
  <2> QED
    BY <2>1 DEF MappedBlocks
<1> QED
  BY <1>1, <1>2, <1>3, <1>4, <1>5 DEF BlocksApart, FreeBlocks, Blocks

LEMMA DataPageKeeps ==
  ASSUME IInv, ~stray, NEW next, get_free_data_page(next), pc = "page",
         next = IF ftl = "DFTL" THEN "program" ELSE "write",
         inuseBlock' \in {inuseBlock, NULL}, ftl = "DFTL" => UNCHANGED inuseBlock,
         UNCHANGED <<block_map, trim_map, blockQueue, stray, ftl>>
  PROVE  IInv' /\ UNCHANGED flash
<1>1. TypeOK /\ Sound /\ BlocksApart /\ EmptyAhead /\ lpn \in LPN
  BY DEF IInv, TypeOK, Sound
<1>2. /\ UNCHANGED <<trans_map, reverse_trans_map, cmt, persisted, lpn>>
      /\ pc' = next /\ free_page' = currentDataPage'
  BY DEF get_free_data_page
<1>3. BlocksToUseUp' \subseteq BlocksToUseUp
  BY DEF BlocksToUseUp, Blocks
<1>4. /\ MappedBlocks' = MappedBlocks
      /\ \A a \in LBA : HasOwnBlock(a)' <=> HasOwnBlock(a)
  BY <1>2 DEF MappedBlocks, Mapped, BlockOf, HasOwnBlock
<1>5. /\ flash' = flash /\ bm' \in Manager
      /\ HandsOutOnce(bm)' /\ (bm.invalid_list = <<>>)'
      /\ BlocksApart' /\ EmptyAhead'
      /\ currentDataPage' \in Page
      /\ flash[BlockOf(currentDataPage')][PageIn(currentDataPage')] = EMPTY
  <2>1. CASE NeedsDataBlock
    <3> DEFINE b == FreeBlock(bm)
    <3>1. /\ HasFreeBlock(bm) /\ bm' = get_free_block(bm, "DATA") /\ flash' = flash
          /\ currentDataPage' = b * BLOCK_SIZE
      BY <2>1, MemoryPlain DEF get_free_data_page
    <3>2. /\ b \in Block /\ bm' \in Manager
          /\ HandsOutOnce(bm)' /\ (bm.invalid_list = <<>>)'
          /\ FreeBlocks(bm)' = FreeBlocks(bm) \ {b}
          /\ flash[b] = Erased
          /\ b \notin CurrentBlocks \cup BlocksToUseUp \cup MappedBlocks
          /\ \A a \in LBA : HasOwnBlock(a) => block_map[a].pbn # b
      BY <3>1, TakeBlock
    <3> HIDE DEF b
    <3>3. /\ currentDataPage' \in Page
          /\ BlockOf(currentDataPage') = b /\ PageIn(currentDataPage') = 0
      <4>1. b * BLOCK_SIZE + 0 = b * BLOCK_SIZE
        BY <3>2, BlockSizeType DEF Block
      <4>2. b * BLOCK_SIZE + 0 \in Page /\ BlockOf(b * BLOCK_SIZE + 0) = b
            /\ PageIn(b * BLOCK_SIZE + 0) = 0
        BY <3>2, FirstPageNo, PageOf
      <4> QED
        BY <3>1, <4>1, <4>2
    <3>4. CurrentBlocks' = {b}
      BY <3>3, NotUnmapped DEF CurrentBlocks, BlockOf
    <3>5. BlocksApart'
      BY <1>1, <1>3, <1>4, <3>2, <3>4 DEF BlocksApart
    <3>6. EmptyAhead'
      <4>1. \A c \in FreeBlocks(bm)' : flash[c] = Erased
        BY <1>1, <3>2 DEF EmptyAhead
      <4>2. \A p \in PageNo : flash[b][p] = EMPTY
        BY <3>2 DEF Erased
      <4> QED
        BY <1>1, <1>4, <3>1, <3>3, <4>1, <4>2 DEF EmptyAhead, BlockOf, PageIn
    <3>7. flash[BlockOf(currentDataPage')][PageIn(currentDataPage')] = EMPTY
      BY <3>2, <3>3, FirstPageNo DEF Erased
    <3> QED
      BY <3>1, <3>2, <3>3, <3>5, <3>6, <3>7
  <2>2. CASE ~NeedsDataBlock
    <3>1. /\ currentDataPage' = currentDataPage + 1 /\ UNCHANGED <<bm, flash>>
          /\ currentDataPage \in Page /\ PageIn(currentDataPage) # BLOCK_SIZE - 1
          /\ currentDataPage # -1
      BY <1>1, <2>2 DEF get_free_data_page, NeedsDataBlock, TypeOK
    <3>2. /\ currentDataPage' \in Page /\ BlockOf(currentDataPage') = BlockOf(currentDataPage)
          /\ PageIn(currentDataPage') = PageIn(currentDataPage) + 1
      BY <3>1, NextPage
    <3>3. CurrentBlocks' = CurrentBlocks
      BY <3>1, <3>2, NotUnmapped DEF CurrentBlocks, BlockOf
    <3>4. BlocksApart'
      BY <1>1, <1>3, <1>4, <3>1, <3>3 DEF BlocksApart, FreeBlocks, Blocks
    <3>5. PageIn(currentDataPage') \in PageNo /\ PageIn(currentDataPage) \in PageNo
      BY <3>1, <3>2, PageParts
    <3>6. \A p \in PageNo : p > PageIn(currentDataPage) =>
            flash[BlockOf(currentDataPage)][p] = EMPTY
      BY <1>1, <3>1 DEF EmptyAhead
    <3>7. \A p \in PageNo : p > PageIn(currentDataPage') => p > PageIn(currentDataPage)
      BY <3>2, <3>5 DEF PageNo
    <3>8. PageIn(currentDataPage') > PageIn(currentDataPage)
      BY <3>2, <3>5 DEF PageNo
    <3>9. EmptyAhead'
      <4>1. \A p \in PageNo : p > PageIn(currentDataPage') =>
              flash[BlockOf(currentDataPage')][p] = EMPTY
        BY <3>2, <3>6, <3>7
      <4>2. /\ \A c \in FreeBlocks(bm)' : flash'[c] = Erased
            /\ \A a \in LBA : HasOwnBlock(a)' => \A p \in PageNo :
                 p >= block_map'[a].nextPage => flash'[block_map'[a].pbn][p] \in {EMPTY, INVALID}
        BY <1>1, <1>4, <3>1 DEF EmptyAhead, FreeBlocks, Blocks
      <4> QED
        BY <3>1, <4>1, <4>2 DEF EmptyAhead, BlockOf, PageIn
    <3> QED
      BY <1>1, <3>1, <3>2, <3>4, <3>5, <3>6, <3>8, <3>9 DEF Sound, TypeOK, HandsOutOnce
  <2> QED
    BY <2>1, <2>2
<1>6. TypeOK'
  BY <1>1, <1>2, <1>5 DEF TypeOK
<1>7. GotEmptyPage'
  BY <1>2, <1>5 DEF GotEmptyPage, BlockOf, PageIn
<1>8. ReverseMapExact'
  BY <1>2, <1>5 DEF IInv, ReverseMapExact, Mapped, BlockOf, PageIn
<1>9. CounterWithinCache'
  BY <1>2 DEF IInv, CounterWithinCache, Cached
<1>10. DftlHasNoBlocks'
  BY <1>2 DEF IInv, DftlHasNoBlocks
<1>11. OptimalUnmapped'
  BY <1>1, <1>2 DEF Sound, OptimalUnmapped, Mapped, Lbn
<1> QED
  BY <1>5, <1>6, <1>7, <1>8, <1>9, <1>10, <1>11 DEF IInv, Sound

-----------------------------------------------------------------------------
(* Programming and invalidating pages.                                      *)
LEMMA ProgramType ==
  ASSUME NEW f \in [Block -> [PageNo -> LPN \cup {EMPTY, INVALID, OLD}]],
         NEW b \in Block, NEW p \in PageNo, NEW l \in LPN
  PROVE  /\ Program(f, b, p, l) \in [Block -> [PageNo -> LPN \cup {EMPTY, INVALID, OLD}]]
         /\ Program(f, b, p, l)[b][p] = l
         /\ \A c \in Block, q \in PageNo : c # b \/ q # p =>
              Program(f, b, p, l)[c][q] = IF f[c][q] = l THEN OLD ELSE f[c][q]
BY DEF Program

LEMMA InvalidateType ==
  ASSUME NEW f \in [Block -> [PageNo -> LPN \cup {EMPTY, INVALID, OLD}]],
         NEW b \in Block, NEW p \in PageNo
  PROVE  /\ invalidate_page(f, b, p) \in [Block -> [PageNo -> LPN \cup {EMPTY, INVALID, OLD}]]
         /\ invalidate_page(f, b, p)[b][p] = INVALID
         /\ \A c \in Block, q \in PageNo : c # b \/ q # p =>
              invalidate_page(f, b, p)[c][q] = f[c][q]
BY DEF invalidate_page

(* The page of a mapped logical page.                                       *)
LEMMA MappedPage ==
  ASSUME IInv, ~stray, NEW l \in Mapped
  PROVE  /\ l \in LPN /\ trans_map[l].ppn \in Page
         /\ BlockOf(trans_map[l].ppn) \in Block /\ PageIn(trans_map[l].ppn) \in PageNo
         /\ BlockOf(trans_map[l].ppn) \in MappedBlocks
         /\ reverse_trans_map[trans_map[l].ppn] = l
         /\ flash[BlockOf(trans_map[l].ppn)][PageIn(trans_map[l].ppn)] \in {l, OLD}
<1>1. l \in LPN /\ trans_map[l].ppn \in Page
  BY DEF IInv, TypeOK, Mapped, MPage
<1> QED
  BY <1>1, PageParts DEF IInv, ReverseMapExact, MappedBlocks

(* What issuing the write does to every page.                               *)
LEMMA Issued ==
  ASSUME IInv, ~stray, MapAndIssue
  PROVE  LET old == trans_map[lpn].ppn
         IN  /\ lpn \in LPN /\ free_page \in Page /\ old # free_page
             /\ BlockOf(free_page) \in Block /\ PageIn(free_page) \in PageNo
             /\ flash[BlockOf(free_page)][PageIn(free_page)] = EMPTY
             /\ BlockOf(free_page) \in CurrentBlocks \cup BlocksToUseUp
             /\ flash' \in [Block -> [PageNo -> LPN \cup {EMPTY, INVALID, OLD}]]
             /\ flash'[BlockOf(free_page)][PageIn(free_page)] = lpn
             /\ \A n \in Page : n # free_page =>
                  flash'[BlockOf(n)][PageIn(n)] =
                    IF n = old THEN INVALID
                    ELSE IF flash[BlockOf(n)][PageIn(n)] = lpn THEN OLD
                    ELSE flash[BlockOf(n)][PageIn(n)]
<1> DEFINE old == trans_map[lpn].ppn
           b == BlockOf(free_page)
           p == PageIn(free_page)
           written == Program(flash, b, p, lpn)
<1>1. TypeOK /\ GotPage /\ GotEmptyPage /\ lpn \in LPN
  BY DEF IInv, Sound, TypeOK, MapAndIssue, GotPage
<1>2. /\ free_page \in Page /\ flash[b][p] = EMPTY
      /\ free_page = currentDataPage \/ b = inuseBlock
  BY <1>1 DEF GotEmptyPage
<1>3. b \in Block /\ p \in PageNo
  BY <1>2, PageParts
<1>4. b \in CurrentBlocks \cup BlocksToUseUp
  <2>1. b # NULL /\ free_page # -1
    BY <1>2, <1>3, NotUnmapped
  <2> QED
    BY <1>2, <2>1 DEF CurrentBlocks, BlocksToUseUp
<1>5. flash \in [Block -> [PageNo -> LPN \cup {EMPTY, INVALID, OLD}]]
  BY <1>1 DEF TypeOK
<1>6. old # -1 => lpn \in Mapped
  BY <1>1 DEF Mapped
<1>7. old # -1 => /\ old \in Page /\ BlockOf(old) \in Block /\ PageIn(old) \in PageNo
                  /\ flash[BlockOf(old)][PageIn(old)] \in {lpn, OLD}
  BY <1>6, MappedPage
<1>8. old # free_page
  BY <1>1, <1>2, <1>7, MarksDiffer, MarksAreNoPages, NotUnmapped
<1>9. flash' = IF old = -1 THEN written ELSE invalidate_page(written, BlockOf(old), PageIn(old))
  BY DEF MapAndIssue
<1> HIDE DEF old, b, p, written
<1>10. /\ written \in [Block -> [PageNo -> LPN \cup {EMPTY, INVALID, OLD}]]
       /\ written[b][p] = lpn
       /\ \A c \in Block, q \in PageNo : c # b \/ q # p =>
            written[c][q] = IF flash[c][q] = lpn THEN OLD ELSE flash[c][q]
  BY <1>1, <1>3, <1>5, ProgramType DEF written
<1>11. \A n \in Page : n # free_page => BlockOf(n) # b \/ PageIn(n) # p
  BY <1>2, SamePage DEF b, p
<1>12. \A n \in Page : BlockOf(n) \in Block /\ PageIn(n) \in PageNo
  BY PageParts
<1>13. \A n \in Page : n # free_page =>
         written[BlockOf(n)][PageIn(n)] =
           IF flash[BlockOf(n)][PageIn(n)] = lpn THEN OLD ELSE flash[BlockOf(n)][PageIn(n)]
  BY <1>10, <1>11, <1>12
<1>14. /\ flash' \in [Block -> [PageNo -> LPN \cup {EMPTY, INVALID, OLD}]]
       /\ flash'[b][p] = lpn
       /\ \A n \in Page : n # free_page =>
            flash'[BlockOf(n)][PageIn(n)] =
              IF n = old THEN INVALID ELSE written[BlockOf(n)][PageIn(n)]
  <2>1. CASE old = -1
    BY <1>9, <1>10, <2>1, NotUnmapped
  <2>2. CASE old # -1
    <3>1. flash' = invalidate_page(written, BlockOf(old), PageIn(old))
      BY <1>9, <2>2
    <3>2. BlockOf(old) # b \/ PageIn(old) # p
      BY <1>7, <1>8, <1>11, <2>2
    <3>3. /\ flash' \in [Block -> [PageNo -> LPN \cup {EMPTY, INVALID, OLD}]]
          /\ flash'[BlockOf(old)][PageIn(old)] = INVALID
          /\ \A c \in Block, q \in PageNo : c # BlockOf(old) \/ q # PageIn(old) =>
               flash'[c][q] = written[c][q]
      BY <1>7, <1>10, <2>2, <3>1, InvalidateType
    <3>4. \A n \in Page : n # old => BlockOf(n) # BlockOf(old) \/ PageIn(n) # PageIn(old)
      BY <1>7, <2>2, SamePage
    <3> QED
      BY <1>3, <1>10, <1>12, <3>2, <3>3, <3>4
  <2> QED
    BY <2>1, <2>2
<1> QED
  BY <1>1, <1>2, <1>3, <1>4, <1>8, <1>13, <1>14 DEF b, p, old

LEMMA IssueKeeps ==
  ASSUME IInv, ~stray, MapAndIssue, UNCHANGED <<bvars, ftl>>
  PROVE  IInv'
<1> DEFINE old == trans_map[lpn].ppn
<1>1. /\ lpn \in LPN /\ free_page \in Page /\ old # free_page
      /\ BlockOf(free_page) \in Block /\ PageIn(free_page) \in PageNo
      /\ flash[BlockOf(free_page)][PageIn(free_page)] = EMPTY
      /\ BlockOf(free_page) \in CurrentBlocks \cup BlocksToUseUp
      /\ flash' \in [Block -> [PageNo -> LPN \cup {EMPTY, INVALID, OLD}]]
      /\ flash'[BlockOf(free_page)][PageIn(free_page)] = lpn
  BY Issued
<1>2. \A n \in Page : n # free_page =>
        flash'[BlockOf(n)][PageIn(n)] =
          IF n = old THEN INVALID
          ELSE IF flash[BlockOf(n)][PageIn(n)] = lpn THEN OLD
          ELSE flash[BlockOf(n)][PageIn(n)]
  BY Issued
<1>3. TypeOK /\ Sound /\ BlocksApart /\ EmptyAhead /\ OptimalUnmapped
  BY DEF IInv, Sound
<1>4. /\ trans_map \in [LPN -> MPage] /\ reverse_trans_map \in [Page -> LPN \cup {NULL}]
      /\ currentDataPage \in Page \cup {-1}
  BY <1>3 DEF TypeOK
<1>5. /\ pc = "program" /\ pc' = "idle" /\ lpn' = NULL /\ free_page' = NULL
      /\ trans_map' = [trans_map EXCEPT ![lpn].ppn = free_page]
      /\ reverse_trans_map' = [reverse_trans_map EXCEPT ![free_page] = lpn]
      /\ UNCHANGED <<bm, cmt, currentDataPage, persisted>>
  BY DEF MapAndIssue, update_translation_map
<1> HIDE DEF old
<1>6. /\ trans_map' \in [LPN -> MPage]
      /\ trans_map'[lpn].ppn = free_page
      /\ \A l \in LPN : l # lpn => trans_map'[l] = trans_map[l]
      /\ \A l \in LPN : trans_map'[l].cached <=> trans_map[l].cached
  <2> DEFINE r == trans_map[lpn]
             n == [r EXCEPT !.ppn = free_page]
  <2>1. trans_map' = [trans_map EXCEPT ![lpn] = n]
    BY <1>5
  <2>2. r \in MPage
    BY <1>1, <1>4
  <2> HIDE DEF r
  <2>3. n \in MPage /\ n.ppn = free_page
    BY <1>1, <2>2 DEF MPage
  <2>4. n.cached <=> r.cached
    BY <2>2 DEF MPage
  <2> HIDE DEF n
  <2>5. trans_map' \in [LPN -> MPage] /\ trans_map'[lpn] = n
        /\ \A l \in LPN : l # lpn => trans_map'[l] = trans_map[l]
    BY <1>1, <1>4, <2>1, <2>3
  <2>6. ASSUME NEW l \in LPN
        PROVE  trans_map'[l].cached <=> trans_map[l].cached
    BY <2>4, <2>5 DEF r
  <2> QED
    BY <2>3, <2>5, <2>6
<1>7. Mapped' = Mapped \cup {lpn}
  BY <1>1, <1>6, NotUnmapped DEF Mapped
<1>8. MappedBlocks' \subseteq MappedBlocks \cup {BlockOf(free_page)}
  BY <1>6, <1>7 DEF MappedBlocks, BlockOf, Mapped
<1>9. ReverseMapExact'
  <2> SUFFICES ASSUME NEW l \in Mapped'
               PROVE  /\ reverse_trans_map'[trans_map'[l].ppn] = l
                      /\ flash'[BlockOf(trans_map'[l].ppn)][PageIn(trans_map'[l].ppn)] \in {l, OLD}
    BY DEF ReverseMapExact, BlockOf, PageIn, Mapped
  <2>1. CASE l = lpn
    BY <1>1, <1>4, <1>5, <1>6, <2>1
  <2>2. CASE l # lpn
    <3> DEFINE n == trans_map[l].ppn
    <3>1. l \in Mapped /\ l \in LPN /\ trans_map'[l].ppn = n
      BY <1>6, <1>7, <2>2 DEF Mapped
    <3>2. n \in Page /\ reverse_trans_map[n] = l /\ flash[BlockOf(n)][PageIn(n)] \in {l, OLD}
      BY <3>1, MappedPage
    <3>3. n # free_page
      BY <1>1, <3>1, <3>2, MarksDiffer, MarksAreNoPages
    <3>4. n # old
      <4>1. CASE lpn \in Mapped
        BY <2>2, <3>2, <4>1, MappedPage DEF old
      <4>2. CASE lpn \notin Mapped
        BY <1>1, <3>2, <4>2, NotUnmapped DEF old, Mapped
      <4> QED
        BY <4>1, <4>2
    <3>5. flash[BlockOf(n)][PageIn(n)] # lpn
      BY <1>1, <2>2, <3>2, MarksAreNoPages
    <3> HIDE DEF n
    <3> QED
      BY <1>2, <1>4, <1>5, <3>1, <3>2, <3>3, <3>4, <3>5
  <2> QED
    BY <2>1, <2>2
<1>10. /\ FreeBlocks(bm)' = FreeBlocks(bm) /\ CurrentBlocks' = CurrentBlocks
       /\ BlocksToUseUp' = BlocksToUseUp
       /\ \A a \in LBA : HasOwnBlock(a)' <=> HasOwnBlock(a)
  BY <1>5 DEF FreeBlocks, Blocks, CurrentBlocks, BlocksToUseUp, BlockOf, HasOwnBlock, bvars
<1>11. BlocksApart'
  BY <1>1, <1>3, <1>8, <1>10 DEF BlocksApart, bvars
<1>12. ASSUME NEW c \in Block, NEW q \in PageNo, flash[c][q] \in {EMPTY, INVALID},
              c # BlockOf(free_page) \/ q # PageIn(free_page)
       PROVE  /\ flash'[c][q] \in {EMPTY, INVALID}
              /\ flash[c][q] = EMPTY => flash'[c][q] = EMPTY
  <2>1. PICK n \in Page : BlockOf(n) = c /\ PageIn(n) = q
    BY <1>12, PageOf
  <2>2. n # free_page
    BY <1>12, <2>1
  <2>3. flash[c][q] = EMPTY => n # old
    <3>1. lpn \in Mapped => flash[BlockOf(old)][PageIn(old)] \in {lpn, OLD}
      BY MappedPage DEF old
    <3>2. lpn \notin Mapped => old = -1
      BY <1>1 DEF old, Mapped
    <3> QED
      BY <1>1, <2>1, <3>1, <3>2, NotUnmapped, MarksDiffer, MarksAreNoPages
  <2> QED
    BY <1>1, <1>2, <1>12, <2>1, <2>2, <2>3, MarksAreNoPages
<1>13. EmptyAhead'
  <2>1. ASSUME NEW c \in FreeBlocks(bm)
        PROVE  flash'[c] = Erased
    <3>1. c \in Block /\ c # BlockOf(free_page) /\ flash[c] = Erased
      BY <1>1, <1>3, <2>1, NothingTwice DEF Sound, BlocksApart, EmptyAhead, TypeOK
    <3>2. \A q \in PageNo : flash'[c][q] = EMPTY
      BY <1>12, <3>1 DEF Erased
    <3>3. flash'[c] = [q \in PageNo |-> flash'[c][q]]
      BY <1>1, <3>1
    <3> QED
      BY <3>2, <3>3 DEF Erased
  <2>2. ASSUME currentDataPage # -1, NEW q \in PageNo, q > PageIn(currentDataPage)
        PROVE  flash'[BlockOf(currentDataPage)][q] = EMPTY
    <3>1. currentDataPage \in Page /\ BlockOf(currentDataPage) \in Block
          /\ PageIn(currentDataPage) \in PageNo
      BY <1>4, <2>2, PageParts
    <3>2. flash[BlockOf(currentDataPage)][q] = EMPTY
      BY <1>3, <2>2 DEF EmptyAhead
    <3>3. BlockOf(currentDataPage) # BlockOf(free_page) \/ q # PageIn(free_page)
      <4>1. CASE free_page = currentDataPage
        BY <2>2, <3>1, <4>1 DEF PageNo
      <4>2. CASE BlockOf(free_page) = inuseBlock
        <5>1. BlockOf(free_page) \in BlocksToUseUp
          BY <1>1, <4>2, NotUnmapped DEF BlocksToUseUp
        <5>2. BlockOf(currentDataPage) \in CurrentBlocks
          BY <2>2 DEF CurrentBlocks
        <5> QED
          BY <1>3, <5>1, <5>2 DEF BlocksApart
      <4> QED
        BY <1>3, <1>5, <4>1, <4>2 DEF Sound, GotEmptyPage, GotPage
    <3> QED
      BY <1>12, <3>1, <3>2, <3>3
  <2>3. ASSUME NEW a \in LBA, HasOwnBlock(a), NEW q \in PageNo, q >= block_map[a].nextPage
        PROVE  flash'[block_map[a].pbn][q] \in {EMPTY, INVALID}
    <3>1. block_map[a].pbn \in Block
      BY <1>3, <2>3 DEF TypeOK, HasOwnBlock
    <3>2. block_map[a].pbn # BlockOf(free_page)
      BY <1>1, <1>3, <2>3 DEF BlocksApart
    <3>3. flash[block_map[a].pbn][q] \in {EMPTY, INVALID}
      BY <1>3, <2>3 DEF EmptyAhead
    <3> QED
      BY <1>12, <3>1, <3>2, <3>3
  <2> QED
    BY <1>5, <1>10, <2>1, <2>2, <2>3 DEF EmptyAhead, bvars, BlockOf, PageIn
<1>14. TypeOK'
  <2>1. reverse_trans_map' \in [Page -> LPN \cup {NULL}]
    BY <1>1, <1>4, <1>5
  <2> QED
    BY <1>1, <1>3, <1>5, <1>6, <2>1 DEF TypeOK, bvars
<1>15. CounterWithinCache'
  <2>1. Cached(trans_map') = Cached(trans_map)
    BY <1>6 DEF Cached
  <2> QED
    BY <1>5, <2>1 DEF IInv, CounterWithinCache
<1>16. OptimalUnmapped'
  BY <1>3, <1>5, <1>7 DEF OptimalUnmapped, bvars, Lbn
<1>17. DftlHasNoBlocks'
  BY <1>5 DEF IInv, DftlHasNoBlocks, bvars
<1>18. HandsOutOnce(bm)' /\ (bm.invalid_list = <<>>)'
  BY <1>3, <1>5 DEF Sound, HandsOutOnce
<1>19. GotEmptyPage' /\ (stray => pc = "idle")'
  BY <1>5 DEF GotEmptyPage, GotPage
<1> QED
  BY <1>9, <1>11, <1>13, <1>14, <1>15, <1>16, <1>17, <1>18, <1>19 DEF IInv, Sound

-----------------------------------------------------------------------------
(* The blocks of the logical blocks that are written in order.               *)
LEMMA NewBlockKeeps ==
  ASSUME IInv, ~stray, WriteNewBlock, ftl = "BDFTL", UNCHANGED ftl
  PROVE  IInv' /\ UNCHANGED flash
<1> DEFINE new == FreeBlock(bm)
<1>1. /\ TypeOK /\ Sound /\ BlocksApart /\ EmptyAhead /\ lpn \in LPN /\ pc = "block"
      /\ Lbn \in LBA /\ block_map[Lbn].optimal /\ block_map[Lbn].pbn = NULL
      /\ block_map \in [LBA -> [pbn : Block \cup {NULL}, nextPage : 0 .. BLOCK_SIZE,
                                optimal : BOOLEAN]]
  BY PositionType DEF IInv, TypeOK, Sound, WriteNewBlock, NeedsBlock, Lbn
<1>2. /\ bm' = get_free_block(bm, "DATA") /\ HasFreeBlock(bm) /\ UNCHANGED flash
      /\ block_map' = [block_map EXCEPT ![Lbn].pbn = new]
      /\ UNCHANGED <<trans_map, cmt, persisted, reverse_trans_map, currentDataPage, pc, lpn,
                     free_page, trim_map, inuseBlock, blockQueue, stray>>
  BY MemoryPlain DEF WriteNewBlock, table
<1>3. /\ new \in Block /\ bm' \in Manager
      /\ HandsOutOnce(bm)' /\ (bm.invalid_list = <<>>)'
      /\ FreeBlocks(bm)' = FreeBlocks(bm) \ {new}
      /\ flash[new] = Erased
      /\ new \notin CurrentBlocks \cup BlocksToUseUp \cup MappedBlocks
      /\ \A a \in LBA : HasOwnBlock(a) => block_map[a].pbn # new
  BY <1>2, TakeBlock
<1> HIDE DEF new
<1>4. /\ block_map' \in [LBA -> [pbn : Block \cup {NULL}, nextPage : 0 .. BLOCK_SIZE,
                                 optimal : BOOLEAN]]
      /\ \A a \in LBA : a # Lbn => block_map'[a] = block_map[a]
      /\ block_map'[Lbn].pbn = new /\ block_map'[Lbn].optimal
      /\ \A a \in LBA : block_map'[a].optimal <=> block_map[a].optimal
  BY <1>1, <1>2, <1>3
<1>5. /\ CurrentBlocks' = CurrentBlocks /\ BlocksToUseUp' = BlocksToUseUp
      /\ MappedBlocks' = MappedBlocks
      /\ \A a \in LBA : HasOwnBlock(a)' => HasOwnBlock(a) \/ a = Lbn
  BY <1>2, <1>4 DEF CurrentBlocks, BlocksToUseUp, Blocks, MappedBlocks, Mapped, BlockOf,
     HasOwnBlock
<1>6. BlocksApart'
  <2>1. ASSUME NEW a \in LBA, HasOwnBlock(a)'
        PROVE  /\ a = Lbn => block_map'[a].pbn = new
               /\ a # Lbn => HasOwnBlock(a) /\ block_map'[a].pbn = block_map[a].pbn
    BY <1>4, <1>5, <2>1
  <2>2. ASSUME NEW a \in LBA, HasOwnBlock(a)'
        PROVE  block_map'[a].pbn \notin
                 FreeBlocks(bm)' \cup CurrentBlocks \cup BlocksToUseUp \cup MappedBlocks
    BY <1>1, <1>3, <2>1, <2>2 DEF BlocksApart
  <2>3. ASSUME NEW a \in LBA, NEW c \in LBA, HasOwnBlock(a)', HasOwnBlock(c)',
               block_map'[c].pbn = block_map'[a].pbn
        PROVE  c = a
    BY <1>1, <1>3, <2>1, <2>3 DEF BlocksApart
  <2> QED
    BY <1>1, <1>3, <1>5, <2>2, <2>3 DEF BlocksApart
<1>7. EmptyAhead'
  <2>1. \A c \in FreeBlocks(bm)' : flash'[c] = Erased
    BY <1>1, <1>2, <1>3 DEF EmptyAhead
  <2>2. \A p \in PageNo : flash[new][p] = EMPTY
    BY <1>3 DEF Erased
  <2>3. ASSUME NEW a \in LBA, HasOwnBlock(a)', NEW p \in PageNo,
               p >= block_map'[a].nextPage
        PROVE  flash'[block_map'[a].pbn][p] \in {EMPTY, INVALID}
    <3>1. CASE a = Lbn
      BY <1>2, <1>4, <2>2, <3>1
    <3>2. CASE a # Lbn
      BY <1>1, <1>2, <1>4, <1>5, <2>3, <3>2 DEF EmptyAhead
    <3> QED
      BY <3>1, <3>2
  <2> QED
    BY <1>1, <1>2, <2>1, <2>3 DEF EmptyAhead, BlockOf, PageIn
<1>8. TypeOK'
  BY <1>1, <1>2, <1>3, <1>4 DEF TypeOK
<1>9. ReverseMapExact'
  BY <1>2 DEF IInv, ReverseMapExact, Mapped, BlockOf, PageIn
<1>10. CounterWithinCache'
  BY <1>2 DEF IInv, CounterWithinCache, Cached
<1>11. OptimalUnmapped'
  <2>1. \A l \in Mapped : LbaOf(l) \in LBA
    BY PositionType DEF Mapped
  <2> QED
    BY <1>1, <1>2, <1>4, <2>1 DEF Sound, OptimalUnmapped, Mapped, Lbn
<1>12. GotEmptyPage'
  BY <1>1, <1>2 DEF GotEmptyPage, GotPage
<1> QED
  BY <1>2, <1>3, <1>6, <1>7, <1>8, <1>9, <1>10, <1>11, <1>12 DEF IInv, Sound, DftlHasNoBlocks

LEMMA InOrderKeeps ==
  ASSUME IInv, ~stray, WriteInOrder, ftl = "BDFTL", UNCHANGED ftl
  PROVE  IInv'
<1> DEFINE own == block_map[Lbn].pbn
<1>1. /\ TypeOK /\ Sound /\ BlocksApart /\ EmptyAhead /\ lpn \in LPN /\ pc = "block"
      /\ Lbn \in LBA /\ HasOwnBlock(Lbn) /\ block_map[Lbn].nextPage = Offset
      /\ Offset \in PageNo /\ own \in Block /\ flash[own][Offset] = EMPTY
      /\ block_map \in [LBA -> [pbn : Block \cup {NULL}, nextPage : 0 .. BLOCK_SIZE,
                                optimal : BOOLEAN]]
      /\ flash \in [Block -> [PageNo -> LPN \cup {EMPTY, INVALID, OLD}]]
  BY PositionType DEF IInv, TypeOK, Sound, WriteInOrder, InOrder, Lbn, Offset, HasOwnBlock,
     MayProgram
<1>2. /\ flash' = Program(flash, own, Offset, lpn)
      /\ block_map' = [block_map EXCEPT ![Lbn].nextPage = @ + 1]
      /\ pc' = "idle" /\ lpn' = NULL
      /\ UNCHANGED <<bm, trans_map, cmt, persisted, reverse_trans_map, currentDataPage,
                     free_page, trim_map, inuseBlock, blockQueue, stray>>
  BY DEF WriteInOrder, table
<1> HIDE DEF own
<1>3. /\ flash' \in [Block -> [PageNo -> LPN \cup {EMPTY, INVALID, OLD}]]
      /\ \A c \in Block, q \in PageNo : c # own \/ q # Offset =>
           flash'[c][q] = IF flash[c][q] = lpn THEN OLD ELSE flash[c][q]
  BY <1>1, <1>2, ProgramType
<1>4. ASSUME NEW c \in Block, NEW q \in PageNo, flash[c][q] \in {EMPTY, INVALID},
             c # own \/ q # Offset
      PROVE  flash'[c][q] = flash[c][q]
  BY <1>1, <1>3, <1>4, MarksAreNoPages
<1>5. /\ block_map' \in [LBA -> [pbn : Block \cup {NULL}, nextPage : 0 .. BLOCK_SIZE,
                                 optimal : BOOLEAN]]
      /\ \A a \in LBA : a # Lbn => block_map'[a] = block_map[a]
      /\ block_map'[Lbn].nextPage = Offset + 1
      /\ \A a \in LBA : /\ block_map'[a].optimal <=> block_map[a].optimal
                        /\ block_map'[a].pbn = block_map[a].pbn
  <2>1. Offset + 1 \in 0 .. BLOCK_SIZE
    BY <1>1, BlockSizeType DEF PageNo
  <2> QED
    BY <1>1, <1>2, <2>1
<1>6. /\ CurrentBlocks' = CurrentBlocks /\ BlocksToUseUp' = BlocksToUseUp
      /\ MappedBlocks' = MappedBlocks /\ FreeBlocks(bm)' = FreeBlocks(bm)
      /\ \A a \in LBA : HasOwnBlock(a)' <=> HasOwnBlock(a)
  BY <1>2, <1>5 DEF CurrentBlocks, BlocksToUseUp, Blocks, MappedBlocks, Mapped, BlockOf,
     HasOwnBlock, FreeBlocks
<1>7. BlocksApart'
  BY <1>1, <1>5, <1>6 DEF BlocksApart
<1>8. own \notin FreeBlocks(bm) \cup CurrentBlocks \cup BlocksToUseUp \cup MappedBlocks
      /\ \A a \in LBA : HasOwnBlock(a) /\ block_map[a].pbn = own => a = Lbn
  BY <1>1 DEF BlocksApart, own
<1>9. EmptyAhead'
  <2>1. ASSUME NEW c \in FreeBlocks(bm)
        PROVE  flash'[c] = Erased
    <3>1. c \in Block /\ c # own /\ flash[c] = Erased
      BY <1>1, <1>8, <2>1, NothingTwice DEF Sound, EmptyAhead, TypeOK
    <3>2. \A q \in PageNo : flash'[c][q] = EMPTY
      BY <1>4, <3>1 DEF Erased
    <3>3. flash'[c] = [q \in PageNo |-> flash'[c][q]]
      BY <1>3, <3>1
    <3> QED
      BY <3>2, <3>3 DEF Erased
  <2>2. ASSUME currentDataPage # -1, NEW q \in PageNo, q > PageIn(currentDataPage)
        PROVE  flash'[BlockOf(currentDataPage)][q] = EMPTY
    <3>1. currentDataPage \in Page /\ BlockOf(currentDataPage) \in Block
      BY <1>1, <2>2, PageParts DEF TypeOK
    <3>2. flash[BlockOf(currentDataPage)][q] = EMPTY
      BY <1>1, <2>2 DEF EmptyAhead
    <3>3. BlockOf(currentDataPage) # own
      BY <1>8, <2>2 DEF CurrentBlocks
    <3> QED
      BY <1>4, <3>1, <3>2, <3>3
  <2>3. ASSUME NEW a \in LBA, HasOwnBlock(a), NEW q \in PageNo, q >= block_map'[a].nextPage
        PROVE  flash'[block_map[a].pbn][q] \in {EMPTY, INVALID}
    <3>1. block_map[a].pbn \in Block
      BY <1>1, <2>3 DEF HasOwnBlock
    <3>2. q >= block_map[a].nextPage
      BY <1>1, <1>5, <2>3 DEF PageNo
    <3>3. flash[block_map[a].pbn][q] \in {EMPTY, INVALID}
      BY <1>1, <2>3, <3>2 DEF EmptyAhead
    <3>4. block_map[a].pbn # own \/ q # Offset
      BY <1>1, <1>5, <1>8, <2>3 DEF PageNo
    <3> QED
      BY <1>4, <3>1, <3>3, <3>4
  <2> QED
    BY <1>2, <1>5, <1>6, <2>1, <2>2, <2>3 DEF EmptyAhead, BlockOf, PageIn
<1>10. ReverseMapExact'
  <2>1. ASSUME NEW l \in Mapped
        PROVE  /\ reverse_trans_map[trans_map[l].ppn] = l
               /\ flash'[BlockOf(trans_map[l].ppn)][PageIn(trans_map[l].ppn)] \in {l, OLD}
    <3>1. /\ l \in LPN /\ BlockOf(trans_map[l].ppn) \in Block
          /\ PageIn(trans_map[l].ppn) \in PageNo
          /\ BlockOf(trans_map[l].ppn) \in MappedBlocks
          /\ reverse_trans_map[trans_map[l].ppn] = l
          /\ flash[BlockOf(trans_map[l].ppn)][PageIn(trans_map[l].ppn)] \in {l, OLD}
      BY MappedPage
    <3>2. BlockOf(trans_map[l].ppn) # own
      BY <1>8, <3>1
    <3> QED
      BY <1>3, <3>1, <3>2
  <2> QED
    BY <1>2, <2>1 DEF ReverseMapExact, Mapped, BlockOf, PageIn
<1>11. TypeOK'
  BY <1>1, <1>2, <1>3, <1>5 DEF TypeOK
<1>12. CounterWithinCache'
  BY <1>2 DEF IInv, CounterWithinCache, Cached
<1>13. OptimalUnmapped'
  <2>1. \A l \in Mapped : LbaOf(l) \in LBA
    BY PositionType DEF Mapped
  <2> QED
    BY <1>1, <1>2, <1>5, <2>1 DEF Sound, OptimalUnmapped, Mapped, Lbn
<1>14. GotEmptyPage' /\ DftlHasNoBlocks'
  BY <1>2 DEF GotEmptyPage, GotPage, DftlHasNoBlocks
<1>15. HandsOutOnce(bm)' /\ (bm.invalid_list = <<>>)'
  BY <1>1, <1>2 DEF Sound, HandsOutOnce
<1> QED
  BY <1>2, <1>7, <1>9, <1>10, <1>11, <1>12, <1>13, <1>14, <1>15 DEF IInv, Sound

-----------------------------------------------------------------------------
(* A logical block that is not written in order any more.                    *)

(* No page of an optimal block is mapped, so that its conversion enters none. *)
LEMMA NothingTransferred ==
  ASSUME IInv, ~stray, Convert, ftl = "BDFTL"
  PROVE  /\ Transferred(Lbn) = {}
         /\ UNCHANGED <<trans_map, reverse_trans_map, cmt>>
<1>1. TypeOK /\ OptimalUnmapped /\ block_map[Lbn].optimal
  BY DEF IInv, Sound, Convert, OutOfOrder
<1>2. Transferred(Lbn) = {}
  BY <1>1 DEF OptimalUnmapped, Transferred, Mapped
<1>3. trans_map' = [l \in LPN |-> trans_map[l]]
  BY <1>2 DEF Convert
<1>4. reverse_trans_map' = [p \in Page |-> reverse_trans_map[p]]
  BY <1>2 DEF Convert
<1>5. cmt' = cmt + Cardinality({})
  BY <1>2 DEF Convert
<1>6. Cardinality({}) = 0
  BY FS_EmptySet
<1> QED
  BY <1>1, <1>2, <1>3, <1>4, <1>5, <1>6 DEF TypeOK

LEMMA PagewiseKeeps ==
  ASSUME IInv, ~stray, ftl = "BDFTL", pc = "block", pc' = "page",
         block_map' = [block_map EXCEPT ![Lbn].optimal = FALSE],
         BlocksToUseUp' \subseteq
           BlocksToUseUp \cup (IF HasOwnBlock(Lbn) THEN {block_map[Lbn].pbn} ELSE {}),
         (inuseBlock \in Block \cup {NULL} /\ blockQueue \in Seq(Block))',
         UNCHANGED <<flash, bm, trans_map, reverse_trans_map, cmt, persisted, currentDataPage,
                     lpn, free_page, trim_map, stray, ftl>>
  PROVE  IInv'
<1>1. /\ TypeOK /\ Sound /\ BlocksApart /\ EmptyAhead /\ lpn \in LPN
      /\ Lbn \in LBA
      /\ block_map \in [LBA -> [pbn : Block \cup {NULL}, nextPage : 0 .. BLOCK_SIZE,
                                optimal : BOOLEAN]]
  BY PositionType DEF IInv, TypeOK, Sound, Lbn
<1>2. /\ block_map' \in [LBA -> [pbn : Block \cup {NULL}, nextPage : 0 .. BLOCK_SIZE,
                                 optimal : BOOLEAN]]
      /\ \A a \in LBA : a # Lbn => block_map'[a] = block_map[a]
      /\ ~block_map'[Lbn].optimal
  BY <1>1
<1>3. \A a \in LBA : HasOwnBlock(a)' => HasOwnBlock(a) /\ a # Lbn /\ block_map'[a] = block_map[a]
  BY <1>2 DEF HasOwnBlock
<1>4. /\ CurrentBlocks' = CurrentBlocks /\ FreeBlocks(bm)' = FreeBlocks(bm)
      /\ MappedBlocks' = MappedBlocks
  BY DEF CurrentBlocks, FreeBlocks, Blocks, MappedBlocks, Mapped, BlockOf
<1>5. BlocksApart'
  <2>1. ASSUME NEW b \in BlocksToUseUp'
        PROVE  /\ b \notin FreeBlocks(bm) \cup CurrentBlocks
               /\ \A a \in LBA : HasOwnBlock(a) /\ a # Lbn => block_map[a].pbn # b
    <3>1. CASE b \in BlocksToUseUp
      BY <1>1, <3>1 DEF BlocksApart
    <3>2. CASE HasOwnBlock(Lbn) /\ b = block_map[Lbn].pbn
      BY <1>1, <3>2 DEF BlocksApart
    <3> QED
      BY <2>1, <3>1, <3>2
  <2>2. ASSUME NEW a \in LBA, HasOwnBlock(a)'
        PROVE  block_map'[a].pbn \notin
                 FreeBlocks(bm) \cup CurrentBlocks \cup BlocksToUseUp' \cup MappedBlocks
    BY <1>1, <1>3, <2>1, <2>2 DEF BlocksApart
  <2>3. ASSUME NEW a \in LBA, NEW c \in LBA, HasOwnBlock(a)', HasOwnBlock(c)',
               block_map'[c].pbn = block_map'[a].pbn
        PROVE  c = a
    BY <1>1, <1>3, <2>3 DEF BlocksApart
  <2> QED
    BY <1>1, <1>4, <2>1, <2>2, <2>3 DEF BlocksApart
<1>6. EmptyAhead'
  BY <1>1, <1>3, <1>4 DEF EmptyAhead, BlockOf, PageIn
<1>7. ReverseMapExact'
  BY DEF IInv, ReverseMapExact, Mapped, BlockOf, PageIn
<1>8. CounterWithinCache'
  BY DEF IInv, CounterWithinCache, Cached
<1>9. OptimalUnmapped'
  <2>1. \A l \in Mapped : LbaOf(l) \in LBA
    BY PositionType DEF Mapped
  <2> QED
    BY <1>1, <1>2, <2>1 DEF Sound, OptimalUnmapped, Mapped, Lbn
<1>10. TypeOK'
  BY <1>1, <1>2 DEF TypeOK
<1>11. GotEmptyPage' /\ DftlHasNoBlocks'
  BY DEF GotEmptyPage, GotPage, DftlHasNoBlocks
<1>12. HandsOutOnce(bm)' /\ (bm.invalid_list = <<>>)'
  BY <1>1 DEF Sound, HandsOutOnce
<1> QED
  BY <1>5, <1>6, <1>7, <1>8, <1>9, <1>10, <1>11, <1>12 DEF IInv, Sound

LEMMA ConvertKeeps ==
  ASSUME IInv, ~stray, ftl = "BDFTL", Convert, UNCHANGED ftl
  PROVE  IInv'
<1> DEFINE b == block_map[Lbn].pbn
<1>1. /\ UNCHANGED <<trans_map, reverse_trans_map, cmt>>
      /\ pc = "block" /\ HasOwnBlock(Lbn)
  BY NothingTransferred DEF Convert, OutOfOrder, HasOwnBlock
<1>2. b \in Block /\ inuseBlock \in Block \cup {NULL} /\ blockQueue \in Seq(Block)
  BY <1>1, PositionType DEF IInv, TypeOK, HasOwnBlock, Lbn
<1>3. (inuseBlock \in Block \cup {NULL} /\ blockQueue \in Seq(Block))'
  BY <1>2 DEF Convert
<1>4. BlocksToUseUp' \subseteq BlocksToUseUp \cup {b}
  <2> DEFINE q == Append(blockQueue, b)
  <2>1. Blocks(q) \subseteq Blocks(blockQueue) \cup {b}
    BY <1>2 DEF Blocks
  <2>2. /\ inuseBlock' \in {inuseBlock, b}
        /\ blockQueue' \in {blockQueue, q}
    BY DEF Convert
  <2> HIDE DEF b, q
  <2>3. Blocks(blockQueue') \subseteq Blocks(blockQueue) \cup {b}
    BY <2>1, <2>2
  <2> QED
    BY <2>2, <2>3 DEF BlocksToUseUp
<1> QED
  BY <1>1, <1>3, <1>4, PagewiseKeeps DEF Convert

LEMMA WritePagewiseKeeps ==
  ASSUME IInv, ~stray, ftl = "BDFTL", WritePagewise, UNCHANGED ftl
  PROVE  IInv'
<1>1. (inuseBlock \in Block \cup {NULL} /\ blockQueue \in Seq(Block))'
  BY DEF WritePagewise, IInv, TypeOK
<1>2. BlocksToUseUp' \subseteq BlocksToUseUp
  BY DEF WritePagewise, BlocksToUseUp, Blocks
<1> QED
  BY <1>1, <1>2, PagewiseKeeps DEF WritePagewise, table

(* The first page that is empty, if one is.                                  *)
LEMMA FirstEmptyPage ==
  ASSUME NEW b \in Block, ~UsedUp(b)
  PROVE  /\ FirstEmpty(b) \in Page /\ BlockOf(FirstEmpty(b)) = b
         /\ flash[b][PageIn(FirstEmpty(b))] = EMPTY
<1> DEFINE S == EmptyPages(b)
<1>1. S # {} /\ S \subseteq PageNo
  BY NotUnmapped DEF UsedUp, EmptyPages
<1>2. S \subseteq Nat
  BY <1>1 DEF PageNo
<1>3. PICK p \in S : \A q \in S : ~(<<q, p>> \in OpToRel(<, Nat))
  BY <1>1, <1>2, NatLessThanWellFounded, WFMin
<1> HIDE DEF S
<1>4. \A q \in S : p =< q
  <2>1. \A q \in S : ~(q < p)
    BY <1>2, <1>3 DEF OpToRel
  <2> QED
    BY <1>2, <2>1
<1>5. Min(S) \in S
  BY <1>4 DEF Min
<1>6. Min(S) \in PageNo /\ flash[b][Min(S)] = EMPTY
  BY <1>5 DEF EmptyPages, S
<1>7. FirstEmpty(b) = b * BLOCK_SIZE + Min(S)
  BY DEF FirstEmpty, S
<1> QED
  BY <1>6, <1>7, PageOf

LEMMA UsedPageKeeps ==
  ASSUME IInv, ~stray, ftl = "BDFTL", GetUsedPage, UNCHANGED ftl
  PROVE  IInv'
<1>1. /\ TypeOK /\ Sound /\ BlocksApart /\ EmptyAhead /\ lpn \in LPN /\ pc = "page"
      /\ inuseBlock \in Block \cup {NULL} /\ blockQueue \in Seq(Block)
  BY DEF IInv, TypeOK, Sound, GetUsedPage
<1>2. /\ pc' = "write"
      /\ UNCHANGED <<flash, bm, trans_map, cmt, persisted, reverse_trans_map, currentDataPage,
                     lpn, block_map, trim_map, stray>>
  BY DEF GetUsedPage, table
<1>3. /\ inuseBlock' \in Block /\ blockQueue' \in Seq(Block)
      /\ BlocksToUseUp' \subseteq BlocksToUseUp
      /\ free_page' \in Page /\ BlockOf(free_page') = inuseBlock'
      /\ flash[inuseBlock'][PageIn(free_page')] = EMPTY
  <2>1. CASE ~UsedUp(inuseBlock) /\ free_page' = FirstEmpty(inuseBlock)
             /\ UNCHANGED <<inuseBlock, blockQueue>>
    <3>1. inuseBlock \in Block
      BY <1>1, <2>1 DEF UsedUp
    <3>2. BlocksToUseUp' = BlocksToUseUp
      BY <2>1 DEF BlocksToUseUp, Blocks
    <3> QED
      BY <1>1, <2>1, <3>1, <3>2, FirstEmptyPage
  <2>2. CASE /\ UsedUp(inuseBlock) /\ blockQueue # <<>> /\ ~UsedUp(Head(blockQueue))
             /\ free_page' = FirstEmpty(Head(blockQueue))
             /\ inuseBlock' = Head(blockQueue) /\ blockQueue' = Tail(blockQueue)
    <3>1. Head(blockQueue) \in Block /\ Tail(blockQueue) \in Seq(Block)
      BY <1>1, <2>2
    <3>2. /\ Head(blockQueue) \in Blocks(blockQueue)
          /\ Blocks(Tail(blockQueue)) \subseteq Blocks(blockQueue)
      BY <1>1, <2>2 DEF Blocks
    <3>3. Blocks(blockQueue') \subseteq Blocks(blockQueue)
      BY <2>2, <3>2
    <3>4. BlocksToUseUp' \subseteq BlocksToUseUp
      BY <2>2, <3>2, <3>3 DEF BlocksToUseUp
    <3> QED
      BY <2>2, <3>1, <3>4, FirstEmptyPage
  <2> QED
    BY <2>1, <2>2 DEF GetUsedPage
<1>4. /\ CurrentBlocks' = CurrentBlocks /\ FreeBlocks(bm)' = FreeBlocks(bm)
      /\ MappedBlocks' = MappedBlocks
      /\ \A a \in LBA : HasOwnBlock(a)' <=> HasOwnBlock(a)
  BY <1>2 DEF CurrentBlocks, FreeBlocks, Blocks, MappedBlocks, Mapped, BlockOf, HasOwnBlock
<1>5. BlocksApart'
  BY <1>1, <1>2, <1>3, <1>4 DEF BlocksApart
<1>6. EmptyAhead'
  BY <1>1, <1>2, <1>4 DEF EmptyAhead, BlockOf, PageIn
<1>7. ReverseMapExact'
  BY <1>2 DEF IInv, ReverseMapExact, Mapped, BlockOf, PageIn
<1>8. CounterWithinCache'
  BY <1>2 DEF IInv, CounterWithinCache, Cached
<1>9. OptimalUnmapped'
  BY <1>1, <1>2 DEF Sound, OptimalUnmapped, Mapped, Lbn
<1>10. TypeOK'
  BY <1>1, <1>2, <1>3 DEF TypeOK
<1>11. GotEmptyPage'
  BY <1>2, <1>3 DEF GotEmptyPage, BlockOf, PageIn
<1>12. HandsOutOnce(bm)' /\ (bm.invalid_list = <<>>)'
  BY <1>1, <1>2 DEF Sound, HandsOutOnce
<1> QED
  BY <1>2, <1>5, <1>6, <1>7, <1>8, <1>9, <1>10, <1>11, <1>12 DEF IInv, Sound, DftlHasNoBlocks

-----------------------------------------------------------------------------
(* Trims.                                                                  *)

(* The table and the flash after the trim of a page that is mapped.           *)
LEMMA TrimmedTable ==
  ASSUME IInv, ~stray, NEW l \in Mapped, TrimMapped(l)
  PROVE  /\ trans_map' \in [LPN -> MPage]
         /\ Mapped' = Mapped \ {l}
         /\ Cached(trans_map') = Cached(trans_map)
         /\ \A k \in LPN \ {l} : trans_map'[k].ppn = trans_map[k].ppn
         /\ cmt' \in Int /\ cmt' <= cmt
         /\ persisted' \in [LPN -> Page \cup {-1}]
<1> DEFINE r == trans_map[l]
           n == [r EXCEPT !.ppn = -1]
           tm == IF r.cached THEN Evicted(trans_map, l) ELSE trans_map
<1>1. /\ TypeOK /\ l \in LPN /\ trans_map \in [LPN -> MPage] /\ r \in MPage
      /\ cmt \in Int /\ persisted \in [LPN -> Page \cup {-1}]
  BY DEF IInv, TypeOK, Mapped
<1>2. n \in MPage /\ n.ppn = -1 /\ (n.cached <=> r.cached)
  <2> HIDE DEF r
  <2>1. n \in MPage /\ n.ppn = -1
    BY <1>1 DEF MPage
  <2>2. n.cached <=> r.cached
    BY <1>1 DEF MPage
  <2> QED
    BY <2>1, <2>2
<1>3. /\ tm \in [LPN -> MPage]
      /\ \A k \in LPN : tm[k].ppn = trans_map[k].ppn
      /\ Cached(tm) = Cached(trans_map) \ {l}
  <2>1. CASE r.cached
    <3>1. l \in Cached(trans_map)
      BY <1>1, <2>1 DEF Cached
    <3> QED
      BY <1>1, <2>1, <3>1, EvictedTable DEF SamePages
  <2>2. CASE ~r.cached
    BY <1>1, <2>2 DEF Cached
  <2> QED
    BY <2>1, <2>2
<1>4. trans_map' = [tm EXCEPT ![l] = n]
  BY DEF TrimMapped
<1>5. cmt' \in Int /\ cmt' <= cmt /\ persisted' \in [LPN -> Page \cup {-1}]
  BY <1>1, PersistedType DEF TrimMapped
<1>6. r.cached <=> l \in Cached(trans_map)
  BY <1>1 DEF Cached
<1> HIDE DEF tm, n, r
<1>7. /\ trans_map' \in [LPN -> MPage] /\ trans_map'[l] = n
      /\ \A k \in LPN \ {l} : trans_map'[k] = tm[k]
  BY <1>1, <1>2, <1>3, <1>4
<1>8. Mapped' = Mapped \ {l}
  BY <1>2, <1>3, <1>7 DEF Mapped
<1>9. Cached(trans_map') = Cached(trans_map)
  <2>1. ASSUME NEW k \in LPN
        PROVE  trans_map'[k].cached <=> k \in Cached(trans_map)
    <3>1. CASE k = l
      BY <1>2, <1>6, <1>7, <3>1
    <3>2. CASE k # l
      <4>1. trans_map'[k] = tm[k] /\ (tm[k].cached <=> k \in Cached(tm))
        BY <1>7, <3>2 DEF Cached
      <4> QED
        BY <1>3, <3>2, <4>1
    <3> QED
      BY <3>1, <3>2
  <2> QED
    BY <2>1 DEF Cached
<1> QED
  BY <1>3, <1>5, <1>7, <1>8, <1>9

(* The pages of the others are as they were, as is what is EMPTY.             *)
LEMMA TrimmedFlash ==
  ASSUME IInv, ~stray, NEW l \in Mapped, TrimMapped(l)
  PROVE  /\ flash' \in [Block -> [PageNo -> LPN \cup {EMPTY, INVALID, OLD}]]
         /\ \A k \in Mapped \ {l} :
              flash'[BlockOf(trans_map[k].ppn)][PageIn(trans_map[k].ppn)] =
                flash[BlockOf(trans_map[k].ppn)][PageIn(trans_map[k].ppn)]
         /\ \A c \in Block, q \in PageNo :
              flash[c][q] \in {EMPTY, INVALID} => flash'[c][q] = flash[c][q]
         /\ \A c \in Block : c \notin MappedBlocks => flash'[c] = flash[c]
<1> DEFINE n == trans_map[l].ppn
<1>1. /\ l \in LPN /\ n \in Page /\ BlockOf(n) \in Block /\ PageIn(n) \in PageNo
      /\ BlockOf(n) \in MappedBlocks
      /\ reverse_trans_map[n] = l /\ flash[BlockOf(n)][PageIn(n)] \in {l, OLD}
  BY MappedPage
<1>2. flash \in [Block -> [PageNo -> LPN \cup {EMPTY, INVALID, OLD}]]
  BY DEF IInv, TypeOK
<1>3. flash' = invalidate_page(flash, BlockOf(n), PageIn(n))
  BY DEF TrimMapped
<1>4. ASSUME NEW k \in Mapped \ {l}
      PROVE  flash'[BlockOf(trans_map[k].ppn)][PageIn(trans_map[k].ppn)] =
               flash[BlockOf(trans_map[k].ppn)][PageIn(trans_map[k].ppn)]
  <2> DEFINE m == trans_map[k].ppn
  <2>1. m \in Page /\ reverse_trans_map[m] = k /\ BlockOf(m) \in Block /\ PageIn(m) \in PageNo
    BY MappedPage
  <2>2. m # n
    BY <1>1, <2>1
  <2> HIDE DEF m, n
  <2>3. BlockOf(m) # BlockOf(n) \/ PageIn(m) # PageIn(n)
    BY <1>1, <2>1, <2>2, SamePage
  <2>4. flash'[BlockOf(m)][PageIn(m)] = flash[BlockOf(m)][PageIn(m)]
    BY <1>1, <1>2, <1>3, <2>1, <2>3, InvalidateType
  <2> QED
    BY <2>4 DEF m
<1> HIDE DEF n
<1>5. ASSUME NEW c \in Block, NEW q \in PageNo, flash[c][q] \in {EMPTY, INVALID}
      PROVE  flash'[c][q] = flash[c][q]
  <2>1. c # BlockOf(n) \/ q # PageIn(n)
    BY <1>1, <1>5, MarksDiffer, MarksAreNoPages
  <2> QED
    BY <1>1, <1>2, <1>3, <2>1, InvalidateType
<1>6. ASSUME NEW c \in Block, c \notin MappedBlocks
      PROVE  flash'[c] = flash[c]
  BY <1>1, <1>2, <1>3, <1>6 DEF invalidate_page
<1>7. flash' \in [Block -> [PageNo -> LPN \cup {EMPTY, INVALID, OLD}]]
  BY <1>1, <1>2, <1>3, InvalidateType
<1> QED
  BY <1>4, <1>5, <1>6, <1>7

LEMMA TrimKeeps ==
  ASSUME IInv, ~stray, pc = "idle", NEW l \in LPN,
         IF l \in Mapped THEN TrimMapped(l) ELSE UNCHANGED <<flash, table>>,
         block_map' \in [LBA -> [pbn : Block \cup {NULL}, nextPage : 0 .. BLOCK_SIZE,
                               optimal : BOOLEAN]],
         \A a \in LBA : HasOwnBlock(a)' => HasOwnBlock(a) /\ block_map'[a] = block_map[a],
         trim_map' \subseteq LPN,
         Mapped' = Mapped \ {l} => OptimalUnmapped',
         DftlHasNoBlocks',
         UNCHANGED <<bm, reverse_trans_map, currentDataPage, pc, lpn, free_page, inuseBlock,
                     blockQueue, stray, ftl>>
  PROVE  IInv'
<1>1. TypeOK /\ Sound /\ BlocksApart /\ EmptyAhead
  BY DEF IInv, Sound
<1>2. /\ trans_map' \in [LPN -> MPage]
      /\ Mapped' = Mapped \ {l}
      /\ Cached(trans_map') = Cached(trans_map)
      /\ \A k \in LPN \ {l} : trans_map'[k].ppn = trans_map[k].ppn
      /\ cmt' \in Int /\ cmt' <= cmt
      /\ persisted' \in [LPN -> Page \cup {-1}]
  <2>1. CASE l \in Mapped
    BY <2>1, TrimmedTable
  <2>2. CASE l \notin Mapped
    <3>1. UNCHANGED <<flash, trans_map, cmt, persisted>>
      BY <2>2 DEF table
    <3>2. Mapped' = Mapped /\ Cached(trans_map') = Cached(trans_map)
      BY <3>1 DEF Mapped
    <3> QED
      BY <1>1, <2>2, <3>1, <3>2 DEF TypeOK
  <2> QED
    BY <2>1, <2>2
<1>3. /\ flash' \in [Block -> [PageNo -> LPN \cup {EMPTY, INVALID, OLD}]]
      /\ \A k \in Mapped \ {l} :
           flash'[BlockOf(trans_map[k].ppn)][PageIn(trans_map[k].ppn)] =
             flash[BlockOf(trans_map[k].ppn)][PageIn(trans_map[k].ppn)]
      /\ \A c \in Block, q \in PageNo :
           flash[c][q] \in {EMPTY, INVALID} => flash'[c][q] = flash[c][q]
  <2>1. CASE l \in Mapped
    BY <2>1, TrimmedFlash
  <2>2. CASE l \notin Mapped
    BY <1>1, <2>2 DEF table, TypeOK
  <2> QED
    BY <2>1, <2>2
<1>4. /\ FreeBlocks(bm)' = FreeBlocks(bm) /\ CurrentBlocks' = CurrentBlocks
      /\ BlocksToUseUp' = BlocksToUseUp
  BY DEF FreeBlocks, Blocks, CurrentBlocks, BlocksToUseUp, BlockOf
<1>5. MappedBlocks' \subseteq MappedBlocks
  BY <1>2 DEF MappedBlocks, Mapped, BlockOf
<1>6. BlocksApart'
  <2>1. ASSUME NEW a \in LBA, HasOwnBlock(a)'
        PROVE  block_map'[a].pbn \notin
                 FreeBlocks(bm) \cup CurrentBlocks \cup BlocksToUseUp \cup MappedBlocks
    BY <1>1, <2>1 DEF BlocksApart
  <2>2. ASSUME NEW a \in LBA, NEW c \in LBA, HasOwnBlock(a)', HasOwnBlock(c)',
               block_map'[c].pbn = block_map'[a].pbn
        PROVE  c = a
    BY <1>1, <2>2 DEF BlocksApart
  <2> QED
    BY <1>1, <1>4, <1>5, <2>1, <2>2 DEF BlocksApart
<1>7. EmptyAhead'
  <2>1. ASSUME NEW c \in FreeBlocks(bm)
        PROVE  flash'[c] = Erased
    <3>1. c \in Block /\ flash[c] = Erased
      BY <1>1, <2>1, NothingTwice DEF Sound, EmptyAhead, TypeOK
    <3>2. \A q \in PageNo : flash'[c][q] = EMPTY
      BY <1>3, <3>1 DEF Erased
    <3>3. flash'[c] = [q \in PageNo |-> flash'[c][q]]
      BY <1>3, <3>1
    <3> QED
      BY <3>2, <3>3 DEF Erased
  <2>2. ASSUME currentDataPage # -1, NEW q \in PageNo, q > PageIn(currentDataPage)
        PROVE  flash'[BlockOf(currentDataPage)][q] = EMPTY
    <3>1. BlockOf(currentDataPage) \in Block
      BY <1>1, <2>2, PageParts DEF TypeOK
    <3>2. flash[BlockOf(currentDataPage)][q] = EMPTY
      BY <1>1, <2>2 DEF EmptyAhead
    <3> QED
      BY <1>3, <3>1, <3>2
  <2>3. ASSUME NEW a \in LBA, HasOwnBlock(a)', NEW q \in PageNo, q >= block_map'[a].nextPage
        PROVE  flash'[block_map'[a].pbn][q] \in {EMPTY, INVALID}
    <3>1. /\ HasOwnBlock(a) /\ block_map'[a] = block_map[a]
      BY <2>3
    <3>2. block_map[a].pbn \in Block
      BY <1>1, <3>1 DEF TypeOK, HasOwnBlock
    <3>3. flash[block_map[a].pbn][q] \in {EMPTY, INVALID}
      BY <1>1, <2>3, <3>1 DEF EmptyAhead
    <3> QED
      BY <1>3, <3>1, <3>2, <3>3
  <2> QED
    BY <1>4, <2>1, <2>2, <2>3 DEF EmptyAhead, BlockOf, PageIn
<1>8. ReverseMapExact'
  <2>1. ASSUME NEW k \in Mapped'
        PROVE  /\ reverse_trans_map[trans_map'[k].ppn] = k
               /\ flash'[BlockOf(trans_map'[k].ppn)][PageIn(trans_map'[k].ppn)] \in {k, OLD}
    <3>1. k \in Mapped \ {l} /\ k \in LPN \ {l}
      BY <1>2, <2>1 DEF Mapped
    <3>2. /\ reverse_trans_map[trans_map[k].ppn] = k
          /\ flash[BlockOf(trans_map[k].ppn)][PageIn(trans_map[k].ppn)] \in {k, OLD}
      BY <3>1, MappedPage
    <3> QED
      BY <1>2, <1>3, <3>1, <3>2
  <2> QED
    BY <2>1 DEF ReverseMapExact, Mapped, BlockOf, PageIn
<1>9. CounterWithinCache'
  <2>1. Cardinality(Cached(trans_map)) \in Nat /\ totalCMTentries \in Int /\ cmt \in Int
    BY <1>1, CachedFinite, DftlAssumption DEF totalCMTentries, TypeOK
  <2>2. cmt <= Cardinality(Cached(trans_map)) /\ cmt <= totalCMTentries
    BY DEF IInv, CounterWithinCache
  <2>3. cmt' <= Cardinality(Cached(trans_map)) /\ cmt' <= totalCMTentries
    BY <1>2, <2>1, <2>2
  <2> QED
    BY <1>2, <2>3 DEF CounterWithinCache, totalCMTentries
<1>10. OptimalUnmapped'
  BY <1>2
<1>11. TypeOK'
  BY <1>1, <1>2, <1>3 DEF TypeOK
<1>12. GotEmptyPage'
  BY DEF GotEmptyPage, GotPage
<1>13. HandsOutOnce(bm)' /\ (bm.invalid_list = <<>>)'
  BY <1>1 DEF Sound, HandsOutOnce
<1> QED
  BY <1>6, <1>7, <1>8, <1>9, <1>10, <1>11, <1>12, <1>13 DEF IInv, Sound

LEMMA DftlTrimKeeps ==
  ASSUME IInv, ~stray, NEW l, ftl = "DFTL", DftlTrim(l), UNCHANGED <<bvars, ftl>>
  PROVE  IInv'
<1>1. /\ l \in LPN /\ l \in Mapped /\ TrimMapped(l) /\ pc = "idle"
      /\ UNCHANGED <<bm, reverse_trans_map, currentDataPage, pc, lpn, free_page>>
  BY DftlAssumption DEF DftlTrim
<1>2. UNCHANGED <<block_map, trim_map, inuseBlock, blockQueue, stray>>
  BY DEF bvars
<1>3. OptimalUnmapped' /\ DftlHasNoBlocks'
  BY <1>1, <1>2 DEF IInv, OptimalUnmapped, DftlHasNoBlocks
<1>4. /\ block_map' \in [LBA -> [pbn : Block \cup {NULL}, nextPage : 0 .. BLOCK_SIZE,
                                 optimal : BOOLEAN]]
      /\ trim_map' \subseteq LPN
  BY <1>2 DEF IInv, TypeOK
<1>5. \A a \in LBA : HasOwnBlock(a)' => HasOwnBlock(a) /\ block_map'[a] = block_map[a]
  BY <1>2 DEF HasOwnBlock
<1> QED
  BY <1>1, <1>2, <1>3, <1>4, <1>5, TrimKeeps

LEMMA TrimPagewiseKeeps ==
  ASSUME IInv, ~stray, NEW l \in LPN, ftl = "BDFTL", pc = "idle", TrimPagewise(l),
         UNCHANGED <<pc, lpn, free_page, inuseBlock, blockQueue, ftl>>
  PROVE  IInv'
<1> DEFINE a == LbaOf(l)
<1>1. /\ ~block_map[a].optimal /\ trim_map' = trim_map \cup {l}
      /\ IF l \in Mapped THEN TrimMapped(l) ELSE UNCHANGED <<flash, table>>
      /\ block_map' = IF AllTrimmed(trim_map', a)
                        THEN [block_map EXCEPT ![a] = NewBPage] ELSE block_map
      /\ UNCHANGED <<bm, reverse_trans_map, currentDataPage, stray>>
  BY DEF TrimPagewise
<1>2. /\ a \in LBA /\ trim_map \subseteq LPN
      /\ block_map \in [LBA -> [pbn : Block \cup {NULL}, nextPage : 0 .. BLOCK_SIZE,
                                optimal : BOOLEAN]]
      /\ OptimalUnmapped
  BY PositionType DEF IInv, Sound, TypeOK
<1>3. NewBPage \in [pbn : Block \cup {NULL}, nextPage : 0 .. BLOCK_SIZE, optimal : BOOLEAN]
      /\ NewBPage.pbn = NULL
  BY BlockSizeType DEF NewBPage
<1>4. block_map' \in [LBA -> [pbn : Block \cup {NULL}, nextPage : 0 .. BLOCK_SIZE,
                             optimal : BOOLEAN]]
  BY <1>1, <1>2, <1>3
<1>5. ASSUME NEW c \in LBA, HasOwnBlock(c)'
      PROVE  HasOwnBlock(c) /\ block_map'[c] = block_map[c]
  <2>1. block_map'[c] = block_map[c] \/ block_map'[c] = NewBPage
    BY <1>1, <1>2
  <2> QED
    BY <1>3, <1>5, <2>1 DEF HasOwnBlock
<1>6. ASSUME Mapped' = Mapped \ {l}
      PROVE  OptimalUnmapped'
  <2>1. ASSUME NEW k \in Mapped \ {l}
        PROVE  k \notin trim_map' /\ ~block_map'[LbaOf(k)].optimal
    <3>1. k \in LPN /\ k \notin trim_map /\ ~block_map[LbaOf(k)].optimal /\ LbaOf(k) \in LBA
      BY <1>2, PositionType DEF OptimalUnmapped, Mapped
    <3>2. k \notin trim_map'
      BY <1>1, <3>1
    <3>3. LbaOf(k) = a => ~AllTrimmed(trim_map', a)
      BY <3>1, <3>2 DEF AllTrimmed
    <3>4. block_map'[LbaOf(k)] = block_map[LbaOf(k)]
      <4> HIDE DEF a
      <4> QED
        BY <1>1, <1>2, <3>1, <3>3
    <3> QED
      BY <3>1, <3>2, <3>4
  <2> QED
    BY <1>6, <2>1 DEF OptimalUnmapped
<1> HIDE DEF a
<1>7. trim_map' \subseteq LPN /\ DftlHasNoBlocks'
  BY <1>1, <1>2 DEF DftlHasNoBlocks
<1> QED
  BY <1>1, <1>4, <1>5, <1>6, <1>7, TrimKeeps

LEMMA GivenBack ==
  ASSUME NEW m \in Manager, NEW b \in Block
  PROVE  /\ erase_and_invalidate(m, b, "DATA") \in Manager
         /\ erase_and_invalidate(m, b, "DATA").invalid_list = m.invalid_list
<1> DEFINE list == Append(m.free_list, b)
           n == [m EXCEPT !.free_list = list]
<1>1. n \in Manager /\ n.invalid_list = m.invalid_list
  <2>1. list \in Seq(Block)
    BY DEF Manager
  <2> HIDE DEF list
  <2> QED
    BY <2>1 DEF Manager
<1>2. erase_and_invalidate(m, b, "DATA") = Discounting(n, "DATA")
  BY DEF erase_and_invalidate
<1> HIDE DEF n
<1> QED
  BY <1>1, <1>2 DEF Discounting, Manager

(* A trim in an optimal block, its own or, gone astray, any.                  *)
LEMMA TrimOptimalType ==
  ASSUME IInv, ~stray, NEW l \in LPN, TrimOptimal(l)
  PROVE  /\ TrimmedPage(l) \in Page
         /\ block_map[LbaOf(l)].pbn # NULL =>
              /\ BlockOf(TrimmedPage(l)) = block_map[LbaOf(l)].pbn
              /\ PageIn(TrimmedPage(l)) = OffsetOf(l)
         /\ flash' \in [Block -> [PageNo -> LPN \cup {EMPTY, INVALID, OLD}]]
         /\ bm' \in Manager /\ (bm.invalid_list = <<>>)'
         /\ block_map' \in [LBA -> [pbn : Block \cup {NULL}, nextPage : 0 .. BLOCK_SIZE,
                                  optimal : BOOLEAN]]
<1> DEFINE a == LbaOf(l)
           b == BlockOf(TrimmedPage(l))
           f == invalidate_page(flash, b, PageIn(TrimmedPage(l)))
<1>1. /\ TypeOK /\ Sound /\ a \in LBA /\ OffsetOf(l) \in PageNo
      /\ bm \in Manager /\ bm.invalid_list = <<>>
      /\ block_map \in [LBA -> [pbn : Block \cup {NULL}, nextPage : 0 .. BLOCK_SIZE,
                                optimal : BOOLEAN]]
      /\ flash \in [Block -> [PageNo -> LPN \cup {EMPTY, INVALID, OLD}]]
  BY PositionType DEF IInv, TypeOK, Sound
<1>2. /\ TrimmedPage(l) \in Page
      /\ block_map[a].pbn # NULL => /\ BlockOf(TrimmedPage(l)) = block_map[a].pbn
                                    /\ PageIn(TrimmedPage(l)) = OffsetOf(l)
  <2>1. CASE block_map[a].pbn # NULL
    <3>1. block_map[a].pbn \in Block
      BY <1>1, <2>1
    <3> QED
      BY <1>1, <2>1, <3>1, PageOf DEF TrimmedPage
  <2>2. CASE block_map[a].pbn = NULL
    <3>1. WRAPPED \in Page
      BY BdftlAssumption
    <3>2. OffsetOf(l) # 0 => OffsetOf(l) - 1 \in PageNo
      BY <1>1, BlockSizeType DEF PageNo
    <3>3. 0 \in Block
      BY NandAssumption DEF Block
    <3>4. OffsetOf(l) # 0 => 0 * BLOCK_SIZE + (OffsetOf(l) - 1) \in Page
      BY <3>2, <3>3, PageOf
    <3>5. 0 * BLOCK_SIZE + (OffsetOf(l) - 1) = OffsetOf(l) - 1
      BY <1>1, BlockSizeType DEF PageNo
    <3> QED
      BY <2>2, <3>1, <3>4, <3>5 DEF TrimmedPage
  <2> QED
    BY <2>1, <2>2
<1>3. b \in Block /\ PageIn(TrimmedPage(l)) \in PageNo
  BY <1>2, PageParts
<1>4. f \in [Block -> [PageNo -> LPN \cup {EMPTY, INVALID, OLD}]]
  BY <1>1, <1>3, InvalidateType
<1>5. IF IsInactive(f[b])
        THEN /\ flash' = Erase(f, b)
             /\ bm' = erase_and_invalidate(bm, b, "DATA")
             /\ block_map' = [block_map EXCEPT ![a].pbn = NULL, ![a].nextPage = 0]
        ELSE /\ flash' = f
             /\ UNCHANGED <<bm, block_map>>
  BY DEF TrimOptimal
<1> HIDE DEF a, b, f
<1>6. Erased \in [PageNo -> LPN \cup {EMPTY, INVALID, OLD}]
  BY DEF Erased
<1>7. Erase(f, b) \in [Block -> [PageNo -> LPN \cup {EMPTY, INVALID, OLD}]]
  BY <1>3, <1>4, <1>6 DEF Erase
<1>8. 0 \in 0 .. BLOCK_SIZE
  BY BlockSizeType
<1>9. /\ erase_and_invalidate(bm, b, "DATA") \in Manager
      /\ erase_and_invalidate(bm, b, "DATA").invalid_list = <<>>
  BY <1>1, <1>3, GivenBack
<1>10. flash' \in [Block -> [PageNo -> LPN \cup {EMPTY, INVALID, OLD}]]
       /\ bm' \in Manager /\ (bm.invalid_list = <<>>)'
  BY <1>1, <1>4, <1>5, <1>7, <1>9
<1>11. block_map' \in [LBA -> [pbn : Block \cup {NULL}, nextPage : 0 .. BLOCK_SIZE,
                              optimal : BOOLEAN]]
  BY <1>1, <1>5, <1>8
<1> QED
  BY <1>2, <1>10, <1>11 DEF a

LEMMA StrayTrimKeeps ==
  ASSUME IInv, ~stray, NEW l \in LPN, ftl = "BDFTL", pc = "idle", TrimOptimal(l),
         block_map[LbaOf(l)].pbn = NULL,
         UNCHANGED <<pc, lpn, free_page, inuseBlock, blockQueue, ftl>>
  PROVE  IInv'
<1>1. stray' = TRUE
  BY DEF TrimOptimal
<1>2. TypeOK'
  <2>1. /\ trim_map' \subseteq LPN
        /\ UNCHANGED <<trans_map, cmt, persisted, reverse_trans_map, currentDataPage>>
    BY DEF IInv, TypeOK, TrimOptimal, table
  <2>2. /\ flash' \in [Block -> [PageNo -> LPN \cup {EMPTY, INVALID, OLD}]]
        /\ bm' \in Manager
        /\ block_map' \in [LBA -> [pbn : Block \cup {NULL}, nextPage : 0 .. BLOCK_SIZE,
                                 optimal : BOOLEAN]]
    BY TrimOptimalType
  <2> QED
    BY <1>1, <2>1, <2>2 DEF IInv, TypeOK
<1>3. CounterWithinCache'
  BY DEF IInv, CounterWithinCache, TrimOptimal, table, Cached
<1> QED
  BY <1>1, <1>2, <1>3 DEF IInv, DftlHasNoBlocks, ReverseMapExact

LEMMA OwnTrimKeeps ==
  ASSUME IInv, ~stray, NEW l \in LPN, ftl = "BDFTL", pc = "idle", TrimOptimal(l),
         block_map[LbaOf(l)].pbn # NULL,
         UNCHANGED <<pc, lpn, free_page, inuseBlock, blockQueue, ftl>>
  PROVE  IInv'
<1> DEFINE a == LbaOf(l)
           b == block_map[a].pbn
           p == OffsetOf(l)
           f == invalidate_page(flash, b, p)
<1>1. /\ TypeOK /\ Sound /\ BlocksApart /\ EmptyAhead /\ OptimalUnmapped
      /\ a \in LBA /\ p \in PageNo /\ HasOwnBlock(a) /\ b \in Block
      /\ bm \in Manager /\ HandsOutOnce(bm)
      /\ block_map \in [LBA -> [pbn : Block \cup {NULL}, nextPage : 0 .. BLOCK_SIZE,
                                optimal : BOOLEAN]]
      /\ flash \in [Block -> [PageNo -> LPN \cup {EMPTY, INVALID, OLD}]]
  BY PositionType DEF IInv, TypeOK, Sound, HasOwnBlock, TrimOptimal
<1>2. /\ flash' \in [Block -> [PageNo -> LPN \cup {EMPTY, INVALID, OLD}]]
      /\ bm' \in Manager /\ (bm.invalid_list = <<>>)'
      /\ block_map' \in [LBA -> [pbn : Block \cup {NULL}, nextPage : 0 .. BLOCK_SIZE,
                               optimal : BOOLEAN]]
  BY TrimOptimalType
<1>3. BlockOf(TrimmedPage(l)) = b /\ PageIn(TrimmedPage(l)) = p
  BY TrimOptimalType
<1>4. /\ stray' = FALSE /\ trim_map' = trim_map \cup {l}
      /\ UNCHANGED <<trans_map, cmt, persisted, reverse_trans_map, currentDataPage>>
      /\ IF IsInactive(f[b])
           THEN /\ flash' = Erase(f, b)
                /\ bm' = erase_and_invalidate(bm, b, "DATA")
                /\ block_map' = [block_map EXCEPT ![a].pbn = NULL, ![a].nextPage = 0]
           ELSE /\ flash' = f
                /\ UNCHANGED <<bm, block_map>>
  BY <1>3 DEF TrimOptimal, table
<1> HIDE DEF a, b, p
<1>5. /\ b \notin FreeBlocks(bm) \cup CurrentBlocks \cup BlocksToUseUp \cup MappedBlocks
      /\ \A c \in LBA : HasOwnBlock(c) /\ block_map[c].pbn = b => c = a
  BY <1>1 DEF BlocksApart, b
<1>6. f \in [Block -> [PageNo -> LPN \cup {EMPTY, INVALID, OLD}]] /\ f[b][p] = INVALID
      /\ \A c \in Block, q \in PageNo : c # b \/ q # p => f[c][q] = flash[c][q]
  BY <1>1, InvalidateType
<1> HIDE DEF f
<1>7. /\ CurrentBlocks' = CurrentBlocks /\ BlocksToUseUp' = BlocksToUseUp
      /\ MappedBlocks' = MappedBlocks
  BY <1>4 DEF CurrentBlocks, BlocksToUseUp, Blocks, MappedBlocks, Mapped, BlockOf
<1>8. ASSUME NEW c \in Block, c # b, NEW q \in PageNo
      PROVE  flash'[c][q] = flash[c][q]
  BY <1>1, <1>4, <1>6, <1>8 DEF Erase
<1>9. /\ HandsOutOnce(bm)'
      /\ \A c \in FreeBlocks(bm)' : c \in FreeBlocks(bm) \/ (c = b /\ flash'[b] = Erased)
      /\ \A c \in LBA : c # a => block_map'[c] = block_map[c]
      /\ \A c \in LBA : block_map'[c].optimal <=> block_map[c].optimal
      /\ \/ block_map'[a].pbn = NULL
         \/ block_map' = block_map /\ FreeBlocks(bm)' = FreeBlocks(bm) /\ flash' = f
  <2>1. CASE IsInactive(f[b])
    <3>1. /\ flash' = Erase(f, b)
          /\ bm' = erase_and_invalidate(bm, b, "DATA")
          /\ block_map' = [block_map EXCEPT ![a].pbn = NULL, ![a].nextPage = 0]
      BY <1>4, <2>1
    <3>2. HandsOutOnce(bm') /\ FreeBlocks(bm') = FreeBlocks(bm) \cup {b}
      BY <1>1, <1>5, <3>1, EraseAndInvalidate
    <3>3. flash'[b] = Erased
      BY <1>1, <1>6, <3>1 DEF Erase
    <3>4. /\ \A c \in LBA : c # a => block_map'[c] = block_map[c]
          /\ \A c \in LBA : block_map'[c].optimal <=> block_map[c].optimal
          /\ block_map'[a].pbn = NULL
      BY <1>1, <3>1
    <3> QED
      BY <3>2, <3>3, <3>4
  <2>2. CASE ~IsInactive(f[b])
    <3>1. flash' = f /\ UNCHANGED <<bm, block_map>>
      BY <1>4, <2>2
    <3>2. FreeBlocks(bm') = FreeBlocks(bm) /\ HandsOutOnce(bm')
      BY <1>1, <3>1
    <3> QED
      BY <3>1, <3>2
  <2> QED
    BY <2>1, <2>2
<1>10. ASSUME NEW c \in LBA, HasOwnBlock(c)'
       PROVE  /\ HasOwnBlock(c) /\ block_map'[c] = block_map[c]
              /\ c = a => FreeBlocks(bm)' = FreeBlocks(bm) /\ flash' = f
  <2>1. CASE c # a
    BY <1>9, <1>10, <2>1 DEF HasOwnBlock
  <2>2. CASE c = a
    BY <1>9, <1>10, <2>2 DEF HasOwnBlock
  <2> QED
    BY <2>1, <2>2
<1>11. BlocksApart'
  <2>1. ASSUME NEW c \in LBA, HasOwnBlock(c)'
        PROVE  block_map'[c].pbn \notin
                 FreeBlocks(bm)' \cup CurrentBlocks \cup BlocksToUseUp \cup MappedBlocks
    <3>1. block_map[c].pbn \notin
            FreeBlocks(bm) \cup CurrentBlocks \cup BlocksToUseUp \cup MappedBlocks
      BY <1>1, <1>10, <2>1 DEF BlocksApart
    <3>2. block_map[c].pbn \notin FreeBlocks(bm)'
      BY <1>5, <1>9, <1>10, <2>1, <3>1
    <3> QED
      BY <1>10, <2>1, <3>1, <3>2
  <2>2. ASSUME NEW c \in LBA, NEW d \in LBA, HasOwnBlock(c)', HasOwnBlock(d)',
               block_map'[d].pbn = block_map'[c].pbn
        PROVE  d = c
    BY <1>1, <1>10, <2>2 DEF BlocksApart
  <2>3. /\ CurrentBlocks \cap BlocksToUseUp = {}
        /\ FreeBlocks(bm)' \cap (CurrentBlocks \cup BlocksToUseUp) = {}
    BY <1>1, <1>5, <1>9 DEF BlocksApart
  <2> QED
    BY <1>7, <2>1, <2>2, <2>3 DEF BlocksApart
<1>12. EmptyAhead'
  <2>1. ASSUME NEW c \in FreeBlocks(bm)'
        PROVE  flash'[c] = Erased
    <3>1. CASE c \in FreeBlocks(bm)
      <4>1. c \in Block /\ flash[c] = Erased /\ c # b
        BY <1>1, <1>5, <3>1, NothingTwice DEF EmptyAhead
      <4>2. \A q \in PageNo : flash'[c][q] = EMPTY
        BY <1>8, <4>1 DEF Erased
      <4>3. flash'[c] = [q \in PageNo |-> flash'[c][q]]
        BY <1>2, <4>1
      <4> QED
        BY <4>2, <4>3 DEF Erased
    <3> QED
      BY <1>9, <2>1, <3>1
  <2>2. ASSUME currentDataPage # -1, NEW q \in PageNo, q > PageIn(currentDataPage)
        PROVE  flash'[BlockOf(currentDataPage)][q] = EMPTY
    <3>1. BlockOf(currentDataPage) \in Block
      BY <1>1, <2>2, PageParts DEF TypeOK
    <3>2. flash[BlockOf(currentDataPage)][q] = EMPTY
      BY <1>1, <2>2 DEF EmptyAhead
    <3>3. BlockOf(currentDataPage) # b
      BY <1>5, <2>2 DEF CurrentBlocks
    <3> QED
      BY <1>8, <3>1, <3>2, <3>3
  <2>3. ASSUME NEW c \in LBA, HasOwnBlock(c)', NEW q \in PageNo, q >= block_map'[c].nextPage
        PROVE  flash'[block_map'[c].pbn][q] \in {EMPTY, INVALID}
    <3>1. /\ HasOwnBlock(c) /\ block_map'[c] = block_map[c]
          /\ c = a => flash' = f
      BY <1>10, <2>3
    <3>2. block_map[c].pbn \in Block
      BY <1>1, <3>1 DEF TypeOK, HasOwnBlock
    <3>3. flash[block_map[c].pbn][q] \in {EMPTY, INVALID}
      BY <1>1, <2>3, <3>1 DEF EmptyAhead
    <3>4. CASE c = a
      BY <1>6, <3>1, <3>2, <3>3, <3>4
    <3>5. CASE c # a
      <4>1. block_map[c].pbn # b
        BY <1>5, <3>1, <3>5
      <4> QED
        BY <1>8, <3>1, <3>2, <3>3, <4>1
    <3> QED
      BY <3>4, <3>5
  <2> QED
    BY <1>4, <2>1, <2>2, <2>3 DEF EmptyAhead, BlockOf, PageIn
<1>13. ReverseMapExact'
  <2>1. ASSUME NEW k \in Mapped
        PROVE  /\ reverse_trans_map[trans_map[k].ppn] = k
               /\ flash'[BlockOf(trans_map[k].ppn)][PageIn(trans_map[k].ppn)] \in {k, OLD}
    <3>1. /\ BlockOf(trans_map[k].ppn) \in Block /\ PageIn(trans_map[k].ppn) \in PageNo
          /\ BlockOf(trans_map[k].ppn) \in MappedBlocks
          /\ reverse_trans_map[trans_map[k].ppn] = k
          /\ flash[BlockOf(trans_map[k].ppn)][PageIn(trans_map[k].ppn)] \in {k, OLD}
      BY MappedPage
    <3>2. BlockOf(trans_map[k].ppn) # b
      BY <1>5, <3>1
    <3> QED
      BY <1>8, <3>1, <3>2
  <2> QED
    BY <1>4, <2>1 DEF ReverseMapExact, Mapped, BlockOf, PageIn
<1>14. CounterWithinCache'
  BY <1>4 DEF IInv, CounterWithinCache, Cached
<1>15. OptimalUnmapped'
  <2>1. ASSUME NEW k \in Mapped
        PROVE  k \notin trim_map' /\ ~block_map'[LbaOf(k)].optimal
    <3>1. k \in LPN /\ LbaOf(k) \in LBA /\ k \notin trim_map /\ ~block_map[LbaOf(k)].optimal
      BY <1>1, PositionType DEF OptimalUnmapped, Mapped
    <3>2. k # l
      BY <1>1, <3>1 DEF HasOwnBlock, a
    <3> QED
      BY <1>4, <1>9, <3>1, <3>2
  <2> QED
    BY <1>4, <2>1 DEF OptimalUnmapped, Mapped
<1>16. TypeOK'
  <2>1. trim_map' \subseteq LPN
    BY <1>1, <1>4 DEF TypeOK
  <2> QED
    BY <1>1, <1>2, <1>4, <2>1 DEF TypeOK
<1>17. GotEmptyPage' /\ DftlHasNoBlocks'
  BY DEF GotEmptyPage, GotPage, DftlHasNoBlocks
<1> QED
  BY <1>2, <1>4, <1>9, <1>11, <1>12, <1>13, <1>14, <1>15, <1>16, <1>17 DEF IInv, Sound

-----------------------------------------------------------------------------
(* The invariant.                                                          *)

LEMMA InitInvariant == Init => IInv
<1> SUFFICES ASSUME Init
             PROVE  IInv
  OBVIOUS
<1> USE DEF Init, ParentInit, BdftlInit
<1>1. PICK first \in FIRST_FREE : bm = NewManager(first)
  OBVIOUS
<1>2. bm \in Manager /\ bm.invalid_list = <<>> /\ bm.free_list = <<>>
      /\ bm.simpleCurrentFree \in 0 .. NUM_BLOCKS
  BY <1>1, BlockManagerAssumption DEF NewManager, Manager
<1>3. flash \in [Block -> [PageNo -> LPN \cup {EMPTY, INVALID, OLD}]]
  BY DEF Erased
<1>4. /\ trans_map \in [LPN -> MPage] /\ \A l \in LPN : ~trans_map[l].cached
      /\ \A l \in LPN : trans_map[l].ppn = -1
  <2>1. NewMPage \in MPage /\ ~NewMPage.cached /\ NewMPage.ppn = -1
    BY DEF NewMPage, MPage
  <2> QED
    BY <2>1
<1>5. /\ block_map \in [LBA -> [pbn : Block \cup {NULL}, nextPage : 0 .. BLOCK_SIZE,
                                optimal : BOOLEAN]]
      /\ \A a \in LBA : ~HasOwnBlock(a)
  BY BlockSizeType DEF NewBPage, HasOwnBlock
<1>6. trim_map \subseteq LPN /\ <<>> \in Seq(Block)
  BY BdftlAssumption
<1>7. TypeOK
  <2>1. /\ reverse_trans_map \in [Page -> LPN \cup {NULL}]
        /\ persisted \in [LPN -> Page \cup {-1}]
    OBVIOUS
  <2>2. /\ cmt \in Int /\ currentDataPage \in Page \cup {-1} /\ free_page \in Page \cup {NULL}
        /\ inuseBlock \in Block \cup {NULL} /\ ftl \in {"DFTL", "BDFTL"}
    OBVIOUS
  <2>3. pc = "idle" /\ lpn = NULL
    OBVIOUS
  <2>4. blockQueue = <<>>
    OBVIOUS
  <2>5. blockQueue \in Seq(Block)
    BY <1>6, <2>4
  <2>6. stray \in BOOLEAN
    OBVIOUS
  <2> QED
    BY <1>2, <1>3, <1>4, <1>5, <1>6, <2>1, <2>2, <2>3, <2>5, <2>6 DEF TypeOK
<1>8. Mapped = {} /\ Cached(trans_map) = {} /\ CurrentBlocks = {} /\ BlocksToUseUp = {}
  BY <1>4 DEF Mapped, Cached, CurrentBlocks, BlocksToUseUp, Blocks
<1>9. CounterWithinCache
  <2>1. Cardinality(Cached(trans_map)) = 0
    BY <1>8, FS_EmptySet
  <2>2. CACHE_DFTL_LIMIT * addressPerPage >= 0
    BY DftlAssumption
  <2> QED
    BY <2>1, <2>2 DEF CounterWithinCache, totalCMTentries
<1>10. Sound
  <2>1. HandsOutOnce(bm) /\ bm.invalid_list = <<>>
    BY <1>2 DEF HandsOutOnce
  <2>2. FreeBlocks(bm) \subseteq Block
    BY <1>2, <2>1, NothingTwice
  <2>3. EmptyAhead
    BY <1>5, <2>2 DEF EmptyAhead
  <2>4. BlocksApart
    BY <1>5, <1>8 DEF BlocksApart
  <2> QED
    BY <1>8, <2>1, <2>3, <2>4 DEF Sound, GotEmptyPage, GotPage, OptimalUnmapped
<1> QED
  BY <1>7, <1>8, <1>9, <1>10 DEF IInv, DftlHasNoBlocks, ReverseMapExact

LEMMA CallKeeps ==
  ASSUME IInv, NEW l \in LPN, Call(l)
  PROVE  IInv'
<1>1. ~stray /\ UNCHANGED ftl
  BY DEF Call
<1>2. CASE ftl = "DFTL" /\ UNCHANGED bvars /\ (DftlRead(l) \/ DftlWrite(l))
  BY <1>1, <1>2, ArrivesKeeps DEF DftlRead, DftlWrite, bvars
<1>3. CASE ftl = "DFTL" /\ UNCHANGED bvars /\ DftlTrim(l)
  BY <1>1, <1>3, DftlTrimKeeps
<1>4. CASE ftl = "BDFTL" /\ (BdftlRead(l) \/ BdftlWrite(l))
  BY <1>1, <1>4, ArrivesKeeps DEF BdftlRead, BdftlWrite, bvars
<1>5. CASE ftl = "BDFTL" /\ BdftlTrim(l)
  <2>1. /\ pc = "idle" /\ (TrimOptimal(l) \/ TrimPagewise(l))
        /\ UNCHANGED <<pc, lpn, free_page, inuseBlock, blockQueue, ftl>>
    BY <1>1, <1>5 DEF BdftlTrim
  <2>2. CASE TrimPagewise(l)
    BY <1>1, <1>5, <2>1, <2>2, TrimPagewiseKeeps DEF BdftlTrim
  <2>3. CASE TrimOptimal(l) /\ block_map[LbaOf(l)].pbn = NULL
    BY <1>1, <1>5, <2>1, <2>3, StrayTrimKeeps DEF BdftlTrim
  <2>4. CASE TrimOptimal(l) /\ block_map[LbaOf(l)].pbn # NULL
    BY <1>1, <1>5, <2>1, <2>4, OwnTrimKeeps DEF BdftlTrim
  <2> QED
    BY <2>1, <2>2, <2>3, <2>4
<1> QED
  BY <1>2, <1>3, <1>4, <1>5 DEF Call

(* A call is in flight, so no trim went astray.                              *)
LEMMA InFlight ==
  ASSUME IInv, pc # "idle"
  PROVE  ~stray
BY DEF IInv

LEMMA StepKeeps ==
  ASSUME IInv, Step
  PROVE  IInv'
<1>1. CASE ftl = "DFTL" /\ UNCHANGED bvars /\ DftlStep /\ UNCHANGED ftl
  <2>1. CASE resolve_mapping("page")
    <3>1. ~stray
      BY <2>1, InFlight DEF resolve_mapping, evict_page_from_cache, Hit, Miss, Resolving
    <3> QED
      BY <1>1, <2>1, <3>1, EvictKeeps, HitKeeps, MissKeeps DEF resolve_mapping
  <2>2. CASE pc = "page" /\ get_free_data_page("program")
    BY <1>1, <2>2, InFlight, DataPageKeeps DEF bvars
  <2>3. CASE MapAndIssue
    BY <1>1, <2>3, InFlight, IssueKeeps DEF MapAndIssue
  <2> QED
    BY <1>1, <2>1, <2>2, <2>3 DEF DftlStep
<1>2. CASE ftl = "BDFTL" /\ BdftlStep /\ UNCHANGED ftl
  <2>1. CASE WriteNewBlock
    BY <1>2, <2>1, InFlight, NewBlockKeeps DEF WriteNewBlock, NeedsBlock
  <2>2. CASE WriteInOrder
    BY <1>2, <2>2, InFlight, InOrderKeeps DEF WriteInOrder, InOrder
  <2>3. CASE Convert
    BY <1>2, <2>3, InFlight, ConvertKeeps DEF Convert, OutOfOrder
  <2>4. CASE WritePagewise
    BY <1>2, <2>4, InFlight, WritePagewiseKeeps DEF WritePagewise
  <2>5. CASE GetUsedPage
    BY <1>2, <2>5, InFlight, UsedPageKeeps DEF GetUsedPage
  <2>6. CASE GetDataPage
    BY <1>2, <2>6, InFlight, DataPageKeeps DEF GetDataPage
  <2>7. CASE resolve_mapping("program") /\ UNCHANGED bvars
    <3>1. ~stray
      BY <2>7, InFlight DEF resolve_mapping, evict_page_from_cache, Hit, Miss, Resolving
    <3> QED
      BY <1>2, <2>7, <3>1, EvictKeeps, HitKeeps, MissKeeps DEF resolve_mapping
  <2>8. CASE MapAndIssue /\ UNCHANGED bvars
    BY <1>2, <2>8, InFlight, IssueKeeps DEF MapAndIssue
  <2> QED
    BY <1>2, <2>1, <2>2, <2>3, <2>4, <2>5, <2>6, <2>7, <2>8 DEF BdftlStep
<1> QED
  BY <1>1, <1>2 DEF Step

(* A failed assertion changes nothing but pc.                                *)
LEMMA NothingElse ==
  ASSUME IInv, ~stray, pc' = pc \/ (pc # "idle" /\ pc' = "aborted"),
         UNCHANGED <<flash, bm, trans_map, reverse_trans_map, cmt, currentDataPage, persisted,
                     lpn, free_page, bvars, ftl>>
  PROVE  IInv'
<1>1. SamePages(trans_map', trans_map)
  BY DEF SamePages
<1>2. /\ Mapped' = Mapped
      /\ ReverseMapExact'
      /\ HandsOutOnce(bm)' /\ (bm.invalid_list = <<>>)'
      /\ BlocksApart'
      /\ EmptyAhead'
      /\ (GotPage' => GotPage) => GotEmptyPage'
  BY <1>1, PagesKept DEF bvars
<1>3. GotPage' => GotPage
  BY DEF GotPage
<1>4. TypeOK'
  BY DEF IInv, TypeOK, bvars
<1>5. DftlHasNoBlocks'
  BY DEF IInv, DftlHasNoBlocks, bvars
<1>6. CounterWithinCache'
  BY DEF IInv, CounterWithinCache, Cached
<1>7. OptimalUnmapped'
  BY <1>2 DEF IInv, Sound, OptimalUnmapped, Lbn, bvars
<1>8. (stray => pc = "idle")'
  BY DEF bvars
<1> QED
  BY <1>2, <1>3, <1>4, <1>5, <1>6, <1>7, <1>8 DEF IInv, Sound

LEMMA AbortKeeps ==
  ASSUME IInv, Abort
  PROVE  IInv'
<1>1. pc # "idle" /\ pc' = "aborted"
  BY DEF Abort, NoFreeBlock, NeedsBlock, PageTaken, InOrderPageTaken, InOrder, NothingToEvict,
     Resolving, QueuedBlockFull
<1> QED
  BY <1>1, InFlight, NothingElse DEF Abort

LEMMA NextKeeps ==
  ASSUME IInv, [Next]_vars
  PROVE  IInv'
<1>1. CASE \E l \in LPN : Call(l)
  BY <1>1, CallKeeps
<1>2. CASE Step
  BY <1>2, StepKeeps
<1>3. CASE Abort
  BY <1>3, AbortKeeps
<1>4. CASE UNCHANGED vars
  <2>1. UNCHANGED <<flash, bm, trans_map, reverse_trans_map, cmt, currentDataPage, persisted,
                    pc, lpn, free_page, bvars, ftl>>
    BY <1>4 DEF vars, parentvars
  <2>2. CASE ~stray
    BY <2>1, <2>2, NothingElse
  <2>3. CASE stray
    BY <2>1, <2>3 DEF IInv, TypeOK, DftlHasNoBlocks, ReverseMapExact, CounterWithinCache,
       Cached, bvars
  <2> QED
    BY <2>2, <2>3
<1> QED
  BY <1>1, <1>2, <1>3, <1>4 DEF Next

(* Every state has the types of the variables; and until a trim goes astray    *)
(* the reverse map is right, each block has one user, the pages to be written  *)
(* are empty, and optimal blocks have no entries.                             *)
THEOREM Invariant == Spec => []IInv
<1>1. Init => IInv
  BY InitInvariant
<1>2. IInv /\ [Next]_vars => IInv'
  BY NextKeeps
<1> QED
  BY <1>1, <1>2, PTL DEF Spec

(* The reverse map, from which cleaning a block learns whose its pages are,   *)
(* is right for every page that is mapped.                                   *)
THEOREM ReverseMapRight == Spec => []ReverseMapExact
<1>1. IInv => ReverseMapExact
  BY DEF IInv
<1> QED
  BY <1>1, Invariant, PTL

(* The counter cmt of the cache never exceeds what is cached, nor the limit.   *)
THEOREM CounterRight == Spec => []CounterWithinCache
<1>1. IInv => CounterWithinCache
  BY DEF IInv
<1> QED
  BY <1>1, Invariant, PTL

-----------------------------------------------------------------------------
(* DFTL programs every page of the blocks it gets.                           *)

LEMMA InitFills == Init => DftlFillsBlocks
<1> SUFFICES ASSUME Init
             PROVE  DftlFillsBlocks
  OBVIOUS
<1>1. PICK first \in FIRST_FREE : bm = NewManager(first)
  BY DEF Init, ParentInit
<1>2. bm.free_list = <<>> /\ bm.simpleCurrentFree = first /\ currentDataPage = -1
      /\ first \in 0 .. NUM_BLOCKS
  BY <1>1, BlockManagerAssumption DEF NewManager, Init, ParentInit
<1>3. first .. bm.simpleCurrentFree - 1 = {}
  BY <1>2
<1> QED
  BY <1>2, <1>3 DEF DftlFillsBlocks

(* The steps that program no page and take no block.                         *)
LEMMA FilledStays ==
  ASSUME IInv, DftlFillsBlocks, ftl = "DFTL", UNCHANGED <<bm, currentDataPage, ftl>>,
         \A b \in Block, p \in PageNo : flash'[b][p] = EMPTY => flash[b][p] = EMPTY,
         pc = "program" => pc' = "program"
  PROVE  DftlFillsBlocks'
<1>1. PICK first \in FIRST_FREE :
        \A b \in first .. bm.simpleCurrentFree - 1, p \in PageNo : flash[b][p] = EMPTY =>
          /\ currentDataPage # -1 /\ b = BlockOf(currentDataPage)
          /\ \/ p > PageIn(currentDataPage)
             \/ pc = "program" /\ p = PageIn(currentDataPage)
  BY DEF DftlFillsBlocks
<1>2. \A b \in first .. bm.simpleCurrentFree - 1 : b \in Block
  BY BlockManagerAssumption, NandAssumption DEF IInv, TypeOK, Manager, Block
<1>3. \A b \in first .. bm.simpleCurrentFree - 1, p \in PageNo : flash'[b][p] = EMPTY =>
          /\ currentDataPage # -1 /\ b = BlockOf(currentDataPage)
          /\ \/ p > PageIn(currentDataPage)
             \/ pc' = "program" /\ p = PageIn(currentDataPage)
  BY <1>1, <1>2
<1>4. bm.free_list = <<>>
      /\ (currentDataPage # -1 => BlockOf(currentDataPage) < bm.simpleCurrentFree)
  BY DEF DftlFillsBlocks
<1> QED
  BY <1>3, <1>4 DEF DftlFillsBlocks, BlockOf, PageIn

LEMMA FilledByIssue ==
  ASSUME IInv, ~stray, DftlFillsBlocks, ftl = "DFTL", MapAndIssue, UNCHANGED ftl
  PROVE  DftlFillsBlocks'
<1>1. PICK first \in FIRST_FREE :
        \A b \in first .. bm.simpleCurrentFree - 1, p \in PageNo : flash[b][p] = EMPTY =>
          /\ currentDataPage # -1 /\ b = BlockOf(currentDataPage)
          /\ \/ p > PageIn(currentDataPage)
             \/ pc = "program" /\ p = PageIn(currentDataPage)
  BY DEF DftlFillsBlocks
<1>2. \A b \in first .. bm.simpleCurrentFree - 1 : b \in Block
  BY BlockManagerAssumption, NandAssumption DEF IInv, TypeOK, Manager, Block
<1>3. free_page = currentDataPage /\ free_page \in Page
  <2>1. GotEmptyPage /\ GotPage /\ inuseBlock = NULL
    BY DEF IInv, Sound, MapAndIssue, GotPage, DftlHasNoBlocks
  <2>2. free_page \in Page /\ BlockOf(free_page) # NULL
    BY <2>1, PageParts, NotUnmapped DEF GotEmptyPage
  <2> QED
    BY <2>1, <2>2 DEF GotEmptyPage
<1>4. UNCHANGED <<bm, currentDataPage>>
  BY DEF MapAndIssue
<1>5. ASSUME NEW b \in Block, NEW p \in PageNo, flash'[b][p] = EMPTY
      PROVE  flash[b][p] = EMPTY /\ (b # BlockOf(free_page) \/ p # PageIn(free_page))
  <2>1. PICK n \in Page : BlockOf(n) = b /\ PageIn(n) = p
    BY PageOf
  <2>2. n # free_page
    BY <1>5, <2>1, Issued, MarksAreNoPages
  <2>3. flash'[BlockOf(n)][PageIn(n)] =
          IF n = trans_map[lpn].ppn THEN INVALID
          ELSE IF flash[BlockOf(n)][PageIn(n)] = lpn THEN OLD
          ELSE flash[BlockOf(n)][PageIn(n)]
    BY <2>2, Issued
  <2>4. flash[b][p] = EMPTY
    BY <1>5, <2>1, <2>3, MarksDiffer
  <2>5. b # BlockOf(free_page) \/ p # PageIn(free_page)
    BY <1>3, <2>1, <2>2, SamePage
  <2> QED
    BY <2>4, <2>5
<1>6. \A b \in first .. bm.simpleCurrentFree - 1, p \in PageNo : flash'[b][p] = EMPTY =>
          /\ currentDataPage # -1 /\ b = BlockOf(currentDataPage)
          /\ p > PageIn(currentDataPage)
  BY <1>1, <1>2, <1>3, <1>5
<1>7. bm.free_list = <<>>
      /\ (currentDataPage # -1 => BlockOf(currentDataPage) < bm.simpleCurrentFree)
  BY DEF DftlFillsBlocks
<1> QED
  BY <1>4, <1>6, <1>7 DEF DftlFillsBlocks, BlockOf, PageIn

LEMMA FilledByNextPage ==
  ASSUME IInv, ~stray, DftlFillsBlocks, ftl = "DFTL", pc = "page",
         get_free_data_page("program"), UNCHANGED <<bvars, ftl>>
  PROVE  DftlFillsBlocks'
<1>1. PICK first \in FIRST_FREE :
        \A b \in first .. bm.simpleCurrentFree - 1, p \in PageNo : flash[b][p] = EMPTY =>
          /\ currentDataPage # -1 /\ b = BlockOf(currentDataPage)
          /\ p > PageIn(currentDataPage)
  BY DEF DftlFillsBlocks
<1>2. flash' = flash /\ pc' = "program"
  BY DataPageKeeps DEF get_free_data_page, bvars
<1>3. /\ bm \in Manager /\ bm.free_list = <<>> /\ bm.simpleCurrentFree \in 0 .. NUM_BLOCKS
      /\ currentDataPage \in Page \cup {-1} /\ first \in 0 .. NUM_BLOCKS
      /\ NUM_BLOCKS \in Nat
      /\ currentDataPage # -1 => BlockOf(currentDataPage) < bm.simpleCurrentFree
  BY BlockManagerAssumption, NandAssumption DEF IInv, TypeOK, Manager, DftlFillsBlocks
<1>4. CASE NeedsDataBlock
  <2> DEFINE c == bm.simpleCurrentFree
  <2>1. /\ HasFreeBlock(bm) /\ bm' = get_free_block(bm, "DATA")
        /\ currentDataPage' = FreeBlock(bm) * BLOCK_SIZE
    BY <1>4, MemoryPlain DEF get_free_data_page
  <2>2. IsSimple(bm) /\ FreeBlock(bm) = c /\ c \in Block
    BY <1>3, <2>1 DEF HasFreeBlock, FreeBlock, IsSimple, Block
  <2>3. bm'.simpleCurrentFree = c + 1 /\ bm'.free_list = <<>>
    BY <1>3, <2>1, <2>2 DEF get_free_block, Counting, Manager
  <2>4. BlockOf(currentDataPage') = c /\ PageIn(currentDataPage') = 0 /\ currentDataPage' # -1
    <3>1. c * BLOCK_SIZE + 0 = c * BLOCK_SIZE
      BY <2>2, BlockSizeType DEF Block
    <3>2. c * BLOCK_SIZE + 0 \in Page /\ BlockOf(c * BLOCK_SIZE + 0) = c
          /\ PageIn(c * BLOCK_SIZE + 0) = 0
      BY <2>2, FirstPageNo, PageOf
    <3> QED
      BY <2>1, <2>2, <3>1, <3>2, NotUnmapped
  <2> HIDE DEF c
  <2>5. ASSUME NEW b \in first .. c - 1, NEW p \in PageNo, flash[b][p] = EMPTY
        PROVE  FALSE
    <3>1. currentDataPage # -1 /\ p > PageIn(currentDataPage)
      BY <1>1, <2>5 DEF c
    <3>2. PageIn(currentDataPage) = BLOCK_SIZE - 1
      BY <1>4, <3>1 DEF NeedsDataBlock
    <3> QED
      BY <3>1, <3>2, BlockSizeType DEF PageNo
  <2>6. ASSUME NEW b \in first .. (c + 1) - 1, NEW p \in PageNo, flash[b][p] = EMPTY
        PROVE  b = c /\ (p > 0 \/ p = 0)
    <3>1. c \in Int /\ first \in Int
      BY <1>3 DEF c
    <3>2. b \notin first .. c - 1
      BY <2>5, <2>6
    <3>3. p >= 0
      BY DEF PageNo
    <3> QED
      BY <3>1, <3>2, <3>3 DEF PageNo
  <2>7. \A b \in first .. bm'.simpleCurrentFree - 1, p \in PageNo : flash'[b][p] = EMPTY =>
          /\ currentDataPage' # -1 /\ b = BlockOf(currentDataPage')
          /\ \/ p > PageIn(currentDataPage')
             \/ pc' = "program" /\ p = PageIn(currentDataPage')
    BY <1>2, <2>3, <2>4, <2>6
  <2>8. BlockOf(currentDataPage') < bm'.simpleCurrentFree
    BY <1>3, <2>3, <2>4 DEF c
  <2> QED
    BY <2>3, <2>7, <2>8 DEF DftlFillsBlocks, BlockOf, PageIn
<1>5. CASE ~NeedsDataBlock
  <2>1. /\ currentDataPage' = currentDataPage + 1 /\ UNCHANGED bm
        /\ currentDataPage \in Page /\ PageIn(currentDataPage) # BLOCK_SIZE - 1
        /\ currentDataPage # -1
    BY <1>3, <1>5 DEF get_free_data_page, NeedsDataBlock
  <2>2. /\ currentDataPage' \in Page /\ BlockOf(currentDataPage') = BlockOf(currentDataPage)
        /\ PageIn(currentDataPage') = PageIn(currentDataPage) + 1
    BY <2>1, NextPage
  <2>3. PageIn(currentDataPage) \in Int
    BY <2>1, PageParts DEF PageNo
  <2>4. \A p \in PageNo : p > PageIn(currentDataPage) =>
          p > PageIn(currentDataPage') \/ p = PageIn(currentDataPage')
    BY <2>2, <2>3 DEF PageNo
  <2>5. currentDataPage' # -1
    BY <2>2, NotUnmapped
  <2>6. \A b \in first .. bm.simpleCurrentFree - 1, p \in PageNo : flash'[b][p] = EMPTY =>
          /\ currentDataPage' # -1 /\ b = BlockOf(currentDataPage')
          /\ \/ p > PageIn(currentDataPage')
             \/ pc' = "program" /\ p = PageIn(currentDataPage')
    BY <1>1, <1>2, <2>2, <2>4, <2>5
  <2> QED
    BY <1>3, <2>1, <2>2, <2>6 DEF DftlFillsBlocks, BlockOf, PageIn
<1> QED
  BY <1>4, <1>5

(* A failed assertion is one of three in states that are right.               *)
LEMMA AbortsWhy ==
  ASSUME IInv
  PROVE  /\ ~PageTaken /\ ~NothingToEvict
         /\ InOrderPageTaken => flash[block_map[Lbn].pbn][Offset] = INVALID
<1>1. ~PageTaken
  <2> SUFFICES ASSUME PageTaken
               PROVE  FALSE
    OBVIOUS
  <2>1. GotEmptyPage /\ GotPage
    BY DEF PageTaken, IInv, Sound, GotPage
  <2>2. free_page \in Page /\ flash[BlockOf(free_page)][PageIn(free_page)] = EMPTY
    BY <2>1 DEF GotEmptyPage
  <2> QED
    BY <2>2, PageParts DEF PageTaken, MayIssue, MayProgram
<1>2. ~NothingToEvict
  <2> SUFFICES ASSUME NothingToEvict
               PROVE  FALSE
    OBVIOUS
  <2>1. Cardinality(Cached(trans_map)) = 0
    BY FS_EmptySet DEF NothingToEvict
  <2>2. cmt <= 0 /\ cmt >= totalCMTentries /\ cmt \in Int
    BY <2>1 DEF IInv, CounterWithinCache, TypeOK, NothingToEvict
  <2>3. totalCMTentries \in Int /\ totalCMTentries > 0
    BY DftlAssumption DEF totalCMTentries
  <2> QED
    BY <2>2, <2>3
<1>3. ASSUME InOrderPageTaken
      PROVE  flash[block_map[Lbn].pbn][Offset] = INVALID
  <2>1. pc = "block" /\ lpn \in LPN /\ ~stray /\ EmptyAhead
    BY <1>3 DEF InOrderPageTaken, InOrder, IInv, TypeOK, Sound
  <2>2. /\ Lbn \in LBA /\ Offset \in PageNo /\ HasOwnBlock(Lbn)
        /\ block_map[Lbn].nextPage = Offset
    BY <1>3, <2>1, PositionType DEF InOrderPageTaken, InOrder, Lbn, Offset, HasOwnBlock
  <2>3. Offset >= block_map[Lbn].nextPage
    BY <2>2 DEF PageNo
  <2>4. flash[block_map[Lbn].pbn][Offset] \in {EMPTY, INVALID}
    BY <2>1, <2>2, <2>3 DEF EmptyAhead
  <2> QED
    BY <1>3, <2>2, <2>4 DEF InOrderPageTaken, MayProgram
<1> QED
  BY <1>1, <1>2, <1>3

LEMMA FillsKeeps ==
  ASSUME IInv, DftlFillsBlocks, [Next]_vars
  PROVE  DftlFillsBlocks'
<1> SUFFICES ASSUME ftl' = "DFTL"
             PROVE  DftlFillsBlocks'
  BY DEF DftlFillsBlocks
<1>1. ftl = "DFTL" /\ UNCHANGED ftl
  BY DEF Next, Call, Step, Abort, vars
<1>2. CASE UNCHANGED vars
  BY <1>1, <1>2, FilledStays DEF vars, parentvars
<1>3. ASSUME NEW l \in LPN, ~stray, UNCHANGED bvars, DftlRead(l) \/ DftlWrite(l)
      PROVE  DftlFillsBlocks'
  BY <1>1, <1>3, FilledStays DEF DftlRead, DftlWrite, EventArrives
<1>4. ASSUME NEW l \in LPN, ~stray, UNCHANGED bvars, DftlTrim(l)
      PROVE  DftlFillsBlocks'
  <2>1. /\ l \in Mapped /\ TrimMapped(l) /\ pc = "idle"
        /\ UNCHANGED <<bm, currentDataPage>>
    BY <1>4 DEF DftlTrim
  <2> DEFINE n == trans_map[l].ppn
  <2>2. BlockOf(n) \in Block /\ PageIn(n) \in PageNo
    BY <1>4, <2>1, MappedPage
  <2>3. flash' = invalidate_page(flash, BlockOf(n), PageIn(n))
    BY <2>1 DEF TrimMapped
  <2> HIDE DEF n
  <2>4. \A b \in Block, p \in PageNo : flash'[b][p] = EMPTY => flash[b][p] = EMPTY
    <3>1. flash \in [Block -> [PageNo -> LPN \cup {EMPTY, INVALID, OLD}]]
      BY DEF IInv, TypeOK
    <3>2. /\ flash'[BlockOf(n)][PageIn(n)] = INVALID
          /\ \A c \in Block, q \in PageNo : c # BlockOf(n) \/ q # PageIn(n) =>
               flash'[c][q] = flash[c][q]
      BY <2>2, <2>3, <3>1, InvalidateType
    <3> QED
      BY <3>2, MarksDiffer
  <2> QED
    BY <1>1, <2>1, <2>4, FilledStays
<1>5. CASE UNCHANGED bvars /\ DftlStep
  <2>1. CASE resolve_mapping("page")
    BY <1>1, <1>5, <2>1, FilledStays DEF resolve_mapping, evict_page_from_cache, Hit, Miss,
       Resolving
  <2>2. CASE pc = "page" /\ get_free_data_page("program")
    BY <1>1, <1>5, <2>2, InFlight, FilledByNextPage
  <2>3. CASE MapAndIssue
    BY <1>1, <2>3, InFlight, FilledByIssue DEF MapAndIssue
  <2> QED
    BY <1>5, <2>1, <2>2, <2>3 DEF DftlStep
<1>6. CASE Abort
  <2>1. pc # "program"
    BY <1>1, <1>6, AbortsWhy DEF Abort, NoFreeBlock, NeedsBlock, InOrderPageTaken, InOrder,
       QueuedBlockFull
  <2> QED
    BY <1>1, <1>6, <2>1, FilledStays DEF Abort
<1> QED
  BY <1>1, <1>2, <1>3, <1>4, <1>5, <1>6 DEF Next, Call, Step

LEMMA StopsWhenFull ==
  ASSUME IInv, DftlFillsBlocks
  PROVE  StopsOnlyFullOrTrimmed
<1>1. ASSUME ftl = "DFTL", NoFreeBlock
      PROVE  \E first \in FIRST_FREE : \A b \in first .. NUM_BLOCKS - 1, p \in PageNo :
               flash[b][p] # EMPTY
  <2>1. pc = "page" /\ NeedsDataBlock /\ ~Obtainable(Collected(Memory))
    BY <1>1 DEF NoFreeBlock, NeedsBlock, IInv, DftlHasNoBlocks
  <2>2. ~HasFreeBlock(bm)
    BY <2>1, InFlight, MemoryPlain
  <2>3. bm.simpleCurrentFree = NUM_BLOCKS
    BY <2>2, NandAssumption DEF HasFreeBlock, IsSimple, IInv, TypeOK, Manager
  <2>4. PICK first \in FIRST_FREE :
          \A b \in first .. NUM_BLOCKS - 1, p \in PageNo : flash[b][p] = EMPTY =>
            currentDataPage # -1 /\ p > PageIn(currentDataPage)
    BY <1>1, <2>1, <2>3 DEF DftlFillsBlocks
  <2>5. ASSUME NEW b \in first .. NUM_BLOCKS - 1, NEW p \in PageNo, flash[b][p] = EMPTY
        PROVE  FALSE
    <3>1. p > PageIn(currentDataPage) /\ PageIn(currentDataPage) = BLOCK_SIZE - 1
      BY <2>1, <2>4, <2>5 DEF NeedsDataBlock
    <3> QED
      BY <3>1, BlockSizeType DEF PageNo
  <2> QED
    BY <2>5
<1> QED
  BY <1>1, AbortsWhy DEF StopsOnlyFullOrTrimmed

(* No page is programmed twice, but for one of an optimal block that was      *)
(* trimmed before it was written; eviction finds an entry; and DFTL stops for *)
(* want of a block only when every page was programmed.                      *)
THEOREM StopsRight == Spec => []StopsOnlyFullOrTrimmed
<1>1. Init => IInv /\ DftlFillsBlocks
  BY InitInvariant, InitFills
<1>2. (IInv /\ DftlFillsBlocks) /\ [Next]_vars => (IInv /\ DftlFillsBlocks)'
  BY NextKeeps, FillsKeeps
<1>3. IInv /\ DftlFillsBlocks => StopsOnlyFullOrTrimmed
  BY StopsWhenFull
<1> QED
  BY <1>1, <1>2, <1>3, PTL DEF Spec

-----------------------------------------------------------------------------
(* What is dropped from the cache is on its translation page.                *)

LEMMA InitStamps == Init => StampsTell
<1> SUFFICES ASSUME Init
             PROVE  StampsTell
  OBVIOUS
<1>1. \A l \in LPN : trans_map[l].ppn = -1 /\ ~trans_map[l].cached /\ persisted[l] = -1
  BY DEF Init, ParentInit, NewMPage
<1>2. pc = "idle"
  BY DEF Init, ParentInit
<1> QED
  BY <1>1, <1>2 DEF StampsTell, Cached, Resolved

LEMMA StampsStay ==
  ASSUME StampsTell, UNCHANGED <<trans_map, persisted>>,
         Unresolved' => Unresolved, Resolved' => Resolved /\ UNCHANGED lpn
  PROVE  StampsTell'
<1>1. Cached(trans_map') = Cached(trans_map)
  OBVIOUS
<1> HIDE DEF Unresolved, Resolved
<1> QED
  BY <1>1 DEF StampsTell, IsDirty

(* Two time units later every stamp is past, and different if it was.         *)
LEMMA StampsArrive ==
  ASSUME IInv, StampsTell, \A s \in STEPS : s >= 2, NEW l, NEW first, EventArrives(l, first),
         first \in {"read", "write", "block"}
  PROVE  StampsTell'
<1>1. PICK step \in STEPS : trans_map' = Aged(trans_map, step)
  BY DEF EventArrives
<1>2. trans_map \in [LPN -> MPage] /\ step \in Nat /\ step >= 2 /\ persisted' = persisted
  BY DftlAssumption DEF IInv, TypeOK, EventArrives
<1>3. /\ SamePages(trans_map', trans_map)
      /\ Cached(trans_map') = Cached(trans_map)
      /\ \A k \in Cached(trans_map) :
           /\ trans_map'[k].create_ts =
                Past(trans_map[k].create_ts - step,
                     trans_map[k].create_ts = trans_map[k].modified_ts)
           /\ trans_map'[k].modified_ts = Past(trans_map[k].modified_ts - step, TRUE)
      /\ \A k \in LPN \ Cached(trans_map) : trans_map'[k] = trans_map[k]
  BY <1>1, <1>2, AgedTable
<1>4. ASSUME NEW k \in Cached(trans_map)
      PROVE  /\ trans_map'[k].create_ts < 0 /\ trans_map'[k].modified_ts < 0
             /\ trans_map'[k].create_ts <= 1 /\ trans_map'[k].modified_ts <= 1
             /\ IsDirty(trans_map'[k]) <=> IsDirty(trans_map[k])
  <2> DEFINE c == trans_map[k].create_ts
             m == trans_map[k].modified_ts
  <2>1. c \in Int /\ m \in Int /\ c <= 1 /\ m <= 1
    BY <1>2 DEF StampsTell, Cached, MPage
  <2>2. /\ trans_map'[k].create_ts = Past(c - step, c = m)
        /\ trans_map'[k].modified_ts = Past(m - step, TRUE)
    BY <1>3
  <2>3. IsDirty(trans_map[k]) <=> c # m
    BY DEF IsDirty
  <2> HIDE DEF c, m
  <2>4. ~(c - step >= 0) /\ ~(m - step >= 0)
    BY <1>2, <2>1
  <2>5. /\ trans_map'[k].create_ts = IF c = m THEN -1 ELSE -2
        /\ trans_map'[k].modified_ts = -1
    BY <2>2, <2>4 DEF Past
  <2>6. IsDirty(trans_map'[k]) <=> c # m
    BY <2>5 DEF IsDirty
  <2> QED
    BY <2>3, <2>5, <2>6
<1>5. ASSUME NEW k \in LPN \ TRIMMED,
             ~trans_map'[k].cached \/ ~IsDirty(trans_map'[k])
      PROVE  persisted'[k] = trans_map'[k].ppn
  <2>1. trans_map'[k].ppn = trans_map[k].ppn
    BY <1>3 DEF SamePages
  <2>2. ~trans_map[k].cached \/ ~IsDirty(trans_map[k])
    BY <1>3, <1>4, <1>5 DEF Cached
  <2> QED
    BY <1>2, <2>1, <2>2 DEF StampsTell
<1>6. ~Resolved'
  BY DEF EventArrives, Resolved
<1> QED
  BY <1>3, <1>4, <1>5, <1>6 DEF StampsTell

(* The entries of the translation page that is written.                      *)
LEMMA StampsEvicted ==
  ASSUME IInv, StampsTell, NEW l \in Cached(trans_map), NEW k \in LPN \ TRIMMED
  PROVE  LET tm == Evicted(trans_map, l)
         IN  ~tm[k].cached \/ ~IsDirty(tm[k]) =>
               PersistedAfter(trans_map, l)[k] = trans_map[k].ppn
<1> DEFINE tm == Evicted(trans_map, l)
           written == WrittenBack(trans_map, l)
<1>1. trans_map \in [LPN -> MPage] /\ l \in LPN
  BY DEF IInv, TypeOK, Cached
<1>2. /\ Cached(tm) = Cached(trans_map) \ {l}
      /\ \A j \in LPN \ {l} :
           /\ tm[j].modified_ts = trans_map[j].modified_ts
           /\ tm[j].create_ts =
                IF j \in written THEN trans_map[j].modified_ts ELSE trans_map[j].create_ts
  BY <1>1, EvictedTable
<1>3. PersistedAfter(trans_map, l)[k] =
        IF k \in written THEN trans_map[k].ppn ELSE persisted[k]
  BY DEF PersistedAfter
<1>4. ~trans_map[k].cached \/ ~IsDirty(trans_map[k]) => persisted[k] = trans_map[k].ppn
  BY DEF StampsTell
<1>5. IsDirty(trans_map[l]) => l \in written
  BY DEF WrittenBack, SameTranslationPage
<1>6. tm[k].cached <=> k \in Cached(tm)
  BY DEF Cached
<1>7. trans_map[k].cached <=> k \in Cached(trans_map)
  BY DEF Cached
<1> HIDE DEF tm, written
<1>8. k # l /\ k \notin written => (IsDirty(tm[k]) <=> IsDirty(trans_map[k]))
  BY <1>2 DEF IsDirty
<1>9. SUFFICES ASSUME ~tm[k].cached \/ ~IsDirty(tm[k])
               PROVE  PersistedAfter(trans_map, l)[k] = trans_map[k].ppn
  BY DEF tm
<1>10. CASE k \in written
  BY <1>3, <1>10
<1>11. CASE k = l /\ k \notin written
  BY <1>3, <1>4, <1>5, <1>11
<1>12. CASE k # l /\ k \notin written
  BY <1>2, <1>3, <1>4, <1>6, <1>7, <1>8, <1>9, <1>12
<1> QED
  BY <1>10, <1>11, <1>12

LEMMA StampsBound ==
  ASSUME IInv, StampsTell, NEW l \in Cached(trans_map)
  PROVE  \A k \in Cached(Evicted(trans_map, l)) :
           LET m == Evicted(trans_map, l)[k]
           IN  /\ m.create_ts <= 1 /\ m.modified_ts <= 1
               /\ Unresolved => m.create_ts < 0 /\ m.modified_ts < 0
<1>1. trans_map \in [LPN -> MPage] /\ l \in LPN
  BY DEF IInv, TypeOK, Cached
<1>2. /\ Cached(Evicted(trans_map, l)) = Cached(trans_map) \ {l}
      /\ \A j \in LPN \ {l} :
           /\ Evicted(trans_map, l)[j].modified_ts = trans_map[j].modified_ts
           /\ Evicted(trans_map, l)[j].create_ts =
                IF j \in WrittenBack(trans_map, l) THEN trans_map[j].modified_ts
                                                   ELSE trans_map[j].create_ts
  BY <1>1, EvictedTable
<1>3. \A k \in Cached(trans_map) :
        /\ k \in LPN
        /\ trans_map[k].create_ts <= 1 /\ trans_map[k].modified_ts <= 1
        /\ Unresolved => trans_map[k].create_ts < 0 /\ trans_map[k].modified_ts < 0
  BY DEF StampsTell, Cached
<1> HIDE DEF Unresolved
<1> QED
  BY <1>2, <1>3

LEMMA StampsEvict ==
  ASSUME IInv, StampsTell, evict_page_from_cache, UNCHANGED ftl
  PROVE  StampsTell'
<1>1. PICK l \in LPN : IsLeastVisited(l) /\ EvictEntry(l)
  BY DEF evict_page_from_cache
<1>2. /\ l \in Cached(trans_map) /\ trans_map' = Evicted(trans_map, l)
      /\ persisted' = PersistedAfter(trans_map, l) /\ trans_map \in [LPN -> MPage]
  BY <1>1 DEF IsLeastVisited, EvictEntry, IInv, TypeOK
<1>3. \A k \in LPN : trans_map'[k].ppn = trans_map[k].ppn
  BY <1>2, EvictedTable DEF SamePages
<1>4. \A k \in LPN \ TRIMMED :
        ~trans_map'[k].cached \/ ~IsDirty(trans_map'[k]) => persisted'[k] = trans_map[k].ppn
  BY <1>2, StampsEvicted
<1>5. \A k \in Cached(trans_map') :
        /\ trans_map'[k].create_ts <= 1 /\ trans_map'[k].modified_ts <= 1
        /\ Unresolved => trans_map'[k].create_ts < 0 /\ trans_map'[k].modified_ts < 0
  BY <1>2, StampsBound
<1>6. (Unresolved' => Unresolved) /\ ~Resolved'
  BY DEF evict_page_from_cache, Unresolved, Resolved, Resolving
<1> QED
  BY <1>3, <1>4, <1>5, <1>6 DEF StampsTell

LEMMA StampsResolved ==
  ASSUME IInv, StampsTell, NEW next, Hit(next) \/ Miss(next),
         next = IF ftl = "DFTL" THEN "page" ELSE "program", UNCHANGED ftl
  PROVE  StampsTell'
<1> DEFINE r == trans_map[lpn]
           n == IF lookup_CMT THEN Visited(r) ELSE Loaded(r)
<1>1. /\ trans_map \in [LPN -> MPage] /\ lpn \in LPN /\ r \in MPage
      /\ Resolving /\ Proceed(next)
  BY DEF IInv, TypeOK, Hit, Miss, Resolving
<1>2. trans_map' = [trans_map EXCEPT ![lpn] = n] /\ persisted' = persisted
  BY DEF Hit, Miss
<1>3. /\ ~Unresolved'
      /\ Resolved' => pc = "write" /\ lpn' = lpn
  BY <1>1 DEF Proceed, Resolving, Unresolved, Resolved
<1>4. lookup_CMT <=> r.cached
  BY DEF lookup_CMT
<1>5. /\ n.ppn = r.ppn /\ n.cached
      /\ n.create_ts = IF r.cached THEN r.create_ts ELSE 0
      /\ n.modified_ts = IF pc = "write" THEN IF r.cached THEN 0 ELSE 1
                         ELSE IF r.cached THEN r.modified_ts ELSE 0
  <2> HIDE DEF r
  <2>1. CASE lookup_CMT
    <3>1. n = Visited(r)
      BY <2>1
    <3>2. /\ Visited(r).ppn = r.ppn /\ Visited(r).create_ts = r.create_ts
          /\ Visited(r).modified_ts = IF pc = "write" THEN 0 ELSE r.modified_ts
      BY <1>1 DEF Visited, MPage
    <3>3. Visited(r).cached <=> r.cached
      BY <1>1 DEF Visited, MPage
    <3> QED
      BY <1>4, <2>1, <3>1, <3>2, <3>3
  <2>2. CASE ~lookup_CMT
    BY <1>4, <2>2 DEF Loaded
  <2> QED
    BY <2>1, <2>2
<1>6. r.create_ts \in Int /\ r.modified_ts \in Int
  BY <1>1 DEF MPage
<1>7. r.cached => /\ r.create_ts <= 1 /\ r.modified_ts <= 1
                  /\ pc = "write" => r.create_ts < 0
  BY <1>1 DEF StampsTell, Cached, Unresolved
<1>8. pc = "write" => IsDirty(n)
  BY <1>5, <1>6, <1>7 DEF IsDirty
<1>9. lpn \notin TRIMMED /\ ~IsDirty(n) => persisted[lpn] = n.ppn
  <2>1. lpn \notin TRIMMED /\ (~r.cached \/ ~IsDirty(r)) => persisted[lpn] = r.ppn
    BY <1>1 DEF StampsTell
  <2>2. ~IsDirty(n) => ~r.cached \/ ~IsDirty(r)
    BY <1>5, <1>8 DEF IsDirty
  <2> QED
    BY <1>5, <2>1, <2>2
<1>10. n.create_ts <= 1 /\ n.modified_ts <= 1
  BY <1>5, <1>6, <1>7
<1> HIDE DEF r, n
<1>11. /\ trans_map'[lpn] = n
       /\ \A k \in LPN : k # lpn => trans_map'[k] = trans_map[k]
  BY <1>1, <1>2
<1>12. \A k \in LPN \ TRIMMED :
         ~trans_map'[k].cached \/ ~IsDirty(trans_map'[k]) => persisted'[k] = trans_map'[k].ppn
  BY <1>2, <1>5, <1>9, <1>11 DEF StampsTell
<1>13. ASSUME NEW k \in Cached(trans_map')
       PROVE  trans_map'[k].create_ts <= 1 /\ trans_map'[k].modified_ts <= 1
  BY <1>10, <1>11 DEF StampsTell, Cached
<1>14. Resolved' => trans_map'[lpn'].cached /\ IsDirty(trans_map'[lpn'])
  BY <1>3, <1>5, <1>8, <1>11
<1> QED
  BY <1>3, <1>12, <1>13, <1>14 DEF StampsTell

LEMMA StampsIssue ==
  ASSUME IInv, StampsTell, MapAndIssue
  PROVE  StampsTell'
<1> DEFINE r == trans_map[lpn]
           n == [r EXCEPT !.ppn = free_page]
<1>1. trans_map \in [LPN -> MPage] /\ lpn \in LPN /\ r \in MPage
  BY DEF IInv, TypeOK, MapAndIssue
<1>2. trans_map' = [trans_map EXCEPT ![lpn] = n] /\ persisted' = persisted /\ pc' = "idle"
  BY DEF MapAndIssue
<1>3. r.cached /\ IsDirty(r)
  BY DEF StampsTell, Resolved, MapAndIssue
<1>4. /\ n.create_ts = r.create_ts /\ n.modified_ts = r.modified_ts /\ (n.cached <=> r.cached)
  <2> HIDE DEF r
  <2> QED
    BY <1>1 DEF MPage
<1>5. n.cached /\ IsDirty(n)
  BY <1>3, <1>4 DEF IsDirty
<1>6. lpn \in Cached(trans_map)
  BY <1>1, <1>3 DEF Cached
<1> HIDE DEF r, n
<1>7. /\ trans_map'[lpn] = n
      /\ \A k \in LPN : k # lpn => trans_map'[k] = trans_map[k]
  BY <1>1, <1>2
<1>8. \A k \in LPN \ TRIMMED :
         ~trans_map'[k].cached \/ ~IsDirty(trans_map'[k]) => persisted'[k] = trans_map'[k].ppn
  BY <1>2, <1>5, <1>7 DEF StampsTell
<1>9. ASSUME NEW k \in Cached(trans_map')
      PROVE  trans_map'[k].create_ts <= 1 /\ trans_map'[k].modified_ts <= 1
  BY <1>4, <1>6, <1>7 DEF StampsTell, Cached, r
<1> QED
  BY <1>2, <1>8, <1>9 DEF StampsTell, Unresolved, Resolved

LEMMA StampsTrim ==
  ASSUME IInv, ~stray, StampsTell, pc = "idle", UNCHANGED pc,
         NEW l \in Mapped, l \in TRIMMED, TrimMapped(l)
  PROVE  StampsTell'
<1> DEFINE r == trans_map[l]
           n == [r EXCEPT !.ppn = -1]
           tm == IF r.cached THEN Evicted(trans_map, l) ELSE trans_map
<1>1. trans_map \in [LPN -> MPage] /\ l \in LPN /\ r \in MPage
  BY DEF IInv, TypeOK, Mapped
<1>2. /\ trans_map' = [tm EXCEPT ![l] = n]
      /\ persisted' = IF r.cached THEN PersistedAfter(trans_map, l) ELSE persisted
  BY DEF TrimMapped
<1>3. n.create_ts = r.create_ts /\ n.modified_ts = r.modified_ts /\ (n.cached <=> r.cached)
  <2> HIDE DEF r
  <2> QED
    BY <1>1 DEF MPage
<1>4. r.cached <=> l \in Cached(trans_map)
  BY <1>1 DEF Cached
<1>5. tm \in [LPN -> MPage] /\ (\A k \in LPN : tm[k].ppn = trans_map[k].ppn)
  BY <1>1, <1>4, EvictedTable DEF SamePages
<1>6. ASSUME NEW k \in LPN \ TRIMMED, ~tm[k].cached \/ ~IsDirty(tm[k])
      PROVE  persisted'[k] = trans_map[k].ppn
  <2>1. CASE r.cached
    BY <1>2, <1>4, <1>6, <2>1, StampsEvicted
  <2>2. CASE ~r.cached
    BY <1>2, <1>6, <2>2 DEF StampsTell
  <2> QED
    BY <2>1, <2>2
<1>7. \A k \in Cached(tm) : tm[k].create_ts <= 1 /\ tm[k].modified_ts <= 1
  <2>1. CASE r.cached
    BY <1>4, <2>1, StampsBound
  <2>2. CASE ~r.cached
    BY <2>2 DEF StampsTell
  <2> QED
    BY <2>1, <2>2
<1>8. r.cached => r.create_ts <= 1 /\ r.modified_ts <= 1
  BY <1>4 DEF StampsTell
<1> HIDE DEF r, n, tm
<1>9. trans_map'[l] = n /\ \A k \in LPN \ {l} : trans_map'[k] = tm[k]
  BY <1>1, <1>2, <1>5
<1>10. \A k \in LPN \ TRIMMED :
         ~trans_map'[k].cached \/ ~IsDirty(trans_map'[k]) => persisted'[k] = trans_map'[k].ppn
  BY <1>5, <1>6, <1>9
<1>11. ASSUME NEW k \in Cached(trans_map')
       PROVE  trans_map'[k].create_ts <= 1 /\ trans_map'[k].modified_ts <= 1
  <2>1. k \in LPN /\ trans_map'[k].cached
    BY DEF Cached
  <2>2. CASE k = l
    BY <1>3, <1>8, <1>9, <2>1, <2>2
  <2>3. CASE k # l
    BY <1>7, <1>9, <2>1, <2>3 DEF Cached
  <2> QED
    BY <2>2, <2>3
<1> QED
  BY <1>10, <1>11 DEF StampsTell, Unresolved, Resolved

LEMMA StampsKeep ==
  ASSUME IInv, StampsTell, \A s \in STEPS : s >= 2, [Next]_vars
  PROVE  StampsTell'
<1>1. CASE UNCHANGED vars
  BY <1>1, StampsStay DEF vars, parentvars, Unresolved, Resolved
<1>2. ASSUME NEW l \in LPN, Call(l)
      PROVE  StampsTell'
  <2>1. ~stray /\ UNCHANGED ftl
    BY <1>2 DEF Call
  <2>2. CASE DftlRead(l) \/ DftlWrite(l) \/ BdftlRead(l) \/ BdftlWrite(l)
    BY <2>2, StampsArrive DEF DftlRead, DftlWrite, BdftlRead, BdftlWrite
  <2>3. CASE DftlTrim(l)
    BY <2>1, <2>3, StampsTrim DEF DftlTrim
  <2>4. CASE BdftlTrim(l)
    <3>1. pc = "idle" /\ UNCHANGED <<pc, lpn>> /\ l \in TRIMMED
      BY <2>4 DEF BdftlTrim
    <3>2. CASE TrimPagewise(l) /\ l \in Mapped
      BY <2>1, <3>1, <3>2, StampsTrim DEF TrimPagewise
    <3>3. CASE TrimOptimal(l) \/ (TrimPagewise(l) /\ l \notin Mapped)
      <4>1. UNCHANGED <<trans_map, persisted>>
        BY <3>3 DEF TrimOptimal, TrimPagewise, table
      <4> QED
        BY <2>1, <3>1, <4>1, StampsStay DEF Unresolved, Resolved
    <3> QED
      BY <2>4, <3>2, <3>3 DEF BdftlTrim
  <2> QED
    BY <1>2, <2>2, <2>3, <2>4 DEF Call
<1>3. CASE Step
  <2>1. CASE ftl = "DFTL" /\ UNCHANGED ftl /\ DftlStep
    <3>1. CASE resolve_mapping("page")
      BY <2>1, <3>1, StampsEvict, StampsResolved DEF resolve_mapping
    <3>2. CASE pc = "page" /\ get_free_data_page("program")
      BY <2>1, <3>2, StampsStay DEF get_free_data_page, Unresolved, Resolved
    <3>3. CASE MapAndIssue
      BY <3>3, StampsIssue
    <3> QED
      BY <2>1, <3>1, <3>2, <3>3 DEF DftlStep
  <2>2. CASE ftl = "BDFTL" /\ UNCHANGED ftl /\ BdftlStep
    <3>1. CASE resolve_mapping("program")
      BY <2>2, <3>1, StampsEvict, StampsResolved DEF resolve_mapping
    <3>2. CASE MapAndIssue
      BY <3>2, StampsIssue
    <3>3. CASE GetDataPage
      BY <2>2, <3>3, StampsStay DEF GetDataPage, get_free_data_page, Unresolved, Resolved
    <3>4. CASE Convert
      <4>1. UNCHANGED trans_map
        BY <2>2, <3>4, InFlight, NothingTransferred DEF Convert, OutOfOrder
      <4> QED
        BY <2>2, <3>4, <4>1, StampsStay DEF Convert, OutOfOrder, Unresolved, Resolved
    <3>5. CASE WriteNewBlock \/ WriteInOrder \/ WritePagewise \/ GetUsedPage
      <4>1. UNCHANGED <<trans_map, persisted>>
        BY <3>5 DEF WriteNewBlock, WriteInOrder, WritePagewise, GetUsedPage, table
      <4>2. pc \in {"block", "page"} /\ pc' \in {"block", "idle", "page", "write"}
        BY <3>5 DEF WriteNewBlock, NeedsBlock, WriteInOrder, InOrder, WritePagewise, GetUsedPage
      <4> QED
        BY <2>2, <4>1, <4>2, StampsStay DEF Unresolved, Resolved
    <3> QED
      BY <2>2, <3>1, <3>2, <3>3, <3>4, <3>5 DEF BdftlStep
  <2> QED
    BY <1>3, <2>1, <2>2 DEF Step
<1>4. CASE Abort
  BY <1>4, StampsStay DEF Abort, Unresolved, Resolved
<1> QED
  BY <1>1, <1>2, <1>3, <1>4 DEF Next

(* If the events of the host come two time units apart, an entry that is      *)
(* dropped from the cache without being written back is on its page already.  *)
THEOREM NothingDropped ==
  ASSUME \A s \in STEPS : s >= 2
  PROVE  Spec => []NoMappingDropped
<1>1. Init => IInv /\ StampsTell
  BY InitInvariant, InitStamps
<1>2. (IInv /\ StampsTell) /\ [Next]_vars => (IInv /\ StampsTell)'
  BY NextKeeps, StampsKeep
<1>3. StampsTell => NoMappingDropped
  BY DEF StampsTell, NoMappingDropped
<1> QED
  BY <1>1, <1>2, <1>3, PTL DEF Spec

-----------------------------------------------------------------------------
(* Which pages a read returns, and the steps of SparseDisk.                  *)

Stored == {l \in LPN : PageRead(l) = l}

Writing == IF pc = "read" THEN NULL ELSE lpn

(* The page is looked for in the block of its logical block.                 *)
InOwnBlock(l) == ftl = "BDFTL" /\ block_map[LbaOf(l)].optimal

Found(l) ==
  IF InOwnBlock(l)
    THEN HasOwnBlock(LbaOf(l)) /\ flash[block_map[LbaOf(l)].pbn][OffsetOf(l)] = l
  ELSE l \in Mapped /\ flash[BlockOf(trans_map[l].ppn)][PageIn(trans_map[l].ppn)] = l

LEMMA FoundThen ==
  ASSUME NEW l \in LPN
  PROVE  Found(l)' <=>
           IF ftl' = "BDFTL" /\ block_map'[LbaOf(l)].optimal
             THEN /\ block_map'[LbaOf(l)].pbn # NULL
                  /\ flash'[block_map'[LbaOf(l)].pbn][OffsetOf(l)] = l
           ELSE /\ trans_map'[l].ppn # -1
                /\ flash'[BlockOf(trans_map'[l].ppn)][PageIn(trans_map'[l].ppn)] = l
BY DEF Found, InOwnBlock, HasOwnBlock, Mapped, BlockOf, PageIn

LEMMA StoredFound ==
  ASSUME ftl \in {"DFTL", "BDFTL"}, ftl' \in {"DFTL", "BDFTL"}, NEW l \in LPN
  PROVE  /\ l \in Stored <=> Found(l)
         /\ l \in Stored' <=> Found(l)'
<1>1. l # EMPTY
  BY MarksAreNoPages
<1>2. l \in Stored <=> Found(l)
  BY <1>1 DEF Stored, PageRead, DftlPageRead, BdftlPageRead, Found, InOwnBlock, HasOwnBlock,
     Mapped
<1>3. l \in Stored' <=> Found(l)'
  BY <1>1 DEF Stored, PageRead, DftlPageRead, BdftlPageRead, Found, InOwnBlock, HasOwnBlock,
     Mapped, BlockOf, PageIn
<1> QED
  BY <1>2, <1>3

DiskStep == Promise!DiskNext \/ UNCHANGED (Promise!diskvars)

LEMMA DiskSteps ==
  /\ UNCHANGED <<Stored, Writing>> => DiskStep
  /\ \A l \in LPN :
       Writing = NULL /\ Writing' = l /\ UNCHANGED Stored => DiskStep
  /\ Writing # NULL /\ Writing' = NULL /\ Stored' = Stored \cup {Writing} => DiskStep
  /\ \A l \in LPN :
       Writing = NULL /\ UNCHANGED Writing /\ Stored' = Stored \ {l} => DiskStep
BY DEF DiskStep, Promise!DiskNext, Promise!diskvars, Promise!Accept, Promise!Complete,
   Promise!Trim, Stored, Writing

LEMMA FtlStays ==
  ASSUME IInv, UNCHANGED ftl
  PROVE  ftl \in {"DFTL", "BDFTL"} /\ ftl' \in {"DFTL", "BDFTL"}
BY DEF IInv, TypeOK

LEMMA WritingNow ==
  ASSUME IInv
  PROVE  /\ pc \in {"idle", "read"} => Writing = NULL
         /\ pc \notin {"idle", "read"} => Writing = lpn /\ Writing \in LPN /\ Writing # NULL
         /\ pc = "idle" => lpn = NULL
BY NotUnmapped DEF IInv, TypeOK, Writing

LEMMA StoredKept ==
  ASSUME IInv, SamePages(trans_map', trans_map), UNCHANGED <<flash, block_map, ftl>>
  PROVE  UNCHANGED Stored
<1>1. ftl \in {"DFTL", "BDFTL"} /\ ftl' \in {"DFTL", "BDFTL"}
  BY FtlStays
<1>2. ASSUME NEW l \in LPN
      PROVE  Found(l)' <=> Found(l)
  <2>1. trans_map'[l].ppn = trans_map[l].ppn
    BY DEF SamePages
  <2> QED
    BY <2>1 DEF Found, InOwnBlock, HasOwnBlock, Mapped, BlockOf, PageIn
<1>3. \A l \in LPN : l \in Stored' <=> l \in Stored
  BY <1>1, <1>2, StoredFound
<1> QED
  BY <1>3 DEF Stored

(* The calls and steps that leave all pages where they are.                   *)
LEMMA DiskArrives ==
  ASSUME IInv, ~stray, NEW l \in LPN, NEW first, EventArrives(l, first),
         first \in {"read", "write", "block"}, UNCHANGED <<block_map, ftl>>
  PROVE  DiskStep
<1>1. PICK step \in STEPS : trans_map' = Aged(trans_map, step)
  BY DEF EventArrives
<1>2. SamePages(trans_map', trans_map)
  BY <1>1, AgedTable, DftlAssumption DEF IInv, TypeOK
<1>3. UNCHANGED Stored
  BY <1>2, StoredKept DEF EventArrives
<1>4. Writing = NULL
  BY WritingNow DEF EventArrives
<1>5. CASE first = "read"
  <2>1. Writing' = NULL
    BY <1>5 DEF EventArrives, Writing
  <2> QED
    BY <1>3, <1>4, <2>1, DiskSteps
<1>6. CASE first # "read"
  <2>1. Writing' = l
    BY <1>6 DEF EventArrives, Writing
  <2> QED
    BY <1>3, <1>4, <2>1, DiskSteps
<1> QED
  BY <1>5, <1>6

LEMMA DiskResolves ==
  ASSUME IInv, NEW next, next # "read", resolve_mapping(next), UNCHANGED <<block_map, ftl>>
  PROVE  DiskStep
<1>1. trans_map \in [LPN -> MPage] /\ lpn \in LPN
  BY DEF IInv, TypeOK, resolve_mapping, evict_page_from_cache, Hit, Miss, Resolving
<1>2. SamePages(trans_map', trans_map) /\ UNCHANGED flash
  <2>1. CASE evict_page_from_cache
    BY <1>1, <2>1, EvictedTable DEF evict_page_from_cache, IsLeastVisited, EvictEntry
  <2>2. CASE Hit(next)
    <3> DEFINE r == trans_map[lpn]
               m == Visited(r)
    <3>1. trans_map' = [trans_map EXCEPT ![lpn] = m] /\ UNCHANGED flash
      BY <2>2 DEF Hit
    <3>2. r \in MPage
      BY <1>1
    <3> HIDE DEF r
    <3>3. m.ppn = r.ppn
      BY <3>2 DEF Visited, MPage
    <3> HIDE DEF m
    <3> QED
      BY <1>1, <3>1, <3>3 DEF SamePages, r
  <2>3. CASE Miss(next)
    <3> DEFINE r == trans_map[lpn]
               m == Loaded(r)
    <3>1. trans_map' = [trans_map EXCEPT ![lpn] = m] /\ UNCHANGED flash
      BY <2>3 DEF Miss
    <3> HIDE DEF r
    <3>2. m.ppn = r.ppn
      BY DEF Loaded
    <3> HIDE DEF m
    <3> QED
      BY <1>1, <3>1, <3>2 DEF SamePages, r
  <2> QED
    BY <2>1, <2>2, <2>3 DEF resolve_mapping
<1>3. UNCHANGED Stored
  BY <1>2, StoredKept
<1>4. UNCHANGED Writing
  BY DEF resolve_mapping, evict_page_from_cache, Hit, Miss, Resolving, Proceed, Writing
<1> QED
  BY <1>3, <1>4, DiskSteps

LEMMA DiskStays ==
  ASSUME IInv, SamePages(trans_map', trans_map), UNCHANGED <<flash, block_map, ftl, lpn>>,
         pc # "read", pc' # "read"
  PROVE  DiskStep
<1>1. UNCHANGED Stored
  BY StoredKept
<1>2. UNCHANGED Writing
  BY DEF Writing
<1> QED
  BY <1>1, <1>2, DiskSteps

(* A block that is new, or is not written in order any more, though nothing    *)
(* ever was, shows no page.                                                *)
LEMMA DiskNewBlock ==
  ASSUME IInv, ~stray, ftl = "BDFTL", WriteNewBlock, UNCHANGED ftl
  PROVE  DiskStep
<1> DEFINE new == FreeBlock(bm)
<1>1. /\ TypeOK /\ lpn \in LPN /\ pc = "block" /\ UNCHANGED <<pc, lpn>>
      /\ Lbn \in LBA /\ block_map[Lbn].pbn = NULL
      /\ block_map \in [LBA -> [pbn : Block \cup {NULL}, nextPage : 0 .. BLOCK_SIZE,
                                optimal : BOOLEAN]]
  BY PositionType DEF IInv, TypeOK, Sound, WriteNewBlock, NeedsBlock, Lbn
<1>2. /\ HasFreeBlock(bm) /\ bm' = get_free_block(bm, "DATA")
      /\ flash' = flash /\ trans_map' = trans_map
      /\ block_map' = [block_map EXCEPT ![Lbn].pbn = new]
  BY MemoryPlain DEF WriteNewBlock, table
<1>3. flash[new] = Erased
  BY <1>2, TakeBlock
<1> HIDE DEF new
<1>4. /\ \A a \in LBA : a # Lbn => block_map'[a] = block_map[a]
      /\ block_map'[Lbn].pbn = new
      /\ block_map'[Lbn].optimal <=> block_map[Lbn].optimal
  BY <1>1, <1>2
<1>5. ASSUME NEW l \in LPN
      PROVE  Found(l)' <=> Found(l)
  <2>1. LbaOf(l) \in LBA /\ OffsetOf(l) \in PageNo /\ l # EMPTY
    BY PositionType, MarksAreNoPages
  <2>2. CASE LbaOf(l) # Lbn
    BY <1>2, <1>4, <2>1, <2>2 DEF Found, InOwnBlock, HasOwnBlock, Mapped, BlockOf, PageIn
  <2>3. CASE LbaOf(l) = Lbn
    <3>1. flash[new][OffsetOf(l)] = EMPTY
      BY <1>3, <2>1 DEF Erased
    <3>2. InOwnBlock(l)' <=> InOwnBlock(l)
      BY <1>4, <2>3 DEF InOwnBlock
    <3>3. CASE InOwnBlock(l)
      <4>1. ~Found(l)
        BY <1>1, <2>3, <3>3 DEF Found, HasOwnBlock
      <4>2. flash'[block_map'[LbaOf(l)].pbn][OffsetOf(l)] # l
        BY <1>2, <1>4, <2>1, <2>3, <3>1
      <4>3. ~Found(l)'
        BY <3>2, <3>3, <4>2 DEF Found
      <4> QED
        BY <4>1, <4>3
    <3>4. CASE ~InOwnBlock(l)
      BY <1>2, <3>2, <3>4 DEF Found, Mapped, BlockOf, PageIn
    <3> QED
      BY <3>3, <3>4
  <2> QED
    BY <2>2, <2>3
<1>6. UNCHANGED Stored
  <2>1. \A l \in LPN : l \in Stored' <=> l \in Stored
    BY <1>5, StoredFound, FtlStays
  <2> QED
    BY <2>1 DEF Stored
<1>7. UNCHANGED Writing
  BY <1>1 DEF Writing
<1> QED
  BY <1>6, <1>7, DiskSteps

LEMMA DiskPagewise ==
  ASSUME IInv, ~stray, ftl = "BDFTL", WritePagewise, UNCHANGED ftl
  PROVE  DiskStep
<1>1. /\ TypeOK /\ OptimalUnmapped /\ lpn \in LPN /\ pc = "block" /\ pc' = "page"
      /\ Lbn \in LBA /\ (block_map[Lbn].optimal => block_map[Lbn].pbn = NULL)
      /\ block_map \in [LBA -> [pbn : Block \cup {NULL}, nextPage : 0 .. BLOCK_SIZE,
                                optimal : BOOLEAN]]
  BY PositionType DEF IInv, TypeOK, Sound, WritePagewise, Lbn
<1>2. /\ flash' = flash /\ trans_map' = trans_map /\ lpn' = lpn
      /\ block_map' = [block_map EXCEPT ![Lbn].optimal = FALSE]
  BY DEF WritePagewise, table
<1>3. /\ \A a \in LBA : a # Lbn => block_map'[a] = block_map[a]
      /\ ~block_map'[Lbn].optimal
  BY <1>1, <1>2
<1>4. ASSUME NEW l \in LPN
      PROVE  Found(l)' <=> Found(l)
  <2>1. LbaOf(l) \in LBA
    BY PositionType
  <2>2. CASE LbaOf(l) # Lbn
    BY <1>2, <1>3, <2>1, <2>2 DEF Found, InOwnBlock, HasOwnBlock, Mapped, BlockOf, PageIn
  <2>3. CASE LbaOf(l) = Lbn /\ ~block_map[Lbn].optimal
    BY <1>2, <1>3, <2>3 DEF Found, InOwnBlock, Mapped, BlockOf, PageIn
  <2>4. CASE LbaOf(l) = Lbn /\ block_map[Lbn].optimal
    <3>1. ~Found(l)
      BY <1>1, <2>4 DEF Found, InOwnBlock, HasOwnBlock
    <3>2. l \notin Mapped
      BY <1>1, <2>4 DEF OptimalUnmapped
    <3>3. ~Found(l)'
      BY <1>2, <1>3, <2>4, <3>2 DEF Found, InOwnBlock, Mapped
    <3> QED
      BY <3>1, <3>3
  <2> QED
    BY <2>2, <2>3, <2>4
<1>5. UNCHANGED Stored
  <2>1. \A l \in LPN : l \in Stored' <=> l \in Stored
    BY <1>4, StoredFound, FtlStays
  <2> QED
    BY <2>1 DEF Stored
<1>6. UNCHANGED Writing
  BY <1>1, <1>2 DEF Writing
<1> QED
  BY <1>5, <1>6, DiskSteps

(* The writes: one page more is found, and the others still are.              *)
LEMMA DiskIssues ==
  ASSUME IInv, ~stray, MapAndIssue, UNCHANGED <<bvars, ftl>>
  PROVE  DiskStep
<1> DEFINE old == trans_map[lpn].ppn
<1>1. /\ lpn \in LPN /\ free_page \in Page /\ old # free_page
      /\ flash[BlockOf(free_page)][PageIn(free_page)] = EMPTY
      /\ BlockOf(free_page) \in CurrentBlocks \cup BlocksToUseUp
      /\ flash'[BlockOf(free_page)][PageIn(free_page)] = lpn
      /\ \A n \in Page : n # free_page =>
           flash'[BlockOf(n)][PageIn(n)] =
             IF n = old THEN INVALID
             ELSE IF flash[BlockOf(n)][PageIn(n)] = lpn THEN OLD
             ELSE flash[BlockOf(n)][PageIn(n)]
  BY Issued
<1>2. /\ TypeOK /\ BlocksApart /\ OptimalUnmapped /\ trans_map \in [LPN -> MPage]
  BY DEF IInv, Sound, TypeOK
<1>3. /\ pc = "program" /\ pc' = "idle" /\ lpn' = NULL
      /\ trans_map' = [trans_map EXCEPT ![lpn].ppn = free_page]
  BY DEF MapAndIssue
<1>4. /\ trans_map'[lpn].ppn = free_page
      /\ \A l \in LPN : l # lpn => trans_map'[l] = trans_map[l]
  <2> DEFINE r == trans_map[lpn]
             n == [r EXCEPT !.ppn = free_page]
  <2>1. trans_map' = [trans_map EXCEPT ![lpn] = n]
    BY <1>3
  <2>2. r \in MPage
    BY <1>1, <1>2
  <2> HIDE DEF r
  <2>3. n.ppn = free_page
    BY <2>2 DEF MPage
  <2> HIDE DEF n
  <2> QED
    BY <1>1, <1>2, <2>1, <2>3
<1>5. \A l \in LPN : l = lpn => Found(l)'
  <2>1. ftl' = "BDFTL" => ~block_map'[LbaOf(lpn)].optimal
    BY <1>2, <1>3 DEF OptimalUnmapped, Lbn, bvars
  <2>2. free_page # -1
    BY <1>1, NotUnmapped
  <2> QED
    BY <1>1, <1>4, <2>1, <2>2, FoundThen
<1>6. lpn \in Mapped =>
        /\ old \in Page /\ reverse_trans_map[old] = lpn /\ BlockOf(old) \in MappedBlocks
  BY MappedPage
<1>7. lpn \notin Mapped => old = -1
  BY <1>1 DEF Mapped
<1> HIDE DEF old
<1>8. ASSUME NEW l \in LPN, l # lpn
      PROVE  Found(l)' <=> Found(l)
  <2>1. /\ LbaOf(l) \in LBA /\ OffsetOf(l) \in PageNo /\ l # OLD /\ l # INVALID
        /\ trans_map'[l] = trans_map[l] /\ block_map' = block_map /\ ftl' = ftl
    BY <1>4, <1>8, PositionType, MarksAreNoPages DEF bvars
  <2>2. CASE InOwnBlock(l) /\ HasOwnBlock(LbaOf(l))
    <3> DEFINE own == block_map[LbaOf(l)].pbn
    <3>1. own \in Block /\ own \notin CurrentBlocks \cup BlocksToUseUp \cup MappedBlocks
      BY <1>2, <2>1, <2>2 DEF TypeOK, BlocksApart, HasOwnBlock
    <3>2. PICK n \in Page : BlockOf(n) = own /\ PageIn(n) = OffsetOf(l)
      BY <2>1, <3>1, PageOf
    <3>3. n # free_page /\ n # old
      BY <1>1, <1>6, <1>7, <3>1, <3>2, NotUnmapped
    <3>4. flash'[own][OffsetOf(l)] = l <=> flash[own][OffsetOf(l)] = l
      BY <1>1, <1>8, <2>1, <3>2, <3>3
    <3> QED
      BY <2>1, <2>2, <3>4, FoundThen DEF Found, InOwnBlock, HasOwnBlock
  <2>3. CASE InOwnBlock(l) /\ ~HasOwnBlock(LbaOf(l))
    BY <2>1, <2>3, FoundThen DEF Found, InOwnBlock, HasOwnBlock
  <2>4. CASE ~InOwnBlock(l) /\ l \in Mapped
    <3> DEFINE n == trans_map[l].ppn
    <3>1. n \in Page /\ reverse_trans_map[n] = l /\ flash[BlockOf(n)][PageIn(n)] \in {l, OLD}
      BY <2>4, MappedPage
    <3>2. n # free_page
      BY <1>1, <3>1, MarksDiffer, MarksAreNoPages
    <3>3. n # old
      BY <1>6, <1>7, <1>8, <3>1, NotUnmapped
    <3> HIDE DEF n
    <3>4. flash'[BlockOf(n)][PageIn(n)] = l <=> flash[BlockOf(n)][PageIn(n)] = l
      BY <1>1, <1>8, <2>1, <3>1, <3>2, <3>3
    <3> QED
      BY <2>1, <2>4, <3>4, FoundThen DEF Found, InOwnBlock, Mapped, n
  <2>5. CASE ~InOwnBlock(l) /\ l \notin Mapped
    BY <2>1, <2>5, FoundThen DEF Found, InOwnBlock, Mapped
  <2> QED
    BY <2>2, <2>3, <2>4, <2>5
<1>9. Stored' = Stored \cup {lpn}
  <2>1. \A l \in LPN : l \in Stored' <=> l \in Stored \/ l = lpn
    BY <1>1, <1>5, <1>8, StoredFound, FtlStays
  <2> QED
    BY <1>1, <2>1 DEF Stored
<1>10. Writing = lpn /\ Writing # NULL /\ Writing' = NULL
  BY <1>3, WritingNow DEF Writing
<1> QED
  BY <1>9, <1>10, DiskSteps

LEMMA DiskInOrder ==
  ASSUME IInv, ~stray, ftl = "BDFTL", WriteInOrder, UNCHANGED ftl
  PROVE  DiskStep
<1> DEFINE own == block_map[Lbn].pbn
<1>1. /\ TypeOK /\ BlocksApart /\ lpn \in LPN /\ pc = "block"
      /\ Lbn \in LBA /\ HasOwnBlock(Lbn) /\ Offset \in PageNo /\ own \in Block
      /\ block_map \in [LBA -> [pbn : Block \cup {NULL}, nextPage : 0 .. BLOCK_SIZE,
                                optimal : BOOLEAN]]
      /\ flash \in [Block -> [PageNo -> LPN \cup {EMPTY, INVALID, OLD}]]
      /\ trans_map' = trans_map
  BY PositionType DEF IInv, TypeOK, Sound, WriteInOrder, InOrder, Lbn, Offset, HasOwnBlock, table
<1>2. /\ flash' = Program(flash, own, Offset, lpn) /\ pc' = "idle" /\ lpn' = NULL
      /\ block_map' = [block_map EXCEPT ![Lbn].nextPage = @ + 1]
  BY DEF WriteInOrder
<1>3. own \notin MappedBlocks /\ \A a \in LBA : HasOwnBlock(a) /\ block_map[a].pbn = own => a = Lbn
  BY <1>1 DEF BlocksApart
<1>4. /\ flash'[own][Offset] = lpn
      /\ \A c \in Block, q \in PageNo : c # own \/ q # Offset =>
           flash'[c][q] = IF flash[c][q] = lpn THEN OLD ELSE flash[c][q]
  <2> HIDE DEF own
  <2> QED
    BY <1>1, <1>2, ProgramType
<1>5. \A a \in LBA : /\ block_map'[a].optimal <=> block_map[a].optimal
                    /\ block_map'[a].pbn = block_map[a].pbn
  BY <1>1, <1>2
<1>6. \A l \in LPN : l = lpn => Found(l)'
  <2>1. block_map'[LbaOf(lpn)].optimal /\ block_map'[LbaOf(lpn)].pbn = own /\ own # NULL
    BY <1>1, <1>5 DEF Lbn, HasOwnBlock
  <2> QED
    BY <1>1, <1>4, <2>1, FoundThen DEF Offset
<1> HIDE DEF own
<1>7. ASSUME NEW l \in LPN, l # lpn
      PROVE  Found(l)' <=> Found(l)
  <2>1. /\ LbaOf(l) \in LBA /\ OffsetOf(l) \in PageNo /\ l # OLD
        /\ block_map'[LbaOf(l)].optimal <=> block_map[LbaOf(l)].optimal
        /\ block_map'[LbaOf(l)].pbn = block_map[LbaOf(l)].pbn
    BY <1>5, PositionType, MarksAreNoPages
  <2>2. CASE InOwnBlock(l) /\ HasOwnBlock(LbaOf(l))
    <3>1. block_map[LbaOf(l)].pbn \in Block
      BY <1>1, <2>1, <2>2 DEF HasOwnBlock
    <3>2. block_map[LbaOf(l)].pbn # own \/ OffsetOf(l) # Offset
      BY <1>1, <1>3, <1>7, <2>1, <2>2, PositionUnique DEF Lbn, Offset
    <3>3. flash'[block_map[LbaOf(l)].pbn][OffsetOf(l)] = l <=>
          flash[block_map[LbaOf(l)].pbn][OffsetOf(l)] = l
      BY <1>4, <1>7, <2>1, <3>1, <3>2
    <3> QED
      BY <2>1, <2>2, <3>3, FoundThen DEF Found, InOwnBlock, HasOwnBlock
  <2>3. CASE InOwnBlock(l) /\ ~HasOwnBlock(LbaOf(l))
    BY <2>1, <2>3, FoundThen DEF Found, InOwnBlock, HasOwnBlock
  <2>4. CASE ~InOwnBlock(l) /\ l \in Mapped
    <3> DEFINE n == trans_map[l].ppn
    <3>1. BlockOf(n) \in Block /\ PageIn(n) \in PageNo /\ BlockOf(n) \in MappedBlocks
      BY <2>4, MappedPage
    <3>2. BlockOf(n) # own
      BY <1>3, <3>1
    <3> HIDE DEF n
    <3>3. flash'[BlockOf(n)][PageIn(n)] = l <=> flash[BlockOf(n)][PageIn(n)] = l
      BY <1>4, <1>7, <2>1, <3>1, <3>2
    <3> QED
      BY <1>1, <2>1, <2>4, <3>3, FoundThen DEF Found, InOwnBlock, Mapped, n
  <2>5. CASE ~InOwnBlock(l) /\ l \notin Mapped
    BY <1>1, <2>1, <2>5, FoundThen DEF Found, InOwnBlock, Mapped
  <2> QED
    BY <2>2, <2>3, <2>4, <2>5
<1>8. Stored' = Stored \cup {lpn}
  <2>1. \A l \in LPN : l \in Stored' <=> l \in Stored \/ l = lpn
    BY <1>1, <1>6, <1>7, StoredFound, FtlStays
  <2> QED
    BY <1>1, <2>1 DEF Stored
<1>9. Writing = lpn /\ Writing # NULL /\ Writing' = NULL
  BY <1>1, <1>2, WritingNow DEF Writing
<1> QED
  BY <1>8, <1>9, DiskSteps

(* The trims: the page is not found any more, and the others still are.       *)
LEMMA DiskTrims ==
  ASSUME IInv, pc = "idle", UNCHANGED <<pc, lpn, ftl>>, NEW l \in LPN,
         ~Found(l)', \A k \in LPN \ {l} : Found(k)' <=> Found(k)
  PROVE  DiskStep
<1>1. Stored' = Stored \ {l}
  <2>1. \A k \in LPN : k \in Stored' <=> k \in Stored /\ k # l
    BY StoredFound, FtlStays
  <2> QED
    BY <2>1 DEF Stored
<1>2. Writing = NULL /\ UNCHANGED Writing
  BY WritingNow DEF Writing
<1> QED
  BY <1>1, <1>2, DiskSteps

(* The pages of the others after the trim of a page that is mapped.           *)
LEMMA FoundAfterTrim ==
  ASSUME IInv, ~stray, NEW l \in Mapped, TrimMapped(l), NEW k \in LPN \ {l}
  PROVE  /\ trans_map'[k].ppn = trans_map[k].ppn
         /\ k \in Mapped =>
              flash'[BlockOf(trans_map[k].ppn)][PageIn(trans_map[k].ppn)] =
                flash[BlockOf(trans_map[k].ppn)][PageIn(trans_map[k].ppn)]
         /\ HasOwnBlock(LbaOf(k)) =>
              flash'[block_map[LbaOf(k)].pbn] = flash[block_map[LbaOf(k)].pbn]
<1>1. HasOwnBlock(LbaOf(k)) =>
        block_map[LbaOf(k)].pbn \in Block /\ block_map[LbaOf(k)].pbn \notin MappedBlocks
  BY PositionType DEF IInv, TypeOK, Sound, BlocksApart, HasOwnBlock
<1> QED
  BY <1>1, TrimmedTable, TrimmedFlash

LEMMA DiskDftlTrim ==
  ASSUME IInv, ~stray, NEW l \in LPN, ftl = "DFTL", DftlTrim(l), UNCHANGED <<bvars, ftl>>
  PROVE  DiskStep
<1>1. /\ l \in Mapped /\ TrimMapped(l) /\ pc = "idle" /\ UNCHANGED <<pc, lpn>>
  BY DEF DftlTrim
<1>2. l \notin Mapped'
  BY <1>1, TrimmedTable
<1>3. ~Found(l)'
  BY <1>2 DEF Found, InOwnBlock
<1>4. ASSUME NEW k \in LPN \ {l}
      PROVE  Found(k)' <=> Found(k)
  <2>1. /\ trans_map'[k].ppn = trans_map[k].ppn
        /\ k \in Mapped =>
             flash'[BlockOf(trans_map[k].ppn)][PageIn(trans_map[k].ppn)] =
               flash[BlockOf(trans_map[k].ppn)][PageIn(trans_map[k].ppn)]
    BY <1>1, FoundAfterTrim
  <2> QED
    BY <2>1, FoundThen DEF Found, InOwnBlock, Mapped
<1> QED
  BY <1>1, <1>3, <1>4, DiskTrims

LEMMA DiskTrimPagewise ==
  ASSUME IInv, ~stray, NEW l \in LPN, ftl = "BDFTL", pc = "idle", TrimPagewise(l),
         UNCHANGED <<pc, lpn, ftl>>
  PROVE  DiskStep
<1> DEFINE a == LbaOf(l)
<1>1. /\ ~block_map[a].optimal /\ trim_map' = trim_map \cup {l}
      /\ IF l \in Mapped THEN TrimMapped(l) ELSE UNCHANGED <<flash, table>>
      /\ block_map' = IF AllTrimmed(trim_map', a)
                        THEN [block_map EXCEPT ![a] = NewBPage] ELSE block_map
  BY DEF TrimPagewise
<1>2. /\ a \in LBA /\ OptimalUnmapped
      /\ block_map \in [LBA -> [pbn : Block \cup {NULL}, nextPage : 0 .. BLOCK_SIZE,
                                optimal : BOOLEAN]]
  BY PositionType DEF IInv, Sound, TypeOK
<1>3. NewBPage.optimal /\ NewBPage.pbn = NULL
  BY DEF NewBPage
<1>4. ASSUME NEW k \in LPN
      PROVE  /\ LbaOf(k) # a => block_map'[LbaOf(k)] = block_map[LbaOf(k)]
             /\ LbaOf(k) = a =>
                  \/ ~block_map'[LbaOf(k)].optimal
                  \/ block_map'[LbaOf(k)].pbn = NULL /\ k \in trim_map'
                     /\ block_map'[LbaOf(k)].optimal
  <2>1. LbaOf(k) \in LBA
    BY PositionType
  <2> HIDE DEF a
  <2>2. CASE AllTrimmed(trim_map', a)
    <3>1. block_map' = [block_map EXCEPT ![a] = NewBPage]
      BY <1>1, <2>2
    <3>2. LbaOf(k) = a => k \in trim_map'
      BY <2>2 DEF AllTrimmed
    <3> QED
      BY <1>2, <1>3, <2>1, <3>1, <3>2
  <2>3. CASE ~AllTrimmed(trim_map', a)
    BY <1>1, <2>3
  <2> QED
    BY <2>2, <2>3
<1>5. trans_map'[l].ppn = -1
  <2>1. CASE l \in Mapped
    BY <1>1, <2>1, TrimmedTable DEF Mapped
  <2>2. CASE l \notin Mapped
    BY <1>1, <2>2 DEF table, Mapped
  <2> QED
    BY <2>1, <2>2
<1>6. ~Found(l)'
  BY <1>4, <1>5, FoundThen
<1>7. ASSUME NEW k \in LPN \ {l}
      PROVE  Found(k)' <=> Found(k)
  <2>1. /\ trans_map'[k].ppn = trans_map[k].ppn
        /\ k \in Mapped =>
             flash'[BlockOf(trans_map[k].ppn)][PageIn(trans_map[k].ppn)] =
               flash[BlockOf(trans_map[k].ppn)][PageIn(trans_map[k].ppn)]
        /\ HasOwnBlock(LbaOf(k)) =>
             flash'[block_map[LbaOf(k)].pbn] = flash[block_map[LbaOf(k)].pbn]
    <3>1. CASE l \in Mapped
      BY <1>1, <3>1, FoundAfterTrim
    <3>2. CASE l \notin Mapped
      BY <1>1, <3>2 DEF table
    <3> QED
      BY <3>1, <3>2
  <2>2. CASE LbaOf(k) # a
    <3>1. block_map'[LbaOf(k)] = block_map[LbaOf(k)]
      BY <1>4, <2>2
    <3> QED
      BY <2>1, <3>1, FoundThen DEF Found, InOwnBlock, HasOwnBlock, Mapped
  <2>3. CASE LbaOf(k) = a /\ ~block_map'[LbaOf(k)].optimal
    BY <1>1, <2>1, <2>3, FoundThen DEF Found, InOwnBlock, Mapped
  <2>4. CASE /\ LbaOf(k) = a /\ block_map'[LbaOf(k)].pbn = NULL /\ k \in trim_map'
             /\ block_map'[LbaOf(k)].optimal
    <3>1. k \notin Mapped
      BY <1>1, <1>2, <2>4 DEF OptimalUnmapped
    <3>2. ~Found(k)
      BY <1>1, <2>4, <3>1 DEF Found, InOwnBlock
    <3>3. ~Found(k)'
      BY <2>4, FoundThen
    <3> QED
      BY <3>2, <3>3
  <2> QED
    BY <1>4, <2>2, <2>3, <2>4
<1> QED
  BY <1>6, <1>7, DiskTrims

LEMMA DiskOwnTrim ==
  ASSUME IInv, ~stray, NEW l \in LPN, ftl = "BDFTL", pc = "idle", TrimOptimal(l),
         block_map[LbaOf(l)].pbn # NULL, UNCHANGED <<pc, lpn, ftl>>
  PROVE  DiskStep
<1> DEFINE a == LbaOf(l)
           b == block_map[a].pbn
           p == OffsetOf(l)
           f == invalidate_page(flash, b, p)
<1>1. /\ BlocksApart /\ OptimalUnmapped
      /\ a \in LBA /\ p \in PageNo /\ HasOwnBlock(a) /\ b \in Block
      /\ block_map \in [LBA -> [pbn : Block \cup {NULL}, nextPage : 0 .. BLOCK_SIZE,
                                optimal : BOOLEAN]]
      /\ flash \in [Block -> [PageNo -> LPN \cup {EMPTY, INVALID, OLD}]]
  BY PositionType DEF IInv, TypeOK, Sound, HasOwnBlock, TrimOptimal
<1>2. BlockOf(TrimmedPage(l)) = b /\ PageIn(TrimmedPage(l)) = p
  BY TrimOptimalType
<1>3. /\ trans_map' = trans_map
      /\ IF IsInactive(f[b])
           THEN /\ flash' = Erase(f, b)
                /\ block_map' = [block_map EXCEPT ![a].pbn = NULL, ![a].nextPage = 0]
           ELSE /\ flash' = f
                /\ UNCHANGED block_map
  BY <1>2 DEF TrimOptimal, table
<1>4. /\ b \notin MappedBlocks
      /\ \A c \in LBA : HasOwnBlock(c) /\ block_map[c].pbn = b => c = a
  BY <1>1 DEF BlocksApart
<1> HIDE DEF b, p
<1>5. f \in [Block -> [PageNo -> LPN \cup {EMPTY, INVALID, OLD}]] /\ f[b][p] = INVALID
      /\ \A c \in Block, q \in PageNo : c # b \/ q # p => f[c][q] = flash[c][q]
  BY <1>1, InvalidateType
<1> HIDE DEF f
<1>6. ASSUME NEW c \in Block, c # b, NEW q \in PageNo
      PROVE  flash'[c][q] = flash[c][q]
  BY <1>1, <1>3, <1>5, <1>6 DEF Erase
<1>7. /\ block_map'[a].optimal
      /\ \/ block_map'[a].pbn = NULL /\ IsInactive(f[b])
         \/ block_map'[a].pbn = b /\ flash' = f
      /\ \A c \in LBA : c # a => block_map'[c] = block_map[c]
  <2> HIDE DEF a
  <2>1. b = block_map[a].pbn /\ block_map[a].optimal
    BY <1>1 DEF b, HasOwnBlock
  <2>2. CASE IsInactive(f[b])
    BY <1>1, <1>3, <2>1, <2>2
  <2>3. CASE ~IsInactive(f[b])
    BY <1>3, <2>1, <2>3
  <2> QED
    BY <2>2, <2>3
<1>8. ~Found(l)'
  <2>1. l # INVALID
    BY MarksAreNoPages
  <2>2. block_map'[a].pbn = b /\ flash' = f => flash'[block_map'[a].pbn][OffsetOf(l)] = INVALID
    BY <1>5 DEF p
  <2> QED
    BY <1>7, <2>1, <2>2, FoundThen
<1>9. ASSUME NEW k \in LPN \ {l}
      PROVE  Found(k)' <=> Found(k)
  <2>1. LbaOf(k) \in LBA /\ OffsetOf(k) \in PageNo /\ k # INVALID
    BY PositionType, MarksAreNoPages
  <2>2. CASE LbaOf(k) = a
    <3>1. InOwnBlock(k) /\ HasOwnBlock(LbaOf(k)) /\ block_map[LbaOf(k)].pbn = b
      BY <1>1, <2>2 DEF InOwnBlock, HasOwnBlock, b
    <3>2. OffsetOf(k) # p
      BY <2>2, PositionUnique DEF p
    <3>3. f[b][OffsetOf(k)] = flash[b][OffsetOf(k)]
      BY <1>1, <1>5, <2>1, <3>2
    <3>4. CASE block_map'[a].pbn = NULL /\ IsInactive(f[b])
      <4>1. flash[b][OffsetOf(k)] # k
        BY <2>1, <3>3, <3>4 DEF IsInactive
      <4>2. ~Found(k)
        BY <3>1, <4>1 DEF Found
      <4>3. ~Found(k)'
        BY <1>7, <2>2, <3>4, FoundThen
      <4> QED
        BY <4>2, <4>3
    <3>5. CASE block_map'[a].pbn = b /\ flash' = f
      <4>1. Found(k) <=> flash[b][OffsetOf(k)] = k
        BY <3>1 DEF Found
      <4>2. b # NULL
        BY <1>1, NotUnmapped
      <4>3. Found(k)' <=> flash'[b][OffsetOf(k)] = k
        BY <1>7, <2>2, <3>5, <4>2, FoundThen
      <4> QED
        BY <3>3, <3>5, <4>1, <4>3
    <3> QED
      BY <1>7, <3>4, <3>5
  <2>3. CASE LbaOf(k) # a /\ InOwnBlock(k)
    <3>1. block_map'[LbaOf(k)] = block_map[LbaOf(k)]
      BY <1>7, <2>1, <2>3
    <3>2. CASE HasOwnBlock(LbaOf(k))
      <4>1. block_map[LbaOf(k)].pbn \in Block /\ block_map[LbaOf(k)].pbn # b
        BY <1>1, <1>4, <2>1, <2>3, <3>2 DEF HasOwnBlock
      <4>2. flash'[block_map[LbaOf(k)].pbn][OffsetOf(k)] =
              flash[block_map[LbaOf(k)].pbn][OffsetOf(k)]
        BY <1>6, <2>1, <4>1
      <4> QED
        BY <2>3, <3>1, <3>2, <4>2, FoundThen DEF Found, InOwnBlock, HasOwnBlock
    <3>3. CASE ~HasOwnBlock(LbaOf(k))
      BY <2>3, <3>1, <3>3, FoundThen DEF Found, InOwnBlock, HasOwnBlock
    <3> QED
      BY <3>2, <3>3
  <2>4. CASE LbaOf(k) # a /\ ~InOwnBlock(k)
    <3>1. block_map'[LbaOf(k)] = block_map[LbaOf(k)]
      BY <1>7, <2>1, <2>4
    <3>2. CASE k \in Mapped
      <4>1. /\ BlockOf(trans_map[k].ppn) \in Block /\ PageIn(trans_map[k].ppn) \in PageNo
            /\ BlockOf(trans_map[k].ppn) \in MappedBlocks
        BY <3>2, MappedPage
      <4>2. flash'[BlockOf(trans_map[k].ppn)][PageIn(trans_map[k].ppn)] =
              flash[BlockOf(trans_map[k].ppn)][PageIn(trans_map[k].ppn)]
        BY <1>4, <1>6, <4>1
      <4> QED
        BY <1>3, <2>4, <3>1, <3>2, <4>2, FoundThen DEF Found, InOwnBlock, Mapped
    <3>3. CASE k \notin Mapped
      BY <1>3, <2>4, <3>1, <3>3, FoundThen DEF Found, InOwnBlock, Mapped
    <3> QED
      BY <3>2, <3>3
  <2> QED
    BY <2>2, <2>3, <2>4
<1> QED
  BY <1>8, <1>9, DiskTrims

LEMMA DiskEvery ==
  ASSUME IInv, [Next]_vars
  PROVE  DiskStep \/ (ftl = "BDFTL" /\ OutOfOrder) \/ stray'
<1>1. ASSUME NEW l \in LPN, Call(l), ~stray'
      PROVE  DiskStep
  <2>1. ~stray /\ UNCHANGED ftl
    BY <1>1 DEF Call
  <2>2. CASE ftl = "DFTL" /\ UNCHANGED bvars /\ (DftlRead(l) \/ DftlWrite(l))
    BY <2>1, <2>2, DiskArrives DEF DftlRead, DftlWrite, bvars
  <2>3. CASE ftl = "DFTL" /\ UNCHANGED bvars /\ DftlTrim(l)
    BY <2>1, <2>3, DiskDftlTrim
  <2>4. CASE ftl = "BDFTL" /\ (BdftlRead(l) \/ BdftlWrite(l))
    BY <2>1, <2>4, DiskArrives DEF BdftlRead, BdftlWrite, bvars
  <2>5. CASE ftl = "BDFTL" /\ BdftlTrim(l)
    <3>1. pc = "idle" /\ UNCHANGED <<pc, lpn>>
      BY <2>5 DEF BdftlTrim
    <3>2. CASE TrimPagewise(l)
      BY <2>1, <2>5, <3>1, <3>2, DiskTrimPagewise
    <3>3. CASE TrimOptimal(l)
      <4>1. block_map[LbaOf(l)].pbn # NULL
        BY <1>1, <3>3 DEF TrimOptimal
      <4> QED
        BY <2>1, <2>5, <3>1, <3>3, <4>1, DiskOwnTrim
    <3> QED
      BY <2>5, <3>2, <3>3 DEF BdftlTrim
  <2> QED
    BY <1>1, <2>2, <2>3, <2>4, <2>5 DEF Call
<1>2. ASSUME Step, ~(ftl = "BDFTL" /\ OutOfOrder)
      PROVE  DiskStep
  <2>1. CASE ftl = "DFTL" /\ UNCHANGED bvars /\ UNCHANGED ftl /\ DftlStep
    <3>1. CASE resolve_mapping("page")
      BY <2>1, <3>1, DiskResolves DEF bvars
    <3>2. CASE pc = "page" /\ get_free_data_page("program")
      <4>1. UNCHANGED flash
        BY <2>1, <3>2, InFlight, DataPageKeeps DEF bvars
      <4> QED
        BY <2>1, <3>2, <4>1, DiskStays DEF get_free_data_page, SamePages, bvars
    <3>3. CASE MapAndIssue
      BY <2>1, <3>3, InFlight, DiskIssues DEF MapAndIssue
    <3> QED
      BY <2>1, <3>1, <3>2, <3>3 DEF DftlStep
  <2>2. CASE ftl = "BDFTL" /\ UNCHANGED ftl /\ BdftlStep
    <3>1. CASE WriteNewBlock
      BY <2>2, <3>1, InFlight, DiskNewBlock DEF WriteNewBlock, NeedsBlock
    <3>2. CASE WriteInOrder
      BY <2>2, <3>2, InFlight, DiskInOrder DEF WriteInOrder, InOrder
    <3>3. CASE WritePagewise
      BY <2>2, <3>3, InFlight, DiskPagewise DEF WritePagewise
    <3>4. CASE GetUsedPage
      BY <2>2, <3>4, DiskStays DEF GetUsedPage, table, SamePages
    <3>5. CASE GetDataPage
      <4>1. UNCHANGED flash
        BY <2>2, <3>5, InFlight, DataPageKeeps DEF GetDataPage
      <4> QED
        BY <2>2, <3>5, <4>1, DiskStays DEF GetDataPage, get_free_data_page, SamePages
    <3>6. CASE resolve_mapping("program") /\ UNCHANGED bvars
      BY <2>2, <3>6, DiskResolves DEF bvars
    <3>7. CASE MapAndIssue /\ UNCHANGED bvars
      BY <2>2, <3>7, InFlight, DiskIssues DEF MapAndIssue
    <3>8. ~Convert
      BY <1>2, <2>2 DEF Convert
    <3> QED
      BY <2>2, <3>1, <3>2, <3>3, <3>4, <3>5, <3>6, <3>7, <3>8 DEF BdftlStep
  <2> QED
    BY <1>2, <2>1, <2>2 DEF Step
<1>3. CASE Abort
  <2>1. pc # "read" /\ pc' # "read"
    BY <1>3, AbortsWhy DEF Abort, NoFreeBlock, NeedsBlock, InOrderPageTaken, InOrder,
       QueuedBlockFull
  <2> QED
    BY <1>3, <2>1, DiskStays DEF Abort, SamePages, bvars
<1>4. CASE UNCHANGED vars
  <2>1. UNCHANGED Stored
    BY <1>4, StoredKept DEF vars, parentvars, bvars, SamePages
  <2>2. UNCHANGED Writing
    BY <1>4 DEF vars, parentvars, Writing
  <2> QED
    BY <2>1, <2>2, DiskSteps
<1> QED
  BY <1>1, <1>2, <1>3, <1>4 DEF Next

(* Every step but a conversion of BDFTL and a trim that goes astray is one of  *)
(* the disk that keeps each page from its write to its trim, or shows nothing. *)
THEOREM NoPageLost == Spec => OnlyConversionsLosePages
<1>1. IInv /\ [Next]_vars =>
        [Promise!DiskNext \/ (ftl = "BDFTL" /\ OutOfOrder) \/ stray']_(Promise!diskvars)
  BY DiskEvery DEF DiskStep
<1> QED
  BY <1>1, Invariant, PTL DEF Spec, OnlyConversionsLosePages

=============================================================================
