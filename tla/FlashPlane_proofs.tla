-------------------------- MODULE FlashPlane_proofs --------------------------
(***************************************************************************)
(* Lemmas about the operators of FlashBlock, FlashPlane and Collectors, for  *)
(* every block size and plane: positions in a set of page numbers, the next  *)
(* page, the two blocks after an _erase_and_copy; each step of a write,      *)
(* whatever the FTL, keeps the map and the VALID pages in agreement          *)
(* (Integrity); the counters count; a garbage collector never answers a      *)
(* block it must skip; and the page loop of an _erase_and_copy computes what *)
(* the FTL modules take for the whole call.                                  *)
(***************************************************************************)
EXTENDS FlashPlane, EraseAndCopy, FiniteSetTheorems, TLAPS

-----------------------------------------------------------------------------
(* Positions.                                                              *)

(* The sets whose positions are counted: pages of a block, or lpns.         *)
LEMMA IntervalSubset ==
  ASSUME NEW n \in Nat, NEW S \in SUBSET (0 .. n - 1)
  PROVE  /\ IsFiniteSet(S)
         /\ S \subseteq Int
         /\ Cardinality(S) \in 0 .. n
<1>1. IsFiniteSet(0 .. n - 1) /\ Cardinality(0 .. n - 1) = n
  BY FS_Interval
<1>2. IsFiniteSet(S) /\ Cardinality(S) <= n
  BY <1>1, FS_Subset
<1>3. Cardinality(S) \in Nat
  BY <1>2, FS_CardinalityType
<1> QED
  BY <1>2, <1>3

(* The rank of a member is a position of the set.                           *)
LEMMA RankInRange ==
  ASSUME NEW S, IsFiniteSet(S), S \subseteq Int, NEW p \in S
  PROVE  Rank(S, p) \in Nat /\ Rank(S, p) \in 0 .. Cardinality(S) - 1
<1> DEFINE B == {q \in S : q < p}
<1>1. B \in SUBSET S /\ p \notin B
  OBVIOUS
<1>2. /\ IsFiniteSet(B) /\ Cardinality(B) <= Cardinality(S)
      /\ Cardinality(S) = Cardinality(B) => S = B
  BY <1>1, FS_Subset
<1>3. Cardinality(B) \in Nat /\ Cardinality(S) \in Nat
  BY <1>2, FS_CardinalityType
<1>4. Cardinality(B) # Cardinality(S)
  BY <1>1, <1>2
<1> QED
  BY <1>2, <1>3, <1>4 DEF Rank

(* Ranks grow with the members.                                            *)
LEMMA RankMonotone ==
  ASSUME NEW S, IsFiniteSet(S), S \subseteq Int, NEW p \in S, NEW q \in S, p < q
  PROVE  Rank(S, p) < Rank(S, q)
<1> DEFINE B == {r \in S : r < q}
<1>1. B \in SUBSET S /\ p \in B /\ B \subseteq Int
  OBVIOUS
<1>2. IsFiniteSet(B)
  BY <1>1, FS_Subset
<1>3. \A r \in S : r < p => r < q
  <2> TAKE r \in S
  <2>1. r \in Int /\ p \in Int /\ q \in Int
    OBVIOUS
  <2> QED
    BY <2>1
<1>4. Rank(B, p) \in 0 .. Cardinality(B) - 1
  BY <1>1, <1>2, RankInRange
<1>5. {r \in B : r < p} = {r \in S : r < p}
  BY <1>3
<1>6. Rank(B, p) = Rank(S, p) /\ Cardinality(B) = Rank(S, q)
  BY <1>5 DEF Rank
<1>7. Cardinality(B) \in Nat
  BY <1>2, FS_CardinalityType
<1> QED
  BY <1>4, <1>6, <1>7

LEMMA RankInjective ==
  ASSUME NEW S, IsFiniteSet(S), S \subseteq Int, NEW p \in S, NEW q \in S,
         Rank(S, p) = Rank(S, q)
  PROVE  p = q
<1>1. Rank(S, p) \in Nat /\ Rank(S, q) \in Nat
  BY RankInRange
<1>2. p \in Int /\ q \in Int
  OBVIOUS
<1>3. ASSUME p < q PROVE FALSE
  <2>1. Rank(S, p) < Rank(S, q)
    BY <1>3, RankMonotone
  <2> QED
    BY <1>1, <2>1
<1>4. ASSUME q < p PROVE FALSE
  <2>1. Rank(S, q) < Rank(S, p)
    BY <1>4, RankMonotone
  <2> QED
    BY <1>1, <2>1
<1> QED
  BY <1>2, <1>3, <1>4

(* Every position has a member: the ranks are an injection into as many     *)
(* positions as there are members.                                         *)
LEMMA NthExists ==
  ASSUME NEW S, IsFiniteSet(S), S \subseteq Int,
         NEW r \in 0 .. Cardinality(S) - 1
  PROVE  \E p \in S : Rank(S, p) = r
<1> DEFINE T == 0 .. Cardinality(S) - 1
           f == [p \in S |-> Rank(S, p)]
<1>1. Cardinality(S) \in Nat
  BY FS_CardinalityType
<1>2. IsFiniteSet(T) /\ Cardinality(T) = Cardinality(S)
  BY <1>1, FS_Interval
<1>3. f \in [S -> T]
  BY RankInRange
<1>4. \A p, q \in S : f[p] = f[q] => p = q
  BY RankInjective
<1>5. f \in Injection(S, T)
  BY <1>3, <1>4 DEF Injection, IsInjective
<1>6. f \in Surjection(S, T)
  BY <1>2, <1>5, FS_Injection
<1> QED
  BY <1>6 DEF Surjection

(* Nth is the inverse of the rank.                                         *)
LEMMA NthOfRank ==
  ASSUME NEW S, IsFiniteSet(S), S \subseteq Int
  PROVE  /\ \A r \in 0 .. Cardinality(S) - 1 :
              Nth(S, r) \in S /\ Rank(S, Nth(S, r)) = r
         /\ \A p \in S : Nth(S, Rank(S, p)) = p
<1>1. \A r \in 0 .. Cardinality(S) - 1 :
        Nth(S, r) \in S /\ Rank(S, Nth(S, r)) = r
  BY NthExists DEF Nth
<1>2. ASSUME NEW p \in S
      PROVE  Nth(S, Rank(S, p)) = p
  <2>1. Rank(S, p) \in 0 .. Cardinality(S) - 1
    BY RankInRange
  <2>2. Nth(S, Rank(S, p)) \in S /\ Rank(S, Nth(S, Rank(S, p))) = Rank(S, p)
    BY <1>1, <2>1
  <2> QED
    BY <2>2, RankInjective
<1> QED
  BY <1>1, <1>2

(* A nonempty set has a least member: the one of rank 0.                    *)
LEMMA LeastMember ==
  ASSUME NEW S, IsFiniteSet(S), S \subseteq Int, S # {}
  PROVE  \E p \in S : \A q \in S : p <= q
<1>1. Cardinality(S) \in Nat /\ Cardinality(S) # 0
  BY FS_CardinalityType, FS_EmptySet
<1>2. 0 \in 0 .. Cardinality(S) - 1
  BY <1>1
<1>3. PICK p \in S : Rank(S, p) = 0
  BY <1>2, NthExists
<1>4. ASSUME NEW q \in S
      PROVE  p <= q
  <2>1. p \in Int /\ q \in Int
    OBVIOUS
  <2>2. ASSUME q < p PROVE FALSE
    <3>1. Rank(S, q) < Rank(S, p)
      BY <2>2, RankMonotone
    <3>2. Rank(S, q) \in Nat
      BY RankInRange
    <3> QED
      BY <1>3, <3>1, <3>2
  <2> QED
    BY <2>1, <2>2
<1> QED
  BY <1>4

-----------------------------------------------------------------------------
(* The pages of a block.                                                   *)

LEMMA PageSets ==
  ASSUME NEW S \in SUBSET PageNo
  PROVE  IsFiniteSet(S) /\ S \subseteq Int /\ Cardinality(S) \in 0 .. BLOCK_SIZE
BY BlockAssumption, IntervalSubset DEF PageNo

(* get_next_page() returns an EMPTY page.                                   *)
LEMMA NextPageIsFree ==
  ASSUME NEW blk, HasNextPage(blk)
  PROVE  /\ NextPage(blk) \in FreePages(blk)
         /\ NextPage(blk) \in PageNo
         /\ blk.data[NextPage(blk)] = EMPTY
<1>1. FreePages(blk) \in SUBSET PageNo
  BY DEF FreePages
<1>2. \E p \in FreePages(blk) : \A q \in FreePages(blk) : p <= q
  BY <1>1, PageSets, LeastMember DEF HasNextPage
<1>3. NextPage(blk) \in FreePages(blk)
  BY <1>2 DEF NextPage
<1> QED
  BY <1>3 DEF FreePages

(* Each method leaves a block; what it does to the pages.                   *)
LEMMA NewBlockType == NewBlock \in BlockState
BY BlockAssumption DEF NewBlock, BlockState, PageData

LEMMA SeekType ==
  ASSUME NEW blk \in BlockState, HasNextPage(blk)
  PROVE  /\ SeekNextPage(blk) \in BlockState
         /\ SeekNextPage(blk).data = blk.data
         /\ SeekNextPage(blk).erases_remaining = blk.erases_remaining
<1>1. NextPage(blk) \in 0 .. BLOCK_SIZE
  BY NextPageIsFree, BlockAssumption DEF PageNo
<1> QED
  BY <1>1 DEF SeekNextPage, BlockState

LEMMA WritePageType ==
  ASSUME NEW blk \in BlockState, NEW p \in PageNo, NEW l \in LPN
  PROVE  /\ WritePage(blk, p, l) \in BlockState
         /\ WritePage(blk, p, l).data = [blk.data EXCEPT ![p] = l]
<1> DEFINE d == [blk.data EXCEPT ![p] = l]
<1>1. d \in PageData
  BY DEF BlockState, PageData
<1>2. WritePage(blk, p, l) = [blk EXCEPT !.data = d, !.pages_valid = blk.pages_valid + 1]
  BY DEF WritePage, BlockState
<1>3. blk.pages_valid + 1 \in Int
  BY DEF BlockState
<1> HIDE DEF d
<1>4. WritePage(blk, p, l) \in BlockState
  BY <1>1, <1>2, <1>3 DEF BlockState
<1>5. WritePage(blk, p, l).data = d
  BY <1>2 DEF BlockState
<1> QED
  BY <1>4, <1>5 DEF d

LEMMA InvalidateType ==
  ASSUME NEW blk \in BlockState, NEW p \in PageNo
  PROVE  /\ InvalidatePage(blk, p) \in BlockState
         /\ InvalidatePage(blk, p).data = [blk.data EXCEPT ![p] = INVALID]
<1>1. CASE blk.data[p] = INVALID
  BY <1>1 DEF InvalidatePage, BlockState, PageData
<1>2. CASE blk.data[p] # INVALID
  <2> DEFINE d == [blk.data EXCEPT ![p] = INVALID]
             v == IF blk.data[p] \in LPN THEN blk.pages_valid - 1 ELSE blk.pages_valid
  <2>1. d \in PageData
    BY DEF BlockState, PageData
  <2>2. v \in Int
    BY DEF BlockState
  <2>3. InvalidatePage(blk, p) =
          [blk EXCEPT !.data = d, !.pages_valid = v,
                      !.pages_invalid = blk.pages_invalid + 1]
    BY <1>2 DEF InvalidatePage, BlockState
  <2>4. blk.pages_invalid + 1 \in Int
    BY DEF BlockState
  <2> HIDE DEF d, v
  <2>5. InvalidatePage(blk, p) \in BlockState
    BY <2>1, <2>2, <2>3, <2>4 DEF BlockState
  <2>6. InvalidatePage(blk, p).data = d
    BY <2>3 DEF BlockState
  <2> QED
    BY <2>5, <2>6 DEF d
<1> QED
  BY <1>1, <1>2

-----------------------------------------------------------------------------
(* The two blocks after an _erase_and_copy.                                 *)

LEMMA NumCopiedRange ==
  ASSUME NEW victim, NEW copy
  PROVE  /\ NumCopied(victim, copy) \in Nat
         /\ NumCopied(victim, copy) <= Cardinality(ValidPages(victim))
         /\ NumCopied(victim, copy) <= Cardinality(FreePages(copy))
         /\ NumKept(victim, copy) \in 0 .. BLOCK_SIZE
         /\ Cardinality(ValidPages(victim)) =
              NumCopied(victim, copy) + NumKept(victim, copy)
<1>1. Cardinality(ValidPages(victim)) \in 0 .. BLOCK_SIZE
  <2>1. ValidPages(victim) \in SUBSET PageNo
    BY DEF ValidPages
  <2> QED
    BY <2>1, PageSets
<1>2. Cardinality(FreePages(copy)) \in 0 .. BLOCK_SIZE
  <2>1. FreePages(copy) \in SUBSET PageNo
    BY DEF FreePages
  <2> QED
    BY <2>1, PageSets
<1> QED
  BY <1>1, <1>2, BlockAssumption DEF NumCopied, NumKept, Lesser

(* The facts about the positions of both blocks, in one place.              *)
LEMMA Positions ==
  ASSUME NEW blk
  PROVE  /\ \A p \in ValidPages(blk) :
              /\ Rank(ValidPages(blk), p) \in 0 .. Cardinality(ValidPages(blk)) - 1
              /\ Nth(ValidPages(blk), Rank(ValidPages(blk), p)) = p
         /\ \A r \in 0 .. Cardinality(ValidPages(blk)) - 1 :
              /\ Nth(ValidPages(blk), r) \in ValidPages(blk)
              /\ Rank(ValidPages(blk), Nth(ValidPages(blk), r)) = r
         /\ \A p \in FreePages(blk) :
              /\ Rank(FreePages(blk), p) \in 0 .. Cardinality(FreePages(blk)) - 1
              /\ Nth(FreePages(blk), Rank(FreePages(blk), p)) = p
         /\ \A r \in 0 .. Cardinality(FreePages(blk)) - 1 :
              /\ Nth(FreePages(blk), r) \in FreePages(blk)
              /\ Rank(FreePages(blk), Nth(FreePages(blk), r)) = r
<1>1. ASSUME NEW S \in SUBSET PageNo
      PROVE  /\ \A p \in S : /\ Rank(S, p) \in 0 .. Cardinality(S) - 1
                             /\ Nth(S, Rank(S, p)) = p
             /\ \A r \in 0 .. Cardinality(S) - 1 :
                  Nth(S, r) \in S /\ Rank(S, Nth(S, r)) = r
  <2>1. IsFiniteSet(S) /\ S \subseteq Int
    BY PageSets
  <2> QED
    BY <2>1, RankInRange, NthOfRank
<1>2. ValidPages(blk) \in SUBSET PageNo /\ FreePages(blk) \in SUBSET PageNo
  BY DEF ValidPages, FreePages
<1> QED
  BY <1>1, <1>2

(* A copied page is found in the copy block, in a page that was EMPTY.      *)
LEMMA CopiedPage ==
  ASSUME NEW victim \in BlockState, NEW copy \in BlockState,
         NEW p \in ValidPages(victim), IsCopied(victim, copy, p)
  PROVE  /\ NewPageOf(victim, copy, p) \in FreePages(copy)
         /\ NewPageOf(victim, copy, p) \in PageNo
         /\ CopyBlockAfter(victim, copy).data[NewPageOf(victim, copy, p)]
              = victim.data[p]
<1> DEFINE F == FreePages(copy)
           V == ValidPages(victim)
           r == Rank(V, p)
           q == NewPageOf(victim, copy, p)
<1>1. r \in 0 .. Cardinality(V) - 1 /\ Nth(V, r) = p
  BY Positions
<1>2. r < NumCopied(victim, copy)
  BY DEF IsCopied
<1>3. NumCopied(victim, copy) \in Nat /\ NumCopied(victim, copy) <= Cardinality(F)
  BY NumCopiedRange
<1>4. Cardinality(F) \in Nat
  <2>1. F \in SUBSET PageNo
    BY DEF FreePages
  <2> QED
    BY <2>1, PageSets, BlockAssumption
<1>5. r \in 0 .. Cardinality(F) - 1
  BY <1>1, <1>2, <1>3, <1>4
<1>6. q = Nth(F, r)
  BY DEF NewPageOf
<1>7. q \in F /\ Rank(F, q) = r
  BY <1>5, <1>6, Positions
<1>8. q \in PageNo
  BY <1>7 DEF FreePages
<1>9. CopyBlockAfter(victim, copy).data[q] =
        IF q \in F /\ Rank(F, q) < NumCopied(victim, copy)
          THEN victim.data[Nth(V, Rank(F, q))] ELSE copy.data[q]
  BY <1>8 DEF CopyBlockAfter, BlockState
<1> QED
  BY <1>1, <1>2, <1>7, <1>8, <1>9

(* A kept page is found at the front of the victim.                         *)
LEMMA KeptPage ==
  ASSUME NEW victim \in BlockState, NEW copy \in BlockState,
         NEW p \in ValidPages(victim), ~IsCopied(victim, copy, p)
  PROVE  /\ NewPageOf(victim, copy, p) \in PageNo
         /\ VictimAfter(victim, copy).data[NewPageOf(victim, copy, p)]
              = victim.data[p]
<1> DEFINE V == ValidPages(victim)
           r == Rank(V, p)
           n == NumCopied(victim, copy)
           k == NumKept(victim, copy)
           q == NewPageOf(victim, copy, p)
<1>1. r \in 0 .. Cardinality(V) - 1 /\ Nth(V, r) = p
  BY Positions
<1>2. ~(r < n) /\ q = r - n
  BY DEF IsCopied, NewPageOf
<1>3. n \in Nat /\ k \in 0 .. BLOCK_SIZE /\ Cardinality(V) = n + k
  BY NumCopiedRange
<1>4. q \in 0 .. k - 1 /\ n + q = r
  BY <1>1, <1>2, <1>3, BlockAssumption
<1>5. q \in PageNo /\ q < k
  BY <1>3, <1>4, BlockAssumption DEF PageNo
<1>6. VictimAfter(victim, copy).data[q] =
        IF q < k THEN victim.data[Nth(V, n + q)] ELSE EMPTY
  BY <1>5 DEF VictimAfter
<1> QED
  BY <1>1, <1>4, <1>5, <1>6

(* Conversely, a VALID page of the copy block was there before or is the    *)
(* new page of one of the victim's ...                                     *)
LEMMA CopyBlockOrigins ==
  ASSUME NEW victim \in BlockState, NEW copy \in BlockState,
         NEW q \in ValidPages(CopyBlockAfter(victim, copy))
  PROVE  \/ /\ q \in ValidPages(copy)
            /\ CopyBlockAfter(victim, copy).data[q] = copy.data[q]
         \/ \E p \in ValidPages(victim) :
              /\ IsCopied(victim, copy, p)
              /\ NewPageOf(victim, copy, p) = q
              /\ CopyBlockAfter(victim, copy).data[q] = victim.data[p]
<1> DEFINE F == FreePages(copy)
           V == ValidPages(victim)
           n == NumCopied(victim, copy)
           r == Rank(F, q)
<1>1. q \in PageNo /\ CopyBlockAfter(victim, copy).data[q] \in LPN
  BY DEF ValidPages
<1>2. CopyBlockAfter(victim, copy).data[q] =
        IF q \in F /\ r < n THEN victim.data[Nth(V, r)] ELSE copy.data[q]
  BY <1>1 DEF CopyBlockAfter, BlockState
<1>3. CASE q \in F /\ r < n
  <2>1. r \in 0 .. Cardinality(F) - 1 /\ Nth(F, r) = q
    BY <1>3, Positions
  <2>2. n \in Nat /\ n <= Cardinality(V)
    BY NumCopiedRange
  <2>3. Cardinality(V) \in Nat
    <3>1. V \in SUBSET PageNo
      BY DEF ValidPages
    <3> QED
      BY <3>1, PageSets, BlockAssumption
  <2>4. r \in 0 .. Cardinality(V) - 1
    BY <1>3, <2>1, <2>2, <2>3
  <2>5. Nth(V, r) \in V /\ Rank(V, Nth(V, r)) = r
    BY <2>4, Positions
  <2>6. IsCopied(victim, copy, Nth(V, r))
    BY <1>3, <2>5 DEF IsCopied
  <2>7. NewPageOf(victim, copy, Nth(V, r)) = q
    BY <2>1, <2>5, <2>6 DEF NewPageOf
  <2> QED
    BY <1>2, <1>3, <2>5, <2>6, <2>7
<1>4. CASE ~(q \in F /\ r < n)
  BY <1>1, <1>2, <1>4 DEF ValidPages
<1> QED
  BY <1>3, <1>4

(* ... and every VALID page of the victim is the new page of one of its own.*)
LEMMA VictimOrigins ==
  ASSUME NEW victim \in BlockState, NEW copy \in BlockState,
         NEW q \in ValidPages(VictimAfter(victim, copy))
  PROVE  \E p \in ValidPages(victim) :
           /\ ~IsCopied(victim, copy, p)
           /\ NewPageOf(victim, copy, p) = q
           /\ VictimAfter(victim, copy).data[q] = victim.data[p]
<1> DEFINE V == ValidPages(victim)
           n == NumCopied(victim, copy)
           k == NumKept(victim, copy)
<1>1. q \in PageNo /\ VictimAfter(victim, copy).data[q] \in LPN
  BY DEF ValidPages
<1>2. VictimAfter(victim, copy).data[q] =
        IF q < k THEN victim.data[Nth(V, n + q)] ELSE EMPTY
  BY <1>1 DEF VictimAfter
<1>3. q < k
  BY <1>1, <1>2, BlockAssumption
<1>4. n \in Nat /\ k \in 0 .. BLOCK_SIZE /\ Cardinality(V) = n + k
  BY NumCopiedRange
<1>5. q \in Nat
  BY <1>1, BlockAssumption DEF PageNo
<1>6. n + q \in 0 .. Cardinality(V) - 1
  BY <1>3, <1>4, <1>5, BlockAssumption
<1>7. Nth(V, n + q) \in V /\ Rank(V, Nth(V, n + q)) = n + q
  BY <1>6, Positions
<1>8. ~IsCopied(victim, copy, Nth(V, n + q))
  BY <1>4, <1>5, <1>7 DEF IsCopied
<1>9. NewPageOf(victim, copy, Nth(V, n + q)) = q
  BY <1>4, <1>5, <1>7, <1>8 DEF NewPageOf
<1> QED
  BY <1>2, <1>3, <1>7, <1>8, <1>9

(* Both blocks are blocks again.                                            *)
LEMMA CopyBlockType ==
  ASSUME NEW victim \in BlockState, NEW copy \in BlockState
  PROVE  CopyBlockAfter(victim, copy) \in BlockState
<1> DEFINE F == FreePages(copy)
           V == ValidPages(victim)
           n == NumCopied(victim, copy)
           d == [q \in PageNo |-> IF q \in F /\ Rank(F, q) < n
                                    THEN victim.data[Nth(V, Rank(F, q))]
                                    ELSE copy.data[q]]
           s == IF n = 0 THEN copy.min_seek_empty ELSE Nth(F, n - 1)
<1>1. n \in Nat /\ n <= Cardinality(V) /\ n <= Cardinality(F)
  BY NumCopiedRange
<1>2. Cardinality(V) \in Nat /\ Cardinality(F) \in Nat
  <2>1. V \in SUBSET PageNo /\ F \in SUBSET PageNo
    BY DEF ValidPages, FreePages
  <2> QED
    BY <2>1, PageSets, BlockAssumption
<1>3. ASSUME NEW q \in PageNo
      PROVE  (IF q \in F /\ Rank(F, q) < n
                THEN victim.data[Nth(V, Rank(F, q))]
                ELSE copy.data[q]) \in LPN \cup {EMPTY, INVALID}
  <2>1. CASE q \in F /\ Rank(F, q) < n
    <3>1. Rank(F, q) \in 0 .. Cardinality(F) - 1
      BY <2>1, Positions
    <3>2. Rank(F, q) \in 0 .. Cardinality(V) - 1
      BY <1>1, <1>2, <2>1, <3>1
    <3>3. Nth(V, Rank(F, q)) \in V
      BY <3>2, Positions
    <3> QED
      BY <2>1, <3>3 DEF ValidPages
  <2>2. CASE ~(q \in F /\ Rank(F, q) < n)
    BY <2>2 DEF BlockState, PageData
  <2> QED
    BY <2>1, <2>2
<1>4. d \in PageData
  BY <1>3 DEF PageData
<1>5. s \in 0 .. BLOCK_SIZE
  <2>1. CASE n = 0
    BY <2>1 DEF BlockState
  <2>2. CASE n # 0
    <3>1. n - 1 \in 0 .. Cardinality(F) - 1
      BY <1>1, <1>2, <2>2
    <3>2. Nth(F, n - 1) \in F
      BY <3>1, Positions
    <3> QED
      BY <2>2, <3>2, BlockAssumption DEF FreePages, PageNo
  <2> QED
    BY <2>1, <2>2
<1>6. CopyBlockAfter(victim, copy) =
        [copy EXCEPT !.data = d, !.pages_valid = copy.pages_valid + n,
                     !.min_seek_empty = s]
  BY DEF CopyBlockAfter, BlockState
<1>7. copy.pages_valid + n \in Int
  BY <1>1 DEF BlockState
<1> HIDE DEF d, s, n
<1> QED
  BY <1>4, <1>5, <1>6, <1>7 DEF BlockState

LEMMA VictimType ==
  ASSUME NEW victim \in BlockState, NEW copy \in BlockState, CanErase(victim)
  PROVE  VictimAfter(victim, copy) \in BlockState
<1> DEFINE V == ValidPages(victim)
           n == NumCopied(victim, copy)
           k == NumKept(victim, copy)
           d == [q \in PageNo |-> IF q < k THEN victim.data[Nth(V, n + q)] ELSE EMPTY]
<1>1. n \in Nat /\ k \in 0 .. BLOCK_SIZE /\ Cardinality(V) = n + k
  BY NumCopiedRange
<1>2. ASSUME NEW q \in PageNo
      PROVE  (IF q < k THEN victim.data[Nth(V, n + q)] ELSE EMPTY)
               \in LPN \cup {EMPTY, INVALID}
  <2>1. CASE q < k
    <3>1. q \in Nat
      BY BlockAssumption DEF PageNo
    <3>2. n + q \in 0 .. Cardinality(V) - 1
      BY <1>1, <2>1, <3>1, BlockAssumption
    <3>3. Nth(V, n + q) \in V
      BY <3>2, Positions
    <3> QED
      BY <2>1, <3>3 DEF ValidPages
  <2> QED
    BY <2>1
<1>3. d \in PageData
  BY <1>2 DEF PageData
<1>4. WearOne(victim) \in Nat
  BY DEF WearOne, CanErase, BlockState
<1>5. VictimAfter(victim, copy) =
        [data |-> d, pages_valid |-> k, pages_invalid |-> 0,
         min_seek_empty |-> k, erases_remaining |-> WearOne(victim)]
  BY DEF VictimAfter
<1>6. k \in Int
  BY <1>1, BlockAssumption
<1> HIDE DEF d, k
<1> QED
  BY <1>1, <1>3, <1>4, <1>5, <1>6 DEF BlockState

-----------------------------------------------------------------------------
(* How many pages there are of a kind.                                      *)

EmptyPages(blk) == {p \in PageNo : blk.data[p] = EMPTY}

(* The pages that hold one of the lpns T; of all lpns, the VALID pages.      *)
PagesHolding(blk, T) == {p \in PageNo : blk.data[p] \in T}

CopiedHolding(victim, copy, T) ==
  {p \in PagesHolding(victim, T) : IsCopied(victim, copy, p)}

LEMMA CardDisjoint ==
  ASSUME NEW S, NEW T, IsFiniteSet(S), IsFiniteSet(T), S \cap T = {}
  PROVE  /\ IsFiniteSet(S \cup T)
         /\ Cardinality(S) \in Nat /\ Cardinality(T) \in Nat
         /\ Cardinality(S \cup T) = Cardinality(S) + Cardinality(T)
<1>1. Cardinality(S) \in Nat /\ Cardinality(T) \in Nat
  BY FS_CardinalityType
<1>2. /\ IsFiniteSet(S \cup T)
      /\ Cardinality(S \cup T) = Cardinality(S) + Cardinality(T) - Cardinality(S \cap T)
  BY FS_Union
<1>3. Cardinality(S \cap T) = 0
  BY FS_EmptySet
<1> QED
  BY <1>1, <1>2, <1>3

(* There are n members with one of the ranks 0 .. n - 1.                     *)
LEMMA FirstCount ==
  ASSUME NEW S, IsFiniteSet(S), S \subseteq Int, NEW n \in 0 .. Cardinality(S)
  PROVE  LET first == {p \in S : Rank(S, p) < n}
         IN  IsFiniteSet(first) /\ Cardinality(first) = n
<1> DEFINE first == {p \in S : Rank(S, p) < n}
<1>1. Cardinality(S) \in Nat
  BY FS_CardinalityType
<1>2. IsFiniteSet(first)
  BY FS_Subset
<1>3. CASE n = Cardinality(S)
  <2>1. ASSUME NEW p \in S
        PROVE  Rank(S, p) < n
    <3>1. Rank(S, p) \in 0 .. Cardinality(S) - 1
      BY RankInRange
    <3> QED
      BY <1>1, <1>3, <3>1
  <2>2. first = S
    BY <2>1
  <2> QED
    BY <1>2, <1>3, <2>2
<1>4. CASE n # Cardinality(S)
  <2>1. n \in 0 .. Cardinality(S) - 1
    BY <1>1, <1>4
  <2>2. PICK p \in S : Rank(S, p) = n
    BY <2>1, NthExists
  <2>3. ASSUME NEW q \in S
        PROVE  Rank(S, q) < n <=> q < p
    <3>1. q < p => Rank(S, q) < n
      BY <2>2, RankMonotone
    <3>2. p < q => n < Rank(S, q)
      BY <2>2, RankMonotone
    <3>3. Rank(S, q) \in Nat /\ p \in Int /\ q \in Int
      BY RankInRange
    <3> QED
      BY <2>2, <3>1, <3>2, <3>3
  <2>4. first = {q \in S : q < p}
    BY <2>3
  <2> QED
    BY <1>2, <2>2, <2>4 DEF Rank
<1> QED
  BY <1>3, <1>4

(* Every page of a block is of one of three kinds.                          *)
LEMMA PagesPartition ==
  ASSUME NEW blk \in BlockState
  PROVE  /\ IsFiniteSet(ValidPages(blk)) /\ Cardinality(ValidPages(blk)) \in Nat
         /\ IsFiniteSet(InvalidPages(blk)) /\ Cardinality(InvalidPages(blk)) \in Nat
         /\ IsFiniteSet(EmptyPages(blk)) /\ Cardinality(EmptyPages(blk)) \in Nat
         /\ Cardinality(EmptyPages(blk)) =
              BLOCK_SIZE - Cardinality(InvalidPages(blk)) - Cardinality(ValidPages(blk))
<1> DEFINE V == ValidPages(blk)
           I == InvalidPages(blk)
           E == EmptyPages(blk)
<1>1. V \in SUBSET PageNo /\ I \in SUBSET PageNo /\ E \in SUBSET PageNo
  BY DEF ValidPages, InvalidPages, EmptyPages
<1>2. /\ IsFiniteSet(V) /\ Cardinality(V) \in Nat
      /\ IsFiniteSet(I) /\ Cardinality(I) \in Nat
      /\ IsFiniteSet(E) /\ Cardinality(E) \in Nat
  BY <1>1, PageSets
<1>3. V \cap I = {} /\ (V \cup I) \cap E = {}
  BY BlockAssumption DEF ValidPages, InvalidPages, EmptyPages
<1>4. (V \cup I) \cup E = PageNo
  BY DEF BlockState, PageData, ValidPages, InvalidPages, EmptyPages
<1>5. IsFiniteSet(V \cup I) /\ Cardinality(V \cup I) = Cardinality(V) + Cardinality(I)
  BY <1>2, <1>3, CardDisjoint
<1>6. Cardinality((V \cup I) \cup E) = Cardinality(V \cup I) + Cardinality(E)
  BY <1>2, <1>3, <1>5, CardDisjoint
<1>7. Cardinality(PageNo) = BLOCK_SIZE
  BY BlockAssumption, FS_Interval DEF PageNo
<1>8. BLOCK_SIZE = Cardinality(V) + Cardinality(I) + Cardinality(E)
  BY <1>4, <1>5, <1>6, <1>7
<1> QED
  BY <1>2, <1>8


LEMMA HoldingSets ==
  ASSUME NEW blk, NEW T
  PROVE  /\ PagesHolding(blk, T) \in SUBSET PageNo
         /\ IsFiniteSet(PagesHolding(blk, T))
         /\ Cardinality(PagesHolding(blk, T)) \in Nat
<1>1. PagesHolding(blk, T) \in SUBSET PageNo
  BY DEF PagesHolding
<1> QED
  BY <1>1, PageSets, BlockAssumption

(* The pages that hold some of the lpns, before and after an invalidation    *)
(* or a program.                                                           *)
LEMMA InvalidateHolding ==
  ASSUME NEW blk \in BlockState, NEW p \in PageNo, NEW T \in SUBSET LPN
  PROVE  Cardinality(PagesHolding(InvalidatePage(blk, p), T)) =
           IF blk.data[p] \in T THEN Cardinality(PagesHolding(blk, T)) - 1
                                ELSE Cardinality(PagesHolding(blk, T))
<1> DEFINE new == InvalidatePage(blk, p)
<1>1. new.data = [blk.data EXCEPT ![p] = INVALID] /\ blk.data \in PageData
  BY InvalidateType DEF BlockState
<1>2. INVALID \notin T
  BY BlockAssumption
<1>3. \A q \in PageNo : new.data[q] = IF q = p THEN INVALID ELSE blk.data[q]
  BY <1>1 DEF PageData
<1> HIDE DEF new
<1>4. PagesHolding(new, T) = PagesHolding(blk, T) \ {p}
  BY <1>2, <1>3 DEF PagesHolding
<1>5. p \in PagesHolding(blk, T) <=> blk.data[p] \in T
  BY DEF PagesHolding
<1>6. Cardinality(PagesHolding(blk, T) \ {p}) =
        IF p \in PagesHolding(blk, T) THEN Cardinality(PagesHolding(blk, T)) - 1
                                      ELSE Cardinality(PagesHolding(blk, T))
  BY HoldingSets, FS_RemoveElement
<1> QED
  BY <1>4, <1>5, <1>6 DEF new

LEMMA WriteHolding ==
  ASSUME NEW blk \in BlockState, NEW p \in PageNo, blk.data[p] = EMPTY,
         NEW l \in LPN, NEW T \in SUBSET LPN
  PROVE  Cardinality(PagesHolding(WritePage(blk, p, l), T)) =
           IF l \in T THEN Cardinality(PagesHolding(blk, T)) + 1
                      ELSE Cardinality(PagesHolding(blk, T))
<1> DEFINE new == WritePage(blk, p, l)
<1>1. new.data = [blk.data EXCEPT ![p] = l] /\ blk.data \in PageData
  BY WritePageType DEF BlockState
<1>2. EMPTY \notin T
  BY BlockAssumption
<1>3. \A q \in PageNo : new.data[q] = IF q = p THEN l ELSE blk.data[q]
  BY <1>1 DEF PageData
<1> HIDE DEF new
<1>4. p \notin PagesHolding(blk, T)
  BY <1>2 DEF PagesHolding
<1>5. PagesHolding(new, T) =
        IF l \in T THEN PagesHolding(blk, T) \cup {p} ELSE PagesHolding(blk, T)
  BY <1>2, <1>3 DEF PagesHolding
<1>6. IsFiniteSet(PagesHolding(blk, T))
  BY HoldingSets
<1> QED
  BY <1>4, <1>5, <1>6, FS_AddElement DEF new

(* No two pages of the victim go to the same page.                          *)
LEMMA NewPagesDiffer ==
  ASSUME NEW victim \in BlockState, NEW copy \in BlockState,
         NEW p \in ValidPages(victim), NEW q \in ValidPages(victim),
         IsCopied(victim, copy, p) <=> IsCopied(victim, copy, q),
         NewPageOf(victim, copy, p) = NewPageOf(victim, copy, q)
  PROVE  p = q
<1> DEFINE V == ValidPages(victim)
           F == FreePages(copy)
           n == NumCopied(victim, copy)
<1>1. /\ Rank(V, p) \in 0 .. Cardinality(V) - 1 /\ Nth(V, Rank(V, p)) = p
      /\ Rank(V, q) \in 0 .. Cardinality(V) - 1 /\ Nth(V, Rank(V, q)) = q
  BY Positions
<1>2. n \in Nat /\ n <= Cardinality(F)
  BY NumCopiedRange
<1>3. Cardinality(V) \in Nat /\ Cardinality(F) \in Nat
  <2>1. V \in SUBSET PageNo /\ F \in SUBSET PageNo
    BY DEF ValidPages, FreePages
  <2> QED
    BY <2>1, PageSets, BlockAssumption
<1>4. CASE IsCopied(victim, copy, p)
  <2>1. /\ Rank(V, p) \in 0 .. Cardinality(F) - 1
        /\ Rank(V, q) \in 0 .. Cardinality(F) - 1
    BY <1>1, <1>2, <1>3, <1>4 DEF IsCopied
  <2>2. Nth(F, Rank(V, p)) = Nth(F, Rank(V, q))
    BY <1>4 DEF NewPageOf
  <2>3. Rank(V, p) = Rank(V, q)
    BY <2>1, <2>2, Positions
  <2> QED
    BY <1>1, <2>3
<1>5. CASE ~IsCopied(victim, copy, p)
  <2>1. Rank(V, p) - n = Rank(V, q) - n
    BY <1>5 DEF NewPageOf
  <2>2. Rank(V, p) \in Int /\ Rank(V, q) \in Int
    BY <1>1, <1>3
  <2>3. Rank(V, p) = Rank(V, q)
    BY <1>2, <2>1, <2>2
  <2> QED
    BY <1>1, <2>3
<1> QED
  BY <1>4, <1>5

(* The copy block gains as many pages that hold one of the lpns T as are     *)
(* copied ...                                                              *)
LEMMA CopyBlockHolding ==
  ASSUME NEW victim \in BlockState, NEW copy \in BlockState, NEW T \in SUBSET LPN
  PROVE  Cardinality(PagesHolding(CopyBlockAfter(victim, copy), T)) =
           Cardinality(PagesHolding(copy, T)) + Cardinality(CopiedHolding(victim, copy, T))
<1> DEFINE new == CopyBlockAfter(victim, copy)
           G == CopiedHolding(victim, copy, T)
           H == PagesHolding(copy, T)
           N == PagesHolding(new, T) \ H
           f == [p \in G |-> NewPageOf(victim, copy, p)]
<1>1. G \in SUBSET ValidPages(victim) /\ G \in SUBSET PageNo
      /\ \A p \in G : victim.data[p] \in T /\ IsCopied(victim, copy, p)
  BY DEF CopiedHolding, PagesHolding, ValidPages
<1>2. \A q \in PageNo : q \notin FreePages(copy) => new.data[q] = copy.data[q]
  BY DEF CopyBlockAfter, BlockState
<1>3. ASSUME NEW q \in H
      PROVE  q \in PagesHolding(new, T) /\ q \notin FreePages(copy)
  <2>1. q \in PageNo /\ copy.data[q] \in T /\ copy.data[q] # EMPTY
    BY BlockAssumption DEF PagesHolding
  <2>2. q \notin FreePages(copy)
    BY <2>1 DEF FreePages
  <2> QED
    BY <1>2, <2>1, <2>2 DEF PagesHolding
<1>4. ASSUME NEW p \in G
      PROVE  f[p] \in N
  <2>1. /\ f[p] \in FreePages(copy) /\ f[p] \in PageNo
        /\ new.data[f[p]] = victim.data[p]
    BY <1>1, CopiedPage
  <2> QED
    BY <1>1, <1>3, <2>1 DEF PagesHolding
<1>5. ASSUME NEW q \in N
      PROVE  \E p \in G : f[p] = q
  <2>1. q \in ValidPages(new) /\ new.data[q] \in T
    BY DEF PagesHolding, ValidPages
  <2>2. ~(q \in ValidPages(copy) /\ new.data[q] = copy.data[q])
    BY <2>1 DEF PagesHolding, ValidPages
  <2>3. PICK p \in ValidPages(victim) :
          /\ IsCopied(victim, copy, p)
          /\ NewPageOf(victim, copy, p) = q
          /\ new.data[q] = victim.data[p]
    BY <2>1, <2>2, CopyBlockOrigins
  <2>4. p \in G
    BY <2>1, <2>3 DEF CopiedHolding, PagesHolding, ValidPages
  <2> QED
    BY <2>3, <2>4
<1>6. \A p, q \in G : f[p] = f[q] => p = q
  BY <1>1, NewPagesDiffer
<1>7. f \in Bijection(G, N)
  BY <1>4, <1>5, <1>6 DEF Bijection, Injection, IsInjective, Surjection
<1>8. IsFiniteSet(G) /\ IsFiniteSet(H) /\ IsFiniteSet(N)
  BY <1>1, PageSets, HoldingSets, FS_Difference
<1>9. Cardinality(N) = Cardinality(G)
  BY <1>7, <1>8, FS_Bijection DEF ExistsBijection
<1>10. PagesHolding(new, T) = H \cup N /\ H \cap N = {}
  BY <1>3
<1> HIDE DEF new, G, H, N
<1>11. Cardinality(H \cup N) = Cardinality(H) + Cardinality(N)
  BY <1>8, <1>10, CardDisjoint
<1> QED
  BY <1>9, <1>10, <1>11 DEF new, G, H

(* ... and the victim loses them.                                           *)
LEMMA VictimHolding ==
  ASSUME NEW victim \in BlockState, NEW copy \in BlockState, NEW T \in SUBSET LPN
  PROVE  Cardinality(PagesHolding(VictimAfter(victim, copy), T)) =
           Cardinality(PagesHolding(victim, T)) - Cardinality(CopiedHolding(victim, copy, T))
<1> DEFINE new == VictimAfter(victim, copy)
           G == CopiedHolding(victim, copy, T)
           H == PagesHolding(victim, T)
           K == H \ G
           N == PagesHolding(new, T)
           f == [p \in K |-> NewPageOf(victim, copy, p)]
<1>1. K \in SUBSET ValidPages(victim)
      /\ \A p \in K : victim.data[p] \in T /\ ~IsCopied(victim, copy, p)
  BY DEF CopiedHolding, PagesHolding, ValidPages
<1>2. ASSUME NEW p \in K
      PROVE  f[p] \in N
  <2>1. f[p] \in PageNo /\ new.data[f[p]] = victim.data[p]
    BY <1>1, KeptPage
  <2> QED
    BY <1>1, <2>1 DEF PagesHolding
<1>3. ASSUME NEW q \in N
      PROVE  \E p \in K : f[p] = q
  <2>1. q \in ValidPages(new) /\ new.data[q] \in T
    BY DEF PagesHolding, ValidPages
  <2>2. PICK p \in ValidPages(victim) :
          /\ ~IsCopied(victim, copy, p)
          /\ NewPageOf(victim, copy, p) = q
          /\ new.data[q] = victim.data[p]
    BY <2>1, VictimOrigins
  <2>3. p \in K
    BY <2>1, <2>2 DEF CopiedHolding, PagesHolding, ValidPages
  <2> QED
    BY <2>2, <2>3
<1>4. \A p, q \in K : f[p] = f[q] => p = q
  BY <1>1, NewPagesDiffer
<1>5. f \in Bijection(K, N)
  BY <1>2, <1>3, <1>4 DEF Bijection, Injection, IsInjective, Surjection
<1>6. G \subseteq H
  BY DEF CopiedHolding
<1>7. IsFiniteSet(H) /\ Cardinality(H) \in Nat /\ IsFiniteSet(K)
  BY HoldingSets, FS_Difference
<1>8. Cardinality(N) = Cardinality(K)
  BY <1>5, <1>7, FS_Bijection DEF ExistsBijection
<1> HIDE DEF new, G, H, N
<1>9. Cardinality(K) = Cardinality(H) - Cardinality(H \cap G)
  BY <1>7, FS_Difference
<1>10. H \cap G = G
  BY <1>6
<1> QED
  BY <1>8, <1>9, <1>10 DEF new, G, H, N

(* NumCopied is the number of VALID pages that are copied; none is kept if   *)
(* and only if they all fit.                                               *)
LEMMA CopiedCount ==
  ASSUME NEW victim \in BlockState, NEW copy \in BlockState
  PROVE  /\ Cardinality(CopiedHolding(victim, copy, LPN)) = NumCopied(victim, copy)
         /\ Cardinality(ValidPages(victim)) <= Cardinality(FreePages(copy)) =>
              \A p \in ValidPages(victim) : IsCopied(victim, copy, p)
<1> DEFINE V == ValidPages(victim)
           n == NumCopied(victim, copy)
<1>1. V \in SUBSET PageNo /\ PagesHolding(victim, LPN) = V
  BY DEF ValidPages, PagesHolding
<1>2. IsFiniteSet(V) /\ V \subseteq Int /\ Cardinality(V) \in Nat
  BY <1>1, PageSets, BlockAssumption
<1>3. n \in 0 .. Cardinality(V)
  BY <1>2, NumCopiedRange
<1>4. CopiedHolding(victim, copy, LPN) = {p \in V : Rank(V, p) < n}
  BY <1>1 DEF CopiedHolding, IsCopied
<1> HIDE DEF n
<1>5. Cardinality({p \in V : Rank(V, p) < n}) = n
  BY <1>2, <1>3, FirstCount
<1>6. ASSUME Cardinality(V) <= Cardinality(FreePages(copy)), NEW p \in V
      PROVE  IsCopied(victim, copy, p)
  <2>1. n = Cardinality(V)
    <3>1. FreePages(copy) \in SUBSET PageNo
      BY DEF FreePages
    <3>2. Cardinality(FreePages(copy)) \in Nat
      BY <3>1, PageSets, BlockAssumption
    <3> QED
      BY <1>2, <1>6, <3>2 DEF n, NumCopied, Lesser
  <2>2. Rank(V, p) \in 0 .. Cardinality(V) - 1
    BY <1>2, RankInRange
  <2> QED
    BY <1>2, <2>1, <2>2 DEF n, IsCopied
<1> QED
  BY <1>4, <1>5, <1>6 DEF n

-----------------------------------------------------------------------------
(* The half of Integrity that an FTL keeps even if its map has stale entries *)
(* or none for some lpns: the map gives every VALID page back, and no page  *)
(* holds the lpn in flight.                                                 *)
Backed(flash, m, busy) ==
  \A b \in Block : \A p \in ValidPages(flash[b]) :
    flash[b].data[p] # busy /\ m[flash[b].data[p]] = [block |-> b, page |-> p]

LEMMA IntegrityParts ==
  ASSUME NEW flash, NEW m, NEW busy
  PROVE  Integrity(flash, m, busy) <=>
           /\ \A l \in LPN \ {busy} : flash[m[l].block].data[m[l].page] = l
           /\ Backed(flash, m, busy)
BY DEF Integrity, Backed

-----------------------------------------------------------------------------
(* initialize() makes the map and the VALID pages agree.                    *)

(* initialize() may be called for some of the lpns only; what it places fits. *)
Fits(place) == \A b \in Block : Cardinality({l \in LPN : place[l] = b}) <= BLOCK_SIZE

LEMMA PlacementsFit ==
  ASSUME NEW allowed, NEW place \in Placements(allowed)
  PROVE  Fits(place)
BY DEF Placements, Fits

LEMMA Placed ==
  ASSUME NEW place, Fits(place), NEW b \in Block
  PROVE  LET here == {l \in LPN : place[l] = b}
         IN  /\ here \in SUBSET LPN
             /\ IsFiniteSet(here) /\ here \subseteq Int
             /\ Cardinality(here) \in 0 .. BLOCK_SIZE
<1> DEFINE here == {l \in LPN : place[l] = b}
<1>1. here \in SUBSET (0 .. NUM_LPN - 1)
  BY DEF LPN
<1>2. IsFiniteSet(here) /\ here \subseteq Int /\ Cardinality(here) \in 0 .. NUM_LPN
  BY <1>1, BlockAssumption, IntervalSubset
<1>3. Cardinality(here) <= BLOCK_SIZE
  BY DEF Fits
<1> QED
  BY <1>1, <1>2, <1>3, BlockAssumption DEF LPN

LEMMA PlacedBlockFacts ==
  ASSUME NEW place, Fits(place), NEW b \in Block
  PROVE  LET here == {l \in LPN : place[l] = b}
             n    == Cardinality(here)
         IN  /\ PlacedBlock(place, b) \in BlockState
             /\ \A p \in PageNo :
                  PlacedBlock(place, b).data[p] = IF p < n THEN Nth(here, p) ELSE EMPTY
             /\ \A p \in PageNo : p < n => Nth(here, p) \in here /\ Rank(here, Nth(here, p)) = p
             /\ \A l \in here : /\ Rank(here, l) \in PageNo
                                /\ Rank(here, l) < n
                                /\ Nth(here, Rank(here, l)) = l
<1> DEFINE here == {l \in LPN : place[l] = b}
           n    == Cardinality(here)
           d    == [p \in PageNo |-> IF p < n THEN Nth(here, p) ELSE EMPTY]
           s    == IF n = 0 THEN 0 ELSE n - 1
<1>1. here \in SUBSET LPN /\ IsFiniteSet(here) /\ here \subseteq Int /\ n \in 0 .. BLOCK_SIZE
  BY Placed
<1> HIDE DEF here
<1>2. \A p \in PageNo : p < n => Nth(here, p) \in here /\ Rank(here, Nth(here, p)) = p
  <2>1. ASSUME NEW p \in PageNo, p < n
        PROVE  p \in 0 .. n - 1
    BY <1>1, <2>1, BlockAssumption DEF PageNo
  <2> QED
    BY <1>1, <2>1, NthOfRank
<1>3. \A l \in here : /\ Rank(here, l) \in PageNo
                      /\ Rank(here, l) < n
                      /\ Nth(here, Rank(here, l)) = l
  <2> SUFFICES ASSUME NEW l \in here
               PROVE  /\ Rank(here, l) \in PageNo
                      /\ Rank(here, l) < n
                      /\ Nth(here, Rank(here, l)) = l
    OBVIOUS
  <2>1. Rank(here, l) \in 0 .. n - 1
    BY <1>1, RankInRange
  <2>2. Nth(here, Rank(here, l)) = l
    BY <1>1, NthOfRank
  <2> QED
    BY <1>1, <2>1, <2>2, BlockAssumption DEF PageNo
<1>4. d \in PageData
  BY <1>1, <1>2 DEF PageData
<1>5. s \in 0 .. BLOCK_SIZE /\ n \in Int
  BY <1>1, BlockAssumption
<1>6. PlacedBlock(place, b) =
        [NewBlock EXCEPT !.data = d, !.pages_valid = n, !.min_seek_empty = s]
  BY DEF PlacedBlock, here
<1>7. PlacedBlock(place, b) =
        [data |-> d, pages_valid |-> n, pages_invalid |-> 0,
         min_seek_empty |-> s, erases_remaining |-> BLOCK_ERASES]
  BY <1>6 DEF NewBlock
<1>8. PlacedBlock(place, b) \in BlockState
  <2> HIDE DEF d, n, s
  <2> QED
    BY <1>4, <1>5, <1>7, BlockAssumption DEF BlockState
<1>9. \A p \in PageNo :
        PlacedBlock(place, b).data[p] = IF p < n THEN Nth(here, p) ELSE EMPTY
  BY <1>7
<1> QED
  BY <1>2, <1>3, <1>8, <1>9 DEF here

(* The types of what initialize() leaves.                                   *)
LEMMA PlacedTypes ==
  ASSUME NEW allowed, NEW place \in Placements(allowed)
  PROVE  PlacedFlash(place) \in [Block -> BlockState] /\ PlacedMap(place) \in [LPN -> Address]
<1>1. ASSUME NEW l \in LPN
      PROVE  [block |-> place[l], page |-> Rank({m \in LPN : place[m] = place[l]}, l)]
               \in Address
  <2>1. place[l] \in Block
    BY DEF Placements
  <2>2. Rank({m \in LPN : place[m] = place[l]}, l) \in PageNo
    BY <2>1, PlacementsFit, PlacedBlockFacts
  <2> QED
    BY <2>1, <2>2 DEF Address
<1> QED
  BY <1>1, PlacementsFit, PlacedBlockFacts DEF PlacedFlash, PlacedMap

LEMMA PlacedIntegrity ==
  ASSUME NEW allowed, NEW place \in Placements(allowed)
  PROVE  Integrity(PlacedFlash(place), PlacedMap(place), NONE)
<1> DEFINE here(b) == {l \in LPN : place[l] = b}
<1>1. ASSUME NEW l \in LPN
      PROVE  /\ PlacedMap(place)[l] = [block |-> place[l], page |-> Rank(here(place[l]), l)]
             /\ place[l] \in Block
             /\ PlacedFlash(place)[place[l]].data[Rank(here(place[l]), l)] = l
  <2>1. place[l] \in Block /\ l \in here(place[l])
    BY DEF Placements
  <2>2. /\ Rank(here(place[l]), l) \in PageNo
        /\ Rank(here(place[l]), l) < Cardinality(here(place[l]))
        /\ Nth(here(place[l]), Rank(here(place[l]), l)) = l
    BY <2>1, PlacementsFit, PlacedBlockFacts
  <2>3. PlacedBlock(place, place[l]).data[Rank(here(place[l]), l)] = l
    BY <2>1, <2>2, PlacementsFit, PlacedBlockFacts
  <2> QED
    BY <2>1, <2>3 DEF PlacedFlash, PlacedMap
<1>2. ASSUME NEW b \in Block, NEW p \in ValidPages(PlacedFlash(place)[b])
      PROVE  LET l == PlacedFlash(place)[b].data[p]
             IN  /\ l \in LPN
                 /\ place[l] = b
                 /\ Rank(here(b), l) = p
  <2>1. p \in PageNo /\ PlacedFlash(place)[b].data[p] \in LPN
    BY DEF ValidPages
  <2>2. PlacedFlash(place)[b].data[p] =
          IF p < Cardinality(here(b)) THEN Nth(here(b), p) ELSE EMPTY
    BY <2>1, PlacementsFit, PlacedBlockFacts DEF PlacedFlash
  <2>3. p < Cardinality(here(b)) /\ PlacedFlash(place)[b].data[p] = Nth(here(b), p)
    BY <2>1, <2>2, BlockAssumption
  <2>4. Nth(here(b), p) \in here(b) /\ Rank(here(b), Nth(here(b), p)) = p
    BY <2>1, <2>3, PlacementsFit, PlacedBlockFacts
  <2> QED
    BY <2>1, <2>3, <2>4
<1>3. ASSUME NEW l \in LPN
      PROVE  PlacedFlash(place)[PlacedMap(place)[l].block].data[PlacedMap(place)[l].page] = l
  <2> DEFINE a == PlacedMap(place)[l]
             r == Rank(here(place[l]), l)
  <2>1. a = [block |-> place[l], page |-> r] /\ PlacedFlash(place)[place[l]].data[r] = l
    BY <1>1
  <2> HIDE DEF a, r
  <2>2. PlacedFlash(place)[a.block].data[a.page] = l
    BY <2>1
  <2> QED
    BY <2>2 DEF a
<1>4. ASSUME NEW b \in Block, NEW p \in ValidPages(PlacedFlash(place)[b])
      PROVE  /\ PlacedFlash(place)[b].data[p] # NONE
             /\ PlacedMap(place)[PlacedFlash(place)[b].data[p]] = [block |-> b, page |-> p]
  <2> DEFINE l == PlacedFlash(place)[b].data[p]
  <2>1. l \in LPN /\ place[l] = b /\ Rank(here(b), l) = p
    BY <1>2
  <2> HIDE DEF l
  <2>2. PlacedMap(place)[l] = [block |-> b, page |-> p]
    BY <1>1, <2>1
  <2> QED
    BY <2>1, <2>2, PlaneAssumption DEF l
<1> QED
  BY <1>3, <1>4 DEF Integrity

LEMMA PlacedBacked ==
  ASSUME NEW place, Fits(place), NEW m,
         \A l \in LPN, b \in Block :
           place[l] = b => m[l] = [block |-> b, page |-> Rank({k \in LPN : place[k] = b}, l)]
  PROVE  /\ PlacedFlash(place) \in [Block -> BlockState]
         /\ Backed(PlacedFlash(place), m, NONE)
<1> DEFINE here(b) == {l \in LPN : place[l] = b}
<1>1. PlacedFlash(place) \in [Block -> BlockState]
  BY PlacedBlockFacts DEF PlacedFlash
<1>2. ASSUME NEW b \in Block, NEW p \in ValidPages(PlacedFlash(place)[b])
      PROVE  /\ PlacedFlash(place)[b].data[p] # NONE
             /\ m[PlacedFlash(place)[b].data[p]] = [block |-> b, page |-> p]
  <2>1. p \in PageNo /\ PlacedFlash(place)[b].data[p] \in LPN
    BY DEF ValidPages
  <2>2. PlacedFlash(place)[b].data[p] =
          IF p < Cardinality(here(b)) THEN Nth(here(b), p) ELSE EMPTY
    BY <2>1, PlacedBlockFacts DEF PlacedFlash
  <2>3. p < Cardinality(here(b)) /\ PlacedFlash(place)[b].data[p] = Nth(here(b), p)
    BY <2>1, <2>2, BlockAssumption
  <2>4. Nth(here(b), p) \in here(b) /\ Rank(here(b), Nth(here(b), p)) = p
    BY <2>1, <2>3, PlacedBlockFacts
  <2> QED
    BY <2>1, <2>3, <2>4, PlaneAssumption
<1> QED
  BY <1>1, <1>2 DEF Backed

-----------------------------------------------------------------------------
(* The steps of a write.                                                   *)

(* WriteStart: the page of l is invalidated, l is in flight.                *)
LEMMA InvalidateIntegrity ==
  ASSUME NEW flash \in [Block -> BlockState], NEW m \in [LPN -> Address],
         Integrity(flash, m, NONE), NEW l \in LPN
  PROVE  Integrity([flash EXCEPT ![m[l].block] = InvalidatePage(@, m[l].page)], m, l)
<1> DEFINE a == m[l].block
           p == m[l].page
           new == [flash EXCEPT ![a] = InvalidatePage(@, p)]
<1>1. a \in Block /\ p \in PageNo /\ m[l] = [block |-> a, page |-> p]
  BY DEF Address
<1>2. /\ new[a].data = [flash[a].data EXCEPT ![p] = INVALID]
      /\ \A b \in Block : b # a => new[b].data = flash[b].data
  BY <1>1, InvalidateType
<1>3. \A b \in Block : flash[b].data \in PageData
  BY DEF BlockState
<1>4. \A b \in Block, q \in PageNo :
        new[b].data[q] = IF b = a /\ q = p THEN INVALID ELSE flash[b].data[q]
  BY <1>1, <1>2, <1>3 DEF PageData
<1>5. flash[a].data[p] = l
  BY PlaneAssumption DEF Integrity
<1> HIDE DEF new, a, p
<1>6. ASSUME NEW k \in LPN \ {l}
      PROVE  new[m[k].block].data[m[k].page] = k
  <2>1. flash[m[k].block].data[m[k].page] = k
    BY PlaneAssumption DEF Integrity
  <2>2. m[k].block \in Block /\ m[k].page \in PageNo
    BY DEF Address
  <2> QED
    BY <1>4, <1>5, <2>1, <2>2
<1>7. ASSUME NEW b \in Block, NEW q \in ValidPages(new[b])
      PROVE  new[b].data[q] # l /\ m[new[b].data[q]] = [block |-> b, page |-> q]
  <2>1. q \in PageNo /\ new[b].data[q] \in LPN
    BY DEF ValidPages
  <2>2. ~(b = a /\ q = p) /\ new[b].data[q] = flash[b].data[q]
    BY <1>4, <2>1, BlockAssumption
  <2>3. q \in ValidPages(flash[b])
    BY <2>1, <2>2 DEF ValidPages
  <2>4. m[flash[b].data[q]] = [block |-> b, page |-> q]
    BY <2>3 DEF Integrity
  <2> QED
    BY <1>1, <2>2, <2>4
<1> QED
  BY <1>6, <1>7 DEF Integrity, new, a, p

(* WriteFinish: the map points to another page for the lpn in flight.       *)
LEMMA PointIntegrity ==
  ASSUME NEW flash, NEW new, NEW m \in [LPN -> Address], NEW l \in LPN, NEW addr,
         \A b \in Block : new[b].data = flash[b].data,
         Integrity(flash, m, l)
  PROVE  Integrity(new, [m EXCEPT ![l] = addr], l)
<1>1. \A b \in Block : ValidPages(new[b]) = ValidPages(flash[b])
  BY DEF ValidPages
<1>2. ASSUME NEW k \in LPN \ {l}
      PROVE  new[[m EXCEPT ![l] = addr][k].block].data[[m EXCEPT ![l] = addr][k].page] = k
  BY DEF Integrity, Address
<1>3. ASSUME NEW b \in Block, NEW q \in ValidPages(new[b])
      PROVE  /\ new[b].data[q] # l
             /\ [m EXCEPT ![l] = addr][new[b].data[q]] = [block |-> b, page |-> q]
  BY <1>1 DEF Integrity, ValidPages
<1> QED
  BY <1>2, <1>3 DEF Integrity

(* Program: the promised page, EMPTY so far, is programmed.                 *)
LEMMA ProgramIntegrity ==
  ASSUME NEW flash \in [Block -> BlockState], NEW m \in [LPN -> Address],
         NEW l \in LPN, Integrity(flash, m, l),
         flash[m[l].block].data[m[l].page] = EMPTY
  PROVE  Integrity([flash EXCEPT ![m[l].block] = WritePage(@, m[l].page, l)], m, NONE)
<1> DEFINE a == m[l].block
           p == m[l].page
           new == [flash EXCEPT ![a] = WritePage(@, p, l)]
<1>1. a \in Block /\ p \in PageNo /\ m[l] = [block |-> a, page |-> p]
  BY DEF Address
<1>2. /\ new[a].data = [flash[a].data EXCEPT ![p] = l]
      /\ \A b \in Block : b # a => new[b].data = flash[b].data
  BY <1>1, WritePageType
<1>3. \A b \in Block : flash[b].data \in PageData
  BY DEF BlockState
<1>4. \A b \in Block, q \in PageNo :
        new[b].data[q] = IF b = a /\ q = p THEN l ELSE flash[b].data[q]
  BY <1>1, <1>2, <1>3 DEF PageData
<1>5. flash[a].data[p] \notin LPN
  BY BlockAssumption
<1> HIDE DEF new, a, p
<1>6. ASSUME NEW k \in LPN
      PROVE  new[m[k].block].data[m[k].page] = k
  <2>1. m[k].block \in Block /\ m[k].page \in PageNo
    BY DEF Address
  <2>2. CASE k = l
    BY <1>1, <1>4, <2>1, <2>2 DEF a, p
  <2>3. CASE k # l
    <3>1. flash[m[k].block].data[m[k].page] = k
      BY <2>3 DEF Integrity
    <3> QED
      BY <1>4, <1>5, <2>1, <3>1
  <2> QED
    BY <2>2, <2>3
<1>7. ASSUME NEW b \in Block, NEW q \in ValidPages(new[b])
      PROVE  new[b].data[q] # NONE /\ m[new[b].data[q]] = [block |-> b, page |-> q]
  <2>1. q \in PageNo /\ new[b].data[q] \in LPN
    BY DEF ValidPages
  <2>2. CASE b = a /\ q = p
    BY <1>1, <1>4, <2>1, <2>2, PlaneAssumption
  <2>3. CASE ~(b = a /\ q = p)
    <3>1. new[b].data[q] = flash[b].data[q] /\ q \in ValidPages(flash[b])
      BY <1>4, <2>1, <2>3 DEF ValidPages
    <3> QED
      BY <2>1, <3>1, PlaneAssumption DEF Integrity
  <2> QED
    BY <2>2, <2>3
<1> QED
  BY <1>6, <1>7 DEF Integrity, new, a, p

(* The same steps for a map that need not know every lpn, nor be right for   *)
(* those it has an entry for.                                               *)
LEMMA PageInvalidated ==
  ASSUME NEW flash \in [Block -> BlockState], NEW a \in Block, NEW p \in PageNo
  PROVE  /\ [flash EXCEPT ![a] = InvalidatePage(@, p)] \in [Block -> BlockState]
         /\ \A b \in Block, q \in PageNo :
              [flash EXCEPT ![a] = InvalidatePage(@, p)][b].data[q] =
                IF b = a /\ q = p THEN INVALID ELSE flash[b].data[q]
<1>1. /\ InvalidatePage(flash[a], p) \in BlockState
      /\ InvalidatePage(flash[a], p).data = [flash[a].data EXCEPT ![p] = INVALID]
  BY InvalidateType
<1>2. flash[a].data \in PageData
  BY DEF BlockState
<1>3. \A q \in PageNo :
        InvalidatePage(flash[a], p).data[q] = IF q = p THEN INVALID ELSE flash[a].data[q]
  BY <1>1, <1>2 DEF PageData
<1> QED
  BY <1>1, <1>3

LEMMA InvalidationBacked ==
  ASSUME NEW flash, NEW new, NEW m, NEW l \in LPN, NEW busy, Backed(flash, m, busy),
         m[l] \in Address,
         \A b \in Block, q \in PageNo :
           new[b].data[q] = IF b = m[l].block /\ q = m[l].page THEN INVALID
                                                              ELSE flash[b].data[q]
  PROVE  Backed(new, m, l)
<1> SUFFICES ASSUME NEW b \in Block, NEW q \in ValidPages(new[b])
             PROVE  new[b].data[q] # l /\ m[new[b].data[q]] = [block |-> b, page |-> q]
  BY DEF Backed
<1>1. q \in PageNo /\ new[b].data[q] \in LPN
  BY DEF ValidPages
<1>2. ~(b = m[l].block /\ q = m[l].page) /\ new[b].data[q] = flash[b].data[q]
  BY <1>1, BlockAssumption
<1>3. m[flash[b].data[q]] = [block |-> b, page |-> q]
  BY <1>1, <1>2 DEF Backed, ValidPages
<1> QED
  BY <1>2, <1>3

LEMMA PointBacked ==
  ASSUME NEW flash, NEW new, NEW Entry, NEW m \in [LPN -> Entry], NEW l \in LPN, NEW addr,
         \A b \in Block : new[b].data = flash[b].data,
         Backed(flash, m, l)
  PROVE  Backed(new, [m EXCEPT ![l] = addr], l)
<1>1. \A b \in Block : ValidPages(new[b]) = ValidPages(flash[b])
  BY DEF ValidPages
<1>2. ASSUME NEW b \in Block, NEW q \in ValidPages(new[b])
      PROVE  /\ new[b].data[q] # l
             /\ [m EXCEPT ![l] = addr][new[b].data[q]] = [block |-> b, page |-> q]
  BY <1>1 DEF Backed, ValidPages
<1> QED
  BY <1>2 DEF Backed

LEMMA PageProgrammed ==
  ASSUME NEW flash \in [Block -> BlockState], NEW a \in Block, NEW p \in PageNo, NEW l \in LPN
  PROVE  /\ [flash EXCEPT ![a] = WritePage(@, p, l)] \in [Block -> BlockState]
         /\ \A b \in Block, q \in PageNo :
              [flash EXCEPT ![a] = WritePage(@, p, l)][b].data[q] =
                IF b = a /\ q = p THEN l ELSE flash[b].data[q]
<1>1. /\ WritePage(flash[a], p, l) \in BlockState
      /\ WritePage(flash[a], p, l).data = [flash[a].data EXCEPT ![p] = l]
  BY WritePageType
<1>2. flash[a].data \in PageData
  BY DEF BlockState
<1>3. \A q \in PageNo :
        WritePage(flash[a], p, l).data[q] = IF q = p THEN l ELSE flash[a].data[q]
  BY <1>1, <1>2 DEF PageData
<1> QED
  BY <1>1, <1>3

LEMMA ProgrammedBacked ==
  ASSUME NEW flash, NEW new, NEW m, NEW l \in LPN, Backed(flash, m, l), m[l] \in Address,
         \A b \in Block, q \in PageNo :
           new[b].data[q] = IF b = m[l].block /\ q = m[l].page THEN l ELSE flash[b].data[q]
  PROVE  Backed(new, m, NONE)
<1> SUFFICES ASSUME NEW b \in Block, NEW q \in ValidPages(new[b])
             PROVE  new[b].data[q] # NONE /\ m[new[b].data[q]] = [block |-> b, page |-> q]
  BY DEF Backed
<1>1. q \in PageNo /\ new[b].data[q] \in LPN
  BY DEF ValidPages
<1>2. CASE b = m[l].block /\ q = m[l].page
  <2>1. new[b].data[q] = l /\ m[l] = [block |-> b, page |-> q]
    BY <1>1, <1>2 DEF Address
  <2> QED
    BY <2>1, PlaneAssumption
<1>3. CASE ~(b = m[l].block /\ q = m[l].page)
  <2>1. new[b].data[q] = flash[b].data[q] /\ q \in ValidPages(flash[b])
    BY <1>1, <1>3 DEF ValidPages
  <2> QED
    BY <1>1, <2>1, PlaneAssumption DEF Backed
<1> QED
  BY <1>2, <1>3

-----------------------------------------------------------------------------
(* A turn of a GC loop: victim v is erased and copied into block w.         *)

(* A VALID page of the victim that the map gives back is the only page of   *)
(* the victim that holds its lpn, so it is the page MapAfter looks at.      *)
LEMMA OnlyPage ==
  ASSUME NEW flash, NEW m, NEW busy, Backed(flash, m, busy),
         NEW v \in Block, NEW p \in ValidPages(flash[v])
  PROVE  /\ PagesOf(flash[v], flash[v].data[p]) = {p}
         /\ LastPageOf(flash[v], flash[v].data[p]) = p
<1> DEFINE l == flash[v].data[p]
<1>1. p \in PageNo /\ l \in LPN /\ m[l] = [block |-> v, page |-> p]
  BY DEF Backed, ValidPages
<1>2. ASSUME NEW q \in PageNo, flash[v].data[q] = l
      PROVE  q = p
  <2>1. q \in ValidPages(flash[v])
    BY <1>1, <1>2 DEF ValidPages
  <2>2. m[l] = [block |-> v, page |-> q]
    BY <1>2, <2>1 DEF Backed
  <2> QED
    BY <1>1, <2>2
<1>3. PagesOf(flash[v], l) = {p}
  BY <1>1, <1>2 DEF PagesOf
<1>4. p <= p
  BY <1>1, BlockAssumption DEF PageNo
<1> QED
  BY <1>3, <1>4 DEF LastPageOf

(* What the callbacks leave in the map for an lpn of the victim ...         *)
LEMMA MapOfMoved ==
  ASSUME NEW flash, NEW m, NEW busy, Backed(flash, m, busy),
         NEW v \in Block, NEW w \in Block, NEW p \in ValidPages(flash[v])
  PROVE  MapAfter(m, flash[v], flash[w], w)[flash[v].data[p]] =
           [block |-> IF IsCopied(flash[v], flash[w], p) THEN w ELSE v,
            page  |-> NewPageOf(flash[v], flash[w], p)]
<1> DEFINE l == flash[v].data[p]
<1>1. l \in LPN /\ m[l] = [block |-> v, page |-> p]
  BY DEF Backed, ValidPages
<1>2. PagesOf(flash[v], l) # {} /\ LastPageOf(flash[v], l) = p
  BY OnlyPage
<1> QED
  BY <1>1, <1>2 DEF MapAfter

(* ... and for any other.                                                  *)
LEMMA MapOfOthers ==
  ASSUME NEW m, NEW victim, NEW copy, NEW w, NEW l \in LPN, PagesOf(victim, l) = {}
  PROVE  MapAfter(m, victim, copy, w)[l] = m[l]
BY DEF MapAfter

(* The map may hold other values for lpns that have no address.             *)
LEMMA MapAfterType ==
  ASSUME NEW flash \in [Block -> BlockState], NEW Entry, Address \subseteq Entry,
         NEW m \in [LPN -> Entry], NEW busy, Backed(flash, m, busy),
         NEW v \in Block, NEW w \in Block
  PROVE  /\ MapAfter(m, flash[v], flash[w], w) \in [LPN -> Entry]
         /\ \A l \in LPN : m[l] \in Address => MapAfter(m, flash[v], flash[w], w)[l] \in Address
<1>1. ASSUME NEW l \in LPN
      PROVE  \/ MapAfter(m, flash[v], flash[w], w)[l] = m[l]
             \/ MapAfter(m, flash[v], flash[w], w)[l] \in Address
  <2>1. CASE PagesOf(flash[v], l) = {}
    BY <2>1, MapOfOthers
  <2>2. CASE PagesOf(flash[v], l) # {}
    <3>1. PICK p \in ValidPages(flash[v]) : flash[v].data[p] = l
      BY <2>2 DEF PagesOf, ValidPages
    <3>2. NewPageOf(flash[v], flash[w], p) \in PageNo
      BY CopiedPage, KeptPage
    <3>3. MapAfter(m, flash[v], flash[w], w)[l] =
            [block |-> IF IsCopied(flash[v], flash[w], p) THEN w ELSE v,
             page  |-> NewPageOf(flash[v], flash[w], p)]
      BY <3>1, MapOfMoved
    <3>4. (IF IsCopied(flash[v], flash[w], p) THEN w ELSE v) \in Block
      OBVIOUS
    <3> QED
      BY <3>2, <3>3, <3>4 DEF Address
  <2> QED
    BY <2>1, <2>2
<1>2. MapAfter(m, flash[v], flash[w], w) =
        [l \in LPN |-> MapAfter(m, flash[v], flash[w], w)[l]]
  BY DEF MapAfter
<1> QED
  BY <1>1, <1>2

(* A page that does not lie in the victim is not moved.                     *)
LEMMA MapOfUnmoved ==
  ASSUME NEW flash, NEW m, NEW busy, Backed(flash, m, busy),
         NEW v \in Block, NEW w \in Block,
         NEW b \in Block \ {v}, NEW q \in ValidPages(flash[b])
  PROVE  MapAfter(m, flash[v], flash[w], w)[flash[b].data[q]] = [block |-> b, page |-> q]
<1>1. flash[b].data[q] \in LPN /\ m[flash[b].data[q]] = [block |-> b, page |-> q]
  BY DEF Backed, ValidPages
<1>2. ASSUME NEW p \in PagesOf(flash[v], flash[b].data[q])
      PROVE  FALSE
  <2>1. p \in ValidPages(flash[v]) /\ flash[v].data[p] = flash[b].data[q]
    BY <1>1 DEF PagesOf, ValidPages
  <2>2. m[flash[b].data[q]] = [block |-> v, page |-> p]
    BY <2>1 DEF Backed
  <2> QED
    BY <1>1, <2>2
<1> QED
  BY <1>1, <1>2, MapOfOthers

(* The plane after victim v is erased and copied into block w, and what a    *)
(* map needs for lpn l to be read.                                          *)
Collected(flash, v, w) ==
  [flash EXCEPT ![v] = VictimAfter(flash[v], flash[w]),
                ![w] = CopyBlockAfter(flash[v], flash[w])]

Holds(flash, m, l) == flash[m[l].block].data[m[l].page] = l

(* A page that can be read can be read afterwards ...                       *)
LEMMA CollectKeepsPage ==
  ASSUME NEW flash \in [Block -> BlockState], NEW m, NEW busy, Backed(flash, m, busy),
         NEW v \in Block, NEW w \in Block, v # w,
         NEW l \in LPN, m[l] \in Address, Holds(flash, m, l)
  PROVE  Holds(Collected(flash, v, w), MapAfter(m, flash[v], flash[w], w), l)
<1> DEFINE new == Collected(flash, v, w)
           mm == MapAfter(m, flash[v], flash[w], w)
           b == m[l].block
           q == m[l].page
<1>1. /\ new[v] = VictimAfter(flash[v], flash[w])
      /\ new[w] = CopyBlockAfter(flash[v], flash[w])
      /\ \A c \in Block \ {v, w} : new[c] = flash[c]
  BY DEF Collected
<1>2. b \in Block /\ q \in PageNo /\ flash[b].data[q] = l
  BY DEF Address, Holds
<1>3. \A p \in ValidPages(flash[v]) :
        mm[flash[v].data[p]] =
          [block |-> IF IsCopied(flash[v], flash[w], p) THEN w ELSE v,
           page  |-> NewPageOf(flash[v], flash[w], p)]
  BY MapOfMoved
<1>4. \A c \in Block \ {v} : \A p \in ValidPages(flash[c]) :
        mm[flash[c].data[p]] = [block |-> c, page |-> p]
  <2> SUFFICES ASSUME NEW c \in Block \ {v}, NEW p \in ValidPages(flash[c])
               PROVE  mm[flash[c].data[p]] = [block |-> c, page |-> p]
    OBVIOUS
  <2> QED
    BY MapOfUnmoved
<1> HIDE DEF b, q, new, mm
<1>5. q \in ValidPages(flash[b])
  BY <1>2 DEF ValidPages
<1>6. ASSUME b = v, IsCopied(flash[v], flash[w], q)
      PROVE  new[mm[l].block].data[mm[l].page] = l
  <2>1. mm[l] = [block |-> w, page |-> NewPageOf(flash[v], flash[w], q)]
    BY <1>2, <1>3, <1>5, <1>6
  <2>2. new[w].data[NewPageOf(flash[v], flash[w], q)] = flash[v].data[q]
    BY <1>1, <1>5, <1>6, CopiedPage
  <2> QED
    BY <1>2, <1>6, <2>1, <2>2
<1>7. ASSUME b = v, ~IsCopied(flash[v], flash[w], q)
      PROVE  new[mm[l].block].data[mm[l].page] = l
  <2>1. mm[l] = [block |-> v, page |-> NewPageOf(flash[v], flash[w], q)]
    BY <1>2, <1>3, <1>5, <1>7
  <2>2. new[v].data[NewPageOf(flash[v], flash[w], q)] = flash[v].data[q]
    BY <1>1, <1>5, <1>7, KeptPage
  <2> QED
    BY <1>2, <1>7, <2>1, <2>2
<1>8. ASSUME b # v
      PROVE  new[mm[l].block].data[mm[l].page] = l
  <2>1. mm[l] = [block |-> b, page |-> q]
    BY <1>4, <1>2, <1>5, <1>8
  <2>2. new[b].data[q] = l
    <3>1. CASE b # w
      BY <1>1, <1>2, <1>8, <3>1
    <3>2. CASE b = w
      <4>1. q \notin FreePages(flash[w])
        BY <1>2, <3>2, BlockAssumption DEF FreePages
      <4>2. CopyBlockAfter(flash[v], flash[w]).data[q] = flash[w].data[q]
        BY <1>2, <4>1 DEF CopyBlockAfter, BlockState
      <4> QED
        BY <1>1, <1>2, <3>2, <4>2
    <3> QED
      BY <3>1, <3>2
  <2> QED
    BY <2>1, <2>2
<1> QED
  BY <1>6, <1>7, <1>8 DEF Holds, new, mm

(* ... the map gives every VALID page back ...                              *)
LEMMA CollectBacked ==
  ASSUME NEW flash \in [Block -> BlockState], NEW m, NEW busy, Backed(flash, m, busy),
         NEW v \in Block, NEW w \in Block, v # w
  PROVE  Backed(Collected(flash, v, w), MapAfter(m, flash[v], flash[w], w), busy)
<1> DEFINE new == Collected(flash, v, w)
           mm  == MapAfter(m, flash[v], flash[w], w)
<1>1. /\ new[v] = VictimAfter(flash[v], flash[w])
      /\ new[w] = CopyBlockAfter(flash[v], flash[w])
      /\ \A b \in Block \ {v, w} : new[b] = flash[b]
  BY DEF Collected
<1>2. \A p \in ValidPages(flash[v]) :
        mm[flash[v].data[p]] =
          [block |-> IF IsCopied(flash[v], flash[w], p) THEN w ELSE v,
           page  |-> NewPageOf(flash[v], flash[w], p)]
  BY MapOfMoved
<1>3. ASSUME NEW b \in Block \ {v}, NEW q \in ValidPages(flash[b])
      PROVE  mm[flash[b].data[q]] = [block |-> b, page |-> q]
  BY MapOfUnmoved
<1>4. \A b \in Block : \A p \in ValidPages(flash[b]) : flash[b].data[p] # busy
  BY DEF Backed
<1> HIDE DEF new, mm
<1>5. ASSUME NEW b \in Block, NEW q \in ValidPages(new[b])
      PROVE  /\ new[b].data[q] # busy
             /\ mm[new[b].data[q]] = [block |-> b, page |-> q]
  <2>1. CASE b = v
    <3>1. PICK p \in ValidPages(flash[v]) :
            /\ ~IsCopied(flash[v], flash[w], p)
            /\ NewPageOf(flash[v], flash[w], p) = q
            /\ new[v].data[q] = flash[v].data[p]
      BY <1>1, <2>1, VictimOrigins
    <3> QED
      BY <1>2, <1>4, <2>1, <3>1
  <2>2. CASE b = w
    <3>1. CASE q \in ValidPages(flash[w]) /\ new[w].data[q] = flash[w].data[q]
      BY <1>3, <1>4, <2>2, <3>1
    <3>2. CASE \E p \in ValidPages(flash[v]) :
                 /\ IsCopied(flash[v], flash[w], p)
                 /\ NewPageOf(flash[v], flash[w], p) = q
                 /\ new[w].data[q] = flash[v].data[p]
      BY <1>2, <1>4, <2>2, <3>2
    <3> QED
      BY <1>1, <2>2, <3>1, <3>2, CopyBlockOrigins
  <2>3. CASE b \notin {v, w}
    BY <1>1, <1>3, <1>4, <2>3
  <2> QED
    BY <2>1, <2>2, <2>3
<1> QED
  BY <1>5 DEF Backed, new, mm

(* ... so that no page is lost, duplicated or resurrected.                  *)
LEMMA CollectIntegrity ==
  ASSUME NEW flash \in [Block -> BlockState], NEW m \in [LPN -> Address],
         NEW busy, Integrity(flash, m, busy),
         NEW v \in Block, NEW w \in Block, v # w
  PROVE  Integrity(Collected(flash, v, w), MapAfter(m, flash[v], flash[w], w), busy)
<1>1. Backed(flash, m, busy)
  BY IntegrityParts
<1>2. \A l \in LPN \ {busy} : m[l] \in Address /\ Holds(flash, m, l)
  BY DEF Integrity, Holds
<1> DEFINE new == Collected(flash, v, w)
           mm  == MapAfter(m, flash[v], flash[w], w)
<1>3. Backed(new, mm, busy)
  BY <1>1, CollectBacked
<1>4. ASSUME NEW l \in LPN \ {busy}
      PROVE  Holds(new, mm, l)
  BY <1>1, <1>2, CollectKeepsPage
<1> HIDE DEF new, mm
<1>5. Integrity(new, mm, busy)
  BY <1>3, <1>4, IntegrityParts DEF Holds
<1> QED
  BY <1>5 DEF new, mm

-----------------------------------------------------------------------------
(* FIFO reaches every block within PLANE_SIZE steps, so the loop over       *)
(* collect() ends as soon as there is a block it may stop at.              *)
LEMMA StepsTo ==
  ASSUME NEW cursor \in Block, NEW b \in Block
  PROVE  \E n \in 1 .. PLANE_SIZE : (cursor + n) % PLANE_SIZE = b
<1>1. cursor \in Nat /\ b \in Nat /\ cursor < PLANE_SIZE /\ b < PLANE_SIZE
  BY CollectorAssumption DEF Block
<1>2. CASE b > cursor
  <2>1. b - cursor \in 1 .. PLANE_SIZE /\ cursor + (b - cursor) = b
    BY <1>1, <1>2, CollectorAssumption
  <2>2. b % PLANE_SIZE = b
    BY <1>1, CollectorAssumption
  <2> QED
    BY <2>1, <2>2
<1>3. CASE b <= cursor
  <2>1. /\ b - cursor + PLANE_SIZE \in 1 .. PLANE_SIZE
        /\ cursor + (b - cursor + PLANE_SIZE) = b + PLANE_SIZE
    BY <1>1, <1>3, CollectorAssumption
  <2>2. (b + PLANE_SIZE) % PLANE_SIZE = b
    BY <1>1, CollectorAssumption
  <2> QED
    BY <2>1, <2>2
<1> QED
  BY <1>1, <1>2, <1>3

LEMMA VictimIsAllowed ==
  ASSUME NEW cursor \in Block, NEW skip, \E b \in Block : b \notin skip,
         NEW v \in Victims(cursor, skip)
  PROVE  v \in Block \ skip
<1>1. CASE GC_ALGORITHM = "FIFO"
  <2> DEFINE after(n) == (cursor + n) % PLANE_SIZE
             stops    == {n \in 1 .. PLANE_SIZE : after(n) \notin skip}
  <2>1. stops # {}
    BY StepsTo
  <2>2. IsFiniteSet(stops) /\ stops \subseteq Int
    <3>1. IsFiniteSet(1 .. PLANE_SIZE)
      BY CollectorAssumption, FS_Interval
    <3>2. stops \in SUBSET (1 .. PLANE_SIZE)
      OBVIOUS
    <3> HIDE DEF stops
    <3>3. IsFiniteSet(stops)
      BY <3>1, <3>2, FS_Subset
    <3> QED
      BY <3>2, <3>3, CollectorAssumption
  <2>3. \E n \in stops : \A k \in stops : n <= k
    BY <2>1, <2>2, LeastMember
  <2>4. PICK n \in stops : v = after(n)
    <3> HIDE DEF stops
    <3> QED
      BY <1>1, <2>3 DEF Victims, FIFOVictim, stops
  <2>5. n \in Nat /\ after(n) \notin skip
    BY CollectorAssumption
  <2>6. after(n) \in Block
    BY <2>5, CollectorAssumption DEF Block
  <2> QED
    BY <2>4, <2>5, <2>6
<1>2. CASE GC_ALGORITHM # "FIFO"
  BY <1>2 DEF Victims
<1> QED
  BY <1>1, <1>2

-----------------------------------------------------------------------------
(* Integrity as the caller sees it: the lpns whose address holds them are   *)
(* all but the one whose write is in flight.                               *)
LEMMA AllButInFlightStored ==
  ASSUME NEW f, NEW m \in [LPN -> Address], NEW x, Integrity(f, m, x)
  PROVE  {l \in LPN : f[m[l].block].data[m[l].page] = l} = LPN \ {x}
<1>1. ASSUME NEW l \in LPN \ {x}
      PROVE  f[m[l].block].data[m[l].page] = l
  BY <1>1 DEF Integrity
<1>2. ASSUME NEW l \in LPN, f[m[l].block].data[m[l].page] = l
      PROVE  l # x
  <2>1. m[l].block \in Block /\ m[l].page \in PageNo
    BY DEF Address
  <2>2. m[l].page \in ValidPages(f[m[l].block])
    BY <1>2, <2>1 DEF ValidPages
  <2>3. \A b \in Block : \A p \in ValidPages(f[b]) : f[b].data[p] # x
    BY DEF Integrity
  <2>4. f[m[l].block].data[m[l].page] # x
    BY <2>1, <2>2, <2>3
  <2> QED
    BY <1>2, <2>4
<1> QED
  BY <1>1, <1>2

-----------------------------------------------------------------------------
(* Every method keeps the counters and min_seek_empty exact.                *)

LEMMA CountedMeans ==
  ASSUME NEW blk \in BlockState
  PROVE  /\ Counted(blk) <=> /\ blk.pages_valid = Cardinality(ValidPages(blk))
                             /\ blk.pages_invalid = Cardinality(InvalidPages(blk))
                             /\ FreePages(blk) = EmptyPages(blk)
         /\ Counted(blk) => get_pages_empty(blk) = Cardinality(FreePages(blk))
<1>1. /\ IsFiniteSet(EmptyPages(blk))
      /\ Cardinality(EmptyPages(blk)) =
           BLOCK_SIZE - Cardinality(InvalidPages(blk)) - Cardinality(ValidPages(blk))
  BY PagesPartition
<1>2. FreePages(blk) \in SUBSET EmptyPages(blk)
  BY DEF FreePages, EmptyPages
<1>3. Cardinality(EmptyPages(blk)) = Cardinality(FreePages(blk)) =>
        EmptyPages(blk) = FreePages(blk)
  BY <1>1, <1>2, FS_Subset
<1> QED
  BY <1>1, <1>3 DEF Counted, get_pages_empty

LEMMA CountedInvalidate ==
  ASSUME NEW blk \in BlockState, NEW p \in PageNo, Counted(blk)
  PROVE  Counted(InvalidatePage(blk, p))
<1> DEFINE new == InvalidatePage(blk, p)
<1>1. CASE blk.data[p] = INVALID
  BY <1>1 DEF InvalidatePage
<1>2. CASE blk.data[p] # INVALID
  <2>1. /\ new \in BlockState /\ new.data = [blk.data EXCEPT ![p] = INVALID]
        /\ blk.data \in PageData
    BY InvalidateType DEF BlockState
  <2>2. \A q \in PageNo : new.data[q] = IF q = p THEN INVALID ELSE blk.data[q]
    BY <2>1 DEF PageData
  <2>3. /\ new.pages_invalid = blk.pages_invalid + 1
        /\ new.pages_valid =
             IF blk.data[p] \in LPN THEN blk.pages_valid - 1 ELSE blk.pages_valid
        /\ new.min_seek_empty = blk.min_seek_empty
    BY <1>2 DEF InvalidatePage, BlockState
  <2>4. /\ blk.pages_valid = Cardinality(ValidPages(blk))
        /\ blk.pages_invalid = Cardinality(InvalidPages(blk))
        /\ FreePages(blk) = EmptyPages(blk)
    BY CountedMeans
  <2> HIDE DEF new
  <2>5. /\ ValidPages(new) = ValidPages(blk) \ {p}
        /\ InvalidPages(new) = InvalidPages(blk) \cup {p}
        /\ FreePages(new) = FreePages(blk) \ {p}
        /\ EmptyPages(new) = EmptyPages(blk) \ {p}
    BY <2>2, <2>3, BlockAssumption DEF ValidPages, InvalidPages, FreePages, EmptyPages
  <2>6. p \notin InvalidPages(blk) /\ (p \in ValidPages(blk) <=> blk.data[p] \in LPN)
    BY <1>2 DEF InvalidPages, ValidPages
  <2>7. /\ IsFiniteSet(ValidPages(blk)) /\ Cardinality(ValidPages(blk)) \in Nat
        /\ IsFiniteSet(InvalidPages(blk)) /\ Cardinality(InvalidPages(blk)) \in Nat
    BY PagesPartition
  <2>8. new.pages_invalid = Cardinality(InvalidPages(new))
    <3>1. Cardinality(InvalidPages(blk) \cup {p}) = Cardinality(InvalidPages(blk)) + 1
      BY <2>6, <2>7, FS_AddElement
    <3> QED
      BY <2>3, <2>4, <2>5, <3>1
  <2>9. new.pages_valid = Cardinality(ValidPages(new))
    <3>1. Cardinality(ValidPages(blk) \ {p}) =
            IF p \in ValidPages(blk) THEN Cardinality(ValidPages(blk)) - 1
                                     ELSE Cardinality(ValidPages(blk))
      BY <2>7, FS_RemoveElement
    <3> QED
      BY <2>3, <2>4, <2>5, <2>6, <3>1
  <2> QED
    BY <2>1, <2>4, <2>5, <2>8, <2>9, CountedMeans DEF new
<1> QED
  BY <1>1, <1>2

LEMMA CountedWrite ==
  ASSUME NEW blk \in BlockState, NEW p \in PageNo, blk.data[p] = EMPTY,
         NEW l \in LPN, Counted(blk)
  PROVE  Counted(WritePage(blk, p, l))
<1> DEFINE new == WritePage(blk, p, l)
<1>1. /\ new \in BlockState /\ new.data = [blk.data EXCEPT ![p] = l]
      /\ blk.data \in PageData
  BY WritePageType DEF BlockState
<1>2. \A q \in PageNo : new.data[q] = IF q = p THEN l ELSE blk.data[q]
  BY <1>1 DEF PageData
<1>3. /\ new.pages_invalid = blk.pages_invalid
      /\ new.pages_valid = blk.pages_valid + 1
      /\ new.min_seek_empty = blk.min_seek_empty
  BY DEF WritePage, BlockState
<1>4. /\ blk.pages_valid = Cardinality(ValidPages(blk))
      /\ blk.pages_invalid = Cardinality(InvalidPages(blk))
      /\ FreePages(blk) = EmptyPages(blk)
  BY CountedMeans
<1> HIDE DEF new
<1>5. /\ ValidPages(new) = ValidPages(blk) \cup {p}
      /\ InvalidPages(new) = InvalidPages(blk)
      /\ FreePages(new) = FreePages(blk) \ {p}
      /\ EmptyPages(new) = EmptyPages(blk) \ {p}
  BY <1>2, <1>3, BlockAssumption DEF ValidPages, InvalidPages, FreePages, EmptyPages
<1>6. p \notin ValidPages(blk)
  BY BlockAssumption DEF ValidPages
<1>7. IsFiniteSet(ValidPages(blk)) /\ Cardinality(ValidPages(blk)) \in Nat
  BY PagesPartition
<1>8. new.pages_valid = Cardinality(ValidPages(new))
  <2>1. Cardinality(ValidPages(blk) \cup {p}) = Cardinality(ValidPages(blk)) + 1
    BY <1>6, <1>7, FS_AddElement
  <2> QED
    BY <1>3, <1>4, <1>5, <2>1
<1> QED
  BY <1>1, <1>3, <1>4, <1>5, <1>8, CountedMeans DEF new

(* get_next_page leaves min_seek_empty at the first EMPTY page.             *)
LEMMA CountedSeek ==
  ASSUME NEW blk \in BlockState, HasNextPage(blk), Counted(blk)
  PROVE  Counted(SeekNextPage(blk))
<1> DEFINE new == SeekNextPage(blk)
           s == NextPage(blk)
<1>1. /\ new \in BlockState /\ new.data = blk.data
  BY SeekType
<1>2. /\ new.pages_invalid = blk.pages_invalid
      /\ new.pages_valid = blk.pages_valid
      /\ new.min_seek_empty = s
  BY DEF SeekNextPage, BlockState
<1>3. /\ blk.pages_valid = Cardinality(ValidPages(blk))
      /\ blk.pages_invalid = Cardinality(InvalidPages(blk))
      /\ FreePages(blk) = EmptyPages(blk)
  BY CountedMeans
<1>4. \A q \in FreePages(blk) : s <= q
  <2>1. FreePages(blk) \in SUBSET PageNo
    BY DEF FreePages
  <2>2. \E p \in FreePages(blk) : \A q \in FreePages(blk) : p <= q
    BY <2>1, PageSets, LeastMember DEF HasNextPage
  <2> QED
    BY <2>2 DEF NextPage
<1> HIDE DEF new, s
<1>5. /\ ValidPages(new) = ValidPages(blk)
      /\ InvalidPages(new) = InvalidPages(blk)
      /\ EmptyPages(new) = EmptyPages(blk)
  BY <1>1 DEF ValidPages, InvalidPages, EmptyPages
<1>6. FreePages(new) = EmptyPages(new)
  <2>1. ASSUME NEW q \in EmptyPages(blk)
        PROVE  q \in FreePages(new)
    <3>1. q \in PageNo /\ new.data[q] = EMPTY
      BY <1>1 DEF EmptyPages
    <3>2. q \in Int /\ s \in Int
      BY <3>1, NextPageIsFree, BlockAssumption DEF PageNo, s
    <3>3. q >= s
      BY <1>3, <1>4, <3>2
    <3> QED
      BY <1>2, <3>1, <3>3 DEF FreePages
  <2> QED
    BY <1>5, <2>1 DEF FreePages, EmptyPages
<1> QED
  BY <1>1, <1>2, <1>3, <1>5, <1>6, CountedMeans DEF new

LEMMA CountedErase ==
  ASSUME NEW blk \in BlockState, Counted(blk)
  PROVE  /\ Erase(blk) \in BlockState /\ Counted(Erase(blk))
         /\ CanErase(blk) => /\ \A p \in PageNo : Erase(blk).data[p] = EMPTY
                             /\ Erase(blk).erases_remaining = WearOne(blk)
         /\ ~CanErase(blk) => Erase(blk) = blk
<1>1. CASE CanErase(blk)
  <2> DEFINE new == Erase(blk)
  <2>1. WearOne(blk) \in Nat
    BY <1>1 DEF WearOne, CanErase, BlockState
  <2>2. new = [data |-> [p \in PageNo |-> EMPTY], pages_valid |-> 0,
               pages_invalid |-> 0, min_seek_empty |-> 0,
               erases_remaining |-> WearOne(blk)]
    BY <1>1 DEF Erase, NewBlock
  <2>3. new \in BlockState
    BY <2>1, <2>2, BlockAssumption DEF BlockState, PageData
  <2>4. \A p \in PageNo : new.data[p] = EMPTY
    BY <2>2
  <2>5. ValidPages(new) = {} /\ InvalidPages(new) = {}
    BY <2>4, BlockAssumption DEF ValidPages, InvalidPages
  <2>6. FreePages(new) = EmptyPages(new)
    <3>1. \A p \in PageNo : p >= new.min_seek_empty
      BY <2>2, BlockAssumption DEF PageNo
    <3> QED
      BY <3>1 DEF FreePages, EmptyPages
  <2>7. Counted(new)
    <3> HIDE DEF new
    <3>1. new.pages_valid = 0 /\ new.pages_invalid = 0
      BY <2>2
    <3> QED
      BY <2>3, <2>5, <2>6, <3>1, FS_EmptySet, CountedMeans
  <2> QED
    BY <1>1, <2>2, <2>3, <2>4, <2>7
<1>2. CASE ~CanErase(blk)
  BY <1>2 DEF Erase
<1> QED
  BY <1>1, <1>2

(* The copy block of an _erase_and_copy keeps its INVALID pages; its VALID   *)
(* ones grow by those copied, and they fill its first EMPTY pages.          *)
LEMMA CountedCopy ==
  ASSUME NEW victim \in BlockState, NEW copy \in BlockState, Counted(copy)
  PROVE  Counted(CopyBlockAfter(victim, copy))
<1> DEFINE new == CopyBlockAfter(victim, copy)
           F == FreePages(copy)
           V == ValidPages(victim)
           n == NumCopied(victim, copy)
<1>1. new \in BlockState
  BY CopyBlockType
<1>2. /\ \A q \in PageNo :
           new.data[q] = IF q \in F /\ Rank(F, q) < n
                           THEN victim.data[Nth(V, Rank(F, q))] ELSE copy.data[q]
      /\ new.pages_valid = copy.pages_valid + n
      /\ new.pages_invalid = copy.pages_invalid
      /\ new.min_seek_empty = IF n = 0 THEN copy.min_seek_empty ELSE Nth(F, n - 1)
  BY DEF CopyBlockAfter, BlockState
<1>3. /\ copy.pages_valid = Cardinality(ValidPages(copy))
      /\ copy.pages_invalid = Cardinality(InvalidPages(copy))
      /\ F = EmptyPages(copy)
  BY CountedMeans
<1>4. /\ n \in Nat /\ n <= Cardinality(V) /\ n <= Cardinality(F)
      /\ F \in SUBSET PageNo /\ V \in SUBSET PageNo
      /\ IsFiniteSet(F) /\ F \subseteq Int
      /\ Cardinality(V) \in Nat /\ Cardinality(F) \in Nat
  <2>1. F \in SUBSET PageNo /\ V \in SUBSET PageNo
    BY DEF ValidPages, FreePages
  <2> QED
    BY <2>1, PageSets, NumCopiedRange, BlockAssumption
<1>5. \A q \in F : copy.data[q] = EMPTY
  BY DEF FreePages
<1>6. ASSUME NEW q \in F, Rank(F, q) < n
      PROVE  new.data[q] \in LPN
  <2>1. Rank(F, q) \in 0 .. Cardinality(F) - 1
    BY Positions
  <2>2. Rank(F, q) \in 0 .. Cardinality(V) - 1
    BY <1>4, <1>6, <2>1
  <2>3. Nth(V, Rank(F, q)) \in V
    BY <2>2, Positions
  <2> QED
    BY <1>2, <1>4, <1>6, <2>3 DEF ValidPages
<1>7. InvalidPages(new) = InvalidPages(copy)
  <2>1. ASSUME NEW q \in PageNo
        PROVE  new.data[q] = INVALID <=> copy.data[q] = INVALID
    BY <1>2, <1>5, <1>6, BlockAssumption
  <2> QED
    BY <2>1 DEF InvalidPages
<1>8. new.pages_valid = Cardinality(ValidPages(new))
  <2>1. ValidPages(new) = PagesHolding(new, LPN) /\ ValidPages(copy) = PagesHolding(copy, LPN)
    BY DEF ValidPages, PagesHolding
  <2>2. Cardinality(PagesHolding(new, LPN)) =
          Cardinality(PagesHolding(copy, LPN)) + Cardinality(CopiedHolding(victim, copy, LPN))
    BY CopyBlockHolding
  <2> HIDE DEF new, n
  <2> QED
    BY <1>2, <1>3, <2>1, <2>2, CopiedCount DEF n
<1>9. FreePages(new) = EmptyPages(new)
  <2>1. ASSUME NEW q \in EmptyPages(new)
        PROVE  q >= new.min_seek_empty
    <3>1. q \in PageNo /\ q \in F /\ ~(Rank(F, q) < n)
      BY <1>2, <1>3, <1>6, BlockAssumption DEF EmptyPages
    <3>2. CASE n = 0
      <4>1. q >= copy.min_seek_empty
        BY <3>1 DEF FreePages
      <4> QED
        BY <1>2, <3>2, <4>1
    <3>3. CASE n # 0
      <4>1. n - 1 \in 0 .. Cardinality(F) - 1
        BY <1>4, <3>3
      <4>2. Nth(F, n - 1) \in F /\ Rank(F, Nth(F, n - 1)) = n - 1
        BY <4>1, Positions
      <4>3. q < Nth(F, n - 1) => Rank(F, q) < n - 1
        BY <1>4, <3>1, <4>2, RankMonotone
      <4>4. Rank(F, q) \in Nat /\ q \in Int /\ Nth(F, n - 1) \in Int
        BY <1>4, <3>1, <4>2, RankInRange
      <4>5. ~(q < Nth(F, n - 1))
        BY <1>4, <3>1, <4>3, <4>4
      <4> QED
        BY <1>2, <3>3, <4>4, <4>5
    <3> QED
      BY <3>2, <3>3
  <2> QED
    BY <2>1 DEF FreePages, EmptyPages
<1> QED
  BY <1>1, <1>2, <1>3, <1>7, <1>8, <1>9, CountedMeans

(* The victim is counted afresh.                                            *)
LEMMA CountedVictim ==
  ASSUME NEW victim \in BlockState, NEW copy \in BlockState, CanErase(victim)
  PROVE  Counted(VictimAfter(victim, copy))
<1> DEFINE new == VictimAfter(victim, copy)
           V == ValidPages(victim)
           n == NumCopied(victim, copy)
           k == NumKept(victim, copy)
<1>1. new \in BlockState
  BY VictimType
<1>2. /\ \A q \in PageNo : new.data[q] = IF q < k THEN victim.data[Nth(V, n + q)] ELSE EMPTY
      /\ new.pages_valid = k /\ new.pages_invalid = 0 /\ new.min_seek_empty = k
  BY DEF VictimAfter
<1>3. n \in Nat /\ k \in 0 .. BLOCK_SIZE /\ Cardinality(V) = n + k
  BY NumCopiedRange
<1>4. ASSUME NEW q \in PageNo, q < k
      PROVE  new.data[q] \in LPN
  <2>1. n + q \in 0 .. Cardinality(V) - 1
    BY <1>3, <1>4, BlockAssumption DEF PageNo
  <2>2. Nth(V, n + q) \in V
    BY <2>1, Positions
  <2> QED
    BY <1>2, <1>4, <2>2 DEF ValidPages
<1>5. InvalidPages(new) = {}
  BY <1>2, <1>4, BlockAssumption DEF InvalidPages
<1>6. new.pages_valid = Cardinality(ValidPages(new))
  <2>1. ValidPages(new) = PagesHolding(new, LPN) /\ V = PagesHolding(victim, LPN)
    BY DEF ValidPages, PagesHolding
  <2>2. Cardinality(PagesHolding(new, LPN)) =
          Cardinality(PagesHolding(victim, LPN)) - Cardinality(CopiedHolding(victim, copy, LPN))
    BY VictimHolding
  <2>3. Cardinality(CopiedHolding(victim, copy, LPN)) = n
    BY CopiedCount
  <2> HIDE DEF new, n, k, V
  <2> QED
    BY <1>2, <1>3, <2>1, <2>2, <2>3, BlockAssumption
<1>7. FreePages(new) = EmptyPages(new)
  <2>1. ASSUME NEW q \in EmptyPages(new)
        PROVE  q >= new.min_seek_empty
    <3>1. q \in PageNo /\ ~(q < k)
      BY <1>4, BlockAssumption DEF EmptyPages
    <3> QED
      BY <1>2, <1>3, <3>1, BlockAssumption DEF PageNo
  <2> QED
    BY <2>1 DEF FreePages, EmptyPages
<1> QED
  BY <1>1, <1>2, <1>5, <1>6, <1>7, FS_EmptySet, CountedMeans

(* The pages initialize() puts in a block are those of its lpns, at the      *)
(* front of the block.                                                      *)
LEMMA PlacedHolding ==
  ASSUME NEW place, Fits(place), NEW b \in Block,
         NEW T \in SUBSET LPN
  PROVE  Cardinality(PagesHolding(PlacedBlock(place, b), T)) =
           Cardinality({l \in T : place[l] = b})
<1> DEFINE blk == PlacedBlock(place, b)
           here == {l \in LPN : place[l] = b}
           A == {l \in T : place[l] = b}
           B == PagesHolding(blk, T)
           f == [l \in A |-> Rank(here, l)]
<1>1. /\ \A p \in PageNo : blk.data[p] = IF p < Cardinality(here) THEN Nth(here, p) ELSE EMPTY
      /\ \A p \in PageNo : p < Cardinality(here) =>
           Nth(here, p) \in here /\ Rank(here, Nth(here, p)) = p
      /\ \A l \in here : /\ Rank(here, l) \in PageNo
                         /\ Rank(here, l) < Cardinality(here)
                         /\ Nth(here, Rank(here, l)) = l
  BY PlacedBlockFacts
<1>2. A \subseteq here /\ IsFiniteSet(A)
  <2>1. A \in SUBSET here
    OBVIOUS
  <2>2. IsFiniteSet(here)
    BY Placed
  <2> HIDE DEF A, here
  <2>3. IsFiniteSet(A)
    BY <2>1, <2>2, FS_Subset
  <2> QED
    BY <2>1, <2>3
<1>3. \A l \in here : l \in A <=> l \in T
  OBVIOUS
<1>4. EMPTY \notin T
  BY BlockAssumption
<1> HIDE DEF blk, here, A
<1>5. ASSUME NEW l \in A
      PROVE  f[l] \in B
  BY <1>1, <1>2, <1>3 DEF PagesHolding
<1>6. ASSUME NEW p \in B
      PROVE  \E l \in A : f[l] = p
  <2>1. p \in PageNo /\ blk.data[p] \in T /\ p < Cardinality(here)
    BY <1>1, <1>4 DEF PagesHolding
  <2>2. Nth(here, p) \in A
    BY <1>1, <1>3, <2>1
  <2> QED
    BY <1>1, <2>1, <2>2
<1>7. \A k, l \in A : f[k] = f[l] => k = l
  BY <1>1, <1>2
<1>8. f \in Bijection(A, B)
  BY <1>5, <1>6, <1>7 DEF Bijection, Injection, IsInjective, Surjection
<1>9. Cardinality(B) = Cardinality(A)
  BY <1>2, <1>8, FS_Bijection DEF ExistsBijection
<1> QED
  BY <1>9 DEF blk, A

LEMMA CountedPlaced ==
  ASSUME NEW place, Fits(place), NEW b \in Block
  PROVE  Counted(PlacedFlash(place)[b])
<1> DEFINE blk == PlacedBlock(place, b)
           here == {l \in LPN : place[l] = b}
           n == Cardinality(here)
<1>1. /\ blk \in BlockState
      /\ \A p \in PageNo : blk.data[p] = IF p < n THEN Nth(here, p) ELSE EMPTY
      /\ \A p \in PageNo : p < n => Nth(here, p) \in LPN
  BY PlacedBlockFacts
<1>2. n \in 0 .. BLOCK_SIZE
  BY Placed
<1>3. /\ blk.pages_valid = n /\ blk.pages_invalid = 0
      /\ blk.min_seek_empty = IF n = 0 THEN 0 ELSE n - 1
  BY DEF PlacedBlock, NewBlock
<1>4. ValidPages(blk) = PagesHolding(blk, LPN)
  BY DEF ValidPages, PagesHolding
<1>5. Cardinality(ValidPages(blk)) = n
  BY <1>4, PlacedHolding
<1> HIDE DEF blk, n
<1>6. InvalidPages(blk) = {}
  BY <1>1, BlockAssumption DEF InvalidPages
<1>7. FreePages(blk) = EmptyPages(blk)
  <2>1. ASSUME NEW q \in EmptyPages(blk)
        PROVE  q >= blk.min_seek_empty
    <3>1. q \in PageNo /\ ~(q < n)
      BY <1>1, BlockAssumption DEF EmptyPages
    <3> QED
      BY <1>2, <1>3, <3>1, BlockAssumption DEF PageNo
  <2> QED
    BY <2>1 DEF FreePages, EmptyPages
<1>8. Counted(blk)
  BY <1>1, <1>3, <1>5, <1>6, <1>7, FS_EmptySet, CountedMeans
<1> QED
  BY <1>8 DEF PlacedFlash, blk

(* Each step of a write keeps every block of the plane counted.             *)
LEMMA PlaneCounted ==
  ASSUME NEW flash \in [Block -> BlockState], \A b \in Block : Counted(flash[b]),
         NEW c \in Block, NEW blk, Counted(blk)
  PROVE  \A b \in Block : Counted([flash EXCEPT ![c] = blk][b])
OBVIOUS

LEMMA CollectCounted ==
  ASSUME NEW flash \in [Block -> BlockState], \A b \in Block : Counted(flash[b]),
         NEW v \in Block, NEW w \in Block, v # w, CanErase(flash[v])
  PROVE  \A b \in Block :
           Counted([flash EXCEPT ![v] = VictimAfter(flash[v], flash[w]),
                                 ![w] = CopyBlockAfter(flash[v], flash[w])][b])
<1>1. /\ Counted(VictimAfter(flash[v], flash[w]))
      /\ Counted(CopyBlockAfter(flash[v], flash[w]))
  BY CountedVictim, CountedCopy
<1> QED
  BY <1>1

-----------------------------------------------------------------------------
(* The page loop of _erase_and_copy (module EraseAndCopy).  After n turns it *)
(* has done what the whole call does to Upto(victim, n), the victim without  *)
(* the pages still to be seen; what remains is what one page more changes.   *)

(* A page behind all others of a set comes last, and moves none.             *)
LEMMA RankAdded ==
  ASSUME NEW S, IsFiniteSet(S), S \subseteq Int, NEW i \in Int, \A p \in S : p < i
  PROVE  LET T == S \cup {i}
         IN  /\ IsFiniteSet(T) /\ T \subseteq Int
             /\ Cardinality(S) \in Nat /\ Cardinality(T) = Cardinality(S) + 1
             /\ Rank(T, i) = Cardinality(S) /\ Nth(T, Cardinality(S)) = i
             /\ \A p \in S : Rank(T, p) = Rank(S, p)
             /\ \A r \in 0 .. Cardinality(S) - 1 : Nth(S, r) \in S /\ Nth(T, r) = Nth(S, r)
<1> DEFINE T == S \cup {i}
<1>1. T \subseteq Int /\ i \notin S
  OBVIOUS
<1>2. IsFiniteSet(T) /\ Cardinality(T) = Cardinality(S) + 1 /\ Cardinality(S) \in Nat
  BY <1>1, FS_AddElement, FS_CardinalityType
<1>3. {q \in T : q < i} = S
  <2>1. ~(i < i)
    OBVIOUS
  <2> QED
    BY <2>1
<1>4. Rank(T, i) = Cardinality(S)
  BY <1>3 DEF Rank
<1>5. ASSUME NEW p \in S
      PROVE  Rank(T, p) = Rank(S, p)
  <2>1. p \in Int /\ p < i
    OBVIOUS
  <2>2. {q \in T : q < p} = {q \in S : q < p}
    BY <2>1
  <2> QED
    BY <2>2 DEF Rank
<1>6. \A p \in T : Nth(T, Rank(T, p)) = p
  BY <1>1, <1>2, NthOfRank
<1>7. \A r \in 0 .. Cardinality(S) - 1 : Nth(S, r) \in S /\ Rank(S, Nth(S, r)) = r
  BY NthOfRank
<1>8. \A r \in 0 .. Cardinality(S) - 1 : Nth(T, r) = Nth(S, r)
  BY <1>5, <1>6, <1>7
<1>9. i \in T
  OBVIOUS
<1> HIDE DEF T
<1>10. Nth(T, Cardinality(S)) = i
  BY <1>4, <1>6, <1>9
<1> QED
  BY <1>1, <1>2, <1>4, <1>5, <1>7, <1>8, <1>10 DEF T

(* The part of the victim that the loop has seen.                           *)
LEMMA UptoFacts ==
  ASSUME NEW victim \in BlockState, NEW n \in Nat
  PROVE  /\ Upto(victim, n) \in BlockState
         /\ \A p \in PageNo :
              Upto(victim, n).data[p] = IF p < n THEN victim.data[p] ELSE EMPTY
         /\ Upto(victim, n).erases_remaining = victim.erases_remaining
         /\ ValidPages(Upto(victim, n)) = {p \in ValidPages(victim) : p < n}
         /\ n >= BLOCK_SIZE => Upto(victim, n) = victim
<1> DEFINE d == [p \in PageNo |-> IF p < n THEN victim.data[p] ELSE EMPTY]
<1>1. d \in PageData /\ victim.data \in PageData
  BY DEF BlockState, PageData
<1>2. Upto(victim, n) = [victim EXCEPT !.data = d]
  BY DEF Upto
<1>3. \A p \in PageNo : d[p] = IF p < n THEN victim.data[p] ELSE EMPTY
  OBVIOUS
<1>4. n >= BLOCK_SIZE => d = victim.data
  BY <1>1, BlockAssumption DEF PageNo, PageData
<1> HIDE DEF d
<1>5. /\ Upto(victim, n) \in BlockState /\ Upto(victim, n).data = d
      /\ Upto(victim, n).erases_remaining = victim.erases_remaining
  BY <1>1, <1>2 DEF BlockState
<1>6. n >= BLOCK_SIZE => Upto(victim, n) = victim
  BY <1>2, <1>4 DEF BlockState
<1>7. ValidPages(Upto(victim, n)) = {p \in ValidPages(victim) : p < n}
  BY <1>3, <1>5, BlockAssumption DEF ValidPages
<1> QED
  BY <1>3, <1>5, <1>6, <1>7

(* What is left in the copy block for the next page.                         *)
LEMMA FilledFree ==
  ASSUME NEW victim \in BlockState, NEW copy \in BlockState
  PROVE  LET new == CopyBlockAfter(victim, copy)
             F   == FreePages(copy)
             n   == NumCopied(victim, copy)
         IN  /\ HasNextPage(new) <=> n < Cardinality(F)
             /\ n < Cardinality(F) => NextPage(new) = Nth(F, n)
<1> DEFINE new == CopyBlockAfter(victim, copy)
           F   == FreePages(copy)
           V   == ValidPages(victim)
           n   == NumCopied(victim, copy)
           d   == [q \in PageNo |-> IF q \in F /\ Rank(F, q) < n
                                      THEN victim.data[Nth(V, Rank(F, q))]
                                      ELSE copy.data[q]]
           s   == IF n = 0 THEN copy.min_seek_empty ELSE Nth(F, n - 1)
<1>1. /\ F \in SUBSET PageNo /\ V \in SUBSET PageNo
      /\ IsFiniteSet(F) /\ F \subseteq Int /\ Cardinality(F) \in 0 .. BLOCK_SIZE
      /\ Cardinality(V) \in 0 .. BLOCK_SIZE
  <2>1. F \in SUBSET PageNo /\ V \in SUBSET PageNo
    BY DEF FreePages, ValidPages
  <2> QED
    BY <2>1, PageSets
<1>2. n \in Nat /\ n <= Cardinality(V) /\ n <= Cardinality(F)
  BY NumCopiedRange
<1>3. new = [copy EXCEPT !.data = d, !.pages_valid = @ + n, !.min_seek_empty = s]
  BY DEF CopyBlockAfter
<1>4. \A q \in PageNo : d[q] = IF q \in F /\ Rank(F, q) < n
                                 THEN victim.data[Nth(V, Rank(F, q))] ELSE copy.data[q]
  OBVIOUS
<1> HIDE DEF d, s
<1>5. new.data = d /\ new.min_seek_empty = s
  BY <1>3 DEF BlockState
<1>6. \A q \in F : /\ q \in PageNo /\ q >= copy.min_seek_empty /\ copy.data[q] = EMPTY
                   /\ Rank(F, q) \in Nat
  BY <1>1, RankInRange DEF FreePages
<1>7. ASSUME NEW q \in F, Rank(F, q) < n
      PROVE  new.data[q] # EMPTY
  <2>1. Rank(F, q) \in 0 .. Cardinality(V) - 1
    BY <1>1, <1>2, <1>6, <1>7
  <2>2. Nth(V, Rank(F, q)) \in V
    BY <2>1, Positions
  <2>3. victim.data[Nth(V, Rank(F, q))] \in LPN
    BY <2>2 DEF ValidPages
  <2> QED
    BY <1>4, <1>5, <1>6, <1>7, <2>3, BlockAssumption
<1>8. ASSUME NEW q \in F, Rank(F, q) >= n
      PROVE  q >= s
  <2>1. CASE n = 0
    BY <1>6, <2>1 DEF s
  <2>2. CASE n # 0
    <3>1. n - 1 \in 0 .. Cardinality(F) - 1
      BY <1>1, <1>2, <2>2
    <3>2. Nth(F, n - 1) \in F /\ Rank(F, Nth(F, n - 1)) = n - 1
      BY <3>1, Positions
    <3>3. q < Nth(F, n - 1) => Rank(F, q) < n - 1
      BY <1>1, <3>2, RankMonotone
    <3>4. q \in Int /\ Nth(F, n - 1) \in Int
      BY <1>1, <3>2
    <3> QED
      BY <1>2, <1>6, <1>8, <2>2, <3>3, <3>4 DEF s
  <2> QED
    BY <2>1, <2>2
<1>9. ASSUME NEW q \in PageNo, q \notin F, q >= s
      PROVE  new.data[q] # EMPTY
  <2>1. s \in Int /\ s >= copy.min_seek_empty
    <3>1. CASE n = 0
      BY <3>1 DEF s, BlockState
    <3>2. CASE n # 0
      <4>1. n - 1 \in 0 .. Cardinality(F) - 1
        BY <1>1, <1>2, <3>2
      <4>2. Nth(F, n - 1) \in F
        BY <4>1, Positions
      <4> QED
        BY <1>1, <1>6, <3>2, <4>2 DEF s
    <3> QED
      BY <3>1, <3>2
  <2>2. q >= copy.min_seek_empty
    BY <1>9, <2>1, BlockAssumption DEF PageNo, BlockState
  <2>3. copy.data[q] # EMPTY
    BY <1>9, <2>2 DEF FreePages
  <2> QED
    BY <1>4, <1>5, <1>9, <2>3
<1>10. FreePages(new) = {q \in F : Rank(F, q) >= n}
  <2>1. ASSUME NEW q \in PageNo
        PROVE  (q >= new.min_seek_empty /\ new.data[q] = EMPTY)
                 <=> (q \in F /\ Rank(F, q) >= n)
    <3>1. CASE q \in F /\ Rank(F, q) < n
      BY <1>2, <1>6, <1>7, <3>1
    <3>2. CASE q \in F /\ Rank(F, q) >= n
      <4>1. new.data[q] = EMPTY
        BY <1>2, <1>4, <1>5, <1>6, <3>2
      <4> QED
        BY <1>5, <1>8, <3>2, <4>1
    <3>3. CASE q \notin F
      BY <1>5, <1>9, <3>3
    <3> QED
      BY <1>2, <1>6, <3>1, <3>2, <3>3
  <2> QED
    BY <1>1, <2>1 DEF FreePages
<1>11. ASSUME n < Cardinality(F)
       PROVE  Nth(F, n) \in FreePages(new) /\ NextPage(new) = Nth(F, n)
  <2>1. n \in 0 .. Cardinality(F) - 1
    BY <1>1, <1>2, <1>11
  <2>2. Nth(F, n) \in F /\ Rank(F, Nth(F, n)) = n
    BY <2>1, Positions
  <2>3. Nth(F, n) \in FreePages(new)
    BY <1>2, <1>10, <2>2
  <2>4. ASSUME NEW q \in FreePages(new)
        PROVE  Nth(F, n) <= q
    <3>1. q \in F /\ Rank(F, q) >= n
      BY <1>10
    <3>2. q < Nth(F, n) => Rank(F, q) < n
      BY <1>1, <2>2, <3>1, RankMonotone
    <3>3. q \in Int /\ Nth(F, n) \in Int
      BY <1>1, <2>2, <3>1
    <3> QED
      BY <1>2, <1>6, <3>1, <3>2, <3>3
  <2>5. HasNextPage(new)
    BY <2>3 DEF HasNextPage
  <2>6. /\ NextPage(new) \in FreePages(new)
        /\ \A q \in FreePages(new) : NextPage(new) <= q
    BY <2>3, <2>4 DEF NextPage
  <2>7. NextPage(new) <= Nth(F, n) /\ Nth(F, n) <= NextPage(new)
    BY <2>3, <2>4, <2>6
  <2>8. NextPage(new) \in Int /\ Nth(F, n) \in Int
    BY <1>1, <1>10, <2>2, <2>6
  <2> QED
    BY <2>3, <2>7, <2>8
<1>12. n >= Cardinality(F) => FreePages(new) = {}
  <2>1. \A q \in F : Rank(F, q) \in 0 .. Cardinality(F) - 1
    BY Positions
  <2> QED
    BY <1>1, <1>2, <1>10, <2>1
<1> HIDE DEF new, F, n
<1>13. HasNextPage(new) <=> n < Cardinality(F)
  BY <1>1, <1>2, <1>11, <1>12 DEF HasNextPage
<1> QED
  BY <1>11, <1>13 DEF new, F, n

(* What one more page of the victim changes: nothing, if it is not VALID;     *)
LEMMA PageCleared ==
  ASSUME NEW victim \in BlockState, NEW copy \in BlockState, NEW i \in PageNo,
         victim.data[i] \notin LPN
  PROVE  LET seen == Upto(victim, i)
             more == Upto(victim, i + 1)
         IN  /\ ValidPages(more) = ValidPages(seen)
             /\ CopyBlockAfter(more, copy) = CopyBlockAfter(seen, copy)
             /\ VictimAfter(more, copy) = VictimAfter(seen, copy)
             /\ \A p \in ValidPages(seen) :
                  /\ IsCopied(more, copy, p) <=> IsCopied(seen, copy, p)
                  /\ NewPageOf(more, copy, p) = NewPageOf(seen, copy, p)
<1> DEFINE seen == Upto(victim, i)
           more == Upto(victim, i + 1)
           V == ValidPages(seen)
           F == FreePages(copy)
           n == NumCopied(seen, copy)
<1>1. i \in Nat /\ i + 1 \in Nat
  BY BlockAssumption DEF PageNo
<1>2. /\ \A p \in PageNo : seen.data[p] = IF p < i THEN victim.data[p] ELSE EMPTY
      /\ V = {p \in ValidPages(victim) : p < i}
      /\ seen.erases_remaining = victim.erases_remaining
  BY <1>1, UptoFacts
<1>3. /\ \A p \in PageNo : more.data[p] = IF p < i + 1 THEN victim.data[p] ELSE EMPTY
      /\ ValidPages(more) = {p \in ValidPages(victim) : p < i + 1}
      /\ more.erases_remaining = victim.erases_remaining
  BY <1>1, UptoFacts
<1> HIDE DEF seen, more
<1>4. \A p \in PageNo : p < i + 1 <=> p < i \/ p = i
  BY <1>1, BlockAssumption DEF PageNo
<1>5. ValidPages(more) = V
  BY <1>2, <1>3, <1>4 DEF ValidPages
<1>6. \A p \in V : more.data[p] = seen.data[p]
  BY <1>2, <1>3, <1>4 DEF ValidPages
<1>7. /\ NumCopied(more, copy) = n /\ NumKept(more, copy) = NumKept(seen, copy)
      /\ \A p : IsCopied(more, copy, p) <=> IsCopied(seen, copy, p)
      /\ \A p : NewPageOf(more, copy, p) = NewPageOf(seen, copy, p)
  BY <1>5 DEF NumCopied, NumKept, IsCopied, NewPageOf
<1>8. \A r \in 0 .. Cardinality(V) - 1 : more.data[Nth(V, r)] = seen.data[Nth(V, r)]
  BY <1>6, Positions
<1>9. /\ n \in Nat /\ n <= Cardinality(V) /\ n <= Cardinality(F)
      /\ Cardinality(V) = n + NumKept(seen, copy) /\ NumKept(seen, copy) \in Nat
  BY NumCopiedRange
<1>10. ASSUME NEW q \in PageNo
       PROVE  /\ q \in F /\ Rank(F, q) < n =>
                   more.data[Nth(V, Rank(F, q))] = seen.data[Nth(V, Rank(F, q))]
              /\ q < NumKept(seen, copy) =>
                   more.data[Nth(V, n + q)] = seen.data[Nth(V, n + q)]
  <2>1. q \in F => Rank(F, q) \in Nat
    BY Positions
  <2>2. q \in Nat
    BY BlockAssumption DEF PageNo
  <2>3. q \in F /\ Rank(F, q) < n => Rank(F, q) \in 0 .. Cardinality(V) - 1
    BY <1>9, <2>1
  <2>4. q < NumKept(seen, copy) => n + q \in 0 .. Cardinality(V) - 1
    BY <1>9, <2>2
  <2> QED
    BY <1>8, <2>3, <2>4
<1> HIDE DEF n
<1>11. CopyBlockAfter(more, copy) = CopyBlockAfter(seen, copy)
  <2> DEFINE d(v) == [q \in PageNo |-> IF q \in F /\ Rank(F, q) < n
                                         THEN v.data[Nth(V, Rank(F, q))]
                                         ELSE copy.data[q]]
  <2>1. d(more) = d(seen)
    BY <1>10
  <2>2. /\ CopyBlockAfter(more, copy) =
             [copy EXCEPT !.data = d(more), !.pages_valid = @ + n,
                          !.min_seek_empty = IF n = 0 THEN @ ELSE Nth(F, n - 1)]
        /\ CopyBlockAfter(seen, copy) =
             [copy EXCEPT !.data = d(seen), !.pages_valid = @ + n,
                          !.min_seek_empty = IF n = 0 THEN @ ELSE Nth(F, n - 1)]
    BY <1>5, <1>7 DEF CopyBlockAfter, n
  <2> HIDE DEF d
  <2> QED
    BY <2>1, <2>2
<1>12. VictimAfter(more, copy) = VictimAfter(seen, copy)
  <2> DEFINE k == NumKept(seen, copy)
             d(v) == [q \in PageNo |-> IF q < k THEN v.data[Nth(V, n + q)] ELSE EMPTY]
  <2>1. d(more) = d(seen)
    BY <1>10
  <2>2. WearOne(more) = WearOne(seen)
    BY <1>2, <1>3 DEF WearOne
  <2>3. /\ VictimAfter(more, copy) =
             [data |-> d(more), pages_valid |-> k, pages_invalid |-> 0,
              min_seek_empty |-> k, erases_remaining |-> WearOne(more)]
        /\ VictimAfter(seen, copy) =
             [data |-> d(seen), pages_valid |-> k, pages_invalid |-> 0,
              min_seek_empty |-> k, erases_remaining |-> WearOne(seen)]
    BY <1>5, <1>7 DEF VictimAfter, n
  <2> HIDE DEF d, k
  <2> QED
    BY <2>1, <2>2, <2>3
<1> QED
  BY <1>5, <1>7, <1>11, <1>12 DEF seen, more

(* a VALID page comes last of those seen,                                   *)
LEMMA PageSeen ==
  ASSUME NEW victim \in BlockState, NEW copy \in BlockState, NEW i \in PageNo,
         victim.data[i] \in LPN
  PROVE  LET seen == Upto(victim, i)
             more == Upto(victim, i + 1)
             V    == ValidPages(seen)
             W    == ValidPages(more)
         IN  /\ W = V \cup {i} /\ i \notin V /\ more.data[i] = victim.data[i]
             /\ Cardinality(V) \in Nat /\ Cardinality(W) = Cardinality(V) + 1
             /\ Cardinality(V) <= i
             /\ Rank(W, i) = Cardinality(V) /\ Nth(W, Cardinality(V)) = i
             /\ \A p \in V : Rank(W, p) = Rank(V, p)
             /\ \A r \in 0 .. Cardinality(V) - 1 :
                  Nth(W, r) = Nth(V, r) /\ more.data[Nth(W, r)] = seen.data[Nth(V, r)]
<1> DEFINE seen == Upto(victim, i)
           more == Upto(victim, i + 1)
           V == ValidPages(seen)
           W == ValidPages(more)
<1>1. i \in Nat /\ i + 1 \in Nat
  BY BlockAssumption DEF PageNo
<1>2. /\ \A p \in PageNo : seen.data[p] = IF p < i THEN victim.data[p] ELSE EMPTY
      /\ V = {p \in ValidPages(victim) : p < i}
  BY <1>1, UptoFacts
<1>3. /\ \A p \in PageNo : more.data[p] = IF p < i + 1 THEN victim.data[p] ELSE EMPTY
      /\ W = {p \in ValidPages(victim) : p < i + 1}
  BY <1>1, UptoFacts
<1> HIDE DEF seen, more
<1>4. /\ \A p \in PageNo : p \in Int
      /\ \A p \in PageNo : p < i + 1 <=> p < i \/ p = i
  BY <1>1, BlockAssumption DEF PageNo
<1>5. W = V \cup {i}
  BY <1>2, <1>3, <1>4 DEF ValidPages
<1>6. V \in SUBSET PageNo /\ \A p \in V : p < i /\ more.data[p] = seen.data[p]
  BY <1>2, <1>3, <1>4 DEF ValidPages
<1>7. IsFiniteSet(V) /\ V \subseteq Int
  BY <1>6, PageSets
<1>8. i \notin V /\ i \in Int /\ more.data[i] = victim.data[i]
  BY <1>1, <1>3, <1>6
<1> HIDE DEF V, W
<1>9. /\ Cardinality(V) \in Nat /\ Cardinality(W) = Cardinality(V) + 1
      /\ Rank(W, i) = Cardinality(V) /\ Nth(W, Cardinality(V)) = i
      /\ \A p \in V : Rank(W, p) = Rank(V, p)
      /\ \A r \in 0 .. Cardinality(V) - 1 : Nth(V, r) \in V /\ Nth(W, r) = Nth(V, r)
  BY <1>5, <1>6, <1>7, <1>8, RankAdded
<1>10. Cardinality(V) <= i
  <2>1. V \in SUBSET (0 .. i - 1)
    BY <1>1, <1>6, BlockAssumption DEF PageNo
  <2>2. Cardinality(V) \in 0 .. i
    BY <1>1, <2>1, IntervalSubset
  <2> QED
    BY <2>2
<1> QED
  BY <1>5, <1>6, <1>8, <1>9, <1>10 DEF V, W, seen, more

(* and goes to the next page of the copy block, if there is one,            *)
LEMMA PageCopied ==
  ASSUME NEW victim \in BlockState, NEW copy \in BlockState, NEW i \in PageNo,
         victim.data[i] \in LPN,
         HasNextPage(CopyBlockAfter(Upto(victim, i), copy))
  PROVE  LET seen == Upto(victim, i)
             more == Upto(victim, i + 1)
             done == CopyBlockAfter(seen, copy)
         IN  /\ CopyBlockAfter(more, copy) =
                  WritePage(SeekNextPage(done), NextPage(done), victim.data[i])
             /\ VictimAfter(more, copy) = VictimAfter(seen, copy)
             /\ IsCopied(more, copy, i) /\ NewPageOf(more, copy, i) = NextPage(done)
             /\ \A p \in ValidPages(seen) :
                  /\ IsCopied(more, copy, p) <=> IsCopied(seen, copy, p)
                  /\ NewPageOf(more, copy, p) = NewPageOf(seen, copy, p)
<1> DEFINE seen == Upto(victim, i)
           more == Upto(victim, i + 1)
           V == ValidPages(seen)
           W == ValidPages(more)
           F == FreePages(copy)
           n == NumCopied(seen, copy)
           done == CopyBlockAfter(seen, copy)
<1>0. /\ i \in Nat /\ i + 1 \in Nat
      /\ seen \in BlockState /\ more \in BlockState
      /\ seen.erases_remaining = more.erases_remaining
  <2>1. i \in Nat /\ i + 1 \in Nat
    BY BlockAssumption DEF PageNo
  <2> QED
    BY <2>1, UptoFacts
<1>1. /\ W = V \cup {i} /\ i \notin V /\ more.data[i] = victim.data[i]
      /\ Cardinality(V) \in Nat /\ Cardinality(W) = Cardinality(V) + 1
      /\ Rank(W, i) = Cardinality(V) /\ Nth(W, Cardinality(V)) = i
      /\ \A p \in V : Rank(W, p) = Rank(V, p)
      /\ \A r \in 0 .. Cardinality(V) - 1 :
           Nth(W, r) = Nth(V, r) /\ more.data[Nth(W, r)] = seen.data[Nth(V, r)]
  BY PageSeen
<1>2. n < Cardinality(F) /\ NextPage(done) = Nth(F, n)
  BY <1>0, FilledFree
<1> HIDE DEF seen, more
<1>3. Cardinality(F) \in Nat /\ F \in SUBSET PageNo
  <2>1. F \in SUBSET PageNo
    BY DEF FreePages
  <2> QED
    BY <2>1, PageSets, BlockAssumption
<1>4. n = Cardinality(V) /\ NumCopied(more, copy) = n + 1
      /\ NumKept(seen, copy) = 0 /\ NumKept(more, copy) = 0
  BY <1>1, <1>2, <1>3 DEF NumCopied, NumKept, Lesser
<1>5. \A p \in V : Rank(V, p) \in 0 .. Cardinality(V) - 1
  BY Positions
<1>6. /\ IsCopied(more, copy, i) /\ NewPageOf(more, copy, i) = NextPage(done)
      /\ \A p \in V : /\ IsCopied(more, copy, p) /\ IsCopied(seen, copy, p)
                      /\ NewPageOf(more, copy, p) = NewPageOf(seen, copy, p)
  <2>1. ASSUME NEW v, NEW p, Rank(ValidPages(v), p) < NumCopied(v, copy)
        PROVE  /\ IsCopied(v, copy, p)
               /\ NewPageOf(v, copy, p) = Nth(F, Rank(ValidPages(v), p))
    BY <2>1 DEF IsCopied, NewPageOf
  <2>2. Rank(W, i) = n /\ n < n + 1
    BY <1>1, <1>4
  <2>3. \A p \in V : Rank(V, p) < n /\ Rank(W, p) < n + 1 /\ Rank(W, p) = Rank(V, p)
    <3> HIDE DEF V, W, n
    <3>1. ASSUME NEW p \in V
          PROVE  Rank(V, p) < n /\ Rank(W, p) < n + 1 /\ Rank(W, p) = Rank(V, p)
      <4>1. Rank(V, p) \in 0 .. Cardinality(V) - 1 /\ Rank(W, p) = Rank(V, p)
        BY <1>1, <1>5
      <4> QED
        BY <1>1, <1>4, <4>1
    <3> QED
      BY <3>1
  <2> HIDE DEF F, n, done
  <2>4. IsCopied(more, copy, i) /\ NewPageOf(more, copy, i) = Nth(F, n)
    BY <1>4, <2>1, <2>2
  <2>5. ASSUME NEW p \in V
        PROVE  /\ IsCopied(more, copy, p) /\ IsCopied(seen, copy, p)
               /\ NewPageOf(more, copy, p) = Nth(F, Rank(V, p))
               /\ NewPageOf(seen, copy, p) = Nth(F, Rank(V, p))
    <3>1. IsCopied(more, copy, p) /\ NewPageOf(more, copy, p) = Nth(F, Rank(W, p))
      BY <1>4, <2>1, <2>3
    <3>2. IsCopied(seen, copy, p) /\ NewPageOf(seen, copy, p) = Nth(F, Rank(V, p))
      BY <2>1, <2>3 DEF n
    <3> QED
      BY <2>3, <3>1, <3>2
  <2> QED
    BY <1>2, <2>4, <2>5
<1>7. VictimAfter(more, copy) = VictimAfter(seen, copy)
  <2>1. \A q \in PageNo : ~(q < 0)
    BY BlockAssumption DEF PageNo
  <2>2. WearOne(more) = WearOne(seen)
    BY <1>0 DEF WearOne
  <2>3. ASSUME NEW v, NumKept(v, copy) = 0
        PROVE  VictimAfter(v, copy) =
                 [data |-> [q \in PageNo |-> EMPTY], pages_valid |-> 0, pages_invalid |-> 0,
                  min_seek_empty |-> 0, erases_remaining |-> WearOne(v)]
    BY <2>1, <2>3 DEF VictimAfter
  <2> QED
    BY <1>4, <2>2, <2>3
<1>8. CopyBlockAfter(more, copy) =
        WritePage(SeekNextPage(done), NextPage(done), victim.data[i])
  <2> DEFINE d(v) == [q \in PageNo |-> IF q \in F /\ Rank(F, q) < NumCopied(v, copy)
                                         THEN v.data[Nth(ValidPages(v), Rank(F, q))]
                                         ELSE copy.data[q]]
             x == Nth(F, n)
             s(m) == IF m = 0 THEN copy.min_seek_empty ELSE Nth(F, m - 1)
             c(e, m, y) == [copy EXCEPT !.data = e, !.pages_valid = @ + m,
                                        !.min_seek_empty = y]
  <2> HIDE DEF c, s
  <2>1. x \in F /\ x \in PageNo /\ Rank(F, x) = n
    <3>1. n \in 0 .. Cardinality(F) - 1
      BY <1>1, <1>2, <1>3, <1>4
    <3> QED
      BY <1>3, <3>1, Positions
  <2>2. ASSUME NEW q \in PageNo
        PROVE  d(more)[q] = [d(seen) EXCEPT ![x] = victim.data[i]][q]
    <3>1. q \in F => Rank(F, q) \in Nat
      BY Positions
    <3>2. CASE q = x
      BY <1>1, <1>4, <2>1, <3>2
    <3>3. CASE q # x /\ q \in F
      <4>1. Rank(F, q) # n
        BY <2>1, <3>3, Positions
      <4>2. Rank(F, q) < n + 1 <=> Rank(F, q) < n
        BY <1>1, <1>4, <3>1, <3>3, <4>1
      <4>3. Rank(F, q) < n => Rank(F, q) \in 0 .. Cardinality(V) - 1
        BY <1>1, <1>4, <3>1, <3>3
      <4>4. Rank(F, q) < n => more.data[Nth(W, Rank(F, q))] = seen.data[Nth(V, Rank(F, q))]
        BY <1>1, <4>3
      <4> HIDE DEF V, W, F, n, x
      <4> QED
        BY <1>4, <3>3, <4>2, <4>4 DEF V, W, n
    <3>4. CASE q # x /\ q \notin F
      BY <3>4
    <3> QED
      BY <3>2, <3>3, <3>4
  <2>3. d(more) = [d(seen) EXCEPT ![x] = victim.data[i]]
    BY <2>2
  <2>4. CopyBlockAfter(more, copy) = c(d(more), n + 1, s(n + 1)) /\ done = c(d(seen), n, s(n))
    <3>1. \A v : CopyBlockAfter(v, copy) = c(d(v), NumCopied(v, copy), s(NumCopied(v, copy)))
      BY DEF CopyBlockAfter, c, s
    <3>2. done = CopyBlockAfter(seen, copy) /\ n = NumCopied(seen, copy)
      OBVIOUS
    <3> HIDE DEF d, n, done
    <3> QED
      BY <1>4, <3>1, <3>2
  <2>5. n + 1 # 0 /\ n + 1 - 1 = n /\ n \in Int
    BY <1>1, <1>4
  <2>6. copy.pages_valid + n + 1 = copy.pages_valid + (n + 1)
    BY <2>5 DEF BlockState
  <2> HIDE DEF d, x, n, F
  <2>7. CopyBlockAfter(more, copy) = c(d(more), n + 1, x)
    BY <2>4, <2>5 DEF s, x
  <2>8. SeekNextPage(done) = c(d(seen), n, x)
    <3>1. SeekNextPage(done) = [c(d(seen), n, s(n)) EXCEPT !.min_seek_empty = x]
      BY <1>2, <2>4 DEF SeekNextPage, x, n, F
    <3> HIDE DEF done
    <3> QED
      BY <3>1 DEF c, BlockState
  <2>9. WritePage(SeekNextPage(done), x, victim.data[i]) =
          c([d(seen) EXCEPT ![x] = victim.data[i]], n + 1, x)
    <3> DEFINE sought == SeekNextPage(done)
               e == [d(seen) EXCEPT ![x] = victim.data[i]]
    <3>1. sought.data = d(seen) /\ sought.pages_valid = copy.pages_valid + n
      BY <2>8 DEF c, BlockState
    <3>2. WritePage(sought, x, victim.data[i]) =
            [sought EXCEPT !.data = e, !.pages_valid = copy.pages_valid + (n + 1)]
      BY <2>6, <3>1 DEF WritePage
    <3> HIDE DEF e, sought
    <3>3. sought = c(d(seen), n, x)
      BY <2>8 DEF sought
    <3>4. WritePage(sought, x, victim.data[i]) = c(e, n + 1, x)
      BY <3>2, <3>3 DEF c, BlockState
    <3> QED
      BY <3>4 DEF e, sought
  <2> QED
    BY <1>2, <2>3, <2>7, <2>9 DEF x, n, F
<1> QED
  BY <1>6, <1>7, <1>8 DEF seen, more

(* or else to the next page of the victim, which it has seen before.        *)
LEMMA PageCompacted ==
  ASSUME NEW victim \in BlockState, NEW copy \in BlockState, NEW i \in PageNo,
         victim.data[i] \in LPN,
         ~HasNextPage(CopyBlockAfter(Upto(victim, i), copy))
  PROVE  LET seen == Upto(victim, i)
             more == Upto(victim, i + 1)
             k    == NumKept(seen, copy)
         IN  /\ CopyBlockAfter(more, copy) = CopyBlockAfter(seen, copy)
             /\ k \in Nat /\ k <= i /\ NumKept(more, copy) = k + 1
             /\ \A q \in PageNo :
                  VictimAfter(more, copy).data[q] =
                    IF q = k THEN victim.data[i] ELSE VictimAfter(seen, copy).data[q]
             /\ ~IsCopied(more, copy, i) /\ NewPageOf(more, copy, i) = k
             /\ \A p \in ValidPages(seen) :
                  /\ IsCopied(more, copy, p) <=> IsCopied(seen, copy, p)
                  /\ NewPageOf(more, copy, p) = NewPageOf(seen, copy, p)
<1> DEFINE seen == Upto(victim, i)
           more == Upto(victim, i + 1)
           V == ValidPages(seen)
           W == ValidPages(more)
           F == FreePages(copy)
           n == NumCopied(seen, copy)
           k == NumKept(seen, copy)
           done == CopyBlockAfter(seen, copy)
<1>0. i \in Nat /\ seen \in BlockState
  <2>1. i \in Nat
    BY BlockAssumption DEF PageNo
  <2> QED
    BY <2>1, UptoFacts
<1>1. /\ W = V \cup {i} /\ i \notin V /\ more.data[i] = victim.data[i]
      /\ Cardinality(V) \in Nat /\ Cardinality(W) = Cardinality(V) + 1
      /\ Cardinality(V) <= i
      /\ Rank(W, i) = Cardinality(V) /\ Nth(W, Cardinality(V)) = i
      /\ \A p \in V : Rank(W, p) = Rank(V, p)
      /\ \A r \in 0 .. Cardinality(V) - 1 :
           Nth(W, r) = Nth(V, r) /\ more.data[Nth(W, r)] = seen.data[Nth(V, r)]
  BY PageSeen
<1>2. ~(n < Cardinality(F))
  BY <1>0, FilledFree
<1> HIDE DEF seen, more
<1>3. Cardinality(F) \in Nat /\ F \in SUBSET PageNo
  <2>1. F \in SUBSET PageNo
    BY DEF FreePages
  <2> QED
    BY <2>1, PageSets, BlockAssumption
<1>4. /\ n = Cardinality(F) /\ NumCopied(more, copy) = n /\ n \in Nat
      /\ k = Cardinality(V) - n /\ NumKept(more, copy) = k + 1 /\ k \in Nat /\ k <= i
  BY <1>0, <1>1, <1>2, <1>3 DEF NumCopied, NumKept, Lesser
<1>5. \A p \in V : Rank(V, p) \in 0 .. Cardinality(V) - 1
  BY Positions
<1>6. /\ ~IsCopied(more, copy, i) /\ NewPageOf(more, copy, i) = k
      /\ \A p \in V : /\ IsCopied(more, copy, p) <=> IsCopied(seen, copy, p)
                      /\ NewPageOf(more, copy, p) = NewPageOf(seen, copy, p)
  <2>1. ~(Rank(W, i) < n) /\ Rank(W, i) - n = k
    BY <1>1, <1>4
  <2> HIDE DEF F, n, k, done
  <2>2. ~IsCopied(more, copy, i) /\ NewPageOf(more, copy, i) = k
    BY <1>4, <2>1 DEF IsCopied, NewPageOf
  <2>3. ASSUME NEW p \in V
        PROVE  /\ IsCopied(more, copy, p) <=> IsCopied(seen, copy, p)
               /\ NewPageOf(more, copy, p) = NewPageOf(seen, copy, p)
    <3>1. Rank(W, p) = Rank(V, p) /\ NumCopied(more, copy) = NumCopied(seen, copy)
      BY <1>1, <1>4 DEF n
    <3> QED
      BY <3>1 DEF IsCopied, NewPageOf
  <2> QED
    BY <2>2, <2>3
<1>7. CopyBlockAfter(more, copy) = CopyBlockAfter(seen, copy)
  <2> DEFINE d(v) == [q \in PageNo |-> IF q \in F /\ Rank(F, q) < n
                                         THEN v.data[Nth(ValidPages(v), Rank(F, q))]
                                         ELSE copy.data[q]]
             c(e, m) == [copy EXCEPT !.data = e, !.pages_valid = @ + m,
                           !.min_seek_empty = IF m = 0 THEN @ ELSE Nth(F, m - 1)]
  <2> HIDE DEF c
  <2>1. ASSUME NEW v, NumCopied(v, copy) = n
        PROVE  CopyBlockAfter(v, copy) = c(d(v), n)
    BY <2>1 DEF CopyBlockAfter, c
  <2>2. ASSUME NEW q \in PageNo, q \in F, Rank(F, q) < n
        PROVE  more.data[Nth(W, Rank(F, q))] = seen.data[Nth(V, Rank(F, q))]
    <3>1. Rank(F, q) \in 0 .. Cardinality(F) - 1
      BY <2>2, Positions
    <3>2. n <= Cardinality(V)
      BY <1>1, <1>4
    <3>3. Rank(F, q) \in 0 .. Cardinality(V) - 1
      BY <1>1, <1>3, <1>4, <2>2, <3>1, <3>2
    <3> QED
      BY <1>1, <3>3
  <2>3. d(more) = d(seen)
    <3> HIDE DEF F, n
    <3> QED
      BY <2>2
  <2>4. n = NumCopied(seen, copy)
    OBVIOUS
  <2> HIDE DEF d, n
  <2> QED
    BY <1>4, <2>1, <2>3, <2>4
<1>8. ASSUME NEW q \in PageNo
      PROVE  VictimAfter(more, copy).data[q] =
               IF q = k THEN victim.data[i] ELSE VictimAfter(seen, copy).data[q]
  <2>1. ASSUME NEW v
        PROVE  VictimAfter(v, copy).data[q] =
                 IF q < NumKept(v, copy)
                   THEN v.data[Nth(ValidPages(v), NumCopied(v, copy) + q)] ELSE EMPTY
    BY DEF VictimAfter
  <2>2. q \in Nat
    BY BlockAssumption DEF PageNo
  <2>3. /\ VictimAfter(seen, copy).data[q] = IF q < k THEN seen.data[Nth(V, n + q)] ELSE EMPTY
        /\ VictimAfter(more, copy).data[q] =
             IF q < k + 1 THEN more.data[Nth(W, n + q)] ELSE EMPTY
    <3> HIDE DEF V, W
    <3>1. NumCopied(more, copy) = n /\ NumKept(more, copy) = k + 1
      BY <1>4
    <3>2. NumCopied(seen, copy) = n /\ NumKept(seen, copy) = k
      OBVIOUS
    <3> HIDE DEF n, k
    <3>3. VictimAfter(seen, copy).data[q] = IF q < k THEN seen.data[Nth(V, n + q)] ELSE EMPTY
      BY <2>1, <3>2 DEF V
    <3>4. VictimAfter(more, copy).data[q] =
             IF q < k + 1 THEN more.data[Nth(W, n + q)] ELSE EMPTY
      BY <2>1, <3>1 DEF W
    <3> QED
      BY <3>3, <3>4
  <2> HIDE DEF V, W, n, k, F
  <2>4. CASE q < k
    <3>1. n + q \in 0 .. Cardinality(V) - 1 /\ q # k /\ q < k + 1
      BY <1>1, <1>4, <2>2, <2>4
    <3>2. more.data[Nth(W, n + q)] = seen.data[Nth(V, n + q)]
      BY <1>1, <3>1
    <3> QED
      BY <2>3, <2>4, <3>1, <3>2
  <2>5. CASE q = k
    <3>1. n + q = Cardinality(V) /\ q < k + 1
      BY <1>1, <1>4, <2>2, <2>5
    <3> QED
      BY <1>1, <2>3, <2>5, <3>1
  <2>6. CASE q > k
    <3>1. ~(q < k) /\ ~(q < k + 1) /\ q # k
      BY <1>4, <2>2, <2>6
    <3> QED
      BY <2>3, <3>1
  <2> QED
    BY <1>4, <2>2, <2>4, <2>5, <2>6
<1> QED
  BY <1>4, <1>6, <1>7, <1>8 DEF seen, more, k

(* The victim in the middle of the loop, field by field;                    *)
LEMMA HalfFacts ==
  ASSUME NEW victim \in BlockState, NEW copy \in BlockState, NEW n \in 0 .. BLOCK_SIZE
  PROVE  LET half == HalfErased(victim, copy, n)
             done == VictimAfter(Upto(victim, n), copy)
             k    == NumKept(Upto(victim, n), copy)
         IN  /\ half = [data             |-> half.data,
                        pages_valid      |-> k,
                        pages_invalid    |-> 0,
                        min_seek_empty   |-> k,
                        erases_remaining |-> victim.erases_remaining]
             /\ half.data = [q \in PageNo |-> IF q < n THEN done.data[q] ELSE victim.data[q]]
             /\ k \in Nat /\ k <= n
             /\ \A q \in PageNo : q >= k => done.data[q] = EMPTY
             /\ CanErase(victim) => half \in BlockState
<1> DEFINE half == HalfErased(victim, copy, n)
           seen == Upto(victim, n)
           done == VictimAfter(seen, copy)
           k    == NumKept(seen, copy)
           d    == [q \in PageNo |-> IF q < n THEN done.data[q] ELSE victim.data[q]]
<1>1. n \in Nat
  BY BlockAssumption
<1>2. /\ seen \in BlockState /\ seen.erases_remaining = victim.erases_remaining
      /\ ValidPages(seen) = {p \in ValidPages(victim) : p < n}
  BY <1>1, UptoFacts
<1>3. done = [data |-> done.data, pages_valid |-> k, pages_invalid |-> 0,
              min_seek_empty |-> k, erases_remaining |-> WearOne(seen)]
  BY DEF VictimAfter
<1>4. half = [done EXCEPT !.data = d, !.erases_remaining = victim.erases_remaining]
  BY DEF HalfErased
<1>5. k \in 0 .. BLOCK_SIZE /\ k <= Cardinality(ValidPages(seen))
  BY NumCopiedRange
<1>6. Cardinality(ValidPages(seen)) \in 0 .. n
  <2>1. ValidPages(seen) \in SUBSET (0 .. n - 1)
    BY <1>1, <1>2, BlockAssumption DEF ValidPages, PageNo
  <2> QED
    BY <1>1, <2>1, IntervalSubset
<1>7. k \in Nat /\ k <= n
  BY <1>1, <1>5, <1>6
<1>8. ASSUME NEW q \in PageNo, q >= k
      PROVE  done.data[q] = EMPTY
  <2>1. ~(q < k)
    BY <1>7, <1>8, BlockAssumption DEF PageNo
  <2> QED
    BY <2>1 DEF VictimAfter
<1>9. ASSUME CanErase(victim)
      PROVE  done \in BlockState
  <2> HIDE DEF seen
  <2> QED
    BY <1>2, <1>9, VictimType DEF CanErase
<1> HIDE DEF seen, done, k, d
<1>10. half = [data |-> d, pages_valid |-> k, pages_invalid |-> 0,
               min_seek_empty |-> k, erases_remaining |-> victim.erases_remaining]
  <2> DEFINE g  == done.data
             w  == WearOne(seen)
             h1 == [done EXCEPT !.data = d]
  <2>1. done = [data |-> g, pages_valid |-> k, pages_invalid |-> 0,
                min_seek_empty |-> k, erases_remaining |-> w]
    BY <1>3
  <2> HIDE DEF g, w, h1
  <2>2. h1 = [data |-> d, pages_valid |-> k, pages_invalid |-> 0,
              min_seek_empty |-> k, erases_remaining |-> w]
    BY <2>1 DEF h1
  <2>3. half = [h1 EXCEPT !.erases_remaining = victim.erases_remaining]
    BY <1>4 DEF h1
  <2> QED
    BY <2>2, <2>3
<1>11. half.data = d
  BY <1>10
<1>12. ASSUME CanErase(victim)
       PROVE  half \in BlockState
  <2>1. done.data \in PageData /\ victim.data \in PageData
    BY <1>9, <1>12 DEF BlockState
  <2>2. d \in PageData
    <3>1. \A q \in PageNo : /\ done.data[q] \in LPN \cup {EMPTY, INVALID}
                            /\ victim.data[q] \in LPN \cup {EMPTY, INVALID}
      BY <2>1 DEF PageData
    <3> QED
      BY <3>1 DEF PageData, d
  <2> QED
    BY <1>5, <1>10, <2>2 DEF BlockState
<1> QED
  BY <1>7, <1>8, <1>10, <1>11, <1>12 DEF seen, done, k, d

(* the next page leaves it, if the part already compacted stays as it is,   *)
LEMMA HalfMoved ==
  ASSUME NEW victim \in BlockState, NEW copy \in BlockState, NEW i \in PageNo,
         VictimAfter(Upto(victim, i + 1), copy) = VictimAfter(Upto(victim, i), copy)
  PROVE  HalfErased(victim, copy, i + 1) =
           [HalfErased(victim, copy, i) EXCEPT !.data[i] = EMPTY]
<1> DEFINE half == HalfErased(victim, copy, i)
           next == HalfErased(victim, copy, i + 1)
           done == VictimAfter(Upto(victim, i), copy)
           k    == NumKept(Upto(victim, i), copy)
<1>1. i \in 0 .. BLOCK_SIZE /\ i + 1 \in 0 .. BLOCK_SIZE /\ i \in Nat
  BY BlockAssumption DEF PageNo
<1>2. NumKept(Upto(victim, i + 1), copy) = k
  <2>1. \A v : VictimAfter(v, copy).pages_valid = NumKept(v, copy)
    BY DEF VictimAfter
  <2> QED
    BY <2>1
<1>3. /\ half = [data |-> half.data, pages_valid |-> k, pages_invalid |-> 0,
                 min_seek_empty |-> k, erases_remaining |-> victim.erases_remaining]
      /\ half.data = [q \in PageNo |-> IF q < i THEN done.data[q] ELSE victim.data[q]]
      /\ k \in Nat /\ k <= i
      /\ \A q \in PageNo : q >= k => done.data[q] = EMPTY
  BY <1>1, HalfFacts
<1>4. /\ next = [data |-> next.data, pages_valid |-> k, pages_invalid |-> 0,
                 min_seek_empty |-> k, erases_remaining |-> victim.erases_remaining]
      /\ next.data = [q \in PageNo |-> IF q < i + 1 THEN done.data[q] ELSE victim.data[q]]
  BY <1>1, <1>2, HalfFacts
<1> HIDE DEF half, next, done, k
<1>5. next.data = [half.data EXCEPT ![i] = EMPTY]
  <2>1. \A q \in PageNo : q < i + 1 <=> q < i \/ q = i
    BY <1>1, BlockAssumption DEF PageNo
  <2>2. done.data[i] = EMPTY /\ ~(i < i)
    BY <1>1, <1>3
  <2> QED
    BY <1>3, <1>4, <2>1, <2>2
<1> DEFINE d == half.data
           e == [d EXCEPT ![i] = EMPTY]
<1>6. next.data = e
  BY <1>5
<1>7. [half EXCEPT !.data[i] = EMPTY] = [half EXCEPT !.data = e]
  OBVIOUS
<1> HIDE DEF d, e
<1>8. next = [half EXCEPT !.data = e]
  BY <1>3, <1>4, <1>6
<1> QED
  BY <1>7, <1>8 DEF half, next

(* or goes to its first empty page.                                         *)
LEMMA HalfCompacted ==
  ASSUME NEW victim \in BlockState, NEW copy \in BlockState, NEW i \in PageNo,
         victim.data[i] \in LPN,
         ~HasNextPage(CopyBlockAfter(Upto(victim, i), copy))
  PROVE  LET half == HalfErased(victim, copy, i)
             k    == half.min_seek_empty
         IN  HalfErased(victim, copy, i + 1) =
               [half EXCEPT !.data = [@ EXCEPT ![i] = EMPTY, ![k] = victim.data[i]],
                            !.min_seek_empty = k + 1,
                            !.pages_valid = @ + 1]
<1> DEFINE half == HalfErased(victim, copy, i)
           next == HalfErased(victim, copy, i + 1)
           done == VictimAfter(Upto(victim, i), copy)
           more == VictimAfter(Upto(victim, i + 1), copy)
           k    == NumKept(Upto(victim, i), copy)
           l    == victim.data[i]
<1>1. i \in 0 .. BLOCK_SIZE /\ i + 1 \in 0 .. BLOCK_SIZE /\ i \in Nat
  BY BlockAssumption DEF PageNo
<1>2. /\ NumKept(Upto(victim, i + 1), copy) = k + 1
      /\ \A q \in PageNo : more.data[q] = IF q = k THEN l ELSE done.data[q]
  BY PageCompacted
<1>3. /\ half = [data |-> half.data, pages_valid |-> k, pages_invalid |-> 0,
                 min_seek_empty |-> k, erases_remaining |-> victim.erases_remaining]
      /\ half.data = [q \in PageNo |-> IF q < i THEN done.data[q] ELSE victim.data[q]]
      /\ k \in Nat /\ k <= i
      /\ \A q \in PageNo : q >= k => done.data[q] = EMPTY
  BY <1>1, HalfFacts
<1>4. /\ next = [data |-> next.data, pages_valid |-> k + 1, pages_invalid |-> 0,
                 min_seek_empty |-> k + 1, erases_remaining |-> victim.erases_remaining]
      /\ next.data = [q \in PageNo |-> IF q < i + 1 THEN more.data[q] ELSE victim.data[q]]
  BY <1>1, <1>2, HalfFacts
<1> HIDE DEF half, next, done, more, k, l
<1> DEFINE d == half.data
           e == [d EXCEPT ![i] = EMPTY, ![k] = l]
<1>5. next.data = e
  <2>1. \A q \in PageNo : q < i + 1 <=> q < i \/ q = i
    BY <1>1, BlockAssumption DEF PageNo
  <2>2. k < i + 1 /\ ~(i < i) /\ i >= k /\ k \in PageNo
    BY <1>1, <1>3, BlockAssumption DEF PageNo
  <2>3. ASSUME NEW q \in PageNo
        PROVE  next.data[q] = e[q]
    <3>1. d = [p \in PageNo |-> IF p < i THEN done.data[p] ELSE victim.data[p]]
      BY <1>3
    <3>2. next.data[q] = IF q < i + 1 THEN more.data[q] ELSE victim.data[q]
      BY <1>4
    <3> HIDE DEF d
    <3>3. e[q] = IF q = k THEN l ELSE IF q = i THEN EMPTY ELSE d[q]
      BY <2>2, <3>1
    <3>4. done.data[i] = EMPTY
      BY <1>3, <2>2
    <3> HIDE DEF e
    <3> QED
      BY <1>2, <2>1, <2>2, <3>1, <3>2, <3>3, <3>4
  <2>4. /\ next.data = [q \in PageNo |-> next.data[q]]
        /\ e = [q \in PageNo |-> e[q]]
    <3>1. d = [p \in PageNo |-> IF p < i THEN done.data[p] ELSE victim.data[p]]
      BY <1>3
    <3> HIDE DEF d
    <3> QED
      BY <1>4, <3>1
  <2> HIDE DEF e
  <2> QED
    BY <2>3, <2>4
<1>6. half.min_seek_empty = k /\ half.pages_valid = k
  BY <1>3
<1> HIDE DEF e
<1>7. next = [half EXCEPT !.data = e, !.min_seek_empty = k + 1, !.pages_valid = k + 1]
  <2> DEFINE m == k + 1
             r == victim.erases_remaining
             h1 == [half EXCEPT !.data = e]
             h2 == [h1 EXCEPT !.min_seek_empty = m]
  <2>1. half = [data |-> d, pages_valid |-> k, pages_invalid |-> 0,
                min_seek_empty |-> k, erases_remaining |-> r]
    BY <1>3
  <2>2. next = [data |-> e, pages_valid |-> m, pages_invalid |-> 0,
                min_seek_empty |-> m, erases_remaining |-> r]
    BY <1>4, <1>5
  <2> HIDE DEF d, m, r, h1, h2
  <2>3. h1 = [data |-> e, pages_valid |-> k, pages_invalid |-> 0,
              min_seek_empty |-> k, erases_remaining |-> r]
    BY <2>1 DEF h1
  <2>4. h2 = [data |-> e, pages_valid |-> k, pages_invalid |-> 0,
              min_seek_empty |-> m, erases_remaining |-> r]
    BY <2>3 DEF h2
  <2>5. next = [h2 EXCEPT !.pages_valid = m]
    BY <2>2, <2>4
  <2> QED
    BY <2>5 DEF h1, h2, m
<1>8. [half EXCEPT !.data = [@ EXCEPT ![i] = EMPTY, ![half.min_seek_empty] = l],
                   !.min_seek_empty = half.min_seek_empty + 1, !.pages_valid = @ + 1] =
        [half EXCEPT !.data = e, !.min_seek_empty = k + 1, !.pages_valid = k + 1]
  BY <1>6 DEF d, e
<1> QED
  BY <1>7, <1>8 DEF half, next, l

(* Nothing is seen yet: both blocks are as found, but for the counters, and   *)
(* the tags of the victim are below those of the copy block.                *)
LEMMA LoopStarts == LoopInit => LoopInv
<1> SUFFICES ASSUME LoopInit
             PROVE  LoopInv
  OBVIOUS
<1> DEFINE seen == Upto(erasing0, 0)
           done == VictimAfter(seen, filling0)
           address(b, p) == [block |-> b, page |-> p]
           held(l) == \E p \in PageNo : filling0.data[p] = l
<1>1. erasing0 \in BlockState /\ filling0 \in BlockState /\ filling = filling0 /\ at = 0
  BY DEF LoopInit, RealBlock
<1>2. /\ erasing = [erasing0 EXCEPT !.pages_valid = 0, !.pages_invalid = 0,
                                    !.min_seek_empty = 0]
      /\ erasing \in BlockState /\ erasing.data = erasing0.data
  <2>1. erasing = [erasing0 EXCEPT !.pages_valid = 0, !.pages_invalid = 0,
                                    !.min_seek_empty = 0]
    BY DEF LoopInit
  <2> DEFINE h1 == [erasing0 EXCEPT !.pages_valid = 0]
             h2 == [h1 EXCEPT !.pages_invalid = 0]
  <2>2. erasing = [h2 EXCEPT !.min_seek_empty = 0]
    BY <2>1
  <2> HIDE DEF h1, h2
  <2>3. h1 \in BlockState /\ h1.data = erasing0.data
    BY <1>1 DEF h1, BlockState
  <2>4. h2 \in BlockState /\ h2.data = erasing0.data
    BY <2>3 DEF h2, BlockState
  <2>5. 0 \in 0 .. BLOCK_SIZE
    BY BlockAssumption
  <2>6. erasing \in BlockState /\ erasing.data = erasing0.data
    BY <2>2, <2>4, <2>5 DEF BlockState
  <2> QED
    BY <2>1, <2>6
<1>3. ASSUME NEW b, NEW t \in Int, b \in ProgrammedBlock(t), NEW p \in ValidPages(b)
      PROVE  p \in PageNo /\ b.data[p] \in LPN /\ b.data[p] = t + p
  <2>1. PICK V \in SUBSET PageNo, m \in 0 .. BLOCK_SIZE :
          b.data = [q \in PageNo |-> CASE q \in V -> t + q
                                       [] q < m /\ q \notin V -> INVALID
                                       [] OTHER -> EMPTY]
    BY <1>3 DEF ProgrammedBlock
  <2>2. p \in PageNo /\ b.data[p] \in LPN
    BY <1>3 DEF ValidPages
  <2>3. b.data[p] = CASE p \in V -> t + p
                      [] p < m /\ p \notin V -> INVALID
                      [] OTHER -> EMPTY
    BY <2>1, <2>2
  <2>4. b.data[p] # INVALID /\ b.data[p] # EMPTY
    BY <2>2, BlockAssumption
  <2>5. p \in V
    BY <2>3, <2>4
  <2> QED
    BY <2>2, <2>3, <2>5
<1>4. \A p \in ValidPages(erasing0) : /\ p \in PageNo /\ erasing0.data[p] \in LPN
                                      /\ erasing0.data[p] = p
  <2>1. erasing0 \in ProgrammedBlock(0)
    BY DEF LoopInit
  <2>2. \A p \in ValidPages(erasing0) : /\ p \in PageNo /\ erasing0.data[p] \in LPN
                                        /\ erasing0.data[p] = 0 + p
    BY <1>3, <2>1
  <2>3. \A p \in PageNo : 0 + p = p
    BY BlockAssumption DEF PageNo
  <2> QED
    BY <2>2, <2>3
<1>5. \A p \in ValidPages(filling0) : /\ p \in PageNo /\ filling0.data[p] \in LPN
                                      /\ filling0.data[p] = BLOCK_SIZE + p
  <2>1. filling0 \in ProgrammedBlock(BLOCK_SIZE) /\ BLOCK_SIZE \in Int
    BY BlockAssumption DEF LoopInit
  <2> QED
    BY <1>3, <2>1
<1>6. /\ \A p \in PageNo : p \in Nat /\ p < BLOCK_SIZE /\ (BLOCK_SIZE + p) - BLOCK_SIZE = p
      /\ \A p, q \in PageNo : BLOCK_SIZE + p # q
  BY BlockAssumption DEF PageNo
<1>7. \A l \in LPN : /\ (\E p \in PageNo : erasing0.data[p] = l) <=> l \in ValidPages(erasing0)
                     /\ \A p \in PageNo : filling0.data[p] = l => l = BLOCK_SIZE + p
  BY <1>4, <1>5 DEF ValidPages
<1>8. ASSUME NEW l \in LPN
      PROVE  /\ l \in ValidPages(erasing0) => where[l] = address(Victim, l)
             /\ (l \notin ValidPages(erasing0) /\ held(l)) =>
                  where[l] = address(Copy, l - BLOCK_SIZE)
             /\ (l \notin ValidPages(erasing0) /\ ~held(l)) => where[l] = address(Absent.block, 0)
  <2>1. where[l] = IF \E p \in PageNo : erasing0.data[p] = l
                     THEN [block |-> Victim, page |-> l]
                   ELSE IF held(l) THEN [block |-> Copy, page |-> l - BLOCK_SIZE]
                   ELSE Absent
    BY DEF LoopInit
  <2>2. Absent = address(Absent.block, 0)
    BY DEF Absent
  <2> HIDE DEF held, address
  <2>3. where[l] = IF l \in ValidPages(erasing0) THEN address(Victim, l)
                   ELSE IF held(l) THEN address(Copy, l - BLOCK_SIZE)
                   ELSE address(Absent.block, 0)
    BY <1>7, <2>1, <2>2 DEF address
  <2> QED
    BY <2>3
<1>9. /\ Victim # Copy /\ Absent.block # Victim /\ Absent.block # Copy
      /\ \A b, p : address(b, p).block = b /\ address(b, p).page = p
      /\ \A b \in {Victim, Copy, Absent.block}, p \in PageNo :
           address(b, p) \in [block : {Victim, Copy, Absent.block}, page : PageNo]
  BY DEF Victim, Copy, Absent
<1> HIDE DEF held, address
<1>10. where \in [LPN -> [block : {Victim, Copy, Absent.block}, page : PageNo]]
  <2>1. ASSUME NEW l \in LPN
        PROVE  where[l] \in [block : {Victim, Copy, Absent.block}, page : PageNo]
    <3>1. CASE l \in ValidPages(erasing0)
      BY <1>4, <1>8, <1>9, <3>1
    <3>2. CASE l \notin ValidPages(erasing0) /\ held(l)
      <4>1. PICK p \in PageNo : filling0.data[p] = l
        BY <3>2 DEF held
      <4>2. l - BLOCK_SIZE = p
        BY <1>6, <1>7, <4>1
      <4> QED
        BY <1>8, <1>9, <3>2, <4>2
    <3>3. CASE l \notin ValidPages(erasing0) /\ ~held(l)
      <4>1. 0 \in PageNo
        BY BlockAssumption DEF PageNo
      <4> QED
        BY <1>8, <1>9, <3>3, <4>1
    <3> QED
      BY <3>1, <3>2, <3>3
  <2>2. where = [l \in LPN |-> where[l]]
    BY DEF LoopInit
  <2> QED
    BY <2>1, <2>2
<1>11. LoopTypeOK
  BY <1>1, <1>2, <1>10, BlockAssumption DEF LoopTypeOK
<1>12. NoPageLostMidway
  <2>1. ASSUME NEW l \in LPN, where[l].block = Victim
        PROVE  erasing.data[where[l].page] = l
    <3>1. l \in ValidPages(erasing0)
      BY <1>8, <1>9, <2>1
    <3> QED
      BY <1>2, <1>4, <1>8, <1>9, <3>1
  <2>2. ASSUME NEW l \in LPN, where[l].block = Copy
        PROVE  filling.data[where[l].page] = l
    <3>1. l \notin ValidPages(erasing0) /\ held(l)
      BY <1>8, <1>9, <2>2
    <3>2. PICK p \in PageNo : filling0.data[p] = l
      BY <3>1 DEF held
    <3>3. l - BLOCK_SIZE = p
      BY <1>6, <1>7, <3>2
    <3> QED
      BY <1>1, <1>8, <1>9, <3>1, <3>2, <3>3
  <2>3. ASSUME NEW p \in ValidPages(erasing)
        PROVE  where[erasing.data[p]] = [block |-> Victim, page |-> p]
    <3>1. p \in ValidPages(erasing0)
      BY <1>2 DEF ValidPages
    <3>2. p \in LPN /\ erasing.data[p] = p
      BY <1>2, <1>4, <3>1
    <3>3. where[p] = address(Victim, p)
      BY <1>8, <3>1, <3>2
    <3> QED
      BY <3>2, <3>3 DEF address
  <2>4. ASSUME NEW p \in ValidPages(filling)
        PROVE  where[filling.data[p]] = [block |-> Copy, page |-> p]
    <3>1. p \in PageNo /\ filling0.data[p] \in LPN /\ filling0.data[p] = BLOCK_SIZE + p
      BY <1>1, <1>5, <2>4
    <3>2. filling0.data[p] \notin ValidPages(erasing0)
      BY <1>4, <1>6, <3>1
    <3>3. filling0.data[p] - BLOCK_SIZE = p
      BY <1>6, <3>1
    <3>4. held(filling0.data[p])
      BY <3>1 DEF held
    <3> QED
      BY <1>1, <1>8, <3>1, <3>2, <3>3, <3>4 DEF address
  <2> QED
    BY <2>1, <2>2, <2>3, <2>4 DEF NoPageLostMidway
<1>13. /\ seen \in BlockState /\ ValidPages(seen) = {}
  <2>1. seen \in BlockState /\ ValidPages(seen) = {p \in ValidPages(erasing0) : p < 0}
    BY <1>1, UptoFacts
  <2> QED
    BY <1>4, <1>6, <2>1
<1>14. NumCopied(seen, filling0) = 0 /\ NumKept(seen, filling0) = 0
  <2>1. Cardinality(ValidPages(seen)) = 0
    BY <1>13, FS_EmptySet
  <2> HIDE DEF seen
  <2> QED
    BY <2>1, NumCopiedRange
<1>15. HalfErased(erasing0, filling0, 0) = erasing
  <2> DEFINE half == HalfErased(erasing0, filling0, 0)
             r == erasing0.erases_remaining
             d == erasing0.data
  <2>1. /\ half = [data |-> half.data, pages_valid |-> 0, pages_invalid |-> 0,
                   min_seek_empty |-> 0, erases_remaining |-> r]
        /\ half.data = [q \in PageNo |-> IF q < 0 THEN done.data[q] ELSE d[q]]
    <3>1. 0 \in 0 .. BLOCK_SIZE
      BY BlockAssumption
    <3> QED
      BY <1>1, <1>14, <3>1, HalfFacts
  <2>2. half.data = d
    <3>1. \A q \in PageNo : ~(q < 0)
      BY <1>6
    <3>2. d = [q \in PageNo |-> d[q]]
      BY <1>1 DEF BlockState, PageData
    <3> HIDE DEF half, done, d
    <3> QED
      BY <2>1, <3>1, <3>2
  <2>3. erasing = [data |-> d, pages_valid |-> 0, pages_invalid |-> 0,
                   min_seek_empty |-> 0, erases_remaining |-> r]
    BY <1>1, <1>2 DEF BlockState
  <2> HIDE DEF half, d, r
  <2>4. half = erasing
    BY <2>1, <2>2, <2>3
  <2> QED
    BY <2>4 DEF half
<1>16. filling = CopyBlockAfter(seen, filling0)
  <2> DEFINE F == FreePages(filling0)
             d == filling0.data
             e == [q \in PageNo |-> IF q \in F /\ Rank(F, q) < 0
                                      THEN seen.data[Nth(ValidPages(seen), Rank(F, q))]
                                      ELSE d[q]]
  <2>1. CopyBlockAfter(seen, filling0) = [filling0 EXCEPT !.data = e, !.pages_valid = @ + 0]
    <3> HIDE DEF seen
    <3> DEFINE c(x, m) == [filling0 EXCEPT !.data = x, !.pages_valid = @ + m,
                             !.min_seek_empty = IF m = 0 THEN @ ELSE Nth(F, m - 1)]
               x(m) == [q \in PageNo |-> IF q \in F /\ Rank(F, q) < m
                                      THEN seen.data[Nth(ValidPages(seen), Rank(F, q))]
                                      ELSE d[q]]
    <3>1. \A m : NumCopied(seen, filling0) = m => CopyBlockAfter(seen, filling0) = c(x(m), m)
      BY DEF CopyBlockAfter
    <3>2. x(0) = e
      OBVIOUS
    <3> HIDE DEF c, x, e
    <3>3. CopyBlockAfter(seen, filling0) = c(e, 0)
      BY <1>14, <3>1, <3>2
    <3> QED
      BY <1>1, <3>3 DEF c, BlockState
  <2>2. \A q \in F : ~(Rank(F, q) < 0)
    <3>1. F \in SUBSET PageNo
      BY DEF FreePages
    <3> QED
      BY <3>1, Positions
  <2>3. d = [q \in PageNo |-> d[q]]
    BY <1>1 DEF BlockState, PageData
  <2> HIDE DEF F, d
  <2>4. e = d
    BY <2>2, <2>3
  <2> HIDE DEF e
  <2> DEFINE h1 == [filling0 EXCEPT !.data = e]
  <2>5. h1 = filling0
    BY <1>1, <2>4 DEF d, BlockState
  <2>6. filling0 = [h1 EXCEPT !.pages_valid = @ + 0]
    <3> HIDE DEF h1
    <3> QED
      BY <1>1, <2>5 DEF BlockState
  <2> QED
    BY <1>1, <2>1, <2>6
<1>17. ~Returned /\ ~(at > 0)
  BY <1>1, BlockAssumption DEF Returned
<1>18. \A p, q \in ValidPages(erasing0) : erasing0.data[p] = erasing0.data[q] => p = q
  BY <1>4
<1> QED
  BY <1>1, <1>11, <1>12, <1>13, <1>15, <1>16, <1>17, <1>18 DEF LoopInv

(* The page the loop has come to is as the call found it.                    *)
LEMMA PageAhead ==
  ASSUME LoopInv, at < BLOCK_SIZE, CanErase(erasing)
  PROVE  /\ at \in PageNo /\ at + 1 \in 0 .. BLOCK_SIZE + 1 /\ at + 1 > 0
         /\ ~Returned /\ at + 1 # BLOCK_SIZE + 1
         /\ erasing = HalfErased(erasing0, filling0, at)
         /\ erasing.data[at] = erasing0.data[at]
         /\ CanErase(erasing0)
         /\ HalfErased(erasing0, filling0, at + 1) \in BlockState
         /\ Upto(erasing0, at + 1) \in BlockState
         /\ erasing.min_seek_empty \in PageNo
         /\ erasing.min_seek_empty = at \/ erasing.data[erasing.min_seek_empty] = EMPTY
<1> DEFINE k == NumKept(Upto(erasing0, at), filling0)
           d == VictimAfter(Upto(erasing0, at), filling0).data
<1>1. /\ at \in PageNo /\ at \in 0 .. BLOCK_SIZE /\ at + 1 \in 0 .. BLOCK_SIZE /\ at \in Nat
      /\ at + 1 \in 0 .. BLOCK_SIZE + 1 /\ at + 1 > 0 /\ at + 1 # BLOCK_SIZE + 1 /\ at + 1 \in Nat
      /\ at # BLOCK_SIZE + 1
  BY BlockAssumption DEF LoopInv, LoopTypeOK, PageNo
<1>2. ~Returned /\ erasing = HalfErased(erasing0, filling0, at)
  BY <1>1 DEF LoopInv, Returned
<1>3. erasing0 \in BlockState /\ filling0 \in BlockState
  BY DEF LoopInv, LoopTypeOK
<1>4. /\ HalfErased(erasing0, filling0, at) =
           [data |-> HalfErased(erasing0, filling0, at).data, pages_valid |-> k,
            pages_invalid |-> 0, min_seek_empty |-> k,
            erases_remaining |-> erasing0.erases_remaining]
      /\ HalfErased(erasing0, filling0, at).data =
           [q \in PageNo |-> IF q < at THEN d[q] ELSE erasing0.data[q]]
      /\ k \in Nat /\ k <= at
      /\ \A q \in PageNo : q >= k => d[q] = EMPTY
  BY <1>1, <1>3, HalfFacts
<1> HIDE DEF k, d
<1>5. /\ erasing.data = [q \in PageNo |-> IF q < at THEN d[q] ELSE erasing0.data[q]]
      /\ erasing.min_seek_empty = k /\ erasing.erases_remaining = erasing0.erases_remaining
  BY <1>2, <1>4
<1>6. CanErase(erasing0)
  BY <1>5 DEF CanErase
<1>7. HalfErased(erasing0, filling0, at + 1) \in BlockState
  BY <1>1, <1>3, <1>6, HalfFacts
<1>8. Upto(erasing0, at + 1) \in BlockState
  BY <1>1, <1>3, UptoFacts
<1>9. erasing.data[at] = erasing0.data[at]
  BY <1>1, <1>5
<1>10. k \in PageNo /\ (k = at \/ erasing.data[k] = EMPTY)
  <2>1. k \in PageNo /\ (k = at \/ k < at) /\ k >= k
    BY <1>1, <1>4, BlockAssumption DEF PageNo
  <2> QED
    BY <1>4, <1>5, <2>1
<1> QED
  BY <1>1, <1>2, <1>5, <1>6, <1>7, <1>8, <1>9, <1>10

(* What an iteration has to show; the rest of the invariant follows.         *)
LEMMA IterationKeeps ==
  ASSUME LoopInv, at < BLOCK_SIZE, CanErase(erasing), at' = at + 1,
         UNCHANGED <<erasing0, filling0>>,
         where' \in [LPN -> [block : {Victim, Copy, Absent.block}, page : PageNo]],
         erasing' = HalfErased(erasing0, filling0, at + 1),
         filling' = CopyBlockAfter(Upto(erasing0, at + 1), filling0),
         \A p \in ValidPages(Upto(erasing0, at + 1)) :
           where'[erasing0.data[p]] = MovedTo(Upto(erasing0, at + 1), filling0, p),
         NoPageLostMidway'
  PROVE  LoopInv'
<1>1. /\ at + 1 \in 0 .. BLOCK_SIZE + 1 /\ at + 1 > 0 /\ at + 1 # BLOCK_SIZE + 1
      /\ CanErase(erasing0) /\ HalfErased(erasing0, filling0, at + 1) \in BlockState
      /\ Upto(erasing0, at + 1) \in BlockState
  BY PageAhead
<1>2. erasing0 \in BlockState /\ filling0 \in BlockState
  BY DEF LoopInv, LoopTypeOK
<1>3. CopyBlockAfter(Upto(erasing0, at + 1), filling0) \in BlockState
  BY <1>1, <1>2, CopyBlockType
<1>4. LoopTypeOK'
  BY <1>1, <1>2, <1>3 DEF LoopTypeOK
<1>5. ~Returned'
  BY <1>1 DEF Returned
<1>6. (\A p, q \in ValidPages(erasing0) : erasing0.data[p] = erasing0.data[q] => p = q)'
  BY DEF LoopInv
<1>7. (at > 0 => CanErase(erasing0))'
  BY <1>1
<1>8. (erasing = HalfErased(erasing0, filling0, at))'
  OBVIOUS
<1>9. (filling = CopyBlockAfter(Upto(erasing0, at), filling0))'
  OBVIOUS
<1>10. (\A p \in ValidPages(Upto(erasing0, at)) :
          where[erasing0.data[p]] = MovedTo(Upto(erasing0, at), filling0, p))'
  OBVIOUS
<1> QED
  BY <1>4, <1>5, <1>6, <1>7, <1>8, <1>9, <1>10 DEF LoopInv

(* A page that is copied: the map leaves the victim, page and all.           *)
LEMMA CopyOutKeeps ==
  ASSUME LoopInv, at < BLOCK_SIZE, CanErase(erasing), at' = at + 1,
         UNCHANGED <<erasing0, filling0>>, CopyOut
  PROVE  LoopInv'
<1> DEFINE l    == erasing.data[at]
           x    == NextPage(filling)
           seen == Upto(erasing0, at)
           more == Upto(erasing0, at + 1)
<1>1. /\ at \in PageNo /\ ~Returned
      /\ erasing = HalfErased(erasing0, filling0, at) /\ l = erasing0.data[at]
  BY PageAhead
<1>2. /\ erasing0 \in BlockState /\ filling0 \in BlockState
      /\ filling = CopyBlockAfter(seen, filling0)
      /\ \A p \in ValidPages(seen) : where[erasing0.data[p]] = MovedTo(seen, filling0, p)
      /\ \A p, q \in ValidPages(erasing0) : erasing0.data[p] = erasing0.data[q] => p = q
      /\ erasing \in BlockState /\ filling \in BlockState
      /\ where \in [LPN -> [block : {Victim, Copy, Absent.block}, page : PageNo]]
      /\ NoPageLostMidway
  BY DEF LoopInv, LoopTypeOK
<1>3. /\ l \in LPN /\ HasNextPage(filling)
      /\ filling' = WritePage(SeekNextPage(filling), x, l)
      /\ where' = [where EXCEPT ![l] = [block |-> Copy, page |-> x]]
      /\ erasing' = [erasing EXCEPT !.data[at] = EMPTY]
  BY DEF CopyOut
<1>4. /\ CopyBlockAfter(more, filling0) = WritePage(SeekNextPage(filling), x, l)
      /\ VictimAfter(more, filling0) = VictimAfter(seen, filling0)
      /\ IsCopied(more, filling0, at) /\ NewPageOf(more, filling0, at) = x
      /\ \A p \in ValidPages(seen) :
           /\ IsCopied(more, filling0, p) <=> IsCopied(seen, filling0, p)
           /\ NewPageOf(more, filling0, p) = NewPageOf(seen, filling0, p)
  BY <1>1, <1>2, <1>3, PageCopied
<1>5. HalfErased(erasing0, filling0, at + 1) =
        [HalfErased(erasing0, filling0, at) EXCEPT !.data[at] = EMPTY]
  <2>1. /\ erasing0 \in BlockState /\ filling0 \in BlockState /\ at \in PageNo
        /\ VictimAfter(more, filling0) = VictimAfter(seen, filling0)
    BY <1>1, <1>2, <1>4
  <2> HIDE DEF l, x
  <2> QED
    BY <2>1, HalfMoved, SMT
<1>6. /\ ValidPages(more) = ValidPages(seen) \cup {at}
      /\ \A p \in ValidPages(seen) : p \in ValidPages(erasing0) /\ p # at
      /\ at \in ValidPages(erasing0)
  <2>1. ValidPages(more) = ValidPages(seen) \cup {at} /\ at \notin ValidPages(seen)
    BY <1>1, <1>2, <1>3, PageSeen
  <2>2. ValidPages(seen) = {p \in ValidPages(erasing0) : p < at}
    BY <1>1, <1>2, BlockAssumption, UptoFacts DEF PageNo
  <2>3. at \in ValidPages(erasing0)
    BY <1>1, <1>3 DEF ValidPages
  <2> QED
    BY <2>1, <2>2, <2>3
<1>7. x \in PageNo /\ filling.data[x] = EMPTY
  BY <1>3, NextPageIsFree
<1> HIDE DEF l, x, seen, more
<1>8. /\ \A m \in LPN : where'[m] = IF m = l THEN [block |-> Copy, page |-> x] ELSE where[m]
      /\ where' \in [LPN -> [block : {Victim, Copy, Absent.block}, page : PageNo]]
  BY <1>2, <1>3, <1>7
<1>9. ASSUME NEW p \in ValidPages(more)
      PROVE  where'[erasing0.data[p]] = MovedTo(more, filling0, p)
  <2>1. CASE p = at
    BY <1>1, <1>3, <1>4, <1>8, <2>1 DEF MovedTo
  <2>2. CASE p # at
    <3>1. p \in ValidPages(seen) /\ p \in ValidPages(erasing0)
      BY <1>6, <2>2
    <3>2. erasing0.data[p] # l /\ erasing0.data[p] \in LPN
      BY <1>1, <1>2, <1>6, <2>2, <3>1 DEF ValidPages
    <3> QED
      BY <1>2, <1>4, <1>8, <3>1, <3>2 DEF MovedTo
  <2> QED
    BY <2>1, <2>2
<1>10. NoPageLostMidway'
  <2>1. erasing'.data = [erasing.data EXCEPT ![at] = EMPTY]
    BY <1>2, <1>3 DEF BlockState
  <2>2. filling'.data = [filling.data EXCEPT ![x] = l]
    <3>1. SeekNextPage(filling) \in BlockState /\ SeekNextPage(filling).data = filling.data
      BY <1>2, <1>3, SeekType
    <3> QED
      BY <1>3, <1>7, <3>1, WritePageType
  <2>3. /\ \A q \in PageNo : erasing'.data[q] = IF q = at THEN EMPTY ELSE erasing.data[q]
        /\ \A q \in PageNo : filling'.data[q] = IF q = x THEN l ELSE filling.data[q]
    BY <1>2, <2>1, <2>2 DEF BlockState, PageData
  <2>4. /\ \A m \in LPN : where[m].block = Victim => erasing.data[where[m].page] = m
        /\ \A m \in LPN : where[m].block = Copy => filling.data[where[m].page] = m
        /\ \A p \in ValidPages(erasing) : where[erasing.data[p]] = [block |-> Victim, page |-> p]
        /\ \A p \in ValidPages(filling) : where[filling.data[p]] = [block |-> Copy, page |-> p]
    BY <1>2 DEF NoPageLostMidway
  <2>5. where[l] = [block |-> Victim, page |-> at]
    BY <1>1, <1>3, <2>4 DEF ValidPages, l
  <2>6. \A m \in LPN : where[m].page \in PageNo
    BY <1>2
  <2>7. ASSUME NEW m \in LPN, where'[m].block = Victim
        PROVE  erasing'.data[where'[m].page] = m
    <3>1. m # l
      BY <1>8, <2>7 DEF Victim, Copy
    <3>2. where'[m] = where[m] /\ erasing.data[where[m].page] = m
      BY <1>8, <2>4, <2>7, <3>1
    <3>3. where[m].page # at
      BY <3>1, <3>2 DEF l
    <3> QED
      BY <2>3, <2>6, <3>2, <3>3
  <2>8. ASSUME NEW m \in LPN, where'[m].block = Copy
        PROVE  filling'.data[where'[m].page] = m
    <3>1. CASE m = l
      BY <1>7, <1>8, <2>3, <3>1
    <3>2. CASE m # l
      <4>1. where'[m] = where[m] /\ filling.data[where[m].page] = m
        BY <1>8, <2>4, <2>8, <3>2
      <4>2. where[m].page # x
        BY <1>7, <4>1, BlockAssumption
      <4> QED
        BY <2>3, <2>6, <4>1, <4>2
    <3> QED
      BY <3>1, <3>2
  <2>9. ASSUME NEW p \in PageNo, erasing'.data[p] \in LPN
        PROVE  where'[erasing'.data[p]] = [block |-> Victim, page |-> p]
    <3>1. p # at /\ erasing'.data[p] = erasing.data[p]
      BY <2>3, <2>9, BlockAssumption
    <3>2. where[erasing.data[p]] = [block |-> Victim, page |-> p]
      BY <2>4, <2>9, <3>1 DEF ValidPages
    <3>3. erasing.data[p] # l
      BY <2>5, <3>1, <3>2
    <3> QED
      BY <1>8, <2>9, <3>1, <3>2, <3>3
  <2>10. ASSUME NEW p \in PageNo, filling'.data[p] \in LPN
         PROVE  where'[filling'.data[p]] = [block |-> Copy, page |-> p]
    <3>1. CASE p = x
      BY <1>3, <1>8, <2>3, <3>1
    <3>2. CASE p # x
      <4>1. filling'.data[p] = filling.data[p]
        BY <2>3, <3>2
      <4>2. where[filling.data[p]] = [block |-> Copy, page |-> p]
        BY <2>4, <2>10, <4>1 DEF ValidPages
      <4>3. filling.data[p] # l
        BY <2>5, <4>2 DEF Victim, Copy
      <4> QED
        BY <1>8, <2>10, <4>1, <4>2, <4>3
    <3> QED
      BY <3>1, <3>2
  <2> QED
    BY <2>7, <2>8, <2>9, <2>10 DEF NoPageLostMidway, ValidPages
<1>11. /\ erasing' = HalfErased(erasing0, filling0, at + 1)
       /\ filling' = CopyBlockAfter(more, filling0)
  BY <1>1, <1>3, <1>4, <1>5
<1> QED
  BY <1>8, <1>9, <1>10, <1>11, IterationKeeps DEF more

(* A page that is kept: the page it goes to is EMPTY by now, or its own.     *)
LEMMA CompactKeeps ==
  ASSUME LoopInv, at < BLOCK_SIZE, CanErase(erasing), at' = at + 1,
         UNCHANGED <<erasing0, filling0>>, Compact
  PROVE  LoopInv'
<1> DEFINE l    == erasing.data[at]
           k    == erasing.min_seek_empty
           seen == Upto(erasing0, at)
           more == Upto(erasing0, at + 1)
<1>1. /\ at \in PageNo /\ ~Returned
      /\ erasing = HalfErased(erasing0, filling0, at) /\ l = erasing0.data[at]
      /\ k \in PageNo /\ (k = at \/ erasing.data[k] = EMPTY)
  BY PageAhead
<1>2. /\ erasing0 \in BlockState /\ filling0 \in BlockState
      /\ filling = CopyBlockAfter(seen, filling0)
      /\ \A p \in ValidPages(seen) : where[erasing0.data[p]] = MovedTo(seen, filling0, p)
      /\ \A p, q \in ValidPages(erasing0) : erasing0.data[p] = erasing0.data[q] => p = q
      /\ erasing \in BlockState /\ filling \in BlockState
      /\ where \in [LPN -> [block : {Victim, Copy, Absent.block}, page : PageNo]]
      /\ NoPageLostMidway
  BY DEF LoopInv, LoopTypeOK
<1>3. /\ l \in LPN /\ ~HasNextPage(filling)
      /\ erasing' = [erasing EXCEPT !.data = [@ EXCEPT ![at] = EMPTY, ![k] = l],
                                    !.min_seek_empty = k + 1, !.pages_valid = @ + 1]
      /\ where' = [where EXCEPT ![l].page = k]
      /\ filling' = filling
  BY DEF Compact
<1>4. /\ CopyBlockAfter(more, filling0) = CopyBlockAfter(seen, filling0)
      /\ ~IsCopied(more, filling0, at)
      /\ NewPageOf(more, filling0, at) = NumKept(seen, filling0)
      /\ \A p \in ValidPages(seen) :
           /\ IsCopied(more, filling0, p) <=> IsCopied(seen, filling0, p)
           /\ NewPageOf(more, filling0, p) = NewPageOf(seen, filling0, p)
  BY <1>1, <1>2, <1>3, PageCompacted
<1>5. k = NumKept(seen, filling0)
  <2>1. at \in 0 .. BLOCK_SIZE
    BY <1>1, BlockAssumption DEF PageNo
  <2>2. HalfErased(erasing0, filling0, at) =
           [data |-> HalfErased(erasing0, filling0, at).data,
            pages_valid |-> NumKept(seen, filling0), pages_invalid |-> 0,
            min_seek_empty |-> NumKept(seen, filling0),
            erases_remaining |-> erasing0.erases_remaining]
    BY <1>2, <2>1, HalfFacts
  <2> HIDE DEF seen
  <2> QED
    BY <1>1, <2>2
<1>6. erasing' = HalfErased(erasing0, filling0, at + 1)
  <2> DEFINE half == HalfErased(erasing0, filling0, at)
  <2>1. /\ erasing0.data[at] \in LPN
        /\ ~HasNextPage(CopyBlockAfter(Upto(erasing0, at), filling0))
        /\ erasing0 \in BlockState /\ filling0 \in BlockState /\ at \in PageNo
    BY <1>1, <1>2, <1>3
  <2> HIDE DEF l, k, half
  <2>2. HalfErased(erasing0, filling0, at + 1) =
          [half EXCEPT !.data = [@ EXCEPT ![at] = EMPTY, ![half.min_seek_empty] = erasing0.data[at]],
                       !.min_seek_empty = half.min_seek_empty + 1, !.pages_valid = @ + 1]
    BY <2>1, HalfCompacted, Zenon DEF half
  <2>3. half = erasing /\ l = erasing0.data[at]
    BY <1>1 DEF half, l
  <2> QED
    BY <1>3, <2>2, <2>3 DEF k
<1>7. /\ ValidPages(more) = ValidPages(seen) \cup {at}
      /\ \A p \in ValidPages(seen) : p \in ValidPages(erasing0) /\ p # at
      /\ at \in ValidPages(erasing0)
  <2>1. ValidPages(more) = ValidPages(seen) \cup {at} /\ at \notin ValidPages(seen)
    BY <1>1, <1>2, <1>3, PageSeen
  <2>2. ValidPages(seen) = {p \in ValidPages(erasing0) : p < at}
    <3>1. at \in Nat
      BY <1>1, BlockAssumption DEF PageNo
    <3> QED
      BY <1>2, <3>1, UptoFacts
  <2>3. at \in ValidPages(erasing0)
    BY <1>1, <1>3 DEF ValidPages
  <2> QED
    BY <2>1, <2>2, <2>3
<1>8. /\ \A m \in LPN : where[m].block = Victim => erasing.data[where[m].page] = m
      /\ \A m \in LPN : where[m].block = Copy => filling.data[where[m].page] = m
      /\ \A p \in ValidPages(erasing) : where[erasing.data[p]] = [block |-> Victim, page |-> p]
      /\ \A p \in ValidPages(filling) : where[filling.data[p]] = [block |-> Copy, page |-> p]
  BY <1>2 DEF NoPageLostMidway
<1>9. where[l] = [block |-> Victim, page |-> at]
  BY <1>1, <1>3, <1>8 DEF ValidPages
<1>10. \A q \in PageNo :
         erasing'.data[q] = IF q = k THEN l ELSE IF q = at THEN EMPTY ELSE erasing.data[q]
  <2> DEFINE e == [erasing.data EXCEPT ![at] = EMPTY, ![k] = l]
             h1 == [erasing EXCEPT !.data = e]
             h2 == [h1 EXCEPT !.min_seek_empty = k + 1]
  <2>1. erasing' = [h2 EXCEPT !.pages_valid = @ + 1]
    BY <1>3
  <2>2. erasing.data \in PageData
    BY <1>2 DEF BlockState
  <2>3. \A q \in PageNo : e[q] = IF q = k THEN l ELSE IF q = at THEN EMPTY ELSE erasing.data[q]
    BY <1>1, <2>2 DEF PageData
  <2> HIDE DEF e, h1, h2, k
  <2>4. h1.data = e /\ DOMAIN h1 = DOMAIN erasing
    BY <1>2 DEF h1, BlockState
  <2>5. h2.data = e /\ DOMAIN h2 = DOMAIN erasing
    BY <2>4 DEF h2
  <2>6. erasing'.data = e
    BY <2>1, <2>5
  <2> QED
    BY <2>3, <2>6
<1> HIDE DEF l, k, seen, more
<1>11. /\ \A m \in LPN : where'[m] = IF m = l THEN [block |-> Victim, page |-> k] ELSE where[m]
       /\ where' \in [LPN -> [block : {Victim, Copy, Absent.block}, page : PageNo]]
  <2> DEFINE address == [block |-> Victim, page |-> k]
  <2>1. [where[l] EXCEPT !.page = k] = address
    BY <1>9
  <2>2. where' = [where EXCEPT ![l] = address]
    BY <1>3, <2>1
  <2> QED
    BY <1>1, <1>2, <1>3, <2>2
<1>12. ASSUME NEW p \in ValidPages(more)
      PROVE  where'[erasing0.data[p]] = MovedTo(more, filling0, p)
  <2>1. CASE p = at
    BY <1>1, <1>3, <1>4, <1>5, <1>11, <2>1 DEF MovedTo
  <2>2. CASE p # at
    <3>1. p \in ValidPages(seen) /\ p \in ValidPages(erasing0)
      BY <1>7, <2>2
    <3>2. erasing0.data[p] # l /\ erasing0.data[p] \in LPN
      BY <1>1, <1>2, <1>7, <2>2, <3>1 DEF ValidPages
    <3> QED
      BY <1>2, <1>4, <1>11, <3>1, <3>2 DEF MovedTo
  <2> QED
    BY <2>1, <2>2
<1>13. NoPageLostMidway'
  <2>1. \A m \in LPN : where[m].page \in PageNo
    BY <1>2
  <2>2. ASSUME NEW m \in LPN, where'[m].block = Victim
        PROVE  erasing'.data[where'[m].page] = m
    <3>1. CASE m = l
      BY <1>1, <1>10, <1>11, <3>1
    <3>2. CASE m # l
      <4>1. where'[m] = where[m] /\ erasing.data[where[m].page] = m
        BY <1>8, <1>11, <2>2, <3>2
      <4>2. where[m].page # at
        BY <3>2, <4>1 DEF l
      <4>3. where[m].page # k
        BY <1>1, <4>1, <4>2, BlockAssumption
      <4> QED
        BY <1>10, <2>1, <4>1, <4>2, <4>3
    <3> QED
      BY <3>1, <3>2
  <2>3. ASSUME NEW m \in LPN, where'[m].block = Copy
        PROVE  filling'.data[where'[m].page] = m
    BY <1>3, <1>8, <1>11, <2>3 DEF Victim, Copy
  <2>4. ASSUME NEW p \in PageNo, erasing'.data[p] \in LPN
        PROVE  where'[erasing'.data[p]] = [block |-> Victim, page |-> p]
    <3>1. CASE p = k
      BY <1>3, <1>10, <1>11, <3>1
    <3>2. CASE p # k
      <4>1. p # at /\ erasing'.data[p] = erasing.data[p]
        BY <1>10, <2>4, <3>2, BlockAssumption
      <4>2. where[erasing.data[p]] = [block |-> Victim, page |-> p]
        BY <1>8, <2>4, <4>1 DEF ValidPages
      <4>3. erasing.data[p] # l
        BY <1>9, <4>1, <4>2
      <4> QED
        BY <1>11, <2>4, <4>1, <4>2, <4>3
    <3> QED
      BY <3>1, <3>2
  <2>5. ASSUME NEW p \in ValidPages(filling)
        PROVE  where'[filling.data[p]] = [block |-> Copy, page |-> p]
    <3>1. where[filling.data[p]] = [block |-> Copy, page |-> p] /\ filling.data[p] \in LPN
      BY <1>8 DEF ValidPages
    <3>2. filling.data[p] # l
      BY <1>9, <3>1 DEF Victim, Copy
    <3> QED
      BY <1>11, <3>1, <3>2
  <2>6. \A p \in ValidPages(filling') : where'[filling'.data[p]] = [block |-> Copy, page |-> p]
    BY <1>3, <2>5
  <2> QED
    BY <2>2, <2>3, <2>4, <2>6 DEF NoPageLostMidway, ValidPages
<1>14. filling' = CopyBlockAfter(more, filling0)
  BY <1>2, <1>3, <1>4
<1> QED
  BY <1>6, <1>11, <1>12, <1>13, <1>14, IterationKeeps DEF more

(* Any other page: no entry of the map points at it.                         *)
LEMMA ClearKeeps ==
  ASSUME LoopInv, at < BLOCK_SIZE, CanErase(erasing), at' = at + 1,
         UNCHANGED <<erasing0, filling0>>, Clear
  PROVE  LoopInv'
<1> DEFINE seen == Upto(erasing0, at)
           more == Upto(erasing0, at + 1)
<1>1. /\ at \in PageNo
      /\ erasing = HalfErased(erasing0, filling0, at)
      /\ erasing.data[at] = erasing0.data[at]
  BY PageAhead
<1>2. /\ erasing0 \in BlockState /\ filling0 \in BlockState
      /\ filling = CopyBlockAfter(seen, filling0)
      /\ \A p \in ValidPages(seen) : where[erasing0.data[p]] = MovedTo(seen, filling0, p)
      /\ erasing \in BlockState
      /\ where \in [LPN -> [block : {Victim, Copy, Absent.block}, page : PageNo]]
      /\ NoPageLostMidway
  BY DEF LoopInv, LoopTypeOK
<1>3. /\ erasing0.data[at] \notin LPN
      /\ erasing' = [erasing EXCEPT !.data[at] = EMPTY]
      /\ where' = where /\ filling' = filling
  BY <1>1 DEF Clear
<1>4. /\ ValidPages(more) = ValidPages(seen)
      /\ CopyBlockAfter(more, filling0) = CopyBlockAfter(seen, filling0)
      /\ VictimAfter(more, filling0) = VictimAfter(seen, filling0)
      /\ \A p \in ValidPages(seen) :
           /\ IsCopied(more, filling0, p) <=> IsCopied(seen, filling0, p)
           /\ NewPageOf(more, filling0, p) = NewPageOf(seen, filling0, p)
  BY <1>1, <1>2, <1>3, PageCleared
<1>5. HalfErased(erasing0, filling0, at + 1) =
        [HalfErased(erasing0, filling0, at) EXCEPT !.data[at] = EMPTY]
  <2>1. /\ erasing0 \in BlockState /\ filling0 \in BlockState /\ at \in PageNo
        /\ VictimAfter(more, filling0) = VictimAfter(seen, filling0)
    BY <1>1, <1>2, <1>4
  <2> QED
    BY <2>1, HalfMoved, SMT
<1> HIDE DEF seen, more
<1>6. \A p \in ValidPages(more) : where'[erasing0.data[p]] = MovedTo(more, filling0, p)
  BY <1>2, <1>3, <1>4 DEF MovedTo
<1>7. NoPageLostMidway'
  <2>1. \A q \in PageNo : erasing'.data[q] = IF q = at THEN EMPTY ELSE erasing.data[q]
    <3>1. erasing'.data = [erasing.data EXCEPT ![at] = EMPTY]
      BY <1>2, <1>3 DEF BlockState
    <3> QED
      BY <1>2, <3>1 DEF BlockState, PageData
  <2>2. \A m \in LPN : where[m].page \in PageNo
    BY <1>2
  <2>3. /\ \A m \in LPN : where[m].block = Victim => erasing.data[where[m].page] = m
        /\ \A p \in ValidPages(erasing) : where[erasing.data[p]] = [block |-> Victim, page |-> p]
    BY <1>2 DEF NoPageLostMidway
  <2>4. ASSUME NEW m \in LPN, where[m].block = Victim
        PROVE  erasing'.data[where[m].page] = m
    <3>1. erasing.data[where[m].page] = m
      BY <2>3, <2>4
    <3>2. where[m].page # at
      BY <1>1, <1>3, <3>1
    <3> QED
      BY <2>1, <2>2, <3>1, <3>2
  <2>5. ASSUME NEW p \in PageNo, erasing'.data[p] \in LPN
        PROVE  where[erasing'.data[p]] = [block |-> Victim, page |-> p]
    <3>1. erasing'.data[p] = erasing.data[p]
      BY <2>1, <2>5, BlockAssumption
    <3> QED
      BY <2>3, <2>5, <3>1 DEF ValidPages
  <2> QED
    BY <1>2, <1>3, <2>4, <2>5 DEF NoPageLostMidway, ValidPages
<1>8. /\ erasing' = HalfErased(erasing0, filling0, at + 1)
      /\ filling' = CopyBlockAfter(more, filling0)
  BY <1>1, <1>2, <1>3, <1>4, <1>5
<1>9. where' \in [LPN -> [block : {Victim, Copy, Absent.block}, page : PageNo]]
  BY <1>2, <1>3
<1> QED
  BY <1>6, <1>7, <1>8, <1>9, IterationKeeps DEF more

(* All pages are seen, and the block has one erase less.                     *)
LEMMA ReturnKeeps ==
  ASSUME LoopInv, Return
  PROVE  LoopInv'
<1> DEFINE done == VictimAfter(erasing0, filling0)
           half == HalfErased(erasing0, filling0, BLOCK_SIZE)
<1>1. /\ at = BLOCK_SIZE /\ at' = BLOCK_SIZE + 1 /\ UNCHANGED <<filling, where, erasing0, filling0>>
      /\ erasing' = [erasing EXCEPT !.erases_remaining = WearOne(erasing)]
  BY DEF Return
<1>2. /\ BLOCK_SIZE \in Nat /\ BLOCK_SIZE > 0 /\ BLOCK_SIZE \in 0 .. BLOCK_SIZE
      /\ BLOCK_SIZE # BLOCK_SIZE + 1 /\ BLOCK_SIZE + 1 > 0 /\ BLOCK_SIZE + 1 >= BLOCK_SIZE
      /\ BLOCK_SIZE >= BLOCK_SIZE
      /\ BLOCK_SIZE + 1 \in Nat /\ BLOCK_SIZE + 1 \in 0 .. BLOCK_SIZE + 1
      /\ \A q \in PageNo : q < BLOCK_SIZE
  BY BlockAssumption DEF PageNo
<1>3. /\ erasing0 \in BlockState /\ filling0 \in BlockState /\ filling \in BlockState
      /\ where \in [LPN -> [block : {Victim, Copy, Absent.block}, page : PageNo]]
      /\ \A p, q \in ValidPages(erasing0) : erasing0.data[p] = erasing0.data[q] => p = q
      /\ CanErase(erasing0)
      /\ erasing = half /\ filling = CopyBlockAfter(Upto(erasing0, at), filling0)
      /\ \A p \in ValidPages(Upto(erasing0, at)) :
           where[erasing0.data[p]] = MovedTo(Upto(erasing0, at), filling0, p)
      /\ NoPageLostMidway
  BY <1>1, <1>2 DEF LoopInv, LoopTypeOK, Returned
<1>4. Upto(erasing0, BLOCK_SIZE) = erasing0 /\ Upto(erasing0, BLOCK_SIZE + 1) = erasing0
  BY <1>2, <1>3, UptoFacts
<1>5. done \in BlockState
  BY <1>3, VictimType
<1>6. erasing' = done /\ erasing'.data = erasing.data
  <2> DEFINE k == NumKept(erasing0, filling0)
             d == done.data
             r == WearOne(erasing0)
  <2>1. done = [data |-> d, pages_valid |-> k, pages_invalid |-> 0,
                min_seek_empty |-> k, erases_remaining |-> r]
    BY DEF VictimAfter
  <2>2. /\ half = [data |-> half.data, pages_valid |-> k, pages_invalid |-> 0,
                   min_seek_empty |-> k,
                   erases_remaining |-> erasing0.erases_remaining]
        /\ half.data = [q \in PageNo |-> IF q < BLOCK_SIZE THEN d[q] ELSE erasing0.data[q]]
    BY <1>2, <1>3, <1>4, HalfFacts
  <2>3. half.data = d
    <3>1. d = [q \in PageNo |-> d[q]]
      BY <1>5 DEF BlockState, PageData
    <3> HIDE DEF d, half
    <3> QED
      BY <1>2, <2>2, <3>1
  <2>4. WearOne(erasing) = r
    <3>1. erasing.erases_remaining = erasing0.erases_remaining
      BY <1>3, <2>2
    <3> QED
      BY <3>1 DEF WearOne
  <2> HIDE DEF half, done, d, k, r
  <2>5. erasing = [data |-> d, pages_valid |-> k, pages_invalid |-> 0,
                   min_seek_empty |-> k,
                   erases_remaining |-> erasing0.erases_remaining]
    BY <1>3, <2>2, <2>3
  <2> QED
    BY <1>1, <2>1, <2>4, <2>5
<1> HIDE DEF done, half
<1>7. LoopTypeOK'
  BY <1>1, <1>2, <1>3, <1>5, <1>6 DEF LoopTypeOK
<1>8. NoPageLostMidway'
  <2>1. ValidPages(erasing') = ValidPages(erasing)
    BY <1>6 DEF ValidPages
  <2> QED
    BY <1>1, <1>3, <1>6, <2>1 DEF NoPageLostMidway
<1>9. Returned' /\ (erasing = VictimAfter(erasing0, filling0))'
  BY <1>1, <1>6 DEF Returned, done
<1>10. (filling = CopyBlockAfter(Upto(erasing0, at), filling0))'
  BY <1>1, <1>3, <1>4
<1>11. (\A p \in ValidPages(Upto(erasing0, at)) :
          where[erasing0.data[p]] = MovedTo(Upto(erasing0, at), filling0, p))'
  <2>1. \A p \in ValidPages(erasing0) : where[erasing0.data[p]] = MovedTo(erasing0, filling0, p)
    BY <1>1, <1>3, <1>4
  <2> QED
    BY <1>1, <1>4, <2>1 DEF MovedTo
<1>12. (\A p, q \in ValidPages(erasing0) : erasing0.data[p] = erasing0.data[q] => p = q)'
  BY <1>1, <1>3
<1>13. (at > 0 => CanErase(erasing0))'
  BY <1>1, <1>3
<1> QED
  BY <1>7, <1>8, <1>9, <1>10, <1>11, <1>12, <1>13 DEF LoopInv

(* One case per branch of the loop.                                          *)
LEMMA LoopSteps == LoopInv /\ [LoopNext]_loopvars => LoopInv'
<1> SUFFICES ASSUME LoopInv, [LoopNext]_loopvars
             PROVE  LoopInv'
  OBVIOUS
<1>1. CASE Iterate
  <2>1. /\ at < BLOCK_SIZE /\ CanErase(erasing) /\ at' = at + 1
        /\ UNCHANGED <<erasing0, filling0>>
    BY <1>1 DEF Iterate
  <2>2. CASE CopyOut
    BY <2>1, <2>2, CopyOutKeeps
  <2>3. CASE Compact
    BY <2>1, <2>3, CompactKeeps
  <2>4. CASE Clear
    BY <2>1, <2>4, ClearKeeps
  <2> QED
    BY <1>1, <2>2, <2>3, <2>4 DEF Iterate
<1>2. CASE Return
  BY <1>2, ReturnKeeps
<1>3. CASE UNCHANGED loopvars
  BY <1>3 DEF loopvars, LoopInv, LoopTypeOK, NoPageLostMidway, Returned, MovedTo
<1> QED
  BY <1>1, <1>2, <1>3 DEF LoopNext

(* Before each iteration of the loop in Block::_erase_and_copy the two blocks *)
(* and the map are what a whole call makes of the pages it has seen.          *)
THEOREM LoopInvariant == LoopSpec => []LoopInv
<1> QED
  BY LoopStarts, LoopSteps, PTL DEF LoopSpec

(* When it returns, Block::_erase_and_copy has left both blocks, counters and *)
(* min_seek_empty included, and the map as the operators of FlashBlock say,   *)
(* which the FTL modules take for the whole call.                             *)
THEOREM LoopComputes == LoopSpec => []LoopComputesEraseAndCopy
<1>1. LoopInv => LoopComputesEraseAndCopy
  <2> SUFFICES ASSUME LoopInv, Returned
               PROVE  /\ erasing = VictimAfter(erasing0, filling0)
                      /\ filling = CopyBlockAfter(erasing0, filling0)
                      /\ \A p \in ValidPages(erasing0) :
                           where[erasing0.data[p]] = MovedTo(erasing0, filling0, p)
    BY DEF LoopComputesEraseAndCopy
  <2>1. at \in Nat /\ at >= BLOCK_SIZE
    BY BlockAssumption DEF Returned
  <2>2. Upto(erasing0, at) = erasing0
    BY <2>1, UptoFacts DEF LoopInv, LoopTypeOK
  <2> QED
    BY <2>2 DEF LoopInv
<1> QED
  BY <1>1, LoopInvariant, PTL

(* Between any two iterations the map reaches every logical page the two      *)
(* blocks hold, although the victim is compacted over pages still to be read. *)
THEOREM NoPageIsLostMidway == LoopSpec => []NoPageLostMidway
<1>1. LoopInv => NoPageLostMidway
  BY DEF LoopInv
<1> QED
  BY <1>1, LoopInvariant, PTL

=============================================================================
