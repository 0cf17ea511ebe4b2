------------------------------- MODULE Device -------------------------------
(***************************************************************************)
(* The hardware below Controller::issue: the packages, dies, planes and     *)
(* blocks an event passes through (ssd_ssd.cpp, ssd_package.cpp,            *)
(* ssd_die.cpp, ssd_plane.cpp) with the wear summaries they keep, and the   *)
(* bus it locks.  The FTL is any: it issues READ, WRITE and ERASE events on  *)
(* pages it may use so, with start times of its own, and when it trims it    *)
(* invalidates pages by a call to their Block.  No FTL issues MERGE.        *)
(*                                                                         *)
(* The build is the one with the plane's state (not NO_PLANE_STATE, not     *)
(* NO_BLOCK_STATE, not SINGLE_PLANE).  A block is known by its physical      *)
(* address, an event's page by its linear address.                         *)
(***************************************************************************)
EXTENDS Bus, FiniteSets

CONSTANTS
  PACKAGE_SIZE, DIE_SIZE, PLANE_SIZE, BLOCK_SIZE,
                  (* dies, planes, blocks and pages of each; the drive has   *)
                  (* NUM_CHANNELS packages                                   *)
  BLOCK_ERASES,
  CTRL, DATA,     (* BUS_CTRL_DELAY, BUS_DATA_DELAY                           *)
  READ_DELAY,     (* PAGE_READ_DELAY and the RAM's                            *)
  EMPTY, VALID, INVALID, NoEvent,
  STARTS,         (* bound: the start times of events                        *)
  MAX_LOCKS,      (* bound: the locks of a channel                            *)
  TRIMMED         (* bound: the pages an FTL's trim may invalidate           *)

ASSUME DeviceAssumption ==
  /\ {PACKAGE_SIZE, DIE_SIZE, PLANE_SIZE, BLOCK_SIZE} \subseteq Nat \ {0}
  /\ BLOCK_ERASES \in Nat
  /\ {CTRL, DATA} \subseteq Nat \ {0}
  /\ READ_DELAY \in Nat
  /\ Cardinality({EMPTY, VALID, INVALID}) = 3
  /\ STARTS \subseteq Nat
  /\ MAX_LOCKS \in Nat

Package == Channel
Die     == 0 .. PACKAGE_SIZE - 1
Plane   == 0 .. DIE_SIZE - 1
BlockNo == 0 .. PLANE_SIZE - 1
PageNo  == 0 .. BLOCK_SIZE - 1

-----------------------------------------------------------------------------
(* Address::set_linear_address                                             *)
Address(n) ==
  [page    |-> n % BLOCK_SIZE,
   block   |-> (n \div BLOCK_SIZE) % PLANE_SIZE,
   plane   |-> (n \div (BLOCK_SIZE * PLANE_SIZE)) % DIE_SIZE,
   die     |-> (n \div (BLOCK_SIZE * PLANE_SIZE * DIE_SIZE)) % PACKAGE_SIZE,
   package |-> (n \div (BLOCK_SIZE * PLANE_SIZE * DIE_SIZE * PACKAGE_SIZE))
                 % NUM_CHANNELS]

(* The physical address the constructors give the block p, d, l, b.          *)
PhysicalAddress(p, d, l, b) ==
  BLOCK_SIZE * (PLANE_SIZE * (DIE_SIZE * (PACKAGE_SIZE * p + d) + l) + b)

PhysicalBlock ==
  {PhysicalAddress(p, d, l, b) : p \in Package, d \in Die, l \in Plane, b \in BlockNo}

PageAddress == {b + i : b \in PhysicalBlock, i \in PageNo}

BlockAt(a) == PhysicalAddress(a.package, a.die, a.plane, a.block)

-----------------------------------------------------------------------------
VARIABLES
  pages,          (* the page states of every block                          *)
  remaining,      (* erases_remaining of every block                         *)
  free_blocks,    (* free_blocks of every plane                              *)
  least_worn,     (* least_worn of the drive, and of every package, die and  *)
                  (* plane in it, by their path                              *)
  event,          (* a READ between its command and its data, or NoEvent     *)
  miscounted      (* history: the planes a FREE block was erased or trimmed  *)
                  (* of                                                      *)

flashvars == <<pages, remaining, free_blocks, least_worn, miscounted>>
vars      == <<flashvars, event, busvars>>

PlanePath == Package \X Die \X Plane
DiePath   == Package \X Die

Paths == PlanePath \cup DiePath \cup {<<p>> : p \in Package} \cup {<<>>}

Init ==
  /\ BusInit
  /\ pages = [b \in PhysicalBlock |-> [i \in PageNo |-> EMPTY]]
  /\ remaining = [b \in PhysicalBlock |-> BLOCK_ERASES]
  /\ free_blocks = [l \in PlanePath |-> PLANE_SIZE]
  /\ least_worn = [u \in Paths |-> 0]
  /\ event = NoEvent
  /\ miscounted = {}

(* block state FREE                                                        *)
IsFree(block) == \A i \in PageNo : block[i] = EMPTY

PageState(n) == pages[BlockAt(Address(n))][Address(n).page]

PlaneOf(a) == <<a.package, a.die, a.plane>>

(* What the Page, Package and Block the event is passed down to answer.     *)
Readable(n) == PageState(n) = VALID

Written(n) == [pages EXCEPT ![BlockAt(Address(n))][Address(n).page] = VALID]

Replaced(flash, replaced) ==
  [c \in PhysicalBlock |-> [i \in PageNo |->
     IF c + i \in replaced THEN INVALID ELSE flash[c][i]]]

-----------------------------------------------------------------------------
MutantMostWorn(left, size) ==
  LET less == {i \in 1 .. size - 1 : left[i] < left[0]}
  IN  IF less = {} THEN 0 ELSE CHOOSE i \in less : \A j \in less : j <= i

(* update_wear_stats: max is never updated, so the last child that has more  *)
(* erases left than child 0 is taken for the least worn.                    *)
LeastWorn(left, size) ==
  LET more == {i \in 1 .. size - 1 : left[i] > left[0]}
  IN  IF more = {} THEN 0 ELSE CHOOSE i \in more : \A j \in more : j <= i

(* Plane::update_wear_stats compares its blocks.  The levels above pass the  *)
(* event's address down, so that each child answers with one block: the one  *)
(* in the place of the block that was erased.                               *)
LeastWornBlock(left, a) ==
  LeastWorn([i \in BlockNo |-> left[PhysicalAddress(a.package, a.die, a.plane, i)]],
            PLANE_SIZE)

LeastWornPlane(left, a) ==
  LeastWorn([i \in Plane |-> left[PhysicalAddress(a.package, a.die, i, a.block)]],
            DIE_SIZE)

LeastWornDie(left, a) ==
  LeastWorn([i \in Die |-> left[PhysicalAddress(a.package, i, a.plane, a.block)]],
            PACKAGE_SIZE)

LeastWornPackage(left, a) ==
  LeastWorn([i \in Package |-> left[PhysicalAddress(i, a.die, a.plane, a.block)]],
            NUM_CHANNELS)

(* Ssd, Package and Die::erase, each after its child.                        *)
WearUpdated(left, a) ==
  [least_worn EXCEPT
     ![PlaneOf(a)]           = LeastWornBlock(left, a),
     ![<<a.package, a.die>>] = LeastWornPlane(left, a),
     ![<<a.package>>]        = LeastWornDie(left, a),
     ![<<>>]                 = LeastWornPackage(left, a)]

(* Plane::get_least_worn                                                   *)
get_least_worn(l) == PhysicalAddress(l[1], l[2], l[3], least_worn[l])

-----------------------------------------------------------------------------
MayLock(n) == Len(booked[Address(n).package]) < MAX_LOCKS

Locked(n, start, duration) ==
  \E t \in Times(Address(n).package, start) :
    Lock(Address(n).package, start, duration, t)

(* Controller::issue of a READ, to the page: what follows needs a VALID one. *)
ReadCommand(n, start) ==
  /\ event = NoEvent
  /\ MayLock(n)
  /\ \E t \in Times(Address(n).package, start) :
       /\ Lock(Address(n).package, start, CTRL, t)
       /\ event' = IF Readable(n)
                     THEN [address |-> n, at |-> t + CTRL + READ_DELAY] ELSE NoEvent
  /\ UNCHANGED flashvars

(* The data comes back when the time taken so far has passed.               *)
ReadData ==
  /\ event # NoEvent
  /\ Locked(event.address, event.at, CTRL + DATA)
  /\ event' = NoEvent
  /\ UNCHANGED flashvars

MutantFreeCount(l, before, after) == free_blocks[l] - 1

(* Plane::write                                                            *)
FreeCountAfterWrite(l, before, after) ==
  IF IsFree(before) /\ ~IsFree(after) THEN free_blocks[l] - 1 ELSE free_blocks[l]

(* Controller::issue of a WRITE: the page is programmed, then the page it     *)
(* replaces, if any, is invalidated (Ssd::replace, down to Block::replace).  *)
Write(n, replaced, start) ==
  LET a     == Address(n)
      b     == BlockAt(a)
      after == Written(n)
  IN  /\ event = NoEvent
      /\ MayLock(n)
      /\ PageState(n) = EMPTY
      /\ \A r \in replaced : PageState(r) = VALID
      /\ Locked(n, start, CTRL + DATA)
      /\ free_blocks' = [free_blocks EXCEPT ![PlaneOf(a)] =
                           FreeCountAfterWrite(PlaneOf(a), pages[b], after[b])]
      /\ pages' = Replaced(after, replaced)
      /\ UNCHANGED <<remaining, least_worn, miscounted, event>>

(* Controller::issue of an ERASE.  A block without erases left stays as it   *)
(* is, and no summary changes.                                             *)
Erase(b, start) ==
  LET a    == Address(b)
      left == [remaining EXCEPT ![b] = @ - 1]
  IN  /\ event = NoEvent
      /\ MayLock(b)
      /\ Locked(b, start, CTRL)
      /\ IF remaining[b] < 1
           THEN UNCHANGED flashvars
           ELSE /\ pages' = [pages EXCEPT ![b] = [i \in PageNo |-> EMPTY]]
                /\ remaining' = left
                /\ free_blocks' = [free_blocks EXCEPT ![PlaneOf(a)] = @ + 1]
                /\ least_worn' = WearUpdated(left, a)
                /\ miscounted' = IF IsFree(pages[b])
                                   THEN miscounted \cup {PlaneOf(a)} ELSE miscounted
      /\ UNCHANGED event

(* Block::invalidate_page, called by trim() of BAST, FAST, DFTL and BDFTL: the *)
(* plane is not told, and does not learn that a FREE block is one no more.   *)
InvalidatePage(n) ==
  LET a == Address(n)
      b == BlockAt(a)
  IN  /\ event = NoEvent
      /\ pages' = [pages EXCEPT ![b][a.page] = INVALID]
      /\ miscounted' = IF IsFree(pages[b])
                         THEN miscounted \cup {PlaneOf(a)} ELSE miscounted
      /\ UNCHANGED <<remaining, free_blocks, least_worn, event, busvars>>

Next ==
  \/ \E n \in PageAddress, start \in STARTS :
       \/ ReadCommand(n, start)
       \/ \E replaced \in {{}} \cup {{r} : r \in PageAddress \ {n}} :
            Write(n, replaced, start)
  \/ \E b \in PhysicalBlock, start \in STARTS : Erase(b, start)
  \/ ReadData
  \/ \E n \in PageAddress \cap TRIMMED : InvalidatePage(n)

Spec == Init /\ [][Next]_vars

-----------------------------------------------------------------------------
(* A plane counts its FREE blocks by what writes and erases change; it is     *)
(* wrong only where a FREE block was erased or a page of one trimmed, and    *)
(* never too small.                                                        *)
FreeCountExact ==
  \A l \in PlanePath :
    LET free == {b \in BlockNo : IsFree(pages[PhysicalAddress(l[1], l[2], l[3], b)])}
    IN  /\ free_blocks[l] >= Cardinality(free)
        /\ l \notin miscounted => free_blocks[l] = Cardinality(free)

(* Although it need not be the least worn, the block a plane names has an     *)
(* erase left as long as one of its blocks has.                             *)
LeastWornHasErases ==
  \A l \in PlanePath : remaining[get_least_worn(l)] = 0 =>
    \A b \in BlockNo : remaining[PhysicalAddress(l[1], l[2], l[3], b)] = 0

(* The strengthening every step preserves: what a plane names is what         *)
(* update_wear_stats would answer now, for its blocks are erased through it.  *)
TypeOK ==
  /\ pages \in [PhysicalBlock -> [PageNo -> {EMPTY, VALID, INVALID}]]
  /\ remaining \in [PhysicalBlock -> Nat]
  /\ free_blocks \in [PlanePath -> Nat]
  /\ least_worn \in [Paths -> Nat]
  /\ miscounted \subseteq PlanePath

LeastWornIsCurrent ==
  \A l \in PlanePath :
    least_worn[l] = LeastWorn([b \in BlockNo |->
                       remaining[PhysicalAddress(l[1], l[2], l[3], b)]], PLANE_SIZE)

IInv == TypeOK /\ FreeCountExact /\ LeastWornIsCurrent

=============================================================================
