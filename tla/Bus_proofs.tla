----------------------------- MODULE Bus_proofs -----------------------------
(***************************************************************************)
(* The channels keep their reservations apart, for any number of channels,  *)
(* start times and durations, and the drive locks them in no other way.     *)
(* The drive's planes count their free blocks and name blocks that can be    *)
(* erased, for any geometry.                                               *)
(***************************************************************************)
EXTENDS Device, FiniteSetTheorems, SequenceTheorems, WellFoundedInduction, TLAPS

Booking == [lock : Nat, unlock : Nat, behind : BOOLEAN]

(* unlock leaves reservations that were in the table, none of which has run  *)
(* out at start.                                                           *)
LEMMA UnlockedKeeps ==
  ASSUME NEW table \in SUBSET Reservation, NEW start \in Nat
  PROVE  /\ Unlocked(table, start) \subseteq table
         /\ \A r \in Unlocked(table, start) : r.unlock > start
         /\ \A r \in table : r.unlock > start => r \in Unlocked(table, start)
BY DEF Unlocked

(* A scheduled time is not before the start of the event, and the time from  *)
(* it on is free in the table.                                             *)
LEMMA ScheduledFree ==
  ASSUME NEW table \in SUBSET Reservation,
         NEW start \in Nat, NEW duration \in Nat \ {0}, NEW t \in Nat,
         \A r \in table : r.lock < r.unlock /\ r.unlock > start,
         \A r, s \in table : r # s => Disjoint(r, s),
         Scheduled(table, start, duration, t)
  PROVE  /\ t >= start
         /\ \A q \in table : t + duration <= q.lock \/ q.unlock <= t
<1>0. \A r \in table : r.lock \in Nat /\ r.unlock \in Nat
  BY DEF Reservation
<1>1. CASE FitsBefore(table, start, duration) /\ t = start
  BY <1>0, <1>1 DEF FitsBefore
<1>2. CASE ~FitsBefore(table, start, duration)
  <2>1. PICK r \in table :
          /\ t = r.unlock
          /\ \/ FirstGap(table, start, duration, r)
             \/ LastEntry(table, r)
    BY <1>2 DEF Scheduled
  <2>2. t >= start
    BY <1>0, <2>1
  <2>3. SUFFICES ASSUME NEW q \in table
                 PROVE  t + duration <= q.lock \/ q.unlock <= t
    BY <2>2
  <2>4. CASE q.lock <= r.lock
    <3>1. CASE q = r
      BY <1>0, <2>1, <3>1
    <3>2. CASE q # r
      BY <1>0, <2>1, <2>4, <3>2 DEF Disjoint
    <3> QED BY <3>1, <3>2
  <2>5. CASE q.lock > r.lock
    <3>1. FirstGap(table, start, duration, r)
      BY <1>0, <2>1, <2>5 DEF LastEntry
    <3>2. PICK s \in table :
            Follows(table, r, s) /\ s.lock - r.unlock >= duration
      BY <3>1 DEF FirstGap, GapAfter
    <3>3. q.lock >= s.lock
      BY <2>5, <3>2 DEF Follows
    <3> QED BY <1>0, <2>1, <3>2, <3>3
  <2> QED BY <1>0, <2>4, <2>5
<1> QED BY <1>1, <1>2 DEF Scheduled

LEMMA BusInitInv == BusInit => BusInv
<1> SUFFICES ASSUME BusInit PROVE BusInv
  OBVIOUS
<1>1. \A c \in Channel : Len(booked[c]) = 0 /\ timings[c] = {}
  BY DEF BusInit
<1>2. /\ timings \in [Channel -> SUBSET Reservation]
      /\ booked \in [Channel -> Seq(Booking)]
      /\ clock \in [Channel -> Nat]
  BY DEF BusInit
<1> QED BY <1>1, <1>2 DEF BusInv, Booking, TableDisjoint, NoDoubleBooking

(* One lock preserves the invariant.                                        *)
LEMMA LockInv ==
  ASSUME BusInv, NEW c \in Channel, NEW start \in Nat,
         NEW duration \in Nat \ {0}, NEW t \in Nat,
         Lock(c, start, duration, t)
  PROVE  BusInv'
<1> DEFINE table == Unlocked(timings[c], start)
           r     == [lock |-> t, unlock |-> t + duration]
           entry == [lock |-> t, unlock |-> t + duration, behind |-> start < clock[c]]
<1>1. /\ timings \in [Channel -> SUBSET Reservation]
      /\ booked \in [Channel -> Seq(Booking)]
      /\ clock \in [Channel -> Nat]
  BY DEF BusInv, Booking
<1>2. /\ Scheduled(table, start, duration, t)
      /\ timings' = [timings EXCEPT ![c] = table \cup {r}]
      /\ booked' = [booked EXCEPT ![c] = Append(@, entry)]
      /\ clock' = [clock EXCEPT ![c] = IF start > @ THEN start ELSE @]
  BY DEF Lock
<1>3. /\ table \subseteq timings[c]
      /\ table \in SUBSET Reservation
      /\ \A q \in table : q.unlock > start
      /\ \A q \in timings[c] : q.unlock > start => q \in table
  BY <1>1, UnlockedKeeps
<1>4. /\ \A q \in table : q.lock < q.unlock /\ q.unlock > start
      /\ \A q, s \in table : q # s => Disjoint(q, s)
  BY <1>3 DEF BusInv, TableDisjoint
<1>5. /\ t >= start
      /\ \A q \in table : t + duration <= q.lock \/ q.unlock <= t
  <2> HIDE DEF table
  <2> QED BY <1>2, <1>3, <1>4, ScheduledFree
<1>6. r \in Reservation /\ entry \in Booking
  BY DEF Reservation, Booking
<1>7. /\ timings'[c] = table \cup {r}
      /\ booked'[c] = Append(booked[c], entry)
      /\ clock'[c] = IF start > clock[c] THEN start ELSE clock[c]
  BY <1>1, <1>2
<1>8. \A d \in Channel : d # c => /\ timings'[d] = timings[d]
                                  /\ booked'[d] = booked[d]
                                  /\ clock'[d] = clock[d]
  BY <1>1, <1>2
<1>9. /\ Len(booked'[c]) = Len(booked[c]) + 1
      /\ \A i \in 1 .. Len(booked[c]) : booked'[c][i] = booked[c][i]
      /\ booked'[c][Len(booked[c]) + 1] = entry
      /\ Len(booked[c]) \in Nat
  BY <1>1, <1>6, <1>7
<1>10. \A i \in 1 .. Len(booked[c]) :
         /\ booked[c][i] \in Booking
         /\ booked[c][i].lock \in Nat /\ booked[c][i].unlock \in Nat
  <2>1. booked[c] \in Seq(Booking)
    BY <1>1
  <2>2. SUFFICES ASSUME NEW i \in 1 .. Len(booked[c]) PROVE booked[c][i] \in Booking
    BY DEF Booking
  <2> QED BY <2>1, <2>2
<1>11. /\ timings' \in [Channel -> SUBSET Reservation]
       /\ booked' \in [Channel -> Seq(Booking)]
       /\ clock' \in [Channel -> Nat]
  <2>1. Append(booked[c], entry) \in Seq(Booking)
    BY <1>1, <1>6
  <2>2. table \cup {r} \in SUBSET Reservation
    BY <1>3, <1>6
  <2> HIDE DEF table, r, entry
  <2> QED BY <1>1, <1>2, <2>1, <2>2
<1>12. \A d \in Channel : \A q \in timings'[d] : q.lock < q.unlock
  <2>1. r.lock < r.unlock
    OBVIOUS
  <2>2. \A q \in timings'[c] : q.lock < q.unlock
    <3> HIDE DEF table, r
    <3> QED BY <1>4, <1>7, <2>1
  <2> HIDE DEF table, r
  <2> QED BY <1>8, <2>2 DEF BusInv
<1>13. \A d \in Channel : \A i \in 1 .. Len(booked'[d]) :
         \/ booked'[d][i].unlock <= clock'[d]
         \/ [lock |-> booked'[d][i].lock, unlock |-> booked'[d][i].unlock]
              \in timings'[d]
  <2>1. SUFFICES ASSUME NEW i \in 1 .. Len(booked'[c])
                 PROVE \/ booked'[c][i].unlock <= clock'[c]
                       \/ [lock |-> booked'[c][i].lock,
                           unlock |-> booked'[c][i].unlock] \in timings'[c]
    BY <1>8 DEF BusInv
  <2>2. CASE i = Len(booked[c]) + 1
    BY <1>7, <1>9, <2>2
  <2>3. CASE i \in 1 .. Len(booked[c])
    <3> DEFINE old == [lock |-> booked[c][i].lock, unlock |-> booked[c][i].unlock]
    <3>1. booked[c][i].unlock <= clock[c] \/ old \in timings[c]
      BY <2>3 DEF BusInv
    <3>2. CASE booked[c][i].unlock <= clock[c]
      BY <1>1, <1>7, <1>9, <1>10, <2>3, <3>2
    <3>3. CASE old \in timings[c]
      <4>1. old \in table \/ old.unlock <= start
        BY <1>3, <1>10, <2>3, <3>3
      <4> QED BY <1>1, <1>7, <1>9, <1>10, <2>3, <4>1
    <3> QED BY <3>1, <3>2, <3>3
  <2> QED BY <1>9, <2>2, <2>3
<1>14. TableDisjoint'
  <2>1. \A q, s \in table \cup {r} : q # s => Disjoint(q, s)
    <3>1. \A q \in table : Disjoint(q, r) /\ Disjoint(r, q)
      BY <1>5 DEF Disjoint
    <3> QED BY <1>4, <3>1
  <2> QED BY <1>7, <1>8, <2>1 DEF BusInv, TableDisjoint
<1>15. NoDoubleBooking'
  <2>1. SUFFICES ASSUME NEW i \in 1 .. Len(booked'[c]), NEW j \in 1 .. Len(booked'[c]),
                        i < j
                 PROVE  Disjoint(booked'[c][i], booked'[c][j]) \/ booked'[c][j].behind
    BY <1>8 DEF BusInv, NoDoubleBooking
  <2>2. CASE j \in 1 .. Len(booked[c])
    <3>1. i \in 1 .. Len(booked[c])
      BY <1>9, <2>1, <2>2
    <3>2. Disjoint(booked[c][i], booked[c][j]) \/ booked[c][j].behind
      BY <2>1, <2>2, <3>1 DEF BusInv, NoDoubleBooking
    <3>3. booked'[c][i] = booked[c][i] /\ booked'[c][j] = booked[c][j]
      BY <1>9, <2>2, <3>1
    <3> QED BY <3>2, <3>3
  <2>3. CASE j = Len(booked[c]) + 1 /\ ~(start < clock[c])
    <3>1. i \in 1 .. Len(booked[c])
      BY <1>9, <2>1, <2>3
    <3> DEFINE old == [lock |-> booked[c][i].lock, unlock |-> booked[c][i].unlock]
    <3>2. booked[c][i].unlock <= clock[c] \/ old \in timings[c]
      BY <3>1 DEF BusInv
    <3>3. booked[c][i].unlock <= t \/ t + duration <= booked[c][i].lock
      <4>1. CASE booked[c][i].unlock <= start
        BY <1>5, <1>10, <3>1, <4>1
      <4>2. CASE ~(booked[c][i].unlock <= start)
        <5>1. old \in timings[c] /\ old.unlock > start
          BY <1>1, <1>10, <2>3, <3>1, <3>2, <4>2
        <5> QED BY <1>3, <1>5, <5>1
      <4> QED BY <4>1, <4>2
    <3>4. booked'[c][i] = booked[c][i] /\ booked'[c][j] = entry
      BY <1>9, <2>3, <3>1
    <3>5. Disjoint(booked[c][i], entry)
      BY <1>10, <3>1, <3>3 DEF Disjoint
    <3> HIDE DEF entry
    <3> QED BY <3>4, <3>5
  <2>4. CASE j = Len(booked[c]) + 1 /\ start < clock[c]
    <3>1. booked'[c][j] = entry
      BY <1>9, <2>4
    <3>2. entry.behind = (start < clock[c])
      OBVIOUS
    <3> HIDE DEF entry
    <3> QED BY <2>4, <3>1, <3>2
  <2> QED BY <1>9, <2>2, <2>3, <2>4
<1> QED BY <1>11, <1>12, <1>13, <1>14, <1>15 DEF BusInv, Booking

LEMMA BusStutter == BusInv /\ UNCHANGED busvars => BusInv'
BY DEF BusInv, busvars, TableDisjoint, NoDoubleBooking

(* The bus keeps its reservations apart, whoever locks it.                   *)
THEOREM BusInvariant == BusSpec => []BusInv
<1>1. BusInv /\ [BusNext]_busvars => BusInv'
  BY LockInv, BusStutter DEF BusNext
<1> QED BY BusInitInv, <1>1, PTL DEF BusSpec

-----------------------------------------------------------------------------
(* The event between two locks has an address and a time.                   *)
EventInv ==
  event # NoEvent => event \in [address : PageAddress, at : Nat]

LEMMA PhysicalBlockInt == PhysicalBlock \subseteq Int
<1>1. SUFFICES ASSUME NEW p \in Package, NEW d \in Die, NEW l \in Plane, NEW b \in BlockNo
               PROVE  PhysicalAddress(p, d, l, b) \in Int
  BY DEF PhysicalBlock
<1>2. p \in Int /\ d \in Int /\ l \in Int /\ b \in Int
  BY DEF Package, Channel, Die, Plane, BlockNo
<1>3. PACKAGE_SIZE \in Int /\ DIE_SIZE \in Int /\ PLANE_SIZE \in Int /\ BLOCK_SIZE \in Int
  BY DeviceAssumption
<1>4. PACKAGE_SIZE * p + d \in Int
  BY <1>2, <1>3
<1>5. DIE_SIZE * (PACKAGE_SIZE * p + d) + l \in Int
  BY <1>2, <1>3, <1>4
<1>6. PLANE_SIZE * (DIE_SIZE * (PACKAGE_SIZE * p + d) + l) + b \in Int
  BY <1>2, <1>3, <1>5
<1> QED BY <1>3, <1>6 DEF PhysicalAddress

LEMMA PageAddressInt == PageAddress \subseteq Int
BY PhysicalBlockInt DEF PageAddress, PageNo

LEMMA ProductPositive ==
  ASSUME NEW x \in Nat \ {0}, NEW y \in Nat \ {0}
  PROVE  x * y \in Nat \ {0}
OBVIOUS

(* The address of an event names a channel.                                 *)
LEMMA AddressPackage ==
  ASSUME NEW n \in Int
  PROVE  Address(n).package \in Channel
<1> DEFINE size == BLOCK_SIZE * PLANE_SIZE * DIE_SIZE * PACKAGE_SIZE
<1>1. size \in Nat \ {0}
  <2>1. /\ BLOCK_SIZE \in Nat \ {0} /\ PLANE_SIZE \in Nat \ {0}
        /\ DIE_SIZE \in Nat \ {0} /\ PACKAGE_SIZE \in Nat \ {0}
    BY DeviceAssumption
  <2>2. BLOCK_SIZE * PLANE_SIZE \in Nat \ {0}
    BY <2>1, ProductPositive
  <2>3. BLOCK_SIZE * PLANE_SIZE * DIE_SIZE \in Nat \ {0}
    BY <2>1, <2>2, ProductPositive
  <2> QED BY <2>1, <2>3, ProductPositive
<1>2. Address(n).package = (n \div size) % NUM_CHANNELS
  BY DEF Address
<1> HIDE DEF size
<1>3. n \div size \in Int
  BY <1>1
<1> QED BY <1>2, <1>3, BusAssumption DEF Channel

LEMMA TimesNat ==
  ASSUME BusInv, NEW c \in Channel, NEW start \in Nat
  PROVE  Times(c, start) \subseteq Nat
BY DEF BusInv, Times, Reservation

(* A lock of the drive is a step of the bus.                                *)
LEMMA LockedIsBusStep ==
  ASSUME BusInv, NEW n \in PageAddress, NEW start \in Nat,
         NEW duration \in Nat \ {0}, NEW t \in Times(Address(n).package, start),
         Lock(Address(n).package, start, duration, t)
  PROVE  BusNext /\ t \in Nat
<1>1. Address(n).package \in Channel
  BY PageAddressInt, AddressPackage
<1>2. t \in Nat
  BY <1>1, TimesNat
<1> QED BY <1>1, <1>2 DEF BusNext

LEMMA DelaysPositive ==
  /\ CTRL \in Nat \ {0}
  /\ CTRL + DATA \in Nat \ {0}
  /\ READ_DELAY \in Nat
  /\ STARTS \subseteq Nat
BY DeviceAssumption

(* The blocks an ERASE names by the address of their page 0.                 *)
LEMMA BlockIsAddress == PhysicalBlock \subseteq PageAddress
<1>1. SUFFICES ASSUME NEW b \in PhysicalBlock PROVE b \in PageAddress
  OBVIOUS
<1>2. 0 \in PageNo
  BY DeviceAssumption DEF PageNo
<1>3. b + 0 = b
  BY PhysicalBlockInt
<1> QED BY <1>1, <1>2, <1>3 DEF PageAddress

(* Whatever the drive does, it does to the bus by locking it; a trim leaves   *)
(* the bus alone.                                                          *)
LEMMA NextIsBusStep ==
  ASSUME BusInv, EventInv, Next
  PROVE  [BusNext]_busvars /\ EventInv'
<1>1. ASSUME NEW n \in PageAddress, NEW start \in STARTS, ReadCommand(n, start)
      PROVE  BusNext /\ EventInv'
  <2>1. PICK t \in Times(Address(n).package, start) :
          /\ Lock(Address(n).package, start, CTRL, t)
          /\ event' = IF Readable(n)
                        THEN [address |-> n, at |-> t + CTRL + READ_DELAY] ELSE NoEvent
    BY <1>1 DEF ReadCommand
  <2>2. BusNext /\ t \in Nat
    BY <2>1, DelaysPositive, LockedIsBusStep
  <2>3. t + CTRL + READ_DELAY \in Nat
    BY <2>2, DelaysPositive
  <2>4. EventInv'
    BY <2>1, <2>3 DEF EventInv
  <2> QED BY <2>2, <2>4
<1>2. ASSUME NEW n \in PageAddress, NEW start \in Nat, NEW duration \in Nat \ {0},
             Locked(n, start, duration)
      PROVE  BusNext
  BY <1>2, LockedIsBusStep DEF Locked
<1>3. ASSUME ReadData
      PROVE  BusNext /\ EventInv'
  <2>1. event.address \in PageAddress /\ event.at \in Nat
    BY <1>3 DEF ReadData, EventInv
  <2> QED BY <1>2, <1>3, <2>1, DelaysPositive DEF ReadData, EventInv
<1>4. ASSUME NEW n \in PageAddress, NEW start \in STARTS, NEW replaced,
             Write(n, replaced, start)
      PROVE  BusNext /\ EventInv'
  <2>1. start \in Nat
    BY DelaysPositive
  <2>2. Locked(n, start, CTRL + DATA) /\ event = NoEvent /\ event' = event
    BY <1>4 DEF Write
  <2> QED BY <1>2, <2>1, <2>2, DelaysPositive DEF EventInv
<1>5. ASSUME NEW b \in PhysicalBlock, NEW start \in STARTS, Erase(b, start)
      PROVE  BusNext /\ EventInv'
  <2>1. start \in Nat /\ b \in PageAddress
    BY DelaysPositive, BlockIsAddress
  <2>2. Locked(b, start, CTRL) /\ event = NoEvent /\ event' = event
    BY <1>5 DEF Erase
  <2> QED BY <1>2, <2>1, <2>2, DelaysPositive DEF EventInv
<1>6. ASSUME NEW n \in PageAddress, InvalidatePage(n)
      PROVE  UNCHANGED busvars /\ EventInv'
  BY <1>6 DEF InvalidatePage, EventInv
<1> QED BY <1>1, <1>3, <1>4, <1>5, <1>6 DEF Next

(* The drive locks the bus as the bus module says, READs in two parts        *)
(* included, for any geometry, delays and start times.                      *)
THEOREM DeviceInvariant == Spec => [](BusInv /\ EventInv)
<1>1. Init => BusInv /\ EventInv
  BY BusInitInv DEF Init, EventInv
<1>2. BusInv /\ EventInv /\ [Next]_vars => (BusInv /\ EventInv)'
  <2>1. CASE Next
    BY <2>1, NextIsBusStep, LockInv, BusStutter DEF BusNext
  <2>2. CASE UNCHANGED vars
    BY <2>2, BusStutter DEF vars, EventInv
  <2> QED BY <2>1, <2>2
<1> QED BY <1>1, <1>2, PTL DEF Spec

(* No time of a channel is given to two events, but to one that starts       *)
(* before another event did that came earlier (Channel::lock, unlock).      *)
THEOREM BusSafe == Spec => []NoDoubleBooking
<1>1. BusInv => NoDoubleBooking
  BY DEF BusInv
<1> QED BY <1>1, DeviceInvariant, PTL

(* Every run of the drive is a run of the bus.                              *)
THEOREM ImplementsBus == Spec => BusSpec
<1>1. Init => BusInit
  BY DEF Init
<1>2. BusInv /\ EventInv /\ [Next]_vars => [BusNext]_busvars
  <2>1. CASE Next
    BY <2>1, NextIsBusStep
  <2>2. CASE UNCHANGED vars
    BY <2>2 DEF vars
  <2> QED BY <2>1, <2>2
<1> QED BY <1>1, <1>2, DeviceInvariant, PTL DEF Spec, BusSpec

-----------------------------------------------------------------------------
(* Addresses: the linear address of a page gives back the path it was made    *)
(* of, one digit after the other.                                           *)

LEMMA SizesPositive ==
  /\ BLOCK_SIZE \in Nat \ {0} /\ PLANE_SIZE \in Nat \ {0} /\ DIE_SIZE \in Nat \ {0}
  /\ PACKAGE_SIZE \in Nat \ {0} /\ NUM_CHANNELS \in Nat \ {0}
BY DeviceAssumption, BusAssumption

LEMMA Digit ==
  ASSUME NEW m \in Nat \ {0}, NEW q \in Int, NEW r \in 0 .. m - 1
  PROVE  (m * q + r) % m = r /\ (m * q + r) \div m = q
<1> DEFINE n == m * q + r
<1>1. n \in Int /\ m * q \in Int
  OBVIOUS
<1>2. n = m * (n \div m) + (n % m) /\ n % m \in 0 .. m - 1 /\ n \div m \in Int
  BY <1>1
<1> DEFINE k == n \div m
<1>3. m * (q - k) = (n % m) - r
  BY <1>1, <1>2
<1>4. q - k = 0
  <2>1. q - k >= 1 => m * (q - k) >= m
    BY <1>2
  <2>2. q - k <= -1 => m * (q - k) <= -m
    BY <1>2
  <2>3. (n % m) - r < m /\ (n % m) - r > -m
    BY <1>2
  <2> QED
    BY <1>2, <1>3, <2>1, <2>2, <2>3
<1> QED
  BY <1>2, <1>3, <1>4

(* A number below a product in two digits.                                  *)
LEMMA Digits ==
  ASSUME NEW m \in Nat \ {0}, NEW k \in Nat \ {0}, NEW q \in 0 .. k - 1, NEW r \in 0 .. m - 1
  PROVE  m * q + r \in 0 .. m * k - 1
<1>1. m * q >= 0 /\ m * q <= m * (k - 1)
  OBVIOUS
<1> QED
  BY <1>1


Path(p, d, l, b, i) == [page |-> i, block |-> b, plane |-> l, die |-> d, package |-> p]

LEMMA AddressOfPage ==
  ASSUME NEW p \in Package, NEW d \in Die, NEW l \in Plane, NEW b \in BlockNo,
         NEW i \in PageNo
  PROVE  Address(PhysicalAddress(p, d, l, b) + i) = Path(p, d, l, b, i)
<1> DEFINE B == BLOCK_SIZE
           x1 == PACKAGE_SIZE * p + d
           x2 == DIE_SIZE * x1 + l
           x3 == PLANE_SIZE * x2 + b
           n  == BLOCK_SIZE * x3 + i
           B2 == BLOCK_SIZE * PLANE_SIZE
           B3 == BLOCK_SIZE * PLANE_SIZE * DIE_SIZE
           B4 == BLOCK_SIZE * PLANE_SIZE * DIE_SIZE * PACKAGE_SIZE
           r2 == BLOCK_SIZE * b + i
           r3 == B2 * l + r2
           r4 == B3 * d + r3
<1>1. /\ p \in 0 .. NUM_CHANNELS - 1 /\ d \in 0 .. PACKAGE_SIZE - 1
      /\ l \in 0 .. DIE_SIZE - 1 /\ b \in 0 .. PLANE_SIZE - 1
      /\ i \in 0 .. BLOCK_SIZE - 1
  BY DEF Package, Channel, Die, Plane, BlockNo, PageNo
<1>2. x1 \in Int /\ x2 \in Int /\ x3 \in Int
  <2>1. x1 \in Int
    BY <1>1, SizesPositive
  <2> HIDE DEF x1
  <2>2. x2 \in Int
    BY <1>1, <2>1, SizesPositive
  <2> HIDE DEF x2
  <2> QED
    BY <1>1, <2>1, <2>2, SizesPositive
<1>3. B2 \in Nat \ {0} /\ B3 \in Nat \ {0} /\ B4 \in Nat \ {0}
  <2>1. B2 \in Nat \ {0}
    BY SizesPositive, ProductPositive
  <2>2. B3 \in Nat \ {0}
    BY <2>1, SizesPositive, ProductPositive
  <2> QED
    BY <2>1, <2>2, SizesPositive, ProductPositive
<1>4. r2 \in 0 .. B2 - 1
  BY <1>1, SizesPositive, Digits
<1>5. r3 \in 0 .. B3 - 1
  <2> HIDE DEF r2, B2
  <2>1. B3 = B2 * DIE_SIZE
    BY DEF B2
  <2> QED
    BY <1>1, <1>3, <1>4, <2>1, SizesPositive, Digits
<1>6. r4 \in 0 .. B4 - 1
  <2> HIDE DEF r3, B3
  <2>1. B4 = B3 * PACKAGE_SIZE
    BY DEF B3
  <2> QED
    BY <1>1, <1>3, <1>5, <2>1, SizesPositive, Digits
<1>7. n = B2 * x2 + r2
  <2> HIDE DEF x2
  <2> QED
    BY <1>1, <1>2, SizesPositive
<1>8. n = B3 * x1 + r3
  <2> HIDE DEF x1
  <2>1. B2 * x2 = B3 * x1 + B2 * l
    <3>1. B3 = B2 * DIE_SIZE
      OBVIOUS
    <3> HIDE DEF B2, B3
    <3> QED
      BY <1>1, <1>2, <1>3, <3>1, SizesPositive
  <2> HIDE DEF B2, B3, r2, n, x2
  <2> QED
    BY <1>1, <1>2, <1>3, <1>4, <1>7, <2>1, SizesPositive
<1>9. n = B4 * p + r4
  <2>1. B3 * x1 = B4 * p + B3 * d
    <3>1. B4 = B3 * PACKAGE_SIZE
      OBVIOUS
    <3> HIDE DEF B4, B3
    <3> QED
      BY <1>1, <1>2, <1>3, <3>1, SizesPositive
  <2> HIDE DEF B4, B3, r3, n, x1
  <2> QED
    BY <1>1, <1>2, <1>3, <1>5, <1>8, <2>1, SizesPositive
<1>10. n % BLOCK_SIZE = i /\ n \div BLOCK_SIZE = x3
  <2> HIDE DEF x3
  <2> QED
    BY <1>1, <1>2, SizesPositive, Digit
<1>11. n \div B2 = x2 /\ n \div B3 = x1 /\ n \div B4 = p
  <2> HIDE DEF B2, B3, B4, x2, x1, r2, r3, r4, n
  <2>1. n \div B2 = x2
    BY <1>2, <1>3, <1>4, <1>7, Digit
  <2>2. n \div B3 = x1
    BY <1>2, <1>3, <1>5, <1>8, Digit
  <2>3. n \div B4 = p
    <3>1. p \in Int
      BY <1>1
    <3> QED
      BY <3>1, <1>3, <1>6, <1>9, Digit
  <2> QED
    BY <2>1, <2>2, <2>3
<1>12. x3 % PLANE_SIZE = b
  <2> HIDE DEF x2
  <2> QED
    BY <1>1, <1>2, SizesPositive, Digit
<1>13. x2 % DIE_SIZE = l
  <2> HIDE DEF x1
  <2> QED
    BY <1>1, <1>2, SizesPositive, Digit
<1>14. x1 % PACKAGE_SIZE = d
  <2>1. p \in Int
    BY <1>1
  <2> QED
    BY <2>1, <1>1, SizesPositive, Digit
<1>15. p % NUM_CHANNELS = p
  BY <1>1, SizesPositive
<1>16. PhysicalAddress(p, d, l, b) + i = n
  BY DEF PhysicalAddress
<1> HIDE DEF n, x1, x2, x3, r2, r3, r4
<1> QED
  BY <1>10, <1>11, <1>12, <1>13, <1>14, <1>15, <1>16 DEF Address, Path


(* A block by its plane and its place there.                                *)
BlockIn(l, b) == PhysicalAddress(l[1], l[2], l[3], b)

LEMMA BlockPath ==
  ASSUME NEW l \in PlanePath, NEW b \in BlockNo
  PROVE  /\ BlockIn(l, b) \in PhysicalBlock /\ BlockIn(l, b) \in Int
         /\ \A i \in PageNo :
              LET a == Address(BlockIn(l, b) + i)
              IN  /\ BlockAt(a) = BlockIn(l, b) /\ PlaneOf(a) = l
                  /\ a.page = i /\ a.block = b
                  /\ a.package = l[1] /\ a.die = l[2] /\ a.plane = l[3]
<1>1. l[1] \in Package /\ l[2] \in Die /\ l[3] \in Plane /\ l = <<l[1], l[2], l[3]>>
  BY DEF PlanePath
<1>2. BlockIn(l, b) \in PhysicalBlock
  BY <1>1 DEF PhysicalBlock, BlockIn
<1>3. ASSUME NEW i \in PageNo
      PROVE  Address(BlockIn(l, b) + i) = Path(l[1], l[2], l[3], b, i)
  BY <1>1, AddressOfPage DEF BlockIn
<1>4. ASSUME NEW i \in PageNo, NEW a, a = Path(l[1], l[2], l[3], b, i)
      PROVE  /\ BlockAt(a) = BlockIn(l, b) /\ PlaneOf(a) = l
             /\ a.page = i /\ a.block = b
             /\ a.package = l[1] /\ a.die = l[2] /\ a.plane = l[3]
  BY <1>1, <1>4 DEF BlockAt, PlaneOf, BlockIn, Path
<1> QED
  BY <1>2, <1>3, <1>4, PhysicalBlockInt

LEMMA PathOfBlock ==
  ASSUME NEW c \in PhysicalBlock
  PROVE  \E l \in PlanePath, b \in BlockNo : c = BlockIn(l, b)
<1>1. PICK p \in Package, d \in Die, m \in Plane, b \in BlockNo :
        c = PhysicalAddress(p, d, m, b)
  BY DEF PhysicalBlock
<1>2. <<p, d, m>> \in PlanePath /\ c = BlockIn(<<p, d, m>>, b)
  BY <1>1 DEF PlanePath, BlockIn
<1> QED
  BY <1>2

LEMMA PathOfPage ==
  ASSUME NEW n \in PageAddress
  PROVE  \E l \in PlanePath, b \in BlockNo, i \in PageNo : n = BlockIn(l, b) + i
BY PathOfBlock DEF PageAddress

LEMMA PathsDiffer ==
  ASSUME NEW l \in PlanePath, NEW b \in BlockNo, NEW i \in PageNo,
         NEW m \in PlanePath, NEW c \in BlockNo, NEW j \in PageNo,
         BlockIn(l, b) + i = BlockIn(m, c) + j
  PROVE  l = m /\ b = c /\ i = j
BY BlockPath

LEMMA FirstPage ==
  ASSUME NEW c \in PhysicalBlock
  PROVE  c + 0 = c /\ 0 \in PageNo
BY PhysicalBlockInt, SizesPositive DEF PageNo

LEMMA BlocksDiffer ==
  ASSUME NEW l \in PlanePath, NEW b \in BlockNo, NEW m \in PlanePath, NEW c \in BlockNo,
         BlockIn(l, b) = BlockIn(m, c)
  PROVE  l = m /\ b = c
BY BlockPath, PathsDiffer, FirstPage

-----------------------------------------------------------------------------
(* The number of FREE blocks of a plane.                                    *)
FreeIn(l) == {b \in BlockNo : IsFree(pages[BlockIn(l, b)])}

LEMMA FreeInFinite ==
  ASSUME NEW l
  PROVE  IsFiniteSet(FreeIn(l)) /\ Cardinality(FreeIn(l)) \in Nat
<1>1. IsFiniteSet(BlockNo)
  BY SizesPositive, FS_Interval DEF BlockNo
<1>2. IsFiniteSet(FreeIn(l))
  BY <1>1, FS_Subset DEF FreeIn
<1> QED
  BY <1>2, FS_CardinalityType

LEMMA FreeCountMeans ==
  FreeCountExact <=>
    \A l \in PlanePath : /\ free_blocks[l] >= Cardinality(FreeIn(l))
                         /\ l \notin miscounted => free_blocks[l] = Cardinality(FreeIn(l))
BY DEF FreeCountExact, FreeIn, BlockIn

LEMMA StatesDiffer == EMPTY # VALID /\ EMPTY # INVALID /\ VALID # INVALID
<1>1. ASSUME NEW x, NEW y PROVE Cardinality({x, y}) # 3
  <2>1. Cardinality({x}) = 1 /\ IsFiniteSet({x})
    BY FS_Singleton
  <2>2. {x, y} = {x} \cup {y}
    OBVIOUS
  <2>3. Cardinality({x} \cup {y}) = 1 \/ Cardinality({x} \cup {y}) = 2
    BY <2>1, FS_AddElement
  <2> QED
    BY <2>2, <2>3
<1>2. {EMPTY, EMPTY, INVALID} = {EMPTY, INVALID}
  OBVIOUS
<1>3. Cardinality({EMPTY, VALID, INVALID}) = 3
  BY DeviceAssumption
<1>4. EMPTY = VALID => {EMPTY, VALID, INVALID} = {EMPTY, INVALID}
  OBVIOUS
<1>5. EMPTY = INVALID => {EMPTY, VALID, INVALID} = {EMPTY, VALID}
  OBVIOUS
<1>6. VALID = INVALID => {EMPTY, VALID, INVALID} = {EMPTY, VALID}
  OBVIOUS
<1> QED
  BY <1>1, <1>3, <1>4, <1>5, <1>6

(* A block that is programmed is not FREE, and no other one changes.         *)
LEMMA WriteFree ==
  ASSUME TypeOK, NEW n \in PageAddress, NEW replaced \in SUBSET PageAddress,
         PageState(n) = EMPTY, \A r \in replaced : PageState(r) = VALID,
         pages' = Replaced(Written(n), replaced)
  PROVE  /\ pages' \in [PhysicalBlock -> [PageNo -> {EMPTY, VALID, INVALID}]]
         /\ \E m \in PlanePath, c \in BlockNo :
              /\ PlaneOf(Address(n)) = m /\ BlockAt(Address(n)) = BlockIn(m, c)
              /\ ~IsFree(Written(n)[BlockIn(m, c)])
              /\ \A l \in PlanePath : FreeIn(l)' = IF l = m THEN FreeIn(l) \ {c} ELSE FreeIn(l)
<1>1. PICK m \in PlanePath, c \in BlockNo, j \in PageNo : n = BlockIn(m, c) + j
  BY PathOfPage
<1> DEFINE bl == BlockIn(m, c)
<1>2. /\ PlaneOf(Address(n)) = m /\ BlockAt(Address(n)) = bl
      /\ Address(n).page = j /\ bl \in PhysicalBlock
  BY <1>1, BlockPath
<1>3. pages[bl][j] = EMPTY
  BY <1>2 DEF PageState
<1>4. ASSUME NEW l \in PlanePath, NEW b \in BlockNo, NEW i \in PageNo,
             BlockIn(l, b) + i \in replaced
      PROVE  pages[BlockIn(l, b)][i] = VALID
  <2>1. PageState(BlockIn(l, b) + i) = VALID
    BY <1>4
  <2> QED
    BY <2>1, BlockPath DEF PageState
<1>5. pages \in [PhysicalBlock -> [PageNo -> {EMPTY, VALID, INVALID}]]
  BY DEF TypeOK
<1> HIDE DEF bl
<1>6. Written(n) = [pages EXCEPT ![bl] = [pages[bl] EXCEPT ![j] = VALID]]
  BY <1>2 DEF Written
<1>7. Written(n) \in [PhysicalBlock -> [PageNo -> {EMPTY, VALID, INVALID}]]
  BY <1>2, <1>5, <1>6
<1>8. pages' \in [PhysicalBlock -> [PageNo -> {EMPTY, VALID, INVALID}]]
  BY <1>7 DEF Replaced
<1>9. Written(n)[bl][j] = VALID
  BY <1>2, <1>5, <1>6
<1>10. ~IsFree(Written(n)[bl])
  BY <1>9, StatesDiffer DEF IsFree
<1>11. ASSUME NEW l \in PlanePath, NEW b \in BlockNo
       PROVE  IsFree(pages'[BlockIn(l, b)]) <=>
                IsFree(pages[BlockIn(l, b)]) /\ ~(l = m /\ b = c)
  <2>1. BlockIn(l, b) \in PhysicalBlock
    BY BlockPath
  <2>2. \A i \in PageNo : pages'[BlockIn(l, b)][i] =
           IF BlockIn(l, b) + i \in replaced THEN INVALID ELSE Written(n)[BlockIn(l, b)][i]
    BY <2>1 DEF Replaced
  <2>3. CASE l = m /\ b = c
    <3>1. pages'[bl][j] # EMPTY
      BY <1>9, <2>2, <2>3, StatesDiffer DEF bl
    <3> QED
      BY <2>3, <3>1 DEF IsFree, bl
  <2>4. CASE ~(l = m /\ b = c)
    <3>1. BlockIn(l, b) # bl
      BY <2>4, BlocksDiffer DEF bl
    <3>2. Written(n)[BlockIn(l, b)] = pages[BlockIn(l, b)]
      BY <1>6, <1>5, <2>1, <3>1
    <3>3. \A i \in PageNo : pages'[BlockIn(l, b)][i] = EMPTY <=> pages[BlockIn(l, b)][i] = EMPTY
      BY <1>4, <2>2, <3>2, StatesDiffer
    <3> QED
      BY <2>4, <3>3 DEF IsFree
  <2> QED
    BY <2>3, <2>4
<1>12. ASSUME NEW l \in PlanePath
       PROVE  FreeIn(l)' = IF l = m THEN FreeIn(l) \ {c} ELSE FreeIn(l)
  BY <1>11 DEF FreeIn
<1> QED
  BY <1>2, <1>8, <1>10, <1>12 DEF bl

(* The last of the blocks that have more erases left than block 0.            *)
LEMMA GreatestMember ==
  ASSUME NEW S, NEW n \in Nat, S \subseteq 0 .. n, S # {}
  PROVE  \E x \in S : \A y \in S : y <= x
<1> DEFINE T == {n - x : x \in S}
<1>1. T \subseteq Nat /\ T # {}
  <2>1. \A x \in S : n - x \in Nat
    OBVIOUS
  <2>2. \E x \in S : n - x \in T
    OBVIOUS
  <2> QED
    BY <2>1, <2>2
<1>2. PICK t \in T : \A u \in T : ~(<<u, t>> \in OpToRel(<, Nat))
  BY <1>1, NatLessThanWellFounded, WFMin
<1>3. \A u \in T : ~(u < t)
  BY <1>1, <1>2 DEF OpToRel
<1> QED
  BY <1>3

LEMMA LeastWornType ==
  ASSUME NEW left, NEW size \in Nat \ {0}
  PROVE  LET more == {i \in 1 .. size - 1 : left[i] > left[0]}
         IN  /\ LeastWorn(left, size) \in 0 .. size - 1
             /\ more = {} => LeastWorn(left, size) = 0
             /\ more # {} => LeastWorn(left, size) \in more
<1> DEFINE more == {i \in 1 .. size - 1 : left[i] > left[0]}
<1>1. more \subseteq 0 .. size - 1 /\ size - 1 \in Nat
  OBVIOUS
<1>2. CASE more = {}
  BY <1>1, <1>2 DEF LeastWorn
<1>3. CASE more # {}
  <2>1. \E x \in more : \A y \in more : y <= x
    BY <1>1, <1>3, GreatestMember
  <2>2. LeastWorn(left, size) = CHOOSE x \in more : \A y \in more : y <= x
    BY <1>3 DEF LeastWorn
  <2> HIDE DEF more
  <2>3. LeastWorn(left, size) \in more
    BY <2>1, <2>2
  <2> QED
    BY <1>1, <1>3, <2>3 DEF more
<1> QED
  BY <1>2, <1>3

Left(l) == [b \in BlockNo |-> remaining[BlockIn(l, b)]]

LEMMA LeastWornMeans ==
  LeastWornIsCurrent <=> \A l \in PlanePath : least_worn[l] = LeastWorn(Left(l), PLANE_SIZE)
BY DEF LeastWornIsCurrent, Left, BlockIn

(* A plane names a block that can be erased as long as it has one.            *)
LEMMA NamedBlockHasErases == TypeOK /\ LeastWornIsCurrent => LeastWornHasErases
<1> SUFFICES ASSUME TypeOK, LeastWornIsCurrent,
                    NEW l \in PlanePath, remaining[get_least_worn(l)] = 0,
                    NEW b \in BlockNo
             PROVE  remaining[BlockIn(l, b)] = 0
  BY DEF LeastWornHasErases, BlockIn
<1> DEFINE left == Left(l)
           w    == least_worn[l]
           more == {i \in 1 .. PLANE_SIZE - 1 : left[i] > left[0]}
<1>1. w = LeastWorn(left, PLANE_SIZE)
  BY LeastWornMeans
<1>2. left \in [BlockNo -> Nat]
  BY BlockPath DEF Left, TypeOK
<1>3. BlockNo = 0 .. PLANE_SIZE - 1 /\ PLANE_SIZE \in Nat \ {0}
  BY SizesPositive DEF BlockNo
<1>4. \A i \in BlockNo : left[i] = remaining[BlockIn(l, i)]
  BY DEF Left
<1> HIDE DEF left
<1>5. w \in 0 .. PLANE_SIZE - 1 /\ (more = {} => w = 0) /\ (more # {} => w \in more)
  BY <1>1, <1>3, LeastWornType
<1>6. left[w] = 0
  BY <1>3, <1>4, <1>5 DEF get_least_worn, BlockIn
<1> HIDE DEF w
<1>7. more = {}
  BY <1>2, <1>3, <1>5, <1>6
<1>8. left[b] = 0
  <2>1. w = 0 /\ left[0] = 0
    BY <1>5, <1>6, <1>7
  <2>2. b = 0 \/ b \in 1 .. PLANE_SIZE - 1
    BY <1>3
  <2> QED
    BY <1>2, <1>3, <1>7, <2>1, <2>2
<1> QED
  BY <1>4, <1>8

-----------------------------------------------------------------------------
(* Init and the steps.                                                      *)
LEMMA DeviceInit == Init => IInv
<1> SUFFICES ASSUME Init PROVE IInv
  OBVIOUS
<1>1. /\ pages = [b \in PhysicalBlock |-> [i \in PageNo |-> EMPTY]]
      /\ remaining = [b \in PhysicalBlock |-> BLOCK_ERASES]
      /\ free_blocks = [l \in PlanePath |-> PLANE_SIZE]
      /\ least_worn = [u \in Paths |-> 0]
      /\ miscounted = {}
  BY DEF Init
<1>2. BLOCK_ERASES \in Nat /\ PlanePath \subseteq Paths
  BY DeviceAssumption DEF Paths
<1>3. TypeOK
  BY <1>1, <1>2, SizesPositive DEF TypeOK
<1>4. ASSUME NEW l \in PlanePath
      PROVE  Cardinality(FreeIn(l)) = PLANE_SIZE
  <2>1. FreeIn(l) = BlockNo
    BY <1>1, BlockPath DEF FreeIn, IsFree
  <2>2. Cardinality(0 .. PLANE_SIZE - 1) = PLANE_SIZE
    BY SizesPositive, FS_Interval
  <2> QED
    BY <2>1, <2>2 DEF BlockNo
<1>5. FreeCountExact
  BY <1>1, <1>4, SizesPositive, FreeCountMeans
<1>6. LeastWornIsCurrent
  <2>1. SUFFICES ASSUME NEW l \in PlanePath
                 PROVE  LeastWorn(Left(l), PLANE_SIZE) = 0
    BY <1>1, <1>2, LeastWornMeans
  <2>2. ASSUME NEW i \in BlockNo
        PROVE  Left(l)[i] = BLOCK_ERASES
    BY <1>1, BlockPath DEF Left
  <2>3. {i \in 1 .. PLANE_SIZE - 1 : Left(l)[i] > Left(l)[0]} = {}
    BY <1>2, <2>2, SizesPositive DEF BlockNo
  <2> QED
    BY <2>3, SizesPositive, LeastWornType
<1> QED
  BY <1>3, <1>5, <1>6 DEF IInv

LEMMA WriteInvariant ==
  ASSUME IInv, NEW n \in PageAddress, NEW replaced \in SUBSET PageAddress, NEW start,
         Write(n, replaced, start)
  PROVE  IInv'
<1>1. /\ TypeOK /\ FreeCountExact /\ LeastWornIsCurrent
      /\ PageState(n) = EMPTY /\ \A r \in replaced : PageState(r) = VALID
      /\ pages' = Replaced(Written(n), replaced)
      /\ free_blocks' = [free_blocks EXCEPT ![PlaneOf(Address(n))] =
           FreeCountAfterWrite(PlaneOf(Address(n)), pages[BlockAt(Address(n))],
                               Written(n)[BlockAt(Address(n))])]
      /\ UNCHANGED <<remaining, least_worn, miscounted>>
  BY DEF IInv, Write
<1>2. /\ pages' \in [PhysicalBlock -> [PageNo -> {EMPTY, VALID, INVALID}]]
      /\ \E m \in PlanePath, c \in BlockNo :
           /\ PlaneOf(Address(n)) = m /\ BlockAt(Address(n)) = BlockIn(m, c)
           /\ ~IsFree(Written(n)[BlockIn(m, c)])
           /\ \A l \in PlanePath : FreeIn(l)' = IF l = m THEN FreeIn(l) \ {c} ELSE FreeIn(l)
  BY <1>1, WriteFree
<1>3. PICK m \in PlanePath, c \in BlockNo :
        /\ PlaneOf(Address(n)) = m /\ BlockAt(Address(n)) = BlockIn(m, c)
        /\ ~IsFree(Written(n)[BlockIn(m, c)])
        /\ \A l \in PlanePath : FreeIn(l)' = IF l = m THEN FreeIn(l) \ {c} ELSE FreeIn(l)
  BY <1>2
<1>4. free_blocks \in [PlanePath -> Nat]
  BY <1>1 DEF TypeOK
<1>5. \A l \in PlanePath : free_blocks'[l] =
        IF l = m /\ c \in FreeIn(m) THEN free_blocks[l] - 1 ELSE free_blocks[l]
  BY <1>1, <1>3, <1>4 DEF FreeCountAfterWrite, FreeIn
<1>6. ASSUME NEW l \in PlanePath
      PROVE  Cardinality(FreeIn(l)') =
               IF l = m /\ c \in FreeIn(m) THEN Cardinality(FreeIn(l)) - 1
                                           ELSE Cardinality(FreeIn(l))
  BY <1>3, FreeInFinite, FS_RemoveElement
<1>7. \A l \in PlanePath : Cardinality(FreeIn(l)) \in Nat /\ Cardinality(FreeIn(l)') \in Nat
  <2>1. \A l \in PlanePath : Cardinality(FreeIn(l)) \in Nat
    BY FreeInFinite
  <2>2. \A l \in PlanePath : IsFiniteSet(FreeIn(l) \ {c}) /\ IsFiniteSet(FreeIn(l))
    BY FreeInFinite, FS_RemoveElement
  <2>3. \A l \in PlanePath : IsFiniteSet(FreeIn(l)')
    BY <1>3, <2>2
  <2> QED
    BY <2>1, <2>3, FS_CardinalityType
<1>8. \A l \in PlanePath : /\ free_blocks[l] >= Cardinality(FreeIn(l))
                           /\ l \notin miscounted => free_blocks[l] = Cardinality(FreeIn(l))
  BY <1>1, FreeCountMeans
<1>9. \A l \in PlanePath : /\ free_blocks'[l] >= Cardinality(FreeIn(l)')
                           /\ l \notin miscounted' => free_blocks'[l] = Cardinality(FreeIn(l)')
  BY <1>1, <1>4, <1>5, <1>6, <1>7, <1>8
<1>10. FreeCountExact'
  BY <1>9 DEF FreeCountExact, FreeIn, BlockIn
<1>11. free_blocks' \in [PlanePath -> Nat]
  <2>1. free_blocks' \in [PlanePath -> Int]
    BY <1>1, <1>3, <1>4 DEF FreeCountAfterWrite
  <2> QED
    BY <1>7, <1>9, <2>1
<1>12. TypeOK'
  BY <1>1, <1>2, <1>11 DEF TypeOK
<1>13. LeastWornIsCurrent'
  BY <1>1 DEF LeastWornIsCurrent
<1> QED
  BY <1>10, <1>12, <1>13 DEF IInv

(* The summaries of the four levels have paths of their own.                  *)
LEMMA PathLengths ==
  ASSUME NEW l \in PlanePath, NEW d \in DiePath, NEW p
  PROVE  l # d /\ l # <<p>> /\ l # << >>
<1>1. l = <<l[1], l[2], l[3]>> /\ d = <<d[1], d[2]>>
  BY DEF PlanePath, DiePath
<1>2. Len(<<l[1], l[2], l[3]>>) = 3 /\ Len(<<d[1], d[2]>>) = 2 /\ Len(<<p>>) = 1
      /\ Len(<< >>) = 0
  OBVIOUS
<1>3. Len(l) = 3 /\ Len(d) = 2
  BY <1>1, <1>2
<1>4. 3 # 2 /\ 3 # 1 /\ 3 # 0
  OBVIOUS
<1>5. l # d
  BY <1>3, <1>4
<1>6. l # <<p>>
  BY <1>2, <1>3, <1>4
<1>7. l # << >>
  BY <1>2, <1>3, <1>4
<1> QED
  BY <1>5, <1>6, <1>7

LEMMA WearUpdatedFacts ==
  ASSUME TypeOK, NEW left, NEW m \in PlanePath, NEW a, PlaneOf(a) = m
  PROVE  /\ WearUpdated(left, a) \in [Paths -> Nat]
         /\ \A l \in PlanePath : WearUpdated(left, a)[l] =
              IF l = m THEN LeastWornBlock(left, a) ELSE least_worn[l]
<1> DEFINE w1 == LeastWornBlock(left, a)
           w2 == LeastWornPlane(left, a)
           w3 == LeastWornDie(left, a)
           w4 == LeastWornPackage(left, a)
           d  == <<a.package, a.die>>
           p  == <<a.package>>
<1>1. w1 \in Nat /\ w2 \in Nat /\ w3 \in Nat /\ w4 \in Nat
  BY SizesPositive, LeastWornType
  DEF LeastWornBlock, LeastWornPlane, LeastWornDie, LeastWornPackage
<1>2. m = <<a.package, a.die, a.plane>>
  BY DEF PlaneOf
<1>3. a.package \in Package /\ a.die \in Die
  BY <1>2 DEF PlanePath
<1>4. m \in Paths /\ d \in Paths /\ p \in Paths /\ << >> \in Paths /\ d \in DiePath
      /\ PlanePath \subseteq Paths
  BY <1>3 DEF Paths, DiePath
<1>5. \A l \in PlanePath : l # d /\ l # p /\ l # << >>
  BY <1>4, PathLengths
<1>6. WearUpdated(left, a) =
        [least_worn EXCEPT ![m] = w1, ![d] = w2, ![p] = w3, ![<< >>] = w4]
  BY DEF WearUpdated
<1>7. least_worn \in [Paths -> Nat]
  BY DEF TypeOK
<1> HIDE DEF w1, w2, w3, w4, d, p
<1>8. WearUpdated(left, a) \in [Paths -> Nat]
  BY <1>1, <1>4, <1>6, <1>7
<1>9. ASSUME NEW l \in PlanePath
      PROVE  WearUpdated(left, a)[l] = IF l = m THEN w1 ELSE least_worn[l]
  BY <1>4, <1>5, <1>6, <1>7
<1> QED
  BY <1>8, <1>9 DEF w1

LEMMA EraseInvariant ==
  ASSUME IInv, NEW e \in PhysicalBlock, NEW start, Erase(e, start)
  PROVE  IInv'
<1>0. TypeOK /\ FreeCountExact /\ LeastWornIsCurrent
  BY DEF IInv
<1>1. CASE UNCHANGED flashvars
  <2>1. UNCHANGED <<pages, remaining, free_blocks, least_worn, miscounted>>
    BY <1>1 DEF flashvars
  <2> QED
    BY <1>0, <2>1 DEF IInv, TypeOK, FreeCountExact, LeastWornIsCurrent, get_least_worn, IsFree
<1>2. CASE ~UNCHANGED flashvars
  <2> DEFINE a    == Address(e)
             left == [remaining EXCEPT ![e] = @ - 1]
  <2>1. /\ ~(remaining[e] < 1)
        /\ pages' = [pages EXCEPT ![e] = [i \in PageNo |-> EMPTY]]
        /\ remaining' = left
        /\ free_blocks' = [free_blocks EXCEPT ![PlaneOf(a)] = @ + 1]
        /\ least_worn' = WearUpdated(left, a)
        /\ miscounted' = IF IsFree(pages[e]) THEN miscounted \cup {PlaneOf(a)} ELSE miscounted
    BY <1>2 DEF Erase
  <2>2. PICK m \in PlanePath, c \in BlockNo : e = BlockIn(m, c)
    BY PathOfBlock
  <2>3. /\ PlaneOf(a) = m
        /\ a.package = m[1] /\ a.die = m[2] /\ a.plane = m[3]
    <3>1. e + 0 = e /\ 0 \in PageNo
      BY FirstPage
    <3> QED
      BY <2>2, <3>1, BlockPath
  <2>4. /\ pages \in [PhysicalBlock -> [PageNo -> {EMPTY, VALID, INVALID}]]
        /\ remaining \in [PhysicalBlock -> Nat]
        /\ free_blocks \in [PlanePath -> Nat]
        /\ miscounted \subseteq PlanePath
    BY <1>0 DEF TypeOK
  <2> HIDE DEF a
  <2>5. left \in [PhysicalBlock -> Nat]
    BY <2>1, <2>4
  <2> HIDE DEF left
  <2>6. least_worn' \in [Paths -> Nat]
        /\ \A l \in PlanePath : least_worn'[l] =
             IF l = m THEN LeastWornBlock(left, a) ELSE least_worn[l]
    BY <1>0, <2>1, <2>3, WearUpdatedFacts
  <2>7. TypeOK'
    <3>1. pages' \in [PhysicalBlock -> [PageNo -> {EMPTY, VALID, INVALID}]]
      BY <2>1, <2>4
    <3>2. free_blocks' \in [PlanePath -> Nat]
      BY <2>1, <2>3, <2>4
    <3>3. miscounted' \subseteq PlanePath
      BY <2>1, <2>3, <2>4
    <3> QED
      BY <2>1, <2>5, <2>6, <3>1, <3>2, <3>3 DEF TypeOK
  <2>8. ASSUME NEW l \in PlanePath, NEW b \in BlockNo
        PROVE  IsFree(pages'[BlockIn(l, b)]) <=> IsFree(pages[BlockIn(l, b)]) \/ (l = m /\ b = c)
    <3>1. BlockIn(l, b) \in PhysicalBlock
      BY BlockPath
    <3>2. CASE l = m /\ b = c
      BY <2>1, <2>2, <2>4, <3>1, <3>2 DEF IsFree
    <3>3. CASE ~(l = m /\ b = c)
      <4>1. BlockIn(l, b) # e
        BY <2>2, <3>3, BlocksDiffer
      <4> QED
        BY <2>1, <2>4, <3>1, <3>3, <4>1
    <3> QED
      BY <3>2, <3>3
  <2>9. \A l \in PlanePath : FreeIn(l)' = IF l = m THEN FreeIn(l) \cup {c} ELSE FreeIn(l)
    BY <2>8 DEF FreeIn
  <2>10. ASSUME NEW l \in PlanePath
         PROVE  /\ Cardinality(FreeIn(l)) \in Nat
                /\ Cardinality(FreeIn(l)') =
                     IF l = m /\ c \notin FreeIn(m) THEN Cardinality(FreeIn(l)) + 1
                                                    ELSE Cardinality(FreeIn(l))
    BY <2>9, FreeInFinite, FS_AddElement
  <2>11. c \in FreeIn(m) <=> IsFree(pages[e])
    BY <2>2 DEF FreeIn
  <2>12. \A l \in PlanePath : /\ free_blocks[l] >= Cardinality(FreeIn(l))
                              /\ l \notin miscounted => free_blocks[l] = Cardinality(FreeIn(l))
    BY <1>0, FreeCountMeans
  <2>13. \A l \in PlanePath : /\ free_blocks'[l] >= Cardinality(FreeIn(l)')
                              /\ l \notin miscounted' => free_blocks'[l] = Cardinality(FreeIn(l)')
    <3>1. \A l \in PlanePath : free_blocks'[l] =
            IF l = m THEN free_blocks[l] + 1 ELSE free_blocks[l]
      BY <2>1, <2>3, <2>4
    <3> QED
      BY <2>1, <2>3, <2>4, <2>10, <2>11, <2>12, <3>1
  <2>14. FreeCountExact'
    BY <2>13 DEF FreeCountExact, FreeIn, BlockIn
  <2>15. ASSUME NEW l \in PlanePath
         PROVE  least_worn'[l] = LeastWorn(Left(l)', PLANE_SIZE)
    <3>1. CASE l = m
      <4>1. LeastWornBlock(left, a) = LeastWorn([i \in BlockNo |-> left[BlockIn(m, i)]], PLANE_SIZE)
        BY <2>3 DEF LeastWornBlock, BlockIn
      <4>2. Left(l)' = [i \in BlockNo |-> left[BlockIn(m, i)]]
        BY <2>1, <3>1 DEF Left
      <4> QED
        BY <2>6, <3>1, <4>1, <4>2
    <3>2. CASE l # m
      <4>1. \A i \in BlockNo : BlockIn(l, i) # e /\ BlockIn(l, i) \in PhysicalBlock
        BY <2>2, <3>2, BlocksDiffer, BlockPath
      <4>2. Left(l)' = Left(l)
        BY <2>1, <2>4, <4>1 DEF Left, left
      <4> QED
        BY <1>0, <2>6, <3>2, <4>2, LeastWornMeans
    <3> QED
      BY <3>1, <3>2
  <2>16. LeastWornIsCurrent'
    BY <2>15 DEF LeastWornIsCurrent, Left, BlockIn
  <2> QED
    BY <2>7, <2>14, <2>16 DEF IInv
<1> QED
  BY <1>1, <1>2

(* A page that is invalidated takes its block out of the FREE ones, if it was   *)
(* one of them, and its plane among the miscounted then.                     *)
LEMMA InvalidateInvariant ==
  ASSUME IInv, NEW n \in PageAddress, InvalidatePage(n)
  PROVE  IInv'
<1>1. /\ TypeOK /\ FreeCountExact /\ LeastWornIsCurrent
      /\ pages' = [pages EXCEPT ![BlockAt(Address(n))][Address(n).page] = INVALID]
      /\ miscounted' = IF IsFree(pages[BlockAt(Address(n))])
                         THEN miscounted \cup {PlaneOf(Address(n))} ELSE miscounted
      /\ UNCHANGED <<remaining, free_blocks, least_worn>>
  BY DEF IInv, InvalidatePage
<1>2. PICK m \in PlanePath, c \in BlockNo, j \in PageNo : n = BlockIn(m, c) + j
  BY PathOfPage
<1> DEFINE bl == BlockIn(m, c)
<1>3. /\ PlaneOf(Address(n)) = m /\ BlockAt(Address(n)) = bl
      /\ Address(n).page = j /\ bl \in PhysicalBlock
  BY <1>2, BlockPath
<1>4. /\ pages \in [PhysicalBlock -> [PageNo -> {EMPTY, VALID, INVALID}]]
      /\ miscounted \subseteq PlanePath
      /\ free_blocks \in [PlanePath -> Nat]
  BY <1>1 DEF TypeOK
<1> HIDE DEF bl
<1>5. pages' = [pages EXCEPT ![bl] = [pages[bl] EXCEPT ![j] = INVALID]]
  BY <1>1, <1>3
<1>6. TypeOK'
  <2>1. pages' \in [PhysicalBlock -> [PageNo -> {EMPTY, VALID, INVALID}]]
    BY <1>3, <1>4, <1>5
  <2>2. miscounted' \subseteq PlanePath
    BY <1>1, <1>3, <1>4
  <2> QED
    BY <1>1, <2>1, <2>2 DEF TypeOK
<1>7. ASSUME NEW l \in PlanePath, NEW b \in BlockNo
      PROVE  IsFree(pages'[BlockIn(l, b)]) <=>
               IsFree(pages[BlockIn(l, b)]) /\ ~(l = m /\ b = c)
  <2>1. CASE l = m /\ b = c
    <3>1. pages'[bl][j] = INVALID
      BY <1>3, <1>4, <1>5
    <3> QED
      BY <2>1, <3>1, StatesDiffer DEF IsFree, bl
  <2>2. CASE ~(l = m /\ b = c)
    <3>1. BlockIn(l, b) # bl
      BY <2>2, BlocksDiffer DEF bl
    <3> QED
      BY <1>4, <1>5, <2>2, <3>1, BlockPath
  <2> QED
    BY <2>1, <2>2
<1>8. \A l \in PlanePath : FreeIn(l)' = IF l = m THEN FreeIn(l) \ {c} ELSE FreeIn(l)
  BY <1>7 DEF FreeIn
<1>9. c \in FreeIn(m) => m \in miscounted'
  BY <1>1, <1>3 DEF FreeIn, bl
<1>10. ASSUME NEW l \in PlanePath
       PROVE  /\ free_blocks'[l] >= Cardinality(FreeIn(l)')
              /\ l \notin miscounted' => free_blocks'[l] = Cardinality(FreeIn(l)')
  <2>1. /\ free_blocks[l] >= Cardinality(FreeIn(l)) /\ free_blocks[l] \in Nat
        /\ l \notin miscounted => free_blocks[l] = Cardinality(FreeIn(l))
    BY <1>1, <1>4, FreeCountMeans
  <2>2. Cardinality(FreeIn(l)) \in Nat /\ miscounted \subseteq miscounted'
    BY <1>1, FreeInFinite
  <2>3. CASE l = m /\ c \in FreeIn(m)
    <3>1. Cardinality(FreeIn(l)') = Cardinality(FreeIn(l)) - 1
      BY <1>8, <2>3, FreeInFinite, FS_RemoveElement
    <3> QED
      BY <1>1, <1>9, <2>1, <2>2, <2>3, <3>1
  <2>4. CASE ~(l = m /\ c \in FreeIn(m))
    <3>1. FreeIn(l)' = FreeIn(l)
      BY <1>8, <2>4
    <3> QED
      BY <1>1, <2>1, <2>2, <3>1
  <2> QED
    BY <2>3, <2>4
<1>11. FreeCountExact'
  BY <1>10 DEF FreeCountExact, FreeIn, BlockIn
<1>12. LeastWornIsCurrent'
  BY <1>1 DEF LeastWornIsCurrent
<1> QED
  BY <1>6, <1>11, <1>12 DEF IInv

LEMMA DeviceNext == IInv /\ [Next]_vars => IInv'
<1> SUFFICES ASSUME IInv, [Next]_vars PROVE IInv'
  OBVIOUS
<1>1. CASE UNCHANGED flashvars
  <2>1. UNCHANGED <<pages, remaining, free_blocks, least_worn, miscounted>>
    BY <1>1 DEF flashvars
  <2> QED
    BY <2>1 DEF IInv, TypeOK, FreeCountExact, LeastWornIsCurrent, IsFree
<1>2. CASE UNCHANGED vars
  BY <1>1, <1>2 DEF vars
<1>3. ASSUME NEW n \in PageAddress, NEW start \in STARTS, ReadCommand(n, start)
      PROVE  IInv'
  BY <1>1, <1>3 DEF ReadCommand
<1>4. CASE ReadData
  BY <1>1, <1>4 DEF ReadData
<1>5. ASSUME NEW n \in PageAddress, NEW start \in STARTS,
             NEW replaced \in {{}} \cup {{r} : r \in PageAddress \ {n}},
             Write(n, replaced, start)
      PROVE  IInv'
  <2>1. replaced \in SUBSET PageAddress
    BY <1>5
  <2> QED
    BY <1>5, <2>1, WriteInvariant
<1>6. ASSUME NEW e \in PhysicalBlock, NEW start \in STARTS, Erase(e, start)
      PROVE  IInv'
  BY <1>6, EraseInvariant
<1>7. ASSUME NEW n \in PageAddress, InvalidatePage(n)
      PROVE  IInv'
  BY <1>7, InvalidateInvariant
<1> QED
  BY <1>2, <1>3, <1>4, <1>5, <1>6, <1>7 DEF Next

(* The hardware below the bus keeps its summaries, for any geometry: the       *)
(* types, the count of free blocks and the block each plane names.            *)
THEOREM FlashInvariant == Spec => []IInv
BY DeviceInit, DeviceNext, PTL DEF Spec

(* Plane::write and Plane::erase count the FREE blocks of a plane right, but    *)
(* for a block that is erased, or has a page trimmed, while it is FREE, and   *)
(* never too low.                                                          *)
THEOREM FreeCountSafe == Spec => []FreeCountExact
<1>1. IInv => FreeCountExact
  BY DEF IInv
<1> QED BY <1>1, FlashInvariant, PTL

(* Plane::update_wear_stats, which is wrong about the least worn block, is     *)
(* right in that the block it names can be erased if any block can.           *)
THEOREM LeastWornSafe == Spec => []LeastWornHasErases
<1>1. IInv => LeastWornHasErases
  BY NamedBlockHasErases DEF IInv
<1> QED BY <1>1, FlashInvariant, PTL

=============================================================================
