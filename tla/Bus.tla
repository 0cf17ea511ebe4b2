-------------------------------- MODULE Bus ---------------------------------
(***************************************************************************)
(* The bus (ssd_bus.cpp) and its channels (ssd_channel.cpp), one for each   *)
(* package.  A channel keeps a table of the times it is reserved for; lock   *)
(* drops the reservations that have run out at the start time of the event   *)
(* at hand, and reserves the first time that fits between the others.        *)
(*                                                                         *)
(* Times are natural numbers here.  The table is a vector that unlock sorts  *)
(* by lock_time before it is searched; it is a set here, as the lock times   *)
(* of disjoint reservations differ.                                        *)
(***************************************************************************)
EXTENDS Integers, Sequences

CONSTANT
  NUM_CHANNELS    (* num_channels: the packages of the drive                 *)

ASSUME BusAssumption == NUM_CHANNELS \in Nat \ {0}

Channel == 0 .. NUM_CHANNELS - 1

Reservation == [lock : Nat, unlock : Nat]

VARIABLES
  timings,        (* the table of every channel                              *)
  ready_at,       (* the latest unlock time of every channel, -1 at first    *)
  booked,         (* history: what each channel was ever reserved for, and   *)
                  (* whether the lock started before an earlier one did      *)
  clock           (* history: the latest start time lock was called with     *)

busvars == <<timings, ready_at, booked, clock>>

BusInit ==
  /\ timings = [c \in Channel |-> {}]
  /\ ready_at = [c \in Channel |-> -1]
  /\ booked = [c \in Channel |-> <<>>]
  /\ clock = [c \in Channel |-> 0]

-----------------------------------------------------------------------------
MutantUnlocksRunning(table, start) == {r \in table : r.lock > start}

(* Channel::unlock                                                         *)
Unlocked(table, start) == {r \in table : r.unlock > start}

FitsBefore(table, start, duration) ==
  \A r \in table : r.lock > start /\ r.lock - start >= duration

(* s is the entry after r in the sorted table.                              *)
Follows(table, r, s) ==
  /\ s.lock > r.lock
  /\ \A q \in table : q.lock > r.lock => q.lock >= s.lock

GapAfter(table, start, duration, r) ==
  /\ r.unlock >= start
  /\ \E s \in table : Follows(table, r, s) /\ s.lock - r.unlock >= duration

FirstGap(table, start, duration, r) ==
  /\ GapAfter(table, start, duration, r)
  /\ \A q \in table : GapAfter(table, start, duration, q) => r.lock <= q.lock

LastEntry(table, r) == \A q \in table : q.lock <= r.lock

(* sched_time is t: at once before the first entry, else in the first gap    *)
(* that is long enough, else behind the last entry.                         *)
Scheduled(table, start, duration, t) ==
  \/ FitsBefore(table, start, duration) /\ t = start
  \/ /\ ~FitsBefore(table, start, duration)
     /\ \E r \in table :
          /\ t = r.unlock
          /\ \/ FirstGap(table, start, duration, r)
             \/ /\ LastEntry(table, r)
                /\ \A q \in table : ~GapAfter(table, start, duration, q)

Times(c, start) == {start} \cup {r.unlock : r \in timings[c]}

(* Channel::lock, which schedules the event for time t.                     *)
Lock(c, start, duration, t) ==
  LET table == Unlocked(timings[c], start)
      r     == [lock |-> t, unlock |-> t + duration]
  IN  /\ Scheduled(table, start, duration, t)
      /\ timings' = [timings EXCEPT ![c] = table \cup {r}]
      /\ ready_at' = [ready_at EXCEPT ![c] = IF r.unlock > @ THEN r.unlock ELSE @]
      /\ booked' = [booked EXCEPT ![c] =
                      Append(@, [lock |-> t, unlock |-> t + duration,
                                 behind |-> start < clock[c]])]
      /\ clock' = [clock EXCEPT ![c] = IF start > @ THEN start ELSE @]

BusNext ==
  \E c \in Channel, start \in Nat, duration \in Nat \ {0}, t \in Nat :
    Lock(c, start, duration, t)

BusSpec == BusInit /\ [][BusNext]_busvars

-----------------------------------------------------------------------------
Disjoint(r, s) == r.unlock <= s.lock \/ s.unlock <= r.lock

(* The reservations a channel still knows of do not overlap.                *)
TableDisjoint ==
  \A c \in Channel : \A r, s \in timings[c] : r # s => Disjoint(r, s)

(* No time of a channel is given away twice, but to an event that starts     *)
(* before another one did that was locked earlier: by then the channel has   *)
(* dropped the reservations that had run out for the other one.             *)
NoDoubleBooking ==
  \A c \in Channel : \A i, j \in 1 .. Len(booked[c]) :
    i < j => Disjoint(booked[c][i], booked[c][j]) \/ booked[c][j].behind

(* The strengthening every lock preserves.                                  *)
BusInv ==
  /\ timings \in [Channel -> SUBSET Reservation]
  /\ booked \in [Channel -> Seq([lock : Nat, unlock : Nat, behind : BOOLEAN])]
  /\ clock \in [Channel -> Nat]
  /\ \A c \in Channel : \A r \in timings[c] : r.lock < r.unlock
  /\ \A c \in Channel : \A i \in 1 .. Len(booked[c]) :
       \/ booked[c][i].unlock <= clock[c]
       \/ [lock |-> booked[c][i].lock, unlock |-> booked[c][i].unlock] \in timings[c]
  /\ TableDisjoint
  /\ NoDoubleBooking

=============================================================================
