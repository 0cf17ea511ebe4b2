---------------------------- MODULE LogicalDisk -----------------------------
(***************************************************************************)
(* What an FTL promises its caller (Ssd::event_arrive): a disk of logical   *)
(* pages, each of which can be read at any time, except the one whose write *)
(* is in flight.  A write that is accepted completes.  Garbage collection,  *)
(* block roles and wear are invisible at this level: they are stutters.     *)
(***************************************************************************)
CONSTANTS
  LogicalPage,    (* the logical pages                                       *)
  NoPage          (* no write is in flight                                   *)

VARIABLES
  stored,         (* logical pages a read would find                         *)
  inflight        (* the logical page being written, or NoPage               *)

diskvars == <<stored, inflight>>

DiskInit ==
  /\ stored = LogicalPage
  /\ inflight = NoPage

(* The old copy of a page is given up when its write is accepted.           *)
Accept(l) ==
  /\ inflight = NoPage
  /\ inflight' = l
  /\ stored' = stored \ {l}

Complete ==
  /\ inflight # NoPage
  /\ stored' = stored \cup {inflight}
  /\ inflight' = NoPage

DiskNext == Complete \/ \E l \in LogicalPage : Accept(l)

DiskSafety == DiskInit /\ [][DiskNext]_diskvars

Disk == DiskSafety /\ WF_diskvars(Complete)

=============================================================================
