----------------------------- MODULE SparseDisk -----------------------------
(***************************************************************************)
(* What an FTL whose drive starts empty promises its caller: a page that was *)
(* written can be read, with the data written last, until it is trimmed,     *)
(* also while its next write is in flight.                                  *)
(***************************************************************************)
CONSTANTS
  LogicalPage,    (* the logical pages                                       *)
  NoPage          (* no write is in flight                                   *)

VARIABLES
  stored,         (* logical pages whose newest data a read would return     *)
  inflight        (* the logical page being written, or NoPage               *)

diskvars == <<stored, inflight>>

DiskInit ==
  /\ stored = {}
  /\ inflight = NoPage

Accept(l) ==
  /\ inflight = NoPage
  /\ inflight' = l
  /\ UNCHANGED stored

Complete ==
  /\ inflight # NoPage
  /\ stored' = stored \cup {inflight}
  /\ inflight' = NoPage

Trim(l) ==
  /\ inflight = NoPage
  /\ stored' = stored \ {l}
  /\ UNCHANGED inflight

DiskNext == Complete \/ \E l \in LogicalPage : Accept(l) \/ Trim(l)

SparseDiskSpec == DiskInit /\ [][DiskNext]_diskvars

=============================================================================
