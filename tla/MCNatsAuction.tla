---------------------------- MODULE MCNatsAuction ---------------------------
(***************************************************************************)
(* Small instances of NatsAuction: two representatives, one of which is    *)
(* partly taken by old; neither has room for both of two auctions, r1 for  *)
(* want of memory and r2 for want of containers.                           *)
(***************************************************************************)
EXTENDS NatsAuction, TLC

CONSTANTS r1, r2, i1, i2, old, app

MCInstances == {i1, i2, old}
MCAppGuid == [i \in MCInstances |-> app]
MCMemoryMB == (i1 :> 2) @@ (i2 :> 2) @@ (old :> 1)
MCDiskMB == [i \in MCInstances |-> 1]
MCTotalMemoryMB == [r \in Reps |-> 4]
MCTotalDiskMB == [r \in Reps |-> 4]
MCTotalContainers == (r1 :> 2) @@ (r2 :> 1)

\* Room for every instance twice.
RoomyMemoryMB == [r \in Reps |-> 8]
RoomyContainers == [r \in Reps |-> 4]

MCInitial == [r \in Reps |-> IF r = r1 THEN {old} ELSE {}]
=============================================================================
