------------------------- MODULE MCAuctionRepLocks --------------------------
(***************************************************************************)
(* Two callers of a representative with room for i1 or i2 beside old, but  *)
(* not for both.                                                           *)
(***************************************************************************)
EXTENDS AuctionRepLocks, TLC

CONSTANTS r1, i1, i2, old, app, c1, c2

MCAppGuid == [i \in Instances |-> app]
MCMemoryMB == (i1 :> 2) @@ (i2 :> 1) @@ (old :> 1)
MCDiskMB == [i \in Instances |-> 1]
MCTotalMemoryMB == r1 :> 4
MCTotalDiskMB == r1 :> 2
MCTotalContainers == r1 :> 4
MCBatches == {{}, {old}}
=============================================================================
