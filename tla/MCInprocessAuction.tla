------------------------- MODULE MCInprocessAuction -------------------------
(***************************************************************************)
(* Small instances of InprocessAuction.  i1 and i2 belong to one           *)
(* application, the other instances to another; old is already running.    *)
(***************************************************************************)
EXTENDS InprocessAuction, TLC

CONSTANTS r1, r2, r3, i1, i2, i3, i4, old, appA, appB

MCApps == {appA, appB}
MCInstances == {i1, i2, i3, i4, old}
MCAppGuid == [i \in MCInstances |-> IF i \in {i1, i2} THEN appA ELSE appB]
MCMemoryMB ==
  (i1 :> 2) @@ (i2 :> 2) @@ (i3 :> 1) @@ (i4 :> 2) @@ (old :> 1)
MCDiskMB == [i \in MCInstances |-> 1]

\* Crowded: r1 and r2 have room for one more of i1 and i2 each, r3 for none,
\* so that tentative reservations get in each other's way.
CrowdedMemoryMB == (r1 :> 4) @@ (r2 :> 4) @@ (r3 :> 1)
CrowdedDiskMB == [r \in {r1, r2, r3} |-> 4]
CrowdedContainers == (r1 :> 2) @@ (r2 :> 1) @@ (r3 :> 1)
CrowdedInitial == (r1 :> {old}) @@ (r2 :> {}) @@ (r3 :> {})

\* InTurn: one application, nobody runs anything, r2 has more memory than r1,
\* and everything only fits if the small instance does not go to r2.
InTurnAppGuid == [i \in MCInstances |-> appA]
InTurnMemoryMB == (r1 :> 3) @@ (r2 :> 4)
InTurnTotal == [r \in Reps |-> 3]
InTurnInitial == [r \in Reps |-> {}]
=============================================================================
