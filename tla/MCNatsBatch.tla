----------------------------- MODULE MCNatsBatch ----------------------------
(***************************************************************************)
(* Small instances of NatsBatch: two callers share a client.  Caller a     *)
(* asks all representatives; b asks nobody, as the second scoring of an    *)
(* auction with a single bidder does, but subscribes all the same.         *)
(***************************************************************************)
EXTENDS NatsBatch

CONSTANTS a, b, r1, r2

MCGuids == [k \in Callers |-> IF k = a THEN Reps ELSE {}]
=============================================================================
