--------------------------- MODULE MCRabbitBatch ----------------------------
(***************************************************************************)
(* Two calls of an auction, one after the other, on two representatives.   *)
(***************************************************************************)
EXTENDS RabbitBatch, TLC

CONSTANTS r1, r2
=============================================================================
