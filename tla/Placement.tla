----------------------------- MODULE Placement ------------------------------
(***************************************************************************)
(* What an auction promises, seen from outside: every instance put up for  *)
(* auction is either placed, for good, on one representative that has room *)
(* for it beside what it runs and what was placed on it, or rejected.      *)
(* Scores, rounds, tentative reservations and algorithms are not visible.  *)
(***************************************************************************)
EXTENDS RepResources

CONSTANTS
  Auctioned, \* the instances put up for auction, a subset of Instances
  Initial,   \* Initial[r]: the instances r runs before the auctions
  Undecided, \* the auction has not been decided; not a representative
  Rejected   \* no representative took the instance; not a representative

VARIABLE
  placement \* placement[i]: where instance i is

PlacementInit == placement = [i \in Auctioned |-> Undecided]

\* What representative r runs.
Runs(r) == Initial[r] \cup {i \in Auctioned : placement[i] = r}

Place(i, r) ==
  /\ placement[i] = Undecided
  /\ HasRoomFor(r, Runs(r), i)
  /\ placement' = [placement EXCEPT ![i] = r]

Reject(i) ==
  /\ placement[i] = Undecided
  /\ placement' = [placement EXCEPT ![i] = Rejected]

PlacementNext ==
  \E i \in Auctioned :
    \/ \E r \in Reps : Place(i, r)
    \/ Reject(i)

PlacementSpec == PlacementInit /\ [][PlacementNext]_placement
=============================================================================
