---------------------------- MODULE RepResources ----------------------------
(***************************************************************************)
(* What a representative knows about itself: the resources it has in all,  *)
(* what the instances it holds take from them, whether one more fits, and  *)
(* the score it bids with.  A pure module: the state (the set S of         *)
(* instances a representative holds) is a parameter of every operator.     *)
(***************************************************************************)
EXTENDS Integers, FiniteSets

CONSTANTS
  Reps,            \* guids of the auction representatives
  Instances,       \* guids of all instances, auctioned or already running
  Apps,            \* application guids
  AppGuid,         \* AppGuid[i]: the application instance i belongs to
  MemoryMB,        \* MemoryMB[i]: memory required by instance i
  DiskMB,          \* DiskMB[i]: disk required by instance i
  TotalMemoryMB,   \* TotalMemoryMB[r]: memory of representative r
  TotalDiskMB,     \* TotalDiskMB[r]: disk of representative r
  TotalContainers, \* TotalContainers[r]: container slots of representative r
  ScoreUnit        \* number of score steps in one whole (see Score)

(***************************************************************************)
(* Quantities are whole megabytes.  A total of zero is excluded: the score *)
(* would divide by it.                                                     *)
(***************************************************************************)
ASSUME InstancesAssumption ==
  /\ IsFiniteSet(Instances)
  /\ AppGuid \in [Instances -> Apps]
  /\ MemoryMB \in [Instances -> Nat]
  /\ DiskMB \in [Instances -> Nat]

ASSUME RepsAssumption ==
  /\ IsFiniteSet(Reps)
  /\ TotalMemoryMB \in [Reps -> Nat \ {0}]
  /\ TotalDiskMB \in [Reps -> Nat \ {0}]
  /\ TotalContainers \in [Reps -> Nat \ {0}]
  /\ ScoreUnit \in Nat \ {0}

-----------------------------------------------------------------------------

(***************************************************************************)
(* The sum of amount[i] over the instances of S, counted as the number of  *)
(* single units <<i, k>> they occupy.  A sum written this way needs no     *)
(* recursion, and the theorems on cardinality apply to it.                 *)
(***************************************************************************)
Units(S, amount) == UNION {{i} \X (1 .. amount[i]) : i \in S}
Sum(S, amount) == Cardinality(Units(S, amount))

\* SimulationRepDelegate.remainingResources: each instance held takes its
\* memory, its disk and one container.
RemainingMemory(r, S) == TotalMemoryMB[r] - Sum(S, MemoryMB)
RemainingDisk(r, S) == TotalDiskMB[r] - Sum(S, DiskMB)
RemainingContainers(r, S) == TotalContainers[r] - Cardinality(S)

\* Mutant: one container too many.
HasRoomForOneMore(r, S, i) ==
  /\ RemainingMemory(r, S) >= MemoryMB[i]
  /\ RemainingDisk(r, S) >= DiskMB[i]
  /\ RemainingContainers(r, S) >= 0

\* Mutant: the last megabyte is never used.
HasRoomForLess(r, S, i) ==
  /\ RemainingMemory(r, S) > MemoryMB[i]
  /\ RemainingDisk(r, S) >= DiskMB[i]
  /\ RemainingContainers(r, S) > 0

\* AuctionRep.hasRoomFor, and the same test inside the delegate's Reserve.
HasRoomFor(r, S, i) ==
  /\ RemainingMemory(r, S) >= MemoryMB[i]
  /\ RemainingDisk(r, S) >= DiskMB[i]
  /\ RemainingContainers(r, S) > 0

\* SimulationRepDelegate.NumInstancesForAppGuid.
NumInstancesForAppGuid(S, app) == Cardinality({j \in S : AppGuid[j] = app})

(***************************************************************************)
(* AuctionRep.score: the mean of the three fractions in use, plus the      *)
(* number of instances of the same application.  It is counted in steps of *)
(* 1 / (3 * ScoreUnit), which is exact when every total divides ScoreUnit. *)
(* A lower score is a better bid.                                          *)
(***************************************************************************)
Fraction(remaining, total) == ((total - remaining) * ScoreUnit) \div total

ScoreOf(r, remMemory, remDisk, remContainers, nInstances) ==
  Fraction(remMemory, TotalMemoryMB[r])
    + Fraction(remDisk, TotalDiskMB[r])
    + Fraction(remContainers, TotalContainers[r])
    + 3 * ScoreUnit * nInstances

\* The score a representative holding S bids for instance i.
Score(r, S, i) ==
  ScoreOf(r, RemainingMemory(r, S), RemainingDisk(r, S),
          RemainingContainers(r, S), NumInstancesForAppGuid(S, AppGuid[i]))

-----------------------------------------------------------------------------

\* The instances of S together take no more than the representative has.
Fits(r, S) ==
  /\ Sum(S, MemoryMB) <= TotalMemoryMB[r]
  /\ Sum(S, DiskMB) <= TotalDiskMB[r]
  /\ Cardinality(S) <= TotalContainers[r]
=============================================================================
