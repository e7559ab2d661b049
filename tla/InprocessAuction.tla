-------------------------- MODULE InprocessAuction --------------------------
(***************************************************************************)
(* The simulation in one process: the distributor starts one goroutine per *)
(* instance, each goroutine runs the auctioneer, and the auctioneer calls  *)
(* the representatives through the InprocessClient.                        *)
(*                                                                         *)
(* The client asks every representative in a goroutine of its own, which   *)
(* sleeps, may report a timeout without having called the representative,  *)
(* and otherwise runs the operation under the representative's lock.  The  *)
(* auction goes on when everyone has answered.  Answers come in any order  *)
(* and interleave with those to other auctions.                            *)
(*                                                                         *)
(* A goroutine hands the result over a channel without a buffer, and only  *)
(* then leaves the semaphore.  The distributor takes as many results as    *)
(* there are instances and makes its report.                               *)
(***************************************************************************)
EXTENDS Auctioneer

CONSTANTS
  Initial,       \* Initial[r]: the instances r runs before the auctions
  MayTimeout,    \* whether LatencyMax exceeds Timeout
  MaxConcurrent, \* auctions the distributor holds at a time
  Rejected       \* the outcome of an auction without a winner

ASSUME InprocessAssumption ==
  /\ Initial \in [Reps -> SUBSET (Instances \ Auctioned)]
  /\ \A r \in Reps : Fits(r, Initial[r])
  /\ MayTimeout \in BOOLEAN
  /\ MaxConcurrent \in Nat \ {0}
  /\ Rejected \notin Reps \cup {None}

VARIABLES
  instances, \* instances[r]: what the delegate of r holds
  collected  \* the auctions whose result the distributor has taken

vars == <<auctionVars, instances, collected>>

TypeOK ==
  /\ AuctioneerTypeOK
  /\ instances \in [Reps -> SUBSET Instances]
  /\ collected \subseteq Auctioned

Init ==
  /\ AuctioneerInit
  /\ instances = Initial
  /\ collected = {}

-----------------------------------------------------------------------------

\* A panic in a goroutine takes the whole process down.
Alive == \A i \in Auctioned : pc[i] # "panicked"

\* Mutant: the goroutine does not leave the semaphore.
NeverLeaves == {i \in Auctioned : pc[i] # "idle"}

\* The auctions that occupy the distributor's semaphore.
Running == {i \in Auctioned : pc[i] # "idle" /\ i \notin collected}

Answer(i, r, score, ok) ==
  /\ waiting' = [waiting EXCEPT ![i] = @ \ {r}]
  /\ results' =
       [results EXCEPT ![i] = @ \cup {[rep |-> r, score |-> score, ok |-> ok]}]
  /\ UNCHANGED <<pc, alg, round, pool, winner, losers, recast>>

Acknowledge(i, r) ==
  /\ waiting' = [waiting EXCEPT ![i] = @ \ {r}]
  /\ UNCHANGED <<pc, alg, round, pool, winner, losers, recast, results>>

\* beSlowAndPossiblyTimeout: the answer is an error, the representative was
\* never asked.
TimesOut(i, r) ==
  /\ MayTimeout
  /\ pc[i] \in {"score", "rescore", "reserve"}
  /\ Answer(i, r, 0, FALSE)
  /\ UNCHANGED instances

\* AuctionRep.Score
Scores(i, r) ==
  /\ pc[i] \in {"score", "rescore"}
  /\ IF HasRoomFor(r, instances[r], i)
     THEN Answer(i, r, Score(r, instances[r], i), TRUE)
     ELSE Answer(i, r, 0, FALSE)
  /\ UNCHANGED instances

\* Mutant: the score of the first call is trusted.
ReservesUnchecked(i, r) ==
  /\ pc[i] = "reserve"
  /\ instances' = [instances EXCEPT ![r] = @ \cup {i}]
  /\ Answer(i, r, Score(r, instances[r], i), TRUE)

\* Mutant: scored with the reservation in place.
ReservesThenScores(i, r) ==
  /\ pc[i] = "reserve"
  /\ HasRoomFor(r, instances[r], i)
  /\ instances' = [instances EXCEPT ![r] = @ \cup {i}]
  /\ Answer(i, r, Score(r, instances[r] \cup {i}, i), TRUE)

\* AuctionRep.ScoreThenTentativelyReserve with room: the score is the one
\* before the reservation.
Reserves(i, r) ==
  /\ pc[i] = "reserve"
  /\ HasRoomFor(r, instances[r], i)
  /\ instances' = [instances EXCEPT ![r] = @ \cup {i}]
  /\ Answer(i, r, Score(r, instances[r], i), TRUE)

\* AuctionRep.ScoreThenTentativelyReserve without room.
RefusesToReserve(i, r) ==
  /\ pc[i] = "reserve"
  /\ ~HasRoomFor(r, instances[r], i)
  /\ Answer(i, r, 0, FALSE)
  /\ UNCHANGED instances

\* AuctionRep.ReleaseReservation, which the client calls whether or not it
\* timed out.
Releases(i, r) ==
  /\ pc[i] \in {"release", "giveback"}
  /\ instances' = [instances EXCEPT ![r] = @ \ {i}]
  /\ Acknowledge(i, r)

\* AuctionRep.Claim: the delegate only looks the reservation up.
Claims(i, r) ==
  /\ pc[i] = "claim"
  /\ Acknowledge(i, r)
  /\ UNCHANGED instances

\* One of the representatives asked answers.
RepStep(i) ==
  \E r \in waiting[i] :
    \/ TimesOut(i, r)
    \/ Scores(i, r)
    \/ Reserves(i, r)
    \/ RefusesToReserve(i, r)
    \/ Releases(i, r)
    \/ Claims(i, r)

-----------------------------------------------------------------------------

\* HoldAuctionsFor: a goroutine gets hold of the semaphore.
Start(i) ==
  /\ Cardinality(Running) < MaxConcurrent
  /\ HoldAuction(i) \/ RefuseAlgorithm(i)
  /\ UNCHANGED <<instances, collected>>

\* The auctioneer between two calls, or once everyone has answered.
AuctioneerStep(i) ==
  /\ waiting[i] = {}
  /\ Proceed(i) \/ Continue(i)
  /\ UNCHANGED <<instances, collected>>

\* c <- result meets <-c, and <-semaphore follows.
Collect(i) ==
  /\ pc[i] \in {"won", "lost"}
  /\ i \notin collected
  /\ collected' = collected \cup {i}
  /\ UNCHANGED <<auctionVars, instances>>

AuctionStep(i) ==
  /\ Alive
  /\ \/ Start(i)
     \/ AuctioneerStep(i)
     \/ RepStep(i) /\ UNCHANGED collected
     \/ Collect(i)

\* for _ = range instances: the report is made of the results of all.
Reported == collected = Auctioned

Finished == ~Alive \/ Reported

Terminated == Finished /\ UNCHANGED vars

Next ==
  \/ \E i \in Auctioned : AuctionStep(i)
  \/ Terminated

\* Every goroutine that can run eventually does.
Fairness == \A i \in Auctioned : WF_vars(AuctionStep(i))

Spec == Init /\ [][Next]_vars
FairSpec == Spec /\ Fairness

-----------------------------------------------------------------------------

\* The representatives that hold instance i.
Held(i) == {r \in Reps : i \in instances[r]}

(***************************************************************************)
(* Safety: whatever the auctions reserve concurrently, and whatever goes   *)
(* stale between a score and the reservation it leads to, no               *)
(* representative ever holds more than it has room for.                    *)
(***************************************************************************)
NoOvercommit == \A r \in Reps : Fits(r, instances[r])

(***************************************************************************)
(* Safety: when an auction is over its instance is on the representative   *)
(* it names and nowhere else; on none if it named none.  Every tentative   *)
(* reservation made on the way, by any algorithm and in any round, has     *)
(* been given back.                                                        *)
(***************************************************************************)
PlacedExactlyOnce ==
  \A i \in Auctioned :
    /\ pc[i] = "won" => Held(i) = {winner[i]}
    /\ pc[i] \in {"lost", "panicked"} => Held(i) = {}

(***************************************************************************)
(* Safety: at every moment the representatives hold exactly the            *)
(* reservations the auctioneer will still claim or release, and what they  *)
(* ran before the auctions.  None is leaked, not even while calls are      *)
(* under way and timing out.                                               *)
(***************************************************************************)
ReservationsAccounted ==
  /\ \A i \in Auctioned : Held(i) = Holders(i)
  /\ \A r \in Reps : instances[r] \ Auctioned = Initial[r]

(***************************************************************************)
(* Safety: with one auction at a time, everybody bidding and no timeout,   *)
(* an auction is only lost when its instance fits on no representative,    *)
(* down to the last megabyte and the last container.  (random may draw     *)
(* full representatives in every round.)                                   *)
(***************************************************************************)
LostOnlyIfFull ==
  (MaxConcurrent = 1 /\ MaxBiddingPool >= 100 /\ ~MayTimeout /\ MaxRounds > 0)
    => \A i \in Auctioned :
         (pc[i] = "lost" /\ alg[i] # "random")
           => \A r \in Reps : ~Fits(r, instances[r] \cup {i})

\* Everybody has room for all the auctioned instances at once, and is asked.
AmpleRoom ==
  /\ ~MayTimeout /\ MaxRounds > 0 /\ MaxBiddingPool > 0
  /\ \A r \in Reps : Fits(r, Initial[r] \cup Auctioned)

(***************************************************************************)
(* Safety: if everybody has room for all the auctioned instances at once,  *)
(* concurrent tentative reservations cannot make an auction fail.  (In     *)
(* all_rescore they can: a winner may be outbid in every round.)           *)
(***************************************************************************)
NotLostWithAmpleRoom ==
  AmpleRoom => \A i \in Auctioned : pc[i] = "lost" => alg[i] = "all_rescore"

\* The algorithms whose winner is a lowest bidder.
ByLowestScore == {"pick_best", "all_rescore", "all_reserve", "reserve_n_best"}

(***************************************************************************)
(* Action property: with one auction at a time, everybody bidding and no   *)
(* timeout, an algorithm that goes by the lowest score returns a winner    *)
(* that had room, and that nobody with room would have outbid when it      *)
(* returns, however many calls after the bids were made.                   *)
(***************************************************************************)
BidAtReturn(r, i) == Score(r, instances'[r] \ {i}, i)
RoomAtReturn(r, i) == HasRoomFor(r, instances'[r] \ {i}, i)

BestBidWins ==
  [][(MaxConcurrent = 1 /\ MaxBiddingPool >= 100 /\ ~MayTimeout) =>
       \A i \in Auctioned :
         (pc[i] # "won" /\ pc'[i] = "won" /\ alg[i] \in ByLowestScore) =>
           /\ RoomAtReturn(winner'[i], i)
           /\ \A s \in Reps : RoomAtReturn(s, i) =>
                BidAtReturn(winner'[i], i) <= BidAtReturn(s, i)]_vars

(***************************************************************************)
(* Safety: instances of one application, auctioned one at a time by an     *)
(* algorithm that goes by the lowest score, are spread evenly between      *)
(* representatives that start empty, be they alike (the simulation's       *)
(* "should distribute evenly") or not: one may run two more than another   *)
(* only if the other has no room for what it runs.                         *)
(***************************************************************************)
EvenSpread ==
  (/\ MaxConcurrent = 1 /\ MaxBiddingPool >= 100 /\ ~MayTimeout
   /\ \A r \in Reps : Initial[r] = {}
   /\ Cardinality({AppGuid[i] : i \in Auctioned}) = 1
   /\ Running = {}
   /\ \A i \in Auctioned : pc[i] = "won" => alg[i] \in ByLowestScore)
    => \A r, s \in Reps :
         \/ Cardinality(instances[r]) <= Cardinality(instances[s]) + 1
         \/ \E i \in instances[r] : ~HasRoomFor(s, instances[s], i)

\* Mutant: what somebody ran before is counted, too.
MissingOfAllHeld ==
  Cardinality(collected)
    - Cardinality({p \in Reps \X Instances : p[2] \in instances[p[1]]})

\* Report.NMissingInstances: results, less the auctioned instances found on
\* each of the representatives.
NMissingInstances ==
  Cardinality(collected)
    - Cardinality({p \in Reps \X collected : p[2] \in instances[p[1]]})

(***************************************************************************)
(* Safety: the report counts as missing the instances whose auctions were  *)
(* lost, no more and no fewer.  It only counts, so this takes that no      *)
(* instance is held twice, and that nothing happens any more once the      *)
(* results are in.                                                         *)
(***************************************************************************)
ReportCountsLost ==
  Reported =>
    NMissingInstances = Cardinality({i \in Auctioned : pc[i] = "lost"})

(***************************************************************************)
(* Safety: nothing is done in vain.  A step of one auction takes none      *)
(* back, and takes one onward or its result to the distributor; with       *)
(* rounds, representatives and auctions bounded, so is the number of       *)
(* steps.                                                                  *)
(***************************************************************************)
EveryStepCounts ==
  [][/\ \A i \in Auctioned : Onward(i) \/ StandsStill(i)
     /\ collected \subseteq collected'
     /\ (\E i \in Auctioned : Onward(i)) \/ collected' # collected]_vars

(***************************************************************************)
(* Liveness: with any number of auctions waiting for the semaphore and for *)
(* their result to be taken, the report is made, unless the process dies   *)
(* of a panic.                                                             *)
(***************************************************************************)
Termination == <>Finished

-----------------------------------------------------------------------------

\* The winner that Auction returned, if it has returned.
placement ==
  [i \in Auctioned |->
     CASE pc[i] = "won"                   -> winner[i]
       [] pc[i] \in {"lost", "panicked"} -> Rejected
       [] OTHER                           -> None]

(***************************************************************************)
(* Refinement: seen through its results, the simulation only ever places   *)
(* an undecided instance on a representative with room for it beside what  *)
(* was placed there before, or rejects it; a result never changes.         *)
(***************************************************************************)
Abstract == INSTANCE Placement WITH Undecided <- None
ImplementsPlacement == Abstract!PlacementSpec
=============================================================================
