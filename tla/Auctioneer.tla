----------------------------- MODULE Auctioneer -----------------------------
(***************************************************************************)
(* The auctioneer: the six auction algorithms, each run by one goroutine   *)
(* per auctioned instance.  Every algorithm is a loop of rounds, and every *)
(* round a chain of calls on the RepPoolClient.                            *)
(*                                                                         *)
(* A call is split in two.  Issuing it sets pc[i] to the operation asked   *)
(* for, waiting[i] to the representatives asked, and results[i] to {}.  An *)
(* action guarded by that pc then says what the algorithm does with the    *)
(* results it gets back.  What happens in between, and when the call       *)
(* returns, is the business of the transport that extends this module.     *)
(***************************************************************************)
EXTENDS RepResources

CONSTANTS
  Auctioned,      \* the instances put up for auction
  Algorithms,     \* the algorithm names auction requests may carry
  MaxRounds,      \* AuctionRules.MaxRounds
  MaxBiddingPool, \* AuctionRules.MaxBiddingPool, as a percentage
  NBest,          \* how many of the best bids are short-listed, 5 in the code
  None            \* no representative, no result

KnownAlgorithms == {"all_rescore", "all_reserve", "pick_among_best",
                    "pick_best", "reserve_n_best", "random"}

ASSUME AuctioneerAssumption ==
  /\ Auctioned \subseteq Instances
  /\ MaxRounds \in Nat
  /\ MaxBiddingPool \in Nat
  /\ NBest \in Nat \ {0}
  /\ None \notin Reps
  /\ Reps # {}

VARIABLES
  pc,       \* pc[i]: where the auction of instance i is
  alg,      \* alg[i]: the algorithm it runs
  round,    \* rounds
  pool,     \* firstRoundReps
  winner,   \* winner.Rep, or orderedReps[0]
  losers,   \* orderedReps[1:], to be released once the winner is claimed
  recast,   \* winnerRecast
  waiting,  \* the representatives that have not answered the current call
  results   \* the answers to the current call

auctionVars ==
  <<pc, alg, round, pool, winner, losers, recast, waiting, results>>

\* The operations an auction can be waiting for.  "giveback" is the release
\* of an outbid winner, "release" that of the losers of a decided auction.
Calls == {"score", "reserve", "rescore", "claim", "release", "giveback"}

Decided == {"won", "lost", "panicked"}

\* types.ScoreResult, its Error reduced to whether there is one.
ScoreResult == [rep : Reps, score : Int, ok : BOOLEAN]

AuctioneerTypeOK ==
  /\ pc \in [Auctioned -> {"idle", "round"} \cup Calls \cup Decided]
  /\ alg \in [Auctioned -> Algorithms \cup {None}]
  /\ round \in [Auctioned -> 1 .. MaxRounds + 1]
  /\ pool \in [Auctioned -> SUBSET Reps]
  /\ winner \in [Auctioned -> Reps \cup {None}]
  /\ losers \in [Auctioned -> SUBSET Reps]
  /\ recast \in [Auctioned -> ScoreResult \cup {None}]
  /\ waiting \in [Auctioned -> SUBSET Reps]
  /\ results \in [Auctioned -> SUBSET ScoreResult]

AuctioneerInit ==
  /\ pc = [i \in Auctioned |-> "idle"]
  /\ alg = [i \in Auctioned |-> None]
  /\ round = [i \in Auctioned |-> 1]
  /\ pool = [i \in Auctioned |-> {}]
  /\ winner = [i \in Auctioned |-> None]
  /\ losers = [i \in Auctioned |-> {}]
  /\ recast = [i \in Auctioned |-> None]
  /\ waiting = [i \in Auctioned |-> {}]
  /\ results = [i \in Auctioned |-> {}]

-----------------------------------------------------------------------------

\* ScoreResults.FilterErrors.  AllFailed is Accepted(i) = {}.
Accepted(i) == {x \in results[i] : x.ok}

\* Mutant: sorted the other way round.
Highest(S) == {x \in S : \A y \in S : x.score >= y.score}

\* Shuffle().Sort()[0]: any of the results with the lowest score.
Lowest(S) == {x \in S : \A y \in S : x.score <= y.score}

\* Shuffle().Sort()[:max]: any NBest results (all, if there are fewer) that
\* no other result beats.
ShortLists(S) ==
  {T \in SUBSET S :
     /\ Cardinality(T) = IF Cardinality(S) < NBest THEN Cardinality(S)
                         ELSE NBest
     /\ \A x \in T, y \in S \ T : x.score <= y.score}

\* ScoreResults.Reps.
RepsOf(S) == {x.rep : x \in S}

\* RepGuids.RandomSubsetByFraction: the ceiling of the fraction of the
\* representatives, drawn at random; everyone from a fraction of 1 on.
BiddingPools ==
  IF MaxBiddingPool >= 100
  THEN {Reps}
  ELSE {P \in SUBSET Reps :
          Cardinality(P) = (Cardinality(Reps) * MaxBiddingPool + 99) \div 100}

\* The algorithms that reserve on one representative only, and index the
\* reply with [0].
Single == {"all_rescore", "pick_among_best", "pick_best", "random"}

-----------------------------------------------------------------------------

\* Issue a call.
Ask(i, op, reps) ==
  /\ pc' = [pc EXCEPT ![i] = op]
  /\ waiting' = [waiting EXCEPT ![i] = reps]
  /\ results' = [results EXCEPT ![i] = {}]

\* Be done with the current call and make no other.
Leave(i, to) ==
  /\ pc' = [pc EXCEPT ![i] = to]
  /\ waiting' = [waiting EXCEPT ![i] = {}]
  /\ results' = [results EXCEPT ![i] = {}]

\* Mutant: the round is not counted.
NextRoundUncounted(i) ==
  /\ Leave(i, "round")
  /\ pool' = [pool EXCEPT ![i] = {}]
  /\ winner' = [winner EXCEPT ![i] = None]
  /\ recast' = [recast EXCEPT ![i] = None]
  /\ UNCHANGED <<alg, round, losers>>

\* continue: the locals of the round go out of scope.
NextRound(i) ==
  /\ Leave(i, "round")
  /\ round' = [round EXCEPT ![i] = @ + 1]
  /\ pool' = [pool EXCEPT ![i] = {}]
  /\ winner' = [winner EXCEPT ![i] = None]
  /\ recast' = [recast EXCEPT ![i] = None]
  /\ UNCHANGED <<alg, losers>>

\* Mutant: the loop runs once too often.
MoreRoundsOneTooMany(i) == round[i] <= MaxRounds + 1

\* The condition of the loop every algorithm is.
MoreRounds(i) == round[i] <= MaxRounds

\* Auction: the switch on the algorithm of the request.
HoldAuction(i) ==
  /\ pc[i] = "idle"
  /\ \E a \in Algorithms \cap KnownAlgorithms :
       alg' = [alg EXCEPT ![i] = a]
  /\ Leave(i, "round")
  /\ UNCHANGED <<round, pool, winner, losers, recast>>

\* Auction: the default branch panics.
RefuseAlgorithm(i) ==
  /\ pc[i] = "idle"
  /\ \E a \in Algorithms \ KnownAlgorithms :
       alg' = [alg EXCEPT ![i] = a]
  /\ Leave(i, "panicked")
  /\ UNCHANGED <<round, pool, winner, losers, recast>>

\* The first call of a round: all_reserve reserves at once, the other
\* algorithms but random ask for scores.
StartRound(i) ==
  /\ pc[i] = "round"
  /\ MoreRounds(i)
  /\ alg[i] # "random"
  /\ \E reps \in BiddingPools :
       /\ pool' = [pool EXCEPT ![i] = reps]
       /\ Ask(i, IF alg[i] = "all_reserve" THEN "reserve" ELSE "score", reps)
  /\ UNCHANGED <<alg, round, winner, losers, recast>>

\* The first call of a round of randomAuction.
PickAtRandom(i) ==
  /\ pc[i] = "round"
  /\ MoreRounds(i)
  /\ alg[i] = "random"
  /\ \E r \in Reps :
       /\ winner' = [winner EXCEPT ![i] = r]
       /\ Ask(i, "reserve", {r})
  /\ UNCHANGED <<alg, round, pool, losers, recast>>

\* The loop is over without a winner.
GiveUp(i) ==
  /\ pc[i] = "round"
  /\ ~MoreRounds(i)
  /\ Leave(i, "lost")
  /\ UNCHANGED <<alg, round, pool, winner, losers, recast>>

-----------------------------------------------------------------------------

\* firstRoundScores.AllFailed()
NoBids(i) ==
  /\ pc[i] = "score"
  /\ Accepted(i) = {}
  /\ NextRound(i)

\* pick_best and all_rescore: the winner is a lowest bidder.
PickLowest(i) ==
  /\ pc[i] = "score"
  /\ alg[i] \in {"pick_best", "all_rescore"}
  /\ \E x \in Lowest(Accepted(i)) :
       /\ winner' = [winner EXCEPT ![i] = x.rep]
       /\ Ask(i, "reserve", {x.rep})
  /\ UNCHANGED <<alg, round, pool, losers, recast>>

\* pick_among_best: the winner is drawn from the short list.
PickAmongBest(i) ==
  /\ pc[i] = "score"
  /\ alg[i] = "pick_among_best"
  /\ Cardinality(Accepted(i)) >= NBest
  /\ \E top \in ShortLists(Accepted(i)) : \E x \in top :
       /\ winner' = [winner EXCEPT ![i] = x.rep]
       /\ Ask(i, "reserve", {x.rep})
  /\ UNCHANGED <<alg, round, pool, losers, recast>>

\* pick_among_best: [:5] of a shorter slice panics.
TooFewBids(i) ==
  /\ pc[i] = "score"
  /\ alg[i] = "pick_among_best"
  /\ Accepted(i) # {}
  /\ Cardinality(Accepted(i)) < NBest
  /\ Leave(i, "panicked")
  /\ UNCHANGED <<alg, round, pool, winner, losers, recast>>

\* reserve_n_best: everyone on the short list is told to reserve.
ReserveShortList(i) ==
  /\ pc[i] = "score"
  /\ alg[i] = "reserve_n_best"
  /\ Accepted(i) # {}
  /\ \E top \in ShortLists(Accepted(i)) : Ask(i, "reserve", RepsOf(top))
  /\ UNCHANGED <<alg, round, pool, winner, losers, recast>>

-----------------------------------------------------------------------------

\* ScoreThenTentativelyReserve(...)[0] of an empty reply panics.
NoReply(i) ==
  /\ pc[i] = "reserve"
  /\ alg[i] \in Single
  /\ results[i] = {}
  /\ Leave(i, "panicked")
  /\ UNCHANGED <<alg, round, pool, winner, losers, recast>>

\* Mutant: all or nothing.
ReserveFailedForOne(i) ==
  /\ pc[i] = "reserve"
  /\ alg[i] # "all_rescore"
  /\ alg[i] \in Single => results[i] # {}
  /\ results[i] = {} \/ \E x \in results[i] : ~x.ok
  /\ NextRound(i)

\* result.Error != "", or scores.AllFailed(): no reservation was made.
ReserveFailed(i) ==
  /\ pc[i] = "reserve"
  /\ alg[i] # "all_rescore"
  /\ alg[i] \in Single => results[i] # {}
  /\ Accepted(i) = {}
  /\ NextRound(i)

\* random, pick_best and pick_among_best claim what they reserved.
ClaimPicked(i) ==
  /\ pc[i] = "reserve"
  /\ alg[i] \in Single \ {"all_rescore"}
  /\ Accepted(i) # {}
  /\ Ask(i, "claim", {winner[i]})
  /\ UNCHANGED <<alg, round, pool, winner, losers, recast>>

\* Mutant: the others are forgotten.
ClaimLowestOnly(i) ==
  /\ pc[i] = "reserve"
  /\ alg[i] \notin Single
  /\ \E x \in Lowest(Accepted(i)) :
       /\ winner' = [winner EXCEPT ![i] = x.rep]
       /\ Ask(i, "claim", {x.rep})
  /\ UNCHANGED <<alg, round, pool, losers, recast>>

\* Mutant: orderedReps is released from its first element on.
ClaimLowestReleaseAll(i) ==
  /\ pc[i] = "reserve"
  /\ alg[i] \notin Single
  /\ \E x \in Lowest(Accepted(i)) :
       /\ winner' = [winner EXCEPT ![i] = x.rep]
       /\ losers' = [losers EXCEPT ![i] = RepsOf(Accepted(i))]
       /\ Ask(i, "claim", {x.rep})
  /\ UNCHANGED <<alg, round, pool, recast>>

\* all_reserve and reserve_n_best claim a lowest of the scores that came
\* with the reservations; all others reserved in vain.
ClaimLowest(i) ==
  /\ pc[i] = "reserve"
  /\ alg[i] \notin Single
  /\ \E x \in Lowest(Accepted(i)) :
       /\ winner' = [winner EXCEPT ![i] = x.rep]
       /\ losers' = [losers EXCEPT ![i] = RepsOf(Accepted(i)) \ {x.rep}]
       /\ Ask(i, "claim", {x.rep})
  /\ UNCHANGED <<alg, round, pool, recast>>

\* all_rescore asks the others again, whether or not the winner could reserve.
Rescore(i) ==
  /\ pc[i] = "reserve"
  /\ alg[i] = "all_rescore"
  /\ \E x \in results[i] : recast' = [recast EXCEPT ![i] = x]
  /\ Ask(i, "rescore", pool[i] \ {winner[i]})
  /\ UNCHANGED <<alg, round, pool, winner, losers>>

\* winnerRecast.Error != ""
WinnerFull(i) ==
  /\ pc[i] = "rescore"
  /\ ~recast[i].ok
  /\ NextRound(i)

Outbid(i) ==
  \E x \in Lowest(Accepted(i)) : x.score < recast[i].score

\* Mutant: an outbid winner is not told.
GiveBackForgotten(i) ==
  /\ pc[i] = "rescore"
  /\ recast[i].ok
  /\ Outbid(i)
  /\ NextRound(i)

\* The second place now beats the winner, which must release.
GiveBack(i) ==
  /\ pc[i] = "rescore"
  /\ recast[i].ok
  /\ Outbid(i)
  /\ Ask(i, "giveback", {winner[i]})
  /\ UNCHANGED <<alg, round, pool, winner, losers, recast>>

ClaimRescored(i) ==
  /\ pc[i] = "rescore"
  /\ recast[i].ok
  /\ ~Outbid(i)
  /\ Ask(i, "claim", {winner[i]})
  /\ UNCHANGED <<alg, round, pool, winner, losers, recast>>

-----------------------------------------------------------------------------

\* len(orderedReps) > 1: the others are released after the claim.
ReleaseLosers(i) ==
  /\ pc[i] = "claim"
  /\ losers[i] # {}
  /\ Ask(i, "release", losers[i])
  /\ losers' = [losers EXCEPT ![i] = {}]
  /\ UNCHANGED <<alg, round, pool, winner, recast>>

\* Mutant: return right after the claim.
WinAfterClaim(i) ==
  /\ pc[i] \in {"claim", "release"}
  /\ Leave(i, "won")
  /\ UNCHANGED <<alg, round, pool, winner, losers, recast>>

\* return winner.Rep, rounds, numCommunications
Win(i) ==
  /\ \/ pc[i] = "claim" /\ losers[i] = {}
     \/ pc[i] = "release"
  /\ Leave(i, "won")
  /\ UNCHANGED <<alg, round, pool, winner, losers, recast>>

\* The outbid winner was told to release: try again.
RetryAfterGiveBack(i) ==
  /\ pc[i] = "giveback"
  /\ NextRound(i)

-----------------------------------------------------------------------------

\* Steps taken between calls.
Proceed(i) ==
  \/ StartRound(i)
  \/ PickAtRandom(i)
  \/ GiveUp(i)

\* Steps taken with the results of a call that has returned.
Continue(i) ==
  \/ NoBids(i)
  \/ PickLowest(i)
  \/ PickAmongBest(i)
  \/ TooFewBids(i)
  \/ ReserveShortList(i)
  \/ NoReply(i)
  \/ ReserveFailed(i)
  \/ ClaimPicked(i)
  \/ ClaimLowest(i)
  \/ Rescore(i)
  \/ WinnerFull(i)
  \/ GiveBack(i)
  \/ ClaimRescored(i)
  \/ ReleaseLosers(i)
  \/ Win(i)
  \/ RetryAfterGiveBack(i)
-----------------------------------------------------------------------------

(***************************************************************************)
(* Who holds instance i, as far as its auction can tell: the reservations  *)
(* it has yet to claim or to release, and in the end the one it claimed.   *)
(***************************************************************************)
Holders(i) ==
  CASE pc[i] = "reserve"  -> RepsOf(Accepted(i))
    [] pc[i] = "rescore"  -> IF recast[i].ok THEN {winner[i]} ELSE {}
    [] pc[i] = "claim"    -> {winner[i]} \cup losers[i]
    [] pc[i] = "release"  -> {winner[i]} \cup waiting[i]
    [] pc[i] = "giveback" -> waiting[i]
    [] pc[i] = "won"      -> {winner[i]}
    [] OTHER              -> {}

-----------------------------------------------------------------------------

\* How far an auction is within a round.
Stage(label) ==
  CASE label = "idle"                  -> 0
    [] label = "round"                 -> 1
    [] label = "score"                 -> 2
    [] label = "reserve"               -> 3
    [] label = "rescore"               -> 4
    [] label \in {"giveback", "claim"} -> 5
    [] label = "release"               -> 6
    [] label \in Decided               -> 7

(***************************************************************************)
(* An auction only goes one way: to a later round, to a later stage of the *)
(* round, or to fewer answers to wait for.                                 *)
(***************************************************************************)
Onward(i) ==
  \/ round[i] < round'[i]
  \/ round'[i] = round[i] /\ Stage(pc[i]) < Stage(pc'[i])
  \/ /\ round'[i] = round[i] /\ pc'[i] = pc[i]
     /\ waiting'[i] \subseteq waiting[i] /\ waiting'[i] # waiting[i]

StandsStill(i) == UNCHANGED <<pc[i], round[i], waiting[i]>>
=============================================================================
