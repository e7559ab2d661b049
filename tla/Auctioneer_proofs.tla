------------------------- MODULE Auctioneer_proofs --------------------------
(***************************************************************************)
(* The types of the auctioneer's variables, whatever transport it calls    *)
(* the representatives through.                                            *)
(***************************************************************************)
EXTENDS Auctioneer, FiniteSetTheorems, TLAPS

\* A call is only ever made in a round the rules allow.
RoundsCounted == \A i \in Auctioned : pc[i] \in Calls => round[i] <= MaxRounds

\* The calls that are about the winner are only made when there is one.
AboutWinner(i) ==
  \/ pc[i] \in {"rescore", "giveback", "claim", "release", "won"}
  \/ pc[i] = "reserve" /\ alg[i] \in Single

WinnerKnown == \A i \in Auctioned : AboutWinner(i) => winner[i] \in Reps

AuctioneerInv == AuctioneerTypeOK /\ RoundsCounted /\ WinnerKnown

-----------------------------------------------------------------------------

\* What every use of results relies on: they are score results.
LEMMA ResultsType ==
  ASSUME AuctioneerTypeOK, NEW i \in Auctioned
  PROVE  /\ results[i] \in SUBSET ScoreResult
         /\ Accepted(i) \subseteq results[i]
         /\ Lowest(Accepted(i)) \subseteq Accepted(i)
         /\ \A S : \A T \in ShortLists(S) : T \subseteq S
         /\ \A x \in results[i] : x.rep \in Reps
         /\ \A T \in SUBSET results[i] : RepsOf(T) \in SUBSET Reps
BY DEF AuctioneerTypeOK, Accepted, Lowest, ShortLists, RepsOf, ScoreResult

\* Making a call.
LEMMA AskType ==
  ASSUME AuctioneerInv, NEW i \in Auctioned,
         NEW op \in Calls, NEW reps \in SUBSET Reps, Ask(i, op, reps),
         round[i] <= MaxRounds, round' = round, alg' = alg,
         winner' \in [Auctioned -> Reps \cup {None}],
         \A j \in Auctioned \ {i} : winner'[j] = winner[j],
         op # "score" /\ ~(op = "reserve" /\ alg[i] \notin Single)
           => winner'[i] \in Reps
  PROVE  /\ pc' \in [Auctioned -> {"idle", "round"} \cup Calls \cup Decided]
         /\ waiting' \in [Auctioned -> SUBSET Reps]
         /\ results' \in [Auctioned -> SUBSET ScoreResult]
         /\ RoundsCounted'
         /\ WinnerKnown'
BY DEF AuctioneerInv, AuctioneerTypeOK, Ask, RoundsCounted, WinnerKnown,
       AboutWinner

\* Leaving the calls of a round behind.
LEMMA LeaveType ==
  ASSUME AuctioneerInv, NEW i \in Auctioned,
         NEW to \in {"round"} \cup Decided, Leave(i, to),
         \A j \in Auctioned \ {i} :
           round'[j] = round[j] /\ alg'[j] = alg[j] /\ winner'[j] = winner[j],
         to = "won" => winner'[i] \in Reps
  PROVE  /\ pc' \in [Auctioned -> {"idle", "round"} \cup Calls \cup Decided]
         /\ waiting' \in [Auctioned -> SUBSET Reps]
         /\ results' \in [Auctioned -> SUBSET ScoreResult]
         /\ RoundsCounted'
         /\ WinnerKnown'
BY DEF AuctioneerInv, AuctioneerTypeOK, Leave, RoundsCounted, WinnerKnown,
       AboutWinner, Calls, Decided

LEMMA NextRoundType ==
  ASSUME AuctioneerInv, NEW i \in Auctioned,
         round[i] <= MaxRounds, NextRound(i)
  PROVE  AuctioneerInv'
<1>1. Leave(i, "round")
  BY DEF NextRound
<1>2. /\ round' \in [Auctioned -> 1 .. MaxRounds + 1]
      /\ winner' \in [Auctioned -> Reps \cup {None}]
      /\ \A j \in Auctioned \ {i} :
           round'[j] = round[j] /\ alg'[j] = alg[j] /\ winner'[j] = winner[j]
  BY AuctioneerAssumption DEF NextRound, AuctioneerInv, AuctioneerTypeOK
<1>3. QED
  BY <1>1, <1>2, LeaveType DEF NextRound, AuctioneerInv, AuctioneerTypeOK

\* The auctioneer's steps keep the types of its variables.
LEMMA AuctioneerType ==
  ASSUME AuctioneerInv, NEW i \in Auctioned,
         HoldAuction(i) \/ RefuseAlgorithm(i) \/ Proceed(i) \/ Continue(i)
  PROVE  AuctioneerInv'
<1> USE DEF AuctioneerInv, AuctioneerTypeOK
<1>1. CASE HoldAuction(i)
  BY <1>1, LeaveType DEF HoldAuction
<1>2. CASE RefuseAlgorithm(i)
  BY <1>2, LeaveType DEF RefuseAlgorithm, Decided
<1>3. CASE StartRound(i)
  <2>1. PICK reps \in BiddingPools :
          /\ pool' = [pool EXCEPT ![i] = reps]
          /\ Ask(i, IF alg[i] = "all_reserve" THEN "reserve" ELSE "score",
                 reps)
    BY <1>3 DEF StartRound
  <2>2. reps \in SUBSET Reps
    BY DEF BiddingPools
  <2>3. CASE alg[i] = "all_reserve"
    BY <1>3, <2>1, <2>2, <2>3, AskType
    DEF StartRound, MoreRounds, Calls, Single
  <2>4. CASE alg[i] # "all_reserve"
    BY <1>3, <2>1, <2>2, <2>4, AskType DEF StartRound, MoreRounds, Calls
  <2>5. QED
    BY <2>3, <2>4
<1>4. CASE PickAtRandom(i)
  BY <1>4, AskType DEF PickAtRandom, MoreRounds, Calls
<1>5. CASE GiveUp(i)
  BY <1>5, LeaveType DEF GiveUp, Decided
<1>6. CASE Continue(i)
  <2>1. ASSUME pc[i] \in Calls
        PROVE  round[i] <= MaxRounds
    BY <2>1 DEF RoundsCounted
  <2>0. AboutWinner(i) => winner[i] \in Reps
    BY DEF WinnerKnown
  <2> USE ResultsType
  <2>2. CASE NoBids(i)
    BY <2>1, <2>2, NextRoundType DEF NoBids, Calls
  <2>3. CASE PickLowest(i)
    BY <2>1, <2>3, AskType DEF PickLowest, Calls
  <2>4. CASE PickAmongBest(i)
    BY <2>1, <2>4, AskType DEF PickAmongBest, Calls
  <2>5. CASE TooFewBids(i)
    BY <2>5, LeaveType DEF TooFewBids, Decided
  <2>6. CASE ReserveShortList(i)
    <3>1. PICK top \in ShortLists(Accepted(i)) : Ask(i, "reserve", RepsOf(top))
      BY <2>6 DEF ReserveShortList
    <3>2. RepsOf(top) \in SUBSET Reps
      BY <3>1
    <3>3. QED
      BY <2>1, <2>6, <3>1, <3>2, AskType DEF ReserveShortList, Calls, Single
  <2>7. CASE NoReply(i)
    BY <2>7, LeaveType DEF NoReply, Decided
  <2>8. CASE ReserveFailed(i)
    BY <2>1, <2>8, NextRoundType DEF ReserveFailed, Calls
  <2>9. CASE ClaimPicked(i)
    BY <2>0, <2>1, <2>9, AskType DEF ClaimPicked, Calls, AboutWinner
  <2>10. CASE ClaimLowest(i)
    BY <2>1, <2>10, AskType DEF ClaimLowest, Calls
  <2>11. CASE Rescore(i)
    <3>1. winner[i] \in Reps
      BY <2>0, <2>11 DEF Rescore, AboutWinner, Single
    <3>2. recast' \in [Auctioned -> ScoreResult \cup {None}]
      BY <2>11 DEF Rescore
    <3>3. Ask(i, "rescore", pool[i] \ {winner[i]})
      BY <2>11 DEF Rescore
    <3>4. QED
      BY <2>1, <2>11, <3>1, <3>2, <3>3, AskType DEF Rescore, Calls
  <2>12. CASE WinnerFull(i)
    BY <2>1, <2>12, NextRoundType DEF WinnerFull, Calls
  <2>13. CASE GiveBack(i)
    BY <2>0, <2>1, <2>13, AskType DEF GiveBack, Calls, AboutWinner
  <2>14. CASE ClaimRescored(i)
    BY <2>0, <2>1, <2>14, AskType DEF ClaimRescored, Calls, AboutWinner
  <2>15. CASE ReleaseLosers(i)
    BY <2>0, <2>1, <2>15, AskType DEF ReleaseLosers, Calls, AboutWinner
  <2>16. CASE Win(i)
    BY <2>0, <2>16, LeaveType DEF Win, Decided, AboutWinner
  <2>17. CASE RetryAfterGiveBack(i)
    BY <2>1, <2>17, NextRoundType DEF RetryAfterGiveBack, Calls
  <2>18. QED
    BY <1>6, <2>2, <2>3, <2>4, <2>5, <2>6, <2>7, <2>8, <2>9, <2>10, <2>11,
       <2>12, <2>13, <2>14, <2>15, <2>16, <2>17 DEF Continue
<1>7. QED
  BY <1>1, <1>2, <1>3, <1>4, <1>5, <1>6 DEF Proceed

-----------------------------------------------------------------------------

\* The auctioneer's steps are calls and the ends of calls.
LEMMA AskLocal ==
  ASSUME AuctioneerTypeOK, NEW i \in Auctioned, NEW op, NEW reps,
         Ask(i, op, reps)
  PROVE  pc'[i] = op /\ waiting'[i] = reps /\ results'[i] = {}
BY DEF Ask, AuctioneerTypeOK

LEMMA LeaveLocal ==
  ASSUME AuctioneerTypeOK, NEW i \in Auctioned, NEW to, Leave(i, to)
  PROVE  pc'[i] = to /\ waiting'[i] = {} /\ results'[i] = {}
BY DEF Leave, AuctioneerTypeOK

LEMMA AsksOrLeaves ==
  ASSUME AuctioneerTypeOK, NEW i \in Auctioned,
         HoldAuction(i) \/ RefuseAlgorithm(i) \/ Proceed(i) \/ Continue(i)
  PROVE  pc'[i] \in Calls \/ (waiting'[i] = {} /\ pc'[i] # "idle")
<1>1. \A to : Leave(i, to) => pc'[i] = to /\ waiting'[i] = {}
  BY LeaveLocal
<1>2. \A op, reps : Ask(i, op, reps) => pc'[i] = op
  BY AskLocal
<1>3. CASE \/ HoldAuction(i) \/ RefuseAlgorithm(i) \/ GiveUp(i)
           \/ NoBids(i) \/ TooFewBids(i) \/ NoReply(i) \/ ReserveFailed(i)
           \/ WinnerFull(i) \/ Win(i) \/ RetryAfterGiveBack(i)
  BY <1>1, <1>3
  DEF HoldAuction, RefuseAlgorithm, GiveUp, NoBids, TooFewBids, NoReply,
      ReserveFailed, WinnerFull, Win, RetryAfterGiveBack, NextRound
<1>4. CASE \/ StartRound(i) \/ PickAtRandom(i)
           \/ PickLowest(i) \/ PickAmongBest(i) \/ ReserveShortList(i)
           \/ ClaimPicked(i) \/ ClaimLowest(i) \/ Rescore(i) \/ GiveBack(i)
           \/ ClaimRescored(i) \/ ReleaseLosers(i)
  BY <1>2, <1>4
  DEF StartRound, PickAtRandom, PickLowest, PickAmongBest, ReserveShortList,
      ClaimPicked, ClaimLowest, Rescore, GiveBack, ClaimRescored,
      ReleaseLosers, Calls
<1>5. QED
  BY <1>3, <1>4 DEF Proceed, Continue

\* An auction that is decided takes no step.
LEMMA DecidedTakesNoStep ==
  ASSUME NEW i \in Auctioned,
         HoldAuction(i) \/ RefuseAlgorithm(i) \/ Proceed(i) \/ Continue(i)
  PROVE  pc[i] \notin Decided
BY DEF HoldAuction, RefuseAlgorithm, Proceed, StartRound, PickAtRandom,
       GiveUp, Continue, NoBids, PickLowest, PickAmongBest, TooFewBids,
       ReserveShortList, NoReply, ReserveFailed, ClaimPicked, ClaimLowest,
       Rescore, WinnerFull, GiveBack, ClaimRescored, ReleaseLosers, Win,
       RetryAfterGiveBack, Decided

LEMMA Stages ==
  /\ Stage("idle") = 0 /\ Stage("round") = 1 /\ Stage("score") = 2
  /\ Stage("reserve") = 3 /\ Stage("rescore") = 4 /\ Stage("giveback") = 5
  /\ Stage("claim") = 5 /\ Stage("release") = 6 /\ Stage("won") = 7
  /\ Stage("lost") = 7 /\ Stage("panicked") = 7
BY DEF Stage, Decided

\* Every step leads to a later stage of the round, or to a later round.
LEMMA StepsLeadOn ==
  ASSUME AuctioneerTypeOK, NEW i \in Auctioned,
         HoldAuction(i) \/ RefuseAlgorithm(i) \/ Proceed(i) \/ Continue(i)
  PROVE  \/ round[i] < round'[i]
         \/ round'[i] = round[i] /\ Stage(pc[i]) < Stage(pc'[i])
<1>1. \A to : Leave(i, to) => pc'[i] = to
  BY LeaveLocal
<1>2. \A op, reps : Ask(i, op, reps) => pc'[i] = op
  BY AskLocal
<1>3. round[i] \in Int
  BY AuctioneerAssumption DEF AuctioneerTypeOK
<1>4. NextRound(i) => round[i] < round'[i]
  BY <1>3 DEF NextRound, AuctioneerTypeOK
<1>5. CASE \/ NoBids(i) \/ ReserveFailed(i) \/ WinnerFull(i)
           \/ RetryAfterGiveBack(i)
  BY <1>4, <1>5 DEF NoBids, ReserveFailed, WinnerFull, RetryAfterGiveBack
<1>6. CASE \/ HoldAuction(i) \/ RefuseAlgorithm(i) \/ GiveUp(i)
           \/ TooFewBids(i) \/ NoReply(i) \/ Win(i)
  BY <1>1, <1>6, Stages
  DEF HoldAuction, RefuseAlgorithm, GiveUp, TooFewBids, NoReply, Win
<1>7. CASE \/ StartRound(i) \/ PickAtRandom(i)
           \/ PickLowest(i) \/ PickAmongBest(i) \/ ReserveShortList(i)
  <2>1. /\ pc[i] \in {"round", "score"} /\ round'[i] = round[i]
        /\ pc'[i] \in {"score", "reserve"} /\ pc[i] # pc'[i]
    BY <1>2, <1>7
    DEF StartRound, PickAtRandom, PickLowest, PickAmongBest, ReserveShortList
  <2>2. QED
    BY <2>1, Stages
<1>8. CASE \/ ClaimPicked(i) \/ ClaimLowest(i) \/ Rescore(i) \/ GiveBack(i)
           \/ ClaimRescored(i) \/ ReleaseLosers(i)
  <2>1. ASSUME ClaimPicked(i) \/ ClaimLowest(i) \/ Rescore(i)
        PROVE  /\ pc[i] = "reserve" /\ pc'[i] \in {"claim", "rescore"}
               /\ round'[i] = round[i]
    BY <1>2, <2>1 DEF ClaimPicked, ClaimLowest, Rescore
  <2>2. ASSUME GiveBack(i) \/ ClaimRescored(i)
        PROVE  /\ pc[i] = "rescore" /\ pc'[i] \in {"claim", "giveback"}
               /\ round'[i] = round[i]
    BY <1>2, <2>2 DEF GiveBack, ClaimRescored
  <2>3. ASSUME ReleaseLosers(i)
        PROVE  pc[i] = "claim" /\ pc'[i] = "release" /\ round'[i] = round[i]
    BY <1>2, <2>3 DEF ReleaseLosers
  <2>4. QED
    BY <1>8, <2>1, <2>2, <2>3, Stages
<1>9. QED
  BY <1>5, <1>6, <1>7, <1>8 DEF Proceed, Continue

\* The algorithm is chosen once.
LEMMA AlgorithmKept ==
  ASSUME NEW i \in Auctioned, Proceed(i) \/ Continue(i)
  PROVE  alg' = alg
BY DEF Proceed, StartRound, PickAtRandom, GiveUp, Continue, NoBids,
       PickLowest, PickAmongBest, TooFewBids, ReserveShortList, NoReply,
       ReserveFailed, ClaimPicked, ClaimLowest, Rescore, WinnerFull,
       GiveBack, ClaimRescored, ReleaseLosers, Win, RetryAfterGiveBack,
       NextRound

\* What an auction remembers.
Memory(i) ==
  <<pc[i], alg[i], round[i], winner[i], losers[i], recast[i], waiting[i],
    results[i]>>

\* No auction meddles with another one's memory.
LEMMA OthersMemory ==
  ASSUME AuctioneerTypeOK, NEW i \in Auctioned, NEW j \in Auctioned \ {i},
         HoldAuction(i) \/ RefuseAlgorithm(i) \/ Proceed(i) \/ Continue(i)
  PROVE  Memory(j)' = Memory(j)
<1> USE DEF AuctioneerTypeOK, Memory
<1>1. ASSUME NEW to, Leave(i, to)
      PROVE  UNCHANGED <<pc[j], waiting[j], results[j]>>
  BY <1>1 DEF Leave
<1>2. ASSUME NEW op, NEW reps, Ask(i, op, reps)
      PROVE  UNCHANGED <<pc[j], waiting[j], results[j]>>
  BY <1>2 DEF Ask
<1>3. ASSUME NextRound(i)
      PROVE  Memory(j)' = Memory(j)
  BY <1>1, <1>3 DEF NextRound
<1>4. CASE HoldAuction(i) \/ RefuseAlgorithm(i)
  BY <1>1, <1>4 DEF HoldAuction, RefuseAlgorithm
<1>5. CASE Proceed(i)
  BY <1>1, <1>2, <1>5 DEF Proceed, StartRound, PickAtRandom, GiveUp
<1>6. CASE \/ NoBids(i) \/ ReserveFailed(i) \/ WinnerFull(i)
           \/ RetryAfterGiveBack(i)
  BY <1>3, <1>6 DEF NoBids, ReserveFailed, WinnerFull, RetryAfterGiveBack
<1>7. CASE PickLowest(i) \/ PickAmongBest(i) \/ ReserveShortList(i)
  BY <1>2, <1>7 DEF PickLowest, PickAmongBest, ReserveShortList
<1>8. CASE TooFewBids(i) \/ NoReply(i) \/ Win(i)
  BY <1>1, <1>8 DEF TooFewBids, NoReply, Win
<1>9. CASE ClaimPicked(i) \/ ClaimLowest(i) \/ Rescore(i)
  BY <1>2, <1>9 DEF ClaimPicked, ClaimLowest, Rescore
<1>10. CASE GiveBack(i) \/ ClaimRescored(i) \/ ReleaseLosers(i)
  BY <1>2, <1>10 DEF GiveBack, ClaimRescored, ReleaseLosers
<1>11. QED
  BY <1>4, <1>5, <1>6, <1>7, <1>8, <1>9, <1>10 DEF Continue

-----------------------------------------------------------------------------

(***************************************************************************)
(* What makes the account of the reservations inductive.  A call's answers *)
(* come from representatives it no longer waits for, one from each; an     *)
(* algorithm that reserves on one representative asks its winner only; and *)
(* the losers, kept from the claim to the release, never include the       *)
(* winner.                                                                 *)
(***************************************************************************)
Consistent(i) ==
  /\ RepsOf(results[i]) \cap waiting[i] = {}
  /\ \A x, y \in results[i] : x.rep = y.rep => x = y
  /\ pc[i] = "reserve" /\ alg[i] \in Single
       => waiting[i] \cup RepsOf(results[i]) \subseteq {winner[i]}
  /\ pc[i] # "claim" => losers[i] = {}
  /\ pc[i] = "claim" => winner[i] \notin losers[i]
  /\ pc[i] = "release" => winner[i] \notin waiting[i]

\* One answer from each representative is finitely many.
LEMMA AcceptedFinite ==
  ASSUME AuctioneerTypeOK, NEW i \in Auctioned, Consistent(i)
  PROVE  IsFiniteSet(Accepted(i))
<1> DEFINE f == [x \in Accepted(i) |-> x.rep]
<1>1. \A x \in Accepted(i) : x.rep \in Reps
  BY ResultsType
<1>2. \A x, y \in Accepted(i) : x.rep = y.rep => x = y
  BY DEF Consistent, Accepted
<1>3. f \in Injection(Accepted(i), Reps)
  BY <1>1, <1>2 DEF Injection, IsInjective
<1> HIDE DEF f
<1>4. QED
  BY <1>3, RepsAssumption, FS_Injection

\* A short list of some bids is not empty.
LEMMA SomebodyListed ==
  ASSUME NEW S, IsFiniteSet(S), S # {}, NEW T \in ShortLists(S)
  PROVE  RepsOf(T) # {}
<1>1. Cardinality(S) \in Nat /\ Cardinality(S) # 0
  BY FS_CardinalityType, FS_EmptySet
<1>2. Cardinality(T) # 0
  BY <1>1, AuctioneerAssumption DEF ShortLists
<1>3. T # {}
  BY <1>2, FS_EmptySet
<1>4. QED
  BY <1>3 DEF RepsOf

\* Between calls and after one that reserved nothing, no one holds the
\* instance as far as the auction can tell.
LEMMA LeaveHolders ==
  ASSUME AuctioneerTypeOK, NEW i \in Auctioned,
         NEW to \in {"round", "lost", "panicked"}, Leave(i, to),
         losers'[i] = {}
  PROVE  Consistent(i)' /\ Holders(i)' = {}
BY LeaveLocal DEF Consistent, Holders, RepsOf

LEMMA NextRoundHolders ==
  ASSUME AuctioneerTypeOK, NEW i \in Auctioned, Consistent(i),
         pc[i] # "claim", NextRound(i)
  PROVE  Consistent(i)' /\ Holders(i)' = {}
BY LeaveHolders DEF NextRound, Consistent

\* A call for scores, or for the first reservations of a round.
LEMMA AskHolders ==
  ASSUME AuctioneerTypeOK, NEW i \in Auctioned, Consistent(i),
         pc[i] # "claim", NEW op \in {"score", "reserve"}, NEW reps,
         Ask(i, op, reps), UNCHANGED losers,
         op = "reserve" /\ alg'[i] \in Single => reps \subseteq {winner'[i]}
  PROVE  Consistent(i)' /\ Holders(i)' = {}
BY AskLocal DEF Consistent, Holders, RepsOf, Accepted

\* The auctioneer's steps leave the account of their own auction alone: it
\* is the answers that change it.
LEMMA HoldersKept ==
  ASSUME AuctioneerTypeOK, NEW i \in Auctioned, Consistent(i),
         \/ HoldAuction(i)
         \/ RefuseAlgorithm(i)
         \/ waiting[i] = {} /\ (Proceed(i) \/ Continue(i))
  PROVE  Consistent(i)' /\ Holders(i)' = Holders(i)
<1>1. pc[i] \in {"idle", "round", "score"} => Holders(i) = {} /\ losers[i] = {}
  BY DEF Holders, Consistent
<1>2. CASE HoldAuction(i)
  BY <1>1, <1>2, LeaveHolders DEF HoldAuction
<1>3. CASE RefuseAlgorithm(i)
  BY <1>1, <1>3, LeaveHolders DEF RefuseAlgorithm
<1>4. CASE StartRound(i)
  <2>1. PICK reps \in BiddingPools :
          Ask(i, IF alg[i] = "all_reserve" THEN "reserve" ELSE "score", reps)
    BY <1>4 DEF StartRound
  <2>2. CASE alg[i] = "all_reserve"
    BY <1>1, <1>4, <2>1, <2>2, AskHolders DEF StartRound, Single
  <2>3. CASE alg[i] # "all_reserve"
    BY <1>1, <1>4, <2>1, <2>3, AskHolders DEF StartRound
  <2>4. QED
    BY <2>2, <2>3
<1>5. CASE PickAtRandom(i)
  <2>1. PICK r \in Reps : /\ winner' = [winner EXCEPT ![i] = r]
                          /\ Ask(i, "reserve", {r})
    BY <1>5 DEF PickAtRandom
  <2>2. winner'[i] = r
    BY <2>1 DEF AuctioneerTypeOK
  <2>3. QED
    BY <1>1, <1>5, <2>1, <2>2, AskHolders DEF PickAtRandom
<1>6. CASE GiveUp(i)
  BY <1>1, <1>6, LeaveHolders DEF GiveUp
<1>7. CASE waiting[i] = {} /\ Continue(i)
  <2>1. CASE NoBids(i)
    BY <1>1, <2>1, NextRoundHolders DEF NoBids
  <2>2. CASE PickLowest(i) \/ PickAmongBest(i)
    <3>1. PICK x : /\ winner' = [winner EXCEPT ![i] = x.rep]
                   /\ Ask(i, "reserve", {x.rep})
      BY <2>2 DEF PickLowest, PickAmongBest
    <3>2. winner'[i] = x.rep
      BY <3>1 DEF AuctioneerTypeOK
    <3>3. QED
      BY <1>1, <2>2, <3>1, <3>2, AskHolders
      DEF PickLowest, PickAmongBest
  <2>3. CASE TooFewBids(i)
    BY <1>1, <2>3, LeaveHolders DEF TooFewBids
  <2>4. CASE ReserveShortList(i)
    BY <1>1, <2>4, AskHolders DEF ReserveShortList, Single
  <2>5. CASE NoReply(i)
    <3>1. Holders(i) = {} /\ losers[i] = {}
      BY <2>5 DEF NoReply, Holders, Accepted, RepsOf, Consistent
    <3>2. QED
      BY <2>5, <3>1, LeaveHolders DEF NoReply
  <2>6. CASE ReserveFailed(i)
    <3>1. Holders(i) = {}
      BY <2>6 DEF ReserveFailed, Holders, RepsOf
    <3>2. QED
      BY <2>6, <3>1, NextRoundHolders DEF ReserveFailed
  <2>7. CASE ClaimPicked(i)
    <3>1. Holders(i) = RepsOf(Accepted(i)) /\ RepsOf(Accepted(i)) # {}
      BY <2>7 DEF ClaimPicked, Holders, RepsOf
    <3>2. RepsOf(Accepted(i)) \subseteq {winner[i]} /\ losers[i] = {}
      BY <2>7 DEF ClaimPicked, Consistent, RepsOf, Accepted
    <3>3. Holders(i) = {winner[i]}
      BY <3>1, <3>2
    <3>4. QED
      BY <2>7, <3>2, <3>3, AskLocal
      DEF ClaimPicked, Consistent, Holders, RepsOf
  <2>8. CASE ClaimLowest(i)
    <3>1. PICK x \in Lowest(Accepted(i)) :
            /\ winner' = [winner EXCEPT ![i] = x.rep]
            /\ losers' = [losers EXCEPT ![i] = RepsOf(Accepted(i)) \ {x.rep}]
            /\ Ask(i, "claim", {x.rep})
      BY <2>8 DEF ClaimLowest
    <3>2. /\ winner'[i] = x.rep
          /\ losers'[i] = RepsOf(Accepted(i)) \ {x.rep}
      BY <3>1 DEF AuctioneerTypeOK
    <3>3. Holders(i) = RepsOf(Accepted(i)) /\ x.rep \in RepsOf(Accepted(i))
      BY <2>8, <3>1 DEF ClaimLowest, Holders, RepsOf, Lowest
    <3>4. pc'[i] = "claim" /\ waiting'[i] = {x.rep} /\ results'[i] = {}
      BY <3>1, AskLocal
    <3>5. Consistent(i)'
      BY <3>2, <3>4 DEF Consistent, RepsOf
    <3>6. Holders(i)' = {x.rep} \cup (RepsOf(Accepted(i)) \ {x.rep})
      BY <3>2, <3>4 DEF Holders
    <3>7. QED
      BY <3>3, <3>5, <3>6
  <2>9. CASE Rescore(i)
    <3>1. PICK x \in results[i] : recast' = [recast EXCEPT ![i] = x]
      BY <2>9 DEF Rescore
    <3>2. recast'[i] = x
      BY <3>1 DEF AuctioneerTypeOK
    <3>3. \A y \in results[i] : y.rep = winner[i]
      BY <2>9 DEF Rescore, Consistent, Single, RepsOf
    <3>4. results[i] = {x}
      BY <3>1, <3>3 DEF Consistent
    <3>5. Holders(i) = IF x.ok THEN {winner[i]} ELSE {}
      BY <2>9, <3>3, <3>4 DEF Rescore, Holders, Accepted, RepsOf
    <3>6. /\ pc'[i] = "rescore" /\ results'[i] = {} /\ losers'[i] = {}
          /\ winner'[i] = winner[i]
      BY <2>9, AskLocal DEF Rescore, Consistent
    <3>7. QED
      BY <3>2, <3>5, <3>6 DEF Consistent, Holders, RepsOf
  <2>10. CASE WinnerFull(i)
    <3>1. Holders(i) = {}
      BY <2>10 DEF WinnerFull, Holders
    <3>2. QED
      BY <2>10, <3>1, NextRoundHolders DEF WinnerFull
  <2>11. CASE GiveBack(i) \/ ClaimRescored(i)
    <3>1. Holders(i) = {winner[i]} /\ losers[i] = {}
      BY <2>11 DEF GiveBack, ClaimRescored, Holders, Consistent
    <3>2. /\ pc'[i] \in {"giveback", "claim"}
          /\ waiting'[i] = {winner[i]} /\ results'[i] = {}
          /\ winner'[i] = winner[i] /\ losers'[i] = {}
      BY <2>11, <3>1, AskLocal DEF GiveBack, ClaimRescored
    <3>3. Consistent(i)'
      BY <3>2 DEF Consistent, RepsOf
    <3>4. Holders(i)' = {winner[i]}
      BY <3>2 DEF Holders
    <3>5. QED
      BY <3>1, <3>3, <3>4
  <2>12. CASE ReleaseLosers(i)
    <3>1. Holders(i) = {winner[i]} \cup losers[i] /\ winner[i] \notin losers[i]
      BY <2>12 DEF ReleaseLosers, Holders, Consistent
    <3>2. losers'[i] = {} /\ winner'[i] = winner[i]
      BY <2>12 DEF ReleaseLosers, AuctioneerTypeOK
    <3>3. QED
      BY <2>12, <3>1, <3>2, AskLocal
      DEF ReleaseLosers, Consistent, Holders, RepsOf
  <2>13. CASE Win(i)
    <3>1. Holders(i) = {winner[i]} /\ losers[i] = {}
      BY <1>7, <2>13 DEF Win, Holders, Consistent
    <3>2. /\ pc'[i] = "won" /\ results'[i] = {} /\ waiting'[i] = {}
          /\ winner'[i] = winner[i] /\ losers'[i] = {}
      BY <2>13, <3>1, LeaveLocal DEF Win
    <3>3. QED
      BY <3>1, <3>2 DEF Consistent, Holders, RepsOf
  <2>14. CASE RetryAfterGiveBack(i)
    <3>1. Holders(i) = {}
      BY <1>7, <2>14 DEF RetryAfterGiveBack, Holders
    <3>2. QED
      BY <2>14, <3>1, NextRoundHolders DEF RetryAfterGiveBack
  <2>15. QED
    BY <1>7, <2>1, <2>2, <2>3, <2>4, <2>5, <2>6, <2>7, <2>8, <2>9, <2>10,
       <2>11, <2>12, <2>13, <2>14 DEF Continue
<1>8. QED
  BY <1>2, <1>3, <1>4, <1>5, <1>6, <1>7 DEF Proceed
=============================================================================
