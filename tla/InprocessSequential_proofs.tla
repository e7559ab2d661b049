---------------------- MODULE InprocessSequential_proofs ----------------------
(***************************************************************************)
(* Auctions held one after the other, with everybody bidding and no        *)
(* timeout.  What the bids of a round say then still holds when the round  *)
(* is decided: an auction is only lost when nobody has room, the lowest    *)
(* score wins, and representatives that start empty are evenly filled.     *)
(***************************************************************************)
EXTENDS InprocessAuction_proofs

\* One auction at a time, everyone is asked, and everyone answers.
InTurn == MaxConcurrent = 1 /\ MaxBiddingPool >= 100 /\ ~MayTimeout

\* What r holds for good: what it ran before, and what it has won.
Settled(r) == Initial[r] \cup {j \in Auctioned : pc[j] = "won" /\ winner[j] = r}

Room(r, i) == HasRoomFor(r, Settled(r), i)
Offer(r, i) == Score(r, Settled(r), i)
FullFor(i) == \A r \in Reps : ~Room(r, i)

\* r has room for i, and nobody with room bids less.
Unbeaten(r, i) ==
  Room(r, i) /\ \A s \in Reps : Room(s, i) => Offer(r, i) <= Offer(s, i)

LEMMA SettledType ==
  ASSUME NEW r \in Reps
  PROVE  Settled(r) \in SUBSET Instances /\ (Settled(r))' \in SUBSET Instances
BY AuctioneerAssumption, InprocessAssumption DEF Settled

LEMMA OfferType ==
  ASSUME NEW r \in Reps, NEW i \in Auctioned
  PROVE  Offer(r, i) \in Int
BY SettledType, ScoreType, AuctioneerAssumption DEF Offer

\* What is settled is held.
LEMMA SettledHeld ==
  ASSUME IInv, NEW r \in Reps
  PROVE  Settled(r) \subseteq instances[r]
<1>1. Initial[r] \subseteq instances[r]
  BY DEF IInv
<1>2. ASSUME NEW j \in Auctioned, pc[j] = "won", winner[j] = r
      PROVE  j \in instances[r]
  BY <1>2 DEF IInv, Accounted, Held, Holders
<1>3. QED
  BY <1>1, <1>2 DEF Settled

-----------------------------------------------------------------------------

(***************************************************************************)
(* At most one auction is under way; all others have not started or are    *)
(* over and done with.                                                     *)
(***************************************************************************)
OneRunning == \A i, j \in Running : i = j

LEMMA NotRunning ==
  ASSUME TypeInv, CollectedOver, NEW j \in Auctioned \ Running
  PROVE  pc[j] \in {"idle", "won", "lost"}
BY DEF CollectedOver, Running

\* What somebody holds beyond what is settled is an instance being auctioned.
LEMMA HeldSettled ==
  ASSUME IInv, CollectedOver, NEW r \in Reps, NEW j \in instances[r] \ Settled(r)
  PROVE  j \in Running /\ r \in Holders(j)
<1>1. instances[r] \ Auctioned = Initial[r]
  BY DEF IInv
<1>2. j \in Auctioned
  BY <1>1 DEF Settled
<1>3. r \in Holders(j)
  BY <1>2 DEF IInv, Accounted, Held
<1>4. pc[j] \notin {"idle", "won", "lost"}
  BY <1>2, <1>3 DEF Holders, Settled
<1>5. QED
  BY <1>2, <1>3, <1>4, NotRunning DEF IInv

\* Nobody runs an auction while another one takes a step.
LEMMA OnlyOneSteps ==
  ASSUME TypeInv, CollectedOver, OneRunning, MaxConcurrent = 1,
         NEW i \in Auctioned, AuctionStep(i), NEW j \in Auctioned \ {i}
  PROVE  j \notin Running
<1>1. CASE Start(i)
  <2>1. IsFiniteSet(Running)
    <3>1. IsFiniteSet(Auctioned)
      BY AuctioneerAssumption, InstancesAssumption, FS_Subset
    <3>2. Running \in SUBSET Auctioned
      BY DEF Running
    <3>3. QED
      BY <3>1, <3>2, FS_Subset
  <2>2. Cardinality(Running) < 1
    BY <1>1 DEF Start
  <2>3. Cardinality(Running) \in Nat
    BY <2>1, FS_CardinalityType
  <2>4. Running = {}
    BY <2>1, <2>2, <2>3, FS_EmptySet
  <2>5. QED
    BY <2>4
<1>2. CASE Collect(i)
  BY <1>2 DEF Collect, Running, OneRunning
<1>3. CASE AuctioneerStep(i) \/ RepStep(i)
  <2>1. pc[i] # "idle"
    BY <1>3
    DEF AuctioneerStep, Proceed, StartRound, PickAtRandom, GiveUp, Continue,
        NoBids, PickLowest, PickAmongBest, TooFewBids, ReserveShortList,
        NoReply, ReserveFailed, ClaimPicked, ClaimLowest, Rescore, WinnerFull,
        GiveBack, ClaimRescored, ReleaseLosers, Win, RetryAfterGiveBack,
        RepStep, TimesOut, Scores, Reserves, RefusesToReserve, Releases,
        Claims
  <2>2. i \notin collected \/ Collect(i)
    BY UndecidedBefore DEF CollectedOver, Decided
  <2>3. i \in Running
    BY <2>1, <2>2 DEF Running, Collect
  <2>4. QED
    BY <2>3 DEF OneRunning
<1>4. QED
  BY <1>1, <1>2, <1>3 DEF AuctionStep

LEMMA OneRunningStep ==
  ASSUME TypeInv, CollectedOver, OneRunning, MaxConcurrent = 1,
         NEW i \in Auctioned, AuctionStep(i)
  PROVE  OneRunning'
<1>1. ASSUME NEW j \in Auctioned \ {i}
      PROVE  j \notin Running'
  <2>1. j \notin Running /\ pc'[j] = pc[j]
    BY OnlyOneSteps, OthersAccount DEF Account
  <2>2. collected \subseteq collected'
    BY DEF AuctionStep, Start, AuctioneerStep, Collect
  <2>3. QED
    BY <2>1, <2>2 DEF Running
<1>2. Running' \subseteq {i}
  BY <1>1 DEF Running
<1>3. QED
  BY <1>2 DEF OneRunning

-----------------------------------------------------------------------------

\* Nothing is settled but by the return of a winner.
LEMMA SettledKept ==
  ASSUME TypeInv, NEW i \in Auctioned, AuctionStep(i),
         Collect(i) \/ pc'[i] # "won", NEW r
  PROVE  (Settled(r))' = Settled(r)
<1>1. CASE Collect(i)
  BY <1>1 DEF Collect, auctionVars, Settled
<1>2. CASE ~Collect(i)
  <2>1. pc[i] # "won"
    BY <1>2, UndecidedBefore DEF Decided
  <2>2. \A j \in Auctioned \ {i} : pc'[j] = pc[j] /\ winner'[j] = winner[j]
    BY OthersAccount DEF Account
  <2>3. QED
    BY <1>2, <2>1, <2>2 DEF Settled
<1>3. QED
  BY <1>1, <1>2

\* A winner gets the instance, and no one else gets any.
LEMMA SettledByWin ==
  ASSUME TypeInv, NEW i \in Auctioned, AuctionStep(i), ~Collect(i),
         pc'[i] = "won", NEW r \in Reps
  PROVE  /\ i \notin Settled(r)
         /\ (Settled(r))' = Settled(r) \cup (IF r = winner'[i] THEN {i} ELSE {})
<1>1. pc[i] # "won"
  BY UndecidedBefore DEF Decided
<1>2. i \notin Initial[r]
  BY InprocessAssumption
<1>3. \A j \in Auctioned \ {i} : pc'[j] = pc[j] /\ winner'[j] = winner[j]
  BY OthersAccount DEF Account
<1>4. QED
  BY <1>1, <1>2, <1>3 DEF Settled

LEMMA SettledGrows ==
  ASSUME TypeInv, NEW i \in Auctioned, AuctionStep(i), NEW r \in Reps
  PROVE  Settled(r) \subseteq (Settled(r))'
BY SettledKept, SettledByWin

\* While i is being auctioned, somebody asked who does not hold it holds
\* what is settled and nothing else.
LEMMA AskedHoldsSettled ==
  ASSUME IInv, CollectedOver, OneRunning, NEW i \in Running,
         NEW r \in Reps \ Holders(i)
  PROVE  instances[r] = Settled(r)
BY SettledHeld, HeldSettled DEF OneRunning
-----------------------------------------------------------------------------

\* An answer to auction i that tells what is settled.
Truthful(x, i) ==
  /\ x.ok <=> Room(x.rep, i)
  /\ x.ok => x.score = Offer(x.rep, i)

\* Everyone asked in the current call of i.
Asked(i) == waiting[i] \cup RepsOf(results[i])

\* Among those asked is an unbeaten one, if anybody has room at all.
Covered(i) ==
  \A s \in Reps : Room(s, i) =>
    \E r \in Asked(i) : Room(r, i) /\ Offer(r, i) <= Offer(s, i)

(***************************************************************************)
(* What is known of an auction held in its turn: the answers so far are    *)
(* truthful, whoever is asked to reserve can, nobody beats the one chosen  *)
(* by the lowest score, and no round has failed unless all were full.      *)
(***************************************************************************)
Answers(i) ==
  pc[i] \in {"score", "reserve", "rescore"} =>
    \A x \in results[i] : Truthful(x, i)

Questions(i) ==
  /\ pc[i] = "score" => Asked(i) = Reps
  /\ pc[i] = "reserve" /\ alg[i] \notin Single => Covered(i)
  /\ pc[i] = "reserve" /\ alg[i] \in Single \ {"random"} =>
       Asked(i) = {winner[i]} /\ Room(winner[i], i)
  /\ pc[i] = "rescore" =>
       /\ alg[i] = "all_rescore" /\ winner[i] \notin waiting[i]
       /\ recast[i].ok /\ recast[i].score = Offer(winner[i], i)
  /\ pc[i] # "giveback"

Choice(i) ==
  \/ pc[i] \in {"reserve", "rescore"} /\ alg[i] \in {"pick_best", "all_rescore"}
  \/ pc[i] \in {"claim", "release"} /\ alg[i] \in ByLowestScore
  => Unbeaten(winner[i], i)

Rounds(i) ==
  /\ pc[i] = "idle" => round[i] = 1
  /\ pc[i] = "lost" => round[i] > MaxRounds
  /\ round[i] > 1 /\ alg[i] # "random" => FullFor(i)

Turn(i) == Answers(i) /\ Questions(i) /\ Choice(i) /\ Rounds(i)

TurnInv == InTurn => OneRunning /\ \A i \in Auctioned : Turn(i)

\* As long as nothing is settled all bids stay what they are.
LEMMA BidsKept ==
  ASSUME TypeInv, NEW i \in Auctioned, AuctionStep(i),
         Collect(i) \/ pc'[i] # "won", NEW j
  PROVE  /\ \A r : (Room(r, j))' <=> Room(r, j)
         /\ \A r : (Offer(r, j))' = Offer(r, j)
         /\ \A r : (Unbeaten(r, j))' <=> Unbeaten(r, j)
         /\ \A x : (Truthful(x, j))' <=> Truthful(x, j)
         /\ (FullFor(j))' <=> FullFor(j)
<1>1. ASSUME NEW r
      PROVE  ((Room(r, j))' <=> Room(r, j)) /\ (Offer(r, j))' = Offer(r, j)
  <2>1. (Settled(r))' = Settled(r)
    BY SettledKept
  <2>2. QED
    BY <2>1 DEF Room, Offer
<1>2. QED
  BY <1>1 DEF Unbeaten, Truthful, FullFor

\* There is never room again.
LEMMA FullForGood ==
  ASSUME TypeInv, NEW i \in Auctioned, AuctionStep(i), NEW j \in Auctioned,
         FullFor(j)
  PROVE  (FullFor(j))'
<1>1. ASSUME NEW r \in Reps, (Room(r, j))'
      PROVE  Room(r, j)
  <2>1. /\ Settled(r) \subseteq (Settled(r))'
        /\ (Settled(r))' \in SUBSET Instances /\ j \in Instances
    BY SettledGrows, SettledType, AuctioneerAssumption
  <2>2. HasRoomFor(r, (Settled(r))', j)
    BY <1>1 DEF Room
  <2>3. HasRoomFor(r, Settled(r), j)
    BY <2>1, <2>2, RoomShrinks
  <2>4. QED
    BY <2>3 DEF Room
<1>2. QED
  BY <1>1 DEF FullFor

\* What is known of an auction that is not under way stays true.
LEMMA OthersTurn ==
  ASSUME TypeInv, CollectedOver, OneRunning, MaxConcurrent = 1,
         NEW i \in Auctioned, AuctionStep(i), NEW j \in Auctioned \ {i},
         Rounds(j)
  PROVE  (Turn(j))'
<1>1. /\ pc'[j] = pc[j] /\ alg'[j] = alg[j] /\ round'[j] = round[j]
      /\ pc[j] \in {"idle", "won", "lost"}
  BY OnlyOneSteps, NotRunning, OthersAccount DEF Account
<1>2. (Rounds(j))'
  BY <1>1, FullForGood DEF Rounds
<1>3. QED
  BY <1>1, <1>2 DEF Turn, Answers, Questions, Choice

-----------------------------------------------------------------------------
\* A truthful answer.
LEMMA AnswerTurn ==
  ASSUME TypeInv, NEW i \in Auctioned, AuctionStep(i), NEW r \in waiting[i],
         NEW score, NEW ok, Answer(i, r, score, ok), Turn(i),
         pc[i] \in {"score", "reserve", "rescore"},
         ok <=> Room(r, i), ok => score = Offer(r, i)
  PROVE  (Turn(i))'
<1> DEFINE x == [rep |-> r, score |-> score, ok |-> ok]
<1>1. /\ waiting'[i] = waiting[i] \ {r}
      /\ results'[i] = results[i] \cup {x}
      /\ UNCHANGED <<pc, alg, round, winner, recast>>
  BY DEF Answer, TypeInv, TypeOK, AuctioneerTypeOK
<1>2. x.rep = r /\ Truthful(x, i)
  BY DEF Truthful
<1> HIDE DEF x
<1>3. (Asked(i))' = Asked(i)
  BY <1>1, <1>2 DEF Asked, RepsOf
<1>4. Collect(i) \/ pc'[i] # "won"
  BY <1>1
<1>5. (Answers(i))'
  BY <1>1, <1>2, <1>4, BidsKept DEF Turn, Answers
<1>6. (Questions(i))'
  BY <1>1, <1>3, <1>4, BidsKept DEF Turn, Questions, Covered
<1>7. (Choice(i))'
  BY <1>1, <1>4, BidsKept DEF Turn, Choice
<1>8. (Rounds(i))'
  BY <1>1, <1>4, BidsKept DEF Turn, Rounds
<1>9. QED
  BY <1>5, <1>6, <1>7, <1>8 DEF Turn

\* A release or a claim is acknowledged.
LEMMA AcknowledgeTurn ==
  ASSUME TypeInv, NEW i \in Auctioned, AuctionStep(i), NEW r,
         Acknowledge(i, r), Turn(i), pc[i] \in {"claim", "release", "giveback"}
  PROVE  (Turn(i))'
<1>1. UNCHANGED <<pc, alg, round, winner, recast>>
  BY DEF Acknowledge
<1>2. Collect(i) \/ pc'[i] # "won"
  BY <1>1
<1>3. QED
  BY <1>1, <1>2, BidsKept DEF Turn, Answers, Questions, Choice, Rounds

LEMMA RepTurn ==
  ASSUME IInv, CollectedOver, OneRunning, ~MayTimeout,
         NEW i \in Auctioned, AuctionStep(i), RepStep(i), Turn(i)
  PROVE  (Turn(i))'
<1>1. PICK r \in waiting[i] :
        \/ TimesOut(i, r)
        \/ Scores(i, r)
        \/ Reserves(i, r)
        \/ RefusesToReserve(i, r)
        \/ Releases(i, r)
        \/ Claims(i, r)
  BY DEF RepStep
<1>2. TypeInv /\ r \in Reps
  BY DEF IInv, TypeInv, TypeOK, AuctioneerTypeOK
<1>3. ASSUME pc[i] \in {"score", "reserve", "rescore"}
      PROVE  /\ HasRoomFor(r, instances[r], i) <=> Room(r, i)
             /\ Score(r, instances[r], i) = Offer(r, i)
  <2>1. i \in Running
    BY <1>3 DEF CollectedOver, Running
  <2>2. r \notin Holders(i)
    BY <1>3 DEF IInv, Accounted, Consistent, Holders, RepsOf, Accepted, Turn,
                Questions
  <2>3. instances[r] = Settled(r)
    BY <1>2, <2>1, <2>2, AskedHoldsSettled
  <2>4. QED
    BY <2>3 DEF Room, Offer
<1>4. CASE TimesOut(i, r)
  BY <1>4 DEF TimesOut
<1>5. CASE Scores(i, r)
  <2>1. CASE HasRoomFor(r, instances[r], i)
    BY <1>2, <1>3, <1>5, <2>1, AnswerTurn DEF Scores
  <2>2. CASE ~HasRoomFor(r, instances[r], i)
    BY <1>2, <1>3, <1>5, <2>2, AnswerTurn DEF Scores
  <2>3. QED
    BY <2>1, <2>2
<1>6. CASE Reserves(i, r)
  BY <1>2, <1>3, <1>6, AnswerTurn DEF Reserves
<1>7. CASE RefusesToReserve(i, r)
  BY <1>2, <1>3, <1>7, AnswerTurn DEF RefusesToReserve
<1>8. CASE Releases(i, r) \/ Claims(i, r)
  BY <1>2, <1>8, AcknowledgeTurn DEF Releases, Claims
<1>9. QED
  BY <1>1, <1>4, <1>5, <1>6, <1>7, <1>8

-----------------------------------------------------------------------------

\* Issuing a call: there are no answers yet, and the round is the same.
LEMMA AskTurn ==
  ASSUME TypeInv, NEW i \in Auctioned, AuctionStep(i),
         NEW op \in Calls, NEW reps, Ask(i, op, reps),
         UNCHANGED <<alg, round>>, Turn(i)
  PROVE  /\ pc'[i] = op /\ pc'[i] # "won"
         /\ (Asked(i))' = reps /\ waiting'[i] = reps
         /\ (Answers(i))' /\ (Rounds(i))'
<1>1. pc'[i] = op /\ waiting'[i] = reps /\ results'[i] = {}
  BY TypeOfAuctioneer, AskLocal
<1>2. op \notin {"idle", "won", "lost"}
  BY DEF Calls
<1>3. (Asked(i))' = reps
  BY <1>1 DEF Asked, RepsOf
<1>4. (Answers(i))' /\ (Rounds(i))'
  BY <1>1, <1>2, BidsKept DEF Answers, Rounds, Turn
<1>5. QED
  BY <1>1, <1>2, <1>3, <1>4

\* Going on to the next round: everybody must have been full.
LEMMA NextRoundTurn ==
  ASSUME TypeInv, NEW i \in Auctioned, AuctionStep(i), NextRound(i),
         alg[i] # "random" => FullFor(i)
  PROVE  (Turn(i))'
<1>1. pc'[i] = "round" /\ results'[i] = {} /\ alg' = alg
  BY TypeOfAuctioneer, LeaveLocal DEF NextRound
<1>2. QED
  BY <1>1, BidsKept DEF Turn, Answers, Questions, Choice, Rounds

\* Once everyone has answered, whoever was asked and has room has accepted.
LEMMA RoomAccepted ==
  ASSUME NEW i \in Auctioned, Turn(i), waiting[i] = {},
         pc[i] \in {"score", "reserve", "rescore"}
  PROVE  /\ \A r \in Asked(i) : Room(r, i) =>
              \E x \in Accepted(i) : x.rep = r /\ x.score = Offer(r, i)
         /\ \A x \in Accepted(i) :
              Room(x.rep, i) /\ x.score = Offer(x.rep, i)
BY DEF Turn, Answers, Asked, RepsOf, Accepted, Truthful

\* A lowest of the bids that cover everyone is beaten by nobody.
LEMMA LowestUnbeaten ==
  ASSUME IInv, NEW i \in Auctioned, Turn(i), waiting[i] = {},
         pc[i] \in {"score", "reserve"}, Covered(i),
         NEW x \in Lowest(Accepted(i))
  PROVE  Unbeaten(x.rep, i)
<1>1. Room(x.rep, i) /\ x.score = Offer(x.rep, i)
  BY RoomAccepted DEF Lowest
<1>2. x.rep \in Reps
  BY ResultsType, TypeOfAuctioneer DEF IInv
<1>3. ASSUME NEW s \in Reps, Room(s, i)
      PROVE  Offer(x.rep, i) <= Offer(s, i)
  <2>1. PICK r \in Asked(i) : Room(r, i) /\ Offer(r, i) <= Offer(s, i)
    BY <1>3 DEF Covered
  <2>2. PICK y \in Accepted(i) : y.rep = r /\ y.score = Offer(r, i)
    BY <2>1, RoomAccepted
  <2>3. r \in Reps
    BY <2>2, ResultsType, TypeOfAuctioneer DEF IInv
  <2>4. Offer(x.rep, i) <= Offer(r, i)
    BY <1>1, <2>2 DEF Lowest
  <2>5. QED
    BY <1>2, <2>1, <2>3, <2>4, OfferType
<1>4. QED
  BY <1>1, <1>3 DEF Unbeaten

\* All answers together: whoever has room covers himself.
LEMMA AllCovered ==
  ASSUME NEW i \in Auctioned, Asked(i) = Reps
  PROVE  Covered(i)
BY OfferType DEF Covered

\* Who is short-listed covers everyone: who is not does not bid less.
LEMMA ShortListCovers ==
  ASSUME IInv, NEW i \in Auctioned, Turn(i), waiting[i] = {},
         pc[i] = "score", Accepted(i) # {}, NEW top \in ShortLists(Accepted(i))
  PROVE  \A s \in Reps : Room(s, i) =>
           \E r \in RepsOf(top) : Room(r, i) /\ Offer(r, i) <= Offer(s, i)
<1>1. IsFiniteSet(Accepted(i))
  BY AcceptedFinite, TypeOfAuctioneer DEF IInv, Accounted
<1>2. RepsOf(top) # {}
  BY <1>1, SomebodyListed
<1>3. PICK x \in top : TRUE
  BY <1>2 DEF RepsOf
<1>4. top \subseteq Accepted(i) /\ \A y \in Accepted(i) \ top : x.score <= y.score
  BY DEF ShortLists
<1>5. ASSUME NEW s \in Reps, Room(s, i)
      PROVE  \E r \in RepsOf(top) : Room(r, i) /\ Offer(r, i) <= Offer(s, i)
  <2>1. s \in Asked(i)
    BY DEF Turn, Questions
  <2>2. PICK y \in Accepted(i) : y.rep = s /\ y.score = Offer(s, i)
    BY <1>5, <2>1, RoomAccepted
  <2>3. CASE y \in top
    BY <1>5, <2>2, <2>3, OfferType DEF RepsOf
  <2>4. CASE y \notin top
    <3>1. Room(x.rep, i) /\ x.score = Offer(x.rep, i)
      BY <1>4, RoomAccepted
    <3>2. Offer(x.rep, i) <= Offer(s, i)
      BY <1>4, <2>2, <2>4, <3>1
    <3>3. QED
      BY <3>1, <3>2 DEF RepsOf
  <2>5. QED
    BY <2>3, <2>4
<1>6. QED
  BY <1>5

\* The auction starts.
LEMMA StartTurn ==
  ASSUME TypeInv, NEW i \in Auctioned, AuctionStep(i), Start(i), Turn(i)
  PROVE  (Turn(i))'
<1>1. /\ pc[i] = "idle" /\ round' = round
      /\ pc'[i] \in {"round", "panicked"} /\ results'[i] = {}
  BY TypeOfAuctioneer, LeaveLocal DEF Start, HoldAuction, RefuseAlgorithm
<1>2. round'[i] = 1
  BY <1>1 DEF Turn, Rounds
<1>3. QED
  BY <1>1, <1>2 DEF Turn, Answers, Questions, Choice, Rounds

\* The loop of rounds goes on or ends.
LEMMA ProceedTurn ==
  ASSUME TypeInv, InTurn, NEW i \in Auctioned, AuctionStep(i), Proceed(i),
         Turn(i)
  PROVE  (Turn(i))'
<1>1. CASE StartRound(i)
  <2>1. PICK op \in {"score", "reserve"} :
          /\ Ask(i, op, Reps)
          /\ op = "reserve" <=> alg[i] = "all_reserve"
    BY <1>1 DEF StartRound, BiddingPools, InTurn
  <2>2. op \in Calls /\ UNCHANGED <<alg, round>>
    BY <1>1 DEF StartRound, Calls
  <2>3. /\ pc'[i] = op /\ pc'[i] # "won" /\ (Asked(i))' = Reps
        /\ (Answers(i))' /\ (Rounds(i))'
    BY <2>1, <2>2, AskTurn
  <2>4. (Covered(i))'
    <3>1. \A s \in Reps : Offer(s, i) <= Offer(s, i)
      BY OfferType
    <3>2. QED
      BY <2>3, <3>1, BidsKept DEF Covered
  <2>5. (Questions(i))'
    BY <2>1, <2>2, <2>3, <2>4 DEF Questions, Single
  <2>6. (Choice(i))'
    BY <2>1, <2>2, <2>3 DEF Choice
  <2>7. QED
    BY <2>3, <2>5, <2>6 DEF Turn
<1>2. CASE PickAtRandom(i)
  <2>1. PICK r \in Reps : Ask(i, "reserve", {r})
    BY <1>2 DEF PickAtRandom
  <2>2. alg[i] = "random" /\ UNCHANGED <<alg, round>> /\ "reserve" \in Calls
    BY <1>2 DEF PickAtRandom, Calls
  <2>3. pc'[i] = "reserve" /\ (Answers(i))' /\ (Rounds(i))'
    BY <2>1, <2>2, AskTurn
  <2>4. QED
    BY <2>2, <2>3 DEF Turn, Questions, Choice, Single
<1>3. CASE GiveUp(i)
  <2>1. /\ pc'[i] = "lost" /\ results'[i] = {}
        /\ UNCHANGED <<alg, round>> /\ round[i] > MaxRounds
    BY <1>3, TypeOfAuctioneer, LeaveLocal, AuctioneerAssumption
    DEF GiveUp, MoreRounds, AuctioneerTypeOK
  <2>2. (Rounds(i))'
    BY <2>1, BidsKept DEF Turn, Rounds
  <2>3. QED
    BY <2>1, <2>2 DEF Turn, Answers, Questions, Choice
<1>4. QED
  BY <1>1, <1>2, <1>3 DEF Proceed

\* The scores are in.
LEMMA ScoredTurn ==
  ASSUME IInv, NEW i \in Auctioned, AuctionStep(i), Turn(i), waiting[i] = {},
         \/ NoBids(i) \/ PickLowest(i) \/ PickAmongBest(i)
         \/ TooFewBids(i) \/ ReserveShortList(i)
  PROVE  (Turn(i))'
<1>1. /\ TypeInv /\ AuctioneerTypeOK
      /\ pc[i] = "score" /\ Asked(i) = Reps /\ Covered(i)
  BY TypeOfAuctioneer, AllCovered
  DEF IInv, NoBids, PickLowest, PickAmongBest, TooFewBids, ReserveShortList,
      Turn, Questions
<1>2. CASE NoBids(i)
  <2>1. FullFor(i)
    BY <1>1, <1>2, RoomAccepted DEF NoBids, FullFor
  <2>2. QED
    BY <1>1, <1>2, <2>1, NextRoundTurn DEF NoBids
<1>3. CASE PickLowest(i) \/ PickAmongBest(i)
  <2>1. PICK x \in Accepted(i) :
          /\ winner' = [winner EXCEPT ![i] = x.rep]
          /\ Ask(i, "reserve", {x.rep})
          /\ PickLowest(i) => x \in Lowest(Accepted(i))
    <3>1. CASE PickLowest(i)
      BY <3>1 DEF PickLowest, Lowest
    <3>2. CASE PickAmongBest(i)
      <4>1. ~PickLowest(i)
        BY <3>2 DEF PickLowest, PickAmongBest
      <4>2. QED
        BY <3>2, <4>1 DEF PickAmongBest, ShortLists
    <3>3. QED
      BY <1>3, <3>1, <3>2
  <2>2. UNCHANGED <<alg, round>> /\ "reserve" \in Calls /\ winner'[i] = x.rep
    BY <1>1, <1>3, <2>1
    DEF PickLowest, PickAmongBest, Calls, AuctioneerTypeOK
  <2>3. /\ pc'[i] = "reserve" /\ pc'[i] # "won" /\ (Asked(i))' = {x.rep}
        /\ (Answers(i))' /\ (Rounds(i))'
    BY <1>1, <2>1, <2>2, AskTurn
  <2>4. Room(x.rep, i)
    BY <1>1, RoomAccepted
  <2>5. (Questions(i))'
    <3>1. alg[i] \in Single
      BY <1>3 DEF PickLowest, PickAmongBest, Single
    <3>2. QED
      BY <1>1, <2>2, <2>3, <2>4, <3>1, BidsKept DEF Questions
  <2>6. (Choice(i))'
    <3>1. CASE PickLowest(i)
      BY <1>1, <2>1, <2>2, <2>3, <3>1, LowestUnbeaten, BidsKept DEF Choice
    <3>2. CASE PickAmongBest(i)
      BY <2>2, <2>3, <3>2 DEF Choice, PickAmongBest
    <3>3. QED
      BY <1>3, <3>1, <3>2
  <2>7. QED
    BY <2>3, <2>5, <2>6 DEF Turn
<1>4. CASE TooFewBids(i)
  <2>1. /\ pc'[i] = "panicked" /\ UNCHANGED <<alg, round>>
    BY <1>1, <1>4, LeaveLocal DEF TooFewBids
  <2>2. QED
    BY <1>1, <2>1, BidsKept DEF Turn, Answers, Questions, Choice, Rounds
<1>5. CASE ReserveShortList(i)
  <2>1. PICK top \in ShortLists(Accepted(i)) : Ask(i, "reserve", RepsOf(top))
    BY <1>5 DEF ReserveShortList
  <2>2. /\ UNCHANGED <<alg, round>> /\ "reserve" \in Calls
        /\ alg[i] = "reserve_n_best"
    BY <1>5 DEF ReserveShortList, Calls
  <2>3. /\ pc'[i] = "reserve" /\ pc'[i] # "won" /\ (Asked(i))' = RepsOf(top)
        /\ (Answers(i))' /\ (Rounds(i))'
    BY <1>1, <2>1, <2>2, AskTurn
  <2>4. \A s \in Reps : Room(s, i) =>
          \E r \in RepsOf(top) : Room(r, i) /\ Offer(r, i) <= Offer(s, i)
    BY <1>1, <1>5, ShortListCovers DEF ReserveShortList
  <2>5. (Covered(i))'
    BY <1>1, <2>3, <2>4, BidsKept DEF Covered
  <2>6. (Questions(i))' /\ (Choice(i))'
    BY <2>2, <2>3, <2>5 DEF Questions, Choice, Single
  <2>7. QED
    BY <2>3, <2>6 DEF Turn
<1>6. QED
  BY <1>2, <1>3, <1>4, <1>5

\* The reservations are in.
LEMMA ReservedTurn ==
  ASSUME IInv, NEW i \in Auctioned, AuctionStep(i), Turn(i), waiting[i] = {},
         \/ NoReply(i) \/ ReserveFailed(i) \/ ClaimPicked(i)
         \/ ClaimLowest(i) \/ Rescore(i)
  PROVE  (Turn(i))'
<1>1. TypeInv /\ AuctioneerTypeOK /\ pc[i] = "reserve"
  BY TypeOfAuctioneer
  DEF IInv, NoReply, ReserveFailed, ClaimPicked, ClaimLowest, Rescore
<1>2. CASE NoReply(i)
  <2>1. /\ pc'[i] = "panicked" /\ UNCHANGED <<alg, round>>
    BY <1>1, <1>2, LeaveLocal DEF NoReply
  <2>2. QED
    BY <1>1, <2>1, BidsKept DEF Turn, Answers, Questions, Choice, Rounds
<1>3. CASE ReserveFailed(i)
  <2>1. ASSUME alg[i] # "random"
        PROVE  FullFor(i)
    <3>1. ~\E r \in Asked(i) : Room(r, i)
      BY <1>1, <1>3, RoomAccepted DEF ReserveFailed
    <3>2. alg[i] \notin Single
      BY <1>1, <2>1, <3>1 DEF Turn, Questions
    <3>3. Covered(i)
      BY <1>1, <3>2 DEF Turn, Questions
    <3>4. QED
      BY <3>1, <3>3 DEF Covered, FullFor
  <2>2. QED
    BY <1>1, <1>3, <2>1, NextRoundTurn DEF ReserveFailed
<1>4. CASE ClaimPicked(i)
  <2>1. /\ Ask(i, "claim", {winner[i]}) /\ "claim" \in Calls
        /\ UNCHANGED <<alg, round, winner>>
    BY <1>4 DEF ClaimPicked, Calls
  <2>2. pc'[i] = "claim" /\ (Answers(i))' /\ (Rounds(i))'
    BY <1>1, <2>1, AskTurn
  <2>3. (Choice(i))'
    <3>1. alg[i] \in ByLowestScore => Unbeaten(winner[i], i)
      BY <1>1, <1>4 DEF ClaimPicked, Single, ByLowestScore, Turn, Choice
    <3>2. QED
      BY <1>1, <2>1, <2>2, <3>1, BidsKept DEF Choice
  <2>4. QED
    BY <2>2, <2>3 DEF Turn, Questions
<1>5. CASE ClaimLowest(i)
  <2>1. PICK x \in Lowest(Accepted(i)) :
          /\ winner' = [winner EXCEPT ![i] = x.rep]
          /\ Ask(i, "claim", {x.rep})
    BY <1>5 DEF ClaimLowest
  <2>2. UNCHANGED <<alg, round>> /\ "claim" \in Calls /\ winner'[i] = x.rep
    BY <1>1, <1>5, <2>1 DEF ClaimLowest, Calls, AuctioneerTypeOK
  <2>3. pc'[i] = "claim" /\ (Answers(i))' /\ (Rounds(i))'
    BY <1>1, <2>1, <2>2, AskTurn
  <2>4. Covered(i)
    BY <1>1, <1>5 DEF ClaimLowest, Turn, Questions
  <2>5. Unbeaten(x.rep, i)
    BY <1>1, <2>1, <2>4, LowestUnbeaten
  <2>6. (Choice(i))'
    BY <1>1, <2>2, <2>3, <2>5, BidsKept DEF Choice
  <2>7. QED
    BY <2>3, <2>6 DEF Turn, Questions
<1>6. CASE Rescore(i)
  <2>1. PICK x \in results[i] : recast' = [recast EXCEPT ![i] = x]
    BY <1>6 DEF Rescore
  <2>2. /\ Ask(i, "rescore", pool[i] \ {winner[i]}) /\ "rescore" \in Calls
        /\ alg[i] = "all_rescore" /\ recast'[i] = x
        /\ UNCHANGED <<alg, round, winner>>
    BY <1>1, <1>6, <2>1 DEF Rescore, Calls, AuctioneerTypeOK
  <2>3. /\ pc'[i] = "rescore" /\ waiting'[i] = pool[i] \ {winner[i]}
        /\ (Answers(i))' /\ (Rounds(i))'
    BY <1>1, <2>2, AskTurn
  <2>4. x.ok /\ x.score = Offer(winner[i], i)
    <3>1. Asked(i) = {winner[i]} /\ Room(winner[i], i)
      BY <1>1, <2>2 DEF Turn, Questions, Single
    <3>2. x.rep = winner[i]
      BY <2>1, <3>1 DEF Asked, RepsOf
    <3>3. Truthful(x, i)
      BY <1>1, <2>1 DEF Turn, Answers
    <3>4. QED
      BY <3>1, <3>2, <3>3 DEF Truthful
  <2>5. (Questions(i))'
    BY <1>1, <2>2, <2>3, <2>4, BidsKept DEF Questions
  <2>6. (Choice(i))'
    <3>1. Unbeaten(winner[i], i)
      BY <1>1, <2>2 DEF Turn, Choice
    <3>2. QED
      BY <1>1, <2>2, <2>3, <3>1, BidsKept DEF Choice
  <2>7. QED
    BY <2>3, <2>5, <2>6 DEF Turn
<1>7. QED
  BY <1>2, <1>3, <1>4, <1>5, <1>6

\* The second scores are in: the winner is neither full nor outbid.
LEMMA RescoredTurn ==
  ASSUME IInv, NEW i \in Auctioned, AuctionStep(i), Turn(i), waiting[i] = {},
         WinnerFull(i) \/ GiveBack(i) \/ ClaimRescored(i)
  PROVE  (Turn(i))'
<1>1. TypeInv /\ AuctioneerTypeOK /\ pc[i] = "rescore"
  BY TypeOfAuctioneer DEF IInv, WinnerFull, GiveBack, ClaimRescored
<1>2. /\ recast[i].ok /\ recast[i].score = Offer(winner[i], i)
      /\ alg[i] = "all_rescore" /\ Unbeaten(winner[i], i)
  BY <1>1 DEF Turn, Questions, Choice
<1>3. ~WinnerFull(i)
  BY <1>2 DEF WinnerFull
<1>4. ~GiveBack(i)
  <2> SUFFICES ASSUME Outbid(i)
               PROVE  FALSE
    BY DEF GiveBack
  <2>1. PICK x \in Accepted(i) : x.score < recast[i].score
    BY DEF Outbid, Lowest
  <2>2. Room(x.rep, i) /\ x.score = Offer(x.rep, i) /\ x.rep \in Reps
    BY <1>1, RoomAccepted, ResultsType
  <2>3. winner[i] \in Reps
    BY <1>1 DEF TypeInv, WinnerKnown, AboutWinner
  <2>4. Offer(winner[i], i) <= Offer(x.rep, i)
    BY <1>2, <2>2 DEF Unbeaten
  <2>5. QED
    BY <1>2, <2>1, <2>2, <2>3, <2>4, OfferType
<1>5. CASE ClaimRescored(i)
  <2>1. /\ Ask(i, "claim", {winner[i]}) /\ "claim" \in Calls
        /\ UNCHANGED <<alg, round, winner>>
    BY <1>5 DEF ClaimRescored, Calls
  <2>2. pc'[i] = "claim" /\ (Answers(i))' /\ (Rounds(i))'
    BY <1>1, <2>1, AskTurn
  <2>3. (Choice(i))'
    BY <1>1, <1>2, <2>1, <2>2, BidsKept DEF Choice
  <2>4. QED
    BY <2>2, <2>3 DEF Turn, Questions
<1>6. QED
  BY <1>3, <1>4, <1>5

\* The claim is acknowledged, or the releases after it.
LEMMA ClaimedTurn ==
  ASSUME TypeInv, NEW i \in Auctioned, AuctionStep(i), Turn(i),
         ReleaseLosers(i) \/ Win(i) \/ RetryAfterGiveBack(i)
  PROVE  (Turn(i))'
<1>1. CASE ReleaseLosers(i)
  <2>1. /\ Ask(i, "release", losers[i]) /\ "release" \in Calls
        /\ UNCHANGED <<alg, round, winner>> /\ pc[i] = "claim"
    BY <1>1 DEF ReleaseLosers, Calls
  <2>2. pc'[i] = "release" /\ (Answers(i))' /\ (Rounds(i))'
    BY <2>1, AskTurn
  <2>3. (Choice(i))'
    BY <2>1, <2>2, BidsKept DEF Turn, Choice
  <2>4. QED
    BY <2>2, <2>3 DEF Turn, Questions
<1>2. CASE Win(i)
  <2>1. pc'[i] = "won" /\ UNCHANGED <<alg, round>>
    BY <1>2, TypeOfAuctioneer, LeaveLocal DEF Win
  <2>2. (Rounds(i))'
    BY <2>1, FullForGood DEF Turn, Rounds
  <2>3. QED
    BY <2>1, <2>2 DEF Turn, Answers, Questions, Choice
<1>3. ~RetryAfterGiveBack(i)
  BY DEF RetryAfterGiveBack, Turn, Questions
<1>4. QED
  BY <1>1, <1>2, <1>3

-----------------------------------------------------------------------------

\* A step that leaves the auctions alone.
LEMMA SameTurn ==
  ASSUME NEW j \in Auctioned, Turn(j), UNCHANGED auctionVars
  PROVE  (Turn(j))'
<1>1. UNCHANGED <<pc, alg, round, winner, recast, waiting, results>>
  BY DEF auctionVars
<1>2. \A r : (Settled(r))' = Settled(r)
  BY <1>1 DEF Settled
<1>3. \A r : ((Room(r, j))' <=> Room(r, j)) /\ (Offer(r, j))' = Offer(r, j)
  BY <1>2 DEF Room, Offer
<1>4. /\ \A r : (Unbeaten(r, j))' <=> Unbeaten(r, j)
      /\ \A x : (Truthful(x, j))' <=> Truthful(x, j)
      /\ (FullFor(j))' <=> FullFor(j)
  BY <1>3 DEF Unbeaten, Truthful, FullFor
<1>5. (Asked(j))' = Asked(j)
  BY <1>1 DEF Asked, RepsOf
<1>6. (Covered(j))' <=> Covered(j)
  BY <1>3, <1>5 DEF Covered
<1>7. (Answers(j))' /\ (Choice(j))' /\ (Rounds(j))'
  BY <1>1, <1>4 DEF Turn, Answers, Choice, Rounds
<1>8. (Questions(j))'
  BY <1>1, <1>3, <1>5, <1>6 DEF Turn, Questions
<1>9. QED
  BY <1>7, <1>8 DEF Turn

LEMMA TurnInit == Init => TurnInv
BY DEF Init, AuctioneerInit, TurnInv, OneRunning, Running, Turn, Answers,
       Questions, Choice, Rounds

LEMMA TurnStep == IInv /\ CollectedOver /\ TurnInv /\ [Next]_vars => TurnInv'
<1> SUFFICES ASSUME IInv, CollectedOver, TurnInv, [Next]_vars, InTurn
             PROVE  OneRunning' /\ \A j \in Auctioned : (Turn(j))'
  BY DEF TurnInv, InTurn
<1>1. /\ TypeInv /\ MaxConcurrent = 1 /\ ~MayTimeout
      /\ OneRunning /\ \A j \in Auctioned : Turn(j)
  BY DEF IInv, TurnInv, InTurn
<1>2. CASE UNCHANGED vars
  BY <1>1, <1>2, SameTurn DEF vars, auctionVars, OneRunning, Running
<1>3. ASSUME NEW i \in Auctioned, AuctionStep(i)
      PROVE  OneRunning' /\ \A j \in Auctioned : (Turn(j))'
  <2>1. OneRunning'
    BY <1>1, <1>3, OneRunningStep
  <2>2. ASSUME NEW j \in Auctioned \ {i}
        PROVE  (Turn(j))'
    BY <1>1, <1>3, OthersTurn DEF Turn
  <2>3. (Turn(i))'
    <3>1. CASE Start(i)
      BY <1>1, <1>3, <3>1, StartTurn
    <3>2. CASE AuctioneerStep(i) /\ Proceed(i)
      BY <1>1, <1>3, <3>2, ProceedTurn
    <3>3. CASE AuctioneerStep(i) /\ Continue(i)
      <4>1. waiting[i] = {}
        BY <3>3 DEF AuctioneerStep
      <4>2. QED
        BY <1>1, <1>3, <3>3, <4>1, ScoredTurn, ReservedTurn, RescoredTurn,
           ClaimedTurn
        DEF Continue
    <3>4. CASE RepStep(i)
      BY <1>1, <1>3, <3>4, RepTurn
    <3>5. CASE Collect(i)
      BY <1>1, <3>5, SameTurn DEF Collect
    <3>6. QED
      BY <1>3, <3>1, <3>2, <3>3, <3>4, <3>5 DEF AuctionStep, AuctioneerStep
  <2>4. QED
    BY <2>1, <2>2, <2>3
<1>4. QED
  BY <1>2, <1>3 DEF Next, Terminated

LEMMA TurnInvariant == Spec => []TurnInv
BY TurnInit, TurnStep, AccountsInvariant, CollectedInvariant, PTL DEF Spec

(***************************************************************************)
(* With one auction at a time, everybody bidding and no timeout, an        *)
(* auction (but by random) is only lost when no representative has room:   *)
(* its rounds fail only when all are full, and nobody has room again.      *)
(***************************************************************************)
THEOREM LostOnlyWhenFull == Spec => []LostOnlyIfFull
<1>1. IInv /\ TurnInv => LostOnlyIfFull
  <2> SUFFICES ASSUME IInv, TurnInv, InTurn, MaxRounds > 0,
                      NEW i \in Auctioned, pc[i] = "lost", alg[i] # "random",
                      NEW r \in Reps
               PROVE  ~Fits(r, instances[r] \cup {i})
    BY DEF LostOnlyIfFull, InTurn
  <2>1. round[i] > MaxRounds /\ round[i] \in Nat /\ MaxRounds \in Nat
    BY AuctioneerAssumption
    DEF TurnInv, Turn, Rounds, IInv, TypeInv, TypeOK, AuctioneerTypeOK
  <2>2. round[i] > 1
    BY <2>1
  <2>3. ~HasRoomFor(r, Settled(r), i)
    BY <2>2 DEF TurnInv, Turn, Rounds, FullFor, Room
  <2>4. /\ instances[r] \in SUBSET Instances /\ i \in Instances
        /\ Settled(r) \in SUBSET instances[r]
    BY SettledHeld, AuctioneerAssumption DEF IInv, TypeInv, TypeOK
  <2>5. ~HasRoomFor(r, instances[r], i)
    BY <2>3, <2>4, RoomShrinks
  <2>6. i \notin instances[r]
    BY DEF IInv, Accounted, Held, Holders
  <2>7. QED
    BY <2>4, <2>5, <2>6, RoomIsNeeded
<1>2. QED
  BY <1>1, AccountsInvariant, TurnInvariant, PTL

-----------------------------------------------------------------------------

\* There is one way to return a winner.
LEMMA WinsByWin ==
  ASSUME TypeInv, NEW i \in Auctioned, Proceed(i) \/ Continue(i), pc'[i] = "won"
  PROVE  Win(i)
<1>1. \A op, reps : Ask(i, op, reps) => pc'[i] = op
  BY TypeOfAuctioneer, AskLocal
<1>2. \A to : Leave(i, to) => pc'[i] = to
  BY TypeOfAuctioneer, LeaveLocal
<1>3. ~Proceed(i)
  BY <1>1, <1>2 DEF Proceed, StartRound, PickAtRandom, GiveUp
<1>4. ~(\/ NoBids(i) \/ TooFewBids(i) \/ NoReply(i) \/ ReserveFailed(i)
        \/ WinnerFull(i) \/ RetryAfterGiveBack(i))
  BY <1>2
  DEF NoBids, TooFewBids, NoReply, ReserveFailed, WinnerFull,
      RetryAfterGiveBack, NextRound
<1>5. ~(\/ PickLowest(i) \/ PickAmongBest(i) \/ ReserveShortList(i)
        \/ ClaimPicked(i) \/ ClaimLowest(i) \/ Rescore(i) \/ GiveBack(i)
        \/ ClaimRescored(i) \/ ReleaseLosers(i))
  BY <1>1
  DEF PickLowest, PickAmongBest, ReserveShortList, ClaimPicked, ClaimLowest,
      Rescore, GiveBack, ClaimRescored, ReleaseLosers
<1>6. QED
  BY <1>3, <1>4, <1>5 DEF Continue

\* A winner by the lowest score was unbeaten.
LEMMA WinnerUnbeaten ==
  ASSUME TurnInv, InTurn, TypeInv, NEW i \in Auctioned, AuctionStep(i),
         ~Collect(i), pc'[i] = "won", alg[i] \in ByLowestScore
  PROVE  Unbeaten(winner[i], i) /\ winner'[i] = winner[i] /\ AuctioneerStep(i)
<1>1. Turn(i)
  BY DEF TurnInv
<1>2. ~Start(i)
  BY TypeOfAuctioneer, LeaveLocal DEF Start, HoldAuction, RefuseAlgorithm
<1>3. ~RepStep(i)
  <2>1. pc[i] # "won"
    BY UndecidedBefore DEF Decided
  <2>2. QED
    BY <2>1
    DEF RepStep, TimesOut, Scores, Reserves, RefusesToReserve, Releases,
        Claims, Answer, Acknowledge
<1>4. AuctioneerStep(i)
  BY <1>2, <1>3 DEF AuctionStep
<1>5. Win(i)
  BY <1>4, WinsByWin DEF AuctioneerStep
<1>6. QED
  BY <1>1, <1>4, <1>5 DEF Win, Turn, Choice

\* But for the instance being auctioned, all that is held is settled.
LEMMA HeldBesides ==
  ASSUME IInv, CollectedOver, OneRunning, NEW i \in Running, pc[i] # "won",
         NEW r \in Reps
  PROVE  instances[r] \ {i} = Settled(r)
<1>1. i \notin Settled(r)
  BY InprocessAssumption DEF Settled, Running
<1>2. QED
  BY <1>1, SettledHeld, HeldSettled DEF OneRunning

(***************************************************************************)
(* With one auction at a time, everybody bidding and no timeout, whoever   *)
(* wins by the lowest score had room and was outbid by nobody with room:   *)
(* between the bids and the return of the winner nothing happens on any    *)
(* representative but for this auction's own reservations.                 *)
(***************************************************************************)
THEOREM BestBidAlwaysWins == Spec => BestBidWins
<1>1. IInv /\ CollectedOver /\ TurnInv /\ [Next]_vars
        => [InTurn =>
              \A i \in Auctioned :
                (pc[i] # "won" /\ pc'[i] = "won" /\ alg[i] \in ByLowestScore) =>
                  /\ RoomAtReturn(winner'[i], i)
                  /\ \A s \in Reps : RoomAtReturn(s, i) =>
                       BidAtReturn(winner'[i], i) <= BidAtReturn(s, i)]_vars
  <2> SUFFICES ASSUME IInv, CollectedOver, TurnInv, Next, InTurn,
                      NEW i \in Auctioned, pc[i] # "won", pc'[i] = "won",
                      alg[i] \in ByLowestScore
               PROVE  /\ RoomAtReturn(winner'[i], i)
                      /\ \A s \in Reps : RoomAtReturn(s, i) =>
                           BidAtReturn(winner'[i], i) <= BidAtReturn(s, i)
    OBVIOUS
  <2>1. TypeInv /\ OneRunning
    BY DEF IInv, TurnInv
  <2>2. AuctionStep(i) /\ ~Collect(i)
    <3>1. PICK j \in Auctioned : AuctionStep(j)
      BY DEF Next, Terminated, vars, auctionVars
    <3>2. i = j
      BY <2>1, <3>1, OthersAccount DEF Account
    <3>3. QED
      BY <3>1, <3>2 DEF Collect, auctionVars
  <2>3. /\ Unbeaten(winner[i], i) /\ winner'[i] = winner[i]
        /\ AuctioneerStep(i)
    BY <2>1, <2>2, WinnerUnbeaten
  <2>4. UNCHANGED instances /\ Win(i)
    BY <2>1, <2>3, WinsByWin DEF AuctioneerStep
  <2>5. i \in Running
    BY <2>4 DEF Win, CollectedOver, Running
  <2>6. \A s \in Reps : instances'[s] \ {i} = Settled(s)
    BY <2>1, <2>4, <2>5, HeldBesides
  <2>7. \A s \in Reps : (RoomAtReturn(s, i) <=> Room(s, i))
                         /\ BidAtReturn(s, i) = Offer(s, i)
    BY <2>6 DEF RoomAtReturn, BidAtReturn, Room, Offer
  <2>8. winner[i] \in Reps
    BY <2>1, <2>4 DEF TypeInv, WinnerKnown, AboutWinner, Win
  <2>9. QED
    BY <2>3, <2>7, <2>8 DEF Unbeaten
<1>2. QED
  BY <1>1, AccountsInvariant, CollectedInvariant, TurnInvariant, PTL
  DEF Spec, BestBidWins, InTurn

-----------------------------------------------------------------------------

\* The instances auctioned are all of one application, and no others run.
OneApp ==
  /\ Cardinality({AppGuid[i] : i \in Auctioned}) = 1
  /\ \A r \in Reps : Initial[r] = {}

\* What is settled is spread evenly, by the winners so far.
Even(r, s) ==
  \/ Cardinality(Settled(r)) <= Cardinality(Settled(s)) + 1
  \/ \E k \in Settled(r) : ~Room(s, k)

ByBids == \A i \in Auctioned : pc[i] = "won" => alg[i] \in ByLowestScore

Spread == (InTurn /\ OneApp /\ ByBids) => \A r, s \in Reps : Even(r, s)

LEMMA SameApp ==
  ASSUME OneApp, NEW i \in Auctioned, NEW j \in Auctioned
  PROVE  AppGuid[i] = AppGuid[j]
<1> DEFINE apps == {AppGuid[k] : k \in Auctioned}
           guid == [k \in Auctioned |-> AppGuid[k]]
<1>1. IsFiniteSet(Auctioned)
  BY AuctioneerAssumption, InstancesAssumption, FS_Subset
<1>2. guid \in Surjection(Auctioned, apps)
  BY DEF Surjection
<1>3. Cardinality(apps) = 1
  BY DEF OneApp
<1>4. AppGuid[i] \in apps /\ AppGuid[j] \in apps
  OBVIOUS
<1> HIDE DEF apps, guid
<1>5. IsFiniteSet(apps)
  BY <1>1, <1>2, FS_Surjection
<1>6. PICK a : apps = {a}
  BY <1>3, <1>5, FS_Singleton
<1>7. QED
  BY <1>4, <1>6

\* The number of instances settled.
LEMMA SettledCount ==
  ASSUME NEW r \in Reps
  PROVE  /\ IsFiniteSet(Settled(r)) /\ Cardinality(Settled(r)) \in Nat
         /\ IsFiniteSet((Settled(r))') /\ Cardinality((Settled(r))') \in Nat
<1>1. IsFiniteSet(Settled(r)) /\ IsFiniteSet((Settled(r))')
  BY SettledType, InstancesAssumption, FS_Subset
<1>2. QED
  BY <1>1, FS_CardinalityType

(***************************************************************************)
(* The step the spread hinges on: an unbeaten winner gets one more.  If    *)
(* somebody else has room, the winner runs no more than that one.  If not, *)
(* it is the new instance the other has no room for.                       *)
(***************************************************************************)
LEMMA WinKeepsEven ==
  ASSUME TypeInv, OneApp, NEW i \in Auctioned, AuctionStep(i), ~Collect(i),
         pc'[i] = "won", Unbeaten(winner[i], i), winner'[i] = winner[i],
         winner[i] \in Reps, NEW r \in Reps, NEW s \in Reps, Even(r, s)
  PROVE  (Even(r, s))'
<1> DEFINE w == winner[i]
<1>1. \A q \in Reps :
        /\ i \notin Settled(q)
        /\ (Settled(q))' = Settled(q) \cup (IF q = w THEN {i} ELSE {})
  BY SettledByWin
<1>2. CASE r = s
  BY <1>2, SettledCount DEF Even
<1>3. CASE r # s /\ r # w
  <2>1. (Settled(r))' = Settled(r) /\ Settled(s) \subseteq (Settled(s))'
    BY <1>1, <1>3
  <2>2. Cardinality(Settled(s)) <= Cardinality((Settled(s))')
    BY <2>1, SettledCount, FS_Subset
  <2>3. ASSUME NEW k \in Settled(r), (Room(s, k))'
        PROVE  Room(s, k)
    <3>1. HasRoomFor(s, (Settled(s))', k) /\ k \in Instances
      BY <2>3, SettledType DEF Room
    <3>2. HasRoomFor(s, Settled(s), k)
      BY <2>1, <3>1, SettledType, RoomShrinks
    <3>3. QED
      BY <3>2 DEF Room
  <2>4. QED
    BY <2>1, <2>2, <2>3, SettledCount DEF Even
<1>4. CASE r # s /\ r = w
  <2>1. (Settled(s))' = Settled(s) /\ (Settled(w))' = Settled(w) \cup {i}
    BY <1>1, <1>4
  <2>2. CASE Room(s, i)
    <3>1. Offer(w, i) <= Offer(s, i) /\ Room(w, i)
      BY <2>2 DEF Unbeaten
    <3>2. \A j \in Settled(w) \cup Settled(s) : AppGuid[j] = AppGuid[i]
      BY <1>4, SameApp DEF Settled, OneApp
    <3>3. Cardinality(Settled(w)) <= Cardinality(Settled(s))
      BY <1>4, <2>2, <3>1, <3>2, BidsByNumber, SettledType, AuctioneerAssumption
      DEF Room, Offer
    <3>4. Cardinality((Settled(w))') = Cardinality(Settled(w)) + 1
      BY <1>1, <1>4, <2>1, SettledCount, FS_AddElement
    <3>5. QED
      BY <1>4, <2>1, <3>3, <3>4, SettledCount DEF Even
  <2>3. CASE ~Room(s, i)
    <3>1. ~(Room(s, i))'
      BY <2>1, <2>3 DEF Room
    <3>2. i \in (Settled(r))'
      BY <1>4, <2>1
    <3>3. QED
      BY <3>1, <3>2 DEF Even
  <2>4. QED
    BY <2>2, <2>3
<1>5. QED
  BY <1>2, <1>3, <1>4

LEMMA SpreadInit == Init => Spread
<1> SUFFICES ASSUME Init, OneApp, NEW r \in Reps, NEW s \in Reps
             PROVE  Even(r, s)
  BY DEF Spread
<1>1. Settled(r) = {} /\ Settled(s) = {}
  BY DEF Init, AuctioneerInit, Settled, OneApp
<1>2. QED
  BY <1>1, FS_EmptySet DEF Even

LEMMA SpreadStep ==
  IInv /\ CollectedOver /\ TurnInv /\ Spread /\ [Next]_vars => Spread'
<1> SUFFICES ASSUME IInv, CollectedOver, TurnInv, Spread, [Next]_vars,
                    InTurn, OneApp, ByBids',
                    NEW r \in Reps, NEW s \in Reps
             PROVE  (Even(r, s))'
  BY DEF Spread, InTurn, OneApp
<1>1. TypeInv
  BY DEF IInv
<1>2. CASE UNCHANGED vars
  <2>1. \A q : (Settled(q))' = Settled(q)
    BY <1>2 DEF vars, auctionVars, Settled
  <2>2. ByBids
    BY <1>2 DEF vars, auctionVars, ByBids
  <2>3. Even(r, s)
    BY <2>2 DEF Spread
  <2>4. QED
    BY <2>1, <2>3 DEF Even, Room
<1>3. ASSUME NEW i \in Auctioned, AuctionStep(i)
      PROVE  (Even(r, s))'
  <2>1. \A j \in Auctioned \ {i} : pc'[j] = pc[j] /\ alg'[j] = alg[j]
    BY <1>1, <1>3, OthersAccount DEF Account
  <2>2. ByBids
    <3>1. CASE Collect(i)
      BY <3>1 DEF Collect, auctionVars, ByBids
    <3>2. CASE ~Collect(i)
      <4>1. pc[i] # "won"
        BY <1>1, <1>3, <3>2, UndecidedBefore DEF Decided
      <4>2. QED
        BY <2>1, <4>1 DEF ByBids
    <3>3. QED
      BY <3>1, <3>2
  <2>3. Even(r, s)
    BY <2>2 DEF Spread
  <2>4. CASE Collect(i) \/ pc'[i] # "won"
    <3>1. \A q : (Settled(q))' = Settled(q)
      BY <1>1, <1>3, <2>4, SettledKept
    <3>2. QED
      BY <2>3, <3>1 DEF Even, Room
  <2>5. CASE ~Collect(i) /\ pc'[i] = "won"
    <3>1. alg'[i] \in ByLowestScore
      BY <2>5 DEF ByBids
    <3>2. CASE Start(i)
      BY <1>1, <2>5, <3>2, TypeOfAuctioneer, LeaveLocal
      DEF Start, HoldAuction, RefuseAlgorithm
    <3>3. CASE ~Start(i)
      <4>1. alg'[i] = alg[i]
        BY <1>1, <1>3, <2>5, <3>3, RescoringKept DEF AuctionStep
      <4>2. Unbeaten(winner[i], i) /\ winner'[i] = winner[i] /\ AuctioneerStep(i)
        BY <1>1, <1>3, <2>5, <3>1, <4>1, WinnerUnbeaten
      <4>3. winner[i] \in Reps
        BY <1>1, <2>5, <4>2, WinsByWin
        DEF AuctioneerStep, Win, TypeInv, WinnerKnown, AboutWinner
      <4>4. QED
        BY <1>1, <1>3, <2>3, <2>5, <4>2, <4>3, WinKeepsEven
    <3>4. QED
      BY <3>2, <3>3
  <2>6. QED
    BY <2>4, <2>5
<1>4. QED
  BY <1>2, <1>3 DEF Next, Terminated

(***************************************************************************)
(* Instances of one application, auctioned one at a time by algorithms     *)
(* that go by the lowest score, are evenly spread between representatives  *)
(* that start empty, whatever the representatives and the instances are:   *)
(* one runs two more than another only if some of what it runs does not    *)
(* fit on the other.                                                       *)
(***************************************************************************)
THEOREM AlwaysEvenSpread == Spec => []EvenSpread
<1>1. IInv /\ CollectedOver /\ Spread => EvenSpread
  <2> SUFFICES ASSUME IInv, CollectedOver, Spread, InTurn, OneApp, ByBids,
                      Running = {}, NEW r \in Reps, NEW s \in Reps
               PROVE  \/ Cardinality(instances[r]) <= Cardinality(instances[s]) + 1
                      \/ \E i \in instances[r] : ~HasRoomFor(s, instances[s], i)
    BY DEF EvenSpread, InTurn, OneApp, ByBids
  <2>1. instances[r] = Settled(r) /\ instances[s] = Settled(s)
    BY SettledHeld, HeldSettled
  <2>2. QED
    BY <2>1 DEF Spread, Even, Room
<1>2. QED
  BY <1>1, SpreadInit, SpreadStep, AccountsInvariant, CollectedInvariant,
     TurnInvariant, PTL
  DEF Spec
=============================================================================
