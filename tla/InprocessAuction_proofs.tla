---------------------- MODULE InprocessAuction_proofs -----------------------
(***************************************************************************)
(* Theorems about the simulation in one process, for any number of         *)
(* representatives, instances, auctions and rounds, and any mix of         *)
(* algorithms.                                                             *)
(***************************************************************************)
EXTENDS InprocessAuction, Auctioneer_proofs, RepResources_proofs

TypeInv == TypeOK /\ RoundsCounted /\ WinnerKnown

-----------------------------------------------------------------------------

LEMMA TypeInit == Init => TypeInv
BY AuctioneerAssumption, InprocessAssumption
DEF Init, AuctioneerInit, TypeInv, TypeOK, AuctioneerTypeOK, RoundsCounted,
    WinnerKnown, AboutWinner, Calls

\* A representative answers.
LEMMA AnswerType ==
  ASSUME TypeInv, NEW i \in Auctioned, NEW r \in waiting[i],
         NEW score \in Int, NEW ok \in BOOLEAN, Answer(i, r, score, ok)
  PROVE  AuctioneerInv'
<1>1. [rep |-> r, score |-> score, ok |-> ok] \in ScoreResult
  BY DEF TypeInv, TypeOK, AuctioneerTypeOK, ScoreResult
<1>2. QED
  BY <1>1
  DEF Answer, TypeInv, TypeOK, AuctioneerInv, AuctioneerTypeOK, RoundsCounted,
      WinnerKnown, AboutWinner

LEMMA AcknowledgeType ==
  ASSUME TypeInv, NEW i \in Auctioned, NEW r, Acknowledge(i, r)
  PROVE  AuctioneerInv'
BY DEF Acknowledge, TypeInv, TypeOK, AuctioneerInv, AuctioneerTypeOK,
       RoundsCounted, WinnerKnown, AboutWinner

LEMMA RepStepType ==
  ASSUME TypeInv, NEW i \in Auctioned, RepStep(i), UNCHANGED collected
  PROVE  TypeInv'
<1> USE DEF TypeInv, TypeOK
<1>1. PICK r \in waiting[i] :
        \/ TimesOut(i, r)
        \/ Scores(i, r)
        \/ Reserves(i, r)
        \/ RefusesToReserve(i, r)
        \/ Releases(i, r)
        \/ Claims(i, r)
  BY DEF RepStep
<1>2. r \in Reps /\ i \in Instances
  BY AuctioneerAssumption DEF AuctioneerTypeOK
<1>3. Score(r, instances[r], i) \in Int
  BY <1>2, ScoreType
<1>4. AuctioneerInv'
  <2>0. ASSUME Answer(i, r, 0, FALSE)
        PROVE  AuctioneerInv'
    <3>1. 0 \in Int /\ FALSE \in BOOLEAN
      OBVIOUS
    <3> HIDE DEF TypeInv
    <3>2. QED
      BY <2>0, <3>1, AnswerType, Zenon
  <2>1. CASE TimesOut(i, r)
    BY <2>0, <2>1 DEF TimesOut
  <2>2. CASE Scores(i, r)
    BY <1>3, <2>0, <2>2, AnswerType DEF Scores
  <2>3. CASE Reserves(i, r)
    BY <1>3, <2>3, AnswerType DEF Reserves
  <2>4. CASE RefusesToReserve(i, r)
    BY <2>0, <2>4 DEF RefusesToReserve
  <2>5. CASE Releases(i, r)
    BY <2>5, AcknowledgeType DEF Releases
  <2>6. CASE Claims(i, r)
    BY <2>6, AcknowledgeType DEF Claims
  <2>7. QED
    BY <1>1, <2>1, <2>2, <2>3, <2>4, <2>5, <2>6
<1>5. instances' \in [Reps -> SUBSET Instances]
  BY <1>1, <1>2
  DEF TimesOut, Scores, Reserves, RefusesToReserve, Releases, Claims
<1>6. QED
  BY <1>4, <1>5 DEF AuctioneerInv

LEMMA TypeStep == TypeInv /\ [Next]_vars => TypeInv'
<1> SUFFICES ASSUME TypeInv, [Next]_vars
             PROVE  TypeInv'
  OBVIOUS
<1>1. AuctioneerInv
  BY DEF TypeInv, TypeOK, AuctioneerInv
<1>2. CASE UNCHANGED vars
  BY <1>2
  DEF vars, auctionVars, TypeInv, TypeOK, AuctioneerTypeOK, RoundsCounted,
      WinnerKnown, AboutWinner
<1>3. ASSUME NEW i \in Auctioned, Start(i)
      PROVE  TypeInv'
  BY <1>1, <1>3, AuctioneerType DEF Start, TypeInv, TypeOK, AuctioneerInv
<1>4. ASSUME NEW i \in Auctioned, AuctioneerStep(i)
      PROVE  TypeInv'
  BY <1>1, <1>4, AuctioneerType
  DEF AuctioneerStep, TypeInv, TypeOK, AuctioneerInv
<1>5. ASSUME NEW i \in Auctioned, Collect(i)
      PROVE  TypeInv'
  BY <1>5
  DEF Collect, auctionVars, TypeInv, TypeOK, AuctioneerTypeOK, RoundsCounted,
      WinnerKnown, AboutWinner
<1>6. QED
  BY <1>2, <1>3, <1>4, <1>5, RepStepType DEF Next, AuctionStep, Terminated

(***************************************************************************)
(* The variables always have their types.  The rounds are bounded because  *)
(* every call is made in a round the loop condition let through, and the   *)
(* winner is a representative whenever a call is made about it.            *)
(***************************************************************************)
THEOREM TypeCorrect == Spec => []TypeOK
<1>1. TypeInv => TypeOK
  BY DEF TypeInv
<1>2. QED
  BY <1>1, TypeInit, TypeStep, PTL DEF Spec

-----------------------------------------------------------------------------

(***************************************************************************)
(* No representative ever holds more than it has room for: a reservation   *)
(* is only made where the room check passes in the same step, and all      *)
(* other steps leave a representative with what it held or less.           *)
(***************************************************************************)
THEOREM NeverOvercommitted == Spec => []NoOvercommit
<1>1. Init => NoOvercommit
  BY InprocessAssumption DEF Init, NoOvercommit
<1>2. TypeInv /\ NoOvercommit /\ [Next]_vars => NoOvercommit'
  <2> SUFFICES ASSUME TypeInv, NoOvercommit, [Next]_vars
               PROVE  NoOvercommit'
    OBVIOUS
  <2>1. CASE UNCHANGED instances
    BY <2>1 DEF NoOvercommit
  <2>2. ASSUME NEW i \in Auctioned, NEW r \in waiting[i],
               Reserves(i, r) \/ Releases(i, r)
        PROVE  NoOvercommit'
    <3>1. r \in Reps /\ i \in Instances /\ instances \in [Reps -> SUBSET Instances]
      BY AuctioneerAssumption DEF TypeInv, TypeOK, AuctioneerTypeOK
    <3>2. \A s \in Reps \ {r} : instances'[s] = instances[s]
      BY <2>2, <3>1 DEF Reserves, Releases
    <3>3. Fits(r, instances'[r])
      <4>1. CASE Reserves(i, r)
        BY <3>1, <4>1, RoomIsEnough DEF Reserves, NoOvercommit
      <4>2. CASE Releases(i, r)
        BY <3>1, <4>2, PartFits DEF Releases, NoOvercommit
      <4>3. QED
        BY <2>2, <4>1, <4>2
    <3>4. QED
      BY <3>2, <3>3 DEF NoOvercommit
  <2>3. QED
    BY <2>1, <2>2
    DEF Next, AuctionStep, Start, AuctioneerStep, RepStep, Collect,
        Terminated, TimesOut, Scores, RefusesToReserve, Claims, vars
<1>3. QED
  BY <1>1, <1>2, TypeInit, TypeStep, PTL DEF Spec

-----------------------------------------------------------------------------

(***************************************************************************)
(* What holds of every auction: everyone who holds its instance is on the  *)
(* auctioneer's account.                                                   *)
(***************************************************************************)
Accounted(i) == Consistent(i) /\ Held(i) = Holders(i)

IInv ==
  /\ TypeInv
  /\ \A i \in Auctioned : Accounted(i)
  /\ \A r \in Reps : instances[r] \ Auctioned = Initial[r]

LEMMA TypeOfAuctioneer == TypeInv => AuctioneerInv /\ AuctioneerTypeOK
BY DEF TypeInv, TypeOK, AuctioneerInv

\* What the auctioneer's steps do to the account of their own auction.
LEMMA AuctioneerAccounted ==
  ASSUME TypeInv, NEW i \in Auctioned, Accounted(i), UNCHANGED instances,
         \/ HoldAuction(i)
         \/ RefuseAlgorithm(i)
         \/ waiting[i] = {} /\ (Proceed(i) \/ Continue(i))
  PROVE  Accounted(i)'
BY TypeOfAuctioneer, HoldersKept DEF Accounted, Held

-----------------------------------------------------------------------------

\* A representative answers: if it has reserved, its answer says so.
LEMMA AnswerAccounted ==
  ASSUME TypeInv, NEW i \in Auctioned, NEW r \in waiting[i],
         NEW score, NEW ok \in BOOLEAN, Answer(i, r, score, ok), Accounted(i),
         pc[i] \in {"score", "rescore", "reserve"},
         Held(i)' = Held(i) \cup (IF pc[i] = "reserve" /\ ok THEN {r} ELSE {})
  PROVE  Accounted(i)'
<1> DEFINE x == [rep |-> r, score |-> score, ok |-> ok]
<1>1. /\ waiting'[i] = waiting[i] \ {r}
      /\ results'[i] = results[i] \cup {x}
      /\ UNCHANGED <<pc, alg, winner, losers, recast>>
  BY DEF Answer, TypeInv, TypeOK, AuctioneerTypeOK
<1>2. x.rep = r /\ x.ok = ok
  OBVIOUS
<1> HIDE DEF x
<1>3. RepsOf(results[i])' = RepsOf(results[i]) \cup {r}
  BY <1>1, <1>2 DEF RepsOf
<1>4. r \notin RepsOf(results[i])
  BY DEF Accounted, Consistent
<1>5. Consistent(i)'
  BY <1>1, <1>2, <1>3, <1>4 DEF Accounted, Consistent, RepsOf
<1>6. RepsOf(Accepted(i))'
        = RepsOf(Accepted(i)) \cup (IF ok THEN {r} ELSE {})
  BY <1>1, <1>2 DEF RepsOf, Accepted
<1>7. Held(i)' = Holders(i)'
  BY <1>1, <1>6 DEF Accounted, Holders
<1>8. QED
  BY <1>5, <1>7 DEF Accounted

\* A representative acknowledges a claim, or a release after which it no
\* longer holds the instance.
LEMMA AcknowledgeAccounted ==
  ASSUME TypeInv, NEW i \in Auctioned, NEW r \in waiting[i],
         Acknowledge(i, r), Accounted(i),
         \/ pc[i] = "claim" /\ Held(i)' = Held(i)
         \/ pc[i] \in {"release", "giveback"} /\ Held(i)' = Held(i) \ {r}
  PROVE  Accounted(i)'
<1>1. /\ waiting'[i] = waiting[i] \ {r}
      /\ UNCHANGED <<pc, alg, winner, losers, recast, results>>
  BY DEF Acknowledge, TypeInv, TypeOK, AuctioneerTypeOK
<1>2. Consistent(i)'
  BY <1>1 DEF Accounted, Consistent
<1>3. pc[i] = "release" => winner[i] # r
  BY DEF Accounted, Consistent
<1>4. Held(i)' = Holders(i)'
  BY <1>1, <1>3 DEF Accounted, Holders
<1>5. QED
  BY <1>2, <1>4 DEF Accounted

LEMMA RepAccounted ==
  ASSUME TypeInv, NEW i \in Auctioned, RepStep(i), Accounted(i)
  PROVE  Accounted(i)'
<1>1. PICK r \in waiting[i] :
        \/ TimesOut(i, r)
        \/ Scores(i, r)
        \/ Reserves(i, r)
        \/ RefusesToReserve(i, r)
        \/ Releases(i, r)
        \/ Claims(i, r)
  BY DEF RepStep
<1>2. r \in Reps /\ instances \in [Reps -> SUBSET Instances]
  BY DEF TypeInv, TypeOK, AuctioneerTypeOK
<1>3. instances' = instances => Held(i)' = Held(i)
  BY DEF Held
<1>4. CASE TimesOut(i, r) \/ RefusesToReserve(i, r)
  <2>1. Answer(i, r, 0, FALSE) /\ instances' = instances
    BY <1>4 DEF TimesOut, RefusesToReserve
  <2>2. pc[i] \in {"score", "rescore", "reserve"} /\ FALSE \in BOOLEAN
    BY <1>4 DEF TimesOut, RefusesToReserve
  <2>3. Held(i)' = Held(i) \cup (IF pc[i] = "reserve" /\ FALSE THEN {r} ELSE {})
    BY <1>3, <2>1
  <2>4. QED
    BY <2>1, <2>2, <2>3, AnswerAccounted, Zenon
<1>5. CASE Scores(i, r)
  <2>1. \/ Answer(i, r, Score(r, instances[r], i), TRUE)
        \/ Answer(i, r, 0, FALSE)
    BY <1>5 DEF Scores
  <2>2. pc[i] \in {"score", "rescore"} /\ Held(i)' = Held(i)
    BY <1>3, <1>5 DEF Scores
  <2>3. QED
    BY <2>1, <2>2, AnswerAccounted
<1>6. CASE Reserves(i, r)
  <2>1. Held(i)' = Held(i) \cup {r}
    BY <1>2, <1>6 DEF Reserves, Held
  <2>2. Answer(i, r, Score(r, instances[r], i), TRUE) /\ pc[i] = "reserve"
    BY <1>6 DEF Reserves
  <2>3. QED
    BY <2>1, <2>2, AnswerAccounted
<1>7. CASE Releases(i, r)
  <2>1. Held(i)' = Held(i) \ {r}
    BY <1>2, <1>7 DEF Releases, Held
  <2>2. QED
    BY <1>7, <2>1, AcknowledgeAccounted DEF Releases
<1>8. CASE Claims(i, r)
  BY <1>3, <1>8, AcknowledgeAccounted DEF Claims
<1>9. QED
  BY <1>1, <1>4, <1>5, <1>6, <1>7, <1>8

-----------------------------------------------------------------------------

\* What the account of auction j looks at.
Account(j) ==
  <<pc[j], alg[j], round[j], winner[j], losers[j], recast[j], waiting[j],
    results[j], Held(j)>>

LEMMA SameAccount ==
  ASSUME NEW j \in Auctioned, Accounted(j), Account(j)' = Account(j)
  PROVE  Accounted(j)'
BY DEF Account, Accounted, Consistent, Holders, Accepted, RepsOf

\* No auction meddles with another one's account.
LEMMA OthersAccount ==
  ASSUME TypeInv, NEW i \in Auctioned, AuctionStep(i),
         NEW j \in Auctioned \ {i}
  PROVE  Account(j)' = Account(j)
<1> USE DEF TypeInv, TypeOK, AuctioneerTypeOK
<1>1. ASSUME UNCHANGED instances
      PROVE  Held(j)' = Held(j)
  BY <1>1 DEF Held
<1>2. CASE Start(i) \/ AuctioneerStep(i)
  <2>1. Memory(j)' = Memory(j)
    BY <1>2, OthersMemory DEF Start, AuctioneerStep
  <2>2. QED
    BY <1>1, <1>2, <2>1 DEF Memory, Account, Start, AuctioneerStep
<1>3. CASE RepStep(i)
  <2>1. PICK r \in waiting[i] :
          \/ TimesOut(i, r)
          \/ Scores(i, r)
          \/ Reserves(i, r)
          \/ RefusesToReserve(i, r)
          \/ Releases(i, r)
          \/ Claims(i, r)
    BY <1>3 DEF RepStep
  <2>2. UNCHANGED <<pc, alg, round, winner, losers, recast>>
        /\ UNCHANGED <<waiting[j], results[j]>>
    BY <2>1 DEF TimesOut, Scores, Reserves, RefusesToReserve, Releases,
                Claims, Answer, Acknowledge
  <2>3. Held(j)' = Held(j)
    <3>1. CASE Reserves(i, r) \/ Releases(i, r)
      <4>1. ASSUME NEW s \in Reps
            PROVE  j \in instances'[s] <=> j \in instances[s]
        <5>1. \/ instances' = [instances EXCEPT ![r] = @ \cup {i}]
              \/ instances' = [instances EXCEPT ![r] = @ \ {i}]
          BY <3>1 DEF Reserves, Releases
        <5>2. QED
          BY <5>1
      <4>2. QED
        BY <4>1 DEF Held
    <3>2. QED
      BY <1>1, <2>1, <3>1
      DEF TimesOut, Scores, RefusesToReserve, Claims
  <2>4. QED
    BY <2>2, <2>3 DEF Account
<1>4. CASE Collect(i)
  BY <1>1, <1>4 DEF Collect, auctionVars, Account
<1>5. QED
  BY <1>2, <1>3, <1>4 DEF AuctionStep

-----------------------------------------------------------------------------

LEMMA AccountsInit == Init => IInv
<1> SUFFICES ASSUME Init
             PROVE  IInv
  OBVIOUS
<1>1. TypeInv
  BY TypeInit
<1>2. ASSUME NEW i \in Auctioned
      PROVE  Accounted(i)
  BY InprocessAssumption
  DEF Init, AuctioneerInit, Accounted, Consistent, Held, Holders, RepsOf
<1>3. ASSUME NEW r \in Reps
      PROVE  instances[r] \ Auctioned = Initial[r]
  BY InprocessAssumption DEF Init
<1>4. QED
  BY <1>1, <1>2, <1>3 DEF IInv

LEMMA AccountsStep == IInv /\ [Next]_vars => IInv'
<1> SUFFICES ASSUME IInv, [Next]_vars
             PROVE  IInv'
  OBVIOUS
<1>1. TypeInv /\ TypeInv'
  BY TypeStep DEF IInv
<1>2. CASE UNCHANGED vars
  <2>1. ASSUME NEW j \in Auctioned
        PROVE  Accounted(j)'
    BY <1>2, <2>1, SameAccount DEF IInv, vars, auctionVars, Account, Held
  <2>2. QED
    BY <1>1, <1>2, <2>1 DEF IInv, vars
<1>3. ASSUME NEW i \in Auctioned, AuctionStep(i)
      PROVE  IInv'
  <2>1. ASSUME NEW j \in Auctioned \ {i}
        PROVE  Accounted(j)'
    BY <1>1, <1>3, <2>1, OthersAccount, SameAccount DEF IInv
  <2>2. Accounted(i)'
    <3>1. CASE Collect(i)
      BY <3>1, SameAccount DEF Collect, auctionVars, IInv, Account, Held
    <3>2. QED
      BY <1>1, <1>3, <3>1, AuctioneerAccounted, RepAccounted
      DEF IInv, AuctionStep, Start, AuctioneerStep
  <2>3. ASSUME NEW r \in Reps
        PROVE  instances'[r] \ Auctioned = Initial[r]
    <3>1. instances[r] \ Auctioned = Initial[r]
      BY DEF IInv
    <3>2. instances \in [Reps -> SUBSET Instances]
      BY <1>1 DEF TypeInv, TypeOK
    <3>3. instances'[r] \ Auctioned = instances[r] \ Auctioned
      BY <1>3, <3>2
      DEF AuctionStep, Start, AuctioneerStep, RepStep, Collect, TimesOut,
          Scores, Reserves, RefusesToReserve, Releases, Claims
    <3>4. QED
      BY <3>1, <3>3
  <2>4. QED
    BY <1>1, <2>1, <2>2, <2>3 DEF IInv
<1>4. QED
  BY <1>2, <1>3 DEF Next, Terminated

LEMMA AccountsInvariant == Spec => []IInv
BY AccountsInit, AccountsStep, PTL DEF Spec

(***************************************************************************)
(* No reservation is ever leaked: at every moment, in every algorithm,     *)
(* exactly those hold an instance of which its auction knows that it will  *)
(* claim or release them.                                                  *)
(***************************************************************************)
THEOREM NoReservationLeaked == Spec => []ReservationsAccounted
<1>1. IInv => ReservationsAccounted
  BY DEF IInv, Accounted, ReservationsAccounted
<1>2. QED
  BY <1>1, AccountsInvariant, PTL

(***************************************************************************)
(* When Auction has returned, the instance is on the winner it names and   *)
(* nowhere else.                                                           *)
(***************************************************************************)
THEOREM WonOnceLostNowhere == Spec => []PlacedExactlyOnce
<1>1. IInv => PlacedExactlyOnce
  BY DEF IInv, Accounted, Holders, PlacedExactlyOnce
<1>2. QED
  BY <1>1, AccountsInvariant, PTL
-----------------------------------------------------------------------------

\* A step of an auction but the last is taken before it is decided.
LEMMA UndecidedBefore ==
  ASSUME TypeInv, NEW i \in Auctioned, AuctionStep(i), ~Collect(i)
  PROVE  pc[i] \notin Decided
<1>1. CASE Start(i)
  BY <1>1, DecidedTakesNoStep DEF Start
<1>2. CASE AuctioneerStep(i)
  BY <1>2, DecidedTakesNoStep DEF AuctioneerStep
<1>3. CASE RepStep(i)
  BY <1>3
  DEF RepStep, TimesOut, Scores, Reserves, RefusesToReserve, Releases,
      Claims, Decided
<1>4. QED
  BY <1>1, <1>2, <1>3 DEF AuctionStep

\* The distributor is given the results of auctions that are over.
CollectedOver == \A i \in collected : pc[i] \in {"won", "lost"}

LEMMA CollectedInvariant == Spec => []CollectedOver
<1>1. Init => CollectedOver
  BY DEF Init, CollectedOver
<1>2. TypeInv /\ CollectedOver /\ [Next]_vars => CollectedOver'
  <2> SUFFICES ASSUME TypeInv, CollectedOver, [Next]_vars
               PROVE  CollectedOver'
    OBVIOUS
  <2>1. CASE UNCHANGED vars
    BY <2>1 DEF vars, auctionVars, CollectedOver
  <2>2. ASSUME NEW i \in Auctioned, Collect(i)
        PROVE  CollectedOver'
    BY <2>2 DEF Collect, auctionVars, CollectedOver
  <2>3. ASSUME NEW i \in Auctioned, AuctionStep(i), ~Collect(i)
        PROVE  CollectedOver'
    <3>1. i \notin collected
      BY <2>3, UndecidedBefore DEF CollectedOver, Decided
    <3>2. UNCHANGED collected
      BY <2>3 DEF AuctionStep, Start, AuctioneerStep
    <3>3. \A j \in Auctioned \ {i} : pc'[j] = pc[j]
      BY <2>3, OthersAccount DEF Account
    <3>4. collected \subseteq Auctioned
      BY DEF TypeInv, TypeOK
    <3>5. QED
      BY <3>1, <3>2, <3>3, <3>4 DEF CollectedOver
  <2>4. QED
    BY <2>1, <2>2, <2>3 DEF Next, Terminated
<1>3. QED
  BY <1>1, <1>2, TypeInit, TypeStep, PTL DEF Spec

(***************************************************************************)
(* The report counts as missing exactly the instances whose auctions were  *)
(* lost.  The instances it finds are in a bijection with the auctions that *)
(* were won, because each of these is held by one representative and by    *)
(* one only.                                                               *)
(***************************************************************************)
THEOREM ReportIsRight == Spec => []ReportCountsLost
<1>1. IInv /\ CollectedOver => ReportCountsLost
  <2> SUFFICES ASSUME IInv, CollectedOver, Reported
               PROVE  NMissingInstances
                        = Cardinality({i \in Auctioned : pc[i] = "lost"})
    BY DEF ReportCountsLost
  <2> DEFINE Won == {i \in Auctioned : pc[i] = "won"}
             Lost == {i \in Auctioned : pc[i] = "lost"}
             Found == {p \in Reps \X collected : p[2] \in instances[p[1]]}
             placed == [i \in Won |-> <<winner[i], i>>]
  <2>1. /\ IsFiniteSet(Auctioned) /\ IsFiniteSet(Won) /\ IsFiniteSet(Lost)
        /\ Cardinality(Won) \in Nat /\ Cardinality(Lost) \in Nat
    <3>1. IsFiniteSet(Auctioned)
      BY AuctioneerAssumption, InstancesAssumption, FS_Subset
    <3>2. Won \in SUBSET Auctioned /\ Lost \in SUBSET Auctioned
      OBVIOUS
    <3> HIDE DEF Won, Lost
    <3>3. IsFiniteSet(Won) /\ IsFiniteSet(Lost)
      BY <3>1, <3>2, FS_Subset
    <3>4. QED
      BY <3>1, <3>3, FS_CardinalityType
  <2>2. Cardinality(Auctioned) = Cardinality(Won) + Cardinality(Lost)
    <3>1. Auctioned = Won \cup Lost /\ Won \cap Lost = {}
      BY DEF CollectedOver, Reported
    <3> HIDE DEF Won, Lost
    <3>2. Cardinality(Won \cup Lost)
            = Cardinality(Won) + Cardinality(Lost) - Cardinality(Won \cap Lost)
      BY <2>1, FS_Union
    <3>3. Cardinality(Won \cap Lost) = 0
      BY <3>1, FS_EmptySet
    <3>4. Cardinality(Auctioned) = Cardinality(Won \cup Lost)
      BY <3>1
    <3>5. QED
      BY <2>1, <3>2, <3>3, <3>4
  <2>3. \A i \in Won : winner[i] \in Reps /\ Held(i) = {winner[i]}
    BY DEF IInv, Accounted, Holders, TypeInv, WinnerKnown, AboutWinner
  <2>4. \A i \in Lost : Held(i) = {}
    BY DEF IInv, Accounted, Holders
  <2>5. placed \in Bijection(Won, Found)
    <3>1. ASSUME NEW i \in Won
          PROVE  <<winner[i], i>> \in Found
      BY <2>3 DEF Held, Reported
    <3>2. ASSUME NEW p \in Found
          PROVE  p[2] \in Won /\ p = <<winner[p[2]], p[2]>>
      <4>1. p \in Reps \X Auctioned /\ p[1] \in Held(p[2])
        BY DEF Reported, Held
      <4>2. p[2] \in Won
        BY <2>4, <4>1 DEF CollectedOver, Reported
      <4>3. p[1] = winner[p[2]]
        BY <2>3, <4>1, <4>2
      <4>4. QED
        BY <4>1, <4>2, <4>3
    <3>3. placed \in [Won -> Found]
      BY <3>1
    <3>4. \A i, j \in Won : placed[i] = placed[j] => i = j
      OBVIOUS
    <3>5. \A p \in Found : \E i \in Won : placed[i] = p
      BY <3>2
    <3> HIDE DEF placed, Won, Found
    <3>6. QED
      BY <3>3, <3>4, <3>5 DEF Bijection, Injection, Surjection, IsInjective
  <2>6. Cardinality(Found) = Cardinality(Won)
    <3> HIDE DEF placed, Won, Found
    <3>1. ExistsBijection(Won, Found)
      BY <2>5 DEF ExistsBijection
    <3>2. QED
      BY <2>1, <3>1, FS_Bijection
  <2>7. QED
    BY <2>1, <2>2, <2>6 DEF NMissingInstances, Reported
<1>2. QED
  BY <1>1, AccountsInvariant, CollectedInvariant, PTL
-----------------------------------------------------------------------------

(***************************************************************************)
(* With ample room nobody ever refuses.  So an auction that is not decided *)
(* by all_rescore is over in its first round: someone is asked, everyone   *)
(* asked bids, and whoever is told to reserve does.                        *)
(***************************************************************************)
FirstRound(i) ==
  /\ pc[i] \in {"idle", "round"} => round[i] = 1
  /\ pc[i] \in {"score", "reserve"} =>
       /\ \A x \in results[i] : x.ok
       /\ waiting[i] # {} \/ results[i] # {}
       /\ IsFiniteSet(results[i])
  /\ pc[i] \notin {"rescore", "giveback", "lost"}

\* Before an auction has started it is in its first round, whatever alg says.
Rescoring(i) == alg[i] = "all_rescore" /\ pc[i] # "idle"

FirstRoundWins ==
  AmpleRoom => \A i \in Auctioned : Rescoring(i) \/ FirstRound(i)

\* A representative that is asked holds the instance in no other round.
LEMMA RoomForAll ==
  ASSUME IInv, AmpleRoom, NEW i \in Auctioned, NEW r \in waiting[i],
         pc[i] \in {"score", "reserve"}
  PROVE  HasRoomFor(r, instances[r], i)
<1>1. r \in Reps /\ i \in Instances /\ instances[r] \in SUBSET Instances
  BY AuctioneerAssumption DEF IInv, TypeInv, TypeOK, AuctioneerTypeOK
<1>2. i \notin instances[r]
  BY <1>1 DEF IInv, Accounted, Consistent, Held, Holders, RepsOf, Accepted
<1>3. instances[r] \cup {i} \subseteq Initial[r] \cup Auctioned
  BY <1>1 DEF IInv
<1>4. Initial[r] \cup Auctioned \in SUBSET Instances
  BY <1>1, InprocessAssumption, AuctioneerAssumption
<1>5. Fits(r, instances[r] \cup {i})
  <2> DEFINE all == Initial[r] \cup Auctioned
             with == instances[r] \cup {i}
  <2>1. Fits(r, all) /\ all \in SUBSET Instances /\ with \in SUBSET all
    BY <1>1, <1>3, <1>4 DEF AmpleRoom
  <2> HIDE DEF all, with
  <2>2. Fits(r, with)
    BY <1>1, <2>1, PartFits
  <2>3. QED
    BY <2>2 DEF with
<1>6. QED
  BY <1>1, <1>2, <1>5, RoomIsNeeded

LEMMA SomebodyAsked ==
  ASSUME AmpleRoom, NEW P \in BiddingPools
  PROVE  P # {}
<1>1. CASE MaxBiddingPool >= 100
  BY <1>1, AuctioneerAssumption DEF BiddingPools
<1>2. CASE ~(MaxBiddingPool >= 100)
  <2> DEFINE n == Cardinality(Reps)
  <2>1. n \in Nat /\ n # 0
    BY RepsAssumption, AuctioneerAssumption, FS_CardinalityType, FS_EmptySet
  <2>2. Cardinality(P) = (n * MaxBiddingPool + 99) \div 100
    BY <1>2 DEF BiddingPools
  <2> HIDE DEF n
  <2>3. n * MaxBiddingPool \in Nat /\ n * MaxBiddingPool >= 1
    BY <2>1, AuctioneerAssumption DEF AmpleRoom
  <2>4. (n * MaxBiddingPool + 99) \div 100 # 0
    BY <2>3
  <2>5. QED
    BY <2>2, <2>4, FS_EmptySet
<1>3. QED
  BY <1>1, <1>2

LEMMA FirstRoundAuctioneer ==
  ASSUME TypeInv, AmpleRoom, NEW i \in Auctioned, AuctioneerStep(i),
         alg[i] # "all_rescore", FirstRound(i)
  PROVE  FirstRound(i)'
<1> USE DEF FirstRound
<1>1. pc[i] \in {"score", "reserve"} => Accepted(i) = results[i] /\ Accepted(i) # {}
  BY DEF AuctioneerStep, Accepted
<1>2. CASE StartRound(i)
  <2>1. PICK reps \in BiddingPools :
          \E op \in {"score", "reserve"} : Ask(i, op, reps)
    BY <1>2 DEF StartRound
  <2>2. /\ pc'[i] \in {"score", "reserve"}
        /\ waiting'[i] = reps /\ results'[i] = {}
    BY <2>1, TypeOfAuctioneer, AskLocal
  <2>3. reps # {}
    BY SomebodyAsked
  <2>4. QED
    BY <2>2, <2>3, FS_EmptySet
<1>3. CASE PickAtRandom(i)
  BY <1>3, TypeOfAuctioneer, AskLocal, FS_EmptySet DEF PickAtRandom
<1>4. CASE GiveUp(i)
  BY <1>4, AuctioneerAssumption DEF GiveUp, MoreRounds, AmpleRoom
<1>5. CASE PickLowest(i) \/ PickAmongBest(i)
  <2>1. PICK x : Ask(i, "reserve", {x.rep})
    BY <1>5 DEF PickLowest, PickAmongBest
  <2>2. /\ pc'[i] = "reserve" /\ results'[i] = {}
        /\ waiting'[i] = {x.rep}
    BY <2>1, TypeOfAuctioneer, AskLocal
  <2>3. QED
    BY <2>2, FS_EmptySet
<1>6. CASE ReserveShortList(i)
  <2>1. PICK top \in ShortLists(results[i]) : Ask(i, "reserve", RepsOf(top))
    BY <1>1, <1>6 DEF ReserveShortList
  <2>2. /\ pc'[i] = "reserve" /\ results'[i] = {}
        /\ waiting'[i] = RepsOf(top)
    BY <2>1, TypeOfAuctioneer, AskLocal
  <2>3. RepsOf(top) # {}
    BY <1>1, <1>6, SomebodyListed DEF ReserveShortList
  <2>4. QED
    BY <2>2, <2>3, FS_EmptySet
<1>7. CASE TooFewBids(i) \/ NoReply(i) \/ Win(i)
  BY <1>7, TypeOfAuctioneer, LeaveLocal DEF TooFewBids, NoReply, Win
<1>8. CASE ClaimPicked(i) \/ ClaimLowest(i) \/ ReleaseLosers(i)
  <2>1. PICK op \in {"claim", "release"} : \E reps : Ask(i, op, reps)
    BY <1>8 DEF ClaimPicked, ClaimLowest, ReleaseLosers
  <2>2. pc'[i] \in {"claim", "release"}
    BY <2>1, TypeOfAuctioneer, AskLocal
  <2>3. QED
    BY <2>2
<1>9. QED
  BY <1>1, <1>2, <1>3, <1>4, <1>5, <1>6, <1>7, <1>8
  DEF AuctioneerStep, Proceed, Continue, NoBids, ReserveFailed, Rescore,
      WinnerFull, GiveBack, ClaimRescored, RetryAfterGiveBack

LEMMA FirstRoundReps ==
  ASSUME IInv, AmpleRoom, NEW i \in Auctioned, RepStep(i), FirstRound(i)
  PROVE  FirstRound(i)'
<1>1. PICK r \in waiting[i] :
        \/ TimesOut(i, r)
        \/ Scores(i, r)
        \/ Reserves(i, r)
        \/ RefusesToReserve(i, r)
        \/ Releases(i, r)
        \/ Claims(i, r)
  BY DEF RepStep
<1>2. UNCHANGED <<pc, round>>
  BY <1>1
  DEF TimesOut, Scores, Reserves, RefusesToReserve, Releases, Claims, Answer,
      Acknowledge
<1>3. ASSUME NEW score, Answer(i, r, score, TRUE)
      PROVE  FirstRound(i)'
  <2> DEFINE x == [rep |-> r, score |-> score, ok |-> TRUE]
  <2>1. results'[i] = results[i] \cup {x}
    BY <1>3 DEF Answer, IInv, TypeInv, TypeOK, AuctioneerTypeOK
  <2>2. x.ok
    OBVIOUS
  <2> HIDE DEF x
  <2>3. IsFiniteSet(results[i]) => IsFiniteSet(results'[i])
    BY <2>1, FS_AddElement
  <2>4. QED
    BY <1>2, <2>1, <2>2, <2>3 DEF FirstRound
<1>4. ~TimesOut(i, r) /\ ~RefusesToReserve(i, r)
  BY RoomForAll DEF TimesOut, RefusesToReserve, AmpleRoom
<1>5. CASE Scores(i, r)
  BY <1>3, <1>5, RoomForAll DEF Scores, FirstRound
<1>6. CASE Reserves(i, r)
  BY <1>3, <1>6 DEF Reserves
<1>7. CASE Releases(i, r) \/ Claims(i, r)
  BY <1>2, <1>7 DEF Releases, Claims, FirstRound
<1>8. QED
  BY <1>1, <1>4, <1>5, <1>6, <1>7

\* What Rescoring looks at stays the same, or is decided for good.
LEMMA RescoringKept ==
  ASSUME TypeInv, NEW i \in Auctioned, AuctioneerStep(i) \/ RepStep(i)
  PROVE  alg' = alg /\ pc'[i] # "idle"
<1>1. CASE AuctioneerStep(i)
  BY <1>1, TypeOfAuctioneer, AlgorithmKept, AsksOrLeaves
  DEF AuctioneerStep, Calls
<1>2. CASE RepStep(i)
  BY <1>2
  DEF RepStep, TimesOut, Scores, Reserves, RefusesToReserve, Releases,
      Claims, Answer, Acknowledge
<1>3. QED
  BY <1>1, <1>2

LEMMA FirstRoundStep == IInv /\ FirstRoundWins /\ [Next]_vars => FirstRoundWins'
<1> SUFFICES ASSUME IInv, FirstRoundWins, [Next]_vars, AmpleRoom
             PROVE  \A i \in Auctioned : Rescoring(i)' \/ FirstRound(i)'
  BY DEF FirstRoundWins, AmpleRoom
<1>1. \A i \in Auctioned : Rescoring(i) \/ FirstRound(i)
  BY DEF FirstRoundWins
<1>2. CASE UNCHANGED vars
  BY <1>1, <1>2 DEF vars, auctionVars, FirstRound, Rescoring
<1>3. ASSUME NEW i \in Auctioned, AuctionStep(i), NEW j \in Auctioned
      PROVE  Rescoring(j)' \/ FirstRound(j)'
  <2>1. TypeInv
    BY DEF IInv
  <2>2. CASE j # i
    BY <1>1, <1>3, <2>1, <2>2, OthersAccount
    DEF Account, FirstRound, Rescoring
  <2>3. CASE j = i /\ Start(i)
    BY <1>1, <2>1, <2>3, TypeOfAuctioneer, LeaveLocal
    DEF Start, HoldAuction, RefuseAlgorithm, FirstRound, Rescoring
  <2>4. CASE j = i /\ AuctioneerStep(i)
    BY <1>1, <2>1, <2>4, FirstRoundAuctioneer, RescoringKept
    DEF Rescoring
  <2>5. CASE j = i /\ RepStep(i)
    BY <1>1, <2>1, <2>5, FirstRoundReps, RescoringKept
    DEF Rescoring
  <2>6. CASE j = i /\ Collect(i)
    BY <1>1, <2>6 DEF Collect, auctionVars, FirstRound, Rescoring
  <2>7. QED
    BY <1>3, <2>2, <2>3, <2>4, <2>5, <2>6 DEF AuctionStep
<1>4. QED
  BY <1>2, <1>3 DEF Next, Terminated

(***************************************************************************)
(* If everybody has room for all the auctioned instances at once, however  *)
(* many auctions run at a time and whatever they reserve tentatively, none *)
(* is lost but those all_rescore decides.                                  *)
(***************************************************************************)
THEOREM NeverLostWithAmpleRoom == Spec => []NotLostWithAmpleRoom
<1>1. Init => FirstRoundWins
  BY DEF Init, AuctioneerInit, FirstRoundWins, FirstRound
<1>2. FirstRoundWins => NotLostWithAmpleRoom
  BY DEF FirstRoundWins, FirstRound, Rescoring, NotLostWithAmpleRoom
<1>3. QED
  BY <1>1, <1>2, FirstRoundStep, AccountsInvariant, PTL DEF Spec
-----------------------------------------------------------------------------

(***************************************************************************)
(* The simulation in one process implements Placement.  The refinement     *)
(* mapping shows the winner of an auction that has returned.  The one step *)
(* with something to it is the return of a winner: what Placement says was *)
(* placed on it is part of what it really holds, which fits.               *)
(***************************************************************************)

\* The definitions of Placement's copy of RepResources are those of the
\* module itself.
LEMMA SameRoom ==
  ASSUME NEW r, NEW S, NEW i
  PROVE  Abstract!HasRoomFor(r, S, i) <=> HasRoomFor(r, S, i)
<1>1. \A amount : Abstract!Sum(S, amount) = Sum(S, amount)
  BY DEF Abstract!Sum, Sum, Abstract!Units, Units, Abstract!Cardinality,
         Cardinality
<1>2. /\ Abstract!RemainingMemory(r, S) = RemainingMemory(r, S)
      /\ Abstract!RemainingDisk(r, S) = RemainingDisk(r, S)
      /\ Abstract!RemainingContainers(r, S) = RemainingContainers(r, S)
  BY <1>1
  DEF Abstract!RemainingMemory, Abstract!RemainingDisk,
      Abstract!RemainingContainers, RemainingMemory, RemainingDisk,
      RemainingContainers, Abstract!Cardinality, Cardinality
<1>3. QED
  BY <1>2 DEF Abstract!HasRoomFor, HasRoomFor

\* Other auctions' results stay what they are.
LEMMA OthersPlacement ==
  ASSUME TypeInv, NEW i \in Auctioned, AuctionStep(i),
         NEW j \in Auctioned \ {i}
  PROVE  placement'[j] = placement[j]
<1>1. pc'[j] = pc[j] /\ winner'[j] = winner[j]
  BY OthersAccount DEF Account
<1>2. QED
  BY <1>1 DEF placement

\* An auction that returns a winner places its instance where there is room.
LEMMA WinPlaces ==
  ASSUME IInv, IInv', NoOvercommit', NEW i \in Auctioned, AuctionStep(i),
         ~Collect(i), pc'[i] = "won"
  PROVE  Abstract!Place(i, winner'[i])
<1> DEFINE r == winner'[i]
           runs == Abstract!Runs(r)
<1>1. TypeInv /\ TypeInv'
  BY DEF IInv
<1>2. pc[i] \notin Decided /\ placement[i] = None
  BY <1>1, UndecidedBefore DEF placement, Decided
<1>3. r \in Reps
  BY <1>1 DEF TypeInv, WinnerKnown, AboutWinner
<1>4. i \in instances'[r] /\ i \in Instances
        /\ instances'[r] \in SUBSET Instances
  <2>1. Held(i)' = {r}
    BY DEF IInv, Accounted, Holders
  <2>2. QED
    BY <1>1, <1>3, <2>1, AuctioneerAssumption DEF Held, TypeInv, TypeOK
<1>5. runs \subseteq instances'[r]
  <2>1. Initial[r] \subseteq instances'[r]
    BY <1>3 DEF IInv
  <2>2. ASSUME NEW j \in Auctioned, placement[j] = r
        PROVE  j \in instances'[r]
    <3>1. r # None /\ r # Rejected
      BY <1>3, AuctioneerAssumption, InprocessAssumption
    <3>2. j # i
      BY <1>2, <2>2, <3>1
    <3>3. pc[j] = "won" /\ winner[j] = r
      BY <2>2, <3>1 DEF placement
    <3>4. pc'[j] = "won" /\ winner'[j] = r
      BY <1>1, <3>2, <3>3, OthersAccount DEF Account
    <3>5. Held(j)' = {r}
      BY <3>4 DEF IInv, Accounted, Holders
    <3>6. QED
      BY <3>5 DEF Held
  <2>3. QED
    BY <2>1, <2>2 DEF Abstract!Runs
<1>6. i \notin runs
  BY <1>2, <1>3, AuctioneerAssumption, InprocessAssumption
  DEF Abstract!Runs
<1>7. Fits(r, runs \cup {i})
  BY <1>3, <1>4, <1>5, PartFits DEF NoOvercommit
<1>8. HasRoomFor(r, runs, i)
  <2>1. runs \in SUBSET Instances
    BY <1>4, <1>5
  <2> HIDE DEF r, runs
  <2>2. QED
    BY <1>3, <1>4, <1>6, <1>7, <2>1, RoomIsNeeded
<1>9. placement' = [placement EXCEPT ![i] = r]
  <2>1. placement'[i] = r
    BY DEF placement
  <2>2. QED
    BY <1>1, <2>1, OthersPlacement DEF placement
<1>10. QED
  BY <1>2, <1>8, <1>9, SameRoom DEF Abstract!Place

LEMMA PlacementInit == Init => Abstract!PlacementInit
BY DEF Init, AuctioneerInit, placement, Abstract!PlacementInit

LEMMA PlacementStep ==
  ASSUME IInv, IInv', NoOvercommit', [Next]_vars
  PROVE  [Abstract!PlacementNext]_placement
<1>1. TypeInv /\ TypeInv'
  BY DEF IInv
<1>2. CASE UNCHANGED vars
  BY <1>2 DEF vars, auctionVars, placement
<1>3. ASSUME NEW i \in Auctioned, AuctionStep(i), ~Collect(i)
      PROVE  [Abstract!PlacementNext]_placement
  <2>1. placement[i] = None
    BY <1>1, <1>3, UndecidedBefore DEF placement, Decided
  <2>2. ASSUME NEW p, placement'[i] = p
        PROVE  placement' = [placement EXCEPT ![i] = p]
    BY <1>1, <1>3, <2>2, OthersPlacement DEF placement
  <2>3. CASE pc'[i] = "won"
    <3>1. winner'[i] \in Reps
      BY <1>1, <2>3 DEF TypeInv, WinnerKnown, AboutWinner
    <3>2. Abstract!Place(i, winner'[i])
      BY <1>3, <2>3, WinPlaces
    <3>3. QED
      BY <3>1, <3>2 DEF Abstract!PlacementNext
  <2>4. CASE pc'[i] \in {"lost", "panicked"}
    <3>1. placement'[i] = Rejected
      BY <2>4 DEF placement
    <3>2. QED
      BY <2>1, <2>2, <3>1 DEF Abstract!PlacementNext, Abstract!Reject
  <2>5. CASE pc'[i] \notin Decided
    <3>1. placement'[i] = None
      BY <2>5 DEF placement, Decided
    <3>2. placement' = placement
      BY <2>1, <2>2, <3>1 DEF placement
    <3>3. QED
      BY <3>2
  <2>6. QED
    BY <2>3, <2>4, <2>5 DEF Decided
<1>4. ASSUME NEW i \in Auctioned, Collect(i)
      PROVE  [Abstract!PlacementNext]_placement
  BY <1>4 DEF Collect, auctionVars, placement
<1>5. QED
  BY <1>2, <1>3, <1>4 DEF Next, Terminated

(***************************************************************************)
(* Concurrent auctions, with whatever tentative reservations, look from    *)
(* outside as if instances were placed one after the other, each on a      *)
(* representative with room for it beside those placed before.             *)
(***************************************************************************)
THEOREM AuctionsPlace == Spec => ImplementsPlacement
<1>1. IInv /\ IInv' /\ NoOvercommit' /\ [Next]_vars
        => [Abstract!PlacementNext]_placement
  BY PlacementStep
<1>2. QED
  BY <1>1, PlacementInit, AccountsInvariant, NeverOvercommitted, PTL
  DEF Spec, ImplementsPlacement, Abstract!PlacementSpec

-----------------------------------------------------------------------------

(***************************************************************************)
(* Every step takes an auction onward or its result to the distributor, so *)
(* with rounds, representatives and auctions bounded only finitely many    *)
(* can be taken: what is missing for the simulation to end is that         *)
(* goroutines that can run do.                                             *)
(***************************************************************************)
THEOREM NothingIsDoneInVain == Spec => EveryStepCounts
<1> DEFINE Counts == /\ \A i \in Auctioned : Onward(i) \/ StandsStill(i)
                     /\ collected \subseteq collected'
                     /\ (\E i \in Auctioned : Onward(i)) \/ collected' # collected
<1>1. ASSUME TypeInv, NEW i \in Auctioned, AuctionStep(i)
      PROVE  Counts
  <2>1. \A j \in Auctioned \ {i} : StandsStill(j)
    BY <1>1, OthersAccount DEF Account, StandsStill
  <2>2. AuctioneerTypeOK
    BY <1>1 DEF TypeInv, TypeOK
  <2>3. CASE Start(i) \/ AuctioneerStep(i)
    <3>1. Onward(i) /\ collected' = collected
      BY <2>2, <2>3, StepsLeadOn DEF Start, AuctioneerStep, Onward
    <3>2. QED
      BY <2>1, <3>1
  <2>4. CASE RepStep(i) /\ UNCHANGED collected
    <3>1. PICK r \in waiting[i] :
            /\ waiting' = [waiting EXCEPT ![i] = @ \ {r}]
            /\ UNCHANGED <<pc, round>>
      BY <2>4
      DEF RepStep, TimesOut, Scores, Reserves, RefusesToReserve, Releases,
          Claims, Answer, Acknowledge
    <3>2. Onward(i)
      BY <2>2, <3>1 DEF Onward, AuctioneerTypeOK
    <3>3. QED
      BY <2>1, <2>4, <3>2
  <2>5. CASE Collect(i)
    BY <2>5 DEF Collect, StandsStill, auctionVars
  <2>6. QED
    BY <1>1, <2>3, <2>4, <2>5 DEF AuctionStep
<1>2. TypeInv /\ [Next]_vars => [Counts]_vars
  BY <1>1 DEF Next, Terminated
<1>3. QED
  BY <1>2, TypeInit, TypeStep, PTL DEF Spec, EveryStepCounts
=============================================================================
