------------------------- MODULE NatsAuction_proofs -------------------------
(***************************************************************************)
(* Theorems about auctions over NATS, for any number of representatives,   *)
(* instances, auctions and rounds, any mix of algorithms, and any requests *)
(* and replies that are lost, late or out of order.                        *)
(***************************************************************************)
EXTENDS NatsAuction, Auctioneer_proofs, RepResources_proofs

TypeInv == TypeOK /\ RoundsCounted /\ WinnerKnown

LEMMA TypeOfAuctioneer == TypeInv => AuctioneerInv /\ AuctioneerTypeOK
BY DEF TypeInv, TypeOK, AuctioneerInv

LEMMA TypeInit == Init => TypeInv
BY AuctioneerAssumption, NatsAssumption
DEF Init, AuctioneerInit, TypeInv, TypeOK, AuctioneerTypeOK, RoundsCounted,
    WinnerKnown, AboutWinner, Calls

-----------------------------------------------------------------------------

LEMMA AdvanceType ==
  ASSUME TypeInv, NEW i \in Auctioned, Advance(i)
  PROVE  TypeInv'
<1>1. AuctioneerInv'
  BY TypeOfAuctioneer, AuctioneerType DEF Advance
<1>2. waiting'[i] # {} => pc'[i] \in Calls
  BY TypeOfAuctioneer, AsksOrLeaves DEF Advance
<1>3. waiting'[i] # {} => round'[i] \in 1 .. MaxRounds
  BY <1>1, <1>2, AuctioneerAssumption
  DEF AuctioneerInv, AuctioneerTypeOK, RoundsCounted
<1>4. waiting'[i] \in SUBSET Reps
  BY <1>1 DEF AuctioneerInv, AuctioneerTypeOK
<1>5. requests' \subseteq Request
  BY <1>2, <1>3, <1>4 DEF Advance, Request, TypeInv, TypeOK
<1>6. QED
  BY <1>1, <1>5 DEF Advance, AuctioneerInv, TypeInv, TypeOK

LEMMA TimeOutType ==
  ASSUME TypeInv, NEW i \in Auctioned, TimeOut(i)
  PROVE  TypeInv'
BY DEF TimeOut, TypeInv, TypeOK, AuctioneerTypeOK, RoundsCounted,
       WinnerKnown, AboutWinner

\* What a handler may rely on about a request.
LEMMA RequestType ==
  ASSUME TypeInv, NEW m \in requests
  PROVE  /\ m.inst \in Auctioned /\ m.inst \in Instances
         /\ m.rep \in Reps
         /\ m.op \in Calls
         /\ instances[m.rep] \in SUBSET Instances
         /\ Score(m.rep, instances[m.rep], m.inst) \in Int
<1>1. /\ m.inst \in Auctioned /\ m.rep \in Reps /\ m.op \in Calls
      /\ instances \in [Reps -> SUBSET Instances]
  BY DEF TypeInv, TypeOK, Request
<1>2. m.inst \in Instances
  BY <1>1, AuctioneerAssumption
<1>3. QED
  BY <1>1, <1>2, ScoreType

LEMMA ReplyType ==
  ASSUME TypeInv, NEW m \in requests,
         NEW answers \in SUBSET ScoreResult, Reply(m, answers)
  PROVE  AuctioneerInv' /\ requests' \subseteq Request /\ missed' = missed
<1>1. CASE UNCHANGED <<waiting, results>>
  BY <1>1
  DEF Reply, TypeInv, TypeOK, AuctioneerInv, AuctioneerTypeOK, RoundsCounted,
      WinnerKnown, AboutWinner
<1>2. CASE /\ waiting' = [waiting EXCEPT ![m.inst] = @ \ {m.rep}]
           /\ results' = [results EXCEPT ![m.inst] = @ \cup answers]
  BY <1>2
  DEF Reply, TypeInv, TypeOK, AuctioneerInv, AuctioneerTypeOK, RoundsCounted,
      WinnerKnown, AboutWinner
<1>3. QED
  BY <1>1, <1>2 DEF Reply

\* Every handler replies with score results, if with any, and at most adds
\* the instance to what its representative holds, or takes it away.
LEMMA HandleReplies ==
  ASSUME TypeInv, NEW m \in requests, Handle(m)
  PROVE  /\ \E answers \in SUBSET ScoreResult : Reply(m, answers)
         /\ instances' \in {instances,
                            [instances EXCEPT ![m.rep] = @ \cup {m.inst}],
                            [instances EXCEPT ![m.rep] = @ \ {m.inst}]}
<1>1. Refusal(m) \in SUBSET ScoreResult
  BY RequestType DEF Refusal, ScoreResult
<1>2. Bid(m, Score(m.rep, instances[m.rep], m.inst)) \in SUBSET ScoreResult
  BY RequestType DEF Bid, ScoreResult
<1>3. {} \in SUBSET ScoreResult
  OBVIOUS
<1>4. QED
  BY <1>1, <1>2, <1>3
  DEF Handle, OnScore, OnReserve, OnReserveFull, OnRelease, OnClaim

LEMMA HandleType ==
  ASSUME TypeInv, NEW m \in requests, Handle(m)
  PROVE  TypeInv'
<1>1. AuctioneerInv' /\ requests' \subseteq Request /\ missed' = missed
  BY HandleReplies, ReplyType
<1>2. instances' \in [Reps -> SUBSET Instances]
  BY HandleReplies, RequestType DEF TypeInv, TypeOK
<1>3. QED
  BY <1>1, <1>2 DEF AuctioneerInv, TypeInv, TypeOK

LEMMA TypeStep == TypeInv /\ [Next]_vars => TypeInv'
<1>1. TypeInv /\ UNCHANGED vars => TypeInv'
  BY DEF vars, auctionVars, natsVars, TypeInv, TypeOK, AuctioneerTypeOK,
         RoundsCounted, WinnerKnown, AboutWinner
<1>2. QED
  BY <1>1, AdvanceType, TimeOutType, HandleType DEF Next, Terminated

(***************************************************************************)
(* The variables always have their types: the requests in flight are of    *)
(* the rounds the rules allow, and every call about the winner is made     *)
(* when there is one, whatever answers were lost.                          *)
(***************************************************************************)
THEOREM TypeCorrect == Spec => []TypeOK
<1>1. TypeInv => TypeOK
  BY DEF TypeInv
<1>2. QED
  BY <1>1, TypeInit, TypeStep, PTL DEF Spec

-----------------------------------------------------------------------------

(***************************************************************************)
(* No representative ever holds more than it has room for, however late    *)
(* the requests come and however often it is told to reserve an instance   *)
(* it holds already.                                                       *)
(***************************************************************************)
THEOREM NeverOvercommitted == Spec => []NoOvercommit
<1>1. Init => NoOvercommit
  BY NatsAssumption DEF Init, NoOvercommit
<1>2. TypeInv /\ NoOvercommit /\ [Next]_vars => NoOvercommit'
  <2> SUFFICES ASSUME TypeInv, NoOvercommit, [Next]_vars
               PROVE  NoOvercommit'
    OBVIOUS
  <2>1. CASE UNCHANGED instances
    BY <2>1 DEF NoOvercommit
  <2>2. ASSUME NEW m \in requests, OnReserve(m) \/ OnRelease(m)
        PROVE  NoOvercommit'
    <3>1. /\ m.rep \in Reps /\ m.inst \in Instances
          /\ instances \in [Reps -> SUBSET Instances]
      BY RequestType DEF TypeInv, TypeOK
    <3>2. \A s \in Reps \ {m.rep} : instances'[s] = instances[s]
      BY <2>2, <3>1 DEF OnReserve, OnRelease
    <3>3. Fits(m.rep, instances'[m.rep])
      <4>1. CASE OnReserve(m)
        BY <3>1, <4>1, RoomIsEnough DEF OnReserve, NoOvercommit
      <4>2. CASE OnRelease(m)
        BY <3>1, <4>2, PartFits DEF OnRelease, NoOvercommit
      <4>3. QED
        BY <2>2, <4>1, <4>2
    <3>4. QED
      BY <3>2, <3>3 DEF NoOvercommit
  <2>3. QED
    BY <2>1, <2>2
    DEF Next, Advance, TimeOut, Handle, OnScore, OnReserveFull, OnClaim,
        Terminated, vars, natsVars
<1>3. QED
  BY <1>1, <1>2, TypeInit, TypeStep, PTL DEF Spec
-----------------------------------------------------------------------------

(***************************************************************************)
(* What the auctioneer knows.  A call is answered by everyone it asked or  *)
(* it times out; so of a representative that was never missed, no request  *)
(* is in flight but those of the current call, and the view of it is right *)
(* until it has handled that request.  Whether its reply then arrives or   *)
(* not: if it does, the view includes what it did; if it does not, the     *)
(* representative is waited for until it is missed.                        *)
(***************************************************************************)
RequestsOf(i) == {m \in requests : m.inst = i}

OnlyAsked(i) ==
  \A m \in RequestsOf(i) : m.rep \notin missed[i] => Subscribed(m)

Pending(i) == {m.rep : m \in RequestsOf(i)}

Known(i) == (Reps \ missed[i]) \ (waiting[i] \ Pending(i))

ViewRight(i) == \A r \in Known(i) : r \in Held(i) <=> r \in Holders(i)

Viewed(i) == Consistent(i) /\ OnlyAsked(i) /\ ViewRight(i)

ViewInv == TypeInv /\ \A i \in Auctioned : Viewed(i)

\* What the account of auction j looks at.
Account(j) == <<Memory(j), missed[j], Held(j), RequestsOf(j)>>

LEMMA SameView ==
  ASSUME NEW j \in Auctioned, Viewed(j), Account(j)' = Account(j)
  PROVE  Viewed(j)'
<1>1. /\ Memory(j)' = Memory(j) /\ missed'[j] = missed[j]
      /\ Held(j)' = Held(j) /\ RequestsOf(j)' = RequestsOf(j)
  BY DEF Account
<1>2. Holders(j)' = Holders(j)
  BY <1>1 DEF Memory, Holders, Accepted, RepsOf
<1>3. Consistent(j)'
  BY <1>1 DEF Memory, Viewed, Consistent, RepsOf
<1>4. OnlyAsked(j)'
  BY <1>1 DEF Memory, Viewed, OnlyAsked, Subscribed, RequestsOf
<1>5. ViewRight(j)'
  BY <1>1, <1>2 DEF Memory, Viewed, ViewRight, Known, Pending
<1>6. QED
  BY <1>3, <1>4, <1>5 DEF Viewed

\* No auction's call meddles with another auction's account, and no handler
\* with that of an auction its request is not of.
LEMMA OthersView ==
  ASSUME TypeInv, NEW i \in Auctioned, NEW j \in Auctioned \ {i},
         \/ Advance(i) \/ TimeOut(i)
         \/ \E m \in RequestsOf(i) : Handle(m)
  PROVE  Account(j)' = Account(j)
<1> USE DEF Account
<1>1. CASE Advance(i)
  <2>1. Memory(j)' = Memory(j)
    BY <1>1, TypeOfAuctioneer, OthersMemory DEF Advance
  <2>2. RequestsOf(j)' = RequestsOf(j)
    BY <1>1 DEF Advance, RequestsOf
  <2>3. QED
    BY <1>1, <2>1, <2>2 DEF Advance, Held
<1>2. CASE TimeOut(i)
  BY <1>2 DEF TimeOut, Memory, RequestsOf, Held, TypeInv, TypeOK,
              AuctioneerTypeOK
<1>3. ASSUME NEW m \in RequestsOf(i), Handle(m)
      PROVE  Account(j)' = Account(j)
  <2>1. m \in requests /\ m.inst = i
    BY DEF RequestsOf
  <2>2. PICK answers : Reply(m, answers)
    BY <1>3, <2>1, HandleReplies
  <2>3. Memory(j)' = Memory(j)
    BY <2>1, <2>2 DEF Reply, Memory, TypeInv, TypeOK, AuctioneerTypeOK
  <2>4. RequestsOf(j)' = RequestsOf(j) /\ missed' = missed
    BY <2>1, <2>2 DEF Reply, RequestsOf
  <2>5. Held(j)' = Held(j)
    <3>1. ASSUME NEW r \in Reps
          PROVE  j \in instances'[r] <=> j \in instances[r]
      BY <1>3, <2>1, HandleReplies DEF TypeInv, TypeOK
    <3>2. QED
      BY <3>1 DEF Held
  <2>6. QED
    BY <2>3, <2>4, <2>5
<1>4. QED
  BY <1>1, <1>2, <1>3

LEMMA AdvanceView ==
  ASSUME TypeInv, NEW i \in Auctioned, Viewed(i), Advance(i)
  PROVE  Viewed(i)'
<1>1. Consistent(i)' /\ Holders(i)' = Holders(i)
  BY TypeOfAuctioneer, HoldersKept DEF Viewed, Advance
<1>2. Held(i)' = Held(i)
  BY DEF Advance, Held
<1>3. \A m \in RequestsOf(i) : m.rep \in missed[i]
  BY DEF Viewed, OnlyAsked, Subscribed, RequestsOf, Advance
<1>4. OnlyAsked(i)'
  BY <1>3 DEF OnlyAsked, Subscribed, RequestsOf, Advance
<1>5. ViewRight(i)'
  BY <1>1, <1>2 DEF Viewed, ViewRight, Known, Advance
<1>6. QED
  BY <1>1, <1>4, <1>5 DEF Viewed

LEMMA TimeOutView ==
  ASSUME TypeInv, NEW i \in Auctioned, Viewed(i), TimeOut(i)
  PROVE  Viewed(i)'
<1>1. /\ waiting'[i] = {} /\ missed'[i] = missed[i] \cup waiting[i]
      /\ UNCHANGED <<pc, alg, round, winner, losers, recast, results>>
      /\ Held(i)' = Held(i) /\ RequestsOf(i)' = RequestsOf(i)
  BY DEF TimeOut, TypeInv, TypeOK, AuctioneerTypeOK, Held, RequestsOf
<1>2. Consistent(i)'
  BY <1>1 DEF Viewed, Consistent, RepsOf
<1>3. OnlyAsked(i)'
  BY <1>1 DEF Viewed, OnlyAsked, Subscribed, RequestsOf
<1>4. \A r \in Reps \ waiting[i] : r \in Holders(i)' <=> r \in Holders(i)
  BY <1>1 DEF Holders, Accepted, RepsOf
<1>5. ViewRight(i)'
  BY <1>1, <1>4 DEF Viewed, ViewRight, Known
<1>6. QED
  BY <1>2, <1>3, <1>5 DEF Viewed

-----------------------------------------------------------------------------

Releases == {"release", "giveback"}

\* What a handler does to the representative, and how it answers.
Effect(m, answers) ==
  \/ /\ m.op \in {"score", "rescore", "claim"}
     /\ UNCHANGED instances
  \/ /\ m.op = "reserve"
     /\ instances' = [instances EXCEPT ![m.rep] = @ \cup {m.inst}]
     /\ \E score : answers = Bid(m, score)
  \/ /\ m.op = "reserve"
     /\ UNCHANGED instances
     /\ answers = Refusal(m)
  \/ /\ m.op \in Releases
     /\ instances' = [instances EXCEPT ![m.rep] = @ \ {m.inst}]

\* What a reply leaves behind: one request less, and one answer more if it
\* is received.
Received(i, r, answers) ==
  /\ r \in waiting[i]
  /\ waiting'[i] = waiting[i] \ {r}
  /\ results'[i] = results[i] \cup answers

LEMMA ReplyLocal ==
  ASSUME TypeInv, NEW i \in Auctioned, NEW m \in RequestsOf(i),
         NEW answers, Reply(m, answers)
  PROVE  /\ RequestsOf(i)' = RequestsOf(i) \ {m}
         /\ UNCHANGED <<pc, alg, round, winner, losers, recast, missed>>
         /\ \/ pc[i] = m.op /\ Received(i, m.rep, answers)
            \/ waiting'[i] = waiting[i] /\ results'[i] = results[i]
BY DEF Reply, Subscribed, Received, RequestsOf, TypeInv, TypeOK,
       AuctioneerTypeOK

\* A representative that was never missed has one request at most.
LEMMA OnePending ==
  ASSUME TypeInv, NEW i \in Auctioned, OnlyAsked(i),
         NEW m \in RequestsOf(i), m.rep \notin missed[i],
         NEW n \in RequestsOf(i), n.rep = m.rep
  PROVE  n = m
<1>1. m \in Request /\ n \in Request
  BY DEF RequestsOf, TypeInv, TypeOK
<1>2. m.inst = n.inst /\ m.op = n.op /\ m.round = n.round
  BY DEF OnlyAsked, Subscribed, RequestsOf
<1>3. QED
  BY <1>1, <1>2 DEF Request

\* Answers come from the one representative, and at most one of them.
Answers(m, answers) ==
  /\ \A x \in answers : x.rep = m.rep
  /\ \A x, y \in answers : x = y

LEMMA ReceivedConsistent ==
  ASSUME TypeInv, NEW i \in Auctioned, NEW m \in RequestsOf(i),
         NEW answers, Answers(m, answers), Reply(m, answers), Consistent(i)
  PROVE  Consistent(i)'
<1>1. /\ UNCHANGED <<pc, alg, winner, losers>>
      /\ \/ Received(i, m.rep, answers)
         \/ waiting'[i] = waiting[i] /\ results'[i] = results[i]
  BY ReplyLocal
<1>2. CASE Received(i, m.rep, answers)
  <2>1. RepsOf(results[i])' \subseteq RepsOf(results[i]) \cup {m.rep}
    BY <1>2 DEF Received, Answers, RepsOf
  <2>2. m.rep \notin RepsOf(results[i])
    BY <1>2 DEF Received, Consistent
  <2>3. \A x, y \in results'[i] : x.rep = y.rep => x = y
    BY <1>2, <2>2 DEF Received, Answers, Consistent, RepsOf
  <2>4. QED
    BY <1>1, <1>2, <2>1, <2>3 DEF Received, Consistent
<1>3. CASE waiting'[i] = waiting[i] /\ results'[i] = results[i]
  BY <1>1, <1>3 DEF Consistent, RepsOf
<1>4. QED
  BY <1>1, <1>2, <1>3

\* A reply changes the account of nobody but its sender.
LEMMA OthersHold ==
  ASSUME TypeInv, NEW i \in Auctioned, NEW m \in RequestsOf(i),
         NEW answers, Answers(m, answers), Reply(m, answers),
         NEW s \in Reps \ {m.rep}
  PROVE  /\ s \in Holders(i)' <=> s \in Holders(i)
         /\ s \in Known(i)' <=> s \in Known(i)
<1>1. /\ UNCHANGED <<pc, alg, winner, losers, recast, missed>>
      /\ RequestsOf(i)' = RequestsOf(i) \ {m}
      /\ \/ Received(i, m.rep, answers)
         \/ waiting'[i] = waiting[i] /\ results'[i] = results[i]
  BY ReplyLocal
<1>2. s \in waiting'[i] <=> s \in waiting[i]
  BY <1>1 DEF Received
<1>3. s \in RepsOf(Accepted(i))' <=> s \in RepsOf(Accepted(i))
  BY <1>1 DEF Received, Answers, RepsOf, Accepted
<1>4. s \in Holders(i)' <=> s \in Holders(i)
  BY <1>1, <1>2, <1>3 DEF Holders
<1>5. s \in Pending(i)' <=> s \in Pending(i)
  BY <1>1 DEF Pending
<1>6. QED
  BY <1>1, <1>2, <1>4, <1>5 DEF Known

\* A representative handles a request it was asked and answers in time: its
\* answer tells what it did.
LEMMA AnswerTells ==
  ASSUME TypeInv, NEW i \in Auctioned, NEW m \in RequestsOf(i),
         Consistent(i), m.rep \in waiting[i], m.op = pc[i],
         m.rep \in Held(i) <=> m.rep \in Holders(i),
         NEW answers, Reply(m, answers), Received(i, m.rep, answers),
         Effect(m, answers)
  PROVE  m.rep \in Held(i)' <=> m.rep \in Holders(i)'
<1>1. /\ UNCHANGED <<pc, alg, winner, losers, recast>>
      /\ waiting'[i] = waiting[i] \ {m.rep}
      /\ results'[i] = results[i] \cup answers
  BY ReplyLocal DEF Received
<1>2. m.inst = i /\ m.rep \in Reps /\ instances \in [Reps -> SUBSET Instances]
  BY RequestType DEF RequestsOf, TypeInv, TypeOK
<1>3. m.rep \notin RepsOf(results[i])
  BY DEF Consistent
<1>4. CASE m.op \in {"score", "rescore", "claim"} /\ UNCHANGED instances
  BY <1>1, <1>4 DEF Held, Holders
<1>5. CASE /\ m.op = "reserve"
           /\ instances' = [instances EXCEPT ![m.rep] = @ \cup {m.inst}]
           /\ \E score : answers = Bid(m, score)
  <2>1. m.rep \in Held(i)'
    BY <1>2, <1>5 DEF Held
  <2>2. m.rep \in RepsOf(Accepted(i))'
    <3>1. PICK x \in answers : x.rep = m.rep /\ x.ok = TRUE
      BY <1>5 DEF Bid
    <3>2. x \in Accepted(i)'
      BY <1>1, <3>1 DEF Accepted
    <3>3. QED
      BY <3>1, <3>2 DEF RepsOf
  <2>3. QED
    BY <1>1, <1>5, <2>1, <2>2 DEF Holders
<1>6. CASE m.op = "reserve" /\ UNCHANGED instances /\ answers = Refusal(m)
  <2>1. m.rep \notin RepsOf(Accepted(i)) /\ m.rep \notin RepsOf(Accepted(i))'
    BY <1>1, <1>3, <1>6 DEF Refusal, RepsOf, Accepted
  <2>2. QED
    BY <1>1, <1>6, <2>1 DEF Held, Holders
<1>7. CASE /\ m.op \in {"release", "giveback"}
           /\ instances' = [instances EXCEPT ![m.rep] = @ \ {m.inst}]
  <2>1. m.rep \notin Held(i)'
    BY <1>2, <1>7 DEF Held
  <2>2. m.op = "release" => m.rep # winner[i]
    BY DEF Consistent
  <2>3. QED
    BY <1>1, <1>7, <2>1, <2>2 DEF Holders
<1>8. QED
  BY <1>4, <1>5, <1>6, <1>7 DEF Effect, Releases

\* What each handler does, seen from the auction its request is of.
LEMMA HandleAnswers ==
  ASSUME TypeInv, NEW i \in Auctioned, NEW m \in RequestsOf(i), Handle(m)
  PROVE  \E answers :
    /\ Answers(m, answers)
    /\ Reply(m, answers)
    /\ Effect(m, answers)
<1>1. /\ \A score : Answers(m, Bid(m, score))
      /\ Answers(m, Refusal(m))
      /\ Answers(m, {})
  BY DEF Answers, Bid, Refusal
<1>2. CASE OnScore(m)
  BY <1>1, <1>2 DEF OnScore, Effect, Releases
<1>3. CASE OnReserve(m)
  BY <1>1, <1>3 DEF OnReserve, Effect, Releases
<1>4. CASE OnReserveFull(m)
  BY <1>1, <1>4 DEF OnReserveFull, Effect, Releases
<1>5. CASE OnRelease(m)
  BY <1>1, <1>5 DEF OnRelease, Effect, Releases
<1>6. CASE OnClaim(m)
  BY <1>1, <1>6 DEF OnClaim, Effect, Releases
<1>7. QED
  BY <1>2, <1>3, <1>4, <1>5, <1>6 DEF Handle

LEMMA HandleView ==
  ASSUME TypeInv, NEW i \in Auctioned, Viewed(i),
         NEW m \in RequestsOf(i), Handle(m)
  PROVE  Viewed(i)'
<1>0. Consistent(i) /\ OnlyAsked(i) /\ ViewRight(i) /\ m \in requests
  BY DEF Viewed, RequestsOf
<1>1. PICK answers :
        /\ Answers(m, answers)
        /\ Reply(m, answers)
        /\ Effect(m, answers)
  BY HandleAnswers
<1>2. Consistent(i)'
  BY <1>0, <1>1, ReceivedConsistent
<1>3. /\ RequestsOf(i)' = RequestsOf(i) \ {m}
      /\ UNCHANGED <<pc, round, missed>>
      /\ \/ pc[i] = m.op /\ Received(i, m.rep, answers)
         \/ waiting'[i] = waiting[i] /\ results'[i] = results[i]
  BY <1>1, ReplyLocal
<1>4. OnlyAsked(i)'
  <2> SUFFICES ASSUME NEW n \in RequestsOf(i), n # m, n.rep \notin missed[i]
               PROVE  Subscribed(n)'
    BY <1>3 DEF OnlyAsked
  <2>1. Subscribed(n) /\ n.inst = i
    BY <1>0 DEF OnlyAsked, RequestsOf
  <2>2. n.rep # m.rep
    BY <1>0, OnePending
  <2>3. QED
    BY <1>3, <2>1, <2>2 DEF Received, Subscribed
<1>5. ViewRight(i)'
  <2> SUFFICES ASSUME NEW r \in Reps, r \in Known(i)'
               PROVE  r \in Held(i)' <=> r \in Holders(i)'
    BY DEF ViewRight, Known
  <2>1. CASE r # m.rep
    <3>1. r \in Held(i)' <=> r \in Held(i)
      BY <1>0, <2>1, HandleReplies DEF Held, TypeInv, TypeOK
    <3>2. QED
      BY <1>0, <1>1, <2>1, <3>1, OthersHold DEF ViewRight
  <2>2. CASE r = m.rep
    <3>1. r \notin missed[i]
      BY <1>3, <2>2 DEF Known
    <3>2. r \in waiting[i] /\ m.op = pc[i]
      BY <1>0, <2>2, <3>1 DEF OnlyAsked, Subscribed, RequestsOf
    <3>3. r \in Pending(i)
      BY <2>2 DEF Pending
    <3>4. r \in Held(i) <=> r \in Holders(i)
      BY <1>0, <3>1, <3>3 DEF ViewRight, Known
    <3>5. r \notin Pending(i)'
      BY <1>0, <1>3, <2>2, <3>1, OnePending DEF Pending
    <3>6. Received(i, m.rep, answers)
      BY <1>3, <2>2, <3>2, <3>5 DEF Known
    <3>7. QED
      BY <1>0, <1>1, <2>2, <3>2, <3>4, <3>6, AnswerTells
  <2>3. QED
    BY <2>1, <2>2
<1>6. QED
  BY <1>2, <1>4, <1>5 DEF Viewed

LEMMA ViewInit == Init => ViewInv
BY TypeInit, NatsAssumption
DEF Init, AuctioneerInit, ViewInv, Viewed, Consistent, OnlyAsked, ViewRight,
    Known, Held, Holders, RepsOf, RequestsOf

LEMMA ViewStep == ViewInv /\ [Next]_vars => ViewInv'
<1> SUFFICES ASSUME ViewInv, [Next]_vars, NEW j \in Auctioned
             PROVE  Viewed(j)'
  BY TypeStep DEF ViewInv
<1>1. TypeInv /\ Viewed(j)
  BY DEF ViewInv
<1>2. CASE UNCHANGED vars
  <2>1. Account(j)' = Account(j)
    BY <1>2 DEF vars, auctionVars, natsVars, Account, Memory, Held, RequestsOf
  <2>2. QED
    BY <1>1, <2>1, SameView
<1>3. ASSUME NEW i \in Auctioned, Advance(i) \/ TimeOut(i)
      PROVE  Viewed(j)'
  BY <1>1, <1>3, AdvanceView, TimeOutView, OthersView, SameView
<1>4. ASSUME NEW m \in requests, Handle(m)
      PROVE  Viewed(j)'
  <2>1. m.inst \in Auctioned /\ m \in RequestsOf(m.inst)
    BY <1>1, RequestType DEF RequestsOf
  <2>2. QED
    BY <1>1, <1>4, <2>1, HandleView, OthersView, SameView
<1>5. QED
  BY <1>2, <1>3, <1>4 DEF Next, Terminated

LEMMA ViewInvariant == Spec => []ViewInv
BY ViewInit, ViewStep, PTL DEF Spec

(***************************************************************************)
(* The auctioneer is wrong about where its instance is held only about     *)
(* representatives it has missed or is waiting for: one that always        *)
(* answered in time was never sent a request that it could handle late.    *)
(***************************************************************************)
THEOREM ViewIsWrongOnlyWhereMissed == Spec => []ViewWrongOnlyWhereMissed
<1>1. ASSUME ViewInv, NEW i \in Auctioned
      PROVE  (Held(i) \ Holders(i)) \cup (Holders(i) \ Held(i))
               \subseteq missed[i] \cup waiting[i]
  <2>1. Held(i) \subseteq Reps
    BY DEF Held
  <2>2. Holders(i) \subseteq Reps
    <3>1. AuctioneerTypeOK /\ WinnerKnown
      BY <1>1 DEF ViewInv, TypeInv, TypeOK
    <3>2. RepsOf(Accepted(i)) \subseteq Reps
      BY <3>1, ResultsType
    <3>3. QED
      BY <3>1, <3>2
      DEF Holders, WinnerKnown, AboutWinner, AuctioneerTypeOK
  <2>3. QED
    BY <1>1, <2>1, <2>2 DEF ViewInv, Viewed, ViewRight, Known
<1>2. ViewInv => ViewWrongOnlyWhereMissed
  BY <1>1 DEF ViewWrongOnlyWhereMissed
<1>3. QED
  BY <1>2, ViewInvariant, PTL

\* An auction that is decided waits for no answer.
DoneWaiting == \A i \in Auctioned : pc[i] \in Decided => waiting[i] = {}

LEMMA DoneWaitingInvariant == Spec => []DoneWaiting
<1>1. Init => DoneWaiting
  BY DEF Init, AuctioneerInit, DoneWaiting
<1>2. TypeInv /\ DoneWaiting /\ [Next]_vars => DoneWaiting'
  <2> SUFFICES ASSUME TypeInv, DoneWaiting, [Next]_vars
               PROVE  DoneWaiting'
    OBVIOUS
  <2>1. AuctioneerTypeOK
    BY DEF TypeInv, TypeOK
  <2>2. ASSUME pc' = pc, \A j \in Auctioned : waiting'[j] \subseteq waiting[j]
        PROVE  DoneWaiting'
    BY <2>2 DEF DoneWaiting
  <2>3. ASSUME NEW i \in Auctioned, Advance(i)
        PROVE  DoneWaiting'
    <3>1. pc'[i] \in Calls \/ waiting'[i] = {}
      BY <2>1, <2>3, AsksOrLeaves DEF Advance
    <3>2. \A j \in Auctioned \ {i} : pc'[j] = pc[j] /\ waiting'[j] = waiting[j]
      BY <2>3, OthersView DEF Account, Memory
    <3>3. QED
      BY <3>1, <3>2 DEF DoneWaiting, Calls, Decided
  <2>4. ASSUME NEW i \in Auctioned, TimeOut(i)
        PROVE  DoneWaiting'
    BY <2>1, <2>2, <2>4 DEF TimeOut, AuctioneerTypeOK
  <2>5. ASSUME NEW m \in requests, Handle(m)
        PROVE  DoneWaiting'
    BY <2>1, <2>2, <2>5, HandleReplies DEF Reply, AuctioneerTypeOK
  <2>6. QED
    BY <2>2, <2>3, <2>4, <2>5 DEF Next, Terminated, vars, auctionVars
<1>3. QED
  BY <1>1, <1>2, TypeInit, TypeStep, PTL DEF Spec

(***************************************************************************)
(* Without a timeout over NATS is like in-process: when an auction all of  *)
(* whose calls were answered is over, its instance is on the winner and    *)
(* nowhere else, or on nobody if there is none.                            *)
(***************************************************************************)
PlacedOnceUnlessMissed ==
  \A i \in Auctioned :
    (pc[i] \in Decided /\ missed[i] = {})
      => Held(i) = IF pc[i] = "won" THEN {winner[i]} ELSE {}

THEOREM AlwaysPlacedOnceUnlessMissed == Spec => []PlacedOnceUnlessMissed
<1>1. ASSUME ViewWrongOnlyWhereMissed, DoneWaiting, NEW i \in Auctioned,
             pc[i] \in Decided, missed[i] = {}
      PROVE  Held(i) = IF pc[i] = "won" THEN {winner[i]} ELSE {}
  <2>1. Held(i) = Holders(i)
    BY <1>1 DEF ViewWrongOnlyWhereMissed, DoneWaiting
  <2>2. QED
    BY <1>1, <2>1 DEF Holders, Decided
<1>2. ViewWrongOnlyWhereMissed /\ DoneWaiting => PlacedOnceUnlessMissed
  BY <1>1 DEF PlacedOnceUnlessMissed
<1>3. QED
  BY <1>2, ViewIsWrongOnlyWhereMissed, DoneWaitingInvariant, PTL

-----------------------------------------------------------------------------

(***************************************************************************)
(* Why a winner keeps its instance in every algorithm but all_rescore.     *)
(* Nothing is released before the claim, so whoever accepted to reserve    *)
(* still holds the instance then, even if it was missed in an earlier      *)
(* call; and what is released after the claim is not the winner's.         *)
(***************************************************************************)
Direct(i) ==
  alg[i] # "all_rescore" \/ pc[i] = "idle" =>
    /\ pc[i] \notin {"rescore", "giveback"}
    /\ \A m \in RequestsOf(i) :
         m.op \in Releases =>
           pc[i] \in {"release", "won"} /\ m.rep # winner[i]
    /\ pc[i] = "reserve" => RepsOf(Accepted(i)) \subseteq Held(i)
    /\ pc[i] \in {"claim", "release", "won"} => winner[i] \in Held(i)

DirectInv == ViewInv /\ \A i \in Auctioned : Direct(i)

LEMMA SameDirect ==
  ASSUME NEW j \in Auctioned, Direct(j), Account(j)' = Account(j)
  PROVE  Direct(j)'
<1>1. /\ Memory(j)' = Memory(j)
      /\ Held(j)' = Held(j) /\ RequestsOf(j)' = RequestsOf(j)
  BY DEF Account
<1>2. QED
  BY <1>1 DEF Memory, Direct, RepsOf, Accepted

LEMMA AdvanceDirect ==
  ASSUME TypeInv, NEW i \in Auctioned, Consistent(i), Direct(i), Advance(i)
  PROVE  Direct(i)'
<1> SUFFICES ASSUME alg'[i] # "all_rescore" \/ pc'[i] = "idle"
             PROVE  Direct(i)'
  BY DEF Direct
<1>1. /\ waiting[i] = {}
      /\ HoldAuction(i) \/ RefuseAlgorithm(i) \/ Proceed(i) \/ Continue(i)
      /\ Held(i)' = Held(i)
      /\ AuctioneerTypeOK
  BY DEF Advance, Held, TypeInv, TypeOK
<1>2. RequestsOf(i)' = RequestsOf(i) \cup
        {[inst |-> i, round |-> round'[i], op |-> pc'[i], rep |-> r] :
           r \in waiting'[i]}
  BY DEF Advance, RequestsOf
<1>3. pc'[i] # "idle"
  BY <1>1, AsksOrLeaves DEF Calls
<1>4. alg[i] # "all_rescore" \/ pc[i] = "idle"
  BY <1>1, <1>3, AlgorithmKept DEF HoldAuction, RefuseAlgorithm
<1>5. /\ pc[i] \notin {"rescore", "giveback"}
      /\ \A m \in RequestsOf(i) :
           m.op \in Releases =>
             pc[i] \in {"release", "won"} /\ m.rep # winner[i]
      /\ pc[i] = "reserve" => RepsOf(Accepted(i)) \subseteq Held(i)
      /\ pc[i] \in {"claim", "release", "won"} => winner[i] \in Held(i)
  BY <1>4 DEF Direct
<1>6. \A to : Leave(i, to) =>
        pc'[i] = to /\ waiting'[i] = {} /\ results'[i] = {}
  BY <1>1, LeaveLocal
<1>7. \A op, reps : Ask(i, op, reps) =>
        pc'[i] = op /\ waiting'[i] = reps /\ results'[i] = {}
  BY <1>1, AskLocal
\* Between rounds, and when the auction ends in vain, nothing is released.
<1>8. ASSUME NEW to \in {"round", "lost", "panicked"}, Leave(i, to),
             pc[i] \notin {"release", "won"}
      PROVE  Direct(i)'
  BY <1>2, <1>5, <1>6, <1>8 DEF Direct, RepsOf, Accepted
<1>9. ASSUME NEW op \in {"score", "reserve"}, NEW reps, Ask(i, op, reps),
             pc[i] \notin {"release", "won"}
      PROVE  Direct(i)'
  <2>1. pc'[i] = op /\ results'[i] = {}
    BY <1>7, <1>9
  <2>2. \A m \in RequestsOf(i)' : m.op \notin Releases
    BY <1>2, <1>5, <1>9, <2>1 DEF Releases
  <2>3. QED
    BY <1>9, <2>1, <2>2 DEF Direct, RepsOf, Accepted
<1>10. ASSUME Ask(i, "claim", {winner'[i]}), winner'[i] \in Held(i),
              pc[i] \notin {"release", "won"}
       PROVE  Direct(i)'
  <2>1. pc'[i] = "claim"
    BY <1>7, <1>10
  <2>2. \A m \in RequestsOf(i)' : m.op \notin Releases
    BY <1>2, <1>5, <1>10, <2>1 DEF Releases
  <2>3. QED
    BY <1>1, <1>10, <2>1, <2>2 DEF Direct
<1>11. CASE \/ HoldAuction(i) \/ RefuseAlgorithm(i) \/ GiveUp(i)
            \/ NoBids(i) \/ TooFewBids(i) \/ NoReply(i) \/ ReserveFailed(i)
  BY <1>8, <1>11
  DEF HoldAuction, RefuseAlgorithm, GiveUp, NoBids, TooFewBids, NoReply,
      ReserveFailed, NextRound
<1>12. CASE \/ StartRound(i) \/ PickAtRandom(i) \/ PickLowest(i)
            \/ PickAmongBest(i) \/ ReserveShortList(i)
  <2>1. PICK op \in {"score", "reserve"} : \E reps : Ask(i, op, reps)
    BY <1>12
    DEF StartRound, PickAtRandom, PickLowest, PickAmongBest, ReserveShortList
  <2>2. pc[i] \in {"round", "score"}
    BY <1>12
    DEF StartRound, PickAtRandom, PickLowest, PickAmongBest, ReserveShortList
  <2>3. QED
    BY <1>9, <2>1, <2>2
<1>13. CASE ClaimPicked(i)
  <2>1. RepsOf(Accepted(i)) \subseteq {winner[i]} /\ RepsOf(Accepted(i)) # {}
    BY <1>13 DEF ClaimPicked, Consistent, RepsOf, Accepted
  <2>2. winner[i] \in Held(i)
    BY <1>5, <1>13, <2>1 DEF ClaimPicked
  <2>3. QED
    BY <1>10, <1>13, <2>2 DEF ClaimPicked
<1>14. CASE ClaimLowest(i)
  <2>1. PICK x \in Lowest(Accepted(i)) :
          /\ winner' = [winner EXCEPT ![i] = x.rep]
          /\ Ask(i, "claim", {x.rep})
    BY <1>14 DEF ClaimLowest
  <2>2. winner'[i] = x.rep
    BY <1>1, <2>1 DEF AuctioneerTypeOK
  <2>3. x.rep \in RepsOf(Accepted(i))
    BY <2>1 DEF Lowest, RepsOf
  <2>4. x.rep \in Held(i)
    BY <1>5, <1>14, <2>3 DEF ClaimLowest
  <2>5. QED
    BY <1>10, <1>14, <2>1, <2>2, <2>4 DEF ClaimLowest
<1>15. CASE ReleaseLosers(i)
  <2>1. winner'[i] = winner[i] /\ winner[i] \notin losers[i]
    BY <1>15 DEF ReleaseLosers, Consistent
  <2>2. pc'[i] = "release" /\ waiting'[i] = losers[i]
    BY <1>7, <1>15 DEF ReleaseLosers
  <2>3. \A m \in RequestsOf(i)' : m.op \in Releases => m.rep # winner[i]
    BY <1>2, <1>5, <1>15, <2>1, <2>2 DEF ReleaseLosers
  <2>4. QED
    BY <1>1, <1>5, <1>15, <2>1, <2>2, <2>3 DEF ReleaseLosers, Direct
<1>16. CASE Win(i)
  <2>1. /\ winner'[i] = winner[i] /\ pc'[i] = "won" /\ waiting'[i] = {}
        /\ pc[i] \in {"claim", "release"}
    BY <1>6, <1>16 DEF Win
  <2>2. QED
    BY <1>1, <1>2, <1>5, <2>1 DEF Direct
<1>17. CASE \/ Rescore(i) \/ WinnerFull(i) \/ GiveBack(i)
            \/ ClaimRescored(i) \/ RetryAfterGiveBack(i)
  BY <1>4, <1>5, <1>17
  DEF Rescore, WinnerFull, GiveBack, ClaimRescored, RetryAfterGiveBack
<1>18. QED
  BY <1>1, <1>11, <1>12, <1>13, <1>14, <1>15, <1>16, <1>17
  DEF Proceed, Continue

LEMMA TimeOutDirect ==
  ASSUME TypeInv, NEW i \in Auctioned, Direct(i), TimeOut(i)
  PROVE  Direct(i)'
BY DEF TimeOut, Direct, Held, RequestsOf, RepsOf, Accepted

LEMMA HandleDirect ==
  ASSUME TypeInv, NEW i \in Auctioned, Direct(i), NEW m \in RequestsOf(i),
         Handle(m)
  PROVE  Direct(i)'
<1>1. PICK answers :
        /\ Answers(m, answers)
        /\ Reply(m, answers)
        /\ Effect(m, answers)
  BY HandleAnswers
<1>2. /\ RequestsOf(i)' = RequestsOf(i) \ {m}
      /\ UNCHANGED <<pc, alg, winner>>
      /\ \/ pc[i] = m.op /\ Received(i, m.rep, answers)
         \/ waiting'[i] = waiting[i] /\ results'[i] = results[i]
  BY <1>1, ReplyLocal
<1>3. /\ m.inst = i /\ m.rep \in Reps
      /\ instances \in [Reps -> SUBSET Instances]
  BY RequestType DEF RequestsOf, TypeInv, TypeOK
<1>4. Held(i) \ {m.rep} \subseteq Held(i)'
  BY <1>1, <1>3 DEF Effect, Held
<1>5. m.op \notin Releases => Held(i) \subseteq Held(i)'
  BY <1>1, <1>3 DEF Effect, Held
<1> SUFFICES ASSUME alg[i] # "all_rescore" \/ pc[i] = "idle"
             PROVE  Direct(i)'
  BY <1>2 DEF Direct
<1>6. pc[i] = "reserve" => RepsOf(Accepted(i))' \subseteq Held(i)'
  <2> SUFFICES ASSUME pc[i] = "reserve", NEW x \in Accepted(i)'
               PROVE  x.rep \in Held(i)'
    BY DEF RepsOf
  <2>1. Held(i) \subseteq Held(i)'
    BY <1>5 DEF Direct
  <2>2. CASE x \in results[i]
    BY <2>1, <2>2 DEF Direct, RepsOf, Accepted
  <2>3. CASE x \notin results[i]
    <3>1. x \in answers /\ m.op = "reserve" /\ x.ok
      BY <1>2, <2>3 DEF Received, Accepted
    <3>2. x.rep = m.rep /\ answers # Refusal(m)
      BY <1>1, <3>1 DEF Answers, Refusal
    <3>3. m.rep \in Held(i)'
      BY <1>1, <1>3, <3>1, <3>2 DEF Effect, Releases, Held
    <3>4. QED
      BY <3>2, <3>3
  <2>4. QED
    BY <2>2, <2>3
<1>7. pc[i] \in {"claim", "release", "won"} => winner[i] \in Held(i)'
  BY <1>4, <1>5 DEF Direct
<1>8. QED
  BY <1>2, <1>6, <1>7 DEF Direct

LEMMA DirectInit == Init => DirectInv
BY ViewInit DEF Init, AuctioneerInit, DirectInv, Direct, RequestsOf

LEMMA DirectStep == DirectInv /\ [Next]_vars => DirectInv'
<1> SUFFICES ASSUME DirectInv, [Next]_vars, NEW j \in Auctioned
             PROVE  Direct(j)'
  BY ViewStep DEF DirectInv
<1>1. TypeInv /\ Direct(j) /\ Consistent(j)
  BY DEF DirectInv, ViewInv, Viewed
<1>2. CASE UNCHANGED vars
  <2>1. Account(j)' = Account(j)
    BY <1>2 DEF vars, auctionVars, natsVars, Account, Memory, Held, RequestsOf
  <2>2. QED
    BY <1>1, <2>1, SameDirect
<1>3. ASSUME NEW i \in Auctioned, Advance(i) \/ TimeOut(i)
      PROVE  Direct(j)'
  BY <1>1, <1>3, AdvanceDirect, TimeOutDirect, OthersView, SameDirect
<1>4. ASSUME NEW m \in requests, Handle(m)
      PROVE  Direct(j)'
  <2>1. m.inst \in Auctioned /\ m \in RequestsOf(m.inst)
    BY <1>1, RequestType DEF RequestsOf
  <2>2. QED
    BY <1>1, <1>4, <2>1, HandleDirect, OthersView, SameDirect
<1>5. QED
  BY <1>2, <1>3, <1>4 DEF Next, Terminated

(***************************************************************************)
(* In every algorithm but all_rescore a representative told to claim keeps *)
(* the instance, whatever timed out before and whatever arrives later.     *)
(***************************************************************************)
THEOREM WinnerAlwaysKeepsInstance == Spec => []WinnerKeepsInstance
<1>1. DirectInv => WinnerKeepsInstance
  BY DEF DirectInv, Direct, WinnerKeepsInstance
<1>2. QED
  BY <1>1, DirectInit, DirectStep, PTL DEF Spec

-----------------------------------------------------------------------------

(***************************************************************************)
(* Seen from outside the auctions place instances one after the other.     *)
(***************************************************************************)

\* The representatives keep what they ran before the auctions.
OldKept == \A r \in Reps : Initial[r] \subseteq instances[r]

PlaceInv == DirectInv /\ NoOvercommit /\ OldKept

LEMMA OldKeptInvariant == Spec => []OldKept
<1>1. Init => OldKept
  BY DEF Init, OldKept
<1>2. TypeInv /\ OldKept /\ [Next]_vars => OldKept'
  <2>1. ASSUME OldKept, UNCHANGED instances
        PROVE  OldKept'
    BY <2>1 DEF OldKept
  <2>2. ASSUME TypeInv, OldKept, NEW m \in requests, Handle(m)
        PROVE  OldKept'
    <3>1. /\ m.inst \in Auctioned /\ m.rep \in Reps
          /\ instances \in [Reps -> SUBSET Instances]
      BY <2>2, RequestType DEF TypeInv, TypeOK
    <3>2. \A r \in Reps : m.inst \notin Initial[r]
      BY <3>1, NatsAssumption
    <3>3. QED
      BY <2>2, <3>1, <3>2, HandleReplies DEF OldKept
  <2>3. QED
    BY <2>1, <2>2 DEF Next, Advance, TimeOut, Terminated, vars, natsVars
<1>3. QED
  BY <1>1, <1>2, TypeInit, TypeStep, PTL DEF Spec

LEMMA PlaceInvariant == Spec => []PlaceInv
BY DirectInit, DirectStep, NeverOvercommitted, OldKeptInvariant, PTL
DEF Spec, PlaceInv

\* The abstract specification has the representatives' notion of room.
LEMMA SameRoom ==
  ASSUME NEW r, NEW S, NEW i
  PROVE  Abstract!HasRoomFor(r, S, i) <=> HasRoomFor(r, S, i)
<1>1. \A amount : Abstract!Sum(S, amount) = Sum(S, amount)
  BY DEF Abstract!Sum, Sum, Abstract!Units, Units, Abstract!Cardinality,
         Cardinality
<1>2. /\ Abstract!RemainingMemory(r, S) = RemainingMemory(r, S)
      /\ Abstract!RemainingDisk(r, S) = RemainingDisk(r, S)
      /\ Abstract!RemainingContainers(r, S) = RemainingContainers(r, S)
  BY <1>1
  DEF Abstract!RemainingMemory, Abstract!RemainingDisk,
      Abstract!RemainingContainers, RemainingMemory, RemainingDisk,
      RemainingContainers, Abstract!Cardinality, Cardinality
<1>3. QED
  BY <1>2 DEF Abstract!HasRoomFor, HasRoomFor

\* The algorithm and the outcome of an auction are its own, and requests,
\* replies and timeouts decide nothing.
LEMMA OthersPlacement ==
  ASSUME TypeInv, NEW i \in Auctioned, Advance(i), NEW j \in Auctioned \ {i}
  PROVE  placement'[j] = placement[j]
<1>1. pc'[j] = pc[j] /\ winner'[j] = winner[j] /\ alg'[j] = alg[j]
  BY OthersView DEF Account, Memory
<1>2. QED
  BY <1>1 DEF placement

\* Whoever won and keeps its instance has room for it beside the others that
\* won there, as it holds them all.
LEMMA WinPlaces ==
  ASSUME PlaceInv, PlaceInv', NEW i \in Auctioned, Advance(i),
         pc'[i] = "won", alg'[i] # "all_rescore"
  PROVE  Abstract!Place(i, winner'[i])
<1> DEFINE r == winner'[i]
           runs == Abstract!Runs(r)
<1>1. TypeInv /\ TypeInv'
  BY DEF PlaceInv, DirectInv, ViewInv
<1>2. pc[i] \notin Decided
  BY DecidedTakesNoStep DEF Advance
<1>3. placement[i] = None
  BY <1>2 DEF placement, Decided
<1>4. r \in Reps
  BY <1>1 DEF TypeInv, WinnerKnown, AboutWinner
<1>5. \A j \in Auctioned :
        pc'[j] = "won" /\ alg'[j] # "all_rescore" => j \in instances'[winner'[j]]
  BY DEF PlaceInv, DirectInv, Direct, Held
<1>6. i \in instances'[r] /\ i \in Instances
        /\ instances'[r] \in SUBSET Instances
  BY <1>1, <1>4, <1>5, AuctioneerAssumption DEF TypeInv, TypeOK
<1>7. runs \subseteq instances'[r]
  <2>1. Initial[r] \subseteq instances'[r]
    BY <1>4 DEF PlaceInv, OldKept
  <2>2. ASSUME NEW j \in Auctioned, placement[j] = r
        PROVE  j \in instances'[r]
    <3>1. r # None /\ r # Rejected
      BY <1>4, AuctioneerAssumption, NatsAssumption
    <3>2. j # i
      BY <1>3, <2>2, <3>1
    <3>3. placement'[j] = r
      BY <1>1, <2>2, <3>2, OthersPlacement
    <3>4. pc'[j] = "won" /\ alg'[j] # "all_rescore" /\ winner'[j] = r
      BY <3>1, <3>3 DEF placement
    <3>5. QED
      BY <1>5, <3>4
  <2>3. QED
    BY <2>1, <2>2 DEF Abstract!Runs
<1>8. i \notin runs
  BY <1>3, <1>4, AuctioneerAssumption, NatsAssumption DEF Abstract!Runs
<1>9. Fits(r, runs \cup {i})
  BY <1>4, <1>6, <1>7, PartFits DEF PlaceInv, NoOvercommit
<1>10. HasRoomFor(r, runs, i)
  <2>1. runs \in SUBSET Instances
    BY <1>6, <1>7
  <2> HIDE DEF r, runs
  <2>2. QED
    BY <1>4, <1>6, <1>8, <1>9, <2>1, RoomIsNeeded
<1>11. placement' = [placement EXCEPT ![i] = r]
  <2>1. placement'[i] = r
    BY DEF placement
  <2>2. /\ placement = [j \in Auctioned |-> placement[j]]
        /\ placement' = [j \in Auctioned |-> placement'[j]]
    BY DEF placement
  <2>3. \A j \in Auctioned \ {i} : placement'[j] = placement[j]
    BY <1>1, OthersPlacement
  <2> HIDE DEF r
  <2>4. QED
    BY <2>1, <2>2, <2>3
<1>12. QED
  BY <1>3, <1>10, <1>11, SameRoom DEF Abstract!Place

LEMMA PlacementInit == Init => Abstract!PlacementInit
BY DEF Init, AuctioneerInit, placement, Abstract!PlacementInit

LEMMA PlacementStep ==
  ASSUME PlaceInv, PlaceInv', [Next]_vars
  PROVE  [Abstract!PlacementNext]_placement
<1>1. TypeInv /\ TypeInv'
  BY DEF PlaceInv, DirectInv, ViewInv
<1>2. ASSUME UNCHANGED <<pc, alg, winner>>
      PROVE  UNCHANGED placement
  BY <1>2 DEF placement
<1>3. ASSUME NEW i \in Auctioned, Advance(i)
      PROVE  [Abstract!PlacementNext]_placement
  <2>1. placement[i] = None
    BY <1>3, DecidedTakesNoStep DEF Advance, placement, Decided
  <2>2. ASSUME NEW p, placement'[i] = p
        PROVE  placement' = [placement EXCEPT ![i] = p]
    <3>1. /\ placement = [j \in Auctioned |-> placement[j]]
          /\ placement' = [j \in Auctioned |-> placement'[j]]
      BY DEF placement
    <3>2. \A j \in Auctioned \ {i} : placement'[j] = placement[j]
      BY <1>1, <1>3, OthersPlacement
    <3>3. QED
      BY <2>2, <3>1, <3>2
  <2>3. CASE pc'[i] = "won" /\ alg'[i] # "all_rescore"
    <3>1. winner'[i] \in Reps
      BY <1>1, <2>3 DEF TypeInv, WinnerKnown, AboutWinner
    <3>2. Abstract!Place(i, winner'[i])
      BY <1>3, <2>3, WinPlaces
    <3>3. QED
      BY <3>1, <3>2 DEF Abstract!PlacementNext
  <2>4. CASE \/ pc'[i] = "won" /\ alg'[i] = "all_rescore"
             \/ pc'[i] \in {"lost", "panicked"}
    <3>1. placement'[i] = Rejected
      BY <2>4 DEF placement
    <3>2. QED
      BY <2>1, <2>2, <3>1 DEF Abstract!PlacementNext, Abstract!Reject
  <2>5. CASE pc'[i] \notin Decided
    <3>1. placement'[i] = None
      BY <2>5 DEF placement, Decided
    <3>2. placement' = placement
      BY <2>1, <2>2, <3>1 DEF placement
    <3>3. QED
      BY <3>2
  <2>6. QED
    BY <2>3, <2>4, <2>5 DEF Decided
<1>4. ASSUME NEW i \in Auctioned, TimeOut(i)
      PROVE  [Abstract!PlacementNext]_placement
  BY <1>2, <1>4 DEF TimeOut
<1>5. ASSUME NEW m \in requests, Handle(m)
      PROVE  [Abstract!PlacementNext]_placement
  BY <1>1, <1>2, <1>5, HandleReplies DEF Reply
<1>6. QED
  BY <1>2, <1>3, <1>4, <1>5 DEF Next, Terminated, vars, auctionVars

(***************************************************************************)
(* Auctions over NATS, with whatever requests and replies are lost, late   *)
(* or reordered, look from outside as if instances were placed one after   *)
(* the other, each for good on a representative with room for it beside    *)
(* those placed before; what all_rescore returns is not counted.           *)
(***************************************************************************)
THEOREM AuctionsPlaceOverNats == Spec => ImplementsPlacement
<1>1. PlaceInv /\ PlaceInv' /\ [Next]_vars
        => [Abstract!PlacementNext]_placement
  BY PlacementStep
<1>2. QED
  BY <1>1, PlacementInit, PlaceInvariant, PTL
  DEF Spec, ImplementsPlacement, Abstract!PlacementSpec

-----------------------------------------------------------------------------

(***************************************************************************)
(* Why concurrent auctions do not starve each other.  As long as no answer *)
(* is missed, whoever holds something of another auction keeps something   *)
(* of it: the lowest bidder claims, and only the others are released.  So  *)
(* an auction beside which in the end nothing is held was alone all along: *)
(* every answer it got told whether the instance has room beside what ran  *)
(* before the auctions.                                                    *)
(***************************************************************************)
Quiet ==
  \A j \in Auctioned :
    missed[j] = {} /\ (alg[j] # "all_rescore" \/ pc[j] = "idle")

Uncontested(i) ==
  /\ Quiet
  /\ alg[i] # "random" \/ pc[i] = "idle"
  /\ \A j \in Auctioned \ {i} : Held(j) = {}

\* There is room for instance i beside what r ran before the auctions.
InitRoom(r, i) == HasRoomFor(r, Initial[r], i)

\* The answers to the current call tell who has room.
AnswersRoom(i) ==
  pc[i] \in {"score", "reserve"} =>
    \A x \in results[i] : x \in Accepted(i) <=> InitRoom(x.rep, i)

Asked(i) == waiting[i] \cup RepsOf(results[i])

\* Everyone is asked for a score, and if anyone has room, then someone with
\* room is told to reserve.
AsksRoom(i) ==
  /\ pc[i] = "score" => Reps \subseteq Asked(i)
  /\ pc[i] = "reserve" /\ (\E r \in Reps : InitRoom(r, i))
       => \E r \in Asked(i) : InitRoom(r, i)

\* So a round ends without a winner only if nobody has room.
RoundsRoom(i) ==
  /\ round[i] > 1 => \A r \in Reps : ~InitRoom(r, i)
  /\ pc[i] = "lost" => round[i] > MaxRounds

Contest(i) == AnswersRoom(i) /\ AsksRoom(i) /\ RoundsRoom(i)

ContestInv == \A i \in Auctioned : Uncontested(i) => Contest(i)

\* The representatives hold nothing new but what is auctioned.
OnlyAuctionedNew == \A r \in Reps : instances[r] \ Auctioned \subseteq Initial[r]

LEMMA OnlyAuctionedNewInvariant == Spec => []OnlyAuctionedNew
<1>1. Init => OnlyAuctionedNew
  BY DEF Init, OnlyAuctionedNew
<1>2. TypeInv /\ OnlyAuctionedNew /\ [Next]_vars => OnlyAuctionedNew'
  <2>1. ASSUME OnlyAuctionedNew, UNCHANGED instances
        PROVE  OnlyAuctionedNew'
    BY <2>1 DEF OnlyAuctionedNew
  <2>2. ASSUME TypeInv, OnlyAuctionedNew, NEW m \in requests, Handle(m)
        PROVE  OnlyAuctionedNew'
    <3>1. /\ m.inst \in Auctioned /\ m.rep \in Reps
          /\ instances \in [Reps -> SUBSET Instances]
      BY <2>2, RequestType DEF TypeInv, TypeOK
    <3>2. QED
      BY <2>2, <3>1, HandleReplies DEF OnlyAuctionedNew
  <2>3. QED
    BY <2>1, <2>2 DEF Next, Advance, TimeOut, Terminated, vars, natsVars
<1>3. QED
  BY <1>1, <1>2, TypeInit, TypeStep, PTL DEF Spec

\* Whoever holds something of an auction that misses no answer goes on to:
\* releases are sent only once the winner has claimed, and not to it.
LEMMA SomethingKept ==
  ASSUME DirectInv, [Next]_vars, NEW j \in Auctioned, Held(j) # {},
         alg[j] # "all_rescore" \/ pc[j] = "idle"
  PROVE  Held(j)' # {}
<1>1. TypeInv /\ Direct(j)
  BY DEF DirectInv, ViewInv
<1>2. ASSUME UNCHANGED instances
      PROVE  Held(j)' # {}
  BY <1>2 DEF Held
<1>3. ASSUME NEW m \in requests, Handle(m), m.inst # j
      PROVE  Held(j)' # {}
  <2>1. m.inst \in Auctioned /\ m \in RequestsOf(m.inst)
    BY <1>1, RequestType DEF RequestsOf
  <2>2. Account(j)' = Account(j)
    BY <1>1, <1>3, <2>1, OthersView
  <2>3. QED
    BY <2>2 DEF Account
<1>4. ASSUME NEW m \in requests, Handle(m), m.inst = j
      PROVE  Held(j)' # {}
  <2>1. m \in RequestsOf(j)
    BY <1>4 DEF RequestsOf
  <2>2. PICK answers : Effect(m, answers)
    BY <1>1, <1>4, <2>1, HandleAnswers
  <2>3. m.rep \in Reps /\ instances \in [Reps -> SUBSET Instances]
    BY <1>1, RequestType DEF TypeInv, TypeOK
  <2>4. CASE m.op \in Releases
    <3>1. /\ pc[j] \in {"claim", "release", "won"} /\ m.rep # winner[j]
          /\ winner[j] \in Held(j)
      BY <1>1, <2>1, <2>4 DEF Direct
    <3>2. winner[j] \in Held(j)'
      BY <2>2, <2>3, <3>1 DEF Effect, Held
    <3>3. QED
      BY <3>2
  <2>5. CASE m.op \notin Releases
    <3>1. Held(j) \subseteq Held(j)'
      BY <1>4, <2>2, <2>3, <2>5 DEF Effect, Held
    <3>2. QED
      BY <3>1
  <2>6. QED
    BY <2>4, <2>5
<1>5. QED
  BY <1>2, <1>3, <1>4
  DEF Next, Advance, TimeOut, Terminated, vars, natsVars

\* An algorithm is chosen when the auction starts, and misses are forever.
LEMMA Remembered ==
  ASSUME TypeInv, [Next]_vars, NEW j \in Auctioned
  PROVE  /\ missed[j] \subseteq missed'[j]
         /\ pc[j] = "idle" \/ (alg'[j] = alg[j] /\ pc'[j] # "idle")
<1>1. AuctioneerTypeOK
  BY DEF TypeInv, TypeOK
<1>2. ASSUME UNCHANGED <<pc, alg>>, missed[j] \subseteq missed'[j]
      PROVE  /\ missed[j] \subseteq missed'[j]
             /\ pc[j] = "idle" \/ (alg'[j] = alg[j] /\ pc'[j] # "idle")
  BY <1>2
<1>3. ASSUME NEW i \in Auctioned, Advance(i)
      PROVE  /\ missed[j] \subseteq missed'[j]
             /\ pc[j] = "idle" \/ (alg'[j] = alg[j] /\ pc'[j] # "idle")
  <2>1. missed' = missed
    BY <1>3 DEF Advance
  <2>2. CASE i = j
    <3>1. pc'[j] # "idle"
      BY <1>1, <1>3, <2>2, AsksOrLeaves DEF Advance, Calls
    <3>2. pc[j] = "idle" \/ alg' = alg
      BY <1>3, <2>2, AlgorithmKept DEF Advance, HoldAuction, RefuseAlgorithm
    <3>3. QED
      BY <2>1, <3>1, <3>2
  <2>3. CASE i # j
    BY <1>3, <2>1, <2>3, OthersView, TypeOfAuctioneer DEF Account, Memory
  <2>4. QED
    BY <2>2, <2>3
<1>4. ASSUME NEW i \in Auctioned, TimeOut(i)
      PROVE  missed[j] \subseteq missed'[j]
  BY <1>4 DEF TimeOut, TypeInv, TypeOK
<1>5. QED
  BY <1>2, <1>3, <1>4, HandleReplies
  DEF Next, TimeOut, Reply, Terminated, vars, auctionVars, natsVars

LEMMA AlwaysUncontested ==
  ASSUME DirectInv, [Next]_vars, NEW i \in Auctioned, Uncontested(i)'
  PROVE  Uncontested(i)
<1>1. TypeInv
  BY DEF DirectInv, ViewInv
<1>2. Quiet
  BY <1>1, Remembered DEF Uncontested, Quiet
<1>3. alg[i] # "random" \/ pc[i] = "idle"
  BY <1>1, Remembered DEF Uncontested
<1>4. \A j \in Auctioned \ {i} : Held(j) = {}
  BY <1>2, SomethingKept DEF Uncontested, Quiet
<1>5. QED
  BY <1>2, <1>3, <1>4 DEF Uncontested

\* Beside an uncontested auction nothing is reserved.
LEMMA NothingReserved ==
  ASSUME TypeInv, OldKept, OnlyAuctionedNew, NEW i \in Auctioned,
         Uncontested(i), NEW r \in Reps, i \notin instances[r]
  PROVE  instances[r] = Initial[r]
<1>1. \A j \in Auctioned : j \notin instances[r]
  BY DEF Uncontested, Held
<1>2. QED
  BY <1>1 DEF OldKept, OnlyAuctionedNew

\* An answer to a call for scores or reservations tells who has room.
LEMMA HandleTellsRoom ==
  ASSUME NEW m, Handle(m), m.op \in {"score", "reserve"}
  PROVE  IF HasRoomFor(m.rep, instances[m.rep], m.inst)
         THEN \E score : Reply(m, Bid(m, score))
         ELSE Reply(m, Refusal(m))
BY DEF Handle, OnScore, OnReserve, OnReserveFull, OnRelease, OnClaim

LEMMA HandleContest ==
  ASSUME DirectInv, OldKept, OnlyAuctionedNew, NEW i \in Auctioned,
         Uncontested(i), Contest(i), NEW m \in RequestsOf(i), Handle(m)
  PROVE  Contest(i)'
<1>1. /\ TypeInv /\ m \in requests /\ m.inst = i
      /\ Consistent(i) /\ OnlyAsked(i) /\ ViewRight(i) /\ missed[i] = {}
  BY DEF DirectInv, ViewInv, Viewed, Uncontested, Quiet, RequestsOf
<1>2. UNCHANGED <<pc, round>>
  <2>1. \E answers : Reply(m, answers)
    BY <1>1, HandleReplies
  <2>2. QED
    BY <1>1, <2>1 DEF Reply
<1>3. RoundsRoom(i)'
  BY <1>2 DEF Contest, RoundsRoom, InitRoom
<1>4. CASE pc[i] \notin {"score", "reserve"}
  BY <1>2, <1>3, <1>4 DEF Contest, AnswersRoom, AsksRoom
<1>5. CASE pc[i] \in {"score", "reserve"}
  <2>1. m.op = pc[i] /\ m.rep \in waiting[i] /\ m.rep \in Reps
    BY <1>1, RequestType DEF OnlyAsked, Subscribed
  <2>2. m.rep \notin Holders(i)
    BY <1>1, <1>5, <2>1 DEF Holders, Consistent, Accepted, RepsOf
  <2>3. m.rep \in Known(i)
    BY <1>1, <2>1 DEF Known, Pending
  <2>4. i \notin instances[m.rep]
    BY <1>1, <2>1, <2>2, <2>3 DEF ViewRight, Held
  <2>5. HasRoomFor(m.rep, instances[m.rep], i) <=> InitRoom(m.rep, i)
    BY <1>1, <2>1, <2>4, NothingReserved DEF InitRoom
  <2>6. PICK x : /\ Reply(m, {x})
                 /\ x.rep = m.rep
                 /\ x.ok <=> InitRoom(m.rep, i)
    <3>1. IF InitRoom(m.rep, i)
          THEN \E score : Reply(m, Bid(m, score))
          ELSE Reply(m, Refusal(m))
      BY <1>1, <1>5, <2>1, <2>5, HandleTellsRoom
    <3>2. CASE InitRoom(m.rep, i)
      <4>1. PICK score : Reply(m, Bid(m, score))
        BY <3>1, <3>2
      <4> DEFINE x == [rep |-> m.rep, score |-> score, ok |-> TRUE]
      <4>2. Reply(m, {x}) /\ x.rep = m.rep /\ x.ok
        BY <4>1 DEF Bid
      <4> HIDE DEF x
      <4>3. QED
        BY <3>2, <4>2
    <3>3. CASE ~InitRoom(m.rep, i)
      <4> DEFINE x == [rep |-> m.rep, score |-> 0, ok |-> FALSE]
      <4>1. Reply(m, {x}) /\ x.rep = m.rep /\ ~x.ok
        BY <3>1, <3>3 DEF Refusal
      <4> HIDE DEF x
      <4>2. QED
        BY <3>3, <4>1
    <3>4. QED
      BY <3>2, <3>3
  <2>7. CASE waiting'[i] = waiting[i] /\ results'[i] = results[i]
    BY <1>2, <1>3, <2>7
    DEF Contest, AnswersRoom, AsksRoom, Asked, InitRoom, Accepted, RepsOf
  <2>8. CASE Received(i, m.rep, {x})
    <3>1. results'[i] = results[i] \cup {x}
      BY <2>8 DEF Received
    <3>2. AnswersRoom(i)'
      BY <1>2, <2>6, <3>1 DEF Contest, AnswersRoom, Accepted, InitRoom
    <3>3. Asked(i)' = Asked(i)
      BY <2>1, <2>6, <2>8 DEF Received, Asked, RepsOf
    <3>4. QED
      BY <1>2, <1>3, <3>2, <3>3 DEF Contest, AsksRoom, InitRoom
  <2>9. QED
    BY <1>1, <2>6, <2>7, <2>8, ReplyLocal
<1>6. QED
  BY <1>4, <1>5

\* A new round, or none: nobody has room.
LEMMA NextRoundContest ==
  ASSUME TypeInv, NEW i \in Auctioned, NextRound(i), Contest(i),
         \A r \in Reps : ~InitRoom(r, i)
  PROVE  Contest(i)'
<1>1. pc'[i] = "round"
  BY LeaveLocal DEF NextRound, TypeInv, TypeOK
<1>2. QED
  BY <1>1 DEF Contest, AnswersRoom, AsksRoom, RoundsRoom, InitRoom

\* A call of the same round.
LEMMA AskContest ==
  ASSUME TypeInv, NEW i \in Auctioned, NEW op \in Calls, NEW reps,
         Ask(i, op, reps), UNCHANGED round, Contest(i),
         op = "score" => Reps \subseteq reps,
         op = "reserve" /\ (\E r \in Reps : InitRoom(r, i))
           => \E r \in reps : InitRoom(r, i)
  PROVE  Contest(i)'
<1>1. pc'[i] = op /\ waiting'[i] = reps /\ results'[i] = {}
  BY AskLocal DEF TypeInv, TypeOK
<1>2. Asked(i)' = reps
  BY <1>1 DEF Asked, RepsOf
<1>3. op # "lost"
  BY DEF Calls
<1>4. QED
  BY <1>1, <1>2, <1>3
  DEF Contest, AnswersRoom, AsksRoom, RoundsRoom, InitRoom

\* No call, and the same round.
LEMMA LeaveContest ==
  ASSUME TypeInv, NEW i \in Auctioned, NEW to \in {"round"} \cup Decided,
         Leave(i, to), UNCHANGED round, Contest(i),
         to = "lost" => round[i] > MaxRounds
  PROVE  Contest(i)'
<1>1. pc'[i] = to
  BY LeaveLocal DEF TypeInv, TypeOK
<1>2. QED
  BY <1>1
  DEF Contest, AnswersRoom, AsksRoom, RoundsRoom, InitRoom, Decided

\* Whoever accepted in an answer has room, and when everyone has answered and
\* nobody accepted, nobody has room.
LEMMA AcceptedRoom ==
  ASSUME TypeInv, NEW i \in Auctioned, Contest(i), waiting[i] = {},
         pc[i] \in {"score", "reserve"}
  PROVE  /\ \A x \in Accepted(i) : x.rep \in Reps /\ InitRoom(x.rep, i)
         /\ Accepted(i) = {} => \A r \in Reps : ~InitRoom(r, i)
<1>1. \A x \in Accepted(i) : x \in results[i] /\ x.rep \in Reps
  BY ResultsType DEF TypeInv, TypeOK
<1>2. \A x \in Accepted(i) : InitRoom(x.rep, i)
  BY <1>1 DEF Contest, AnswersRoom
<1>3. ASSUME Accepted(i) = {}, NEW r \in Reps, InitRoom(r, i)
      PROVE  FALSE
  <2>1. PICK s \in Asked(i) : InitRoom(s, i)
    BY <1>3 DEF Contest, AsksRoom
  <2>2. PICK x \in results[i] : x.rep = s
    BY <2>1 DEF Asked, RepsOf
  <2>3. x \in Accepted(i)
    BY <2>1, <2>2 DEF Contest, AnswersRoom
  <2>4. QED
    BY <1>3, <2>3
<1>4. QED
  BY <1>1, <1>2, <1>3

LEMMA AdvanceContest ==
  ASSUME DirectInv, NEW i \in Auctioned, Uncontested(i), Uncontested(i)',
         Contest(i), MaxBiddingPool >= 100, Advance(i)
  PROVE  Contest(i)'
<1>1. /\ TypeInv /\ Consistent(i) /\ AuctioneerTypeOK /\ waiting[i] = {}
      /\ HoldAuction(i) \/ RefuseAlgorithm(i) \/ Proceed(i) \/ Continue(i)
  BY DEF DirectInv, ViewInv, Viewed, TypeInv, TypeOK, Advance
<1>2. pc[i] \notin {"rescore", "giveback"}
  BY DEF DirectInv, Direct, Uncontested, Quiet
<1>3. pc[i] \in {"score", "reserve"} =>
        /\ \A x \in Accepted(i) : x.rep \in Reps /\ InitRoom(x.rep, i)
        /\ Accepted(i) = {} => \A r \in Reps : ~InitRoom(r, i)
  BY <1>1, AcceptedRoom
<1>4. CASE HoldAuction(i) \/ RefuseAlgorithm(i) \/ TooFewBids(i) \/ NoReply(i)
  BY <1>1, <1>4, LeaveContest
  DEF HoldAuction, RefuseAlgorithm, TooFewBids, NoReply, Decided
<1>5. CASE StartRound(i)
  <2>1. PICK op \in {"score", "reserve"} : Ask(i, op, Reps)
    BY <1>5 DEF StartRound, BiddingPools
  <2>2. op \in Calls /\ UNCHANGED round
    BY <1>5 DEF StartRound, Calls
  <2>3. QED
    BY <1>1, <2>1, <2>2, AskContest
<1>6. CASE PickAtRandom(i)
  BY <1>6 DEF PickAtRandom, Uncontested
<1>7. CASE GiveUp(i)
  <2>1. round[i] > MaxRounds
    BY <1>1, <1>7, AuctioneerAssumption
    DEF GiveUp, MoreRounds, AuctioneerTypeOK
  <2>2. QED
    BY <1>1, <1>7, <2>1, LeaveContest DEF GiveUp, Decided
<1>8. CASE NoBids(i) \/ ReserveFailed(i)
  BY <1>1, <1>3, <1>8, NextRoundContest DEF NoBids, ReserveFailed
<1>9. CASE PickLowest(i) \/ PickAmongBest(i)
  <2>1. PICK x \in Accepted(i) : Ask(i, "reserve", {x.rep})
    BY <1>9 DEF PickLowest, PickAmongBest, Lowest, ShortLists
  <2>2. pc[i] = "score" /\ UNCHANGED round /\ "reserve" \in Calls
    BY <1>9 DEF PickLowest, PickAmongBest, Calls
  <2>3. QED
    BY <1>1, <1>3, <2>1, <2>2, AskContest
<1>10. CASE ReserveShortList(i)
  <2>1. PICK top \in ShortLists(Accepted(i)) : Ask(i, "reserve", RepsOf(top))
    BY <1>10 DEF ReserveShortList
  <2>2. /\ pc[i] = "score" /\ Accepted(i) # {} /\ UNCHANGED round
        /\ "reserve" \in Calls
    BY <1>10 DEF ReserveShortList, Calls
  <2>3. RepsOf(top) # {}
    BY <1>1, <2>2, AcceptedFinite, SomebodyListed
  <2>4. \E r \in RepsOf(top) : InitRoom(r, i)
    BY <1>3, <2>2, <2>3 DEF RepsOf, ShortLists
  <2>5. QED
    BY <1>1, <2>1, <2>2, <2>4, AskContest
<1>11. CASE ClaimPicked(i) \/ ClaimLowest(i) \/ ReleaseLosers(i)
  <2>1. PICK op \in {"claim", "release"} : \E reps : Ask(i, op, reps)
    BY <1>11 DEF ClaimPicked, ClaimLowest, ReleaseLosers
  <2>2. UNCHANGED round /\ op \in Calls
    BY <1>11 DEF ClaimPicked, ClaimLowest, ReleaseLosers, Calls
  <2>3. QED
    BY <1>1, <2>1, <2>2, AskContest
<1>12. CASE Win(i)
  BY <1>1, <1>12, LeaveContest DEF Win, Decided
<1>13. CASE Rescore(i)
  BY <1>13 DEF Rescore, Uncontested, Quiet
<1>14. ~(\/ WinnerFull(i) \/ GiveBack(i) \/ ClaimRescored(i)
         \/ RetryAfterGiveBack(i))
  BY <1>2 DEF WinnerFull, GiveBack, ClaimRescored, RetryAfterGiveBack
<1>15. QED
  BY <1>1, <1>4, <1>5, <1>6, <1>7, <1>8, <1>9, <1>10, <1>11, <1>12, <1>13,
     <1>14 DEF Proceed, Continue

LEMMA SameContest ==
  ASSUME NEW i \in Auctioned, Contest(i), Account(i)' = Account(i)
  PROVE  Contest(i)'
<1>1. Memory(i)' = Memory(i)
  BY DEF Account
<1>2. QED
  BY <1>1 DEF Memory, Contest, AnswersRoom, AsksRoom, RoundsRoom, Asked,
              InitRoom, Accepted, RepsOf

HasRoomInv == DirectInv /\ OldKept /\ OnlyAuctionedNew

LEMMA ContestInit == Init => ContestInv
BY DEF Init, AuctioneerInit, ContestInv, Contest, AnswersRoom, AsksRoom,
       RoundsRoom

LEMMA ContestStep ==
  MaxBiddingPool >= 100 /\ HasRoomInv /\ ContestInv /\ [Next]_vars
    => ContestInv'
<1> SUFFICES ASSUME MaxBiddingPool >= 100, HasRoomInv, ContestInv, [Next]_vars,
                    NEW i \in Auctioned, Uncontested(i)'
             PROVE  Contest(i)'
  BY DEF ContestInv
<1>1. /\ DirectInv /\ OldKept /\ OnlyAuctionedNew /\ TypeInv
      /\ Uncontested(i) /\ Contest(i)
  BY AlwaysUncontested DEF HasRoomInv, ContestInv, DirectInv, ViewInv
<1>2. CASE UNCHANGED vars
  <2>1. Account(i)' = Account(i)
    BY <1>2 DEF vars, auctionVars, natsVars, Account, Memory, Held, RequestsOf
  <2>2. QED
    BY <1>1, <2>1, SameContest
<1>3. ASSUME NEW j \in Auctioned, Advance(j) \/ TimeOut(j)
      PROVE  Contest(i)'
  <2>1. CASE j # i
    BY <1>1, <1>3, <2>1, OthersView, SameContest
  <2>2. CASE Advance(i)
    BY <1>1, <2>2, AdvanceContest
  <2>3. ~TimeOut(i)
    BY <1>1 DEF TimeOut, Uncontested, Quiet, TypeInv, TypeOK
  <2>4. QED
    BY <1>3, <2>1, <2>2, <2>3
<1>4. ASSUME NEW m \in requests, Handle(m)
      PROVE  Contest(i)'
  <2>1. m.inst \in Auctioned /\ m \in RequestsOf(m.inst)
    BY <1>1, RequestType DEF RequestsOf
  <2>2. QED
    BY <1>1, <1>4, <2>1, HandleContest, OthersView, SameContest
<1>5. QED
  BY <1>2, <1>3, <1>4 DEF Next, Terminated

(***************************************************************************)
(* No auction is lost to reservations of others that all are given back:   *)
(* if an auction that missed no answer is lost though its instance would   *)
(* fit somewhere beside what ran before, another one takes the room, or    *)
(* has missed an answer and may have left a reservation behind.            *)
(***************************************************************************)
THEOREM OnlyLostToAnother == Spec => []LostToAnother
<1>1. ASSUME HasRoomInv, PlacedOnceUnlessMissed, ContestInv,
             MaxRounds > 0, \A i \in Auctioned : alg[i] # "all_rescore",
             NEW i \in Auctioned, pc[i] = "lost", alg[i] # "random",
             missed[i] = {}, NEW r \in Reps, Fits(r, Initial[r] \cup {i}),
             \A j \in Auctioned \ {i} :
               missed[j] = {} /\ (Held(j) = {} \/ pc[j] \in {"lost", "panicked"})
      PROVE  FALSE
  <2>1. Uncontested(i)
    BY <1>1 DEF Uncontested, Quiet, PlacedOnceUnlessMissed, Decided
  <2>2. round[i] > MaxRounds /\ round[i] \in Int
    BY <1>1, <2>1, AuctioneerAssumption
    DEF ContestInv, Contest, RoundsRoom, HasRoomInv, DirectInv, ViewInv,
        TypeInv, TypeOK, AuctioneerTypeOK
  <2>3. ~InitRoom(r, i)
    BY <1>1, <2>1, <2>2, AuctioneerAssumption
    DEF ContestInv, Contest, RoundsRoom
  <2>4. i \in Instances /\ i \notin Initial[r]
        /\ Initial[r] \in SUBSET Instances
    BY AuctioneerAssumption, NatsAssumption
  <2>5. HasRoomFor(r, Initial[r], i)
    BY <1>1, <2>4, RoomIsNeeded
  <2>6. QED
    BY <2>3, <2>5 DEF InitRoom
<1>2. HasRoomInv /\ PlacedOnceUnlessMissed
        /\ (MaxBiddingPool >= 100 => ContestInv) => LostToAnother
  BY <1>1 DEF LostToAnother
<1>3. Spec => [](MaxBiddingPool >= 100 => ContestInv)
  <2>1. Init => (MaxBiddingPool >= 100 => ContestInv)
    BY ContestInit
  <2>2. /\ HasRoomInv
        /\ MaxBiddingPool >= 100 => ContestInv
        /\ [Next]_vars
        => (MaxBiddingPool >= 100 => ContestInv')
    BY ContestStep
  <2>3. (MaxBiddingPool >= 100 => ContestInv)'
          <=> (MaxBiddingPool >= 100 => ContestInv')
    OBVIOUS
  <2>4. QED
    BY <2>1, <2>2, <2>3, DirectInit, DirectStep, OldKeptInvariant,
       OnlyAuctionedNewInvariant, PTL DEF Spec, HasRoomInv
<1>4. QED
  BY <1>2, <1>3, DirectInit, DirectStep, OldKeptInvariant,
     OnlyAuctionedNewInvariant, AlwaysPlacedOnceUnlessMissed, PTL
  DEF Spec, HasRoomInv

-----------------------------------------------------------------------------

(***************************************************************************)
(* Why auctions end.  With every step counted, as rounds, representatives  *)
(* and auctions are bounded, only finitely many steps can be taken.        *)
(***************************************************************************)
LEMMA StepCounts ==
  ASSUME TypeInv, [Next]_vars, vars' # vars
  PROVE  /\ \A j \in Auctioned : Onward(j) \/ StandsStill(j)
         /\ \/ \E j \in Auctioned : Onward(j)
            \/ requests' \subseteq requests /\ requests' # requests
<1>1. AuctioneerTypeOK
  BY DEF TypeInv, TypeOK
<1>2. ASSUME NEW i \in Auctioned, Advance(i) \/ TimeOut(i),
             NEW j \in Auctioned \ {i}
      PROVE  StandsStill(j)
  BY <1>2, OthersView DEF Account, Memory, StandsStill
<1>3. ASSUME NEW i \in Auctioned, Advance(i)
      PROVE  Onward(i)
  BY <1>1, <1>3, StepsLeadOn DEF Advance, Onward
<1>4. ASSUME NEW i \in Auctioned, TimeOut(i)
      PROVE  Onward(i)
  BY <1>1, <1>4 DEF TimeOut, Onward, AuctioneerTypeOK
<1>5. ASSUME NEW m \in requests, Handle(m)
      PROVE  /\ \A j \in Auctioned : Onward(j) \/ StandsStill(j)
             /\ requests' \subseteq requests /\ requests' # requests
  <2>1. PICK answers : Reply(m, answers)
    BY <1>5, HandleReplies
  <2>2. requests' \subseteq requests /\ requests' # requests
    BY <2>1 DEF Reply
  <2>3. ASSUME NEW j \in Auctioned
        PROVE  Onward(j) \/ StandsStill(j)
    BY <1>1, <2>1
    DEF Reply, Subscribed, Onward, StandsStill, AuctioneerTypeOK
  <2>4. QED
    BY <2>2, <2>3
<1>6. QED
  BY <1>2, <1>3, <1>4, <1>5 DEF Next, Terminated

(***************************************************************************)
(* Every step takes an auction onward or leaves a request less under way.  *)
(***************************************************************************)
THEOREM NothingIsDoneInVain == Spec => EveryStepCounts
<1>1. TypeInv /\ [Next]_vars =>
        [/\ \A i \in Auctioned : Onward(i) \/ StandsStill(i)
         /\ \/ \E i \in Auctioned : Onward(i)
            \/ requests' \subseteq requests /\ requests' # requests]_vars
  BY StepCounts
<1>2. QED
  BY <1>1, TypeInit, TypeStep, PTL DEF Spec, EveryStepCounts

(***************************************************************************)
(* Requests outlive their calls, but are never of a call yet to be made.   *)
(***************************************************************************)
NotAhead(m) ==
  \/ m.round < round[m.inst]
  \/ /\ m.round = round[m.inst]
     /\ m.op = pc[m.inst] \/ Stage(m.op) < Stage(pc[m.inst])

NoneAhead == \A m \in requests : NotAhead(m)

LEMMA StageType ==
  \A label \in {"idle", "round"} \cup Calls \cup Decided : Stage(label) \in Nat
BY DEF Stage, Calls, Decided

LEMMA AheadStep == TypeInv /\ NoneAhead /\ [Next]_vars => NoneAhead'
<1> SUFFICES ASSUME TypeInv, TypeInv', NoneAhead, [Next]_vars
             PROVE  NoneAhead'
  BY TypeStep
<1>1. AuctioneerTypeOK /\ AuctioneerTypeOK' /\ requests \subseteq Request
  BY DEF TypeInv, TypeOK
<1>2. ASSUME UNCHANGED <<pc, round>>, requests' \subseteq requests
      PROVE  NoneAhead'
  BY <1>2 DEF NoneAhead, NotAhead
<1>3. ASSUME NEW i \in Auctioned, Advance(i)
      PROVE  NoneAhead'
  <2>1. \/ round[i] < round'[i]
        \/ round'[i] = round[i] /\ Stage(pc[i]) < Stage(pc'[i])
    BY <1>1, <1>3, StepsLeadOn DEF Advance
  <2>2. \A j \in Auctioned \ {i} : round'[j] = round[j] /\ pc'[j] = pc[j]
    BY <1>3, OthersView DEF Account, Memory
  <2>3. requests' = requests \cup
          {[inst |-> i, round |-> round'[i], op |-> pc'[i], rep |-> r] :
             r \in waiting'[i]}
    BY <1>3 DEF Advance
  <2>4. ASSUME NEW m \in requests
        PROVE  NotAhead(m)'
    <3>1. /\ m.inst \in Auctioned /\ m.round \in Int
          /\ m.op \in Calls
      BY <1>1, AuctioneerAssumption DEF Request
    <3>2. NotAhead(m)
      BY DEF NoneAhead
    <3>3. CASE m.inst # i
      BY <2>2, <3>1, <3>2, <3>3 DEF NotAhead
    <3>4. CASE m.inst = i
      <4>1. /\ round[i] \in Int /\ round'[i] \in Int
            /\ Stage(pc[i]) \in Nat /\ Stage(pc'[i]) \in Nat
            /\ Stage(m.op) \in Nat
        <5>1. /\ pc[i] \in {"idle", "round"} \cup Calls \cup Decided
              /\ pc'[i] \in {"idle", "round"} \cup Calls \cup Decided
              /\ round[i] \in 1 .. MaxRounds + 1
              /\ round'[i] \in 1 .. MaxRounds + 1
          BY <1>1 DEF AuctioneerTypeOK
        <5>2. Stage(pc[i]) \in Nat /\ Stage(pc'[i]) \in Nat
          BY <5>1, StageType
        <5>3. Stage(m.op) \in Nat
          BY <3>1, StageType
        <5>4. QED
          BY <5>1, <5>2, <5>3, AuctioneerAssumption
      <4>2. m.op = pc[i] => Stage(m.op) = Stage(pc[i])
        OBVIOUS
      <4>3. QED
        BY <2>1, <3>1, <3>2, <3>4, <4>1, <4>2 DEF NotAhead
    <3>5. QED
      BY <3>3, <3>4
  <2>5. ASSUME NEW m \in requests' \ requests
        PROVE  NotAhead(m)'
    <3>1. m.inst = i /\ m.round = round'[i] /\ m.op = pc'[i]
      BY <2>3
    <3>2. QED
      BY <3>1 DEF NotAhead
  <2>6. QED
    BY <2>4, <2>5 DEF NoneAhead
<1>4. ASSUME NEW i \in Auctioned, TimeOut(i)
      PROVE  NoneAhead'
  BY <1>2, <1>4 DEF TimeOut
<1>5. ASSUME NEW m \in requests, Handle(m)
      PROVE  NoneAhead'
  BY <1>2, <1>5, HandleReplies DEF Reply
<1>6. QED
  BY <1>2, <1>3, <1>4, <1>5 DEF Next, Terminated, vars, auctionVars, natsVars

\* A call is named by the pc and the round it sets.
FreshSubjects ==
  [][\A i \in Auctioned, m \in requests :
       (m.inst = i /\ pc'[i] # pc[i])
         => ~(m.op = pc'[i] /\ m.round = round'[i])]_vars

(***************************************************************************)
(* When a call is made, no request under way has its reply subject, which  *)
(* the model names by the call: a late reply never answers a later call,   *)
(* as with the random subjects of the code.                                *)
(***************************************************************************)
THEOREM SubjectsAreFresh == Spec => FreshSubjects
<1>1. ASSUME TypeInv, NoneAhead, [Next]_vars,
             NEW i \in Auctioned, NEW m \in requests, m.inst = i, pc'[i] # pc[i]
      PROVE  ~(m.op = pc'[i] /\ m.round = round'[i])
  <2>1. AuctioneerTypeOK /\ AuctioneerTypeOK' /\ requests \subseteq Request
    BY <1>1, TypeStep DEF TypeInv, TypeOK
  <2>2. Onward(i)
    BY <1>1, StepCounts DEF StandsStill, vars, auctionVars
  <2>3. /\ round[i] \in Int /\ round'[i] \in Int /\ m.round \in Int
        /\ Stage(pc[i]) \in Nat /\ Stage(pc'[i]) \in Nat
        /\ Stage(m.op) \in Nat
    <3>1. /\ pc[i] \in {"idle", "round"} \cup Calls \cup Decided
          /\ pc'[i] \in {"idle", "round"} \cup Calls \cup Decided
          /\ m.op \in Calls /\ m.round \in 1 .. MaxRounds
          /\ round[i] \in 1 .. MaxRounds + 1
          /\ round'[i] \in 1 .. MaxRounds + 1
      BY <2>1 DEF AuctioneerTypeOK, Request
    <3>2. Stage(pc[i]) \in Nat /\ Stage(pc'[i]) \in Nat
      BY <3>1, StageType
    <3>3. Stage(m.op) \in Nat
      BY <3>1, StageType
    <3>4. QED
      BY <3>1, <3>2, <3>3, AuctioneerAssumption
  <2>4. NotAhead(m)
    BY <1>1 DEF NoneAhead
  <2>5. m.op = pc[i] => Stage(m.op) = Stage(pc[i])
    OBVIOUS
  <2>6. m.op = pc'[i] => Stage(m.op) = Stage(pc'[i])
    OBVIOUS
  <2>7. QED
    BY <1>1, <2>2, <2>3, <2>4, <2>5, <2>6 DEF NotAhead, Onward
<1>2. TypeInv /\ NoneAhead /\ [Next]_vars =>
        [\A i \in Auctioned, m \in requests :
           (m.inst = i /\ pc'[i] # pc[i])
             => ~(m.op = pc'[i] /\ m.round = round'[i])]_vars
  BY <1>1
<1>3. Init => NoneAhead
  BY DEF Init, NoneAhead
<1>4. QED
  BY <1>2, <1>3, AheadStep, TypeInit, TypeStep, PTL DEF Spec, FreshSubjects
=============================================================================
