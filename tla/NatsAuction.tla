---------------------------- MODULE NatsAuction -----------------------------
(***************************************************************************)
(* Auctions over NATS: auctioneer nodes call the representatives through   *)
(* the RepNatsClient, each call publishing one request per representative  *)
(* with a reply subject of its own.                                        *)
(*                                                                         *)
(* NATS delivers a request at most once.  yagnats runs every callback in a *)
(* goroutine of its own, so requests are handled in any order.  A call     *)
(* returns when everyone has answered or when the timeout expires, with    *)
(* the answers received so far.  A request may be handled after its caller *)
(* has given up and moved on: the reply then finds no subscription.        *)
(*                                                                         *)
(* A reply either takes effect as it is sent or never does.  The delay in  *)
(* between changes nothing: the caller does not look at a reply before its *)
(* call returns, and the representative does not remember it.              *)
(***************************************************************************)
EXTENDS Auctioneer

CONSTANTS
  Initial, \* Initial[r]: the instances r runs before the auctions
  Rejected \* the outcome of an auction without a winner

ASSUME NatsAssumption ==
  /\ Initial \in [Reps -> SUBSET (Instances \ Auctioned)]
  /\ \A r \in Reps : Fits(r, Initial[r])
  /\ Rejected \notin Reps \cup {None}

VARIABLES
  instances, \* instances[r]: what the delegate of r holds
  requests,  \* requests published and not handled
  missed     \* missed[i]: representatives whose answer a call of auction i
             \* timed out waiting for ("TIMING OUT!!"); history, never read

natsVars == <<instances, requests, missed>>
vars == <<auctionVars, natsVars>>

\* A request.  Its instance, round and operation stand for the random reply
\* subject, as an auction makes each call at most once a round.
Request ==
  [inst : Auctioned, round : 1 .. MaxRounds, op : Calls, rep : Reps]

TypeOK ==
  /\ AuctioneerTypeOK
  /\ instances \in [Reps -> SUBSET Instances]
  /\ requests \subseteq Request
  /\ missed \in [Auctioned -> SUBSET Reps]

Init ==
  /\ AuctioneerInit
  /\ instances = Initial
  /\ requests = {}
  /\ missed = [i \in Auctioned |-> {}]

-----------------------------------------------------------------------------

\* The auctioneer goes on once its call has returned, and PublishWithReplyTo
\* puts out the requests of the call it makes next, if any.
Advance(i) ==
  /\ waiting[i] = {}
  /\ HoldAuction(i) \/ RefuseAlgorithm(i) \/ Proceed(i) \/ Continue(i)
  /\ requests' = requests \cup
       {[inst |-> i, round |-> round'[i], op |-> pc'[i], rep |-> r] :
          r \in waiting'[i]}
  /\ UNCHANGED <<instances, missed>>

\* case <-time.After(rep.timeout)
TimeOut(i) ==
  /\ waiting[i] # {}
  /\ missed' = [missed EXCEPT ![i] = @ \cup waiting[i]]
  /\ waiting' = [waiting EXCEPT ![i] = {}]
  /\ UNCHANGED <<pc, alg, round, pool, winner, losers, recast, results>>
  /\ UNCHANGED <<instances, requests>>

-----------------------------------------------------------------------------

\* The caller is still subscribed to the reply subject of m.
Subscribed(m) ==
  /\ pc[m.inst] = m.op
  /\ round[m.inst] = m.round
  /\ m.rep \in waiting[m.inst]

\* The representative has handled m and publishes its reply, which carries
\* the given results.  The reply is received, or it is lost or late.
Reply(m, answers) ==
  /\ requests' = requests \ {m}
  /\ \/ /\ Subscribed(m)
        /\ waiting' = [waiting EXCEPT ![m.inst] = @ \ {m.rep}]
        /\ results' = [results EXCEPT ![m.inst] = @ \cup answers]
     \/ UNCHANGED <<waiting, results>>
  /\ UNCHANGED <<pc, alg, round, pool, winner, losers, recast, missed>>

Bid(m, score) == {[rep |-> m.rep, score |-> score, ok |-> TRUE]}
Refusal(m) == {[rep |-> m.rep, score |-> 0, ok |-> FALSE]}

\* guid.score
OnScore(m) ==
  /\ m.op \in {"score", "rescore"}
  /\ IF HasRoomFor(m.rep, instances[m.rep], m.inst)
     THEN Reply(m, Bid(m, Score(m.rep, instances[m.rep], m.inst)))
     ELSE Reply(m, Refusal(m))
  /\ UNCHANGED instances

\* guid.score_then_tentatively_reserve, with room
OnReserve(m) ==
  /\ m.op = "reserve"
  /\ HasRoomFor(m.rep, instances[m.rep], m.inst)
  /\ instances' = [instances EXCEPT ![m.rep] = @ \cup {m.inst}]
  /\ Reply(m, Bid(m, Score(m.rep, instances[m.rep], m.inst)))

\* guid.score_then_tentatively_reserve, without room
OnReserveFull(m) ==
  /\ m.op = "reserve"
  /\ ~HasRoomFor(m.rep, instances[m.rep], m.inst)
  /\ Reply(m, Refusal(m))
  /\ UNCHANGED instances

\* guid.release-reservation
OnRelease(m) ==
  /\ m.op \in {"release", "giveback"}
  /\ instances' = [instances EXCEPT ![m.rep] = @ \ {m.inst}]
  /\ Reply(m, {})

\* guid.claim
OnClaim(m) ==
  /\ m.op = "claim"
  /\ Reply(m, {})
  /\ UNCHANGED instances

Handle(m) ==
  \/ OnScore(m)
  \/ OnReserve(m)
  \/ OnReserveFull(m)
  \/ OnRelease(m)
  \/ OnClaim(m)

-----------------------------------------------------------------------------

AuctionsOver == \A i \in Auctioned : pc[i] \in Decided

Terminated == AuctionsOver /\ UNCHANGED vars

Next ==
  \/ \E i \in Auctioned : Advance(i) \/ TimeOut(i)
  \/ \E m \in requests : Handle(m)
  \/ Terminated

\* The auctioneer's goroutines and their timers run; no delivery is promised.
Fairness == \A i \in Auctioned : WF_vars(Advance(i)) /\ WF_vars(TimeOut(i))

Spec == Init /\ [][Next]_vars
FairSpec == Spec /\ Fairness

-----------------------------------------------------------------------------

Held(i) == {r \in Reps : i \in instances[r]}

(***************************************************************************)
(* Safety: no representative holds more than it has room for, whatever     *)
(* messages are lost, late or reordered, and however often it is told to   *)
(* reserve an instance it already holds.                                   *)
(***************************************************************************)
NoOvercommit == \A r \in Reps : Fits(r, instances[r])

(***************************************************************************)
(* Safety: the auctioneer's view of where its instance is held is wrong    *)
(* only about representatives whose answer it is waiting for or has timed  *)
(* out on.  In particular an auction that never timed out leaves its       *)
(* instance on the winner and nowhere else.                                *)
(***************************************************************************)
ViewWrongOnlyWhereMissed ==
  \A i \in Auctioned :
    (Held(i) \ Holders(i)) \cup (Holders(i) \ Held(i))
      \subseteq missed[i] \cup waiting[i]

(***************************************************************************)
(* Safety: in every algorithm but all_rescore, no late message can take    *)
(* the instance away from the winner once it is told to claim: the only    *)
(* releases ever sent are to the others, after the claim.                  *)
(***************************************************************************)
WinnerKeepsInstance ==
  \A i \in Auctioned :
    (pc[i] \in {"claim", "release", "won"} /\ alg[i] # "all_rescore")
      => winner[i] \in Held(i)

(***************************************************************************)
(* Safety: concurrent auctions do not starve each other.  The tentative    *)
(* reservations of others may cost an auction that missed no answer the    *)
(* representatives it would fit on, but then one of the others goes on to  *)
(* win, or has missed an answer: none is lost to reservations that are     *)
(* given back for nothing.  (In all_rescore an outbid winner gives its     *)
(* reservation back; random may draw full representatives.)                *)
(***************************************************************************)
LostToAnother ==
  (/\ MaxRounds > 0 /\ MaxBiddingPool >= 100
   /\ \A i \in Auctioned : alg[i] # "all_rescore")
    => \A i \in Auctioned :
         (/\ pc[i] = "lost" /\ alg[i] # "random" /\ missed[i] = {}
          /\ \E r \in Reps : Fits(r, Initial[r] \cup {i}))
           => \E j \in Auctioned \ {i} :
                \/ missed[j] # {}
                \/ Held(j) # {} /\ pc[j] \notin {"lost", "panicked"}

(***************************************************************************)
(* Refinement: seen from outside, the auctions place instances one after   *)
(* the other, for good, each on a representative with room for it beside   *)
(* those placed before, whatever messages are lost, late or reordered.  A  *)
(* winner that all_rescore returns is no placement: see WonIsDone.         *)
(***************************************************************************)
placement ==
  [i \in Auctioned |->
     CASE pc[i] = "won" /\ alg[i] # "all_rescore" -> winner[i]
       [] pc[i] = "won" /\ alg[i] = "all_rescore" -> Rejected
       [] pc[i] \in {"lost", "panicked"} -> Rejected
       [] OTHER -> None]

Abstract == INSTANCE Placement WITH Undecided <- None
ImplementsPlacement == Abstract!PlacementSpec

(***************************************************************************)
(* Safety: nothing is done in vain.  A step of one auction takes none      *)
(* back, and takes one onward or leaves a request less under way: late     *)
(* and lost messages cannot keep an auction from its end.                  *)
(***************************************************************************)
EveryStepCounts ==
  [][/\ \A i \in Auctioned : Onward(i) \/ StandsStill(i)
     /\ \/ \E i \in Auctioned : Onward(i)
        \/ requests' \subseteq requests /\ requests' # requests]_vars

(***************************************************************************)
(* Liveness: with nothing delivered at all every auction still ends, as    *)
(* every call times out and the rounds are bounded.                        *)
(***************************************************************************)
Termination == <>AuctionsOver

-----------------------------------------------------------------------------

(***************************************************************************)
(* What the comments on the algorithms say, and what lost and late         *)
(* messages make of it.  Each of these is refuted by a run.                *)
(***************************************************************************)

\* reserve_n_best.go, all_reserve.go: "Pick the best from that set and
\* release the others".  Once the auction is won and every request has been
\* handled, nobody but the winner holds the instance.
OthersReleased ==
  \A i \in Auctioned :
    (pc[i] = "won" /\ requests = {}) => Held(i) \subseteq {winner[i]}

\* all_rescore.go: "If the winner still has the lowest score we are done".
\* The representative that won holds the instance.
WonIsDone ==
  \A i \in Auctioned : pc[i] = "won" => winner[i] \in Held(i)

\* random.go: "Tell it to reserve.  If the reservation succeeds -- we have a
\* winner".  If it does not, the auction is tried again or given up.
UnansweredIsRefused ==
  \A i \in Auctioned :
    alg[i] \in KnownAlgorithms => pc[i] # "panicked"
=============================================================================
