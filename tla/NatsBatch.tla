----------------------------- MODULE NatsBatch ------------------------------
(***************************************************************************)
(* RepNatsClient.batch, the call behind Score and                          *)
(* ScoreThenTentativelyReserve, goroutine by goroutine, on top of the NATS *)
(* client.  Each caller makes one call: it subscribes to a reply subject,  *)
(* publishes a request to each representative and waits for its wait group *)
(* or for the timeout.  It then takes what its channel holds and           *)
(* unsubscribes.  (ReleaseReservation is the same without the channel.)    *)
(*                                                                         *)
(* yagnats runs the callback of each reply in a goroutine of its own.      *)
(* Representatives are external: one answers a request it receives at most *)
(* once, at any time.                                                      *)
(***************************************************************************)
EXTENDS NatsConnection

CONSTANTS
  Reps, \* representatives
  Guids \* Guids[k]: those k asks

ASSUME BatchAssumption ==
  /\ IsFiniteSet(Reps)
  /\ Guids \in [Callers -> SUBSET Reps]

VARIABLES
  phase,     \* phase[k]: where k is in batch
  toAsk,     \* toAsk[k]: guids k has yet to publish to
  requests,  \* <<k, r>>: a request r has received and not answered
  callbacks, \* [call, rep, step]: callbacks that are running
  pending,   \* pending[k]: the counter of the wait group allReceived
  responses, \* responses[k]: whose responses the channel holds
  results,   \* results[k]: whose responses batch returns
  timedOut   \* callers that went on by their timeout

batchVars ==
  <<phase, toAsk, requests, callbacks, pending, responses, results,
    timedOut>>
vars == <<connectionVars, batchVars>>

Phases == {"subscribe", "publish", "collect", "drain", "leave", "returned"}
Callback == [call : Callers, rep : Reps, step : {"send", "done"}]
Packets ==
  {OKPacket, ERRPacket} \cup {MsgPacket(k, r) : k \in Callers, r \in Reps}

TypeOK ==
  /\ ConnectionTypeOK
  /\ incoming \in [Connections -> Seq(Packets)]
  /\ phase \in [Callers -> Phases]
  /\ toAsk \in [Callers -> SUBSET Reps]
  /\ requests \subseteq Callers \X Reps
  /\ callbacks \subseteq Callback
  /\ pending \in [Callers -> 0 .. Cardinality(Reps)]
  /\ responses \in [Callers -> SUBSET Reps]
  /\ results \in [Callers -> SUBSET Reps]
  /\ timedOut \subseteq Callers

\* Mutant: whoever the wait group is told of last is left out.
ExpectedOneFewer(k) == IF Guids[k] = {} THEN 0 ELSE Cardinality(Guids[k]) - 1

\* allReceived.Add(len(guids))
Expected(k) == Cardinality(Guids[k])

Init ==
  /\ ConnectionInit
  /\ phase = [k \in Callers |-> "subscribe"]
  /\ toAsk = Guids
  /\ requests = {}
  /\ callbacks = {}
  /\ pending = [k \in Callers |-> Expected(k)]
  /\ responses = [k \in Callers |-> {}]
  /\ results = [k \in Callers |-> {}]
  /\ timedOut = {}

-----------------------------------------------------------------------------

\* The next operation k asks of the client.
Ask(k, kind) ==
  op' = [op EXCEPT ![k] = [kind |-> kind, step |-> "take", conn |-> 0]]

\* if err != nil { return types.ScoreResults{} }
SubscribeFails(k) ==
  /\ phase[k] = "subscribe"
  /\ \E n \in Connections : ErrFor(k, n)
  /\ phase' = [phase EXCEPT ![k] = "returned"]
  /\ op' = [op EXCEPT ![k].step = "idle"]
  /\ UNCHANGED <<toAsk, requests, callbacks, pending, responses,
                 results, timedOut>>

\* for _, guid := range guids: errors of PublishWithReplyTo are ignored.
PublishNext(k) ==
  /\ \E n \in Connections :
       \/ phase[k] \in {"subscribe", "publish"} /\ OKFor(k, n)
       \/ phase[k] = "publish" /\ ErrFor(k, n)
  /\ IF toAsk[k] = {}
     THEN /\ phase' = [phase EXCEPT ![k] = "collect"]
          /\ op' = [op EXCEPT ![k].step = "idle"]
     ELSE /\ phase' = [phase EXCEPT ![k] = "publish"]
          /\ Ask(k, "pub")
  /\ UNCHANGED <<toAsk, requests, callbacks, pending, responses,
                 results, timedOut>>

\* PublishWithReplyTo puts out the request, which r receives or not.
Publish(k) ==
  /\ SendPub(k)
  /\ \E r \in toAsk[k] :
       /\ toAsk' = [toAsk EXCEPT ![k] = @ \ {r}]
       /\ requests' = IF op[k].conn \in down THEN requests
                      ELSE requests \cup {<<k, r>>}
  /\ UNCHANGED <<phase, callbacks, pending, responses, results,
                 timedOut>>

\* case <-done, which the goroutine in allReceived.Wait() has closed.
AllReceived(k) ==
  /\ phase[k] = "collect" /\ pending[k] = 0
  /\ phase' = [phase EXCEPT ![k] = "drain"]
  /\ UNCHANGED <<connectionVars, toAsk, requests, callbacks, pending, responses,
                 results, timedOut>>

\* case <-time.After(rep.timeout)
TimeOut(k) ==
  /\ phase[k] = "collect"
  /\ phase' = [phase EXCEPT ![k] = "drain"]
  /\ timedOut' = timedOut \cup {k}
  /\ UNCHANGED <<connectionVars, toAsk, requests, callbacks, pending, responses, results>>

\* case res := <-responses, until there is none
TakeResponse(k) ==
  /\ phase[k] = "drain"
  /\ \E r \in responses[k] :
       /\ responses' = [responses EXCEPT ![k] = @ \ {r}]
       /\ results' = [results EXCEPT ![k] = @ \cup {r}]
  /\ UNCHANGED <<connectionVars, phase, toAsk, requests, callbacks, pending,
                 timedOut>>

\* default: return results, which runs the deferred Unsubscribe
Drained(k) ==
  /\ phase[k] = "drain" /\ responses[k] = {}
  /\ phase' = [phase EXCEPT ![k] = "leave"]
  /\ Ask(k, "unsub")
  /\ UNCHANGED <<serving, stage, reader, down, incoming, errs, subscriptions,
                 known, unsent, awaits>>
  /\ UNCHANGED <<toAsk, requests, callbacks, pending, responses,
                 results, timedOut>>

BatchReturns(k) ==
  /\ phase[k] = "leave"
  /\ \E n \in Connections : OKFor(k, n) \/ ErrFor(k, n)
  /\ phase' = [phase EXCEPT ![k] = "returned"]
  /\ op' = [op EXCEPT ![k].step = "idle"]
  /\ UNCHANGED <<toAsk, requests, callbacks, pending, responses,
                 results, timedOut>>

-----------------------------------------------------------------------------

\* dispatchMessage: a callback is started if the subscription is known.
Dispatch(n) ==
  /\ Receives(n, "MSG")
  /\ incoming' = [incoming EXCEPT ![n] = Tail(@)]
  /\ LET m == Head(incoming[n]) IN
       callbacks' =
         IF m.sub \in subscriptions
         THEN callbacks \cup
                {[call |-> m.sub, rep |-> m.body, step |-> "send"]}
         ELSE callbacks
  /\ UNCHANGED <<serving, stage, reader, down, errs, subscriptions, known,
                 unsent, awaits, op>>
  /\ UNCHANGED <<phase, toAsk, requests, pending, responses, results,
                 timedOut>>

\* Mutant: allReceived.Done() comes before responses <- result.
CallbackDoneFirst(c) ==
  /\ c \in callbacks
  /\ IF c.step = "send"
     THEN /\ callbacks' = (callbacks \ {c}) \cup {[c EXCEPT !.step = "done"]}
          /\ pending' = [pending EXCEPT ![c.call] = @ - 1]
          /\ UNCHANGED responses
     ELSE /\ callbacks' = callbacks \ {c}
          /\ responses' = [responses EXCEPT ![c.call] = @ \cup {c.rep}]
          /\ UNCHANGED pending
  /\ UNCHANGED <<connectionVars, phase, toAsk, requests, results, timedOut>>

\* The callback: responses <- result, then the deferred allReceived.Done().
RunCallback(c) ==
  /\ c \in callbacks
  /\ IF c.step = "send"
     THEN /\ Cardinality(responses[c.call]) < Cardinality(Guids[c.call])
          /\ callbacks' = (callbacks \ {c}) \cup {[c EXCEPT !.step = "done"]}
          /\ responses' = [responses EXCEPT ![c.call] = @ \cup {c.rep}]
          /\ UNCHANGED pending
     ELSE /\ callbacks' = callbacks \ {c}
          /\ pending' = [pending EXCEPT ![c.call] = @ - 1]
          /\ UNCHANGED responses
  /\ UNCHANGED <<connectionVars, phase, toAsk, requests, results, timedOut>>

\* Representative r answers k; the server passes the answer on if k is
\* subscribed on a connection that is up.
Reply(k, r) ==
  /\ <<k, r>> \in requests
  /\ requests' = requests \ {<<k, r>>}
  /\ incoming' = [n \in Connections |->
                    IF Up(n) /\ k \in known[n]
                    THEN Append(incoming[n], MsgPacket(k, r)) ELSE incoming[n]]
  /\ UNCHANGED <<serving, stage, reader, down, errs, subscriptions, known,
                 unsent, awaits, op>>
  /\ UNCHANGED <<phase, toAsk, callbacks, pending, responses, results,
                 timedOut>>

-----------------------------------------------------------------------------

\* The goroutine that calls batch.
CallStep(k) ==
  \/ SubscribeFails(k)
  \/ PublishNext(k)
  \/ Publish(k)
  \/ AllReceived(k)
  \/ TimeOut(k)
  \/ TakeResponse(k)
  \/ Drained(k)
  \/ BatchReturns(k)
  \/ ClientStep(k) /\ UNCHANGED batchVars

\* The goroutine that reads from connection n.
ReadStep(n) ==
  \/ Dispatch(n)
  \/ ReaderStep(n) /\ UNCHANGED batchVars

ConnectStep(n) == EstablishStep(n) /\ UNCHANGED batchVars

ExternalStep ==
  \/ \E n \in Connections : ServerStep(n) /\ UNCHANGED batchVars
  \/ \E k \in Callers, r \in Reps : Reply(k, r)

Next ==
  \/ \E k \in Callers : CallStep(k)
  \/ \E c \in callbacks : RunCallback(c)
  \/ \E n \in Connections : ReadStep(n) \/ ConnectStep(n)
  \/ ExternalStep

\* Goroutines that can run do, and a server can be dialled again.  Neither
\* the server nor the representatives owe an answer.
Fairness ==
  /\ \A k \in Callers : WF_vars(CallStep(k))
  /\ \A c \in Callback : WF_vars(RunCallback(c))
  /\ \A n \in Connections : WF_vars(ReadStep(n)) /\ WF_vars(ConnectStep(n))

Spec == Init /\ [][Next]_vars
FairSpec == Spec /\ Fairness

-----------------------------------------------------------------------------

(***************************************************************************)
(* Safety: on a connection that is up, as many goroutines wait in ErrOrOK  *)
(* as +OKs are on their way.  As no +OK says whose it is, one too many     *)
(* would stop the goroutine that reads, or confirm a packet that has not   *)
(* been handled; one too few would leave a goroutine waiting.              *)
(***************************************************************************)
Waiting(n) == {g \in Goroutines : awaits[g] = n}
OKs(n) == {i \in DOMAIN incoming[n] : incoming[n][i] = OKPacket}

OneOKEach ==
  \A n \in Connections \ down : Cardinality(Waiting(n)) = Cardinality(OKs(n))

(***************************************************************************)
(* Safety: whoever Subscribe told that it is subscribed still is after     *)
(* connections have been lost, whether it subscribed before, during or     *)
(* after the client did so again: the server knows on the connection that  *)
(* is being served, once resubscribe is through.                           *)
(***************************************************************************)
IsSubscribed(k) == phase[k] \in {"publish", "collect", "drain"}

SubscribedWhereServed ==
  \A n \in Connections \ down, k \in Callers :
    (serving = n /\ stage[n] = "done" /\ IsSubscribed(k)) => k \in known[n]

(***************************************************************************)
(* Safety: a call that does not time out returns the response of everyone *)
(* it asked, although responses and the wait group are counted apart; nor  *)
(* does a callback ever block on the channel, being late or not.           *)
(***************************************************************************)
AllReceivedMeansAll ==
  /\ \A k \in Callers \ timedOut :
       op[k].kind = "unsub" => results[k] = Guids[k]
  /\ \A c \in callbacks :
       c.step = "send" =>
         Cardinality(responses[c.call]) < Cardinality(Guids[c.call])

(***************************************************************************)
(* Liveness: a call returns, whatever is lost, unless it has sent a packet *)
(* on a connection that is gone, or waits for a connection when the last   *)
(* one, which is not replaced any more or never can be, was lost while it  *)
(* was established.                                                        *)
(***************************************************************************)
Stranded(k) ==
  \/ op[k].step = "wait" /\ op[k].conn \in down
  \/ op[k].step = "take" /\ serving = 0 /\ MaxConnections \in down

ReturnsOrStranded ==
  \A k \in Callers : <>[](phase[k] = "returned" \/ Stranded(k))

\* auctioneernode/main.go: "timeout for entire auction".  A call, of which
\* an auction is made, returns.
CallsReturn == \A k \in Callers : <>(phase[k] = "returned")
=============================================================================
