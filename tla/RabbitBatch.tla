---------------------------- MODULE RabbitBatch -----------------------------
(***************************************************************************)
(* The calls of one auction over RabbitMQ.  RepRabbitClient.batch starts a *)
(* goroutine per representative; each makes a request of its own through   *)
(* the RabbitClient and sends what comes of it to the batch over a channel *)
(* without a buffer.  The batch takes as many results as it has asked      *)
(* representatives, and returns.                                           *)
(*                                                                         *)
(* The RabbitClient keeps a channel per request in a map, by correlation   *)
(* id.  A single goroutine dispatches the responses: it looks the channel  *)
(* up under the lock and sends to it after the lock is released.  A server *)
(* handles its requests one after the other, in the order of its queue.    *)
(***************************************************************************)
EXTENDS Integers, Sequences, FiniteSets

CONSTANTS
  Reps,       \* the representatives asked
  MaxBatches, \* bound: calls made one after the other
  None        \* no request

ASSUME RabbitAssumption ==
  /\ Reps # {} /\ IsFiniteSet(Reps)
  /\ MaxBatches \in Nat

\* A request, identified by its correlation id.
Ids == [batch : 1 .. MaxBatches, rep : Reps]

VARIABLES
  batch,       \* the number of the current batch
  returned,    \* whether it has returned
  results,     \* the results it has taken from its channel
  pc,          \* pc[id]: what the goroutine of the request does next
  answered,    \* the requests that a response was received to
  requests,    \* the requests in the client's map
  queue,       \* queue[r]: the queue of the server of r
  served,      \* the requests handled by their representatives
  responses,   \* the client's response queue
  dispatching, \* the request whose channel was looked up
  inbox        \* the requests with a delivery in their channel

batchVars == <<batch, returned, results, pc, answered>>
clientVars == <<requests, dispatching, inbox>>
brokerVars == <<queue, served, responses>>
vars == <<batchVars, clientVars, brokerVars>>

Phases == {"none", "request", "waiting", "forget", "error", "response", "done"}

\* What a goroutine sends to the batch: the reply it received, the error, or
\* a response that was never filled in.
Result == [id : Ids, kind : {"reply", "error", "blank"}]

TypeOK ==
  /\ batch \in 0 .. MaxBatches
  /\ returned \in BOOLEAN
  /\ results \subseteq Result
  /\ pc \in [Ids -> Phases]
  /\ answered \subseteq Ids
  /\ requests \subseteq Ids
  /\ queue \in [Reps -> Seq(Ids)]
  /\ served \subseteq Ids
  /\ responses \in Seq(Ids)
  /\ dispatching \in Ids \cup {None}
  /\ inbox \subseteq Ids

Init ==
  /\ batch = 0
  /\ returned = TRUE
  /\ results = {}
  /\ pc = [id \in Ids |-> "none"]
  /\ answered = {}
  /\ requests = {}
  /\ queue = [r \in Reps |-> <<>>]
  /\ served = {}
  /\ responses = <<>>
  /\ dispatching = None
  /\ inbox = {}

-----------------------------------------------------------------------------

\* batch: the goroutines are started.
StartBatch ==
  /\ returned
  /\ batch < MaxBatches
  /\ batch' = batch + 1
  /\ returned' = FALSE
  /\ results' = {}
  /\ pc' = [id \in Ids |-> IF id.batch = batch + 1 THEN "request" ELSE pc[id]]
  /\ UNCHANGED <<answered, clientVars, brokerVars>>

\* for _ = range guids: one result for each, whoever it comes from.
ReturnBatch ==
  /\ ~returned
  /\ Cardinality(results) = Cardinality(Reps)
  /\ returned' = TRUE
  /\ UNCHANGED <<batch, results, pc, answered, clientVars, brokerVars>>

\* Mutant: the channel outlives its batch.
TakesFromAnyBatch(id) ==
  ~returned /\ Cardinality(results) < Cardinality(Reps)

\* The batch of id is ready to take one more result.
Takes(id) ==
  /\ id.batch = batch
  /\ ~returned
  /\ Cardinality(results) < Cardinality(Reps)

-----------------------------------------------------------------------------

\* Request: the channel is registered under a new correlation id, and the
\* request is published, or it is not and the goroutine returns the error.
Publish(id) ==
  /\ pc[id] = "request"
  /\ requests' = requests \cup {id}
  /\ \/ /\ queue' = [queue EXCEPT ![id.rep] = Append(@, id)]
        /\ pc' = [pc EXCEPT ![id] = "waiting"]
     \/ /\ pc' = [pc EXCEPT ![id] = "forget"]
        /\ UNCHANGED queue
  /\ UNCHANGED <<batch, returned, results, answered, served, responses,
                 dispatching, inbox>>

\* case delivery := <-c
Receive(id) ==
  /\ pc[id] = "waiting"
  /\ id \in inbox
  /\ inbox' = inbox \ {id}
  /\ answered' = answered \cup {id}
  /\ pc' = [pc EXCEPT ![id] = "forget"]
  /\ UNCHANGED <<batch, returned, results, requests, dispatching, brokerVars>>

\* case <-time.After(timeout), which may win over a delivery.
TimeOut(id) ==
  /\ pc[id] = "waiting"
  /\ pc' = [pc EXCEPT ![id] = "forget"]
  /\ UNCHANGED <<batch, returned, results, answered, clientVars, brokerVars>>

\* Mutant: the correlation id is only deleted when a response came.
ForgetAnswered(id) ==
  /\ pc[id] = "forget"
  /\ requests' = requests \ ({id} \cap answered)
  /\ pc' = [pc EXCEPT ![id] = IF id \in answered THEN "response" ELSE "error"]
  /\ UNCHANGED <<batch, returned, results, answered, dispatching, inbox,
                 brokerVars>>

\* The deferred delete of the correlation id.
Forget(id) ==
  /\ pc[id] = "forget"
  /\ requests' = requests \ {id}
  /\ pc' = [pc EXCEPT ![id] = IF id \in answered THEN "response" ELSE "error"]
  /\ UNCHANGED <<batch, returned, results, answered, dispatching, inbox,
                 brokerVars>>

\* Mutant: a failed request sends nothing.
SendNoError(id) ==
  /\ pc[id] = "error"
  /\ pc' = [pc EXCEPT ![id] = "done"]
  /\ UNCHANGED <<batch, returned, results, answered, clientVars, brokerVars>>

\* c <- types.ScoreResult{Error: ...}, and no return.
SendError(id) ==
  /\ pc[id] = "error"
  /\ Takes(id)
  /\ results' = results \cup {[id |-> id, kind |-> "error"]}
  /\ pc' = [pc EXCEPT ![id] = "response"]
  /\ UNCHANGED <<batch, returned, answered, clientVars, brokerVars>>

\* c <- response, which after an error is blank.
SendResponse(id) ==
  /\ pc[id] = "response"
  /\ Takes(id)
  /\ results' = results \cup
       {[id |-> id, kind |-> IF id \in answered THEN "reply" ELSE "blank"]}
  /\ pc' = [pc EXCEPT ![id] = "done"]
  /\ UNCHANGED <<batch, returned, answered, clientVars, brokerVars>>

Goroutine(id) ==
  \/ Publish(id)
  \/ Receive(id)
  \/ TimeOut(id)
  \/ Forget(id)
  \/ SendError(id)
  \/ SendResponse(id)

-----------------------------------------------------------------------------

\* RabbitServer: the request at the head of the queue is handled, and the
\* response published with its correlation id.
Serve(r) ==
  /\ queue[r] # <<>>
  /\ queue' = [queue EXCEPT ![r] = Tail(@)]
  /\ served' = served \cup {Head(queue[r])}
  /\ responses' = Append(responses, Head(queue[r]))
  /\ UNCHANGED <<batchVars, clientVars>>

\* A representative registers its handlers after it has begun to consume: a
\* request that no handler is found for is taken off the queue, and no more.
ServeUnhandled(r) ==
  /\ queue[r] # <<>>
  /\ queue' = [queue EXCEPT ![r] = Tail(@)]
  /\ UNCHANGED <<batchVars, clientVars, responses, served>>

\* Mutant: the channel is looked up by representative.
LookUpByRep ==
  /\ dispatching = None
  /\ responses # <<>>
  /\ responses' = Tail(responses)
  /\ \E id \in requests \cup {None} :
       /\ id # None => id.rep = Head(responses).rep
       /\ dispatching' = id
  /\ UNCHANGED <<batchVars, requests, inbox, queue, served>>

\* dispatch: the channel is looked up; if it is gone, so is the response.
LookUp ==
  /\ dispatching = None
  /\ responses # <<>>
  /\ responses' = Tail(responses)
  /\ dispatching' =
       IF Head(responses) \in requests THEN Head(responses) ELSE None
  /\ UNCHANGED <<batchVars, requests, inbox, queue, served>>

\* Mutant: the channel has no buffer.
DeliverUnbuffered ==
  /\ dispatching # None
  /\ pc[dispatching] = "waiting"
  /\ inbox' = inbox \cup {dispatching}
  /\ dispatching' = None
  /\ UNCHANGED <<batchVars, requests, brokerVars>>

\* c <- delivery, on a channel with a buffer of one, without the lock.
Deliver ==
  /\ dispatching # None
  /\ dispatching \notin inbox
  /\ inbox' = inbox \cup {dispatching}
  /\ dispatching' = None
  /\ UNCHANGED <<batchVars, requests, brokerVars>>

Dispatcher == LookUp \/ Deliver

-----------------------------------------------------------------------------

AllReturned == returned /\ batch = MaxBatches

Terminated == AllReturned /\ UNCHANGED vars

Next ==
  \/ StartBatch
  \/ ReturnBatch
  \/ \E id \in Ids : Goroutine(id)
  \/ \E r \in Reps : Serve(r) \/ ServeUnhandled(r)
  \/ Dispatcher
  \/ Terminated

\* The client's goroutines and timers run.  A server need not answer.
Fairness ==
  /\ WF_vars(StartBatch)
  /\ WF_vars(ReturnBatch)
  /\ \A id \in Ids : WF_vars(Goroutine(id))
  /\ WF_vars(Dispatcher)

Spec == Init /\ [][Next]_vars
FairSpec == Spec /\ Fairness

-----------------------------------------------------------------------------

(***************************************************************************)
(* Safety: the map holds the requests that are under way and no others,    *)
(* however they end; nothing is left in it for the life of the client.     *)
(***************************************************************************)
MapHoldsPending ==
  /\ TypeOK
  /\ requests = {id \in Ids : pc[id] \in {"waiting", "forget"}}

(***************************************************************************)
(* Safety: a reply in a batch is the one its representative gave to that   *)
(* very batch, although replies to earlier ones still come in late.        *)
(***************************************************************************)
RepliesToThisBatch ==
  \A x \in results :
    /\ x.id.batch = batch
    /\ x.kind = "reply" => x.id \in served

(***************************************************************************)
(* Safety: a batch none of whose requests failed returns the replies of    *)
(* all the representatives asked, and nothing else.                        *)
(***************************************************************************)
CompleteWhenAllAnswer ==
  (returned /\ \A id \in Ids : id.batch = batch => id \in answered)
    => results = {[id |-> id, kind |-> "reply"] :
                    id \in {k \in Ids : k.batch = batch}}

(***************************************************************************)
(* Safety: the one place in the channel of a request is free when the      *)
(* dispatcher sends, although the goroutine of the request may not receive *)
(* any more: no response comes twice.                                      *)
(***************************************************************************)
ChannelHasRoom == dispatching # None => dispatching \notin inbox

(***************************************************************************)
(* Safety: while the batch waits for a result, there is a goroutine that   *)
(* has yet to send one, however many of its requests have failed.          *)
(***************************************************************************)
NeverWaitsInVain ==
  (~returned /\ Cardinality(results) < Cardinality(Reps))
    => \E id \in Ids : id.batch = batch /\ pc[id] # "done"

(***************************************************************************)
(* Liveness: the dispatcher never gets stuck on a channel whose request    *)
(* has timed out between the look-up and the send.                         *)
(***************************************************************************)
DispatcherFree == (dispatching # None) ~> (dispatching = None)

(***************************************************************************)
(* Liveness: every batch returns, also if no server ever answers.          *)
(***************************************************************************)
BatchesReturn == <>AllReturned

-----------------------------------------------------------------------------

(***************************************************************************)
(* reserve_n_best.go: "order by score: the first is the winner, all others *)
(* release".  For that, a batch that has returned must have passed on the  *)
(* reply of everyone who answered in time.  Refuted: a request that fails  *)
(* sends two results, and the second takes the place of a reply.           *)
(***************************************************************************)
RepliesPassedOn ==
  returned =>
    \A id \in answered :
      id.batch = batch => [id |-> id, kind |-> "reply"] \in results
=============================================================================
