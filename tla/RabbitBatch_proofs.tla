------------------------- MODULE RabbitBatch_proofs -------------------------
(***************************************************************************)
(* Theorems about the calls of an auction over RabbitMQ, for any number of *)
(* representatives and of calls made one after the other, whichever        *)
(* requests fail, time out or are answered late.                           *)
(***************************************************************************)
EXTENDS RabbitBatch, FiniteSetTheorems, SequenceTheorems, TLAPS

LEMMA TypeInit == Init => TypeOK
<1>1. <<>> \in Seq(Ids) /\ 0 \in 0 .. MaxBatches
  BY RabbitAssumption
<1>2. QED
  BY <1>1 DEF Init, TypeOK, Phases

LEMMA GoroutineType ==
  ASSUME TypeOK, NEW id \in Ids, Goroutine(id)
  PROVE  TypeOK'
<1> USE DEF TypeOK, Phases
<1>1. CASE Publish(id)
  <2>1. id.rep \in Reps
    BY DEF Ids
  <2>2. Append(queue[id.rep], id) \in Seq(Ids)
    BY <2>1, AppendProperties
  <2>3. queue' \in [Reps -> Seq(Ids)]
    BY <1>1, <2>1, <2>2 DEF Publish
  <2>4. QED
    BY <1>1, <2>3 DEF Publish
<1>2. CASE Receive(id) \/ TimeOut(id) \/ Forget(id)
  BY <1>2 DEF Receive, TimeOut, Forget, clientVars, brokerVars
<1>3. CASE SendError(id) \/ SendResponse(id)
  BY <1>3 DEF SendError, SendResponse, Result, clientVars, brokerVars
<1>4. QED
  BY <1>1, <1>2, <1>3 DEF Goroutine

LEMMA TypeStep == TypeOK /\ [Next]_vars => TypeOK'
<1> SUFFICES ASSUME TypeOK, [Next]_vars
             PROVE  TypeOK'
  OBVIOUS
<1>1. CASE UNCHANGED vars
  BY <1>1 DEF vars, batchVars, clientVars, brokerVars, TypeOK
<1>2. CASE StartBatch
  <2>1. batch' \in 0 .. MaxBatches
    BY <1>2, RabbitAssumption DEF StartBatch, TypeOK
  <2>2. pc' \in [Ids -> Phases]
    BY <1>2 DEF StartBatch, TypeOK, Phases
  <2>3. QED
    BY <1>2, <2>1, <2>2 DEF StartBatch, clientVars, brokerVars, TypeOK
<1>3. CASE ReturnBatch
  BY <1>3 DEF ReturnBatch, clientVars, brokerVars, TypeOK
<1>4. ASSUME NEW r \in Reps, Serve(r)
      PROVE  TypeOK'
  <2>1. queue[r] \in Seq(Ids) /\ queue[r] # <<>>
    BY <1>4 DEF TypeOK, Serve
  <2>2. Head(queue[r]) \in Ids /\ Tail(queue[r]) \in Seq(Ids)
    BY <2>1, HeadTailProperties
  <2>3. Append(responses, Head(queue[r])) \in Seq(Ids)
    BY <2>2, AppendProperties DEF TypeOK
  <2>4. QED
    BY <1>4, <2>2, <2>3 DEF Serve, batchVars, clientVars, TypeOK
<1>5. ASSUME NEW r \in Reps, ServeUnhandled(r)
      PROVE  TypeOK'
  <2>1. Tail(queue[r]) \in Seq(Ids)
    BY <1>5, HeadTailProperties DEF TypeOK, ServeUnhandled
  <2>2. QED
    BY <1>5, <2>1 DEF ServeUnhandled, batchVars, clientVars, TypeOK
<1>6. CASE LookUp
  <2>1. Head(responses) \in Ids /\ Tail(responses) \in Seq(Ids)
    BY <1>6, HeadTailProperties DEF LookUp, TypeOK
  <2>2. QED
    BY <1>6, <2>1 DEF LookUp, batchVars, TypeOK
<1>7. CASE Deliver
  BY <1>7 DEF Deliver, batchVars, brokerVars, TypeOK
<1>8. QED
  BY <1>1, <1>2, <1>3, <1>4, <1>5, <1>6, <1>7, GoroutineType
  DEF Next, Dispatcher, Terminated

-----------------------------------------------------------------------------

(***************************************************************************)
(* The life of a request: nothing happens to it before its batch starts,   *)
(* it is in the map from the look at it to its end, and it is only marked  *)
(* answered where its goroutine waits for the response, so never after an  *)
(* error.                                                                  *)
(***************************************************************************)
Life(id) ==
  /\ id.batch > batch => pc[id] = "none"
  /\ id \in requests <=> pc[id] \in {"waiting", "forget"}
  /\ id \in answered => pc[id] \in {"forget", "response", "done"}

LifeInv == TypeOK /\ \A id \in Ids : Life(id)

LEMMA LifeInit == Init => LifeInv
BY TypeInit DEF Init, LifeInv, Life

\* A goroutine lives its own request's life only.
LEMMA GoroutineLife ==
  ASSUME LifeInv, NEW id \in Ids, Goroutine(id), NEW k \in Ids
  PROVE  Life(k)'
<1> USE DEF LifeInv, TypeOK, Life
<1>1. id.batch \in 1 .. MaxBatches /\ batch \in Int
  BY RabbitAssumption DEF Ids
<1>2. CASE Publish(id)
  BY <1>1, <1>2 DEF Publish
<1>3. CASE Receive(id) \/ TimeOut(id)
  BY <1>1, <1>3 DEF Receive, TimeOut, clientVars
<1>4. CASE Forget(id)
  BY <1>1, <1>4 DEF Forget
<1>5. CASE SendError(id) \/ SendResponse(id)
  BY <1>1, <1>5 DEF SendError, SendResponse, clientVars
<1>6. QED
  BY <1>2, <1>3, <1>4, <1>5 DEF Goroutine

LEMMA LifeStep == LifeInv /\ [Next]_vars => LifeInv'
<1> SUFFICES ASSUME LifeInv, [Next]_vars, NEW k \in Ids
             PROVE  Life(k)'
  BY TypeStep DEF LifeInv
<1>1. CASE StartBatch
  <2>1. k.batch \in Int /\ batch \in Int
    BY RabbitAssumption DEF LifeInv, TypeOK, Ids
  <2>2. QED
    BY <1>1, <2>1 DEF StartBatch, LifeInv, TypeOK, Life, clientVars
<1>2. CASE UNCHANGED <<batch, pc, requests, answered>>
  BY <1>2 DEF LifeInv, Life
<1>3. QED
  BY <1>1, <1>2, GoroutineLife
  DEF Next, ReturnBatch, Serve, ServeUnhandled, Dispatcher, LookUp, Deliver,
      Terminated, vars, batchVars, clientVars

LEMMA LifeInvariant == Spec => []LifeInv
BY LifeInit, LifeStep, PTL DEF Spec

(***************************************************************************)
(* The map holds the requests under way and no others: a request is        *)
(* registered before it is published and deleted however it ends.          *)
(***************************************************************************)
THEOREM MapAlwaysHoldsPending == Spec => []MapHoldsPending
<1>1. LifeInv => MapHoldsPending
  BY DEF LifeInv, Life, MapHoldsPending, TypeOK
<1>2. QED
  BY <1>1, LifeInvariant, PTL

-----------------------------------------------------------------------------

\* Whatever is on its way back to a goroutine comes from a representative.
ServedFirst ==
  /\ answered \cup inbox \subseteq served
  /\ dispatching # None => dispatching \in served
  /\ responses \in Seq(served)

LEMMA ServedInit == Init => ServedFirst
BY DEF Init, ServedFirst

LEMMA ServedStep == ServedFirst /\ TypeOK /\ [Next]_vars => ServedFirst'
<1> SUFFICES ASSUME ServedFirst, TypeOK, [Next]_vars
             PROVE  ServedFirst'
  OBVIOUS
<1> USE DEF ServedFirst
<1>1. CASE UNCHANGED <<answered, inbox, dispatching, served, responses>>
  BY <1>1
<1>2. ASSUME NEW id \in Ids, Receive(id)
      PROVE  ServedFirst'
  BY <1>2 DEF Receive, brokerVars
<1>3. ASSUME NEW r \in Reps, Serve(r)
      PROVE  ServedFirst'
  <2>1. responses \in Seq(served')
    <3>1. served \subseteq served'
      BY <1>3 DEF Serve
    <3>2. QED
      BY <3>1
  <2>2. Append(responses, Head(queue[r])) \in Seq(served')
    BY <1>3, <2>1, AppendProperties DEF Serve
  <2>3. QED
    BY <1>3, <2>2 DEF Serve, batchVars, clientVars
<1>4. CASE LookUp
  <2>1. Head(responses) \in served /\ Tail(responses) \in Seq(served)
    BY <1>4, HeadTailProperties DEF LookUp
  <2>2. QED
    BY <1>4, <2>1 DEF LookUp, batchVars
<1>5. CASE Deliver
  BY <1>5 DEF Deliver, batchVars, brokerVars
<1>6. QED
  BY <1>1, <1>2, <1>3, <1>4, <1>5
  DEF Next, StartBatch, ReturnBatch, Goroutine, Publish, TimeOut, Forget,
      SendError, SendResponse, ServeUnhandled, Dispatcher, Terminated, vars,
      batchVars, clientVars, brokerVars

(***************************************************************************)
(* What a batch has taken: results of its own requests, from goroutines    *)
(* that are past waiting, so that whether the request was answered is      *)
(* settled; and once it has returned, as many as it asked representatives. *)
(***************************************************************************)
Taken(x) ==
  /\ x.id.batch = batch
  /\ pc[x.id] \in {"response", "done"}
  /\ x.kind = "reply" <=> x.id \in answered

ResultsInv ==
  /\ LifeInv
  /\ ServedFirst
  /\ \A x \in results : Taken(x)
  /\ IsFiniteSet(results)
  /\ returned /\ batch # 0 => Cardinality(results) = Cardinality(Reps)

LEMMA ResultsInit == Init => ResultsInv
BY LifeInit, ServedInit, FS_EmptySet DEF Init, ResultsInv

\* A goroutine sends a result to its batch.
LEMMA SendKeeps ==
  ASSUME ResultsInv, NEW id \in Ids, Takes(id),
         NEW kind, results' = results \cup {[id |-> id, kind |-> kind]},
         pc[id] \in {"error", "response"},
         NEW to \in {"response", "done"}, pc' = [pc EXCEPT ![id] = to],
         kind = "reply" <=> id \in answered,
         UNCHANGED <<batch, returned, answered>>
  PROVE  /\ \A x \in results' : Taken(x)'
         /\ IsFiniteSet(results')
         /\ ~returned'
<1> DEFINE y == [id |-> id, kind |-> kind]
<1>1. y.id = id /\ y.kind = kind
  OBVIOUS
<1>2. results' = results \cup {y}
  OBVIOUS
<1> HIDE DEF y
<1>3. pc \in [Ids -> Phases] /\ \A x \in results : x.id \in Ids
  BY DEF ResultsInv, LifeInv, TypeOK, Result
<1>4. \A x \in results' : Taken(x)'
  BY <1>1, <1>2, <1>3 DEF ResultsInv, Taken, Takes
<1>5. IsFiniteSet(results')
  BY <1>2, FS_AddElement DEF ResultsInv
<1>6. QED
  BY <1>4, <1>5 DEF Takes

LEMMA ResultsStep == ResultsInv /\ [Next]_vars => ResultsInv'
<1> SUFFICES ASSUME ResultsInv, [Next]_vars
             PROVE  /\ \A x \in results' : Taken(x)'
                    /\ IsFiniteSet(results')
                    /\ returned' /\ batch' # 0
                         => Cardinality(results') = Cardinality(Reps)
  BY LifeStep, ServedStep DEF ResultsInv, LifeInv
<1>1. pc \in [Ids -> Phases] /\ \A x \in results : x.id \in Ids
  BY DEF ResultsInv, LifeInv, TypeOK, Result
<1>2. CASE UNCHANGED <<batch, returned, results, answered, pc>>
  BY <1>2 DEF ResultsInv, Taken
<1>3. CASE StartBatch
  BY <1>3, FS_EmptySet DEF StartBatch
<1>4. CASE ReturnBatch
  BY <1>4 DEF ReturnBatch, ResultsInv, Taken
<1>5. ASSUME NEW id \in Ids, Publish(id) \/ TimeOut(id) \/ Forget(id)
      PROVE  /\ \A x \in results' : Taken(x)'
             /\ UNCHANGED <<batch, returned, results>>
  <2>1. /\ \A k \in Ids \ {id} : pc'[k] = pc[k]
        /\ pc[id] \notin {"response", "done"}
        /\ UNCHANGED <<batch, returned, results, answered>>
    BY <1>1, <1>5 DEF Publish, TimeOut, Forget
  <2>2. QED
    BY <1>1, <2>1 DEF ResultsInv, Taken
<1>6. ASSUME NEW id \in Ids, Receive(id)
      PROVE  /\ \A x \in results' : Taken(x)'
             /\ UNCHANGED <<batch, returned, results>>
  <2>1. /\ \A k \in Ids \ {id} :
             pc'[k] = pc[k] /\ (k \in answered' <=> k \in answered)
        /\ pc[id] \notin {"response", "done"}
        /\ UNCHANGED <<batch, returned, results>>
    BY <1>1, <1>6 DEF Receive
  <2>2. QED
    BY <1>1, <2>1 DEF ResultsInv, Taken
<1>7. ASSUME NEW id \in Ids, SendError(id)
      PROVE  /\ \A x \in results' : Taken(x)'
             /\ IsFiniteSet(results')
             /\ ~returned'
  <2>1. id \notin answered
    BY <1>7 DEF SendError, ResultsInv, LifeInv, Life
  <2>2. QED
    BY <1>7, <2>1, SendKeeps DEF SendError
<1>8. ASSUME NEW id \in Ids, SendResponse(id)
      PROVE  /\ \A x \in results' : Taken(x)'
             /\ IsFiniteSet(results')
             /\ ~returned'
  <2> DEFINE kind == IF id \in answered THEN "reply" ELSE "blank"
  <2>1. kind = "reply" <=> id \in answered
    OBVIOUS
  <2>2. results' = results \cup {[id |-> id, kind |-> kind]}
    BY <1>8 DEF SendResponse
  <2> HIDE DEF kind
  <2>3. QED
    BY <1>8, <2>1, <2>2, SendKeeps DEF SendResponse
<1>9. QED
  <2>1. CASE \E id \in Ids : Goroutine(id)
    BY <2>1, <1>5, <1>6, <1>7, <1>8 DEF Goroutine, ResultsInv
  <2>2. QED
    BY <1>2, <1>3, <1>4, <2>1
    DEF Next, Serve, ServeUnhandled, Dispatcher, LookUp, Deliver, Terminated,
        vars, batchVars, clientVars

LEMMA ResultsInvariant == Spec => []ResultsInv
BY ResultsInit, ResultsStep, PTL DEF Spec

(***************************************************************************)
(* A reply in a batch comes from the representative of that batch's        *)
(* request: a late one finds no channel, or one nobody receives from.      *)
(***************************************************************************)
THEOREM RepliesAreToThisBatch == Spec => []RepliesToThisBatch
<1>1. ResultsInv => RepliesToThisBatch
  BY DEF ResultsInv, ServedFirst, Taken, RepliesToThisBatch
<1>2. QED
  BY <1>1, ResultsInvariant, PTL

-----------------------------------------------------------------------------

\* As many replies as representatives are the replies of all of them.
LEMMA AllReplies ==
  ASSUME NEW n,
         NEW S \in SUBSET {[id |-> [batch |-> n, rep |-> r], kind |-> "reply"] :
                             r \in Reps},
         IsFiniteSet(S), Cardinality(S) = Cardinality(Reps)
  PROVE  S = {[id |-> [batch |-> n, rep |-> r], kind |-> "reply"] : r \in Reps}
<1> DEFINE f == [r \in Reps |->
                   [id |-> [batch |-> n, rep |-> r], kind |-> "reply"]]
           T == {[id |-> [batch |-> n, rep |-> r], kind |-> "reply"] : r \in Reps}
<1>1. f \in Bijection(Reps, T)
  <2>1. f \in [Reps -> T] /\ \A p \in T : \E r \in Reps : f[r] = p
    OBVIOUS
  <2>2. \A q, r \in Reps : f[q] = f[r] => q = r
    <3>1. \A r \in Reps : f[r].id.rep = r
      OBVIOUS
    <3> HIDE DEF f
    <3>2. QED
      BY <3>1
  <2> HIDE DEF f, T
  <2>3. QED
    BY <2>1, <2>2 DEF Bijection, Injection, Surjection, IsInjective
<1> HIDE DEF f, T
<1>2. ExistsBijection(Reps, T)
  BY <1>1 DEF ExistsBijection
<1>3. IsFiniteSet(T) /\ Cardinality(T) = Cardinality(Reps)
  BY <1>2, RabbitAssumption, FS_Bijection
<1>4. S \in SUBSET T
  BY DEF T
<1>5. S = T
  BY <1>3, <1>4, FS_Subset
<1>6. QED
  BY <1>5 DEF T

(***************************************************************************)
(* If no request of a batch failed, it returns the replies of all the      *)
(* representatives asked: the results it took are as many, and each is the *)
(* reply of another one.                                                   *)
(***************************************************************************)
THEOREM CompleteIfAllAnswer == Spec => []CompleteWhenAllAnswer
<1>1. ASSUME ResultsInv, returned, \A id \in Ids : id.batch = batch => id \in answered
      PROVE  results = {[id |-> id, kind |-> "reply"] :
                          id \in {k \in Ids : k.batch = batch}}
  <2>1. TypeOK /\ \A x \in results : Taken(x)
    BY <1>1 DEF ResultsInv, LifeInv
  <2>2. CASE batch = 0
    <3>1. {k \in Ids : k.batch = batch} = {}
      BY <2>2, RabbitAssumption DEF Ids
    <3>2. results = {}
      BY <2>1, <3>1 DEF Taken, TypeOK, Result
    <3>3. QED
      BY <3>1, <3>2
  <2>3. CASE batch # 0
    <3> DEFINE T == {[id |-> [batch |-> batch, rep |-> r], kind |-> "reply"] :
                       r \in Reps}
    <3>1. batch \in 1 .. MaxBatches
      BY <2>1, <2>3, RabbitAssumption DEF TypeOK
    <3>2. {k \in Ids : k.batch = batch} = {[batch |-> batch, rep |-> r] : r \in Reps}
      BY <3>1 DEF Ids
    <3>3. \A x \in results : x \in T
      BY <1>1, <2>1, <3>2 DEF Taken, TypeOK, Result
    <3>4. results = T
      BY <1>1, <2>3, <3>3, AllReplies DEF ResultsInv
    <3>5. QED
      BY <3>2, <3>4
  <2>4. QED
    BY <2>2, <2>3
<1>2. ResultsInv => CompleteWhenAllAnswer
  BY <1>1 DEF CompleteWhenAllAnswer
<1>3. QED
  BY <1>2, ResultsInvariant, PTL

-----------------------------------------------------------------------------

LEMMA AppendOnce ==
  ASSUME NEW S, NEW s \in Seq(S), NEW e \in S
  PROVE  /\ Range(Append(s, e)) = Range(s) \cup {e}
         /\ IsInjective(s) /\ e \notin Range(s) => IsInjective(Append(s, e))
<1> DEFINE t == Append(s, e)
<1>1. /\ Len(s) \in Nat /\ DOMAIN s = 1 .. Len(s)
      /\ t \in Seq(S) /\ Len(t) = Len(s) + 1
      /\ \A n \in 1 .. Len(s) : t[n] = s[n]
      /\ t[Len(s) + 1] = e
  BY AppendProperties, LenProperties
<1>2. DOMAIN t = 1 .. Len(s) + 1
  BY <1>1, LenProperties
<1> HIDE DEF t
<1>3. Range(t) = Range(s) \cup {e}
  <2>1. ASSUME NEW x
        PROVE  (\E n \in DOMAIN t : t[n] = x)
                 <=> (x = e \/ \E n \in DOMAIN s : s[n] = x)
    BY <1>1, <1>2
  <2>2. QED
    BY <2>1 DEF Range
<1>4. ASSUME IsInjective(s), e \notin Range(s)
      PROVE  IsInjective(t)
  <2>1. \A n \in 1 .. Len(s) : s[n] # e
    BY <1>1, <1>4 DEF Range
  <2>2. QED
    BY <1>1, <1>2, <1>4, <2>1 DEF IsInjective
<1>5. QED
  BY <1>3, <1>4 DEF t

LEMMA TailOnce ==
  ASSUME NEW S, NEW s \in Seq(S), s # <<>>, IsInjective(s)
  PROVE  /\ Head(s) \in Range(s)
         /\ Range(Tail(s)) = Range(s) \ {Head(s)}
         /\ IsInjective(Tail(s))
<1> DEFINE t == Tail(s)
           h == Head(s)
<1>1. /\ Len(s) \in Nat \ {0} /\ DOMAIN s = 1 .. Len(s)
      /\ t \in Seq(S) /\ Len(t) = Len(s) - 1
      /\ \A n \in 1 .. Len(t) : t[n] = s[n + 1]
      /\ h = s[1]
  BY HeadTailProperties, LenProperties, EmptySeq
<1>2. DOMAIN t = 1 .. Len(s) - 1
  BY <1>1, LenProperties
<1> HIDE DEF t, h
<1>3. \A m, n \in 1 .. Len(s) : s[m] = s[n] => m = n
  BY <1>1 DEF IsInjective
<1>4. Range(t) = Range(s) \ {h}
  <2>1. ASSUME NEW x, NEW n \in DOMAIN t, t[n] = x
        PROVE  x # h /\ \E m \in DOMAIN s : s[m] = x
    BY <1>1, <1>2, <1>3, <2>1
  <2>2. ASSUME NEW n \in DOMAIN s, s[n] # h
        PROVE  n - 1 \in DOMAIN t /\ t[n - 1] = s[n]
    BY <1>1, <1>2, <2>2
  <2>3. QED
    BY <2>1, <2>2 DEF Range
<1>5. IsInjective(t)
  BY <1>1, <1>2, <1>3 DEF IsInjective
<1>6. h \in Range(s)
  BY <1>1 DEF Range
<1>7. QED
  BY <1>4, <1>5, <1>6 DEF t, h

(***************************************************************************)
(* Nothing is twice on its way.  A request is published once, and moves    *)
(* from the queue to the responses, to the dispatcher and to its channel;  *)
(* once it is served it is in no queue, and whatever is in the channel or  *)
(* being dispatched is not among the responses any more.                   *)
(***************************************************************************)
Started(id) == pc[id] \notin {"none", "request"}

QueuedOnce(r) ==
  /\ IsInjective(queue[r])
  /\ \A id \in Range(queue[r]) :
       id.rep = r /\ Started(id) /\ id \notin served

AnsweredOnce ==
  /\ IsInjective(responses)
  /\ \A id \in Range(responses) :
       id \notin inbox /\ (dispatching # None => id # dispatching)

OnceInv ==
  /\ LifeInv
  /\ ServedFirst
  /\ \A r \in Reps : QueuedOnce(r)
  /\ \A id \in served : Started(id)
  /\ AnsweredOnce
  /\ ChannelHasRoom

LEMMA OnceInit == Init => OnceInv
<1>1. IsInjective(<<>>) /\ Range(<<>>) = {}
  BY DEF IsInjective, Range
<1>2. QED
  BY <1>1, LifeInit, ServedInit
  DEF Init, OnceInv, QueuedOnce, AnsweredOnce, ChannelHasRoom

\* Elsewhere nothing moves, and whoever has started has.
LEMMA OnceKept ==
  ASSUME OnceInv, inbox' \subseteq inbox, \A id \in Ids : Started(id) => Started(id)',
         UNCHANGED <<queue, served, responses, dispatching>>
  PROVE  /\ \A r \in Reps : QueuedOnce(r)'
         /\ \A id \in served' : Started(id)'
         /\ AnsweredOnce'
         /\ ChannelHasRoom'
<1>1. served \subseteq Ids /\ \A r \in Reps : Range(queue[r]) \subseteq Ids
  BY RangeOfSeq DEF OnceInv, LifeInv, TypeOK
<1>2. QED
  BY <1>1 DEF OnceInv, QueuedOnce, AnsweredOnce, ChannelHasRoom

LEMMA PublishOnce ==
  ASSUME OnceInv, NEW id \in Ids, Publish(id)
  PROVE  /\ \A r \in Reps : QueuedOnce(r)'
         /\ \A k \in served' : Started(k)'
         /\ AnsweredOnce'
         /\ ChannelHasRoom'
<1>1. TypeOK /\ id.rep \in Reps
  BY DEF OnceInv, LifeInv, Ids
<1>2. \A k \in Ids : Started(k) => Started(k)'
  BY <1>1 DEF Publish, Started, TypeOK
<1>3. UNCHANGED <<served, responses, dispatching, inbox>> /\ ~Started(id)
  BY DEF Publish, Started
<1>4. CASE UNCHANGED queue
  BY <1>2, <1>3, <1>4, OnceKept
<1>5. CASE /\ queue' = [queue EXCEPT ![id.rep] = Append(@, id)]
           /\ pc' = [pc EXCEPT ![id] = "waiting"]
  <2>1. \A r \in Reps : queue[r] \in Seq(Ids) /\ Range(queue[r]) \subseteq Ids
    BY <1>1, RangeOfSeq DEF TypeOK
  <2>2. id \notin served /\ \A r \in Reps : id \notin Range(queue[r])
    BY <1>3 DEF OnceInv, QueuedOnce
  <2>3. Started(id)'
    BY <1>1, <1>5 DEF TypeOK, Started
  <2>4. ASSUME NEW r \in Reps
        PROVE  QueuedOnce(r)'
    <3>1. CASE r # id.rep
      <4>1. queue'[r] = queue[r]
        BY <1>1, <1>5, <3>1 DEF TypeOK
      <4>2. QED
        BY <1>2, <1>3, <2>1, <4>1 DEF OnceInv, QueuedOnce
    <3>2. CASE r = id.rep
      <4>1. queue'[r] = Append(queue[r], id)
        BY <1>1, <1>5, <3>2 DEF TypeOK
      <4>2. /\ IsInjective(queue'[r])
            /\ Range(queue'[r]) = Range(queue[r]) \cup {id}
        BY <2>1, <2>2, <4>1, AppendOnce DEF OnceInv, QueuedOnce
      <4>3. QED
        BY <1>2, <1>3, <2>1, <2>2, <2>3, <3>2, <4>2 DEF OnceInv, QueuedOnce
    <3>3. QED
      BY <3>1, <3>2
  <2>5. served \subseteq Ids
    BY <1>1 DEF TypeOK
  <2>6. QED
    BY <1>2, <1>3, <2>4, <2>5 DEF OnceInv, AnsweredOnce, ChannelHasRoom
<1>6. QED
  BY <1>4, <1>5 DEF Publish

LEMMA ServeOnce ==
  ASSUME OnceInv, NEW r \in Reps, Serve(r)
  PROVE  /\ \A s \in Reps : QueuedOnce(s)'
         /\ \A k \in served' : Started(k)'
         /\ AnsweredOnce'
         /\ ChannelHasRoom'
<1> DEFINE h == Head(queue[r])
<1>1. TypeOK /\ queue[r] \in Seq(Ids) /\ queue[r] # <<>>
  BY DEF OnceInv, LifeInv, TypeOK, Serve
<1>2. /\ h \in Range(queue[r])
      /\ Range(Tail(queue[r])) = Range(queue[r]) \ {h}
      /\ IsInjective(Tail(queue[r]))
  BY <1>1, TailOnce DEF OnceInv, QueuedOnce
<1>3. h \in Ids
  BY <1>1, HeadTailProperties
<1>4. /\ queue' = [queue EXCEPT ![r] = Tail(@)]
      /\ served' = served \cup {h}
      /\ responses' = Append(responses, h)
      /\ UNCHANGED <<pc, dispatching, inbox>>
  BY DEF Serve, batchVars, clientVars
<1> HIDE DEF h
<1>5. h.rep = r /\ Started(h) /\ h \notin served
  BY <1>2 DEF OnceInv, QueuedOnce
<1>6. Range(responses) \subseteq served
  BY RangeOfSeq DEF OnceInv, ServedFirst
<1>7. /\ IsInjective(responses')
      /\ Range(responses') = Range(responses) \cup {h}
  <2>1. responses \in Seq(Ids) /\ h \notin Range(responses)
    BY <1>1, <1>5, <1>6 DEF TypeOK
  <2>2. QED
    BY <1>3, <1>4, <2>1, AppendOnce DEF OnceInv, AnsweredOnce
<1>8. AnsweredOnce' /\ ChannelHasRoom'
  <2>1. h \notin inbox /\ (dispatching # None => h # dispatching)
    BY <1>5 DEF OnceInv, ServedFirst
  <2>2. QED
    BY <1>4, <1>7, <2>1 DEF OnceInv, AnsweredOnce, ChannelHasRoom
<1>9. ASSUME NEW s \in Reps
      PROVE  QueuedOnce(s)'
  <2>1. CASE s = r
    <3>1. queue'[s] = Tail(queue[r])
      BY <1>1, <1>4, <2>1 DEF TypeOK
    <3>2. QED
      BY <1>2, <1>4, <2>1, <3>1 DEF OnceInv, QueuedOnce, Started
  <2>2. CASE s # r
    <3>1. queue'[s] = queue[s]
      BY <1>1, <1>4, <2>2 DEF TypeOK
    <3>2. QED
      BY <1>4, <1>5, <2>2, <3>1 DEF OnceInv, QueuedOnce, Started
  <2>3. QED
    BY <2>1, <2>2
<1>10. \A k \in served' : Started(k)'
  BY <1>4, <1>5 DEF OnceInv, Started
<1>11. QED
  BY <1>8, <1>9, <1>10

LEMMA ServeUnhandledOnce ==
  ASSUME OnceInv, NEW r \in Reps, ServeUnhandled(r)
  PROVE  /\ \A s \in Reps : QueuedOnce(s)'
         /\ \A k \in served' : Started(k)'
         /\ AnsweredOnce'
         /\ ChannelHasRoom'
<1>1. TypeOK /\ queue[r] \in Seq(Ids) /\ queue[r] # <<>>
  BY DEF OnceInv, LifeInv, TypeOK, ServeUnhandled
<1>2. /\ Range(Tail(queue[r])) \subseteq Range(queue[r])
      /\ IsInjective(Tail(queue[r]))
  BY <1>1, TailOnce DEF OnceInv, QueuedOnce
<1>3. /\ queue' = [queue EXCEPT ![r] = Tail(@)]
      /\ UNCHANGED <<pc, served, responses, dispatching, inbox>>
  BY DEF ServeUnhandled, batchVars, clientVars
<1>4. ASSUME NEW s \in Reps
      PROVE  QueuedOnce(s)'
  <2>1. Range(queue'[s]) \subseteq Range(queue[s]) /\ IsInjective(queue'[s])
    BY <1>1, <1>2, <1>3 DEF OnceInv, QueuedOnce, TypeOK
  <2>2. QED
    BY <1>3, <2>1 DEF OnceInv, QueuedOnce, Started
<1>5. QED
  BY <1>3, <1>4 DEF OnceInv, AnsweredOnce, ChannelHasRoom, Started

LEMMA DispatchOnce ==
  ASSUME OnceInv, Dispatcher
  PROVE  /\ \A r \in Reps : QueuedOnce(r)'
         /\ \A k \in served' : Started(k)'
         /\ AnsweredOnce'
         /\ ChannelHasRoom'
<1>1. UNCHANGED <<pc, queue, served>>
  BY DEF Dispatcher, LookUp, Deliver, batchVars, brokerVars
<1>2. (\A r \in Reps : QueuedOnce(r)') /\ (\A k \in served' : Started(k)')
  BY <1>1 DEF OnceInv, QueuedOnce, Started
<1>3. CASE LookUp
  <2>1. responses \in Seq(Ids) /\ responses # <<>>
    BY <1>3 DEF LookUp, OnceInv, LifeInv, TypeOK
  <2>2. /\ Head(responses) \in Range(responses)
        /\ Range(Tail(responses)) = Range(responses) \ {Head(responses)}
        /\ IsInjective(Tail(responses))
    BY <2>1, TailOnce DEF OnceInv, AnsweredOnce
  <2>3. /\ responses' = Tail(responses) /\ inbox' = inbox
        /\ dispatching' \in {Head(responses), None}
    BY <1>3 DEF LookUp
  <2>4. AnsweredOnce' /\ ChannelHasRoom'
    BY <2>2, <2>3 DEF OnceInv, AnsweredOnce, ChannelHasRoom
  <2>5. QED
    BY <1>2, <2>4
<1>4. CASE Deliver
  <2>1. /\ dispatching # None /\ dispatching' = None
        /\ inbox' = inbox \cup {dispatching} /\ responses' = responses
    BY <1>4 DEF Deliver, brokerVars
  <2>2. AnsweredOnce' /\ ChannelHasRoom'
    BY <2>1 DEF OnceInv, AnsweredOnce, ChannelHasRoom
  <2>3. QED
    BY <1>2, <2>2
<1>5. QED
  BY <1>3, <1>4 DEF Dispatcher

LEMMA OnceStep == OnceInv /\ [Next]_vars => OnceInv'
<1> SUFFICES ASSUME OnceInv, [Next]_vars
             PROVE  /\ \A r \in Reps : QueuedOnce(r)'
                    /\ \A id \in served' : Started(id)'
                    /\ AnsweredOnce'
                    /\ ChannelHasRoom'
  BY LifeStep, ServedStep DEF OnceInv, LifeInv
<1>1. TypeOK /\ \A id \in Ids : Life(id)
  BY DEF OnceInv, LifeInv
<1>2. CASE StartBatch
  <2>1. ASSUME NEW id \in Ids, Started(id)
        PROVE  Started(id)'
    <3>1. id.batch # batch + 1
      BY <1>1, <2>1, RabbitAssumption DEF Life, Started, TypeOK
    <3>2. QED
      BY <1>1, <1>2, <2>1, <3>1 DEF StartBatch, Started, TypeOK
  <2>2. QED
    BY <1>2, <2>1, OnceKept DEF StartBatch, clientVars, brokerVars
<1>3. ASSUME NEW id \in Ids,
             \/ Receive(id) \/ TimeOut(id) \/ Forget(id)
             \/ SendError(id) \/ SendResponse(id)
      PROVE  /\ \A r \in Reps : QueuedOnce(r)'
             /\ \A k \in served' : Started(k)'
             /\ AnsweredOnce'
             /\ ChannelHasRoom'
  <2>1. \A k \in Ids : Started(k) => Started(k)'
    BY <1>1, <1>3
    DEF Receive, TimeOut, Forget, SendError, SendResponse, Started, TypeOK
  <2>2. QED
    BY <1>3, <2>1, OnceKept
    DEF Receive, TimeOut, Forget, SendError, SendResponse, clientVars,
        brokerVars
<1>4. CASE UNCHANGED <<pc, clientVars, brokerVars>>
  BY <1>4, OnceKept DEF clientVars, brokerVars, Started
<1>5. QED
  BY <1>2, <1>3, <1>4, PublishOnce, ServeOnce, ServeUnhandledOnce, DispatchOnce
  DEF Next, ReturnBatch, Goroutine, Terminated, vars, batchVars

(***************************************************************************)
(* The dispatcher, which is one goroutine for all requests, never waits    *)
(* for the goroutine of one of them.  With the fairness of the dispatcher  *)
(* alone, this is why it is never stuck.                                   *)
(***************************************************************************)
THEOREM DispatcherNeverBlocks == Spec => []ChannelHasRoom
<1>1. OnceInv => ChannelHasRoom
  BY DEF OnceInv
<1>2. QED
  BY <1>1, OnceInit, OnceStep, PTL DEF Spec

-----------------------------------------------------------------------------

\* A goroutine that is done has left a result with its batch.
SentInv ==
  /\ ResultsInv
  /\ ~returned => batch # 0
  /\ \A id \in Ids :
       id.batch = batch /\ pc[id] = "done" => \E x \in results : x.id = id

LEMMA SentInit == Init => SentInv
BY ResultsInit, RabbitAssumption DEF Init, SentInv

LEMMA SentStep == SentInv /\ [Next]_vars => SentInv'
<1> SUFFICES ASSUME SentInv, [Next]_vars
             PROVE  /\ ~returned' => batch' # 0
                    /\ \A id \in Ids :
                         id.batch = batch' /\ pc'[id] = "done"
                           => \E x \in results' : x.id = id
  BY ResultsStep DEF SentInv
<1>1. TypeOK
  BY DEF SentInv, ResultsInv, LifeInv
<1>2. CASE StartBatch
  BY <1>1, <1>2, RabbitAssumption DEF StartBatch, TypeOK
<1>3. CASE UNCHANGED <<pc, batch, results>> /\ (returned' = returned \/ returned')
  BY <1>3 DEF SentInv
<1>4. ASSUME NEW id \in Ids, Publish(id) \/ Receive(id) \/ TimeOut(id) \/ Forget(id)
      PROVE  /\ UNCHANGED <<batch, returned, results>>
             /\ \A k \in Ids : pc'[k] = "done" => pc[k] = "done"
  BY <1>1, <1>4 DEF Publish, Receive, TimeOut, Forget, TypeOK
<1>5. ASSUME NEW id \in Ids, SendError(id) \/ SendResponse(id)
      PROVE  /\ UNCHANGED <<batch, returned>>
             /\ results \subseteq results'
             /\ \E x \in results' : x.id = id
             /\ \A k \in Ids \ {id} : pc'[k] = pc[k]
  <2>1. PICK kind : results' = results \cup {[id |-> id, kind |-> kind]}
    BY <1>5 DEF SendError, SendResponse
  <2>2. [id |-> id, kind |-> kind].id = id
    OBVIOUS
  <2>3. \E x \in results' : x.id = id
    BY <2>1, <2>2
  <2>4. /\ UNCHANGED <<batch, returned>>
        /\ \A k \in Ids \ {id} : pc'[k] = pc[k]
    BY <1>1, <1>5 DEF SendError, SendResponse, TypeOK
  <2>5. QED
    BY <2>1, <2>3, <2>4
<1>6. QED
  BY <1>2, <1>3, <1>4, <1>5
  DEF SentInv, Next, ReturnBatch, Goroutine, Serve, ServeUnhandled, Dispatcher,
      LookUp, Deliver, Terminated, vars, batchVars

(***************************************************************************)
(* A batch that waits for a result waits for a goroutine that has one to   *)
(* send: each leaves one behind, so when all are done the batch has as     *)
(* many as it asked representatives.                                       *)
(***************************************************************************)
THEOREM NoBatchWaitsInVain == Spec => []NeverWaitsInVain
<1>1. ASSUME SentInv, ~returned,
             \A id \in Ids : id.batch = batch => pc[id] = "done"
      PROVE  Cardinality(results) >= Cardinality(Reps)
  <2> DEFINE f == [x \in results |-> x.id.rep]
  <2>1. TypeOK /\ IsFiniteSet(results) /\ batch \in 1 .. MaxBatches
    BY <1>1, RabbitAssumption DEF SentInv, ResultsInv, LifeInv, TypeOK
  <2>2. \A x \in results : x.id.rep \in Reps
    BY <2>1 DEF TypeOK, Result, Ids
  <2>3. ASSUME NEW r \in Reps
        PROVE  \E x \in results : x.id.rep = r
    <3> DEFINE id == [batch |-> batch, rep |-> r]
    <3>1. id \in Ids /\ id.batch = batch /\ id.rep = r
      BY <2>1 DEF Ids
    <3>2. \E x \in results : x.id = id
      BY <1>1, <3>1 DEF SentInv
    <3>3. QED
      BY <3>1, <3>2
  <2>4. f \in Surjection(results, Reps)
    BY <2>2, <2>3 DEF Surjection
  <2> HIDE DEF f
  <2>5. Cardinality(Reps) <= Cardinality(results)
    BY <2>1, <2>4, FS_Surjection
  <2>6. Cardinality(Reps) \in Nat /\ Cardinality(results) \in Nat
    BY <2>1, RabbitAssumption, FS_CardinalityType
  <2>7. QED
    BY <2>5, <2>6
<1>2. ASSUME SentInv
      PROVE  Cardinality(Reps) \in Nat /\ Cardinality(results) \in Nat
  BY <1>2, RabbitAssumption, FS_CardinalityType DEF SentInv, ResultsInv
<1>3. SentInv => NeverWaitsInVain
  BY <1>1, <1>2 DEF NeverWaitsInVain
<1>4. QED
  BY <1>3, SentInit, SentStep, PTL DEF Spec
=============================================================================
