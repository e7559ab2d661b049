-------------------------- MODULE NatsBatch_proofs --------------------------
(***************************************************************************)
(* Theorems about calls on a shared NATS client, for any number of         *)
(* callers, representatives and connections, wherever connections are lost *)
(* or refused.                                                             *)
(***************************************************************************)
EXTENDS NatsBatch, FiniteSetTheorems, FunctionTheorems, SequenceTheorems,
        TLAPS

\* The types, but for the range of the wait groups' counters, which is a
\* matter of what they count.
TypeInv ==
  /\ ConnectionTypeOK
  /\ incoming \in [Connections -> Seq(Packets)]
  /\ phase \in [Callers -> Phases]
  /\ toAsk \in [Callers -> SUBSET Reps]
  /\ requests \subseteq Callers \X Reps
  /\ callbacks \subseteq Callback
  /\ pending \in [Callers -> Int]
  /\ responses \in [Callers -> SUBSET Reps]
  /\ results \in [Callers -> SUBSET Reps]
  /\ timedOut \subseteq Callers

LEMMA ExpectedType == \A k \in Callers : Expected(k) \in Nat
BY BatchAssumption, FS_Subset, FS_CardinalityType DEF Expected

LEMMA TypeInit == Init => TypeInv
<1>1. /\ <<>> \in Seq(Packets)
      /\ 0 \in 0 .. MaxConnections /\ 1 \in 0 .. MaxConnections
      /\ Callers \subseteq Goroutines
  BY ConnectionAssumption DEF Goroutines
<1>2. QED
  BY <1>1, ExpectedType, BatchAssumption
  DEF Init, ConnectionInit, TypeInv, ConnectionTypeOK, Phases, Kinds, Steps

\* The goroutines' names.
LEMMA Names ==
  /\ \A k \in Callers : k \in Goroutines /\ k \notin Connections
  /\ \A n \in Connections :
       n \in Goroutines /\ n \in Nat /\ n # 0 /\ n \in 0 .. MaxConnections
  /\ 0 \in 0 .. MaxConnections
BY ConnectionAssumption DEF Goroutines, Connections

LEMMA SendType ==
  ASSUME TypeInv, NEW g \in Goroutines, NEW n \in Connections,
         SendAndWait(g, n)
  PROVE  /\ awaits' \in [Goroutines -> 0 .. MaxConnections]
         /\ incoming' \in [Connections -> Seq(Packets)]
<1>1. incoming[n] \in Seq(Packets) /\ OKPacket \in Packets
  BY DEF TypeInv, Packets
<1>2. Append(incoming[n], OKPacket) \in Seq(Packets)
  BY <1>1, AppendProperties
<1>3. QED
  BY <1>2, Names DEF SendAndWait, TypeInv, ConnectionTypeOK

LEMMA ReceiveType ==
  ASSUME TypeInv, NEW n \in Connections, incoming[n] # <<>>
  PROVE  /\ Head(incoming[n]) \in Packets
         /\ Tail(incoming[n]) \in Seq(Packets)
BY HeadTailProperties DEF TypeInv

LEMMA TakeOKType ==
  ASSUME TypeInv, NEW g \in Goroutines, NEW n \in Connections, TakeOK(g, n)
  PROVE  /\ awaits' \in [Goroutines -> 0 .. MaxConnections]
         /\ incoming' \in [Connections -> Seq(Packets)]
BY Names, ReceiveType DEF TakeOK, Receives, TypeInv, ConnectionTypeOK

LEMMA TakeErrType ==
  ASSUME TypeInv, NEW g \in Goroutines, NEW n \in Connections, TakeErr(g, n)
  PROVE  /\ awaits' \in [Goroutines -> 0 .. MaxConnections]
         /\ errs' \in [Connections -> BOOLEAN]
BY Names DEF TakeErr, TypeInv, ConnectionTypeOK

\* The connection an operation is on exists when it sends.
Ops == [kind : Kinds, step : Steps, conn : 0 .. MaxConnections]
OnConnection ==
  \A k \in Callers :
    op[k].step \in {"send", "forget", "wait"} => op[k].conn \in Connections

CallTypeInv == TypeInv /\ OnConnection

\* How an operation changes.
LEMMA OpMoves ==
  ASSUME CallTypeInv, NEW k \in Callers, NEW s \in Steps,
         \/ s = "idle"
         \/ op[k].step \in {"send", "forget", "wait"},
         op' = [op EXCEPT ![k].step = s]
  PROVE  op' \in [Callers -> Ops] /\ OnConnection'
<1>1. op \in [Callers -> Ops]
  BY DEF CallTypeInv, TypeInv, ConnectionTypeOK, Ops
<1>2. [op[k] EXCEPT !.step = s] \in Ops
  BY <1>1 DEF Ops
<1>3. op' \in [Callers -> Ops]
  BY <1>1, <1>2
<1>4. \A j \in Callers : op'[j] = IF j = k THEN [op[k] EXCEPT !.step = s]
                                  ELSE op[j]
  BY <1>1
<1>5. op'[k].step = s /\ op'[k].conn = op[k].conn
  BY <1>1, <1>4 DEF Ops
<1>6. s \in {"send", "forget", "wait"} => op[k].conn \in Connections
  BY DEF CallTypeInv, OnConnection
<1>7. QED
  BY <1>3, <1>4, <1>5, <1>6 DEF CallTypeInv, OnConnection

LEMMA OpFields ==
  ASSUME CallTypeInv, NEW k \in Callers, NEW s \in Steps,
         op' = [op EXCEPT ![k].step = s]
  PROVE  /\ op'[k].step = s
         /\ op'[k].kind = op[k].kind /\ op'[k].conn = op[k].conn
         /\ \A j \in Callers \ {k} : op'[j] = op[j]
BY DEF CallTypeInv, TypeInv, ConnectionTypeOK

LEMMA AskFields ==
  ASSUME CallTypeInv, NEW k \in Callers, NEW kind \in Kinds, Ask(k, kind)
  PROVE  /\ op'[k].step = "take" /\ op'[k].kind = kind /\ op'[k].conn = 0
         /\ \A j \in Callers \ {k} : op'[j] = op[j]
BY DEF Ask, CallTypeInv, TypeInv, ConnectionTypeOK

LEMMA OpAsks ==
  ASSUME CallTypeInv, NEW k \in Callers, NEW kind \in Kinds, Ask(k, kind)
  PROVE  op' \in [Callers -> Ops] /\ OnConnection'
BY Names DEF Ask, CallTypeInv, TypeInv, ConnectionTypeOK, OnConnection, Ops,
             Steps

LEMMA OpTakes ==
  ASSUME CallTypeInv, NEW k \in Callers, Take(k)
  PROVE  op' \in [Callers -> Ops] /\ OnConnection'
<1>1. op \in [Callers -> Ops] /\ serving \in Connections
  BY DEF Take, CallTypeInv, TypeInv, ConnectionTypeOK, Ops, Connections
<1>2. [op[k] EXCEPT !.step = "send", !.conn = serving] \in Ops
  BY <1>1, Names DEF Ops, Steps
<1>3. op' = [op EXCEPT ![k] = [op[k] EXCEPT !.step = "send", !.conn = serving]]
  BY <1>1 DEF Take, Ops
<1>4. op' \in [Callers -> Ops]
  BY <1>1, <1>2, <1>3
<1>5. \A j \in Callers :
        op'[j] = IF j = k
                 THEN [op[k] EXCEPT !.step = "send", !.conn = serving]
                 ELSE op[j]
  BY <1>1, <1>3
<1>6. op'[k].conn = serving
  BY <1>1, <1>5 DEF Ops
<1>7. QED
  BY <1>1, <1>4, <1>5, <1>6 DEF CallTypeInv, OnConnection

LEMMA ClientType ==
  ASSUME CallTypeInv, NEW k \in Callers,
         ClientStep(k) /\ UNCHANGED batchVars
  PROVE  CallTypeInv'
<1>1. CASE Take(k)
  BY <1>1, OpTakes
  DEF Take, CallTypeInv, TypeInv, ConnectionTypeOK, Ops, batchVars
<1>2. CASE SendSub(k)
  <2>1. op[k].conn \in Connections
    BY <1>2 DEF SendSub, CallTypeInv, OnConnection
  <2>2. /\ awaits' \in [Goroutines -> 0 .. MaxConnections]
        /\ incoming' \in [Connections -> Seq(Packets)]
    BY <1>2, <2>1, Names, SendType DEF SendSub, CallTypeInv
  <2>3. op' \in [Callers -> Ops] /\ OnConnection'
    BY <1>2, OpMoves DEF SendSub, Steps
  <2>4. QED
    BY <1>2, <2>1, <2>2, <2>3
    DEF SendSub, ServerSubscribes, CallTypeInv, TypeInv, ConnectionTypeOK,
        Ops, batchVars
<1>3. CASE SendUnsub(k)
  <2>1. op[k].conn \in Connections
    BY <1>3 DEF SendUnsub, CallTypeInv, OnConnection
  <2>2. /\ awaits' \in [Goroutines -> 0 .. MaxConnections]
        /\ incoming' \in [Connections -> Seq(Packets)]
    BY <1>3, <2>1, Names, SendType DEF SendUnsub, CallTypeInv
  <2>3. op' \in [Callers -> Ops] /\ OnConnection'
    BY <1>3, OpMoves DEF SendUnsub, Steps
  <2>4. QED
    BY <1>3, <2>1, <2>2, <2>3
    DEF SendUnsub, ServerUnsubscribes, CallTypeInv, TypeInv,
        ConnectionTypeOK, Ops, batchVars
<1>4. CASE Forget(k)
  <2>1. op' \in [Callers -> Ops] /\ OnConnection'
    BY <1>4, OpMoves DEF Forget, Steps
  <2>2. QED
    BY <1>4, <2>1
    DEF Forget, CallTypeInv, TypeInv, ConnectionTypeOK, Ops, batchVars
<1>5. QED
  BY <1>1, <1>2, <1>3, <1>4 DEF ClientStep

\* What ErrOrOK leaves behind.
LEMMA AnswerType ==
  ASSUME TypeInv, NEW k \in Callers,
         NEW n \in Connections, OKFor(k, n) \/ ErrFor(k, n)
  PROVE  /\ awaits' \in [Goroutines -> 0 .. MaxConnections]
         /\ incoming' \in [Connections -> Seq(Packets)]
         /\ errs' \in [Connections -> BOOLEAN]
         /\ UNCHANGED <<serving, stage, reader, down, subscriptions,
                        known, unsent>>
         /\ op[k].step = "wait"
<1>1. CASE OKFor(k, n)
  BY <1>1, Names, TakeOKType
  DEF OKFor, TakeOK, Waits, TypeInv, ConnectionTypeOK
<1>2. CASE ErrFor(k, n)
  BY <1>2, Names, TakeErrType
  DEF ErrFor, TakeErr, Waits, TypeInv
<1>3. QED
  BY <1>1, <1>2

\* A step that is none of the client's.
LEMMA ConnectionUnchanged ==
  ASSUME CallTypeInv, UNCHANGED connectionVars
  PROVE  /\ ConnectionTypeOK' /\ OnConnection'
         /\ incoming' \in [Connections -> Seq(Packets)]
BY DEF connectionVars, CallTypeInv, TypeInv, ConnectionTypeOK, OnConnection

LEMMA CallType ==
  ASSUME CallTypeInv, NEW k \in Callers, CallStep(k)
  PROVE  CallTypeInv'
<1>1. CASE SubscribeFails(k) \/ BatchReturns(k)
  <2>1. PICK n \in Connections : OKFor(k, n) \/ ErrFor(k, n)
    BY <1>1 DEF SubscribeFails, BatchReturns
  <2>2. op' \in [Callers -> Ops] /\ OnConnection'
    BY <1>1, OpMoves DEF SubscribeFails, BatchReturns, Steps
  <2>3. QED
    BY <1>1, <2>1, <2>2, AnswerType
    DEF SubscribeFails, BatchReturns, Phases, CallTypeInv, TypeInv,
        ConnectionTypeOK, Ops
<1>2. CASE PublishNext(k)
  <2>1. PICK n \in Connections : OKFor(k, n) \/ ErrFor(k, n)
    BY <1>2 DEF PublishNext
  <2>2. op' \in [Callers -> Ops] /\ OnConnection'
    BY <1>2, OpMoves, OpAsks DEF PublishNext, Steps, Kinds
  <2>3. QED
    BY <1>2, <2>1, <2>2, AnswerType
    DEF PublishNext, Phases, CallTypeInv, TypeInv, ConnectionTypeOK, Ops
<1>3. CASE Publish(k)
  <2>1. op[k].conn \in Connections
    BY <1>3 DEF Publish, SendPub, CallTypeInv, OnConnection
  <2>2. /\ awaits' \in [Goroutines -> 0 .. MaxConnections]
        /\ incoming' \in [Connections -> Seq(Packets)]
    BY <1>3, <2>1, Names, SendType DEF Publish, SendPub, CallTypeInv
  <2>3. op' \in [Callers -> Ops] /\ OnConnection'
    BY <1>3, OpMoves DEF Publish, SendPub, Steps
  <2>4. QED
    BY <1>3, <2>2, <2>3
    DEF Publish, SendPub, CallTypeInv, TypeInv, ConnectionTypeOK, Ops
<1>4. CASE AllReceived(k) \/ TimeOut(k) \/ TakeResponse(k)
  <2>1. UNCHANGED connectionVars
    BY <1>4 DEF AllReceived, TimeOut, TakeResponse
  <2>2. /\ phase' \in [Callers -> Phases] /\ timedOut' \subseteq Callers
        /\ responses' \in [Callers -> SUBSET Reps]
        /\ results' \in [Callers -> SUBSET Reps]
    <3>1. CASE AllReceived(k) \/ TimeOut(k)
      BY <3>1 DEF AllReceived, TimeOut, Phases, CallTypeInv, TypeInv
    <3>2. CASE TakeResponse(k)
      BY <3>2 DEF TakeResponse, CallTypeInv, TypeInv
    <3>3. QED
      BY <1>4, <3>1, <3>2
  <2>3. UNCHANGED <<toAsk, requests, callbacks, pending>>
    BY <1>4 DEF AllReceived, TimeOut, TakeResponse
  <2>4. /\ ConnectionTypeOK' /\ OnConnection'
        /\ incoming' \in [Connections -> Seq(Packets)]
    BY <2>1, ConnectionUnchanged
  <2>5. QED
    BY <2>2, <2>3, <2>4 DEF CallTypeInv, TypeInv
<1>5. CASE Drained(k)
  <2>1. op' \in [Callers -> Ops] /\ OnConnection'
    BY <1>5, OpAsks DEF Drained, Kinds
  <2>2. QED
    BY <1>5, <2>1
    DEF Drained, Phases, CallTypeInv, TypeInv, ConnectionTypeOK, Ops
<1>6. QED
  BY <1>1, <1>2, <1>3, <1>4, <1>5, ClientType DEF CallStep

LEMMA CallbackType ==
  ASSUME CallTypeInv, NEW c \in callbacks, RunCallback(c)
  PROVE  CallTypeInv'
<1>1. c \in Callback /\ c.call \in Callers /\ c.rep \in Reps
  BY DEF Callback, CallTypeInv, TypeInv
<1>2. [c EXCEPT !.step = "done"] \in Callback
  BY <1>1 DEF Callback
<1>3. /\ callbacks' \subseteq Callback
      /\ pending' \in [Callers -> Int]
      /\ responses' \in [Callers -> SUBSET Reps]
  <2>1. callbacks' \subseteq Callback
    BY <1>1, <1>2 DEF RunCallback, CallTypeInv, TypeInv
  <2>2. pending' \in [Callers -> Int]
    BY <1>1 DEF RunCallback, CallTypeInv, TypeInv
  <2>3. responses[c.call] \cup {c.rep} \in SUBSET Reps
    BY <1>1 DEF CallTypeInv, TypeInv
  <2>4. \/ responses' = responses
        \/ responses' =
             [responses EXCEPT ![c.call] = responses[c.call] \cup {c.rep}]
    BY DEF RunCallback
  <2>5. responses' \in [Callers -> SUBSET Reps]
    BY <2>3, <2>4 DEF CallTypeInv, TypeInv
  <2>6. QED
    BY <2>1, <2>2, <2>5
<1>4. QED
  <2>1. /\ ConnectionTypeOK' /\ OnConnection'
        /\ incoming' \in [Connections -> Seq(Packets)]
    BY ConnectionUnchanged DEF RunCallback
  <2>2. QED
    BY <1>3, <2>1 DEF RunCallback, CallTypeInv, TypeInv

LEMMA ReadType ==
  ASSUME CallTypeInv, NEW n \in Connections, ReadStep(n)
  PROVE  CallTypeInv'
<1>1. CASE Dispatch(n)
  <2>1. Head(incoming[n]) \in Packets /\ Tail(incoming[n]) \in Seq(Packets)
    BY <1>1, ReceiveType DEF Dispatch, Receives, CallTypeInv
  <2>2. PICK k \in Callers, r \in Reps : Head(incoming[n]) = MsgPacket(k, r)
    BY <1>1, <2>1
    DEF Dispatch, Receives, Packets, OKPacket, ERRPacket, MsgPacket
  <2>3. callbacks' \subseteq Callback
    BY <1>1, <2>2
    DEF Dispatch, Callback, MsgPacket, CallTypeInv, TypeInv
  <2>4. incoming' \in [Connections -> Seq(Packets)]
    BY <1>1, <2>1 DEF Dispatch, CallTypeInv, TypeInv
  <2>5. QED
    BY <1>1, <2>3, <2>4
    DEF Dispatch, CallTypeInv, TypeInv, ConnectionTypeOK, OnConnection
<1>2. CASE ReadErr(n) /\ UNCHANGED batchVars
  BY <1>2, ReceiveType
  DEF ReadErr, Receives, batchVars, CallTypeInv, TypeInv, ConnectionTypeOK,
      OnConnection
<1>3. CASE ReadFails(n) /\ UNCHANGED batchVars
  <2>1. <<>> \in Seq(Packets)
    OBVIOUS
  <2>2. QED
    BY <1>3, <2>1
    DEF ReadFails, batchVars, CallTypeInv, TypeInv, ConnectionTypeOK,
        OnConnection
<1>4. CASE Disconnected(n) /\ UNCHANGED batchVars
  BY <1>4, Names
  DEF Disconnected, batchVars, CallTypeInv, TypeInv, ConnectionTypeOK,
      OnConnection
<1>5. CASE ReportDisconnected(n) /\ UNCHANGED batchVars
  BY <1>5
  DEF ReportDisconnected, batchVars, CallTypeInv, TypeInv,
      ConnectionTypeOK, OnConnection
<1>6. QED
  BY <1>1, <1>2, <1>3, <1>4, <1>5 DEF ReadStep, ReaderStep

LEMMA ConnectType ==
  ASSUME CallTypeInv, NEW n \in Connections, ConnectStep(n)
  PROVE  CallTypeInv'
<1> USE DEF CallTypeInv, TypeInv, ConnectionTypeOK, OnConnection, batchVars
<1>1. CASE Dial(n) /\ UNCHANGED batchVars
  BY <1>1, Names, SendType DEF Dial
<1>2. CASE HandshakeOK(n) /\ UNCHANGED batchVars
  BY <1>2, Names, TakeOKType DEF HandshakeOK, TakeOK
<1>3. CASE HandshakeFails(n) /\ UNCHANGED batchVars
  BY <1>3, Names, TakeErrType DEF HandshakeFails, TakeErr
<1>4. CASE Snapshot(n) /\ UNCHANGED batchVars
  BY <1>4 DEF Snapshot, UnlessThrough
<1>5. ASSUME NEW k \in Callers, Resend(n, k), UNCHANGED batchVars
      PROVE  CallTypeInv'
  <2>1. /\ awaits' \in [Goroutines -> 0 .. MaxConnections]
        /\ incoming' \in [Connections -> Seq(Packets)]
    BY <1>5, Names, SendType DEF Resend
  <2>2. known' \in [Connections -> SUBSET Callers]
    BY <1>5 DEF Resend, ServerSubscribes
  <2>3. unsent' \in [Connections -> SUBSET Callers]
    BY <1>5 DEF Resend
  <2>4. QED
    BY <1>5, <2>1, <2>2, <2>3 DEF Resend
<1>6. CASE ResendOK(n) /\ UNCHANGED batchVars
  BY <1>6, Names, TakeOKType DEF ResendOK, TakeOK, UnlessThrough
<1>7. CASE ResendFails(n) /\ UNCHANGED batchVars
  BY <1>7, Names, TakeErrType DEF ResendFails, TakeErr
<1>8. QED
  BY <1>1, <1>2, <1>3, <1>4, <1>5, <1>6, <1>7
  DEF ConnectStep, EstablishStep

LEMMA ExternalType ==
  ASSUME CallTypeInv, ExternalStep
  PROVE  CallTypeInv'
<1>1. ASSUME NEW n \in Connections, ServerStep(n), UNCHANGED batchVars
      PROVE  CallTypeInv'
  <2>1. incoming[n] \in Seq(Packets) /\ ERRPacket \in Packets
    BY DEF CallTypeInv, TypeInv, Packets
  <2>2. Append(incoming[n], ERRPacket) \in Seq(Packets)
    BY <2>1, AppendProperties
  <2>3. incoming' \in [Connections -> Seq(Packets)]
    BY <1>1, <2>2 DEF ServerStep, Break, Refuse, CallTypeInv, TypeInv
  <2>4. QED
    BY <1>1, <2>3
    DEF ServerStep, Break, Refuse, Close, batchVars, CallTypeInv, TypeInv,
        ConnectionTypeOK, OnConnection
<1>2. ASSUME NEW k \in Callers, NEW r \in Reps, Reply(k, r)
      PROVE  CallTypeInv'
  <2>1. MsgPacket(k, r) \in Packets
    BY DEF Packets
  <2>2. ASSUME NEW n \in Connections
        PROVE  Append(incoming[n], MsgPacket(k, r)) \in Seq(Packets)
    BY <2>1, AppendProperties DEF CallTypeInv, TypeInv
  <2>3. incoming' \in [Connections -> Seq(Packets)]
    BY <1>2, <2>2 DEF Reply, CallTypeInv, TypeInv
  <2>4. QED
    BY <1>2, <2>3
    DEF Reply, CallTypeInv, TypeInv, ConnectionTypeOK, OnConnection
<1>3. QED
  BY <1>1, <1>2 DEF ExternalStep

LEMMA CallTypeInit == Init => CallTypeInv
BY TypeInit DEF Init, ConnectionInit, CallTypeInv, OnConnection

LEMMA CallTypeStep == CallTypeInv /\ [Next]_vars => CallTypeInv'
<1>1. CallTypeInv /\ UNCHANGED vars => CallTypeInv'
  BY DEF vars, batchVars, connectionVars, CallTypeInv, TypeInv,
         ConnectionTypeOK, OnConnection
<1>2. QED
  BY <1>1, CallType, CallbackType, ReadType, ConnectType, ExternalType
  DEF Next

-----------------------------------------------------------------------------

(***************************************************************************)
(* What connections, and goroutines that use them, go by.                  *)
(***************************************************************************)

\* Errors come from connections that are gone.
ErrsWhenDown ==
  \A n \in Connections :
    /\ reader[n] # "reading" => n \in down
    /\ errs[n] => n \in down
    /\ \A i \in DOMAIN incoming[n] : incoming[n][i] = ERRPacket => n \in down

\* Connections are established one after the other, and then served.
Established == {"snapshot", "resubscribe", "done"}
OneServed ==
  \A n \in Connections :
    /\ stage[n] \in Established => serving = n \/ n \in down
    /\ stage[n] = "failed" => n \in down
    /\ serving = n => stage[n] \notin {"none", "handshake"}
    /\ stage[n] = "handshake" => serving = 0
    /\ stage[n] # "none" =>
         \A m \in 1 .. n - 1 : stage[m] \notin {"none", "handshake"}

\* Subscriptions are known only where they can be served.
KnownWhenEstablished ==
  \A n \in Connections :
    known[n] # {} => n \notin down /\ stage[n] \in Established

\* An answer is awaited once it has been asked for, and where.
AwaitsOwn ==
  /\ \A k \in Callers :
       /\ awaits[k] # 0 => awaits[k] = op[k].conn
       /\ op[k].step \in {"take", "send", "idle"} => awaits[k] = 0
  /\ \A n \in Connections :
       /\ awaits[n] \in {0, n}
       /\ stage[n] = "none" => awaits[n] = 0

\* As long as a connection is read from, those who took it may rely on it.
OpsServed ==
  \A k \in Callers :
    (op[k].conn # 0 /\ reader[op[k].conn] = "reading") => serving = op[k].conn

\* What a caller asks of the client, by where it is in batch.
OpOfPhase ==
  \A k \in Callers :
    /\ phase[k] = "subscribe" =>
         op[k].kind = "sub" /\ op[k].step \in {"take", "send", "wait"}
    /\ phase[k] = "publish" =>
         op[k].kind = "pub" /\ op[k].step \in {"take", "send", "wait"}
    /\ phase[k] \in {"collect", "drain", "returned"} => op[k].step = "idle"
    /\ phase[k] = "leave" => op[k].kind = "unsub"
    /\ phase[k] \in {"collect", "drain"} => op[k].kind # "unsub"

ConnInv ==
  /\ ErrsWhenDown /\ OneServed /\ KnownWhenEstablished
  /\ AwaitsOwn /\ OpsServed /\ OpOfPhase

\* Positions of packets that come and go.
LEMMA Appended ==
  ASSUME NEW s \in Seq(Packets), NEW p \in Packets
  PROVE  /\ DOMAIN Append(s, p) = DOMAIN s \cup {Len(s) + 1}
         /\ \A i \in DOMAIN s : Append(s, p)[i] = s[i]
         /\ Append(s, p)[Len(s) + 1] = p
         /\ Len(s) + 1 \notin DOMAIN s
BY AppendProperties

LEMMA Removed ==
  ASSUME NEW s \in Seq(Packets), s # <<>>
  PROVE  /\ DOMAIN Tail(s) = {i \in Nat : i # 0 /\ i + 1 \in DOMAIN s}
         /\ \A i \in DOMAIN Tail(s) :
              i + 1 \in DOMAIN s /\ Tail(s)[i] = s[i + 1]
         /\ 1 \in DOMAIN s /\ Head(s) = s[1]
BY HeadTailProperties

\* Packets of different types differ.
LEMMA Types ==
  /\ OKPacket \in Packets /\ ERRPacket \in Packets /\ OKPacket # ERRPacket
  /\ \A k \in Callers, r \in Reps :
       /\ MsgPacket(k, r) \in Packets
       /\ MsgPacket(k, r) # OKPacket /\ MsgPacket(k, r) # ERRPacket
<1>1. /\ OKPacket.type = "+OK" /\ ERRPacket.type = "-ERR"
      /\ \A k \in Callers, r \in Reps : MsgPacket(k, r).type = "MSG"
  BY DEF OKPacket, ERRPacket, MsgPacket
<1>2. QED
  BY <1>1 DEF Packets

\* A packet has been read.
LEMMA ErrsAfterRead ==
  ASSUME TypeInv, ErrsWhenDown, NEW n \in Connections, incoming[n] # <<>>,
         incoming' = [incoming EXCEPT ![n] = Tail(@)],
         UNCHANGED <<reader, down>>,
         \A m \in Connections : errs'[m] => m \in down
  PROVE  ErrsWhenDown'
<1>1. ASSUME NEW i \in DOMAIN incoming'[n], incoming'[n][i] = ERRPacket
      PROVE  n \in down
  <2>1. incoming'[n] = Tail(incoming[n]) /\ incoming[n] \in Seq(Packets)
    BY DEF TypeInv
  <2>2. i + 1 \in DOMAIN incoming[n] /\ incoming[n][i + 1] = ERRPacket
    BY <1>1, <2>1, Removed
  <2>3. QED
    BY <2>2 DEF ErrsWhenDown
<1>2. \A m \in Connections \ {n} : incoming'[m] = incoming[m]
  BY DEF TypeInv
<1>3. QED
  BY <1>1, <1>2 DEF ErrsWhenDown

LEMMA ClientConn ==
  ASSUME CallTypeInv, ConnInv,
         NEW k \in Callers, ClientStep(k) /\ UNCHANGED batchVars
  PROVE  ConnInv'
<1> USE DEF CallTypeInv, TypeInv, ConnectionTypeOK, ConnInv, ErrsWhenDown,
            OneServed, KnownWhenEstablished, AwaitsOwn, OpsServed, OpOfPhase,
            Established
<1>1. CASE Take(k) /\ UNCHANGED batchVars
  BY <1>1, Names DEF Take, batchVars
<1>2. CASE SendSub(k) /\ UNCHANGED batchVars
  <2>1. ErrsWhenDown' /\ OneServed' /\ KnownWhenEstablished'
    BY <1>2, Names, Types, Appended
    DEF SendSub, ServerSubscribes, SendAndWait, batchVars
  <2>2. AwaitsOwn' /\ OpsServed' /\ OpOfPhase'
    BY <1>2, Names, Types, Appended
    DEF SendSub, ServerSubscribes, SendAndWait, batchVars
  <2>3. QED
    BY <2>1, <2>2
<1>3. CASE SendUnsub(k) /\ UNCHANGED batchVars
  <2>1. ErrsWhenDown' /\ OneServed' /\ KnownWhenEstablished'
    BY <1>3, Names, Types, Appended
    DEF SendUnsub, ServerUnsubscribes, SendAndWait, batchVars
  <2>2. AwaitsOwn' /\ OpsServed' /\ OpOfPhase'
    BY <1>3, Names, Types, Appended
    DEF SendUnsub, ServerUnsubscribes, SendAndWait, batchVars
  <2>3. QED
    BY <2>1, <2>2
<1>4. CASE Forget(k) /\ UNCHANGED batchVars
  BY <1>4, Names DEF Forget, batchVars
<1>5. QED
  BY <1>1, <1>2, <1>3, <1>4 DEF ClientStep

\* ErrOrOK has returned to a caller.
LEMMA AnswerConn ==
  ASSUME CallTypeInv, ConnInv, NEW k \in Callers,
         \E n \in Connections : OKFor(k, n) \/ ErrFor(k, n)
  PROVE  /\ ErrsWhenDown' /\ OneServed' /\ KnownWhenEstablished'
         /\ awaits' = [awaits EXCEPT ![k] = 0]
         /\ op[k].step = "wait"
         /\ UNCHANGED <<serving, stage, reader, down, subscriptions, known,
                        unsent>>
<1> USE DEF CallTypeInv, TypeInv, ConnectionTypeOK, ConnInv, ErrsWhenDown,
            OneServed, KnownWhenEstablished, AwaitsOwn, OpsServed, OpOfPhase,
            Established
<1>1. PICK n \in Connections : OKFor(k, n) \/ ErrFor(k, n)
  OBVIOUS
<1>2. CASE OKFor(k, n)
  <2>1. ErrsWhenDown'
    BY <1>2, ErrsAfterRead DEF OKFor, TakeOK, Receives
  <2>2. QED
    BY <1>2, <2>1 DEF OKFor, TakeOK, Waits
<1>3. CASE ErrFor(k, n)
  BY <1>3 DEF ErrFor, TakeErr, Waits
<1>4. QED
  BY <1>1, <1>2, <1>3

LEMMA CallConn ==
  ASSUME CallTypeInv, ConnInv, NEW k \in Callers, CallStep(k)
  PROVE  ConnInv'
<1>1. CASE SubscribeFails(k) \/ BatchReturns(k) \/ PublishNext(k)
  <2>1. \E n \in Connections : OKFor(k, n) \/ ErrFor(k, n)
    BY <1>1 DEF SubscribeFails, BatchReturns, PublishNext
  <2>2. /\ ErrsWhenDown' /\ OneServed' /\ KnownWhenEstablished'
        /\ awaits' = [awaits EXCEPT ![k] = 0]
        /\ op[k].step = "wait"
        /\ UNCHANGED <<serving, stage, reader>>
    BY <2>1, AnswerConn
  <2>3. /\ awaits'[k] = 0
        /\ \A g \in Goroutines \ {k} : awaits'[g] = awaits[g]
    BY <2>2, Names DEF CallTypeInv, TypeInv, ConnectionTypeOK
  <2>4. AwaitsOwn' /\ OpsServed' /\ OpOfPhase'
    <3>1. CASE SubscribeFails(k) \/ BatchReturns(k)
      <4>1. /\ op'[k].step = "idle" /\ op'[k].conn = op[k].conn
            /\ \A j \in Callers \ {k} : op'[j] = op[j]
        BY <3>1, OpFields DEF SubscribeFails, BatchReturns, Steps
      <4>2. /\ phase'[k] = "returned"
            /\ \A j \in Callers \ {k} : phase'[j] = phase[j]
        BY <3>1 DEF SubscribeFails, BatchReturns, CallTypeInv, TypeInv
      <4>3. QED
        BY <2>2, <2>3, <4>1, <4>2, Names
        DEF ConnInv, AwaitsOwn, OpsServed, OpOfPhase
    <3>2. CASE PublishNext(k)
      <4>1. phase[k] \in {"subscribe", "publish"}
        BY <3>2 DEF PublishNext
      <4>2. \A j \in Callers \ {k} : phase'[j] = phase[j]
        BY <3>2 DEF PublishNext, CallTypeInv, TypeInv
      <4>3. CASE toAsk[k] = {}
        <5>1. phase'[k] = "collect"
          BY <3>2, <4>3 DEF PublishNext, CallTypeInv, TypeInv
        <5>2. /\ op'[k].step = "idle"
              /\ op'[k].kind = op[k].kind /\ op'[k].conn = op[k].conn
              /\ \A j \in Callers \ {k} : op'[j] = op[j]
          BY <3>2, <4>3, OpFields DEF PublishNext, Steps
        <5>3. QED
          BY <2>2, <2>3, <4>1, <4>2, <5>1, <5>2, Names
          DEF ConnInv, AwaitsOwn, OpsServed, OpOfPhase
      <4>4. CASE toAsk[k] # {}
        <5>1. phase'[k] = "publish"
          BY <3>2, <4>4 DEF PublishNext, CallTypeInv, TypeInv
        <5>2. /\ op'[k].step = "take"
              /\ op'[k].kind = "pub" /\ op'[k].conn = 0
              /\ \A j \in Callers \ {k} : op'[j] = op[j]
          BY <3>2, <4>4, AskFields DEF PublishNext, Kinds
        <5>3. QED
          BY <2>2, <2>3, <4>1, <4>2, <5>1, <5>2, Names
          DEF ConnInv, AwaitsOwn, OpsServed, OpOfPhase
      <4>5. QED
        BY <4>3, <4>4
    <3>3. QED
      BY <1>1, <3>1, <3>2
  <2>5. QED
    BY <2>2, <2>4 DEF ConnInv
<1> USE DEF CallTypeInv, TypeInv, ConnectionTypeOK, ConnInv, ErrsWhenDown,
            OneServed, KnownWhenEstablished, AwaitsOwn, OpsServed, OpOfPhase,
            Established
<1>3. CASE Publish(k)
  <2>1. ErrsWhenDown' /\ OneServed' /\ KnownWhenEstablished'
    BY <1>3, Names, Types, Appended DEF Publish, SendPub, SendAndWait
  <2>2. AwaitsOwn' /\ OpsServed' /\ OpOfPhase'
    BY <1>3, Names, Types, Appended DEF Publish, SendPub, SendAndWait
  <2>3. QED
    BY <2>1, <2>2
<1>4. CASE AllReceived(k) \/ TimeOut(k) \/ TakeResponse(k)
  BY <1>4 DEF AllReceived, TimeOut, TakeResponse, connectionVars
<1>5. CASE Drained(k)
  BY <1>5, Names DEF Drained, Ask
<1>6. QED
  BY <1>1, <1>3, <1>4, <1>5, ClientConn DEF CallStep

LEMMA CallbackConn ==
  ASSUME CallTypeInv, ConnInv,
         NEW c \in callbacks, RunCallback(c)
  PROVE  ConnInv'
<1> USE DEF CallTypeInv, TypeInv, ConnectionTypeOK, ConnInv, ErrsWhenDown,
            OneServed, KnownWhenEstablished, AwaitsOwn, OpsServed, OpOfPhase,
            Established
<1>1. QED
  BY DEF RunCallback, connectionVars

LEMMA ReadConn ==
  ASSUME CallTypeInv, ConnInv,
         NEW n \in Connections, ReadStep(n)
  PROVE  ConnInv'
<1> USE DEF CallTypeInv, TypeInv, ConnectionTypeOK, ConnInv, ErrsWhenDown,
            OneServed, KnownWhenEstablished, AwaitsOwn, OpsServed, OpOfPhase,
            Established
<1>1. CASE Dispatch(n)
  <2>1. ErrsWhenDown'
    BY <1>1, ErrsAfterRead DEF Dispatch, Receives
  <2>2. OneServed' /\ KnownWhenEstablished'
    BY <1>1, Names DEF Dispatch, Receives
  <2>3. AwaitsOwn' /\ OpsServed' /\ OpOfPhase'
    BY <1>1, Names DEF Dispatch, Receives
  <2>4. QED
    BY <2>1, <2>2, <2>3
<1>2. CASE ReadErr(n) /\ UNCHANGED batchVars
  <2>1. n \in down
    <3>1. Head(incoming[n]) \in Packets /\ Head(incoming[n]).type = "-ERR"
      BY <1>2, ReceiveType DEF ReadErr, Receives
    <3>2. Head(incoming[n]) = ERRPacket
      BY <3>1 DEF Packets, OKPacket, MsgPacket
    <3>3. 1 \in DOMAIN incoming[n] /\ incoming[n][1] = ERRPacket
      BY <1>2, <3>2, Removed DEF ReadErr, Receives
    <3>4. QED
      BY <3>3
  <2>2. ErrsWhenDown'
    BY <1>2, <2>1, ErrsAfterRead DEF ReadErr, Receives
  <2>3. QED
    BY <1>2, <2>2 DEF ReadErr, batchVars
<1>3. CASE ReadFails(n) /\ UNCHANGED batchVars
  BY <1>3, Names DEF ReadFails, batchVars
<1>4. CASE Disconnected(n) /\ UNCHANGED batchVars
  <2>1. ErrsWhenDown' /\ OneServed' /\ KnownWhenEstablished'
    BY <1>4, Names DEF Disconnected, batchVars
  <2>2. AwaitsOwn' /\ OpsServed' /\ OpOfPhase'
    BY <1>4, Names DEF Disconnected, batchVars
  <2>3. QED
    BY <2>1, <2>2
<1>5. CASE ReportDisconnected(n) /\ UNCHANGED batchVars
  BY <1>5, Names DEF ReportDisconnected, batchVars
<1>6. QED
  BY <1>1, <1>2, <1>3, <1>4, <1>5 DEF ReadStep, ReaderStep

LEMMA ConnectConn ==
  ASSUME CallTypeInv, ConnInv,
         NEW n \in Connections, ConnectStep(n)
  PROVE  ConnInv'
<1> USE DEF CallTypeInv, TypeInv, ConnectionTypeOK, ConnInv, ErrsWhenDown,
            OneServed, KnownWhenEstablished, AwaitsOwn, OpsServed, OpOfPhase,
            Established
<1>1. CASE Dial(n) /\ UNCHANGED batchVars
  <2>1. ErrsWhenDown' /\ OneServed' /\ KnownWhenEstablished'
    BY <1>1, Names, Types, Appended DEF Dial, SendAndWait, batchVars
  <2>2. AwaitsOwn' /\ OpsServed' /\ OpOfPhase'
    BY <1>1, Names, Types, Appended DEF Dial, SendAndWait, batchVars
  <2>3. QED
    BY <2>1, <2>2
<1>2. CASE HandshakeOK(n) /\ UNCHANGED batchVars
  <2>1. ErrsWhenDown'
    BY <1>2, ErrsAfterRead DEF HandshakeOK, TakeOK, Receives, batchVars
  <2>2. OneServed' /\ KnownWhenEstablished'
    BY <1>2, Names DEF HandshakeOK, TakeOK, Waits, Receives, batchVars
  <2>3. AwaitsOwn' /\ OpsServed' /\ OpOfPhase'
    BY <1>2, Names DEF HandshakeOK, TakeOK, Waits, Receives, batchVars
  <2>4. QED
    BY <2>1, <2>2, <2>3
<1>3. CASE HandshakeFails(n) /\ UNCHANGED batchVars
  <2>1. ErrsWhenDown' /\ OneServed' /\ KnownWhenEstablished'
    BY <1>3, Names DEF HandshakeFails, TakeErr, Waits, batchVars
  <2>2. AwaitsOwn' /\ OpsServed' /\ OpOfPhase'
    BY <1>3, Names DEF HandshakeFails, TakeErr, Waits, batchVars
  <2>3. QED
    BY <2>1, <2>2
<1>4. CASE Snapshot(n) /\ UNCHANGED batchVars
  <2>1. ErrsWhenDown' /\ OneServed' /\ KnownWhenEstablished'
    BY <1>4, Names DEF Snapshot, UnlessThrough, batchVars
  <2>2. AwaitsOwn' /\ OpsServed' /\ OpOfPhase'
    BY <1>4, Names DEF Snapshot, UnlessThrough, batchVars
  <2>3. QED
    BY <2>1, <2>2
<1>5. ASSUME NEW k \in Callers, Resend(n, k), UNCHANGED batchVars
      PROVE  ConnInv'
  <2>1. ErrsWhenDown' /\ OneServed' /\ KnownWhenEstablished'
    BY <1>5, Names, Types, Appended
    DEF Resend, ServerSubscribes, SendAndWait, batchVars
  <2>2. AwaitsOwn' /\ OpsServed' /\ OpOfPhase'
    BY <1>5, Names, Types, Appended
    DEF Resend, ServerSubscribes, SendAndWait, batchVars
  <2>3. QED
    BY <2>1, <2>2
<1>6. CASE ResendOK(n) /\ UNCHANGED batchVars
  <2>1. ErrsWhenDown'
    BY <1>6, ErrsAfterRead
    DEF ResendOK, TakeOK, Receives, UnlessThrough, batchVars
  <2>2. OneServed' /\ KnownWhenEstablished'
    BY <1>6, Names
    DEF ResendOK, TakeOK, Waits, Receives, UnlessThrough, batchVars
  <2>3. AwaitsOwn' /\ OpsServed' /\ OpOfPhase'
    BY <1>6, Names
    DEF ResendOK, TakeOK, Waits, Receives, UnlessThrough, batchVars
  <2>4. QED
    BY <2>1, <2>2, <2>3
<1>7. CASE ResendFails(n) /\ UNCHANGED batchVars
  <2>1. ErrsWhenDown' /\ OneServed' /\ KnownWhenEstablished'
    BY <1>7, Names DEF ResendFails, TakeErr, Waits, batchVars
  <2>2. AwaitsOwn' /\ OpsServed' /\ OpOfPhase'
    BY <1>7, Names DEF ResendFails, TakeErr, Waits, batchVars
  <2>3. QED
    BY <2>1, <2>2
<1>8. QED
  BY <1>1, <1>2, <1>3, <1>4, <1>5, <1>6, <1>7
  DEF ConnectStep, EstablishStep

LEMMA ExternalConn ==
  ASSUME CallTypeInv, ConnInv,
         ExternalStep
  PROVE  ConnInv'
<1> USE DEF CallTypeInv, TypeInv, ConnectionTypeOK, ConnInv, ErrsWhenDown,
            OneServed, KnownWhenEstablished, AwaitsOwn, OpsServed, OpOfPhase,
            Established
<1>1. ASSUME NEW n \in Connections, ServerStep(n), UNCHANGED batchVars
      PROVE  ConnInv'
  <2>1. ErrsWhenDown' /\ OneServed' /\ KnownWhenEstablished'
    <3>1. CASE Break(n)
      BY <1>1, <3>1, Names DEF Break, Close, Up, batchVars
    <3>2. CASE Refuse(n)
      BY <1>1, <3>2, Names, Types, Appended DEF Refuse, Close, Up, batchVars
    <3>3. QED
      BY <1>1, <3>1, <3>2 DEF ServerStep
  <2>2. AwaitsOwn' /\ OpsServed' /\ OpOfPhase'
    BY <1>1, Names, Types, Appended
    DEF ServerStep, Break, Refuse, Close, Up, batchVars
  <2>3. QED
    BY <2>1, <2>2
<1>2. ASSUME NEW k \in Callers, NEW r \in Reps, Reply(k, r)
      PROVE  ConnInv'
  <2>1. ErrsWhenDown' /\ OneServed' /\ KnownWhenEstablished'
    BY <1>2, Names, Types, Appended DEF Reply, Up
  <2>2. AwaitsOwn' /\ OpsServed' /\ OpOfPhase'
    BY <1>2, Names, Types, Appended DEF Reply, Up
  <2>3. QED
    BY <2>1, <2>2
<1>3. QED
  BY <1>1, <1>2 DEF ExternalStep

LEMMA ConnInit == Init => ConnInv
BY Names DEF Init, ConnectionInit, ConnInv, ErrsWhenDown, OneServed,
   KnownWhenEstablished, AwaitsOwn, OpsServed, OpOfPhase, Established,
   Connections

LEMMA ConnStep == CallTypeInv /\ ConnInv /\ [Next]_vars => ConnInv'
<1>1. ConnInv /\ UNCHANGED vars => ConnInv'
  BY DEF vars, batchVars, connectionVars, ConnInv, ErrsWhenDown, OneServed,
     KnownWhenEstablished, AwaitsOwn, OpsServed, OpOfPhase
<1>2. QED
  BY <1>1, CallConn, CallbackConn, ReadConn, ConnectConn, ExternalConn
  DEF Next

-----------------------------------------------------------------------------

\* What becomes of a subscription: entered before the server knows, and kept
\* by whoever establishes the next connection.
SubInv ==
  \A k \in Callers :
    /\ (phase[k] = "subscribe" /\ op[k].step = "wait") =>
         /\ k \in subscriptions
         /\ op[k].conn \notin down => k \in known[op[k].conn]
    /\ IsSubscribed(k) =>
         /\ k \in subscriptions
         /\ \A n \in Connections \ down :
              /\ stage[n] = "resubscribe" => k \in unsent[n] \cup known[n]
              /\ stage[n] = "done" => k \in known[n]

LEMMA ClientSub ==
  ASSUME CallTypeInv, ConnInv, SubInv,
         NEW k \in Callers, ClientStep(k) /\ UNCHANGED batchVars
  PROVE  SubInv'
<1> USE DEF CallTypeInv, TypeInv, ConnectionTypeOK, ConnInv, SubInv,
            OpOfPhase, IsSubscribed
<1>1. CASE Take(k)
  BY <1>1 DEF Take, batchVars
<1>2. CASE SendSub(k)
  <2>1. op[k].conn \in Connections
    BY <1>2 DEF SendSub, OnConnection
  <2>2. QED
    BY <1>2, <2>1 DEF SendSub, ServerSubscribes, batchVars
<1>3. CASE SendUnsub(k)
  <2>1. op[k].conn \in Connections
    BY <1>3 DEF SendUnsub, OnConnection
  <2>2. QED
    BY <1>3, <2>1 DEF SendUnsub, ServerUnsubscribes, batchVars
<1>4. CASE Forget(k)
  BY <1>4 DEF Forget, batchVars
<1>5. QED
  BY <1>1, <1>2, <1>3, <1>4 DEF ClientStep

\* Subscribe returns to a caller: whoever serves its connection knows.
LEMMA BecomesSubscribed ==
  ASSUME CallTypeInv, ConnInv, SubInv, NEW k \in Callers,
         phase[k] = "subscribe", NEW n \in Connections, OKFor(k, n)
  PROVE  /\ k \in subscriptions
         /\ \A m \in Connections \ down :
              stage[m] \in {"resubscribe", "done"} => k \in known[m]
<1>1. op[k].step = "wait" /\ awaits[k] = n /\ reader[n] = "reading"
  BY DEF OKFor, TakeOK, Waits, Receives
<1>2. op[k].conn = n /\ n # 0
  BY <1>1, Names DEF ConnInv, AwaitsOwn
<1>3. serving = n
  BY <1>1, <1>2 DEF ConnInv, OpsServed
<1>4. ASSUME NEW m \in Connections \ down,
             stage[m] \in {"resubscribe", "done"}
      PROVE  m = n
  BY <1>3, <1>4 DEF ConnInv, OneServed, Established
<1>5. QED
  BY <1>1, <1>2, <1>4 DEF SubInv

LEMMA AnswerChanges ==
  ASSUME CallTypeInv, NEW k \in Callers,
         \E n \in Connections : OKFor(k, n) \/ ErrFor(k, n)
  PROVE  UNCHANGED <<serving, stage, reader, down, subscriptions, known,
                     unsent>>
BY AnswerType DEF CallTypeInv

LEMMA CallSub ==
  ASSUME CallTypeInv, ConnInv, SubInv, NEW k \in Callers, CallStep(k)
  PROVE  SubInv'
<1>1. CASE SubscribeFails(k) \/ BatchReturns(k)
  <2>1. \E n \in Connections : OKFor(k, n) \/ ErrFor(k, n)
    BY <1>1 DEF SubscribeFails, BatchReturns
  <2>2. UNCHANGED <<stage, down, subscriptions, known, unsent>>
    BY <2>1, AnswerChanges
  <2>3. /\ op'[k].step = "idle" /\ \A j \in Callers \ {k} : op'[j] = op[j]
    BY <1>1, OpFields DEF SubscribeFails, BatchReturns, Steps
  <2>4. /\ phase'[k] = "returned"
        /\ \A j \in Callers \ {k} : phase'[j] = phase[j]
    BY <1>1 DEF SubscribeFails, BatchReturns, CallTypeInv, TypeInv
  <2>5. QED
    BY <2>2, <2>3, <2>4 DEF SubInv, IsSubscribed
<1>2. CASE PublishNext(k)
  <2>1. \E n \in Connections : OKFor(k, n) \/ ErrFor(k, n)
    BY <1>2 DEF PublishNext
  <2>2. UNCHANGED <<stage, down, subscriptions, known, unsent>>
    BY <2>1, AnswerChanges
  <2>3. \A j \in Callers \ {k} : op'[j] = op[j] /\ phase'[j] = phase[j]
    BY <1>2, OpFields, AskFields
    DEF PublishNext, Steps, Kinds, CallTypeInv, TypeInv
  <2>4. phase'[k] # "subscribe"
    BY <1>2 DEF PublishNext, CallTypeInv, TypeInv
  <2>5. CASE phase[k] = "subscribe"
    <3>1. PICK n \in Connections : OKFor(k, n)
      BY <1>2, <2>5 DEF PublishNext
    <3>2. /\ k \in subscriptions
          /\ \A m \in Connections \ down :
               stage[m] \in {"resubscribe", "done"} => k \in known[m]
      BY <2>5, <3>1, BecomesSubscribed
    <3>3. QED
      BY <2>2, <2>3, <2>4, <3>2 DEF SubInv, IsSubscribed
  <2>6. CASE phase[k] # "subscribe"
    <3>1. IsSubscribed(k)
      BY <1>2, <2>6 DEF PublishNext, IsSubscribed
    <3>2. QED
      BY <2>2, <2>3, <2>4, <3>1 DEF SubInv, IsSubscribed
  <2>7. QED
    BY <2>5, <2>6
<1> USE DEF CallTypeInv, TypeInv, ConnectionTypeOK, ConnInv, SubInv,
            OpOfPhase, IsSubscribed
<1>3. CASE Publish(k)
  BY <1>3 DEF Publish, SendPub
<1>4. CASE AllReceived(k) \/ TimeOut(k) \/ TakeResponse(k)
  BY <1>4 DEF AllReceived, TimeOut, TakeResponse, connectionVars
<1>5. CASE Drained(k)
  BY <1>5 DEF Drained, Ask
<1>6. QED
  BY <1>1, <1>2, <1>3, <1>4, <1>5, ClientSub DEF CallStep

LEMMA CallbackSub ==
  ASSUME CallTypeInv, ConnInv, SubInv,
         NEW c \in callbacks, RunCallback(c)
  PROVE  SubInv'
<1> USE DEF CallTypeInv, TypeInv, ConnectionTypeOK, ConnInv, SubInv,
            OpOfPhase, IsSubscribed
<1>1. QED
  BY DEF RunCallback, connectionVars

LEMMA ReadSub ==
  ASSUME CallTypeInv, ConnInv, SubInv,
         NEW n \in Connections, ReadStep(n)
  PROVE  SubInv'
<1> USE DEF CallTypeInv, TypeInv, ConnectionTypeOK, ConnInv, SubInv,
            OpOfPhase, IsSubscribed
<1>1. CASE Dispatch(n)
  BY <1>1 DEF Dispatch
<1>2. CASE ReaderStep(n) /\ UNCHANGED batchVars
  BY <1>2
  DEF ReaderStep, ReadErr, ReadFails, Disconnected, ReportDisconnected,
      batchVars
<1>3. QED
  BY <1>1, <1>2 DEF ReadStep

LEMMA ConnectSub ==
  ASSUME CallTypeInv, ConnInv, SubInv,
         NEW n \in Connections, ConnectStep(n)
  PROVE  SubInv'
<1> USE DEF CallTypeInv, TypeInv, ConnectionTypeOK, ConnInv, SubInv,
            OpOfPhase, IsSubscribed
<1>1. CASE Dial(n) /\ UNCHANGED batchVars
  BY <1>1 DEF Dial, batchVars
<1>2. CASE HandshakeOK(n) /\ UNCHANGED batchVars
  BY <1>2 DEF HandshakeOK, TakeOK, batchVars
<1>3. CASE HandshakeFails(n) /\ UNCHANGED batchVars
  BY <1>3 DEF HandshakeFails, TakeErr, batchVars
<1>4. CASE Snapshot(n) /\ UNCHANGED batchVars
  BY <1>4 DEF Snapshot, UnlessThrough, batchVars
<1>5. ASSUME NEW k \in Callers, Resend(n, k), UNCHANGED batchVars
      PROVE  SubInv'
  BY <1>5 DEF Resend, ServerSubscribes, batchVars
<1>6. CASE ResendOK(n) /\ UNCHANGED batchVars
  BY <1>6 DEF ResendOK, TakeOK, UnlessThrough, batchVars
<1>7. CASE ResendFails(n) /\ UNCHANGED batchVars
  BY <1>7 DEF ResendFails, TakeErr, batchVars
<1>8. QED
  BY <1>1, <1>2, <1>3, <1>4, <1>5, <1>6, <1>7
  DEF ConnectStep, EstablishStep

LEMMA ExternalSub ==
  ASSUME CallTypeInv, ConnInv, SubInv,
         ExternalStep
  PROVE  SubInv'
<1> USE DEF CallTypeInv, TypeInv, ConnectionTypeOK, ConnInv, SubInv,
            OpOfPhase, IsSubscribed
<1>1. ASSUME NEW n \in Connections, ServerStep(n), UNCHANGED batchVars
      PROVE  SubInv'
  <2>1. /\ down' = down \cup {n}
        /\ UNCHANGED <<stage, subscriptions, unsent, op, phase>>
    BY <1>1 DEF ServerStep, Break, Refuse, Close, batchVars
  <2>2. \A m \in Connections \ {n} : known'[m] = known[m]
    BY <1>1 DEF ServerStep, Break, Refuse, Close
  <2>3. QED
    BY <2>1, <2>2 DEF OnConnection
<1>2. ASSUME NEW k \in Callers, NEW r \in Reps, Reply(k, r)
      PROVE  SubInv'
  BY <1>2 DEF Reply
<1>3. QED
  BY <1>1, <1>2 DEF ExternalStep

LEMMA SubInit == Init => SubInv
BY DEF Init, ConnectionInit, SubInv, IsSubscribed

LEMMA SubStep == CallTypeInv /\ ConnInv /\ SubInv /\ [Next]_vars => SubInv'
<1>1. SubInv /\ UNCHANGED vars => SubInv'
  BY DEF vars, batchVars, connectionVars, SubInv, IsSubscribed
<1>2. QED
  BY <1>1, CallSub, CallbackSub, ReadSub, ConnectSub, ExternalSub DEF Next

(***************************************************************************)
(* Whoever Subscribe told that it is subscribed still is after connections *)
(* have been lost, whether it subscribed before, during or after the       *)
(* client did so again (SendSub, Snapshot, Resend, Close).                 *)
(***************************************************************************)
THEOREM StaysSubscribed == Spec => []SubscribedWhereServed
<1>1. Init => CallTypeInv /\ ConnInv /\ SubInv
  BY CallTypeInit, ConnInit, SubInit
<1>2. CallTypeInv /\ ConnInv /\ SubInv /\ [Next]_vars
        => (CallTypeInv /\ ConnInv /\ SubInv)'
  BY CallTypeStep, ConnStep, SubStep
<1>3. SubInv => SubscribedWhereServed
  BY DEF SubInv, SubscribedWhereServed
<1>4. QED
  BY <1>1, <1>2, <1>3, PTL DEF Spec

-----------------------------------------------------------------------------

\* Where the +OKs are in a sequence of packets.
Positions(s) == {i \in DOMAIN s : s[i] = OKPacket}

LEMMA PositionsFinite ==
  ASSUME NEW s \in Seq(Packets)
  PROVE  IsFiniteSet(Positions(s)) /\ Cardinality(Positions(s)) \in Nat
<1>1. Positions(s) \in SUBSET (1 .. Len(s)) /\ Len(s) \in Int
  BY LenProperties DEF Positions
<1>2. IsFiniteSet(1 .. Len(s))
  BY <1>1, FS_Interval
<1>3. IsFiniteSet(Positions(s))
  BY <1>1, <1>2, FS_Subset
<1>4. QED
  BY <1>3, FS_CardinalityType

LEMMA PositionsAppended ==
  ASSUME NEW s \in Seq(Packets), NEW p \in Packets
  PROVE  Cardinality(Positions(Append(s, p))) =
           IF p = OKPacket THEN Cardinality(Positions(s)) + 1
           ELSE Cardinality(Positions(s))
<1>1. Len(s) + 1 \notin Positions(s)
  BY Appended DEF Positions
<1>2. Positions(Append(s, p)) =
        IF p = OKPacket THEN Positions(s) \cup {Len(s) + 1} ELSE Positions(s)
  BY Appended DEF Positions
<1>3. QED
  BY <1>1, <1>2, PositionsFinite, FS_AddElement

LEMMA PositionsRemoved ==
  ASSUME NEW s \in Seq(Packets), s # <<>>
  PROVE  Cardinality(Positions(s)) =
           IF Head(s) = OKPacket THEN Cardinality(Positions(Tail(s))) + 1
           ELSE Cardinality(Positions(Tail(s)))
<1> DEFINE T == Positions(Tail(s))
           U == Positions(s) \ {1}
           f == [i \in T |-> i + 1]
<1>1. f \in Bijection(T, U)
  <2>1. \A i \in T : i \in Nat /\ i # 0 /\ i + 1 \in U
    BY Removed DEF Positions
  <2>2. \A j \in U : j \in Nat /\ j - 1 \in T /\ (j - 1) + 1 = j
    <3>1. TAKE j \in U
    <3>2. j \in Nat /\ j # 0 /\ j # 1 /\ j \in DOMAIN s
      BY LenProperties DEF Positions
    <3>3. j - 1 \in Nat /\ j - 1 # 0 /\ (j - 1) + 1 = j
      BY <3>2
    <3>4. j - 1 \in DOMAIN Tail(s)
      BY <3>2, <3>3, Removed
    <3>5. QED
      BY <3>2, <3>3, <3>4, Removed DEF Positions
  <2>3. \A i, j \in T : f[i] = f[j] => i = j
    BY <2>1
  <2>4. \A j \in U : \E i \in T : f[i] = j
    BY <2>2
  <2>5. f \in [T -> U]
    BY <2>1
  <2>6. QED
    BY <2>3, <2>4, <2>5 DEF Bijection, Injection, Surjection, IsInjective
<1>2. Tail(s) \in Seq(Packets)
  BY HeadTailProperties
<1>3. Cardinality(U) = Cardinality(T)
  <2>1. ExistsBijection(T, U) /\ IsFiniteSet(T)
    BY <1>1, <1>2, PositionsFinite DEF ExistsBijection
  <2>2. QED
    BY <2>1, FS_Bijection
<1>4. 1 \in Positions(s) <=> Head(s) = OKPacket
  BY Removed DEF Positions
<1>5. /\ IsFiniteSet(Positions(s)) /\ Cardinality(Positions(s)) \in Nat
      /\ Cardinality(U) = IF 1 \in Positions(s)
                          THEN Cardinality(Positions(s)) - 1
                          ELSE Cardinality(Positions(s))
  BY PositionsFinite, FS_RemoveElement
<1> HIDE DEF T, U
<1>6. Cardinality(T) =
        IF Head(s) = OKPacket THEN Cardinality(Positions(s)) - 1
        ELSE Cardinality(Positions(s))
  BY <1>3, <1>4, <1>5
<1>7. QED
  BY <1>5, <1>6 DEF T

\* OneOKEach, and that it counts.
OKInv ==
  \A n \in Connections :
    /\ IsFiniteSet(Waiting(n))
    /\ n \notin down =>
         Cardinality(Waiting(n)) = Cardinality(Positions(incoming[n]))

\* A packet is sent, and its answer awaited.
LEMMA SendOKs ==
  ASSUME CallTypeInv, OKInv, NEW g \in Goroutines, NEW n \in Connections,
         awaits[g] = 0, SendAndWait(g, n), UNCHANGED down
  PROVE  OKInv'
<1>1. /\ \A h \in Goroutines : awaits'[h] = IF h = g THEN n ELSE awaits[h]
      /\ n # 0
  BY Names DEF SendAndWait, CallTypeInv, TypeInv, ConnectionTypeOK
<1>2. \A m \in Connections \ {n} :
        Waiting(m)' = Waiting(m) /\ incoming'[m] = incoming[m]
  BY <1>1, Names DEF Waiting, SendAndWait, CallTypeInv, TypeInv
<1>3. Waiting(n)' = Waiting(n) \cup {g} /\ g \notin Waiting(n)
  BY <1>1 DEF Waiting
<1>4. /\ IsFiniteSet(Waiting(n)')
      /\ Cardinality(Waiting(n)') = Cardinality(Waiting(n)) + 1
  BY <1>3, FS_AddElement DEF OKInv
<1>5. ASSUME n \notin down
      PROVE  Cardinality(Positions(incoming'[n])) =
               Cardinality(Positions(incoming[n])) + 1
  <2>1. incoming'[n] = Append(incoming[n], OKPacket)
    BY <1>5 DEF SendAndWait, CallTypeInv, TypeInv
  <2>2. QED
    BY <2>1, PositionsAppended, Types DEF CallTypeInv, TypeInv
<1>6. QED
  BY <1>2, <1>4, <1>5 DEF OKInv

\* A packet is read by the goroutine that reads, and no +OK handed over.
LEMMA ReadOKs ==
  ASSUME CallTypeInv, OKInv, NEW n \in Connections, incoming[n] # <<>>,
         n \in down \/ Head(incoming[n]) # OKPacket,
         incoming' = [incoming EXCEPT ![n] = Tail(@)],
         UNCHANGED <<awaits, down>>
  PROVE  OKInv'
<1>1. \A m \in Connections : Waiting(m)' = Waiting(m)
  BY DEF Waiting
<1>2. \A m \in Connections \ {n} : incoming'[m] = incoming[m]
  BY DEF CallTypeInv, TypeInv
<1>3. n \notin down => Cardinality(Positions(incoming'[n])) =
                         Cardinality(Positions(incoming[n]))
  BY PositionsRemoved, ReceiveType, PositionsFinite DEF CallTypeInv, TypeInv
<1>4. QED
  BY <1>1, <1>2, <1>3 DEF OKInv

\* A +OK is handed to one of those who wait.
LEMMA TakeOKs ==
  ASSUME CallTypeInv, OKInv, NEW g \in Goroutines, NEW n \in Connections,
         TakeOK(g, n)
  PROVE  OKInv'
<1>1. /\ \A h \in Goroutines : awaits'[h] = IF h = g THEN 0 ELSE awaits[h]
      /\ awaits[g] = n /\ n # 0
  BY Names DEF TakeOK, Waits, CallTypeInv, TypeInv, ConnectionTypeOK
<1>2. \A m \in Connections \ {n} :
        Waiting(m)' = Waiting(m) /\ incoming'[m] = incoming[m]
  BY <1>1, Names DEF Waiting, TakeOK, CallTypeInv, TypeInv
<1>3. Waiting(n)' = Waiting(n) \ {g} /\ g \in Waiting(n)
  BY <1>1 DEF Waiting
<1>4. /\ IsFiniteSet(Waiting(n)')
      /\ Cardinality(Waiting(n)') = Cardinality(Waiting(n)) - 1
  BY <1>3, FS_RemoveElement DEF OKInv
<1>5. /\ incoming[n] # <<>> /\ Head(incoming[n]) = OKPacket
      /\ incoming'[n] = Tail(incoming[n])
  <2>1. /\ incoming[n] # <<>> /\ Head(incoming[n]).type = "+OK"
        /\ incoming'[n] = Tail(incoming[n])
    BY DEF TakeOK, Receives, CallTypeInv, TypeInv
  <2>2. Head(incoming[n]) \in Packets
    BY <2>1, ReceiveType DEF CallTypeInv
  <2>3. QED
    BY <2>1, <2>2 DEF Packets, ERRPacket, MsgPacket
<1>6. /\ Cardinality(Positions(incoming[n])) =
           Cardinality(Positions(incoming'[n])) + 1
      /\ Cardinality(Positions(incoming'[n])) \in Nat
  BY <1>5, PositionsRemoved, PositionsFinite, ReceiveType
  DEF CallTypeInv, TypeInv
<1>7. UNCHANGED down
  BY DEF TakeOK
<1>8. QED
  BY <1>2, <1>4, <1>6, <1>7 DEF OKInv

\* An error is handed over: the connection is gone.
LEMMA TakeErrOKs ==
  ASSUME CallTypeInv, ConnInv, OKInv, NEW g \in Goroutines,
         NEW n \in Connections, TakeErr(g, n)
  PROVE  OKInv'
<1>1. /\ \A h \in Goroutines : awaits'[h] = IF h = g THEN 0 ELSE awaits[h]
      /\ awaits[g] = n /\ n # 0
  BY Names DEF TakeErr, Waits, CallTypeInv, TypeInv, ConnectionTypeOK
<1>2. \A m \in Connections \ {n} : Waiting(m)' = Waiting(m)
  BY <1>1, Names DEF Waiting
<1>3. Waiting(n)' = Waiting(n) \ {g}
  BY <1>1 DEF Waiting
<1>4. IsFiniteSet(Waiting(n)')
  BY <1>3, FS_RemoveElement DEF OKInv
<1>5. n \in down /\ UNCHANGED <<down, incoming>>
  BY DEF TakeErr, ConnInv, ErrsWhenDown
<1>6. QED
  BY <1>2, <1>4, <1>5 DEF OKInv

\* Nobody begins or ends waiting, and nothing is read.
LEMMA OKsUnchanged ==
  ASSUME OKInv, down \subseteq down', UNCHANGED awaits,
         \A n \in Connections : n \notin down' => 
           Cardinality(Positions(incoming'[n])) =
             Cardinality(Positions(incoming[n]))
  PROVE  OKInv'
<1>1. \A n \in Connections : Waiting(n)' = Waiting(n)
  BY DEF Waiting
<1>2. QED
  BY <1>1 DEF OKInv

LEMMA AnswerOKs ==
  ASSUME CallTypeInv, ConnInv, OKInv, NEW k \in Callers,
         \E n \in Connections : OKFor(k, n) \/ ErrFor(k, n)
  PROVE  OKInv'
BY TakeOKs, TakeErrOKs, Names DEF OKFor, ErrFor

LEMMA CallOKs ==
  ASSUME CallTypeInv, ConnInv, OKInv, NEW k \in Callers, CallStep(k)
  PROVE  OKInv'
<1>1. ASSUME op[k].step = "send"
      PROVE  /\ k \in Goroutines /\ awaits[k] = 0
             /\ op[k].conn \in Connections
  BY <1>1, Names DEF ConnInv, AwaitsOwn, CallTypeInv, OnConnection
<1>2. CASE SubscribeFails(k) \/ PublishNext(k) \/ BatchReturns(k)
  BY <1>2, AnswerOKs DEF SubscribeFails, PublishNext, BatchReturns
<1>3. CASE Publish(k)
  BY <1>1, <1>3, SendOKs DEF Publish, SendPub
<1>4. CASE SendSub(k)
  BY <1>1, <1>4, SendOKs DEF SendSub
<1>5. CASE SendUnsub(k)
  BY <1>1, <1>5, SendOKs DEF SendUnsub
<1>6. CASE \/ AllReceived(k) \/ TimeOut(k) \/ TakeResponse(k) \/ Drained(k)
           \/ Take(k) \/ Forget(k)
  <2>1. UNCHANGED <<down, awaits, incoming>>
    BY <1>6
    DEF AllReceived, TimeOut, TakeResponse, Drained, Take, Forget,
        connectionVars
  <2>2. QED
    BY <2>1, OKsUnchanged
<1>7. QED
  BY <1>2, <1>3, <1>4, <1>5, <1>6 DEF CallStep, ClientStep

LEMMA ReadStepOKs ==
  ASSUME CallTypeInv, ConnInv, OKInv, NEW n \in Connections, ReadStep(n)
  PROVE  OKInv'
<1>1. CASE Dispatch(n) \/ ReadErr(n)
  <2>1. Head(incoming[n]).type # "+OK"
    BY <1>1 DEF Dispatch, ReadErr, Receives
  <2>2. Head(incoming[n]) # OKPacket
    BY <2>1 DEF OKPacket
  <2>3. QED
    BY <1>1, <2>2, ReadOKs DEF Dispatch, ReadErr, Receives
<1>2. CASE ReadFails(n)
  <2>1. /\ n \in down /\ UNCHANGED <<awaits, down>>
        /\ \A m \in Connections \ {n} : incoming'[m] = incoming[m]
    BY <1>2 DEF ReadFails, CallTypeInv, TypeInv
  <2>2. QED
    BY <2>1, OKsUnchanged
<1>3. CASE Disconnected(n) \/ ReportDisconnected(n)
  <2>1. UNCHANGED <<down, awaits, incoming>>
    BY <1>3 DEF Disconnected, ReportDisconnected
  <2>2. QED
    BY <2>1, OKsUnchanged
<1>4. QED
  BY <1>1, <1>2, <1>3 DEF ReadStep, ReaderStep

LEMMA ConnectOKs ==
  ASSUME CallTypeInv, ConnInv, OKInv, NEW n \in Connections, ConnectStep(n)
  PROVE  OKInv'
<1>1. n \in Goroutines
  BY Names
<1>2. CASE Dial(n)
  BY <1>1, <1>2, SendOKs DEF Dial, ConnInv, AwaitsOwn
<1>3. CASE HandshakeOK(n) \/ ResendOK(n)
  BY <1>1, <1>3, TakeOKs DEF HandshakeOK, ResendOK
<1>4. CASE HandshakeFails(n) \/ ResendFails(n)
  BY <1>1, <1>4, TakeErrOKs DEF HandshakeFails, ResendFails
<1>5. CASE Snapshot(n)
  <2>1. UNCHANGED <<down, awaits, incoming>>
    BY <1>5 DEF Snapshot
  <2>2. QED
    BY <2>1, OKsUnchanged
<1>6. ASSUME NEW k \in Callers, Resend(n, k)
      PROVE  OKInv'
  BY <1>1, <1>6, SendOKs DEF Resend
<1>7. QED
  BY <1>2, <1>3, <1>4, <1>5, <1>6 DEF ConnectStep, EstablishStep

LEMMA ExternalOKs ==
  ASSUME CallTypeInv, ConnInv, OKInv, ExternalStep
  PROVE  OKInv'
<1>1. ASSUME NEW n \in Connections, ServerStep(n)
      PROVE  OKInv'
  <2>1. /\ down' = down \cup {n} /\ UNCHANGED awaits
        /\ \A m \in Connections \ {n} : incoming'[m] = incoming[m]
    BY <1>1 DEF ServerStep, Break, Refuse, Close, CallTypeInv, TypeInv
  <2>2. QED
    BY <2>1, OKsUnchanged
<1>2. ASSUME NEW k \in Callers, NEW r \in Reps, Reply(k, r)
      PROVE  OKInv'
  <2>1. ASSUME NEW n \in Connections
        PROVE  Cardinality(Positions(incoming'[n])) =
                 Cardinality(Positions(incoming[n]))
    <3>1. \/ incoming'[n] = incoming[n]
          \/ incoming'[n] = Append(incoming[n], MsgPacket(k, r))
      BY <1>2 DEF Reply
    <3>2. QED
      BY <3>1, PositionsAppended, Types DEF CallTypeInv, TypeInv
  <2>2. QED
    BY <1>2, <2>1, OKsUnchanged DEF Reply
<1>3. QED
  BY <1>1, <1>2 DEF ExternalStep

LEMMA OKInit == Init => OKInv
<1>1. ASSUME Init, NEW n \in Connections
      PROVE  Waiting(n) = {} /\ Positions(incoming[n]) = {}
  BY <1>1, Names DEF Init, ConnectionInit, Waiting, Positions
<1>2. QED
  BY <1>1, FS_EmptySet DEF OKInv

LEMMA OKStep == CallTypeInv /\ ConnInv /\ OKInv /\ [Next]_vars => OKInv'
<1>1. CallTypeInv /\ OKInv /\ UNCHANGED vars => OKInv'
  BY OKsUnchanged DEF vars, connectionVars
<1>2. ASSUME OKInv, NEW c \in callbacks, RunCallback(c)
      PROVE  OKInv'
  BY <1>2, OKsUnchanged DEF RunCallback, connectionVars
<1>3. QED
  BY <1>1, <1>2, CallOKs, ReadStepOKs, ConnectOKs, ExternalOKs DEF Next

(***************************************************************************)
(* On a connection that is up, as many goroutines wait in ErrOrOK as +OKs  *)
(* are on their way (SendAndWait, TakeOK): the client's only means of      *)
(* telling answers apart is that there is one for everybody who waits.     *)
(***************************************************************************)
THEOREM AnOKForEachWaiter == Spec => []OneOKEach
<1>1. Init => CallTypeInv /\ ConnInv /\ OKInv
  BY CallTypeInit, ConnInit, OKInit
<1>2. CallTypeInv /\ ConnInv /\ OKInv /\ [Next]_vars
        => (CallTypeInv /\ ConnInv /\ OKInv)'
  BY CallTypeStep, ConnStep, OKStep
<1>3. OKInv => OneOKEach
  BY DEF OKInv, OneOKEach, OKs, Positions
<1>4. QED
  BY <1>1, <1>2, <1>3, PTL DEF Spec

-----------------------------------------------------------------------------

\* The responses k's callbacks have passed on, and the callbacks that have
\* yet to do so, or to tell the wait group.
Got(k) == responses[k] \cup results[k]
InCallback(k, step) ==
  {r \in Reps : [call |-> k, rep |-> r, step |-> step] \in callbacks}
Outstanding(k) == (Guids[k] \ Got(k)) \cup InCallback(k, "done")

\* The response of r to k has been sent, and is to be read.
Arriving(n, i, k, r) ==
  i \in DOMAIN incoming[n] /\ incoming[n][i] = MsgPacket(k, r)

\* r is asked by k once, and answers once: on the way its response is in one
\* place.
Once(k, r) ==
  /\ r \in toAsk[k] => <<k, r>> \notin requests
  /\ r \in toAsk[k] \/ <<k, r>> \in requests =>
       /\ r \in Guids[k] \ (Got(k) \cup InCallback(k, "send"))
       /\ \A n \in Connections, i \in Nat : ~Arriving(n, i, k, r)
  /\ \A n \in Connections, i \in Nat :
       Arriving(n, i, k, r) =>
         /\ r \in Guids[k] \ (Got(k) \cup InCallback(k, "send"))
         /\ \A m \in Connections, j \in Nat :
              Arriving(m, j, k, r) => m = n /\ j = i
  /\ r \in InCallback(k, "send") => r \in Guids[k] \ Got(k)
  /\ r \in InCallback(k, "done") => r \in Got(k)
  /\ r \in Got(k) => r \in Guids[k]

AskedOnce == \A k \in Callers, r \in Reps : Once(k, r)

\* Messages of r to k may have been read or lost, or moved up.
NoNewMessage(k, r) ==
  \E d \in [Connections -> {0, 1}] :
    \A n \in Connections, i \in Nat :
      Arriving(n, i, k, r)' => Arriving(n, i + d[n], k, r)

LEMMA OthersSent ==
  ASSUME TypeInv,
         \A n \in Connections :
           \/ incoming'[n] = incoming[n]
           \/ incoming'[n] = <<>>
           \/ \E p \in {OKPacket, ERRPacket} :
                incoming'[n] = Append(incoming[n], p)
  PROVE  \A k \in Callers, r \in Reps : NoNewMessage(k, r)
<1> DEFINE d == [n \in Connections |-> 0]
<1>1. SUFFICES ASSUME NEW n \in Connections, NEW i \in Nat,
                      NEW k \in Callers, NEW r \in Reps,
                      Arriving(n, i, k, r)'
               PROVE  Arriving(n, i + d[n], k, r)
  BY DEF NoNewMessage
<1>2. incoming[n] \in Seq(Packets) /\ i + d[n] = i
  BY DEF TypeInv
<1>3. i \in DOMAIN incoming'[n] /\ incoming'[n][i] = MsgPacket(k, r)
  BY <1>1 DEF Arriving
<1>4. CASE \E p \in {OKPacket, ERRPacket} :
             incoming'[n] = Append(incoming[n], p)
  BY <1>2, <1>3, <1>4, Appended, Types DEF Arriving
<1>5. CASE incoming'[n] = <<>>
  BY <1>3, <1>5
<1>6. CASE incoming'[n] = incoming[n]
  BY <1>2, <1>3, <1>6 DEF Arriving
<1>7. QED
  BY <1>4, <1>5, <1>6

LEMMA OneRead ==
  ASSUME TypeInv, NEW n \in Connections, incoming[n] # <<>>,
         incoming' = [incoming EXCEPT ![n] = Tail(@)]
  PROVE  \A k \in Callers, r \in Reps : NoNewMessage(k, r)
<1> DEFINE d == [m \in Connections |-> IF m = n THEN 1 ELSE 0]
<1>1. SUFFICES ASSUME NEW m \in Connections, NEW i \in Nat,
                      NEW k \in Callers, NEW r \in Reps,
                      Arriving(m, i, k, r)'
               PROVE  Arriving(m, i + d[m], k, r)
  BY DEF NoNewMessage
<1>2. incoming[n] \in Seq(Packets)
      /\ incoming'[m] = IF m = n THEN Tail(incoming[n]) ELSE incoming[m]
  BY DEF TypeInv
<1>3. i \in DOMAIN incoming'[m] /\ incoming'[m][i] = MsgPacket(k, r)
  BY <1>1 DEF Arriving
<1>4. CASE m = n
  <2>1. i \in DOMAIN Tail(incoming[n]) /\ Tail(incoming[n])[i] = MsgPacket(k, r)
    BY <1>2, <1>3, <1>4
  <2>2. i + 1 \in DOMAIN incoming[n] /\ incoming[n][i + 1] = MsgPacket(k, r)
    BY <1>2, <2>1, Removed
  <2>3. d[m] = 1
    BY <1>4
  <2>4. QED
    BY <1>4, <2>2, <2>3 DEF Arriving
<1>5. CASE m # n
  BY <1>2, <1>3, <1>5 DEF Arriving
<1>6. QED
  BY <1>4, <1>5

\* Nothing has happened to what k asks r but to its packets.
LEMMA OnceKept ==
  ASSUME AskedOnce, NEW k \in Callers, NEW r \in Reps, NoNewMessage(k, r),
         r \in toAsk'[k] <=> r \in toAsk[k],
         <<k, r>> \in requests' <=> <<k, r>> \in requests,
         r \in Got(k)' <=> r \in Got(k),
         \A step \in {"send", "done"} :
           r \in InCallback(k, step)' <=> r \in InCallback(k, step)
  PROVE  Once(k, r)'
<1>1. Once(k, r)
  BY DEF AskedOnce
<1>2. PICK d \in [Connections -> {0, 1}] :
        \A n \in Connections, i \in Nat :
          Arriving(n, i, k, r)' => Arriving(n, i + d[n], k, r)
  BY DEF NoNewMessage
<1>3. \A n \in Connections, i \in Nat : i + d[n] \in Nat
  OBVIOUS
<1>4. ASSUME NEW n \in Connections, NEW i \in Nat, Arriving(n, i, k, r)'
      PROVE  /\ \E j \in Nat : Arriving(n, j, k, r)
             /\ \A m \in Connections, j \in Nat :
                  Arriving(m, j, k, r)' => m = n /\ j = i
  <2>1. Arriving(n, i + d[n], k, r)
    BY <1>2, <1>4
  <2>2. ASSUME NEW m \in Connections, NEW j \in Nat, Arriving(m, j, k, r)'
        PROVE  m = n /\ j = i
    <3>1. Arriving(m, j + d[m], k, r)
      BY <1>2, <2>2
    <3>2. m = n /\ j + d[m] = i + d[n]
      BY <1>1, <1>3, <2>1, <3>1 DEF Once
    <3>3. QED
      BY <3>2
  <2>3. QED
    BY <1>3, <2>1, <2>2
<1>5. QED
  BY <1>1, <1>4 DEF Once

LEMMA AskedKept ==
  ASSUME AskedOnce, \A k \in Callers, r \in Reps : NoNewMessage(k, r),
         UNCHANGED <<toAsk, requests, callbacks, responses, results>>
  PROVE  AskedOnce'
<1>1. SUFFICES ASSUME NEW k \in Callers, NEW r \in Reps
               PROVE  Once(k, r)'
  BY DEF AskedOnce
<1>2. /\ Got(k)' = Got(k)
      /\ \A step \in {"send", "done"} :
           InCallback(k, step)' = InCallback(k, step)
  BY DEF Got, InCallback
<1>3. QED
  BY <1>2, OnceKept

LEMMA Messages ==
  \A j, k \in Callers, q, r \in Reps :
    MsgPacket(j, q) = MsgPacket(k, r) => j = k /\ q = r
<1>1. \A k, r : MsgPacket(k, r).sub = k /\ MsgPacket(k, r).body = r
  BY DEF MsgPacket
<1>2. QED
  BY <1>1

\* Packets of other pairs than j and q.
OtherPair(k, r, j, q) == k # j \/ r # q

LEMMA PublishOnce ==
  ASSUME CallTypeInv, AskedOnce, NEW k \in Callers, Publish(k)
  PROVE  AskedOnce'
<1>1. PICK r \in toAsk[k] :
        /\ toAsk' = [toAsk EXCEPT ![k] = @ \ {r}]
        /\ requests' \subseteq requests \cup {<<k, r>>}
        /\ requests \subseteq requests'
  BY DEF Publish
<1>2. \A j \in Callers, q \in Reps : NoNewMessage(j, q)
  BY OthersSent
  DEF Publish, SendPub, SendAndWait, CallTypeInv, TypeInv
<1>3. /\ UNCHANGED <<callbacks, responses, results>>
      /\ \A j \in Callers : Got(j)' = Got(j)
      /\ \A j \in Callers, step \in {"send", "done"} :
           InCallback(j, step)' = InCallback(j, step)
  BY DEF Publish, Got, InCallback
<1>4. ASSUME NEW j \in Callers, NEW q \in Reps, OtherPair(j, q, k, r)
      PROVE  Once(j, q)'
  <2>1. /\ q \in toAsk'[j] <=> q \in toAsk[j]
        /\ <<j, q>> \in requests' <=> <<j, q>> \in requests
    BY <1>1, <1>4 DEF OtherPair, CallTypeInv, TypeInv
  <2>2. QED
    BY <1>2, <1>3, <2>1, OnceKept
<1>5. Once(k, r)'
  <2>1. r \in Reps /\ Once(k, r) /\ r \notin toAsk'[k]
    BY <1>1 DEF AskedOnce, CallTypeInv, TypeInv
  <2>2. \A n \in Connections, i \in Nat : ~Arriving(n, i, k, r)'
    <3>1. PICK d \in [Connections -> {0, 1}] :
            \A n \in Connections, i \in Nat :
              Arriving(n, i, k, r)' => Arriving(n, i + d[n], k, r)
      BY <1>2, <2>1 DEF NoNewMessage
    <3>2. \A n \in Connections, i \in Nat : i + d[n] \in Nat
      OBVIOUS
    <3>3. QED
      BY <1>1, <2>1, <3>1, <3>2 DEF Once
  <2>3. QED
    BY <1>1, <1>3, <2>1, <2>2 DEF Once
<1>6. QED
  BY <1>4, <1>5 DEF AskedOnce, OtherPair

LEMMA ReplyOnce ==
  ASSUME CallTypeInv, ConnInv, AskedOnce, NEW k \in Callers, NEW r \in Reps,
         Reply(k, r)
  PROVE  AskedOnce'
<1>1. /\ UNCHANGED <<toAsk, callbacks, responses, results>>
      /\ \A j \in Callers : Got(j)' = Got(j)
      /\ \A j \in Callers, step \in {"send", "done"} :
           InCallback(j, step)' = InCallback(j, step)
  BY DEF Reply, Got, InCallback
<1>2. ASSUME NEW n \in Connections, NEW i \in Nat,
             NEW j \in Callers, NEW q \in Reps,
             Arriving(n, i, j, q)', ~Arriving(n, i, j, q)
      PROVE  /\ j = k /\ q = r /\ serving = n
             /\ i = Len(incoming[n]) + 1
  <2>1. /\ Up(n) /\ k \in known[n]
        /\ incoming'[n] = Append(incoming[n], MsgPacket(k, r))
    BY <1>2 DEF Reply, Arriving
  <2>2. i = Len(incoming[n]) + 1 /\ MsgPacket(j, q) = MsgPacket(k, r)
    BY <1>2, <2>1, Appended, Types DEF Arriving, CallTypeInv, TypeInv
  <2>3. serving = n
    BY <2>1 DEF Up, ConnInv, KnownWhenEstablished, OneServed
  <2>4. QED
    BY <2>2, <2>3, Messages
<1>3. ASSUME NEW j \in Callers, NEW q \in Reps, OtherPair(j, q, k, r)
      PROVE  Once(j, q)'
  <2>1. NoNewMessage(j, q)
    <3> DEFINE d == [n \in Connections |-> 0]
    <3>1. \A n \in Connections, i \in Nat :
            Arriving(n, i, j, q)' => Arriving(n, i + d[n], j, q)
      BY <1>2, <1>3 DEF OtherPair
    <3>2. d \in [Connections -> {0, 1}]
      OBVIOUS
    <3> HIDE DEF d
    <3>3. QED
      BY <3>1, <3>2 DEF NoNewMessage
  <2>2. <<j, q>> \in requests' <=> <<j, q>> \in requests
    BY <1>3 DEF Reply, OtherPair
  <2>3. QED
    BY <1>1, <2>1, <2>2, OnceKept
<1>4. Once(k, r)'
  <2>1. Once(k, r) /\ <<k, r>> \in requests /\ <<k, r>> \notin requests'
    BY DEF Reply, AskedOnce
  <2>2. \A n \in Connections, i \in Nat : ~Arriving(n, i, k, r)
    BY <2>1 DEF Once
  <2>3. QED
    BY <1>1, <1>2, <2>1, <2>2 DEF Once
<1>5. QED
  BY <1>3, <1>4 DEF AskedOnce, OtherPair

LEMMA DispatchOnce ==
  ASSUME CallTypeInv, AskedOnce, NEW n \in Connections, Dispatch(n)
  PROVE  AskedOnce'
<1>1. /\ incoming[n] # <<>> /\ Head(incoming[n]).type = "MSG"
      /\ incoming' = [incoming EXCEPT ![n] = Tail(@)]
  BY DEF Dispatch, Receives
<1>2. PICK k \in Callers, r \in Reps : Head(incoming[n]) = MsgPacket(k, r)
  <2>1. Head(incoming[n]) \in Packets
    BY <1>1, ReceiveType DEF CallTypeInv
  <2>2. QED
    BY <1>1, <2>1 DEF Packets, OKPacket, ERRPacket
<1>3. Arriving(n, 1, k, r)
  BY <1>1, <1>2, Removed DEF Arriving, CallTypeInv, TypeInv
<1>4. \A j \in Callers, q \in Reps : NoNewMessage(j, q)
  BY <1>1, OneRead DEF CallTypeInv
<1>5. /\ UNCHANGED <<toAsk, requests, responses, results>>
      /\ \A j \in Callers : Got(j)' = Got(j)
  BY DEF Dispatch, Got
<1>6. callbacks' \in
        {callbacks,
         callbacks \cup {[call |-> k, rep |-> r, step |-> "send"]}}
  <2>1. Head(incoming[n]).sub = k /\ Head(incoming[n]).body = r
    BY <1>2 DEF MsgPacket
  <2>2. QED
    BY <2>1 DEF Dispatch
<1>7. ASSUME NEW j \in Callers, NEW q \in Reps, OtherPair(j, q, k, r)
      PROVE  Once(j, q)'
  <2>1. \A step \in {"send", "done"} :
          q \in InCallback(j, step)' <=> q \in InCallback(j, step)
    BY <1>6, <1>7 DEF InCallback, OtherPair
  <2>2. QED
    BY <1>4, <1>5, <2>1, OnceKept
<1>8. Once(k, r)'
  <2>1. Once(k, r)
    BY DEF AskedOnce
  <2>2. \A m \in Connections, i \in Nat : ~Arriving(m, i, k, r)'
    <3>1. SUFFICES ASSUME NEW m \in Connections, NEW i \in Nat,
                          Arriving(m, i, k, r)'
                   PROVE  FALSE
      OBVIOUS
    <3>2. i \in DOMAIN incoming'[m] /\ incoming'[m][i] = MsgPacket(k, r)
      BY <3>1 DEF Arriving
    <3>3. CASE m = n
      <4>1. Arriving(n, i + 1, k, r) /\ i \in Nat /\ i # 0
        BY <1>1, <3>2, <3>3, Removed DEF Arriving, CallTypeInv, TypeInv
      <4>2. QED
        BY <1>3, <2>1, <4>1 DEF Once
    <3>4. CASE m # n
      <4>1. Arriving(m, i, k, r)
        BY <1>1, <3>2, <3>4 DEF Arriving, CallTypeInv, TypeInv
      <4>2. QED
        BY <1>3, <2>1, <3>4, <4>1 DEF Once
    <3>5. QED
      BY <3>3, <3>4
  <2>3. /\ r \in Guids[k] \ Got(k)
        /\ r \notin toAsk[k] /\ <<k, r>> \notin requests
    BY <1>3, <2>1 DEF Once
  <2>4. r \in InCallback(k, "done")' <=> r \in InCallback(k, "done")
    BY <1>6 DEF InCallback
  <2>5. QED
    BY <1>5, <2>1, <2>2, <2>3, <2>4 DEF Once
<1>9. QED
  BY <1>7, <1>8 DEF AskedOnce, OtherPair

LEMMA CallbackIs ==
  ASSUME TypeInv, NEW c \in callbacks
  PROVE  /\ c.call \in Callers /\ c.rep \in Reps /\ c.step \in {"send", "done"}
         /\ c = [call |-> c.call, rep |-> c.rep, step |-> c.step]
         /\ [c EXCEPT !.step = "done"] =
              [call |-> c.call, rep |-> c.rep, step |-> "done"]
BY DEF TypeInv, Callback

LEMMA CallbackOnce ==
  ASSUME CallTypeInv, AskedOnce, NEW c \in callbacks, RunCallback(c)
  PROVE  AskedOnce'
<1> DEFINE k == c.call
           r == c.rep
<1>1. /\ k \in Callers /\ r \in Reps /\ c.step \in {"send", "done"}
      /\ c = [call |-> k, rep |-> r, step |-> c.step]
      /\ [c EXCEPT !.step = "done"] =
           [call |-> k, rep |-> r, step |-> "done"]
  BY CallbackIs DEF CallTypeInv
<1>2. \A j \in Callers, q \in Reps : NoNewMessage(j, q)
  BY OthersSent DEF RunCallback, connectionVars, CallTypeInv
<1>3. UNCHANGED <<incoming, toAsk, requests, results>>
  BY DEF RunCallback, connectionVars
<1>4. /\ \A n \in Connections, i \in Nat :
           Arriving(n, i, k, r)' <=> Arriving(n, i, k, r)
  BY <1>3 DEF Arriving
<1>5. /\ r \in InCallback(k, c.step)
      /\ \A j \in Callers :
           Got(j)' = IF j = k /\ c.step = "send" THEN Got(j) \cup {r}
                     ELSE Got(j)
      /\ \A j \in Callers, q \in Reps :
           /\ q \in InCallback(j, "send")' <=>
                /\ q \in InCallback(j, "send")
                /\ ~(j = k /\ q = r /\ c.step = "send")
           /\ q \in InCallback(j, "done")' <=>
                IF j = k /\ q = r THEN c.step = "send"
                ELSE q \in InCallback(j, "done")
  <2>1. r \in InCallback(k, c.step)
    BY <1>1 DEF InCallback
  <2>2. \A j \in Callers :
          Got(j)' = IF j = k /\ c.step = "send" THEN Got(j) \cup {r}
                    ELSE Got(j)
    BY <1>1, <1>3 DEF RunCallback, Got, CallTypeInv, TypeInv
  <2>3. CASE c.step = "send"
    BY <1>1, <2>1, <2>2, <2>3 DEF RunCallback, InCallback
  <2>4. CASE c.step = "done"
    BY <1>1, <2>1, <2>2, <2>4 DEF RunCallback, InCallback
  <2>5. QED
    BY <1>1, <2>3, <2>4
<1> HIDE DEF k, r
<1>6. ASSUME NEW j \in Callers, NEW q \in Reps, OtherPair(j, q, k, r)
      PROVE  Once(j, q)'
  <2>1. /\ q \in Got(j)' <=> q \in Got(j)
        /\ \A step \in {"send", "done"} :
             q \in InCallback(j, step)' <=> q \in InCallback(j, step)
    BY <1>1, <1>5, <1>6 DEF OtherPair
  <2>2. QED
    BY <1>2, <1>3, <2>1, OnceKept
<1>7. Once(k, r)'
  <2>1. Once(k, r)
    BY <1>1 DEF AskedOnce
  <2>2. QED
    BY <1>1, <1>3, <1>4, <1>5, <2>1 DEF Once
<1>8. QED
  BY <1>6, <1>7 DEF AskedOnce, OtherPair

LEMMA TakeResponseGot ==
  ASSUME TypeInv, NEW k \in Callers, TakeResponse(k)
  PROVE  \A j \in Callers : Got(j)' = Got(j)
BY DEF TakeResponse, Got, TypeInv

LEMMA TakeResponseOnce ==
  ASSUME CallTypeInv, AskedOnce, NEW k \in Callers, TakeResponse(k)
  PROVE  AskedOnce'
<1>1. \A j \in Callers, q \in Reps : NoNewMessage(j, q)
  BY OthersSent DEF TakeResponse, connectionVars, CallTypeInv
<1>2. \A j \in Callers : Got(j)' = Got(j)
  BY TakeResponseGot DEF CallTypeInv
<1>3. /\ UNCHANGED <<toAsk, requests>>
      /\ \A j \in Callers, step \in {"send", "done"} :
           InCallback(j, step)' = InCallback(j, step)
  BY DEF TakeResponse, InCallback
<1>4. ASSUME NEW j \in Callers, NEW q \in Reps
      PROVE  Once(j, q)'
  BY <1>1, <1>2, <1>3, OnceKept
<1>5. QED
  BY <1>4 DEF AskedOnce

LEMMA AskedInit == Init => AskedOnce
<1>1. SUFFICES ASSUME Init, NEW k \in Callers, NEW r \in Reps
               PROVE  Once(k, r)
  BY DEF AskedOnce
<1>2. /\ Got(k) = {} /\ InCallback(k, "send") = {}
      /\ InCallback(k, "done") = {} /\ requests = {} /\ toAsk = Guids
  BY <1>1 DEF Init, Got, InCallback
<1>3. \A n \in Connections, i \in Nat : ~Arriving(n, i, k, r)
  BY <1>1 DEF Init, ConnectionInit, Arriving
<1>4. QED
  BY <1>2, <1>3 DEF Once

LEMMA AskedStep ==
  CallTypeInv /\ ConnInv /\ AskedOnce /\ [Next]_vars => AskedOnce'
<1>1. SUFFICES ASSUME CallTypeInv, ConnInv, AskedOnce, [Next]_vars
               PROVE  AskedOnce'
  OBVIOUS
<1>2. ASSUME UNCHANGED <<toAsk, requests, callbacks, responses, results>>,
             \A n \in Connections :
               \/ incoming'[n] = incoming[n]
               \/ incoming'[n] = <<>>
               \/ \E p \in {OKPacket, ERRPacket} :
                    incoming'[n] = Append(incoming[n], p)
      PROVE  AskedOnce'
  BY <1>1, <1>2, OthersSent, AskedKept DEF CallTypeInv
<1>3. ASSUME UNCHANGED <<toAsk, requests, callbacks, responses, results>>,
             NEW n \in Connections, incoming[n] # <<>>,
             incoming' = [incoming EXCEPT ![n] = Tail(@)]
      PROVE  AskedOnce'
  BY <1>1, <1>3, OneRead, AskedKept DEF CallTypeInv
<1>4. ASSUME UNCHANGED <<toAsk, requests, callbacks, responses, results>>,
             NEW k \in Callers, NEW n \in Connections, OKFor(k, n) \/ ErrFor(k, n)
      PROVE  AskedOnce'
  <2>1. CASE OKFor(k, n)
    BY <1>3, <1>4, <2>1 DEF OKFor, TakeOK, Receives
  <2>2. CASE ErrFor(k, n)
    BY <1>2, <1>4, <2>2 DEF ErrFor, TakeErr
  <2>3. QED
    BY <1>4, <2>1, <2>2
<1>5. ASSUME NEW k \in Callers, CallStep(k)
      PROVE  AskedOnce'
  <2>1. CASE SubscribeFails(k) \/ PublishNext(k) \/ BatchReturns(k)
    BY <1>4, <2>1 DEF SubscribeFails, PublishNext, BatchReturns
  <2>2. CASE Publish(k)
    BY <1>1, <2>2, PublishOnce
  <2>3. CASE TakeResponse(k)
    BY <1>1, <2>3, TakeResponseOnce
  <2>4. CASE AllReceived(k) \/ TimeOut(k) \/ Drained(k)
    BY <1>2, <2>4 DEF AllReceived, TimeOut, Drained, connectionVars
  <2>5. CASE ClientStep(k) /\ UNCHANGED batchVars
    BY <1>1, <1>2, <2>5
    DEF ClientStep, Take, SendSub, SendUnsub, Forget, SendAndWait, batchVars,
        CallTypeInv, TypeInv
  <2>6. QED
    BY <1>5, <2>1, <2>2, <2>3, <2>4, <2>5 DEF CallStep
<1>6. ASSUME NEW n \in Connections, ReadStep(n)
      PROVE  AskedOnce'
  <2>1. CASE Dispatch(n)
    BY <1>1, <2>1, DispatchOnce
  <2>2. CASE ReadErr(n) /\ UNCHANGED batchVars
    BY <1>3, <2>2 DEF ReadErr, Receives, batchVars
  <2>3. CASE (ReadFails(n) \/ Disconnected(n) \/ ReportDisconnected(n))
             /\ UNCHANGED batchVars
    BY <1>1, <1>2, <2>3
    DEF ReadFails, Disconnected, ReportDisconnected, batchVars, CallTypeInv,
        TypeInv
  <2>4. QED
    BY <1>6, <2>1, <2>2, <2>3 DEF ReadStep, ReaderStep
<1>7. ASSUME NEW n \in Connections, ConnectStep(n)
      PROVE  AskedOnce'
  <2>1. UNCHANGED <<toAsk, requests, callbacks, responses, results>>
    BY <1>7 DEF ConnectStep, batchVars
  <2>2. CASE Dial(n)
    BY <1>1, <1>2, <2>1, <2>2
    DEF Dial, SendAndWait, CallTypeInv, TypeInv
  <2>3. CASE HandshakeOK(n) \/ ResendOK(n)
    BY <1>3, <2>1, <2>3 DEF HandshakeOK, ResendOK, TakeOK, Receives
  <2>4. CASE HandshakeFails(n) \/ ResendFails(n) \/ Snapshot(n)
    BY <1>2, <2>1, <2>4 DEF HandshakeFails, ResendFails, TakeErr, Snapshot
  <2>5. ASSUME NEW k \in Callers, Resend(n, k)
        PROVE  AskedOnce'
    BY <1>1, <1>2, <2>1, <2>5
    DEF Resend, SendAndWait, CallTypeInv, TypeInv
  <2>6. QED
    BY <1>7, <2>2, <2>3, <2>4, <2>5 DEF ConnectStep, EstablishStep
<1>8. CASE ExternalStep
  <2>1. ASSUME NEW n \in Connections, ServerStep(n), UNCHANGED batchVars
        PROVE  AskedOnce'
    BY <1>1, <1>2, <2>1
    DEF ServerStep, Break, Refuse, batchVars, CallTypeInv, TypeInv
  <2>2. QED
    BY <1>1, <1>8, <2>1, ReplyOnce DEF ExternalStep
<1>9. CASE UNCHANGED vars
  BY <1>2, <1>9 DEF vars, batchVars, connectionVars
<1>10. QED
  BY <1>1, <1>5, <1>6, <1>7, <1>8, <1>9, CallbackOnce DEF Next

-----------------------------------------------------------------------------

\* The wait group counts those whose callback has not told it, and whoever
\* waited for it has everything.
GroupInv ==
  \A k \in Callers :
    /\ pending[k] = Cardinality(Outstanding(k))
    /\ k \notin timedOut =>
         /\ phase[k] = "drain" => Got(k) = Guids[k]
         /\ op[k].kind = "unsub" => results[k] = Guids[k]

LEMMA GotGuids ==
  ASSUME TypeInv, AskedOnce, NEW k \in Callers
  PROVE  /\ Got(k) \subseteq Guids[k] /\ Guids[k] \subseteq Reps
         /\ Outstanding(k) \subseteq Guids[k]
         /\ IsFiniteSet(Outstanding(k)) /\ IsFiniteSet(Guids[k])
<1>1. Guids[k] \subseteq Reps /\ Got(k) \subseteq Reps
  BY BatchAssumption DEF Got, TypeInv
<1>2. \A r \in Reps : Once(k, r)
  BY DEF AskedOnce
<1>3. Got(k) \subseteq Guids[k] /\ Outstanding(k) \subseteq Guids[k]
  BY <1>1, <1>2 DEF Once, Outstanding, InCallback
<1>4. IsFiniteSet(Outstanding(k)) /\ IsFiniteSet(Guids[k])
  BY <1>1, <1>3, BatchAssumption, FS_Subset
<1>5. QED
  BY <1>1, <1>3, <1>4

\* The call k stays as it is, as far as the group is concerned.
LEMMA GroupKept ==
  ASSUME GroupInv, NEW k \in Callers,
         pending'[k] = pending[k], Got(k)' = Got(k), results'[k] = results[k],
         InCallback(k, "done")' = InCallback(k, "done"),
         phase'[k] = "drain" => phase[k] = "drain",
         op'[k].kind = "unsub" => op[k].kind = "unsub",
         timedOut \subseteq timedOut'
  PROVE  /\ pending'[k] = Cardinality(Outstanding(k)')
         /\ k \notin timedOut' =>
              /\ phase'[k] = "drain" => Got(k)' = Guids[k]
              /\ op'[k].kind = "unsub" => results'[k] = Guids[k]
BY DEF GroupInv, Outstanding

\* The client does not change what operation it is asked for.
LEMMA GroupUnchanged ==
  ASSUME GroupInv,
         UNCHANGED <<pending, responses, results, phase, timedOut>>,
         \A k \in Callers : InCallback(k, "done")' = InCallback(k, "done"),
         \A k \in Callers : op'[k].kind = "unsub" => op[k].kind = "unsub"
  PROVE  GroupInv'
<1>1. \A k \in Callers : Got(k)' = Got(k)
  BY DEF Got
<1>2. QED
  BY <1>1, GroupKept DEF GroupInv

LEMMA CallGroup ==
  ASSUME CallTypeInv, ConnInv, AskedOnce, GroupInv,
         NEW k \in Callers, CallStep(k)
  PROVE  GroupInv'
<1>1. CASE ClientStep(k) /\ UNCHANGED batchVars
  <2>1. \A j \in Callers : op'[j].kind = op[j].kind
    <3>1. CASE Take(k)
      BY <3>1 DEF Take, CallTypeInv, TypeInv, ConnectionTypeOK
    <3>2. CASE SendSub(k) \/ SendUnsub(k) \/ Forget(k)
      BY <3>2, OpFields DEF SendSub, SendUnsub, Forget, Steps
    <3>3. QED
      BY <1>1, <3>1, <3>2 DEF ClientStep
  <2>2. QED
    BY <1>1, <2>1, GroupUnchanged DEF batchVars, InCallback
<1>2. CASE Publish(k)
  <2>1. \A j \in Callers : op'[j].kind = op[j].kind
    BY <1>2
    DEF Publish, SendPub, CallTypeInv, TypeInv, ConnectionTypeOK
  <2>2. QED
    BY <1>2, <2>1, GroupUnchanged DEF Publish, InCallback
<1>3. CASE \/ SubscribeFails(k) \/ PublishNext(k) \/ BatchReturns(k)
           \/ AllReceived(k) \/ TimeOut(k) \/ TakeResponse(k) \/ Drained(k)
  <2>1. /\ UNCHANGED <<pending, callbacks>>
        /\ \A j \in Callers : InCallback(j, "done")' = InCallback(j, "done")
        /\ timedOut \subseteq timedOut'
    BY <1>3
    DEF SubscribeFails, PublishNext, BatchReturns, AllReceived, TimeOut,
        TakeResponse, Drained, InCallback
  <2>2. \A j \in Callers : Got(j)' = Got(j)
    <3>1. CASE TakeResponse(k)
      BY <3>1, TakeResponseGot DEF CallTypeInv
    <3>2. CASE ~TakeResponse(k)
      BY <1>3, <3>2
      DEF SubscribeFails, PublishNext, BatchReturns, AllReceived, TimeOut,
          Drained, Got
    <3>3. QED
      BY <3>1, <3>2
  <2>3. \A j \in Callers \ {k} :
          results'[j] = results[j] /\ phase'[j] = phase[j] /\ op'[j] = op[j]
    BY <1>3
    DEF SubscribeFails, PublishNext, BatchReturns, AllReceived, TimeOut,
        TakeResponse, Drained, Ask, connectionVars, CallTypeInv, TypeInv,
        ConnectionTypeOK
  <2>4. /\ pending'[k] = Cardinality(Outstanding(k)')
        /\ k \notin timedOut' =>
             /\ phase'[k] = "drain" => Got(k)' = Guids[k]
             /\ op'[k].kind = "unsub" => results'[k] = Guids[k]
    <3>1. CASE SubscribeFails(k) \/ BatchReturns(k)
      <4>1. /\ phase'[k] = "returned" /\ results' = results
            /\ op'[k].kind = op[k].kind
        BY <3>1, OpFields
        DEF SubscribeFails, BatchReturns, Steps, CallTypeInv, TypeInv
      <4>2. QED
        BY <2>1, <2>2, <4>1, GroupKept
    <3>2. CASE PublishNext(k)
      <4>1. phase'[k] # "drain" /\ results' = results
        BY <3>2 DEF PublishNext, CallTypeInv, TypeInv
      <4>2. op'[k].kind = op[k].kind \/ op'[k].kind = "pub"
        BY <3>2, OpFields, AskFields DEF PublishNext, Steps, Kinds
      <4>3. QED
        BY <2>1, <2>2, <4>1, <4>2, GroupKept
    <3>3. CASE AllReceived(k)
      <4>1. phase[k] = "collect" /\ pending[k] = 0 /\ op' = op
        BY <3>3 DEF AllReceived, connectionVars
      <4>2. Outstanding(k) = {}
        BY <4>1, GotGuids, FS_EmptySet DEF GroupInv, CallTypeInv
      <4>3. Got(k) = Guids[k]
        BY <4>2, GotGuids DEF Outstanding, CallTypeInv
      <4>4. op[k].kind # "unsub"
        BY <4>1 DEF ConnInv, OpOfPhase
      <4>5. QED
        BY <2>1, <2>2, <4>1, <4>3, <4>4 DEF GroupInv, Outstanding
    <3>4. CASE TimeOut(k)
      <4>1. k \in timedOut'
        BY <3>4 DEF TimeOut
      <4>2. QED
        BY <2>1, <2>2, <4>1 DEF GroupInv, Outstanding
    <3>5. CASE TakeResponse(k)
      <4>1. phase[k] = "drain" /\ phase' = phase /\ op' = op
            /\ timedOut' = timedOut
        BY <3>5 DEF TakeResponse, connectionVars
      <4>2. op[k].kind # "unsub"
        BY <4>1 DEF ConnInv, OpOfPhase
      <4>3. QED
        BY <2>1, <2>2, <4>1, <4>2 DEF GroupInv, Outstanding
    <3>6. CASE Drained(k)
      <4>1. /\ phase[k] = "drain" /\ responses[k] = {}
            /\ phase'[k] = "leave" /\ results' = results
            /\ timedOut' = timedOut
        BY <3>6 DEF Drained, CallTypeInv, TypeInv
      <4>2. k \notin timedOut => results[k] = Guids[k]
        BY <4>1 DEF GroupInv, Got
      <4>3. QED
        BY <2>1, <2>2, <4>1, <4>2 DEF GroupInv, Outstanding
    <3>7. QED
      BY <1>3, <3>1, <3>2, <3>3, <3>4, <3>5, <3>6
  <2>5. ASSUME NEW j \in Callers \ {k}
        PROVE  /\ pending'[j] = Cardinality(Outstanding(j)')
               /\ j \notin timedOut' =>
                    /\ phase'[j] = "drain" => Got(j)' = Guids[j]
                    /\ op'[j].kind = "unsub" => results'[j] = Guids[j]
    BY <2>1, <2>2, <2>3, GroupKept
  <2>6. QED
    BY <2>4, <2>5 DEF GroupInv
<1>4. QED
  BY <1>1, <1>2, <1>3 DEF CallStep

\* A response counts as outstanding until the wait group has been told.
LEMMA CallbackGroup ==
  ASSUME CallTypeInv, AskedOnce, GroupInv, NEW c \in callbacks, RunCallback(c)
  PROVE  GroupInv'
<1>1. /\ c.call \in Callers /\ c.rep \in Reps /\ c.step \in {"send", "done"}
      /\ c = [call |-> c.call, rep |-> c.rep, step |-> c.step]
      /\ [c EXCEPT !.step = "done"] =
           [call |-> c.call, rep |-> c.rep, step |-> "done"]
  BY CallbackIs DEF CallTypeInv
<1>2. UNCHANGED <<phase, results, timedOut, op>>
  BY DEF RunCallback, connectionVars
<1>3. Once(c.call, c.rep)
  BY <1>1 DEF AskedOnce
<1>4. c.rep \in InCallback(c.call, c.step)
  BY <1>1 DEF InCallback
<1>5. CASE c.step = "send"
  <2>1. /\ c.rep \in Guids[c.call] \ Got(c.call) /\ pending' = pending
        /\ responses' =
             [responses EXCEPT ![c.call] = responses[c.call] \cup {c.rep}]
        /\ callbacks' =
             (callbacks \ {c}) \cup
               {[call |-> c.call, rep |-> c.rep, step |-> "done"]}
    BY <1>1, <1>3, <1>4, <1>5 DEF RunCallback, Once
  <2>2. ASSUME NEW k \in Callers
        PROVE  /\ Got(k)' = IF k = c.call THEN Got(k) \cup {c.rep} ELSE Got(k)
               /\ InCallback(k, "done")' =
                    IF k = c.call THEN InCallback(k, "done") \cup {c.rep}
                    ELSE InCallback(k, "done")
    <3>1. Got(k)' = IF k = c.call THEN Got(k) \cup {c.rep} ELSE Got(k)
      BY <1>1, <1>2, <2>1 DEF Got, CallTypeInv, TypeInv
    <3>2. QED
      BY <1>1, <1>5, <2>1, <3>1 DEF InCallback
  <2>3. \A k \in Callers : Outstanding(k)' = Outstanding(k)
    BY <2>1, <2>2 DEF Outstanding
  <2>4. \A k \in Callers :
          k = c.call => ~(phase[k] = "drain" /\ k \notin timedOut)
    BY <2>1 DEF GroupInv
  <2>5. QED
    BY <1>2, <2>1, <2>2, <2>3, <2>4 DEF GroupInv
<1>6. CASE c.step = "done"
  <2>1. /\ c.rep \in Got(c.call) /\ responses' = responses
        /\ pending' = [pending EXCEPT ![c.call] = pending[c.call] - 1]
        /\ callbacks' = callbacks \ {c}
    BY <1>3, <1>4, <1>6 DEF RunCallback, Once
  <2>2. \A k \in Callers : Got(k)' = Got(k)
    BY <1>2, <2>1 DEF Got
  <2>3. \A k \in Callers :
          Outstanding(k)' = IF k = c.call THEN Outstanding(k) \ {c.rep}
                            ELSE Outstanding(k)
    BY <1>1, <1>6, <2>1, <2>2 DEF Outstanding, InCallback
  <2>4. c.rep \in Outstanding(c.call)
    BY <1>4, <1>6 DEF Outstanding
  <2>5. Cardinality(Outstanding(c.call) \ {c.rep}) =
          Cardinality(Outstanding(c.call)) - 1
    BY <1>1, <2>4, GotGuids, FS_RemoveElement DEF CallTypeInv
  <2>6. \A k \in Callers :
          pending'[k] = IF k = c.call THEN pending[k] - 1 ELSE pending[k]
    BY <2>1 DEF CallTypeInv, TypeInv
  <2>7. QED
    BY <1>1, <1>2, <2>2, <2>3, <2>5, <2>6 DEF GroupInv
<1>7. QED
  BY <1>1, <1>5, <1>6

LEMMA GroupInit == Init => GroupInv
<1>1. SUFFICES ASSUME Init, NEW k \in Callers
               PROVE  /\ pending[k] = Cardinality(Guids[k])
                      /\ Outstanding(k) = Guids[k]
                      /\ phase[k] # "drain" /\ op[k].kind # "unsub"
  BY DEF GroupInv
<1>2. Got(k) = {} /\ InCallback(k, "done") = {}
  BY <1>1 DEF Init, Got, InCallback
<1>3. QED
  BY <1>1, <1>2 DEF Init, ConnectionInit, Expected, Outstanding

LEMMA GroupStep ==
  CallTypeInv /\ ConnInv /\ AskedOnce /\ GroupInv /\ [Next]_vars => GroupInv'
<1>1. SUFFICES ASSUME CallTypeInv, ConnInv, AskedOnce, GroupInv, [Next]_vars
               PROVE  GroupInv'
  OBVIOUS
<1>2. ASSUME NEW n \in Connections, Dispatch(n)
      PROVE  GroupInv'
  <2>1. \A k \in Callers : InCallback(k, "done")' = InCallback(k, "done")
    BY <1>2 DEF Dispatch, InCallback
  <2>2. QED
    BY <1>1, <1>2, <2>1, GroupUnchanged DEF Dispatch
<1>3. ASSUME UNCHANGED <<pending, responses, results, phase, timedOut,
                         callbacks, op>>
      PROVE  GroupInv'
  BY <1>1, <1>3, GroupUnchanged DEF InCallback
<1>4. ASSUME NEW n \in Connections, ReadStep(n) \/ ConnectStep(n)
      PROVE  GroupInv'
  BY <1>2, <1>3, <1>4
  DEF ReadStep, ReaderStep, ReadErr, ReadFails, Disconnected,
      ReportDisconnected, ConnectStep, EstablishStep, Dial, HandshakeOK,
      HandshakeFails, Snapshot, Resend, ResendOK, ResendFails, batchVars
<1>5. CASE ExternalStep
  BY <1>3, <1>5
  DEF ExternalStep, ServerStep, Break, Refuse, Close, Reply, batchVars
<1>6. CASE UNCHANGED vars
  BY <1>3, <1>6 DEF vars, batchVars, connectionVars
<1>7. QED
  BY <1>1, <1>4, <1>5, <1>6, CallGroup, CallbackGroup DEF Next

BatchInv == CallTypeInv /\ ConnInv /\ AskedOnce /\ GroupInv

LEMMA BatchInvariant == Spec => []BatchInv
<1>1. Init => BatchInv
  BY CallTypeInit, ConnInit, AskedInit, GroupInit DEF BatchInv
<1>2. BatchInv /\ [Next]_vars => BatchInv'
  BY CallTypeStep, ConnStep, AskedStep, GroupStep DEF BatchInv
<1>3. QED
  BY <1>1, <1>2, PTL DEF Spec

(***************************************************************************)
(* A call that does not time out returns the response of everyone it asked *)
(* (AllReceived, TakeResponse), and no callback ever blocks on the channel *)
(* (RunCallback), however late it is and whatever connections are lost.    *)
(***************************************************************************)
THEOREM CompleteUnlessTimedOut == Spec => []AllReceivedMeansAll
<1>1. BatchInv => AllReceivedMeansAll
  <2>1. SUFFICES ASSUME BatchInv, NEW c \in callbacks, c.step = "send"
                 PROVE  Cardinality(responses[c.call])
                          < Cardinality(Guids[c.call])
    BY DEF BatchInv, GroupInv, AllReceivedMeansAll
  <2>2. /\ c.call \in Callers /\ c.rep \in Reps
        /\ c.rep \in InCallback(c.call, "send")
    BY <2>1, CallbackIs DEF BatchInv, CallTypeInv, InCallback
  <2>3. c.rep \in Guids[c.call] \ Got(c.call)
    BY <2>1, <2>2 DEF BatchInv, AskedOnce, Once
  <2>4. /\ responses[c.call] \subseteq Guids[c.call]
        /\ c.rep \in Guids[c.call] \ responses[c.call]
        /\ IsFiniteSet(Guids[c.call])
    BY <2>1, <2>2, <2>3, GotGuids DEF BatchInv, CallTypeInv, Got
  <2>5. /\ Cardinality(responses[c.call]) <= Cardinality(Guids[c.call])
        /\ Cardinality(responses[c.call]) # Cardinality(Guids[c.call])
        /\ Cardinality(responses[c.call]) \in Nat
        /\ Cardinality(Guids[c.call]) \in Nat
    BY <2>4, FS_Subset, FS_CardinalityType
  <2>6. QED
    BY <2>5
<1>2. QED
  BY <1>1, BatchInvariant, PTL

(***************************************************************************)
(* Every variable keeps its type: above all, the counter of a wait group   *)
(* never goes below zero, which would be a panic (RunCallback).            *)
(***************************************************************************)
THEOREM TypesKept == Spec => []TypeOK
<1>1. BatchInv => TypeOK
  <2>1. SUFFICES ASSUME BatchInv, NEW k \in Callers
                 PROVE  pending[k] \in 0 .. Cardinality(Reps)
    BY DEF BatchInv, CallTypeInv, TypeInv, TypeOK
  <2>2. Outstanding(k) \in SUBSET Reps
    BY <2>1, GotGuids DEF BatchInv, CallTypeInv
  <2>3. /\ Cardinality(Outstanding(k)) <= Cardinality(Reps)
        /\ Cardinality(Outstanding(k)) \in Nat /\ Cardinality(Reps) \in Nat
    BY <2>2, BatchAssumption, FS_Subset, FS_CardinalityType
  <2>4. QED
    BY <2>1, <2>3 DEF BatchInv, GroupInv
<1>2. QED
  BY <1>1, BatchInvariant, PTL
=============================================================================
