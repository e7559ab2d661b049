--------------------------- MODULE NatsConnection ---------------------------
(***************************************************************************)
(* The NATS client of a node: yagnats' Client and its Connections.  All    *)
(* goroutines of the node share one client.  To publish, subscribe or      *)
(* unsubscribe a goroutine takes the connection that serveConnections      *)
(* offers on a channel, sends its packet and waits in ErrOrOK for the      *)
(* server's +OK, or for an error.                                          *)
(*                                                                         *)
(* Each connection has a goroutine that reads packets in the order they    *)
(* arrive.  It hands every +OK to whoever is waiting, since nothing tells  *)
(* whose it is.  When the connection is lost it tells serveConnections,    *)
(* which dials the next one and subscribes there again to everything it    *)
(* knows of.                                                               *)
(*                                                                         *)
(* The server is external: it handles a packet as it is sent, unless the   *)
(* connection is gone, and its answers take their time.  Connections are   *)
(* numbered in the order they are dialled; the goroutine that establishes  *)
(* connection n waits for its answers under the name n.                    *)
(***************************************************************************)
EXTENDS Naturals, Sequences, FiniteSets

CONSTANTS
  Callers,       \* goroutines that use the client; each has one subscription
  MaxConnections,\* bound: connections dialled; the last stays up once it is
                 \* established
  Refusable      \* bound: those that the server may close with an error

ASSUME ConnectionAssumption ==
  /\ MaxConnections \in Nat \ {0}
  /\ Callers \cap Nat = {}
  /\ Refusable \subseteq 1 .. MaxConnections

Connections == 1 .. MaxConnections

VARIABLES
  serving,       \* the connection offered on c.connection, 0 if none is
  stage,         \* stage[n]: how far n has been established
  reader,        \* reader[n]: what the goroutine reading from n is doing
  down,          \* connections the server or the network has closed
  incoming,      \* incoming[n]: packets the server has sent, in order
  errs,          \* errs[n]: whether an error is in the channel's buffer
  subscriptions, \* the client's subscriptions
  known,         \* known[n]: those the server has for connection n
  unsent,        \* unsent[n]: packets resubscribe has yet to send
  awaits,        \* awaits[g]: the connection g waits in ErrOrOK for, or 0
  op             \* op[k]: what k is asking of the client, and how far it is

connectionVars ==
  <<serving, stage, reader, down, incoming, errs, subscriptions, known,
    unsent, awaits, op>>

Goroutines == Callers \cup Connections
Kinds == {"sub", "pub", "unsub"}
Steps == {"take", "send", "forget", "wait", "idle"}

\* Packets from the server; a message is to the subscription of k.
OKPacket == [type |-> "+OK"]
ERRPacket == [type |-> "-ERR"]
MsgPacket(k, body) == [type |-> "MSG", sub |-> k, body |-> body]

\* The goroutine that reads from n has a packet of the given type before it.
Receives(n, type) ==
  reader[n] = "reading" /\ incoming[n] # <<>> /\ Head(incoming[n]).type = type

ConnectionTypeOK ==
  /\ serving \in 0 .. MaxConnections
  /\ stage \in [Connections ->
                  {"none", "handshake", "snapshot", "resubscribe", "done",
                   "failed"}]
  /\ reader \in [Connections -> {"reading", "disconnected", "erring", "ended"}]
  /\ down \subseteq Connections
  /\ errs \in [Connections -> BOOLEAN]
  /\ subscriptions \subseteq Callers
  /\ known \in [Connections -> SUBSET Callers]
  /\ unsent \in [Connections -> SUBSET Callers]
  /\ awaits \in [Goroutines -> 0 .. MaxConnections]
  /\ op \in [Callers -> [kind : Kinds, step : Steps, conn : 0 .. MaxConnections]]

\* After Connect, which dials without subscribing.
ConnectionInit ==
  /\ serving = 1
  /\ stage = [n \in Connections |-> IF n = 1 THEN "done" ELSE "none"]
  /\ reader = [n \in Connections |-> "reading"]
  /\ down = {}
  /\ incoming = [n \in Connections |-> <<>>]
  /\ errs = [n \in Connections |-> FALSE]
  /\ subscriptions = {}
  /\ known = [n \in Connections |-> {}]
  /\ unsent = [n \in Connections |-> {}]
  /\ awaits = [g \in Goroutines |-> 0]
  /\ op = [k \in Callers |-> [kind |-> "sub", step |-> "take", conn |-> 0]]

-----------------------------------------------------------------------------

\* Connection.Send and the start of ErrOrOK.  Write errors are ignored.
SendAndWait(g, n) ==
  /\ awaits' = [awaits EXCEPT ![g] = n]
  /\ incoming' = IF n \in down THEN incoming
                 ELSE [incoming EXCEPT ![n] = Append(@, OKPacket)]

\* What the server makes of a packet about the subscription of k.
ServerSubscribes(n, k) ==
  known' = IF n \in down THEN known ELSE [known EXCEPT ![n] = @ \cup {k}]

ServerUnsubscribes(n, k) ==
  known' = IF n \in down THEN known ELSE [known EXCEPT ![n] = @ \ {k}]

\* Publish, subscribe and Unsubscribe begin with conn := <-c.connection.
Take(k) ==
  /\ op[k].step = "take"
  /\ serving # 0
  /\ op' = [op EXCEPT ![k].step = "send", ![k].conn = serving]
  /\ UNCHANGED <<serving, stage, reader, down, incoming, errs, subscriptions,
                 known, unsent, awaits>>

\* subscribe: the subscription is entered before the packet is sent.
SendSub(k) ==
  /\ op[k].step = "send" /\ op[k].kind = "sub"
  /\ subscriptions' = subscriptions \cup {k}
  /\ ServerSubscribes(op[k].conn, k)
  /\ SendAndWait(k, op[k].conn)
  /\ op' = [op EXCEPT ![k].step = "wait"]
  /\ UNCHANGED <<serving, stage, reader, down, errs, unsent>>

\* PublishWithReplyTo
SendPub(k) ==
  /\ op[k].step = "send" /\ op[k].kind = "pub"
  /\ SendAndWait(k, op[k].conn)
  /\ op' = [op EXCEPT ![k].step = "wait"]
  /\ UNCHANGED <<serving, stage, reader, down, errs, subscriptions, known,
                 unsent>>

\* Unsubscribe: the subscription is deleted after the packet has been sent.
SendUnsub(k) ==
  /\ op[k].step = "send" /\ op[k].kind = "unsub"
  /\ ServerUnsubscribes(op[k].conn, k)
  /\ SendAndWait(k, op[k].conn)
  /\ op' = [op EXCEPT ![k].step = "forget"]
  /\ UNCHANGED <<serving, stage, reader, down, errs, subscriptions, unsent>>

Forget(k) ==
  /\ op[k].step = "forget"
  /\ subscriptions' = subscriptions \ {k}
  /\ op' = [op EXCEPT ![k].step = "wait"]
  /\ UNCHANGED <<serving, stage, reader, down, incoming, errs, known, unsent,
                 awaits>>

-----------------------------------------------------------------------------

\* g is in ErrOrOK.  (Unsubscribe gets there once it has forgotten.)
Waits(g, n) ==
  /\ awaits[g] = n
  /\ g \in Callers => op[g].step = "wait"

\* case <-c.oks meets c.oks <-: any of those who wait may be the one.
TakeOK(g, n) ==
  /\ Waits(g, n)
  /\ Receives(n, "+OK")
  /\ awaits' = [awaits EXCEPT ![g] = 0]
  /\ incoming' = [incoming EXCEPT ![n] = Tail(@)]
  /\ UNCHANGED <<reader, down, errs, subscriptions, known, unsent>>

\* case err := <-c.errs
TakeErr(g, n) ==
  /\ Waits(g, n)
  /\ errs[n]
  /\ awaits' = [awaits EXCEPT ![g] = 0]
  /\ errs' = [errs EXCEPT ![n] = FALSE]
  /\ UNCHANGED <<reader, down, incoming, subscriptions, known>>

\* ErrOrOK returns nil, or an error, to k.  What k does with it is left open.
OKFor(k, n) == TakeOK(k, n) /\ UNCHANGED <<serving, stage>>
ErrFor(k, n) == TakeErr(k, n) /\ UNCHANGED <<serving, stage, unsent>>

-----------------------------------------------------------------------------

\* receivePackets: an error sent by the server goes into the buffer, or has
\* to wait until the buffer is free.
ReadErr(n) ==
  /\ Receives(n, "-ERR")
  /\ ~errs[n]
  /\ errs' = [errs EXCEPT ![n] = TRUE]
  /\ incoming' = [incoming EXCEPT ![n] = Tail(@)]
  /\ UNCHANGED <<serving, stage, reader, down, subscriptions, known, unsent,
                 awaits, op>>

\* receivePackets: Parse fails.  What has not been read by then is lost.
ReadFails(n) ==
  /\ reader[n] = "reading" /\ n \in down
  /\ reader' = [reader EXCEPT ![n] = "disconnected"]
  /\ incoming' = [incoming EXCEPT ![n] = <<>>]
  /\ UNCHANGED <<serving, stage, down, errs, subscriptions, known, unsent,
                 awaits, op>>

\* c.Disconnected <- true meets case <-conn.Disconnected.
Disconnected(n) ==
  /\ reader[n] = "disconnected"
  /\ serving = n
  /\ serving' = 0
  /\ reader' = [reader EXCEPT ![n] = "erring"]
  /\ UNCHANGED <<stage, down, incoming, errs, subscriptions, known, unsent,
                 awaits, op>>

\* c.errs <- errors.New("disconnected"), once
ReportDisconnected(n) ==
  /\ reader[n] = "erring"
  /\ ~errs[n]
  /\ reader' = [reader EXCEPT ![n] = "ended"]
  /\ errs' = [errs EXCEPT ![n] = TRUE]
  /\ UNCHANGED <<serving, stage, down, incoming, subscriptions, known, unsent,
                 awaits, op>>

-----------------------------------------------------------------------------

\* serveConnections: connect, whose Dial has succeeded, and the packet that
\* begins the Handshake.  An earlier Handshake is over, one way or another.
Dial(n) ==
  /\ serving = 0
  /\ stage[n] = "none"
  /\ \A m \in 1 .. n - 1 : stage[m] \notin {"none", "handshake"}
  /\ stage' = [stage EXCEPT ![n] = "handshake"]
  /\ SendAndWait(n, n)
  /\ UNCHANGED <<serving, reader, down, errs, subscriptions, known, unsent, op>>

\* Mutant: no goroutine is started to serve the new connection.
HandshakeOKUnserved(n) ==
  /\ stage[n] = "handshake"
  /\ TakeOK(n, n)
  /\ stage' = [stage EXCEPT ![n] = "snapshot"]
  /\ UNCHANGED <<serving, op>>

\* connect has returned the connection, which is served from now on.
HandshakeOK(n) ==
  /\ stage[n] = "handshake"
  /\ TakeOK(n, n)
  /\ stage' = [stage EXCEPT ![n] = "snapshot"]
  /\ serving' = n
  /\ UNCHANGED op

\* connect returns an error and is tried again.
HandshakeFails(n) ==
  /\ stage[n] = "handshake"
  /\ TakeErr(n, n)
  /\ stage' = [stage EXCEPT ![n] = "failed"]
  /\ UNCHANGED <<serving, unsent, op>>

\* resubscribe is through when nothing is left to send.
UnlessThrough(left) == IF left = {} THEN "done" ELSE "resubscribe"

\* resubscribe collects the packets under the lock.
Snapshot(n) ==
  /\ stage[n] = "snapshot"
  /\ unsent' = [unsent EXCEPT ![n] = subscriptions]
  /\ stage' = [stage EXCEPT ![n] = UnlessThrough(subscriptions)]
  /\ UNCHANGED <<serving, reader, down, incoming, errs, subscriptions, known,
                 awaits, op>>

\* Mutant: the packets are sent one after the other without an answer.
ResendAtOnce(n, k) ==
  /\ stage[n] = "resubscribe"
  /\ k \in unsent[n]
  /\ unsent' = [unsent EXCEPT ![n] = @ \ {k}]
  /\ ServerSubscribes(n, k)
  /\ SendAndWait(n, n)
  /\ UNCHANGED <<serving, stage, reader, down, errs, subscriptions, op>>

\* Mutant: resubscribe returns after the first packet.
ResendFirst(n, k) ==
  /\ stage[n] = "resubscribe" /\ awaits[n] = 0
  /\ k \in unsent[n]
  /\ unsent' = [unsent EXCEPT ![n] = {}]
  /\ ServerSubscribes(n, k)
  /\ SendAndWait(n, n)
  /\ UNCHANGED <<serving, stage, reader, down, errs, subscriptions, op>>

\* resubscribe sends one packet: conn.Send(packet); conn.ErrOrOK()
Resend(n, k) ==
  /\ stage[n] = "resubscribe" /\ awaits[n] = 0
  /\ k \in unsent[n]
  /\ unsent' = [unsent EXCEPT ![n] = @ \ {k}]
  /\ ServerSubscribes(n, k)
  /\ SendAndWait(n, n)
  /\ UNCHANGED <<serving, stage, reader, down, errs, subscriptions, op>>

ResendOK(n) ==
  /\ stage[n] = "resubscribe"
  /\ TakeOK(n, n)
  /\ stage' = [stage EXCEPT ![n] = UnlessThrough(unsent[n])]
  /\ UNCHANGED <<serving, op>>

\* An error makes resubscribe leave out the rest.
ResendFails(n) ==
  /\ stage[n] = "resubscribe"
  /\ TakeErr(n, n)
  /\ stage' = [stage EXCEPT ![n] = "failed"]
  /\ unsent' = [unsent EXCEPT ![n] = {}]
  /\ UNCHANGED <<serving, op>>

-----------------------------------------------------------------------------

Up(n) == n \notin down /\ stage[n] # "none"

\* The server closes connection n and forgets its subscriptions.  It stays
\* up once established if it is the last.
Close(n) ==
  /\ Up(n)
  /\ n = MaxConnections => stage[n] # "done"
  /\ down' = down \cup {n}
  /\ known' = [known EXCEPT ![n] = {}]
  /\ UNCHANGED <<serving, stage, reader, errs, subscriptions, unsent, awaits, op>>

\* The connection is lost.
Break(n) == Close(n) /\ UNCHANGED incoming

\* The server sends an error first that nobody asked for ("fatal unexpected
\* errors from the server").
Refuse(n) ==
  /\ n \in Refusable
  /\ Close(n)
  /\ incoming' = [incoming EXCEPT ![n] = Append(@, ERRPacket)]

\* A step of the client on behalf of k that is the same for every packet.
ClientStep(k) ==
  \/ Take(k)
  \/ SendSub(k)
  \/ SendUnsub(k)
  \/ Forget(k)

\* The goroutine that reads from connection n, apart from messages.
ReaderStep(n) ==
  ReadErr(n) \/ ReadFails(n) \/ Disconnected(n) \/ ReportDisconnected(n)

\* The goroutine that establishes connection n.
EstablishStep(n) ==
  \/ Dial(n)
  \/ HandshakeOK(n)
  \/ HandshakeFails(n)
  \/ Snapshot(n)
  \/ \E k \in Callers : Resend(n, k)
  \/ ResendOK(n)
  \/ ResendFails(n)

ServerStep(n) == Break(n) \/ Refuse(n)
=============================================================================
