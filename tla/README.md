# A TLA+ model of the auction

This directory holds TLA+ modules, TLC configurations and TLAPS proofs for
`onsi/auction`: a simulation of auctions that place application instances on
representatives (*reps*), each of which bids with a score and may be told to
reserve, to release and to claim an instance. Paths below are relative to the
repository.

## The system

| Part | State | Operations | Talks to |
|---|---|---|---|
| Auctioneer (`auctioneer/`) | the locals of one goroutine per auction: round, first-round reps, bids, winner, losers | `Auction`, which runs one of `all_rescore`, `all_reserve`, `pick_among_best`, `pick_best`, `reserve_n_best`, `random` | a `RepPoolClient` |
| Bids and guid lists (`types/`) | none | `FilterErrors`, `AllFailed`, `Shuffle`, `Sort`, `Reps`, `RandomSubsetByFraction`, `Without` | used by the auctioneer |
| Rep (`auctionrep/`) | a lock | `Score`, `ScoreThenTentativelyReserve`, `ReleaseReservation`, `Claim`, and for the simulation `SetInstances`, `Instances`, `Reset` | its delegate |
| Simulation delegate (`simulation/simulationrepdelegate/`) | the instances held, by guid; a lock of its own | `RemainingResources`, `Reserve`, `ReleaseReservation`, `Claim`, ... | none |
| In-process client (`simulation/communication/inprocess/`) | none between calls | one goroutine per rep asked, which sleeps and may time out | calls the reps |
| NATS client and server (`communication/nats/`) | per call: a reply subject, a wait group, a buffered channel | one request per rep, collected until all have answered or the timeout expires | each other, by messages |
| NATS connection (vendored `yagnats`) | the connection being served, subscriptions; per connection a reading goroutine and an error buffer | publish, subscribe, unsubscribe, each of which waits in `ErrOrOK`; reconnection | every NATS call of a node |
| RabbitMQ client and server (`communication/rabbit/`) | correlation map; per batch a result channel | as NATS, over a queue per rep | each other, by messages |
| Distributor (`simulation/auctiondistributor/`) | semaphore, result channel | `HoldAuctionsFor` | the auctioneer, directly or by HTTP |
| Auctioneer node (`simulation/auctioneernode/`) | semaphore | the `/auction` handler | the auctioneer, over NATS or RabbitMQ |
| Rep node (`simulation/repnode/`) | none | wiring | a rep and its servers |
| Report (`simulation/visualization/`) | none | who is missing, how even the spread is | results and reps' instances |
| Utilities (`util/`) | random generator, guid counter | `RandomGuid`, the shared generator | everybody |

What is hard about it:

* **Stale scores.** Many auctions run at once. Between a score and the
  reservation it leads to, and in `all_rescore` between the two scorings, other
  auctions reserve on the same rep.
* **Tentative reservations.** `all_reserve` and `reserve_n_best` reserve on
  several reps and must release all but one, when some of them have refused or
  timed out; `all_rescore` has four ways out of a round, and on each of them a
  reservation must survive, have never existed, or be given back.
* **Retries.** A failed round is followed by another, with a different random
  bidding pool, and a rep may be asked again for an instance it already holds.
* **Lost, late and reordered messages.** NATS delivers at most once, the client
  gives up after a timeout, and callbacks run in goroutines of their own. What
  a rep does with a request whose caller has left is nobody's business any
  more.
* **Answers nobody signed.** The NATS server confirms each packet with `+OK`,
  which does not say whose packet it confirms. All goroutines of a node share
  one connection, which may be lost and replaced while they wait on it, and
  what they wait for is not covered by the timeout of their call.
* **Callbacks and counters.** A call counts its responses in a wait group and
  keeps them in a channel; the callbacks that do both run in goroutines of
  their own, some of them after the call has returned.
* **Boundaries.** Exact fits, the last container, fewer bids than the code
  slices off, an empty reply that is indexed with `[0]`.

What makes each part correct: a rep never holds more than it has room for; an
auction leaves its instance on the winner it names and nowhere else, and leaks
no reservation on any path; it ends; it fails only for want of room; instances
of one application spread evenly. A call returns, with the response of everyone
it asked unless it timed out; the client serves the goroutines that share it,
on whatever connection it has; the report counts the instances that were lost.

## Modules

| Module | What it models |
|---|---|
| `RepResources` | Pure: remaining resources, `hasRoomFor` and the score, as functions of the set of instances a rep holds. |
| `Auctioneer` | The dispatch of `Auction` and the six algorithms. EXTENDS `RepResources`. |
| `InprocessAuction` | The distributor's goroutines, the in-process client and the reps. EXTENDS `Auctioneer`. |
| `NatsAuction` | Auctions over NATS, seen from outside the calls: the NATS client and server and the reps. EXTENDS `Auctioneer`. |
| `NatsConnection` | The client's connections: packets and their answers, loss, reconnection, resubscription. |
| `NatsBatch` | Inside the calls: `batch`, its callbacks, wait group and channel. EXTENDS `NatsConnection`. |
| `Placement` | Abstract: what auctions promise, without scores, rounds or reservations. Implemented by `InprocessAuction` and by `NatsAuction`. |
| `AuctionRep` | Abstract: a rep whose operations take effect at one moment between call and return. EXTENDS `RepResources`. |
| `AuctionRepLocks` | The rep and its delegate with their two locks. EXTENDS `AuctionRep` and implements it. |
| `RabbitBatch` | The RabbitMQ client, its batches and the servers' queues. Stands alone. |
| `RepResources_proofs`, `AuctionRepLocks_proofs`, `InprocessAuction_proofs`, `InprocessSequential_proofs`, `NatsAuction_proofs`, `NatsBatch_proofs`, `RabbitBatch_proofs` | Theorems. |
| `Auctioneer_proofs` | Lemmas on the auctioneer's steps that the proofs about `InprocessAuction` and `NatsAuction` share. |
| `MCInprocessAuction`, `MCNatsAuction`, `MCNatsBatch`, `MCAuctionRepLocks`, `MCRabbitBatch` | Small instances for TLC. |

### How state and actions correspond to the code

**A rep** is the set `instances[r]` of its delegate's map, keyed by guid as the
code keys it, so that reserving an instance twice stores it once. The
operations of `AuctionRep` hold its lock from the first line to the last and
are single steps in the modules of the transports. `AuctionRepLocks` justifies
this: there each delegate method is a step of its own under the delegate's
lock, `remaining` and `score` are locals that may go stale in between, and each
return has its unlock. `TotalResources` takes no lock and never changes.
`Reset` is `SetInstances` of nothing. Resources are natural numbers of
megabytes. The sum over the instances is counted as the cardinality of a set of
single units, which is how the proofs get by without recursion. The score is a
sum of three fractions and the number of instances of the same application; the
model counts it in steps of 1/(3 * `ScoreUnit`), exactly when the totals divide
`ScoreUnit`, as they do in every run. A total of zero, by which the code would
divide, is excluded by `RepsAssumption`.

**An auction** is the goroutine that runs `Auction`. `pc[i]` is the call it is
in, and `round`, `pool`, `winner`, `losers` and `recast` are the locals of its
algorithm (`rounds`, `firstRoundReps`, `winner.Rep` or `orderedReps[0]`,
`orderedReps[1:]`, `winnerRecast`). The six algorithms are written by hand one
by one in the code and share long stretches: a stretch is one action, with the
algorithms it belongs to in its guard. Every call is two steps. `Ask` issues
it; an action guarded by that `pc` looks at the results when the call has
returned. `Shuffle().Sort()` becomes the choice of any minimal result, and
`[:5]` the choice of any `NBest` results no other beats. `pick_among_best`
panics when there are fewer than `NBest` bids (`TooFewBids`); a reply indexed
with `[0]` panics when it is empty (`NoReply`).

**In-process** (`InprocessAuction`), the reps asked (`waiting`) answer one by
one, in any order and interleaved with all other auctions. Timeouts happen
before the rep is called (`beSlowAndPossiblyTimeout`), and not at all on
releases and claims, whose result the client ignores. All the auctions share a
process, so a panic stops them all (`Alive`). `Start` takes a slot of the
distributor's semaphore. The goroutine gives it back only when the distributor
has taken its result from the unbuffered channel: the two are one step,
`Collect`. With all results in `collected` the report is made (`Reported`), and
`NMissingInstances` is the number it gives.

**Over NATS** (`NatsAuction`), issuing a call adds a request per rep to
`requests`, a set, as nothing orders the callbacks. A request may never be
handled, or be handled long after its caller has timed out and moved on; the
reply then finds nobody. The triple of auction, round and operation stands for
the reply subject, since an auction makes each call at most once a round.
Auctioneer nodes serve each auction in an HTTP handler, whose panic `net/http`
recovers from: a panic ends one auction only. To `Placement`, an auction of
`all_rescore` has placed nothing, even when it returns a winner: `WonIsDone`
shows that such a winner may yet lose the instance. A handler that waits for
the node's semaphore is an auction that has not started; how many run at once
is not bounded here. `missed` is a history variable no action looks at.

**Inside a NATS call** (`NatsBatch` over `NatsConnection`). Each caller makes
one call; `phase[k]` is its place in `batch`, and `op[k]` the packet it is
sending: subscribe, publish or unsubscribe (`kind`), how far it is with it
(`step`) and the connection it took (`conn`). `awaits[g]` is the connection
whose `ErrOrOK` goroutine `g` is in. The callers wait there, and so does the
goroutine that establishes a connection, named by its number: `stage[n]` takes
it through `Handshake` and `resubscribe`. `reader[n]` is the goroutine in
`receivePackets` and what follows it. `errs[n]` is the channel of errors with
its buffer of one. `incoming[n]` holds what the server has sent and the reader
has not read; the unbuffered channel of `+OK`s is the step in which the reader
and one of those who wait meet (`TakeOK`). A message starts a callback, which
takes two steps, `responses <- result` and the deferred `Done`. The server is
external. It handles a packet as it is sent, its answers come in order, and it
may close any connection at any time, with an error before or without;
subscribing twice under one number is taken to be subscribing once.
`ReleaseReservation` is the same call with a single request and no channel.

**Over RabbitMQ** (`RabbitBatch`), the module follows one auction's calls of
the batch kind, one after the other. Each request has a goroutine, whose `pc`
walks through `Request` (register, publish or fail, receive or time out, the
deferred delete) and the two sends of `batch`. The response queue is handled by
one dispatcher, in two steps with the lock released in between. What the reps
do with requests is left out: `served` says that they did it. A server takes
its requests off the queue before it looks for their handler, and drops those
it has none for, as a rep does that is connected but has not registered its
handlers yet (`ServeUnhandled`). `MaxBatches` is the module's one bound.

## Runs

| Run | Instance | Properties | What it shows |
|---|---|---|---|
| `inprocess_crowded` | 2 concurrent auctions, 3 reps, 2 rounds, pool of 60%, timeouts, all algorithms and an unknown one | `TypeOK`, `NoOvercommit`, `PlacedExactlyOnce`, `ReservationsAccounted`, `ReportCountsLost`, `EveryStepCounts`, `ImplementsPlacement`, `Termination` | Reservations are never leaked or overcommitted, results are final and right, so is the report's count of missing instances, every step brings the end nearer, and it comes, however the two auctions outbid each other. |
| `inprocess_sequential` | 4 auctions one at a time, of 2 sizes, 2 empty reps of different memory that have room for all only if the sizes are well placed, 1 round | `LostOnlyIfFull`, `EvenSpread`, `BestBidWins`, `Termination` | No auction is lost while its instance fits anywhere, the lowest score wins, which spreads instances evenly, and each auction makes way for the next until the report is made. |
| `nats_contention` | 2 concurrent auctions, 2 reps, 1 round | `TypeOK`, `NoOvercommit`, `ViewWrongOnlyWhereMissed`, `LostToAnother`, `ImplementsPlacement` | Late and lost requests never overcommit, the auctions do not starve each other, auctioneers are wrong only about reps they timed out on, and what is placed stays, on a rep that has room for it beside all else. |
| `nats_rounds` | 1 auction, 2 roomy reps, 3 rounds | `ViewWrongOnlyWhereMissed`, `WinnerKeepsInstance`, `EveryStepCounts`, `Termination` | The same across rounds, with requests of one handled in the next. |
| `nats_batch` | 2 calls on a shared client, 1 rep, 2 connections | `TypeOK`, `OneOKEach`, `SubscribedWhereServed`, `AllReceivedMeansAll`, `ReturnsOrStranded` | Wherever a connection is lost, answers match those who wait for them, subscriptions survive, responses are complete, and only calls caught by the loss itself hang. |
| `rep_locks` | 2 callers, a rep with room for one of two instances beside a third | `Serialized`, `ImplementsAuctionRep`, `LockGivenBack` | The rep's operations are atomic and always unlock. |
| `rabbit_calls` | 2 batches in a row, 2 reps | `MapHoldsPending`, `RepliesToThisBatch`, `CompleteWhenAllAnswer`, `ChannelHasRoom`, `DispatcherFree`, `BatchesReturn` | Late replies do no harm, nothing is left in the map, the dispatcher never waits for a request, and nobody but abandoned senders gets stuck. |
| `nats_leak`, `nats_late_release`, `nats_no_reply`, `nats_hang`, `rabbit_blank` | as above | one each, violated | See Findings. |

**Bounds.** Two auctions that do not both fit on one rep are the least that
compete, and each runs any algorithm, so that all pairs of algorithms meet.
Three reps let a short list (`NBest` = 2 where the code has 5) leave someone
out and a bidding pool differ from one round to the next. Two rounds let a
reservation outlive a round if it is leaked; three let a late release of the
first round fall between the reservation and the claim of the second, with one
more to fail. The crowded instance has a rep with an exact fit in memory, one
with an exact fit in containers and one that is full. `EvenSpread` takes more
instances than reps, hence four. Two callers are the least that can interleave
inside a rep, and two batches the least for a reply to come late. `MaxRounds`
is the code's own bound. The models' own bounds are three. `MaxBatches` is the
number of batches. `MaxConnections` is the number of connections dialled, of
which the last stays up once it is established; with two, the second can be
lost too while it is being established, which is what a third would add.
`Refusable` are the connections the server may close with an error; the first
one's loss without an error and the second one's with it cover what
resubscribing may meet. In `nats_batch`, one caller asks a rep and the other
asks nobody, as the second scoring of an auction with a single bidder does, and
subscribes and unsubscribes all the same: two goroutines that wait for answers
are the least that can take each other's. The proofs do without these
instances.

**Fairness.** `InprocessAuction` assumes weak fairness of each auction's steps:
its goroutines are scheduled, `time.Sleep` returns, and locks are held for
finite stretches. One weakly fair formula per auction is enough, since a
waiting semaphore is released by others' progress, and taking a result is a
step of the auction that hands it over. `NatsAuction` only assumes that the
auctioneers' goroutines and their timers run. No delivery is assumed, and none
is needed: `Termination` follows from the timeouts. (That a call reaches its
timeout is what a lost connection may prevent, see `CallsReturn`; `NatsAuction`
takes the connection to stay up.) `RabbitBatch` assumes the same of the
client's goroutines, its timers and its dispatcher, and nothing of the servers.
`NatsBatch` assumes that goroutines that can run do and that a server can be
dialled again; neither the server nor the reps owe a response, though the
server's `+OK` is on its way with the packet it confirms. `AuctionRepLocks`
assumes weak fairness of each caller, which promises the lock to nobody in
particular: a Go mutex may starve a goroutine, and no property says it does
not.

**Properties with conditions.** `LostOnlyIfFull` leaves out `random`, which may
draw full reps in every round, and `NotLostWithAmpleRoom` leaves out
`all_rescore`, where concurrent auctions may outbid each other's winners in
every round until the rounds run out. `LostOnlyIfFull`, `BestBidWins` and
`EvenSpread` are about auctions held one at a time, with everybody asked and
nobody timing out: with anything else in between, a score is out of date when
it is used. The last two are about the algorithms that go by the lowest score.
`LostOnlyIfFull` says that the instance fits nowhere (`Fits`), not that the
room check refuses it, so that a room check which wastes the last megabyte
breaks it. `LostToAnother` is what remains of it for concurrent auctions:
tentative reservations may cost an auction all the room there is, but not for
nothing. One that is lost although it would fit beside what ran before has
another beside it that won, is still at it, or missed an answer. It speaks of
auctions that missed no answer themselves and with everybody asked, and leaves
out `random`, as above, and all mixes with `all_rescore`, which gives back what
it has reserved when it is outbid: two of them can be lost with room for
either. `EvenSpread` is about reps that start empty, alike (which is what the
simulation's "should distribute evenly" holds auctions on) or not, and
instances of one application. It allows a difference of one, and more only
towards a rep without room: the code looks at bids, never at counts directly.
`ReturnsOrStranded` excepts calls whose packet went out on a connection that is
gone (see `CallsReturn` below) and calls that wait for a connection that will
not come: the last was lost before it was established, because of the bound, or
because its reader is stuck on the errors of a handshake that failed. It
says nothing against that last deadlock, which the model reaches. Nor does any
property forbid that `pick_among_best` slices five bids off fewer
(`TooFewBids`): `inprocess_crowded` reaches the panic, which stops all auctions
of the process, but nothing in the repository says that it does not happen.

## Findings

* `OthersReleased` (`nats_leak`): `batch` returns the replies received before
  the timeout, and the auctioneer releases only the reps that replied. A
  reservation handled after the timeout is held for ever.
* `WonIsDone` (`nats_late_release`): `all_rescore` tells an outbid winner to
  release, and the call times out; the rep wins the next round, claims, and
  then handles the old request, which deletes the claimed instance. The other
  algorithms never release before the claim (`WinnerKeepsInstance`).
* `UnansweredIsRefused` (`nats_no_reply`): `ScoreThenTentativelyReserve` on a
  single rep returns an empty list after a timeout, and `[0]` panics, where an
  error reply leads to the next round.
* `RepliesPassedOn` (`rabbit_blank`): a failed request sends its error and
  then, for want of a `return`, a blank result. `batch` takes one result per
  rep, so the blank one can stand in for the reply of a rep that has reserved.
  The reservation is never released, and the blank result passes `FilterErrors`
  as a bid of 0 from nobody.
* `CallsReturn` (`nats_hang`): a lost connection puts one "disconnected" in its
  channel of errors, so that of several goroutines in `ErrOrOK` one is told and
  the others wait for ever. `batch` waits there before it starts its timer and
  once more when it unsubscribes, so the flag described as "timeout for entire
  auction" does not end the call, and the auction keeps its slot of the node's
  semaphore.

## Proofs

All are checked by TLAPS for any number of reps, instances, auctions, rounds,
callers and connections, any resources and any mix of algorithms, from the
assumptions named in the modules: finite sets of reps and instances, natural
requirements, positive totals (`RepsAssumption`, `InstancesAssumption`),
initial contents that fit (`InprocessAssumption`, `NatsAssumption`), `None` no
rep (`AuctioneerAssumption`), callers that are not numbers
(`ConnectionAssumption`).

`RepResources_proofs`

* `RoomIsEnough` and `RoomIsNeeded`: the room check is exact. A passed check
  means the instance fits beside what is held, also if it is reserved a second
  time; an instance that would fit is not refused. Their lemmas say what a sum
  over one more instance is, and that part of what fits, fits.
* `BidsByNumber`: between two reps that run nothing but instances of one
  application, and have room for the one auctioned, the one that runs more bids
  higher, whatever its resources: its instances count in full, and the three
  fractions of the score cannot make up for one of them.

`InprocessAuction_proofs`

* `TypeCorrect`: `Spec => []TypeOK`. `TypeOK` alone is not inductive: `round`
  stays within `MaxRounds + 1` because calls are only made in rounds within
  `MaxRounds` (`RoundsCounted`), and `[winner EXCEPT ...]` needs a winner in
  the calls about one (`WinnerKnown`). Steps of the auctioneer keep all three
  (`AuctioneerType` in `Auctioneer_proofs`), over any transport.
* `NeverOvercommitted`: `Spec => []NoOvercommit`, from the types and
  `RoomIsEnough`; all other steps leave reps with what they had or less.
* `NoReservationLeaked` and `WonOnceLostNowhere`: `Spec =>
  []ReservationsAccounted` and `Spec => []PlacedExactlyOnce`. The inductive
  invariant `IInv` says that exactly `Holders(i)` hold instance `i`, `Holders`
  being what the auction knows from its locals and replies. It needs
  `Consistent`: replies come from reps no longer waited for, one from each,
  single reservations go to the winner only, and losers exclude the winner. The
  auctioneer's own steps keep both (`HoldersKept` in `Auctioneer_proofs`); the
  rest of the proof has a lemma for the steps of a rep and one
  (`OthersAccount`) by which no auction disturbs another's account.
* `ReportIsRight`: `Spec => []ReportCountsLost`. When all results have been
  taken all auctions are over (`CollectedOver`), each instance is on its winner
  and nowhere else or on nobody, and the pairs the report counts are one for
  each auction won.
* `NeverLostWithAmpleRoom`: `Spec => []NotLostWithAmpleRoom`. With room for
  everything (what is held is part of it, so `RoomIsNeeded` applies) nobody
  refuses, so every algorithm but `all_rescore` wins in its first round
  (`FirstRoundWins`).
* `AuctionsPlace`: `Spec => ImplementsPlacement`, a step for a step. What
  `Placement` has placed on a rep is part of what the rep holds (`IInv`), which
  fits (`NoOvercommit`), so part of it did, and `RoomIsNeeded` gives the guard
  of `Place`.
* `NothingIsDoneInVain`: `Spec => EveryStepCounts`. Rounds and the calls in a
  round are passed in one direction only, and a call ends by one answer at a
  time (`StepsLeadOn` in `Auctioneer_proofs`), so every step is one less to
  come. This is `Termination` but for the scheduling.

`InprocessSequential_proofs`

* `LostOnlyWhenFull`: `Spec => []LostOnlyIfFull`. By `RoomIsNeeded`, where the
  instance fits there is room. The inductive `TurnInv` says
  that at most one auction is running, so that by `IInv` reps hold what is
  `Settled` (the initial contents and the instances won) and what that auction
  has reserved itself; that its bids are therefore true; and that a round which
  has failed, but for those of `random`, found all reps full. What is settled
  only grows, so the full stay full.
* `BestBidAlwaysWins`: `Spec => BestBidWins`. `Choice`, which is part of
  `TurnInv`, says of the winner so far that nobody with room bids less, and an
  auction is won with bids that no step since has changed.
* `AlwaysEvenSpread`: `Spec => []EvenSpread`. What is settled is spread evenly
  after each auction: the winner is unbeaten (`Choice`), so nobody with room
  ran fewer instances (`BidsByNumber`), and whoever has no room stays without.

`NatsAuction_proofs`

* `TypeCorrect` and `NeverOvercommitted`, as in one process, with the types of
  the requests in flight.
* `ViewIsWrongOnlyWhereMissed`: `Spec => []ViewWrongOnlyWhereMissed`. The
  invariant as stated leaves open what a rep that is waited for has done; the
  inductive `ViewInv` does not. A rep that was never missed has no request in
  flight but that of the current call (`OnlyAsked`), and until it handles it
  the auctioneer's view of it is right (`ViewRight`). If its reply is received
  the view takes in what it did; if not, it stays waited for until it is
  missed.
* `WinnerAlwaysKeepsInstance`: `Spec => []WinnerKeepsInstance`. The algorithms
  but `all_rescore` release nothing before the claim, so whoever has accepted
  to reserve still holds the instance then, missed in an earlier round or not;
  and they never release the winner after it (`Direct`).
* `AuctionsPlaceOverNats`: `Spec => ImplementsPlacement`. By `Direct`, what
  `Placement` has placed is held by the rep it is placed on, and nothing
  releases what a rep held before (`OldKept`); the rest is as in one process.
  No more is promised of a rep that was missed, which may hold reservations
  besides: they take up room, but never more than there is.
* `OnlyLostToAnother`: `Spec => []LostToAnother`. Whoever holds something of an
  auction that misses nobody keeps something of it (`SomethingKept`): releases
  come after the claim and leave the winner out (`Direct`). So an auction
  beside which nothing is held in the end was alone from the start
  (`AlwaysUncontested`), reps held what they held before the auctions and its
  own reservations only (`NothingReserved`), and its answers tell who has room
  beside that: the inductive `ContestInv` says that each round asks somebody
  with room to reserve if there is anybody, and `RoomIsNeeded` turns "no room"
  into "does not fit".
* `AlwaysPlacedOnceUnlessMissed`: `Spec => []PlacedOnceUnlessMissed`. An
  auction that never missed anyone ends with its instance on the winner alone,
  or on nobody, as in one process: when it is decided it waits for nobody
  (`DoneWaiting`), so `ViewInv` speaks about all reps.
* `NothingIsDoneInVain`: `Spec => EveryStepCounts`. As in one process, or a
  request less is under way: what is late or lost costs an auction a timeout
  and no more.
* `SubjectsAreFresh`: `Spec => []FreshSubjects`: no request under way is from a
  later call than its auction's (`NoneAhead`), so that the triple that names a
  call stands for a subject never used before, as the code's random guid does.

`NatsBatch_proofs`

* `StaysSubscribed`: `Spec => []SubscribedWhereServed`. `ConnInv` describes the
  connections: only one is served, and those before it are down; errors come
  only from connections that are down; what a goroutine waits for is the
  connection it took. On it rests `SubInv`: on the connection being
  established, every subscription the client knows of is known to the server
  already, still to be sent, or will be in the snapshot.
* `AnOKForEachWaiter`: `Spec => []OneOKEach`, by counting: sending adds a
  waiter and an `+OK`, taking removes one of each, and nothing else touches
  either while the connection is up.
* `CompleteUnlessTimedOut` and `TypesKept`: `Spec => []AllReceivedMeansAll` and
  `Spec => []TypeOK`. `AskedOnce` says that each response is in one place only:
  not yet asked for, with the rep, on its way on one connection, with a
  callback, in the channel or among the results. So `pending` is the number of
  reps whose callback has not called `Done` (`GroupInv`): it never falls below
  zero, which would be a panic, and when it is zero all responses are in the
  channel, which always has room for those that are not.

`RabbitBatch_proofs`

* `MapAlwaysHoldsPending`: `Spec => []MapHoldsPending`, from the life of a
  request (`Life`).
* `RepliesAreToThisBatch`: `Spec => []RepliesToThisBatch`: nobody is handed a
  reply that was not given (`ServedFirst`), and a result in the batch's channel
  is of that batch and taken once (`ResultsInv`).
* `CompleteIfAllAnswer`: `Spec => []CompleteWhenAllAnswer`: as many results as
  reps, all different and none of them blank, are one from each.
* `DispatcherNeverBlocks`: `Spec => []ChannelHasRoom`. A request is published
  once, and its one response is with the server, with the dispatcher, or in the
  channel made for it, never in two places (`OnceInv`).
* `NoBatchWaitsInVain`: `Spec => []NeverWaitsInVain`. Each goroutine that is
  done has left a result in the channel or with the batch (`SentInv`).

`AuctionRepLocks_proofs`

* `OperationsSerialized` and `OperationsAtomic`: `Spec => []Serialized` and
  `Spec => ImplementsAuctionRep` for a rep with any number of callers.
  `Serialized` is inductive as it stands: whoever is between `Lock` and
  `Unlock` holds the rep's lock, so `instances` only changes in a step of its
  own, and what it has read stays true. Every other step is then one of
  `AuctionRep` or a stutter.
* `HolderNeverWaits`: `Spec => []LocksNested`. Only whoever holds the rep's
  lock takes the delegate's, so it never waits for it.

Model-checked only: the liveness properties (`Termination`, `LockGivenBack`,
`DispatcherFree`, `BatchesReturn`, `ReturnsOrStranded`), since the prover does
not handle `ENABLED`, on which fairness rests. What they need beside fairness
is safety, and is proved for all but the last: every step counts
(`EveryStepCounts`), nobody waits for a lock in a circle (`LocksNested`), the
dispatcher for a full channel (`ChannelHasRoom`) or a batch for nobody
(`NeverWaitsInVain`). Proved only, as theorems without a run of their own:
`NotLostWithAmpleRoom`, `PlacedOnceUnlessMissed`, `FreshSubjects`,
`LocksNested`, `NeverWaitsInVain`. All other properties of the runs that pass
are both.

## Not modelled

* **Vendored code** (`Godeps/`): nine tenths of the lines in the repository.
  Its AMQP library, drawing libraries, test framework and Windows and BSD file
  watchers are not this system's logic. They appear as what the code does with
  them (a queue, a correlation map, a random choice) or not at all, so most
  lines of the repository have no definition that models them. The exception is
  `yagnats`: what a NATS call waits for is decided there. Its `Ping`,
  `Disconnect` and `UnsubscribeAll` are not called by the system, and the text
  of its packets is abstracted.
* **Calls that only serve set-up and report**: `TotalResources`, `Instances`,
  `SetInstances` and `Reset` over any transport. They run while no auction
  does; so a report over NATS, where an instance may be held twice
  (`OthersReleased`), is not modelled either. The rep's side of them is in
  `AuctionRepLocks`.
* **The remote communicator**: one HTTP request per auction, an empty result
  when it fails.
* **The node's semaphore** over NATS: it only delays auctions, which the safety
  theorems about `NatsAuction` allow at any time. It has the form of the
  distributor's semaphore in `InprocessAuction`, where `Termination` is checked
  with it; what keeps it from being given back is `CallsReturn`.
* **Inside `NatsAuction`**, a `Subscribe` that fails: it returns as a call does
  that times out with nothing received. Failures to encode.
* **Over RabbitMQ**: what blank results do to a whole auction, the wait group
  of `ReleaseReservation` and reconnection. A response that says "error", which
  `request` turns into a `RequestFailedError` (`reprabbitclient.go:52-54`), and
  one that cannot be decoded (`reprabbitclient.go:56-58`): both would be errors
  like those of `Publish` and of a timeout, but reps answer so only to requests
  that are not the JSON of an instance, which the client never sends, or if
  their score cannot be encoded, which takes a total of zero.
* **Goroutines nobody waits for**: the one left in `allReceived.Wait()` after a
  timeout stays there for ever and holds nothing anybody needs.
* **Zero totals**: a rep with none of a resource scores `NaN`. `RepsAssumption`
  excludes it; the totals the simulation configures are positive.
* **The random generator** as such, shared without a lock: every draw is
  nondeterministic. Durations, counts of communications, logging, JSON, flags.
* **The report's statistics and drawings**, which nothing depends on.

## Plan

In order of importance; each item rests on those before it.

1. `RepResources`, `Auctioneer`, `InprocessAuction` and their runs. *Done.*
2. `Placement`, the abstract specification, as a property and as a theorem.
   *Done.*
3. `NatsAuction` with late and lost messages. *Done.*
4. Proofs for the in-process simulation. *Done.*
5. `AuctionRep` and `AuctionRepLocks`, their refinement and its proof. *Done.*
6. `RabbitBatch`: requests, dispatcher and batches, and its proofs. *Done.*
7. The distributor's result channel and the report's count of missing
   instances, in `InprocessAuction`, with proofs. *Done.*
8. `NatsConnection` and `NatsBatch`: the goroutines inside a NATS call and the
   client they share, with proofs. *Done.*
9. Proofs about `NatsAuction`. *Done.*
10. Proofs about auctions held one at a time, of `Placement` over NATS, and of
    the safety that the liveness properties rest on. *Done.*
11. What of `ReturnsOrStranded` is safety: that a goroutine in `ErrOrOK`, on a
    connection that is served, has an answer coming. *Left*; `OneOKEach` is
    half of it.
12. `RabbitAuction`: `Auctioneer` over batches that may contain blank results,
    with a first-in-first-out queue per rep. *Left.* What a blank result does
    is shown by `RepliesPassedOn`; the module would follow it through the
    algorithms.
