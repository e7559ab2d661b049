--------------------------- MODULE AuctionRepLocks --------------------------
(***************************************************************************)
(* AuctionRep and its SimulationRepDelegate, lock by lock.  Each operation *)
(* of the representative holds the representative's lock from its first    *)
(* line to its return, and makes one to three calls on the delegate, each  *)
(* of which holds the delegate's lock.  What one delegate call returned is *)
(* a local variable when the next is made.                                 *)
(***************************************************************************)
EXTENDS AuctionRep

VARIABLES
  pc,           \* pc[c]: what c does next
  repLock,      \* who holds AuctionRep.lock
  delegateLock, \* who holds SimulationRepDelegate.lock
  remaining,    \* the local variable remaining
  score         \* the local variable score

lockVars == <<pc, repLock, delegateLock, remaining, score>>
vars == <<repVars, lockVars>>

\* Calls on the delegate.
DelegateCalls == {"RemainingResources", "NumInstancesForAppGuid", "Reserve",
                  "ReleaseReservation", "Claim", "SetInstances", "Instances"}

TypeOK ==
  /\ instances \subseteq Instances
  /\ call \in [Callers -> Requests \cup {None}]
  /\ DOMAIN reply = Callers
  /\ pc \in [Callers -> {"idle", "Lock", "Unlock", "return"} \cup DelegateCalls]
  /\ repLock \in Callers \cup {None}
  /\ delegateLock \in Callers \cup {None}
  /\ DOMAIN remaining = Callers
  /\ DOMAIN score = Callers

Init ==
  /\ RepInit
  /\ pc = [c \in Callers |-> "idle"]
  /\ repLock = None
  /\ delegateLock = None
  /\ remaining = [c \in Callers |-> None]
  /\ score = [c \in Callers |-> None]

-----------------------------------------------------------------------------

Goto(c, label) == pc' = [pc EXCEPT ![c] = label]

\* The first call an operation makes on the delegate.
FirstCall ==
  [op \in OnInstance \cup {"set_instances", "instances"} |->
     CASE op \in {"score", "reserve"} -> "RemainingResources"
       [] op = "release"              -> "ReleaseReservation"
       [] op = "claim"                -> "Claim"
       [] op = "set_instances"        -> "SetInstances"
       [] op = "instances"            -> "Instances"]

Begin(c) ==
  /\ pc[c] = "idle"
  /\ Call(c)
  /\ Goto(c, "Lock")
  /\ UNCHANGED <<repLock, delegateLock, remaining, score>>

\* Mutant: the operation does not take the lock.
LockForgotten(c) ==
  /\ pc[c] = "Lock"
  /\ repLock' = c
  /\ Goto(c, FirstCall[call[c].op])
  /\ UNCHANGED <<repVars, delegateLock, remaining, score>>

\* rep.lock.Lock() in AuctionRep
Lock(c) ==
  /\ pc[c] = "Lock"
  /\ repLock = None
  /\ repLock' = c
  /\ Goto(c, FirstCall[call[c].op])
  /\ UNCHANGED <<repVars, delegateLock, remaining, score>>

\* rep.lock.Lock() in SimulationRepDelegate
LockDelegate(c) ==
  /\ pc[c] \in DelegateCalls
  /\ delegateLock = None
  /\ delegateLock' = c
  /\ UNCHANGED <<repVars, pc, repLock, remaining, score>>

\* c runs the body of the delegate's method and unlocks the delegate.
InDelegate(c, method) ==
  /\ pc[c] = method
  /\ delegateLock = c
  /\ delegateLock' = None
  /\ UNCHANGED repLock

-----------------------------------------------------------------------------

RemainingNow ==
  [memory     |-> RemainingMemory(guid, instances),
   disk       |-> RemainingDisk(guid, instances),
   containers |-> RemainingContainers(guid, instances)]

\* hasRoomFor, on the resources that were remaining.
EnoughIn(resources, i) ==
  /\ resources.memory >= MemoryMB[i]
  /\ resources.disk >= DiskMB[i]
  /\ resources.containers > 0

RemainingResources(c) ==
  /\ InDelegate(c, "RemainingResources")
  /\ EnoughIn(RemainingNow, call[c].inst)
  /\ remaining' = [remaining EXCEPT ![c] = RemainingNow]
  /\ Goto(c, "NumInstancesForAppGuid")
  /\ UNCHANGED <<repVars, score>>

\* Mutant: the early return skips the unlock.
InsufficientKeepsLock(c) ==
  /\ InDelegate(c, "RemainingResources")
  /\ ~EnoughIn(RemainingNow, call[c].inst)
  /\ Settle(c, Refused, instances)
  /\ Goto(c, "return")
  /\ UNCHANGED <<remaining, score>>

\* return 0, types.InsufficientResources
InsufficientResources(c) ==
  /\ InDelegate(c, "RemainingResources")
  /\ ~EnoughIn(RemainingNow, call[c].inst)
  /\ Settle(c, Refused, instances)
  /\ Goto(c, "Unlock")
  /\ UNCHANGED <<remaining, score>>

\* AuctionRep.score
ScoreFrom(c) ==
  ScoreOf(guid, remaining[c].memory, remaining[c].disk,
          remaining[c].containers,
          NumInstancesForAppGuid(instances, AppGuid[call[c].inst]))

\* Score returns what it has computed.
ScoreOnly(c) ==
  /\ InDelegate(c, "NumInstancesForAppGuid")
  /\ call[c].op = "score"
  /\ Settle(c, Done(ScoreFrom(c)), instances)
  /\ Goto(c, "Unlock")
  /\ UNCHANGED <<remaining, score>>

\* ScoreThenTentativelyReserve: score first
ScoreFirst(c) ==
  /\ InDelegate(c, "NumInstancesForAppGuid")
  /\ call[c].op = "reserve"
  /\ score' = [score EXCEPT ![c] = ScoreFrom(c)]
  /\ Goto(c, "Reserve")
  /\ UNCHANGED <<repVars, remaining>>

\* then reserve.  The delegate checks for room again.
ThenReserve(c) ==
  /\ InDelegate(c, "Reserve")
  /\ IF EnoughIn(RemainingNow, call[c].inst)
     THEN Settle(c, Done(score[c]), instances \cup {call[c].inst})
     ELSE Settle(c, Refused, instances)
  /\ Goto(c, "Unlock")
  /\ UNCHANGED <<remaining, score>>

\* The operations that make a single call on the delegate.
SingleCall(c) ==
  /\ \/ InDelegate(c, "ReleaseReservation") /\ DoRelease(c)
     \/ InDelegate(c, "Claim") /\ DoClaim(c)
     \/ InDelegate(c, "SetInstances") /\ DoSetInstances(c)
     \/ InDelegate(c, "Instances") /\ DoInstances(c)
  /\ Goto(c, "Unlock")
  /\ UNCHANGED <<remaining, score>>

\* defer rep.lock.Unlock(); the locals go out of scope.
Unlock(c) ==
  /\ pc[c] = "Unlock"
  /\ repLock' = None
  /\ Goto(c, "return")
  /\ remaining' = [remaining EXCEPT ![c] = None]
  /\ score' = [score EXCEPT ![c] = None]
  /\ UNCHANGED <<repVars, delegateLock>>

End(c) ==
  /\ pc[c] = "return"
  /\ Return(c)
  /\ Goto(c, "idle")
  /\ UNCHANGED <<repLock, delegateLock, remaining, score>>

\* What c does once its call is under way.
Operate(c) ==
  \/ Lock(c)
  \/ LockDelegate(c)
  \/ RemainingResources(c)
  \/ InsufficientResources(c)
  \/ ScoreOnly(c)
  \/ ScoreFirst(c)
  \/ ThenReserve(c)
  \/ SingleCall(c)
  \/ Unlock(c)
  \/ End(c)

Next == \E c \in Callers : Begin(c) \/ Operate(c)

\* A goroutine that can run does, but the lock is not promised to anyone
\* in particular.
Fairness == \A c \in Callers : WF_vars(Operate(c))

Spec == Init /\ [][Next]_vars
FairSpec == Spec /\ Fairness

-----------------------------------------------------------------------------

(***************************************************************************)
(* Safety: operations do not overlap, from their first call on the         *)
(* delegate to their return, and so what a call returned is still true     *)
(* when it is used: the remaining resources are those of the instances     *)
(* held, and the score is that of the instances the reservation is added   *)
(* to.                                                                     *)
(***************************************************************************)
CallsOf(op) ==
  CASE op = "score"         -> {"RemainingResources", "NumInstancesForAppGuid"}
    [] op = "reserve"       -> {"RemainingResources", "NumInstancesForAppGuid",
                                "Reserve"}
    [] op = "release"       -> {"ReleaseReservation"}
    [] op = "claim"         -> {"Claim"}
    [] op = "set_instances" -> {"SetInstances"}
    [] op = "instances"     -> {"Instances"}

Phases(c) ==
  /\ pc[c] = "idle" <=> call[c] = None
  /\ pc[c] \notin {"Unlock", "return"} => reply[c] = None
  /\ pc[c] \in DelegateCalls => pc[c] \in CallsOf(call[c].op)
  /\ repLock = c <=> pc[c] \in DelegateCalls \cup {"Unlock"}
  /\ delegateLock = c => pc[c] \in DelegateCalls

NothingStale(c) ==
  /\ pc[c] \in {"NumInstancesForAppGuid", "Reserve"}
       => /\ remaining[c] = RemainingNow
          /\ EnoughIn(RemainingNow, call[c].inst)
  /\ pc[c] = "Reserve" => score[c] = Score(guid, instances, call[c].inst)

Serialized == TypeOK /\ \A c \in Callers : Phases(c) /\ NothingStale(c)

(***************************************************************************)
(* Refinement: an operation that makes several calls on the delegate, and  *)
(* works with what an earlier one returned, is atomic all the same.        *)
(***************************************************************************)
ImplementsAuctionRep == RepSpec

(***************************************************************************)
(* Liveness: whoever takes the representative's lock gives it back, by     *)
(* whatever return it leaves.                                              *)
(***************************************************************************)
LockGivenBack == \A c \in Callers : (repLock = c) ~> (repLock # c)
=============================================================================
