----------------------- MODULE AuctionRepLocks_proofs -----------------------
(***************************************************************************)
(* The representative's lock makes its operations atomic, for any number   *)
(* of callers and instances.                                               *)
(***************************************************************************)
EXTENDS AuctionRepLocks, TLAPS

\* The resources remaining decide about room as HasRoomFor does.
LEMMA EnoughIsRoom ==
  ASSUME NEW i
  PROVE  EnoughIn(RemainingNow, i) <=> HasRoomFor(guid, instances, i)
BY DEF EnoughIn, RemainingNow, HasRoomFor

LEMMA ScoreIsCurrent ==
  ASSUME NEW c \in Callers, remaining[c] = RemainingNow
  PROVE  ScoreFrom(c) = Score(guid, instances, call[c].inst)
BY DEF ScoreFrom, RemainingNow, Score

\* A request, once made, is of one of the six kinds.
LEMMA RequestKinds ==
  ASSUME NEW q \in Requests
  PROVE  /\ q # None
         /\ q.op \in OnInstance \cup {"set_instances", "instances"}
         /\ q.op \in OnInstance => q.inst \in Instances
         /\ q.op = "set_instances" => q.batch \in SUBSET Instances
         /\ FirstCall[q.op] \in CallsOf(q.op)
         /\ FirstCall[q.op] \in DelegateCalls \ {"NumInstancesForAppGuid", "Reserve"}
BY AuctionRepAssumption
DEF Requests, OnInstance, FirstCall, CallsOf, DelegateCalls

\* Whoever is inside is alone there.
LEMMA OneInside ==
  ASSUME Serialized, NEW c \in Callers, NEW d \in Callers \ {c},
         pc[c] \in DelegateCalls \cup {"Unlock"}
  PROVE  pc[d] \notin DelegateCalls \cup {"Unlock"}
BY DEF Serialized, Phases

-----------------------------------------------------------------------------

LEMMA SerializedInit == Init => Serialized
BY AuctionRepAssumption
DEF Init, RepInit, Serialized, TypeOK, Phases, NothingStale, DelegateCalls

\* A step of c that changes what the others can see of it: nothing but its own
\* program counter, call, reply and locals, and the two locks.
Own(c) ==
  /\ \A d \in Callers \ {c} :
       /\ pc'[d] = pc[d] /\ call'[d] = call[d] /\ reply'[d] = reply[d]
       /\ remaining'[d] = remaining[d] /\ score'[d] = score[d]
       /\ repLock' = d <=> repLock = d
       /\ delegateLock' = d => delegateLock = d
  /\ instances' # instances => pc[c] \in DelegateCalls

LEMMA OthersKept ==
  ASSUME Serialized, NEW c \in Callers, Own(c), NEW d \in Callers \ {c}
  PROVE  (Phases(d) /\ NothingStale(d))'
<1>1. Phases(d) /\ NothingStale(d)
  BY DEF Serialized
<1>2. Phases(d)'
  BY <1>1 DEF Own, Phases
<1>3. CASE instances' = instances
  <2>1. RemainingNow' = RemainingNow
    BY <1>3 DEF RemainingNow
  <2>2. QED
    BY <1>1, <1>2, <1>3, <2>1 DEF Own, NothingStale, EnoughIn
<1>4. CASE instances' # instances
  <2>1. pc'[d] \notin DelegateCalls
    BY <1>4, OneInside DEF Own
  <2>2. QED
    BY <1>2, <2>1 DEF NothingStale, DelegateCalls
<1>5. QED
  BY <1>3, <1>4

LEMMA SerializedStep == Serialized /\ [Next]_vars => Serialized'
<1> SUFFICES ASSUME Serialized, [Next]_vars
             PROVE  Serialized'
  OBVIOUS
<1>1. CASE UNCHANGED vars
  BY <1>1
  DEF vars, repVars, lockVars, Serialized, TypeOK, Phases, NothingStale,
      EnoughIn, RemainingNow
<1>2. ASSUME NEW c \in Callers, Begin(c) \/ Operate(c)
      PROVE  Serialized'
  <2> DEFINE Good == TypeOK' /\ Own(c) /\ Phases(c)' /\ NothingStale(c)'
  <2>0. SUFFICES Good
    BY OthersKept DEF Serialized
  <2>1. TypeOK /\ Phases(c) /\ NothingStale(c) /\ c # None
    BY AuctionRepAssumption DEF Serialized
  <2>2. ASSUME NEW d \in Callers \ {c}, pc[c] \in DelegateCalls \cup {"Unlock"}
        PROVE  repLock = c /\ repLock # d /\ d # None
    BY <2>1, <2>2, AuctionRepAssumption DEF Phases
  <2>3. CASE Begin(c)
    <3>1. PICK q \in Requests : call' = [call EXCEPT ![c] = q]
      BY <2>3 DEF Begin, Call
    <3>2. QED
      BY <2>1, <2>3, <3>1, RequestKinds
      DEF Begin, Call, Goto, TypeOK, Own, Phases, NothingStale, DelegateCalls
  <2>4. CASE Lock(c)
    <3>1. call[c] \in Requests
      BY <2>1, <2>4 DEF Lock, TypeOK, Phases
    <3>2. /\ pc' = [pc EXCEPT ![c] = FirstCall[call[c].op]]
          /\ repLock = None /\ repLock' = c
          /\ UNCHANGED <<instances, call, reply, delegateLock, remaining, score>>
      BY <2>4 DEF Lock, Goto, repVars
    <3>3. FirstCall[call[c].op] \in DelegateCalls \ {"NumInstancesForAppGuid", "Reserve"}
            /\ FirstCall[call[c].op] \in CallsOf(call[c].op) /\ call[c] # None
      BY <3>1, RequestKinds
    <3>4. TypeOK' /\ pc'[c] = FirstCall[call[c].op]
      BY <2>1, <3>2, <3>3 DEF TypeOK
    <3>5. Own(c)
      BY <2>1, <3>2, AuctionRepAssumption DEF Own, TypeOK
    <3>6. reply[c] = None /\ pc[c] = "Lock"
      BY <2>1, <2>4 DEF Lock, Phases
    <3>7. Phases(c)' /\ NothingStale(c)'
      BY <3>2, <3>3, <3>4, <3>6 DEF Phases, NothingStale, DelegateCalls
    <3>8. QED
      BY <3>4, <3>5, <3>7
  <2>5. CASE LockDelegate(c)
    <3>1. RemainingNow' = RemainingNow
      BY <2>5 DEF LockDelegate, repVars, RemainingNow
    <3>2. QED
      BY <2>1, <2>5, <3>1
      DEF LockDelegate, TypeOK, Own, Phases, NothingStale, repVars, EnoughIn
  <2>6. CASE RemainingResources(c)
    <3>1. RemainingNow' = RemainingNow
      BY <2>6 DEF RemainingResources, repVars, RemainingNow
    <3>2. call[c].op \in {"score", "reserve"}
      BY <2>1, <2>6, RequestKinds
      DEF RemainingResources, InDelegate, Phases, DelegateCalls, CallsOf,
          TypeOK, OnInstance
    <3>3. QED
      BY <2>1, <2>2, <2>6, <3>1, <3>2, AuctionRepAssumption
      DEF RemainingResources, InDelegate, Goto, TypeOK, Own, Phases,
          NothingStale, repVars, EnoughIn, DelegateCalls, CallsOf
  <2>7. CASE InsufficientResources(c)
    BY <2>1, <2>2, <2>7, AuctionRepAssumption
    DEF InsufficientResources, InDelegate, Settle, Goto, TypeOK, Own, Phases,
        NothingStale, DelegateCalls
  <2>8. CASE ScoreOnly(c)
    BY <2>1, <2>2, <2>8, AuctionRepAssumption
    DEF ScoreOnly, InDelegate, Settle, Goto, TypeOK, Own, Phases,
        NothingStale, DelegateCalls
  <2>9. CASE ScoreFirst(c)
    <3>1. RemainingNow' = RemainingNow
      BY <2>9 DEF ScoreFirst, repVars, RemainingNow
    <3>2. ScoreFrom(c) = Score(guid, instances, call[c].inst)
      BY <2>1, <2>9, ScoreIsCurrent DEF NothingStale, ScoreFirst, InDelegate
    <3>3. QED
      BY <2>1, <2>2, <2>9, <3>1, <3>2, AuctionRepAssumption
      DEF ScoreFirst, InDelegate, Goto, TypeOK, Own, Phases, NothingStale,
          repVars, EnoughIn, DelegateCalls, CallsOf
  <2>10. CASE ThenReserve(c)
    <3>1. /\ \E result, held : Settle(c, result, held) /\ held \subseteq Instances
          /\ InDelegate(c, "Reserve") /\ Goto(c, "Unlock")
          /\ UNCHANGED <<remaining, score>>
      <4>1. call[c].inst \in Instances
        BY <2>1, <2>10, RequestKinds
        DEF ThenReserve, InDelegate, Phases, DelegateCalls, CallsOf, TypeOK,
            OnInstance
      <4>2. QED
        BY <2>1, <2>10, <4>1 DEF ThenReserve, TypeOK
    <3>2. QED
      BY <2>1, <2>2, <3>1, AuctionRepAssumption
      DEF InDelegate, Settle, Goto, TypeOK, Own, Phases, NothingStale,
          DelegateCalls
  <2>11. CASE SingleCall(c)
    <3>1. /\ \E result, held : Settle(c, result, held) /\ held \subseteq Instances
          /\ \E method \in DelegateCalls : InDelegate(c, method)
          /\ Goto(c, "Unlock") /\ UNCHANGED <<remaining, score>>
      <4>1. call[c] \in Requests
        BY <2>1, <2>11
        DEF SingleCall, InDelegate, Phases, DelegateCalls, TypeOK
      <4>2. QED
        BY <2>1, <2>11, <4>1, RequestKinds
        DEF SingleCall, DoRelease, DoClaim, DoSetInstances, DoInstances,
            DelegateCalls, TypeOK
    <3>2. QED
      BY <2>1, <2>2, <3>1, AuctionRepAssumption
      DEF InDelegate, Settle, Goto, TypeOK, Own, Phases, NothingStale,
          DelegateCalls
  <2>12. CASE Unlock(c)
    BY <2>1, <2>2, <2>12, AuctionRepAssumption
    DEF Unlock, Goto, TypeOK, Own, Phases, NothingStale, repVars,
        DelegateCalls
  <2>13. CASE End(c)
    BY <2>1, <2>13
    DEF End, Return, Goto, TypeOK, Own, Phases, NothingStale, DelegateCalls
  <2>14. QED
    BY <1>2, <2>3, <2>4, <2>5, <2>6, <2>7, <2>8, <2>9, <2>10, <2>11, <2>12,
       <2>13 DEF Operate
<1>3. QED
  BY <1>1, <1>2 DEF Next

(***************************************************************************)
(* Operations never overlap, and nothing an operation has read from the    *)
(* delegate is stale when it is used.                                      *)
(***************************************************************************)
THEOREM OperationsSerialized == Spec => []Serialized
BY SerializedInit, SerializedStep, PTL DEF Spec

-----------------------------------------------------------------------------

\* Every step is a step of the atomic representative, or changes nothing its
\* callers see.
LEMMA AtomicStep == Serialized /\ [Next]_vars => [RepNext]_repVars
<1> SUFFICES ASSUME Serialized, [Next]_vars
             PROVE  [RepNext]_repVars
  OBVIOUS
<1>1. CASE UNCHANGED vars
  BY <1>1 DEF vars
<1>2. ASSUME NEW c \in Callers, Begin(c) \/ Operate(c)
      PROVE  [RepNext]_repVars
  <2>1. TypeOK /\ Phases(c) /\ NothingStale(c)
    BY DEF Serialized
  <2>2. ASSUME Execute(c)
        PROVE  RepNext
    BY <2>2 DEF RepNext
  <2>3. CASE Begin(c)
    BY <2>3 DEF Begin, RepNext
  <2>4. CASE Lock(c) \/ LockDelegate(c) \/ RemainingResources(c)
               \/ ScoreFirst(c) \/ Unlock(c)
    BY <2>4
    DEF Lock, LockDelegate, RemainingResources, ScoreFirst, Unlock
  <2>5. CASE InsufficientResources(c)
    <3>1. call[c].op \in {"score", "reserve"} /\ call[c] # None
      BY <2>1, <2>5, RequestKinds
      DEF InsufficientResources, InDelegate, Phases, DelegateCalls, CallsOf,
          TypeOK, OnInstance
    <3>2. ~HasRoomFor(guid, instances, call[c].inst)
      BY <2>5, EnoughIsRoom DEF InsufficientResources
    <3>3. QED
      BY <2>2, <2>5, <3>1, <3>2
      DEF InsufficientResources, Execute, DoScore, DoReserve
  <2>6. CASE ScoreOnly(c)
    <3>1. ScoreFrom(c) = Score(guid, instances, call[c].inst)
      BY <2>1, <2>6, ScoreIsCurrent DEF NothingStale, ScoreOnly, InDelegate
    <3>2. HasRoomFor(guid, instances, call[c].inst) /\ call[c] # None
      BY <2>1, <2>6, EnoughIsRoom
      DEF NothingStale, ScoreOnly, InDelegate, Settle
    <3>3. QED
      BY <2>2, <2>6, <3>1, <3>2 DEF ScoreOnly, Execute, DoScore
  <2>7. CASE ThenReserve(c)
    <3>1. call[c].op = "reserve" /\ call[c] # None
      BY <2>1, <2>7, RequestKinds
      DEF ThenReserve, InDelegate, Phases, DelegateCalls, CallsOf, TypeOK,
          OnInstance
    <3>2. /\ HasRoomFor(guid, instances, call[c].inst)
          /\ EnoughIn(RemainingNow, call[c].inst)
          /\ score[c] = Score(guid, instances, call[c].inst)
      BY <2>1, <2>7, EnoughIsRoom DEF NothingStale, ThenReserve, InDelegate
    <3>3. QED
      BY <2>2, <2>7, <3>1, <3>2 DEF ThenReserve, Execute, DoReserve
  <2>8. CASE SingleCall(c)
    BY <2>2, <2>8
    DEF SingleCall, Execute, DoRelease, DoClaim, DoSetInstances, DoInstances,
        Settle
  <2>9. CASE End(c)
    BY <2>9 DEF End, RepNext
  <2>10. QED
    BY <1>2, <2>3, <2>4, <2>5, <2>6, <2>7, <2>8, <2>9 DEF Operate
<1>3. QED
  BY <1>1, <1>2 DEF Next

(***************************************************************************)
(* The operations of the representative are atomic: every behaviour of the *)
(* code with its locks is one of AuctionRep.                               *)
(***************************************************************************)
THEOREM OperationsAtomic == Spec => ImplementsAuctionRep
<1>1. Init => RepInit
  BY DEF Init
<1>2. QED
  BY <1>1, OperationsSerialized, AtomicStep, PTL
  DEF Spec, ImplementsAuctionRep, RepSpec

-----------------------------------------------------------------------------

(***************************************************************************)
(* The locks cannot deadlock: the delegate's is only ever held by whoever  *)
(* holds the representative's, who therefore never waits for it.           *)
(***************************************************************************)
LocksNested == delegateLock # None => delegateLock = repLock

THEOREM HolderNeverWaits == Spec => []LocksNested
<1>1. Serialized => LocksNested
  BY DEF Serialized, TypeOK, Phases, LocksNested
<1>2. QED
  BY <1>1, OperationsSerialized, PTL
=============================================================================
