----------------------------- MODULE AuctionRep -----------------------------
(***************************************************************************)
(* One representative as its callers see it.  An operation takes effect at *)
(* a single moment between its call and its return, whatever other callers *)
(* do meanwhile; its result is that of the instances held at that moment.  *)
(* The servers and clients of all transports rely on this.                 *)
(***************************************************************************)
EXTENDS RepResources

CONSTANTS
  guid,    \* the representative
  Callers, \* the goroutines that may call it at the same time
  Batches, \* what SetInstances may be called with; {} is Reset
  Initial, \* the instances held at first
  None     \* no call, no result

VARIABLES
  instances, \* the instances held
  call,      \* call[c]: the operation c has called
  reply      \* reply[c]: its result, once determined

repVars == <<instances, call, reply>>

OnInstance == {"score", "reserve", "release", "claim"}

Requests ==
  [op : OnInstance, inst : Instances]
    \cup [op : {"set_instances"}, batch : Batches]
    \cup [op : {"instances"}]

ASSUME AuctionRepAssumption ==
  /\ guid \in Reps
  /\ Batches \subseteq SUBSET Instances
  /\ Initial \subseteq Instances
  /\ None \notin Requests \cup Callers

RepInit ==
  /\ instances = Initial
  /\ call = [c \in Callers |-> None]
  /\ reply = [c \in Callers |-> None]

Done(value) == [ok |-> TRUE, value |-> value]
Refused == [ok |-> FALSE, value |-> None]

-----------------------------------------------------------------------------

Call(c) ==
  /\ call[c] = None
  /\ \E q \in Requests : call' = [call EXCEPT ![c] = q]
  /\ UNCHANGED <<instances, reply>>

\* The result of a call is determined, and the instances are what it leaves.
Settle(c, result, held) ==
  /\ call[c] # None
  /\ reply[c] = None
  /\ reply' = [reply EXCEPT ![c] = result]
  /\ instances' = held
  /\ UNCHANGED call

DoScore(c) ==
  /\ call[c].op = "score"
  /\ Settle(c,
       IF HasRoomFor(guid, instances, call[c].inst)
       THEN Done(Score(guid, instances, call[c].inst)) ELSE Refused,
       instances)

DoReserve(c) ==
  /\ call[c].op = "reserve"
  /\ IF HasRoomFor(guid, instances, call[c].inst)
     THEN Settle(c, Done(Score(guid, instances, call[c].inst)),
                 instances \cup {call[c].inst})
     ELSE Settle(c, Refused, instances)

\* Only what is held can be released or claimed.
DoRelease(c) ==
  /\ call[c].op = "release"
  /\ Settle(c, IF call[c].inst \in instances THEN Done(None) ELSE Refused,
            instances \ {call[c].inst})

DoClaim(c) ==
  /\ call[c].op = "claim"
  /\ Settle(c, IF call[c].inst \in instances THEN Done(None) ELSE Refused,
            instances)

DoSetInstances(c) ==
  /\ call[c].op = "set_instances"
  /\ Settle(c, Done(None), call[c].batch)

DoInstances(c) ==
  /\ call[c].op = "instances"
  /\ Settle(c, Done(instances), instances)

Execute(c) ==
  /\ call[c] # None
  /\ \/ DoScore(c)
     \/ DoReserve(c)
     \/ DoRelease(c)
     \/ DoClaim(c)
     \/ DoSetInstances(c)
     \/ DoInstances(c)

Return(c) ==
  /\ reply[c] # None
  /\ call' = [call EXCEPT ![c] = None]
  /\ reply' = [reply EXCEPT ![c] = None]
  /\ UNCHANGED instances

RepNext == \E c \in Callers : Call(c) \/ Execute(c) \/ Return(c)

RepSpec == RepInit /\ [][RepNext]_repVars
=============================================================================
