------------------------- MODULE RepResources_proofs -------------------------
(***************************************************************************)
(* Lemmas on what a set of instances takes from a representative.  They    *)
(* hold for every assignment of resources to instances and                 *)
(* representatives.                                                        *)
(***************************************************************************)
EXTENDS RepResources, FiniteSetTheorems, TLAPS

\* The units a single instance takes: as many as its amount.
LEMMA UnitsOfOne ==
  ASSUME NEW i, NEW n \in Nat
  PROVE  /\ IsFiniteSet({i} \X (1 .. n))
         /\ Cardinality({i} \X (1 .. n)) = n
<1>1. /\ IsFiniteSet(1 .. n)
      /\ Cardinality(1 .. n) = n
  BY FS_Interval
<1>2. /\ IsFiniteSet({i})
      /\ Cardinality({i}) = 1
  BY FS_Singleton
<1>3. QED
  BY <1>1, <1>2, FS_Product

\* Finitely many instances take finitely many units.
LEMMA UnitsFinite ==
  ASSUME NEW S \in SUBSET Instances, NEW amount \in [Instances -> Nat]
  PROVE  IsFiniteSet(Units(S, amount))
<1> DEFINE unitsOf == [i \in S |-> {i} \X (1 .. amount[i])]
           T == {{i} \X (1 .. amount[i]) : i \in S}
<1>1. IsFiniteSet(S)
  BY InstancesAssumption, FS_Subset
<1>2. unitsOf \in Surjection(S, T)
  BY DEF Surjection
<1>3. IsFiniteSet(T)
  BY <1>1, <1>2, FS_Surjection
<1>4. ASSUME NEW U \in T
      PROVE  IsFiniteSet(U)
  <2>1. PICK i \in S : U = {i} \X (1 .. amount[i])
    OBVIOUS
  <2>2. amount[i] \in Nat
    OBVIOUS
  <2> HIDE DEF T, unitsOf
  <2>3. IsFiniteSet({i} \X (1 .. amount[i]))
    BY <2>2, UnitsOfOne
  <2>4. QED
    BY <2>1, <2>3
<1>5. QED
  BY <1>3, <1>4, FS_UNION DEF Units

\* A sum is a natural number.
LEMMA SumType ==
  ASSUME NEW S \in SUBSET Instances, NEW amount \in [Instances -> Nat]
  PROVE  Sum(S, amount) \in Nat
BY UnitsFinite, FS_CardinalityType DEF Sum

\* One more instance adds its own amount to the sum.
LEMMA SumOfOneMore ==
  ASSUME NEW S \in SUBSET Instances, NEW amount \in [Instances -> Nat],
         NEW i \in Instances, i \notin S
  PROVE  Sum(S \cup {i}, amount) = Sum(S, amount) + amount[i]
<1> DEFINE U == {i} \X (1 .. amount[i])
<1>1. Units(S \cup {i}, amount) = Units(S, amount) \cup U
  BY DEF Units
<1>2. Units(S, amount) \cap U = {}
  BY DEF Units
<1>3. /\ IsFiniteSet(U)
      /\ Cardinality(U) = amount[i]
  BY UnitsOfOne
<1>4. IsFiniteSet(Units(S, amount))
  BY UnitsFinite
<1>5. Cardinality(Units(S, amount) \cup U)
        = Cardinality(Units(S, amount)) + Cardinality(U) - Cardinality({})
  BY <1>2, <1>3, <1>4, FS_Union
<1>6. /\ Cardinality({}) = 0
      /\ Cardinality(Units(S, amount)) \in Nat
  BY <1>4, FS_EmptySet, FS_CardinalityType
<1>7. Cardinality(Units(S, amount) \cup U)
        = Cardinality(Units(S, amount)) + amount[i]
  <2> HIDE DEF U
  <2>1. amount[i] \in Nat
    OBVIOUS
  <2>2. QED
    BY <1>3, <1>5, <1>6, <2>1
<1>8. QED
  BY <1>1, <1>7 DEF Sum

\* Fewer instances take no more.
LEMMA SumMonotone ==
  ASSUME NEW S \in SUBSET Instances, NEW T \in SUBSET S,
         NEW amount \in [Instances -> Nat]
  PROVE  Sum(T, amount) <= Sum(S, amount)
<1>1. Units(T, amount) \subseteq Units(S, amount)
  BY DEF Units
<1>2. QED
  BY <1>1, UnitsFinite, FS_Subset DEF Sum

\* So do they hold no more containers.
LEMMA ContainersMonotone ==
  ASSUME NEW S \in SUBSET Instances, NEW T \in SUBSET S
  PROVE  /\ Cardinality(S) \in Nat
         /\ Cardinality(T) \in Nat
         /\ Cardinality(T) <= Cardinality(S)
<1>1. IsFiniteSet(S)
  BY InstancesAssumption, FS_Subset
<1>2. /\ IsFiniteSet(T)
      /\ Cardinality(T) <= Cardinality(S)
  BY <1>1, FS_Subset
<1>3. QED
  BY <1>1, <1>2, FS_CardinalityType

\* A bid is a number: the tests on scores in the auctions are meaningful.
LEMMA ScoreType ==
  ASSUME NEW r \in Reps, NEW S \in SUBSET Instances, NEW i \in Instances
  PROVE  Score(r, S, i) \in Int
<1>1. /\ Sum(S, MemoryMB) \in Nat
      /\ Sum(S, DiskMB) \in Nat
  BY SumType, InstancesAssumption
<1>2. /\ Cardinality(S) \in Nat
      /\ NumInstancesForAppGuid(S, AppGuid[i]) \in Nat
  BY ContainersMonotone DEF NumInstancesForAppGuid
<1>3. \A rem \in Int, total \in Nat \ {0} : Fraction(rem, total) \in Int
  BY RepsAssumption DEF Fraction
<1>4. /\ RemainingMemory(r, S) \in Int
      /\ RemainingDisk(r, S) \in Int
      /\ RemainingContainers(r, S) \in Int
  BY <1>1, <1>2, RepsAssumption
  DEF RemainingMemory, RemainingDisk, RemainingContainers
<1>5. /\ Fraction(RemainingMemory(r, S), TotalMemoryMB[r]) \in Int
      /\ Fraction(RemainingDisk(r, S), TotalDiskMB[r]) \in Int
      /\ Fraction(RemainingContainers(r, S), TotalContainers[r]) \in Int
  BY <1>3, <1>4, RepsAssumption
<1>6. QED
  BY <1>2, <1>5, RepsAssumption DEF Score, ScoreOf

-----------------------------------------------------------------------------

(***************************************************************************)
(* The room check is right: an instance there is room for can be added,    *)
(* also when the representative holds it already (the delegate's Reserve   *)
(* then replaces it).                                                      *)
(***************************************************************************)
THEOREM RoomIsEnough ==
  ASSUME NEW r \in Reps, NEW S \in SUBSET Instances, NEW i \in Instances,
         Fits(r, S), HasRoomFor(r, S, i)
  PROVE  Fits(r, S \cup {i})
<1>1. CASE i \in S
  <2>1. S \cup {i} = S
    BY <1>1
  <2>2. QED
    BY <2>1
<1>2. CASE i \notin S
  <2>1. /\ Sum(S \cup {i}, MemoryMB) = Sum(S, MemoryMB) + MemoryMB[i]
        /\ Sum(S \cup {i}, DiskMB) = Sum(S, DiskMB) + DiskMB[i]
    BY <1>2, SumOfOneMore, InstancesAssumption
  <2>2. /\ Sum(S, MemoryMB) \in Nat
        /\ Sum(S, DiskMB) \in Nat
        /\ Cardinality(S) \in Nat
    BY SumType, ContainersMonotone, InstancesAssumption
  <2>3. Cardinality(S \cup {i}) = Cardinality(S) + 1
    BY <1>2, InstancesAssumption, FS_Subset, FS_AddElement
  <2>4. QED
    BY <2>1, <2>2, <2>3, RepsAssumption, InstancesAssumption
    DEF Fits, HasRoomFor, RemainingMemory, RemainingDisk,
        RemainingContainers
<1>3. QED
  BY <1>1, <1>2

(***************************************************************************)
(* The room check is not too strict: whatever fits beside S passes it.     *)
(***************************************************************************)
THEOREM RoomIsNeeded ==
  ASSUME NEW r \in Reps, NEW S \in SUBSET Instances, NEW i \in Instances,
         i \notin S, Fits(r, S \cup {i})
  PROVE  HasRoomFor(r, S, i)
<1>1. /\ Sum(S \cup {i}, MemoryMB) = Sum(S, MemoryMB) + MemoryMB[i]
      /\ Sum(S \cup {i}, DiskMB) = Sum(S, DiskMB) + DiskMB[i]
  BY SumOfOneMore, InstancesAssumption
<1>2. /\ Sum(S, MemoryMB) \in Nat
      /\ Sum(S, DiskMB) \in Nat
      /\ Cardinality(S) \in Nat
  BY SumType, ContainersMonotone, InstancesAssumption
<1>3. Cardinality(S \cup {i}) = Cardinality(S) + 1
  BY InstancesAssumption, FS_Subset, FS_AddElement
<1>4. QED
  BY <1>1, <1>2, <1>3, RepsAssumption, InstancesAssumption
  DEF Fits, HasRoomFor, RemainingMemory, RemainingDisk, RemainingContainers

\* A part of what fits, fits.
LEMMA PartFits ==
  ASSUME NEW r \in Reps, NEW S \in SUBSET Instances, NEW T \in SUBSET S,
         Fits(r, S)
  PROVE  Fits(r, T)
<1>1. /\ Sum(T, MemoryMB) <= Sum(S, MemoryMB)
      /\ Sum(T, DiskMB) <= Sum(S, DiskMB)
  BY SumMonotone, InstancesAssumption
<1>2. /\ Sum(S, MemoryMB) \in Nat /\ Sum(T, MemoryMB) \in Nat
      /\ Sum(S, DiskMB) \in Nat /\ Sum(T, DiskMB) \in Nat
  BY SumType, InstancesAssumption
<1>3. QED
  BY <1>1, <1>2, ContainersMonotone, RepsAssumption DEF Fits

\* Who holds less has room for whatever there was room for.
LEMMA RoomShrinks ==
  ASSUME NEW r \in Reps, NEW S \in SUBSET Instances, NEW T \in SUBSET S,
         NEW i \in Instances, HasRoomFor(r, S, i)
  PROVE  HasRoomFor(r, T, i)
<1>1. /\ Sum(T, MemoryMB) <= Sum(S, MemoryMB)
      /\ Sum(T, DiskMB) <= Sum(S, DiskMB)
  BY SumMonotone, InstancesAssumption
<1>2. /\ Sum(S, MemoryMB) \in Nat /\ Sum(T, MemoryMB) \in Nat
      /\ Sum(S, DiskMB) \in Nat /\ Sum(T, DiskMB) \in Nat
  BY SumType, InstancesAssumption
<1>3. QED
  BY <1>1, <1>2, ContainersMonotone, RepsAssumption, InstancesAssumption
  DEF HasRoomFor, RemainingMemory, RemainingDisk, RemainingContainers

-----------------------------------------------------------------------------

\* A fraction is between nothing and one whole, and less if less is used.
LEMMA FractionRange ==
  ASSUME NEW total \in Nat \ {0}, NEW remaining \in 0 .. total
  PROVE  /\ Fraction(remaining, total) \in 0 .. ScoreUnit
         /\ remaining > 0 => Fraction(remaining, total) < ScoreUnit
<1> DEFINE used == total - remaining
           q == (used * ScoreUnit) \div total
<1>1. used \in Nat /\ used <= total /\ ScoreUnit \in Nat \ {0}
  BY RepsAssumption
<1>2. Fraction(remaining, total) = q
  BY DEF Fraction
<1>3. remaining > 0 => used < total
  OBVIOUS
<1> HIDE DEF used
<1>4. used * ScoreUnit \in Nat /\ used * ScoreUnit <= total * ScoreUnit
  BY <1>1
<1>5. used < total => used * ScoreUnit < total * ScoreUnit
  BY <1>1
<1>6. q \in Nat /\ q * total <= used * ScoreUnit
  BY <1>4
<1> HIDE DEF q
<1>7. q <= ScoreUnit
  <2>1. q >= ScoreUnit + 1 => q * total >= (ScoreUnit + 1) * total
    BY <1>1, <1>6
  <2>2. (ScoreUnit + 1) * total = total * ScoreUnit + total
    BY <1>1
  <2>3. q * total \in Nat /\ total * ScoreUnit \in Nat
    BY <1>1, <1>6
  <2>4. QED
    BY <1>1, <1>4, <1>6, <2>1, <2>2, <2>3
<1>8. used < total => q < ScoreUnit
  <2>1. q = ScoreUnit => q * total = total * ScoreUnit
    BY <1>1, <1>6
  <2>2. QED
    BY <1>1, <1>5, <1>6, <1>7, <2>1
<1>9. QED
  BY <1>1, <1>2, <1>3, <1>6, <1>7, <1>8

(***************************************************************************)
(* Bids go by numbers first.  Of two representatives with room for i, all  *)
(* of whose instances are of the application of i, the one that does not   *)
(* bid more does not run more: resources in use never make up for an       *)
(* instance, however different the two representatives are.                *)
(***************************************************************************)
THEOREM BidsByNumber ==
  ASSUME NEW r \in Reps, NEW s \in Reps, NEW i \in Instances,
         NEW S \in SUBSET Instances, NEW T \in SUBSET Instances,
         \A j \in S \cup T : AppGuid[j] = AppGuid[i],
         HasRoomFor(r, S, i), HasRoomFor(s, T, i),
         Score(r, S, i) <= Score(s, T, i)
  PROVE  Cardinality(S) <= Cardinality(T)
<1> DEFINE three(q, Q) ==
             Fraction(RemainingMemory(q, Q), TotalMemoryMB[q])
               + Fraction(RemainingDisk(q, Q), TotalDiskMB[q])
               + Fraction(RemainingContainers(q, Q), TotalContainers[q])
<1>1. ASSUME NEW q \in Reps, NEW Q \in SUBSET Instances,
             \A j \in Q : AppGuid[j] = AppGuid[i], HasRoomFor(q, Q, i)
      PROVE  /\ three(q, Q) \in Nat /\ three(q, Q) < 3 * ScoreUnit
             /\ Cardinality(Q) \in Nat
             /\ Score(q, Q, i) = three(q, Q) + 3 * ScoreUnit * Cardinality(Q)
  <2>1. /\ Sum(Q, MemoryMB) \in Nat
        /\ Sum(Q, DiskMB) \in Nat
        /\ Cardinality(Q) \in Nat
    BY SumType, ContainersMonotone, InstancesAssumption
  <2>2. /\ RemainingMemory(q, Q) \in 0 .. TotalMemoryMB[q]
        /\ RemainingDisk(q, Q) \in 0 .. TotalDiskMB[q]
        /\ RemainingContainers(q, Q) \in 1 .. TotalContainers[q]
    BY <1>1, <2>1, RepsAssumption, InstancesAssumption
    DEF HasRoomFor, RemainingMemory, RemainingDisk, RemainingContainers
  <2>3. /\ TotalMemoryMB[q] \in Nat \ {0}
        /\ TotalDiskMB[q] \in Nat \ {0}
        /\ TotalContainers[q] \in Nat \ {0}
    BY RepsAssumption
  <2>4. Fraction(RemainingMemory(q, Q), TotalMemoryMB[q]) \in 0 .. ScoreUnit
    BY <2>2, <2>3, FractionRange
  <2>5. Fraction(RemainingDisk(q, Q), TotalDiskMB[q]) \in 0 .. ScoreUnit
    BY <2>2, <2>3, FractionRange
  <2>6. /\ Fraction(RemainingContainers(q, Q), TotalContainers[q]) \in Nat
        /\ Fraction(RemainingContainers(q, Q), TotalContainers[q]) < ScoreUnit
    BY <2>2, <2>3, FractionRange, RepsAssumption
  <2>7. NumInstancesForAppGuid(Q, AppGuid[i]) = Cardinality(Q)
    <3>1. {j \in Q : AppGuid[j] = AppGuid[i]} = Q
      BY <1>1
    <3>2. QED
      BY <3>1 DEF NumInstancesForAppGuid
  <2>8. ScoreUnit \in Nat
    BY RepsAssumption
  <2>9. three(q, Q) \in Nat /\ three(q, Q) < 3 * ScoreUnit
    BY <2>4, <2>5, <2>6, <2>8
  <2>10. Score(q, Q, i) = three(q, Q) + 3 * ScoreUnit * Cardinality(Q)
    BY <2>7 DEF Score, ScoreOf
  <2>11. QED
    BY <2>1, <2>9, <2>10
<1> HIDE DEF three
<1>2. /\ three(r, S) \in Nat
      /\ Cardinality(S) \in Nat
      /\ Score(r, S, i) = three(r, S) + 3 * ScoreUnit * Cardinality(S)
  BY <1>1
<1>3. /\ three(s, T) \in Nat /\ three(s, T) < 3 * ScoreUnit
      /\ Cardinality(T) \in Nat
      /\ Score(s, T, i) = three(s, T) + 3 * ScoreUnit * Cardinality(T)
  BY <1>1
<1>4. 3 * ScoreUnit * Cardinality(S)
        < 3 * ScoreUnit + 3 * ScoreUnit * Cardinality(T)
  <2> DEFINE a == 3 * ScoreUnit * Cardinality(S)
             b == 3 * ScoreUnit * Cardinality(T)
  <2>1. a \in Nat /\ b \in Nat /\ 3 * ScoreUnit \in Nat
    BY <1>2, <1>3, RepsAssumption
  <2> HIDE DEF a, b
  <2>2. three(r, S) + a <= three(s, T) + b
    BY <1>2, <1>3 DEF a, b
  <2>3. a < 3 * ScoreUnit + b
    BY <1>2, <1>3, <2>1, <2>2
  <2>4. QED
    BY <2>3 DEF a, b
<1>5. ASSUME Cardinality(S) >= Cardinality(T) + 1
      PROVE  FALSE
  <2> DEFINE unit == 3 * ScoreUnit
             m == Cardinality(S)
             n == Cardinality(T)
  <2>1. unit \in Nat /\ m \in Nat /\ n \in Nat
    BY <1>2, <1>3, RepsAssumption
  <2>2. unit * m < unit + unit * n /\ m >= n + 1
    BY <1>4, <1>5
  <2> HIDE DEF unit, m, n
  <2>3. unit * m >= unit * (n + 1)
    BY <2>1, <2>2
  <2>4. unit * (n + 1) = unit + unit * n
    BY <2>1
  <2>5. unit * m \in Nat /\ unit * n \in Nat
    BY <2>1
  <2>6. QED
    BY <2>1, <2>2, <2>3, <2>4, <2>5
<1>6. QED
  BY <1>2, <1>3, <1>5
==============================================================================
