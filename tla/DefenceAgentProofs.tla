------------------------- MODULE DefenceAgentProofs -------------------------
(***************************************************************************)
(* Theorems about DefenceAgent and Upgrades, the two parts of DEFENCE_BOT, *)
(* for any caps, any width of int and any number of bases and structures.  *)
(***************************************************************************)
EXTENDS DefenceAgent, Upgrades, FiniteSetTheorems, TLAPS

USE DEF Destroying, Creating, Completing, Idling, Upgrading, Serving, Defending

\* Indices are read from memory that has been written, also while a list is
\* empty; a list that was never written has index 0.
IndexInv ==
    \A k \in Producer :
        /\ size[k] <= written[k]
        /\ written[k] = 0 => last_used[k] = 0
        /\ written[k] > 0 => last_used[k] < written[k]

DefenceInv == DefenceTypeOK /\ IndexInv /\ CountsWithinCaps /\ TwoTurrets

------------------------------------------------------------------------------
(* Orders, caps and turrets                                                  *)

LEMMA TroopFinite == IsFiniteSet(Troop)
<1>1. /\ IsFiniteSet({"SIEGETANK"}) /\ IsFiniteSet({"CYCLONE"})
      /\ IsFiniteSet({"THOR"}) /\ IsFiniteSet({"MARINE"})
      /\ IsFiniteSet({"MARAUDER"}) /\ IsFiniteSet({"BANSHEE"})
      /\ IsFiniteSet({"BATTLECRUISER"})
  BY FS_Singleton
<1>2. IsFiniteSet({"SIEGETANK"} \union {"CYCLONE"})
  BY <1>1, FS_Union
<1>3. IsFiniteSet(({"SIEGETANK"} \union {"CYCLONE"}) \union {"THOR"})
  BY <1>1, <1>2, FS_Union
<1>4. IsFiniteSet({"MARINE"} \union {"MARAUDER"})
  BY <1>1, FS_Union
<1>5. IsFiniteSet({"BANSHEE"} \union {"BATTLECRUISER"})
  BY <1>1, FS_Union
<1>6. IsFiniteSet((({"SIEGETANK"} \union {"CYCLONE"}) \union {"THOR"})
                      \union ({"MARINE"} \union {"MARAUDER"}))
  BY <1>3, <1>4, FS_Union
<1>7. IsFiniteSet(((({"SIEGETANK"} \union {"CYCLONE"}) \union {"THOR"})
                       \union ({"MARINE"} \union {"MARAUDER"}))
                      \union ({"BANSHEE"} \union {"BATTLECRUISER"}))
  BY <1>5, <1>6, FS_Union
<1>8. Troop = ((({"SIEGETANK"} \union {"CYCLONE"}) \union {"THOR"})
                  \union ({"MARINE"} \union {"MARAUDER"}))
                  \union ({"BANSHEE"} \union {"BATTLECRUISER"})
  BY DEF Troop
<1>9. QED
  BY <1>7, <1>8

\* Orders move an index within the list they name structures of, and only those
\* units are counted that are below their cap.
LEMMA OrderInRange ==
    ASSUME DefenceTypeOK, NEW units \in SUBSET Troop,
           NEW sizes \in [Producer -> Nat], NEW caps,
           Order(units, sizes, caps)
    PROVE  /\ last_used' \in [Producer -> Nat]
           /\ \A k \in Producer : \/ last_used'[k] = last_used[k]
                                  \/ last_used'[k] < sizes[k]
           /\ count' = [t \in Troop |-> count'[t]]
           /\ \A t \in Troop : \/ count'[t] = count[t]
                               \/ count[t] < caps[t] /\ count'[t] = count[t] + 1
<1> DEFINE trained == Wanted(units, sizes, caps)
           of(k) == {t \in trained : From(t) = k}
<1>1. /\ count' = [t \in Troop |-> IF t \in trained THEN count[t] + 1 ELSE count[t]]
      /\ last_used' = [k \in Producer |-> NextUsed(k, Cardinality(of(k)), sizes)]
  BY DEF Order
<1>2. /\ trained \subseteq Troop
      /\ \A t \in trained : count[t] < caps[t] /\ sizes[From(t)] > 0
  BY DEF Wanted
<1>3. ASSUME NEW k \in Producer
      PROVE  /\ NextUsed(k, Cardinality(of(k)), sizes) \in Nat
             /\ \/ NextUsed(k, Cardinality(of(k)), sizes) = last_used[k]
                \/ NextUsed(k, Cardinality(of(k)), sizes) < sizes[k]
  <2>1. of(k) \subseteq Troop
    BY <1>2
  <2>2. IsFiniteSet(of(k))
    BY <2>1, TroopFinite, FS_Subset
  <2>3. Cardinality(of(k)) \in Nat /\ (Cardinality(of(k)) = 0 <=> of(k) = {})
    BY <2>2, FS_CardinalityType, FS_EmptySet
  <2>4. of(k) # {} => sizes[k] > 0
    BY <1>2
  <2> DEFINE n == Cardinality(of(k))
  <2>5. n \in Nat /\ (n # 0 => sizes[k] > 0)
    BY <2>3, <2>4
  <2> HIDE DEF n
  <2>6. last_used[k] \in Nat /\ sizes[k] \in Nat
    BY DEF DefenceTypeOK
  <2>7. NextUsed(k, n, sizes) \in Nat
        /\ (NextUsed(k, n, sizes) = last_used[k] \/ NextUsed(k, n, sizes) < sizes[k])
    <3>1. CASE n = 0
      BY <2>6, <3>1 DEF NextUsed
    <3>2. CASE n # 0
      <4>1. NextUsed(k, n, sizes) = (last_used[k] + n) % sizes[k]
        BY <3>2 DEF NextUsed
      <4>2. last_used[k] + n \in Nat /\ sizes[k] > 0
        BY <2>5, <2>6, <3>2
      <4>3. (last_used[k] + n) % sizes[k] \in 0..(sizes[k] - 1)
        BY <2>6, <4>2
      <4>4. QED
        BY <2>6, <4>1, <4>2, <4>3
    <3>3. QED
      BY <3>1, <3>2
  <2>8. QED
    BY <2>7 DEF n
<1> HIDE DEF of
<1>4. last_used' \in [Producer -> Nat]
  BY <1>1, <1>3
<1>5. \A k \in Producer : last_used'[k] = last_used[k] \/ last_used'[k] < sizes[k]
  BY <1>1, <1>3
<1>6. /\ count' = [t \in Troop |-> count'[t]]
      /\ \A t \in Troop : \/ count'[t] = count[t]
                          \/ count[t] < caps[t] /\ count'[t] = count[t] + 1
  BY <1>1, <1>2
<1>7. QED
  BY <1>4, <1>5, <1>6

\* Orders keep counts within the caps they look at, and types.
LEMMA OrderKeepsCounts ==
    ASSUME DefenceTypeOK,
           NEW caps \in [Troop -> {IntMin} \union 0..IntMax],
           \A t \in Troop : count[t] <= caps[t] \/ caps[t] = IntMin,
           count' = [t \in Troop |-> count'[t]],
           \A t \in Troop : \/ count'[t] = count[t]
                            \/ count[t] < caps[t] /\ count'[t] = count[t] + 1
    PROVE  /\ count' \in [Troop -> -MaxRefund..IntMax]
           /\ \A t \in Troop : count'[t] <= caps[t] \/ caps[t] = IntMin
<1>1. IntMax \in Nat /\ MaxRefund \in Nat /\ IntMin \in Int /\ IntMin < 0
  BY DefenceAssumption DEF IntMin
<1>2. ASSUME NEW t \in Troop
      PROVE  /\ count'[t] \in -MaxRefund..IntMax
             /\ count'[t] <= caps[t] \/ caps[t] = IntMin
  <2>1. count[t] \in -MaxRefund..IntMax /\ caps[t] \in {IntMin} \union 0..IntMax
    BY DEF DefenceTypeOK
  <2>2. CASE count'[t] = count[t]
    BY <2>1, <2>2
  <2>3. CASE count[t] < caps[t] /\ count'[t] = count[t] + 1
    BY <1>1, <2>1, <2>3
  <2>4. QED
    BY <2>2, <2>3
<1>3. QED
  BY <1>2

\* Multiplied caps are ints and do not shrink, or become the smallest int.
LEMMA DoubledGrows ==
    ASSUME NEW c \in {IntMin} \union 0..IntMax
    PROVE  /\ Doubled(c) \in {IntMin} \union 0..IntMax
           /\ Doubled(c) = IntMin \/ (c # IntMin /\ c <= Doubled(c))
<1>1. IntMax \in Nat /\ IntMin \in Int /\ IntMin < 0
  BY DefenceAssumption DEF IntMin
<1>2. CASE c = IntMin \/ (3 * c) \div 2 > IntMax
  BY <1>2 DEF Doubled
<1>3. CASE c # IntMin /\ ~((3 * c) \div 2 > IntMax)
  <2>1. c \in 0..IntMax /\ Doubled(c) = (3 * c) \div 2
    BY <1>3 DEF Doubled
  <2>2. (3 * c) \div 2 \in Nat /\ c <= (3 * c) \div 2
    BY <1>1, <2>1
  <2>3. QED
    BY <1>1, <1>3, <2>1, <2>2
<1>4. QED
  BY <1>2, <1>3

LEMMA MultiplyKeepsCounts ==
    ASSUME DefenceTypeOK, CountsWithinCaps, NEW m \in Minerals, Multiply(m)
    PROVE  /\ cap' \in [Troop -> {IntMin} \union 0..IntMax]
           /\ multiplierCounter' \in 0..1
           /\ \A t \in Troop : count[t] <= cap'[t] \/ cap'[t] = IntMin
<1> DEFINE half == (m > 4000 /\ multiplierCounter < 4) \/ (m > 3000 /\ multiplierCounter < 2)
           whole == ~half /\ m > 2000 /\ multiplierCounter < 1
<1>1. /\ cap' = [t \in Troop |-> IF half \/ whole THEN Doubled(cap[t]) ELSE cap[t]]
      /\ multiplierCounter' = multiplierCounter + IF whole THEN 1 ELSE 0
  BY DEF Multiply
<1>2. multiplierCounter' \in 0..1
  BY <1>1 DEF DefenceTypeOK
<1> HIDE DEF half, whole
<1>3. ASSUME NEW t \in Troop
      PROVE  /\ cap'[t] \in {IntMin} \union 0..IntMax
             /\ count[t] <= cap'[t] \/ cap'[t] = IntMin
  <2>1. /\ cap[t] \in {IntMin} \union 0..IntMax /\ count[t] \in Int
        /\ count[t] <= cap[t] \/ cap[t] = IntMin
    BY DefenceAssumption DEF DefenceTypeOK, CountsWithinCaps
  <2>2. CASE cap'[t] = cap[t]
    BY <2>1, <2>2
  <2>3. CASE cap'[t] = Doubled(cap[t])
    <3>1. /\ Doubled(cap[t]) \in {IntMin} \union 0..IntMax
          /\ Doubled(cap[t]) = IntMin \/ (cap[t] # IntMin /\ cap[t] <= Doubled(cap[t]))
      BY <2>1, DoubledGrows
    <3>2. IntMin \in Int /\ IntMax \in Nat
      BY DefenceAssumption DEF IntMin
    <3>3. QED
      BY <2>1, <2>3, <3>1, <3>2
  <2>4. cap'[t] = cap[t] \/ cap'[t] = Doubled(cap[t])
    BY <1>1
  <2>5. QED
    BY <2>2, <2>3, <2>4
<1>4. cap' \in [Troop -> {IntMin} \union 0..IntMax]
  BY <1>1, <1>3
<1>5. QED
  BY <1>2, <1>3, <1>4

LEMMA TurretsOnce ==
    ASSUME DefenceTypeOK, TwoTurrets, NEW bay \in BOOLEAN, Turrets(bay),
           bases' = bases
    PROVE  /\ turrets' \in [Base -> Nat] /\ base_needs_defence' \subseteq bases
           /\ TwoTurrets'
<1>1. /\ turrets \in [Base -> Nat] /\ base_needs_defence \subseteq bases
      /\ bases \subseteq Base
      /\ \A b \in Base : turrets[b] = IF b \in bases \ base_needs_defence THEN 2 ELSE 0
  BY DEF DefenceTypeOK, TwoTurrets
<1>2. CASE bay
  <2>1. /\ turrets' = [b \in Base |-> IF b \in base_needs_defence THEN turrets[b] + 2
                                                                ELSE turrets[b]]
        /\ base_needs_defence' = {}
    BY <1>2 DEF Turrets
  <2>2. \A b \in Base : turrets'[b] = IF b \in bases THEN 2 ELSE 0
    BY <1>1, <2>1
  <2>3. QED
    BY <1>1, <2>1, <2>2 DEF TwoTurrets
<1>3. CASE ~bay
  <2>1. turrets' = [b \in Base |-> turrets[b]] /\ base_needs_defence' = base_needs_defence
    BY <1>3 DEF Turrets
  <2>2. turrets' = turrets
    BY <1>1, <2>1
  <2>3. QED
    BY <1>1, <2>1, <2>2 DEF TwoTurrets
<1>4. QED
  BY <1>2, <1>3

LEMMA AffordableTroops ==
    ASSUME NEW m \in Minerals, NEW has \in SUBSET Producer
    PROVE  Affordable(m, has) \subseteq Troop
<1> DEFINE banshee == If("STARPORT" \in has, {"BANSHEE"})
           factory == "FACTORY" \in has
<1>1. /\ {"MARINE", "MARAUDER"} \union banshee \subseteq Troop
      /\ {"THOR"} \union banshee \subseteq Troop
      /\ If("BARRACKS" \in has, {"MARINE", "MARAUDER"}) \union banshee \subseteq Troop
      /\ If("BARRACKS" \in has, {"MARINE"} \union banshee) \subseteq Troop
  BY DEF If, Troop
<1>2. \/ Affordable(m, has) = {"MARINE", "MARAUDER"} \union banshee
      \/ Affordable(m, has) = {"THOR"} \union banshee
      \/ Affordable(m, has) = If("BARRACKS" \in has, {"MARINE", "MARAUDER"}) \union banshee
      \/ Affordable(m, has) = If("BARRACKS" \in has, {"MARINE"} \union banshee)
      \/ Affordable(m, has) = {}
  <2> HIDE DEF banshee
  <2>1. CASE m > 2000 /\ factory
    BY <2>1 DEF Affordable, banshee, Minerals
  <2>2. CASE m > 1000 /\ m <= 2000 /\ factory
    BY <2>2 DEF Affordable, banshee, Minerals
  <2>3. CASE m > 600 /\ m <= 1000 /\ factory
    BY <2>3 DEF Affordable, banshee, Minerals
  <2>4. CASE m > 400 /\ (m <= 600 \/ ~factory)
    BY <2>4 DEF Affordable, banshee, Minerals
  <2>5. CASE m > 200 /\ m <= 400
    BY <2>5 DEF Affordable, banshee, Minerals
  <2>6. CASE m <= 200
    BY <2>6 DEF Affordable, banshee, Minerals
  <2>7. QED
    BY <2>1, <2>2, <2>3, <2>4, <2>5, <2>6 DEF Minerals
<1>3. QED
  BY <1>1, <1>2

------------------------------------------------------------------------------
(* The invariant                                                             *)

LEMMA DefenceInvInit == DefenceInit => DefenceInv
<1> SUFFICES ASSUME DefenceInit PROVE DefenceInv
  OBVIOUS
<1> USE DefenceAssumption DEF DefenceInit
<1>1. DefenceTypeOK
  <2>1. phase \in Phases
    BY DEF FirstPhase, Phases
  <2>2. /\ size \in [Producer -> 0..MaxStructures]
        /\ written \in [Producer -> 0..MaxStructures]
        /\ last_used \in [Producer -> Nat]
        /\ count \in [Troop -> -MaxRefund..IntMax]
        /\ turrets \in [Base -> Nat]
    OBVIOUS
  <2>3. cap \in [Troop -> {IntMin} \union 0..IntMax]
    OBVIOUS
  <2>4. multiplierCounter \in 0..1 /\ elapsed \in Times /\ ordered \subseteq Once
    BY DEF Times
  <2>5. QED
    BY <2>1, <2>2, <2>3, <2>4 DEF DefenceTypeOK
<1>2. IndexInv
  BY DEF IndexInv
<1>3. CountsWithinCaps
  BY DEF CountsWithinCaps
<1>4. TwoTurrets
  BY DEF TwoTurrets
<1>5. QED
  BY <1>1, <1>2, <1>3, <1>4 DEF DefenceInv

\* Indices are moved within a list that is at least as long as the one before,
\* and whose elements have been written.
LEMMA IndexMoved ==
    ASSUME DefenceTypeOK, IndexInv,
           size' \in [Producer -> 0..MaxStructures],
           written' \in [Producer -> 0..MaxStructures],
           last_used' \in [Producer -> Nat],
           NEW k \in Producer,
           size'[k] <= written'[k], written[k] <= written'[k],
           last_used'[k] = last_used[k] \/ last_used'[k] < size'[k]
    PROVE  /\ size'[k] <= written'[k]
           /\ written'[k] = 0 => last_used'[k] = 0
           /\ written'[k] > 0 => last_used'[k] < written'[k]
<1>1. /\ size'[k] \in Nat /\ written'[k] \in Nat /\ last_used'[k] \in Nat
      /\ written[k] \in Nat /\ last_used[k] \in Nat
  BY DefenceAssumption DEF DefenceTypeOK
<1>2. /\ written[k] = 0 => last_used[k] = 0
      /\ written[k] > 0 => last_used[k] < written[k]
  BY DEF IndexInv
<1>3. QED
  BY <1>1, <1>2

\* What a completed structure does to the lists.
LEMMA CompletedList ==
    ASSUME DefenceInv, NEW k \in Producer, ProducerCompleted(k)
    PROVE  /\ size' \in [Producer -> 0..MaxStructures]
           /\ written' \in [Producer -> 0..MaxStructures]
           /\ \A j \in Producer : /\ size[j] <= size'[j] /\ size'[j] <= written'[j]
                                  /\ written[j] <= written'[j]
           /\ Order(IF k = "FACTORY" THEN {"SIEGETANK"} ELSE {}, size', cap)
<1>1. /\ size \in [Producer -> 0..MaxStructures]
      /\ written \in [Producer -> 0..MaxStructures]
      /\ \A j \in Producer : size[j] <= written[j]
      /\ MaxStructures \in Nat
  BY DefenceAssumption DEF DefenceInv, DefenceTypeOK, IndexInv
<1>2. /\ size[k] < MaxStructures
      /\ size' = [size EXCEPT ![k] = @ + 1]
      /\ written' = [written EXCEPT ![k] = IF @ > size[k] THEN @ ELSE size[k] + 1]
  BY DEF ProducerCompleted, Grown
<1>3. QED
  BY <1>1, <1>2 DEF ProducerCompleted

\* What step() does to indices, counts and caps.
LEMMA StepOrders ==
    ASSUME DefenceInv, NEW bay \in BOOLEAN, DefenceStep(bay)
    PROVE  /\ last_used' \in [Producer -> Nat]
           /\ \A k \in Producer : \/ last_used'[k] = last_used[k]
                                  \/ last_used'[k] < size[k]
           /\ cap' \in [Troop -> {IntMin} \union 0..IntMax]
           /\ multiplierCounter' \in 0..1
           /\ count' \in [Troop -> -MaxRefund..IntMax]
           /\ \A t \in Troop : count'[t] <= cap'[t] \/ cap'[t] = IntMin
           /\ ordered' \subseteq Once /\ hasStarport' \in BOOLEAN
<1> USE DEF DefenceInv
<1>1. PICK m \in Minerals, has \in SUBSET Producer :
          /\ Multiply(m)
          /\ Order(Affordable(m, has), size, cap')
          /\ hasStarport' = ("STARPORT" \in has)
          /\ \E core \in {{}, If(NeedsFusion(m, has), {"FUSIONCORE"})} :
                ordered' = ordered \union OrderedNow(has, bay) \union core
  BY DEF DefenceStep
<1>2. Affordable(m, has) \in SUBSET Troop
  BY AffordableTroops
<1>3. size \in [Producer -> Nat]
  BY DefenceAssumption DEF DefenceTypeOK
<1>4. /\ last_used' \in [Producer -> Nat]
      /\ \A k \in Producer : \/ last_used'[k] = last_used[k]
                             \/ last_used'[k] < size[k]
      /\ count' = [t \in Troop |-> count'[t]]
      /\ \A t \in Troop : \/ count'[t] = count[t]
                          \/ count[t] < cap'[t] /\ count'[t] = count[t] + 1
  BY <1>1, <1>2, <1>3, OrderInRange
<1>5. /\ cap' \in [Troop -> {IntMin} \union 0..IntMax]
      /\ multiplierCounter' \in 0..1
      /\ \A t \in Troop : count[t] <= cap'[t] \/ cap'[t] = IntMin
  BY <1>1, MultiplyKeepsCounts
<1>6. /\ count' \in [Troop -> -MaxRefund..IntMax]
      /\ \A t \in Troop : count'[t] <= cap'[t] \/ cap'[t] = IntMin
  BY <1>4, <1>5, OrderKeepsCounts
<1>7. ordered' \subseteq Once
  BY <1>1 DEF OrderedNow, If, Once, DefenceTypeOK
<1>8. QED
  BY <1>1, <1>4, <1>5, <1>6, <1>7

LEMMA DefenceInvNext ==
    DefenceInv /\ [DefenceNext]_<<phase, defenceVars>> => DefenceInv'
<1> SUFFICES ASSUME DefenceInv, [DefenceNext]_<<phase, defenceVars>>
             PROVE  DefenceInv'
  OBVIOUS
<1> USE DEF DefenceInv
<1>1. CASE Elapse
  <2>1. elapsed' \in Times
    BY <1>1 DEF Elapse, DefenceTypeOK, Times, Past600
  <2>2. QED
    BY <1>1, <2>1
    DEF Elapse, DefenceTypeOK, IndexInv, CountsWithinCaps, TwoTurrets, lists,
        troops, town
<1>2. ASSUME NEW k \in Producer, ProducerCompleted(k)
      PROVE  DefenceInv'
  <2>1. /\ size' \in [Producer -> 0..MaxStructures]
        /\ written' \in [Producer -> 0..MaxStructures]
        /\ \A j \in Producer : /\ size[j] <= size'[j] /\ size'[j] <= written'[j]
                               /\ written[j] <= written'[j]
        /\ Order(IF k = "FACTORY" THEN {"SIEGETANK"} ELSE {}, size', cap)
    BY <1>2, CompletedList
  <2>2. /\ phase' \in Phases
        /\ UNCHANGED <<cap, multiplierCounter, ordered, elapsed, bases,
                       base_needs_defence, turrets>>
        /\ hasStarport' \in BOOLEAN
    BY <1>2 DEF ProducerCompleted, Event, Phases, town, DefenceTypeOK
  <2>3. (IF k = "FACTORY" THEN {"SIEGETANK"} ELSE {}) \in SUBSET Troop
    BY DEF Troop
  <2>4. size' \in [Producer -> Nat]
    BY <2>1, DefenceAssumption
  <2>5. /\ last_used' \in [Producer -> Nat]
        /\ \A j \in Producer : \/ last_used'[j] = last_used[j]
                               \/ last_used'[j] < size'[j]
        /\ count' = [t \in Troop |-> count'[t]]
        /\ \A t \in Troop : \/ count'[t] = count[t]
                            \/ count[t] < cap[t] /\ count'[t] = count[t] + 1
    BY <2>1, <2>3, <2>4, OrderInRange
  <2>6. /\ count' \in [Troop -> -MaxRefund..IntMax]
        /\ \A t \in Troop : count'[t] <= cap[t] \/ cap[t] = IntMin
    <3>1. cap \in [Troop -> {IntMin} \union 0..IntMax]
      BY DEF DefenceTypeOK
    <3>2. QED
      BY <2>5, <3>1, OrderKeepsCounts DEF CountsWithinCaps
  <2>7. DefenceTypeOK'
    BY <2>1, <2>2, <2>5, <2>6 DEF DefenceTypeOK
  <2>8. IndexInv'
    <3>1. ASSUME NEW j \in Producer
          PROVE  /\ size'[j] <= written'[j]
                 /\ written'[j] = 0 => last_used'[j] = 0
                 /\ written'[j] > 0 => last_used'[j] < written'[j]
      BY <2>1, <2>5, IndexMoved
    <3>2. QED
      BY <3>1 DEF IndexInv
  <2>9. CountsWithinCaps' /\ TwoTurrets'
    BY <2>2, <2>6 DEF CountsWithinCaps, TwoTurrets
  <2>10. QED
    BY <2>7, <2>8, <2>9
<1>3. ASSUME NEW k \in Producer, ProducerDestroyed(k)
      PROVE  DefenceInv'
  <2>1. /\ size[k] > 0 /\ size' = [size EXCEPT ![k] = @ - 1]
        /\ phase' \in Phases
        /\ UNCHANGED <<written, last_used, count, cap, multiplierCounter, ordered,
                       hasStarport, elapsed, bases, base_needs_defence, turrets>>
    BY <1>3 DEF ProducerDestroyed, Event, Phases, troops, town
  <2>2. /\ size' \in [Producer -> 0..MaxStructures]
        /\ \A j \in Producer : size'[j] <= size[j]
    BY <2>1, DefenceAssumption DEF DefenceTypeOK
  <2>3. DefenceTypeOK'
    BY <2>1, <2>2 DEF DefenceTypeOK
  <2>4. IndexInv'
    <3>1. \A j \in Producer : size[j] \in Int /\ size'[j] \in Int /\ written[j] \in Int
      BY <2>2, DefenceAssumption DEF DefenceTypeOK
    <3>2. QED
      BY <2>1, <2>2, <3>1 DEF IndexInv
  <2>5. CountsWithinCaps' /\ TwoTurrets'
    BY <2>1 DEF CountsWithinCaps, TwoTurrets
  <2>6. QED
    BY <2>3, <2>4, <2>5
<1>4. ASSUME NEW t \in Troop, TroopLost(t)
      PROVE  DefenceInv'
  <2>1. /\ count[t] - 5 * multiplierCounter >= -MaxRefund
        /\ count' = [count EXCEPT ![t] = @ - 5 * multiplierCounter]
        /\ phase' \in Phases
        /\ UNCHANGED <<size, written, last_used, cap, multiplierCounter, ordered,
                       hasStarport, elapsed, bases, base_needs_defence, turrets>>
    BY <1>4 DEF TroopLost, Event, Phases, lists, town
  <2>2. multiplierCounter \in 0..1 /\ count \in [Troop -> -MaxRefund..IntMax]
    BY DEF DefenceTypeOK
  <2>3. /\ count' \in [Troop -> -MaxRefund..IntMax]
        /\ \A u \in Troop : count'[u] <= count[u]
    BY <2>1, <2>2, DefenceAssumption
  <2>4. DefenceTypeOK'
    BY <2>1, <2>3 DEF DefenceTypeOK
  <2>5. IndexInv' /\ TwoTurrets'
    BY <2>1 DEF IndexInv, TwoTurrets
  <2>6. CountsWithinCaps'
    <3>1. ASSUME NEW u \in Troop
          PROVE  count'[u] <= cap[u] \/ cap[u] = IntMin
      <4>1. /\ count[u] \in Int /\ count'[u] \in Int
            /\ cap[u] \in {IntMin} \union 0..IntMax
            /\ count[u] <= cap[u] \/ cap[u] = IntMin
            /\ count'[u] <= count[u]
        BY <2>2, <2>3, DefenceAssumption DEF CountsWithinCaps, DefenceTypeOK
      <4>2. IntMax \in Nat
        BY DefenceAssumption
      <4>3. QED
        BY <4>1, <4>2
    <3>2. QED
      BY <2>1, <3>1 DEF CountsWithinCaps
  <2>7. QED
    BY <2>4, <2>5, <2>6
<1>5. ASSUME NEW b \in Base, BaseCompleted(b)
      PROVE  DefenceInv'
  <2>1. /\ b \notin bases /\ bases' = bases \union {b}
        /\ base_needs_defence' = base_needs_defence \union {b}
        /\ phase' \in Phases
        /\ UNCHANGED <<size, written, last_used, count, cap, multiplierCounter,
                       ordered, hasStarport, elapsed, turrets>>
    BY <1>5 DEF BaseCompleted, Event, Phases, lists, troops
  <2>2. DefenceTypeOK'
    BY <2>1 DEF DefenceTypeOK
  <2>3. IndexInv' /\ CountsWithinCaps'
    BY <2>1 DEF IndexInv, CountsWithinCaps
  <2>4. TwoTurrets'
    BY <2>1 DEF TwoTurrets, DefenceTypeOK
  <2>5. QED
    BY <2>2, <2>3, <2>4
<1>6. ASSUME NEW bay \in BOOLEAN, DefenceStep(bay)
      PROVE  DefenceInv'
  <2>1. /\ phase' \in Phases /\ Turrets(bay)
        /\ UNCHANGED <<size, written, elapsed, bases>>
    BY <1>6 DEF DefenceStep, Event, Phases
  <2>2. /\ last_used' \in [Producer -> Nat]
        /\ \A k \in Producer : \/ last_used'[k] = last_used[k]
                               \/ last_used'[k] < size[k]
        /\ cap' \in [Troop -> {IntMin} \union 0..IntMax]
        /\ multiplierCounter' \in 0..1
        /\ count' \in [Troop -> -MaxRefund..IntMax]
        /\ \A t \in Troop : count'[t] <= cap'[t] \/ cap'[t] = IntMin
        /\ ordered' \subseteq Once /\ hasStarport' \in BOOLEAN
    BY <1>6, StepOrders
  <2>3. /\ turrets' \in [Base -> Nat] /\ base_needs_defence' \subseteq bases
        /\ TwoTurrets'
    BY <2>1, TurretsOnce
  <2>4. DefenceTypeOK'
    BY <2>1, <2>2, <2>3 DEF DefenceTypeOK
  <2>5. IndexInv'
    <3>1. ASSUME NEW k \in Producer
          PROVE  /\ size'[k] <= written'[k]
                 /\ written'[k] = 0 => last_used'[k] = 0
                 /\ written'[k] > 0 => last_used'[k] < written'[k]
      <4>1. size'[k] <= written'[k] /\ written[k] <= written'[k]
        BY <2>1, DefenceAssumption DEF IndexInv, DefenceTypeOK
      <4>2. /\ size' \in [Producer -> 0..MaxStructures]
            /\ written' \in [Producer -> 0..MaxStructures]
        BY <2>1 DEF DefenceTypeOK
      <4>3. QED
        BY <2>1, <2>2, <4>1, <4>2, IndexMoved
    <3>2. QED
      BY <3>1 DEF IndexInv
  <2>6. CountsWithinCaps'
    BY <2>2 DEF CountsWithinCaps
  <2>7. QED
    BY <2>3, <2>4, <2>5, <2>6
<1>7. ASSUME phase' \in Phases, UNCHANGED defenceVars
      PROVE  DefenceInv'
  BY <1>7
  DEF defenceVars, lists, troops, town, DefenceTypeOK, IndexInv, CountsWithinCaps,
      TwoTurrets
<1>8. CASE DefencePause
  BY <1>7, <1>8 DEF DefencePause, Event, Phases
<1>9. CASE OtherThanDefence
  BY <1>7, <1>9 DEF OtherThanDefence, LastCall, Event, Phases
<1>10. CASE UNCHANGED <<phase, defenceVars>>
  BY <1>7, <1>10 DEF DefenceTypeOK
<1>11. QED
  BY <1>1, <1>2, <1>3, <1>4, <1>5, <1>6, <1>8, <1>9, <1>10 DEF DefenceNext

\* The invariant holds in every reachable state.
THEOREM DefenceInvariant == DefenceSpec => []DefenceInv
<1>1. QED
  BY DefenceInvInit, DefenceInvNext, PTL DEF DefenceSpec

\* Type correctness.
THEOREM DefenceTypeCorrect == DefenceSpec => []DefenceTypeOK
<1>1. DefenceInv => DefenceTypeOK
  BY DEF DefenceInv
<1>2. QED
  BY <1>1, DefenceInvariant, PTL

\* Orders never name what no list ever held.
THEOREM OrdersReadWrittenMemory == DefenceSpec => []IndexInMemory
<1>1. DefenceInv => IndexInMemory
  <2>1. ASSUME DefenceInv, NEW k \in Producer, size[k] > 0
        PROVE  last_used[k] < written[k]
    <3>1. size[k] \in Int /\ written[k] \in Int
      BY <2>1, DefenceAssumption DEF DefenceInv, DefenceTypeOK
    <3>2. QED
      BY <2>1, <3>1 DEF DefenceInv, IndexInv
  <2>2. QED
    BY <2>1 DEF IndexInMemory
<1>2. QED
  BY <1>1, DefenceInvariant, PTL

\* No more troops are ordered than the caps allow, as long as these are caps.
THEOREM TroopsWithinCaps == DefenceSpec => []CountsWithinCaps
<1>1. DefenceInv => CountsWithinCaps
  BY DEF DefenceInv
<1>2. QED
  BY <1>1, DefenceInvariant, PTL

\* Each base is given its turrets at most once and is not forgotten before.
THEOREM EachBaseTwoTurrets == DefenceSpec => []TwoTurrets
<1>1. DefenceInv => TwoTurrets
  BY DEF DefenceInv
<1>2. QED
  BY <1>1, DefenceInvariant, PTL

\* An index gets stale by the loss of a structure only.
THEOREM IndexStaleByLoss == DefenceSpec => StaleByLossOnly
<1>1. ASSUME DefenceInv, [DefenceNext]_<<phase, defenceVars>>,
             NEW k \in Producer, Stale(k)', ~Stale(k), ~(size'[k] < size[k])
      PROVE  FALSE
  <2>1. DefenceInv'
    BY <1>1, DefenceInvNext
  <2>2. /\ size[k] \in Nat /\ size'[k] \in Nat
        /\ last_used[k] \in Nat /\ last_used'[k] \in Nat
    BY <1>1, <2>1, DefenceAssumption DEF DefenceInv, DefenceTypeOK
  <2>3. last_used'[k] > 0 /\ last_used'[k] >= size'[k]
    BY <1>1 DEF Stale
  <2>4. ~(last_used[k] > 0 /\ last_used[k] >= size[k])
    BY <1>1 DEF Stale
  <2>5. SUFFICES last_used'[k] = last_used[k] \/ last_used'[k] < size'[k]
    BY <1>1, <2>2, <2>3, <2>4
  <2>6. ASSUME NEW j \in Producer, ProducerCompleted(j)
        PROVE  last_used'[k] = last_used[k] \/ last_used'[k] < size'[k]
    <3>1. /\ size' \in [Producer -> Nat]
          /\ Order(IF j = "FACTORY" THEN {"SIEGETANK"} ELSE {}, size', cap)
      BY <1>1, <2>6, CompletedList, DefenceAssumption
    <3>2. (IF j = "FACTORY" THEN {"SIEGETANK"} ELSE {}) \in SUBSET Troop
      BY DEF Troop
    <3>3. QED
      BY <1>1, <3>1, <3>2, OrderInRange DEF DefenceInv
  <2>7. ASSUME NEW bay \in BOOLEAN, DefenceStep(bay)
        PROVE  last_used'[k] = last_used[k] \/ last_used'[k] < size'[k]
    <3>1. last_used'[k] = last_used[k] \/ last_used'[k] < size[k]
      BY <1>1, <2>7, StepOrders
    <3>2. size' = size
      BY <2>7 DEF DefenceStep
    <3>3. QED
      BY <3>1, <3>2
  <2>8. \/ last_used' = last_used
        \/ \E j \in Producer : ProducerCompleted(j)
        \/ \E bay \in BOOLEAN : DefenceStep(bay)
    BY <1>1
    DEF DefenceNext, Elapse, ProducerDestroyed, TroopLost, BaseCompleted,
        DefencePause, OtherThanDefence, defenceVars, lists
  <2>9. QED
    BY <2>6, <2>7, <2>8
<1>2. DefenceInv /\ [DefenceNext]_<<phase, defenceVars>>
      => [\A k \in Producer : Stale(k)' /\ ~Stale(k) => size'[k] < size[k]]_<<phase, defenceVars>>
  BY <1>1
<1>3. QED
  BY <1>2, DefenceInvariant, PTL DEF DefenceSpec, StaleByLossOnly

\* A cap that has become the smallest int stays it, since the multiplication
\* yields it again, and nothing is ordered below it.
THEOREM EndOfProduction == DefenceSpec => ProductionEnds
<1>1. ASSUME DefenceInv, [DefenceNext]_<<phase, defenceVars>>, NEW t \in Troop,
             cap[t] = IntMin
      PROVE  cap'[t] = IntMin /\ count'[t] <= count[t]
  <2>1. /\ count[t] \in -MaxRefund..IntMax /\ -MaxRefund \in Int /\ IntMin \in Int
        /\ IntMin < -MaxRefund /\ IntMax \in Nat /\ multiplierCounter \in 0..1
    BY <1>1, DefenceAssumption DEF DefenceInv, DefenceTypeOK, IntMin
  <2>2. ~(count[t] < IntMin)
    BY <2>1
  <2>3. ASSUME NEW j \in Producer, ProducerCompleted(j)
        PROVE  cap'[t] = IntMin /\ count'[t] <= count[t]
    <3>1. /\ size' \in [Producer -> Nat]
          /\ Order(IF j = "FACTORY" THEN {"SIEGETANK"} ELSE {}, size', cap)
      BY <1>1, <2>3, CompletedList, DefenceAssumption
    <3>2. (IF j = "FACTORY" THEN {"SIEGETANK"} ELSE {}) \in SUBSET Troop
      BY DEF Troop
    <3>3. count'[t] = count[t] \/ count[t] < cap[t]
      BY <1>1, <3>1, <3>2, OrderInRange DEF DefenceInv
    <3>4. cap' = cap
      BY <2>3 DEF ProducerCompleted
    <3>5. QED
      BY <1>1, <2>1, <2>2, <3>3, <3>4
  <2>4. ASSUME NEW bay \in BOOLEAN, DefenceStep(bay)
        PROVE  cap'[t] = IntMin /\ count'[t] <= count[t]
    <3>1. PICK m \in Minerals, has \in SUBSET Producer :
              Multiply(m) /\ Order(Affordable(m, has), size, cap')
      BY <2>4 DEF DefenceStep
    <3>2. cap'[t] = cap[t] \/ cap'[t] = Doubled(cap[t])
      BY <3>1 DEF Multiply
    <3>3. cap'[t] = IntMin
      BY <1>1, <3>2 DEF Doubled
    <3>4. size \in [Producer -> Nat]
      BY <1>1, DefenceAssumption DEF DefenceInv, DefenceTypeOK
    <3>5. count'[t] = count[t] \/ count[t] < cap'[t]
      BY <1>1, <3>1, <3>4, AffordableTroops, OrderInRange DEF DefenceInv
    <3>6. QED
      BY <2>1, <2>2, <3>3, <3>5
  <2>5. ASSUME NEW u \in Troop, TroopLost(u)
        PROVE  cap'[t] = IntMin /\ count'[t] <= count[t]
    <3>1. cap' = cap /\ (count'[t] = count[t] \/ count'[t] = count[t] - 5 * multiplierCounter)
      BY <1>1, <2>5 DEF TroopLost, DefenceInv, DefenceTypeOK
    <3>2. QED
      BY <1>1, <2>1, <3>1
  <2>6. CASE UNCHANGED <<cap, count>>
    BY <1>1, <2>1, <2>6
  <2>7. QED
    BY <1>1, <2>3, <2>4, <2>5, <2>6
    DEF DefenceNext, Elapse, ProducerDestroyed, BaseCompleted, DefencePause,
        OtherThanDefence, defenceVars, lists, troops
<1>2. DefenceInv /\ [DefenceNext]_<<phase, defenceVars>>
      => [\A t \in Troop : cap[t] = IntMin
              => cap'[t] = IntMin /\ count'[t] <= count[t]]_<<phase, defenceVars>>
  BY <1>1
<1>3. QED
  BY <1>2, DefenceInvariant, PTL DEF DefenceSpec, ProductionEnds

------------------------------------------------------------------------------
(* The upgrade trees                                                         *)

UpgradeInv == UpgradeTypeOK /\ ArmoryStillAsked

LEMMA UpgradeInvInit == UpgradeInit => UpgradeInv
<1> SUFFICES ASSUME UpgradeInit PROVE UpgradeInv
  OBVIOUS
<1>1. UpgradeTypeOK
  BY DEF UpgradeInit, UpgradeTypeOK, FirstPhase, Phases, Lab
<1>2. ArmoryStillAsked
  BY DEF UpgradeInit, ArmoryStillAsked, StillAsked
<1>3. QED
  BY <1>1, <1>2 DEF UpgradeInv

\* What was asked of the armories that exist stays asked, unless one is lost, so
\* the property is kept by a step that neither completes a level nor makes one
\* of them idle.
LEMMA AskedOfArmories ==
    ASSUME ArmoryStillAsked, sAndV' = sAndV,
           seen_idle' \cap Armory \subseteq seen_idle,
           \A l \in Armory : lab[l] # "none" =>
               lab'[l] # "none" /\ asked_of[l] \subseteq asked_of'[l]
    PROVE  ArmoryStillAsked'
<1> SUFFICES ASSUME (seen_idle \cap Armory)' # {}, NEW n \in 1..3, n <= sAndV' + 1
             PROVE  \E l \in Armory : lab'[l] # "none" /\ n \in asked_of'[l]
  BY DEF ArmoryStillAsked, StillAsked
<1>1. PICK l \in Armory : lab[l] # "none" /\ n \in asked_of[l]
  BY DEF ArmoryStillAsked, StillAsked
<1>2. QED
  BY <1>1

\* Asking one structure of a kind, as upgradeCompleted does.
LEMMA AskedFront ==
    ASSUME UpgradeTypeOK, NEW kind \in SUBSET Lab, NEW n \in Levels,
           AskFront(kind, n)
    PROVE  /\ asked_of' \in [Lab -> SUBSET Levels]
           /\ \A l \in Lab : /\ asked_of[l] \subseteq asked_of'[l]
                             /\ asked_of'[l] \subseteq asked_of[l] \union {n}
                             /\ l \notin kind => asked_of'[l] = asked_of[l]
           /\ (\E l \in kind : lab[l] # "none")
                => \E l \in kind : lab[l] # "none" /\ n \in asked_of'[l]
<1>1. asked_of \in [Lab -> SUBSET Levels]
  BY DEF UpgradeTypeOK
<1>2. CASE {l \in kind : lab[l] # "none"} = {}
  <2>1. asked_of' = asked_of
    BY <1>2 DEF AskFront
  <2>2. QED
    BY <1>1, <1>2, <2>1
<1>3. CASE {l \in kind : lab[l] # "none"} # {}
  <2>1. PICK k \in kind : /\ lab[k] # "none"
                          /\ asked_of' = [asked_of EXCEPT ![k] = @ \union {n}]
    BY <1>3 DEF AskFront, Ask
  <2>2. \A l \in Lab : asked_of'[l] = IF l = k THEN asked_of[l] \union {n}
                                                ELSE asked_of[l]
    BY <1>1, <2>1
  <2>3. asked_of' \in [Lab -> SUBSET Levels] /\ n \in asked_of'[k]
    BY <1>1, <2>1, <2>2
  <2>4. QED
    BY <2>1, <2>2, <2>3
<1>4. QED
  BY <1>2, <1>3

LEMMA UpgradeInvNext ==
    UpgradeInv /\ [UpgradeNext]_<<phase, upgradeVars>> => UpgradeInv'
<1> SUFFICES ASSUME UpgradeInv, [UpgradeNext]_<<phase, upgradeVars>>
             PROVE  UpgradeInv'
  OBVIOUS
<1> USE DEF UpgradeInv
<1>0. /\ lab \in [Lab -> {"none", "building", "standing"}]
      /\ infantry \in 0..3 /\ sAndV \in 0..3
      /\ asked_of \in [Lab -> SUBSET Levels]
      /\ \A l \in Armory : asked_of[l] \subseteq 1..3
      /\ seen_idle \subseteq {l \in Lab : lab[l] = "standing"}
      /\ Armory \subseteq Lab /\ Bay \subseteq Lab /\ Bay \cap Armory = {}
      /\ Levels = 1..4
      /\ phase \in Phases
  BY UpgradeAssumption DEF UpgradeTypeOK, Lab, Levels
<1>1. ASSUME NEW l \in Lab, LabPlaced(l)
      PROVE  UpgradeInv'
  <2>1. /\ lab[l] = "none" /\ lab' = [lab EXCEPT ![l] = "building"]
        /\ asked_of' = [asked_of EXCEPT ![l] = {}]
        /\ UNCHANGED <<infantry, sAndV, seen_idle>> /\ phase' \in Phases
    BY <1>1 DEF LabPlaced, Event, Phases
  <2>2. l \notin seen_idle
    BY <1>0, <2>1
  <2>3. UpgradeTypeOK'
    BY <1>0, <2>1, <2>2 DEF UpgradeTypeOK
  <2>4. \A k \in Armory : lab[k] # "none" =>
            lab'[k] # "none" /\ asked_of[k] \subseteq asked_of'[k]
    BY <1>0, <2>1
  <2>5. QED
    BY <2>1, <2>3, <2>4, AskedOfArmories
<1>2. ASSUME NEW l \in Lab, LabCompleted(l)
      PROVE  UpgradeInv'
  <2>1. /\ lab[l] = "building" /\ lab' = [lab EXCEPT ![l] = "standing"]
        /\ UNCHANGED <<infantry, sAndV, asked_of, seen_idle>> /\ phase' \in Phases
    BY <1>2 DEF LabCompleted, Event, Phases
  <2>2. UpgradeTypeOK'
    BY <1>0, <2>1 DEF UpgradeTypeOK
  <2>3. \A k \in Armory : lab[k] # "none" => lab'[k] # "none"
    BY <1>0, <2>1
  <2>4. QED
    BY <2>1, <2>2, <2>3, AskedOfArmories
<1>3. ASSUME NEW l \in Lab, LabDestroyed(l)
      PROVE  UpgradeInv'
  <2>1. /\ lab' = [lab EXCEPT ![l] = "none"]
        /\ seen_idle' = seen_idle \ Alike(l)
        /\ UNCHANGED <<infantry, sAndV, asked_of>> /\ phase' \in Phases
    BY <1>3 DEF LabDestroyed, Event, Phases
  <2>2. l \in Alike(l)
    BY <1>3 DEF Alike, Lab
  <2>3. UpgradeTypeOK'
    BY <1>0, <2>1, <2>2 DEF UpgradeTypeOK
  <2>4. CASE l \in Armory
    <3>1. seen_idle' \cap Armory = {}
      BY <2>1, <2>4 DEF Alike
    <3>2. QED
      BY <2>3, <3>1 DEF ArmoryStillAsked, StillAsked
  <2>5. CASE l \notin Armory
    <3>1. \A k \in Armory : lab'[k] = lab[k]
      BY <1>0, <2>1, <2>5
    <3>2. QED
      BY <2>1, <2>3, <3>1, AskedOfArmories
  <2>6. QED
    BY <2>4, <2>5
<1>4. ASSUME NEW l \in Lab, LabIdle(l)
      PROVE  UpgradeInv'
  <2>1. /\ lab[l] = "standing"
        /\ asked_of' = [asked_of EXCEPT ![l] = @ \union Tree(l)]
        /\ seen_idle' = seen_idle \union {l}
        /\ UNCHANGED <<lab, infantry, sAndV>> /\ phase' \in Phases
    BY <1>4 DEF LabIdle, Ask, Event, Phases
  <2>2. /\ Tree(l) \subseteq 1..4
        /\ l \in Armory => Tree(l) \subseteq 1..3
    BY <1>0 DEF Tree
  <2>3. \A k \in Lab : asked_of'[k] = IF k = l THEN asked_of[k] \union Tree(l)
                                                ELSE asked_of[k]
    BY <1>0, <2>1
  <2>4. UpgradeTypeOK'
    <3>1. asked_of' \in [Lab -> SUBSET Levels]
      BY <1>0, <2>1, <2>2
    <3>2. \A k \in Armory : asked_of'[k] \subseteq 1..3
      BY <1>0, <2>2, <2>3
    <3>3. seen_idle' \subseteq {k \in Lab : lab'[k] = "standing"}
      BY <1>0, <2>1
    <3>4. QED
      BY <1>0, <2>1, <3>1, <3>2, <3>3 DEF UpgradeTypeOK
  <2>5. CASE l \in Armory
    <3>1. \A n \in 1..3 : n <= sAndV + 1 => n \in asked_of'[l]
      <4>1. \A n \in 1..3 : n <= sAndV + 1 => n \in Tree(l)
        BY <1>0, <2>5 DEF Tree
      <4>2. QED
        BY <2>3, <4>1
    <3>2. lab'[l] # "none"
      BY <2>1
    <3>3. ArmoryStillAsked'
      BY <2>1, <2>5, <3>1, <3>2 DEF ArmoryStillAsked, StillAsked
    <3>4. QED
      BY <2>4, <3>3
  <2>6. CASE l \notin Armory
    <3>1. /\ seen_idle' \cap Armory \subseteq seen_idle
          /\ \A k \in Armory : asked_of'[k] = asked_of[k] /\ lab'[k] = lab[k]
      BY <1>0, <2>1, <2>3, <2>6
    <3>2. QED
      BY <2>1, <2>4, <3>1, AskedOfArmories
  <2>7. QED
    BY <2>5, <2>6
<1>5. CASE InfantryUpgraded
  <2>1. /\ infantry < 3 /\ infantry' = infantry + 1
        /\ AskFront(Bay, infantry + 2)
        /\ UNCHANGED <<lab, sAndV, seen_idle>> /\ phase' \in Phases
    BY <1>5 DEF InfantryUpgraded, Event, Phases
  <2>2. infantry + 2 \in Levels /\ infantry' \in 0..3
    BY <1>0, <2>1
  <2>3. /\ asked_of' \in [Lab -> SUBSET Levels]
        /\ \A l \in Armory : asked_of'[l] = asked_of[l]
    BY <1>0, <2>1, <2>2, AskedFront
  <2>4. UpgradeTypeOK'
    BY <1>0, <2>1, <2>2, <2>3 DEF UpgradeTypeOK
  <2>5. QED
    BY <2>1, <2>3, <2>4, AskedOfArmories
<1>6. CASE ShipsUpgraded
  <2>1. /\ sAndV < 3 /\ sAndV' = sAndV + 1
        /\ UNCHANGED <<lab, infantry, seen_idle>> /\ phase' \in Phases
        /\ IF sAndV < 2 THEN AskFront(Armory, sAndV + 2) ELSE UNCHANGED asked_of
    BY <1>6 DEF ShipsUpgraded, Event, Phases
  <2>2. sAndV' \in 0..3
    BY <1>0, <2>1
  <2>3. /\ asked_of' \in [Lab -> SUBSET Levels]
        /\ \A l \in Armory : /\ asked_of[l] \subseteq asked_of'[l]
                             /\ asked_of'[l] \subseteq 1..3
        /\ sAndV < 2 /\ (\E l \in Armory : lab[l] # "none")
              => \E l \in Armory : lab[l] # "none" /\ sAndV + 2 \in asked_of'[l]
    <3>1. CASE sAndV < 2
      <4>1. sAndV + 2 \in Levels /\ sAndV + 2 \in 1..3
        BY <1>0, <3>1
      <4>2. AskFront(Armory, sAndV + 2)
        BY <2>1, <3>1
      <4>3. QED
        BY <1>0, <4>1, <4>2, AskedFront
    <3>2. CASE ~(sAndV < 2)
      BY <1>0, <2>1, <3>2
    <3>3. QED
      BY <3>1, <3>2
  <2>4. UpgradeTypeOK'
    BY <1>0, <2>1, <2>2, <2>3 DEF UpgradeTypeOK
  <2>5. ArmoryStillAsked'
    <3>1. ASSUME seen_idle \cap Armory # {}, NEW n \in 1..3, n <= sAndV' + 1
          PROVE  \E l \in Armory : lab[l] # "none" /\ n \in asked_of'[l]
      <4>1. CASE n <= sAndV + 1
        <5>1. PICK l \in Armory : lab[l] # "none" /\ n \in asked_of[l]
          BY <3>1, <4>1 DEF ArmoryStillAsked, StillAsked
        <5>2. QED
          BY <2>3, <5>1
      <4>2. CASE n = sAndV + 2
        <5>1. sAndV < 2 /\ \E l \in Armory : lab[l] # "none"
          BY <1>0, <3>1, <4>2
        <5>2. QED
          BY <2>3, <4>2, <5>1
      <4>3. QED
        BY <1>0, <2>1, <3>1, <4>1, <4>2
    <3>2. QED
      BY <2>1, <3>1 DEF ArmoryStillAsked, StillAsked
  <2>6. QED
    BY <2>4, <2>5
<1>7. CASE EndOfLoop
  <2>1. /\ asked_of' = [l \in Lab |-> IF lab[l] = "none" THEN {} ELSE asked_of[l]]
        /\ UNCHANGED <<lab, infantry, sAndV, seen_idle>> /\ phase' \in Phases
    BY <1>7 DEF EndOfLoop, LastCall, Phases
  <2>2. UpgradeTypeOK'
    BY <1>0, <2>1 DEF UpgradeTypeOK
  <2>3. \A l \in Armory : lab[l] # "none" => asked_of'[l] = asked_of[l]
    BY <1>0, <2>1
  <2>4. QED
    BY <2>1, <2>2, <2>3, AskedOfArmories
<1>8. ASSUME phase' \in Phases, UNCHANGED upgradeVars
      PROVE  UpgradeInv'
  BY <1>8 DEF upgradeVars, UpgradeTypeOK, ArmoryStillAsked, StillAsked
<1>9. CASE OtherThanUpgrades
  BY <1>8, <1>9 DEF OtherThanUpgrades, Event
<1>10. CASE UNCHANGED <<phase, upgradeVars>>
  BY <1>0, <1>8, <1>10
<1>11. QED
  BY <1>1, <1>2, <1>3, <1>4, <1>5, <1>6, <1>7, <1>9, <1>10 DEF UpgradeNext

\* The invariant holds in every reachable state.
THEOREM UpgradeInvariant == UpgradeSpec => []UpgradeInv
<1>1. QED
  BY UpgradeInvInit, UpgradeInvNext, PTL DEF UpgradeSpec

\* Type correctness.
THEOREM UpgradeTypeCorrect == UpgradeSpec => []UpgradeTypeOK
<1>1. UpgradeInv => UpgradeTypeOK
  BY DEF UpgradeInv
<1>2. QED
  BY <1>1, UpgradeInvariant, PTL

\* However many armories there are and are lost: once one has become idle, every
\* level that is open has been asked of one that exists.
THEOREM ArmoryAsked == UpgradeSpec => []ArmoryStillAsked
<1>1. UpgradeInv => ArmoryStillAsked
  BY DEF UpgradeInv
<1>2. QED
  BY <1>1, UpgradeInvariant, PTL

==============================================================================
