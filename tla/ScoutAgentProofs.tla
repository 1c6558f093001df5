-------------------------- MODULE ScoutAgentProofs --------------------------
(***************************************************************************)
(* Theorems about ScoutAgent, for any number of scouts, start locations    *)
(* and SCVs finished in one loop.                                          *)
(***************************************************************************)
EXTENDS ScoutAgent, FiniteSetTheorems, TLAPS

USE DEF Destroying, Creating, Completing, Idling, Upgrading, Serving, Defending

\* What lies between two handlers of a loop: nobody is idle or new before the
\* events that make them so, new scouts have been idle before any step(), and
\* the queue that step() left has a task for the first scout of the next loop.
LoopInv ==
    /\ phase < Creating => fresh = {} /\ born = 0
    /\ phase < Idling => idled = {}
    /\ phase > Idling => fresh = {}
    /\ phase <= Creating /\ ordered_scv /\ ~waiting => QueueSize + born >= 1

ScoutInv == ScoutTypeOK /\ ScoutsReplaced /\ LoopInv /\ FirstFindsTask

\* The sets of scouts and places are finite, as SCVs and start locations are.
LEMMA ScoutsFinite ==
    ASSUME ScoutTypeOK
    PROVE  /\ IsFiniteSet(units) /\ Cardinality(units) \in Nat
           /\ IsFiniteSet(starts) /\ Cardinality(starts) \in Nat
           /\ QueueSize \in Nat
<1>1. IsFiniteSet(units) /\ IsFiniteSet(starts)
  BY ScoutAssumption, FS_Subset DEF ScoutTypeOK
<1>2. Cardinality(units) \in Nat /\ Cardinality(starts) \in Nat
  BY <1>1, FS_CardinalityType
<1>3. QED
  BY <1>1, <1>2 DEF ScoutTypeOK, QueueSize

\* pop() leaves a queue of the same kinds of places.
LEMMA PopKeepsType ==
    ASSUME ScoutTypeOK, Pop
    PROVE  starts' \subseteq Start /\ points' \in 0..QueueLow
<1>1. points \in 0..QueueLow /\ starts \subseteq Start /\ QueueLow \in Nat
  BY ScoutAssumption DEF ScoutTypeOK
<1>2. CASE \E s \in starts : starts' = starts \ {s} /\ points' = points
  BY <1>1, <1>2
<1>3. CASE points > 0 /\ points' = points - 1 /\ starts' = starts
  BY <1>1, <1>3
<1>4. QED
  BY <1>2, <1>3 DEF Pop

\* The queue after step() has at least one task, and at most QueueLow points.
LEMMA StepFillsQueue ==
    ASSUME ScoutTypeOK, ScoutStep
    PROVE  /\ starts' \subseteq Start /\ points' \in 0..QueueLow
           /\ Cardinality(starts') + points' >= 1
           /\ points' >= points
<1>1. starts' \subseteq Start
  BY DEF ScoutStep, ScoutTypeOK
<1>2. Cardinality(starts') \in Nat
  BY <1>1, ScoutAssumption, FS_Subset, FS_CardinalityType
<1>3. points \in 0..QueueLow /\ QueueLow \in Nat \ {0}
  BY ScoutAssumption DEF ScoutTypeOK
<1>4. points' = points + Refilled(Cardinality(starts') + points)
  BY DEF ScoutStep
<1> DEFINE n == Cardinality(starts')
<1> HIDE DEF n
<1>5. /\ points' = points + IF n + points < QueueLow THEN 1 ELSE 0
      /\ n \in Nat
  BY <1>2, <1>4 DEF Refilled, n
<1>6. points' \in 0..QueueLow /\ n + points' >= 1 /\ points' >= points
  BY <1>3, <1>5
<1>7. QED
  BY <1>1, <1>6 DEF n

LEMMA ScoutInvInit == ScoutInit => ScoutInv
<1> SUFFICES ASSUME ScoutInit PROVE ScoutInv
  OBVIOUS
<1> USE ScoutAssumption DEF ScoutInit
<1>1. ScoutTypeOK
  <2>1. phase \in Phases
    BY DEF FirstPhase, Phases
  <2>2. steps \in 0..OrderAfter /\ points \in 0..QueueLow /\ born \in 0..MaxBorn
    OBVIOUS
  <2>3. units \subseteq Scv /\ fresh \subseteq units /\ idled \subseteq units \ fresh
    OBVIOUS
  <2>4. QED
    BY <2>1, <2>2, <2>3 DEF ScoutTypeOK
<1>2. ScoutsReplaced
  BY FS_EmptySet DEF ScoutsReplaced
<1>3. LoopInv /\ FirstFindsTask
  BY DEF LoopInv, FirstFindsTask, FirstPhase
<1>4. QED
  BY <1>1, <1>2, <1>3 DEF ScoutInv

LEMMA ScoutInvNext == ScoutInv /\ [ScoutNext]_<<phase, scoutVars>> => ScoutInv'
<1> SUFFICES ASSUME ScoutInv, [ScoutNext]_<<phase, scoutVars>> PROVE ScoutInv'
  OBVIOUS
<1> USE DEF ScoutInv
<1>0. /\ IsFiniteSet(units) /\ Cardinality(units) \in Nat
      /\ IsFiniteSet(starts) /\ Cardinality(starts) \in Nat
      /\ QueueSize \in Nat
      /\ asked \in Nat /\ owed \in Nat /\ dropped \in Nat /\ born \in Nat
      /\ MaxScouts \in Nat /\ MaxBorn \in Nat /\ OrderAfter \in Nat
      /\ phase \in 1..7
  BY ScoutsFinite, ScoutAssumption DEF ScoutTypeOK, Phases
<1>1. CASE ScoutTrained
  <2>1. ScoutTypeOK'
    BY <1>0, <1>1 DEF ScoutTrained, ScoutTypeOK, Event, Phases, taskQueue
  <2>2. ScoutsReplaced'
    BY <1>0, <1>1 DEF ScoutTrained, ScoutsReplaced
  <2>3. LoopInv' /\ FirstFindsTask'
    BY <1>1 DEF ScoutTrained, LoopInv, FirstFindsTask, Event, taskQueue
  <2>4. QED
    BY <2>1, <2>2, <2>3
<1>2. CASE ScoutDropped
  <2>1. ScoutTypeOK'
    BY <1>0, <1>2 DEF ScoutDropped, ScoutTypeOK, Event, Phases, taskQueue
  <2>2. ScoutsReplaced'
    BY <1>0, <1>2 DEF ScoutDropped, ScoutsReplaced
  <2>3. LoopInv' /\ FirstFindsTask'
    BY <1>2 DEF ScoutDropped, LoopInv, FirstFindsTask, Event, taskQueue
  <2>4. QED
    BY <2>1, <2>2, <2>3
<1>3. ASSUME NEW u \in Scv, ScoutDestroyed(u)
      PROVE  ScoutInv'
  <2>1. idled = {} /\ fresh = {} /\ phase' = Destroying
    BY <1>3 DEF ScoutDestroyed, Event, LoopInv, ScoutTypeOK, Phases
  <2>2. ScoutTypeOK'
    BY <1>0, <1>3, <2>1
    DEF ScoutDestroyed, ScoutTypeOK, Phases, taskQueue
  <2>3. Cardinality(units') = Cardinality(units) - 1
    BY <1>0, <1>3, FS_RemoveElement DEF ScoutDestroyed
  <2>4. ScoutsReplaced'
    BY <1>0, <1>3, <2>3 DEF ScoutDestroyed, ScoutsReplaced
  <2>5. phase \in Phases /\ phase <= Destroying
    BY <1>3 DEF ScoutDestroyed, Event, ScoutTypeOK
  <2>6. starts' = starts /\ points' = points /\ QueueSize' = QueueSize
    BY <1>3 DEF ScoutDestroyed, taskQueue, QueueSize
  <2>7. LoopInv' /\ FirstFindsTask'
    BY <1>0, <1>3, <2>1, <2>5, <2>6
    DEF ScoutDestroyed, LoopInv, FirstFindsTask, Phases
  <2>8. QED
    BY <2>2, <2>4, <2>7
<1>4. ASSUME NEW u \in Scv, ScoutCreated(u)
      PROVE  ScoutInv'
  <2>1. /\ u \notin units /\ units' = units \union {u}
        /\ fresh' = fresh \union {u} /\ idled' = idled
        /\ born' = born + 1 /\ born < MaxBorn
        /\ owed > 0 /\ owed' = owed - 1 /\ asked' = asked /\ dropped' = dropped
        /\ ordered_scv' = ordered_scv /\ ~waiting
        /\ phase <= Creating /\ phase' = Creating
    BY <1>4 DEF ScoutCreated, Event
  <2>2. ordered_scv
    BY <1>0, <2>1 DEF ScoutsReplaced
  <2>3. starts' \subseteq Start /\ points' \in 0..QueueLow
    <3>1. CASE QueueSize = 0
      BY <1>4, <3>1 DEF ScoutCreated, taskQueue, ScoutTypeOK
    <3>2. CASE QueueSize # 0
      BY <1>4, <3>2, PopKeepsType DEF ScoutCreated
    <3>3. QED
      BY <3>1, <3>2
  <2>4. ScoutTypeOK'
    <3>1. waiting' \in BOOLEAN
      BY <1>4 DEF ScoutCreated, ScoutTypeOK
    <3>2. steps' = steps /\ ordered_ccenter' = ordered_ccenter
      BY <1>4 DEF ScoutCreated
    <3>3. QED
      BY <1>0, <2>1, <2>3, <3>1, <3>2 DEF ScoutTypeOK, Phases
  <2>5. Cardinality(units') = Cardinality(units) + 1
    BY <1>0, <2>1, FS_AddElement
  <2>6. ScoutsReplaced'
    BY <1>0, <2>1, <2>5 DEF ScoutsReplaced
  <2>7. FirstFindsTask'
    <3>1. CASE QueueSize = 0
      <4>1. born >= 1
        BY <1>0, <2>1, <2>2, <3>1 DEF LoopInv
      <4>2. QED
        BY <1>0, <2>1, <4>1 DEF FirstFindsTask
    <3>2. CASE QueueSize # 0
      BY <1>4, <2>1, <3>2 DEF ScoutCreated, FirstFindsTask
    <3>3. QED
      BY <3>1, <3>2
  <2>8. LoopInv'
    <3>1. QueueSize' \in Nat
      <4>1. Cardinality(starts') \in Nat /\ points' \in Nat
        BY <2>3, ScoutAssumption, FS_Subset, FS_CardinalityType
      <4>2. QED
        BY <4>1 DEF QueueSize
    <3>2. born' \in Nat /\ born' >= 1 /\ idled' = {}
      BY <1>0, <2>1 DEF LoopInv
    <3>3. QueueSize' + born' >= 1
      <4> DEFINE q == QueueSize'
                 n == born'
      <4>1. q \in Nat /\ n \in Nat /\ n >= 1
        BY <3>1, <3>2
      <4> HIDE DEF q, n
      <4>2. q + n >= 1
        BY <4>1
      <4>3. QED
        BY <4>2 DEF q, n
    <3>4. QED
      BY <2>1, <3>2, <3>3 DEF LoopInv
  <2>9. QED
    BY <2>4, <2>6, <2>7, <2>8
<1>5. ASSUME NEW u \in Scv, ScoutIdle(u)
      PROVE  ScoutInv'
  <2>1. starts' \subseteq Start /\ points' \in 0..QueueLow
    <3>1. CASE QueueSize = 0
      BY <1>5, <3>1 DEF ScoutIdle, taskQueue, ScoutTypeOK
    <3>2. CASE QueueSize # 0
      BY <1>5, <3>2, PopKeepsType DEF ScoutIdle
    <3>3. QED
      BY <3>1, <3>2
  <2>2. ScoutTypeOK'
    BY <1>0, <1>5, <2>1 DEF ScoutIdle, ScoutTypeOK, Event, Phases, ledger
  <2>3. ScoutsReplaced'
    BY <1>5 DEF ScoutIdle, ScoutsReplaced, ledger
  <2>4. LoopInv' /\ FirstFindsTask'
    BY <1>5 DEF ScoutIdle, LoopInv, FirstFindsTask, Event
  <2>5. QED
    BY <2>2, <2>3, <2>4
<1>6. CASE ScoutStep
  <2>1. /\ phase = Defending /\ phase' = Destroying
        /\ fresh' = fresh /\ idled' = {} /\ born' = 0
        /\ units' = units /\ owed' = owed /\ dropped' = dropped
        /\ ~waiting /\ ~waiting'
    BY <1>6 DEF ScoutStep, LastCall
  <2>2. fresh = {}
    BY <2>1 DEF LoopInv
  <2>3. ScoutTypeOK'
    <3>1. starts' \subseteq Start /\ points' \in 0..QueueLow
      BY <1>6, StepFillsQueue
    <3>2. steps' \in 0..OrderAfter
      BY <1>0, <1>6 DEF ScoutStep, ScoutTypeOK
    <3>3. ordered_scv' \in BOOLEAN /\ ordered_ccenter' \in BOOLEAN
      BY <1>6 DEF ScoutStep, ScoutTypeOK
    <3>4. asked' \in Nat
      BY <1>0, <1>6 DEF ScoutStep
    <3>5. phase' \in Phases /\ born' \in 0..MaxBorn
      BY <1>0, <2>1 DEF Phases
    <3>6. (units \subseteq Scv /\ fresh \subseteq units /\ idled \subseteq units \ fresh)'
      BY <2>1, <2>2 DEF ScoutTypeOK
    <3>7. owed' \in Nat /\ dropped' \in Nat /\ waiting' \in BOOLEAN
      BY <1>0, <1>6, <2>1 DEF ScoutStep, ScoutTypeOK
    <3>8. QED
      BY <3>1, <3>2, <3>3, <3>4, <3>5, <3>6, <3>7 DEF ScoutTypeOK
  <2>4. ScoutsReplaced'
    <3>1. CASE ~ordered_scv /\ steps >= OrderAfter
      BY <1>0, <1>6, <2>1, <3>1 DEF ScoutStep, ScoutsReplaced
    <3>2. CASE ~(~ordered_scv /\ steps >= OrderAfter)
      BY <1>6, <2>1, <3>2 DEF ScoutStep, ScoutsReplaced
    <3>3. QED
      BY <3>1, <3>2
  <2>5. LoopInv'
    <3>1. Cardinality(starts') + points' >= 1
      BY <1>6, StepFillsQueue
    <3>2. (QueueSize + born >= 1)'
      <4>1. Cardinality(starts') \in Nat /\ points' \in Nat
        BY <2>3, ScoutAssumption, FS_Subset, FS_CardinalityType DEF ScoutTypeOK
      <4>2. QED
        BY <2>1, <3>1, <4>1 DEF QueueSize
    <3>3. QED
      BY <2>1, <2>2, <3>2 DEF LoopInv
  <2>6. FirstFindsTask'
    BY <2>1 DEF FirstFindsTask
  <2>7. QED
    BY <2>3, <2>4, <2>5, <2>6
<1>7. CASE OtherThanScouts
  <2>1. PICK k \in Phases : Event(k) /\ (k > Idling => fresh = {})
    BY <1>7 DEF OtherThanScouts
  <2>2. UNCHANGED scoutVars /\ phase \in Phases
    BY <1>7 DEF OtherThanScouts, ScoutTypeOK
  <2>3. ScoutTypeOK' /\ ScoutsReplaced' /\ FirstFindsTask'
    BY <2>1, <2>2
    DEF scoutVars, taskQueue, ledger, ScoutTypeOK, ScoutsReplaced, FirstFindsTask, Event
  <2>4. QueueSize' = QueueSize
    BY <2>2 DEF scoutVars, taskQueue, QueueSize
  <2>5. LoopInv'
    BY <2>1, <2>2, <2>4 DEF scoutVars, LoopInv, Event, Phases
  <2>6. QED
    BY <2>3, <2>5
<1>8. CASE UNCHANGED <<phase, scoutVars>>
  BY <1>8
  DEF scoutVars, taskQueue, ledger, ScoutTypeOK, ScoutsReplaced, FirstFindsTask,
      LoopInv, QueueSize
<1>9. QED
  BY <1>1, <1>2, <1>3, <1>4, <1>5, <1>6, <1>7, <1>8 DEF ScoutNext

\* The invariant holds in every reachable state.
THEOREM ScoutInvariant == ScoutSpec => []ScoutInv
<1>1. QED
  BY ScoutInvInit, ScoutInvNext, PTL DEF ScoutSpec

\* Type correctness.
THEOREM ScoutTypeCorrect == ScoutSpec => []ScoutTypeOK
<1>1. ScoutInv => ScoutTypeOK
  BY DEF ScoutInv
<1>2. QED
  BY <1>1, ScoutInvariant, PTL

\* For any MAX_SCOUT_COUNT: each scout lost is ordered again, exactly once.
THEOREM ScoutsAreReplaced == ScoutSpec => []ScoutsReplaced
<1>1. ScoutInv => ScoutsReplaced
  BY DEF ScoutInv
<1>2. QED
  BY <1>1, ScoutInvariant, PTL

\* However many places step() keeps queued, the bot stands still only in a loop
\* in which two scouts are created.
THEOREM FirstScoutFindsTask == ScoutSpec => []FirstFindsTask
<1>1. ScoutInv => FirstFindsTask
  BY DEF ScoutInv
<1>2. QED
  BY <1>1, ScoutInvariant, PTL

==============================================================================
