---------------------------- MODULE TFBotProofs ----------------------------
(***************************************************************************)
(* TF_Bot gives each event to one agent, so it behaves to each of them as  *)
(* that agent's specification assumes, which carries the theorems about    *)
(* the agents over to the bot; and what the bot needs to build turrets.    *)
(***************************************************************************)
EXTENDS TF_Bot, ScoutAgentProofs, SightingsProofs, DefenceAgentProofs

USE DEF Destroying, Creating, Completing, Idling, Upgrading, Serving, Defending

\* A step of one agent other than the end of the loop, which all others see as
\* an event of some kind, or as nothing.
Passes ==
    \/ \E k \in Phases : Event(k) /\ (k > Idling => fresh = {})
    \/ UNCHANGED phase

ScoutEvent ==
    /\ OnlyScout /\ Passes
    /\ \/ ScoutTrained \/ ScoutDropped
       \/ \E u \in Scv : ScoutDestroyed(u) \/ ScoutCreated(u) \/ ScoutIdle(u)

RecordEvent ==
    /\ OnlyRecord /\ Passes /\ ~waiting
    /\ Tick \/ \E p \in Place : BuildingSighted(p) \/ UnitSighted(p)

UpgradeEvent ==
    /\ OnlyUpgrades /\ Passes /\ ~waiting
    /\ \/ \E l \in Lab : LabPlaced(l) \/ LabCompleted(l) \/ LabDestroyed(l) \/ LabIdle(l)
       \/ InfantryUpgraded \/ ShipsUpgraded

DefenceEvent ==
    /\ OnlyDefence /\ Passes /\ ~waiting
    /\ \/ Elapse
       \/ \E k \in Producer : ProducerCompleted(k) \/ ProducerDestroyed(k)
       \/ \E t \in Troop : TroopLost(t)
       \/ \E b \in Base : BaseCompleted(b)
       \/ \E bay \in BOOLEAN : DefenceStep(bay)
       \/ DefencePause

\* TF_Bot hands an event to the one agent it concerns, or ends the loop.
LEMMA OneAgentActs ==
    ASSUME Next
    PROVE  ScoutEvent \/ RecordEvent \/ UpgradeEvent \/ DefenceEvent \/ ScoutSteps
<1>0. Phases = 1..7
  BY DEF Phases
<1>1. CASE TimePasses
  BY <1>1 DEF TimePasses, Running, Tick, Elapse, RecordEvent, DefenceEvent, Passes
<1>2. CASE OnUnitDestroyed
  <2>1. ASSUME NEW u \in Scv, ScoutDestroyed(u), OnlyScout
        PROVE  ScoutEvent
    BY <1>0, <2>1 DEF ScoutDestroyed, ScoutEvent, Passes
  <2>2. ASSUME NEW l \in Lab, Running, LabDestroyed(l), OnlyUpgrades
        PROVE  UpgradeEvent
    <3>1. Event(Destroying)
      BY <2>2 DEF LabDestroyed
    <3>2. QED
      BY <1>0, <2>2, <3>1 DEF Running, UpgradeEvent, Passes
  <2>3. ASSUME NEW k \in Producer, Running, ProducerDestroyed(k), OnlyDefence
        PROVE  DefenceEvent
    <3>1. Event(Destroying)
      BY <2>3 DEF ProducerDestroyed
    <3>2. QED
      BY <1>0, <2>3, <3>1 DEF Running, DefenceEvent, Passes
  <2>4. ASSUME NEW t \in Troop, Running, TroopLost(t), OnlyDefence
        PROVE  DefenceEvent
    <3>1. Event(Destroying)
      BY <2>4 DEF TroopLost
    <3>2. QED
      BY <1>0, <2>4, <3>1 DEF Running, DefenceEvent, Passes
  <2>5. QED
    BY <1>2, <2>1, <2>2, <2>3, <2>4 DEF OnUnitDestroyed
<1>3. CASE OnUnitCreated
  <2>1. ASSUME NEW u \in Scv, ScoutCreated(u), OnlyScout
        PROVE  ScoutEvent
    BY <1>0, <2>1 DEF ScoutCreated, ScoutEvent, Passes
  <2>2. ASSUME NEW l \in Lab, ~waiting, LabPlaced(l), OnlyUpgrades
        PROVE  UpgradeEvent
    <3>1. Event(Creating)
      BY <2>2 DEF LabPlaced
    <3>2. QED
      BY <1>0, <2>2, <3>1 DEF UpgradeEvent, Passes
  <2>3. QED
    BY <1>3, <2>1, <2>2 DEF OnUnitCreated
<1>4. CASE OnUnitEnterVision
  <2>1. ~waiting /\ OnlyRecord /\ \E p \in Place : BuildingSighted(p) \/ UnitSighted(p)
    BY <1>4 DEF OnUnitEnterVision
  <2>2. Event(Creating)
    BY <2>1 DEF UnitSighted, BuildingSighted, Enters
  <2>3. QED
    BY <1>0, <2>1, <2>2 DEF RecordEvent, Passes
<1>5. CASE OnBuildingConstructionComplete
  <2>1. ASSUME NEW l \in Lab, ~waiting, LabCompleted(l), OnlyUpgrades
        PROVE  UpgradeEvent
    <3>1. Event(Completing)
      BY <2>1 DEF LabCompleted
    <3>2. QED
      BY <1>0, <2>1, <3>1 DEF UpgradeEvent, Passes
  <2>2. ASSUME NEW k \in Producer, ~waiting, ProducerCompleted(k), OnlyDefence
        PROVE  DefenceEvent
    <3>1. Event(Completing)
      BY <2>2 DEF ProducerCompleted
    <3>2. QED
      BY <1>0, <2>2, <3>1 DEF DefenceEvent, Passes
  <2>3. ASSUME NEW b \in Base, ~waiting, BaseCompleted(b), OnlyDefence
        PROVE  DefenceEvent
    <3>1. Event(Completing)
      BY <2>3 DEF BaseCompleted
    <3>2. QED
      BY <1>0, <2>3, <3>1 DEF DefenceEvent, Passes
  <2>4. QED
    BY <1>5, <2>1, <2>2, <2>3 DEF OnBuildingConstructionComplete
<1>6. CASE OnUnitIdle
  <2>1. ASSUME NEW u \in Scv, ScoutIdle(u), OnlyScout
        PROVE  ScoutEvent
    BY <1>0, <2>1 DEF ScoutIdle, ScoutEvent, Passes
  <2>2. ASSUME NEW l \in Lab, ~waiting, LabIdle(l), OnlyUpgrades
        PROVE  UpgradeEvent
    <3>1. Event(Idling)
      BY <2>2 DEF LabIdle
    <3>2. QED
      BY <1>0, <2>2, <3>1 DEF UpgradeEvent, Passes
  <2>3. QED
    BY <1>6, <2>1, <2>2 DEF OnUnitIdle
<1>7. CASE OnUpgradeCompleted
  <2>1. Running /\ OnlyUpgrades /\ (InfantryUpgraded \/ ShipsUpgraded)
    BY <1>7 DEF OnUpgradeCompleted
  <2>2. Event(Upgrading)
    BY <2>1 DEF InfantryUpgraded, ShipsUpgraded
  <2>3. QED
    BY <1>0, <2>1, <2>2 DEF Running, UpgradeEvent, Passes
<1>8. CASE ResourceSteps
  <2>1. OnlyScout /\ (ScoutTrained \/ ScoutDropped)
    BY <1>8 DEF ResourceSteps
  <2>2. Event(Serving) /\ fresh = {}
    BY <2>1 DEF ScoutTrained, ScoutDropped
  <2>3. QED
    BY <1>0, <2>1, <2>2 DEF ScoutEvent, Passes
<1>9. CASE DefenceSteps
  <2>1. Running /\ OnlyDefence /\ DefenceStep(BayStands) /\ BayStands \in BOOLEAN
    BY <1>9 DEF DefenceSteps, BayStands
  <2>2. Event(Defending)
    BY <2>1 DEF DefenceStep
  <2>3. QED
    BY <1>0, <2>1, <2>2 DEF Running, DefenceEvent, Passes
<1>10. CASE DefencePauses
  <2>1. Running /\ OnlyDefence /\ DefencePause
    BY <1>10 DEF DefencePauses
  <2>2. Event(Defending)
    BY <2>1 DEF DefencePause
  <2>3. QED
    BY <1>0, <2>1, <2>2 DEF Running, DefenceEvent, Passes
<1>11. QED
  BY <1>1, <1>2, <1>3, <1>4, <1>5, <1>6, <1>7, <1>8, <1>9, <1>10 DEF Next

------------------------------------------------------------------------------
(* Each agent takes its own steps or sees those of others pass               *)

LEMMA ScoutStepMaps == [Next]_vars => [ScoutNext]_<<phase, scoutVars>>
<1>1. CASE ScoutEvent
  BY <1>1 DEF ScoutEvent, ScoutNext
<1>2. ASSUME Passes, ~waiting, UNCHANGED scoutVars
      PROVE  [ScoutNext]_<<phase, scoutVars>>
  BY <1>2 DEF Passes, ScoutNext, OtherThanScouts
<1>3. CASE RecordEvent
  BY <1>2, <1>3 DEF RecordEvent, OnlyRecord
<1>4. CASE UpgradeEvent
  BY <1>2, <1>4 DEF UpgradeEvent, OnlyUpgrades
<1>5. CASE DefenceEvent
  BY <1>2, <1>5 DEF DefenceEvent, OnlyDefence
<1>6. CASE ScoutSteps
  BY <1>6 DEF ScoutSteps, ScoutNext
<1>7. CASE UNCHANGED vars
  BY <1>7 DEF vars
<1>8. QED
  BY <1>1, <1>3, <1>4, <1>5, <1>6, <1>7, OneAgentActs

LEMMA SightingStepMaps == [Next]_vars => [SightingNext]_<<phase, sightingVars>>
<1>1. CASE RecordEvent
  BY <1>1 DEF RecordEvent, SightingNext
<1>2. ASSUME Passes, UNCHANGED sightingVars
      PROVE  [SightingNext]_<<phase, sightingVars>>
  BY <1>2 DEF Passes, SightingNext, OtherThanSightings
<1>3. CASE ScoutEvent
  BY <1>2, <1>3 DEF ScoutEvent, OnlyScout
<1>4. CASE UpgradeEvent
  BY <1>2, <1>4 DEF UpgradeEvent, OnlyUpgrades
<1>5. CASE DefenceEvent
  BY <1>2, <1>5 DEF DefenceEvent, OnlyDefence
<1>6. CASE ScoutSteps
  BY <1>6 DEF ScoutSteps, ScoutStep, SightingNext, OtherThanSightings
<1>7. CASE UNCHANGED vars
  BY <1>7 DEF vars
<1>8. QED
  BY <1>1, <1>3, <1>4, <1>5, <1>6, <1>7, OneAgentActs

LEMMA UpgradeStepMaps == [Next]_vars => [UpgradeNext]_<<phase, upgradeVars>>
<1>1. CASE UpgradeEvent
  BY <1>1 DEF UpgradeEvent, UpgradeNext
<1>2. ASSUME Passes, UNCHANGED upgradeVars
      PROVE  [UpgradeNext]_<<phase, upgradeVars>>
  BY <1>2 DEF Passes, UpgradeNext, OtherThanUpgrades
<1>3. CASE ScoutEvent
  BY <1>2, <1>3 DEF ScoutEvent, OnlyScout
<1>4. CASE RecordEvent
  BY <1>2, <1>4 DEF RecordEvent, OnlyRecord
<1>5. CASE DefenceEvent
  BY <1>2, <1>5 DEF DefenceEvent, OnlyDefence
<1>6. CASE ScoutSteps
  BY <1>6 DEF ScoutSteps, UpgradeNext
<1>7. CASE UNCHANGED vars
  BY <1>7 DEF vars
<1>8. QED
  BY <1>1, <1>3, <1>4, <1>5, <1>6, <1>7, OneAgentActs

LEMMA DefenceStepMaps == [Next]_vars => [DefenceNext]_<<phase, defenceVars>>
<1>0. Phases = 1..7
  BY DEF Phases
<1>1. CASE DefenceEvent
  BY <1>1 DEF DefenceEvent, DefenceNext
<1>2. ASSUME \E k \in Phases \ {Defending} : Event(k), UNCHANGED defenceVars
      PROVE  DefenceNext
  BY <1>2 DEF DefenceNext, OtherThanDefence
<1>3. CASE ScoutEvent
  <2>1. \E k \in Phases \ {Defending} : Event(k)
    BY <1>0, <1>3
    DEF ScoutEvent, ScoutTrained, ScoutDropped, ScoutDestroyed, ScoutCreated, ScoutIdle
  <2>2. QED
    BY <1>2, <1>3, <2>1 DEF ScoutEvent, OnlyScout
<1>4. CASE RecordEvent
  <2>1. UNCHANGED phase \/ \E k \in Phases \ {Defending} : Event(k)
    BY <1>0, <1>4 DEF RecordEvent, Tick, UnitSighted, BuildingSighted, Enters
  <2>2. QED
    BY <1>2, <1>4, <2>1 DEF RecordEvent, OnlyRecord
<1>5. CASE UpgradeEvent
  <2>1. \E k \in Phases \ {Defending} : Event(k)
    BY <1>0, <1>5
    DEF UpgradeEvent, LabPlaced, LabCompleted, LabDestroyed, LabIdle,
        InfantryUpgraded, ShipsUpgraded
  <2>2. QED
    BY <1>2, <1>5, <2>1 DEF UpgradeEvent, OnlyUpgrades
<1>6. CASE ScoutSteps
  BY <1>6 DEF ScoutSteps, ScoutStep, DefenceNext, OtherThanDefence
<1>7. CASE UNCHANGED vars
  BY <1>7 DEF vars
<1>8. QED
  BY <1>1, <1>3, <1>4, <1>5, <1>6, <1>7, OneAgentActs

------------------------------------------------------------------------------
(* The theorems about an agent are theorems about the bot                    *)

LEMMA BotRunsScouts == Spec => ScoutSpec
<1>1. Init => ScoutInit
  BY DEF Init
<1>2. QED
  BY <1>1, ScoutStepMaps, PTL DEF Spec, ScoutSpec

LEMMA BotRecordsSightings == Spec => SightingSpec
<1>1. Init => SightingInit
  BY DEF Init
<1>2. QED
  BY <1>1, SightingStepMaps, PTL DEF Spec, SightingSpec

LEMMA BotAsksUpgrades == Spec => UpgradeSpec
<1>1. Init => UpgradeInit
  BY DEF Init
<1>2. QED
  BY <1>1, UpgradeStepMaps, PTL DEF Spec, UpgradeSpec

LEMMA BotRunsDefence == Spec => DefenceSpec
<1>1. Init => DefenceInit
  BY DEF Init
<1>2. QED
  BY <1>1, DefenceStepMaps, PTL DEF Spec, DefenceSpec

------------------------------------------------------------------------------
(* Turrets                                                                   *)

\* While the scout agent waits, nothing happens: there is one thread.
LEMMA WaitingIsTheEnd == waiting /\ [Next]_vars => waiting'
<1>1. waiting => ~ScoutEvent
  BY DEF ScoutEvent, ScoutTrained, ScoutDropped, ScoutDestroyed, ScoutCreated, ScoutIdle
<1>2. waiting => ~RecordEvent /\ ~UpgradeEvent /\ ~DefenceEvent
  BY DEF RecordEvent, UpgradeEvent, DefenceEvent
<1>3. waiting => ~ScoutSteps
  BY DEF ScoutSteps, ScoutStep
<1>4. UNCHANGED vars => waiting' = waiting
  BY DEF vars, scoutVars
<1>5. QED
  BY <1>1, <1>2, <1>3, <1>4, OneAgentActs

\* The step() of the defence agent serves every base once a bay stands.
LEMMA StepServesAll ==
    ASSUME DefenceSteps, BayStands, NEW b
    PROVE  b \notin base_needs_defence'
BY DEF DefenceSteps, DefenceStep, Turrets

\* Where an engineering bay stands from some time on, each base is served, if
\* step() gets past its pause again and again for as long as the scout agent
\* does not stop the bot.
THEOREM TurretsComeWhenServed ==
    Spec /\ ([]<><<DefenceSteps>>_vars \/ <>waiting) => TurretsComing
<1>1. SUFFICES ASSUME NEW b \in Base
               PROVE  Spec /\ ([]<><<DefenceSteps>>_vars \/ <>waiting)
                        => (<>[]BayStands => (b \in base_needs_defence
                                ~> b \notin base_needs_defence \/ waiting))
  BY DEF TurretsComing
<1>2. <<DefenceSteps>>_vars /\ BayStands => (b \notin base_needs_defence)'
  BY StepServesAll
<1>3. QED
  BY <1>2, WaitingIsTheEnd, PTL DEF Spec

==============================================================================
