------------------------------- MODULE TF_Bot -------------------------------
(***************************************************************************)
(* TF_Bot hands each event of the game to every agent, on the one thread   *)
(* they share: while the scout agent waits in addUnit, none of them does   *)
(* anything.  Composed are the scout agent with its record of sightings    *)
(* and the defence agent with its upgrade trees; the resource agent and    *)
(* the attack agent, which have modules of their own, are the environment. *)
(***************************************************************************)
EXTENDS ScoutAgent, Sightings, Upgrades, DefenceAgent

vars == <<phase, scoutVars, sightingVars, upgradeVars, defenceVars>>

Init == ScoutInit /\ SightingInit /\ UpgradeInit /\ DefenceInit

\* Who is not concerned by an event returns from its handler at once.
OnlyScout    == UNCHANGED <<sightingVars, upgradeVars, defenceVars>>
OnlyRecord   == UNCHANGED <<scoutVars, upgradeVars, defenceVars>>
OnlyUpgrades == UNCHANGED <<scoutVars, sightingVars, defenceVars>>
OnlyDefence  == UNCHANGED <<scoutVars, sightingVars, upgradeVars>>

\* The thread is not waiting, and the idle events have been issued that come
\* before all later calls.
Running == ~waiting /\ fresh = {}

OnUnitDestroyed ==
    \/ \E u \in Scv : ScoutDestroyed(u) /\ OnlyScout
    \/ /\ Running
       /\ \/ \E l \in Lab : LabDestroyed(l) /\ OnlyUpgrades
          \/ \E k \in Producer : ProducerDestroyed(k) /\ OnlyDefence
          \/ \E t \in Troop : TroopLost(t) /\ OnlyDefence

OnUnitCreated ==
    \/ \E u \in Scv : ScoutCreated(u) /\ OnlyScout
    \/ \E l \in Lab : ~waiting /\ LabPlaced(l) /\ OnlyUpgrades

OnUnitEnterVision ==
    /\ ~waiting
    /\ \E p \in Place : BuildingSighted(p) \/ UnitSighted(p)
    /\ OnlyRecord

OnBuildingConstructionComplete ==
    /\ ~waiting
    /\ \/ \E l \in Lab : LabCompleted(l) /\ OnlyUpgrades
       \/ \E k \in Producer : ProducerCompleted(k) /\ OnlyDefence
       \/ \E b \in Base : BaseCompleted(b) /\ OnlyDefence

OnUnitIdle ==
    \/ \E u \in Scv : ScoutIdle(u) /\ OnlyScout
    \/ \E l \in Lab : ~waiting /\ LabIdle(l) /\ OnlyUpgrades

OnUpgradeCompleted ==
    /\ Running
    /\ InfantryUpgraded \/ ShipsUpgraded
    /\ OnlyUpgrades

\* check_for_engineering_bay
BayStands == \E l \in Bay : lab[l] = "standing"

\* OnStep calls the agents' step() in this order; the attack agent's, between
\* the first two, concerns none of the agents modelled here.
ResourceSteps == (ScoutTrained \/ ScoutDropped) /\ OnlyScout

DefenceSteps == Running /\ DefenceStep(BayStands) /\ OnlyDefence

DefencePauses == Running /\ DefencePause /\ OnlyDefence

ScoutSteps ==
    /\ ScoutStep /\ EndOfLoop
    /\ UNCHANGED <<sightingVars, defenceVars>>

\* Time passes between one observation and the next.
TimePasses ==
    /\ Running
    /\ (Tick /\ OnlyRecord) \/ (Elapse /\ OnlyDefence)

Next ==
    \/ TimePasses
    \/ OnUnitDestroyed \/ OnUnitCreated \/ OnUnitEnterVision
    \/ OnBuildingConstructionComplete \/ OnUnitIdle \/ OnUpgradeCompleted
    \/ ResourceSteps \/ DefenceSteps \/ DefencePauses \/ ScoutSteps

\* The client issues the idle event of a new unit and comes to the end of each
\* loop; one loop in four is none in which the defence agent pauses.
Fairness ==
    /\ WF_vars(\E u \in fresh : ScoutIdle(u) /\ OnlyScout)
    /\ WF_vars(ScoutSteps)
    /\ SF_vars(DefenceSteps)

Spec == Init /\ [][Next]_vars

LiveSpec == Spec /\ Fairness

------------------------------------------------------------------------------
(* Properties                                                                *)

\* The list of bases that need turrets is looked at only when there is an
\* engineering bay.  If one stands from some time on, each base is served, those
\* completed long before included, unless the scout agent stops the bot.
TurretsComing ==
    <>[]BayStands =>
        \A b \in Base : b \in base_needs_defence
                            ~> b \notin base_needs_defence \/ waiting

==============================================================================
