------------------------------ MODULE Upgrades ------------------------------
(***************************************************************************)
(* The upgrade trees of the defence agent: which level of upgrades it asks *)
(* the resource agent for, when an engineering bay or an armory is idle    *)
(* (unitIdle) and when a level is reached (upgradeCompleted).  A task      *)
(* names the structure that shall do the research, and is lost with it.    *)
(*                                                                         *)
(* Of the upgrades of a structure the ones that lead to the next level are *)
(* modelled (infantry armor, ship weapons); the others are asked for       *)
(* together with them.  The level after the third stands for hi-sec auto   *)
(* tracking.                                                               *)
(*                                                                         *)
(* Nothing keeps the bot to one structure of a kind: unitDestroyed orders  *)
(* another for each one that is destroyed, an enemy's included, whether or *)
(* not one of its own stands (hasArmoury is never set).                    *)
(***************************************************************************)
EXTENDS GameLoop

CONSTANTS
    Bay, Armory  \* engineering bays and armories; a bound on how many there
                 \* are of each at the same time

ASSUME UpgradeAssumption == Bay \cap Armory = {}

Lab == Bay \union Armory
Levels == 1..4

\* The structures of the same kind.
Alike(l) == IF l \in Armory THEN Armory ELSE Bay

VARIABLES
    lab,       \* of each structure: "none", "building" or "standing"
    infantry,  \* number of infantryUpgradePhaseComplete flags set
    sAndV,     \* number of sAndVUpgradePhaseComplete flags set
    asked_of,  \* levels asked of each structure that exists, or was lost in
               \* this loop
    seen_idle  \* history: those of which unitIdle was called since the last
               \* of their kind was lost

upgradeVars == <<lab, infantry, sAndV, asked_of, seen_idle>>

UpgradeInit ==
    /\ FirstPhase
    /\ lab = [l \in Lab |-> "none"]
    /\ infantry = 0 /\ sAndV = 0
    /\ asked_of = [l \in Lab |-> {}]
    /\ seen_idle = {}

\* An SCV begins to build what the agent's BUILD task asked for.
LabPlaced(l) ==
    /\ Event(Creating)
    /\ lab[l] = "none"
    /\ lab' = [lab EXCEPT ![l] = "building"]
    /\ asked_of' = [asked_of EXCEPT ![l] = {}]
    /\ UNCHANGED <<infantry, sAndV, seen_idle>>

\* The client reports it as idle later in the same loop.
LabCompleted(l) ==
    /\ Event(Completing)
    /\ lab[l] = "building"
    /\ lab' = [lab EXCEPT ![l] = "standing"]
    /\ UNCHANGED <<infantry, sAndV, asked_of, seen_idle>>

\* It is lost.  The observation that tells so may tell as well of an upgrade it
\* had finished, which comes later in the loop.
LabDestroyed(l) ==
    /\ Event(Destroying)
    /\ lab[l] # "none"
    /\ lab' = [lab EXCEPT ![l] = "none"]
    /\ seen_idle' = seen_idle \ Alike(l)
    /\ UNCHANGED <<infantry, sAndV, asked_of>>

\* The tasks that name it are lost with it.
EndOfLoop ==
    /\ LastCall
    /\ asked_of' = [l \in Lab |-> IF lab[l] = "none" THEN {} ELSE asked_of[l]]
    /\ UNCHANGED <<lab, infantry, sAndV, seen_idle>>

Ask(l, levels) == asked_of' = [asked_of EXCEPT ![l] = @ \union levels]

\* Mutant of Tree: the armory has a fourth level.
TreeOfBay(l) == 1..(sAndV + 1)

\* unitIdle: the tree of a structure, as far as it is open.  Both kinds look at
\* the flags of ships and vehicles.
Tree(l) == IF l \in Armory /\ sAndV = 3 THEN 1..3 ELSE 1..(sAndV + 1)

LabIdle(l) ==
    /\ Event(Idling)
    /\ lab[l] = "standing"
    /\ Ask(l, Tree(l))
    /\ seen_idle' = seen_idle \union {l}
    /\ UNCHANGED <<lab, infantry, sAndV>>

\* The first structure of the kind that GetUnits() returns is asked, be it under
\* construction or not the one that has just become free.
AskFront(kind, n) ==
    LET there == {l \in kind : lab[l] # "none"}
    IN  IF there = {} THEN UNCHANGED asked_of ELSE \E l \in there : Ask(l, {n})

\* A structure of the kind that was asked for the level may have reached it.
Reached(kind, n) == \E l \in kind : lab[l] # "building" /\ n \in asked_of[l]

\* upgradeCompleted for infantry armor, which a bay was asked for.
InfantryUpgraded ==
    /\ Event(Upgrading)
    /\ infantry < 3
    /\ Reached(Bay, infantry + 1)
    /\ infantry' = infantry + 1
    /\ AskFront(Bay, infantry + 2)
    /\ UNCHANGED <<lab, sAndV, seen_idle>>

\* Mutant of ShipsUpgraded: the next level is left to the idle event.
ShipsUpgradedOnly ==
    /\ Event(Upgrading)
    /\ sAndV < 3
    /\ Reached(Armory, sAndV + 1)
    /\ sAndV' = sAndV + 1
    /\ UNCHANGED <<lab, infantry, asked_of, seen_idle>>

\* upgradeCompleted for ship weapons, which an armory was asked for.
ShipsUpgraded ==
    /\ Event(Upgrading)
    /\ sAndV < 3
    /\ Reached(Armory, sAndV + 1)
    /\ sAndV' = sAndV + 1
    /\ IF sAndV < 2 THEN AskFront(Armory, sAndV + 2) ELSE UNCHANGED asked_of
    /\ UNCHANGED <<lab, infantry, seen_idle>>

OtherThanUpgrades == (\E k \in Phases : Event(k)) /\ UNCHANGED upgradeVars

UpgradeNext ==
    \/ \E l \in Lab : LabPlaced(l) \/ LabCompleted(l) \/ LabDestroyed(l) \/ LabIdle(l)
    \/ InfantryUpgraded \/ ShipsUpgraded
    \/ EndOfLoop
    \/ OtherThanUpgrades

UpgradeSpec == UpgradeInit /\ [][UpgradeNext]_<<phase, upgradeVars>>

------------------------------------------------------------------------------
(* Properties                                                                *)

\* Types: three phases of each kind, and no armory is asked for a fourth.
UpgradeTypeOK ==
    /\ phase \in Phases
    /\ lab \in [Lab -> {"none", "building", "standing"}]
    /\ infantry \in 0..3 /\ sAndV \in 0..3
    /\ asked_of \in [Lab -> SUBSET Levels]
    /\ \A l \in Armory : asked_of[l] \subseteq 1..3
    /\ seen_idle \subseteq {l \in Lab : lab[l] = "standing"}

\* "while we order some upgrades in here we also check in unitIdle() incase a
\* unit has been destroyed that way we can still get them" (DEFENCE_BOT.cpp:414).
\* Once one of a kind has become idle after the last loss, each level that is
\* open has been asked of one that still exists, whatever was reached with the
\* structures before it.
StillAsked(kind, reached, last) ==
    seen_idle \cap kind # {} =>
        \A n \in 1..last : n <= reached + 1 =>
            \E l \in kind : lab[l] # "none" /\ n \in asked_of[l]

\* It holds of the armories, although each level is asked of just one of them.
ArmoryStillAsked == StillAsked(Armory, sAndV, 3)

\* And of the engineering bays, if the comment is right.
BayStillAsked == StillAsked(Bay, infantry, 4)

==============================================================================
