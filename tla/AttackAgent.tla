----------------------------- MODULE AttackAgent -----------------------------
(***************************************************************************)
(* ATTACK_BOT and its TroopManager.  An idle unit of the army is queued    *)
(* with a place to attack; step() empties the queue, collects the units by *)
(* how they move and sends them off when there are enough.  What structures*)
(* are to train or build goes through the same queue to the resource       *)
(* agent.                                                                  *)
(*                                                                         *)
(* Unlike the resource agent's, this queue is emptied at every game loop,  *)
(* except when step() returns from the middle of its loop.  Equal tasks    *)
(* may be queued more than once: queue gives the number of each.           *)
(*                                                                         *)
(* The two lists of places matter by their lengths: step() and unitIdle    *)
(* take back() of them.                                                    *)
(***************************************************************************)
EXTENDS TaskQueue, FiniteSets

CONSTANTS
    Ground, Air, Support,  \* units, as step() tells them apart
    Starts,                \* number of enemy_start_locations
    MaxPlaces,             \* bound: buildings or sightings found at once
    MaxMinutes,            \* bound: minutes played
    MaxCopies              \* bound: equal tasks in the queue

Army == Ground \union Air
Unit == Army \union Support

ASSUME AttackAssumption ==
    /\ IsFiniteSet(Ground) /\ IsFiniteSet(Air) /\ IsFiniteSet(Support)
    /\ Ground \cap Air = {} /\ Army \cap Support = {}
    /\ Starts \in Nat \ {0}  \* there is an enemy, and it starts somewhere
    /\ MaxPlaces \in Nat \ {0}
    /\ MaxMinutes \in Nat
    /\ MaxCopies \in Nat \ {0}

VARIABLES
    possible,   \* size of possible_enemy_locations
    known,      \* size of enemy_locations
    fault,      \* back() was called on an empty vector
    queue,      \* task_queue: of each task, how many
    ground_units, air_units, support_units,
    minutes,    \* GetGameLoop() / 16 / 60
    order,      \* per unit, what it does in the game
    phase       \* "events", or "drain": inside the loop of step()

places == <<possible, known, fault>>
squad == <<ground_units, air_units, support_units>>
vars == <<places, queue, squad, minutes, order, phase>>

\* The tasks of this queue.  All TRAIN tasks of a kind are forwarded alike.
AttackTask == [action : {"ATTACK"}, source : {"ATTACK_AGENT"}, priority : {6},
               unit : Unit, ability : {"ATTACK_ATTACK", "MOVE_MOVE"}]
TrainTask == [action : {"TRAIN"}, source : {"ATTACK_AGENT"}, priority : 5..8,
              what : {"addon", "troop"}]
Task == AttackTask \union TrainTask

Attack(u, a) == [action |-> "ATTACK", source |-> "ATTACK_AGENT", priority |-> 6,
                 unit |-> u, ability |-> a]

Train(w, p) == [action |-> "TRAIN", source |-> "ATTACK_AGENT", priority |-> p,
                what |-> w]

\* "idle": it has no orders; "engaged": ordered against enemies near to it.
Orders == {"unborn", "idle", "ATTACK_ATTACK", "MOVE_MOVE", "engaged", "dead"}
Living(u) == order[u] \notin {"unborn", "dead"}

Init ==
    /\ possible = Starts
    /\ known = 0
    /\ fault = FALSE
    /\ queue = [t \in Task |-> 0]
    /\ ground_units = {} /\ air_units = {} /\ support_units = {}
    /\ minutes = 0
    /\ order = [u \in Unit |-> "unborn"]
    /\ phase = "events"

------------------------------------------------------------------------------
(* The game.                                                                 *)

\* Another minute has passed.
Minute ==
    /\ phase = "events"
    /\ minutes < MaxMinutes
    /\ minutes' = minutes + 1
    /\ UNCHANGED <<places, queue, squad, order, phase>>

\* A unit dies.  unitDestroyed takes it out of the agent's list of units, which
\* nothing reads; the squads keep it.
Die(u) ==
    /\ phase = "events"
    /\ Living(u)
    /\ order' = [order EXCEPT ![u] = "dead"]
    /\ UNCHANGED <<places, queue, squad, minutes, phase>>

------------------------------------------------------------------------------
(* TroopManager                                                              *)

Lists == [possible |-> possible, known |-> known]

\* updateEnemyLocations: places to look at come from the buildings that are
\* seen or else from the start locations, places to attack from the sightings
\* of the scout agent or else from the places to look at.
Update(s) ==
    LET refilled == IF s.possible = 0 THEN {Starts} \union 1..MaxPlaces
                                      ELSE {s.possible}
    IN  IF s.known = 0
        THEN [possible : {p - 1 : p \in refilled}, known : 1..MaxPlaces]
        ELSE [possible : refilled, known : {s.known}]

\* mark_location_visited: the place is taken off when no enemy is seen near it.
Visited(s) == {s, [s EXCEPT !.known = IF @ = 0 THEN 0 ELSE @ - 1]}

\* Mutant of ForSupport: the place of the unit before is good enough.
ForSupportAgain(s) == {s}

\* What unitIdle does for support units, and after its case for the army falls
\* through, for those as well.
ForSupport(s) == Update(s)

\* A unit has no orders any more, or has just been produced.
BecomesIdle(u) ==
    /\ order[u] \notin {"idle", "dead"}
    /\ order' = [order EXCEPT ![u] = "idle"]

Keep(s) == possible' = s.possible /\ known' = s.known

\* unitIdle for a unit of the army: one task to attack, one to move.
ArmyIdle(u) ==
    /\ phase = "events"
    /\ BecomesIdle(u)
    /\ queue[Attack(u, "ATTACK_ATTACK")] < MaxCopies
    /\ queue[Attack(u, "MOVE_MOVE")] < MaxCopies
    /\ \E s1 \in Update(Lists) : \E s2 \in Visited(s1) : \E s3 \in ForSupport(s2) :
          /\ Keep(s3)
          /\ fault' = (fault \/ s1.known = 0 \/ s3.known = 0)
    /\ queue' = [queue EXCEPT ![Attack(u, "ATTACK_ATTACK")] = @ + 1,
                              ![Attack(u, "MOVE_MOVE")] = @ + 1]
    /\ UNCHANGED <<squad, minutes, phase>>

\* unitIdle for a support unit.
SupportIdle(u) ==
    /\ phase = "events"
    /\ BecomesIdle(u)
    /\ queue[Attack(u, "MOVE_MOVE")] < MaxCopies
    /\ \E s \in ForSupport(Lists) :
          /\ Keep(s)
          /\ fault' = (fault \/ s.known = 0)
    /\ queue' = [queue EXCEPT ![Attack(u, "MOVE_MOVE")] = @ + 1]
    /\ UNCHANGED <<squad, minutes, phase>>

\* Mutant of AddonPriority: production is asked for after the attacks.
AddonPriorityLow == {5}

\* The priorities of tasks for add-ons, which a structure without one pushes
\* first of all.
AddonPriority == {7, 8}

\* unitIdle for a structure: the add-on it lacks, a banshee (priority 7) and
\* other units, if there are too few of them.
ProducerIdle ==
    /\ phase = "events"
    /\ \E addons \in {{}} \union {{Train("addon", p)} : p \in AddonPriority} :
       \E troops \in SUBSET {Train("troop", 6), Train("troop", 7)} :
         LET pushed == addons \union troops
         IN  /\ \A t \in pushed : queue[t] < MaxCopies
             /\ queue' = [t \in Task |-> IF t \in pushed THEN queue[t] + 1
                                                         ELSE queue[t]]
    /\ UNCHANGED <<places, squad, minutes, order, phase>>

------------------------------------------------------------------------------
(* step()                                                                    *)

\* evaluateUnits and the attack of units that stand in a group: any of ours may
\* get an order against enemies near to it.
StepBegin ==
    /\ phase = "events"
    /\ \E engaged \in SUBSET {u \in Unit : Living(u)} :
          order' = [u \in Unit |-> IF u \in engaged THEN "engaged" ELSE order[u]]
    /\ phase' = "drain"
    /\ UNCHANGED <<places, queue, squad, minutes>>

\* task_queue.pop()
Pop(t) ==
    /\ phase = "drain"
    /\ t \in Tops({w \in Task : queue[w] > 0})
    /\ queue' = [queue EXCEPT ![t] = @ - 1]
    /\ UNCHANGED <<places, minutes>>

\* TRAIN: the resource agent takes over.
Forward(t) ==
    /\ t.action = "TRAIN"
    /\ Pop(t)
    /\ UNCHANGED <<squad, order, phase>>

\* Mutant of Joined: the unit is not classified.
JoinedUnclassified(list, u, kind) == list \union {u}

\* A list of units after u has joined it, if it is of that kind.
Joined(list, u, kind) == list \union ({u} \cap kind)

\* getSquadronSize: an int, so 2.5 units per minute are rounded down.
SquadronSize == IF 5 * minutes > 100 THEN 50 ELSE (5 * minutes) \div 2

Enough(u) == Cardinality(Joined(ground_units, u, Ground))
                 + Cardinality(Joined(air_units, u, Air)) >= SquadronSize

\* ATTACK: the unit joins others of its kind.  It may be dead by now.
Join(t) ==
    /\ t.action = "ATTACK"
    /\ Pop(t)
    /\ air_units' = Joined(air_units, t.unit, Air)
    /\ support_units' = Joined(support_units, t.unit, Support)

\* They are too few to form a squadron.
Wait(t) ==
    /\ Join(t)
    /\ ~Enough(t.unit)
    /\ ground_units' = Joined(ground_units, t.unit, Ground)
    /\ UNCHANGED <<order, phase>>

\* Mutant of Squadron: the ground units are cleared before they are commanded.
SquadronCleared(ground, air) == air

\* Whom the task's ability is commanded to.
Squadron(ground, air) == ground \union air

\* All are commanded, and units of the air stay for the next squadron.
\* allAlive works on copies of the lists, so the dead are not removed; a command
\* does nothing to them.
SetOff(t) ==
    /\ Join(t)
    /\ Enough(t.unit)
    /\ LET ground == Joined(ground_units, t.unit, Ground)
       IN  /\ ground # {}
           /\ order' = [u \in Unit |->
                  CASE ~Living(u) -> order[u]
                    [] Living(u) /\ u \in Squadron(ground, air_units') -> t.ability
                    [] Living(u) /\ u \in support_units' -> "MOVE_MOVE"
                    [] OTHER -> order[u]]
    /\ ground_units' = {}
    /\ UNCHANGED phase

\* Without a ground unit there is no slowest unit, and step() returns.
TurnBack(t) ==
    /\ Join(t)
    /\ Enough(t.unit)
    /\ Joined(ground_units, t.unit, Ground) = {}
    /\ ground_units' = {}
    /\ phase' = "events"
    /\ UNCHANGED order

Iterate == \E t \in Task : Forward(t) \/ Wait(t) \/ SetOff(t) \/ TurnBack(t)

StepEnd ==
    /\ phase = "drain"
    /\ \A t \in Task : queue[t] = 0
    /\ phase' = "events"
    /\ UNCHANGED <<places, queue, squad, minutes, order>>

Next ==
    \/ Minute
    \/ \E u \in Unit : Die(u)
    \/ \E u \in Army : ArmyIdle(u)
    \/ \E u \in Support : SupportIdle(u)
    \/ ProducerIdle
    \/ StepBegin
    \/ Iterate
    \/ StepEnd

Spec == Init /\ [][Next]_vars

------------------------------------------------------------------------------
(* Properties                                                                *)

\* Types: each list holds units of its kind, each order is one of Orders, and
\* the numbers are counts.
TypeOK ==
    /\ possible \in Nat /\ known \in Nat /\ fault \in BOOLEAN
    /\ queue \in [Task -> Nat]
    /\ ground_units \subseteq Ground
    /\ air_units \subseteq Air
    /\ support_units \subseteq Support
    /\ minutes \in Nat
    /\ order \in [Unit -> Orders]
    /\ phase \in {"events", "drain"}

\* TroopManager::unitIdle takes back() of the places to attack, and the case for
\* the army, which may have taken the last one off, goes on into the one for
\* support units.  There always is one: back() is never called on an empty
\* vector.
PlaceToAttack == ~fault

\* A unit of the army with nothing to do is waiting for a squadron or will be
\* added to one: it becomes idle once, and if step() let go of it without an
\* order it would stand where it is for the rest of the game.
Waiting(u) == \/ u \in ground_units \union air_units
              \/ \E a \in {"ATTACK_ATTACK", "MOVE_MOVE"} : queue[Attack(u, a)] > 0

NoOneForgotten == \A u \in Army : order[u] = "idle" => Waiting(u)

\* step() may return and leave tasks in the queue, but none for an add-on:
\* whatever becomes of squadrons, structures get theirs.
AddonsFirst ==
    [][phase = "drain" /\ phase' = "events" =>
          \A t \in TrainTask : t.what = "addon" => queue'[t] = 0]_vars

\* TroopManager.hpp:128: "Support Units don't attack, so gotta give them a
\* different ABILITY_ID", MOVE_MOVE, that is.  So the units that do attack are
\* never told to move to where the enemy is without attacking.
ArmyAttacks == \A u \in Army : order[u] # "MOVE_MOVE"

==============================================================================
