# TFBot, a StarCraft II bot: TLA+ specifications

TFBot plays StarCraft II as Terran.  Its own code is about 5,100 lines of C++ in
`src/*.cpp`, `src/*.hpp` and `src/*.h`; the API to the game (`src/cpp-sc2`) and the SQLite
amalgamation are vendored.  There are no tests.  Everything the bot knows comes from an
observation that the API refreshes once per game loop, everything it does is a command sent
to the game, and between the two four agents talk to each other through a priority queue of
tasks.  What can go wrong is in the gap: a command does not show in the observation before
the next game loop, may be rejected, may be overtaken by the death of its unit, and the
agents keep lists about units and orders that only events correct.

Contents: [inventory](#inventory) · [plan](#plan) · [the core](#the-core-resourceagent) ·
[bases](#bases-basemanager) · [squadrons](#squadrons-attackagent) ·
[the bot](#the-bot-tf_bot) · [runs](#runs) · [bounds](#bounds) · [fairness](#fairness) · [proofs](#proofs) ·
[disagreements found](#disagreements-found) · [not modelled](#what-is-not-modelled).

## Inventory

The bot is one thread.  `CoordinatorImp::StepAgents` advances the game, waits for the
observation and calls `IssueEvents`: destroyed, created, building complete, idle, upgrade
(in this order), then `OnStep`.  `TF_Bot` passes each event to all agents in a fixed order
(`unitDestroyed`: resource, defence, attack, scout; `unitCreated`, `unitIdle`: resource,
attack, defence, scout) and `OnStep` calls the four `step()`s (resource, attack, defence,
scout).

| component | state | operations | talks to | correct when |
|---|---|---|---|---|
| Task queue (`Task.hpp`, `threadsafe_priority_queue.h`) | a heap of tasks | push, pop, empty | all agents push into the resource agent's | strict order of `Task::operator<` |
| Resource agent (`RESOURCE_BOT`) | `task_queue`, `units`, `ordered_units` | `step` (drain the queue within the budget), `unitCreated`, `unitDestroyed`, `addTask`, `addUnit` | base manager, placement, all agents' `addUnit` | spends what it has, no duplicate construction, repair crews bounded, nobody starves, every unit reaches who ordered it |
| Base manager (`BaseManager.hpp`) | `active_bases`, `isolated_bases`, `scv_count` | `step` every 4th loop, `addUnit`, `deleteUnit`, `unitIdle`, `getSCV`, `assign*` | pushes HARVEST, BUILD, REPAIR, TRAIN | a base is in one list, a command center is rebuilt, `scv_count` counts, SCVs keep being trained |
| Building placement | none but caches | `getNextLocation` | asks the game | a place is free when it is returned |
| Attack agent (`ATTACK_BOT`) | its queue, `units`, `ground_units`, `air_units`, `support_units` | `step`, `unitIdle`, `unitCreated` | resource agent (BUILD, TRAIN) | squads of live units attack when large enough |
| Troop manager (`TroopManager.hpp`) | `possible_enemy_locations`, `enemy_locations` | `unitIdle`, `updateEnemyLocations` | attack agent's queue, scout's sightings | there always is a place to attack; every place is tried |
| Defence agent (`DEFENCE_BOT`) | producers, round-robin indices, counts and caps, flags of what was ordered, bases without turrets, upgrade phases, defence points, bunkers | `step`, building complete, destroyed, idle, upgrade complete | resource agent (BUILD, TRAIN, UPGRADE) | what is read at an index was written, counts within caps, each base gets its turrets, open upgrades are asked for again |
| Scout agent (`SCOUT_BOT`) | its queue, `units`, sightings | `step`, `addUnit` (waits), `unitDestroyed`, `unitEnterVision`, `unitIdle`, `last_seen_near` | resource agent (TRAIN, BUILD), all agents' queries | `addUnit` does not wait for ever; as many scouts as ordered; sightings recorded where they were, queries in time |
| Event dispatch (`TF_Bot`) | none | fan-out | all agents | order above |
| SC2 API (vendored) | unit pool, connection | step, events, commands | the game | environment here |
| Statistics database, ladder entry point, `TS_Queue.hpp` | – | – | – | input and output, or unused |

What is hard about them, with the lines where it bites, is listed under `hazards` in
`PROJECT.json`: state read from an observation that does not show what was just commanded,
lists that only matching events correct, one step of several failing after the others were
recorded, tasks that are dropped or put back, totals in unsigned arithmetic, an event that
comes only once.

## Plan

The modules in the order of writing; all exist.

1. `TaskQueue` – the vocabulary and the order of the queue.
2. `ResourceAgent` – the drain of the queue, routing of units.  The core: every command the
   other agents want goes through it.
3. `OrderBook` – abstract specification of what an agent that orders units may rely on;
   `ResourceAgent` implements it.
4. `ResourceAgentProofs` – type correctness, safety, refinement, for all constants.
5. `BaseManager`, `BaseManagerProofs` – the two lists of bases, SCV count, requests for
   command centers.  `ListLemmas` holds what both proof modules need to know of `RemoveAt`.
6. `AttackAgent`, `AttackAgentProofs` – troop manager and squadrons, with deaths between the
   steps.
7. `GameLoop` – the order in which one game loop delivers events and calls the agents; the
   agents below share its variable `phase`.
8. `ScoutAgent`, `Sightings`, with their proofs – the scouts and the record of enemies seen.
9. `DefenceAgent`, `Upgrades`, with `DefenceAgentProofs` – orders and troops, upgrade trees.
10. `TF_Bot`, `TFBotProofs` – the composition of 8 and 9 on one thread.  That it implements
    each of its agents is so by the way it is composed and shows nothing about the code; it
    is used where agents meet: what the wait of one does to the progress of another.

`MCResourceAgent`, `MCResourceOrders`, `MCBaseManager` and `MCTFBot` instantiate them for TLC.

What could still be added, in the order of what it would show: the resource agent itself
inside `TF_Bot` instead of the few actions that stand for it; which SCV harvests where; the
bunkers and defence points of the defence agent.

## The core: ResourceAgent

`ResourceAgent.tla` is `RESOURCE_BOT` with the parts of `BaseManager`, `SCOUT_BOT` and
`TF_Bot` that it calls or that are called with it.

| variable | code |
|---|---|
| `queue` | `task_queue`; a set of task objects, equal tasks differ in `id` |
| `ordered_units` | `ordered_units`, oldest first |
| `roster[a]` | the lists `units` of the agents (`DEFENCE_BOT::addUnit` keeps none) |
| `avail` | the locals `available_food`, `available_minerals`, `available_vespene` |
| `obs`, `orders` | what `observation` returns: resources, supply, time, number of bases, which producers exist; the orders of each SCV |
| `issued` | orders commanded in this step, not yet visible in the observation |
| `nearest` | the SCV `getSCV` returns for a target in this step |
| `phase` | where the thread is: delivering events, in the loop of `step()`, after it |
| `born`, `dead`, `live` | the game: units so far, units in production |
| `bill` | history: what this step commanded so far |

Each case of the `switch` in `step()` is an operator (`DoBuild`, `DoTrain`, `DoRepair`,
`DoUpgrade`, `DoTransfer`, `DoCommand`); `Iterate` is one turn of the loop, so events never
come in the middle of it, but `Observe` and the events come between any two steps, as often
as they like: game loops in which `step()` returns early look the same.  `AddTask` is
`addTask` called by any agent during the events; the set `Task` says what they push.

A task is a record of what the loop looks at.  A HARVEST or scouting task has any `source`,
because its constructor leaves that member unset and `operator<` reads it.  Subtraction is that of
`uint32_t`, modulo `UIntMod`.  Which SCV `getSCV` returns depends on positions, and is any of
those it may return; for one target it is the same within a step as long as the candidates
are, because it is a function of its arguments – `RepairCrew` depends on it.  `buildStructure`
can fail for want of a place, whatever the state (`Construct(t) \/ Drop(t)`).

TRANSFER and MOVE tasks are modelled because `step()` handles them; at this commit no agent
constructs one.  The runs include TRANSFER where the properties hold with it; `OneOwner` and
what rests on it does not (`it` compares tags with `t.self`, which is -1 for "any SCV").

## Bases: BaseManager

| variable | code |
|---|---|
| `active`, `isolated` | `active_bases` (command and `transfer` of each base), `isolated_bases` |
| `scv_count` | `scv_count` |
| `requests` | BUILD tasks for a command center in the resource agent's queue; they are all alike |
| `phase`, `at`, `upTo`, `stale` | `step()`: the loop it is in, the slot its range-based `for` is at, the end it computed first, what `erase` left behind the vector |
| `status`, `field`, `builder`, `scvs` | the game: command centers, what is left around each, the SCV with the order to build one, living SCVs that `addUnit` was told of |

`WithBase`/`Start`/`Create` are `addUnit`, `Forget`/`Destroy` `deleteUnit`, `Visit` one turn of
the loop over the active bases, `StepEnd` the loop over the isolated ones (which changes
nothing but may return) and the decision to ask for a command center.  `Serve` is what the resource agent does
with such a task, seen from here; `ResourceAgent` has it in detail, and its `OneConstruction`
is why there is one `builder`.

What `findResources` finds (`Found`) is what is left, or less around a center that has just
been built (`status` is "new"), since "not all resources are in vision" then
(`BaseManager.hpp:131-134`, `177`).  Therefore the code looks at `ideal_harvesters` as well
(`Many`), but only after `startTransfer` has set the flag (`Flagged`): a base with many
minerals of which some are not seen asks for no center, not now and, the flag being set, not
later (line 178); and if none is seen it goes on to `depleted()` and is given up in the same
visit (line 184).  `Deal` has these cases.  So a new base may be isolated although it is rich,
and `IsolatedDepleted` speaks of bases whose surroundings are in view.

The erase inside the loop is undefined behaviour.  The model has the outcome of a release
build: elements move down by one, the slot behind the vector keeps the tag and the flag of
what was moved out of it, its two resource lists are empty and are filled anew by
`findResources` before they are read.  A slot is visited in that state only if it was moved
from, never after it was destroyed without: erasing the last element leaves its slot at or
before the one the loop is at.  A build with checked iterators stops the program instead.

## Squadrons: AttackAgent

| variable | code |
|---|---|
| `possible`, `known` | sizes of `possible_enemy_locations` and `enemy_locations` |
| `fault` | history: `back()` was called on an empty vector |
| `queue` | the attack agent's `task_queue`: of each task, how many |
| `ground_units`, `air_units`, `support_units` | the three vectors; `IsNotInVector` makes them sets |
| `minutes` | the game loop, from which `getSquadronSize` is computed |
| `order` | the game: what each unit does |
| `phase` | delivering events, or in the loop of `step()` |

`ArmyIdle`, `SupportIdle` and `ProducerIdle` are `TroopManager::unitIdle`; the first goes through
two cases of its `switch`, as the code does.  One turn of the loop is `Forward` (the task goes
to the resource agent), `Wait`, `SetOff` or `TurnBack`, according to the branches of the case
ATTACK.  The loop's other cases are not reached: nobody but `TroopManager` pushes into this
queue, and it pushes TRAIN and ATTACK only.  `IsPositionValid` always says yes (it asks for a
coordinate both below and above the map), so its early return is not taken either.

A command is taken to be obeyed by a living unit until the game reports it idle, and idleness
is reported once, when it begins.  Vikings on the ground are left out: `unitIdle` does not know
their type, and what `evaluateUnits` does to vikings depends on distances.

## The bot: TF_Bot

`GameLoop` has one variable, `phase`: the kind of the last event or call.  `Event(k)` lets
events of kind `k` happen as long as none of a later kind did, in the order of
`ControlImp::IssueEvents`; `LastCall`, the scout agent's `step()`, ends the loop.  The agents'
handlers say at which phase they run, and what they do for an event that is not theirs
(`OtherThan…`).  `TF_Bot` names its actions after the handlers of the class.

| module | variable | code |
|---|---|---|
| `ScoutAgent` | `steps`, `ordered_scv`, `ordered_ccenter`, `units` | the members of these names |
| | `starts`, `points` | `task_queue`: start locations (priority 7) and the number of points of interest (priority 5) |
| | `asked`, `owed`, `dropped` | the scout agent's TRAIN tasks in the resource agent's queue, its entries in `ordered_units`, its tasks that were dropped |
| | `fresh`, `idled`, `born` | scouts created in this loop, those whose idle event was issued |
| | `waiting` | in the sleep loop of `addUnit` |
| `Sightings` | `clock`, `detection_record` | the game loop, `detection_record` |
| | `entered` | history: a building or another unit of the enemy entered vision, where and when |
| `DefenceAgent` | `size`, `written`, `last_used` | `factories`, `barracks`, `starports` and `last_…_used`; slots of their memory ever written |
| | `count`, `cap`, `multiplierCounter` | `tankCount`, `tankMaxCount` and the others |
| | `ordered`, `hasStarport` | the flags `ordered…`, `hasStarport` |
| | `bases`, `base_needs_defence`, `turrets` | the two lists, missile turrets asked for per base |
| `Upgrades` | `lab`, `infantry`, `sAndV` | each engineering bay (`Bay`) and armory (`Armory`) in the game, the flags `…UpgradePhase…Complete` |
| | `asked_of`, `seen_idle` | UPGRADE tasks that name the structure, whether `unitIdle` was called for it |

`addUnit` waits until the scout's queue is not empty.  Events and `step()` come on one
thread, so while it waits nothing happens, to any agent (`~waiting` is a conjunct of every
action of `TF_Bot`): that is why the runs do not look for deadlock.  A new SCV is idle in the
observation that tells of its creation – the command `addUnit` gave it does not show yet –
so `ScoutCreated` is followed by `ScoutIdle` in the same loop, and each takes a place off the
queue; `step()` puts back one.

`Sightings` keeps times in game loops and compares `LoopsPerSecond` times both sides of the
code's comparison: `record.time` is a `float`, exact for sixteenths of a second, and `now` is
an integer division.  The search for the nearest point of interest measures from
`nearest_point` itself, which is `poi[0]`, so it ends there at once; the comment above it says
otherwise, see [disagreement 6](#disagreements-found).

There may be several structures of a kind in `Upgrades`: `unitDestroyed` orders another armory
for every armory that is destroyed, whoever owned it and whether or not another stands, and
`hasArmoury` is never set (`DEFENCE_BOT.cpp:220-227`, `37`).  `unitIdle` asks the structure that
is idle for the levels that are open; `upgradeCompleted` asks only `front()` of what
`GetUnits` returns for the next one (`AskFront`: any that exists, as the order of that list is
the game's).  So an idle armory may stay without a task while another one is asked for all.
`ArmoryStillAsked` says what the code keeps: each open level has been asked of one that still
exists.

Of a vector of structures `DefenceAgent` keeps how many there are.  `last_…_used` is reduced
modulo the size after it was used, so after a loss it may point behind the end; what it reads
there is what `erase` or `clear` left, as long as the slot was written before.  That is
`IndexInMemory`; with an index that was never reduced, or a list that moves its memory, it
would read anything.  `multiplierCounter += 0.5` adds to an `int` and changes nothing, so
above 3000 minerals the caps grow by a half at every step.  A product that does not fit is
undefined; on x86-64 the conversion gives the smallest `int`, which is what `Doubled` has.
Battlecruisers are never ordered: the list of starports holds none of the type
`orderBattleCruiser` looks for, only the order for a fusion core comes of it.

## Runs

| run | question | states |
|---|---|---|
| `resource_drain` | does one step stay within what it observed (`WithinBudget`), send one SCV per type of structure (`OneConstruction`), and respect repair counts (`RepairCrew`)? | 1,432,082 |
| `resource_orders` | does each unit in production have its entry (`NoOrphan`), each living unit one owner (`OneOwner`), is `OrderBook` implemented (`KeepsBook`), and is what a loss in production leaves in the list never taken back (`StaleEntries`); does `step()` return (`StepEnds`), and are depots served although other tasks keep coming and each can end the step (`DepotServed`)? | 86,163 |
| `resource_supply_blocked` | is a task kept until it can be paid (`KeptUntilAffordable`)? No. | – |
| `resource_stale_entry` | does each entry wait for a unit in production (`EntriesInProduction`)? No. | – |
| `base_lists` | is no base lost (`NoBaseLost`), none active twice, in both lists or dead (`ActiveOnce`), none whose surroundings are in view given up while something is left (`IsolatedDepleted`), none counted on SCVs there are not (`NeverOvercounts`); is a depleted base moved (`DepletedMoved`), and a command center asked for after the last one (`AsksAgain`)? | 760,088 |
| `base_dead_entry` | is each destroyed center out of the lists (`DeadForgotten`)? No. | – |
| `base_fourth` | are there at most three bases while none runs dry (`ThreeBases`)? No. | – |
| `attack_squads` | is there always a place to attack (`PlaceToAttack`), does every idle unit of the army wait for a squadron (`NoOneForgotten`), and are add-ons asked for whatever `step()` returns from (`AddonsFirst`)? | 1,235,320 |
| `attack_ability` | are units of the army never told to move instead of to attack (`ArmyAttacks`)? No. | – |
| `bot_agents` | is each scout lost ordered again once (`ScoutsReplaced`), does the bot stand still only in a loop with two new scouts (`FirstFindsTask`), are queries answered in time (`SightingsInTime`), is an armory asked for every open level (`ArmoryStillAsked`), do orders read memory that was written (`IndexInMemory`) and become stale by losses only (`StaleByLossOnly`), are caps respected (`CountsWithinCaps`) and is an overflowed one the end of its kind (`ProductionEnds`), does each base get two turrets once (`TwoTurrets`) and in the end (`TurretsComing`)? | 36,664 |
| `sighting_place` | is there a record of the point of interest nearest to a unit that was seen (`NearestRecorded`)? No. | – |
| `bay_upgrades` | is an engineering bay asked for every open level (`BayStillAsked`)? No. | – |

`KeepsBook` maps `owed[a, y]` to the number of entries for agent `a` and type `y`.  It says
that stale entries make units go to the wrong creditor, never to nobody, and never pay a debt
twice.

## Bounds

- `Task`: at most two tasks of a kind.  Two depots, two repairs of one target with different
  priorities, two trained types at different priorities, an upgrade and two harvests are
  what it takes for a task to be put back before or after each other kind, and for two tasks
  of a kind to be served in one step.  A popped task may be pushed again at once, so the
  queue never runs dry by the bound.
- `Observation`: five observations, one per branch of `step()`: too early for a depot, low
  supply with minerals, enough supply without minerals, more supply used than the cap, cap
  200.  Any may follow any, but time does not run backwards.
- `Unit`: two SCVs for the duplicate and repair properties, which are about pairs; the second
  is trained, or never comes.  Four units for the routing, one present, two created, one
  structure an add-on task names.
- `MCResourceOrders` adds a variable `focus`, chosen at the start and for good: in "waiting"
  games the tasks are those that can be put back or end a step, no unit appears, and a TRAIN
  is pushed only while nothing is ordered (its command does nothing else there); in "routing"
  games units of all origins come and go, and all that is ordered can be paid.  Each property
  of `resource_orders` is checked in both.
- `MaxOrders` (named in the module, used in the guard of `AddTask` alone): how long
  `ordered_units` is when no further TRAIN is pushed.
- `UIntMod`: 65,536 for 2^32; the resources observed are far below either.
- `Center`: three, since a base that is visited twice needs one before it that is erased and
  one between; four to have one more than three.
- `Second`, `Third`: 0 and 1 for 16 and 38; with at most one SCV (`MaxScvs`) and one scout lost
  (`MaxDrift`), `scv_count` is between -1 and 1, on both sides of each threshold.
- `MaxRequests`: how many requests are counted; 1 where their number does not matter, 2 for
  one that is served late.
- `Ground`, `Air`, `Support`: one unit each, enough for squadrons with and without a unit on
  the ground; two on the ground where the property is refuted.  `MaxMinutes`: 1, so that a
  squadron is any unit and then two.  `MaxPlaces` 2, so that a place can be left after one is
  taken off; `MaxCopies` 1 per task.  The theorems need none of these bounds.
- Symmetry between SCVs and between centers is used in runs without liveness only.
- `MCTFBot` adds a variable `focus`: in each game the events of one part occur, chosen at the
  start and for good, while every `step()` is called in all of them.  The parts share only the
  phase, the wait of `addUnit` and whether a bay stands, and `town` sees bays as well; the
  theorem of `TFBotProofs` is about `TF_Bot` without `focus`.
- `Bay` and `Armory`: two of each, so that one that is idle can be passed over for the other,
  and one can be lost while the other stands.
- `MaxBorn` 2: one scout created in a loop does not make `addUnit` wait, two do.  `QueueLow`
  2 and `OrderAfter` 1 for 5 and 4496; `MaxScouts` 3, one more than can be created in a loop.
- `LoopsPerSecond` 2 and `MaxLoop` 5 for 16 and the length of a game: every remainder, and
  times more than two seconds apart.  `MaxSightings` 2, a record and a second look.
- `IntMax` 4 and caps 0 to 2 at the start: a cap overflows after one or two products, one
  stays 0.  `MaxStructures` 2 of a kind, so an index is inside, at and behind the end;
  `MaxRefund` 4: how far a count falls below zero; a count is an `int` like its cap, so it is
  at most `IntMax`.  `Minerals` and `Times` have one value for
  each answer the code's comparisons can give.

## Fairness

`FairSpec` assumes that the coordinator keeps advancing the game (`WF(Observe)`) and calling
`step()` (`WF(StepBegin)`), and that the loop of `step()` runs when it can
(`WF(Iterate \/ StepEnd)`): one thread and no blocking call in this agent.  The two strong
conditions say that again and again there is an observation in which every price can be
paid and `step()` runs in it.  That is an assumption about the game, not about the code: income goes on, and
a price in vespene needs a refinery.  Without it `DepotServed` is false, since tasks for
which there is no vespene block all tasks behind them.

The `FairSpec` of `BaseManager` assumes of the code only that its `step()` is called again
and again and runs to its end; nothing of the game.

`LiveSpec` of `TF_Bot` assumes that the client issues the idle event of a new unit and comes
to the end of every loop (`WF`), and that the defence agent's `step()` runs again and again
when it could (`SF(DefenceSteps)`): it returns at once in three of four loops, so in each
single loop the model may pause it (`DefencePauses`), but not in all.  Weak fairness would not
do, as each pause disables the step until the next loop.

## Proofs

`ResourceAgentProofs.tla`, checked by tlapm, for every value of the constants that satisfies
`ConstantsAssumption` (tasks name known types, prices and resources are unsigned, structures
need no supply, observations are what the API can return).

| theorem | argument |
|---|---|
| `TypeCorrect` | `TypeOK` is inductive |
| `Budget` (`WithinBudget`) | `BudgetInv`: while a step runs, bill and remainder add up to what was observed, unless the totals have wrapped in the two cases the property excepts; each charge of an affordable price keeps it |
| `Construction` (`OneConstruction`) | `ConstructionInv`: inside the loop nobody was sent to construct yet, between steps nothing is hidden from the observation; so the check for duplicates, which reads the observation, suffices |
| `Ownership` (`OneOwner`) | inductive with the types; needs that there are no TRANSFER tasks |
| `RepairCrews` (`RepairCrew`) | `RepairInv`: those sent in this step to one target are the SCVs seen plus at most one, the one `getSCV` sticks to |
| `Orphans` (`NoOrphan`) | `OrphanInv`: counts of entries change by one exactly where `live` does |
| `Refinement` (`KeepsBook`) | each action maps to one of `OrderBook` or to a stutter; the debts are counts of entries |
| `StaleEntry` (`StaleEntries`) | with `OrphanInv`, entries and units in production of a type change by the same number in every step but the loss of a unit; for types no add-on task names |
| `TasksWait` | `KeptUntilPaid`, what holds of the comment refuted as finding 1: below supply cap 200 a task whose producer exists leaves the queue only when minerals and vespene suffice |
| `NobodyIsLost` | with TRANSFER tasks a living unit may be in two lists, but never in none |
| `TaskOrder`, `PopFindsTask`, `QueueFinite` | `operator<` is a strict weak order, so a finite queue that is not empty has a task that `pop()` may return: the one with fewest tasks above it; and the queue is always finite, although `Task` need not be |
| `LoopEnds` | the variant of `StepEnds`: each iteration ends the loop or leaves fewer tasks in the queue |
| `DepotServedWhenNext` (`DepotServed`) | under a premise, see below: while depots come next, an iteration serves one or takes a task before them that spends nothing and does not end the step; so the loop is not left before a depot was served |

`BaseManagerProofs.tla`, for every set of command centers, thresholds and bounds
(`BaseAssumption`: a tag is not a center, the thresholds are natural numbers).

| theorem | argument |
|---|---|
| `BaseTypes` (`TypeOK`), `Counting` (`NeverOvercounts`) | `TypeInv`: with the types, the slots the loop was started for are those of the vector and those behind it, so that a visit is always to a base; the count lags by the scouts lost |
| `NoneLost` (`NoBaseLost`), `OnceActive` (`ActiveOnce`) | `ListsInv`: inductive together with what is known of centers not yet built, given the types; because active bases are distinct, erasing one entry takes the command out, and a second visit finds nothing to erase |
| `OnlyDepletedIsolated` (`IsolatedDepleted`) | only a visit adds to the isolated bases, and the one it adds is the one it looked at, wherever the loop found it; what it found was nothing, and around a center that is not new that is what is left |
| `AsksWhenCalled` (`AsksAgain`) | under a premise, see below: with nothing in the three lists the next step asks, and nothing but a request or a rebuilt center ends that |
| `DepletedComesNearer` | likewise, for every slot and any number of bases: the loop, which passes over bases whenever it erases, leaves a depleted base moved, destroyed, flagged, or in an earlier slot |
| `DepletedMovedWhenCalled` (`DepletedMoved`) | the chain of these facts from the fourth slot down; as the induction over slots is out of the prover's reach, four is as far as it is written out |
| `DeadForgottenByTwo` (`DeadForgotten`) | `TwoInv`, for as long as at most two bases are active at a time: of the two a step erases one at most, and visits none twice.  Finding 3 needs three bases, so the two results meet |

`AttackAgentProofs.tla`, for every set of units, number of start locations and bound
(`AttackAssumption`: the enemy has a start location).

| theorem | argument |
|---|---|
| `AttackTypes` (`TypeOK`), `AlwaysAPlace` (`PlaceToAttack`) | `PlaceInv`: together inductive; whatever the lists were, there is a place after `updateEnemyLocations`, and after `mark_location_visited` it is called again |
| `NobodyForgotten` (`NoOneForgotten`) | inductive with the types: a task leaves the queue when its unit joins a list, the ground list is emptied only by an order to all in it, and no other list ever is |
| `Addons` (`AddonsFirst`) | `AddonInv`: tasks for add-ons have priority 7 or 8; `step()` returns early only when an attack, priority 6, was a maximal task |
| `AddonsAreServed` | under a premise, see below: so each add-on asked for is handed to the resource agent sooner or later |

`ScoutAgentProofs.tla`, `SightingsProofs.tla` and `DefenceAgentProofs.tla`, for every set of
SCVs, places and bases and every bound (the assumptions say that constants are finite sets or
natural numbers, that the initial caps are `int`s and that the first point of interest is a
place).

| theorem | argument |
|---|---|
| `ScoutTypeCorrect` (`ScoutTypeOK`), `ScoutsAreReplaced` (`ScoutsReplaced`) | inductive together: who leaves one of the four places – alive, asked for, in production, dropped – enters another |
| `FirstScoutFindsTask` (`FirstFindsTask`) | `LoopInv`: since the scouts were ordered each loop starts with a task in the queue, and only a scout created in this loop or its idle event takes one before `step()` |
| `SightingTypeCorrect`, `QueriesInTime` (`SightingsInTime`) | `BuildingsRecorded`: every building seen has a record of that loop; the rest is arithmetic of division, for any `LoopsPerSecond` |
| `DefenceTypeCorrect`, `OrdersReadWrittenMemory` (`IndexInMemory`), `IndexStaleByLoss` (`StaleByLossOnly`) | `IndexInv`: a list is no longer than what was written of it, and an index stays below that, also while the list is empty; `IndexInMemory` alone says nothing of an empty list, which may be filled again |
| `TroopsWithinCaps` (`CountsWithinCaps`), `EachBaseTwoTurrets` (`TwoTurrets`) | inductive with the types; a product is not below its cap unless it overflows |
| `EndOfProduction` (`ProductionEnds`) | the smallest `int` times 1.5 is the smallest `int` again, and no count, which is at least the smallest `int`, is below it |
| `UpgradeTypeCorrect`, `ArmoryAsked` (`ArmoryStillAsked`) | inductive together, for any number of armories: `unitIdle` asks the idle one for all open levels, and each level reached later is followed by the next at once, which is asked of one that exists; a level asked of one that is lost is asked again when the next one is idle |

`TFBotProofs.tla`: `TurretsComeWhenServed` (`TurretsComing`) is conditional like those below:
`step()` past its pause serves every base in the list.  The lemmas before it (`BotRunsDefence`
and others) say which of an agent's actions each action of `TF_Bot` is; that is so by the
composition, and they are there to carry the agents' type invariants over to it.

Liveness.  What follows from weak or strong fairness needs `ENABLED`, which this prover does
not handle.  The theorems on liveness are about `Spec` without fairness and have as a premise
what the fairness is for: `[]<><<StepBegin>>_vars`, `step()` is called again and again.  They
show that this suffices, for all values of the constants: that calls do not undo one another,
and that nothing which happens between them does.  As the next call comes only when the loop
of the last one was left, the premise includes that each loop ends.

- `AsksWhenCalled`, `DepletedComesNearer`, `DepletedMovedWhenCalled` and `AddonsAreServed`
  need no more than that, but for the four active bases `DepletedMovedWhenCalled` speaks of.
- `DepotServedWhenNext` needs calls with `DepotsNext`: there is enough to pay for anything, no
  TRANSFER is queued, and each queued BUILD or TRAIN for something else compares less than
  every depot.  Of all tasks the agents push, only the request for a first command center
  (priority 20) does not.
- `TurretsComeWhenServed` needs a `step()` that is not paused again and again, unless the bot
  stands still (`waiting`), when there are none.

Only model-checked: `StepEnds`, for which `LoopEnds` is the part without fairness, and that
the specifications with fairness satisfy the premises above.  The seven properties that do not
hold are stated for the runs that refute them, and `KeptUntilPaid`, `StaleEntries` and
`DeadForgottenByTwo` say how much of three of them does.

## Disagreements found

1. `RESOURCE_BOT.cpp:49` says tasks are not removed "if there are not enough resources to
   perform them".  A TRAIN task that lacks only supply is removed (lines 125-131), while the
   depot that would provide the supply is on its way.
2. `RESOURCE_BOT.cpp:134` says the entry in `ordered_units` is there to give "the unit" to the
   right agent.  It is made before the command is sent and for tasks that create no unit of
   that type (add-ons, `TroopManager.hpp:40,44,69,105`); it then takes the next unit of
   that type from whom it belongs to.
3. `BaseManager.hpp:186` erases inside the loop.  When two of three bases, the first and the
   third, run dry together, the third is isolated twice; after its destruction an entry
   remains (against `BaseManager.hpp:333`), and `step()` returns at line 200 from then on:
   no command center is ever asked for again (against line 224).
4. `BaseManager.hpp:21` says three command centers are built.  Requests are pushed at every
   step while one is wanted and never withdrawn; one that waits for minerals until the third
   is complete builds a fourth.
5. `TroopManager.hpp:128` says support units need another ability because they do not attack.
   The case for the army above it lacks its `break`, so army units get a task with that
   ability too, which is then commanded to the whole squadron and overrides the attack.
6. `SCOUT_BOT.cpp:221` says that of a unit that is not a building the "nearest base location" is
   recorded.  The search (lines 225-233) compares distances from `poi[0]`, where it starts, and
   never looks at the unit: the record is one of `poi[0]`, wherever the unit is, and once there
   is one no other is made.
7. `DEFENCE_BOT.cpp:414` says that upgrades lost with a structure are asked for in
   `unitIdle`.  The tree of the engineering bay tests the flags of ships and vehicles (lines
   350-357), and the flags of the infantry are read nowhere: a rebuilt bay is not asked for
   level 2 as long as ship weapons 1 are not done, even if infantry armor 1 is.

Seen while modelling, with no run of their own because no line of the repository says
otherwise or the effect lies in the game:

- two scouts created in one loop can stop the bot (`SCOUT_BOT.cpp:87`; `FirstFindsTask` says
  that it takes two);
- the place `addUnit` takes for a new scout is given up for a second one when its idle event
  comes in the same loop (`SCOUT_BOT.cpp:91`, `264`), and HARVEST is queued behind that
  (`BaseManager.hpp:437`), so that a scout makes one trip;
- a center that has just been built may be given up, or never ask for its successor, because
  of what is not in view yet (`BaseManager.hpp:177-190`): `startTransfer` sets its flag before
  `ideal_harvesters` is looked at;
- an armory is ordered for each one destroyed, an enemy's too, and of several only `front()`
  is asked for the next level, which need not be the idle one (`DEFENCE_BOT.cpp:220-227`,
  `446-462`);
- a unit seen where there is a record already leaves no newer one, however old that is
  (`SCOUT_BOT.cpp:239`);
- the attack agent counts raised depots while the defence agent lowers them
  (`ATTACK_BOT.cpp:412`, `DEFENCE_BOT.cpp:199`), and asks for starports without limit because
  of a semicolon (`ATTACK_BOT.cpp:275`);
- UPGRADE deducts nothing from the totals (`RESOURCE_BOT.cpp:173`), TRANSFER of any SCV leaves
  it in two lists (`RESOURCE_BOT.cpp:231`), `allAlive` removes from a copy (`ATTACK_BOT.cpp:463`);
- the client tells of a unit whose command failed by looking for the tags of the last
  `SendActions` (`sc2_client.cc:2073`, `sc2_agent.cc:58`); the resource agent calls it after
  each command (`RESOURCE_BOT.cpp:138` and others) and the coordinator once more after the
  step, with nothing left to send, so no idle event follows a TRAIN the game rejects;
- `check_active_defence` compares an enemy with the first group only (`DEFENCE_BOT.cpp:1081`).

## What is not modelled

- What an agent only commands and does not remember: `defence_balance`, `check_active_defence`,
  `evaluateUnits`, which SCV harvests where, what the attack agent asks to be built when a unit
  is created, upgrades of tech labs.  The tasks among them are in the set that `AddTask` of
  `ResourceAgent` pushes at any time.
- Bunkers and defence points: both lists are sorted and searched by distance, and decide only
  the target of a command.
- Positions, distances and the placement search (inputs here), the vendored API and its
  connection to the game, the database wrapper, command-line handling, the unused
  `TS_Queue.hpp`.
- All of the vendored code, which is more than 99 % of the repository: `cpp-sc2` with protobuf,
  civetweb and SDL, and SQLite.  The models speak of what it promises to the bot, where the bot
  depends on it: the order of the events in `GameLoop`.
