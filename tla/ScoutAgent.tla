----------------------------- MODULE ScoutAgent -----------------------------
(***************************************************************************)
(* SCOUT_BOT: the scouts it orders and replaces, and the queue of places   *)
(* they are sent to.  A place is popped when the resource agent hands over *)
(* a newly trained SCV (addUnit) and whenever a scout is idle; step() adds *)
(* at most one a loop.  addUnit waits for the queue to be non-empty, on    *)
(* the thread that alone could fill it.                                    *)
(*                                                                         *)
(* Of the places the queue holds only their kind matters: starts are the   *)
(* enemy_start_locations (priority 7), points counts the points of         *)
(* interest (priority 5).                                                  *)
(***************************************************************************)
EXTENDS GameLoop, FiniteSets

CONSTANTS
    Scv,         \* SCVs that may become scouts
    Start,       \* enemy_start_locations
    MaxScouts,   \* MAX_SCOUT_COUNT
    QueueLow,    \* below this many tasks step() adds one: 5 in the code
    OrderAfter,  \* calls of step() before the scouts are ordered: 4496
    MaxBorn      \* bound: SCVs for the scout agent finished in one loop

ASSUME ScoutAssumption ==
    /\ IsFiniteSet(Scv)
    /\ IsFiniteSet(Start)
    /\ MaxScouts \in Nat
    /\ QueueLow \in Nat \ {0}
    /\ OrderAfter \in Nat
    /\ MaxBorn \in Nat

VARIABLES
    steps, ordered_scv, ordered_ccenter,
    starts, points,  \* task_queue
    units,
    asked,    \* TRAIN tasks of the scout agent that the resource agent holds
    owed,     \* its entries in ordered_units: SCVs in production
    dropped,  \* TRAIN tasks the resource agent dropped
    fresh,    \* scouts created in this loop whose idle event is still to come
    idled,    \* scouts whose idle event has been issued in this loop
    born,     \* number of scouts created in this loop
    waiting   \* in the sleep loop of addUnit

taskQueue == <<starts, points>>
ledger == <<units, asked, owed, dropped>>
scoutVars == <<steps, ordered_scv, ordered_ccenter, taskQueue, ledger,
               fresh, idled, born, waiting>>

ScoutInit ==
    /\ FirstPhase
    /\ steps = 0 /\ ordered_scv = FALSE /\ ordered_ccenter = FALSE
    /\ starts = {} /\ points = 0
    /\ units = {} /\ asked = 0 /\ owed = 0 /\ dropped = 0
    /\ fresh = {} /\ idled = {} /\ born = 0
    /\ waiting = FALSE

QueueSize == Cardinality(starts) + points

\* task_queue.pop()
Pop ==
    \/ \E s \in starts : starts' = starts \ {s} /\ points' = points
    \/ starts = {} /\ points > 0 /\ points' = points - 1 /\ starts' = starts

------------------------------------------------------------------------------
(* The resource agent's step(): a TRAIN task is served or dropped.           *)

ScoutTrained ==
    /\ Event(Serving)
    /\ ~waiting /\ fresh = {}
    /\ asked > 0 /\ asked' = asked - 1
    /\ owed' = owed + 1
    /\ UNCHANGED <<steps, ordered_scv, ordered_ccenter, taskQueue, units,
                   dropped, fresh, idled, born, waiting>>

ScoutDropped ==
    /\ Event(Serving)
    /\ ~waiting /\ fresh = {}
    /\ asked > 0 /\ asked' = asked - 1
    /\ dropped' = dropped + 1
    /\ UNCHANGED <<steps, ordered_scv, ordered_ccenter, taskQueue, units,
                   owed, fresh, idled, born, waiting>>

------------------------------------------------------------------------------
(* The handlers                                                              *)

\* Mutant of ScoutDestroyed: the scout is not taken off the list.
ScoutDestroyedKept(u) ==
    /\ Event(Destroying)
    /\ ~waiting
    /\ u \in units
    /\ asked' = asked + 1
    /\ UNCHANGED <<steps, ordered_scv, ordered_ccenter, taskQueue, units, owed,
                   dropped, fresh, idled, born, waiting>>

\* unitDestroyed: another one is ordered.
ScoutDestroyed(u) ==
    /\ Event(Destroying)
    /\ ~waiting
    /\ u \in units
    /\ units' = units \ {u}
    /\ asked' = asked + 1
    /\ UNCHANGED <<steps, ordered_scv, ordered_ccenter, taskQueue, owed,
                   dropped, fresh, idled, born, waiting>>

\* addUnit, called by the resource agent's unitCreated.
ScoutCreated(u) ==
    /\ Event(Creating)
    /\ ~waiting
    /\ u \in Scv \ units
    /\ owed > 0 /\ owed' = owed - 1
    /\ born < MaxBorn /\ born' = born + 1
    /\ units' = units \union {u}
    /\ fresh' = fresh \union {u}
    /\ IF QueueSize = 0 THEN waiting' = TRUE /\ UNCHANGED taskQueue
                        ELSE Pop /\ UNCHANGED waiting
    /\ UNCHANGED <<steps, ordered_scv, ordered_ccenter, asked, dropped, idled>>

\* unitIdle.  The client reports a new unit as idle in the loop it is created
\* in, as its orders in the observation do not show addUnit's command yet; it
\* reports a unit once in a loop.
ScoutIdle(u) ==
    /\ Event(Idling)
    /\ ~waiting
    /\ u \in units \ idled
    /\ idled' = idled \union {u}
    /\ fresh' = fresh \ {u}
    /\ IF QueueSize = 0 THEN UNCHANGED taskQueue ELSE Pop
    /\ UNCHANGED <<steps, ordered_scv, ordered_ccenter, ledger, born, waiting>>

\* Mutant of Refilled: the queue is kept as it is once the scouts are ordered.
RefilledBefore(size) == IF size < QueueLow /\ ~ordered_scv THEN 1 ELSE 0

\* Mutant of Refilled: one more is added.
RefilledAtLow(size) == IF size <= QueueLow THEN 1 ELSE 0

\* How many points of interest step() adds.
Refilled(size) == IF size < QueueLow THEN 1 ELSE 0

\* step().  A command center is ordered once, after ten minutes and when there
\* are barracks; late tells whether that is the case.
ScoutStep ==
    /\ LastCall
    /\ ~waiting
    /\ \E late \in BOOLEAN : ordered_ccenter' = (ordered_ccenter \/ late)
    /\ IF ~ordered_scv /\ steps >= OrderAfter
       THEN /\ ordered_scv' = TRUE
            /\ asked' = asked + MaxScouts
            /\ starts' = Start
            /\ UNCHANGED steps
       ELSE /\ steps' = IF ordered_scv THEN steps ELSE steps + 1
            /\ UNCHANGED <<ordered_scv, asked, starts>>
    /\ points' = points + Refilled(Cardinality(starts') + points)
    /\ idled' = {} /\ born' = 0
    /\ UNCHANGED <<units, owed, dropped, fresh, waiting>>

\* An event that does not concern the scouts.
OtherThanScouts ==
    /\ ~waiting
    /\ \E k \in Phases : Event(k) /\ (k > Idling => fresh = {})
    /\ UNCHANGED scoutVars

ScoutNext ==
    \/ ScoutTrained \/ ScoutDropped
    \/ \E u \in Scv : ScoutDestroyed(u) \/ ScoutCreated(u) \/ ScoutIdle(u)
    \/ ScoutStep
    \/ OtherThanScouts

ScoutSpec == ScoutInit /\ [][ScoutNext]_<<phase, scoutVars>>

------------------------------------------------------------------------------
(* Properties                                                                *)

\* Types: scouts are SCVs, the ones just created among them, and the tasks and
\* debts are counts; a queue step() fills up holds at most QueueLow points.
ScoutTypeOK ==
    /\ phase \in Phases
    /\ steps \in 0..OrderAfter /\ ordered_scv \in BOOLEAN
    /\ ordered_ccenter \in BOOLEAN
    /\ starts \subseteq Start /\ points \in 0..QueueLow
    /\ units \subseteq Scv /\ fresh \subseteq units
    /\ idled \subseteq units \ fresh
    /\ asked \in Nat /\ owed \in Nat /\ dropped \in Nat
    /\ born \in 0..MaxBorn
    /\ waiting \in BOOLEAN

\* unitDestroyed orders one SCV for each scout lost, and addUnit takes what the
\* resource agent trained: once ordered there are MAX_SCOUT_COUNT scouts alive,
\* asked for or in production, less those whose TRAIN task was dropped, which
\* nobody orders again.
ScoutsReplaced ==
    Cardinality(units) + asked + owed + dropped
        = IF ordered_scv THEN MaxScouts ELSE 0

\* addUnit waits for a task that only a later step() could push, so the bot
\* stands still once it waits.  The first scout created in a loop always finds
\* a task: it takes two in one loop to stop the bot.
FirstFindsTask == waiting => born >= 2

==============================================================================
