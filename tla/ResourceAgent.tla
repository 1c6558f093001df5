---------------------------- MODULE ResourceAgent ----------------------------
(***************************************************************************)
(* RESOURCE_BOT: the agent that owns the task queue all agents push into.  *)
(* Every fourth game loop its step() empties the queue as far as the       *)
(* resources it observed go; when a unit appears it hands it to the agent  *)
(* that ordered one of that type.                                          *)
(*                                                                         *)
(* The bot is one thread.  The coordinator refreshes the observation,      *)
(* delivers the events of the game loop, then calls step():                *)
(*                                                                         *)
(*   "events"  the observation is fresh, events are being delivered;       *)
(*   "drain"   step() is inside its while loop, one task per iteration;    *)
(*   "sent"    step() has returned, the game has not advanced yet.         *)
(*                                                                         *)
(* Nothing step() commands shows in the observation before the next        *)
(* "events", so what was commanded in this step is kept in "issued" apart  *)
(* from the orders the observation shows.                                  *)
(***************************************************************************)
EXTENDS TaskQueue, Sequences, FiniteSets, FiniteSetsExt, SequencesExt

CONSTANTS
    Task,         \* the task objects the agents may push
    DepotTask,    \* those that buildSupplyDepot pushes; a bound on their number
    Unit,         \* every unit that may exist during the game
    TypeOf,       \* the type of each unit
    StartUnits,   \* the units of the first OnUnitCreated events
    UnitType,     \* types of units and structures
    Addon,        \* types named by TRAIN tasks that create no unit of that
                  \* type: the parent of an add-on, the result of a morph
    Cost,         \* what each type or upgrade costs
    Target,       \* units that REPAIR tasks are about
    Unfinished,   \* those of Target that are sent SMART, not EFFECT_REPAIR
    Observation,  \* what the observation may show
    UIntMod,      \* 2^32, the modulus of uint32_t
    AnyScv,       \* the tag -1 of a TRANSFER task
    NoScv,        \* BaseManager's NoUnit
    MaxOrders     \* bound: no TRAIN task is added while more entries wait

Scv == {u \in Unit : TypeOf[u] = "SCV"}

Price == [food : 0..UIntMod - 1, minerals : 0..UIntMod - 1,
          vespene : 0..UIntMod - 1]

\* What an SCV can be ordered to do that keeps it from other work: construct
\* a type, or repair a target.
Order == UnitType \union Target

\* The agents that keep a list of units.  DEFENCE_BOT::addUnit is empty, and no
\* task orders a unit for that agent or transfers one to it.
Owner == SourceAgent \ {"DEFENCE_AGENT"}

ASSUME ConstantsAssumption ==
    /\ UIntMod \in Nat \ {0}
    /\ MaxOrders \in Nat
    /\ IsFiniteSet(Unit) /\ StartUnits \subseteq Unit
    /\ TypeOf \in [Unit -> UnitType]
    /\ Addon \subseteq UnitType
    /\ Target \cap UnitType = {} /\ Unfinished \subseteq Target
    /\ NoScv \notin Unit /\ AnyScv \notin Unit
    /\ DepotTask \subseteq Task
    /\ \A t \in Task :
        /\ t.action \in AgentActions
        /\ t.source \in SourceAgent
        /\ t.priority \in Nat
        /\ t.action \in {"BUILD", "TRAIN", "UPGRADE"} =>
               t.what \in DOMAIN Cost /\ Cost[t.what] \in Price
        /\ t.action \in {"BUILD", "TRAIN"} => t.what \in UnitType
        /\ t.action = "REPAIR" => t.target \in Target /\ t.count \in Nat
        /\ t.action = "TRANSFER" => t.self \in Unit \union {AnyScv}
        /\ t.action \in {"TRAIN", "TRANSFER"} => t.source \in Owner
        /\ t.action = "BUILD" => Cost[t.what].food = 0  \* structures need none
    /\ \A t \in DepotTask : t.action = "BUILD"
    /\ \A o \in Observation :
        /\ {o.minerals, o.vespene, o.foodUsed, o.foodCap} \subseteq 0..UIntMod - 1
        /\ {o.time, o.bases} \subseteq Nat

VARIABLES
    obs,            \* the observation: [minerals, vespene, foodUsed, foodCap,
                    \*   time (seconds), bases, makers (producers found)]
    orders,         \* per SCV, the orders the observation shows
    queue,          \* task_queue
    ordered_units,  \* the types ordered and for whom, oldest first
    roster,         \* the units handed to each agent; RESOURCE's is `units`
    born, dead,     \* the units created, and those of them destroyed, so far
    live,           \* per type, the units in production in the game
    phase,
    avail,          \* available_food, available_minerals, available_vespene
    issued,         \* per SCV, the orders commanded in this step
    nearest,        \* per target, the SCV getSCV returns in this step
    bill            \* what the TRAIN and BUILD commands of this step cost

agentVars == <<queue, ordered_units, roster>>
gameVars == <<obs, orders, born, dead, live>>
stepVars == <<phase, avail, issued, nearest, bill>>
vars == <<agentVars, gameVars, stepVars>>

Zero == [food |-> 0, minerals |-> 0, vespene |-> 0]
NoOrders == [s \in Scv |-> {}]
Unassigned == [x \in Target |-> NoScv]

\* The state after OnGameStart and the first OnUnitCreated events: nothing was
\* ordered, so every starting unit is the resource agent's.
Init ==
    /\ obs \in Observation
    /\ obs.time = 0
    /\ orders = NoOrders
    /\ queue = {}
    /\ ordered_units = <<>>
    /\ roster = [a \in Owner |->
                    IF a = "RESOURCE_AGENT" THEN StartUnits ELSE {}]
    /\ born = StartUnits
    /\ dead = {}
    /\ live = [y \in UnitType |-> 0]
    /\ phase = "events"
    /\ avail = Zero /\ bill = Zero
    /\ issued = NoOrders
    /\ nearest = Unassigned

\* What an SCV is under orders to do, commanded in this step or before.
Ordered(s) == orders[s] \union issued[s]

------------------------------------------------------------------------------
(* The game and the other agents, between two steps.                         *)

\* The next game loop: time passes, resources are whatever the game says, and
\* every order commanded or observed is now either shown or gone (finished,
\* cancelled, rejected).
Observe ==
    /\ phase \in {"sent", "events"}
    /\ \E o \in Observation : o.time >= obs.time /\ obs' = o
    /\ \E gone \in SUBSET {so \in Scv \X Order : so[2] \in Ordered(so[1])} :
           orders' = [s \in Scv |-> {o \in Ordered(s) : <<s, o>> \notin gone}]
    /\ phase' = "events"
    /\ avail' = Zero /\ bill' = Zero
    /\ issued' = NoOrders
    /\ nearest' = Unassigned
    /\ UNCHANGED <<agentVars, born, dead, live>>

\* addTask, called by another agent or by BaseManager through the shared queue.
AddTask(t) ==
    /\ phase = "events"
    /\ t \notin queue
    /\ t.action = "TRAIN" => Len(ordered_units) < MaxOrders
    /\ queue' = queue \union {t}
    /\ UNCHANGED <<ordered_units, roster, gameVars, stepVars>>

\* A unit in production is lost: the command was rejected, or its producer died.
LoseProduction(y) ==
    /\ phase = "events"
    /\ live[y] > 0
    /\ live' = [live EXCEPT ![y] = @ - 1]
    /\ UNCHANGED <<agentVars, stepVars, obs, orders, born, dead>>

------------------------------------------------------------------------------
(* The events the agent handles.                                             *)

\* Where ordered_units waits for a unit of type y, and the oldest of those.
Entries(y) == {i \in DOMAIN ordered_units : ordered_units[i].utype = y}
Oldest(S) == {i \in S : \A j \in S : i <= j}

\* addUnit of agent a.
Give(r, a, u) == [r EXCEPT ![a] = @ \union {u}]

\* Mutant of UnitCreated: every entry of the type is erased, not just the first.
UnitCreatedErasingAll(u) ==
    LET y == TypeOf[u]
        wanted == Entries(y)
    IN  /\ phase = "events"
        /\ u \notin born
        /\ y \notin Addon => live[y] > 0
        /\ live' = IF y \in Addon THEN live ELSE [live EXCEPT ![y] = @ - 1]
        /\ IF wanted = {}
           THEN roster' = Give(roster, "RESOURCE_AGENT", u)
           ELSE \E i \in Oldest(wanted) :
                  roster' = Give(roster, ordered_units[i].source, u)
        /\ ordered_units' = SelectSeq(ordered_units, LAMBDA o : o.utype # y)
        /\ born' = born \union {u}
        /\ UNCHANGED <<queue, obs, orders, dead, stepVars>>

\* Mutant of UnitCreated: the entry found is not erased.
UnitCreatedNotErasing(u) ==
    LET y == TypeOf[u]
        wanted == Entries(y)
    IN  /\ phase = "events"
        /\ u \notin born
        /\ y \notin Addon => live[y] > 0
        /\ live' = IF y \in Addon THEN live ELSE [live EXCEPT ![y] = @ - 1]
        /\ IF wanted = {}
           THEN roster' = Give(roster, "RESOURCE_AGENT", u)
           ELSE \E i \in Oldest(wanted) :
                  roster' = Give(roster, ordered_units[i].source, u)
        /\ born' = born \union {u}
        /\ UNCHANGED <<ordered_units, queue, obs, orders, dead, stepVars>>

\* unitCreated: the first entry of the unit's type names its owner and is
\* erased; a unit that nobody ordered is the resource agent's.
UnitCreated(u) ==
    /\ phase = "events"
    /\ u \notin born
    /\ TypeOf[u] \notin Addon => live[TypeOf[u]] > 0
    /\ live' = IF TypeOf[u] \in Addon THEN live ELSE [live EXCEPT ![TypeOf[u]] = @ - 1]
    /\ IF Entries(TypeOf[u]) = {}
       THEN /\ roster' = Give(roster, "RESOURCE_AGENT", u)
            /\ UNCHANGED ordered_units
       ELSE \E i \in Oldest(Entries(TypeOf[u])) :
              /\ roster' = Give(roster, ordered_units[i].source, u)
              /\ ordered_units' = RemoveAt(ordered_units, i)
    /\ born' = born \union {u}
    /\ UNCHANGED <<queue, obs, orders, dead, stepVars>>

\* One more task object of S is pushed, as long as S, the bound, has one left.
PushOneOf(S) == IF S \subseteq queue
                THEN queue' = queue
                ELSE \E t \in S \ queue : queue' = queue \union {t}

\* What SCOUT_BOT::unitDestroyed pushes for an SCV it has lost.
ScoutOrder == {t \in Task : /\ t.action = "TRAIN" /\ t.what = "SCV"
                            /\ t.source = "SCOUT_AGENT"}

Replace(u) == IF u \in roster["SCOUT_AGENT"] \cap Scv
              THEN PushOneOf(ScoutOrder)
              ELSE queue' = queue

\* Mutant of UnitDestroyed: the resource agent's list is the only one updated.
UnitDestroyedForResourceOnly(u) ==
    /\ phase = "events"
    /\ u \in born \ dead
    /\ dead' = dead \union {u}
    /\ roster' = [roster EXCEPT !["RESOURCE_AGENT"] = @ \ {u}]
    /\ orders' = [s \in Scv |-> IF s = u THEN {} ELSE orders[s]]
    /\ Replace(u)
    /\ UNCHANGED <<ordered_units, obs, born, live, stepVars>>

\* unitDestroyed of the agent and of those called after it with the same event:
\* each forgets the unit, and the scout agent orders another SCV for its own.
UnitDestroyed(u) ==
    /\ phase = "events"
    /\ u \in born \ dead
    /\ dead' = dead \union {u}
    /\ roster' = [a \in Owner |-> roster[a] \ {u}]
    /\ orders' = [s \in Scv |-> IF s = u THEN {} ELSE orders[s]]
    /\ Replace(u)
    /\ UNCHANGED <<ordered_units, obs, born, live, stepVars>>

------------------------------------------------------------------------------
(* step()                                                                    *)

\* Mutant of Minus: signed arithmetic.
SignedMinus(a, b) == a - b

\* uint32_t subtraction.
Minus(a, b) == IF b <= a THEN a - b ELSE a - b + UIntMod

\* Mutant of Charge: the minerals are not deducted.
ChargeVespeneOnly(p, c) == [p EXCEPT !.vespene = Minus(p.vespene, c.vespene)]

Charge(p, c) == [food |-> Minus(p.food, c.food),
                 minerals |-> Minus(p.minerals, c.minerals),
                 vespene |-> Minus(p.vespene, c.vespene)]

Add(p, c) == [food |-> p.food + c.food, minerals |-> p.minerals + c.minerals,
              vespene |-> p.vespene + c.vespene]

\* getSupplyFloat
SupplyFloat == IF obs.bases <= 1 THEN 3 ELSE IF obs.bases = 2 THEN 5 ELSE 8

\* The SCVs getSCV may return: the agent's own, alive, with nothing but
\* harvest and SMART orders as far as the observation shows.
Available == {s \in Scv : /\ s \in roster["RESOURCE_AGENT"]
                          /\ s \in born \ dead
                          /\ orders[s] \subseteq Unfinished}

\* buildSupplyDepot, called by step() before the loop.
PushDepot == IF obs.time < 15 THEN queue' = queue ELSE PushOneOf(DepotTask)

\* step() up to its loop.
StepBegin ==
    LET food == Minus(obs.foodCap, obs.foodUsed)
    IN  /\ phase = "events"
        /\ phase' = "drain"
        /\ avail' = [food |-> food, minerals |-> obs.minerals,
                     vespene |-> obs.vespene]
        /\ IF food <= SupplyFloat /\ obs.foodCap < 200
           THEN PushDepot
           ELSE queue' = queue
        /\ nearest' \in [Target -> IF Available = {} THEN {NoScv} ELSE Available]
        /\ UNCHANGED <<ordered_units, roster, gameVars, issued, bill>>

Short(c) == c.minerals > avail.minerals \/ c.vespene > avail.vespene
Unaffordable(c) == c.food > avail.food \/ Short(c)

\* Mutant of Waits: tasks are kept at the maximum supply as well.
WaitsAtMaxSupply(c) == Short(c)

\* What makes a BUILD or TRAIN task wait for resources.
Waits(c) == obs.foodCap < 200 /\ Short(c)

\* Mutant of PutBack: the loop goes on with the task still in the queue.
PutBackAndRetry == UNCHANGED vars

\* The task is pushed back and the loop ends.
PutBack ==
    /\ phase' = "sent"
    /\ UNCHANGED <<agentVars, gameVars, avail, issued, nearest, bill>>

\* The task is popped and forgotten, the loop goes on.
Drop(t) ==
    /\ queue' = queue \ {t}
    /\ UNCHANGED <<ordered_units, roster, gameVars, stepVars>>

\* case HARVEST, case MOVE: a command to a unit that other cases do not see.
DoCommand(t) ==
    /\ t.action \in {"HARVEST", "MOVE"}
    /\ Drop(t)

\* buildCheckDuplicate
Duplicate(y) == y # "REFINERY" /\ \E s \in Scv : y \in orders[s]

\* Mutant of Construct: the loop goes on to the next task.
ConstructAndContinue(t) ==
    /\ ~Duplicate(t.what)
    /\ \E s \in Available : issued' = [issued EXCEPT ![s] = @ \union {t.what}]
    /\ queue' = queue \ {t}
    /\ avail' = Charge(avail, Cost[t.what])
    /\ bill' = Add(bill, Cost[t.what])
    /\ UNCHANGED <<ordered_units, roster, gameVars, phase, nearest>>

\* buildStructure when it succeeds: an SCV is sent, nothing else is tried.
Construct(t) ==
    /\ ~Duplicate(t.what)
    /\ \E s \in Available : issued' = [issued EXCEPT ![s] = @ \union {t.what}]
    /\ queue' = queue \ {t}
    /\ avail' = Charge(avail, Cost[t.what])
    /\ bill' = Add(bill, Cost[t.what])
    /\ phase' = "sent"
    /\ UNCHANGED <<ordered_units, roster, gameVars, nearest>>

\* case BUILD.  buildStructure may always fail, for want of a place or of the
\* unit to build on: the task is then lost.
DoBuild(t) ==
    /\ t.action = "BUILD"
    /\ IF Waits(Cost[t.what])
       THEN PutBack
       ELSE Construct(t) \/ Drop(t)

\* The TRAIN command is sent.
Train(t) ==
    /\ queue' = queue \ {t}
    /\ ordered_units' = Append(ordered_units,
                               [source |-> t.source, utype |-> t.what])
    /\ live' = IF t.what \in Addon THEN live ELSE [live EXCEPT ![t.what] = @ + 1]
    /\ avail' = Charge(avail, Cost[t.what])
    /\ bill' = Add(bill, Cost[t.what])
    /\ UNCHANGED <<roster, obs, orders, born, dead, phase, issued, nearest>>

\* case TRAIN
DoTrain(t) ==
    /\ t.action = "TRAIN"
    /\ \/ t.maker \notin obs.makers /\ Drop(t)
       \/ /\ t.maker \in obs.makers
          /\ \/ ~Unaffordable(Cost[t.what]) /\ Train(t)
             \/ Waits(Cost[t.what]) /\ PutBack
             \/ /\ Unaffordable(Cost[t.what]) /\ ~Waits(Cost[t.what])
                /\ Drop(t)

\* Mutant of NearestScv: "a random available scv is selected".
RandomScv(x) == Available

\* getSCV for a target: the same answer as long as it is given the same SCVs.
NearestScv(x) == IF nearest[x] \in Available THEN {nearest[x]} ELSE Available

\* case REPAIR: one more SCV, if the observation shows fewer than t.count with
\* an order about the target (whatever the order is: of those an SCV can have
\* only the repair names a unit of Target).  GetUnit may find the target no more
\* at any time, and nothing is then sent.
DoRepair(t) ==
    /\ t.action = "REPAIR"
    /\ \/ /\ Cardinality({s \in Scv : t.target \in orders[s]}) < t.count
          /\ Available # {}
          /\ \E s \in NearestScv(t.target) :
                 issued' = [issued EXCEPT ![s] = @ \union {t.target}]
          /\ queue' = queue \ {t}
          /\ UNCHANGED <<ordered_units, roster, gameVars, phase, avail,
                         nearest, bill>>
       \/ Drop(t)

\* case UPGRADE.  Nothing is deducted.
DoUpgrade(t) ==
    /\ t.action = "UPGRADE"
    /\ IF Short(Cost[t.what]) THEN PutBack ELSE Drop(t)

\* What case TRANSFER does with the unit it has found.
TransferUnit(t, u) ==
    IF t.source = "RESOURCE_AGENT"
    THEN /\ queue' = queue \ {t}
         /\ phase' = "sent"
         /\ UNCHANGED <<ordered_units, roster, gameVars, avail, issued,
                        nearest, bill>>
    ELSE /\ queue' = queue \ {t}
         /\ roster' = [Give(roster, t.source, u) EXCEPT
                          !["RESOURCE_AGENT"] = @ \ {t.self}]
         /\ UNCHANGED <<ordered_units, gameVars, stepVars>>

\* case TRANSFER, of an SCV that getSCV returns or of the unit named, which
\* GetUnit may find no more.
DoTransfer(t) ==
    /\ t.action = "TRANSFER"
    /\ LET found == IF t.self = AnyScv THEN Available ELSE {t.self} \cap born
       IN  \/ \E u \in found : TransferUnit(t, u)
           \/ (found = {} \/ t.self # AnyScv) /\ Drop(t)

\* One iteration of the loop.
Iterate ==
    /\ phase = "drain"
    /\ \E t \in Tops(queue) :
        \/ DoCommand(t)
        \/ DoBuild(t)
        \/ DoTrain(t)
        \/ DoRepair(t)
        \/ DoUpgrade(t)
        \/ DoTransfer(t)

\* The loop finds the queue empty.
StepEnd ==
    /\ phase = "drain"
    /\ queue = {}
    /\ phase' = "sent"
    /\ UNCHANGED <<agentVars, gameVars, avail, issued, nearest, bill>>

------------------------------------------------------------------------------

Next ==
    \/ Observe
    \/ \E t \in Task \ DepotTask : AddTask(t)
    \/ \E y \in UnitType : LoseProduction(y)
    \/ \E u \in Unit : UnitCreated(u)
    \/ \E u \in Unit : UnitDestroyed(u)
    \/ StepBegin
    \/ Iterate
    \/ StepEnd

Spec == Init /\ [][Next]_vars

\* The coordinator keeps advancing the game and calling step(), and step() runs
\* without waiting for anybody.  Income is the game's: again and again there
\* comes an observation in which every cost can be paid.
Rich == \A t \in Task : t.action \in {"BUILD", "TRAIN", "UPGRADE"} =>
            /\ Cost[t.what].minerals <= obs.minerals
            /\ Cost[t.what].vespene <= obs.vespene

Fairness ==
    /\ WF_vars(Observe)
    /\ SF_vars(Observe /\ Rich')
    /\ WF_vars(StepBegin)
    /\ SF_vars(StepBegin /\ Rich)
    /\ WF_vars(Iterate \/ StepEnd)

FairSpec == Spec /\ Fairness

------------------------------------------------------------------------------
(* Properties                                                                *)

Amounts == [food : Nat, minerals : Nat, vespene : Nat]

TypeOK ==
    /\ obs \in Observation
    /\ orders \in [Scv -> SUBSET Order]
    /\ queue \subseteq Task
    /\ ordered_units \in Seq([source : Owner, utype : UnitType])
    /\ roster \in [Owner -> SUBSET Unit]
    /\ born \subseteq Unit /\ dead \subseteq born
    /\ live \in [UnitType -> Nat]
    /\ phase \in {"events", "drain", "sent"}
    /\ avail \in Price
    /\ issued \in [Scv -> SUBSET Order]
    /\ nearest \in [Target -> Scv \union {NoScv}]
    /\ bill \in Amounts

\* What one step commands it can pay for: the TRAIN and BUILD commands of a
\* step never cost more than the minerals and vespene observed when it began,
\* while the supply cap is below its maximum (at the maximum, a BUILD that
\* cannot be paid is commanded all the same), and never need more supply than
\* was free, unless more was in use than the cap allows (the loop of
\* RESOURCE_BOT::step and its running totals, which are unsigned).
WithinBudget ==
    /\ obs.foodCap < 200 => /\ bill.minerals <= obs.minerals
                            /\ bill.vespene <= obs.vespene
    /\ obs.foodUsed <= obs.foodCap => obs.foodUsed + bill.food <= obs.foodCap

\* "This will prevent multiple identical building from being produced at the
\* same time": no two SCVs are under orders to construct the same type, a
\* refinery excepted, although buildCheckDuplicate sees only the orders that
\* the observation shows and not those commanded since.
OneConstruction ==
    \A s1, s2 \in Scv : \A y \in UnitType \ {"REFINERY"} :
        y \in Ordered(s1) \cap Ordered(s2) => s1 = s2

\* No more SCVs are sent to repair a unit than a REPAIR task for it allows
\* (Task::count), although several tasks for it are served in one step, each
\* of them counting only the SCVs that the observation shows.
RepairCrew ==
    \A x \in Target :
        LET crew == {s \in Scv : x \in Ordered(s)}
        IN  crew # {} => \E t \in Task : /\ t.action = "REPAIR" /\ t.target = x
                                       /\ Cardinality(crew) <= t.count

\* step() returns: its loop serves each task at most once and stops at the
\* first one that it puts back.
StepEnds == phase = "drain" ~> phase = "sent"

\* Supply depots that are wanted do not wait forever, whatever the other agents
\* keep asking for at a lower priority: unless again and again none is wanted,
\* again and again one is ordered or given up (buildSupplyDepot, BUILD).  Depot
\* tasks are all alike, so nothing can be said of a single one: pop() may always
\* prefer a younger one.
DepotServed ==
    \/ []<>(DepotTask \cap queue = {})
    \/ []<><<\E d \in DepotTask \cap queue : d \notin queue'>>_vars

\* "we don't want to remove tasks from queue if there are not enough resources
\* to perform them" (RESOURCE_BOT::step): below the maximum supply cap, a TRAIN
\* task whose producer exists leaves the queue only when it can be paid.
KeptUntilAffordable ==
    [][\A t \in queue \ queue' :
          t.action = "TRAIN" /\ t.maker \in obs.makers /\ obs.foodCap < 200
              => ~Unaffordable(Cost[t.what])]_vars

Waiting(y) == Cardinality(Entries(y))

\* No unit in production is without an entry in ordered_units: each of them
\* will be handed to an agent that ordered one (TRAIN and unitCreated).
NoOrphan == \A y \in UnitType : live[y] <= Waiting(y)

\* A unit that is alive has one owner: it is in the list of the agent it was
\* handed to, and in no other; a dead unit is in no list (unitCreated, addUnit,
\* unitDestroyed).
OneOwner ==
    /\ born \ dead = UNION {roster[a] : a \in Owner}
    /\ \A u \in Unit, a, b \in Owner :
           u \in roster[a] \cap roster[b] => a = b

\* "when the unit is created we want to add it to the correct agent"
\* (RESOURCE_BOT::step, TRAIN): an entry of ordered_units stands for a unit
\* that is in production, so that the next unit of its type is that one.
EntriesInProduction == \A y \in UnitType : Waiting(y) <= live[y]

Surplus(y) == Waiting(y) - live[y]

\* An entry that a rejected command or a lost producer leaves behind is never
\* taken back, so that all later units of its type go to whoever is next: of a
\* type no add-on task names, there are as many entries too many as units were
\* lost in production, from then on and for the rest of the game (TRAIN,
\* unitCreated, unitDestroyed).
StaleEntries ==
    [][\A y \in UnitType \ Addon :
          Surplus(y)' = IF live'[y] < live[y] /\ born' = born
                        THEN Surplus(y) + 1 ELSE Surplus(y)]_vars

Owed(a, y) == Cardinality({i \in DOMAIN ordered_units :
                              ordered_units[i] = [source |-> a, utype |-> y]})

\* The debts that ordered_units records.
Book == INSTANCE OrderBook WITH
            Agent <- Owner, Resource <- "RESOURCE_AGENT",
            owed <- [d \in Owner \X UnitType |-> Owed(d[1], d[2])]

\* The agent keeps the promise of OrderBook to those who order units from it:
\* every unit goes to an agent that is owed one of its type, each order is
\* paid once, and only units nobody ordered are the resource agent's own.
KeepsBook == Book!Spec

==============================================================================
