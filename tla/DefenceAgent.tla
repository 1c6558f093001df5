---------------------------- MODULE DefenceAgent ----------------------------
(***************************************************************************)
(* DEFENCE_BOT: which structures it orders and when, the troops it has the *)
(* production structures train, and the missile turrets of new bases.      *)
(*                                                                         *)
(* The lists of production structures are vectors of pointers.  What is    *)
(* read from them is always the element at last_*_used, an index that is   *)
(* reduced modulo the size only after it was used: when the list got       *)
(* shorter meanwhile, it reads a slot behind the end.  So of each list the *)
(* model keeps its size and how many slots of its memory have ever been    *)
(* written; which structure is in which slot is left out.                  *)
(*                                                                         *)
(* Caps are ints that are multiplied by 1.5; the conversion back yields    *)
(* the smallest int when the product does not fit (x86-64).                *)
(***************************************************************************)
EXTENDS GameLoop, FiniteSets

CONSTANTS
    Base,           \* command centers, in the game or to come
    FirstBase,      \* the one at the start of the game
    FirstCap,       \* tankMaxCount etc. at the start
    IntMax,         \* the largest int
    MaxStructures,  \* bound: structures of a kind
    MaxRefund       \* bound: by how much a count of troops falls below zero

Producer == {"FACTORY", "BARRACKS", "STARPORT"}
Troop == {"SIEGETANK", "CYCLONE", "THOR", "MARINE", "MARAUDER", "BANSHEE",
          "BATTLECRUISER"}

ASSUME DefenceAssumption ==
    /\ FirstBase \in Base
    /\ IntMax \in Nat
    /\ FirstCap \in [Troop -> 0..IntMax]
    /\ MaxStructures \in Nat
    /\ MaxRefund \in 0..IntMax

IntMin == -IntMax - 1

\* Where a unit is trained.
From(t) == CASE t \in {"SIEGETANK", "CYCLONE", "THOR"} -> "FACTORY"
             [] t \in {"MARINE", "MARAUDER"}           -> "BARRACKS"
             [] t \in {"BANSHEE", "BATTLECRUISER"}     -> "STARPORT"

\* What is ordered once in a game, whatever becomes of it.
Once == {"FACTORY", "BARRACKS", "STARPORT", "ENGINEERINGBAY", "ARMORY",
         "FUSIONCORE"}

\* The game time in seconds as far as the agent distinguishes it: a list of
\* what it waits for, in order.
Times == 0..3
Past120 == 1
Past500 == 2
Past600 == 3

\* Minerals: one amount for each answer to the agent's comparisons.
Minerals == {200, 400, 600, 1000, 2000, 3000, 4000, 5000}

VARIABLES
    size,        \* size of factories, barracks, starports
    written,     \* slots of their memory that have been written
    last_used,   \* last_factory_used etc.
    count, cap,  \* tankCount and tankMaxCount etc.
    multiplierCounter,
    ordered,     \* orderedFactory etc.
    hasStarport,
    elapsed,
    bases, base_needs_defence,
    turrets      \* missile turrets asked for, per base

lists == <<size, written, last_used>>
troops == <<count, cap, multiplierCounter>>
town == <<bases, base_needs_defence, turrets>>
defenceVars == <<lists, troops, ordered, hasStarport, elapsed, town>>

DefenceInit ==
    /\ FirstPhase
    /\ size = [k \in Producer |-> 0]
    /\ written = [k \in Producer |-> 0]
    /\ last_used = [k \in Producer |-> 0]
    /\ count = [t \in Troop |-> 0]
    /\ cap = FirstCap
    /\ multiplierCounter = 0
    /\ ordered = {}
    /\ hasStarport = FALSE
    /\ elapsed = 0
    /\ bases = {FirstBase}
    /\ base_needs_defence = {FirstBase}
    /\ turrets = [b \in Base |-> 0]

------------------------------------------------------------------------------
(* Orders to the production structures                                       *)

\* Mutant of NextUsed: the modulus is one too large.
NextUsedBeyond(k, n, sizes) ==
    IF n = 0 THEN last_used[k] ELSE (last_used[k] + n) % (sizes[k] + 1)

\* Mutant of NextUsed: the index runs on.
NextUsedOnward(k, n, sizes) == last_used[k] + n

\* The index after n orders to structures of kind k.
NextUsed(k, n, sizes) ==
    IF n = 0 THEN last_used[k] ELSE (last_used[k] + n) % sizes[k]

\* Mutant of Wanted: the troops at their cap are trained as well.
WantedAtCap(units, sizes, caps) ==
    {t \in units : sizes[From(t)] > 0 /\ count[t] <= caps[t]}

\* Mutant of Wanted: the caps are not looked at.
WantedUncapped(units, sizes, caps) == {t \in units : sizes[From(t)] > 0}

\* Of the units to order, those for which there is a structure and room.
Wanted(units, sizes, caps) ==
    {t \in units : sizes[From(t)] > 0 /\ count[t] < caps[t]}

\* The calls of order*() for a set of units: each names the structure that is
\* next in its list, in one task per unit asked for, and counts once.
Order(units, sizes, caps) ==
    LET trained == Wanted(units, sizes, caps)
    IN  /\ count' = [t \in Troop |-> IF t \in trained THEN count[t] + 1
                                                      ELSE count[t]]
        /\ last_used' = [k \in Producer |->
               NextUsed(k, Cardinality({t \in trained : From(t) = k}), sizes)]

------------------------------------------------------------------------------
(* Events                                                                    *)

\* Time passes.
Elapse ==
    /\ FirstPhase /\ UNCHANGED phase
    /\ elapsed < Past600
    /\ elapsed' \in elapsed + 1 .. Past600
    /\ UNCHANGED <<lists, troops, ordered, hasStarport, town>>

\* The memory of a vector after push_back.
Grown(k) == [written EXCEPT ![k] = IF @ > size[k] THEN @ ELSE size[k] + 1]

\* buildingConstructionComplete for a production structure.  A factory gets
\* orders for siege tanks at once.
ProducerCompleted(k) ==
    /\ Event(Completing)
    /\ size[k] < MaxStructures
    /\ size' = [size EXCEPT ![k] = @ + 1]
    /\ written' = Grown(k)
    /\ Order(IF k = "FACTORY" THEN {"SIEGETANK"} ELSE {}, size', cap)
    /\ hasStarport' = (hasStarport \/ k = "STARPORT")
    /\ UNCHANGED <<cap, multiplierCounter, ordered, elapsed, town>>

\* unitDestroyed for one: vector::erase moves the others up.
ProducerDestroyed(k) ==
    /\ Event(Destroying)
    /\ size[k] > 0
    /\ size' = [size EXCEPT ![k] = @ - 1]
    /\ UNCHANGED <<written, last_used, troops, ordered, hasStarport, elapsed, town>>

\* unitDestroyed for a unit of a kind the agent counts, whoever it belongs to.
TroopLost(t) ==
    /\ Event(Destroying)
    /\ count[t] - 5 * multiplierCounter >= -MaxRefund
    /\ count' = [count EXCEPT ![t] = @ - 5 * multiplierCounter]
    /\ UNCHANGED <<lists, cap, multiplierCounter, ordered, hasStarport, elapsed, town>>

\* buildingConstructionComplete for a command center.  What is built beside it
\* only pushes BUILD tasks.
BaseCompleted(b) ==
    /\ Event(Completing)
    /\ b \notin bases
    /\ bases' = bases \union {b}
    /\ base_needs_defence' = base_needs_defence \union {b}
    /\ UNCHANGED <<lists, troops, ordered, hasStarport, elapsed, turrets>>

------------------------------------------------------------------------------
(* step()                                                                    *)

\* What is ordered for the first and only time.  has: the kinds of which a
\* structure or an add-on stands; bay: an engineering bay stands.  The starport
\* is looked for after this, so hasStarport is from the step before or from its
\* completion.
OrderedNow(has, bay) ==
    {x \in Once \ ordered :
        \/ x \in {"FACTORY", "BARRACKS"} /\ x \notin has /\ elapsed >= Past120
        \/ x = "ENGINEERINGBAY" /\ ~bay /\ elapsed >= Past500
        \/ x = "ARMORY" /\ elapsed >= Past500
        \/ x = "STARPORT" /\ ~hasStarport /\ elapsed >= Past600}

\* Mutant of Doubled: the product is kept, however large.
DoubledFreely(c) == (3 * c) \div 2

\* c *= 1.5, for an int.
Doubled(c) == IF c = IntMin \/ (3 * c) \div 2 > IntMax THEN IntMin
                                                       ELSE (3 * c) \div 2

\* multiplierCounter is an int: += 0.5 leaves it as it is.
Multiply(m) ==
    LET half  == (m > 4000 /\ multiplierCounter < 4) \/ (m > 3000 /\ multiplierCounter < 2)
        whole == ~half /\ m > 2000 /\ multiplierCounter < 1
    IN  /\ cap' = [t \in Troop |-> IF half \/ whole THEN Doubled(cap[t]) ELSE cap[t]]
        /\ multiplierCounter' = multiplierCounter + IF whole THEN 1 ELSE 0

If(condition, units) == IF condition THEN units ELSE {}

\* The units to order, by what the minerals allow.  Battlecruisers are never
\* among them: no element of starports has the type of a tech lab.
Affordable(m, has) ==
    LET banshee == If("STARPORT" \in has, {"BANSHEE"})
        factory == "FACTORY" \in has
    IN  CASE m > 2000 /\ factory -> {"MARINE", "MARAUDER"} \union banshee
          [] m > 1000 /\ m <= 2000 /\ factory -> {"THOR"} \union banshee
          [] m > 600 /\ m <= 1000 /\ factory ->
                 If("BARRACKS" \in has, {"MARINE", "MARAUDER"}) \union banshee
          [] m > 400 /\ (m <= 600 \/ ~factory) ->
                 {"MARINE", "MARAUDER"} \union banshee
          [] m > 200 /\ m <= 400 ->
                 If("BARRACKS" \in has, {"MARINE"} \union banshee)
          [] OTHER -> {}

\* A battlecruiser is due; without a fusion core, that is ordered.
NeedsFusion(m, has) ==
    /\ m > 2000 /\ {"FACTORY", "STARPORT"} \subseteq has
    /\ size["STARPORT"] > 0
    /\ count["BATTLECRUISER"] < cap'["BATTLECRUISER"]

\* Mutant of Turrets: the list of bases is not cleared.
TurretsAgain(bay) ==
    /\ turrets' = [b \in Base |->
           IF bay /\ b \in base_needs_defence THEN turrets[b] + 2 ELSE turrets[b]]
    /\ UNCHANGED base_needs_defence

\* Mutant of Turrets: the last base of the list is left out.
TurretsButLast(bay) ==
    \/ /\ bay
       /\ \E last \in base_needs_defence :
             /\ base_needs_defence' = {last}
             /\ turrets' = [b \in Base |->
                    IF b \in base_needs_defence \ {last} THEN turrets[b] + 2 ELSE turrets[b]]
    \/ ~bay /\ UNCHANGED <<turrets, base_needs_defence>>

\* Two missile turrets for each base that waits for them.
Turrets(bay) ==
    /\ turrets' = [b \in Base |->
           IF bay /\ b \in base_needs_defence THEN turrets[b] + 2 ELSE turrets[b]]
    /\ base_needs_defence' = IF bay THEN {} ELSE base_needs_defence

\* step().  The lists are filled anew with the structures that stand, in any
\* order; that changes neither their size nor the memory they use.
DefenceStep(bay) ==
    /\ Event(Defending) /\ phase # Defending
    /\ \E m \in Minerals, has \in SUBSET Producer :
          /\ \A k \in Producer : size[k] > 0 => k \in has
          /\ Multiply(m)
          /\ Order(Affordable(m, has), size, cap')
          /\ hasStarport' = ("STARPORT" \in has)
          /\ \E core \in {{}, If(NeedsFusion(m, has), {"FUSIONCORE"})} :
                ordered' = ordered \union OrderedNow(has, bay) \union core
    /\ Turrets(bay)
    /\ UNCHANGED <<size, written, elapsed, bases>>

\* step() returns at once in three of four game loops.
DefencePause ==
    /\ Event(Defending) /\ phase # Defending
    /\ UNCHANGED defenceVars

\* An event that does not concern the agent.
OtherThanDefence ==
    /\ LastCall \/ \E k \in Phases \ {Defending} : Event(k)
    /\ UNCHANGED defenceVars

DefenceNext ==
    \/ Elapse
    \/ \E k \in Producer : ProducerCompleted(k) \/ ProducerDestroyed(k)
    \/ \E t \in Troop : TroopLost(t)
    \/ \E b \in Base : BaseCompleted(b)
    \/ \E bay \in BOOLEAN : DefenceStep(bay)
    \/ DefencePause
    \/ OtherThanDefence

DefenceSpec == DefenceInit /\ [][DefenceNext]_<<phase, defenceVars>>

------------------------------------------------------------------------------
(* Properties                                                                *)

\* Types: sizes and slots are within the bounds, counts and caps are ints, and
\* the bases that wait for turrets are among the completed ones.
DefenceTypeOK ==
    /\ phase \in Phases
    /\ size \in [Producer -> 0..MaxStructures]
    /\ written \in [Producer -> 0..MaxStructures]
    /\ last_used \in [Producer -> Nat]
    /\ count \in [Troop -> -MaxRefund..IntMax]
    /\ cap \in [Troop -> {IntMin} \union 0..IntMax]
    /\ multiplierCounter \in 0..1
    /\ ordered \subseteq Once /\ hasStarport \in BOOLEAN /\ elapsed \in Times
    /\ bases \subseteq Base /\ base_needs_defence \subseteq bases
    /\ turrets \in [Base -> Nat]

\* What order*() reads at last_*_used may be behind the end of the list, but it
\* has been written: an order names a structure that stands or once stood, and
\* never whatever the memory held before.
IndexInMemory == \A k \in Producer : size[k] > 0 => last_used[k] < written[k]

\* Such an index is left by the loss of a structure only, never by orders or by
\* new structures.
Stale(k) == last_used[k] > 0 /\ last_used[k] >= size[k]

StaleByLossOnly ==
    [][\A k \in Producer : Stale(k)' /\ ~Stale(k) => size'[k] < size[k]]_<<phase, defenceVars>>

\* No more orders for a unit are counted than its cap allows, while caps grow
\* and counts shrink; but a cap that was multiplied too often becomes the
\* smallest int, and production of the unit ends.
CountsWithinCaps == \A t \in Troop : count[t] <= cap[t] \/ cap[t] = IntMin

\* That end is for good: whatever minerals come in and whatever units are lost,
\* the cap is not left again and no unit of the kind is ordered (step, order*).
ProductionEnds ==
    [][\A t \in Troop : cap[t] = IntMin => cap'[t] = IntMin /\ count'[t] <= count[t]
      ]_<<phase, defenceVars>>

\* Each base that was completed waits for its missile turrets or was given two:
\* none is forgotten and none gets them again, whenever engineering bays come
\* and go.
TwoTurrets ==
    \A b \in Base : turrets[b] = IF b \in bases \ base_needs_defence THEN 2 ELSE 0

==============================================================================
