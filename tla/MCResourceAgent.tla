--------------------------- MODULE MCResourceAgent ---------------------------
(***************************************************************************)
(* Instances of ResourceAgent.  Costs are those of the game; a task object *)
(* is one that the agents push (Task constructors in DEFENCE_BOT.cpp,      *)
(* TroopManager.hpp, BaseManager.hpp, SCOUT_BOT.cpp).                      *)
(***************************************************************************)
EXTENDS ResourceAgent

CONSTANTS s1, s2, s3, b1  \* units: SCVs, and a barracks

Build(n, a, p, y) == [id |-> n, action |-> "BUILD", source |-> a,
                      priority |-> p, what |-> y]
Trains(n, a, p, y, m) == [id |-> n, action |-> "TRAIN", source |-> a,
                          priority |-> p, what |-> y, maker |-> m]
Repair(n, p, x, c) == [id |-> n, action |-> "REPAIR", target |-> x, count |-> c,
                       source |-> "RESOURCE_AGENT", priority |-> p]
Upgrade(n, p, w) == [id |-> n, action |-> "UPGRADE", source |-> "DEFENCE_AGENT",
                     priority |-> p, what |-> w]
\* garbage is what the uninitialised member source happens to hold.
Harvest(n, garbage) == [id |-> n, action |-> "HARVEST", source |-> garbage,
                        priority |-> 11]
Transfer(n, a, u) == [id |-> n, action |-> "TRANSFER", source |-> a,
                      priority |-> 11, self |-> u]

Pay(f, m, v) == [food |-> f, minerals |-> m, vespene |-> v]

MCCost == [y \in {"SCV", "MARINE", "MARAUDER", "DEPOT", "BARRACKS", "REFINERY",
                  "ARMOR1"} |->
             CASE y = "SCV"      -> Pay(1, 50, 0)
               [] y = "MARINE"   -> Pay(1, 50, 0)
               [] y = "MARAUDER" -> Pay(2, 100, 25)
               [] y = "DEPOT"    -> Pay(0, 100, 0)
               [] y = "BARRACKS" -> Pay(0, 150, 0)
               [] y = "REFINERY" -> Pay(0, 75, 0)
               [] y = "ARMOR1"   -> Pay(0, 100, 100)]

MCUnitType == {"SCV", "MARINE", "MARAUDER", "DEPOT", "BARRACKS", "REFINERY"}

See(m, v, used, cap, t, n, makers) ==
    [minerals |-> m, vespene |-> v, foodUsed |-> used, foodCap |-> cap,
     time |-> t, bases |-> n, makers |-> makers]

\* Every branch of step(): too early for a depot, low supply with and without
\* the minerals for a depot, supply in excess of the cap, the maximum cap.
Both == {"CC", "RAX"}
DrainObservation ==
    { See(50, 0, 12, 15, 0, 1, {"CC"}),
      See(200, 100, 14, 15, 60, 1, Both),
      See(75, 25, 26, 31, 60, 2, Both),
      See(100, 25, 16, 15, 60, 1, Both),
      See(50, 25, 199, 200, 900, 3, Both) }

DrainDepots == { Build(1, "RESOURCE_AGENT", 10, "DEPOT"),
                 Build(2, "RESOURCE_AGENT", 10, "DEPOT") }
DrainTasks == DrainDepots \union
    { Trains(3, "RESOURCE_AGENT", 8, "SCV", "CC"),
      Trains(4, "ATTACK_AGENT", 6, "MARAUDER", "RAX"),
      Repair(5, 8, "x", 1),
      Repair(6, 7, "x", 1),
      Upgrade(7, 7, "ARMOR1"),
      Harvest(8, "RESOURCE_AGENT"),
      Harvest(9, "ATTACK_AGENT"),
      Transfer(10, "SCOUT_AGENT", AnyScv) }

\* The tasks that can wait, and one that cannot, for the liveness properties.
LiveTasks == {t \in DrainTasks : t.action \in {"BUILD", "TRAIN", "UPGRADE", "HARVEST"}}

\* The second SCV, where it is not there from the start, is one that was trained.
DrainTypeOf == [u \in {s1, s2} |-> "SCV"]

\* Units of every origin: there from the start, ordered by one agent or by
\* several, and a structure of the type that an add-on task names.
RoutingUnitType == {"SCV", "BARRACKS"}
RoutingTypeOf == [u \in {s1, s2, s3, b1} |->
                    IF u = b1 THEN "BARRACKS" ELSE "SCV"]
RoutingSymmetry == Permutations({s2, s3})

RoutingTasks ==
    { Trains(1, "RESOURCE_AGENT", 8, "SCV", "CC"),
      Trains(2, "SCOUT_AGENT", 6, "SCV", "CC"),
      Trains(3, "ATTACK_AGENT", 8, "BARRACKS", "RAX") }

RoutingObservation == { See(800, 200, 20, 100, 0, 1, Both) }
==============================================================================
