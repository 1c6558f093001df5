------------------------------ MODULE Sightings ------------------------------
(***************************************************************************)
(* The scout agent's detection_record: what unitEnterVision writes into it *)
(* and what last_seen_near, which all other agents call, reads from it.    *)
(*                                                                         *)
(* A record is a place and the game loop it was made in; the code keeps    *)
(* the loop as seconds in a float.  A query asks for one place: which      *)
(* places lie within its radius is left out.  The place of a unit is the   *)
(* point of interest nearest to it.                                        *)
(***************************************************************************)
EXTENDS GameLoop, FiniteSets

CONSTANTS
    Place,           \* poi; buildings of the enemy are sighted at such points
    First,           \* poi[0]
    LoopsPerSecond,  \* 16 in the code
    MaxLoop,         \* bound: game loops
    MaxSightings     \* bound: enemies that enter vision

ASSUME SightingAssumption ==
    /\ First \in Place
    /\ LoopsPerSecond \in Nat \ {0}
    /\ MaxLoop \in Nat
    /\ MaxSightings \in Nat

VARIABLES
    clock,            \* GetGameLoop()
    detection_record,
    entered           \* history: what kind of enemy came into vision where
                      \* and in which loop

sightingVars == <<clock, detection_record, entered>>

SightingInit ==
    /\ FirstPhase
    /\ clock = 0
    /\ detection_record = {}
    /\ entered = {}

\* The game goes on; between two observations any number of loops may pass.
Tick ==
    /\ FirstPhase /\ UNCHANGED phase
    /\ clock < MaxLoop
    /\ clock' \in clock + 1 .. MaxLoop
    /\ UNCHANGED <<detection_record, entered>>

Enters(kind, p) ==
    /\ Event(Creating)
    /\ entered' = entered \union {<<kind, p, clock>>}
    /\ Cardinality(entered') <= MaxSightings
    /\ UNCHANGED clock

\* Mutant of BuildingSighted: the time is rounded up to seconds.
BuildingSightedRounded(p) ==
    /\ Enters("building", p)
    /\ LET second == (clock + LoopsPerSecond - 1) \div LoopsPerSecond
       IN  detection_record' = detection_record \union {<<p, LoopsPerSecond * second>>}

\* unitEnterVision for a building: a record of where it stands.
BuildingSighted(p) ==
    /\ Enters("building", p)
    /\ detection_record' = detection_record \union {<<p, clock>>}

\* unitEnterVision for any other unit, which is nearest to p.  The search for
\* the nearest point of interest measures from poi[0], where it starts, and not
\* from the unit, so it always ends there; and if poi[0] has a record already,
\* no other is made.
UnitSighted(p) ==
    /\ Enters("unit", p)
    /\ IF \E r \in detection_record : r[1] = First
       THEN UNCHANGED detection_record
       ELSE detection_record' = detection_record \union {<<First, clock>>}

\* Mutant of LastSeen: both times are rounded to seconds.
LastSeenRounded(p, since) ==
    {r \in detection_record :
        /\ r[1] = p
        /\ clock \div LoopsPerSecond - r[2] \div LoopsPerSecond < since}

\* last_seen_near: its now is rounded down to seconds, the record's time is not.
LastSeen(p, since) ==
    {r \in detection_record :
        /\ r[1] = p
        /\ LoopsPerSecond * (clock \div LoopsPerSecond) - r[2]
               < LoopsPerSecond * since}

\* An event that brings no enemy into vision.
OtherThanSightings == (LastCall \/ \E k \in Phases : Event(k)) /\ UNCHANGED sightingVars

SightingNext ==
    \/ Tick
    \/ \E p \in Place : BuildingSighted(p) \/ UnitSighted(p)
    \/ OtherThanSightings

SightingSpec == SightingInit /\ [][SightingNext]_<<phase, sightingVars>>

------------------------------------------------------------------------------
(* Properties                                                                *)

\* Types: records and history are places with a loop that has been played.
SightingTypeOK ==
    /\ phase \in Phases
    /\ clock \in 0..MaxLoop
    /\ detection_record \subseteq Place \X (0..clock)
    /\ entered \subseteq {"building", "unit"} \X Place \X (0..clock)

\* A query misses no building that entered vision less than since seconds ago,
\* and returns nothing that is older than since seconds by a second or more,
\* although the two times it compares are rounded differently and nothing is
\* ever taken out of the record.
SightingsInTime ==
    \A since \in 1..MaxLoop, p \in Place :
        /\ \A t \in 0..MaxLoop :
              <<"building", p, t>> \in entered /\ clock - t < LoopsPerSecond * since
                  => <<p, t>> \in LastSeen(p, since)
        /\ \A r \in LastSeen(p, since) :
              clock - r[2] < LoopsPerSecond * (since + 1)

\* "For building types record location; Else record nearest base location"
\* (SCOUT_BOT.cpp:221): a unit that is not a building may find an earlier record
\* in its place and leave none itself, but there is a record of the point of
\* interest that is nearest to it.
NearestRecorded ==
    \A e \in entered : e[1] = "unit" => \E r \in detection_record : r[1] = e[2]

==============================================================================
