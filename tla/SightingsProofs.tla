-------------------------- MODULE SightingsProofs --------------------------
(***************************************************************************)
(* Theorems about Sightings, for any set of places and any length of the   *)
(* second in game loops.                                                   *)
(***************************************************************************)
EXTENDS Sightings, TLAPS

USE DEF Destroying, Creating, Completing, Idling, Upgrading, Serving, Defending

\* A building that entered vision is in the record, with its loop.
BuildingsRecorded ==
    \A p \in Place, t \in Nat :
        <<"building", p, t>> \in entered => <<p, t>> \in detection_record

SightingInv == SightingTypeOK /\ BuildingsRecorded

\* Rounding down to seconds loses less than a second.
LEMMA RoundedDown ==
    ASSUME NEW c \in Nat
    PROVE  /\ LoopsPerSecond * (c \div LoopsPerSecond) \in Nat
           /\ LoopsPerSecond * (c \div LoopsPerSecond) <= c
           /\ c < LoopsPerSecond * (c \div LoopsPerSecond) + LoopsPerSecond
<1>1. LoopsPerSecond \in Nat /\ LoopsPerSecond > 0
  BY SightingAssumption
<1>2. c \div LoopsPerSecond \in Nat
  BY <1>1
<1>3. c = LoopsPerSecond * (c \div LoopsPerSecond) + (c % LoopsPerSecond)
  BY <1>1
<1>4. c % LoopsPerSecond \in 0..(LoopsPerSecond - 1)
  BY <1>1
<1> DEFINE q == LoopsPerSecond * (c \div LoopsPerSecond)
<1>5. q \in Nat
  BY <1>1, <1>2
<1> HIDE DEF q
<1>6. q <= c /\ c < q + LoopsPerSecond
  <2>1. c = q + (c % LoopsPerSecond)
    BY <1>3 DEF q
  <2>2. QED
    BY <1>1, <1>4, <1>5, <2>1
<1>7. QED
  BY <1>5, <1>6 DEF q

LEMMA SightingInvInit == SightingInit => SightingInv
<1>1. QED
  BY SightingAssumption
  DEF SightingInit, SightingInv, SightingTypeOK, BuildingsRecorded,
      FirstPhase, Phases

\* What an enemy that enters vision adds to the history.
LEMMA EntersKeepsType ==
    ASSUME SightingTypeOK, NEW kind \in {"building", "unit"}, NEW p \in Place,
           Enters(kind, p)
    PROVE  /\ phase' \in Phases /\ clock' = clock /\ clock \in 0..MaxLoop
           /\ entered' = entered \union {<<kind, p, clock>>}
           /\ entered' \subseteq {"building", "unit"} \X Place \X (0..clock')
           /\ <<p, clock>> \in Place \X (0..clock')
<1>1. clock' = clock /\ clock \in 0..MaxLoop /\ clock \in 0..clock /\ phase' \in Phases
  BY SightingAssumption DEF Enters, SightingTypeOK, Event, Phases
<1>2. entered' = entered \union {<<kind, p, clock>>}
  BY DEF Enters
<1>3. entered \subseteq {"building", "unit"} \X Place \X (0..clock)
  BY DEF SightingTypeOK
<1>4. <<kind, p, clock>> \in {"building", "unit"} \X Place \X (0..clock)
  BY <1>1
<1>5. QED
  BY <1>1, <1>2, <1>3, <1>4

LEMMA SightingInvNext ==
    SightingInv /\ [SightingNext]_<<phase, sightingVars>> => SightingInv'
<1> SUFFICES ASSUME SightingInv, [SightingNext]_<<phase, sightingVars>>
             PROVE  SightingInv'
  OBVIOUS
<1> USE DEF SightingInv
<1>1. CASE Tick
  <2>1. /\ detection_record' = detection_record /\ entered' = entered
        /\ phase' = phase /\ clock \in Nat /\ clock' \in 0..MaxLoop /\ clock <= clock'
    BY <1>1, SightingAssumption DEF Tick, SightingTypeOK
  <2>2. 0..clock \subseteq 0..clock'
    BY <2>1
  <2>3. SightingTypeOK'
    BY <2>1, <2>2 DEF SightingTypeOK
  <2>4. BuildingsRecorded'
    BY <2>1 DEF BuildingsRecorded
  <2>5. QED
    BY <2>3, <2>4
<1>2. ASSUME NEW p \in Place, BuildingSighted(p)
      PROVE  SightingInv'
  <2>1. /\ Enters("building", p)
        /\ detection_record' = detection_record \union {<<p, clock>>}
    BY <1>2 DEF BuildingSighted
  <2>2. /\ phase' \in Phases /\ clock' = clock /\ clock \in 0..MaxLoop
        /\ entered' = entered \union {<<"building", p, clock>>}
        /\ entered' \subseteq {"building", "unit"} \X Place \X (0..clock')
        /\ <<p, clock>> \in Place \X (0..clock')
    BY <2>1, EntersKeepsType
  <2>3. SightingTypeOK'
    BY <2>1, <2>2 DEF SightingTypeOK
  <2>4. BuildingsRecorded'
    BY <2>1, <2>2 DEF BuildingsRecorded
  <2>5. QED
    BY <2>3, <2>4
<1>3. ASSUME NEW p \in Place, UnitSighted(p)
      PROVE  SightingInv'
  <2>1. Enters("unit", p)
    BY <1>3 DEF UnitSighted
  <2>2. /\ phase' \in Phases /\ clock' = clock /\ clock \in 0..MaxLoop
        /\ entered' = entered \union {<<"unit", p, clock>>}
        /\ entered' \subseteq {"building", "unit"} \X Place \X (0..clock')
    BY <2>1, EntersKeepsType
  <2>3. /\ detection_record \subseteq detection_record'
        /\ detection_record' \subseteq detection_record \union {<<First, clock>>}
    BY <1>3 DEF UnitSighted
  <2>4. SightingTypeOK'
    <3>1. <<First, clock>> \in Place \X (0..clock)
      BY <2>2, SightingAssumption
    <3>2. detection_record \subseteq Place \X (0..clock)
      BY DEF SightingTypeOK
    <3>3. QED
      BY <2>2, <2>3, <3>1, <3>2 DEF SightingTypeOK
  <2>5. BuildingsRecorded'
    BY <2>2, <2>3 DEF BuildingsRecorded
  <2>6. QED
    BY <2>4, <2>5
<1>4. CASE OtherThanSightings
  <2>1. phase' \in Phases /\ UNCHANGED <<clock, detection_record, entered>>
    BY <1>4 DEF OtherThanSightings, LastCall, Event, Phases, sightingVars
  <2>2. QED
    BY <2>1 DEF SightingTypeOK, BuildingsRecorded
<1>5. CASE UNCHANGED <<phase, sightingVars>>
  BY <1>5 DEF sightingVars, SightingTypeOK, BuildingsRecorded
<1>6. QED
  BY <1>1, <1>2, <1>3, <1>4, <1>5 DEF SightingNext

\* The invariant says enough about queries: they compare a rounded time with
\* one that is not.
LEMMA InvGivesTime == SightingInv => SightingsInTime
<1> SUFFICES ASSUME SightingInv, NEW since \in 1..MaxLoop, NEW p \in Place
             PROVE  /\ \A t \in 0..MaxLoop :
                           <<"building", p, t>> \in entered /\ clock - t < LoopsPerSecond * since
                               => <<p, t>> \in LastSeen(p, since)
                    /\ \A r \in LastSeen(p, since) :
                           clock - r[2] < LoopsPerSecond * (since + 1)
  BY DEF SightingsInTime
<1> DEFINE now == LoopsPerSecond * (clock \div LoopsPerSecond)
           age == LoopsPerSecond * since
<1>1. clock \in Nat /\ LoopsPerSecond \in Nat /\ since \in Nat
  BY SightingAssumption DEF SightingInv, SightingTypeOK
<1>2. now \in Nat /\ now <= clock /\ clock < now + LoopsPerSecond
  BY <1>1, RoundedDown
<1>3. age \in Nat /\ LoopsPerSecond * (since + 1) = age + LoopsPerSecond
  BY <1>1
<1>4. \A r : r \in LastSeen(p, since) <=>
                 r \in detection_record /\ r[1] = p /\ now - r[2] < age
  BY DEF LastSeen
<1> HIDE DEF now, age
<1>5. ASSUME NEW t \in 0..MaxLoop, <<"building", p, t>> \in entered,
             clock - t < LoopsPerSecond * since
      PROVE  <<p, t>> \in LastSeen(p, since)
  <2>1. <<p, t>> \in detection_record
    BY <1>5, SightingAssumption DEF SightingInv, BuildingsRecorded
  <2>2. clock - t < age
    BY <1>5 DEF age
  <2>3. now - t < age
    BY <1>1, <1>2, <1>3, <2>2
  <2>4. <<p, t>>[1] = p /\ <<p, t>>[2] = t
    OBVIOUS
  <2>5. QED
    BY <1>4, <2>1, <2>3, <2>4
<1>6. ASSUME NEW r \in LastSeen(p, since)
      PROVE  clock - r[2] < LoopsPerSecond * (since + 1)
  <2>1. r \in Place \X (0..clock) /\ now - r[2] < age
    BY <1>4 DEF SightingInv, SightingTypeOK
  <2>2. r[2] \in Int
    BY <1>1, <2>1
  <2>3. QED
    BY <1>1, <1>2, <1>3, <2>1, <2>2
<1>7. QED
  BY <1>5, <1>6

\* The invariant holds in every reachable state.
THEOREM SightingInvariant == SightingSpec => []SightingInv
<1>1. QED
  BY SightingInvInit, SightingInvNext, PTL DEF SightingSpec

\* Type correctness.
THEOREM SightingTypeCorrect == SightingSpec => []SightingTypeOK
<1>1. SightingInv => SightingTypeOK
  BY DEF SightingInv
<1>2. QED
  BY <1>1, SightingInvariant, PTL

\* Queries miss nothing and return nothing too old, however many game loops a
\* second has.
THEOREM QueriesInTime == SightingSpec => []SightingsInTime
<1>1. QED
  BY InvGivesTime, SightingInvariant, PTL

==============================================================================
