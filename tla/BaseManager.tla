----------------------------- MODULE BaseManager -----------------------------
(***************************************************************************)
(* BaseManager: which command centers the bot has, which of them still     *)
(* have something to mine, and when to ask for another one.                *)
(*                                                                         *)
(* A command center is in active_bases from the moment its construction    *)
(* starts; when nothing is left around it, step() moves it to              *)
(* isolated_bases; when it is destroyed, deleteUnit takes it out.  For a   *)
(* new one, step() pushes a BUILD task into the resource agent's queue;    *)
(* those tasks are all alike, so their number is all there is to know.     *)
(*                                                                         *)
(* step() erases from active_bases inside a range-based for over it.  The  *)
(* loop computed its end before; erase moves the elements behind by one    *)
(* and leaves the last slot with what was moved out of it, so the loop     *)
(* skips one base and visits, at the end, slots behind the vector's size.  *)
(* The standard leaves this undefined.  The release build visits a copy of *)
(* the base: its tag and its flag transfer are there, its two lists are    *)
(* empty and filled again.  "stale" is the contents of those slots.        *)
(*                                                                         *)
(* Its other pushes (HARVEST, REPAIR, refineries, TRAIN) neither read nor  *)
(* change this state; to the resource agent they are tasks of AddTask.     *)
(***************************************************************************)
EXTENDS Integers, Sequences, SequencesExt, FiniteSets

CONSTANTS
    Center,       \* every command center that may exist
    NoUnit,       \* the tag -1 of a base that has no command center yet
    Second,       \* 16, SCVs at which a second active base is asked for
    Third,        \* 38, SCVs at which a third one is
    MaxRequests,  \* bound: tasks for a command center in the queue
    MaxScvs,      \* bound: SCVs of the resource agent
    MaxDrift      \* bound: SCVs of the scout agent that are destroyed

ASSUME BaseAssumption ==
    /\ NoUnit \notin Center
    /\ Center \cap {"none", "walking"} = {}
    /\ Second \in Nat /\ Third \in Nat
    /\ MaxRequests \in Nat \ {0} /\ MaxScvs \in Nat /\ MaxDrift \in Nat

VARIABLES
    active,     \* active_bases: [command, transfer]
    isolated,   \* isolated_bases: command centers
    scv_count,
    requests,   \* BUILD tasks for a command center in the queue
    status,     \* per center, what it is in the game
    field,      \* per center that exists, what is left around it; else "rich"
    builder,    \* what the SCV with the order to build a center does: "none"
                \*   (there is none), "walking", or which center it builds
    scvs,       \* living SCVs that addUnit was told of
    phase,      \* "events" between steps; "active", "rest": where step() is
    at, upTo,   \* step(): the slot its loop is at, and the last one
    stale       \* step(): what is left in the slots behind the vector

lists == <<active, isolated>>
game == <<status, field, builder, scvs>>
loop == <<phase, at, upTo, stale>>
vars == <<lists, scv_count, requests, game, loop>>

\* "rich": more than 4 mineral fields and more than 1 geyser; "gasless": more
\* than 4 mineral fields only; "poor": fewer, but something; "none": nothing.
Level == {"rich", "gasless", "poor", "none"}

\* What is left when there is less, or when part of it is not seen.
Less(f) == CASE f = "rich" -> {"gasless", "poor", "none"}
             [] f = "gasless" -> {"poor", "none"}
             [] f = "poor" -> {"none"}
             [] f = "none" -> {}

\* What a center is: "new" is one that has just been built, and whose
\* surroundings have not all come into view.
Status == {"none", "building", "new", "ready", "dead"}

Base == [command : Center \union {NoUnit}, transfer : BOOLEAN]

Alive(c) == status[c] \in {"building", "new", "ready"}

Init ==
    /\ active = <<[command |-> NoUnit, transfer |-> FALSE]>>
    /\ isolated = <<>>
    /\ scv_count = 0
    /\ requests = 0
    /\ status = [c \in Center |-> "none"]
    /\ field = [c \in Center |-> "rich"]
    /\ builder = "none"
    /\ scvs = 0
    /\ phase = "events"
    /\ at = 1 /\ upTo = 0 /\ stale = <<>>

------------------------------------------------------------------------------
(* The game and the resource agent, between two steps.                       *)

\* Minerals and vespene around a center are used up.
Deplete(c) ==
    /\ phase = "events"
    /\ status[c] = "ready"
    /\ \E f \in Less(field[c]) : field' = [field EXCEPT ![c] = f]
    /\ UNCHANGED <<lists, scv_count, requests, status, builder, scvs, loop>>

\* Construction of a center is complete; its SCV is free.
Complete(c) ==
    /\ phase = "events"
    /\ status[c] = "building"
    /\ status' = [status EXCEPT ![c] = "new"]
    /\ builder' = IF builder = c THEN "none" ELSE builder
    /\ UNCHANGED <<lists, scv_count, requests, field, scvs, loop>>

\* All that surrounds a new center has come into view.
Uncover(c) ==
    /\ phase = "events"
    /\ status[c] = "new"
    /\ status' = [status EXCEPT ![c] = "ready"]
    /\ UNCHANGED <<lists, scv_count, requests, field, builder, scvs, loop>>

\* The SCV dies, or the game rejects the order.
LoseBuilder ==
    /\ phase = "events"
    /\ builder # "none"
    /\ builder' = "none"
    /\ UNCHANGED <<lists, scv_count, requests, status, field, scvs, loop>>

\* The resource agent's loop pops a BUILD task for a command center that it
\* can pay.  Where an SCV is seen with that order, or no SCV or place is found,
\* the task is lost.
Serve ==
    /\ phase = "events"
    /\ requests > 0
    /\ requests' = requests - 1
    /\ \/ builder = "none" /\ builder' = "walking"
       \/ UNCHANGED builder
    /\ UNCHANGED <<lists, scv_count, status, field, scvs, loop>>

------------------------------------------------------------------------------
(* The events it handles.                                                    *)

Commands(s) == {s[i].command : i \in DOMAIN s}
Isolated == {isolated[i] : i \in DOMAIN isolated}
Distinct(s) == \A i, j \in DOMAIN s : s[i].command = s[j].command => i = j
NewBase(c) == [command |-> c, transfer |-> FALSE]

\* Mutant of WithBase: a lone base is overwritten, whatever it is.
WithBaseOverwriting(c) ==
    IF Len(active) = 1
    THEN <<[active[1] EXCEPT !.command = c]>>
    ELSE Append(active, NewBase(c))

\* addUnit for a command center: the first one gets the base that was made
\* for the SCVs that were there before it.
WithBase(c) ==
    IF Len(active) = 1 /\ active[1].command = NoUnit
    THEN <<[active[1] EXCEPT !.command = c]>>
    ELSE Append(active, NewBase(c))

\* The center the game starts with.
Start(c) ==
    /\ phase = "events"
    /\ \A d \in Center : status[d] = "none"
    /\ status' = [status EXCEPT ![c] = "ready"]
    /\ active' = WithBase(c)
    /\ UNCHANGED <<isolated, scv_count, requests, field, builder, scvs, loop>>

\* The SCV has begun to build a center.
Create(c) ==
    /\ phase = "events"
    /\ builder = "walking"
    /\ status[c] = "none"
    /\ builder' = c
    /\ status' = [status EXCEPT ![c] = "building"]
    /\ active' = WithBase(c)
    /\ UNCHANGED <<isolated, scv_count, requests, field, scvs, loop>>

\* addUnit for an SCV.
AddScv ==
    /\ phase = "events"
    /\ scvs < MaxScvs
    /\ scvs' = scvs + 1
    /\ scv_count' = scv_count + 1
    /\ UNCHANGED <<lists, requests, status, field, builder, loop>>

\* Mutant of DeleteScv: the check of the alliance is missing.
DeleteAnyScv ==
    /\ phase = "events"
    /\ scvs' \in {scvs, scvs - 1} \ {-1}
    /\ scv_count' = scv_count - 1
    /\ UNCHANGED <<lists, requests, status, field, builder, loop>>

\* Mutant of DeleteScv: the count is not brought down.
DeleteUncounted ==
    /\ phase = "events"
    /\ scvs > 0
    /\ scvs' = scvs - 1
    /\ UNCHANGED <<lists, scv_count, requests, status, field, builder, loop>>

\* deleteUnit for an SCV that addUnit was told of.
DeleteScv ==
    /\ phase = "events"
    /\ scvs > 0
    /\ scvs' = scvs - 1
    /\ scv_count' = scv_count - 1
    /\ UNCHANGED <<lists, requests, status, field, builder, loop>>

\* deleteUnit for an SCV of the scout agent, which addUnit never was told of.
DeleteScout ==
    /\ phase = "events"
    /\ scvs - scv_count < MaxDrift
    /\ scv_count' = scv_count - 1
    /\ UNCHANGED <<lists, requests, game, loop>>

Earliest(S) == {i \in S : \A j \in S : i <= j}
ActiveAt(c) == {i \in DOMAIN active : active[i].command = c}
IsolatedAt(c) == {i \in DOMAIN isolated : isolated[i] = c}

\* deleteUnit for a command center: one entry is erased, in the list where one
\* is found first.
Forget(c) ==
    IF ActiveAt(c) # {}
    THEN /\ \E i \in Earliest(ActiveAt(c)) : active' = RemoveAt(active, i)
         /\ UNCHANGED isolated
    ELSE /\ IF IsolatedAt(c) = {}
            THEN isolated' = isolated
            ELSE \E i \in Earliest(IsolatedAt(c)) : isolated' = RemoveAt(isolated, i)
         /\ UNCHANGED active

\* A center is destroyed, or its construction is.
Destroy(c) ==
    /\ phase = "events"
    /\ Alive(c)
    /\ status' = [status EXCEPT ![c] = "dead"]
    /\ field' = [field EXCEPT ![c] = "rich"]
    /\ builder' = IF builder = c THEN "none" ELSE builder
    /\ Forget(c)
    /\ UNCHANGED <<scv_count, requests, scvs, loop>>

------------------------------------------------------------------------------
(* step(), every fourth game loop.                                           *)

Observed(c) == c # NoUnit /\ Alive(c)

StepBegin ==
    /\ phase = "events"
    /\ phase' = "active"
    /\ at' = 1 /\ upTo' = Len(active)
    /\ UNCHANGED <<lists, scv_count, requests, game, stale>>

\* The slot the loop is at, a base of the vector or what erase has left.
Here == IF at <= Len(active) THEN active[at] ELSE stale[at - Len(active)]

Return ==
    /\ phase' = "events"
    /\ at' = 1 /\ upTo' = 0 /\ stale' = <<>>

Advance ==
    /\ at' = at + 1
    /\ UNCHANGED <<phase, upTo>>

Requested(n) == IF requests + n <= MaxRequests THEN requests + n ELSE MaxRequests

\* What findResources may find: "when a command center is just built not all
\* resources are in vision".
Found(c) == {field[c]} \union (IF status[c] = "new" THEN Less(field[c]) ELSE {})

\* ideal_harvesters > 8, two for each mineral field, seen or not.
Many(c) == field[c] \in {"rich", "gasless"}

\* Mutant of RunsOut: the flag transfer is not looked at.
RunsOutAgain(b, f) == f # "rich"

\* startTransfer, when f is found.
RunsOut(b, f) == f # "rich" /\ ~b.transfer

\* startTransfer sets the flag of a base before ideal_harvesters is looked at.
Flagged(s, i) == IF i \in DOMAIN s THEN [s EXCEPT ![i].transfer = TRUE] ELSE s

\* Mutant of Isolate: the base is not erased from active_bases.
IsolateOnly(b, bases, rest) ==
    /\ isolated' = Append(isolated, b.command)
    /\ active' = bases /\ stale' = rest
    /\ UNCHANGED requests

\* Mutant of Isolate: erased first, then pushed through the reference, which is
\* to the base behind it now.
IsolateErasedFirst(b, bases, rest) ==
    /\ isolated' = Append(isolated, IF at < Len(active) THEN active[at + 1].command
                                   ELSE b.command)
    /\ IF ActiveAt(b.command) = {}
       THEN active' = bases /\ stale' = rest
       ELSE \E i \in Earliest(ActiveAt(b.command)) :
              /\ active' = RemoveAt(bases, i)
              /\ stale' = <<bases[Len(bases)]>> \o rest
    /\ UNCHANGED requests

\* The base is moved: pushed to one list, erased from the other.  erase keeps
\* the contents of the last slot, which is now behind the vector.
Isolate(b, bases, rest) ==
    /\ isolated' = Append(isolated, b.command)
    /\ IF ActiveAt(b.command) = {}
       THEN active' = bases /\ stale' = rest
       ELSE \E i \in Earliest(ActiveAt(b.command)) :
              /\ active' = RemoveAt(bases, i)
              /\ stale' = <<bases[Len(bases)]>> \o rest
    /\ UNCHANGED requests

\* What a turn does with a base around which f is found.  While there are many
\* minerals no center is asked for, then or, the flag being set, later; and if
\* none of them is seen, the base is given up there and then.
Deal(b, f) ==
    LET out == RunsOut(b, f)
        asks == out /\ ~Many(b.command)
        bases == IF out THEN Flagged(active, at) ELSE active
        rest == IF out THEN Flagged(stale, at - Len(active)) ELSE stale
    IN  \/ /\ ~asks /\ f = "none"
           /\ Isolate(b, bases, rest)
        \/ /\ asks \/ f # "none"
           /\ active' = bases /\ stale' = rest
           /\ requests' = IF asks THEN Requested(1) ELSE requests
           /\ UNCHANGED isolated

\* One turn of the loop over the active bases.
Visit ==
    /\ phase = "active" /\ at <= upTo
    /\ UNCHANGED <<scv_count, game>>
    /\ LET b == Here
       IN  \/ /\ ~Observed(b.command)
              /\ Return
              /\ UNCHANGED <<lists, requests>>
           \/ /\ Observed(b.command)
              /\ Advance
              /\ IF status[b.command] = "building"
                 THEN UNCHANGED <<lists, requests, stale>>
                 ELSE \E f \in Found(b.command) : Deal(b, f)

ActiveDone ==
    /\ phase = "active" /\ at > upTo
    /\ phase' = "rest"
    /\ at' = 1 /\ upTo' = 0 /\ stale' = <<>>
    /\ UNCHANGED <<lists, scv_count, requests, game>>

\* Mutant of Wanted: a new center is asked for only when there are SCVs.
WantedWithScvsOnly ==
    \/ Len(active) < 2 /\ scv_count >= Second
    \/ Len(active) < 3 /\ scv_count >= Third

\* Whether a command center is to be built.
Wanted ==
    \/ Len(active) + Len(isolated) = 0
    \/ Len(active) < 2 /\ scv_count >= Second
    \/ Len(active) < 3 /\ scv_count >= Third

\* The loop over the isolated bases, which returns from step() where a center
\* is not observed, and what follows it.
StepEnd ==
    /\ phase = "rest"
    /\ requests' = IF (\A c \in Isolated : Observed(c)) /\ Wanted
                   THEN Requested(1) ELSE requests
    /\ Return
    /\ UNCHANGED <<lists, scv_count, game>>

------------------------------------------------------------------------------
Game == \/ \E c \in Center : Deplete(c) \/ Complete(c) \/ Uncover(c)
        \/ LoseBuilder \/ Serve

Events == \/ \E c \in Center : Start(c) \/ Create(c) \/ Destroy(c)
          \/ AddScv \/ DeleteScv \/ DeleteScout

Next == Game \/ Events \/ StepBegin \/ Visit \/ ActiveDone \/ StepEnd

Spec == Init /\ [][Next]_vars

\* step() is called over and over, and runs.
FairSpec == /\ Spec
            /\ WF_vars(StepBegin)
            /\ WF_vars(Visit \/ ActiveDone \/ StepEnd)

------------------------------------------------------------------------------
(* Properties                                                                *)

TypeOK ==
    /\ active \in Seq(Base)
    /\ isolated \in Seq(Center)
    /\ scv_count \in -MaxDrift..MaxScvs
    /\ requests \in 0..MaxRequests
    /\ status \in [Center -> Status]
    /\ field \in [Center -> Level]
    /\ builder \in {"none", "walking"} \union Center
    /\ scvs \in 0..MaxScvs
    /\ phase \in {"events", "active", "rest"}
    /\ at \in Nat \ {0} /\ upTo \in Nat
    /\ stale \in Seq(Base)

\* Every command center that stands or is being built is in one of the lists,
\* at every point of step(): none is forgotten when a base is added to a list
\* of one, or moved while the loop runs over the vector it is erased from
\* (addUnit, deleteUnit, step).
NoBaseLost ==
    \A c \in Center : Alive(c) => c \in Commands(active) \union Isolated

\* A base is listed as active once, is not isolated then, and is alive: SCVs
\* are sent to the bases of this list in its order, and one that is dead makes
\* step() and assign_minerals give up (step, deleteUnit, assign_minerals).
ActiveOnce ==
    /\ Distinct(active)
    /\ Commands(active) \cap Isolated = {}
    /\ \A c \in Commands(active) \ {NoUnit} : Alive(c)

\* A base whose surroundings are in view is given up only when nothing is left
\* there, whatever slot the loop finds it in and whatever it has erased before.
\* Of one that is just built this is not so: it may be given up at first sight
\* (step, findResources, depleted).
IsolatedDepleted ==
    [][\A c \in Center : c \in Isolated' \ Isolated /\ status[c] = "ready"
                             => field[c] = "none"]_vars

\* scv_count never says more than there are: no base is asked for earlier than
\* its number of SCVs says.  It may say less, since the SCVs of the scout agent
\* are subtracted and were not added (addUnit, deleteUnit).
NeverOvercounts == scv_count <= scvs

\* A base with nothing left is moved out of the active ones sooner or later,
\* unless it is destroyed before: the SCVs do not stay with it (step).
DepletedMoved ==
    \A c \in Center :
        status[c] = "ready" /\ field[c] = "none"
            ~> c \notin Commands(active)

\* "to stay alive as long as possible" (step): when the last command center is
\* gone and no entry is left, one is asked for.
AsksAgain ==
    Len(active) + Len(isolated) = 0
        ~> requests > 0 \/ \E c \in Center : Alive(c)

\* "it is necessary to remove the base so scvs will be properly assigned"
\* (deleteUnit): no list holds a center that is destroyed.
DeadForgotten ==
    \A c \in Center : status[c] = "dead" => c \notin Commands(active) \union Isolated

\* "Currently this will build 3 command centers" (BaseManager): as long as none
\* of them runs out of resources or is taken to, there are no more than that.
ThreeBases ==
    isolated = <<>> /\ (\A c \in Center : field[c] = "rich") => Len(active) <= 3

==============================================================================
