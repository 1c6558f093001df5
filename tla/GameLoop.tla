------------------------------ MODULE GameLoop ------------------------------
(***************************************************************************)
(* One game loop as the client library issues it: events of one kind after *)
(* those of another, then OnStep(), which calls the step() of each agent.  *)
(* Everything happens on one thread; an agent's module says at which phase *)
(* each of its handlers runs.                                              *)
(***************************************************************************)
EXTENDS Integers

VARIABLE phase  \* the kind of the last event or call of this loop

\* The order of ControlImp::IssueEvents, and of OnStep after it.  Enemies that
\* enter vision belong to Creating; the attack agent steps after Serving.
Destroying == 1
Creating   == 2
Completing == 3
Idling     == 4
Upgrading  == 5
Serving    == 6  \* the resource agent's step()
Defending  == 7  \* the defence agent's step()

Phases == Destroying..Defending

FirstPhase == phase = Destroying

\* An event of kind k: kinds that do not occur in this loop are passed over.
Event(k) == phase <= k /\ phase' = k

\* The scout agent's step() comes last, and the next loop begins.
LastCall == phase = Defending /\ phase' = Destroying

==============================================================================
