------------------------------ MODULE TaskQueue ------------------------------
(***************************************************************************)
(* The vocabulary the agents share (Task.hpp) and the order in which a     *)
(* threadsafe_priority_queue<Task> gives tasks back.                       *)
(*                                                                         *)
(* A queue is a set of task objects: two objects with the same contents    *)
(* are two elements, told apart by their field id.  std::priority_queue    *)
(* promises nothing about the order of tasks that compare equal, so pop()  *)
(* may return any maximal element.                                         *)
(*                                                                         *)
(* The constructors for HARVEST and for scouting tasks leave the member    *)
(* source unset, and operator< reads it all the same.  Such a task object  *)
(* may have any source: with four ranks, a comparison with it may have     *)
(* every outcome.                                                          *)
(***************************************************************************)
EXTENDS Integers

AgentActions == {"HARVEST", "BUILD", "TRAIN", "REPAIR", "MOVE", "UPGRADE",
                 "TRANSFER"}

SourceAgent == {"RESOURCE_AGENT", "DEFENCE_AGENT", "SCOUT_AGENT",
                "ATTACK_AGENT"}

\* The position of an agent in enum SourceAgent.
Rank(a) == CASE a = "RESOURCE_AGENT" -> 0
             [] a = "DEFENCE_AGENT"  -> 1
             [] a = "SCOUT_AGENT"    -> 2
             [] a = "ATTACK_AGENT"   -> 3

\* Task::operator<.  At equal priority the agent declared first is preferred.
Less(t, u) ==
    \/ t.priority < u.priority
    \/ /\ t.priority = u.priority
       /\ Rank(t.source) > Rank(u.source)

\* The tasks that pop() may return.
Tops(queue) == {t \in queue : \A u \in queue : ~Less(t, u)}

==============================================================================
