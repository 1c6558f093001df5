------------------------------ MODULE OrderBook ------------------------------
(***************************************************************************)
(* What the other agents may rely on when they order units through the     *)
(* resource agent.  An order is a debt: so many units of a type are owed   *)
(* to an agent.  A new unit pays one debt of its type if there is one, and *)
(* is the resource agent's otherwise.  Which of the creditors of a type is *)
(* paid first is left open.                                                *)
(***************************************************************************)
EXTENDS Integers

CONSTANTS Agent, Resource, Unit, UnitType, TypeOf, StartUnits

VARIABLES owed,   \* units owed, per agent and type
          roster  \* the units each agent was given and still has

Init ==
    /\ owed = [d \in Agent \X UnitType |-> 0]
    /\ roster = [a \in Agent |-> IF a = Resource THEN StartUnits ELSE {}]

Give(a, u) == roster' = [roster EXCEPT ![a] = @ \union {u}]

\* Agent a orders a unit of type y.
Place(a, y) ==
    /\ owed' = [owed EXCEPT ![<<a, y>>] = @ + 1]
    /\ UNCHANGED roster

\* A new unit pays a debt.
Pay(u, a) ==
    /\ owed[<<a, TypeOf[u]>>] > 0
    /\ owed' = [owed EXCEPT ![<<a, TypeOf[u]>>] = @ - 1]
    /\ Give(a, u)

\* A new unit that nobody is owed.
Keep(u) ==
    /\ \A a \in Agent : owed[<<a, TypeOf[u]>>] = 0
    /\ Give(Resource, u)
    /\ UNCHANGED owed

\* A unit dies.
Forget(u) ==
    /\ roster' = [a \in Agent |-> roster[a] \ {u}]
    /\ UNCHANGED owed

Next ==
    \/ \E a \in Agent, y \in UnitType : Place(a, y)
    \/ \E u \in Unit, a \in Agent : Pay(u, a)
    \/ \E u \in Unit : Keep(u) \/ Forget(u)

Spec == Init /\ [][Next]_<<owed, roster>>

==============================================================================
