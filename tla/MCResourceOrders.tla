--------------------------- MODULE MCResourceOrders ---------------------------
(***************************************************************************)
(* ResourceAgent for TLC, with two sorts of games (focus): in "waiting"    *)
(* the tasks are those that can wait, and units neither appear nor order   *)
(* others; in "routing" units of every origin come and go, and all that is *)
(* ordered can be paid.                                                    *)
(***************************************************************************)
EXTENDS MCResourceAgent

VARIABLE focus

BothTasks == LiveTasks \union RoutingTasks
BothObservations == DrainObservation \union RoutingObservation

OrderedType == {"SCV", "MARAUDER", "DEPOT", "BARRACKS"}

Tasks == IF focus = "waiting" THEN LiveTasks ELSE RoutingTasks
Seen == IF focus = "waiting" THEN DrainObservation ELSE RoutingObservation

MCInit == Init /\ focus \in {"waiting", "routing"} /\ obs \in Seen

MCNext ==
    /\ Next
    /\ queue' \subseteq Tasks /\ obs' \in Seen
    /\ focus = "waiting" =>
          /\ born' = born
          /\ \A t \in queue' \ queue : t.action = "TRAIN" => ordered_units = <<>>
    /\ UNCHANGED focus

MCSpec == MCInit /\ [][MCNext]_<<vars, focus>> /\ Fairness
==============================================================================
