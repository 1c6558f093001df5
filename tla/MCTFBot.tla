------------------------------ MODULE MCTFBot ------------------------------
(***************************************************************************)
(* TF_Bot for TLC.  In each game (focus) only one part of it sees events;  *)
(* every agent's step() is called in all of them.                          *)
(***************************************************************************)
EXTENDS TF_Bot

VARIABLE focus

MCCaps == [t \in Troop |-> CASE t \in {"MARINE", "THOR", "BANSHEE"} -> 2
                             [] t \in {"MARAUDER", "SIEGETANK", "BATTLECRUISER"} -> 1
                             [] t = "CYCLONE" -> 0]

MCInit == Init /\ focus \in {"scouts", "sightings", "bays", "armories", "town"} \union Producer

Same(v) == v' = v

\* The structures that appear and are lost.
Seen == CASE focus \in {"bays", "town"} -> Bay [] focus = "armories" -> Armory
          [] OTHER -> {}

\* The rest of the game stands still.
Quiet ==
    /\ focus # "scouts" => Same(<<units, owed, dropped, ordered_ccenter>>)
    /\ focus # "sightings" => Same(sightingVars)
    /\ focus \notin {"bays", "armories"} => Same(asked_of)
    /\ \A l \in Lab : l \notin Seen => lab'[l] = lab[l]
    /\ focus # "town" => Same(<<elapsed, bases>>)
    /\ focus \notin Producer => Same(troops)
    /\ \A k \in Producer \ {focus} : size'[k] = size[k]
    /\ focus # "STARPORT" => Same(hasStarport)

MCNext == Next /\ Quiet /\ UNCHANGED focus

MCSpec == MCInit /\ [][MCNext]_<<vars, focus>> /\ Fairness

==============================================================================
