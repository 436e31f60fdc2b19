---------------------------- MODULE MCSystemData ----------------------------
(* SystemData with at most MaxCommands commands; the tasks are alike.  A   *)
(* restart begins only while the bound on boots lets it end.               *)
EXTENDS SystemData, TLC

CONSTANT MaxCommands

VARIABLE commands

MCInit == Init /\ commands = 0

MCNext ==
    \/ /\ commands < MaxCommands
       /\ commands' = commands + 1
       /\ \E t \in Task : Begin(t)
    \/ /\ (\E t \in Actor : Continue(t)) \/ Surroundings
       /\ boots = MaxBoots => at'[Daemon] = "idle"
       /\ UNCHANGED commands

MCSpec == MCInit /\ [][MCNext]_<<dataVars, commands>>

Symmetry == Permutations(Task)
=============================================================================
