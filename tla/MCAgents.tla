------------------------------ MODULE MCAgents -------------------------------
(* Two agents under one supervisor, a task, and two it may start.            *)
EXTENDS Agents, TLC

CONSTANTS a1, a2, t1, c1, c2

MCAgentsSet == {a1, a2}
MCOrder     == <<a1, a2>>
MCTasks     == {t1, c1, c2}
MCSymmetry  == Permutations({c1, c2})
==============================================================================
