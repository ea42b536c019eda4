-------------------------- MODULE MCWorkspaceInit --------------------------
(* WorkspaceInit with two worktree workspaces of one project and an agent, *)
(* three runs and two deletes.  Either the first workspace is initialised, *)
(* competes with the second for the lock and may be retried, while one of  *)
(* them is deleted and then the same or the other; or the same happens to  *)
(* an agent.  A worktree and an agent have nothing in common, and three    *)
(* runs of one workspace add nothing to two.                               *)
EXTENDS WorkspaceInit

MCWorkspaces == {"w1", "w2", "a"}
MCAgents == {"a"}

MCInit ==
    /\ Init
    /\ \/ of = <<"w1", "w2", "w1">> /\ target[4] \in {"w1", "w2"} /\ target[5] = "w1"
       \/ of = <<"a", "a", "w1">> /\ target[4] = "a" /\ target[5] = "a"

MCSafety == MCInit /\ [][Next]_vars
MCSpec == MCSafety /\ Fairness
=============================================================================
