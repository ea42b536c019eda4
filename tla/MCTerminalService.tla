-------------------------- MODULE MCTerminalService --------------------------
(***************************************************************************)
(* The instances of the terminal service that TLC checks: a visible pane   *)
(* with its history, panes that compete for the one slot of the limiter,   *)
(* and the pane of a tunnel.  Each gives some issuers a pane and sets how  *)
(* many faults there may be; together they make one run.                   *)
(***************************************************************************)
EXTENDS SshTunnel, TLC

CONSTANTS Visible, Hidden

(* The issuers that an instance uses, and the panes that the daemon may    *)
(* have kept.                                                              *)
Uses(use) == pane = [i \in Issuers |-> IF i \in DOMAIN use THEN use[i] ELSE None]
For(p, issuers) == [i \in issuers |-> p]
Kept(panes) ==
    daemon \in {d \in [Panes -> {"none", "live"}] : \A p \in Panes \ panes : d[p] = "none"}
Faults(f) == left = [k \in {"faults", "drops", "deaths", "restarts"} |->
                       IF k \in DOMAIN f THEN f[k] ELSE 0]
NoFaults == [k \in {} |-> 0]

-----------------------------------------------------------------------------
(* A visible pane: created, killed, and created again by the user.         *)
VisiblePane(issuers) ==
    /\ Uses(For(Visible, issuers))
    /\ allowKilled = {2, 3} /\ urgent = {} /\ changed = {} /\ enabled = FALSE

VisibleCases ==
    \/ /\ VisiblePane({1, 2, 11}) /\ Faults([deaths |-> 1]) /\ hydrated = FALSE
       /\ disk = "open" /\ skipColdRestore = {} /\ deletes = {11} /\ Kept({Visible})
    \/ /\ VisiblePane({1, 2, 11, 31}) /\ Faults(NoFaults) /\ hydrated = TRUE
       /\ skipColdRestore = {} /\ deletes = {11} /\ Kept({Visible})
    \/ /\ VisiblePane({1, 2, 11, 21}) /\ Faults(NoFaults) /\ hydrated = TRUE
       /\ skipColdRestore = {2} /\ deletes = {11} /\ Kept({Visible})
    \/ /\ VisiblePane({1, 2, 11}) /\ Faults([faults |-> 1]) /\ hydrated = TRUE
       /\ skipColdRestore = {2} /\ deletes = {11} /\ Kept({Visible})
    \/ /\ VisiblePane({2, 3, 11, 12}) /\ Faults(NoFaults) /\ hydrated = TRUE
       /\ disk = "open" /\ skipColdRestore = {3} /\ deletes = {12} /\ Kept({})
    \/ /\ VisiblePane({1, 2, 11}) /\ Faults([restarts |-> 1]) /\ hydrated = TRUE
       /\ disk = "open" /\ skipColdRestore = {} /\ deletes = {11} /\ Kept({Visible})
    \/ /\ VisiblePane({1, 2, 13}) /\ Faults(NoFaults) /\ hydrated = TRUE
       /\ disk = "open" /\ skipColdRestore = {2} /\ deletes = {13} /\ Kept({Visible})
    \/ /\ VisiblePane({1, 62}) /\ Faults([faults |-> 1]) /\ hydrated = TRUE
       /\ disk = "open" /\ skipColdRestore = {} /\ deletes = {62} /\ Kept({Visible})
    \/ /\ VisiblePane({1, 2}) /\ Faults([drops |-> 1, deaths |-> 1]) /\ hydrated = FALSE
       /\ disk = "open" /\ skipColdRestore = {2} /\ deletes = {} /\ Kept({Visible})
    \/ /\ VisiblePane({1, 2, 61, 62}) /\ Faults(NoFaults) /\ hydrated = TRUE
       /\ disk = "open" /\ skipColdRestore = {} /\ deletes = {62} /\ Kept({Visible})

-----------------------------------------------------------------------------
(* Three panes and one slot.                                               *)
Competition(use) ==
    /\ Uses(use) /\ Kept({}) /\ hydrated = TRUE /\ disk = "none"
    /\ urgent = {2} /\ changed = {} /\ enabled = FALSE
    /\ allowKilled = {2, 3} /\ skipColdRestore = {2, 3} /\ deletes = {}

CompetitionCases ==
    \/ /\ Competition(1 :> Visible @@ 2 :> Hidden @@ 3 :> Tunnel)
       /\ Faults([restarts |-> 1])
    \/ /\ Competition(1 :> Visible @@ 2 :> Hidden @@ 3 :> Tunnel @@ 11 :> Hidden)
       /\ Faults(NoFaults)

-----------------------------------------------------------------------------
(* The tunnel; the one that was kept may have another launch.              *)
TunnelPane(issuers, kept) ==
    /\ Uses(For(Tunnel, issuers)) /\ hydrated = TRUE /\ disk = "none"
    /\ allowKilled = Creates /\ skipColdRestore = Creates /\ deletes = Kills \ {61}
    /\ daemon = [p \in Panes |-> IF p \in kept THEN "live" ELSE "none"]
    /\ urgent = {}

TunnelCases ==
    \/ TunnelPane({1, 2, 11}, {}) /\ Faults([deaths |-> 1]) /\ changed = {}
    \/ /\ TunnelPane({1, 2, 11, 12}, {Tunnel}) /\ Faults(NoFaults)
       /\ changed = {Tunnel} /\ enabled = TRUE
    \/ /\ TunnelPane({1, 2, 11}, {Tunnel}) /\ Faults([restarts |-> 1])
       /\ changed = {} /\ enabled = TRUE
    \/ /\ TunnelPane({1, 2}, {Tunnel}) /\ Faults([drops |-> 1, deaths |-> 1])
       /\ changed = {} /\ enabled = TRUE
    \/ TunnelPane({1, 2, 11}, {Tunnel}) /\ Faults([faults |-> 1]) /\ changed = {}
    \/ /\ TunnelPane({1, 11, 61}, {}) /\ Faults([drops |-> 1])
       /\ changed = {} /\ enabled = TRUE
    \/ /\ \E kept \in SUBSET {Tunnel} : TunnelPane({1, 11, 61, 62}, kept)
       /\ Faults(NoFaults) /\ changed = {} /\ enabled = TRUE

MCInit == (VisibleCases \/ CompetitionCases \/ TunnelCases) /\ Init
MCSafety == MCInit /\ [][Next]_vars
MCSpec == MCSafety /\ Fairness
=============================================================================
