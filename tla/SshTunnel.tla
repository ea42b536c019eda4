------------------------------ MODULE SshTunnel ------------------------------
(***************************************************************************)
(* The SSH tunnel of one workspace (main/lib/remote/tunnel-manager.ts),    *)
(* whose ssh runs in a hidden pane of the terminal service manager, with   *)
(* what the routers do to it: starting and stopping it, restarting it when *)
(* its host or its binding is edited, deleting its workspace.  The other   *)
(* panes are created, killed, cleared and hooked by the rest of the        *)
(* program.                                                                *)
(*                                                                         *)
(* The binding has port forwards, and its host exists.  Back-off delays    *)
(* and the timer that resets them are left out: a retry fires at any time. *)
(***************************************************************************)
EXTENDS ServiceManager

CONSTANT Tunnel

ASSUME TunnelAssumption == Tunnel \in Panes \ {Recorded}

VARIABLES
    enabled,       \* tunnelEnabled of the binding
    status,
    known,         \* paneWorkspaces has the pane
    retryTimer,    \* retryTimers has the workspace
    ensuring,      \* the ensure in flight: where it is, and its current call
    stops,         \* what each kill of the tunnel is for
    reconciling,   \* reconcileEnabled at its inventory: was the pane expected
    deleting,      \* how far the deletion of the workspace has got
    ungated,       \* history: last created although the binding was disabled
    forgotten      \* history: a stop ended that no longer was the last word

tunnelVars == <<enabled, status, known, retryTimer, ensuring, stops,
                reconciling, deleting, ungated, forgotten>>
vars == <<serviceVars, tunnelVars>>

NotEnsuring == [at |-> "no", by |-> None]
Purposes == {"stop", "restart", "delete"}
StopsOpen == {k \in Kills : stops[k] # "none"}

Init ==
    /\ ServiceInit
    /\ enabled \in BOOLEAN
    /\ status = "stopped" /\ known = FALSE /\ retryTimer = FALSE
    /\ ensuring = NotEnsuring
    /\ stops = [k \in Kills |-> "none"]
    /\ reconciling = IF enabled THEN "expected" ELSE "unexpected"
    /\ deleting = "no" /\ ungated = FALSE /\ forgotten = FALSE

-----------------------------------------------------------------------------
(* ensure. *)

Fail ==
    /\ status' = "error" /\ retryTimer' = TRUE
    /\ ensuring' = NotEnsuring
    /\ UNCHANGED <<known, ungated, forgotten, serviceVars>>

(* terminal.createOrAttach; bound: without an unused issuer it fails.      *)
Create(at, timer) ==
    IF \E c \in Creates : pane[c] = Tunnel /\ Unused(c)
    THEN \E c \in Creates : /\ pane[c] = Tunnel
                            /\ CreateOrAttach(c)
                            /\ ensuring' = [at |-> at, by |-> c]
                            /\ status' = IF at = "creating" THEN "connecting" ELSE status
                            /\ known' = (known \/ at = "creating")
                            /\ ungated' = (at = "recreating" /\ ~enabled')
                            /\ forgotten' = (forgotten /\ at # "creating")
                            /\ retryTimer' = timer
    ELSE Fail

(* Mutant of Ensure: the binding is not read.                              *)
EnsureUnchecked(timer) ==
    IF ensuring = NotEnsuring THEN Create("creating", timer)
    ELSE /\ retryTimer' = timer
         /\ UNCHANGED <<status, known, ensuring, ungated, forgotten, serviceVars>>

(* timer: if a retry is scheduled otherwise.                               *)
Ensure(timer) ==
    IF ensuring = NotEnsuring /\ enabled' THEN Create("creating", timer)
    ELSE /\ status' = IF ensuring = NotEnsuring THEN "stopped" ELSE status
         /\ retryTimer' = timer
         /\ UNCHANGED <<known, ensuring, ungated, forgotten, serviceVars>>

(* ensureNow once its call is through: a session with another launch is    *)
(* killed and created anew, without another look at the binding.           *)
EnsureGoesOn ==
    LET i == ensuring.by
        end == step[i]
    IN
    /\ ensuring # NotEnsuring /\ Settled(i)
    /\ UNCHANGED <<enabled, stops, reconciling, deleting>>
    /\ \/ /\ end \in {"ok", "restored"}
          /\ status' = "connected" /\ retryTimer' = FALSE
          /\ ensuring' = NotEnsuring
          /\ UNCHANGED <<known, ungated, forgotten, serviceVars>>
       \/ /\ end = "changed" /\ ensuring.at = "creating"
          /\ \E k \in Kills : /\ pane[k] = Tunnel
                              /\ Kill(k)
                              /\ ensuring' = [at |-> "replacing", by |-> k]
          /\ UNCHANGED <<status, known, retryTimer, ungated, forgotten>>
       \/ end = "done" /\ Create("recreating", retryTimer)
       \/ /\ \/ end \in {"killed", "failed", "error"}
             \/ end = "changed" /\ ensuring.at = "recreating"
             \/ end = "changed" /\ ~\E k \in Kills : Unused(k) /\ pane[k] = Tunnel
          /\ Fail

-----------------------------------------------------------------------------
(* stop, restart and what they are called for. *)

StopSession(k, purpose) ==
    /\ pane[k] = Tunnel
    /\ Kill(k)
    /\ retryTimer' = FALSE
    /\ stops' = [stops EXCEPT ![k] = purpose]
    /\ UNCHANGED <<status, known, ensuring, ungated, forgotten>>

(* The deletion has the terminals of the workspace killed, the tunnel's too.*)
Sweep(phase) ==
    /\ deleting' = phase
    /\ \E s \in Sweeps : pane[s] = Tunnel /\ KillByWorkspaceId(s)

StopEnds(k) ==
    LET done == step[k] = "done" IN
    /\ stops[k] \in Purposes /\ Settled(k)
    /\ stops' = [stops EXCEPT ![k] = IF done /\ @ = "restart" THEN "ensure" ELSE "none"]
    /\ status' = IF done THEN "stopped" ELSE "error"
    /\ known' = (known /\ ~done)
    /\ forgotten' = (forgotten \/ (done /\ (enabled \/ ensuring # NotEnsuring)))
    /\ IF stops[k] # "delete" THEN UNCHANGED <<deleting, serviceVars>>
       ELSE IF done THEN Sweep("sweeping")
       ELSE deleting' = "no" /\ UNCHANGED serviceVars
    /\ UNCHANGED <<enabled, retryTimer, ensuring, reconciling, ungated>>

Restarted(k) ==
    /\ stops[k] = "ensure"
    /\ stops' = [stops EXCEPT ![k] = "none"]
    /\ UNCHANGED <<enabled, reconciling, deleting>>
    /\ Ensure(retryTimer)

(* stopTunnel and unbindWorkspace disable the binding first; an edit and   *)
(* the deletion of the workspace do not.                                   *)
Stop ==
    \E k \in Kills :
        /\ deleting # "gone"
        /\ StopSession(k, "stop")
        /\ enabled' = FALSE
        /\ UNCHANGED <<reconciling, deleting>>

RestartTunnel ==
    \E k \in Kills :
        /\ enabled
        /\ StopSession(k, "restart")
        /\ UNCHANGED <<enabled, reconciling, deleting>>

DeleteWorkspace ==
    \E k \in Kills :
        /\ deleting = "no" /\ \E s \in Sweeps : Unused(s) /\ pane[s] = Tunnel
        /\ StopSession(k, "delete")
        /\ deleting' = "stopping"
        /\ UNCHANGED <<enabled, reconciling>>

(* Both kills of the deletion; in between the teardown, or what follows it, *)
(* may fail, and then the workspace and its binding stay.                  *)
SweepEnds ==
    /\ deleting \in {"sweeping", "purging"} /\ \A s \in Sweeps : ~Active(s)
    /\ deleting' = IF deleting = "sweeping" THEN "teardown" ELSE "gone"
    /\ UNCHANGED <<enabled, status, known, retryTimer, ensuring, stops, reconciling, ungated,
                   forgotten, serviceVars>>

GiveUp ==
    /\ deleting = "teardown" /\ deleting' = "no"
    /\ UNCHANGED <<enabled, status, known, retryTimer, ensuring, stops, reconciling, ungated,
                   forgotten, serviceVars>>

Erase ==
    /\ deleting = "teardown" /\ enabled' = FALSE
    /\ Sweep("purging")
    /\ UNCHANGED <<status, known, retryTimer, ensuring, stops, reconciling, ungated, forgotten>>

Start ==
    /\ deleting \notin {"purging", "gone"}
    /\ enabled' = TRUE
    /\ UNCHANGED <<stops, reconciling, deleting>>
    /\ \E c \in Creates : pane[c] = Tunnel /\ Unused(c)
    /\ Ensure(retryTimer)

RetryFires ==
    /\ retryTimer
    /\ \E c \in Creates : pane[c] = Tunnel /\ Unused(c)
    /\ UNCHANGED <<enabled, stops, reconciling, deleting>>
    /\ Ensure(FALSE)

-----------------------------------------------------------------------------
(* What the service manager reports, and the restart of the service, after *)
(* which the tunnels are reconciled as they are when the program starts.   *)

UnexpectedExit ==
    IF ~known THEN UNCHANGED <<status, retryTimer>>
    ELSE /\ status' = IF enabled THEN "retrying" ELSE "stopped"
         /\ retryTimer' = (retryTimer \/ enabled)

Exit(p) ==
    /\ ExitArrives(p)
    /\ IF p = Tunnel THEN UnexpectedExit ELSE UNCHANGED <<status, retryTimer>>
    /\ UNCHANGED <<enabled, known, ensuring, stops, reconciling, deleting, ungated, forgotten>>

RestartService ==
    /\ Restart
    /\ reconciling' = IF enabled THEN "expected" ELSE "unexpected"
    /\ UNCHANGED <<enabled, status, known, retryTimer, ensuring, stops, deleting, ungated, forgotten>>

Reconcile ==
    /\ reconciling' = "no"
    /\ UNCHANGED <<enabled, deleting>>
    /\ \/ /\ reconciling = "expected"
          /\ Ensure(retryTimer)
          /\ UNCHANGED stops
       \/ /\ reconciling = "unexpected"
          /\ IF daemon[Tunnel] = "live"
             THEN \E k \in Kills : StopSession(k, "stop")
             ELSE UNCHANGED <<status, known, retryTimer, ensuring, stops, ungated, forgotten, serviceVars>>

-----------------------------------------------------------------------------
TunnelDue ==
    \/ ensuring # NotEnsuring /\ Settled(ensuring.by)
    \/ \E k \in Kills : stops[k] = "ensure" \/ (stops[k] \in Purposes /\ Settled(k))
    \/ deleting \in {"sweeping", "purging"} /\ \A s \in Sweeps : ~Active(s)

TunnelTurn == EnsureGoesOn \/ SweepEnds \/ \E k \in Kills : StopEnds(k) \/ Restarted(k)

AllQuiet == Quiet /\ ~TunnelDue

Next ==
    \/ Turn /\ UNCHANGED tunnelVars
    \/ TunnelTurn
    \/ /\ AllQuiet
       /\ \/ ServiceStep /\ UNCHANGED tunnelVars
          \/ \E p \in Panes : Exit(p)
          \/ RestartService
          \/ Reconcile \/ RetryFires \/ Erase \/ GiveUp
          \/ Start \/ Stop \/ RestartTunnel \/ DeleteWorkspace
          \/ UserStep(Panes \ {Tunnel}) /\ UNCHANGED tunnelVars

(* What the code sees to.  Its continuations run; the daemon, or a timeout *)
(* in its place, answers, and the answer is taken; file operations end; a  *)
(* shell that was killed exits.                                            *)
Answers ==
    \/ \E i \in Issuers : Progress(i)
    \/ DaemonHandles
    \/ \E c \in Creates : Spawned(c)
    \/ WriterCloses /\ UNCHANGED <<managerVars, limiterVars, callVars, daemonVars, faultVars>>

Fairness ==
    /\ WF_vars(Turn /\ UNCHANGED tunnelVars)
    /\ WF_vars(TunnelTurn)
    /\ WF_vars(AllQuiet /\ Answers /\ UNCHANGED tunnelVars)

Spec == Init /\ [][Next]_vars /\ Fairness

-----------------------------------------------------------------------------
TypeOK ==
    /\ ServiceTypeOK
    /\ status \in {"stopped", "connecting", "connected", "retrying", "error"}
    /\ {enabled, known, retryTimer, ungated, forgotten} \subseteq BOOLEAN
    /\ \/ ensuring = NotEnsuring
       \/ ensuring.at \in {"creating", "recreating"} /\ ensuring.by \in Creates
       \/ ensuring.at = "replacing" /\ ensuring.by \in Kills
    /\ stops \in [Kills -> {"none", "ensure"} \cup Purposes]
    /\ reconciling \in {"no", "expected", "unexpected"}
    /\ deleting \in {"no", "stopping", "sweeping", "teardown", "purging", "gone"}

TunnelAtRest ==
    /\ AtRest(Tunnel)
    /\ ensuring = NotEnsuring /\ StopsOpen = {} /\ reconciling = "no"
    /\ deleting \in {"no", "gone"}

(* Once nothing is going on for the tunnel, and no request failed, a       *)
(* disabled one does not run, and an enabled one runs and is watched, or   *)
(* is about to be tried again.  Not so if an exit event and an answer      *)
(* crossed, a stop was not through when the next session came up, the exit *)
(* of the last session reached nobody, or its entry was deleted by a timer *)
(* of an earlier one; and a session created without another look at the    *)
(* binding is left running.                                                *)
TunnelSettles ==
    TunnelAtRest /\ Tunnel \notin UNION {disturbed, crossed, lost} =>
        IF enabled
        THEN forgotten \/ retryTimer \/ (daemon[Tunnel] = "live" /\ known /\ status = "connected")
        ELSE daemon[Tunnel] = "live" => ungated

(* Every call made to the service manager returns.                         *)
CallsReturn == (\E i \in Issuers : Active(i)) ~> (\A i \in Issuers : ~Active(i))
=============================================================================
