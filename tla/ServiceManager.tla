--------------------------- MODULE ServiceManager ---------------------------
(***************************************************************************)
(* ServiceTerminalManager (terminal/service/service-manager.ts): creating, *)
(* attaching, killing and restoring the sessions of panes that live in the *)
(* terminal daemon, with its PrioritySemaphore and its HistoryManager.     *)
(*                                                                         *)
(* Every action is the code between two awaits.  Requests reach the daemon *)
(* in the order they were sent; an answer is taken in a turn of its own.   *)
(* Exit events come on another socket: they are in no order with answers,  *)
(* and name the pane, not the session.  A request may time out while the   *)
(* daemon still performs it; the connection may be lost; the service may   *)
(* be restarted.  The daemon is reduced to what TerminalHost shows of it:  *)
(* whether a pane's session is live or dying, and what is being spawned.   *)
(*                                                                         *)
(* History is modelled for the pane Recorded; the other panes are hidden,  *)
(* as those of SSH tunnels are, and record none.                           *)
(***************************************************************************)
EXTENDS TerminalHistory, Sequences, FiniteSets

CONSTANTS
    Panes, Recorded,
    MaxSlots,                              \* CREATE_OR_ATTACH_CONCURRENCY
    Creates, Kills, Clears, Hooks, Exits,  \* who may issue each operation
    Sweeps,                                \* of the kills, by workspace
    Placed,                                \* and those that know the workspace
    Restarter                              \* and a restart of the service

ASSUME IssuersAssumption ==
    /\ Issuers = UNION {Creates, Kills, Clears, Hooks, Exits, {Restarter}}
    /\ Issuers \subseteq Nat /\ IsFiniteSet(Issuers)
    /\ Sweeps \subseteq Placed /\ Placed \subseteq Kills /\ None \notin Panes /\ Recorded \in Panes
(* An issuer stands for one call of one operation. *)
ASSUME CallersAssumption ==
    /\ {} = Creates \cap UNION {Kills, Clears, Hooks, Exits, {Restarter}}
    /\ {} = Kills \cap UNION {Clears, Hooks, Exits, {Restarter}}
    /\ {} = Clears \cap UNION {Hooks, Exits, {Restarter}}
    /\ {} = Hooks \cap UNION {Exits, {Restarter}}
    /\ Restarter \notin Exits
ASSUME SlotsAssumption == MaxSlots \in Nat \ {0}

VARIABLES
    generation,      \* paneLifecycleGenerations
    killed,          \* killedSessionTombstones
    deletedHistory,  \* deletedHistoryTombstones
    pending,         \* pendingSessions: the call that made the promise
    sessions,        \* entries of sessions, named by the call that made them
    alive,           \* serviceAliveSessionIds
    hydrated,        \* serviceSessionIdsHydrated
    sticky,          \* coldRestoreInfo
    stopped,         \* panes in stoppedWorkspacePaneIds
    timers,          \* cleanup timers running, and if cleanupTimeouts has one
    inUse, waiters,  \* the limiter
    pane,            \* pane of each issuer, or None
    allowKilled, skipColdRestore, urgent,  \* parameters of the creates
    deletes,         \* kills with deleteHistory, and creates that discard so
    step, gen, on,   \* progress of a call, its generation, what it awaits
    answer, listed,  \* to its request
    daemon, changed, \* sessions of the daemon; those with another launch
    wire, spawning,  \* requests it has not handled; creates that it spawns for
    attached,        \* panes whose events the daemon sends
    exits,           \* exit events that have not arrived
    left,            \* bound: faults to come
    disturbed,       \* history: panes with a fault in one of their requests
    crossed,         \* history: panes with an exit event and an answer crossed
    overrun,         \* history: panes recreated before a kill was through
    spared,          \* history: panes whose last deletion need not have left
                     \* nothing: a session was begun since, a removal failed,
                     \* or the kill did not know where to remove
    lost             \* history: panes whose last session's exit reached nobody,
                     \* or whose entry a timer deleted while it was alive

managerVars == <<generation, killed, deletedHistory, pending, sessions, alive,
                 hydrated, sticky, stopped, timers>>
limiterVars == <<inUse, waiters>>
paramVars   == <<pane, allowKilled, skipColdRestore, urgent>>
callVars    == <<paramVars, deletes, step, gen, on, answer, listed>>
daemonVars  == <<daemon, changed, wire, spawning, attached, exits>>
faultVars   == <<left, disturbed, crossed, overrun, spared, lost>>
serviceVars == <<managerVars, limiterVars, callVars, daemonVars, faultVars, historyVars>>

NoSession == [by |-> None, alive |-> FALSE]
CreateEnds == {"ok", "restored", "killed", "failed", "changed"}
CreateSteps == {"joined", "waiting", "queued", "granted", "listing", "purging",
                "restoring", "requested", "writing", "discarding", "dropping"}
KillSteps == {"sweeping", "killing", "hooks", "cleaning", "erasing"}
OtherSteps == {"clearing", "reopening", "called", "hooking", "saving"}
Ends == CreateEnds \cup {"done", "error"}

Active(i) == step[i] \in CreateSteps \cup KillSteps \cup OtherSteps
Settled(i) == step[i] \in Ends

(* Issuers are used in order: which is which makes no difference. *)
Unused(i) == pane[i] # None /\ step[i] = "unused"
NextOf(i, set) ==
    i \in set /\ Unused(i) /\ \A j \in set : j < i /\ pane[j] = pane[i] => ~Unused(j)

Live == {p \in Panes : daemon[p] = "live"}

ServiceInit ==
    /\ pane \in [Issuers -> Panes \cup {None}]
    /\ allowKilled \in SUBSET Creates /\ urgent \in SUBSET Creates
    /\ skipColdRestore \in SUBSET Creates /\ deletes \in SUBSET Kills
    /\ daemon \in [Panes -> {"none", "live"}] /\ changed \in SUBSET Live
    /\ generation = [p \in Panes |-> 0]
    /\ killed = {} /\ deletedHistory = {} /\ sticky = {} /\ stopped = {}
    /\ pending = [p \in Panes |-> None]
    /\ sessions = [p \in Panes |-> NoSession]
    /\ hydrated \in BOOLEAN
    /\ alive = IF hydrated THEN Live ELSE {}
    /\ timers = [p \in Panes |-> [all |-> 0, mapped |-> FALSE]]
    /\ inUse = 0 /\ waiters = <<>>
    /\ step = [i \in Issuers |-> "unused"]
    /\ gen = [i \in Creates |-> 0]
    /\ on = [i \in Issuers |-> None]
    /\ answer = [i \in Issuers |-> "none"]
    /\ listed = [i \in Creates \cup Sweeps |-> {}]
    /\ wire = <<>> /\ spawning = {} /\ attached = {}
    /\ exits = [p \in Panes |-> 0]
    /\ left \in [{"faults", "drops", "deaths", "restarts"} -> Nat]
    /\ disturbed = {} /\ crossed = {} /\ overrun = {} /\ spared = {} /\ lost = {}
    /\ HistoryInit

-----------------------------------------------------------------------------
(* The priority semaphore. *)

(* push and the stable sort: behind those that are as urgent. *)
Enqueue(c) ==
    LET n == Len(waiters)
        ahead == IF c \in urgent THEN Cardinality({k \in 1..n : waiters[k] \in urgent}) ELSE n
    IN  [k \in 1..n + 1 |-> IF k <= ahead THEN waiters[k]
                            ELSE IF k = ahead + 1 THEN c ELSE waiters[k - 1]]

(* acquire: the step the caller goes to. *)
Acquire(c) ==
    IF inUse < MaxSlots
    THEN /\ inUse' = inUse + 1 /\ UNCHANGED waiters
         /\ step' = [step EXCEPT ![c] = "granted"]
    ELSE /\ waiters' = Enqueue(c) /\ UNCHANGED inUse
         /\ step' = [step EXCEPT ![c] = "queued"]

(* Mutants of Release: without the floor; a slot is handed on uncounted.   *)
ReleaseBelowZero(c, s) ==
    LET handed == {k \in 1..Len(waiters) : inUse - 1 + k <= MaxSlots}
    IN  /\ inUse' = inUse - 1 + Cardinality(handed)
        /\ waiters' = SubSeq(waiters, Cardinality(handed) + 1, Len(waiters))
        /\ step' = [i \in Issuers |->
                      IF i = c THEN s
                      ELSE IF \E k \in handed : waiters[k] = i THEN "granted"
                      ELSE step[i]]

ReleaseUncounted(c, s) ==
    /\ inUse' = IF inUse = 0 THEN 0 ELSE inUse - 1
    /\ IF waiters = <<>>
       THEN UNCHANGED waiters /\ step' = [step EXCEPT ![c] = s]
       ELSE /\ waiters' = Tail(waiters)
            /\ step' = [step EXCEPT ![c] = s, ![Head(waiters)] = "granted"]

(* release, which pumps the queue; the caller goes to the step s. *)
Release(c, s) ==
    LET free == IF inUse = 0 THEN 0 ELSE inUse - 1
        handed == {k \in 1..Len(waiters) : free + k <= MaxSlots}
    IN  /\ inUse' = free + Cardinality(handed)
        /\ waiters' = SubSeq(waiters, Cardinality(handed) + 1, Len(waiters))
        /\ step' = [i \in Issuers |->
                      IF i = c THEN s
                      ELSE IF \E k \in handed : waiters[k] = i THEN "granted"
                      ELSE step[i]]

-----------------------------------------------------------------------------
(* createOrAttach. *)

Go(i, s) == step' = [step EXCEPT ![i] = s]

(* Mutant of Current: nothing is looked at again after an await.           *)
CurrentAlways(c) == gen[c] <= generation[pane[c]]

Current(c) == gen[c] = generation[pane[c]] /\ pane[c] \notin killed

Recording(i) == pane[i] = Recorded

(* Sending a request; the call goes to the step s. *)
Request(i, kind, s) ==
    /\ wire' = Append(wire, [kind |-> kind, from |-> i])
    /\ answer' = [answer EXCEPT ![i] = "none"]
    /\ Go(i, s)
    /\ UNCHANGED <<daemon, changed, spawning, attached, exits>>

(* The end of a creation that holds a slot, and of its pending promise. *)
Settle(c, outcome) ==
    /\ Release(c, outcome)
    /\ pending' = [pending EXCEPT ![pane[c]] = IF @ = c THEN None ELSE @]

(* The loop: join the creation of this generation, wait for an earlier one,*)
(* or begin.                                                               *)
Enter(c, g) ==
    LET p == pane[c]
        first == pending[p]
    IN
    IF first = None
    THEN /\ pending' = [pending EXCEPT ![p] = c]
         /\ Acquire(c)
         /\ UNCHANGED on
    ELSE /\ Go(c, IF gen[first] = g THEN "joined" ELSE "waiting")
         /\ on' = [on EXCEPT ![c] = first]
         /\ UNCHANGED <<pending, limiterVars>>

CreateOrAttach(c) ==
    LET p == pane[c] IN
    /\ NextOf(c, Creates)
    /\ IF p \in killed /\ c \notin allowKilled
       THEN /\ Go(c, "killed")
            /\ UNCHANGED <<killed, gen, pending, on, limiterVars>>
       ELSE /\ killed' = killed \ {p}
            /\ gen' = [gen EXCEPT ![c] = generation[p]]
            /\ Enter(c, generation[p])
    /\ UNCHANGED <<generation, deletedHistory, sessions, alive, hydrated, sticky,
                   stopped, timers, paramVars, deletes, answer, listed, daemonVars,
                   faultVars, historyVars>>

WaitedForPending(c) ==
    /\ step[c] = "waiting" /\ Settled(on[c])
    /\ IF Current(c) THEN Enter(c, gen[c])
       ELSE Go(c, "killed") /\ UNCHANGED <<pending, on, limiterVars>>
    /\ UNCHANGED <<generation, killed, deletedHistory, sessions, alive, hydrated,
                   sticky, stopped, timers, paramVars, deletes, gen, answer, listed,
                   daemonVars, faultVars, historyVars>>

Joined(c) ==
    /\ step[c] = "joined" /\ Settled(on[c])
    /\ Go(c, step[on[c]])
    /\ UNCHANGED <<managerVars, limiterVars, paramVars, deletes, gen, on, answer,
                   listed, daemonVars, faultVars, historyVars>>

(* What the creations below leave alone. *)
Frame == UNCHANGED <<generation, killed, paramVars, gen, on, listed, left, disturbed,
                   crossed, stopped>>

Cancelled(c) ==
    /\ Settle(c, "killed")
    /\ UNCHANGED <<answer, daemonVars, historyVars>>

(* The request, before which the metadata are read: they only tell which   *)
(* conversation to resume, and the generation is checked before and after. *)
Ask(c) == Request(c, "create", "requested")

(* Where to go once it is known whether the daemon has the session: a shell*)
(* that is there is asked for, a history that is to be skipped is removed, *)
(* and one that is not is looked at.                                       *)
LookUp(c, known) ==
    LET p == pane[c]
        purge == c \in skipColdRestore
    IN
    IF p \in known THEN Ask(c) /\ UNCHANGED historyVars
    ELSE /\ Go(c, IF purge THEN "purging" ELSE "restoring")
         /\ IF purge /\ Recording(c) THEN BeginCleanup(c) ELSE UNCHANGED historyVars
         /\ UNCHANGED <<answer, daemonVars>>

(* doCreateOrAttach has its slot. *)
Begin(c) ==
    LET p == pane[c] IN
    /\ step[c] = "granted"
    /\ sticky' = IF Current(c) /\ c \in skipColdRestore THEN sticky \ {p} ELSE sticky
    /\ IF ~Current(c) THEN Cancelled(c)
       ELSE IF c \notin skipColdRestore /\ p \in sticky
       THEN /\ Settle(c, "restored")
            /\ UNCHANGED <<answer, daemonVars, historyVars>>
       ELSE /\ IF hydrated THEN LookUp(c, alive)
               ELSE Request(c, "list", "listing") /\ UNCHANGED historyVars
            /\ UNCHANGED <<pending, limiterVars>>
    /\ UNCHANGED <<deletedHistory, sessions, alive, hydrated, timers, deletes>>
    /\ Frame /\ UNCHANGED <<overrun, spared, lost>>

(* ensureServiceSessionIdsHydrated goes on without an inventory. *)
Listed(c) ==
    LET known == IF answer[c] = "ok" THEN listed[c] ELSE alive IN
    /\ step[c] = "listing" /\ answer[c] # "none"
    /\ alive' = known
    /\ hydrated' = (hydrated \/ answer[c] = "ok")
    /\ IF ~Current(c) THEN Cancelled(c)
       ELSE LookUp(c, known) /\ UNCHANGED <<pending, limiterVars>>
    /\ UNCHANGED <<deletedHistory, sessions, sticky, timers, deletes>>
    /\ Frame /\ UNCHANGED <<overrun, spared, lost>>

Purged(c) ==
    /\ step[c] = "purging" /\ HistoryDone(c)
    /\ IF Current(c) THEN Ask(c) /\ UNCHANGED <<pending, limiterVars, historyVars>>
       ELSE Cancelled(c)
    /\ UNCHANGED <<deletedHistory, sessions, alive, hydrated, sticky, timers, deletes>>
    /\ Frame /\ UNCHANGED <<overrun, spared, lost>>

(* attemptColdRestore: a history that was cut off is kept for the pane, and*)
(* only then is the generation looked at.                                  *)
ColdRestore(c) ==
    LET found == Recording(c) /\ disk = "open" IN
    /\ step[c] = "restoring"
    /\ sticky' = IF found THEN sticky \cup {pane[c]} ELSE sticky
    /\ IF ~Current(c) THEN Cancelled(c)
       ELSE /\ IF found THEN Settle(c, "restored") /\ UNCHANGED <<answer, daemonVars>>
               ELSE Ask(c) /\ UNCHANGED <<pending, limiterVars>>
            /\ UNCHANGED historyVars
    /\ UNCHANGED <<deletedHistory, sessions, alive, hydrated, timers, deletes>>
    /\ Frame /\ UNCHANGED <<overrun, spared, lost>>

(* Mutant of Refused: the slot is kept.                                    *)
RefusedUnreleased(c) ==
    /\ step[c] = "requested" /\ answer[c] \in {"failed", "changed"}
    /\ Go(c, answer[c])
    /\ pending' = [pending EXCEPT ![pane[c]] = IF @ = c THEN None ELSE @]
    /\ UNCHANGED <<deletedHistory, sessions, alive, hydrated, sticky, timers, deletes,
                   answer, daemonVars, limiterVars, historyVars>>
    /\ Frame /\ UNCHANGED <<overrun, spared, lost>>

Refused(c) ==
    /\ step[c] = "requested" /\ answer[c] \in {"failed", "changed"}
    /\ Settle(c, answer[c])
    /\ UNCHANGED <<deletedHistory, sessions, alive, hydrated, sticky, timers, deletes,
                   answer, daemonVars, historyVars>>
    /\ Frame /\ UNCHANGED <<overrun, spared, lost>>

(* cancelPendingCleanup clears the timer that the map knows of. *)
CancelCleanup(p) ==
    timers' = [timers EXCEPT ![p] =
                 [all |-> IF @.mapped THEN @.all - 1 ELSE @.all, mapped |-> FALSE]]

(* discardStaleCreatedSession. *)
Discard(c) ==
    LET p == pane[c] IN
    /\ alive' = alive \ {p}
    /\ CancelCleanup(p)
    /\ sessions' = [sessions EXCEPT ![p] = NoSession]
    /\ deletes' = IF p \in deletedHistory THEN deletes \cup {c} ELSE deletes
    /\ Request(c, "kill", "discarding")
    /\ UNCHANGED <<deletedHistory, pending, limiterVars, historyVars>>

(* A live session of a pane that is not being killed retires the tombstone.*)
Undelete(p, live) == deletedHistory' = IF live THEN deletedHistory \ {p} ELSE deletedHistory

(* The daemon has the session. *)
Created(c) ==
    LET p == pane[c] IN
    /\ step[c] = "requested" /\ answer[c] = "ok"
    /\ IF ~Current(c) THEN Discard(c)
       ELSE /\ alive' = alive \cup {p}
            /\ CancelCleanup(p)
            /\ sessions' = [sessions EXCEPT ![p] = [by |-> c, alive |-> TRUE]]
            /\ IF Recording(c)
               THEN /\ BeginInit(c) /\ Go(c, "writing")
                    /\ UNCHANGED <<deletedHistory, pending, limiterVars>>
               ELSE /\ Settle(c, "ok") /\ Undelete(p, TRUE)
                    /\ UNCHANGED historyVars
            /\ UNCHANGED <<deletes, answer, daemonVars>>
    /\ overrun' = IF \E k \in Kills : pane[k] = p /\ Active(k) THEN overrun \cup {p} ELSE overrun
    /\ spared' = IF Current(c) THEN spared \cup {p} ELSE spared
    /\ lost' = IF Current(c) THEN lost \ {p} ELSE lost
    /\ UNCHANGED <<hydrated, sticky>>
    /\ Frame

Written(c) ==
    /\ step[c] = "writing" /\ HistoryDone(c)
    /\ IF ~Current(c) THEN Discard(c)
       ELSE /\ Settle(c, "ok")
            /\ Undelete(pane[c], sessions[pane[c]].alive)
            /\ UNCHANGED <<sessions, alive, timers, deletes, answer, daemonVars, historyVars>>
    /\ UNCHANGED <<hydrated, sticky>>
    /\ Frame /\ UNCHANGED <<overrun, spared, lost>>

(* The kill of a discarded session was answered or failed. *)
Discarded(c) ==
    /\ step[c] = "discarding" /\ answer[c] # "none"
    /\ Go(c, "dropping")
    /\ IF ~Recording(c) THEN UNCHANGED historyVars
       ELSE IF c \in deletes THEN BeginCleanup(c) ELSE BeginClose(c)
    /\ UNCHANGED <<managerVars, limiterVars, deletes, answer, daemonVars>>
    /\ UNCHANGED <<paramVars, gen, on, listed, faultVars>>

Dropped(c) ==
    /\ step[c] = "dropping" /\ HistoryDone(c)
    /\ Cancelled(c)
    /\ UNCHANGED <<deletedHistory, sessions, alive, hydrated, sticky, timers, deletes>>
    /\ Frame /\ UNCHANGED <<overrun, spared, lost>>

-----------------------------------------------------------------------------
(* kill.  Its wait for the exit event ends at any time: a timeout of 2 s   *)
(* bounds it, and nothing depends on which of the two ended it.            *)

(* Mutant of Dead: a pane that is being created is passed over.            *)
DeadUnlessPending(p) ==
    sessions' = IF pending[p] = None THEN [sessions EXCEPT ![p].alive = FALSE] ELSE sessions

Dead(p) == sessions' = [sessions EXCEPT ![p].alive = FALSE]

KillPane(k) ==
    LET p == pane[k] IN
    /\ generation' = [generation EXCEPT ![p] = @ + 1]
    /\ alive' = alive \ {p}
    /\ killed' = killed \cup {p}
    /\ deletedHistory' = IF k \in deletes THEN deletedHistory \cup {p} ELSE deletedHistory
    /\ sticky' = IF k \in deletes THEN sticky \ {p} ELSE sticky
    /\ Dead(p)
    /\ IF Recording(k) /\ k \notin deletes THEN BeginClose(k) ELSE UNCHANGED historyVars
    /\ Request(k, "kill", "killing")
    /\ spared' = IF k \notin deletes THEN spared
                 ELSE IF k \in Placed THEN spared \ {p} ELSE spared \cup {p}
    /\ UNCHANGED <<pending, hydrated, stopped, timers, limiterVars, paramVars, deletes,
                   gen, on, listed, left, disturbed, crossed, overrun, lost>>

(* The workspace is known from the session, if the manager has it, or else *)
(* from the caller.                                                        *)
Kill(k) ==
    /\ NextOf(k, Kills \ Sweeps)
    /\ Recording(k) /\ k \notin Placed => sessions[Recorded].by = None
    /\ KillPane(k)

(* The tail of agentSessionPersistenceTails. *)
Hooking == {h \in Hooks : step[h] \in {"called", "hooking", "saving"}}

(* What a kill for good does once the hooks are through. *)
Clean(k) == IF k \in Placed THEN BeginCleanup(k) ELSE BeginClose(k)

KillAnswered(k) ==
    LET remove == Recording(k) /\ k \in deletes IN
    /\ step[k] = "killing" /\ answer[k] # "none"
    /\ IF remove /\ Hooking # {}
       THEN /\ Go(k, "hooks")
            /\ \E h \in Hooking : /\ \A g \in Hooking : g <= h
                                /\ on' = [on EXCEPT ![k] = h]
       ELSE Go(k, "cleaning") /\ UNCHANGED on
    /\ IF remove /\ Hooking = {} THEN Clean(k) ELSE UNCHANGED historyVars
    /\ UNCHANGED <<managerVars, limiterVars, paramVars, deletes, gen, answer, listed,
                   daemonVars, faultVars>>

HookAwaited(k) ==
    /\ step[k] = "hooks" /\ Settled(on[k])
    /\ Go(k, "cleaning")
    /\ Clean(k)
    /\ UNCHANGED <<managerVars, limiterVars, paramVars, deletes, gen, on, answer, listed,
                   daemonVars, faultVars>>

(* killByWorkspaceId waits for all its kills, whether or not they succeed. *)
KillEnds(k) ==
    LET erases == k \in Sweeps /\ k \in deletes IN
    /\ step[k] = "cleaning" /\ HistoryDone(k)
    /\ Go(k, IF erases THEN "erasing"
             ELSE IF answer[k] = "ok" \/ k \in Sweeps THEN "done" ELSE "error")
    /\ stopped' = IF k \in Sweeps /\ ~erases THEN stopped \cup {pane[k]} ELSE stopped
    /\ UNCHANGED <<generation, killed, deletedHistory, pending, sessions, alive, hydrated,
                   sticky, timers, limiterVars, paramVars, deletes, gen, on, answer, listed,
                   daemonVars, faultVars, historyVars>>

(* killByWorkspaceId, as far as one pane of the workspace is concerned: it *)
(* is killed if the daemon lists it, if it has or is getting a session, or *)
(* if it was killed when the deletion of the workspace began.              *)
KillByWorkspaceId(k) ==
    /\ NextOf(k, Sweeps)
    /\ Request(k, "list", "sweeping")
    /\ UNCHANGED <<managerVars, limiterVars, paramVars, deletes, gen, on, listed,
                   faultVars, historyVars>>

(* Mutant of Found: a pane that is being created is passed over.           *)
FoundUnlessPending(k) ==
    LET p == pane[k] IN
    \/ answer[k] = "ok" /\ p \in listed[k]
    \/ sessions[p].by # None \/ p \in stopped

Found(k) ==
    LET p == pane[k] IN
    \/ answer[k] = "ok" /\ p \in listed[k]
    \/ sessions[p].by # None \/ pending[p] # None \/ p \in stopped

Swept(k) ==
    /\ step[k] = "sweeping" /\ answer[k] # "none"
    /\ IF Found(k) THEN KillPane(k)
       ELSE /\ Go(k, IF k \in deletes THEN "erasing" ELSE "done")
            /\ UNCHANGED <<managerVars, limiterVars, paramVars, deletes, gen, on, answer,
                           listed, daemonVars, faultVars, historyVars>>

(* A removal that fails is logged, and what was to go stays. *)
Spares ==
    /\ left.faults > 0
    /\ left' = [left EXCEPT !.faults = @ - 1]
    /\ spared' = spared \cup {Recorded}
    /\ UNCHANGED <<disturbed, crossed, overrun, lost>>

(* purgeWorkspaceStorage. *)
Erased(k) ==
    /\ step[k] = "erasing"
    /\ Go(k, "done")
    /\ stopped' = stopped \ {pane[k]}
    /\ \/ disk' = (IF Recording(k) THEN "none" ELSE disk) /\ UNCHANGED faultVars
       \/ Recording(k) /\ disk # "none" /\ Spares /\ UNCHANGED disk
    /\ UNCHANGED <<generation, killed, deletedHistory, pending, sessions, alive, hydrated,
                   sticky, timers, limiterVars, paramVars, deletes, gen, on, answer, listed,
                   daemonVars, historyGeneration, initPromise, initializing,
                   pendingHook, writer, closing, op>>

-----------------------------------------------------------------------------
(* Clearing the scrollback, by clearScrollback or because the output asks  *)
(* for it: the writer is closed and another begun for the same session.    *)

Clear(x) ==
    /\ NextOf(x, Clears) /\ Recording(x)
    /\ sessions[Recorded].by # None /\ writer # None
    /\ on' = [on EXCEPT ![x] = sessions[Recorded].by]
    /\ Go(x, "clearing")
    /\ BeginClose(x)
    /\ UNCHANGED <<managerVars, limiterVars, paramVars, deletes, gen, answer, listed,
                   daemonVars, faultVars>>

ClearStep(x) ==
    /\ HistoryDone(x)
    /\ \/ /\ step[x] = "clearing"
          /\ IF sessions[Recorded] = [by |-> on[x], alive |-> TRUE]
             THEN Go(x, "reopening") /\ BeginInit(x)
             ELSE Go(x, "done") /\ UNCHANGED historyVars
       \/ step[x] = "reopening" /\ Go(x, "done") /\ UNCHANGED historyVars
    /\ UNCHANGED <<managerVars, limiterVars, paramVars, deletes, gen, on, answer, listed,
                   daemonVars, faultVars>>

(* persistAgentSessionFromHook: one hook of a pane after the other. *)
Hook(h) ==
    /\ NextOf(h, Hooks) /\ Recording(h)
    /\ Go(h, "called")
    /\ UNCHANGED <<managerVars, limiterVars, paramVars, deletes, gen, on, answer, listed,
                   daemonVars, faultVars, historyVars>>

HookStep(h) ==
    LET deleted == Recorded \in deletedHistory
        after(at) == IF at # "unhandled" THEN "done" ELSE IF deleted THEN "done" ELSE "saving"
    IN
    /\ \/ /\ step[h] = "called" /\ \A g \in Hooking : h <= g
          /\ IF deleted THEN Go(h, "done") /\ UNCHANGED historyVars
             ELSE Go(h, "hooking") /\ BeginHook(h)
       \/ /\ step[h] = "hooking" /\ op[h].at \in {"idle", "unhandled"}
          /\ Go(h, after(op[h].at))
          /\ op' = [op EXCEPT ![h] = Idle]
          /\ UNCHANGED <<historyGeneration, initPromise, initializing, pendingHook,
                         writer, closing, disk>>
    /\ UNCHANGED <<managerVars, limiterVars, paramVars, deletes, gen, on, answer, listed,
                   daemonVars, faultVars>>

HookSaved(h) ==
    /\ step[h] = "saving"
    /\ Go(h, "done")
    /\ disk' = Resumable
    /\ UNCHANGED <<managerVars, limiterVars, paramVars, deletes, gen, on, answer, listed,
                   daemonVars, faultVars, historyGeneration, initPromise, initializing,
                   pendingHook, writer, closing, op>>

-----------------------------------------------------------------------------
(* Events. *)

(* Creations that have not taken their answer yet. *)
Answered(p) == {c \in Creates : pane[c] = p /\ step[c] = "requested" /\ answer[c] = "ok"}

(* An exit closes the history, which nobody awaits, and starts a timer that*)
(* forgets the session; an earlier one is overwritten and not cleared.     *)
ExitArrives(p) ==
    LET overtakes == Answered(p) # {} /\ daemon[p] # "live"
        late == Answered(p) = {} /\ daemon[p] = "live" /\ sessions[p].alive
    IN
    /\ exits[p] > 0
    /\ crossed' = IF overtakes \/ late THEN crossed \cup {p} ELSE crossed
    /\ exits' = [exits EXCEPT ![p] = @ - 1]
    /\ alive' = alive \ {p}
    /\ Dead(p)
    /\ timers' = [timers EXCEPT ![p] = [all |-> @.all + 1, mapped |-> TRUE]]
    /\ IF p # Recorded THEN UNCHANGED historyVars
       ELSE \E e \in Exits : /\ HistoryDone(e)
                             /\ \A d \in Exits : d < e => ~HistoryDone(d)
                             /\ BeginClose(e)
    /\ UNCHANGED <<generation, killed, deletedHistory, pending, hydrated, sticky, stopped,
                   limiterVars, callVars, daemon, changed, wire, spawning, attached, left,
                   disturbed, overrun, spared, lost>>

TimerFires(p) ==
    /\ timers[p].all > 0
    /\ timers' = [timers EXCEPT ![p] = [all |-> @.all - 1, mapped |-> FALSE]]
    /\ sessions' = [sessions EXCEPT ![p] = NoSession]
    /\ lost' = IF sessions[p].alive THEN lost \cup {p} ELSE lost
    /\ UNCHANGED <<generation, killed, deletedHistory, pending, alive, hydrated, sticky, stopped,
                   limiterVars, callVars, daemonVars, left, disturbed, crossed, overrun,
                   spared, historyVars>>

-----------------------------------------------------------------------------
(* The daemon and the connection to it. *)

Awaited(kind) == IF kind = "list" THEN {"listing", "sweeping"}
                 ELSE IF kind = "create" THEN {"requested"}
                 ELSE {"discarding", "killing"}
Awaiting(i) == answer[i] = "none"
               /\ step[i] \in {"listing", "sweeping", "requested", "discarding", "killing"}

(* An answer to a request that is no longer awaited is dropped. *)
Answer(m, what) ==
    answer' = IF Awaiting(m.from) /\ step[m.from] \in Awaited(m.kind)
              THEN [answer EXCEPT ![m.from] = what] ELSE answer

(* Unlike hydration, a sweep takes sessions that are dying; one that is    *)
(* dead may or may not have been collected yet.                            *)
Inventory(k) ==
    LET p == pane[k] IN
    \/ listed' = [listed EXCEPT ![k] = {p}]
    \/ daemon[p] = "none" /\ listed' = [listed EXCEPT ![k] = {}]

DaemonHandles ==
    LET m == Head(wire)
        p == pane[m.from]
    IN
    /\ wire # <<>>
    /\ wire' = Tail(wire)
    /\ \/ /\ m.kind = "list"
          /\ \/ step[m.from] = "listing" /\ listed' = [listed EXCEPT ![m.from] = Live]
             \/ step[m.from] = "sweeping" /\ Inventory(m.from)
             \/ step[m.from] \notin {"listing", "sweeping"} /\ UNCHANGED listed
          /\ Answer(m, "ok")
          /\ UNCHANGED <<daemon, changed, spawning, attached>>
       \/ /\ m.kind = "kill"
          /\ daemon' = [daemon EXCEPT ![p] = IF @ = "live" THEN "dying" ELSE @]
          /\ Answer(m, "ok")
          /\ UNCHANGED <<changed, spawning, attached, listed>>
       \/ /\ m.kind = "create" /\ daemon[p] = "live"
          /\ Answer(m, IF p \in changed THEN "changed" ELSE "ok")
          /\ attached' = attached \cup ({p} \ changed)
          /\ UNCHANGED <<daemon, changed, spawning, listed>>
       \/ /\ m.kind = "create" /\ daemon[p] # "live"
          /\ daemon' = [daemon EXCEPT ![p] = "none"] /\ changed' = changed \ {p}
          /\ spawning' = spawning \cup {m.from}
          /\ attached' = attached \ {p}
          /\ UNCHANGED <<answer, listed>>
    /\ UNCHANGED <<managerVars, limiterVars, paramVars, deletes, step, gen, on,
                   exits, faultVars, historyVars>>

Spawned(c) ==
    /\ c \in spawning
    /\ spawning' = spawning \ {c}
    /\ daemon' = [daemon EXCEPT ![pane[c]] = "live"]
    /\ attached' = attached \cup {pane[c]}
    /\ Answer([kind |-> "create", from |-> c], "ok")
    /\ UNCHANGED <<managerVars, limiterVars, paramVars, deletes, step, gen, on, listed,
                   changed, wire, exits, faultVars, historyVars>>

(* A shell exits, killed or by itself. *)
ShellExits(p) ==
    /\ daemon[p] # "none"
    /\ daemon[p] = "live" => left.deaths > 0
    /\ left' = IF daemon[p] = "live" THEN [left EXCEPT !.deaths = @ - 1] ELSE left
    /\ daemon' = [daemon EXCEPT ![p] = "none"]
    /\ changed' = changed \ {p}
    /\ exits' = IF p \in attached THEN [exits EXCEPT ![p] = @ + 1] ELSE exits
    /\ attached' = attached \ {p}
    /\ disturbed' = IF p \notin attached /\ (sessions[p].alive \/ Answered(p) # {})
                    THEN disturbed \cup {p} ELSE disturbed
    /\ lost' = IF p \in attached THEN lost ELSE lost \cup {p}
    /\ UNCHANGED <<managerVars, limiterVars, callVars, wire, spawning, crossed, overrun,
                   spared, historyVars>>

(* A request times out, or the daemon cannot do what it asks. *)
RequestFails(i) ==
    /\ left.faults > 0
    /\ Awaiting(i)
    /\ left' = [left EXCEPT !.faults = @ - 1]
    /\ disturbed' = disturbed \cup {pane[i]}
    /\ answer' = [answer EXCEPT ![i] = "failed"]
    /\ \/ UNCHANGED spawning
       \/ i \in spawning /\ spawning' = spawning \ {i}
    /\ UNCHANGED <<managerVars, limiterVars, paramVars, deletes, step, gen, on, listed,
                   daemon, changed, wire, attached, exits, crossed, overrun, spared, lost,
                   historyVars>>

HistoryFails(i) ==
    /\ \/ /\ InitFails(i)
          /\ left.faults > 0
          /\ left' = [left EXCEPT !.faults = @ - 1]
          /\ disturbed' = disturbed \cup {Recorded}
          /\ UNCHANGED <<crossed, overrun, spared, lost>>
       \/ RemoveFails(i) /\ Spares
    /\ UNCHANGED <<managerVars, limiterVars, callVars, daemonVars>>

(* Every request in flight is rejected, whether or not the daemon has it or*)
(* will still get it; events on their way are lost.                        *)
LoseConnection ==
    /\ answer' = [i \in Issuers |-> IF Awaiting(i) THEN "failed" ELSE answer[i]]
    /\ disturbed' = disturbed \cup {pane[i] : i \in {j \in Issuers : Awaiting(j)}}
                              \cup {p \in Panes : exits[p] > 0}
    /\ exits' = [p \in Panes |-> 0]
    /\ attached' = {}
    /\ alive' = {} /\ hydrated' = FALSE

Disconnect ==
    /\ left.drops > 0
    /\ left' = [left EXCEPT !.drops = @ - 1]
    /\ LoseConnection
    /\ wire' \in {wire, <<>>}
    /\ UNCHANGED <<generation, killed, deletedHistory, pending, sessions, sticky, stopped, timers,
                   limiterVars, paramVars, deletes, step, gen, on, listed, daemon,
                   changed, spawning, crossed, overrun, spared, lost, historyVars>>

(* restartService: the daemon is shut down with its sessions, or cannot be *)
(* reached and lives on; then the manager's reset.  Bound: the close that  *)
(* the last one began is through.                                          *)
Restart ==
    /\ left.restarts > 0 /\ HistoryDone(Restarter)
    /\ left' = [left EXCEPT !.restarts = @ - 1]
    /\ LoseConnection
    /\ \/ /\ daemon' = [p \in Panes |-> "none"]
          /\ spawning' = {} /\ wire' = <<>> /\ changed' = {}
       \/ wire' \in {wire, <<>>} /\ UNCHANGED <<daemon, spawning, changed>>
    /\ generation' = [p \in Panes |->
                        IF pending[p] = None THEN generation[p] ELSE generation[p] + 1]
    /\ killed' = {} /\ deletedHistory' = {} /\ sticky' = {} /\ stopped' = {}
    /\ sessions' = [p \in Panes |-> NoSession]
    /\ timers' = [p \in Panes |->
                    [all |-> IF timers[p].mapped THEN timers[p].all - 1 ELSE timers[p].all,
                     mapped |-> FALSE]]
    /\ inUse' = 0 /\ waiters' = <<>>
    /\ step' = [i \in Issuers |-> IF step[i] = "queued" THEN "failed" ELSE step[i]]
    /\ pending' = [p \in Panes |->
                     IF pending[p] # None /\ step[pending[p]] = "queued" THEN None ELSE pending[p]]
    /\ CloseAll(Restarter)
    /\ UNCHANGED <<paramVars, deletes, gen, on, listed, crossed, overrun, spared, lost>>

-----------------------------------------------------------------------------
(* Continuations: when what a call awaits in this process is settled, it   *)
(* goes on before anything else can happen.                                *)
Due(i) ==
    \/ step[i] = "granted"
    \/ step[i] \in {"joined", "waiting", "hooks"} /\ Settled(on[i])
    \/ /\ step[i] \in {"purging", "writing", "dropping", "cleaning", "clearing", "reopening"}
       /\ Recording(i) /\ HistoryDone(i)
    \/ step[i] = "called" /\ \A h \in Hooking : i <= h
    \/ step[i] = "hooking" /\ op[i].at \in {"idle", "unhandled"}

Quiet == \A i \in Issuers : ~Due(i) /\ ~HistoryDue(i)

Turn ==
    \/ \E i \in Issuers :
          /\ HistoryTurn(i)
          /\ UNCHANGED <<managerVars, limiterVars, callVars, daemonVars, faultVars>>
    \/ \E c \in Creates :
          \/ WaitedForPending(c) \/ Joined(c) \/ Begin(c) \/ Written(c)
          \/ Recording(c) /\ (Purged(c) \/ Dropped(c))
    \/ \E k \in Kills : HookAwaited(k) \/ (Recording(k) /\ KillEnds(k))
    \/ \E x \in Clears : ClearStep(x)
    \/ \E h \in Hooks : HookStep(h)

(* An answer is taken, or a file operation is through. *)
Progress(i) ==
    \/ /\ i \in Creates
       /\ \/ Listed(i) \/ ColdRestore(i) \/ Refused(i) \/ Created(i) \/ Discarded(i)
          \/ ~Recording(i) /\ (Purged(i) \/ Dropped(i))
    \/ /\ i \in Kills
       /\ KillAnswered(i) \/ Swept(i) \/ Erased(i) \/ (~Recording(i) /\ KillEnds(i))
    \/ i \in Hooks /\ HookSaved(i)
    \/ /\ HistoryIO(i)
       /\ UNCHANGED <<managerVars, limiterVars, callVars, daemonVars, faultVars>>

(* What happens when nothing of that is due. *)
ServiceStep ==
    \/ \E i \in Issuers : Progress(i) \/ RequestFails(i) \/ HistoryFails(i)
    \/ /\ WriterCloses
       /\ UNCHANGED <<managerVars, limiterVars, callVars, daemonVars, faultVars>>
    \/ \E p \in Panes : TimerFires(p) \/ ShellExits(p)
    \/ DaemonHandles
    \/ \E c \in Creates : Spawned(c)
    \/ Disconnect

(* What the rest of the program asks of some panes. *)
UserStep(panes) ==
    \E i \in Issuers :
        /\ pane[i] \in panes
        /\ \/ i \in Creates /\ CreateOrAttach(i)
           \/ i \in Kills /\ Kill(i)
           \/ i \in Sweeps /\ KillByWorkspaceId(i) /\ \A k \in Sweeps : ~Active(k)
           \/ i \in Clears /\ Clear(i)
           \/ i \in Hooks /\ Hook(i)

ServiceTypeOK ==
    /\ generation \in [Panes -> Nat]
    /\ {killed, deletedHistory, sticky, stopped, alive, changed} \subseteq SUBSET Panes
    /\ pending \in [Panes -> Creates \cup {None}]
    /\ sessions \in [Panes -> [by : Creates \cup {None}, alive : BOOLEAN]]
    /\ hydrated \in BOOLEAN
    /\ timers \in [Panes -> [all : Nat, mapped : BOOLEAN]]
    /\ \A p \in Panes : timers[p].mapped => timers[p].all > 0
    /\ inUse \in 0..MaxSlots /\ waiters \in Seq(Creates)
    /\ step \in [Issuers -> {"unused"} \cup CreateSteps \cup KillSteps \cup OtherSteps \cup Ends]
    /\ daemon \in [Panes -> {"none", "live", "dying"}]
    /\ exits \in [Panes -> Nat] /\ spawning \subseteq Creates
    /\ HistoryTypeOK

(* Nothing is going on for a pane. *)
AtRest(p) ==
    /\ \A i \in Issuers : pane[i] = p => ~Active(i)
    /\ \A k \in DOMAIN wire : pane[wire[k].from] # p
    /\ \A c \in spawning : pane[c] # p
    /\ exits[p] = 0 /\ timers[p].all = 0 /\ daemon[p] # "dying"
    /\ p = Recorded => closing = None /\ \A i \in Issuers : HistoryDone(i)

(* The slots: the queue is empty unless all are taken, and unless the      *)
(* semaphore was reset, every one in use has a holder.                     *)
Holders == {c \in Creates : step[c] \in CreateSteps \ {"joined", "waiting", "queued"}}
SlotsAccounted ==
    /\ waiters # <<>> => inUse = MaxSlots
    /\ inUse <= Cardinality(Holders)

(* A killed pane for which nothing is going on has no live session, unless *)
(* one of its requests failed.                                             *)
KilledStaysKilled ==
    \A p \in killed \ disturbed : AtRest(p) => daemon[p] # "live"

(* A session that is alive on record is live, or its exit is on the way;   *)
(* and once nothing is going on for a pane that is not killed, a live      *)
(* session that the manager has an entry for is alive on record.  Not so   *)
(* after a fault, or when an exit event and an answer crossed.             *)
LiveSessionsLive ==
    \A p \in Panes \ (disturbed \cup crossed) :
        /\ sessions[p].alive => daemon[p] = "live" \/ exits[p] > 0
        /\ AtRest(p) /\ sessions[p].by # None /\ daemon[p] = "live" /\ p \notin killed
              => sessions[p].alive

(* Once nothing is going on for the recorded pane, the history of a pane   *)
(* that was killed for good is not on disk, unless a session was begun     *)
(* since, a removal of the files failed, or the kill knew no workspace to  *)
(* remove them from; and a session alive on record has a writer, unless a  *)
(* request of the pane failed or a kill was overrun.                       *)
HistorySettles ==
    AtRest(Recorded) =>
        /\ Recorded \in deletedHistory /\ Recorded \notin spared => disk = "none"
        /\ sessions[Recorded].alive /\ Recorded \notin overrun \cup disturbed => writer # None
=============================================================================
