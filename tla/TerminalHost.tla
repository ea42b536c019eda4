---------------------------- MODULE TerminalHost ----------------------------
(***************************************************************************)
(* The terminal daemon: the session map of terminal-host/terminal-host.ts, *)
(* the part of a Session's life that decides whether it is alive           *)
(* (terminal-host/session.ts) and the connections of terminal-host/index.ts.*)
(*                                                                         *)
(* A createOrAttach request creates at most one Session object, so a       *)
(* Session object is named by the request that created it: every function  *)
(* over Calls below that is not about the request itself is a field of     *)
(* that Session.  Every action is one turn of the daemon's event loop; the *)
(* awaits of createOrAttach are where turns interleave.  Timers are        *)
(* abstracted to "may fire at any later turn": no property depends on the  *)
(* five-second constants.                                                  *)
(***************************************************************************)
EXTENDS Naturals, Sequences, FiniteSets

CONSTANTS
    SessionIds,      \* the keys clients name sessions by (pane ids)
    Calls,           \* createOrAttach requests; also the Session objects
    Sockets,         \* stream sockets, one per connected client
    MaxSpawns,       \* MAX_CONCURRENT_SPAWNS
    NoSession,       \* "the map has no entry"
    ExclusiveCreate  \* TRUE: no two overlapping requests for one session id

ASSUME MaxSpawnsAssumption == MaxSpawns \in Nat \ {0}
ASSUME CallsAssumption == IsFiniteSet(Calls) /\ NoSession \notin Calls
ASSUME ExclusiveAssumption == ExclusiveCreate \in BOOLEAN

VARIABLES
    pc,           \* progress of each request through createOrAttach
    sid, sock,    \* the request's session id and the caller's stream socket
    inUse, queue, \* the spawn semaphore: slots taken, requests waiting
    sessions,     \* the daemon's Map: session id -> Session object
    killTimers,   \* session ids with an armed fail-safe kill timer
    cleanups,     \* number of pending cleanup timeouts per session id
    proc,         \* what the Session knows of its subprocess
    running,      \* Session objects whose OS process has not exited
    exited,       \* exitCode # null
    disposed,     \* disposed
    terminating,  \* terminatingAt # null
    clients,      \* attachedClients
    openSockets,  \* sockets that are still connected
    stage         \* "stopping" once stopServer has run terminalHost.dispose()

requestVars == <<pc, sid, sock>>
limiterVars == <<inUse, queue>>
timerVars   == <<killTimers, cleanups>>
objectVars  == <<proc, running, exited, disposed, terminating, clients>>
vars == <<requestVars, limiterVars, sessions, timerVars, objectVars,
          openSockets, stage>>

-----------------------------------------------------------------------------
(* Session getters. *)

Spawned == {c \in Calls : proc[c] \in {"booting", "up"}}  \* subprocess # null

isAlive(c) == c \in Spawned /\ c \notin exited
isTerminating(c) == c \in terminating
Mapped(i) == sessions[i] # NoSession

(* The requests that are between their first turn and their answer. *)
InFlight == {c \in Calls : pc[c] \in {"queued", "granted", "spawning"}}
Holders == {c \in Calls : pc[c] \in {"granted", "spawning"}}

-----------------------------------------------------------------------------
Init ==
    /\ pc = [c \in Calls |-> "idle"]
    /\ sid \in [Calls -> SessionIds]
    /\ sock \in [Calls -> Sockets]
    /\ inUse = 0
    /\ queue = <<>>
    /\ sessions = [i \in SessionIds |-> NoSession]
    /\ killTimers = {}
    /\ cleanups = [i \in SessionIds |-> 0]
    /\ proc = [c \in Calls |-> "none"]
    /\ running = {}
    /\ exited = {}
    /\ disposed = {}
    /\ terminating = {}
    /\ clients = [c \in Calls |-> {}]
    /\ openSockets = Sockets
    /\ stage = "serving"

-----------------------------------------------------------------------------
(* Effects shared by several handlers. *)

(* Session.dispose on every member of D.  The Dispose frame is not sent:   *)
(* disposed is set before sendFrameToSubprocess looks at it.  The process  *)
(* trees get SIGKILL, so their exits arrive in a later turn; the listener  *)
(* for them stays registered.                                              *)
Dispose(D) ==
    /\ disposed' = disposed \cup D
    /\ proc' = [c \in Calls |-> IF c \in D THEN "gone" ELSE proc[c]]
    /\ clients' = [c \in Calls |-> IF c \in D THEN {} ELSE clients[c]]

(* TerminalHost.handleSessionExit: all it knows is the session id. *)
HandleSessionExit(i) ==
    /\ killTimers' = killTimers \ {i}
    /\ cleanups' = [cleanups EXCEPT ![i] = @ + 1]

(* Mutant of Release: the slot handed to the waiter is not counted. *)
ReleaseUncounted(c, next) ==
    /\ pc' = [r \in Calls |->
                IF r = c THEN next
                ELSE IF queue # <<>> /\ r = Head(queue) THEN "granted"
                ELSE pc[r]]
    /\ inUse' = inUse - 1
    /\ queue' = IF queue = <<>> THEN queue ELSE Tail(queue)

(* Mutant of Release: the slot is freed and nobody is woken. *)
ReleaseNoWake(c, next) ==
    /\ pc' = [pc EXCEPT ![c] = next]
    /\ inUse' = IF inUse > 0 THEN inUse - 1 ELSE 0
    /\ UNCHANGED queue

(* Semaphore.release by request c, which moves on to `next`. *)
Release(c, next) ==
    /\ pc' = [r \in Calls |->
                IF r = c THEN next
                ELSE IF queue # <<>> /\ r = Head(queue) THEN "granted"
                ELSE pc[r]]
    /\ inUse' = (IF inUse > 0 THEN inUse - 1 ELSE 0)
                 + (IF queue = <<>> THEN 0 ELSE 1)
    /\ queue' = IF queue = <<>> THEN queue ELSE Tail(queue)

-----------------------------------------------------------------------------
(* createOrAttach. *)

MayCall(c) ==
    /\ pc[c] = "idle"
    /\ sock[c] \in openSockets
    /\ ExclusiveCreate => \A d \in InFlight : sid[d] # sid[c]

(* The session exists, lives and is not being killed: attach to it. *)
Attach(c) ==
    LET s == sessions[sid[c]] IN
    /\ MayCall(c)
    /\ s # NoSession
    /\ ~isTerminating(s)
    /\ isAlive(s)
    /\ clients' = [clients EXCEPT ![s] = @ \cup {sock[c]}]
    /\ pc' = [pc EXCEPT ![c] = "done"]
    /\ UNCHANGED <<sid, sock, limiterVars, sessions, timerVars, proc, running,
                   exited, disposed, terminating, openSockets, stage>>

(* ... or refuse it: the pane now wants a different transport. *)
RejectIncompatible(c) ==
    LET s == sessions[sid[c]] IN
    /\ MayCall(c)
    /\ s # NoSession
    /\ ~isTerminating(s)
    /\ isAlive(s)
    /\ pc' = [pc EXCEPT ![c] = "failed"]
    /\ UNCHANGED <<sid, sock, limiterVars, sessions, timerVars, objectVars,
                   openSockets, stage>>

(* No usable session: force-dispose a terminating or dead one (only the    *)
(* first clears the kill timer) and ask for a spawn slot.                  *)
Create(c) ==
    LET i == sid[c]
        s == sessions[i]
    IN
    /\ MayCall(c)
    /\ s # NoSession => isTerminating(s) \/ ~isAlive(s)
    /\ Dispose({s} \cap Calls)
    /\ sessions' = [sessions EXCEPT ![i] = NoSession]
    /\ killTimers' = IF s # NoSession /\ isTerminating(s)
                     THEN killTimers \ {i} ELSE killTimers
    /\ IF inUse < MaxSpawns
       THEN /\ inUse' = inUse + 1
            /\ pc' = [pc EXCEPT ![c] = "granted"]
            /\ UNCHANGED queue
       ELSE /\ queue' = Append(queue, c)
            /\ pc' = [pc EXCEPT ![c] = "queued"]
            /\ UNCHANGED inUse
    /\ UNCHANGED <<sid, sock, cleanups, running, exited, terminating,
                   openSockets, stage>>

(* createSession and session.spawn start the subprocess ... *)
Spawn(c) ==
    /\ pc[c] = "granted"
    /\ pc' = [pc EXCEPT ![c] = "spawning"]
    /\ proc' = [proc EXCEPT ![c] = "booting"]
    /\ running' = running \cup {c}
    /\ UNCHANGED <<sid, sock, limiterVars, sessions, timerVars, exited,
                   disposed, terminating, clients, openSockets, stage>>

(* ... or throw, which gives the slot back. *)
SpawnThrows(c) ==
    /\ pc[c] = "granted"
    /\ Release(c, "failed")
    /\ UNCHANGED <<sid, sock, sessions, timerVars, objectVars, openSockets,
                   stage>>

(* Mutant of FinishSpawn: a timeout fails the request and forgets it. *)
FinishSpawnLeaksTimeout(c) ==
    /\ pc[c] = "spawning"
    /\ IF isAlive(c) /\ proc[c] = "up"
       THEN /\ Release(c, "done")
            /\ sessions' = [sessions EXCEPT ![sid[c]] = c]
            /\ clients' = [clients EXCEPT ![c] = @ \cup {sock[c]}]
            /\ UNCHANGED <<disposed, proc>>
       ELSE Release(c, "failed") /\ UNCHANGED <<sessions, clients, disposed, proc>>
    /\ UNCHANGED <<sid, sock, timerVars, running, exited, terminating,
                   openSockets, stage>>

(* The wait for the PTY ends: readiness, an early exit, or the timeout,    *)
(* which is only logged.  A live session enters the map and the caller is  *)
(* attached in the same turn, without looking at the map or the socket     *)
(* again; a dead one is disposed and the request fails.                    *)
FinishSpawn(c) ==
    /\ pc[c] = "spawning"
    /\ IF isAlive(c)
       THEN /\ Release(c, "done")
            /\ sessions' = [sessions EXCEPT ![sid[c]] = c]
            /\ clients' = [clients EXCEPT ![c] = @ \cup {sock[c]}]
            /\ UNCHANGED <<disposed, proc>>
       ELSE /\ Release(c, "failed")
            /\ Dispose({c})
            /\ UNCHANGED sessions
    /\ UNCHANGED <<sid, sock, timerVars, running, exited, terminating,
                   openSockets, stage>>

-----------------------------------------------------------------------------
(* What the subprocess does. *)

(* The Spawned frame: the PTY exists.  A PTY that cannot be spawned sends  *)
(* an Error frame instead and never gets here.                             *)
SpawnedFrame(c) ==
    /\ proc[c] = "booting"
    /\ c \in running
    /\ proc' = [proc EXCEPT ![c] = "up"]
    /\ UNCHANGED <<requestVars, limiterVars, sessions, timerVars, running,
                   exited, disposed, terminating, clients, openSockets,
                   stage>>

(* The Exit frame: the PTY ended, the subprocess is still there. *)
ExitFrame(c) ==
    /\ proc[c] = "up"
    /\ c \in running
    /\ c \notin exited
    /\ exited' = exited \cup {c}
    /\ HandleSessionExit(sid[c])
    /\ UNCHANGED <<requestVars, limiterVars, sessions, proc, running, disposed,
                   terminating, clients, openSockets, stage>>

(* handleSubprocessExit: the process is gone.  It is delivered to disposed *)
(* Session objects too.                                                    *)
ProcessExit(c) ==
    /\ c \in running
    /\ running' = running \ {c}
    /\ proc' = [proc EXCEPT ![c] = "gone"]
    /\ exited' = exited \cup {c}
    /\ IF c \in exited THEN UNCHANGED timerVars ELSE HandleSessionExit(sid[c])
    /\ UNCHANGED <<requestVars, limiterVars, sessions, disposed, terminating,
                   clients, openSockets, stage>>

-----------------------------------------------------------------------------
(* kill, its fail-safe timer, and killAll. *)

KillIds(I) ==
    /\ terminating' = terminating \cup {sessions[i] : i \in I}
    /\ killTimers' = killTimers \cup I
    /\ UNCHANGED <<requestVars, limiterVars, sessions, cleanups, proc, running,
                   exited, disposed, clients, openSockets, stage>>

Kill(i) == Mapped(i) /\ KillIds({i})

KillAll == KillIds({i \in SessionIds : Mapped(i)})

(* Mutant of KillTimeout: the disposed session stays in the map. *)
KillTimeoutKeepsEntry(i) ==
    LET s == sessions[i] IN
    /\ i \in killTimers
    /\ killTimers' = killTimers \ {i}
    /\ Dispose(IF s # NoSession /\ isTerminating(s) THEN {s} ELSE {})
    /\ UNCHANGED <<requestVars, limiterVars, sessions, cleanups, running,
                   exited, terminating, openSockets, stage>>

(* Mutant of KillTimeout: it gives up on a session whose PTY is not up. *)
KillTimeoutSkipsBooting(i) ==
    LET s == sessions[i] IN
    /\ i \in killTimers
    /\ killTimers' = killTimers \ {i}
    /\ IF s # NoSession /\ isTerminating(s) /\ proc[s] # "booting"
       THEN /\ Dispose({s})
            /\ sessions' = [sessions EXCEPT ![i] = NoSession]
       ELSE UNCHANGED <<disposed, proc, clients, sessions>>
    /\ UNCHANGED <<requestVars, limiterVars, cleanups, running, exited,
                   terminating, openSockets, stage>>

KillTimeout(i) ==
    LET s == sessions[i] IN
    /\ i \in killTimers
    /\ killTimers' = killTimers \ {i}
    /\ IF s # NoSession /\ isTerminating(s)
       THEN /\ Dispose({s})
            /\ sessions' = [sessions EXCEPT ![i] = NoSession]
       ELSE UNCHANGED <<disposed, proc, clients, sessions>>
    /\ UNCHANGED <<requestVars, limiterVars, cleanups, running, exited,
                   terminating, openSockets, stage>>

(* Mutant of CleanupTimeout: not re-armed while clients are attached. *)
CleanupTimeoutOnce(i) ==
    LET s == sessions[i] IN
    /\ cleanups[i] > 0
    /\ cleanups' = [cleanups EXCEPT ![i] = @ - 1]
    /\ IF s # NoSession /\ ~isAlive(s) /\ clients[s] = {}
       THEN /\ Dispose({s})
            /\ sessions' = [sessions EXCEPT ![i] = NoSession]
       ELSE UNCHANGED <<disposed, proc, clients, sessions>>
    /\ UNCHANGED <<requestVars, limiterVars, killTimers, running, exited,
                   terminating, openSockets, stage>>

(* The timer of scheduleSessionCleanup.  With clients still attached it    *)
(* re-arms itself and changes nothing, so it is shown only when it acts.   *)
CleanupTimeout(i) ==
    LET s == sessions[i] IN
    /\ cleanups[i] > 0
    /\ cleanups' = [cleanups EXCEPT ![i] = @ - 1]
    /\ \/ /\ s = NoSession \/ isAlive(s)
          /\ UNCHANGED <<disposed, proc, clients, sessions>>
       \/ /\ s # NoSession
          /\ ~isAlive(s)
          /\ clients[s] = {}
          /\ Dispose({s})
          /\ sessions' = [sessions EXCEPT ![i] = NoSession]
    /\ UNCHANGED <<requestVars, limiterVars, killTimers, running, exited,
                   terminating, openSockets, stage>>

-----------------------------------------------------------------------------
(* detach and detachFromAllSessions: dead sessions nobody watches go. *)

(* Mutant of DetachFrom: the last client to leave takes a live session away. *)
DetachFromTakesLive(s, I) ==
    LET left == {sessions[i] : i \in I}
        idle == {c \in left : clients[c] \subseteq {s}}
    IN
    /\ disposed' = disposed \cup idle
    /\ proc' = [c \in Calls |-> IF c \in idle THEN "gone" ELSE proc[c]]
    /\ clients' = [c \in Calls |->
                     IF c \in left THEN clients[c] \ {s} ELSE clients[c]]
    /\ sessions' = [i \in SessionIds |->
                      IF i \in I /\ sessions[i] \in idle
                      THEN NoSession ELSE sessions[i]]
    /\ UNCHANGED <<requestVars, limiterVars, timerVars, running, exited,
                   terminating, stage>>

DetachFrom(s, I) ==
    LET left == {sessions[i] : i \in I}
        idle == {c \in left : ~isAlive(c) /\ clients[c] \subseteq {s}}
    IN
    /\ disposed' = disposed \cup idle
    /\ proc' = [c \in Calls |-> IF c \in idle THEN "gone" ELSE proc[c]]
    /\ clients' = [c \in Calls |->
                     IF c \in left THEN clients[c] \ {s} ELSE clients[c]]
    /\ sessions' = [i \in SessionIds |->
                      IF i \in I /\ sessions[i] \in idle
                      THEN NoSession ELSE sessions[i]]
    /\ UNCHANGED <<requestVars, limiterVars, timerVars, running, exited,
                   terminating, stage>>

Detach(s, i) ==
    /\ s \in openSockets
    /\ Mapped(i)
    /\ DetachFrom(s, {i})
    /\ UNCHANGED openSockets

(* A connection closes, or hello replaces the client's earlier socket. *)
Disconnect(s) ==
    /\ s \in openSockets
    /\ openSockets' = openSockets \ {s}
    /\ DetachFrom(s, {i \in SessionIds : Mapped(i)})

(* stopServer's call of TerminalHost.dispose; established connections keep *)
(* being served until they close.                                          *)
HostDispose ==
    /\ stage = "serving"
    /\ stage' = "stopping"
    /\ killTimers' = {}
    /\ Dispose({sessions[i] : i \in SessionIds} \ {NoSession})
    /\ sessions' = [i \in SessionIds |-> NoSession]
    /\ UNCHANGED <<requestVars, limiterVars, cleanups, running, exited,
                   terminating, openSockets>>

-----------------------------------------------------------------------------
Request(c) ==
    \/ Attach(c) \/ RejectIncompatible(c) \/ Create(c)
    \/ Spawn(c) \/ SpawnThrows(c) \/ FinishSpawn(c)

Subprocess(c) == SpawnedFrame(c) \/ ExitFrame(c) \/ ProcessExit(c)

Timeout(i) == KillTimeout(i) \/ CleanupTimeout(i)

Next ==
    \/ \E c \in Calls : Request(c) \/ Subprocess(c)
    \/ \E i \in SessionIds : Kill(i) \/ Timeout(i)
    \/ \E s \in Sockets : Disconnect(s) \/ \E i \in SessionIds : Detach(s, i)
    \/ KillAll
    \/ HostDispose

(* The event loop runs the continuation of a granted slot, and the ready   *)
(* promise is raced against a timeout; nothing is assumed of the processes.*)
Fairness ==
    \A c \in Calls : WF_vars(Spawn(c) \/ SpawnThrows(c)) /\ WF_vars(FinishSpawn(c))

Spec == Init /\ [][Next]_vars
FairSpec == Spec /\ Fairness

-----------------------------------------------------------------------------
TypeOK ==
    /\ pc \in [Calls -> {"idle", "queued", "granted", "spawning", "done", "failed"}]
    /\ sid \in [Calls -> SessionIds]
    /\ sock \in [Calls -> Sockets]
    /\ inUse \in Nat
    /\ queue \in Seq(Calls)
    /\ sessions \in [SessionIds -> Calls \cup {NoSession}]
    /\ killTimers \subseteq SessionIds
    /\ cleanups \in [SessionIds -> Nat]
    /\ proc \in [Calls -> {"none", "booting", "up", "gone"}]
    /\ running \subseteq Calls
    /\ exited \subseteq Calls
    /\ disposed \subseteq Calls
    /\ terminating \subseteq Calls
    /\ clients \in [Calls -> SUBSET Sockets]
    /\ openSockets \subseteq Sockets
    /\ stage \in {"serving", "stopping"}

(* Spawn slots are never lost and never handed out twice: the semaphore's  *)
(* counter is the number of requests inside their spawn section, which is  *)
(* at most MAX_CONCURRENT_SPAWNS, nobody waits while a slot is free, and   *)
(* exactly the waiting requests are in its queue, once each.               *)
SpawnSlots ==
    /\ inUse = Cardinality(Holders)
    /\ inUse <= MaxSpawns
    /\ queue # <<>> => inUse = MaxSpawns
    /\ \A c \in Calls : pc[c] = "queued" <=> \E k \in DOMAIN queue : queue[k] = c
    /\ \A j, k \in DOMAIN queue : queue[j] = queue[k] => j = k

(* What the map holds is usable: a mapped Session was created for that id  *)
(* by a finished request and has not been disposed, so attaching to it     *)
(* cannot throw "Session disposed".                                        *)
MapSound ==
    \A i \in SessionIds : Mapped(i) =>
        LET s == sessions[i] IN
        sid[s] = i /\ pc[s] = "done" /\ s \notin disposed

(* A dead session still in the map has a cleanup timeout on its way, even  *)
(* though earlier timeouts of the same id may have fired on other Session  *)
(* objects: dead sessions do not stay for ever.                            *)
DeadSessionsHaveCleanup ==
    \A i \in SessionIds :
        Mapped(i) /\ ~isAlive(sessions[i]) => cleanups[i] > 0

(* Every live subprocess is owned: it is either still inside its           *)
(* createOrAttach or reachable through the map, so kill and dispose can    *)
(* find it.  Needs ExclusiveCreate: two overlapping requests for one id    *)
(* both spawn, and the later one replaces the earlier in the map.          *)
NoOrphan ==
    ExclusiveCreate =>
        \A c \in Spawned : pc[c] = "spawning" \/ sessions[sid[c]] = c

(* terminal-host.ts:228: "A fail-safe timer ensures cleanup even if the    *)
(* PTY never exits": a session that is being killed and still runs has the *)
(* timer armed.                                                            *)
KillFailSafe ==
    \A i \in SessionIds :
        Mapped(i) /\ isTerminating(sessions[i]) /\ isAlive(sessions[i])
            => i \in killTimers

(* What holds of it: only the late exit of another Session object of the   *)
(* same id, one that the map no longer holds, can have disarmed the timer. *)
KillFailSafeUnlessStaleExit ==
    \A i \in SessionIds :
        Mapped(i) /\ isTerminating(sessions[i]) /\ isAlive(sessions[i])
            => \/ i \in killTimers
               \/ \E d \in exited : d # sessions[i] /\ sid[d] = i

(* index.ts:258: a stream socket that is gone is attached to no session,   *)
(* "to avoid ghost connections that can re-introduce backpressure".        *)
NoGhostClients == \A c \in Calls : clients[c] \subseteq openSockets

(* A live session that nobody is killing is never taken out of the map or  *)
(* replaced in it, except by the daemon's own shutdown.                    *)
LiveSessionsKept ==
    [][\A i \in SessionIds :
        LET s == sessions[i] IN
        Mapped(i) /\ isAlive(s) /\ ~isTerminating(s) =>
            sessions'[i] = s \/ stage' # stage]_vars

(* Every createOrAttach request is answered. *)
CallsReturn ==
    \A c \in Calls : c \in InFlight ~> pc[c] \in {"done", "failed"}

=============================================================================
