# Verification of the Chi ADE desktop program

TLA+ specifications of the parts of this repository that carry its own concurrent logic, the TLC
configurations that model-check them on small instances, and proofs that TLAPS checks for every
value of the constants. Every definition is a translation of the TypeScript in `src/`; where a doc
or a comment promises more than the code does, a run shows it and a finding in `PROJECT.json`
quotes both.

To run, in this directory: `tlc -config TerminalHost.cfg MCTerminalHost` (and the others below),
`tlapm TerminalHostProofs.tla`, `tlapm AppStateProofs.tla`, `tlapm TerminalServiceProofs.tla`,
`tlapm TerminalHistoryProofs.tla`, `tlapm UnitsProofs.tla`, `tlapm PtySubprocessProofs.tla`,
`tlapm SessionStreamProofs.tla`, `tlapm WorkspaceInitProofs.tla`.

## 1. The system

The repository is a monorepo. Its core is `apps/desktop`: an Electron application that runs coding
agents in terminals, one workspace per agent. The cloud API, the web sites, the mobile app and the
shared packages are request handlers, user interface and schemas over it. Within the desktop app,
the logic that has to be right is about processes and files that several actors touch:

```
 renderer ── tRPC ── main process ───────── unix socket ── terminal daemon ── pipes ── pty-subprocess ── PTY
                     │  service manager        (NDJSON)      session map               one per terminal
                     │  daemon client                        Session objects
                     │  terminal history
                     │  app state  ── app-state.json ── sync client, other devices
                     │  workspace init / delete ── git
                     └─ SSH tunnels (over the service manager)
```

| Part | State | Operations | What is hard | What makes it correct |
|---|---|---|---|---|
| Terminal daemon (`terminal-host/terminal-host.ts`, `index.ts`) | session map, spawn semaphore, kill timers, cleanup timeouts, connections | createOrAttach, detach, kill, killAll, hello, dispose; exit events | createOrAttach awaits a slot and then the PTY; ids are reused while earlier Session objects still have exits and timers to come | slots neither lost nor exceeded; the map holds usable sessions only; a dead one is collected, a live one is neither lost nor taken away; a kill ends |
| Session (`terminal-host/session.ts`) | emulator queue, snapshot waiters, attached clients, pause of stdout, stdin queue | data and exit frames, attach, detach, dispose, child exit | a snapshot must cover what came before the attach; one slow client stops reading for all; two channels report the end | every slice in the emulator once; snapshots complete; a pause ends, except for a client that was gone when it was attached; exit after output |
| PTY subprocess (`terminal-host/pty-subprocess.ts`) | input queue and watermarks, output batch, escalation of a kill | Spawn, Write, Kill, Dispose frames; timers; PTY events | backpressure in two directions; partial writes, EAGAIN, failures; three ways to end that race | no input or output lost or stuck; the process ends and leaves no shell |
| App state (`lib/app-state`) | committed state and revision, tail of mutations, the file | enqueue at a revision, promotion of a snapshot, load; watcher, sync | a file another program replaces between any two steps; crashes; failures half way | mutations atomic and in order; no peer's snapshot destroyed; the state is on disk, if need be with one mutation too many |
| Service manager, client, history (`lib/terminal`, `lib/terminal-host/client.ts`) | pane generations, tombstones, pending creations, semaphore; connection; history writers | createOrAttach, kill, killByWorkspaceId, forceKillAll, reset; hooks | a pane killed while it is created; writers closed and reopened under load | a killed pane stays killed; a new pane is not mistaken for the old one |
| Workspace initialisation and deletion (`workspace-init-manager.ts` and the routers) | jobs, cancellations, done promises, project lock | create, retry, cancel, delete | a delete that waits at most 30 s for an init it cancelled | nothing at the place a deleted workspace had; nobody stuck |
| SSH tunnels (`lib/remote/tunnel-manager.ts`) | desired and actual state, retry timer | ensure, stop, exit, retry | stop while ensure awaits | a stopped tunnel stays stopped |

`PROJECT.json` lists every part, modelled or not, and under `hazards` each place in the code that a
test would hardly reach, with the properties that cover it or the reason why none does yet.

How the modelled parts meet: the main process sends createOrAttach and kill to the daemon
(`TerminalHost`); a Session object in the daemon starts a subprocess and talks to it over stdin and
stdout (`SessionStream` is the daemon's end of stdout, `PtySubprocess` the other process). The three
are separate modules, each with the others as a nondeterministic environment: `TerminalHost` knows
of a process only that it boots, may exit and eventually is gone; `SessionStream` sees frames and an
end of the child; `PtySubprocess` sees a daemon that sends any legal frames and reads stdout when it
likes. What each assumes of the other is no more than what the other allows, and no fairness of
another module is assumed. `AppState` and `WorkspaceInit` are independent of the terminals.

On the near side of the socket, `TerminalHistory`, `ServiceManager` and `SshTunnel` extend one
another and are checked as one system: the history of a pane is driven by the service manager's
calls, and a tunnel is a pane that its manager creates and kills through them. The daemon is there
what `TerminalHost` leaves visible: a session is live, dying or gone, requests are handled in order,
a creation may take its time, and exits are reported on a socket of their own.

## 2. Modules

| Module | Role |
|---|---|
| `TerminalHost` | the daemon's session map, spawn slots, timers, connections |
| `TerminalHostProofs` | its theorems |
| `Units` | amounts of data: what a queue of buffers or frames holds |
| `UnitsProofs` | lemmas about them, for the two proof modules that count |
| `PtySubprocess` | one PTY-owning process |
| `PtySubprocessProofs` | its theorems |
| `SessionStream` | one Session's output, snapshots and client backpressure |
| `SessionStreamProofs` | its theorems |
| `AppStateStore` | abstract: an atomic, ordered, conditional store |
| `AppState` | the coordinator and the file promotion; implements `AppStateStore` |
| `AppStateProofs` | its theorems |
| `WorkspaceInit` | initialisation, retry, cancellation and deletion of workspaces, the project lock |
| `WorkspaceInitProofs` | its theorems |
| `TerminalHistory` | the history writer of a pane, over its directory |
| `ServiceManager` | extends it: the service manager's calls, its limiter, and an abstract daemon |
| `SshTunnel` | extends that: one tunnel, what the routers do to it, and the specification of the whole |
| `TerminalServiceProofs` | theorems about its slots, its kills, and the sessions it takes to be alive |
| `TerminalHistoryProofs` | theorems about the types of the whole, the history and the tunnel |
| `MC*` | constants of the checked instances |

Definitions named "Mutant of ..." in a module are deliberately wrong variants of an action. No
specification uses them; `PROJECT.json` pairs each with a property that fails when the action is
replaced by it, which shows that the property can fail.

In all modules one action is what the single-threaded event loop does between two awaits or
callbacks. Timers may fire at any later turn: no property depends on how long one takes.

### 2.1 TerminalHost

A createOrAttach request makes at most one Session object, so both are named by the request
(`Calls`). `pc` is where a request is: `queued` for a spawn slot, `granted` one, `spawning` (awaiting
the PTY), `done` or `failed`. `sessions`, `killTimers`, `cleanups`, `inUse` and `queue` are the
fields of `TerminalHost` and of its semaphore; `proc`, `exited`, `disposed`, `terminating` and
`clients` are fields of the Session; `running` is the operating system's view. A Session that was
disposed keeps its exit listener, so `ProcessExit` is also delivered to objects the map has dropped,
and the handler knows only the session id. `ExclusiveCreate` is the service manager's rule of one
request in flight per pane; without it the daemon itself lets two requests for one id both spawn,
and the second replaces the first in the map. The properties that need the rule say so.

Not modelled here: authentication and framing, `listSessions`, resize, signals, clear-scrollback
(no effect on the life of a session), pid, token and socket files.

### 2.2 PtySubprocess

The stdin pipe holds frames; `ReadChunk` takes any number of them in one turn, and the rest of that
turn's frames (`chunk`) are handled even if the first one paused stdin: that is how the queue
overshoots its watermark. `armed` is the one flush that is due (`flushing` in the code): a timer or an
outstanding `fs.write`. Writes are partial (`WriteDone(w)`), retried (`WriteAgain`), or fail and drop
the queue (`WriteFails`; `FlushSync` on the fallback path). Output is counted in units: `emitted` by
the PTY, `batched`, in `out` (stdout), `got` by the daemon. A kill is signalled (`HandleKill`), then
SIGKILL (`Escalate`), then a synthesized exit (`ForceExit`); these race with `PtyExit` (node-pty's
onExit, which may never come) and with `HandleDispose`. `treeKill`'s SIGKILL, which the code sends in a
callback, is taken as immediate. `process.exit` loses what the operating system's pipe has not taken
(`ProcessExit`). A process that exits with a partial batch because of `ForceExit` or a crash loses it;
only the natural exit promises all output.

### 2.3 SessionStream

Output is counted in slices; a data frame has one or two. `writeQueue`, `processed`, `scheduled` and
`waiters` are the emulator queue of `session.ts`; the time budget that ends a turn of the emulator loop
after any slice becomes one slice a turn. `attach` follows one attach call per socket: waiting for its
boundary, reached, timed out (`late`), snapshot taken; `boundary` and `missing` are history variables,
what was received when the attach began and what its snapshot lacked. `Broadcast` is `broadcastEvent`
with its backpressure; a destroyed socket refuses or throws until its close event is handled.
`creating` is the socket whose createOrAttach awaits the spawn. It is attached afterwards whatever
became of it (`AttachBegins`), and if its close was handled in between it is a ghost, `gone`: it
refuses or throws for ever, and neither a drain nor a close will come for it. `ProcessExit` is the
child's exit event, `ExitFrame` the frame in stdout; either may come first, and the event drops the
decoder with what it holds (`ResetProcessState`).

### 2.4 AppStateStore and AppState

`AppState` has one action per await of `writeAppStateAtomically`: rename the target away, hand it to
`beforeOverwrite`, link the temporary file to the target without clobbering, again if a peer's file has
landed there, up to `MaxAttempts`; every step may fail, with the restore or keep that the error path
does. `CleanupFails` is the failing removal of the temporary file: the link has succeeded, so the call
is told of a failure while the target holds its draft, and the displaced file goes. `PeerWrites` is the
sync client, which may act between any two of them. `Crash` and `Restart` are the end of the process at
any point and `loadAppState`, whose first run promotes the default state: it captures the peers that
came meanwhile, and may fail after the link (`RestartFails`), so that the next start loads what it
finds. The steps between are not interleaved with anything but those peers, since no mutation is
accepted before the state is loaded. A snapshot is the device that wrote it and the mutations it
contains, so "which file is where" is all the model keeps of the data.

`AppStateStore` is what callers are promised: each mutation is one step from the state before it to
the state after it, in the order of the requests, at the revision it asked for or not at all.
`AppState` implements it with `log <- committed` (`ImplementsStore`), checked by TLC and proved.

### 2.5 WorkspaceInit

A run is one initialisation, a delete one delete request; `of` and `target` are their workspaces.
`job`, `created`, `donePromise`/`resolved` and `cancellations` are the maps of
`workspace-init-manager.ts` (`created` is `worktreeCreated` of the job; a promise is named by the run
that made it), `row` the local database, `path` the branch and path in it, `disk` the places where
there is a worktree or an agent home. A place is named by the run that chose it, and `doomed` is the
one a delete has read, to remove. `queue` is the project lock: a release wakes the waiters in the order
they came and in the same turn, so the lock is a FIFO queue whose head holds it. A worktree's run is
`locking`, then `preparing` (default branch, fetch), `creating`, and on a cancellation `undoing` or
after an exception `cleaning`; `Finish` is its `finally` block. An agent's run is `cloning` from the
start: no lock, no look at the cancellation. `CreateFails` is `createWorktree` throwing before or after
git has added the worktree; in the second case nobody has marked it as created, and the catch block
leaves it. `Create` inserts the row and awaits the branch's configuration before `Start`; a plain
`Retry` starts the job in the turn of its check; `RetryDeduplicated`, a retry that asks for another
branch name, awaits the list of branches (which may fail, `CallFails`), moves the row to a place of its
own unless the name was free, and starts without looking at the row again. `cancelled`, `overlapped`
and `timedOut` are history variables that the properties speak of.

Inputs follow the user interface: a retry is offered for a failed job, a delete for a workspace that
is not being deleted. Not modelled: restarts (jobs are in memory; an interrupted init may be retried),
checking out a pull request into a worktree that exists already, the choice of a name that
deduplication makes (that nobody else has it is assumed), `close`, `deleteWorktree`, deleting
the local branch.

### 2.6 TerminalHistory, ServiceManager and SshTunnel

Calls are named by issuers: `Creates`, `Kills` (of which `Sweeps` are calls of killByWorkspaceId),
`Clears`, `Hooks`, and `Exits`, which stand for the closes that an exit event starts and nobody
awaits. `step` is where a call is, between which two awaits; `gen` the pane generation it read at its
start; `on` the call or session it waits for; `answer` what came back from the daemon, taken in a
later turn. `generation`, `killed`, `deletedHistory`, `pending`, `sessions`, `alive`, `hydrated`,
`sticky`, `stopped` and `timers` are the maps and sets of `service-manager.ts`, `inUse` and `waiters`
the priority semaphore. `wire` are the requests the daemon has not handled, `spawning` the creations
it spawns for, `exits` the exit events on their way. A creation goes `joined` or `waiting` (for a
creation of this or of an earlier generation), `queued`, `granted`, then hydration, purge or cold
restore, request, history writer; when the pane's generation or tombstone has changed, the session
is discarded (`discarding`, `dropping`).

An awaited promise of this process continues before anything from outside is handled: `Turn` and
`TunnelTurn` are these continuations, `Quiet` says that none is due, and everything else waits for
that. Their order among themselves is left open. An answer of the daemon, a file operation, a timer
and an event are turns of their own (`ServiceStep`).

`TerminalHistory` has `historyGeneration`, `initPromise`, `initializing`, `pendingHook`, `writer` and
`closing` of the history manager for one pane, and `op`, where each call's operation on it is. `disk`
is the directory: absent, only the hook's session, a recording without an end, one with an end.
`InitFails` is a writer that cannot be opened or cannot store the hook, `RemoveFails` a removal that
fails, is logged and leaves the directory as it was; a removal of some of the files is not
distinguished from one of none. `Placed` are the kills that know the pane's workspace, from its
session or from their caller: the others only close the writer (`Clean`).

In `SshTunnel`, `ensuring` is the `ensure` in flight with its current call, `stops` what each kill of
the tunnel's pane is for, `deleting` how far the deletion of the workspace has got: the tunnel's
`stop`, a first killByWorkspaceId, the teardown that may fail (`GiveUp`, the workspace stays), a
second killByWorkspaceId that also erases histories. killByWorkspaceId is modelled for one pane of
its workspace; its wait for the others only delays it.

What may go wrong: a request fails or times out although the daemon still performs it, opening or
removing a history fails, the connection is lost with all answers and events in flight, shells exit,
the service is restarted (the daemon shut down or not, then reset). Each has a bound in `left`.

History variables mark what the properties except, since the code does not see to it: `disturbed`,
panes one of whose own requests or events was lost; `crossed`, panes whose exit event overtook the
answer to the creation of that session, or came after a later session was created (an event names only
the pane); `overrun`, panes recreated before a kill with history removal was through, whose cleanup
then takes the new writer; `spared`, panes whose last deletion need not have left nothing, because a
session was begun since, a removal failed, or the kill did not know where to remove; `ungated`, a
tunnel last created by a replacement that did not look at its binding again (see the hazards); `lost`,
panes whose last session's exit had nobody to report it to, or whose entry a cleanup timer of an
earlier session deleted while it was alive; `forgotten`, a stop that ended after the tunnel had been
enabled again and set its status.

Not modelled: several panes of a workspace waiting for each other in killByWorkspaceId, forceKillAll
and forceCloseAll, `cleanup()`, resetAll and resetHistoryPersistence, reconcileOnStartup, the eviction
of tombstones beyond 1000, the port manager, resize, signal, write and detach, what output is written,
the writer's path for a write to a session that is not found, the branch of the cold restore that
removes metadata whose scrollback is missing, the lengths of the tunnel's back-off and the timer that
resets it, bindings without forwards or host. Merged: the metadata are read with the request (the
generation is checked before and after), and clearScrollback's request to the daemon goes with the
close of the writer. A kill's wait for the exit event may end at any time. reset's clearing of
`agentSessionPersistenceTails` is left out, and no instance has both hooks and a restart.

## 3. Runs

All bounds are constants of the modules or in the `MC` modules, and are named there.

| Run | Checks | Instance, and why it is enough |
|---|---|---|
| `terminal_host` | `TypeOK`, `SpawnSlots`, `MapSound`, `DeadSessionsHaveCleanup`, `NoOrphan`, `KillFailSafeUnlessStaleExit`, `LiveSessionsKept`, `CallsReturn` | three requests, two ids, two sockets, one slot. Two requests share an id, so one session can be replaced while its process still exits, and the replacement be killed; the third competes for the slot. All but `CallsReturn` also proved. |
| `pty_subprocess` | `TypeOK`, `QueueAccounting`, `PausedForBacklog`, `OutputAccounting`, `ExitAfterOutput`, `PausedForDrain`, `NoOrphanShell`, `Terminates` | watermarks 1, 2 and 3, frames of 1 and 2 units, four units of input, two of output, one failing write: the queue is paused, overshot, refused at the hard limit, written in parts and dropped. |
| `session_stream` | `TypeOK`, `EmulatorAccounting`, `WaitersReachable`, `SnapshotCoversBoundary`, `PausedForClient`, `PauseEnds` | two clients, three slices: an item half written when an attach begins, a second client stalled while the first leaves, sockets that come back, and the socket of the creating call closing before, during and after the await of the spawn. |
| `app_state` | `TypeOK`, `PeerSnapshotsKept`, `CommittedOnDisk`, `TargetPresent`, `ImplementsStore`, `EveryCallAnswered` | three mutations, two peer snapshots, two attempts, one crash: a promotion meets a peer twice and gives up, mutations wait behind one that fails, at its cleanup too, or is stale. All but `EveryCallAnswered` also proved. |
| `workspace_init` | `TypeOK`, `NoStrayWorktree`, `CancelledNeverReady`, `InitReported`, `DeletesEnd` | two worktrees of one project and an agent, three runs, two deletes: a run retried in the same or in another place, or waiting for the lock, when it is cancelled; a delete that fails and is repeated, or that waits behind another workspace's run. `MCWorkspaceInit` lists which workspace each run and delete is of: worktrees and agents share nothing, so they are checked side by side and not mixed. |
| `terminal_service` | `TypeOK`, `SlotsAccounted`, `KilledStaysKilled`, `LiveSessionsLive`, `HistorySettles`, `TunnelSettles`, `CallsReturn` | nineteen instances in `MCTerminalService`, one run. Ten of a visible pane with its history, created, killed and created again, with a hook, a cleared screen, an exit, a failing request or removal, a kill that knows no workspace, a lost connection, a restart, or a deletion of its workspace whose removals may fail. Two of three panes that compete for one slot. Seven of a tunnel: stops and retries, a session with another launch, exits, faults, a lost connection, a restart, the deletion of the workspace. Each has two or three creations and up to two kills of a pane, which is a kill in every state of a creation, a recreation in every state of that kill, and a stale session to discard; each fault occurs alone or with an exit. All but `CallsReturn` also proved. |

What the properties say, beyond types:

* `SpawnSlots`: the semaphore counts exactly the requests inside their spawn section, never more than
  the limit; nobody waits beside a free slot; the queue holds each waiting request once.
* `MapSound`, `DeadSessionsHaveCleanup`, `NoOrphan`, `LiveSessionsKept`: the map never holds a disposed
  Session or one of another id; a dead one has a cleanup timeout to come (which is not yet to be
  collected: a ghost client re-arms it for ever); every subprocess the daemon holds is spawning or
  reachable through the map; no step removes or replaces a live session that nobody kills.
* `KillFailSafeUnlessStaleExit`: what is true of the fail-safe timer (the promise itself fails, see
  below): only the exit of an earlier Session object of the same id can have disarmed it.
* `CallsReturn`: every createOrAttach is answered.
* `QueueAccounting`, `PausedForBacklog`: queued bytes are the queue, a non-empty queue has a flush
  coming, and reading pauses only above the low watermark.
* `OutputAccounting`, `ExitAfterOutput`, `PausedForDrain`: output is neither lost nor doubled and
  precedes the natural exit; the PTY is paused only while a drain event is owed.
* `NoOrphanShell`, `Terminates`: a process never leaves a live shell; a kill or dispose ends it, unless
  a PTY write has failed.
* `EmulatorAccounting`, `WaitersReachable`, `SnapshotCoversBoundary`: received output is in the
  emulator, in the queue or thrown away by a reset, once; a waiting attach is reached by what is
  queued; its snapshot covers all that was received before it, unless a reset dropped some.
* `PausedForClient`, `PauseEnds`: stdout is paused only for a client that still owes a drain or a
  close, and not for ever. Except in a session that was given a ghost.
* `PeerSnapshotsKept`, `CommittedOnDisk`, `TargetPresent`: no peer snapshot is destroyed by this device
  before it was handed on; as long as no peer writes, the visible state is on disk at every moment,
  with at most one mutation more: the one about to be committed, or one whose caller was told of a
  failure when only the cleanup was left. The target is missing only inside a promotion or beside a
  kept file.

* `NoStrayWorktree`: when a workspace is deleted, nothing is at the place its row named at the end, nor
  comes back there. The exceptions are in the property: a create or retry that was past its look at the
  row when the delete began, and an agent whose delete stopped waiting for the clone. For worktrees the
  30 s timeout is no exception: the project lock orders the run before the removal.
* `CancelledNeverReady`, `InitReported`, `DeletesEnd`: a worktree's run that was cancelled does not
  finish as ready; a workspace shown as initialising has a run, or a delete of it has failed (a
  cancelled run reports nothing); every delete ends without its timeout.

* `SlotsAccounted`: no creation waits while a slot of the limiter is free, and each slot in use has a
  creation that holds it; a restart forgets the slots in use but not their holders, whose releases must
  not count below zero, so only "at most" holds of the number.
* `KilledStaysKilled`: a pane that was killed, and for which nothing is going on any more, has no live
  session, whatever creations of it were under way. Except when one of the pane's requests failed.
* `LiveSessionsLive`: a session that the manager takes to be alive is, or its exit is on its way; and a
  live one of a pane that is not killed is known. Except after faults and crossed exits.
* `HistorySettles`: at rest, a deleted history is gone unless a session was begun since, a removal
  failed, or the kill knew no workspace; and a live session has a writer, except after faults and a
  kill overrun by a recreation. Failed requests, lost connections and crossed exits are no exception to
  the first part.
* `TunnelSettles`: at rest, a disabled tunnel, or one whose workspace is deleted, does not run; an
  enabled one runs and is watched, or will be tried again. Except after faults, crossed exits, a
  replacement that did not look at the binding, a stop that ended after a start, an exit that had
  nobody to report it to (the connection was lost after a deletion's kill, and the deletion was then
  given up), and an entry deleted by an earlier session's timer (a deletion whose inventory came before
  the session then passes the session over).
* `CallsReturn` (of `SshTunnel`): every call to the service manager returns.

### Disagreements between the code and what the repository says

Each run checks one property, quoted from a comment or a doc, and TLC finds it violated.

| Run | Property | What happens |
|---|---|---|
| `kill_fail_safe` | `KillFailSafe` | `handleSessionExit` clears the kill timer of the *id*. The late exit of a force-disposed Session disarms the timer of the session that replaced it: if that one ignores its signal, nothing removes it. |
| `ghost_clients` | `NoGhostClients` | The stream socket is read before `createOrAttach` awaits and attached after it; a socket that closed meanwhile stays attached. |
| `stdin_wedge` | `KillReachesExit` | A PTY write that fails for good empties the queue without resuming stdin; if that queue had paused it, no frame is read again, Kill and Dispose included. |
| `exit_before_output` | `ExitAfterAllOutput` | Node's child exit event does not wait for stdout. It can overtake output and the Exit frame, which are then dropped. |
| `app_state_crash` | `VisibleStateSurvives` | A crash between displacing the old file and linking the new one makes the next start a first run with default state; nothing looks for the displaced file. |
| `cancellation_lost` | `CancellationPersists` | `clearJob` deletes the cancellation although it is said to survive it. After the 30 s wait the delete of an agent ends, and clears it, while the clone it cancelled goes on and fills the home again. |

### What the exceptions stand for

Where a property has an exception, the behaviour is in the model, and TLC finds the property violated
without the exception. Some are worth a look at the code:

* The ghost of `ghost_clients` refuses the next event and is waited for (session.ts:939); neither a
  drain nor a close is to come, so stdout stays paused for every client (`PausedForClient`,
  `PauseEnds`).
* When the removal of the temporary file fails after the link (write-queue.ts:234), the mutation is
  answered as failed, its draft is `app-state.json`, and the next start loads it (`CommittedOnDisk`).
* A retry that awaited the list of branches (init.ts:91) starts the job of a workspace that is being
  deleted by then, in spite of the check before the await (`NoStrayWorktree`, `overlapped`).
* When `createWorktree` throws after git has added the worktree (git.ts:495), nobody marks it as
  created and the catch block leaves it. A retry under another name moves the row away from it, and the
  delete removes the new place only. `NoStrayWorktree` speaks of the place in the row, so it says
  nothing of that one.
* A cancelled initialisation reports nothing (workspace-init.ts:59), since its workspace is going to be
  deleted. When the delete fails, the workspace says that it is initialising, with nothing at work,
  until it is deleted (`InitReported`).
* A history whose removal failed stays, under a tombstone (`HistorySettles`, `spared`).

### Fairness

* `TerminalHost`: a granted request runs, and the wait for the PTY ends, since it is raced against a
  timeout. Nothing is assumed of processes, clients or timers.
* `PtySubprocess`: turns that are due run and timers expire. A write that is retried succeeds some time
  (strong fairness of a write that makes progress): the program in the PTY reads its input. Nothing
  says that the shell exits on a signal, or that onExit is ever called, or that the daemon reads.
* `SessionStream`: frames of a chunk are handled in the turn that read them. A full socket drains, or
  is destroyed, whose close event is handled; a client that never reads and never closes would indeed
  stop the output.
* `AppState`: mutators and file operations return. Failures and crashes may occur instead.

* `WorkspaceInit`: git commands, teardown scripts and file operations return, with success or
  failure, and what awaits them goes on. Nothing is assumed of users or of the 30 s timer. A delete
  that waits for the lock needs no more than this, because the queue is first come, first served.
* `ServiceManager` and `SshTunnel`: continuations run; requests are handled, answers taken, spawns and
  file operations end. That stands for the client's timeouts, which answer in the daemon's place:
  no call waits for anything without one. Nothing is assumed of users, exits, timers or retries.

Runs say `CHECK_DEADLOCK FALSE` because the systems do stop: requests, output, mutations, crashes,
initialisations and deletes are bounded, a subprocess exits, a daemon is shut down, a service has
answered all its calls.

## 4. Proofs

Proved by TLAPS from the assumptions that the modules name (`MaxSpawnsAssumption`,
`CallsAssumption`, `WatermarkAssumption`, `BoundAssumption`, ...), for every number of sessions,
requests, sockets, slots, mutations, peers, crashes and attempts:

* `TerminalHostProofs`: `Typing`, `SlotAccounting`, `SessionMapSound`, `DeadSessionsCollected`,
  `KillGuarded`, `SubprocessesOwned`, `LiveSessionsStay`.
* `AppStateProofs`: `Typing`, `PeersKept`, `TargetStays`, `CommittedStays`, `Implements`.
* `TerminalServiceProofs`: `SlotsAlwaysAccounted`, `KilledPanesStayKilled`, `RecordsAreTrue`.
* `TerminalHistoryProofs`: `ServiceTyping`, `HistorySettled`, `TunnelSettled`.
* `PtySubprocessProofs`: `Typing`, `NoShellOutlivesProcess`, `PausedPtyHasDrain`,
  `PausedStdinHasBacklog`, `QueueCounted`, `OutputCounted`, `ExitComesLast`.
* `SessionStreamProofs`: `Typing`, `PauseIsSomebodys`, `WaitsEndWithQueue`, `SlicesAccounted`,
  `SnapshotsCover`.
* `WorkspaceInitProofs`: `Typing`, `CancellationHeeded`, `DeletedLeavesNothing`, `ReportsAreTrue`.

**TerminalHost.** `SpawnSlots` is inductive given the types; the work is in the lemma about `Release`,
which hands a slot to the head of the queue and where the counting of `Holders` is done with the
cardinality theorems of the library. `MapSound` is not inductive: an action takes a Session object
out of the map by its id, and one has to know that the same object is not mapped or in flight
elsewhere. `MapInv` adds `RequestStage`: only a request that was answered has a disposed Session,
only one that succeeded has a terminating one, and a subprocess exists only from `spawning` on. On
`MapInv` rest `DeadSessionsCollected` (a timeout is spent only on an entry that is gone, live, or
removed with it) and `KillGuarded`. `SubprocessesOwned` and `LiveSessionsStay` need
`OneRequestPerId` as well: under `ExclusiveCreate`, while a request is in flight no other request and
no map entry has its id, so what it stores on success replaces nothing. Each of these has one
preservation lemma with one step per action.

**AppState.** `Implements` uses `Serial` (while a mutation runs, the draft is the committed state and
the mutation at the head of the tail, whose expected revision was compared and cannot have moved
since, because nothing else commits) and `Ordered` (the tail is the pending mutations, oldest first).
With these every step of the promotion is a stutter of the abstract store, `Commit` is its commit,
the failures are its refusals. `PeersKept` rests on `Captures`: everything displaced has been
captured except the last while it is being captured. `CommittedStays` rests on `Alone`: as long as
no peer has written, the target and the one file that may be displaced are this device's, and a linked
target is the draft. So the draft of a call that fails in its cleanup is the visible state and one
failed mutation, which is all that may be added to what callers see.

**Terminal service.** Nearly fifty actions touch the few variables that the two theorems are about.
`NextEffect` shows, action by action, that every step has one of eleven effects on them: a call goes on,
asks the daemon, queues for a slot or leaves with one, or it is one of the daemon's and the faults'
own steps. The invariants are then taken through the effects. `SlotInv` adds to `SlotsAccounted` that
the queue holds each waiting creation once; its lemmas are that `Enqueue` is an insertion wherever
the priorities put it, and that `Release` hands on exactly one slot. `KillInv` is why a killed pane
stays killed: of a pane without failures, every request on the wire and every session being spawned
still has the call that awaits it, one at a time; and if the pane is killed while its session is
live, then a kill is on the wire or a creation has yet to look at the tombstone (`Watched`). A
creation leaves that state only by finding the pane not killed, or by sending a kill itself.

**What the service takes to be alive.** `LiveSessionsLive` relates the manager's records to the
daemon's sessions, and between the two are a wire, exits on their way and calls that have their answer
and have not looked at it. Again every action has one of a few effects (`Change`), now on the records,
the pending promises and the generations too, and four invariants go through them:

* `Dated`: no creation is newer than its pane's generation, and one that is under way when its pane is
  killed is older. It is therefore stale from then on, also after the tombstone has been taken away.
* `Held`: a creation that holds a slot or queues for one is the one in its pane's pending promise. So a
  pane has one creation at a time that talks to the daemon, and what it records overwrites no other's.
* `Behind`: while a kill of a pane is on the wire, no record says alive, and a creation that is not
  stale has its request behind that kill. This is why a kill that arrives late cannot end the new
  session: the wire keeps its order and the daemon meets the kill first.
* `Truthful` and `Noticed`: what is recorded, or about to be by a creation that is not stale, is live
  or has an exit on its way; and a live session whose record says otherwise has a kill on the wire or a
  creation that will look.

The last two leave out panes that had a fault or a crossed exit, as the property does. The exceptions
are needed: TLC finds the property violated without them. `ServiceTyping` goes through all the actions
of the three modules once more, one lemma each for the sets of panes, the timers, the history, the
requests and the tunnel.

**The history.** `HistorySettles` speaks of a moment when nothing is going on, and says nothing of the
chains of initialisations, closes, removals and hooks that await each other before it. Its invariant,
`Settling`, says at every moment what those chains still have to do:

* `Lining`: the initialisations of one history run one after the other. The promise is that of the
  newest, every other one that is unfinished is waited for by a newer one, and the generation of the
  history tells which of them are to be thrown away.
* `Fits`: which step a call is in while an operation of its own runs on the history, and
  `HooksInOrder`: a hook that is being saved is the oldest.
* `Wiped`: a history that was deleted by a kill that knew its workspace, with no session and no failed
  removal since, is off the disk with no initialisation under way, or some call still has its removal
  to do, and no initialisation or hook comes after it.
* `Served`: a session that is alive on record has a writer that nobody is about to close, or an
  initialisation that will become one, or a creation or clearing that will begin one; and `NotEnding`:
  no kill of its pane is past its answer, unless it was overrun.

A step that leaves the history alone (`Aloof`), begins to close or remove it (`Closes`), or begins an
initialisation (`BeginsInit`) keeps all that under a few conditions, and what the history does by
itself is taken step by step (`InsideSettles`). Nearly all of the rest shows that each action meets the
conditions, and here the records come in: `Certain` says that a creation that is stale, and one that
the daemon refused, works for no session that is alive on record, so that what it closes or removes is
nobody's. It assumes that an issuer stands for one call of one operation (`CallersAssumption`), that
the recorded pane is one of the panes, and two bounds: clearings and hooks are of the recorded pane,
and a service is not restarted while the closes of the last restart are under way.

The proof made the property stronger and the model more exact. A deleted history is off the disk even
if requests failed or exits crossed, which the property had excepted. A kill waits for the tail of the
hooks, that is the newest one, where the model had chosen any.

**The tunnel.** `TunnelSettles` too speaks of the end, of starts, stops, retries, sweeps and edits of
the binding that overlapped. Its invariant, `TunnelInv`, is in three parts:

* `Lone` and `Plain`: one creation of the tunnel is under way at a time, the one its `ensure` awaits.
  So it never joins or waits for another, and its steps are a straight line. That is a fact about the
  callers: `ensure` shares the one promise, and nothing else creates that pane.
* `Landed` and `Watching`: an enabled tunnel has a session, or an exit on its way, that is known and
  connected; or there is a retry, an ensure, a stop or a reconciliation that will see to it. What ends
  last finds the status as the others left it.
* `Off`: a disabled tunnel is killed; or all there was of it is stale (`Quelled`), with nothing on the
  wire and nothing being spawned; or a sweep of its workspace is under way (`Sweeping`), and, if its
  inventory has missed the tunnel, then its session is on record or recorded by a creation to come
  (`Notable`), where the sweep looks next. A killed pane is then the business of `KilledStaysKilled`.

The attempt found the property false beyond the small instances that TLC had checked. A shell may
exit after a kill with nobody attached, because the connection was lost in between; if the deletion is
then given up, the tunnel stays enabled and looks connected. And the cleanup timer of an earlier
session may delete the entry of a live one, which a deletion whose inventory is older than that
session then passes over. Both are excepted now, by the history variable `lost`, and the runs have an
instance that needs it.

**PTY subprocess.** `NoOrphanShell` needs two facts more. `Together`: before the spawn there is no
shell, no escalation and nothing paused, a PTY whose exit was reported or whose tree got SIGKILL has
a dead shell. `DisposeLast`: a Dispose is the last frame of the pipe or of the chunk, so handleDispose
runs once; a second run would find a disposed PTY, take the branch for no PTY and exit before
treeKill's callback. `Steady` sums up the steps that leave the PTY alone; what is left is the spawn,
the two ends that the daemon asks for and the five that happen.

**Session output.** `PauseInv` adds to `PausedForClient` the facts of each drain it leaves: whoever is
waited for has a full buffer or a close to come, and a session without a subprocess pauses nothing.
`WaitersReachable` needs `OneWaiter`, one waiter per socket: resolving a waiter then takes every
reason its socket had to wait. A subprocess exit keeps both, because it resolves all waiters when it
empties the queue that they wait for.

**Amounts of data.** What a queue, a pipe or a batch holds is a sum over a sequence, and a recursive
sum is out of the provers' reach. `Units` counts it instead: `Total(sizes)` is the number of pairs
of a place and a unit there. The lemmas of `UnitsProofs` are then about cardinalities, from
bijections and the library's theorems: the total of a concatenation is the sum of the totals, of a
sequence its head and its tail's, of a prefix at most the whole. The accounting below uses only these.

In the subprocess, `Queue` is that `queuedBytes` is the total of the queue, with the bound of the
write in flight, and that all is empty before the spawn. `Account` is where each unit of output is.
Its last part, `NaturalLast`, is stronger than `ExitAfterOutput` says: wherever in stdout the Exit
frame of onExit is, what the daemon has and the frames up to it make up all that was emitted, and
nothing can be emitted any more. It holds through ForceExit and a crash, which lose output but
never put such a frame in front of any.

In the session, `Covered` relates a waiter to its boundary while nothing was dropped: what the
emulator has and the items up to the waiter's target hold exactly what had been received when its attach
began. So the boundary is in the emulator when the target is reached, whichever frames arrived in
between. `LetGo` closes the way by which a reset could break it: a session without its subprocess
receives no frame.

**WorkspaceInit.** `QueueInv` says who is in the lock's queue, each once, and that a run past `locking`
is its head; the three lemmas `SameQueue`, `Popped` and `Appended` keep it. `RowInv` says that one
workspace has one delete under way, because a delete needs a present row. The argument is `AheadInv`: a
run that a delete has cancelled, or any run if none slipped in behind the delete, is before the removal
in the queue. As only a run moves its workspace's row, and none starts behind the delete unexcused, the
place the delete has read is still the row's when it removes it. It gives `CancelInv` (clearJob comes
after the run, so the signal outlives the run it is meant for) and the worktrees' half of `DiskInv`. An
agent's clone takes no lock; for it `AgentInv` says that the promise the delete waits for is the
clone's, which holds while no wait timed out and no retry passed the delete. The proof of
`NoStrayWorktree` showed that it needs no assumption that the workspace's runs have ended, and the
property does not make it any more.

Only model-checked: liveness (`CallsReturn`, `Terminates`, `PauseEnds`, `EveryCallAnswered`,
`DeletesEnd`), which is out of the prover's reach. Every invariant and every action property that a
passing run checks is also proved.

## 5. Not modelled, and the plan

Not modelled, because there is little shared state or the logic is pure I/O or data: the emulator's
escape parsing, diagnostics, updaters, subscription profiles, the scheduler, the coordination
database (single synchronous transactions), the routers and the renderer, the cloud applications and
the shared packages. The plan for the rest, most important first:

1. `PeerSync`: the watcher's cache of events with its limits, replay, and the rebase of a peer's
   snapshot at a revision, over `AppStateStore`. Together with `AppState` it says whether what a peer
   wrote reaches the visible state.
2. The daemon client: one connection attempt, the spawn lock file, request timeouts, so that the faults
   of `ServiceManager` are what that module allows; and forceKillAll and resetAll.
3. The 2 MB stdin queue of the Session, composed with `PtySubprocess`.
4. Small crash models of the boot state and of the migration backup.
