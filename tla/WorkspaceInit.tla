--------------------------- MODULE WorkspaceInit ---------------------------
(***************************************************************************)
(* Creating, retrying, cancelling and deleting workspaces.                 *)
(*                                                                         *)
(* workspace-init-manager.ts keeps one job, one done promise and one       *)
(* cancellation per workspace, and one git lock per project.  A run is one *)
(* initialisation: of a worktree (routers/workspaces/utils/                *)
(* workspace-init.ts), which works under the lock and looks for a          *)
(* cancellation, or of an agent's own repository (agent-init.ts), which    *)
(* does neither.  Deletes are procedures/delete.ts.  Every action is the   *)
(* code between two awaits; all workspaces but the agents are of one       *)
(* project, since locks of different projects have nothing in common.      *)
(*                                                                         *)
(* The lock wakes its waiters in the order they came, in the turn in which *)
(* it is released: it is a queue whose head holds it.                      *)
(***************************************************************************)
EXTENDS Naturals, Sequences, FiniteSets

CONSTANTS
    Workspaces,
    Agents,       \* those that own their repository
    MaxRuns,      \* bound: initialisations, first ones and retries
    MaxDeletes    \* bound: deletions

ASSUME AgentsAssumption == Agents \subseteq Workspaces
ASSUME BoundAssumption == MaxRuns \in Nat /\ MaxDeletes \in Nat

Runs == 1..MaxRuns
Deletes == MaxRuns + 1..MaxRuns + MaxDeletes
NoRun == 0

VARIABLES
    row,            \* the workspace in the local database
    job,            \* step of its entry in jobs
    created,        \* entries with worktreeCreated
    donePromise,    \* the run whose startJob made the promise, or NoRun
    resolved,       \* runs whose promise has been resolved
    cancellations,
    queue,          \* the project lock: its holder, then who waits for it
    path,           \* the place of its worktree or agent home, in its row
    disk,           \* the places where there is one
    run, of,        \* progress of each run, and its workspace
    del, target,    \* progress of each delete, and its workspace
    awaited,        \* the promise it waits for
    doomed,         \* the place it has read in the row, to remove
    cancelled,      \* history: runs that were in progress when cancelled
    overlapped,     \* history: workspaces deleted with a run about to start
    timedOut        \* history: those whose delete did not wait any longer

managerVars == <<job, created, donePromise, resolved, cancellations>>
runVars     == <<run, of>>
deleteVars  == <<del, target, awaited, doomed>>
historyVars == <<cancelled, overlapped, timedOut>>
vars == <<row, path, managerVars, queue, disk, runVars, deleteVars, historyVars>>

Outcomes == {"ready", "failed", "cancelled"}
Started(r) == run[r] \notin Outcomes \cup {"unused", "called"}
Active(r) == Started(r) \/ run[r] = "called"
ActiveRuns(w) == {r \in Runs : Active(r) /\ of[r] = w}
Requested(w) == w \in cancellations      \* isCancellationRequested

(* A place is named by the run that chose it.  A run is given the place as *)
(* it starts: until it ends, no other run of the workspace moves it.       *)
Place(r) == path[of[r]]

(* Runs and deletes are used in order: which is which makes no difference. *)
NextRun(r) == run[r] = "unused" /\ \A q \in Runs : q < r => run[q] # "unused"
NextDelete(d) == del[d] = "unused" /\ \A e \in Deletes : e < d => del[e] # "unused"

Init ==
    /\ row = [w \in Workspaces |-> "none"]
    /\ job = [w \in Workspaces |-> "none"]
    /\ created = {} /\ resolved = {} /\ cancellations = {}
    /\ donePromise = [w \in Workspaces |-> NoRun]
    /\ path = [w \in Workspaces |-> NoRun]
    /\ queue = <<>> /\ disk = {}
    /\ run = [r \in Runs |-> "unused"] /\ of \in [Runs -> Workspaces]
    /\ del = [d \in Deletes |-> "unused"] /\ target \in [Deletes -> Workspaces]
    /\ awaited = [d \in Deletes |-> NoRun] /\ doomed = [d \in Deletes |-> NoRun]
    /\ cancelled = {} /\ overlapped = {} /\ timedOut = {}

-----------------------------------------------------------------------------
(* The manager's operations. *)

(* startJob; clearJob before it, as a retry does, makes no difference. *)
StartJob(r) ==
    /\ job' = [job EXCEPT ![of[r]] = "initializing"]
    /\ created' = created \ {of[r]}
    /\ donePromise' = [donePromise EXCEPT ![of[r]] = r]
    /\ cancellations' = cancellations \ {of[r]}
    /\ UNCHANGED resolved

(* updateProgress to a last step: nothing if the job was cleared. *)
Report(w, step) ==
    job' = IF job[w] = "none" THEN job ELSE [job EXCEPT ![w] = step]

(* Mutant of FinalizeJob: the promise is dropped unresolved. *)
FinalizeJobSilent(w) ==
    /\ UNCHANGED resolved
    /\ donePromise' = [donePromise EXCEPT ![w] = NoRun]

(* Mutant of FinalizeJob: resolves without asking whether there is one. *)
FinalizeJobUndefined(w) ==
    /\ resolved' = resolved \cup {donePromise[w]}
    /\ donePromise' = [donePromise EXCEPT ![w] = NoRun]

(* finalizeJob resolves the promise the workspace has by now. *)
FinalizeJob(w) ==
    /\ resolved' = resolved \cup ({donePromise[w]} \ {NoRun})
    /\ donePromise' = [donePromise EXCEPT ![w] = NoRun]

ClearJob(w) ==
    /\ job' = [job EXCEPT ![w] = "none"]
    /\ created' = created \ {w}
    /\ donePromise' = [donePromise EXCEPT ![w] = NoRun]
    /\ cancellations' = cancellations \ {w}
    /\ UNCHANGED resolved

(* The timer of updateProgress removes a ready job. *)
JobExpires(w) ==
    /\ job[w] = "ready"
    /\ job' = [job EXCEPT ![w] = "none"]
    /\ created' = created \ {w}
    /\ UNCHANGED <<row, path, donePromise, resolved, cancellations, queue, disk,
                   runVars, deleteVars, historyVars>>

-----------------------------------------------------------------------------
(* Initialising a worktree. *)

(* create inserts the row with a new place, and awaits the configuration   *)
(* of the branch, which does not fail, before it starts the job.           *)
Create(r) ==
    LET w == of[r] IN
    /\ NextRun(r)
    /\ w \notin Agents /\ row[w] = "none"
    /\ row' = [row EXCEPT ![w] = "present"]
    /\ path' = [path EXCEPT ![w] = r]
    /\ run' = [run EXCEPT ![r] = "called"]
    /\ UNCHANGED <<managerVars, queue, disk, of, deleteVars, historyVars>>

(* A retry is offered when the job has failed, and refuses a workspace that*)
(* is being deleted.                                                       *)
MayRetry(r) ==
    LET w == of[r] IN
    /\ NextRun(r)
    /\ w \notin Agents /\ row[w] = "present"
    /\ job[w] = "failed" /\ ActiveRuns(w) = {}

(* Asked for another branch name, it awaits the list of the branches ...   *)
RetryDeduplicated(r) ==
    /\ MayRetry(r)
    /\ run' = [run EXCEPT ![r] = "called"]
    /\ UNCHANGED <<row, path, managerVars, queue, disk, of, deleteVars, historyVars>>

Begin(r) ==
    /\ StartJob(r)
    /\ run' = [run EXCEPT ![r] = "locking"]
    /\ queue' = Append(queue, r)

(* ... and otherwise starts the job in the same turn. *)
Retry(r) ==
    /\ MayRetry(r)
    /\ Begin(r)
    /\ UNCHANGED <<row, path, disk, of, deleteVars, historyVars>>

(* After its await neither looks at the row again.  The retry has moved the*)
(* row to a place of its own, unless the branch's name was still free.     *)
Start(r) ==
    /\ run[r] = "called"
    /\ path' \in {path, [path EXCEPT ![of[r]] = r]}
    /\ Begin(r)
    /\ UNCHANGED <<row, disk, of, deleteVars, historyVars>>

(* The branches of a retry cannot be listed. *)
CallFails(r) ==
    /\ run[r] = "called" /\ Place(r) # r
    /\ run' = [run EXCEPT ![r] = "failed"]
    /\ UNCHANGED <<row, path, managerVars, queue, disk, of, deleteVars, historyVars>>

(* The way out of every run, through the finally block. *)
Finish(r, outcome) ==
    /\ run' = [run EXCEPT ![r] = outcome]
    /\ FinalizeJob(of[r])
    /\ queue' = Tail(queue)

(* A run that holds the lock goes on to the step s. *)
Step(r, s) ==
    /\ run' = [run EXCEPT ![r] = s]
    /\ UNCHANGED <<donePromise, resolved, queue>>

(* The catch block, given the jobs marked worktreeCreated. *)
Throw(r, marked) ==
    IF of[r] \in marked
    THEN Step(r, "cleaning") /\ UNCHANGED job
    ELSE Finish(r, "failed") /\ Report(of[r], "failed")

RunUnchanged == UNCHANGED <<row, path, cancellations, of, deleteVars, historyVars>>

(* The lock is ours.  An existing branch needs no preparation. *)
Resume(r) ==
    /\ run[r] = "locking" /\ Head(queue) = r
    /\ IF Requested(of[r])
       THEN Finish(r, "cancelled")
       ELSE Step(r, "preparing") \/ Step(r, "creating")
    /\ UNCHANGED <<job, created, disk>> /\ RunUnchanged

(* Default branch, start point and fetch: any of them may fail, and each   *)
(* is followed by a check.                                                 *)
Prepare(r) ==
    /\ run[r] = "preparing"
    /\ \/ Requested(of[r]) /\ Finish(r, "cancelled") /\ UNCHANGED job
       \/ ~Requested(of[r]) /\ Step(r, "creating") /\ UNCHANGED job
       \/ Finish(r, "failed") /\ Report(of[r], "failed")
       \/ Throw(r, created)
    /\ UNCHANGED <<created, disk>> /\ RunUnchanged

(* createWorktree, markWorktreeCreated and all that follows in its turn;   *)
(* copying the configuration may throw.                                    *)
AddWorktree(r) ==
    /\ Place(r) \notin disk
    /\ disk' = disk \cup {Place(r)}
    /\ created' = IF job[of[r]] = "none" THEN created ELSE created \cup {of[r]}

(* Git may refuse; it may also have added the worktree when the setting of *)
(* push.autoSetupRemote fails, and then nobody has marked it as created.   *)
CreateFails(r) ==
    /\ disk' \in {disk, disk \cup {Place(r)}}
    /\ Throw(r, created)
    /\ UNCHANGED created

(* Mutant of CreateWorktree: no check once the worktree is there. *)
CreateWorktreeUnchecked(r) ==
    /\ run[r] = "creating"
    /\ \/ AddWorktree(r) /\ \/ Finish(r, "ready") /\ Report(of[r], "ready")
                            \/ Throw(r, created')
       \/ CreateFails(r)
    /\ RunUnchanged

CreateWorktree(r) ==
    /\ run[r] = "creating"
    /\ \/ /\ AddWorktree(r)
          /\ IF Requested(of[r])
             THEN Step(r, "undoing") /\ UNCHANGED job
             ELSE \/ Finish(r, "ready") /\ Report(of[r], "ready")
                  \/ Throw(r, created')
       \/ CreateFails(r)
    /\ RunUnchanged

(* removeWorktree, whose failure is only logged. *)
TryRemove(r) == disk' \in {disk, disk \ {Place(r)}}

Undo(r) ==
    /\ run[r] = "undoing"
    /\ TryRemove(r)
    /\ Finish(r, "cancelled")
    /\ UNCHANGED <<job, created>> /\ RunUnchanged

(* Mutant of CleanUp: the failure is not reported. *)
CleanUpSilent(r) ==
    /\ run[r] = "cleaning"
    /\ TryRemove(r)
    /\ Finish(r, "failed")
    /\ UNCHANGED <<job, created>> /\ RunUnchanged

CleanUp(r) ==
    /\ run[r] = "cleaning"
    /\ TryRemove(r)
    /\ Finish(r, "failed") /\ Report(of[r], "failed")
    /\ UNCHANGED created /\ RunUnchanged

-----------------------------------------------------------------------------
(* Initialising an agent: no lock, and nobody asks for a cancellation. *)

(* createAgent and beginAgentInit, or retryAgentInit, which does not look  *)
(* at the row.  setupAgentRepo makes the agent's home at once.             *)
AgentCall(r) ==
    LET w == of[r] IN
    /\ NextRun(r)
    /\ w \in Agents
    /\ \/ row[w] = "none"
       \/ row[w] \in {"present", "deleting"} /\ job[w] = "failed"
    /\ row' = IF row[w] = "none" THEN [row EXCEPT ![w] = "present"] ELSE row
    /\ path' = IF row[w] = "none" THEN [path EXCEPT ![w] = r] ELSE path
    /\ StartJob(r)
    /\ run' = [run EXCEPT ![r] = "cloning"]
    /\ disk' = disk \cup {path'[w]}
    /\ overlapped' = IF row[w] = "deleting" THEN overlapped \cup {w} ELSE overlapped
    /\ UNCHANGED <<queue, of, deleteVars, cancelled, timedOut>>

(* The clone ends; it may have made a home anew that was removed. *)
CloneEnds(r) ==
    LET w == of[r] IN
    /\ run[r] = "cloning"
    /\ \/ /\ Report(w, "ready")
          /\ run' = [run EXCEPT ![r] = "ready"]
          /\ created' = IF job[w] = "none" THEN created ELSE created \cup {w}
          /\ disk' = disk \cup {Place(r)}
       \/ /\ Report(w, "failed")
          /\ run' = [run EXCEPT ![r] = "failed"]
          /\ disk' \in {disk, disk \cup {Place(r)}}
          /\ UNCHANGED created
    /\ FinalizeJob(w)
    /\ UNCHANGED queue /\ RunUnchanged

-----------------------------------------------------------------------------
(* Deleting. *)

Delete(d, s) == del' = [del EXCEPT ![d] = s]
DeleteFails(d) == Delete(d, "failed") /\ row' = [row EXCEPT ![target[d]] = "present"]

(* Mark the row, and cancel an initialisation that is in progress. *)
BeginDelete(d) ==
    LET w == target[d] IN
    /\ NextDelete(d)
    /\ row[w] = "present"
    /\ row' = [row EXCEPT ![w] = "deleting"]
    /\ IF job[w] = "initializing"
       THEN /\ cancellations' = cancellations \cup {w}
            /\ cancelled' = cancelled \cup {r \in ActiveRuns(w) : Started(r)}
            /\ awaited' = [awaited EXCEPT ![d] = donePromise[w]]
            /\ Delete(d, IF donePromise[w] = NoRun THEN "stopping" ELSE "waiting")
       ELSE Delete(d, "stopping") /\ UNCHANGED <<cancellations, cancelled, awaited>>
    /\ overlapped' = IF \E r \in ActiveRuns(w) : ~Started(r)
                     THEN overlapped \cup {w} ELSE overlapped
    /\ UNCHANGED <<path, job, created, donePromise, resolved, queue, disk, runVars,
                   target, doomed, timedOut>>

WaitEnds(d) ==
    /\ del[d] = "waiting" /\ awaited[d] \in resolved
    /\ Delete(d, "stopping")
    /\ UNCHANGED <<row, path, managerVars, queue, disk, runVars, target, awaited, doomed,
                   historyVars>>

(* waitForInit gives up after 30 seconds and the delete goes on. *)
WaitTimesOut(d) ==
    /\ del[d] = "waiting"
    /\ Delete(d, "stopping")
    /\ timedOut' = timedOut \cup {target[d]}
    /\ UNCHANGED <<row, path, managerVars, queue, disk, runVars, target, awaited, doomed,
                   cancelled, overlapped>>

(* Stop the tunnel; then the row says what to remove. *)
StopTunnel(d) ==
    /\ del[d] = "stopping"
    /\ \/ DeleteFails(d) /\ UNCHANGED doomed
       \/ /\ Delete(d, "tearing")
          /\ doomed' = [doomed EXCEPT ![d] = path[target[d]]]
          /\ UNCHANGED row
    /\ UNCHANGED <<path, managerVars, queue, disk, runVars, target, awaited, historyVars>>

(* Stop the terminals and run the teardown script. *)
TearDown(d) ==
    /\ del[d] = "tearing"
    /\ \/ DeleteFails(d) /\ UNCHANGED queue
       \/ /\ Delete(d, "removing")
          /\ queue' = IF target[d] \in Agents THEN queue ELSE Append(queue, d)
          /\ UNCHANGED row
    /\ UNCHANGED <<path, managerVars, disk, runVars, target, awaited, doomed, historyVars>>

(* Mutant of Remove: the worktree is removed without the project lock. *)
RemoveUnlocked(d) ==
    /\ del[d] = "removing"
    /\ queue' = SelectSeq(queue, LAMBDA a : a # d)
    /\ \/ DeleteFails(d) /\ UNCHANGED disk
       \/ Delete(d, "erasing") /\ disk' = disk \ {doomed[d]} /\ UNCHANGED row
    /\ UNCHANGED <<path, managerVars, runVars, target, awaited, doomed, historyVars>>

(* removeAgentHome, or removeWorktreeFromDisk under the project lock. *)
Remove(d) ==
    /\ del[d] = "removing"
    /\ \/ target[d] \in Agents /\ UNCHANGED queue
       \/ target[d] \notin Agents /\ Head(queue) = d /\ queue' = Tail(queue)
    /\ \/ DeleteFails(d) /\ UNCHANGED disk
       \/ Delete(d, "erasing") /\ disk' = disk \ {doomed[d]} /\ UNCHANGED row
    /\ UNCHANGED <<path, managerVars, runVars, target, awaited, doomed, historyVars>>

(* deleteWorkspace; the terminals are killed once more before the end. *)
Erase(d) ==
    /\ del[d] = "erasing"
    /\ Delete(d, "clearing")
    /\ row' = [row EXCEPT ![target[d]] = "deleted"]
    /\ UNCHANGED <<path, managerVars, queue, disk, runVars, target, awaited, doomed,
                   historyVars>>

EndDelete(d) ==
    /\ del[d] = "clearing"
    /\ Delete(d, "done")
    /\ ClearJob(target[d])
    /\ UNCHANGED <<row, path, queue, disk, runVars, target, awaited, doomed, historyVars>>

-----------------------------------------------------------------------------
RunStep(r) ==
    \/ Start(r) \/ CallFails(r) \/ Resume(r) \/ Prepare(r) \/ CreateWorktree(r)
    \/ Undo(r) \/ CleanUp(r) \/ CloneEnds(r)

DeleteStep(d) ==
    \/ WaitEnds(d) \/ StopTunnel(d) \/ TearDown(d) \/ Remove(d)
    \/ Erase(d) \/ EndDelete(d)

Next ==
    \/ \E r \in Runs : \/ Create(r) \/ Retry(r) \/ RetryDeduplicated(r)
                      \/ AgentCall(r) \/ RunStep(r)
    \/ \E d \in Deletes : BeginDelete(d) \/ WaitTimesOut(d) \/ DeleteStep(d)
    \/ \E w \in Workspaces : JobExpires(w)

(* Git, teardown scripts and file operations return.  No timeout is needed. *)
Fairness ==
    /\ \A r \in Runs : WF_vars(RunStep(r))
    /\ \A d \in Deletes : WF_vars(DeleteStep(d))

Safety == Init /\ [][Next]_vars
Spec == Safety /\ Fairness

-----------------------------------------------------------------------------
TypeOK ==
    /\ row \in [Workspaces -> {"none", "present", "deleting", "deleted"}]
    /\ job \in [Workspaces -> {"none", "initializing", "ready", "failed"}]
    /\ created \subseteq Workspaces /\ cancellations \subseteq Workspaces
    /\ donePromise \in [Workspaces -> Runs \cup {NoRun}]
    /\ resolved \subseteq Runs /\ disk \subseteq Runs
    /\ path \in [Workspaces -> Runs \cup {NoRun}]
    /\ queue \in Seq(Runs \cup Deletes)
    /\ run \in [Runs -> Outcomes \cup {"unused", "called", "locking", "preparing",
                    "creating", "undoing", "cleaning", "cloning"}]
    /\ of \in [Runs -> Workspaces] /\ target \in [Deletes -> Workspaces]
    /\ del \in [Deletes -> {"unused", "waiting", "stopping", "tearing", "removing",
                            "erasing", "clearing", "done", "failed"}]
    /\ awaited \in [Deletes -> Runs \cup {NoRun}]
    /\ doomed \in [Deletes -> Runs \cup {NoRun}]
    /\ cancelled \subseteq Runs
    /\ overlapped \subseteq Workspaces /\ timedOut \subseteq Workspaces

(* Once a workspace is deleted nothing is at the place its row had, nor    *)
(* comes back there, also if the delete stopped waiting for the init it had*)
(* cancelled: the project lock puts the init before the removal.  An       *)
(* agent's clone takes no lock, so there the wait must not have timed out; *)
(* and no create or retry may have been past its last look at the row when *)
(* the delete began.                                                       *)
Excused(w) == w \in overlapped \/ (w \in Agents /\ w \in timedOut)

NoStrayWorktree ==
    \A w \in Workspaces : row[w] = "deleted" /\ path[w] \in disk => Excused(w)

(* A run that was cancelled while it worked on a worktree, or waited for   *)
(* the lock to begin, never makes the workspace ready.                     *)
CancelledNeverReady ==
    \A r \in cancelled : of[r] \notin Agents => run[r] # "ready"

(* A workspace that says it is initialising is being initialised, unless a *)
(* delete that cancelled the initialisation has failed: a cancelled run    *)
(* reports nothing, "the workspace is being deleted".                      *)
InitReported ==
    \A w \in Workspaces :
        job[w] = "initializing" /\ row[w] = "present" =>
            \/ ActiveRuns(w) # {}
            \/ \E d \in Deletes : target[d] = w /\ del[d] = "failed"

(* Every delete ends, without the help of waitForInit's timeout.           *)
DeletesEnd == \A d \in Deletes : del[d] # "unused" ~> del[d] \in {"done", "failed"}

(* workspace-init-manager.ts:165: "The Set persists even after job is      *)
(* cleared, preventing the race where clearJob() removes the cancellation  *)
(* signal before init can observe it".                                     *)
CancellationPersists ==
    \A r \in cancelled : Active(r) => Requested(of[r])
=============================================================================
