------------------------- MODULE WorkspaceInitProofs -------------------------
(***************************************************************************)
(* Proofs about the initialisation and deletion of workspaces, for every   *)
(* number of workspaces, agents, runs and deletes: what a cancellation     *)
(* prevents, what a delete leaves on disk, and what the job says.          *)
(***************************************************************************)
EXTENDS WorkspaceInit, TLAPS, SequenceTheorems

Locked == {"locking", "preparing", "creating", "undoing", "cleaning"}
Gone == {"erasing", "clearing", "done"}
Underway(d) == del[d] \in {"waiting", "stopping", "tearing", "removing"} \cup Gone

(* What the row says about the deletes and the runs of its workspace. *)
RowInv ==
    /\ \A d \in Deletes :
          /\ Underway(d) => row[target[d]] \in {"deleting", "deleted"}
          /\ del[d] \in {"clearing", "done"} <=> Underway(d) /\ row[target[d]] = "deleted"
    /\ \A d, e \in Deletes : Underway(d) /\ Underway(e) /\ target[d] = target[e] => d = e
    /\ \A w \in Workspaces :
          row[w] = "deleted" => \E d \in Deletes : target[d] = w /\ Underway(d)
    /\ \A r \in Runs : row[of[r]] = "none" => run[r] = "unused"

(* What happens to a run before it starts its job, and that it does. *)
Asks(r) == Create(r) \/ RetryDeduplicated(r) \/ CallFails(r)
Launch(r) == Start(r) \/ Retry(r)

(* Each workspace has a place of its own. *)
PathInv ==
    \A w \in Workspaces : row[w] # "none" => path[w] \in Runs /\ of[path[w]] = w

(* A delete removes what it read, which the row says still, unless a run   *)
(* slipped in behind it and moved the row.                                 *)
DoomedInv ==
    \A d \in Deletes :
        del[d] \in {"tearing", "removing"} =>
            doomed[d] = path[target[d]] \/ target[d] \in overlapped

(* Agents clone; everything else takes the lock, one run at a time. *)
RunInv ==
    /\ \A r \in Runs : run[r] = "cloning" => of[r] \in Agents
    /\ \A r \in Runs : run[r] \in Locked \cup {"called"} => of[r] \notin Agents
    /\ \A r, q \in Runs : Active(r) /\ Active(q) /\ of[r] = of[q] /\ of[r] \notin Agents => r = q

(* The lock's queue: who is in it, each once, and who holds the lock. *)
Removing(d) == del[d] = "removing" /\ target[d] \notin Agents

QueueInv ==
    /\ \A i \in 1..Len(queue) :
          /\ queue[i] \in Runs => run[queue[i]] \in Locked
          /\ queue[i] \in Deletes => Removing(queue[i])
    /\ \A i, j \in 1..Len(queue) : queue[i] = queue[j] => i = j
    /\ \A r \in Runs : run[r] \in Locked => \E i \in 1..Len(queue) : queue[i] = r
    /\ \A d \in Deletes : Removing(d) => \E i \in 1..Len(queue) : queue[i] = d
    /\ \A r \in Runs : run[r] \in Locked \ {"locking"} => queue[1] = r

(* The removal of d comes after what r does under the lock. *)
Ordered(r, d) == \A i, j \in 1..Len(queue) : queue[i] = r /\ queue[j] = d => i < j
Ahead(r, d) == del[d] \notin Gone /\ (del[d] = "removing" => Ordered(r, d))

(* A delete has the runs of its workspace before it in the queue: those    *)
(* that it has cancelled, and all of them if none slipped in behind it.    *)
Concerns(d, r) ==
    /\ target[d] = of[r] /\ of[r] \notin Agents
    /\ r \in cancelled \/ of[r] \notin overlapped

AheadInv ==
    \A r \in Runs, d \in Deletes :
        Active(r) /\ Underway(d) /\ Concerns(d, r) => Started(r) /\ Ahead(r, d)

(* So the signal outlives the run it is meant for. *)
CancelInv ==
    \A r \in cancelled :
        /\ run[r] \notin {"unused", "called"}
        /\ Active(r) /\ of[r] \notin Agents => Requested(of[r])

(* A promise is that of a run of its workspace which has begun. *)
PromiseInv ==
    /\ \A w \in Workspaces :
          donePromise[w] # NoRun =>
              of[donePromise[w]] = w /\ run[donePromise[w]] # "unused"
    /\ \A r \in resolved : run[r] # "unused"

Calm(w) == w \notin overlapped \cup timedOut

(* A delete of an agent that has not given up waiting waits for its clone. *)
CloneKnown(r) ==
    /\ job[of[r]] = "initializing"
    /\ donePromise[of[r]] = r /\ r \notin resolved
    /\ \A q \in Runs : run[q] = "cloning" /\ of[q] = of[r] => q = r
    /\ \A d \in Deletes :
          Underway(d) /\ target[d] = of[r] => del[d] = "waiting" /\ awaited[d] = r

AgentInv == \A r \in Runs : run[r] = "cloning" /\ Calm(of[r]) => CloneKnown(r)

(* Once the removal has succeeded nothing comes back, but for the cases of *)
(* NoStrayWorktree.                                                        *)
DiskInv ==
    \A d \in Deletes :
        del[d] \in Gone /\ path[target[d]] \in disk => Excused(target[d])

(* A workspace on which a delete has been at work, whatever came of it.    *)
FailedDelete(w) == \E d \in Deletes : target[d] = w /\ del[d] = "failed"
Ending(w) == row[w] \in {"deleting", "deleted"} \/ FailedDelete(w)

(* Only those have a cancellation, or a job that no run will report on.    *)
ReportInv ==
    \A w \in Workspaces :
        /\ Requested(w) => Ending(w)
        /\ \A r \in Runs : run[r] = "undoing" /\ of[r] = w => Ending(w)
        /\ job[w] = "initializing" => ActiveRuns(w) # {} \/ Ending(w)

(* A retry that awaits the branches has not started the job yet.           *)
CalledInv ==
    \A r \in Runs : run[r] = "called" /\ Place(r) # r => job[of[r]] # "initializing"

Inv == /\ TypeOK /\ RowInv /\ RunInv /\ QueueInv /\ AheadInv /\ CancelInv
       /\ PromiseInv /\ AgentInv /\ PathInv /\ DoomedInv /\ DiskInv
       /\ ReportInv /\ CalledInv /\ CancelledNeverReady

-----------------------------------------------------------------------------
LEMMA Disjoint ==
  /\ \A r \in Runs, d \in Deletes : r # d
  /\ NoRun \notin Runs /\ NoRun \notin Deletes
  /\ Runs \subseteq Nat /\ Deletes \subseteq Nat
  BY BoundAssumption DEF Runs, Deletes, NoRun

(* What a step of the run that holds the lock does. *)
Goes(r, s) ==
    /\ s \in Locked \ {"locking"}
    /\ run' = [run EXCEPT ![r] = s]
    /\ s = "undoing" => Requested(of[r])
    /\ UNCHANGED <<queue, job, donePromise, resolved>>

Ends(r, s) ==
    /\ s \in Outcomes
    /\ run' = [run EXCEPT ![r] = s]
    /\ queue' = Tail(queue)
    /\ FinalizeJob(of[r])
    /\ s = "ready" => ~Requested(of[r])
    /\ \/ s = "cancelled" /\ (Requested(of[r]) \/ run[r] = "undoing") /\ UNCHANGED job
       \/ s # "cancelled" /\ Report(of[r], s)

Works(r) ==
    /\ run[r] \in Locked
    /\ queue # <<>> /\ Head(queue) = r
    /\ \E s \in Locked \cup Outcomes : Goes(r, s) \/ Ends(r, s)
    /\ disk' \subseteq disk \cup {Place(r)}
    /\ created' \subseteq created \cup {of[r]}
    /\ UNCHANGED <<row, path, cancellations, of, deleteVars, historyVars>>

LEMMA Front ==
  ASSUME TypeOK, queue # <<>>
  PROVE  /\ Head(queue) = queue[1] /\ Len(queue) \in Nat \ {0}
         /\ Tail(queue) \in Seq(Runs \cup Deletes) /\ Len(Tail(queue)) = Len(queue) - 1
         /\ \A i \in 1..Len(queue) - 1 : Tail(queue)[i] = queue[i + 1]
  BY HeadTailProperties, LenProperties DEF TypeOK

LEMMA RemoveHead ==
  ASSUME TypeOK, QueueInv, NEW d \in Deletes, Remove(d), target[d] \notin Agents
  PROVE  queue # <<>> /\ queue[1] = d /\ queue' = Tail(queue)
  <1>1. PICK i \in 1..Len(queue) : queue[i] = d
    BY DEF Remove, Removing, QueueInv
  <1>2. queue # <<>>
    BY <1>1, EmptySeq
  <1> QED
    BY <1>2, Front DEF Remove

LEMMA WorkSteps ==
  ASSUME Inv, NEW r \in Runs,
         Resume(r) \/ Prepare(r) \/ CreateWorktree(r) \/ Undo(r) \/ CleanUp(r)
  PROVE  Works(r)
  <1> USE DEF Inv
  <1>1. run[r] \in Locked
    BY DEF Resume, Prepare, CreateWorktree, Undo, CleanUp, Locked
  <1>2. queue # <<>>
    <2>1. PICK i \in 1..Len(queue) : queue[i] = r
      BY <1>1 DEF QueueInv
    <2> QED
      BY <2>1, EmptySeq
  <1>3. Head(queue) = r
    <2>1. CASE Resume(r)
      BY <2>1 DEF Resume
    <2>2. CASE ~Resume(r)
      <3>1. run[r] \in Locked \ {"locking"}
        BY <2>2 DEF Prepare, CreateWorktree, Undo, CleanUp, Locked
      <3> QED
        BY <1>2, <3>1, Front DEF QueueInv
    <2> QED
      BY <2>1, <2>2
  <1>4. \E s \in Locked \cup Outcomes : Goes(r, s) \/ Ends(r, s)
    <2> DEFINE Out(s) == Finish(r, s) /\ Report(of[r], s)
    <2>1. ASSUME NEW s \in Locked \ {"locking", "undoing"}, Step(r, s), UNCHANGED job
          PROVE  Goes(r, s)
      BY <2>1 DEF Step, Goes, Locked
    <2>2. ASSUME Out("failed") PROVE Ends(r, "failed")
      BY <2>2 DEF Finish, Ends, Outcomes
    <2>3. ASSUME NEW marked, Throw(r, marked)
          PROVE  Goes(r, "cleaning") \/ Ends(r, "failed")
      BY <2>1, <2>2, <2>3 DEF Throw, Locked
    <2>4. CASE Resume(r)
      <3>1. CASE Requested(of[r])
        <4>1. Ends(r, "cancelled")
          BY <2>4, <3>1 DEF Resume, Finish, Ends, Outcomes
        <4> QED
          BY <4>1 DEF Outcomes
      <3>2. CASE ~Requested(of[r])
        BY <2>1, <2>4, <3>2 DEF Resume, Locked
      <3> QED
        BY <3>1, <3>2
    <2>5. CASE Prepare(r)
      <3>1. CASE Requested(of[r]) /\ Finish(r, "cancelled") /\ UNCHANGED job
        <4>1. Ends(r, "cancelled")
          BY <3>1 DEF Finish, Ends, Outcomes
        <4> QED
          BY <4>1 DEF Outcomes
      <3>2. CASE Step(r, "creating") /\ UNCHANGED job
        BY <2>1, <3>2 DEF Locked
      <3>3. CASE Out("failed")
        BY <2>2, <3>3 DEF Outcomes
      <3>4. CASE Throw(r, created)
        BY <2>3, <3>4 DEF Outcomes, Locked
      <3> QED
        BY <2>5, <3>1, <3>2, <3>3, <3>4 DEF Prepare
    <2>6. CASE CreateWorktree(r)
      <3>1. CASE Requested(of[r]) /\ Step(r, "undoing") /\ UNCHANGED job
        <4>1. Goes(r, "undoing")
          BY <3>1 DEF Step, Goes, Locked
        <4> QED
          BY <4>1 DEF Locked
      <3>2. CASE ~Requested(of[r]) /\ Out("ready")
        <4>1. Ends(r, "ready")
          BY <3>2 DEF Finish, Ends, Outcomes
        <4> QED
          BY <4>1 DEF Outcomes
      <3>3. CASE Throw(r, created')
        BY <2>3, <3>3 DEF Outcomes, Locked
      <3>4. CASE Throw(r, created)
        BY <2>3, <3>4 DEF Outcomes, Locked
      <3> QED
        BY <2>6, <3>1, <3>2, <3>3, <3>4 DEF CreateWorktree, CreateFails
    <2>7. CASE Undo(r)
      <3>1. Ends(r, "cancelled")
        BY <2>7 DEF Undo, Finish, Ends, Outcomes
      <3> QED
        BY <3>1 DEF Outcomes
    <2>8. CASE CleanUp(r)
      BY <2>2, <2>8 DEF CleanUp, Outcomes
    <2> QED
      BY <2>4, <2>5, <2>6, <2>7, <2>8
  <1>5. disk' \subseteq disk \cup {Place(r)} /\ created' \subseteq created \cup {of[r]}
    BY DEF Resume, Prepare, CreateWorktree, CreateFails, AddWorktree, Undo, CleanUp, TryRemove
  <1>6. UNCHANGED <<row, path, cancellations, of, deleteVars, historyVars>>
    BY DEF Resume, Prepare, CreateWorktree, Undo, CleanUp, RunUnchanged
  <1> QED
    BY <1>1, <1>2, <1>3, <1>4, <1>5, <1>6 DEF Works

LEMMA StepKinds ==
  ASSUME Inv, [Next]_vars
  PROVE  \/ \E r \in Runs : \/ Asks(r) \/ Launch(r) \/ Works(r)
                            \/ AgentCall(r) \/ CloneEnds(r)
         \/ \E d \in Deletes : \/ BeginDelete(d) \/ WaitEnds(d) \/ WaitTimesOut(d)
                               \/ StopTunnel(d) \/ TearDown(d) \/ Remove(d) \/ Erase(d) \/ EndDelete(d)
         \/ \E w \in Workspaces : JobExpires(w)
         \/ UNCHANGED vars
  BY WorkSteps DEF Next, RunStep, DeleteStep, Asks, Launch

-----------------------------------------------------------------------------
LEMMA PlaceKnown ==
  ASSUME Inv, NEW r \in Runs, run[r] # "unused"
  PROVE  Place(r) \in Runs
  <1>1. of[r] \in Workspaces /\ row[of[r]] # "none"
    BY DEF Inv, TypeOK, RowInv
  <1> QED
    BY <1>1 DEF Inv, PathInv, Place

LEMMA TypeInductive ==
  ASSUME Inv, [Next]_vars
  PROVE  TypeOK'
  <1> USE DEF managerVars, runVars, deleteVars, historyVars
  <1>0. TypeOK
    BY DEF Inv
  <1>1. ASSUME NEW r \in Runs, Asks(r) PROVE TypeOK'
    <2>1. /\ row' \in [Workspaces -> {"none", "present", "deleting", "deleted"}]
          /\ path' \in [Workspaces -> Runs \cup {NoRun}]
      BY <1>0, <1>1 DEF Asks, Create, RetryDeduplicated, CallFails, TypeOK
    <2>2. run' \in [Runs -> Outcomes \cup {"unused", "called", "locking", "preparing",
                                "creating", "undoing", "cleaning", "cloning"}]
      BY <1>0, <1>1 DEF Asks, Create, RetryDeduplicated, CallFails, Outcomes, TypeOK
    <2>3. UNCHANGED <<managerVars, queue, disk, of, deleteVars, historyVars>>
      BY <1>1 DEF Asks, Create, RetryDeduplicated, CallFails
    <2> QED
      BY <1>0, <2>1, <2>2, <2>3 DEF TypeOK
  <1>2. ASSUME NEW r \in Runs, AgentCall(r) PROVE TypeOK'
    <2>1. /\ row' \in [Workspaces -> {"none", "present", "deleting", "deleted"}]
          /\ path' \in [Workspaces -> Runs \cup {NoRun}]
      BY <1>0, <1>2 DEF AgentCall, TypeOK
    <2>2. path'[of[r]] \in Runs
      BY <1>0, <1>2 DEF AgentCall, Inv, PathInv, TypeOK
    <2>3. disk' \subseteq Runs
      BY <1>0, <1>2, <2>2 DEF AgentCall, TypeOK
    <2> QED
      BY <1>0, <1>2, <2>1, <2>3 DEF AgentCall, StartJob, TypeOK
  <1>3. ASSUME NEW r \in Runs, Launch(r) PROVE TypeOK'
    <2>1. queue' \in Seq(Runs \cup Deletes)
      <3>1. queue' = Append(queue, r)
        BY <1>3 DEF Launch, Start, Retry, Begin
      <3> QED
        BY <1>0, <3>1, AppendProperties DEF TypeOK
    <2>2. path' \in [Workspaces -> Runs \cup {NoRun}]
      BY <1>0, <1>3 DEF Launch, Start, Retry, TypeOK
    <2>3. StartJob(r) /\ run' = [run EXCEPT ![r] = "locking"]
      BY <1>3 DEF Launch, Start, Retry, Begin
    <2>4. UNCHANGED <<row, disk, of, deleteVars, historyVars>>
      BY <1>3 DEF Launch, Start, Retry
    <2> QED
      BY <1>0, <2>1, <2>2, <2>3, <2>4 DEF StartJob, TypeOK
  <1>4. ASSUME NEW r \in Runs, Works(r) PROVE TypeOK'
    <2>1. UNCHANGED <<row, path, cancellations, of, deleteVars, historyVars>>
      BY <1>4 DEF Works
    <2>2. disk' \subseteq Runs /\ created' \subseteq Workspaces
      <3>1. Place(r) \in Runs
        BY <1>4, PlaceKnown DEF Works, Locked
      <3> QED
        BY <1>0, <1>4, <3>1 DEF Works, TypeOK
    <2>3. ASSUME NEW s, Goes(r, s) PROVE TypeOK'
      BY <1>0, <2>1, <2>2, <2>3 DEF Goes, Locked, TypeOK
    <2>4. ASSUME NEW s, Ends(r, s) PROVE TypeOK'
      <3>1. queue' \in Seq(Runs \cup Deletes)
        BY <1>0, <1>4, <2>4, Front DEF Works, Ends
      <3>2. of[r] \in Workspaces
        BY <1>0 DEF TypeOK
      <3>3. job' \in [Workspaces -> {"none", "initializing", "ready", "failed"}]
        BY <1>0, <2>4, <3>2 DEF Ends, Report, Outcomes, TypeOK
      <3>4. resolved' \subseteq Runs /\ donePromise' \in [Workspaces -> Runs \cup {NoRun}]
        BY <1>0, <2>4, <3>2 DEF Ends, FinalizeJob, TypeOK
      <3>5. run' \in [Runs -> Outcomes \cup {"unused", "called", "locking", "preparing",
                                  "creating", "undoing", "cleaning", "cloning"}]
        BY <1>0, <2>4 DEF Ends, TypeOK
      <3> QED
        BY <1>0, <2>1, <2>2, <3>1, <3>3, <3>4, <3>5 DEF TypeOK
    <2> QED
      BY <1>4, <2>3, <2>4 DEF Works
  <1>5. ASSUME NEW r \in Runs, CloneEnds(r) PROVE TypeOK'
    <2>1. of[r] \in Workspaces
      BY <1>0 DEF TypeOK
    <2>2. job' \in [Workspaces -> {"none", "initializing", "ready", "failed"}]
      BY <1>0, <1>5, <2>1 DEF CloneEnds, Report, TypeOK
    <2>3. resolved' \subseteq Runs /\ donePromise' \in [Workspaces -> Runs \cup {NoRun}]
      BY <1>0, <1>5, <2>1 DEF CloneEnds, FinalizeJob, TypeOK
    <2>4. run' \in [Runs -> Outcomes \cup {"unused", "called", "locking", "preparing",
                                "creating", "undoing", "cleaning", "cloning"}]
      BY <1>0, <1>5 DEF CloneEnds, Outcomes, TypeOK
    <2>5. disk' \subseteq Runs /\ created' \subseteq Workspaces
      <3>1. Place(r) \in Runs
        BY <1>5, PlaceKnown DEF CloneEnds
      <3> QED
        BY <1>0, <1>5, <2>1, <3>1 DEF CloneEnds, TypeOK
    <2> QED
      BY <1>0, <1>5, <2>2, <2>3, <2>4, <2>5 DEF CloneEnds, RunUnchanged, TypeOK
  <1>6. ASSUME NEW d \in Deletes, BeginDelete(d) PROVE TypeOK'
    <2>1. target[d] \in Workspaces
      BY <1>0 DEF TypeOK
    <2>2. /\ cancellations' \subseteq Workspaces /\ cancelled' \subseteq Runs
          /\ overlapped' \subseteq Workspaces
      BY <1>0, <1>6, <2>1 DEF BeginDelete, ActiveRuns, TypeOK
    <2>3. awaited' \in [Deletes -> Runs \cup {NoRun}]
      BY <1>0, <1>6, <2>1 DEF BeginDelete, TypeOK
    <2> QED
      BY <1>0, <1>6, <2>2, <2>3 DEF BeginDelete, Delete, TypeOK
  <1>7. ASSUME NEW d \in Deletes, WaitEnds(d) \/ WaitTimesOut(d) PROVE TypeOK'
    BY <1>0, <1>7 DEF WaitEnds, WaitTimesOut, Delete, TypeOK
  <1>8. ASSUME NEW d \in Deletes, TearDown(d) PROVE TypeOK'
    <2>1. Append(queue, d) \in Seq(Runs \cup Deletes)
      BY <1>0, AppendProperties DEF TypeOK
    <2>2. queue' \in Seq(Runs \cup Deletes)
      BY <1>0, <1>8, <2>1 DEF TearDown, TypeOK
    <2>3. row' \in [Workspaces -> {"none", "present", "deleting", "deleted"}]
      BY <1>0, <1>8 DEF TearDown, DeleteFails, TypeOK
    <2>4. del' \in [Deletes -> {"unused", "waiting", "stopping", "tearing", "removing",
                               "erasing", "clearing", "done", "failed"}]
      BY <1>0, <1>8 DEF TearDown, DeleteFails, Delete, TypeOK
    <2> QED
      BY <1>0, <1>8, <2>2, <2>3, <2>4 DEF TearDown, TypeOK
  <1>9. ASSUME NEW d \in Deletes, Remove(d) PROVE TypeOK'
    <2>1. queue' \in Seq(Runs \cup Deletes)
      <3>1. CASE target[d] \in Agents
        BY <1>0, <1>9, <3>1 DEF Remove, TypeOK
      <3>2. CASE target[d] \notin Agents
        BY <1>0, <1>9, <3>2, RemoveHead, Front DEF Inv
      <3> QED
        BY <3>1, <3>2
    <2>2. disk' \subseteq Runs
      BY <1>0, <1>9 DEF Remove, TypeOK
    <2>3. row' \in [Workspaces -> {"none", "present", "deleting", "deleted"}]
      BY <1>0, <1>9 DEF Remove, DeleteFails, TypeOK
    <2>4. del' \in [Deletes -> {"unused", "waiting", "stopping", "tearing", "removing",
                               "erasing", "clearing", "done", "failed"}]
      BY <1>0, <1>9 DEF Remove, DeleteFails, Delete, TypeOK
    <2>5. /\ UNCHANGED <<path, managerVars, runVars>>
          /\ UNCHANGED <<target, awaited, doomed, historyVars>>
      BY <1>9 DEF Remove
    <2> QED
      BY <1>0, <2>1, <2>2, <2>3, <2>4, <2>5 DEF TypeOK
  <1>10. ASSUME NEW d \in Deletes, Erase(d) \/ EndDelete(d) PROVE TypeOK'
    BY <1>0, <1>10 DEF Erase, EndDelete, ClearJob, Delete, TypeOK
  <1>11. ASSUME NEW w \in Workspaces, JobExpires(w) PROVE TypeOK'
    BY <1>0, <1>11 DEF JobExpires, TypeOK
  <1>12. CASE UNCHANGED vars
    BY <1>0, <1>12 DEF vars, TypeOK
  <1>13. ASSUME NEW d \in Deletes, StopTunnel(d) PROVE TypeOK'
    <2>1. doomed' \in [Deletes -> Runs \cup {NoRun}]
      BY <1>0, <1>13 DEF StopTunnel, TypeOK
    <2>2. row' \in [Workspaces -> {"none", "present", "deleting", "deleted"}]
      BY <1>0, <1>13 DEF StopTunnel, DeleteFails, TypeOK
    <2>3. del' \in [Deletes -> {"unused", "waiting", "stopping", "tearing", "removing",
                               "erasing", "clearing", "done", "failed"}]
      BY <1>0, <1>13 DEF StopTunnel, DeleteFails, Delete, TypeOK
    <2>4. /\ UNCHANGED <<path, managerVars, queue, disk, runVars>>
          /\ UNCHANGED <<target, awaited, historyVars>>
      BY <1>13 DEF StopTunnel
    <2> QED
      BY <1>0, <2>1, <2>2, <2>3, <2>4 DEF TypeOK
  <1> QED
    BY <1>1, <1>2, <1>3, <1>4, <1>5, <1>6, <1>7, <1>8, <1>9, <1>10, <1>11, <1>12, <1>13,
       StepKinds

LEMMA RowOfFailed ==
  ASSUME TypeOK, RowInv, NEW d \in Deletes, Underway(d), DeleteFails(d), UNCHANGED <<of, target, run>>
  PROVE  RowInv'
  <1>1. /\ row'[target[d]] = "present" /\ del'[d] = "failed"
        /\ \A w \in Workspaces : w # target[d] => row'[w] = row[w]
        /\ \A e \in Deletes : e # d => del'[e] = del[e]
    BY DEF DeleteFails, Delete, TypeOK
  <1>2. \A e \in Deletes : Underway(e) /\ e # d => target[e] # target[d]
    BY DEF RowInv
  <1>3. \A e \in Deletes : Underway(e)' <=> Underway(e) /\ e # d
    BY <1>1 DEF Underway, Gone
  <1> QED
    BY <1>1, <1>2, <1>3 DEF TypeOK, RowInv

LEMMA RowInductive ==
  ASSUME Inv, [Next]_vars
  PROVE  RowInv'
  <1> USE DEF managerVars, runVars, deleteVars, historyVars
  <1>0. TypeOK /\ RowInv
    BY DEF Inv
  <1>1. ASSUME NEW r \in Runs, Asks(r) PROVE RowInv'
    BY <1>0, <1>1 DEF Asks, Create, RetryDeduplicated, MayRetry, CallFails, NextRun, TypeOK, RowInv, Underway, Gone
  <1>2. ASSUME NEW r \in Runs, AgentCall(r) PROVE RowInv'
    BY <1>0, <1>2 DEF AgentCall, TypeOK, RowInv, Underway, Gone
  <1>3. ASSUME NEW r \in Runs, Launch(r) PROVE RowInv'
    BY <1>0, <1>3 DEF Launch, Start, Retry, MayRetry, NextRun, Begin, TypeOK, RowInv, Underway, Gone
  <1>4. ASSUME NEW r \in Runs, Works(r) PROVE RowInv'
    <2>1. run[r] # "unused" /\ UNCHANGED <<row, of, del, target>>
      BY <1>4 DEF Works, Locked
    <2>2. \A q \in Runs : q # r => run'[q] = run[q]
      BY <1>0, <1>4 DEF Works, Goes, Ends, TypeOK
    <2> QED
      BY <1>0, <2>1, <2>2 DEF RowInv, Underway
  <1>5. ASSUME NEW r \in Runs, CloneEnds(r) PROVE RowInv'
    <2>1. run[r] # "unused" /\ UNCHANGED <<row, of, del, target>>
      BY <1>5 DEF CloneEnds, RunUnchanged
    <2>2. \A q \in Runs : q # r => run'[q] = run[q]
      BY <1>0, <1>5 DEF CloneEnds, TypeOK
    <2> QED
      BY <1>0, <2>1, <2>2 DEF RowInv, Underway
  <1>6. ASSUME NEW d \in Deletes, BeginDelete(d) PROVE RowInv'
    <2>1. \A e \in Deletes : Underway(e) => target[e] # target[d]
      BY <1>0, <1>6 DEF BeginDelete, RowInv
    <2>2. del'[d] \in {"waiting", "stopping"} /\ \A e \in Deletes : e # d => del'[e] = del[e]
      BY <1>0, <1>6 DEF BeginDelete, Delete, TypeOK
    <2>3. /\ row'[target[d]] = "deleting" /\ UNCHANGED <<target, of, run>>
          /\ \A w \in Workspaces : w # target[d] => row'[w] = row[w]
      BY <1>0, <1>6 DEF BeginDelete, TypeOK
    <2>4. ~Underway(d) /\ \A e \in Deletes : e # d => Underway(e)' = Underway(e)
      BY <1>0, <1>6, <2>2 DEF BeginDelete, NextDelete, Underway, Gone
    <2>5. del'[d] \notin {"clearing", "done"} /\ Underway(d)'
      BY <2>2 DEF Underway
    <2> QED
      BY <1>0, <2>1, <2>2, <2>3, <2>4, <2>5 DEF TypeOK, RowInv
  <1>7. ASSUME NEW d \in Deletes, WaitEnds(d) \/ WaitTimesOut(d) PROVE RowInv'
    BY <1>0, <1>7 DEF WaitEnds, WaitTimesOut, Delete, TypeOK, RowInv, Underway, Gone
  <1>8. ASSUME NEW d \in Deletes, TearDown(d) PROVE RowInv'
    <2>1. UNCHANGED <<of, target, run>> /\ del[d] = "tearing"
      BY <1>8 DEF TearDown
    <2>2. CASE DeleteFails(d)
      BY <1>0, <2>1, <2>2, RowOfFailed DEF Underway
    <2>3. CASE Delete(d, "removing") /\ UNCHANGED row
      BY <1>0, <2>1, <2>3 DEF Delete, TypeOK, RowInv, Underway, Gone
    <2> QED
      BY <1>8, <2>2, <2>3 DEF TearDown
  <1>9. ASSUME NEW d \in Deletes, Remove(d) PROVE RowInv'
    <2>1. UNCHANGED <<of, target, run>> /\ del[d] = "removing"
      BY <1>9 DEF Remove
    <2>2. CASE DeleteFails(d)
      BY <1>0, <2>1, <2>2, RowOfFailed DEF Underway
    <2>3. CASE Delete(d, "erasing") /\ UNCHANGED row
      BY <1>0, <2>1, <2>3 DEF Delete, TypeOK, RowInv, Underway, Gone
    <2> QED
      BY <1>9, <2>2, <2>3 DEF Remove
  <1>10. ASSUME NEW d \in Deletes, Erase(d) PROVE RowInv'
    <2>1. /\ row'[target[d]] = "deleted" /\ del[d] = "erasing" /\ del'[d] = "clearing"
          /\ \A w \in Workspaces : w # target[d] => row'[w] = row[w]
          /\ \A e \in Deletes : e # d => del'[e] = del[e]
          /\ UNCHANGED <<of, target, run>>
      BY <1>0, <1>10 DEF Erase, Delete, TypeOK
    <2>2. \A e \in Deletes : Underway(e) /\ e # d => target[e] # target[d]
      BY <1>0, <2>1 DEF RowInv, Underway, Gone
    <2>3. \A e \in Deletes : Underway(e)' <=> Underway(e)
      BY <2>1 DEF Underway, Gone
    <2>4. \A r \in Runs : row'[of[r]] = "none" => row[of[r]] = "none"
      BY <1>0, <2>1 DEF TypeOK
    <2>5. \A e \in Deletes :
             del'[e] \in {"clearing", "done"} <=> Underway(e) /\ row'[target[e]] = "deleted"
      BY <1>0, <2>1, <2>2 DEF TypeOK, RowInv, Underway, Gone
    <2> QED
      BY <1>0, <2>1, <2>2, <2>3, <2>4, <2>5 DEF TypeOK, RowInv, Underway
  <1>13. ASSUME NEW d \in Deletes, EndDelete(d) PROVE RowInv'
    BY <1>0, <1>13 DEF EndDelete, Delete, TypeOK, RowInv, Underway, Gone
  <1>11. ASSUME NEW w \in Workspaces, JobExpires(w) PROVE RowInv'
    BY <1>0, <1>11 DEF JobExpires, RowInv, Underway
  <1>12. CASE UNCHANGED vars
    BY <1>0, <1>12 DEF vars, RowInv, Underway
  <1>14. ASSUME NEW d \in Deletes, StopTunnel(d) PROVE RowInv'
    <2>1. UNCHANGED <<of, target, run>> /\ del[d] = "stopping"
      BY <1>14 DEF StopTunnel
    <2>2. CASE DeleteFails(d)
      BY <1>0, <2>1, <2>2, RowOfFailed DEF Underway
    <2>3. CASE Delete(d, "tearing") /\ UNCHANGED row
      BY <1>0, <2>1, <2>3 DEF Delete, TypeOK, RowInv, Underway, Gone
    <2> QED
      BY <1>14, <2>2, <2>3 DEF StopTunnel
  <1> QED
    BY <1>1, <1>2, <1>3, <1>4, <1>5, <1>6, <1>7, <1>8, <1>9, <1>10, <1>11, <1>12, <1>13, <1>14,
       StepKinds

(* Steps of deletes, and of the timer, change no run. *)
LEMMA RunsKept ==
  ASSUME \/ \E d \in Deletes : \/ BeginDelete(d) \/ WaitEnds(d) \/ WaitTimesOut(d)
                               \/ StopTunnel(d) \/ TearDown(d) \/ Remove(d) \/ Erase(d) \/ EndDelete(d)
         \/ \E w \in Workspaces : JobExpires(w)
         \/ UNCHANGED vars
  PROVE  UNCHANGED <<run, of>>
  BY DEF BeginDelete, WaitEnds, WaitTimesOut, StopTunnel, TearDown, Remove, Erase, EndDelete, JobExpires, vars,
     runVars

LEMMA RunInductive ==
  ASSUME Inv, [Next]_vars
  PROVE  RunInv'
  <1> USE DEF Active, Started, Locked, Outcomes
  <1>0. TypeOK /\ RunInv
    BY DEF Inv
  <1>1. ASSUME NEW r \in Runs, Asks(r) PROVE RunInv'
    <2>1. CASE CallFails(r)
      BY <1>0, <2>1 DEF CallFails, TypeOK, RunInv
    <2>2. CASE ~CallFails(r)
      <3>1. \A q \in Runs : of[q] = of[r] => ~Active(q)
        BY <1>1, <2>2 DEF Asks, Create, RetryDeduplicated, MayRetry, ActiveRuns, Inv, RowInv
      <3> QED
        BY <1>0, <1>1, <2>2, <3>1 DEF Asks, Create, RetryDeduplicated, MayRetry, TypeOK, RunInv
    <2> QED
      BY <2>1, <2>2
  <1>2. ASSUME NEW r \in Runs, AgentCall(r) PROVE RunInv'
    BY <1>0, <1>2 DEF AgentCall, TypeOK, RunInv
  <1>3. ASSUME NEW r \in Runs, Launch(r) PROVE RunInv'
    <2>1. \A q \in Runs : q # r /\ of[q] = of[r] => ~Active(q)
      BY <1>0, <1>3 DEF Launch, Start, Retry, MayRetry, ActiveRuns, RunInv
    <2>2. of[r] \notin Agents
      BY <1>0, <1>3 DEF Launch, Start, Retry, MayRetry, RunInv
    <2>3. /\ UNCHANGED of /\ run'[r] = "locking"
          /\ \A q \in Runs : q # r => run'[q] = run[q]
      BY <1>0, <1>3 DEF Launch, Start, Retry, Begin, TypeOK
    <2> QED
      BY <1>0, <2>1, <2>2, <2>3 DEF RunInv
  <1>4. ASSUME NEW r \in Runs, Works(r) PROVE RunInv'
    <2>1. UNCHANGED of /\ run[r] \in Locked
      BY <1>4 DEF Works
    <2>2. /\ run'[r] \in (Locked \ {"locking"}) \cup Outcomes
          /\ \A q \in Runs : q # r => run'[q] = run[q]
      BY <1>0, <1>4 DEF Works, Goes, Ends, TypeOK
    <2> QED
      BY <1>0, <2>1, <2>2 DEF TypeOK, RunInv
  <1>5. ASSUME NEW r \in Runs, CloneEnds(r) PROVE RunInv'
    <2>1. UNCHANGED of
      BY <1>5 DEF CloneEnds, RunUnchanged
    <2>2. run'[r] \in Outcomes /\ \A q \in Runs : q # r => run'[q] = run[q]
      BY <1>0, <1>5 DEF CloneEnds, TypeOK
    <2> QED
      BY <1>0, <2>1, <2>2 DEF TypeOK, RunInv
  <1>6. CASE UNCHANGED <<run, of>>
    BY <1>0, <1>6 DEF RunInv
  <1> QED
    BY <1>1, <1>2, <1>3, <1>4, <1>5, <1>6, RunsKept, StepKinds

-----------------------------------------------------------------------------
(* The three things that happen to the lock's queue. *)

LEMMA SameQueue ==
  ASSUME TypeOK, QueueInv, UNCHANGED queue,
         \A r \in Runs : run'[r] \in Locked <=> run[r] \in Locked,
         \A r \in Runs : run'[r] \in Locked \ {"locking"} => queue[1] = r,
         \A d \in Deletes : Removing(d)' <=> Removing(d)
  PROVE  QueueInv'
  BY DEF TypeOK, QueueInv, Removing

LEMMA Popped ==
  ASSUME TypeOK, QueueInv, queue # <<>>, queue' = Tail(queue), NEW x, x = queue[1],
         \A r \in Runs : IF r = x THEN run'[r] \notin Locked ELSE run'[r] = run[r],
         \A d \in Deletes : IF d = x THEN ~Removing(d)' ELSE Removing(d)' <=> Removing(d)
  PROVE  QueueInv'
  <1>1. /\ Len(queue) \in Nat \ {0} /\ Len(queue') = Len(queue) - 1
        /\ \A i \in 1..Len(queue') : queue'[i] = queue[i + 1] /\ i + 1 \in 1..Len(queue)
    BY Front
  <1>2. \A i \in 1..Len(queue') : queue'[i] # x
    BY <1>1 DEF QueueInv
  <1>3. \A y : y # x /\ (\E i \in 1..Len(queue) : queue[i] = y)
                  => \E i \in 1..Len(queue') : queue'[i] = y
    <2> SUFFICES ASSUME NEW y, y # x, NEW i \in 1..Len(queue), queue[i] = y
                 PROVE  \E j \in 1..Len(queue') : queue'[j] = y
      OBVIOUS
    <2>1. i # 1 /\ i - 1 \in 1..Len(queue')
      BY <1>1
    <2> QED
      BY <1>1, <2>1
  <1>4. \A i \in 1..Len(queue'), y \in Runs \cup Deletes :
           queue'[i] = y => /\ y \in Runs => run'[y] \in Locked
                            /\ y \in Deletes => Removing(y)'
    <2> SUFFICES ASSUME NEW i \in 1..Len(queue'), NEW y \in Runs \cup Deletes, queue'[i] = y
                 PROVE  /\ y \in Runs => run'[y] \in Locked
                        /\ y \in Deletes => Removing(y)'
      OBVIOUS
    <2>1. y = queue[i + 1] /\ i + 1 \in 1..Len(queue) /\ y # x
      BY <1>1, <1>2
    <2> QED
      BY <2>1 DEF QueueInv
  <1>5. \A i, j \in 1..Len(queue') : queue'[i] = queue'[j] => i = j
    <2> SUFFICES ASSUME NEW i \in 1..Len(queue'), NEW j \in 1..Len(queue'), queue'[i] = queue'[j]
                 PROVE  i = j
      OBVIOUS
    <2>1. i + 1 = j + 1
      BY <1>1 DEF QueueInv
    <2> QED
      BY <1>1, <2>1
  <1>6. \A r \in Runs : run'[r] \in Locked => \E i \in 1..Len(queue') : queue'[i] = r
    BY <1>3 DEF QueueInv
  <1>7. \A d \in Deletes : Removing(d)' => \E i \in 1..Len(queue') : queue'[i] = d
    BY <1>3 DEF QueueInv
  <1>8. \A r \in Runs : run'[r] \notin Locked \ {"locking"}
    BY DEF QueueInv
  <1> QED
    BY <1>4, <1>5, <1>6, <1>7, <1>8 DEF QueueInv, Removing

LEMMA Appended ==
  ASSUME TypeOK, QueueInv, NEW x \in Runs \cup Deletes, queue' = Append(queue, x),
         \A r \in Runs : IF r = x THEN run[r] \notin Locked /\ run'[r] = "locking"
                                  ELSE run'[r] = run[r],
         \A d \in Deletes : IF d = x THEN ~Removing(d) /\ Removing(d)'
                                     ELSE Removing(d)' <=> Removing(d)
  PROVE  QueueInv'
  <1>1. /\ Len(queue) \in Nat /\ Len(queue') = Len(queue) + 1
        /\ \A i \in 1..Len(queue) : queue'[i] = queue[i] /\ i \in 1..Len(queue')
        /\ queue'[Len(queue) + 1] = x /\ Len(queue) + 1 \in 1..Len(queue')
        /\ \A i \in 1..Len(queue') : i \in 1..Len(queue) \/ i = Len(queue) + 1
    BY AppendProperties, LenProperties DEF TypeOK
  <1>2. \A i \in 1..Len(queue) : queue[i] # x
    BY DEF QueueInv
  <1>3. \A r \in Runs : run'[r] \in Locked => \E i \in 1..Len(queue') : queue'[i] = r
    BY <1>1 DEF QueueInv
  <1>4. \A d \in Deletes : Removing(d)' => \E i \in 1..Len(queue') : queue'[i] = d
    BY <1>1 DEF QueueInv
  <1>5. \A i \in 1..Len(queue'), y \in Runs \cup Deletes :
           queue'[i] = y => /\ y \in Runs => run'[y] \in Locked
                            /\ y \in Deletes => Removing(y)'
    <2> SUFFICES ASSUME NEW i \in 1..Len(queue'), NEW y \in Runs \cup Deletes, queue'[i] = y
                 PROVE  /\ y \in Runs => run'[y] \in Locked
                        /\ y \in Deletes => Removing(y)'
      OBVIOUS
    <2>1. CASE i \in 1..Len(queue)
      BY <1>1, <1>2, <2>1 DEF QueueInv
    <2>2. CASE i = Len(queue) + 1
      BY <1>1, <2>2 DEF Locked
    <2> QED
      BY <1>1, <2>1, <2>2
  <1>6. \A i, j \in 1..Len(queue') : queue'[i] = queue'[j] => i = j
    BY <1>1, <1>2 DEF QueueInv
  <1>7. \A r \in Runs : run'[r] \in Locked \ {"locking"} => queue'[1] = r
    <2> SUFFICES ASSUME NEW r \in Runs, run'[r] \in Locked \ {"locking"} PROVE queue'[1] = r
      OBVIOUS
    <2>1. r # x /\ run[r] \in Locked /\ queue[1] = r
      BY DEF QueueInv
    <2>2. 1 \in 1..Len(queue)
      BY <1>1, <2>1 DEF QueueInv
    <2> QED
      BY <1>1, <2>1, <2>2
  <1> QED
    BY <1>3, <1>4, <1>5, <1>6, <1>7 DEF QueueInv, Removing

LEMMA QueueInductive ==
  ASSUME Inv, [Next]_vars
  PROVE  QueueInv'
  <1> USE DEF managerVars, runVars, deleteVars, historyVars
  <1>0. TypeOK /\ QueueInv
    BY DEF Inv
  <1>1. ASSUME NEW r \in Runs, Asks(r) \/ AgentCall(r) \/ CloneEnds(r) PROVE QueueInv'
    <2>1. run[r] \notin Locked /\ run'[r] \notin Locked /\ UNCHANGED <<queue, del, target>>
      BY <1>0, <1>1
      DEF Asks, Create, RetryDeduplicated, MayRetry, CallFails, AgentCall, NextRun, CloneEnds, RunUnchanged, Locked, Outcomes, TypeOK
    <2>2. \A q \in Runs : q # r => run'[q] = run[q]
      BY <1>0, <1>1 DEF Asks, Create, RetryDeduplicated, MayRetry, CallFails, AgentCall, CloneEnds, TypeOK
    <2>3. \A q \in Runs : run'[q] \in Locked => run'[q] = run[q]
      BY <2>1, <2>2
    <2>4. \A q \in Runs : run'[q] \in Locked \ {"locking"} => queue[1] = q
      BY <1>0, <2>3 DEF QueueInv
    <2> QED
      BY <1>0, <2>1, <2>2, <2>3, <2>4, SameQueue DEF Removing
  <1>2. ASSUME NEW r \in Runs, Launch(r) PROVE QueueInv'
    <2>1. /\ run[r] \notin Locked /\ run'[r] = "locking" /\ queue' = Append(queue, r)
          /\ UNCHANGED <<del, target>> /\ \A q \in Runs : q # r => run'[q] = run[q]
      BY <1>0, <1>2 DEF Launch, Start, Retry, MayRetry, NextRun, Begin, Locked, TypeOK
    <2> QED
      BY <1>0, <2>1, Appended, Disjoint DEF Removing
  <1>3. ASSUME NEW r \in Runs, Works(r) PROVE QueueInv'
    <2>1. queue # <<>> /\ queue[1] = r /\ run[r] \in Locked /\ UNCHANGED <<del, target>>
      BY <1>0, <1>3, Front DEF Works
    <2>2. ASSUME NEW s, Goes(r, s) PROVE QueueInv'
      <3>1. run'[r] \in Locked /\ \A q \in Runs : q # r => run'[q] = run[q]
        BY <1>0, <2>2 DEF Goes, TypeOK
      <3>2. \A q \in Runs : run'[q] \in Locked \ {"locking"} => queue[1] = q
        BY <1>0, <2>1, <3>1 DEF QueueInv
      <3> QED
        BY <1>0, <2>1, <2>2, <3>1, <3>2, SameQueue DEF Goes, Removing
    <2>3. ASSUME NEW s, Ends(r, s) PROVE QueueInv'
      <3>1. run'[r] \notin Locked /\ \A q \in Runs : q # r => run'[q] = run[q]
        BY <1>0, <2>3 DEF Ends, Locked, Outcomes, TypeOK
      <3> QED
        BY <1>0, <2>1, <2>3, <3>1, Popped, Disjoint DEF Ends, Removing
    <2> QED
      BY <1>3, <2>2, <2>3 DEF Works
  <1>4. ASSUME NEW d \in Deletes, TearDown(d) PROVE QueueInv'
    <2>1. /\ UNCHANGED <<run, target>> /\ del[d] = "tearing"
          /\ \A e \in Deletes : e # d => del'[e] = del[e]
      BY <1>0, <1>4 DEF TearDown, DeleteFails, Delete, TypeOK
    <2>2. CASE DeleteFails(d) /\ UNCHANGED queue
      <3>1. del'[d] = "failed"
        BY <1>0, <2>2 DEF DeleteFails, Delete, TypeOK
      <3> QED
        BY <1>0, <2>1, <2>2, <3>1, SameQueue DEF Removing, QueueInv
    <2>3. CASE Delete(d, "removing") /\ target[d] \in Agents /\ UNCHANGED queue
      BY <1>0, <2>1, <2>3, SameQueue DEF Removing, QueueInv
    <2>4. CASE Delete(d, "removing") /\ target[d] \notin Agents /\ queue' = Append(queue, d)
      <3>1. del'[d] = "removing"
        BY <1>0, <2>4 DEF Delete, TypeOK
      <3> QED
        BY <1>0, <2>1, <2>4, <3>1, Appended, Disjoint DEF Removing
    <2> QED
      BY <1>4, <2>2, <2>3, <2>4 DEF TearDown
  <1>5. ASSUME NEW d \in Deletes, Remove(d) PROVE QueueInv'
    <2>1. /\ UNCHANGED <<run, target>> /\ del'[d] \in {"failed", "erasing"}
          /\ \A e \in Deletes : e # d => del'[e] = del[e]
      BY <1>0, <1>5 DEF Remove, DeleteFails, Delete, TypeOK
    <2>2. CASE target[d] \in Agents
      BY <1>0, <1>5, <2>1, <2>2, SameQueue DEF Remove, Removing, QueueInv
    <2>3. CASE target[d] \notin Agents
      BY <1>0, <1>5, <2>1, <2>3, RemoveHead, Popped, Disjoint DEF Removing
    <2> QED
      BY <2>2, <2>3
  <1>6. ASSUME NEW d \in Deletes,
               \/ BeginDelete(d) \/ WaitEnds(d) \/ WaitTimesOut(d) \/ StopTunnel(d)
               \/ Erase(d) \/ EndDelete(d)
        PROVE  QueueInv'
    <2>1. /\ UNCHANGED <<run, target, queue>>
          /\ del[d] # "removing" /\ del'[d] # "removing"
          /\ \A e \in Deletes : e # d => del'[e] = del[e]
      BY <1>0, <1>6
      DEF BeginDelete, NextDelete, WaitEnds, WaitTimesOut, StopTunnel, DeleteFails, Erase,
          EndDelete, Delete, TypeOK
    <2> QED
      BY <1>0, <2>1, SameQueue DEF Removing, QueueInv
  <1>7. CASE UNCHANGED <<run, del, target, queue>>
    BY <1>0, <1>7, SameQueue DEF Removing, QueueInv
  <1> QED
    BY <1>1, <1>2, <1>3, <1>4, <1>5, <1>6, <1>7, StepKinds DEF JobExpires, vars

-----------------------------------------------------------------------------
LEMMA OrderKept ==
  ASSUME TypeOK, NEW r \in Runs, NEW d \in Deletes, Ordered(r, d),
         \/ UNCHANGED queue
         \/ queue # <<>> /\ queue' = Tail(queue)
         \/ \E x \in Runs \cup Deletes : x \notin {r, d} /\ queue' = Append(queue, x)
  PROVE  Ordered(r, d)'
  <1>1. CASE UNCHANGED queue
    BY <1>1 DEF Ordered
  <1>2. CASE queue # <<>> /\ queue' = Tail(queue)
    <2>1. /\ Len(queue) \in Nat \ {0} /\ Len(queue') = Len(queue) - 1
          /\ \A i \in 1..Len(queue') : queue'[i] = queue[i + 1] /\ i + 1 \in 1..Len(queue)
      <3>1. /\ Len(queue) \in Nat \ {0} /\ Len(queue') = Len(queue) - 1
            /\ \A i \in 1..Len(queue) - 1 : queue'[i] = queue[i + 1]
        BY <1>2, Front
      <3> QED
        BY <3>1
    <2> SUFFICES ASSUME NEW i \in 1..Len(queue'), NEW j \in 1..Len(queue'),
                        queue'[i] = r, queue'[j] = d
                 PROVE  i < j
      BY DEF Ordered
    <2>2. i + 1 < j + 1
      BY <2>1 DEF Ordered
    <2> QED
      BY <2>1, <2>2
  <1>3. ASSUME NEW x \in Runs \cup Deletes, x \notin {r, d}, queue' = Append(queue, x)
        PROVE  Ordered(r, d)'
    <2>1. /\ Len(queue) \in Nat /\ Len(queue') = Len(queue) + 1
          /\ \A i \in 1..Len(queue) : queue'[i] = queue[i]
          /\ queue'[Len(queue) + 1] = x
      BY <1>3, AppendProperties, LenProperties DEF TypeOK
    <2>2. \A i \in 1..Len(queue') : i \in 1..Len(queue) \/ i = Len(queue) + 1
      BY <2>1
    <2> QED
      BY <1>3, <2>1, <2>2 DEF Ordered
  <1> QED
    BY <1>1, <1>2, <1>3

LEMMA OrderMade ==
  ASSUME TypeOK, NEW r \in Runs, NEW d \in Deletes, queue' = Append(queue, d),
         \A i \in 1..Len(queue) : queue[i] # d
  PROVE  Ordered(r, d)'
  <1>1. /\ Len(queue) \in Nat /\ Len(queue') = Len(queue) + 1
        /\ \A i \in 1..Len(queue) : queue'[i] = queue[i]
        /\ queue'[Len(queue) + 1] = d
    BY AppendProperties, LenProperties DEF TypeOK
  <1>2. \A i \in 1..Len(queue') : i \in 1..Len(queue) \/ i = Len(queue) + 1
    BY <1>1
  <1> QED
    BY <1>1, <1>2, Disjoint DEF Ordered

LEMMA AheadKept ==
  ASSUME TypeOK, AheadInv, NEW r \in Runs, NEW d \in Deletes,
         Active(r), Underway(d), Concerns(d, r),
         run'[r] = run[r] \/ Started(r)', del'[d] = del[d],
         \/ UNCHANGED queue
         \/ queue # <<>> /\ queue' = Tail(queue)
         \/ \E x \in Runs \cup Deletes : x \notin {r, d} /\ queue' = Append(queue, x)
  PROVE  (Started(r) /\ Ahead(r, d))'
  <1>1. Started(r) /\ Ahead(r, d)
    BY DEF AheadInv
  <1>2. Started(r)'
    BY <1>1 DEF Started
  <1>3. CASE del[d] = "removing"
    BY <1>1, <1>2, <1>3, OrderKept DEF Ahead
  <1>4. CASE del[d] # "removing"
    BY <1>1, <1>2, <1>4 DEF Ahead
  <1> QED
    BY <1>3, <1>4

LEMMA AheadInductive ==
  ASSUME Inv, [Next]_vars
  PROVE  AheadInv'
  <1> USE DEF managerVars, runVars, deleteVars, historyVars
  <1> SUFFICES ASSUME NEW r \in Runs, NEW d \in Deletes,
                      (Active(r) /\ Underway(d) /\ Concerns(d, r))'
               PROVE  (Started(r) /\ Ahead(r, d))'
    BY DEF AheadInv
  <1> DEFINE Goal == (Started(r) /\ Ahead(r, d))'
  <1>0. TypeOK /\ RowInv /\ RunInv /\ QueueInv /\ AheadInv /\ CancelInv
    BY DEF Inv
  <1>1. ASSUME NEW q \in Runs, Asks(q) \/ AgentCall(q) \/ CloneEnds(q) PROVE Goal
    <2>1. /\ UNCHANGED <<of, del, target, queue, cancelled>> /\ overlapped \subseteq overlapped'
          /\ \A x \in Runs : x # q => run'[x] = run[x]
      BY <1>0, <1>1 DEF Asks, Create, RetryDeduplicated, MayRetry, CallFails, AgentCall, CloneEnds, RunUnchanged, StartJob, TypeOK
    <2>2. Underway(d) /\ Concerns(d, r)
      BY <2>1 DEF Underway, Concerns
    <2>3. r # q
      <3>1. of[q] \in Agents \/ row[of[q]] \in {"none", "present"} \/ run'[q] = "failed"
        BY <1>0, <1>1 DEF Asks, Create, RetryDeduplicated, MayRetry, CallFails, AgentCall, CloneEnds,
           RunInv, TypeOK
      <3> QED
        BY <1>0, <2>2, <3>1 DEF Concerns, RowInv, Active, Started, Outcomes
    <2> QED
      BY <1>0, <2>1, <2>2, <2>3, AheadKept DEF Active, Started
  <1>2. ASSUME NEW q \in Runs, Launch(q) PROVE Goal
    <2>1. /\ UNCHANGED <<of, del, target, cancelled, overlapped>> /\ queue' = Append(queue, q)
          /\ run[q] = "called" \/ row[of[q]] = "present"
          /\ \A x \in Runs : x # q => run'[x] = run[x]
      BY <1>0, <1>2 DEF Launch, Start, Retry, MayRetry, NextRun, Begin, TypeOK
    <2>2. Underway(d) /\ Concerns(d, r)
      BY <2>1 DEF Underway, Concerns
    <2>3. r # q
      BY <1>0, <2>1, <2>2 DEF AheadInv, Active, Started, RowInv, Concerns
    <2>4. Active(r)
      BY <2>1, <2>3 DEF Active, Started
    <2> QED
      BY <1>0, <2>1, <2>2, <2>3, <2>4, AheadKept, Disjoint
  <1>3. ASSUME NEW q \in Runs, Works(q) PROVE Goal
    <2>1. /\ UNCHANGED <<of, del, target, cancelled, overlapped>>
          /\ queue # <<>> /\ run[q] \in Locked
      BY <1>3 DEF Works
    <2>2. Underway(d) /\ Concerns(d, r)
      BY <2>1 DEF Underway, Concerns
    <2>3. ASSUME NEW s, Goes(q, s) PROVE Goal
      <3>1. UNCHANGED queue /\ run'[r] \in {run[r], s} /\ s \in Locked /\ (r = q \/ run'[r] = run[r])
        BY <1>0, <2>3 DEF Goes, TypeOK
      <3>2. Active(r) /\ (run'[r] = run[r] \/ Started(r)')
        BY <2>1, <3>1 DEF Active, Started, Locked, Outcomes
      <3> QED
        BY <1>0, <2>1, <2>2, <3>1, <3>2, AheadKept
    <2>4. ASSUME NEW s, Ends(q, s) PROVE Goal
      <3>1. queue' = Tail(queue) /\ run'[q] \in Outcomes /\ \A x \in Runs : x # q => run'[x] = run[x]
        BY <1>0, <2>4 DEF Ends, TypeOK
      <3>2. r # q /\ run'[r] = run[r]
        BY <3>1 DEF Active, Started, Outcomes
      <3>3. Active(r)
        BY <3>2 DEF Active, Started
      <3> QED
        BY <1>0, <2>1, <2>2, <3>1, <3>2, <3>3, AheadKept
    <2> QED
      BY <1>3, <2>3, <2>4 DEF Works
  <1>4. ASSUME NEW e \in Deletes, BeginDelete(e) PROVE Goal
    <2>1. /\ UNCHANGED <<of, run, target, queue>> /\ del'[e] \in {"waiting", "stopping"}
          /\ \A x \in Deletes : x # e => del'[x] = del[x]
          /\ row[target[e]] = "present"
      BY <1>0, <1>4 DEF BeginDelete, Delete, TypeOK
    <2>2. /\ cancelled' \subseteq cancelled \cup {x \in ActiveRuns(target[e]) : Started(x)}
          /\ overlapped' = IF \E x \in ActiveRuns(target[e]) : ~Started(x)
                           THEN overlapped \cup {target[e]} ELSE overlapped
      BY <1>4 DEF BeginDelete
    <2>3. Active(r)
      BY <2>1 DEF Active, Started
    <2>4. CASE d = e
      <3>1. r \in cancelled' \/ of[r] \notin overlapped'
        BY <2>1 DEF Concerns
      <3>2. target[e] = of[r]
        BY <2>1, <2>4 DEF Concerns
      <3>3. ASSUME r \in cancelled' PROVE Started(r)
        BY <1>0, <2>2, <2>3, <3>3 DEF CancelInv, Active
      <3>4. ASSUME of[r] \notin overlapped' PROVE Started(r)
        BY <2>2, <2>3, <3>2, <3>4 DEF ActiveRuns
      <3>5. Started(r)
        BY <3>1, <3>3, <3>4
      <3> QED
        BY <2>1, <2>4, <3>5 DEF Started, Ahead, Gone
    <2>5. CASE d # e
      <3>1. Underway(d)
        BY <2>1, <2>5 DEF Underway
      <3>2. target[d] # target[e]
        BY <1>0, <2>1, <3>1 DEF RowInv
      <3>3. Concerns(d, r)
        BY <2>1, <2>2, <3>2 DEF Concerns, ActiveRuns
      <3> QED
        BY <1>0, <2>1, <2>3, <2>5, <3>1, <3>3, AheadKept
    <2> QED
      BY <2>4, <2>5
  <1>5. ASSUME NEW e \in Deletes, UNCHANGED <<of, run, target, cancelled, overlapped>>,
               WaitEnds(e) \/ WaitTimesOut(e) \/ StopTunnel(e) \/ TearDown(e) \/ Remove(e) \/ Erase(e) \/ EndDelete(e)
        PROVE  Goal
    <2>1. Active(r) /\ Concerns(d, r)
      BY <1>5 DEF Active, Started, Concerns
    <2>2. Underway(e) /\ \A x \in Deletes : x # e => del'[x] = del[x]
      BY <1>0, <1>5 DEF WaitEnds, WaitTimesOut, StopTunnel, TearDown, Remove, Erase, EndDelete, DeleteFails,
         Delete, Underway, Gone, TypeOK
    <2>3. Underway(d)
      BY <2>2 DEF Underway
    <2>4. Started(r) /\ Ahead(r, d)
      BY <1>0, <2>1, <2>3 DEF AheadInv
    <2>5. CASE d # e
      <3>1. \/ UNCHANGED queue
            \/ queue # <<>> /\ queue' = Tail(queue)
            \/ \E x \in Runs \cup Deletes : x \notin {r, d} /\ queue' = Append(queue, x)
        <4>1. CASE Remove(e)
          BY <1>0, <4>1, RemoveHead DEF Remove
        <4>2. CASE TearDown(e)
          BY <2>5, <4>2, Disjoint DEF TearDown
        <4> QED
          BY <1>5, <4>1, <4>2 DEF WaitEnds, WaitTimesOut, StopTunnel, Erase, EndDelete
      <3> QED
        BY <1>0, <1>5, <2>1, <2>2, <2>3, <2>5, <3>1, AheadKept
    <2>6. CASE d = e
      <3>1. Started(r)' /\ del[d] \notin Gone
        BY <1>5, <2>4 DEF Started, Ahead
      <3>2. CASE WaitEnds(e) \/ WaitTimesOut(e) \/ StopTunnel(e)
        BY <1>0, <2>6, <3>1, <3>2 DEF WaitEnds, WaitTimesOut, StopTunnel, DeleteFails, Delete,
           Ahead, Gone, TypeOK
      <3>3. CASE TearDown(e)
        <4>1. del[d] = "tearing" /\ target[d] \notin Agents
          BY <2>1, <2>6, <3>3 DEF TearDown, Concerns
        <4>2. del'[d] = "removing" /\ queue' = Append(queue, d)
          BY <1>0, <2>6, <3>3, <4>1
          DEF TearDown, DeleteFails, Delete, TypeOK, Underway, Gone
        <4>3. \A i \in 1..Len(queue) : queue[i] # d
          BY <1>0, <4>1 DEF QueueInv, Removing
        <4> QED
          BY <1>0, <3>1, <4>2, <4>3, OrderMade DEF Ahead, Gone
      <3>4. CASE Remove(e)
        <4>1. target[d] \notin Agents /\ Ordered(r, d) /\ queue[1] = d
          BY <1>0, <2>1, <2>4, <2>6, <3>4, RemoveHead DEF Remove, Concerns, Ahead
        <4>2. run[r] \in Locked
          BY <1>0, <2>1, <2>4 DEF TypeOK, RunInv, Concerns, Started, Locked, Outcomes
        <4>3. PICK i \in 1..Len(queue) : queue[i] = r
          BY <1>0, <4>2 DEF QueueInv
        <4>4. i < 1
          BY <1>0, <4>1, <4>3, LenProperties DEF Ordered, TypeOK
        <4> QED
          BY <4>4
      <3>5. CASE Erase(e) \/ EndDelete(e)
        BY <2>6, <3>1, <3>5 DEF Erase, EndDelete, Gone
      <3> QED
        BY <1>5, <3>2, <3>3, <3>4, <3>5
    <2> QED
      BY <2>5, <2>6
  <1>6. CASE UNCHANGED <<of, run, del, target, queue, cancelled, overlapped>>
    BY <1>0, <1>6, AheadKept DEF Active, Started, Underway, Concerns
  <1>7. ASSUME NEW e \in Deletes,
               WaitEnds(e) \/ WaitTimesOut(e) \/ StopTunnel(e) \/ TearDown(e) \/ Remove(e) \/ Erase(e) \/ EndDelete(e)
        PROVE  UNCHANGED <<of, run, target, cancelled, overlapped>>
    BY <1>7 DEF WaitEnds, WaitTimesOut, StopTunnel, TearDown, Remove, Erase, EndDelete
  <1> QED
    BY <1>1, <1>2, <1>3, <1>4, <1>5, <1>6, <1>7, StepKinds DEF JobExpires, vars

LEMMA CancelInductive ==
  ASSUME Inv, [Next]_vars
  PROVE  CancelInv'
  <1> USE DEF managerVars, runVars, deleteVars, historyVars, Requested
  <1>0. TypeOK /\ RunInv /\ AheadInv /\ CancelInv
    BY DEF Inv
  <1>1. ASSUME NEW q \in Runs, Asks(q) \/ AgentCall(q) PROVE CancelInv'
    <2>1. /\ q \notin cancelled /\ UNCHANGED <<of, cancelled>>
          /\ \A r \in Runs : r # q => run'[r] = run[r]
      BY <1>0, <1>1 DEF Asks, Create, RetryDeduplicated, MayRetry, CallFails, AgentCall, NextRun, CancelInv, TypeOK
    <2>2. \A r \in Runs : of[r] \notin Agents /\ of[r] \in cancellations => of[r] \in cancellations'
      BY <1>0, <1>1 DEF Asks, Create, RetryDeduplicated, MayRetry, CallFails, AgentCall, StartJob, TypeOK
    <2> QED
      BY <1>0, <2>1, <2>2 DEF CancelInv, Active, Started, TypeOK
  <1>2. ASSUME NEW q \in Runs, Launch(q) PROVE CancelInv'
    <2>1. /\ q \notin cancelled /\ UNCHANGED <<of, cancelled>>
          /\ cancellations' = cancellations \ {of[q]}
          /\ \A r \in Runs : r # q => run'[r] = run[r]
      BY <1>0, <1>2 DEF Launch, Start, Retry, MayRetry, NextRun, Begin, StartJob, CancelInv, TypeOK
    <2>2. \A r \in Runs : Active(r) /\ of[r] \notin Agents /\ r # q => of[r] # of[q]
      BY <1>0, <1>2 DEF Launch, Start, Retry, MayRetry, ActiveRuns, RunInv, Active
    <2> QED
      BY <1>0, <2>1, <2>2 DEF CancelInv, Active, Started, TypeOK
  <1>3. ASSUME NEW q \in Runs, Works(q) \/ CloneEnds(q) PROVE CancelInv'
    <2>1. Active(q) /\ UNCHANGED <<of, cancelled, cancellations>>
      BY <1>3 DEF Works, CloneEnds, RunUnchanged, Locked, Active, Started, Outcomes
    <2>2. /\ run'[q] \notin {"unused", "called"}
          /\ \A r \in Runs : r # q => run'[r] = run[r]
      BY <1>0, <1>3 DEF Works, Goes, Ends, CloneEnds, Locked, Outcomes, TypeOK
    <2> QED
      BY <1>0, <2>1, <2>2 DEF CancelInv, Active, Started, TypeOK
  <1>4. ASSUME NEW d \in Deletes, BeginDelete(d) PROVE CancelInv'
    <2>1. UNCHANGED <<run, of>>
      BY <1>4 DEF BeginDelete
    <2>2. CASE UNCHANGED <<cancellations, cancelled>>
      BY <1>0, <2>1, <2>2 DEF CancelInv, Active, Started
    <2>3. CASE /\ cancellations' = cancellations \cup {target[d]}
               /\ cancelled' = cancelled \cup {r \in ActiveRuns(target[d]) : Started(r)}
      BY <1>0, <2>1, <2>3 DEF CancelInv, ActiveRuns, Active, Started
    <2> QED
      BY <1>4, <2>2, <2>3 DEF BeginDelete
  <1>5. ASSUME NEW d \in Deletes, EndDelete(d) PROVE CancelInv'
    <2>1. /\ UNCHANGED <<run, of, cancelled>> /\ cancellations' = cancellations \ {target[d]}
          /\ del[d] \in Gone
      BY <1>5 DEF EndDelete, ClearJob, Gone
    <2>2. \A r \in cancelled : Active(r) /\ of[r] \notin Agents => of[r] # target[d]
      BY <1>0, <2>1 DEF AheadInv, Concerns, Ahead, Underway, TypeOK
    <2> QED
      BY <1>0, <2>1, <2>2 DEF CancelInv, Active, Started
  <1>6. CASE UNCHANGED <<run, of, cancelled, cancellations>>
    BY <1>0, <1>6 DEF CancelInv, Active, Started
  <1> QED
    BY <1>1, <1>2, <1>3, <1>4, <1>5, <1>6, StepKinds
    DEF WaitEnds, WaitTimesOut, StopTunnel, TearDown, Remove, Erase, JobExpires, vars

LEMMA NeverReadyInductive ==
  ASSUME Inv, [Next]_vars
  PROVE  CancelledNeverReady'
  <1> USE DEF managerVars, runVars, deleteVars, historyVars
  <1>0. TypeOK /\ RunInv /\ CancelInv /\ CancelledNeverReady
    BY DEF Inv
  <1>1. ASSUME NEW q \in Runs, Asks(q) \/ AgentCall(q) \/ Launch(q) PROVE CancelledNeverReady'
    <2>1. /\ run'[q] # "ready" /\ UNCHANGED <<of, cancelled>>
          /\ \A r \in Runs : r # q => run'[r] = run[r]
      BY <1>0, <1>1 DEF Asks, Create, RetryDeduplicated, MayRetry, CallFails, AgentCall, Launch, Start, Retry, MayRetry, NextRun, Begin, TypeOK
    <2> QED
      BY <1>0, <2>1 DEF CancelledNeverReady, TypeOK
  <1>2. ASSUME NEW q \in Runs, Works(q) PROVE CancelledNeverReady'
    <2>1. /\ run[q] \in Locked /\ UNCHANGED <<of, cancelled>>
          /\ \A r \in Runs : r # q => run'[r] = run[r]
          /\ run'[q] = "ready" => ~Requested(of[q])
      BY <1>0, <1>2 DEF Works, Goes, Ends, Locked, TypeOK
    <2>2. q \in cancelled => run'[q] # "ready"
      BY <1>0, <2>1 DEF CancelInv, RunInv, Active, Started, Locked, Outcomes
    <2> QED
      BY <1>0, <2>1, <2>2 DEF CancelledNeverReady, TypeOK
  <1>3. ASSUME NEW q \in Runs, CloneEnds(q) PROVE CancelledNeverReady'
    <2>1. /\ of[q] \in Agents /\ UNCHANGED <<of, cancelled>>
          /\ \A r \in Runs : r # q => run'[r] = run[r]
      BY <1>0, <1>3 DEF CloneEnds, RunUnchanged, RunInv, TypeOK
    <2> QED
      BY <1>0, <2>1 DEF CancelledNeverReady, TypeOK
  <1>4. ASSUME NEW d \in Deletes, BeginDelete(d) PROVE CancelledNeverReady'
    <2>1. /\ UNCHANGED <<run, of>>
          /\ cancelled' \subseteq cancelled \cup {r \in ActiveRuns(target[d]) : Started(r)}
      BY <1>4 DEF BeginDelete
    <2> QED
      BY <1>0, <2>1 DEF CancelledNeverReady, Started, Outcomes
  <1>5. CASE UNCHANGED <<run, of, cancelled>>
    BY <1>0, <1>5 DEF CancelledNeverReady
  <1> QED
    BY <1>1, <1>2, <1>3, <1>4, <1>5, StepKinds
    DEF WaitEnds, WaitTimesOut, StopTunnel, TearDown, Remove, Erase, EndDelete, JobExpires, vars

-----------------------------------------------------------------------------
LEMMA PromiseInductive ==
  ASSUME Inv, [Next]_vars
  PROVE  PromiseInv'
  <1> USE DEF managerVars, runVars, deleteVars, historyVars
  <1>0. TypeOK /\ PromiseInv
    BY DEF Inv
  <1>1. ASSUME NEW q \in Runs, Asks(q) PROVE PromiseInv'
    BY <1>0, <1>1 DEF Asks, Create, RetryDeduplicated, MayRetry, CallFails, TypeOK, PromiseInv
  <1>2. ASSUME NEW q \in Runs, AgentCall(q) \/ Launch(q) PROVE PromiseInv'
    BY <1>0, <1>2 DEF AgentCall, Launch, Start, Retry, MayRetry, NextRun, Begin, StartJob, TypeOK, PromiseInv
  <1>3. ASSUME NEW q \in Runs, Works(q) \/ CloneEnds(q) PROVE PromiseInv'
    <2>1. \/ FinalizeJob(of[q])
          \/ UNCHANGED <<donePromise, resolved>>
      BY <1>3 DEF Works, Goes, Ends, CloneEnds
    <2>2. /\ UNCHANGED of /\ run'[q] # "unused"
          /\ \A r \in Runs : r # q => run'[r] = run[r]
      BY <1>0, <1>3 DEF Works, Goes, Ends, CloneEnds, RunUnchanged, Locked, Outcomes, TypeOK
    <2>3. CASE FinalizeJob(of[q])
      <3>1. \A w \in Workspaces : donePromise'[w] \in {donePromise[w], NoRun}
        BY <1>0, <2>3 DEF FinalizeJob, TypeOK
      <3>2. \A r \in resolved' : r \in resolved \/ (r = donePromise[of[q]] /\ r # NoRun)
        BY <2>3 DEF FinalizeJob
      <3>3. \A r \in resolved' : run[r] # "unused" /\ r \in Runs
        BY <1>0, <3>2 DEF PromiseInv, TypeOK
      <3> QED
        BY <1>0, <2>2, <3>1, <3>3 DEF PromiseInv, TypeOK
    <2>4. CASE UNCHANGED <<donePromise, resolved>>
      BY <1>0, <2>2, <2>4 DEF PromiseInv, TypeOK
    <2> QED
      BY <2>1, <2>3, <2>4
  <1>4. ASSUME NEW d \in Deletes, EndDelete(d) PROVE PromiseInv'
    BY <1>0, <1>4 DEF EndDelete, ClearJob, TypeOK, PromiseInv
  <1>5. CASE UNCHANGED <<run, of, donePromise, resolved>>
    BY <1>0, <1>5 DEF PromiseInv
  <1> QED
    BY <1>1, <1>2, <1>3, <1>4, <1>5, StepKinds
    DEF BeginDelete, WaitEnds, WaitTimesOut, StopTunnel, TearDown, Remove, Erase, JobExpires, vars

LEMMA AgentInductive ==
  ASSUME Inv, [Next]_vars
  PROVE  AgentInv'
  <1> USE DEF managerVars, runVars, deleteVars, historyVars
  <1> SUFFICES ASSUME NEW r \in Runs, (run[r] = "cloning" /\ Calm(of[r]))'
               PROVE  CloneKnown(r)'
    BY DEF AgentInv
  <1> USE DEF CloneKnown
  <1> DEFINE Known == run[r] = "cloning" /\ Calm(of[r]) /\ of[r] \in Agents /\ CloneKnown(r)
  <1>0. /\ TypeOK /\ RowInv /\ RunInv /\ PromiseInv /\ AgentInv
        /\ of[r] \in Workspaces
    BY DEF Inv, TypeOK
  <1>1. run[r] = "cloning" /\ Calm(of[r]) => Known
    BY <1>0 DEF AgentInv, RunInv
  <1> HIDE DEF Known
  <1>2. ASSUME NEW q \in Runs, Asks(q) PROVE CloneKnown(r)'
    <2>1. /\ UNCHANGED <<of, job, donePromise, resolved, del, target, awaited, overlapped, timedOut>>
          /\ run'[q] # "cloning" /\ \A x \in Runs : x # q => run'[x] = run[x]
      BY <1>0, <1>2 DEF Asks, Create, RetryDeduplicated, MayRetry, CallFails, TypeOK
    <2>2. Known
      BY <1>1, <2>1 DEF Calm
    <2> QED
      BY <2>1, <2>2 DEF Known, Underway
  <1>3. ASSUME NEW q \in Runs, AgentCall(q) PROVE CloneKnown(r)'
    <2>1. /\ UNCHANGED <<of, del, target, awaited, resolved, timedOut>>
          /\ job' = [job EXCEPT ![of[q]] = "initializing"]
          /\ donePromise' = [donePromise EXCEPT ![of[q]] = q]
          /\ overlapped' = IF row[of[q]] = "deleting" THEN overlapped \cup {of[q]} ELSE overlapped
          /\ run[q] = "unused" /\ run'[q] = "cloning" /\ \A x \in Runs : x # q => run'[x] = run[x]
          /\ row[of[q]] = "none" \/ (row[of[q]] \in {"present", "deleting"} /\ job[of[q]] = "failed")
      BY <1>0, <1>3 DEF AgentCall, NextRun, StartJob, TypeOK
    <2>2. ASSUME NEW x \in Runs, run[x] = "cloning", Calm(of[x]) PROVE of[x] # of[q]
      <3>1. job[of[x]] = "initializing" /\ row[of[x]] # "none"
        BY <1>0, <2>2 DEF AgentInv, RowInv
      <3> QED
        BY <2>1, <3>1
    <2>3. CASE r = q
      <3>1. Calm(of[q]) /\ row[of[q]] \in {"none", "present"}
        BY <2>1, <2>3 DEF Calm
      <3>2. \A x \in Runs : run[x] = "cloning" => of[x] # of[q]
        BY <2>2, <3>1
      <3>3. \A d \in Deletes : Underway(d) => target[d] # of[q]
        BY <1>0, <3>1 DEF RowInv
      <3>4. q \notin resolved
        BY <1>0, <2>1 DEF PromiseInv
      <3> QED
        BY <1>0, <2>1, <2>3, <3>2, <3>3, <3>4 DEF Underway, TypeOK
    <2>4. CASE r # q
      <3>1. Known
        BY <1>1, <2>1, <2>4 DEF Calm
      <3>2. of[r] # of[q]
        BY <2>2, <3>1 DEF Known
      <3> QED
        BY <1>0, <2>1, <2>4, <3>1, <3>2 DEF Known, Underway, TypeOK
    <2> QED
      BY <2>3, <2>4
  <1>4. ASSUME NEW q \in Runs, Launch(q) PROVE CloneKnown(r)'
    <2>1. /\ UNCHANGED <<of, del, target, awaited, resolved, overlapped, timedOut>>
          /\ job' = [job EXCEPT ![of[q]] = "initializing"]
          /\ donePromise' = [donePromise EXCEPT ![of[q]] = q]
          /\ run'[q] = "locking" /\ \A x \in Runs : x # q => run'[x] = run[x]
          /\ of[q] \notin Agents
      BY <1>0, <1>4 DEF Launch, Start, Retry, MayRetry, NextRun, Begin, StartJob, RunInv, TypeOK
    <2>2. Known
      BY <1>1, <2>1 DEF Calm
    <2>3. of[r] # of[q]
      BY <2>1, <2>2 DEF Known
    <2> QED
      BY <1>0, <2>1, <2>2, <2>3 DEF Known, Underway, TypeOK
  <1>5. ASSUME NEW q \in Runs, Works(q) \/ CloneEnds(q) PROVE CloneKnown(r)'
    <2>1. UNCHANGED <<of, del, target, awaited, overlapped, timedOut>>
      BY <1>5 DEF Works, CloneEnds, RunUnchanged
    <2>2. run'[q] # "cloning" /\ \A x \in Runs : x # q => run'[x] = run[x]
      BY <1>0, <1>5 DEF Works, Goes, Ends, CloneEnds, Locked, Outcomes, TypeOK
    <2>3. Known /\ r # q
      BY <1>1, <2>1, <2>2 DEF Calm
    <2>4. of[r] # of[q]
      BY <1>0, <1>5, <2>3 DEF Known, Works, CloneEnds, RunInv
    <2>5. \/ FinalizeJob(of[q])
          \/ UNCHANGED <<donePromise, resolved>>
      BY <1>5 DEF Works, Goes, Ends, CloneEnds
    <2>6. job'[of[r]] = job[of[r]]
      BY <1>0, <1>5, <2>4 DEF Works, Goes, Ends, CloneEnds, Report, TypeOK
    <2>7. donePromise'[of[r]] = r
      BY <1>0, <2>3, <2>4, <2>5 DEF Known, FinalizeJob, TypeOK
    <2>8. r \notin resolved'
      <3>1. donePromise[of[q]] # r
        BY <1>0, <2>4, Disjoint DEF PromiseInv, TypeOK
      <3> QED
        BY <2>3, <2>5, <3>1 DEF Known, FinalizeJob
    <2> QED
      BY <2>1, <2>2, <2>3, <2>6, <2>7, <2>8 DEF Known, Underway
  <1>6. ASSUME NEW e \in Deletes, BeginDelete(e) PROVE CloneKnown(r)'
    <2>1. /\ UNCHANGED <<run, of, job, donePromise, resolved, target, timedOut>>
          /\ overlapped \subseteq overlapped'
          /\ \A x \in Deletes : x # e => del'[x] = del[x] /\ awaited'[x] = awaited[x]
      BY <1>0, <1>6 DEF BeginDelete, Delete, TypeOK
    <2>2. Known
      BY <1>1, <2>1 DEF Calm
    <2>3. target[e] = of[r] => del'[e] = "waiting" /\ awaited'[e] = r
      BY <1>0, <1>6, <2>2, Disjoint DEF Known, BeginDelete, Delete, TypeOK
    <2> QED
      BY <2>1, <2>2, <2>3 DEF Known, Underway
  <1>7. ASSUME NEW e \in Deletes,
               WaitEnds(e) \/ WaitTimesOut(e) \/ StopTunnel(e) \/ TearDown(e) \/ Remove(e) \/ Erase(e) \/ EndDelete(e)
        PROVE  CloneKnown(r)'
    <2>1. UNCHANGED <<run, of, resolved, target, awaited, overlapped>> /\ timedOut \subseteq timedOut'
      BY <1>7 DEF WaitEnds, WaitTimesOut, StopTunnel, TearDown, Remove, Erase, EndDelete, ClearJob
    <2>2. Underway(e) /\ \A x \in Deletes : x # e => del'[x] = del[x]
      BY <1>0, <1>7 DEF WaitEnds, WaitTimesOut, StopTunnel, TearDown, Remove, Erase, EndDelete, DeleteFails,
         Delete, Underway, Gone, TypeOK
    <2>3. Known
      BY <1>1, <2>1 DEF Calm
    <2>4. target[e] # of[r]
      <3>1. WaitEnds(e) => awaited[e] # r
        BY <2>3 DEF WaitEnds, Known
      <3>2. WaitTimesOut(e) => target[e] # of[r]
        BY <2>1 DEF WaitTimesOut, Calm
      <3>3. del[e] = "waiting" => WaitEnds(e) \/ WaitTimesOut(e)
        BY <1>7 DEF StopTunnel, TearDown, Remove, Erase, EndDelete
      <3> QED
        BY <2>2, <2>3, <3>1, <3>2, <3>3 DEF Known
    <2>5. job'[of[r]] = job[of[r]] /\ donePromise'[of[r]] = donePromise[of[r]]
      BY <1>0, <1>7, <2>4
      DEF WaitEnds, WaitTimesOut, StopTunnel, TearDown, Remove, Erase, EndDelete, ClearJob, TypeOK
    <2> QED
      BY <2>1, <2>2, <2>3, <2>4, <2>5 DEF Known, Underway
  <1>8. ASSUME NEW w \in Workspaces, JobExpires(w) PROVE CloneKnown(r)'
    <2>1. /\ UNCHANGED <<run, of, del, target, awaited, donePromise, resolved, overlapped, timedOut>>
          /\ job[w] = "ready" /\ job' = [job EXCEPT ![w] = "none"]
      BY <1>8 DEF JobExpires
    <2>2. Known
      BY <1>1, <2>1 DEF Calm
    <2> QED
      BY <1>0, <2>1, <2>2 DEF Known, Underway, TypeOK
  <1>9. CASE UNCHANGED vars
    <2>1. UNCHANGED <<run, of, job, del, target, awaited, donePromise, resolved, overlapped, timedOut>>
      BY <1>9 DEF vars
    <2>2. Known
      BY <1>1, <2>1 DEF Calm
    <2> QED
      BY <2>1, <2>2 DEF Known, Underway
  <1> QED
    BY <1>2, <1>3, <1>4, <1>5, <1>6, <1>7, <1>8, <1>9, StepKinds

LEMMA PathInductive ==
  ASSUME Inv, [Next]_vars
  PROVE  PathInv'
  <1> USE DEF managerVars, runVars, deleteVars, historyVars
  <1>0. TypeOK /\ PathInv
    BY DEF Inv
  <1>1. ASSUME NEW q \in Runs, Asks(q) \/ Launch(q) \/ AgentCall(q) PROVE PathInv'
    <2>1. /\ UNCHANGED of /\ of[q] \in Workspaces
          /\ \A w \in Workspaces : row'[w] = row[w] \/ (w = of[q] /\ path'[w] = q)
          /\ \A w \in Workspaces : path'[w] = path[w] \/ (w = of[q] /\ path'[w] = q)
      BY <1>0, <1>1 DEF Asks, Create, RetryDeduplicated, CallFails, Launch, Start, Retry, Begin,
         AgentCall, TypeOK
    <2> QED
      BY <1>0, <2>1 DEF PathInv
  <1>2. CASE UNCHANGED <<of, path>> /\ \A w \in Workspaces : row'[w] # "none" => row[w] # "none"
    BY <1>0, <1>2 DEF PathInv
  <1>3. ASSUME NEW d \in Deletes,
               \/ BeginDelete(d)
               \/ Underway(d) /\ (DeleteFails(d) \/ Erase(d)),
               UNCHANGED <<of, path>>
        PROVE  PathInv'
    <2>1. row[target[d]] # "none"
      BY <1>3 DEF BeginDelete, Inv, RowInv
    <2>2. \A w \in Workspaces : w # target[d] => row'[w] = row[w]
      BY <1>0, <1>3 DEF BeginDelete, DeleteFails, Erase, TypeOK
    <2> QED
      BY <1>2, <1>3, <2>1, <2>2
  <1>4. ASSUME NEW d \in Deletes, StopTunnel(d) \/ TearDown(d) \/ Remove(d)
        PROVE  PathInv'
    <2>1. UNCHANGED <<of, path>> /\ Underway(d) /\ (DeleteFails(d) \/ UNCHANGED row)
      BY <1>4 DEF StopTunnel, TearDown, Remove, Underway
    <2>2. CASE DeleteFails(d)
      BY <1>3, <2>1, <2>2
    <2>3. CASE UNCHANGED row
      BY <1>2, <2>1, <2>3
    <2> QED
      BY <2>1, <2>2, <2>3
  <1>5. ASSUME NEW d \in Deletes, BeginDelete(d) \/ Erase(d) PROVE PathInv'
    <2>1. UNCHANGED <<of, path>>
      BY <1>5 DEF BeginDelete, Erase
    <2>2. CASE BeginDelete(d)
      BY <1>3, <2>1, <2>2, Zenon
    <2>3. CASE Erase(d)
      <3>1. Underway(d)
        BY <2>3 DEF Erase, Underway, Gone
      <3> QED
        BY <1>3, <2>1, <2>3, <3>1
    <2> QED
      BY <1>5, <2>2, <2>3
  <1>6. CASE UNCHANGED <<of, path, row>>
    BY <1>2, <1>6
  <1> QED
    BY <1>1, <1>4, <1>5, <1>6, StepKinds
    DEF Works, CloneEnds, RunUnchanged, WaitEnds, WaitTimesOut, EndDelete, JobExpires, vars

(* A run that moves the row of a workspace is not one of those that the    *)
(* deletes of the workspace know of.                                       *)
LEMMA MovedUnseen ==
  ASSUME Inv, NEW q \in Runs, NEW d \in Deletes, Underway(d),
         Asks(q) \/ AgentCall(q) \/ Launch(q)
  PROVE  \/ path'[target[d]] = path[target[d]]
         \/ target[d] \in overlapped
  <1>0. TypeOK /\ RowInv /\ RunInv /\ AheadInv
    BY DEF Inv
  <1>1. SUFFICES ASSUME path'[target[d]] # path[target[d]]
                 PROVE  target[d] \in overlapped
    OBVIOUS
  <1>2. target[d] = of[q] /\ row[of[q]] # "none"
    <2>1. row[target[d]] # "none"
      BY <1>0 DEF RowInv
    <2> QED
      BY <1>0, <1>1, <2>1 DEF Asks, Create, RetryDeduplicated, CallFails, AgentCall, Launch, Start,
         Retry, TypeOK
  <1>3. run[q] = "called"
    BY <1>1, <1>2 DEF Asks, Create, RetryDeduplicated, CallFails, AgentCall, Launch, Start, Retry
  <1> QED
    BY <1>0, <1>2, <1>3 DEF RunInv, AheadInv, Active, Started, Concerns

LEMMA DoomedInductive ==
  ASSUME Inv, [Next]_vars
  PROVE  DoomedInv'
  <1> USE DEF managerVars, runVars, deleteVars, historyVars
  <1>0. TypeOK /\ DoomedInv
    BY DEF Inv
  <1>1. ASSUME NEW q \in Runs, Asks(q) \/ AgentCall(q) \/ Launch(q) PROVE DoomedInv'
    <2>1. UNCHANGED <<del, target, doomed>> /\ overlapped \subseteq overlapped'
      BY <1>1 DEF Asks, Create, RetryDeduplicated, CallFails, AgentCall, Launch, Start, Retry
    <2> QED
      BY <1>0, <1>1, <2>1, MovedUnseen DEF DoomedInv, Underway
  <1>2. CASE /\ UNCHANGED <<path, target, doomed>> /\ overlapped \subseteq overlapped'
             /\ \A d \in Deletes : del'[d] \in {"tearing", "removing"}
                                       => del[d] \in {"tearing", "removing"}
    BY <1>0, <1>2 DEF DoomedInv
  <1>3. ASSUME NEW d \in Deletes, StopTunnel(d) PROVE DoomedInv'
    <2>1. UNCHANGED <<path, target, overlapped>>
      BY <1>3 DEF StopTunnel
    <2>2. \A e \in Deletes : e # d => del'[e] = del[e] /\ doomed'[e] = doomed[e]
      BY <1>0, <1>3 DEF StopTunnel, DeleteFails, Delete, TypeOK
    <2>3. del'[d] = "failed" \/ doomed'[d] = path[target[d]]
      BY <1>0, <1>3 DEF StopTunnel, DeleteFails, Delete, TypeOK
    <2> QED
      BY <1>0, <2>1, <2>2, <2>3 DEF DoomedInv
  <1>4. ASSUME NEW d \in Deletes, TearDown(d) \/ Remove(d) PROVE DoomedInv'
    BY <1>0, <1>2, <1>4 DEF TearDown, Remove, DeleteFails, Delete, TypeOK
  <1>5. ASSUME NEW d \in Deletes,
               BeginDelete(d) \/ WaitEnds(d) \/ WaitTimesOut(d) \/ Erase(d) \/ EndDelete(d)
        PROVE  DoomedInv'
    BY <1>0, <1>2, <1>5 DEF BeginDelete, WaitEnds, WaitTimesOut, Erase, EndDelete, Delete, TypeOK
  <1>6. CASE UNCHANGED <<path, del, target, doomed, overlapped>>
    BY <1>2, <1>6
  <1> QED
    BY <1>1, <1>3, <1>4, <1>5, <1>6, StepKinds
    DEF Works, CloneEnds, RunUnchanged, JobExpires, vars

LEMMA DiskInductive ==
  ASSUME Inv, [Next]_vars
  PROVE  DiskInv'
  <1> USE DEF managerVars, runVars, deleteVars, historyVars, Excused
  <1>0. TypeOK /\ RowInv /\ RunInv /\ AheadInv /\ AgentInv /\ PathInv /\ DoomedInv /\ DiskInv
    BY DEF Inv
  <1>1. CASE /\ UNCHANGED <<path, target>> /\ disk' \subseteq disk
             /\ overlapped \subseteq overlapped' /\ timedOut \subseteq timedOut'
             /\ \A d \in Deletes : del'[d] \in Gone => del[d] \in Gone
    BY <1>0, <1>1 DEF DiskInv
  <1>2. ASSUME NEW q \in Runs, NEW d \in Deletes, del[d] \in Gone,
               row[of[q]] # "none", path[target[d]] = Place(q)
        PROVE  target[d] = of[q]
    <2>1. row[target[d]] # "none"
      BY <1>0, <1>2 DEF RowInv, Underway
    <2> QED
      BY <1>0, <1>2, <2>1 DEF PathInv, Place, TypeOK
  <1>3. ASSUME NEW q \in Runs, AgentCall(q) PROVE DiskInv'
    <2>1. /\ UNCHANGED <<del, target, timedOut>> /\ disk' = disk \cup {path'[of[q]]}
          /\ overlapped' = IF row[of[q]] = "deleting" THEN overlapped \cup {of[q]} ELSE overlapped
          /\ row[of[q]] \in {"none", "present", "deleting"}
      BY <1>3 DEF AgentCall
    <2> SUFFICES ASSUME NEW d \in Deletes, del[d] \in Gone, path'[target[d]] \in disk'
                 PROVE  Excused(target[d])'
      BY <2>1 DEF DiskInv
    <2>2. path'[target[d]] = path[target[d]] \/ target[d] \in overlapped
      BY <1>3, MovedUnseen DEF Underway
    <2>3. CASE target[d] \in overlapped \/ path[target[d]] \in disk
      BY <1>0, <2>1, <2>3 DEF DiskInv
    <2>4. CASE path'[target[d]] = path[target[d]] /\ path[target[d]] = path'[of[q]]
      <3>1. PathInv'
        BY PathInductive
      <3>2. UNCHANGED of /\ row'[of[q]] # "none" /\ row'[target[d]] # "none"
        BY <1>0, <1>3 DEF AgentCall, RowInv, Underway, TypeOK
      <3>3. target[d] = of[q]
        BY <1>0, <2>4, <3>1, <3>2 DEF PathInv, TypeOK
      <3>4. row[of[q]] = "deleting"
        BY <1>0, <2>1, <3>3 DEF RowInv, Underway
      <3> QED
        BY <2>1, <3>3, <3>4
    <2> QED
      BY <2>1, <2>2, <2>3, <2>4
  <1>4. ASSUME NEW q \in Runs, Works(q) PROVE DiskInv'
    <2>1. /\ UNCHANGED <<path, del, target, overlapped, timedOut>>
          /\ disk' \subseteq disk \cup {Place(q)}
          /\ Active(q) /\ of[q] \notin Agents /\ row[of[q]] # "none"
      BY <1>0, <1>4 DEF Works, RowInv, RunInv, Active, Started, Locked, Outcomes
    <2>2. \A d \in Deletes : del[d] \in Gone /\ target[d] = of[q] => target[d] \in overlapped
      BY <1>0, <2>1 DEF AheadInv, Ahead, Concerns, Underway
    <2> QED
      BY <1>0, <1>2, <2>1, <2>2 DEF DiskInv
  <1>5. ASSUME NEW q \in Runs, CloneEnds(q) PROVE DiskInv'
    <2>1. /\ UNCHANGED <<path, del, target, overlapped, timedOut>>
          /\ disk' \subseteq disk \cup {Place(q)}
          /\ run[q] = "cloning" /\ of[q] \in Agents /\ row[of[q]] # "none"
      BY <1>0, <1>5 DEF CloneEnds, RunUnchanged, RunInv, RowInv
    <2>2. \A d \in Deletes : del[d] \in Gone /\ target[d] = of[q] => ~Calm(of[q])
      BY <1>0, <2>1 DEF AgentInv, CloneKnown, Underway, Gone
    <2> QED
      BY <1>0, <1>2, <2>1, <2>2 DEF DiskInv, Calm
  <1>6. ASSUME NEW e \in Deletes, Remove(e) PROVE DiskInv'
    <2>1. CASE DeleteFails(e) /\ UNCHANGED disk
      BY <1>0, <1>1, <1>6, <2>1 DEF Remove, DeleteFails, Delete, Gone, TypeOK
    <2>2. CASE Delete(e, "erasing") /\ disk' = disk \ {doomed[e]}
      <3>1. doomed[e] = path[target[e]] \/ target[e] \in overlapped
        BY <1>0, <1>6 DEF Remove, DoomedInv
      <3> QED
        BY <1>0, <1>6, <2>2, <3>1 DEF Remove, Delete, TypeOK, DiskInv
    <2> QED
      BY <1>6, <2>1, <2>2 DEF Remove
  <1>7. ASSUME NEW e \in Deletes, BeginDelete(e) PROVE DiskInv'
    BY <1>0, <1>1, <1>7 DEF BeginDelete, Delete, Gone, TypeOK
  <1>8. ASSUME NEW e \in Deletes,
               \/ WaitEnds(e) \/ WaitTimesOut(e) \/ StopTunnel(e)
               \/ TearDown(e) \/ Erase(e) \/ EndDelete(e)
        PROVE  DiskInv'
    BY <1>0, <1>1, <1>8 DEF WaitEnds, WaitTimesOut, StopTunnel, TearDown, Erase, EndDelete,
       DeleteFails, Delete, Gone, TypeOK
  <1>9. ASSUME NEW q \in Runs, Asks(q) \/ Launch(q) PROVE DiskInv'
    <2>1. UNCHANGED <<del, target, disk, overlapped, timedOut>>
      BY <1>9 DEF Asks, Create, RetryDeduplicated, CallFails, Launch, Start, Retry
    <2> QED
      BY <1>0, <1>9, <2>1, MovedUnseen DEF DiskInv, Underway
  <1>10. CASE (\E w \in Workspaces : JobExpires(w)) \/ UNCHANGED vars
    BY <1>1, <1>10 DEF JobExpires, vars
  <1> QED
    BY <1>3, <1>4, <1>5, <1>6, <1>7, <1>8, <1>9, <1>10, StepKinds

(* A delete that has begun is never undone without a trace. *)
LEMMA EndingKept ==
  ASSUME Inv, [Next]_vars, NEW w \in Workspaces, Ending(w)
  PROVE  Ending(w)'
  <1> USE DEF managerVars, runVars, deleteVars, historyVars
  <1>0. TypeOK /\ RowInv
    BY DEF Inv
  <1>1. UNCHANGED target
    BY StepKinds DEF Asks, Create, RetryDeduplicated, MayRetry, CallFails, AgentCall, Launch, Start, Retry, MayRetry, NextRun, Begin, Works, CloneEnds, RunUnchanged, BeginDelete, WaitEnds,
       WaitTimesOut, StopTunnel, TearDown, Remove, Erase, EndDelete, JobExpires, vars
  <1>2. ASSUME NEW d \in Deletes, del[d] = "failed" PROVE del'[d] = "failed"
    BY <1>0, <1>2, StepKinds DEF Asks, Create, RetryDeduplicated, MayRetry, CallFails, AgentCall, Launch, Start, Retry, MayRetry, NextRun, Begin, Works, CloneEnds, RunUnchanged, BeginDelete,
       NextDelete, WaitEnds, WaitTimesOut, StopTunnel, TearDown, Remove, Erase, EndDelete, JobExpires,
       DeleteFails, Delete, vars, TypeOK
  <1>3. CASE FailedDelete(w)
    BY <1>1, <1>2, <1>3 DEF FailedDelete, Ending
  <1>4. CASE row[w] \in {"deleting", "deleted"}
    <2>1. ASSUME NEW d \in Deletes, DeleteFails(d) PROVE Ending(w)'
      <3>1. del'[d] = "failed" /\ \A x \in Workspaces : x # target[d] => row'[x] = row[x]
        BY <1>0, <2>1 DEF DeleteFails, Delete, TypeOK
      <3> QED
        BY <1>1, <1>4, <3>1 DEF Ending, FailedDelete
    <2>2. CASE row'[w] \in {"deleting", "deleted"}
      BY <2>2 DEF Ending
    <2>3. ASSUME NEW q \in Runs, Asks(q) \/ AgentCall(q) PROVE row'[w] = row[w]
      BY <1>0, <1>4, <2>3 DEF Asks, Create, RetryDeduplicated, MayRetry, CallFails, AgentCall, TypeOK
    <2>4. ASSUME NEW d \in Deletes, BeginDelete(d) \/ Erase(d)
          PROVE  row'[w] \in {"deleting", "deleted"}
      BY <1>0, <1>4, <2>4 DEF BeginDelete, Erase, TypeOK
    <2>5. CASE UNCHANGED row
      BY <1>4, <2>5 DEF Ending
    <2> QED
      BY <1>4, <2>1, <2>2, <2>3, <2>4, <2>5, StepKinds DEF Launch, Start, Retry, MayRetry, NextRun, Begin, Works, CloneEnds, RunUnchanged,
         WaitEnds, WaitTimesOut, StopTunnel, TearDown, Remove, EndDelete, JobExpires, vars
  <1> QED
    BY <1>3, <1>4 DEF Ending

LEMMA ReportInductive ==
  ASSUME Inv, [Next]_vars
  PROVE  ReportInv'
  <1> USE DEF managerVars, runVars, deleteVars, historyVars, Requested
  <1>0. TypeOK /\ ReportInv
    BY DEF Inv
  <1> SUFFICES ASSUME NEW w \in Workspaces
               PROVE  /\ Requested(w)' => Ending(w)'
                      /\ \A r \in Runs : (run[r] = "undoing" /\ of[r] = w)' => Ending(w)'
                      /\ (job[w] = "initializing")' => (ActiveRuns(w) # {})' \/ Ending(w)'
    BY DEF ReportInv
  <1> DEFINE Goal == /\ Requested(w)' => Ending(w)'
                     /\ \A r \in Runs : (run[r] = "undoing" /\ of[r] = w)' => Ending(w)'
                     /\ (job[w] = "initializing")' => (ActiveRuns(w) # {})' \/ Ending(w)'
  <1>1. CASE Ending(w)
    BY <1>1, EndingKept
  <1> SUFFICES ASSUME ~Ending(w) PROVE Goal
    BY <1>1
  <1>2. /\ w \notin cancellations
        /\ \A r \in Runs : run[r] = "undoing" => of[r] # w
        /\ job[w] = "initializing" => \E r \in Runs : Active(r) /\ of[r] = w
    BY <1>0 DEF ReportInv, ActiveRuns
  <1>3. ASSUME NEW q \in Runs, Asks(q) PROVE Goal
    <2>1. /\ UNCHANGED <<cancellations, job, of>>
          /\ \A r \in Runs : r # q => run'[r] = run[r]
          /\ \/ run'[q] = "called"
             \/ run'[q] = "failed" /\ run[q] = "called" /\ Place(q) # q
      BY <1>0, <1>3 DEF Asks, Create, RetryDeduplicated, CallFails, TypeOK
    <2>2. CASE run'[q] = "called"
      BY <1>2, <2>1, <2>2 DEF ActiveRuns, Active, Started
    <2>3. CASE run'[q] = "failed"
      <3>1. job[of[q]] # "initializing"
        BY <2>1, <2>3 DEF Inv, CalledInv
      <3> QED
        BY <1>2, <2>1, <2>3, <3>1 DEF ActiveRuns, Active, Started, Outcomes
    <2> QED
      BY <2>1, <2>2, <2>3
  <1>4. ASSUME NEW q \in Runs, AgentCall(q) \/ Launch(q) PROVE Goal
    <2>1. /\ cancellations' \subseteq cancellations /\ UNCHANGED of
          /\ run'[q] \in {"cloning", "locking"}
          /\ \A r \in Runs : r # q => run'[r] = run[r]
          /\ \A x \in Workspaces : x # of[q] => job'[x] = job[x]
      BY <1>0, <1>4 DEF AgentCall, Launch, Start, Retry, MayRetry, NextRun, Begin, StartJob, TypeOK
    <2> QED
      BY <1>2, <2>1 DEF ActiveRuns, Active, Started, Outcomes
  <1>5. ASSUME NEW q \in Runs, Works(q) PROVE Goal
    <2>1. UNCHANGED <<cancellations, of>> /\ of[q] \in Workspaces
      BY <1>0, <1>5 DEF Works, TypeOK
    <2>2. ASSUME NEW s, Goes(q, s) PROVE Goal
      <3>1. /\ run'[q] = s /\ s \in Locked \ {"locking"} /\ UNCHANGED job
            /\ \A r \in Runs : r # q => run'[r] = run[r]
            /\ s = "undoing" => of[q] # w
        BY <1>0, <1>2, <2>2 DEF Goes, TypeOK
      <3> QED
        BY <1>2, <2>1, <3>1 DEF ActiveRuns, Active, Started, Locked, Outcomes
    <2>3. ASSUME NEW s, Ends(q, s) PROVE Goal
      <3>1. /\ run'[q] = s /\ s \in Outcomes
            /\ \A r \in Runs : r # q => run'[r] = run[r]
        BY <1>0, <2>3 DEF Ends, TypeOK
      <3>2. of[q] = w => job'[w] # "initializing"
        BY <1>0, <1>2, <2>3 DEF Ends, Report, Outcomes, TypeOK
      <3>3. of[q] # w => job'[w] = job[w]
        BY <1>0, <2>1, <2>3 DEF Ends, Report, TypeOK
      <3> QED
        BY <1>2, <2>1, <3>1, <3>2, <3>3 DEF ActiveRuns, Active, Started, Outcomes
    <2> QED
      BY <1>5, <2>2, <2>3 DEF Works
  <1>6. ASSUME NEW q \in Runs, CloneEnds(q) PROVE Goal
    <2>1. /\ UNCHANGED <<cancellations, of>> /\ of[q] \in Workspaces
          /\ run'[q] \in Outcomes /\ \A r \in Runs : r # q => run'[r] = run[r]
      BY <1>0, <1>6 DEF CloneEnds, RunUnchanged, Outcomes, TypeOK
    <2>2. of[q] = w => job'[w] # "initializing"
      BY <1>0, <1>6 DEF CloneEnds, Report, TypeOK
    <2>3. of[q] # w => job'[w] = job[w]
      BY <1>0, <1>6, <2>1 DEF CloneEnds, Report, TypeOK
    <2> QED
      BY <1>2, <2>1, <2>2, <2>3 DEF ActiveRuns, Active, Started, Outcomes
  <1>7. ASSUME NEW d \in Deletes, BeginDelete(d) PROVE Goal
    <2>1. /\ UNCHANGED <<run, of, job>> /\ cancellations' \subseteq cancellations \cup {target[d]}
          /\ row'[target[d]] = "deleting"
      BY <1>0, <1>7 DEF BeginDelete, TypeOK
    <2>2. target[d] = w => Ending(w)'
      BY <2>1 DEF Ending
    <2> QED
      BY <1>2, <2>1, <2>2 DEF ActiveRuns, Active, Started
  <1>8. CASE /\ UNCHANGED <<run, of>> /\ cancellations' \subseteq cancellations
             /\ job'[w] \in {job[w], "none"}
    BY <1>2, <1>8 DEF ActiveRuns, Active, Started
  <1>9. ASSUME NEW d \in Deletes, EndDelete(d) PROVE Goal
    BY <1>0, <1>8, <1>9 DEF EndDelete, ClearJob, TypeOK
  <1>10. ASSUME NEW x \in Workspaces, JobExpires(x) PROVE Goal
    BY <1>0, <1>8, <1>10 DEF JobExpires, TypeOK
  <1> QED
    BY <1>3, <1>4, <1>5, <1>6, <1>7, <1>8, <1>9, <1>10, StepKinds
    DEF WaitEnds, WaitTimesOut, StopTunnel, TearDown, Remove, Erase, vars

LEMMA CalledInductive ==
  ASSUME Inv, [Next]_vars
  PROVE  CalledInv'
  <1> USE DEF managerVars, runVars, deleteVars, historyVars, Place
  <1>0. TypeOK /\ RunInv /\ CalledInv
    BY DEF Inv
  <1>1. RunInv'
    BY RunInductive
  <1> SUFFICES ASSUME NEW r \in Runs, run'[r] = "called", path'[of'[r]] # r
               PROVE  job'[of'[r]] # "initializing"
    BY DEF CalledInv
  <1>2. CASE /\ UNCHANGED of /\ run[r] = "called" /\ path'[of[r]] = path[of[r]]
             /\ job'[of[r]] = job[of[r]] \/ job'[of[r]] \in {"none", "ready", "failed"}
    BY <1>0, <1>2 DEF CalledInv
  <1>3. ASSUME NEW q \in Runs, Asks(q) PROVE job'[of'[r]] # "initializing"
    <2>1. UNCHANGED <<of, job>> /\ \A x \in Runs : x # q => run'[x] = run[x]
      BY <1>0, <1>3 DEF Asks, Create, RetryDeduplicated, CallFails, TypeOK
    <2>2. CASE r = q
      BY <1>0, <1>3, <2>1, <2>2 DEF Asks, Create, RetryDeduplicated, MayRetry, CallFails, TypeOK
    <2>3. CASE r # q
      <3>1. run[r] = "called" /\ of[r] \notin Agents
        BY <1>0, <2>1, <2>3 DEF RunInv
      <3>2. of[r] # of[q] \/ CallFails(q)
        BY <1>0, <1>1, <1>3, <2>1, <2>3, <3>1
        DEF Asks, Create, RetryDeduplicated, RunInv, Active, Started, TypeOK
      <3>3. path'[of[r]] = path[of[r]]
        BY <1>0, <1>3, <3>2 DEF Asks, Create, RetryDeduplicated, CallFails, TypeOK
      <3> QED
        BY <1>2, <2>1, <3>1, <3>3
    <2> QED
      BY <2>2, <2>3
  <1>4. ASSUME NEW q \in Runs, Launch(q) \/ AgentCall(q) PROVE job'[of'[r]] # "initializing"
    <2>1. /\ UNCHANGED of /\ run'[q] \in {"locking", "cloning"}
          /\ \A x \in Runs : x # q => run'[x] = run[x]
          /\ \A w \in Workspaces : w # of[q] => job'[w] = job[w] /\ path'[w] = path[w]
      BY <1>0, <1>4 DEF Launch, Start, Retry, Begin, AgentCall, StartJob, TypeOK
    <2>2. run[r] = "called" /\ r # q /\ of[r] \notin Agents
      BY <1>0, <2>1 DEF RunInv
    <2>3. of[r] # of[q]
      BY <1>0, <1>1, <1>4, <2>1, <2>2
      DEF Launch, Start, Retry, MayRetry, AgentCall, RunInv, Active, Started, Outcomes
    <2> QED
      BY <1>0, <1>2, <2>1, <2>2, <2>3 DEF TypeOK
  <1>5. ASSUME NEW q \in Runs, Works(q) \/ CloneEnds(q) PROVE job'[of'[r]] # "initializing"
    <2>1. /\ UNCHANGED <<of, path>> /\ run'[q] # "called"
          /\ \A x \in Runs : x # q => run'[x] = run[x]
      BY <1>0, <1>5 DEF Works, Goes, Ends, CloneEnds, RunUnchanged, Locked, Outcomes, TypeOK
    <2>2. \A w \in Workspaces : job'[w] = job[w] \/ job'[w] \in {"none", "ready", "failed"}
      BY <1>0, <1>5 DEF Works, Goes, Ends, CloneEnds, Report, Outcomes, TypeOK
    <2> QED
      BY <1>0, <1>2, <2>1, <2>2 DEF TypeOK
  <1>6. CASE /\ UNCHANGED <<run, of, path>>
             /\ \A w \in Workspaces : job'[w] = job[w] \/ job'[w] = "none"
    BY <1>0, <1>2, <1>6 DEF TypeOK
  <1>7. ASSUME NEW d \in Deletes, EndDelete(d) PROVE job'[of'[r]] # "initializing"
    BY <1>0, <1>6, <1>7 DEF EndDelete, ClearJob, TypeOK
  <1>8. ASSUME NEW w \in Workspaces, JobExpires(w) PROVE job'[of'[r]] # "initializing"
    BY <1>0, <1>6, <1>8 DEF JobExpires, TypeOK
  <1> QED
    BY <1>3, <1>4, <1>5, <1>6, <1>7, <1>8, StepKinds
    DEF BeginDelete, WaitEnds, WaitTimesOut, StopTunnel, TearDown, Remove, Erase, vars

LEMMA InitInv == Init => Inv
  <1> SUFFICES ASSUME Init PROVE Inv
    OBVIOUS
  <1> USE DEF Init
  <1>1. TypeOK
    BY EmptySeq DEF TypeOK
  <1>2. Len(queue) = 0
    BY EmptySeq
  <1>3. RowInv /\ RunInv
    BY DEF RowInv, RunInv, Underway, Gone, Active, Started, Locked
  <1>4. QueueInv
    BY <1>2 DEF QueueInv, Removing, Locked
  <1>5. AheadInv /\ CancelInv /\ DiskInv /\ CancelledNeverReady
    BY DEF AheadInv, Underway, Gone, CancelInv, DiskInv, CancelledNeverReady
  <1>7. PathInv /\ DoomedInv /\ CalledInv
    BY DEF PathInv, DoomedInv, CalledInv
  <1>6. PromiseInv /\ AgentInv /\ ReportInv
    BY <1>1 DEF PromiseInv, AgentInv, ReportInv, Requested, TypeOK
  <1> QED
    BY <1>1, <1>3, <1>4, <1>5, <1>6, <1>7 DEF Inv

-----------------------------------------------------------------------------
(* Every reachable state keeps the invariant. *)
THEOREM InvAlways == Safety => []Inv
  <1>1. Inv /\ [Next]_vars => Inv'
    BY TypeInductive, RowInductive, RunInductive, QueueInductive, AheadInductive, CancelInductive,
       NeverReadyInductive, PromiseInductive, AgentInductive, PathInductive, DoomedInductive,
       DiskInductive, ReportInductive, CalledInductive
    DEF Inv
  <1> QED
    BY InitInv, <1>1, PTL DEF Safety

(* Type correctness of the manager, the lock, the runs and the deletes. *)
THEOREM Typing == Spec => []TypeOK
  <1>1. Inv => TypeOK
    BY DEF Inv
  <1> QED
    BY InvAlways, <1>1, PTL DEF Spec

(* For every number of runs and deletes, a worktree whose creation was     *)
(* cancelled never becomes ready: clearJob cannot take the signal away     *)
(* from a run, since the project lock puts the run before the removal.     *)
THEOREM CancellationHeeded == Spec => []CancelledNeverReady
  <1>1. Inv => CancelledNeverReady
    BY DEF Inv
  <1> QED
    BY InvAlways, <1>1, PTL DEF Spec

(* However deletes, retries, timeouts and failures interleave, a deleted   *)
(* workspace has nothing on disk at its place, with the exceptions that the*)
(* property names.                                                         *)
THEOREM DeletedLeavesNothing == Spec => []NoStrayWorktree
  <1>1. Inv => NoStrayWorktree
    <2> SUFFICES ASSUME Inv, NEW w \in Workspaces, row[w] = "deleted", path[w] \in disk
                 PROVE  Excused(w)
      BY DEF NoStrayWorktree
    <2>1. PICK d \in Deletes : target[d] = w /\ Underway(d)
      BY DEF Inv, RowInv, TypeOK
    <2>2. del[d] \in Gone
      BY <2>1 DEF Inv, RowInv, Gone
    <2> QED
      BY <2>1, <2>2 DEF Inv, DiskInv
  <1> QED
    BY InvAlways, <1>1, PTL DEF Spec

(* A job that says "initializing" is that of a run, or a delete has been   *)
(* at work on the workspace.                                               *)
THEOREM ReportsAreTrue == Spec => []InitReported
  <1>1. Inv => InitReported
    BY DEF Inv, ReportInv, Ending, FailedDelete, InitReported
  <1> QED
    BY InvAlways, <1>1, PTL DEF Spec
=============================================================================
