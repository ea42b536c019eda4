------------------------------ MODULE AppState ------------------------------
(***************************************************************************)
(* The desktop app's persisted UI state (app-state/write-queue.ts, and the *)
(* loading of it in app-state/index.ts): the coordinator that runs one     *)
(* mutation at a time, and the promotion of a new snapshot to a file that  *)
(* another device's sync client may replace at any moment.                 *)
(*                                                                         *)
(* A snapshot is the device that wrote it and the mutations it contains;   *)
(* device 0 is this one.  A peer's snapshot contains none of this device's *)
(* mutations.  Every action is the code between two awaits.                *)
(***************************************************************************)
EXTENDS Naturals, Sequences, FiniteSets, SequencesExt

CONSTANTS
    MaxOps,       \* bound: mutations
    MaxPeers,     \* bound: snapshots peers write
    MaxCrashes,   \* bound: crashes
    MaxAttempts,  \* MAX_ATOMIC_PROMOTION_ATTEMPTS
    Unconditional, \* a mutation without an expected revision
    None          \* no file

ASSUME BoundAssumption ==
    /\ MaxOps \in Nat /\ MaxPeers \in Nat /\ MaxCrashes \in Nat
    /\ MaxAttempts \in Nat \ {0}
ASSUME UnconditionalAssumption == Unconditional \notin Nat

Ops == 1..MaxOps
Snapshot == [dev : 0..MaxPeers, log : Seq(Ops)]
ASSUME NoneAssumption == None \notin Snapshot

Local(l) == [dev |-> 0, log |-> l]
Peer(k) == [dev |-> k, log |-> <<>>]

VARIABLES
    committed, revision,  \* the coordinator's state
    tail,                 \* mutations asked for and not answered, in order
    wanted, answer,       \* each mutation's expected revision and answer
    phase,                \* where the mutation at the head of tail is
    draft,                \* its draft
    target,               \* app-state.json: a snapshot or None
    displaced,            \* snapshots this promotion moved out of the way
    attempt,              \* its attempts to link
    kept,                 \* .displaced files nobody will remove
    captured,             \* snapshots beforeOverwrite has handed on
    peers, replaced,      \* peer snapshots written; those a peer replaced
    crashes

callVars  == <<wanted, answer, tail>>
stateVars == <<committed, revision>>
workVars  == <<phase, draft, displaced, attempt>>
diskVars  == <<target, kept>>
peerVars  == <<peers, replaced>>
vars == <<callVars, stateVars, workVars, diskVars, captured, peerVars, crashes>>

Up == phase # "down"

-----------------------------------------------------------------------------
Init ==
    /\ committed = <<>> /\ revision = 0 /\ tail = <<>>
    /\ wanted = [op \in Ops |-> Unconditional]
    /\ answer = [op \in Ops |-> "none"]
    /\ phase = "idle" /\ draft = <<>> /\ displaced = <<>> /\ attempt = 0
    /\ target = Local(<<>>) /\ kept = {} /\ captured = {}
    /\ peers = 0 /\ replaced = {} /\ crashes = 0

(* enqueue and enqueueAtRevision: callers name a revision they have seen. *)
Enqueue(op, e) ==
    /\ Up
    /\ answer[op] = "none" /\ \A o \in Ops : o < op => answer[o] # "none"
    /\ answer' = [answer EXCEPT ![op] = "pending"]
    /\ wanted' = [wanted EXCEPT ![op] = e]
    /\ tail' = Append(tail, op)
    /\ UNCHANGED <<stateVars, workVars, diskVars, captured, peerVars, crashes>>

(* The operation at the head of the tail ends with the answer a. *)
Answer(a) ==
    /\ answer' = [answer EXCEPT ![Head(tail)] = a]
    /\ tail' = Tail(tail)
    /\ UNCHANGED wanted

Finish == phase' = "idle" /\ draft' = <<>> /\ displaced' = <<>> /\ attempt' = 0

(* Mutant of Begin: the expected revision is not compared. *)
BeginUnchecked ==
    /\ phase = "idle"
    /\ tail # <<>>
    /\ phase' = "mutating"
    /\ draft' = Append(committed, Head(tail))
    /\ UNCHANGED <<callVars, displaced, attempt, stateVars, diskVars, captured,
                   peerVars, crashes>>

(* The operation's turn: compare revisions, clone the committed state. *)
Begin ==
    /\ phase = "idle"
    /\ tail # <<>>
    /\ IF wanted[Head(tail)] \notin {Unconditional, revision}
       THEN Answer("stale") /\ UNCHANGED <<phase, draft>>
       ELSE /\ phase' = "mutating"
            /\ draft' = Append(committed, Head(tail))
            /\ UNCHANGED callVars
    /\ UNCHANGED <<displaced, attempt, stateVars, diskVars, captured, peerVars, crashes>>

(* The mutator, the validation or the temporary file fails. *)
MutateFails ==
    /\ phase = "mutating"
    /\ Answer("failed") /\ Finish
    /\ UNCHANGED <<stateVars, diskVars, captured, peerVars, crashes>>

WriteTemporary ==
    /\ phase = "mutating"
    /\ phase' = "displacing" /\ attempt' = 1
    /\ UNCHANGED <<callVars, draft, displaced, stateVars, diskVars, captured,
                   peerVars, crashes>>

-----------------------------------------------------------------------------
(* Promotion. *)

(* rename the target away; ENOENT means there is nothing to displace. *)
Displace ==
    /\ phase = "displacing"
    /\ IF target = None
       THEN phase' = "linking" /\ UNCHANGED displaced
       ELSE phase' = "capturing" /\ displaced' = Append(displaced, target)
    /\ target' = None
    /\ UNCHANGED <<callVars, draft, attempt, stateVars, kept, captured, peerVars, crashes>>

(* The rename fails otherwise: the finally block removes what was captured. *)
DisplaceFails ==
    /\ phase = "displacing"
    /\ Answer("failed") /\ Finish
    /\ UNCHANGED <<stateVars, diskVars, captured, peerVars, crashes>>

(* Mutant of Capture: the displaced file is not looked at. *)
CaptureNothing ==
    /\ phase = "capturing"
    /\ phase' = "linking"
    /\ UNCHANGED <<callVars, draft, displaced, attempt, stateVars, diskVars,
                   captured, peerVars, crashes>>

(* beforeOverwrite reads the displaced file and hands it to the watcher. *)
Capture ==
    /\ phase = "capturing"
    /\ captured' = captured \cup {Last(displaced)}
    /\ phase' = "linking"
    /\ UNCHANGED <<callVars, draft, displaced, attempt, stateVars, diskVars,
                   peerVars, crashes>>

(* restoreDisplacedWithoutClobber: put it back unless a newer file is      *)
(* there, or linking does not work here; then it stays beside the target.  *)
Restore(snapshot) ==
    \/ target = None /\ target' = snapshot /\ UNCHANGED kept
    \/ UNCHANGED target /\ kept' = kept \cup {snapshot}

(* Mutant of CaptureFails: the displaced file is neither restored nor kept. *)
CaptureFailsDrops ==
    /\ phase = "capturing"
    /\ UNCHANGED diskVars
    /\ Answer("failed") /\ Finish
    /\ UNCHANGED <<stateVars, captured, peerVars, crashes>>

CaptureFails ==
    /\ phase = "capturing"
    /\ Restore(Last(displaced))
    /\ Answer("failed") /\ Finish
    /\ UNCHANGED <<stateVars, captured, peerVars, crashes>>

(* Mutant of Link: rename instead of link, over whatever is there. *)
LinkClobbers ==
    /\ phase = "linking"
    /\ target' = Local(draft) /\ phase' = "linked"
    /\ UNCHANGED <<callVars, draft, displaced, attempt, stateVars, kept,
                   captured, peerVars, crashes>>

Link ==
    /\ phase = "linking" /\ target = None
    /\ target' = Local(draft) /\ phase' = "linked"
    /\ UNCHANGED <<callVars, draft, displaced, attempt, stateVars, kept,
                   captured, peerVars, crashes>>

(* Mutant of LinkAgain: no limit to the attempts. *)
LinkAgainAlways ==
    /\ phase = "linking" /\ target # None
    /\ attempt' = attempt + 1 /\ phase' = "displacing"
    /\ UNCHANGED <<callVars, draft, displaced, stateVars, diskVars, captured,
                   peerVars, crashes>>

(* Mutant of LinkAgain: one attempt is never made. *)
LinkAgainEarly ==
    /\ phase = "linking" /\ target # None
    /\ attempt + 1 < MaxAttempts
    /\ attempt' = attempt + 1 /\ phase' = "displacing"
    /\ UNCHANGED <<callVars, draft, displaced, stateVars, diskVars, captured,
                   peerVars, crashes>>

(* EEXIST: a peer's file landed in between. Displace that one too. *)
LinkAgain ==
    /\ phase = "linking" /\ target # None
    /\ attempt < MaxAttempts
    /\ attempt' = attempt + 1 /\ phase' = "displacing"
    /\ UNCHANGED <<callVars, draft, displaced, stateVars, diskVars, captured,
                   peerVars, crashes>>

LinkGivesUp ==
    /\ phase = "linking" /\ target # None
    /\ attempt = MaxAttempts
    /\ Answer("failed") /\ Finish
    /\ UNCHANGED <<stateVars, diskVars, captured, peerVars, crashes>>

(* Any other error: the file displaced last is restored or kept. *)
LinkFails ==
    /\ phase = "linking"
    /\ IF displaced = <<>> THEN UNCHANGED diskVars ELSE Restore(Last(displaced))
    /\ Answer("failed") /\ Finish
    /\ UNCHANGED <<stateVars, captured, peerVars, crashes>>

(* The temporary and the displaced files are removed; the state is visible. *)
Commit ==
    /\ phase = "linked"
    /\ committed' = draft /\ revision' = revision + 1
    /\ Answer("committed") /\ Finish
    /\ UNCHANGED <<diskVars, captured, peerVars, crashes>>

(* The temporary file cannot be removed after the link: the mutation is    *)
(* rejected with its draft at the target, and what it displaced is removed. *)
CleanupFails ==
    /\ phase = "linked"
    /\ Answer("failed") /\ Finish
    /\ UNCHANGED <<stateVars, diskVars, captured, peerVars, crashes>>

-----------------------------------------------------------------------------
(* The environment. *)

(* A sync client puts a peer's snapshot in place of whatever is there. *)
PeerWrites ==
    /\ peers < MaxPeers
    /\ peers' = peers + 1
    /\ replaced' = IF target = None \/ target.dev = 0 THEN replaced
                   ELSE replaced \cup {target}
    /\ target' = Peer(peers + 1)
    /\ UNCHANGED <<callVars, stateVars, workVars, kept, captured, crashes>>

(* What this process displaced stays on disk; nothing looks for it. *)
Crash ==
    /\ Up
    /\ crashes < MaxCrashes
    /\ crashes' = crashes + 1
    /\ phase' = "down" /\ draft' = <<>> /\ displaced' = <<>> /\ attempt' = 0
    /\ kept' = kept \cup ToSet(displaced)
    /\ tail' = <<>>
    /\ answer' = [op \in Ops |-> IF answer[op] = "pending" THEN "lost" ELSE answer[op]]
    /\ UNCHANGED <<wanted, stateVars, target, captured, peerVars>>

(* loadAppState: no file means a first run, whose defaults are promoted;   *)
(* the promotion's own steps being those above, it is one step here, which *)
(* captures a peer's file that lands meanwhile.                            *)
Restart ==
    /\ phase = "down"
    /\ phase' = "idle" /\ revision' = 0
    /\ \/ target # None /\ UNCHANGED <<target, captured, peers>>
       \/ /\ target = None /\ target' = Local(<<>>)
          /\ peers' \in {peers, peers + 1} \cap 0..MaxPeers
          /\ captured' = captured \cup {Peer(k) : k \in peers + 1..peers'}
    /\ committed' = target'.log
    /\ UNCHANGED <<callVars, draft, displaced, attempt, kept, replaced, crashes>>

(* The first run's promotion fails after its link, and the start with it.  *)
RestartFails ==
    /\ phase = "down"
    /\ target = None /\ target' = Local(<<>>)
    /\ UNCHANGED <<callVars, stateVars, workVars, kept, captured, peerVars, crashes>>

-----------------------------------------------------------------------------
Promote ==
    WriteTemporary \/ Displace \/ Capture \/ Link \/ LinkAgain \/ LinkGivesUp \/ Commit

Fail == MutateFails \/ DisplaceFails \/ CaptureFails \/ LinkFails \/ CleanupFails

Next ==
    \/ \E op \in Ops, e \in {Unconditional} \cup 0..revision : Enqueue(op, e)
    \/ Begin \/ Promote \/ Fail
    \/ PeerWrites \/ Crash \/ Restart \/ RestartFails

(* Mutators and file operations return. *)
Fairness == WF_vars(Begin) /\ WF_vars(Promote)

Safety == Init /\ [][Next]_vars
Spec == Safety /\ Fairness

-----------------------------------------------------------------------------
TypeOK ==
    /\ committed \in Seq(Ops) /\ draft \in Seq(Ops) /\ tail \in Seq(Ops)
    /\ revision \in Nat
    /\ wanted \in [Ops -> Nat \cup {Unconditional}]
    /\ answer \in [Ops -> {"none", "pending", "committed", "stale", "failed", "lost"}]
    /\ phase \in {"idle", "mutating", "displacing", "capturing", "linking",
                  "linked", "down"}
    /\ target \in Snapshot \cup {None}
    /\ displaced \in Seq(Snapshot) /\ attempt \in 0..MaxAttempts
    /\ kept \subseteq Snapshot /\ captured \subseteq Snapshot
    /\ peers \in 0..MaxPeers /\ replaced \subseteq Snapshot
    /\ crashes \in 0..MaxCrashes

(* The callers' view: mutations are atomic, in order, and conditional ones *)
(* happen at their revision, although each takes many turns in which other *)
(* requests, peers and failures come in between (write-queue.ts:28-30).    *)
Store == INSTANCE AppStateStore WITH log <- committed
ImplementsStore == Store!Spec

(* No snapshot of a peer is destroyed by this device unless it was handed  *)
(* on first: it is the target, was replaced by another peer, was captured, *)
(* or is still on disk beside the target.                                  *)
PeerSnapshotsKept ==
    \A k \in 1..peers :
        Peer(k) \in {target} \cup replaced \cup captured \cup kept \cup ToSet(displaced)

(* The visible state as it may be found on disk: itself, or with one more  *)
(* mutation that was reported failed.                                      *)
Visible ==
    {Local(committed)} \cup
    {Local(Append(committed, op)) : op \in {o \in Ops : answer[o] = "failed"}}

(* Unless a peer has written, the state callers see is on disk somewhere,  *)
(* also between displacing the old file and linking the new one, with at   *)
(* most one mutation more: one that is about to be committed, or that      *)
(* failed when only the cleanup was left.                                  *)
CommittedOnDisk ==
    peers = 0 /\ Up =>
        \/ ({target} \cup kept \cup ToSet(displaced)) \cap Visible # {}
        \/ phase = "linked" /\ target = Local(draft)

(* The target is missing only while a promotion is between its two steps,  *)
(* or after it has failed and left the old file beside the target.         *)
TargetPresent ==
    target = None =>
        \/ phase \in {"capturing", "linking"} /\ displaced # <<>>
        \/ kept # {}

(* Every mutation asked for is answered, unless the process ends. *)
EveryCallAnswered ==
    \A op \in Ops : answer[op] = "pending" ~> answer[op] # "pending"

(* "A candidate becomes visible only after validation and durable          *)
(* persistence" (write-queue.ts:30): what was visible before a crash is    *)
(* there after it, if no peer has written.                                 *)
VisibleStateSurvives ==
    [][Restart /\ peers = 0 => IsPrefix(committed, committed')]_vars
=============================================================================
