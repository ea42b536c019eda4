--------------------------- MODULE AppStateStore ---------------------------
(***************************************************************************)
(* What the app-state coordinator promises its callers                     *)
(* (app-state/write-queue.ts): every mutation is one atomic step from the  *)
(* state before it to the state after it, in the order of the requests,    *)
(* and a mutation asked for at a revision is made at that revision or not  *)
(* at all.  The state is the sequence of the mutations it contains.        *)
(***************************************************************************)
EXTENDS Naturals, Sequences

CONSTANTS
    Ops,   \* mutations, numbered in the order they are asked for
    Unconditional    \* no expected revision

VARIABLES
    log,      \* the mutations in the visible state, oldest first
    revision, \* number of commits since the process started
    wanted,   \* the revision each mutation expects
    answer    \* "none", "pending" or how each mutation was answered

vars == <<log, revision, wanted, answer>>

Init ==
    /\ log = <<>> /\ revision = 0
    /\ wanted = [op \in Ops |-> Unconditional]
    /\ answer = [op \in Ops |-> "none"]

Ask(op, e) ==
    /\ answer[op] = "none"
    /\ answer' = [answer EXCEPT ![op] = "pending"]
    /\ wanted' = [wanted EXCEPT ![op] = e]
    /\ UNCHANGED <<log, revision>>

(* Nobody asked earlier is still waiting. *)
Oldest(op) == \A o \in Ops : o < op => answer[o] # "pending"

Commit(op) ==
    /\ answer[op] = "pending" /\ Oldest(op)
    /\ wanted[op] \in {Unconditional, revision}
    /\ log' = Append(log, op)
    /\ revision' = revision + 1
    /\ answer' = [answer EXCEPT ![op] = "committed"]
    /\ UNCHANGED wanted

Refuse(op) ==
    /\ answer[op] = "pending" /\ Oldest(op)
    /\ \/ wanted[op] \notin {Unconditional, revision}
          /\ answer' = [answer EXCEPT ![op] = "stale"]
       \/ answer' = [answer EXCEPT ![op] = "failed"]
    /\ UNCHANGED <<log, revision, wanted>>

(* The process ends, and starts again from what is on disk. *)
Crash ==
    /\ answer' = [op \in Ops |-> IF answer[op] = "pending" THEN "lost" ELSE answer[op]]
    /\ UNCHANGED <<log, revision, wanted>>

Restart ==
    /\ log' \in Seq(Ops)
    /\ revision' = 0
    /\ \A op \in Ops : answer[op] # "pending"
    /\ UNCHANGED <<wanted, answer>>

Next ==
    \/ \E op \in Ops, e \in {Unconditional} \cup 0..revision : Ask(op, e)
    \/ \E op \in Ops : Commit(op) \/ Refuse(op)
    \/ Crash \/ Restart

Spec == Init /\ [][Next]_vars
=============================================================================
