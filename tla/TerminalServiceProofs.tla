------------------------ MODULE TerminalServiceProofs ------------------------
(***************************************************************************)
(* Proofs about the terminal service, for every set of panes and calls,    *)
(* every number of slots, and all the failures that the model has.         *)
(*                                                                         *)
(* The first part is about few of the variables: where each call is, its   *)
(* answer, the requests on their way, the sessions of the daemon, the      *)
(* tombstones, and the limiter.  Every action has one of a few effects on  *)
(* them (Effect); the invariants of the slots and of the killed panes are  *)
(* then shown to survive each effect.                                      *)
(*                                                                         *)
(* The second part is about what the manager records of its sessions, and  *)
(* rests on the first.  It looks at more variables: the records, the       *)
(* pending creations, and the generations that tell a stale creation from  *)
(* a current one.  As before, every action has one of a few effects        *)
(* (Change), and the invariants survive each.                              *)
(***************************************************************************)
EXTENDS SshTunnel, TLAPS, FiniteSetTheorems, SequenceTheorems

Steps == {"unused"} \cup CreateSteps \cup KillSteps \cup OtherSteps \cup Ends
Holding == CreateSteps \ {"joined", "waiting", "queued"}
Waits == {"listing", "sweeping", "requested", "discarding", "killing"}
Kinds == {"list", "create", "kill"}

(* A session of the pane is up for a creation that is not through. *)
Witness(i) == (step[i] = "requested" /\ answer[i] = "ok") \/ step[i] = "writing"

-----------------------------------------------------------------------------
(* The effects. *)

Rest ==
    /\ UNCHANGED <<step, answer, wire, spawning, daemon, pane, limiterVars>>
    /\ killed' \subseteq killed /\ disturbed \subseteq disturbed'

(* What a step of call i to s must not do: leave an answer to come, or a   *)
(* session that is up for a killed pane.                                   *)
MayLeave(i) ==
    /\ pane[i] \in Panes /\ step[i] # "queued"
    /\ step[i] \in Waits => answer[i] # "none"

Moves(i, s) ==
    /\ MayLeave(i)
    /\ Witness(i) => s = "writing" \/ pane[i] \notin killed
    /\ s \in Steps \ (Waits \cup {"queued"})
    /\ step[i] \in Holding <=> s \in Holding
    /\ step' = [step EXCEPT ![i] = s]
    /\ UNCHANGED <<answer, wire, spawning, daemon, pane, limiterVars, disturbed>>
    /\ killed' \subseteq killed

Asks(i, kind, s) ==
    /\ MayLeave(i)
    /\ Witness(i) => kind = "kill" \/ pane[i] \notin killed
    /\ s \in Awaited(kind)
    /\ step[i] \in Holding <=> s \in Holding
    /\ step' = [step EXCEPT ![i] = s]
    /\ answer' = [answer EXCEPT ![i] = "none"]
    /\ wire' = Append(wire, [kind |-> kind, from |-> i])
    /\ UNCHANGED <<spawning, daemon, pane, limiterVars, disturbed>>
    /\ killed' \subseteq killed \cup {p \in {pane[i]} : kind = "kill"}

Enters(c) ==
    /\ MayLeave(c) /\ step[c] \notin Holding /\ ~Witness(c)
    /\ Acquire(c)
    /\ UNCHANGED <<answer, wire, spawning, daemon, pane, disturbed>>
    /\ killed' \subseteq killed

Leaves(c, s) ==
    /\ MayLeave(c) /\ step[c] \in Holding /\ s \in Ends
    /\ Witness(c) => pane[c] \notin killed
    /\ Release(c, s)
    /\ UNCHANGED <<answer, wire, spawning, daemon, pane, disturbed>>
    /\ killed' \subseteq killed

Effect ==
    \/ Rest
    \/ \E i \in Issuers, s \in Steps : Moves(i, s)
    \/ \E i \in Issuers, kind \in Kinds, s \in Steps : Asks(i, kind, s)
    \/ \E c \in Creates : Enters(c)
    \/ \E c \in Creates, s \in Ends : Leaves(c, s)
    \/ \E i \in Issuers : RequestFails(i)
    \/ \E p \in Panes : ShellExits(p)
    \/ DaemonHandles
    \/ \E c \in Creates : Spawned(c)
    \/ Disconnect
    \/ Restart

-----------------------------------------------------------------------------
(* The types that the proofs need. *)
Shape ==
    /\ pane \in [Issuers -> Panes \cup {None}]
    /\ step \in [Issuers -> Steps]
    /\ answer \in [Issuers -> {"none", "ok", "failed", "changed"}]
    /\ \A i \in Issuers : step[i] # "unused" => pane[i] \in Panes
    /\ daemon \in [Panes -> {"none", "live", "dying"}]
    /\ wire \in Seq([kind : Kinds, from : Issuers])
    /\ \A k \in 1..Len(wire) : pane[wire[k].from] \in Panes
    /\ spawning \subseteq Issuers
    /\ \A c \in spawning : pane[c] \in Panes
    /\ inUse \in Nat /\ waiters \in Seq(Creates)
    /\ killed \subseteq Panes

(* Entering the loop of createOrAttach: acquiring, or waiting for another. *)
LEMMA EnterEffect ==
  ASSUME Shape, NEW c \in Creates, NEW g, Enter(c, g),
         pane[c] \in Panes, step[c] \in {"unused", "waiting"},
         UNCHANGED <<answer, wire, spawning, daemon, pane, disturbed>>,
         killed' \subseteq killed
  PROVE  Effect
  <1>1. MayLeave(c) /\ step[c] \notin Holding /\ ~Witness(c)
    BY DEF MayLeave, Witness, Holding, Waits, CreateSteps
  <1>2. CASE Acquire(c)
    BY <1>1, <1>2 DEF Effect, Enters
  <1>3. CASE UNCHANGED limiterVars /\ \E s \in {"joined", "waiting"} : Go(c, s)
    <2>1. PICK s \in {"joined", "waiting"} : Go(c, s)
      BY <1>3
    <2>2. s \in Steps \ (Waits \cup {"queued"}) /\ s \notin Holding
      BY DEF Steps, Waits, Holding, CreateSteps
    <2>3. Moves(c, s)
      BY <1>1, <1>3, <2>1, <2>2 DEF Moves, Go
    <2> QED
      BY <2>2, <2>3, IssuersAssumption DEF Effect
  <1> QED
    BY <1>2, <1>3 DEF Enter

(* Every action of the service manager has one of the effects. *)
LEMMA CreateOrAttachEffect ==
  ASSUME Shape, NEW c \in Issuers, CreateOrAttach(c)
  PROVE  Effect
  <1> USE DEF Frame, managerVars, paramVars, callVars, daemonVars, faultVars
  <1>1. /\ c \in Creates /\ step[c] = "unused" /\ pane[c] \in Panes
        /\ UNCHANGED <<answer, wire, spawning, daemon, pane, disturbed>>
        /\ killed' \subseteq killed
    BY DEF CreateOrAttach, NextOf, Unused, Shape
  <1>2. CASE Go(c, "killed") /\ UNCHANGED limiterVars
    <2>1. Moves(c, "killed")
      BY <1>1, <1>2 DEF Moves, MayLeave, Witness, Go, Steps, Ends, CreateEnds, Waits, Holding,
                         CreateSteps
    <2> QED
      BY <2>1 DEF Effect, Steps, Ends, CreateEnds
  <1>3. CASE Enter(c, generation[pane[c]])
    BY <1>1, <1>3, EnterEffect
  <1> QED
    BY <1>2, <1>3 DEF CreateOrAttach

LEMMA WaitedEffect ==
  ASSUME Shape, NEW c \in Creates, WaitedForPending(c)
  PROVE  Effect
  <1> USE DEF managerVars, paramVars, callVars, daemonVars, faultVars
  <1>1. /\ step[c] = "waiting" /\ pane[c] \in Panes /\ c \in Issuers
        /\ UNCHANGED <<answer, wire, spawning, daemon, pane, killed, disturbed>>
    BY IssuersAssumption DEF WaitedForPending, Shape
  <1>2. CASE Go(c, "killed") /\ UNCHANGED limiterVars
    <2>1. Moves(c, "killed")
      BY <1>1, <1>2 DEF Moves, MayLeave, Witness, Go, Steps, Ends, CreateEnds, Waits, Holding,
                         CreateSteps
    <2> QED
      BY <1>1, <2>1 DEF Effect, Steps, Ends, CreateEnds
  <1>3. CASE Enter(c, gen[c])
    BY <1>1, <1>3, EnterEffect
  <1> QED
    BY <1>2, <1>3 DEF WaitedForPending

(* A call goes from a step at which it awaits nothing of the daemon, and   *)
(* in which its slot, if it has one, is not touched, to another such step. *)
LEMMA GoEffect ==
  ASSUME Shape, NEW i \in Issuers, NEW s \in Steps \ (Waits \cup {"queued"}), Go(i, s),
         pane[i] \in Panes, step[i] # "queued", step[i] \in Waits => answer[i] # "none",
         ~Witness(i) \/ s = "writing" \/ pane[i] \notin killed,
         step[i] \in Holding <=> s \in Holding,
         UNCHANGED <<answer, wire, spawning, daemon, pane, limiterVars, disturbed>>,
         killed' \subseteq killed
  PROVE  Effect
  <1>1. Moves(i, s)
    BY DEF Moves, MayLeave, Go
  <1> QED
    BY <1>1 DEF Effect

LEMMA KillCallEffect ==
  ASSUME Shape, NEW k \in Issuers,
         KillAnswered(k) \/ HookAwaited(k) \/ KillEnds(k) \/ Erased(k)
  PROVE  Effect
  <1> USE DEF managerVars, paramVars, callVars, daemonVars, faultVars, limiterVars
  <1>1. /\ step[k] \in {"killing", "hooks", "cleaning", "erasing"}
        /\ step[k] \in Waits => answer[k] # "none"
        /\ UNCHANGED <<answer, wire, spawning, daemon, pane, limiterVars, killed, disturbed>>
    BY DEF KillAnswered, HookAwaited, KillEnds, Erased, Spares, Waits
  <1>2. PICK s \in {"hooks", "cleaning", "erasing", "done", "error"} : Go(k, s)
    BY DEF KillAnswered, HookAwaited, KillEnds, Erased
  <1>3. s \in Steps \ (Waits \cup {"queued"}) /\ s \notin Holding /\ step[k] \notin Holding
    BY <1>1 DEF Steps, Waits, Holding, CreateSteps, KillSteps, Ends
  <1>4. pane[k] \in Panes /\ step[k] # "queued" /\ ~Witness(k)
    BY <1>1 DEF Shape, Witness
  <1> QED
    BY <1>1, <1>2, <1>3, <1>4, GoEffect

LEMMA OtherCallEffect ==
  ASSUME Shape, NEW i \in Issuers,
         Clear(i) \/ ClearStep(i) \/ Hook(i) \/ HookStep(i) \/ HookSaved(i)
  PROVE  Effect
  <1> USE DEF managerVars, paramVars, callVars, daemonVars, faultVars, limiterVars
  <1>1. /\ step[i] \in {"unused", "clearing", "reopening", "called", "hooking", "saving"}
        /\ pane[i] \in Panes
        /\ UNCHANGED <<answer, wire, spawning, daemon, pane, limiterVars, killed, disturbed>>
    BY DEF Clear, ClearStep, Hook, HookStep, HookSaved, NextOf, Unused, Shape
  <1>2. PICK s \in {"clearing", "reopening", "called", "hooking", "saving", "done"} : Go(i, s)
    BY DEF Clear, ClearStep, Hook, HookStep, HookSaved
  <1>3. s \in Steps \ (Waits \cup {"queued"}) /\ s \notin Holding /\ step[i] \notin Holding
    BY <1>1 DEF Steps, Waits, Holding, CreateSteps, OtherSteps, Ends
  <1>4. step[i] # "queued" /\ step[i] \notin Waits /\ ~Witness(i)
    BY <1>1 DEF Witness, Waits
  <1> QED
    BY <1>1, <1>2, <1>3, <1>4, GoEffect

(* The creations: the end of one that holds a slot, and a request.         *)
LEMMA SettleEffect ==
  ASSUME Shape, NEW c \in Creates, NEW s \in Ends, Settle(c, s),
         step[c] \in Holding, step[c] \in Waits => answer[c] # "none",
         ~Witness(c) \/ pane[c] \notin killed,
         UNCHANGED <<answer, wire, spawning, daemon, pane, disturbed>>,
         killed' \subseteq killed
  PROVE  Effect
  <1>1. MayLeave(c)
    BY IssuersAssumption DEF MayLeave, Shape, Holding, CreateSteps
  <1>2. Leaves(c, s)
    BY <1>1 DEF Leaves, Settle
  <1> QED
    BY <1>2 DEF Effect

LEMMA RequestEffect ==
  ASSUME Shape, NEW i \in Issuers, NEW kind \in Kinds, NEW s \in Awaited(kind),
         Request(i, kind, s),
         pane[i] \in Panes, step[i] # "queued", step[i] \in Waits => answer[i] # "none",
         ~Witness(i) \/ kind = "kill" \/ pane[i] \notin killed,
         step[i] \in Holding <=> s \in Holding,
         UNCHANGED <<pane, limiterVars, disturbed>>,
         killed' \subseteq killed \cup {p \in {pane[i]} : kind = "kill"}
  PROVE  Effect
  <1>1. s \in Steps
    BY DEF Awaited, Kinds, Steps, CreateSteps, KillSteps
  <1>2. Asks(i, kind, s)
    BY DEF Asks, MayLeave, Request, Go
  <1> QED
    BY <1>1, <1>2 DEF Effect

LEMMA AskEffect ==
  ASSUME Shape, NEW c \in Creates, Ask(c),
         step[c] \in Holding, ~Witness(c), step[c] \in Waits => answer[c] # "none",
         UNCHANGED <<pane, limiterVars, killed, disturbed>>
  PROVE  Effect
  <1>1. "requested" \in Awaited("create") /\ "requested" \in Holding /\ "create" \in Kinds
    BY DEF Awaited, Holding, CreateSteps, Kinds
  <1>2. c \in Issuers /\ pane[c] \in Panes /\ step[c] # "queued"
    BY IssuersAssumption DEF Shape, Holding, CreateSteps
  <1> QED
    BY <1>1, <1>2, RequestEffect DEF Ask

LEMMA LookUpEffect ==
  ASSUME Shape, NEW c \in Creates, NEW ids, LookUp(c, ids),
         step[c] \in {"granted", "listing"}, step[c] \in Waits => answer[c] # "none",
         UNCHANGED <<pane, limiterVars, killed, disturbed>>
  PROVE  Effect
  <1> USE DEF daemonVars
  <1>1. c \in Issuers /\ pane[c] \in Panes /\ step[c] \in Holding /\ ~Witness(c)
    BY IssuersAssumption DEF Shape, Holding, CreateSteps, Witness
  <1>2. CASE Ask(c)
    BY <1>1, <1>2, AskEffect
  <1>3. CASE ~Ask(c)
    <2>1. PICK s \in {"purging", "restoring"} : Go(c, s)
      BY <1>3 DEF LookUp
    <2>2. UNCHANGED <<answer, daemonVars>>
      BY <1>3 DEF LookUp
    <2>3. s \in Steps \ (Waits \cup {"queued"}) /\ s \in Holding
      BY DEF Steps, Waits, Holding, CreateSteps
    <2> QED
      BY <1>1, <2>1, <2>2, <2>3, GoEffect
  <1> QED
    BY <1>2, <1>3

(* The steps of a creation that has its slot, up to the answer. *)
LEMMA BeginEffect ==
  ASSUME Shape, NEW c \in Creates, Begin(c)
  PROVE  Effect
  <1> USE DEF daemonVars, Frame, paramVars
  <1>1. /\ c \in Issuers /\ step[c] = "granted" /\ pane[c] \in Panes /\ ~Witness(c)
        /\ step[c] \in Holding /\ step[c] \notin Waits
        /\ UNCHANGED <<pane, killed, disturbed>>
    BY IssuersAssumption DEF Begin, Shape, Holding, CreateSteps, Witness, Waits
  <1>2. CASE Cancelled(c)
    BY <1>1, <1>2, SettleEffect DEF Cancelled, Ends, CreateEnds
  <1>3. CASE Settle(c, "restored") /\ UNCHANGED <<answer, daemonVars>>
    BY <1>1, <1>3, SettleEffect DEF Ends, CreateEnds
  <1>4. CASE LookUp(c, alive) /\ UNCHANGED limiterVars
    BY <1>1, <1>4, LookUpEffect
  <1>5. CASE Request(c, "list", "listing") /\ UNCHANGED limiterVars
    <2>1. "listing" \in Awaited("list") /\ "listing" \in Holding /\ "list" \in Kinds
      BY DEF Awaited, Holding, CreateSteps, Kinds
    <2> QED
      BY <1>1, <1>5, <2>1, RequestEffect
  <1> QED
    BY <1>2, <1>3, <1>4, <1>5 DEF Begin

LEMMA AnsweredEffect ==
  ASSUME Shape, NEW c \in Creates,
         Listed(c) \/ Purged(c) \/ ColdRestore(c) \/ Refused(c) \/ Dropped(c)
  PROVE  Effect
  <1> USE DEF daemonVars, Frame, paramVars
  <1>1. /\ step[c] \in {"listing", "purging", "restoring", "requested", "dropping"}
        /\ step[c] = "requested" => answer[c] \in {"failed", "changed"}
        /\ step[c] = "listing" => answer[c] # "none"
        /\ UNCHANGED <<pane, killed, disturbed>>
    BY DEF Listed, Purged, ColdRestore, Refused, Dropped
  <1>2. /\ c \in Issuers /\ pane[c] \in Panes /\ step[c] \in Holding /\ ~Witness(c)
        /\ step[c] \in Waits => answer[c] # "none"
    BY <1>1, IssuersAssumption DEF Shape, Holding, CreateSteps, Witness, Waits
  <1>3. CASE \E s \in CreateEnds : Settle(c, s) /\ UNCHANGED <<answer, daemonVars>>
    BY <1>1, <1>2, <1>3, SettleEffect DEF Ends
  <1>4. CASE Ask(c) /\ UNCHANGED limiterVars
    BY <1>1, <1>2, <1>4, AskEffect
  <1>5. CASE Listed(c) /\ \E ids : LookUp(c, ids) /\ UNCHANGED limiterVars
    BY <1>1, <1>2, <1>5, LookUpEffect DEF Listed
  <1>6. \/ \E s \in CreateEnds : Settle(c, s) /\ UNCHANGED <<answer, daemonVars>>
        \/ Ask(c) /\ UNCHANGED limiterVars
        \/ Listed(c) /\ \E ids : LookUp(c, ids) /\ UNCHANGED limiterVars
    <2>1. {"killed", "restored", "failed", "changed"} \subseteq CreateEnds
      BY DEF CreateEnds
    <2>2. CASE Listed(c)
      BY <2>1, <2>2 DEF Listed, Cancelled
    <2>3. CASE Purged(c)
      BY <2>1, <2>3 DEF Purged, Cancelled
    <2>4. CASE ColdRestore(c)
      BY <2>1, <2>4 DEF ColdRestore, Cancelled
    <2>5. CASE Refused(c) \/ Dropped(c)
      BY <2>1, <2>5 DEF Refused, Dropped, Cancelled
    <2> QED
      BY <2>2, <2>3, <2>4, <2>5
  <1> QED
    BY <1>3, <1>4, <1>5, <1>6

(* A stale session is discarded; one that is current belongs to a pane that*)
(* is not killed.                                                          *)
LEMMA DiscardEffect ==
  ASSUME Shape, NEW c \in Creates, Discard(c),
         step[c] \in {"requested", "writing"}, step[c] \in Waits => answer[c] # "none",
         UNCHANGED <<pane, killed, disturbed>>
  PROVE  Effect
  <1>1. "discarding" \in Awaited("kill") /\ "discarding" \in Holding /\ "kill" \in Kinds
    BY DEF Awaited, Holding, CreateSteps, Kinds
  <1>2. c \in Issuers /\ pane[c] \in Panes /\ step[c] # "queued" /\ step[c] \in Holding
    BY IssuersAssumption DEF Shape, Holding, CreateSteps
  <1> QED
    BY <1>1, <1>2, RequestEffect DEF Discard, limiterVars

LEMMA CreatedEffect ==
  ASSUME Shape, NEW c \in Creates, Created(c) \/ Written(c)
  PROVE  Effect
  <1> USE DEF daemonVars, Frame, paramVars, limiterVars
  <1>1. /\ step[c] \in {"requested", "writing"}
        /\ step[c] \in Waits => answer[c] # "none"
        /\ UNCHANGED <<pane, killed, disturbed>>
    BY DEF Created, Written, Waits
  <1>2. /\ c \in Issuers /\ pane[c] \in Panes /\ step[c] # "queued" /\ step[c] \in Holding
    BY <1>1, IssuersAssumption DEF Shape, Holding, CreateSteps
  <1>3. CASE ~Current(c)
    BY <1>1, <1>3, DiscardEffect DEF Created, Written
  <1>4. CASE Current(c)
    <2>1. pane[c] \notin killed
      BY <1>4 DEF Current
    <2>2. \/ Settle(c, "ok") /\ UNCHANGED <<answer, daemonVars>>
          \/ Go(c, "writing") /\ UNCHANGED <<answer, daemonVars, limiterVars>>
      BY <1>4 DEF Created, Written
    <2>3. CASE Settle(c, "ok") /\ UNCHANGED <<answer, daemonVars>>
      BY <1>1, <1>2, <2>1, <2>3, SettleEffect DEF Ends, CreateEnds
    <2>4. CASE Go(c, "writing") /\ UNCHANGED <<answer, daemonVars, limiterVars>>
      <3>1. "writing" \in Steps \ (Waits \cup {"queued"}) /\ "writing" \in Holding
        BY DEF Steps, Waits, Holding, CreateSteps
      <3> QED
        BY <1>1, <1>2, <2>1, <2>4, <3>1, GoEffect
    <2> QED
      BY <2>2, <2>3, <2>4
  <1> QED
    BY <1>3, <1>4

LEMMA DiscardedEffect ==
  ASSUME Shape, NEW c \in Creates, Discarded(c) \/ Joined(c)
  PROVE  Effect
  <1> USE DEF daemonVars, paramVars, limiterVars, managerVars, callVars, faultVars
  <1>1. /\ c \in Issuers /\ pane[c] \in Panes /\ step[c] # "queued" /\ ~Witness(c)
        /\ step[c] \in Waits => answer[c] # "none"
        /\ UNCHANGED <<pane, killed, disturbed, limiterVars, answer, wire, spawning, daemon>>
    BY IssuersAssumption DEF Discarded, Joined, Shape, Witness, Waits
  <1>2. CASE Discarded(c)
    <2>1. step[c] \in Holding /\ "dropping" \in Holding
      BY <1>2 DEF Discarded, Holding, CreateSteps
    <2>2. "dropping" \in Steps \ (Waits \cup {"queued"}) /\ Go(c, "dropping")
      BY <1>2 DEF Discarded, Steps, Waits, CreateSteps
    <2> QED
      BY <1>1, <2>1, <2>2, GoEffect
  <1>3. CASE Joined(c)
    <2>1. step[c] \notin Holding /\ step[on[c]] \in Ends /\ Go(c, step[on[c]])
      BY <1>3 DEF Joined, Settled, Holding
    <2>2. step[on[c]] \in Steps \ (Waits \cup {"queued"}) /\ step[on[c]] \notin Holding
      BY <2>1 DEF Ends, CreateEnds, Steps, Waits, Holding, CreateSteps
    <2> QED
      BY <1>1, <2>1, <2>2, GoEffect
  <1> QED
    BY <1>2, <1>3

(* Kills. *)
LEMMA KillEffect ==
  ASSUME Shape, NEW k \in Issuers, KillPane(k),
         pane[k] \in Panes, step[k] \in {"unused", "sweeping"},
         step[k] \in Waits => answer[k] # "none"
  PROVE  Effect
  <1>1. /\ "killing" \in Awaited("kill") /\ "killing" \notin Holding /\ "kill" \in Kinds
        /\ step[k] \notin Holding
    BY DEF Awaited, Holding, CreateSteps, Kinds
  <1>2. /\ Request(k, "kill", "killing")
        /\ killed' \subseteq killed \cup {p \in {pane[k]} : "kill" = "kill"}
        /\ UNCHANGED <<pane, limiterVars, disturbed>>
    BY DEF KillPane, paramVars
  <1> QED
    BY <1>1, <1>2, RequestEffect

LEMMA SweepEffect ==
  ASSUME Shape, NEW k \in Kills, Kill(k) \/ KillByWorkspaceId(k) \/ Swept(k)
  PROVE  Effect
  <1> USE DEF daemonVars, paramVars, limiterVars, managerVars, callVars, faultVars
  <1>1. /\ k \in Issuers /\ pane[k] \in Panes /\ step[k] \in {"unused", "sweeping"}
        /\ step[k] \in Waits => answer[k] # "none"
    BY IssuersAssumption DEF Kill, KillByWorkspaceId, Swept, NextOf, Unused, Shape, Waits
  <1>2. CASE KillPane(k)
    BY <1>1, <1>2, KillEffect
  <1>3. CASE KillByWorkspaceId(k)
    <2>1. /\ "sweeping" \in Awaited("list") /\ "sweeping" \notin Holding /\ "list" \in Kinds
          /\ step[k] \notin Holding /\ ~Witness(k) /\ step[k] # "queued"
      BY <1>1 DEF Awaited, Holding, CreateSteps, Kinds, Witness
    <2>2. Request(k, "list", "sweeping") /\ UNCHANGED <<pane, limiterVars, disturbed, killed>>
      BY <1>3 DEF KillByWorkspaceId
    <2> QED
      BY <1>1, <2>1, <2>2, RequestEffect
  <1>4. CASE Swept(k) /\ ~KillPane(k)
    <2>1. PICK s \in {"erasing", "done"} : Go(k, s)
      BY <1>4 DEF Swept
    <2>2. /\ s \in Steps \ (Waits \cup {"queued"}) /\ s \notin Holding
          /\ step[k] \notin Holding /\ ~Witness(k) /\ step[k] # "queued"
      BY <1>1 DEF Steps, Waits, Holding, CreateSteps, KillSteps, Ends, Witness
    <2>3. UNCHANGED <<answer, wire, spawning, daemon, pane, limiterVars, disturbed, killed>>
      BY <1>4 DEF Swept
    <2> QED
      BY <1>1, <2>1, <2>2, <2>3, GoEffect
  <1> QED
    BY <1>2, <1>3, <1>4 DEF Kill

-----------------------------------------------------------------------------
LEMMA RestEffect ==
  ASSUME UNCHANGED <<callVars, limiterVars, wire, spawning, daemon, killed, disturbed>>
  PROVE  Effect
  BY DEF Effect, Rest, callVars, paramVars, limiterVars

LEMMA TurnEffect ==
  ASSUME Shape, Turn
  PROVE  Effect
  <1>1. CASE \E i \in Issuers :
               HistoryTurn(i) /\ UNCHANGED <<managerVars, limiterVars, callVars, daemonVars, faultVars>>
    BY <1>1, RestEffect DEF managerVars, daemonVars, faultVars
  <1>2. CASE \E c \in Creates : WaitedForPending(c)
    BY <1>2, WaitedEffect
  <1>3. CASE \E c \in Creates : Joined(c)
    BY <1>3, DiscardedEffect
  <1>4. CASE \E c \in Creates : Begin(c)
    BY <1>4, BeginEffect
  <1>5. CASE \E c \in Creates : Written(c)
    BY <1>5, CreatedEffect
  <1>6. CASE \E c \in Creates : Purged(c) \/ Dropped(c)
    BY <1>6, AnsweredEffect
  <1>7. CASE \E k \in Kills : HookAwaited(k) \/ KillEnds(k)
    BY <1>7, KillCallEffect, IssuersAssumption
  <1>8. CASE \E x \in Clears : ClearStep(x)
    BY <1>8, OtherCallEffect, IssuersAssumption
  <1>9. CASE \E h \in Hooks : HookStep(h)
    BY <1>9, OtherCallEffect, IssuersAssumption
  <1> QED
    BY <1>1, <1>2, <1>3, <1>4, <1>5, <1>6, <1>7, <1>8, <1>9 DEF Turn

LEMMA ProgressEffect ==
  ASSUME Shape, NEW i \in Issuers, Progress(i)
  PROVE  Effect
  <1>1. CASE i \in Creates /\ (Listed(i) \/ ColdRestore(i) \/ Refused(i) \/ Purged(i) \/ Dropped(i))
    BY <1>1, AnsweredEffect
  <1>2. CASE i \in Creates /\ Created(i)
    BY <1>2, CreatedEffect
  <1>3. CASE i \in Creates /\ Discarded(i)
    BY <1>3, DiscardedEffect
  <1>4. CASE i \in Kills /\ (KillAnswered(i) \/ Erased(i) \/ KillEnds(i))
    BY <1>4, KillCallEffect
  <1>5. CASE i \in Kills /\ Swept(i)
    BY <1>5, SweepEffect
  <1>6. CASE i \in Hooks /\ HookSaved(i)
    BY <1>6, OtherCallEffect
  <1>7. CASE HistoryIO(i) /\ UNCHANGED <<managerVars, limiterVars, callVars, daemonVars, faultVars>>
    BY <1>7, RestEffect DEF managerVars, daemonVars, faultVars
  <1> QED
    BY <1>1, <1>2, <1>3, <1>4, <1>5, <1>6, <1>7 DEF Progress

LEMMA ServiceEffect ==
  ASSUME Shape, ServiceStep
  PROVE  Effect
  <1>1. CASE \E i \in Issuers : Progress(i)
    BY <1>1, ProgressEffect
  <1>2. CASE \E i \in Issuers : RequestFails(i)
    BY <1>2 DEF Effect
  <1>3. CASE \E i \in Issuers : HistoryFails(i)
    BY <1>3 DEF HistoryFails, Spares, Effect, Rest, managerVars, limiterVars, callVars, paramVars, daemonVars
  <1>4. CASE WriterCloses /\ UNCHANGED <<managerVars, limiterVars, callVars, daemonVars, faultVars>>
    BY <1>4, RestEffect DEF managerVars, daemonVars, faultVars
  <1>5. CASE \E p \in Panes : TimerFires(p)
    BY <1>5, RestEffect DEF TimerFires, daemonVars, faultVars
  <1>6. CASE \E p \in Panes : ShellExits(p)
    BY <1>6 DEF Effect
  <1>7. CASE DaemonHandles \/ (\E c \in Creates : Spawned(c)) \/ Disconnect
    BY <1>7 DEF Effect
  <1> QED
    BY <1>1, <1>2, <1>3, <1>4, <1>5, <1>6, <1>7 DEF ServiceStep

LEMMA UserEffect ==
  ASSUME Shape, NEW panes, UserStep(panes)
  PROVE  Effect
  <1>1. PICK i \in Issuers :
          \/ i \in Creates /\ CreateOrAttach(i)
          \/ i \in Kills /\ (Kill(i) \/ KillByWorkspaceId(i))
          \/ i \in Clears /\ Clear(i)
          \/ i \in Hooks /\ Hook(i)
    BY IssuersAssumption DEF UserStep
  <1> QED
    BY <1>1, CreateOrAttachEffect, SweepEffect, OtherCallEffect

(* What the tunnel does to the service manager. *)
LEMMA TunnelCreateEffect ==
  ASSUME Shape, NEW at, NEW timer, Create(at, timer) \/ Ensure(timer)
  PROVE  Effect
  <1>1. (\E c \in Creates : CreateOrAttach(c)) \/ UNCHANGED serviceVars
    BY DEF Create, Ensure, Fail
  <1>2. CASE UNCHANGED serviceVars
    BY <1>2, RestEffect DEF serviceVars, managerVars, daemonVars, faultVars
  <1>3. CASE \E c \in Creates : CreateOrAttach(c)
    BY <1>3, CreateOrAttachEffect, IssuersAssumption
  <1> QED
    BY <1>1, <1>2, <1>3

LEMMA NextEffect ==
  ASSUME Shape, [Next]_vars
  PROVE  Effect
  <1>1. CASE UNCHANGED serviceVars
    BY <1>1, RestEffect DEF serviceVars, managerVars, daemonVars, faultVars
  <1>2. CASE Turn
    BY <1>2, TurnEffect
  <1>3. CASE EnsureGoesOn
    <2>1. \/ UNCHANGED serviceVars
          \/ \E k \in Kills : Kill(k)
          \/ Create("recreating", retryTimer)
      BY <1>3 DEF EnsureGoesOn, Fail
    <2> QED
      BY <1>1, <2>1, SweepEffect, TunnelCreateEffect
  <1>4. CASE \E k \in Kills : StopEnds(k)
    <2>1. UNCHANGED serviceVars \/ \E s \in Kills : KillByWorkspaceId(s)
      BY <1>4, IssuersAssumption DEF StopEnds, Sweep
    <2> QED
      BY <1>1, <2>1, SweepEffect
  <1>5. CASE \E k \in Kills : Restarted(k)
    BY <1>5, TunnelCreateEffect DEF Restarted
  <1>6. CASE ServiceStep
    BY <1>6, ServiceEffect
  <1>7. CASE \E p \in Panes : Exit(p)
    <2>1. PICK p \in Panes : ExitArrives(p)
      BY <1>7 DEF Exit
    <2> QED
      BY <2>1, RestEffect DEF ExitArrives
  <1>8. CASE RestartService
    BY <1>8 DEF RestartService, Effect
  <1>9. CASE Reconcile
    <2>1. \/ UNCHANGED serviceVars
          \/ \E k \in Kills : Kill(k)
          \/ Ensure(retryTimer)
      BY <1>9 DEF Reconcile, StopSession
    <2> QED
      BY <1>1, <2>1, SweepEffect, TunnelCreateEffect
  <1>10. CASE RetryFires \/ Start
    BY <1>10, TunnelCreateEffect DEF RetryFires, Start
  <1>11. CASE Stop \/ RestartTunnel \/ DeleteWorkspace
    <2>1. \E k \in Kills : Kill(k)
      BY <1>11 DEF Stop, RestartTunnel, DeleteWorkspace, StopSession
    <2> QED
      BY <2>1, SweepEffect
  <1>12. CASE Erase
    <2>1. \E s \in Kills : KillByWorkspaceId(s)
      BY <1>12, IssuersAssumption DEF Erase, Sweep
    <2> QED
      BY <2>1, SweepEffect
  <1>13. CASE UserStep(Panes \ {Tunnel})
    BY <1>13, UserEffect
  <1>14. CASE SweepEnds \/ GiveUp
    BY <1>1, <1>14 DEF SweepEnds, GiveUp
  <1> QED
    BY <1>1, <1>2, <1>3, <1>4, <1>5, <1>6, <1>7, <1>8, <1>9, <1>10, <1>11, <1>12, <1>13, <1>14
    DEF Next, TunnelTurn, vars


-----------------------------------------------------------------------------
(* The limiter. *)

Queued(q) ==
    /\ \A k \in 1..Len(q) : q[k] \in Creates /\ step[q[k]] = "queued"
    /\ \A j, k \in 1..Len(q) : q[j] = q[k] => j = k

SlotInv ==
    /\ inUse \in 0..MaxSlots
    /\ Queued(waiters)
    /\ SlotsAccounted

(* The semaphore's queue grows by an insertion, wherever it is. *)
LEMMA EnqueueInserts ==
  ASSUME waiters \in Seq(Creates), NEW c \in Creates
  PROVE  /\ Enqueue(c) \in Seq(Creates)
         /\ Len(Enqueue(c)) = Len(waiters) + 1
         /\ \E a \in 0..Len(waiters) : \A k \in 1..Len(waiters) + 1 :
               Enqueue(c)[k] = IF k <= a THEN waiters[k]
                               ELSE IF k = a + 1 THEN c ELSE waiters[k - 1]
  <1> DEFINE n == Len(waiters)
             urgents == {k \in 1..n : waiters[k] \in urgent}
             a == IF c \in urgent THEN Cardinality(urgents) ELSE n
             e(k) == IF k <= a THEN waiters[k] ELSE IF k = a + 1 THEN c ELSE waiters[k - 1]
  <1>1. n \in Nat
    OBVIOUS
  <1>2. a \in 0..n
    <2>1. IsFiniteSet(1..n) /\ Cardinality(1..n) = n
      BY <1>1, FS_Interval
    <2>2. IsFiniteSet(urgents) /\ Cardinality(urgents) <= n
      BY <2>1, FS_Subset
    <2>3. Cardinality(urgents) \in Nat
      BY <2>2, FS_CardinalityType
    <2> QED
      BY <1>1, <2>2, <2>3
  <1>3. Enqueue(c) = [k \in 1..n + 1 |-> e(k)]
    BY DEF Enqueue
  <1>4. \A k \in 1..n + 1 : e(k) \in Creates
    <2> SUFFICES ASSUME NEW k \in 1..n + 1 PROVE e(k) \in Creates
      OBVIOUS
    <2>1. k <= a => k \in 1..n
      BY <1>1, <1>2
    <2>2. k > a /\ k # a + 1 => k - 1 \in 1..n
      BY <1>1, <1>2
    <2> HIDE DEF a
    <2> QED
      BY <1>1, <1>2, <2>1, <2>2, ElementOfSeq
  <1> HIDE DEF a
  <1>5. [k \in 1..n + 1 |-> e(k)] \in Seq(Creates)
    BY <1>1, <1>4, IsASeq, n + 1 \in Nat
  <1>6. Len([k \in 1..n + 1 |-> e(k)]) = n + 1
    BY <1>1
  <1> QED
    BY <1>1, <1>2, <1>3, <1>5, <1>6

(* A release frees the slot, or hands it to the first that waits. *)
LEMMA ReleaseHands ==
  ASSUME Shape, SlotInv, NEW c \in Creates, NEW s, Release(c, s)
  PROVE  \/ /\ waiters = <<>> /\ waiters' = <<>>
            /\ inUse' = IF inUse = 0 THEN 0 ELSE inUse - 1
            /\ step' = [step EXCEPT ![c] = s]
         \/ /\ waiters # <<>> /\ inUse = MaxSlots /\ inUse' = MaxSlots
            /\ waiters' \in Seq(Creates)
            /\ Len(waiters') = Len(waiters) - 1
            /\ \A k \in 1..Len(waiters') : waiters'[k] = waiters[k + 1]
            /\ step' = [i \in Issuers |-> IF i = c THEN s
                                          ELSE IF i = waiters[1] THEN "granted" ELSE step[i]]
  <1> DEFINE free == IF inUse = 0 THEN 0 ELSE inUse - 1
             handed == {k \in 1..Len(waiters) : free + k <= MaxSlots}
  <1>1. /\ inUse' = free + Cardinality(handed)
        /\ waiters' = SubSeq(waiters, Cardinality(handed) + 1, Len(waiters))
        /\ step' = [i \in Issuers |->
                      IF i = c THEN s
                      ELSE IF \E k \in handed : waiters[k] = i THEN "granted"
                      ELSE step[i]]
    BY DEF Release
  <1>2. Len(waiters) \in Nat /\ waiters \in Seq(Creates) /\ inUse \in 0..MaxSlots
    BY DEF Shape, SlotInv
  <1>3. CASE waiters = <<>>
    <2>1. handed = {}
      BY <1>3
    <2> HIDE DEF handed
    <2>2. Cardinality(handed) = 0
      BY <2>1, FS_EmptySet
    <2>5. inUse' = free
      BY <1>1, <1>2, <2>2, SlotsAssumption
    <2>3. waiters' = <<>>
      BY <1>1, <1>3, <2>2, SubSeqEmpty
    <2>4. step' = [step EXCEPT ![c] = s]
      BY <1>1, <2>1 DEF Shape
    <2> QED
      BY <1>3, <2>3, <2>4, <2>5
  <1>4. CASE waiters # <<>>
    <2>1. inUse = MaxSlots /\ free = MaxSlots - 1 /\ Len(waiters) >= 1
      BY <1>2, <1>4, SlotsAssumption, EmptySeq DEF SlotInv, SlotsAccounted
    <2>2. handed = {1}
      BY <1>2, <2>1, SlotsAssumption
    <2> HIDE DEF handed
    <2>3. Cardinality(handed) = 1
      BY <2>2, FS_Singleton
    <2>4. waiters' = SubSeq(waiters, 2, Len(waiters))
      BY <1>1, <2>3
    <2>5. \A k \in 2..Len(waiters) : waiters[k] \in Creates
      BY <1>2
    <2>6. /\ waiters' \in Seq(Creates) /\ Len(waiters') = Len(waiters) - 1
          /\ \A k \in 1..Len(waiters') : waiters'[k] = waiters[k + 1]
      <3> DEFINE n == Len(waiters)
      <3>1. n \in Int /\ n >= 1 /\ 2 \in Int
        BY <1>2, <2>1
      <3>2. /\ waiters' \in Seq(Creates)
            /\ Len(waiters') = IF 2 <= n THEN n - 2 + 1 ELSE 0
            /\ \A k \in 1..n - 2 + 1 : waiters'[k] = waiters[2 + k - 1]
        BY <2>4, <2>5, <3>1, SubSeqProperties
      <3> HIDE DEF n
      <3>3. Len(waiters') = n - 1 /\ \A k \in 1..n - 1 : 2 + k - 1 = k + 1
        BY <3>1, <3>2
      <3> QED
        BY <3>1, <3>2, <3>3 DEF n
    <2>7. step' = [i \in Issuers |-> IF i = c THEN s
                                     ELSE IF i = waiters[1] THEN "granted" ELSE step[i]]
      BY <1>1, <2>2
    <2>8. inUse' = MaxSlots
      BY <1>1, <2>1, <2>3, SlotsAssumption
    <2> QED
      BY <1>4, <2>1, <2>6, <2>7, <2>8
  <1> QED
    BY <1>3, <1>4

LEMMA HoldersFinite ==
  /\ IsFiniteSet(Holders)
  /\ Cardinality(Holders) \in Nat
  <1>1. Holders \subseteq Issuers
    BY IssuersAssumption DEF Holders
  <1> QED
    BY <1>1, FS_Subset, FS_CardinalityType, IssuersAssumption

(* The steps that neither take nor free a slot. *)
LEMMA SameSlots ==
  ASSUME Shape, SlotInv, UNCHANGED limiterVars, NEW i \in Issuers, NEW s \in Steps,
         step' = [step EXCEPT ![i] = s], step[i] # "queued",
         step[i] \in Holding <=> s \in Holding
  PROVE  SlotInv'
  <1>1. Holders' = Holders
    BY IssuersAssumption DEF Holders, Shape, Holding
  <1>2. Queued(waiters)'
    BY IssuersAssumption DEF SlotInv, Queued, limiterVars, Shape
  <1> QED
    BY <1>1, <1>2 DEF SlotInv, SlotsAccounted, limiterVars

LEMMA SlotsEnter ==
  ASSUME Shape, SlotInv, NEW c \in Creates, Enters(c)
  PROVE  SlotInv' /\ waiters' \in Seq(Creates)
  <1>1. c \in Issuers /\ step[c] # "queued" /\ step[c] \notin Holding
    BY IssuersAssumption DEF Enters, MayLeave
  <1>2. CASE inUse < MaxSlots
    <2>1. inUse' = inUse + 1 /\ waiters' = waiters /\ step' = [step EXCEPT ![c] = "granted"]
      BY <1>2 DEF Enters, Acquire
    <2>2. waiters = <<>>
      BY <1>2, SlotsAssumption DEF SlotInv, SlotsAccounted
    <2>3. Holders' = Holders \cup {c} /\ c \notin Holders
      BY <1>1, <2>1, IssuersAssumption DEF Holders, Holding, Shape, CreateSteps
    <2>4. Cardinality(Holders)' = Cardinality(Holders) + 1
      BY <2>3, HoldersFinite, FS_AddElement
    <2>5. inUse' \in 0..MaxSlots /\ inUse' <= Cardinality(Holders)'
      BY <1>2, <2>1, <2>4, HoldersFinite, SlotsAssumption DEF SlotInv, SlotsAccounted
    <2> QED
      BY <2>1, <2>2, <2>5 DEF SlotInv, SlotsAccounted, Queued, Shape
  <1>3. CASE ~(inUse < MaxSlots)
    <2>1. waiters' = Enqueue(c) /\ inUse' = inUse /\ step' = [step EXCEPT ![c] = "queued"]
      BY <1>3 DEF Enters, Acquire
    <2>2. inUse' = MaxSlots
      BY <1>3, <2>1, SlotsAssumption DEF SlotInv
    <2>3. Holders' = Holders
      BY <1>1, <2>1, IssuersAssumption DEF Holders, Holding, Shape
    <2>4. waiters \in Seq(Creates) /\ Len(waiters) \in Nat
      BY DEF Shape
    <2>5. waiters' \in Seq(Creates) /\ Len(waiters') = Len(waiters) + 1
      BY <2>1, <2>4, EnqueueInserts
    <2>6. PICK a \in 0..Len(waiters) : \A k \in 1..Len(waiters) + 1 :
             waiters'[k] = IF k <= a THEN waiters[k]
                           ELSE IF k = a + 1 THEN c ELSE waiters[k - 1]
      BY <2>1, <2>4, EnqueueInserts
    <2>7. \A k \in 1..Len(waiters) : waiters[k] \in Creates \ {c} /\ step[waiters[k]] = "queued"
      BY <1>1 DEF SlotInv, Queued
    <2>8. \A k \in 1..Len(waiters)' : waiters'[k] \in Creates /\ step'[waiters'[k]] = "queued"
      <3> SUFFICES ASSUME NEW k \in 1..Len(waiters) + 1
                   PROVE  waiters'[k] \in Creates /\ step'[waiters'[k]] = "queued"
        BY <2>5
      <3>1. CASE k = a + 1
        BY <1>1, <2>1, <2>6, <3>1 DEF Shape
      <3>2. CASE k # a + 1
        <4>1. \E j \in 1..Len(waiters) : waiters'[k] = waiters[j]
          BY <2>4, <2>6, <3>2
        <4> QED
          BY <2>1, <2>7, <4>1, IssuersAssumption DEF Shape
      <3> QED
        BY <3>1, <3>2
    <2>9. \A j, k \in 1..Len(waiters)' : waiters'[j] = waiters'[k] => j = k
      <3> DEFINE source(k) == IF k <= a THEN k ELSE k - 1
      <3>1. \A j, k \in 1..Len(waiters) : waiters[j] = waiters[k] => j = k
        BY DEF SlotInv, Queued
      <3> SUFFICES ASSUME NEW j \in 1..Len(waiters) + 1, NEW k \in 1..Len(waiters) + 1,
                          waiters'[j] = waiters'[k]
                   PROVE  j = k
        BY <2>5
      <3>2. \A i \in 1..Len(waiters) + 1 : i # a + 1 =>
               source(i) \in 1..Len(waiters) /\ waiters'[i] = waiters[source(i)]
        BY <2>4, <2>6
      <3>3. \A i \in 1..Len(waiters) + 1 : i = a + 1 <=> waiters'[i] = c
        BY <2>4, <2>6, <2>7, <3>2
      <3>4. CASE j # a + 1 /\ k # a + 1
        <4>1. source(j) = source(k)
          BY <3>1, <3>2, <3>4
        <4> QED
          BY <2>4, <3>4, <4>1
      <3> QED
        BY <3>3, <3>4
    <2> QED
      BY <2>2, <2>3, <2>5, <2>8, <2>9, <2>1 DEF SlotInv, SlotsAccounted, Queued
  <1> QED
    BY <1>2, <1>3

LEMMA SlotsLeave ==
  ASSUME Shape, SlotInv, NEW c \in Creates, NEW s \in Ends, Leaves(c, s)
  PROVE  SlotInv' /\ waiters' \in Seq(Creates)
  <1>1. c \in Issuers /\ c \in Holders /\ s \notin Holding
    BY IssuersAssumption DEF Leaves, Holders, Holding, Ends, CreateEnds, CreateSteps
  <1>2. Release(c, s)
    BY DEF Leaves
  <1>3. Cardinality(Holders \ {c}) = Cardinality(Holders) - 1 /\ IsFiniteSet(Holders \ {c})
    BY <1>1, HoldersFinite, FS_RemoveElement
  <1>4. CASE waiters = <<>>
    <2>1. /\ waiters' = <<>> /\ inUse' = IF inUse = 0 THEN 0 ELSE inUse - 1
          /\ step' = [step EXCEPT ![c] = s]
      BY <1>2, <1>4, ReleaseHands
    <2>2. Holders' = Holders \ {c}
      BY <1>1, <2>1, IssuersAssumption DEF Holders, Holding, Shape
    <2>3. inUse' \in 0..MaxSlots /\ inUse' <= Cardinality(Holders')
      <3>1. /\ inUse \in 0..MaxSlots /\ inUse <= Cardinality(Holders)
            /\ Cardinality(Holders') = Cardinality(Holders) - 1 /\ Cardinality(Holders) \in Nat
        BY <1>3, <2>2, HoldersFinite DEF SlotInv, SlotsAccounted
      <3>2. CASE inUse = 0
        <4>1. Cardinality(Holders') \in Nat
          BY <1>3, <2>2, FS_CardinalityType
        <4> QED
          BY <2>1, <3>2, <4>1, SlotsAssumption
      <3>3. CASE inUse # 0
        BY <2>1, <3>1, <3>3, SlotsAssumption
      <3> QED
        BY <3>2, <3>3
    <2> QED
      BY <2>1, <2>3, EmptySeq DEF SlotInv, SlotsAccounted, Queued
  <1>5. CASE waiters # <<>>
    <2>1. /\ inUse = MaxSlots /\ inUse' = MaxSlots
          /\ waiters' \in Seq(Creates) /\ Len(waiters') = Len(waiters) - 1
          /\ \A k \in 1..Len(waiters') : waiters'[k] = waiters[k + 1]
          /\ step' = [i \in Issuers |-> IF i = c THEN s
                                        ELSE IF i = waiters[1] THEN "granted" ELSE step[i]]
      BY <1>2, <1>5, ReleaseHands
    <2>2. Len(waiters) \in Nat /\ 1 \in 1..Len(waiters)
      BY <1>5, EmptySeq DEF Shape
    <2>3. /\ waiters[1] \in Creates /\ step[waiters[1]] = "queued"
          /\ waiters[1] # c /\ waiters[1] \notin Holders
      BY <1>1, <2>2 DEF SlotInv, Queued, Holders, Holding
    <2>4. Holders' = (Holders \ {c}) \cup {waiters[1]}
      BY <1>1, <2>1, <2>3, IssuersAssumption DEF Holders, Holding, CreateSteps
    <2>5. Cardinality(Holders)' = Cardinality(Holders)
      <3>1. Cardinality(Holders') = Cardinality(Holders \ {c}) + 1
        BY <1>3, <2>3, <2>4, FS_AddElement
      <3> QED
        BY <1>3, <3>1, HoldersFinite
    <2>6. \A k \in 1..Len(waiters)' : k + 1 \in 1..Len(waiters) /\ k + 1 # 1
      BY <2>1, <2>2
    <2>7. \A k \in 1..Len(waiters)' : waiters'[k] \in Creates /\ step'[waiters'[k]] = "queued"
      <3> SUFFICES ASSUME NEW k \in 1..Len(waiters)'
                   PROVE  waiters'[k] \in Creates /\ step'[waiters'[k]] = "queued"
        OBVIOUS
      <3>1. waiters'[k] = waiters[k + 1] /\ k + 1 \in 1..Len(waiters) /\ k + 1 # 1
        BY <2>1, <2>6
      <3>2. waiters[k + 1] \in Creates /\ step[waiters[k + 1]] = "queued"
            /\ waiters[k + 1] # waiters[1]
        BY <2>2, <3>1 DEF SlotInv, Queued
      <3>3. waiters[k + 1] # c /\ waiters[k + 1] \in Issuers
        BY <1>1, <3>2, IssuersAssumption DEF Holders, Holding
      <3> QED
        BY <2>1, <3>1, <3>2, <3>3
    <2>8. \A j, k \in 1..Len(waiters)' : waiters'[j] = waiters'[k] => j = k
      BY <2>1, <2>2, <2>6 DEF SlotInv, Queued
    <2> QED
      BY <2>1, <2>5, <2>7, <2>8, SlotsAssumption DEF SlotInv, SlotsAccounted, Queued
  <1> QED
    BY <1>4, <1>5


-----------------------------------------------------------------------------
(* Both survive every effect. *)

LEMMA ShapeInit ==
  ASSUME Init
  PROVE  Shape /\ SlotInv
  <1> USE DEF Init, ServiceInit
  <1>1. Shape
    <2>1. daemon \in [Panes -> {"none", "live", "dying"}]
      OBVIOUS
    <2> QED
      BY <2>1, EmptySeq DEF Shape, Steps
  <1>2. inUse = 0 /\ waiters = <<>> /\ Len(waiters) = 0
    BY EmptySeq
  <1> QED
    BY <1>1, <1>2, SlotsAssumption, HoldersFinite DEF SlotInv, SlotsAccounted, Queued

(* Putting a call in another step, and adding a request. *)
LEMMA ShapeMoves ==
  ASSUME Shape, NEW i \in Issuers, NEW s \in Steps, pane[i] \in Panes,
         step' = [step EXCEPT ![i] = s],
         UNCHANGED <<pane, daemon, spawning, limiterVars>>,
         killed' \subseteq killed \cup {pane[i]},
         \/ UNCHANGED <<answer, wire>>
         \/ \E kind \in Kinds : /\ answer' = [answer EXCEPT ![i] = "none"]
                                /\ wire' = Append(wire, [kind |-> kind, from |-> i])
  PROVE  Shape'
  <1>1. step' \in [Issuers -> Steps] /\ \A j \in Issuers : step'[j] # "unused" => pane[j] \in Panes
    BY DEF Shape
  <1>2. answer' \in [Issuers -> {"none", "ok", "failed", "changed"}]
    BY DEF Shape
  <1>3. /\ wire' \in Seq([kind : Kinds, from : Issuers])
        /\ \A k \in 1..Len(wire') : pane[wire'[k].from] \in Panes
    <2>1. CASE UNCHANGED wire
      BY <2>1 DEF Shape
    <2>2. CASE \E kind \in Kinds : wire' = Append(wire, [kind |-> kind, from |-> i])
      <3>1. PICK kind \in Kinds : wire' = Append(wire, [kind |-> kind, from |-> i])
        BY <2>2
      <3> DEFINE m == [kind |-> kind, from |-> i]
      <3>2. m \in [kind : Kinds, from : Issuers] /\ pane[m.from] \in Panes
        OBVIOUS
      <3> HIDE DEF m
      <3>3. /\ wire' \in Seq([kind : Kinds, from : Issuers])
            /\ Len(wire') = Len(wire) + 1
            /\ \A k \in 1..Len(wire) : wire'[k] = wire[k]
            /\ wire'[Len(wire) + 1] = m
        BY <3>1, <3>2, AppendProperties DEF Shape, m
      <3>4. Len(wire) \in Nat
        BY DEF Shape
      <3>5. \A k \in 1..Len(wire') : k \in 1..Len(wire) \/ k = Len(wire) + 1
        BY <3>3, <3>4
      <3>6. \A k \in 1..Len(wire) : pane[wire[k].from] \in Panes
        BY DEF Shape
      <3> QED
        BY <3>2, <3>3, <3>5, <3>6
    <2> QED
      BY <2>1, <2>2
  <1> QED
    BY <1>1, <1>2, <1>3 DEF Shape, limiterVars

LEMMA WireKept ==
  ASSUME Shape, wire' = wire \/ wire' = <<>>
  PROVE  /\ wire' \in Seq([kind : Kinds, from : Issuers])
         /\ \A k \in 1..Len(wire') : pane[wire'[k].from] \in Panes
  <1>1. CASE wire' = wire
    BY <1>1 DEF Shape
  <1>2. CASE wire' = <<>>
    <2>1. wire' \in Seq([kind : Kinds, from : Issuers])
      BY <1>2, EmptySeq
    <2>2. Len(wire') = 0
      BY <1>2
    <2> QED
      BY <2>1, <2>2
  <1> QED
    BY <1>1, <1>2

LEMMA ShapeSlots ==
  ASSUME Shape, SlotInv, Effect
  PROVE  Shape' /\ SlotInv'
  <1>1. CASE Rest
    BY <1>1 DEF Rest, Shape, SlotInv, SlotsAccounted, Queued, Holders, limiterVars
  <1>2. CASE \E i \in Issuers, s \in Steps : Moves(i, s)
    BY <1>2, ShapeMoves, SameSlots DEF Moves, MayLeave, limiterVars
  <1>3. CASE \E i \in Issuers, kind \in Kinds, s \in Steps : Asks(i, kind, s)
    BY <1>3, ShapeMoves, SameSlots DEF Asks, MayLeave, limiterVars
  <1>4. CASE \E c \in Creates : Enters(c)
    <2>1. PICK c \in Creates : Enters(c)
      BY <1>4
    <2>2. SlotInv' /\ waiters' \in Seq(Creates) /\ c \in Issuers /\ pane[c] \in Panes
      BY <2>1, SlotsEnter, IssuersAssumption DEF Enters, MayLeave
    <2>3. \E s \in {"granted", "queued"} : step' = [step EXCEPT ![c] = s]
      BY <2>1 DEF Enters, Acquire
    <2>4. /\ step' \in [Issuers -> Steps]
          /\ \A j \in Issuers : step'[j] # "unused" => pane[j] \in Panes
      BY <2>2, <2>3 DEF Shape, Steps, CreateSteps
    <2> QED
      BY <2>1, <2>2, <2>4, SlotsAssumption DEF Enters, Shape, SlotInv
  <1>5. CASE \E c \in Creates, s \in Ends : Leaves(c, s)
    <2>1. PICK c \in Creates, s \in Ends : Leaves(c, s)
      BY <1>5
    <2>2. SlotInv' /\ waiters' \in Seq(Creates) /\ c \in Issuers /\ pane[c] \in Panes
      BY <2>1, SlotsLeave, IssuersAssumption DEF Leaves, MayLeave
    <2>3. \/ step' = [step EXCEPT ![c] = s]
          \/ /\ waiters # <<>>
             /\ step' = [i \in Issuers |-> IF i = c THEN s
                                           ELSE IF i = waiters[1] THEN "granted" ELSE step[i]]
      BY <2>1, ReleaseHands DEF Leaves
    <2>4. waiters # <<>> => waiters[1] \in Creates /\ step[waiters[1]] = "queued"
      <3> SUFFICES ASSUME waiters # <<>>
                   PROVE  waiters[1] \in Creates /\ step[waiters[1]] = "queued"
        OBVIOUS
      <3>1. 1 \in 1..Len(waiters)
        BY EmptySeq DEF Shape
      <3> QED
        BY <3>1 DEF SlotInv, Queued
    <2>5. /\ step' \in [Issuers -> Steps]
          /\ \A j \in Issuers : step'[j] # "unused" => pane[j] \in Panes
      <3>1. s \in Steps /\ "granted" \in Steps
        BY DEF Steps, CreateSteps
      <3>2. step \in [Issuers -> Steps] /\ \A j \in Issuers : step[j] # "unused" => pane[j] \in Panes
        BY DEF Shape
      <3>3. waiters # <<>> => waiters[1] \in Issuers /\ pane[waiters[1]] \in Panes
        BY <2>4, <3>2, IssuersAssumption
      <3>4. CASE step' = [step EXCEPT ![c] = s]
        BY <2>2, <3>1, <3>2, <3>4
      <3>5. CASE /\ waiters # <<>>
                 /\ step' = [i \in Issuers |-> IF i = c THEN s
                                               ELSE IF i = waiters[1] THEN "granted" ELSE step[i]]
        BY <2>2, <3>1, <3>2, <3>3, <3>5
      <3> QED
        BY <2>3, <3>4, <3>5
    <2> QED
      BY <2>1, <2>2, <2>5, SlotsAssumption DEF Leaves, Shape, SlotInv
  <1>6. CASE \E i \in Issuers : RequestFails(i)
    BY <1>6 DEF RequestFails, Shape, SlotInv, SlotsAccounted, Queued, Holders, limiterVars, paramVars,
               managerVars
  <1>7. CASE \E p \in Panes : ShellExits(p)
    BY <1>7 DEF ShellExits, Shape, SlotInv, SlotsAccounted, Queued, Holders, limiterVars, paramVars,
               callVars, managerVars
  <1>8. CASE DaemonHandles
    <2>1. wire # <<>> /\ wire' = Tail(wire)
      BY <1>8 DEF DaemonHandles
    <2>2. /\ wire' \in Seq([kind : Kinds, from : Issuers])
          /\ \A k \in 1..Len(wire') : pane[wire'[k].from] \in Panes
          /\ Head(wire) = wire[1] /\ Head(wire).from \in Issuers /\ pane[Head(wire).from] \in Panes
      <3>1. wire \in Seq([kind : Kinds, from : Issuers]) /\ Len(wire) \in Nat
            /\ \A k \in 1..Len(wire) : pane[wire[k].from] \in Panes
        BY DEF Shape
      <3>2. /\ wire' \in Seq([kind : Kinds, from : Issuers])
            /\ Len(wire') = Len(wire) - 1
            /\ \A k \in 1..Len(wire') : wire'[k] = wire[k + 1]
        BY <2>1, <3>1, HeadTailProperties
      <3>3. Head(wire) = wire[1] /\ 1 \in 1..Len(wire)
        BY <2>1, <3>1, EmptySeq
      <3>4. \A k \in 1..Len(wire') : k + 1 \in 1..Len(wire) /\ wire'[k] = wire[k + 1]
        BY <3>1, <3>2
      <3>5. wire[1] \in [kind : Kinds, from : Issuers]
        BY <3>1, <3>3, ElementOfSeq
      <3> QED
        BY <3>1, <3>2, <3>3, <3>4, <3>5
    <2>3. /\ answer' \in [Issuers -> {"none", "ok", "failed", "changed"}]
          /\ daemon' \in [Panes -> {"none", "live", "dying"}]
      BY <1>8, <2>2 DEF DaemonHandles, Answer, Shape
    <2>4. spawning' \subseteq Issuers /\ \A c \in spawning' : pane[c] \in Panes
      BY <1>8, <2>2 DEF DaemonHandles, Shape
    <2>5. UNCHANGED <<pane, step, killed, limiterVars>>
      BY <1>8 DEF DaemonHandles, paramVars, managerVars
    <2> QED
      BY <2>2, <2>3, <2>4, <2>5 DEF Shape, SlotInv, SlotsAccounted, Queued, Holders, limiterVars
  <1>9. CASE \E c \in Creates : Spawned(c)
    <2>1. PICK c \in Creates : Spawned(c)
      BY <1>9
    <2>2. UNCHANGED <<pane, step, wire, killed, limiterVars>> /\ spawning' \subseteq spawning
      BY <2>1 DEF Spawned, paramVars, managerVars
    <2>3. /\ answer' \in [Issuers -> {"none", "ok", "failed", "changed"}]
          /\ daemon' \in [Panes -> {"none", "live", "dying"}]
      BY <2>1 DEF Spawned, Answer, Shape
    <2> QED
      BY <2>2, <2>3 DEF Shape, SlotInv, SlotsAccounted, Queued, Holders, limiterVars
  <1>10. CASE Disconnect
    <2>1. /\ UNCHANGED <<pane, step, spawning, daemon, killed, limiterVars>>
          /\ wire' = wire \/ wire' = <<>>
          /\ answer' = [i \in Issuers |-> IF Awaiting(i) THEN "failed" ELSE answer[i]]
      BY <1>10 DEF Disconnect, LoseConnection, paramVars
    <2>2. answer' \in [Issuers -> {"none", "ok", "failed", "changed"}]
      BY <2>1 DEF Shape
    <2>3. /\ wire' \in Seq([kind : Kinds, from : Issuers])
          /\ \A k \in 1..Len(wire') : pane[wire'[k].from] \in Panes
      BY <2>1, WireKept
    <2> QED
      BY <2>1, <2>2, <2>3 DEF Shape, SlotInv, SlotsAccounted, Queued, Holders, limiterVars
  <1>11. CASE Restart
    <2>1. SlotInv'
      <3>1. inUse' = 0 /\ waiters' = <<>> /\ Len(waiters') = 0
        BY <1>11, EmptySeq DEF Restart
      <3>2. Holders' \subseteq Issuers
        BY IssuersAssumption DEF Holders
      <3>3. Cardinality(Holders') \in Nat
        BY <3>2, FS_Subset, FS_CardinalityType, IssuersAssumption
      <3> QED
        BY <3>1, <3>3, SlotsAssumption DEF SlotInv, SlotsAccounted, Queued
    <2>2. Shape'
      <3>1. /\ pane' = pane /\ killed' = {} /\ inUse' = 0 /\ waiters' = <<>>
            /\ wire' = wire \/ wire' = <<>>
            /\ spawning' \subseteq spawning
            /\ daemon' = daemon \/ daemon' = [p \in Panes |-> "none"]
            /\ answer' = [i \in Issuers |-> IF Awaiting(i) THEN "failed" ELSE answer[i]]
            /\ step' = [i \in Issuers |-> IF step[i] = "queued" THEN "failed" ELSE step[i]]
        BY <1>11 DEF Restart, LoseConnection, paramVars
      <3>2. "failed" \in Steps
        BY DEF Steps, Ends, CreateEnds
      <3>3. /\ answer' \in [Issuers -> {"none", "ok", "failed", "changed"}]
            /\ step' \in [Issuers -> Steps]
            /\ \A i \in Issuers : step'[i] # "unused" => pane[i] \in Panes
        BY <3>1, <3>2 DEF Shape
      <3>4. /\ wire' \in Seq([kind : Kinds, from : Issuers])
            /\ \A k \in 1..Len(wire') : pane[wire'[k].from] \in Panes
        BY <3>1, WireKept
      <3>5. /\ inUse' \in Nat /\ waiters' \in Seq(Creates)
            /\ spawning' \subseteq Issuers /\ \A c \in spawning' : pane[c] \in Panes
            /\ daemon' \in [Panes -> {"none", "live", "dying"}]
        BY <3>1, EmptySeq DEF Shape
      <3> QED
        BY <3>1, <3>3, <3>4, <3>5 DEF Shape
    <2> QED
      BY <2>1, <2>2
  <1> QED
    BY <1>1, <1>2, <1>3, <1>4, <1>5, <1>6, <1>7, <1>8, <1>9, <1>10, <1>11 DEF Effect

(* In every state, until a restart of the service resets the semaphore,    *)
(* every slot of the PrioritySemaphore that is taken has a creation that   *)
(* holds it and will release it, and no creation waits while one is free;  *)
(* after a restart, which forgets the slots but not their holders, none is *)
(* counted twice: acquire, release and pump, on every path of              *)
(* doCreateOrAttach.                                                       *)
THEOREM SlotsAlwaysAccounted == Spec => []SlotsAccounted
  <1>1. Init => Shape /\ SlotInv
    BY ShapeInit
  <1>2. Shape /\ SlotInv /\ [Next]_vars => (Shape /\ SlotInv)'
    BY NextEffect, ShapeSlots
  <1>3. SlotInv => SlotsAccounted
    BY DEF SlotInv
  <1> QED
    BY <1>1, <1>2, <1>3, PTL DEF Spec


-----------------------------------------------------------------------------
(* Kills.  Of a pane none of whose requests failed: a request on its way,  *)
(* and a session being spawned, are still awaited by their call, one at a  *)
(* time; and when the pane is killed although its session is up, the kill  *)
(* is on its way, or the creation that the session is for will look at the *)
(* tombstone.                                                              *)

Calm(p) == p \notin disturbed

Asked ==
    \A k \in 1..Len(wire) : Calm(pane[wire[k].from]) =>
        step[wire[k].from] \in Awaited(wire[k].kind) /\ answer[wire[k].from] = "none"

Once ==
    \A j, k \in 1..Len(wire) :
        wire[j].from = wire[k].from /\ Calm(pane[wire[j].from]) => j = k

Coming ==
    \A c \in spawning : Calm(pane[c]) =>
        /\ step[c] = "requested" /\ answer[c] = "none"
        /\ \A k \in 1..Len(wire) : wire[k].from # c

KillSent(p) == \E k \in 1..Len(wire) : wire[k].kind = "kill" /\ pane[wire[k].from] = p
Watched(p) == \E c \in Issuers : pane[c] = p /\ Witness(c)

Ending == \A p \in killed : Calm(p) /\ daemon[p] = "live" => KillSent(p) \/ Watched(p)

KillInv == Asked /\ Once /\ Coming /\ Ending

LEMMA WireCalls ==
  ASSUME Shape
  PROVE  \A k \in 1..Len(wire) : wire[k].from \in Issuers /\ wire[k].kind \in Kinds
  <1> SUFFICES ASSUME NEW k \in 1..Len(wire)
               PROVE  wire[k].from \in Issuers /\ wire[k].kind \in Kinds
    OBVIOUS
  <1>1. wire[k] \in [kind : Kinds, from : Issuers]
    BY ElementOfSeq DEF Shape
  <1> QED
    BY <1>1

LEMMA AwaitedWaits == \A kind : Awaited(kind) \subseteq Waits
  BY DEF Awaited, Waits

(* Calls that await nothing of the daemon go on. *)
LEMMA CallsGoOn ==
  ASSUME Shape, KillInv, NEW S \in SUBSET Issuers,
         UNCHANGED <<answer, wire, spawning, daemon, pane, disturbed>>, killed' \subseteq killed,
         \A j \in Issuers \ S : step'[j] = step[j],
         \A j \in S : step[j] \in Waits => answer[j] # "none",
         \A j \in S : Witness(j) => step'[j] = "writing" \/ pane[j] \notin killed
  PROVE  KillInv'
  <1>1. \A k \in 1..Len(wire) : Calm(pane[wire[k].from]) => wire[k].from \in Issuers \ S
    BY WireCalls, AwaitedWaits DEF KillInv, Asked
  <1>2. \A c \in spawning : Calm(pane[c]) => c \in Issuers \ S
    BY DEF KillInv, Coming, Shape, Waits
  <1>3. Asked' /\ Once' /\ Coming'
    BY <1>1, <1>2 DEF KillInv, Asked, Once, Coming, Calm, Awaited
  <1>4. Ending'
    <2> SUFFICES ASSUME NEW p \in killed, Calm(p), daemon[p] = "live"
                 PROVE  KillSent(p)' \/ Watched(p)'
      BY DEF Ending, Calm
    <2>1. CASE KillSent(p)
      BY <2>1 DEF KillSent
    <2>2. CASE Watched(p)
      <3>1. PICK c \in Issuers : pane[c] = p /\ Witness(c)
        BY <2>2 DEF Watched
      <3>2. Witness(c)'
        BY <3>1 DEF Witness
      <3> QED
        BY <3>1, <3>2 DEF Watched
    <2> QED
      BY <2>1, <2>2 DEF KillInv, Ending
  <1> QED
    BY <1>3, <1>4 DEF KillInv

LEMMA KillsAsk ==
  ASSUME Shape, KillInv, NEW i \in Issuers, NEW kind \in Kinds, NEW s \in Steps, Asks(i, kind, s)
  PROVE  KillInv'
  <1> DEFINE m == [kind |-> kind, from |-> i]
             n == Len(wire)
  <1>1. /\ n \in Nat /\ Len(wire') = n + 1
        /\ \A k \in 1..n : wire'[k] = wire[k]
        /\ wire'[n + 1] = m
    <2>1. wire' = Append(wire, m) /\ m \in [kind : Kinds, from : Issuers]
      BY DEF Asks
    <2> HIDE DEF m
    <2> QED
      BY <2>1, AppendProperties DEF Shape
  <1>2. /\ UNCHANGED <<spawning, daemon, pane, disturbed>>
        /\ step' = [step EXCEPT ![i] = s] /\ answer' = [answer EXCEPT ![i] = "none"]
        /\ step[i] \in Waits => answer[i] # "none"
        /\ s \in Awaited(kind)
        /\ Witness(i) => kind = "kill" \/ pane[i] \notin killed
        /\ killed' \subseteq killed \cup {p \in {pane[i]} : kind = "kill"}
    BY DEF Asks, MayLeave
  <1>3. \A k \in 1..n : Calm(pane[wire[k].from]) => wire[k].from \in Issuers \ {i}
    BY <1>2, WireCalls, AwaitedWaits DEF KillInv, Asked
  <1>4. \A c \in spawning : Calm(pane[c]) => c \in Issuers \ {i}
    BY <1>2 DEF KillInv, Coming, Shape, Waits
  <1>5. \A k \in 1..n + 1 : k \in 1..n \/ k = n + 1
    BY <1>1
  <1>6. \A j \in Issuers \ {i} : step'[j] = step[j] /\ answer'[j] = answer[j]
    BY <1>2 DEF Shape
  <1>7. step'[i] = s /\ answer'[i] = "none"
    BY <1>2 DEF Shape
  <1> HIDE DEF n
  <1>8. Asked'
    <2> SUFFICES ASSUME NEW k \in 1..n + 1, Calm(pane[wire'[k].from])
                 PROVE  step'[wire'[k].from] \in Awaited(wire'[k].kind)
                        /\ answer'[wire'[k].from] = "none"
      BY <1>1, <1>2 DEF Asked, Calm, Awaited
    <2>1. CASE k \in 1..n
      BY <1>1, <1>3, <1>6, <2>1 DEF KillInv, Asked, n
    <2>2. CASE k = n + 1
      BY <1>1, <1>2, <1>7, <2>2
    <2> QED
      BY <1>5, <2>1, <2>2
  <1>9. Once'
    <2> SUFFICES ASSUME NEW j \in 1..n + 1, NEW k \in 1..n + 1,
                        wire'[j].from = wire'[k].from, Calm(pane[wire'[j].from])
                 PROVE  j = k
      BY <1>1, <1>2 DEF Once, Calm
    <2>1. CASE j \in 1..n /\ k \in 1..n
      BY <1>1, <2>1 DEF KillInv, Once, n
    <2>2. CASE j = n + 1 \/ k = n + 1
      BY <1>1, <1>3, <1>5, <2>2
    <2> QED
      BY <1>5, <2>1, <2>2
  <1>10. Coming'
    <2> SUFFICES ASSUME NEW c \in spawning, Calm(pane[c])
                 PROVE  /\ step'[c] = "requested" /\ answer'[c] = "none"
                        /\ \A k \in 1..n + 1 : wire'[k].from # c
      BY <1>1, <1>2 DEF Coming, Calm
    <2>1. c \in Issuers \ {i}
      BY <1>4
    <2> QED
      BY <1>1, <1>5, <1>6, <2>1 DEF KillInv, Coming, n
  <1>11. Ending'
    <2> SUFFICES ASSUME NEW p \in killed', Calm(p), daemon[p] = "live"
                 PROVE  KillSent(p)' \/ Watched(p)'
      BY <1>2 DEF Ending, Calm
    <2>1. CASE kind = "kill" /\ p = pane[i]
      <3>1. n + 1 \in 1..Len(wire')
        BY <1>1
      <3> QED
        BY <1>1, <1>2, <2>1, <3>1 DEF KillSent
    <2>2. CASE ~(kind = "kill" /\ p = pane[i])
      <3>1. p \in killed
        BY <1>2, <2>2
      <3>2. CASE KillSent(p)
        <4>1. PICK k \in 1..n : wire[k].kind = "kill" /\ pane[wire[k].from] = p
          BY <3>2 DEF KillSent, n
        <4>2. k \in 1..Len(wire')
          BY <1>1
        <4> QED
          BY <1>1, <1>2, <4>1, <4>2 DEF KillSent
      <3>3. CASE Watched(p)
        <4>1. PICK c \in Issuers : pane[c] = p /\ Witness(c)
          BY <3>3 DEF Watched
        <4>2. c # i
          BY <1>2, <2>2, <3>1, <4>1
        <4> QED
          BY <1>2, <1>6, <4>1, <4>2 DEF Watched, Witness
      <3> QED
        BY <3>1, <3>2, <3>3 DEF KillInv, Ending
    <2> QED
      BY <2>1, <2>2
  <1> QED
    BY <1>8, <1>9, <1>10, <1>11 DEF KillInv


(* A request fails, and disturbs its pane. *)
LEMMA KillsFail ==
  ASSUME Shape, KillInv, NEW i \in Issuers, RequestFails(i)
  PROVE  KillInv'
  <1>1. /\ UNCHANGED <<step, wire, daemon, pane, killed>>
        /\ spawning' \subseteq spawning
        /\ disturbed' = disturbed \cup {pane[i]}
        /\ \A j \in Issuers \ {i} : answer'[j] = answer[j]
    BY DEF RequestFails, paramVars, managerVars, Shape
  <1>2. \A j \in Issuers : pane[j] \notin disturbed' => j # i /\ Calm(pane[j])
    BY <1>1 DEF Calm
  <1>3. Asked' /\ Once' /\ Coming'
    BY <1>1, <1>2, WireCalls DEF KillInv, Asked, Once, Coming, Calm, Awaited, Shape
  <1>4. Ending'
    <2> SUFFICES ASSUME NEW p \in killed, p \notin disturbed', daemon[p] = "live"
                 PROVE  KillSent(p)' \/ Watched(p)'
      BY <1>1 DEF Ending, Calm
    <2>1. KillSent(p) \/ Watched(p)
      BY <1>1 DEF KillInv, Ending, Calm
    <2>2. CASE KillSent(p)
      BY <1>1, <2>2 DEF KillSent
    <2>3. CASE Watched(p)
      <3>1. PICK c \in Issuers : pane[c] = p /\ Witness(c)
        BY <2>3 DEF Watched
      <3> QED
        BY <1>1, <1>2, <3>1 DEF Watched, Witness
    <2> QED
      BY <2>1, <2>2, <2>3
  <1> QED
    BY <1>3, <1>4 DEF KillInv

LEMMA KillsShellExits ==
  ASSUME Shape, KillInv, NEW p \in Panes, ShellExits(p)
  PROVE  KillInv'
  <1>1. /\ UNCHANGED <<step, answer, wire, spawning, pane, killed>>
        /\ disturbed \subseteq disturbed'
        /\ \A q \in Panes : daemon'[q] = "live" => daemon[q] = "live"
    BY DEF ShellExits, callVars, paramVars, managerVars, Shape
  <1>2. Asked' /\ Once' /\ Coming'
    BY <1>1 DEF KillInv, Asked, Once, Coming, Calm, Awaited
  <1>3. Ending'
    BY <1>1 DEF Shape, KillInv, Ending, Calm, KillSent, Watched, Witness
  <1> QED
    BY <1>2, <1>3 DEF KillInv

(* The daemon handles the first request. *)
LEMMA KillsHandled ==
  ASSUME Shape, KillInv, DaemonHandles
  PROVE  KillInv'
  <1> DEFINE m == wire[1]
             i == m.from
             p == pane[i]
  <1>1. /\ Len(wire) \in Nat /\ 1 \in 1..Len(wire) /\ Head(wire) = m
        /\ Len(wire') = Len(wire) - 1
        /\ \A k \in 1..Len(wire') : wire'[k] = wire[k + 1]
    <2>1. wire # <<>> /\ wire' = Tail(wire) /\ wire \in Seq([kind : Kinds, from : Issuers])
      BY DEF DaemonHandles, Shape
    <2> QED
      BY <2>1, HeadTailProperties, EmptySeq
  <1>2. i \in Issuers /\ p \in Panes /\ m.kind \in Kinds
    BY <1>1, WireCalls DEF Shape
  <1>3. \A k \in 1..Len(wire') : k + 1 \in 2..Len(wire) /\ k + 1 \in 1..Len(wire) /\ k + 1 # 1
    BY <1>1
  <1>4. /\ UNCHANGED <<step, pane, killed, disturbed>>
        /\ \A j \in Issuers \ {i} : answer'[j] = answer[j]
        /\ answer'[i] # answer[i] => Awaiting(i)
    BY <1>1 DEF DaemonHandles, Answer, paramVars, managerVars, faultVars, Shape
  <1>5. \A k \in 1..Len(wire') : Calm(pane[wire'[k].from]) => wire'[k].from \in Issuers \ {i}
    <2> SUFFICES ASSUME NEW k \in 1..Len(wire'), Calm(pane[wire'[k].from])
                 PROVE  wire'[k].from \in Issuers \ {i}
      OBVIOUS
    <2>1. wire'[k] = wire[k + 1] /\ k + 1 \in 1..Len(wire) /\ k + 1 # 1
      BY <1>1, <1>3
    <2> QED
      BY <1>1, <2>1, WireCalls DEF KillInv, Once
  <1>6. \A c \in spawning : Calm(pane[c]) => c \in Issuers \ {i}
    BY <1>1 DEF KillInv, Coming, Shape
  <1>7. m.kind = "create" /\ daemon[p] # "live" /\ Calm(p) =>
           step[i] = "requested" /\ answer[i] = "none"
    BY <1>1 DEF KillInv, Asked, Awaited
  <1>8. spawning' = spawning \/ (m.kind = "create" /\ daemon[p] # "live" /\ answer' = answer
                                 /\ spawning' = spawning \cup {i})
    BY <1>1 DEF DaemonHandles
  <1>13. \/ m.kind = "kill" /\ daemon' = [daemon EXCEPT ![p] = IF @ = "live" THEN "dying" ELSE @]
         \/ m.kind # "kill" /\ (daemon' = daemon \/ daemon' = [daemon EXCEPT ![p] = "none"])
    BY <1>1 DEF DaemonHandles
  <1> HIDE DEF m, i, p
  <1>9. Asked'
    <2> SUFFICES ASSUME NEW k \in 1..Len(wire'), Calm(pane[wire'[k].from])
                 PROVE  step[wire'[k].from] \in Awaited(wire'[k].kind)
                        /\ answer'[wire'[k].from] = "none"
      BY <1>4 DEF Asked, Calm, Awaited
    <2>1. wire'[k] = wire[k + 1] /\ k + 1 \in 1..Len(wire)
      BY <1>1, <1>3
    <2> QED
      BY <1>4, <1>5, <2>1 DEF KillInv, Asked
  <1>10. Once'
    <2> SUFFICES ASSUME NEW j \in 1..Len(wire'), NEW k \in 1..Len(wire'),
                        wire'[j].from = wire'[k].from, Calm(pane[wire'[j].from])
                 PROVE  j = k
      BY <1>4 DEF Once, Calm
    <2>1. /\ wire'[j] = wire[j + 1] /\ j + 1 \in 1..Len(wire)
          /\ wire'[k] = wire[k + 1] /\ k + 1 \in 1..Len(wire)
      BY <1>1, <1>3
    <2>2. j + 1 = k + 1
      BY <2>1 DEF KillInv, Once
    <2> QED
      BY <1>1, <2>2
  <1>11. Coming'
    <2> SUFFICES ASSUME NEW c \in spawning', Calm(pane[c])
                 PROVE  /\ step[c] = "requested" /\ answer'[c] = "none"
                        /\ \A k \in 1..Len(wire') : wire'[k].from # c
      BY <1>4 DEF Coming, Calm
    <2>1. CASE c \in spawning
      <3>1. \A k \in 1..Len(wire') : wire'[k].from # c
        BY <1>1, <1>3, <2>1 DEF KillInv, Coming
      <3> QED
        BY <1>4, <1>6, <2>1, <3>1 DEF KillInv, Coming
    <2>2. CASE c \notin spawning
      <3>1. c = i /\ m.kind = "create" /\ daemon[p] # "live" /\ answer' = answer
        BY <1>8, <2>2
      <3> QED
        BY <1>5, <1>7, <3>1 DEF p
    <2> QED
      BY <2>1, <2>2
  <1>12. Ending'
    <2> SUFFICES ASSUME NEW q \in killed, Calm(q), daemon'[q] = "live"
                 PROVE  KillSent(q)' \/ Watched(q)'
      BY <1>4 DEF Ending, Calm
    <2>1. daemon[q] = "live" /\ ~(m.kind = "kill" /\ q = p)
      BY <1>2, <1>13 DEF Shape
    <2>2. CASE KillSent(q)
      <3>1. PICK k \in 1..Len(wire) : wire[k].kind = "kill" /\ pane[wire[k].from] = q
        BY <2>2 DEF KillSent
      <3>2. k # 1
        BY <2>1, <3>1 DEF m, i, p
      <3>3. k - 1 \in 1..Len(wire') /\ wire'[k - 1] = wire[k]
        BY <1>1, <3>2
      <3> QED
        BY <1>4, <3>1, <3>3 DEF KillSent
    <2>3. CASE Watched(q)
      <3>1. PICK c \in Issuers : pane[c] = q /\ Witness(c)
        BY <2>3 DEF Watched
      <3>2. step[c] = "writing" \/ (step[c] = "requested" /\ answer'[c] = "ok")
        BY <1>4, <3>1 DEF Witness, Awaiting
      <3> QED
        BY <1>4, <3>1, <3>2 DEF Watched, Witness
    <2> QED
      BY <2>1, <2>2, <2>3 DEF KillInv, Ending
  <1> QED
    BY <1>9, <1>10, <1>11, <1>12 DEF KillInv

(* A session comes up, and its creation has its answer. *)
LEMMA KillsSpawned ==
  ASSUME Shape, KillInv, NEW c \in Creates, Spawned(c)
  PROVE  KillInv'
  <1>1. /\ UNCHANGED <<step, wire, pane, killed, disturbed>>
        /\ spawning' = spawning \ {c} /\ c \in spawning /\ c \in Issuers
        /\ daemon' = [daemon EXCEPT ![pane[c]] = "live"]
        /\ answer' = IF Awaiting(c) /\ step[c] \in Awaited("create")
                     THEN [answer EXCEPT ![c] = "ok"] ELSE answer
    BY DEF Spawned, Answer, paramVars, managerVars, faultVars, Shape
  <1>2. \A j \in Issuers \ {c} : answer'[j] = answer[j]
    BY <1>1 DEF Shape
  <1>3. \A k \in 1..Len(wire) : Calm(pane[wire[k].from]) => wire[k].from \in Issuers \ {c}
    BY <1>1, WireCalls DEF KillInv, Coming
  <1>4. Asked' /\ Once' /\ Coming'
    BY <1>1, <1>2, <1>3 DEF KillInv, Asked, Once, Coming, Calm, Awaited, Shape
  <1>5. Calm(pane[c]) => Watched(pane[c])'
    <2> SUFFICES ASSUME Calm(pane[c]) PROVE Watched(pane[c])'
      OBVIOUS
    <2>1. step[c] = "requested" /\ answer[c] = "none"
      BY <1>1 DEF KillInv, Coming
    <2>2. answer'[c] = "ok"
      BY <1>1, <2>1 DEF Awaiting, Awaited, Shape
    <2> QED
      BY <1>1, <2>1, <2>2 DEF Watched, Witness
  <1>6. Ending'
    <2> SUFFICES ASSUME NEW p \in killed, Calm(p), daemon'[p] = "live", p # pane[c]
                 PROVE  KillSent(p)' \/ Watched(p)'
      BY <1>1, <1>5 DEF Ending, Calm
    <2>1. daemon[p] = "live"
      BY <1>1 DEF Shape
    <2>2. CASE KillSent(p)
      BY <1>1, <2>2 DEF KillSent
    <2>3. CASE Watched(p)
      <3>1. PICK d \in Issuers : pane[d] = p /\ Witness(d)
        BY <2>3 DEF Watched
      <3> QED
        BY <1>1, <1>2, <3>1 DEF Watched, Witness
    <2> QED
      BY <2>1, <2>2, <2>3 DEF KillInv, Ending
  <1> QED
    BY <1>4, <1>6 DEF KillInv

(* Losing the connection disturbs every pane that has a request in flight. *)
LEMMA KillsLost ==
  ASSUME Shape, KillInv, LoseConnection, wire' = wire \/ wire' = <<>>,
         spawning' \subseteq spawning, pane' = pane
  PROVE  /\ \A p : p \notin disturbed' => Calm(p) /\ ~KillSent(p)
         /\ Asked' /\ Once' /\ Coming'
  <1>1. \A j \in Issuers : Awaiting(j) => pane[j] \in disturbed'
    BY DEF LoseConnection
  <1>2. disturbed \subseteq disturbed'
    BY DEF LoseConnection
  <1>3. \A k \in 1..Len(wire) : pane[wire[k].from] \in disturbed'
    <2> SUFFICES ASSUME NEW k \in 1..Len(wire), pane[wire[k].from] \notin disturbed'
                 PROVE  FALSE
      OBVIOUS
    <2>1. Awaiting(wire[k].from) /\ wire[k].from \in Issuers
      BY <1>2, WireCalls, AwaitedWaits DEF KillInv, Asked, Calm, Awaiting, Waits
    <2> QED
      BY <1>1, <2>1
  <1>4. \A c \in spawning : pane[c] \in disturbed'
    <2> SUFFICES ASSUME NEW c \in spawning, pane[c] \notin disturbed'
                 PROVE  FALSE
      OBVIOUS
    <2>1. Awaiting(c) /\ c \in Issuers
      BY <1>2 DEF KillInv, Coming, Calm, Awaiting, Shape
    <2> QED
      BY <1>1, <2>1
  <1>5. \A k \in 1..Len(wire') : pane'[wire'[k].from] \in disturbed'
    <2>1. CASE wire' = wire
      BY <1>3, <2>1
    <2>2. CASE wire' = <<>>
      <3>1. Len(wire') = 0
        BY <2>2
      <3> QED
        BY <3>1
    <2> QED
      BY <2>1, <2>2
  <1> QED
    BY <1>2, <1>3, <1>4, <1>5 DEF Asked, Once, Coming, Calm, KillSent

LEMMA KillsDisconnect ==
  ASSUME Shape, KillInv, Disconnect
  PROVE  KillInv'
  <1>1. /\ LoseConnection /\ (wire' = wire \/ wire' = <<>>)
        /\ UNCHANGED <<step, spawning, daemon, pane, killed>>
    BY DEF Disconnect, paramVars
  <1>2. /\ \A p : p \notin disturbed' => Calm(p) /\ ~KillSent(p)
        /\ Asked' /\ Once' /\ Coming'
    BY <1>1, KillsLost
  <1>3. Ending'
    <2> SUFFICES ASSUME NEW p \in killed, p \notin disturbed', daemon[p] = "live"
                 PROVE  Watched(p)'
      BY <1>1 DEF Ending, Calm
    <2>1. PICK c \in Issuers : pane[c] = p /\ Witness(c)
      BY <1>2 DEF KillInv, Ending, Watched
    <2>2. ~Awaiting(c)
      BY <1>1, <2>1 DEF LoseConnection
    <2>3. answer'[c] = answer[c]
      BY <1>1, <2>2 DEF LoseConnection
    <2> QED
      BY <1>1, <2>1, <2>3 DEF Watched, Witness
  <1> QED
    BY <1>2, <1>3 DEF KillInv

LEMMA KillsRestart ==
  ASSUME Shape, KillInv, Restart
  PROVE  KillInv'
  <1>1. /\ LoseConnection /\ (wire' = wire \/ wire' = <<>>)
        /\ spawning' \subseteq spawning /\ pane' = pane /\ killed' = {}
    BY DEF Restart, paramVars
  <1>2. Asked' /\ Once' /\ Coming'
    BY <1>1, KillsLost
  <1> QED
    BY <1>1, <1>2 DEF KillInv, Ending

LEMMA KillsInductive ==
  ASSUME Shape, SlotInv, KillInv, Effect
  PROVE  KillInv'
  <1>1. CASE Rest
    BY <1>1 DEF Rest, KillInv, Asked, Once, Coming, Ending, Calm, KillSent, Watched, Witness, Awaited
  <1>2. CASE \E i \in Issuers, s \in Steps : Moves(i, s)
    <2>1. PICK i \in Issuers, s \in Steps : Moves(i, s)
      BY <1>2
    <2>2. \A j \in Issuers \ {i} : step'[j] = step[j]
      BY <2>1 DEF Moves, Shape
    <2>3. Witness(i) => step'[i] = "writing" \/ pane[i] \notin killed
      BY <2>1 DEF Moves, Shape
    <2> QED
      BY <2>1, <2>2, <2>3, CallsGoOn, {i} \in SUBSET Issuers DEF Moves, MayLeave
  <1>3. CASE \E i \in Issuers, kind \in Kinds, s \in Steps : Asks(i, kind, s)
    BY <1>3, KillsAsk
  <1>4. CASE \E c \in Creates : Enters(c)
    <2>1. PICK c \in Creates : Enters(c)
      BY <1>4
    <2>2. \A j \in Issuers \ {c} : step'[j] = step[j]
      BY <2>1 DEF Enters, Acquire, Shape
    <2> QED
      <3>1. {c} \in SUBSET Issuers
        BY IssuersAssumption
      <3> QED
        BY <2>1, <2>2, <3>1, CallsGoOn DEF Enters, MayLeave
  <1>5. CASE \E c \in Creates, s \in Ends : Leaves(c, s)
    <2>1. PICK c \in Creates, s \in Ends : Leaves(c, s)
      BY <1>5
    <2> DEFINE S == {j \in Issuers : j = c \/ (waiters # <<>> /\ j = waiters[1])}
    <2>2. \A j \in Issuers \ S : step'[j] = step[j]
      BY <2>1, ReleaseHands DEF Leaves, Shape
    <2>3. waiters # <<>> => step[waiters[1]] = "queued"
      <3> SUFFICES ASSUME waiters # <<>> PROVE step[waiters[1]] = "queued"
        OBVIOUS
      <3>1. 1 \in 1..Len(waiters)
        BY EmptySeq DEF Shape
      <3> QED
        BY <3>1 DEF SlotInv, Queued
    <2>4. \A j \in S : step[j] \in Waits => answer[j] # "none"
      BY <2>1, <2>3 DEF Leaves, MayLeave, Waits
    <2>5. \A j \in S : Witness(j) => pane[j] \notin killed
      BY <2>1, <2>3 DEF Leaves, Witness
    <2> QED
      BY <2>1, <2>2, <2>4, <2>5, CallsGoOn, S \in SUBSET Issuers DEF Leaves
  <1>6. CASE \E i \in Issuers : RequestFails(i)
    BY <1>6, KillsFail
  <1>7. CASE \E p \in Panes : ShellExits(p)
    BY <1>7, KillsShellExits
  <1>8. CASE DaemonHandles
    BY <1>8, KillsHandled
  <1>9. CASE \E c \in Creates : Spawned(c)
    BY <1>9, KillsSpawned
  <1>10. CASE Disconnect
    BY <1>10, KillsDisconnect
  <1>11. CASE Restart
    BY <1>11, KillsRestart
  <1> QED
    BY <1>1, <1>2, <1>3, <1>4, <1>5, <1>6, <1>7, <1>8, <1>9, <1>10, <1>11 DEF Effect

(* A pane that was killed, by kill, killByWorkspaceId or a stop of its     *)
(* tunnel, and is at rest, has no session in the daemon, whatever creations*)
(* of it were under way, joined, queued or spawning when the kill came;    *)
(* except if one of the pane's own requests failed.                        *)
THEOREM KilledPanesStayKilled == Spec => []KilledStaysKilled
  <1>1. Init => KillInv
    <2> SUFFICES ASSUME Init PROVE KillInv
      OBVIOUS
    <2>1. wire = <<>> /\ Len(wire) = 0 /\ spawning = {} /\ killed = {}
      BY EmptySeq DEF Init, ServiceInit
    <2> QED
      BY <2>1 DEF KillInv, Asked, Once, Coming, Ending
  <1>2. Shape /\ SlotInv /\ KillInv /\ [Next]_vars => (Shape /\ SlotInv /\ KillInv)'
    BY NextEffect, ShapeSlots, KillsInductive
  <1>3. Shape /\ KillInv => KilledStaysKilled
    <2> SUFFICES ASSUME Shape, KillInv, NEW p \in killed \ disturbed, AtRest(p),
                        daemon[p] = "live"
                 PROVE  FALSE
      BY DEF KilledStaysKilled
    <2>1. ~KillSent(p)
      BY DEF AtRest, KillSent, Shape
    <2>2. PICK c \in Issuers : pane[c] = p /\ Witness(c)
      BY <2>1 DEF KillInv, Ending, Watched, Calm
    <2>3. Active(c)
      BY <2>2 DEF Witness, Active, CreateSteps
    <2> QED
      BY <2>2, <2>3 DEF AtRest
  <1> QED
    BY <1>1, <1>2, <1>3, ShapeInit, PTL DEF Spec

-----------------------------------------------------------------------------
(* The daemon has answered a creation, which has not looked yet. *)
Up(c) == step[c] = "requested" /\ answer[c] = "ok"
Asking(c) == step[c] \in {"requested", "writing"}

-----------------------------------------------------------------------------
(* The effects. *)

Silent == UNCHANGED <<answer, wire>>
Sends(i, kind) ==
    /\ answer' = [answer EXCEPT ![i] = "none"]
    /\ wire' = Append(wire, [kind |-> kind, from |-> i])

(* What no step of a call changes. *)
Aside == UNCHANGED <<spawning, daemon, changed, pane, disturbed, exits, crossed>>
Dates == <<killed, generation, gen>>

Stays ==
    /\ UNCHANGED <<step, answer, wire, Dates, pending, sessions, spawning, daemon, changed,
                   pane, exits, crossed>>
    /\ disturbed \subseteq disturbed'

(* A call goes on; it is no creation that has its answer to look at. *)
Goes(i, s) ==
    /\ step[i] \notin {"requested", "writing", "queued"}
    /\ s \in Steps \ {"requested", "writing", "queued", "discarding"}
    /\ s = "dropping" => step[i] = "discarding"
    /\ step[i] \in Holding <=> s \in Holding
    /\ s \in CreateSteps => step[i] \in CreateSteps
    /\ step' = [step EXCEPT ![i] = s]
    /\ Silent \/ Sends(i, "list")
    /\ UNCHANGED <<Dates, pending, sessions>> /\ Aside

(* A creation comes into the loop, with the generation of the moment, or   *)
(* goes round in it: it is the pending one now, or awaits that.            *)
Loops(c) ==
    /\ pane[c] \in Panes
    /\ \/ step[c] = "waiting" /\ Current(c) /\ UNCHANGED <<killed, gen>>
       \/ /\ step[c] = "unused"
          /\ killed' = killed \ {pane[c]}
          /\ gen' = [gen EXCEPT ![c] = generation[pane[c]]]
    /\ \/ /\ pending[pane[c]] = None
          /\ pending' = [pending EXCEPT ![pane[c]] = c]
          /\ \E s \in {"granted", "queued"} : step' = [step EXCEPT ![c] = s]
       \/ /\ pending' = pending
          /\ \E s \in {"joined", "waiting"} : step' = [step EXCEPT ![c] = s]
    /\ UNCHANGED <<generation, sessions>> /\ Silent /\ Aside

(* A creation asks the daemon for the session. *)
Orders(c) ==
    /\ step[c] \in Holding \ {"requested", "writing"}
    /\ step' = [step EXCEPT ![c] = "requested"]
    /\ Sends(c, "create")
    /\ UNCHANGED <<Dates, pending, sessions>> /\ Aside

(* It ends without a new session. *)
Finishes(c, s) ==
    /\ step[c] \in Holding /\ ~Up(c) /\ (step[c] = "writing" => Current(c))
    /\ s \in Ends /\ Settle(c, s)
    /\ UNCHANGED <<Dates, sessions>> /\ Silent /\ Aside

(* It finds the session up and records it, or finds itself stale. *)
Opens(c) ==
    /\ Up(c) /\ Current(c)
    /\ sessions' = [sessions EXCEPT ![pane[c]] = [by |-> c, alive |-> TRUE]]
    /\ \/ Settle(c, "ok")
       \/ step' = [step EXCEPT ![c] = "writing"] /\ pending' = pending
    /\ UNCHANGED Dates /\ Silent /\ Aside

Discards(c) ==
    /\ Up(c) \/ step[c] = "writing"
    /\ ~Current(c)
    /\ sessions' = [sessions EXCEPT ![pane[c]] = NoSession]
    /\ step' = [step EXCEPT ![c] = "discarding"]
    /\ Sends(c, "kill")
    /\ UNCHANGED <<Dates, pending>> /\ Aside

Terminates(k) ==
    /\ step[k] \in {"unused", "sweeping"} /\ pane[k] \in Panes
    /\ generation' = [generation EXCEPT ![pane[k]] = @ + 1]
    /\ killed' = killed \cup {pane[k]}
    /\ Dead(pane[k])
    /\ step' = [step EXCEPT ![k] = "killing"]
    /\ Sends(k, "kill")
    /\ UNCHANGED <<gen, pending>> /\ Aside

OfCreation(c) ==
    \/ Loops(c) \/ Orders(c) \/ Opens(c) \/ Discards(c)
    \/ \E s \in Ends : Finishes(c, s)

OfDaemon ==
    \/ \E i \in Issuers : RequestFails(i)
    \/ \E p \in Panes : ExitArrives(p) \/ TimerFires(p) \/ ShellExits(p)
    \/ DaemonHandles
    \/ \E c \in Creates : Spawned(c)
    \/ Disconnect \/ Restart

Change ==
    \/ Stays
    \/ \E i \in Issuers, s \in Steps : Goes(i, s)
    \/ \E c \in Creates : OfCreation(c)
    \/ \E k \in Issuers : Terminates(k)
    \/ OfDaemon

-----------------------------------------------------------------------------
(* Every action has one of the effects. *)

LEMMA GoChange ==
  ASSUME NEW i \in Issuers, NEW s \in Steps, Goes(i, s)
  PROVE  Change
  BY DEF Change

LEMMA CreationChange ==
  ASSUME NEW c \in Creates, OfCreation(c)
  PROVE  Change
  BY DEF Change

LEMMA EnterMoves ==
  ASSUME NEW c \in Creates, NEW g, Enter(c, g)
  PROVE  \/ /\ pending[pane[c]] = None
            /\ pending' = [pending EXCEPT ![pane[c]] = c]
            /\ \E s \in {"granted", "queued"} : step' = [step EXCEPT ![c] = s]
         \/ /\ pending' = pending
            /\ \E s \in {"joined", "waiting"} : step' = [step EXCEPT ![c] = s]
  BY DEF Enter, Acquire, Go

LEMMA CreateOrAttachChange ==
  ASSUME Shape, NEW c \in Issuers, CreateOrAttach(c)
  PROVE  Change
  <1> USE DEF managerVars, paramVars, callVars, daemonVars, faultVars
  <1>1. /\ c \in Creates /\ step[c] = "unused" /\ pane[c] \in Panes
        /\ UNCHANGED <<generation, sessions>> /\ Silent /\ Aside
    BY DEF CreateOrAttach, NextOf, Unused, Shape, Silent, Aside
  <1>2. CASE Go(c, "killed") /\ UNCHANGED <<killed, gen, pending>>
    <2>1. Goes(c, "killed")
      BY <1>1, <1>2 DEF Goes, Go, Steps, Ends, CreateEnds, Holding, CreateSteps, Dates
    <2> QED
      BY <2>1, GoChange DEF Steps, Ends, CreateEnds
  <1>3. CASE /\ killed' = killed \ {pane[c]}
             /\ gen' = [gen EXCEPT ![c] = generation[pane[c]]]
             /\ Enter(c, generation[pane[c]])
    <2>1. Loops(c)
      BY <1>1, <1>3, EnterMoves DEF Loops
    <2> QED
      BY <1>1, <2>1, CreationChange DEF OfCreation
  <1> QED
    BY <1>2, <1>3 DEF CreateOrAttach

LEMMA WaitedChange ==
  ASSUME Shape, NEW c \in Creates, WaitedForPending(c)
  PROVE  Change
  <1> USE DEF managerVars, paramVars, callVars, daemonVars, faultVars
  <1>1. /\ step[c] = "waiting" /\ pane[c] \in Panes /\ c \in Issuers
        /\ UNCHANGED <<Dates, sessions>> /\ Silent /\ Aside
    BY IssuersAssumption DEF WaitedForPending, Shape, Silent, Aside, Dates
  <1>2. CASE Go(c, "killed") /\ UNCHANGED pending
    <2>1. Goes(c, "killed")
      BY <1>1, <1>2 DEF Goes, Go, Steps, Ends, CreateEnds, Holding, CreateSteps
    <2> QED
      BY <1>1, <2>1, GoChange DEF Steps, Ends, CreateEnds
  <1>3. CASE Current(c) /\ Enter(c, gen[c])
    <2>1. Loops(c)
      BY <1>1, <1>3, EnterMoves DEF Loops, Dates
    <2> QED
      BY <2>1, CreationChange DEF OfCreation
  <1> QED
    BY <1>2, <1>3 DEF WaitedForPending

(* Steps of calls that send nothing. *)
LEMMA WalkChange ==
  ASSUME Shape, NEW i \in Issuers, NEW s \in Steps \ {"requested", "writing", "queued"}, Go(i, s),
         step[i] \notin {"requested", "writing", "queued"},
         step[i] \in Holding <=> s \in Holding, s \in CreateSteps => step[i] \in CreateSteps,
         s # "discarding", s = "dropping" => step[i] = "discarding",
         UNCHANGED <<Dates, pending, sessions>>, Silent, Aside
  PROVE  Change
  <1>1. Goes(i, s)
    BY DEF Goes, Go
  <1> QED
    BY <1>1, GoChange

LEMMA OtherCallChange ==
  ASSUME Shape, NEW i \in Issuers,
         \/ KillAnswered(i) \/ HookAwaited(i) \/ KillEnds(i) \/ Erased(i)
         \/ Clear(i) \/ ClearStep(i) \/ Hook(i) \/ HookStep(i) \/ HookSaved(i)
  PROVE  Change
  <1> USE DEF managerVars, paramVars, callVars, daemonVars, faultVars, limiterVars
  <1>1. /\ step[i] \in {"killing", "hooks", "cleaning", "erasing",
                        "unused", "clearing", "reopening", "called", "hooking", "saving"}
        /\ UNCHANGED <<Dates, pending, sessions>>
    BY DEF KillAnswered, HookAwaited, KillEnds, Erased, Clear, ClearStep, Hook, HookStep, HookSaved,
           NextOf, Unused, Dates
  <1>2. UNCHANGED <<answer, wire, spawning, daemon, changed, pane, disturbed, exits, crossed>>
    BY DEF KillAnswered, HookAwaited, KillEnds, Erased, Spares, Clear, ClearStep, Hook, HookStep, HookSaved
  <1>3. PICK s \in {"hooks", "cleaning", "erasing", "done", "error",
                    "clearing", "reopening", "called", "hooking", "saving"} : Go(i, s)
    BY DEF KillAnswered, HookAwaited, KillEnds, Erased, Clear, ClearStep, Hook, HookStep, HookSaved
  <1>4. /\ s \in Steps \ {"requested", "writing", "queued"} /\ s \notin CreateSteps
        /\ step[i] \notin CreateSteps
    BY <1>1 DEF Steps, CreateSteps, KillSteps, OtherSteps, Ends
  <1> QED
    BY <1>1, <1>2, <1>3, <1>4, WalkChange DEF Silent, Aside, Holding, CreateSteps

(* Of creations that hold a slot: the end without a session, the request,  *)
(* and what looking the session up leads to.                               *)
LEMMA FinishChange ==
  ASSUME NEW c \in Creates, NEW s \in Ends, Settle(c, s),
         step[c] \in Holding, ~Up(c), step[c] = "writing" => Current(c),
         UNCHANGED <<Dates, sessions>>, Silent, Aside
  PROVE  Change
  <1>1. Finishes(c, s)
    BY DEF Finishes
  <1> QED
    BY <1>1, CreationChange DEF OfCreation

LEMMA AskChange ==
  ASSUME NEW c \in Creates, Ask(c), step[c] \in Holding \ {"requested", "writing"},
         UNCHANGED <<Dates, pending, sessions, pane, disturbed, crossed>>
  PROVE  Change
  <1>1. Orders(c)
    BY DEF Orders, Ask, Request, Go, Sends, Aside
  <1> QED
    BY <1>1, CreationChange DEF OfCreation

LEMMA LookUpChange ==
  ASSUME Shape, NEW c \in Creates, NEW ids, LookUp(c, ids),
         step[c] \in {"granted", "listing"},
         UNCHANGED <<Dates, pending, sessions, pane, disturbed, crossed>>
  PROVE  Change
  <1> USE DEF daemonVars
  <1>1. c \in Issuers /\ step[c] \in CreateSteps /\ step[c] \in Holding \ {"requested", "writing"}
    BY IssuersAssumption DEF Holding, CreateSteps
  <1>2. CASE Ask(c)
    BY <1>1, <1>2, AskChange
  <1>3. CASE ~Ask(c)
    <2>1. PICK s \in {"purging", "restoring"} : Go(c, s)
      BY <1>3 DEF LookUp
    <2>2. Silent /\ Aside
      BY <1>3 DEF LookUp, Silent, Aside
    <2>3. s \in Steps \ {"requested", "writing", "queued"} /\ s \in Holding
      BY DEF Steps, Holding, CreateSteps
    <2> QED
      BY <1>1, <2>1, <2>2, <2>3, WalkChange
  <1> QED
    BY <1>2, <1>3

LEMMA BeginChange ==
  ASSUME Shape, NEW c \in Creates, Begin(c)
  PROVE  Change
  <1> USE DEF daemonVars, Frame, paramVars, Dates
  <1>1. /\ c \in Issuers /\ step[c] = "granted" /\ step[c] \in Holding /\ ~Up(c)
        /\ UNCHANGED <<Dates, sessions, pane, disturbed, crossed>>
    BY IssuersAssumption DEF Begin, Holding, CreateSteps, Up
  <1>2. CASE \E s \in {"killed", "restored"} : Settle(c, s) /\ UNCHANGED <<answer, daemonVars>>
    BY <1>1, <1>2, FinishChange DEF Ends, CreateEnds, Silent, Aside
  <1>3. CASE LookUp(c, alive) /\ UNCHANGED pending
    BY <1>1, <1>3, LookUpChange
  <1>4. CASE Request(c, "list", "listing") /\ UNCHANGED pending
    <2>1. /\ "listing" \in Steps \ {"requested", "writing", "queued"}
          /\ "listing" \in Holding /\ step[c] \in CreateSteps
      BY <1>1 DEF Steps, Holding, CreateSteps
    <2>2. Goes(c, "listing")
      BY <1>1, <1>4, <2>1 DEF Goes, Request, Go, Sends, Aside
    <2> QED
      BY <1>1, <2>1, <2>2, GoChange
  <1> QED
    BY <1>2, <1>3, <1>4 DEF Begin, Cancelled

LEMMA AnsweredChange ==
  ASSUME Shape, NEW c \in Creates,
         Listed(c) \/ Purged(c) \/ ColdRestore(c) \/ Refused(c) \/ Dropped(c)
  PROVE  Change
  <1> USE DEF daemonVars, Frame, paramVars, Dates
  <1>1. /\ step[c] \in {"listing", "purging", "restoring", "requested", "dropping"}
        /\ step[c] = "requested" => answer[c] \in {"failed", "changed"}
        /\ UNCHANGED <<Dates, sessions, pane, disturbed, crossed>>
    BY DEF Listed, Purged, ColdRestore, Refused, Dropped
  <1>2. step[c] \in Holding /\ ~Up(c) /\ step[c] # "writing"
    BY <1>1 DEF Holding, CreateSteps, Up
  <1>3. CASE \E s \in CreateEnds : Settle(c, s) /\ UNCHANGED <<answer, daemonVars>>
    BY <1>1, <1>2, <1>3, FinishChange DEF Ends, Silent, Aside
  <1>4. CASE Ask(c) /\ UNCHANGED pending /\ step[c] # "requested"
    BY <1>1, <1>2, <1>4, AskChange
  <1>5. CASE Listed(c) /\ \E ids : LookUp(c, ids) /\ UNCHANGED pending
    BY <1>1, <1>5, LookUpChange DEF Listed
  <1>6. \/ \E s \in CreateEnds : Settle(c, s) /\ UNCHANGED <<answer, daemonVars>>
        \/ Ask(c) /\ UNCHANGED pending /\ step[c] # "requested"
        \/ Listed(c) /\ \E ids : LookUp(c, ids) /\ UNCHANGED pending
    <2>1. {"killed", "restored", "failed", "changed"} \subseteq CreateEnds
      BY DEF CreateEnds
    <2>2. CASE Listed(c)
      BY <2>1, <2>2 DEF Listed, Cancelled
    <2>3. CASE Purged(c)
      BY <2>1, <2>3 DEF Purged, Cancelled
    <2>4. CASE ColdRestore(c)
      BY <2>1, <2>4 DEF ColdRestore, Cancelled
    <2>5. CASE Refused(c) \/ Dropped(c)
      BY <2>1, <2>5 DEF Refused, Dropped, Cancelled
    <2> QED
      BY <2>2, <2>3, <2>4, <2>5
  <1> QED
    BY <1>3, <1>4, <1>5, <1>6

LEMMA CreatedChange ==
  ASSUME Shape, NEW c \in Creates, Created(c) \/ Written(c)
  PROVE  Change
  <1> USE DEF daemonVars, Frame, paramVars, limiterVars, Dates
  <1>1. UNCHANGED <<Dates, pane, disturbed, crossed>>
    BY DEF Created, Written
  <1>2. CASE ~Current(c)
    <2>1. Discard(c) /\ (Up(c) \/ step[c] = "writing")
      BY <1>2 DEF Created, Written, Up
    <2>2. Discards(c)
      BY <1>1, <1>2, <2>1 DEF Discards, Discard, Request, Go, Sends, Aside
    <2> QED
      BY <2>2, CreationChange DEF OfCreation
  <1>3. CASE Current(c) /\ Created(c)
    <2>1. Up(c) /\ sessions' = [sessions EXCEPT ![pane[c]] = [by |-> c, alive |-> TRUE]]
      BY <1>3 DEF Created, Up
    <2>2. /\ UNCHANGED <<answer, daemonVars>>
          /\ \/ Settle(c, "ok")
             \/ Go(c, "writing") /\ pending' = pending
      BY <1>3 DEF Created
    <2>3. Opens(c)
      BY <1>1, <1>3, <2>1, <2>2 DEF Opens, Go, Silent, Aside
    <2> QED
      BY <2>3, CreationChange DEF OfCreation
  <1>4. CASE Current(c) /\ Written(c)
    <2>1. /\ Settle(c, "ok") /\ UNCHANGED <<sessions, answer, daemonVars>>
          /\ step[c] = "writing"
      BY <1>4 DEF Written
    <2>2. step[c] \in Holding /\ ~Up(c) /\ "ok" \in Ends
      BY <2>1 DEF Holding, CreateSteps, Up, Ends, CreateEnds
    <2> QED
      BY <1>1, <1>4, <2>1, <2>2, FinishChange DEF Silent, Aside
  <1> QED
    BY <1>2, <1>3, <1>4

LEMMA DiscardedChange ==
  ASSUME Shape, NEW c \in Creates, Discarded(c) \/ Joined(c)
  PROVE  Change
  <1> USE DEF daemonVars, paramVars, limiterVars, managerVars, callVars, faultVars
  <1>1. /\ c \in Issuers
        /\ UNCHANGED <<Dates, pending, sessions>> /\ Silent /\ Aside
    BY IssuersAssumption DEF Discarded, Joined, Silent, Aside, Dates
  <1>2. CASE Discarded(c)
    <2>1. /\ step[c] \in Holding \ {"requested", "writing", "queued"} /\ step[c] \in CreateSteps
          /\ "dropping" \in Holding /\ "dropping" \in Steps \ {"requested", "writing", "queued"}
          /\ step[c] = "discarding" /\ Go(c, "dropping")
      BY <1>2 DEF Discarded, Holding, CreateSteps, Steps
    <2> QED
      BY <1>1, <2>1, WalkChange
  <1>3. CASE Joined(c)
    <2>1. step[c] = "joined" /\ step[on[c]] \in Ends /\ Go(c, step[on[c]])
      BY <1>3 DEF Joined, Settled
    <2>2. /\ step[on[c]] \in Steps \ {"requested", "writing", "queued", "discarding", "dropping"}
          /\ step[on[c]] \notin CreateSteps /\ step[on[c]] \notin Holding
      BY <2>1 DEF Ends, CreateEnds, Steps, Holding, CreateSteps
    <2>3. step[c] \notin Holding
      BY <2>1 DEF Holding
    <2> QED
      BY <1>1, <2>1, <2>2, <2>3, WalkChange
  <1> QED
    BY <1>2, <1>3

(* Kills. *)
LEMMA TerminateChange ==
  ASSUME Shape, NEW k \in Issuers, KillPane(k),
         pane[k] \in Panes, step[k] \in {"unused", "sweeping"}
  PROVE  Change
  <1>1. Terminates(k)
    BY DEF Terminates, KillPane, Request, Go, Sends, Aside, paramVars
  <1> QED
    BY <1>1 DEF Change

LEMMA SweepChange ==
  ASSUME Shape, NEW k \in Kills, Kill(k) \/ KillByWorkspaceId(k) \/ Swept(k)
  PROVE  Change
  <1> USE DEF daemonVars, paramVars, limiterVars, managerVars, callVars, faultVars
  <1>1. k \in Issuers /\ pane[k] \in Panes /\ step[k] \in {"unused", "sweeping"}
    BY IssuersAssumption DEF Kill, KillByWorkspaceId, Swept, NextOf, Unused, Shape
  <1>2. CASE KillPane(k)
    BY <1>1, <1>2, TerminateChange
  <1>3. CASE KillByWorkspaceId(k)
    <2>1. /\ "sweeping" \in Steps \ {"requested", "writing", "queued"}
          /\ "sweeping" \notin CreateSteps /\ step[k] \notin CreateSteps
      BY <1>1 DEF Steps, CreateSteps, KillSteps
    <2>2. /\ step' = [step EXCEPT ![k] = "sweeping"] /\ Sends(k, "list")
          /\ UNCHANGED <<Dates, pending, sessions>> /\ Aside
      BY <1>3 DEF KillByWorkspaceId, Request, Go, Sends, Aside, Dates
    <2>3. Goes(k, "sweeping")
      BY <1>1, <2>1, <2>2 DEF Goes, Holding
    <2> QED
      BY <1>1, <2>1, <2>3, GoChange
  <1>4. CASE Swept(k) /\ ~KillPane(k)
    <2>1. PICK s \in {"erasing", "done"} : Go(k, s)
      BY <1>4 DEF Swept
    <2>2. /\ s \in Steps \ {"requested", "writing", "queued"} /\ s \notin CreateSteps
          /\ step[k] \notin CreateSteps
      BY <1>1 DEF Steps, CreateSteps, KillSteps, Ends
    <2>3. UNCHANGED <<Dates, pending, sessions>> /\ Silent /\ Aside
      BY <1>4 DEF Swept, Silent, Aside, Dates
    <2> QED
      BY <1>1, <2>1, <2>2, <2>3, WalkChange DEF Holding
  <1> QED
    BY <1>2, <1>3, <1>4 DEF Kill

LEMMA StayChange ==
  ASSUME UNCHANGED <<managerVars, callVars, daemonVars, faultVars>>
  PROVE  Change
  BY DEF Change, Stays, Dates, managerVars, callVars, paramVars, daemonVars, faultVars

LEMMA TurnChange ==
  ASSUME Shape, Turn
  PROVE  Change
  <1>1. CASE \E i \in Issuers :
               HistoryTurn(i) /\ UNCHANGED <<managerVars, limiterVars, callVars, daemonVars, faultVars>>
    BY <1>1, StayChange
  <1>2. CASE \E c \in Creates : WaitedForPending(c)
    BY <1>2, WaitedChange
  <1>3. CASE \E c \in Creates : Joined(c)
    BY <1>3, DiscardedChange
  <1>4. CASE \E c \in Creates : Begin(c)
    BY <1>4, BeginChange
  <1>5. CASE \E c \in Creates : Written(c)
    BY <1>5, CreatedChange
  <1>6. CASE \E c \in Creates : Purged(c) \/ Dropped(c)
    BY <1>6, AnsweredChange
  <1>7. CASE \E k \in Kills : HookAwaited(k) \/ KillEnds(k)
    BY <1>7, OtherCallChange, IssuersAssumption
  <1>8. CASE \E x \in Clears : ClearStep(x)
    BY <1>8, OtherCallChange, IssuersAssumption
  <1>9. CASE \E h \in Hooks : HookStep(h)
    BY <1>9, OtherCallChange, IssuersAssumption
  <1> QED
    BY <1>1, <1>2, <1>3, <1>4, <1>5, <1>6, <1>7, <1>8, <1>9 DEF Turn

LEMMA ProgressChange ==
  ASSUME Shape, NEW i \in Issuers, Progress(i)
  PROVE  Change
  <1>1. CASE i \in Creates /\ (Listed(i) \/ ColdRestore(i) \/ Refused(i) \/ Purged(i) \/ Dropped(i))
    BY <1>1, AnsweredChange
  <1>2. CASE i \in Creates /\ Created(i)
    BY <1>2, CreatedChange
  <1>3. CASE i \in Creates /\ Discarded(i)
    BY <1>3, DiscardedChange
  <1>4. CASE i \in Kills /\ (KillAnswered(i) \/ Erased(i) \/ KillEnds(i))
    BY <1>4, OtherCallChange
  <1>5. CASE i \in Kills /\ Swept(i)
    BY <1>5, SweepChange
  <1>6. CASE i \in Hooks /\ HookSaved(i)
    BY <1>6, OtherCallChange
  <1>7. CASE HistoryIO(i) /\ UNCHANGED <<managerVars, limiterVars, callVars, daemonVars, faultVars>>
    BY <1>7, StayChange
  <1> QED
    BY <1>1, <1>2, <1>3, <1>4, <1>5, <1>6, <1>7 DEF Progress

LEMMA ServiceChange ==
  ASSUME Shape, ServiceStep
  PROVE  Change
  <1>1. CASE \E i \in Issuers : Progress(i)
    BY <1>1, ProgressChange
  <1>2. CASE \E i \in Issuers : HistoryFails(i)
    BY <1>2 DEF HistoryFails, Spares, Change, Stays, Dates, managerVars, callVars, paramVars, daemonVars
  <1>3. CASE WriterCloses /\ UNCHANGED <<managerVars, limiterVars, callVars, daemonVars, faultVars>>
    BY <1>3, StayChange
  <1>4. CASE OfDaemon
    BY <1>4 DEF Change
  <1> QED
    BY <1>1, <1>2, <1>3, <1>4 DEF ServiceStep, OfDaemon

LEMMA UserChange ==
  ASSUME Shape, NEW panes, UserStep(panes)
  PROVE  Change
  <1>1. PICK i \in Issuers :
          \/ i \in Creates /\ CreateOrAttach(i)
          \/ i \in Kills /\ (Kill(i) \/ KillByWorkspaceId(i))
          \/ i \in Clears /\ Clear(i)
          \/ i \in Hooks /\ Hook(i)
    BY IssuersAssumption DEF UserStep
  <1> QED
    BY <1>1, CreateOrAttachChange, SweepChange, OtherCallChange

LEMMA TunnelCreateChange ==
  ASSUME Shape, NEW at, NEW timer, Create(at, timer) \/ Ensure(timer)
  PROVE  Change
  <1>1. (\E c \in Creates : CreateOrAttach(c)) \/ UNCHANGED serviceVars
    BY DEF Create, Ensure, Fail
  <1> QED
    BY <1>1, StayChange, CreateOrAttachChange, IssuersAssumption DEF serviceVars

LEMMA NextChange ==
  ASSUME Shape, [Next]_vars
  PROVE  Change
  <1>1. CASE UNCHANGED serviceVars
    BY <1>1, StayChange DEF serviceVars
  <1>2. CASE Turn
    BY <1>2, TurnChange
  <1>3. CASE EnsureGoesOn
    <2>1. \/ UNCHANGED serviceVars
          \/ \E k \in Kills : Kill(k)
          \/ Create("recreating", retryTimer)
      BY <1>3 DEF EnsureGoesOn, Fail
    <2> QED
      BY <1>1, <2>1, SweepChange, TunnelCreateChange
  <1>4. CASE \E k \in Kills : StopEnds(k)
    <2>1. UNCHANGED serviceVars \/ \E s \in Kills : KillByWorkspaceId(s)
      BY <1>4, IssuersAssumption DEF StopEnds, Sweep
    <2> QED
      BY <1>1, <2>1, SweepChange
  <1>5. CASE \E k \in Kills : Restarted(k)
    BY <1>5, TunnelCreateChange DEF Restarted
  <1>6. CASE ServiceStep
    BY <1>6, ServiceChange
  <1>7. CASE (\E p \in Panes : Exit(p)) \/ RestartService
    BY <1>7 DEF Exit, RestartService, Change, OfDaemon
  <1>8. CASE Reconcile
    <2>1. \/ UNCHANGED serviceVars
          \/ \E k \in Kills : Kill(k)
          \/ Ensure(retryTimer)
      BY <1>8 DEF Reconcile, StopSession
    <2> QED
      BY <1>1, <2>1, SweepChange, TunnelCreateChange
  <1>9. CASE RetryFires \/ Start
    BY <1>9, TunnelCreateChange DEF RetryFires, Start
  <1>10. CASE Stop \/ RestartTunnel \/ DeleteWorkspace
    <2>1. \E k \in Kills : Kill(k)
      BY <1>10 DEF Stop, RestartTunnel, DeleteWorkspace, StopSession
    <2> QED
      BY <2>1, SweepChange
  <1>11. CASE Erase
    <2>1. \E s \in Kills : KillByWorkspaceId(s)
      BY <1>11, IssuersAssumption DEF Erase, Sweep
    <2> QED
      BY <2>1, SweepChange
  <1>12. CASE UserStep(Panes \ {Tunnel})
    BY <1>12, UserChange
  <1>13. CASE SweepEnds \/ GiveUp
    BY <1>1, <1>13 DEF SweepEnds, GiveUp
  <1> QED
    BY <1>1, <1>2, <1>3, <1>4, <1>5, <1>6, <1>7, <1>8, <1>9, <1>10, <1>11, <1>12, <1>13
    DEF Next, TunnelTurn, vars

-----------------------------------------------------------------------------
(* Generations: a creation of a pane that was killed has an earlier one,   *)
(* so it is stale before and after the tombstone is taken away.  Pending   *)
(* promises: whoever has a slot or queues for it made the pane's.          *)

Dated ==
    /\ generation \in [Panes -> Nat] /\ gen \in [Creates -> Nat]
    /\ \A c \in Creates : pane[c] \in Panes =>
          /\ gen[c] <= generation[pane[c]]
          /\ step[c] \in CreateSteps /\ pane[c] \in killed => gen[c] < generation[pane[c]]

Held ==
    /\ pending \in [Panes -> Creates \cup {None}]
    /\ \A i \in Issuers : step[i] \in CreateSteps => i \in Creates
    /\ \A c \in Creates : step[c] \in Holding \cup {"queued"} => pending[pane[c]] = c

LEMMA CreateStepSets ==
  /\ Holding \cup {"queued"} \subseteq CreateSteps /\ Ends \cap CreateSteps = {}
  /\ "unused" \notin CreateSteps /\ "killing" \notin CreateSteps
  /\ {"joined", "waiting", "requested", "writing", "discarding", "granted"} \subseteq CreateSteps
  /\ {"requested", "writing", "discarding", "granted"} \subseteq Holding
  /\ {"joined", "waiting", "queued"} \cap Holding = {}
  BY DEF Holding, CreateSteps, Ends, CreateEnds

LEMMA InPanes ==
  ASSUME Shape
  PROVE  \A i \in Issuers : step[i] \in CreateSteps => pane[i] \in Panes
  BY CreateStepSets DEF Shape

LEMMA SettleMoves ==
  ASSUME Shape, SlotInv, NEW c \in Creates, NEW s, Settle(c, s)
  PROVE  /\ step'[c] = s
         /\ \A j \in Issuers \ {c} : step'[j] = step[j] \/ (step[j] = "queued" /\ step'[j] = "granted")
         /\ pending' = [pending EXCEPT ![pane[c]] = IF @ = c THEN None ELSE @]
  <1>1. Release(c, s) /\ pending' = [pending EXCEPT ![pane[c]] = IF @ = c THEN None ELSE @]
    BY DEF Settle
  <1>2. \/ step' = [step EXCEPT ![c] = s]
        \/ /\ waiters # <<>>
           /\ step' = [i \in Issuers |-> IF i = c THEN s
                                         ELSE IF i = waiters[1] THEN "granted" ELSE step[i]]
    BY <1>1, ReleaseHands
  <1>3. waiters # <<>> => step[waiters[1]] = "queued"
    <2> SUFFICES ASSUME waiters # <<>> PROVE step[waiters[1]] = "queued"
      OBVIOUS
    <2>1. 1 \in 1..Len(waiters)
      BY EmptySeq DEF Shape
    <2> QED
      BY <2>1 DEF SlotInv, Queued
  <1> QED
    BY <1>1, <1>2, <1>3, IssuersAssumption DEF Shape

(* Whether a creation is current does not change unless its pane is killed.*)
LEMMA CurrentKept ==
  ASSUME Dated, NEW c \in Creates, pane[c] \in Panes, step[c] \in CreateSteps,
         pane' = pane, generation' = generation, gen'[c] = gen[c],
         killed' \subseteq killed
  PROVE  Current(c)' <=> Current(c)
  <1>1. CASE pane[c] \in killed
    <2>1. gen[c] # generation[pane[c]]
      BY <1>1 DEF Dated
    <2> QED
      BY <2>1 DEF Current
  <1>2. CASE pane[c] \notin killed
    BY <1>2 DEF Current
  <1> QED
    BY <1>1, <1>2

LEMMA DatesKept ==
  ASSUME Dated, UNCHANGED <<pane, generation, gen>>, killed' \subseteq killed,
         \A c \in Creates : step'[c] \in CreateSteps => step[c] \in CreateSteps
  PROVE  Dated'
  BY DEF Dated

LEMMA PendingKept ==
  ASSUME Held, UNCHANGED <<pane, pending>>,
         \A i \in Issuers : step'[i] \in CreateSteps => step[i] \in CreateSteps,
         \A c \in Creates : step'[c] \in Holding \cup {"queued"} => step[c] \in Holding \cup {"queued"}
  PROVE  Held'
  BY DEF Held

LEMMA SettledHeld ==
  ASSUME Shape, SlotInv, Dated, Held, NEW c \in Creates, NEW s \in Ends, Settle(c, s),
         step[c] \in Holding, UNCHANGED <<Dates, pane>>
  PROVE  Dated' /\ Held'
  <1>1. /\ step'[c] = s
        /\ \A j \in Issuers \ {c} : step'[j] = step[j] \/ (step[j] = "queued" /\ step'[j] = "granted")
        /\ pending' = [pending EXCEPT ![pane[c]] = IF @ = c THEN None ELSE @]
    BY SettleMoves
  <1>2. /\ \A i \in Issuers : step'[i] \in CreateSteps => step[i] \in CreateSteps
        /\ \A d \in Creates \ {c} : step'[d] \in Holding \cup {"queued"} => step[d] \in Holding \cup {"queued"}
        /\ s \notin Holding \cup {"queued"}
    BY <1>1, CreateStepSets, IssuersAssumption
  <1>3. Dated'
    BY <1>2, DatesKept, IssuersAssumption DEF Dates
  <1>4. pending' \in [Panes -> Creates \cup {None}]
    BY <1>1 DEF Held
  <1>5. ASSUME NEW d \in Creates, step'[d] \in Holding \cup {"queued"}
        PROVE  pending'[pane[d]] = d
    <2>1. d # c /\ pending[pane[d]] = d /\ pending[pane[c]] = c
      BY <1>1, <1>2, <1>5 DEF Held
    <2>2. pane[d] # pane[c]
      BY <2>1
    <2> QED
      BY <1>1, <2>1, <2>2 DEF Held
  <1> QED
    BY <1>2, <1>3, <1>4, <1>5 DEF Held

LEMMA DatedLoops ==
  ASSUME Shape, Dated, Held, NEW c \in Creates, Loops(c)
  PROVE  Dated' /\ Held'
  <1> DEFINE p == pane[c]
  <1>1. /\ p \in Panes /\ c \in Issuers /\ generation' = generation /\ pane' = pane
        /\ killed' \subseteq killed
    BY IssuersAssumption DEF Loops, Aside
  <1>2. PICK s \in {"granted", "queued", "joined", "waiting"} : step' = [step EXCEPT ![c] = s]
    BY DEF Loops
  <1>3. \A i \in Issuers \ {c} : step'[i] = step[i]
    BY <1>2 DEF Shape
  <1>4. /\ gen' \in [Creates -> Nat] /\ gen'[c] <= generation[p]
        /\ p \in killed' => gen'[c] < generation[p]
        /\ \A d \in Creates \ {c} : gen'[d] = gen[d]
    <2>1. CASE step[c] = "waiting" /\ UNCHANGED <<killed, gen>>
      BY <1>1, <2>1, CreateStepSets DEF Dated
    <2>2. CASE killed' = killed \ {p} /\ gen' = [gen EXCEPT ![c] = generation[p]]
      BY <1>1, <2>2 DEF Dated
    <2> QED
      BY <2>1, <2>2 DEF Loops
  <1> HIDE DEF p
  <1>5. Dated'
    <2> SUFFICES ASSUME NEW d \in Creates, pane[d] \in Panes
                 PROVE  /\ gen'[d] <= generation[pane[d]]
                        /\ step'[d] \in CreateSteps /\ pane[d] \in killed' => gen'[d] < generation[pane[d]]
      BY <1>1, <1>4 DEF Dated
    <2>1. CASE d = c
      BY <1>4, <2>1 DEF p
    <2>2. CASE d # c
      BY <1>1, <1>3, <1>4, <2>2, IssuersAssumption DEF Dated
    <2> QED
      BY <2>1, <2>2
  <1>6. pending' \in [Panes -> Creates \cup {None}]
    BY <1>1 DEF Loops, Held
  <1>7. ASSUME NEW d \in Creates, step'[d] \in Holding \cup {"queued"}
        PROVE  pending'[pane[d]] = d
    <2>1. CASE pending[p] = None /\ pending' = [pending EXCEPT ![p] = c]
      <3>1. CASE d = c
        BY <1>1, <2>1, <3>1 DEF Held, p
      <3>2. CASE d # c
        <4>1. pending[pane[d]] = d /\ d # None
          BY <1>3, <1>7, <3>2, IssuersAssumption, NoneAssumption DEF Held
        <4>2. pane[d] # p
          BY <2>1, <4>1
        <4> QED
          BY <2>1, <4>1, <4>2 DEF Held
      <3> QED
        BY <3>1, <3>2
    <2>2. CASE pending' = pending /\ \E t \in {"joined", "waiting"} : step' = [step EXCEPT ![c] = t]
      <3>1. step'[c] \in {"joined", "waiting"}
        BY <1>1, <2>2 DEF Shape
      <3>2. d # c
        BY <1>7, <3>1, CreateStepSets
      <3> QED
        BY <1>3, <1>7, <2>2, <3>2, IssuersAssumption DEF Held
    <2> QED
      BY <2>1, <2>2 DEF Loops, p
  <1>8. \A i \in Issuers : step'[i] \in CreateSteps => i \in Creates
    BY <1>3 DEF Held
  <1> QED
    BY <1>1, <1>5, <1>6, <1>7, <1>8 DEF Held

LEMMA DatedTerminates ==
  ASSUME Shape, Dated, Held, NEW k \in Issuers, Terminates(k)
  PROVE  Dated' /\ Held'
  <1>1. /\ generation' = [generation EXCEPT ![pane[k]] = @ + 1] /\ pane[k] \in Panes
        /\ killed' = killed \cup {pane[k]} /\ UNCHANGED <<gen, pending, pane>>
        /\ step' = [step EXCEPT ![k] = "killing"]
    BY DEF Terminates, Aside
  <1>2. \A i \in Issuers : step'[i] \in CreateSteps => i # k /\ step'[i] = step[i]
    BY <1>1, CreateStepSets DEF Shape
  <1>3. Held'
    BY <1>1, <1>2, CreateStepSets, PendingKept, IssuersAssumption
  <1>4. generation' \in [Panes -> Nat]
    BY <1>1 DEF Dated
  <1>5. ASSUME NEW c \in Creates, pane[c] \in Panes
        PROVE  /\ gen[c] <= generation'[pane[c]]
               /\ step'[c] \in CreateSteps /\ pane[c] \in killed' => gen[c] < generation'[pane[c]]
    <2>1. /\ gen[c] \in Nat /\ generation[pane[c]] \in Nat /\ gen[c] <= generation[pane[c]]
          /\ step[c] \in CreateSteps /\ pane[c] \in killed => gen[c] < generation[pane[c]]
      BY <1>5 DEF Dated
    <2>2. CASE pane[c] = pane[k]
      <3>1. generation'[pane[c]] = generation[pane[c]] + 1
        BY <1>1, <1>5, <2>2 DEF Dated
      <3> QED
        BY <2>1, <3>1
    <2>3. CASE pane[c] # pane[k]
      <3>1. generation'[pane[c]] = generation[pane[c]] /\ (pane[c] \in killed' => pane[c] \in killed)
        BY <1>1, <1>5, <2>3 DEF Dated
      <3>2. step'[c] \in CreateSteps => step[c] \in CreateSteps
        BY <1>2, IssuersAssumption
      <3> QED
        BY <2>1, <3>1, <3>2
    <2> QED
      BY <2>2, <2>3
  <1> QED
    BY <1>1, <1>3, <1>4, <1>5 DEF Dated

LEMMA DatedRestart ==
  ASSUME Shape, Dated, Held, Restart
  PROVE  Dated' /\ Held'
  <1>1. /\ generation' = [p \in Panes |-> IF pending[p] = None THEN generation[p] ELSE generation[p] + 1]
        /\ killed' = {} /\ UNCHANGED <<gen, pane>>
        /\ step' = [i \in Issuers |-> IF step[i] = "queued" THEN "failed" ELSE step[i]]
        /\ pending' = [p \in Panes |-> IF pending[p] # None /\ step[pending[p]] = "queued"
                                       THEN None ELSE pending[p]]
    BY DEF Restart, paramVars
  <1>2. "failed" \notin CreateSteps
    BY DEF CreateSteps
  <1>3. /\ \A i \in Issuers : step'[i] \in CreateSteps => step'[i] = step[i] /\ step[i] # "queued"
    BY <1>1, <1>2
  <1>4. Dated'
    <2>1. generation' \in [Panes -> Nat]
      BY <1>1 DEF Dated
    <2>2. \A p \in Panes : generation[p] <= generation'[p]
      BY <1>1 DEF Dated
    <2>3. ASSUME NEW c \in Creates, pane[c] \in Panes PROVE gen[c] <= generation'[pane[c]]
      <3>1. gen[c] \in Nat /\ generation[pane[c]] \in Nat /\ generation'[pane[c]] \in Nat
        BY <2>1, <2>3 DEF Dated
      <3> QED
        BY <2>2, <2>3, <3>1 DEF Dated
    <2> QED
      BY <1>1, <2>1, <2>3 DEF Dated
  <1>5. Held'
    <2>1. pending' \in [Panes -> Creates \cup {None}]
      BY <1>1 DEF Held
    <2>2. ASSUME NEW c \in Creates, step'[c] \in Holding \cup {"queued"}
          PROVE  pending'[pane[c]] = c
      <3>1. step[c] \in Holding \cup {"queued"} /\ step[c] # "queued" /\ c \in Issuers
        BY <1>3, <2>2, CreateStepSets, IssuersAssumption
      <3>2. pending[pane[c]] = c /\ pane[c] \in Panes
        BY <3>1, CreateStepSets, InPanes DEF Held
      <3> QED
        BY <1>1, <3>1, <3>2
    <2> QED
      BY <1>1, <1>3, <2>1, <2>2 DEF Held
  <1> QED
    BY <1>4, <1>5

LEMMA DatedInductive ==
  ASSUME Shape, SlotInv, Dated, Held, Change
  PROVE  Dated' /\ Held'
  <1>1. CASE UNCHANGED <<step, pane, Dates, pending>>
    <2>1. UNCHANGED <<step, pane, generation, gen, killed, pending>>
      BY <1>1 DEF Dates
    <2> QED
      BY <2>1, DatesKept, PendingKept
  <1>2. CASE \E i \in Issuers, s \in Steps : Goes(i, s)
    <2>1. PICK i \in Issuers, s \in Steps : Goes(i, s)
      BY <1>2
    <2>2. UNCHANGED <<pane, generation, gen, killed, pending>>
      BY <2>1 DEF Goes, Aside, Dates
    <2>3. /\ step' = [step EXCEPT ![i] = s] /\ s # "queued"
          /\ step[i] \in Holding <=> s \in Holding
          /\ s \in CreateSteps => step[i] \in CreateSteps
      BY <2>1 DEF Goes
    <2>4. /\ \A j \in Issuers : step'[j] \in CreateSteps => step[j] \in CreateSteps
          /\ \A j \in Issuers : step'[j] \in Holding \cup {"queued"} => step[j] \in Holding \cup {"queued"}
      BY <2>3 DEF Shape
    <2> QED
      BY <2>2, <2>4, DatesKept, PendingKept, IssuersAssumption
  <1>3. CASE \E c \in Creates : Loops(c)
    BY <1>3, DatedLoops
  <1>4. CASE \E c \in Creates, s \in Ends : step[c] \in Holding /\ Settle(c, s) /\ UNCHANGED <<Dates, pane>>
    BY <1>4, SettledHeld
  <1>5. CASE \E c \in Creates, s \in {"requested", "writing", "discarding"} :
               /\ step[c] \in Holding /\ step' = [step EXCEPT ![c] = s]
               /\ UNCHANGED <<Dates, pending, pane>>
    <2>1. PICK c \in Creates, s \in {"requested", "writing", "discarding"} :
               /\ step[c] \in Holding /\ step' = [step EXCEPT ![c] = s]
               /\ UNCHANGED <<Dates, pending, pane>>
      BY <1>5
    <2>2. UNCHANGED <<pane, generation, gen, killed, pending>>
      BY <2>1 DEF Dates
    <2>3. /\ \A j \in Issuers : step'[j] \in CreateSteps => step[j] \in CreateSteps
          /\ \A j \in Issuers : step'[j] \in Holding \cup {"queued"} => step[j] \in Holding \cup {"queued"}
      BY <2>1, CreateStepSets DEF Shape
    <2> QED
      BY <2>2, <2>3, DatesKept, PendingKept, IssuersAssumption
  <1>6. CASE \E k \in Issuers : Terminates(k)
    BY <1>6, DatedTerminates
  <1>7. CASE Restart
    BY <1>7, DatedRestart
  <1>8. ASSUME NEW c \in Creates, OfCreation(c)
        PROVE  \/ Loops(c)
               \/ \E s \in Ends : step[c] \in Holding /\ Settle(c, s) /\ UNCHANGED <<Dates, pane>>
               \/ \E s \in {"requested", "writing", "discarding"} :
                     /\ step[c] \in Holding /\ step' = [step EXCEPT ![c] = s]
                     /\ UNCHANGED <<Dates, pending, pane>>
    <2> USE DEF Aside
    <2>1. CASE Orders(c)
      BY <2>1, CreateStepSets DEF Orders
    <2>2. CASE Opens(c)
      BY <2>2, CreateStepSets DEF Opens, Up, Ends, CreateEnds
    <2>3. CASE Discards(c)
      BY <2>3, CreateStepSets DEF Discards, Up
    <2>4. CASE \E s \in Ends : Finishes(c, s)
      BY <2>4 DEF Finishes
    <2> QED
      BY <1>8, <2>1, <2>2, <2>3, <2>4 DEF OfCreation
  <1>9. CASE Stays
    BY <1>1, <1>9 DEF Stays
  <1>10. CASE OfDaemon /\ ~Restart
    <2>1. UNCHANGED <<step, pane, Dates, pending>>
      BY <1>10 DEF OfDaemon, RequestFails, ExitArrives, TimerFires, ShellExits, DaemonHandles, Spawned,
                   Disconnect, managerVars, callVars, paramVars, faultVars, Dates
    <2> QED
      BY <1>1, <2>1
  <1> QED
    BY <1>2, <1>3, <1>4, <1>5, <1>6, <1>7, <1>8, <1>9, <1>10 DEF Change

-----------------------------------------------------------------------------
(* What the records say.  Requests are handled in the order in which they  *)
(* were sent, and a kill makes what was asked before it stale: no record   *)
(* says alive while a kill is on its way, and a current creation has its   *)
(* request behind it (Behind).  So a record that says alive, or is about to*)
(* because of an answer that is still good, is of a live session, unless   *)
(* an exit event is on its way (Truthful); and a live session whose record *)
(* says dead has a kill on its way, or a creation that has yet to look at  *)
(* the answer (Noticed).                                                   *)

Kept ==
    /\ sessions \in [Panes -> [by : Creates \cup {None}, alive : BOOLEAN]]
    /\ exits \in [Panes -> Nat]

AsksBehind(c, k) ==
    \E j \in 1..Len(wire) : j > k /\ wire[j].kind = "create" /\ wire[j].from = c

Behind ==
    \A k \in 1..Len(wire) : wire[k].kind = "kill" /\ Calm(pane[wire[k].from]) =>
        /\ ~sessions[pane[wire[k].from]].alive
        /\ \A c \in Creates :
              pane[c] = pane[wire[k].from] /\ Asking(c) /\ Current(c) => AsksBehind(c, k)

Sound(p) == p \notin disturbed \cup crossed
Good(c) == Up(c) /\ Current(c)
Looks(c) == Up(c) \/ (step[c] = "writing" /\ ~Current(c))

TruthfulAt(p) ==
    Sound(p) /\ (sessions[p].alive \/ \E c \in Creates : pane[c] = p /\ Good(c))
        => daemon[p] = "live" \/ exits[p] > 0
Truthful == \A p \in Panes : TruthfulAt(p)

NoticedAt(p) ==
    Sound(p) /\ daemon[p] = "live" /\ sessions[p].by # None /\ ~sessions[p].alive
        => KillSent(p) \/ \E c \in Creates : pane[c] = p /\ Looks(c)
Noticed == \A p \in Panes : NoticedAt(p)

Records == Kept /\ Behind /\ Truthful /\ Noticed

LEMMA NoneNotIssuer == None \notin Creates
  BY NoneAssumption, IssuersAssumption

(* The types. *)
LEMMA KeptInductive ==
  ASSUME Shape, Kept, Change
  PROVE  Kept'
  <1> DEFINE Rec == [by : Creates \cup {None}, alive : BOOLEAN]
  <1>1. CASE UNCHANGED <<sessions, exits>>
    BY <1>1 DEF Kept
  <1>2. ASSUME NEW p \in Panes, NEW r \in Rec,
               sessions' = [sessions EXCEPT ![p] = r], exits' = exits
        PROVE  Kept'
    BY <1>2 DEF Kept
  <1>3. ASSUME NEW p \in Panes, Dead(p)
        PROVE  sessions' \in [Panes -> Rec]
    BY <1>3 DEF Dead, Kept
  <1>4. NoSession \in Rec /\ \A c \in Creates : [by |-> c, alive |-> TRUE] \in Rec
    BY DEF NoSession
  <1>5. CASE \E c \in Creates : Opens(c) \/ Discards(c)
    <2>1. PICK c \in Creates : Opens(c) \/ Discards(c)
      BY <1>5
    <2>2. step[c] \in CreateSteps /\ c \in Issuers
      BY <2>1, CreateStepSets, IssuersAssumption DEF Opens, Discards, Up
    <2>3. pane[c] \in Panes
      BY <2>2, InPanes
    <2>4. exits' = exits
      BY <2>1 DEF Opens, Discards, Aside
    <2>5. CASE Opens(c)
      BY <1>2, <1>4, <2>3, <2>4, <2>5 DEF Opens
    <2>6. CASE Discards(c)
      BY <1>2, <1>4, <2>3, <2>4, <2>6 DEF Discards
    <2> QED
      BY <2>1, <2>5, <2>6
  <1>6. CASE \E k \in Issuers : Terminates(k)
    BY <1>3, <1>6 DEF Terminates, Aside, Kept
  <1>7. CASE \E p \in Panes : ExitArrives(p)
    <2>1. PICK p \in Panes : ExitArrives(p)
      BY <1>7
    <2>2. exits' = [exits EXCEPT ![p] = @ - 1] /\ exits[p] > 0
      BY <2>1 DEF ExitArrives
    <2>3. exits' \in [Panes -> Nat]
      BY <2>2 DEF Kept
    <2> QED
      BY <1>3, <2>1, <2>3 DEF ExitArrives, Kept
  <1>8. CASE \E p \in Panes : TimerFires(p)
    <2>1. PICK p \in Panes : TimerFires(p)
      BY <1>8
    <2> QED
      BY <1>2, <1>4, <2>1 DEF TimerFires, daemonVars
  <1>9. CASE \E p \in Panes : ShellExits(p)
    <2>1. PICK p \in Panes : ShellExits(p)
      BY <1>9
    <2>2. exits' \in [Panes -> Nat] /\ sessions' = sessions
      BY <2>1 DEF ShellExits, Kept, managerVars
    <2> QED
      BY <2>2 DEF Kept
  <1>10. CASE Disconnect
    <2>1. exits' = [p \in Panes |-> 0] /\ sessions' = sessions
      BY <1>10 DEF Disconnect, LoseConnection
    <2> QED
      BY <2>1 DEF Kept
  <1>11. CASE Restart
    <2>1. exits' = [p \in Panes |-> 0] /\ sessions' = [p \in Panes |-> NoSession]
      BY <1>11 DEF Restart, LoseConnection
    <2> QED
      BY <1>4, <2>1 DEF Kept
  <1>12. CASE (\E i \in Issuers : RequestFails(i)) \/ DaemonHandles \/ (\E c \in Creates : Spawned(c))
    <2>1. UNCHANGED <<sessions, exits>>
      BY <1>12 DEF RequestFails, DaemonHandles, Spawned, managerVars
    <2> QED
      BY <1>1, <2>1
  <1>13. CASE Stays \/ \E i \in Issuers, s \in Steps : Goes(i, s)
    <2>1. UNCHANGED <<sessions, exits>>
      BY <1>13 DEF Stays, Goes, Aside
    <2> QED
      BY <1>1, <2>1
  <1>14. CASE \E c \in Creates : Loops(c) \/ Orders(c) \/ \E s \in Ends : Finishes(c, s)
    <2>1. UNCHANGED <<sessions, exits>>
      BY <1>14 DEF Loops, Orders, Finishes, Aside
    <2> QED
      BY <1>1, <2>1
  <1> QED
    BY <1>5, <1>6, <1>7, <1>8, <1>9, <1>10, <1>11, <1>12, <1>13, <1>14
    DEF Change, OfCreation, OfDaemon

(* A creation that a step is not about. *)
LEMMA OthersKept ==
  ASSUME Shape, Dated, NEW d \in Creates,
         pane' = pane, generation' = generation, gen'[d] = gen[d], killed' \subseteq killed,
         answer'[d] = answer[d],
         step'[d] = step[d] \/ (step[d] = "queued" /\ step'[d] = "granted")
  PROVE  /\ (Asking(d) /\ Current(d))' => Asking(d) /\ Current(d)
         /\ Good(d)' => Good(d)
         /\ Looks(d) => Looks(d)'
  <1>1. CASE step[d] \in {"requested", "writing"} /\ step'[d] = step[d]
    <2>1. step[d] \in CreateSteps /\ d \in Issuers
      BY <1>1, CreateStepSets, IssuersAssumption
    <2>2. pane[d] \in Panes
      BY <2>1, InPanes
    <2>3. Current(d)' <=> Current(d)
      BY <2>1, <2>2, CurrentKept
    <2> QED
      BY <1>1, <2>3 DEF Asking, Good, Looks, Up
  <1>2. CASE step[d] \notin {"requested", "writing"} /\ step'[d] \notin {"requested", "writing"}
    BY <1>2 DEF Asking, Good, Looks, Up
  <1> QED
    BY <1>1, <1>2

(* A step of a call that records nothing and sends no kill. *)
LEMMA CallKept ==
  ASSUME Shape, Records,
         UNCHANGED <<pane, daemon, disturbed, exits, crossed, sessions>>,
         Len(wire) \in Nat, Len(wire') \in Nat, Len(wire) <= Len(wire'),
         \A k \in 1..Len(wire) : wire'[k] = wire[k],
         \A k \in 1..Len(wire') : k > Len(wire) => wire'[k].kind # "kill",
         \A c \in Creates : (Asking(c) /\ Current(c))' =>
            \/ Asking(c) /\ Current(c)
            \/ \E j \in 1..Len(wire') :
                  j > Len(wire) /\ wire'[j].kind = "create" /\ wire'[j].from = c,
         \A c \in Creates : Good(c)' => Good(c),
         \A c \in Creates : Looks(c) => Looks(c)'
  PROVE  Behind' /\ Truthful' /\ Noticed'
  <1>1. Behind'
    <2> SUFFICES ASSUME NEW k \in 1..Len(wire'), wire'[k].kind = "kill", Calm(pane[wire'[k].from])
                 PROVE  /\ ~sessions[pane[wire'[k].from]].alive
                        /\ \A c \in Creates : pane[c] = pane[wire'[k].from] /\ (Asking(c) /\ Current(c))'
                              => AsksBehind(c, k)'
      BY DEF Behind, Calm
    <2>1. k \in 1..Len(wire) /\ wire'[k] = wire[k]
      OBVIOUS
    <2>2. ~sessions[pane[wire[k].from]].alive
      BY <2>1 DEF Records, Behind
    <2>3. ASSUME NEW c \in Creates, pane[c] = pane[wire[k].from], (Asking(c) /\ Current(c))'
          PROVE  \E j \in 1..Len(wire') : j > k /\ wire'[j].kind = "create" /\ wire'[j].from = c
      <3>1. CASE Asking(c) /\ Current(c)
        <4>1. PICK j \in 1..Len(wire) : j > k /\ wire[j].kind = "create" /\ wire[j].from = c
          BY <2>1, <2>3, <3>1 DEF Records, Behind, AsksBehind
        <4>2. j \in 1..Len(wire') /\ wire'[j] = wire[j]
          BY <4>1
        <4> QED
          BY <4>1, <4>2
      <3>2. CASE \E j \in 1..Len(wire') :
                    j > Len(wire) /\ wire'[j].kind = "create" /\ wire'[j].from = c
        <4>1. PICK j \in 1..Len(wire') :
                    j > Len(wire) /\ wire'[j].kind = "create" /\ wire'[j].from = c
          BY <3>2
        <4>2. j > k
          BY <2>1, <4>1
        <4> QED
          BY <4>1, <4>2
      <3> QED
        BY <2>3, <3>1, <3>2
    <2> QED
      BY <2>1, <2>2, <2>3 DEF AsksBehind
  <1>2. Truthful'
    BY DEF Records, Truthful, TruthfulAt, Sound
  <1>3. Noticed'
    <2> SUFFICES ASSUME NEW p \in Panes, Sound(p),
                        daemon[p] = "live", sessions[p].by # None, ~sessions[p].alive
                 PROVE  KillSent(p)' \/ \E c \in Creates : pane[c] = p /\ Looks(c)'
      BY DEF Noticed, NoticedAt, Sound
    <2>1. CASE KillSent(p)
      <3>1. PICK k \in 1..Len(wire) : wire[k].kind = "kill" /\ pane[wire[k].from] = p
        BY <2>1 DEF KillSent
      <3>2. k \in 1..Len(wire') /\ wire'[k] = wire[k]
        BY <3>1
      <3> QED
        BY <3>1, <3>2 DEF KillSent
    <2>2. CASE \E c \in Creates : pane[c] = p /\ Looks(c)
      BY <2>2
    <2> QED
      BY <2>1, <2>2 DEF Records, Noticed, NoticedAt
  <1> QED
    BY <1>1, <1>2, <1>3

(* What is sent is the last that the daemon gets. *)
LEMMA Sent ==
  ASSUME Shape, NEW i \in Issuers, NEW kind \in Kinds, Sends(i, kind)
  PROVE  /\ Len(wire) \in Nat /\ Len(wire') = Len(wire) + 1 /\ Len(wire') \in Nat
         /\ \A k \in 1..Len(wire) : wire'[k] = wire[k]
         /\ wire'[Len(wire) + 1] = [kind |-> kind, from |-> i]
         /\ Len(wire) + 1 \in 1..Len(wire')
         /\ \A k \in 1..Len(wire') : k \in 1..Len(wire) \/ k = Len(wire) + 1
         /\ answer'[i] = "none" /\ \A j \in Issuers \ {i} : answer'[j] = answer[j]
  <1> DEFINE m == [kind |-> kind, from |-> i]
  <1>1. wire' = Append(wire, m) /\ m \in [kind : Kinds, from : Issuers]
    BY DEF Sends
  <1> HIDE DEF m
  <1>2. /\ Len(wire) \in Nat /\ Len(wire') = Len(wire) + 1
        /\ \A k \in 1..Len(wire) : wire'[k] = wire[k]
        /\ wire'[Len(wire) + 1] = m
    BY <1>1, AppendProperties DEF Shape
  <1>3. answer'[i] = "none" /\ \A j \in Issuers \ {i} : answer'[j] = answer[j]
    BY DEF Sends, Shape
  <1> QED
    BY <1>2, <1>3 DEF m

LEMMA RecordsGoes ==
  ASSUME Shape, Dated, Records, NEW i \in Issuers, NEW s \in Steps, Goes(i, s)
  PROVE  Behind' /\ Truthful' /\ Noticed'
  <1>1. /\ UNCHANGED <<pane, daemon, disturbed, exits, crossed, sessions, killed, generation, gen>>
        /\ step' = [step EXCEPT ![i] = s]
        /\ (Silent \/ Sends(i, "list"))
        /\ step[i] \notin {"requested", "writing"} /\ s \notin {"requested", "writing"}
    BY DEF Goes, Aside, Dates
  <1>2. /\ Len(wire) \in Nat /\ Len(wire') \in Nat /\ Len(wire) <= Len(wire')
        /\ \A k \in 1..Len(wire) : wire'[k] = wire[k]
        /\ \A k \in 1..Len(wire') : k > Len(wire) => wire'[k].kind # "kill"
        /\ \A j \in Issuers \ {i} : answer'[j] = answer[j]
    <2>1. CASE Silent
      <3>1. wire' = wire /\ answer' = answer
        BY <2>1 DEF Silent
      <3>2. Len(wire) \in Nat
        BY DEF Shape
      <3>3. \A k \in 1..Len(wire) : ~(k > Len(wire))
        BY <3>2
      <3> QED
        BY <3>1, <3>2, <3>3
    <2>2. CASE Sends(i, "list")
      <3>1. "list" \in Kinds
        BY DEF Kinds
      <3>2. /\ Len(wire) \in Nat /\ Len(wire') = Len(wire) + 1 /\ Len(wire') \in Nat
            /\ \A k \in 1..Len(wire) : wire'[k] = wire[k]
            /\ wire'[Len(wire) + 1] = [kind |-> "list", from |-> i]
            /\ \A k \in 1..Len(wire') : k \in 1..Len(wire) \/ k = Len(wire) + 1
            /\ \A j \in Issuers \ {i} : answer'[j] = answer[j]
        BY <2>2, <3>1, Sent
      <3>3. \A k \in 1..Len(wire') : k > Len(wire) => wire'[k].kind # "kill"
        BY <3>2
      <3> QED
        BY <3>2, <3>3
    <2> QED
      BY <1>1, <2>1, <2>2
  <1>3. ASSUME NEW c \in Creates
        PROVE  /\ (Asking(c) /\ Current(c))' => Asking(c) /\ Current(c)
               /\ Good(c)' => Good(c)
               /\ Looks(c) => Looks(c)'
    <2>1. CASE c = i
      <3>1. step'[c] = s
        BY <1>1, <2>1 DEF Shape
      <3> QED
        BY <1>1, <2>1, <3>1 DEF Asking, Good, Looks, Up
    <2>2. CASE c # i
      <3>1. step'[c] = step[c] /\ answer'[c] = answer[c]
        BY <1>1, <1>2, <2>2, IssuersAssumption DEF Shape
      <3> QED
        BY <1>1, <3>1, OthersKept
    <2> QED
      BY <2>1, <2>2
  <1> QED
    BY <1>1, <1>2, <1>3, CallKept

LEMMA RecordsLoops ==
  ASSUME Shape, Dated, Records, NEW c \in Creates, Loops(c)
  PROVE  Behind' /\ Truthful' /\ Noticed'
  <1>1. /\ UNCHANGED <<pane, daemon, disturbed, exits, crossed, sessions, generation, answer, wire>>
        /\ step[c] \notin {"requested", "writing"} /\ killed' \subseteq killed
        /\ \A d \in Creates \ {c} : gen'[d] = gen[d]
    BY DEF Loops, Aside, Silent, Dated
  <1>2. PICK s \in {"granted", "queued", "joined", "waiting"} : step' = [step EXCEPT ![c] = s]
    BY DEF Loops
  <1>3. ASSUME NEW d \in Creates
        PROVE  /\ (Asking(d) /\ Current(d))' => Asking(d) /\ Current(d)
               /\ Good(d)' => Good(d)
               /\ Looks(d) => Looks(d)'
    <2>1. CASE d = c
      <3>1. step'[d] \notin {"requested", "writing"}
        BY <1>2, <2>1, IssuersAssumption DEF Shape
      <3> QED
        BY <1>1, <2>1, <3>1 DEF Asking, Good, Looks, Up
    <2>2. CASE d # c
      <3>1. step'[d] = step[d] /\ answer'[d] = answer[d] /\ gen'[d] = gen[d]
        BY <1>1, <1>2, <2>2, IssuersAssumption DEF Shape
      <3> QED
        BY <1>1, <3>1, OthersKept
    <2> QED
      BY <2>1, <2>2
  <1>4. Len(wire) \in Nat /\ \A k \in 1..Len(wire) : ~(k > Len(wire))
    BY DEF Shape
  <1> QED
    BY <1>1, <1>3, <1>4, CallKept

LEMMA RecordsOrders ==
  ASSUME Shape, Dated, Records, NEW c \in Creates, Orders(c)
  PROVE  Behind' /\ Truthful' /\ Noticed'
  <1>1. /\ UNCHANGED <<pane, daemon, disturbed, exits, crossed, sessions, killed, generation, gen>>
        /\ step' = [step EXCEPT ![c] = "requested"] /\ Sends(c, "create")
        /\ step[c] \notin {"requested", "writing"} /\ c \in Issuers
    BY IssuersAssumption DEF Orders, Aside, Dates
  <1>2. /\ Len(wire) \in Nat /\ Len(wire') \in Nat /\ Len(wire) <= Len(wire')
        /\ \A k \in 1..Len(wire) : wire'[k] = wire[k]
        /\ \A k \in 1..Len(wire') : k > Len(wire) => wire'[k].kind # "kill"
        /\ \E j \in 1..Len(wire') : j > Len(wire) /\ wire'[j].kind = "create" /\ wire'[j].from = c
        /\ answer'[c] = "none" /\ \A d \in Issuers \ {c} : answer'[d] = answer[d]
    <2>1. "create" \in Kinds
      BY DEF Kinds
    <2>2. /\ Len(wire) \in Nat /\ Len(wire') = Len(wire) + 1 /\ Len(wire') \in Nat
          /\ \A k \in 1..Len(wire) : wire'[k] = wire[k]
          /\ wire'[Len(wire) + 1] = [kind |-> "create", from |-> c]
          /\ Len(wire) + 1 \in 1..Len(wire')
          /\ \A k \in 1..Len(wire') : k \in 1..Len(wire) \/ k = Len(wire) + 1
          /\ answer'[c] = "none" /\ \A j \in Issuers \ {c} : answer'[j] = answer[j]
      BY <1>1, <2>1, Sent
    <2>3. \A k \in 1..Len(wire') : k > Len(wire) => wire'[k].kind # "kill"
      BY <2>2
    <2>4. \E j \in 1..Len(wire') : j > Len(wire) /\ wire'[j].kind = "create" /\ wire'[j].from = c
      <3>1. /\ Len(wire) + 1 > Len(wire) /\ wire'[Len(wire) + 1].kind = "create"
            /\ wire'[Len(wire) + 1].from = c
        BY <2>2
      <3> QED
        BY <2>2, <3>1
    <2> QED
      BY <2>2, <2>3, <2>4
  <1>3. ASSUME NEW d \in Creates, d # c
        PROVE  /\ (Asking(d) /\ Current(d))' => Asking(d) /\ Current(d)
               /\ Good(d)' => Good(d)
               /\ Looks(d) => Looks(d)'
    <2>1. step'[d] = step[d] /\ answer'[d] = answer[d]
      BY <1>1, <1>2, <1>3, IssuersAssumption DEF Shape
    <2> QED
      BY <1>1, <2>1, OthersKept
  <1>4. ~Good(c)' /\ ~Looks(c)
    BY <1>1, <1>2 DEF Good, Looks, Up
  <1>5. \A d \in Creates : (Asking(d) /\ Current(d))' =>
            \/ Asking(d) /\ Current(d)
            \/ \E j \in 1..Len(wire') : j > Len(wire) /\ wire'[j].kind = "create" /\ wire'[j].from = d
    BY <1>2, <1>3
  <1>6. \A d \in Creates : (Good(d)' => Good(d)) /\ (Looks(d) => Looks(d)')
    BY <1>3, <1>4
  <1> QED
    BY <1>1, <1>2, <1>5, <1>6, CallKept

LEMMA RecordsFinishes ==
  ASSUME Shape, SlotInv, Dated, Records, NEW c \in Creates, NEW s \in Ends, Finishes(c, s)
  PROVE  Behind' /\ Truthful' /\ Noticed'
  <1>1. /\ UNCHANGED <<pane, daemon, disturbed, exits, crossed, sessions, killed, generation, gen,
                       answer, wire>>
        /\ Settle(c, s) /\ ~Up(c) /\ (step[c] = "writing" => Current(c))
    BY DEF Finishes, Aside, Dates, Silent
  <1>2. /\ step'[c] = s
        /\ \A j \in Issuers \ {c} : step'[j] = step[j] \/ (step[j] = "queued" /\ step'[j] = "granted")
    BY <1>1, SettleMoves
  <1>3. ASSUME NEW d \in Creates
        PROVE  /\ (Asking(d) /\ Current(d))' => Asking(d) /\ Current(d)
               /\ Good(d)' => Good(d)
               /\ Looks(d) => Looks(d)'
    <2>1. CASE d = c
      <3>1. step'[d] \notin {"requested", "writing"}
        BY <1>2, <2>1, CreateStepSets
      <3> QED
        BY <1>1, <2>1, <3>1 DEF Asking, Good, Looks, Up
    <2>2. CASE d # c
      BY <1>1, <1>2, <2>2, IssuersAssumption, OthersKept
    <2> QED
      BY <2>1, <2>2
  <1>4. Len(wire) \in Nat /\ \A k \in 1..Len(wire) : ~(k > Len(wire))
    BY DEF Shape
  <1> QED
    BY <1>1, <1>3, <1>4, CallKept

(* A pane of which a step changes nothing. *)
LEMMA PaneKept ==
  ASSUME Records, pane' = pane, NEW q \in Panes, Sound(q)' => Sound(q),
         daemon'[q] = daemon[q], sessions'[q] = sessions[q], exits'[q] = exits[q],
         KillSent(q) => KillSent(q)',
         \A c \in Creates : pane[c] = q => (Good(c)' => Good(c)) /\ (Looks(c) => Looks(c)')
  PROVE  TruthfulAt(q)' /\ NoticedAt(q)'
  <1>1. TruthfulAt(q)'
    <2> SUFFICES ASSUME Sound(q)', sessions'[q].alive \/ \E c \in Creates : pane'[c] = q /\ Good(c)'
                 PROVE  daemon'[q] = "live" \/ exits'[q] > 0
      BY DEF TruthfulAt
    <2> QED
      BY DEF Records, Truthful, TruthfulAt
  <1>2. NoticedAt(q)'
    <2> SUFFICES ASSUME Sound(q)', daemon'[q] = "live", sessions'[q].by # None, ~sessions'[q].alive
                 PROVE  KillSent(q)' \/ \E c \in Creates : pane'[c] = q /\ Looks(c)'
      BY DEF NoticedAt
    <2> QED
      BY DEF Records, Noticed, NoticedAt
  <1> QED
    BY <1>1, <1>2

(* A pane that is told of no kill, when the requests stay as they are. *)
LEMMA BehindKept ==
  ASSUME Shape, Behind, UNCHANGED <<pane, wire>>, disturbed \subseteq disturbed',
         \A q \in Panes : Calm(q)' /\ KillSent(q) /\ ~sessions[q].alive => ~sessions'[q].alive,
         \A q \in Panes, c \in Creates : Calm(q)' /\ KillSent(q) /\ pane[c] = q =>
            ((Asking(c) /\ Current(c))' => Asking(c) /\ Current(c))
  PROVE  Behind'
  <1> SUFFICES ASSUME NEW k \in 1..Len(wire), wire[k].kind = "kill", Calm(pane[wire[k].from])'
               PROVE  /\ ~sessions'[pane[wire[k].from]].alive
                      /\ \A c \in Creates : pane[c] = pane[wire[k].from] /\ (Asking(c) /\ Current(c))'
                            => AsksBehind(c, k)'
    BY DEF Behind
  <1> DEFINE q == pane[wire[k].from]
  <1>1. q \in Panes /\ KillSent(q) /\ Calm(q)
    BY DEF Shape, KillSent, Calm
  <1>2. ~sessions'[q].alive
    BY <1>1 DEF Behind
  <1>3. ASSUME NEW c \in Creates, pane[c] = q, (Asking(c) /\ Current(c))'
        PROVE  AsksBehind(c, k)'
    <2>1. Asking(c) /\ Current(c)
      BY <1>1, <1>3
    <2>2. AsksBehind(c, k)
      BY <1>1, <1>3, <2>1 DEF Behind
    <2> QED
      BY <2>2 DEF AsksBehind
  <1> QED
    BY <1>2, <1>3

(* A kill is sent that makes the creations of its pane stale. *)
LEMMA BehindSends ==
  ASSUME Shape, Behind, NEW i \in Issuers, Sends(i, "kill"), UNCHANGED <<pane, disturbed>>,
         pane[i] \in Panes, ~sessions'[pane[i]].alive,
         \A q \in Panes : q # pane[i] => sessions'[q] = sessions[q],
         \A c \in Creates : (Asking(c) /\ Current(c))' => pane[c] # pane[i] /\ Asking(c) /\ Current(c)
  PROVE  Behind' /\ KillSent(pane[i])' /\ \A q : KillSent(q) => KillSent(q)'
  <1>1. "kill" \in Kinds
    BY DEF Kinds
  <1>2. /\ Len(wire) \in Nat /\ Len(wire') = Len(wire) + 1
        /\ \A k \in 1..Len(wire) : wire'[k] = wire[k]
        /\ wire'[Len(wire) + 1] = [kind |-> "kill", from |-> i]
        /\ Len(wire) + 1 \in 1..Len(wire')
        /\ \A k \in 1..Len(wire') : k \in 1..Len(wire) \/ k = Len(wire) + 1
    BY <1>1, Sent
  <1>3. \A k \in 1..Len(wire) : k \in 1..Len(wire')
    BY <1>2
  <1>4. KillSent(pane[i])'
    BY <1>2 DEF KillSent
  <1>5. ASSUME NEW q, KillSent(q) PROVE KillSent(q)'
    <2>1. PICK k \in 1..Len(wire) : wire[k].kind = "kill" /\ pane[wire[k].from] = q
      BY <1>5 DEF KillSent
    <2> QED
      BY <1>2, <1>3, <2>1 DEF KillSent
  <1>6. ASSUME NEW k \in 1..Len(wire'), wire'[k].kind = "kill", Calm(pane[wire'[k].from])
        PROVE  /\ ~sessions'[pane[wire'[k].from]].alive
               /\ \A c \in Creates : pane[c] = pane[wire'[k].from] /\ (Asking(c) /\ Current(c))'
                     => AsksBehind(c, k)'
    <2>1. CASE pane[wire'[k].from] = pane[i]
      BY <2>1
    <2>2. CASE pane[wire'[k].from] # pane[i]
      <3> DEFINE q == pane[wire[k].from]
      <3>1. k \in 1..Len(wire) /\ wire'[k] = wire[k]
        BY <1>2, <2>2
      <3>2. q \in Panes /\ q # pane[i] /\ Calm(q) /\ wire[k].kind = "kill"
        BY <1>6, <2>2, <3>1 DEF Shape
      <3>3. ~sessions'[q].alive
        BY <3>1, <3>2 DEF Behind
      <3>4. ASSUME NEW c \in Creates, pane[c] = q, (Asking(c) /\ Current(c))'
            PROVE  AsksBehind(c, k)'
        <4>1. PICK j \in 1..Len(wire) : j > k /\ wire[j].kind = "create" /\ wire[j].from = c
          BY <3>1, <3>2, <3>4 DEF Behind, AsksBehind
        <4>2. j \in 1..Len(wire') /\ wire'[j] = wire[j]
          BY <1>2, <1>3
        <4> QED
          BY <4>1, <4>2 DEF AsksBehind
      <3> QED
        BY <3>1, <3>3, <3>4
    <2> QED
      BY <2>1, <2>2
  <1>7. Behind'
    BY <1>6 DEF Behind, Calm
  <1> QED
    BY <1>4, <1>5, <1>7

(* What is answered has no request on its way. *)
LEMMA GoodHasNoKill ==
  ASSUME Shape, KillInv, Behind, NEW c \in Creates, Good(c), Calm(pane[c])
  PROVE  ~KillSent(pane[c])
  <1> SUFFICES ASSUME NEW k \in 1..Len(wire), wire[k].kind = "kill", pane[wire[k].from] = pane[c]
               PROVE  FALSE
    BY DEF KillSent
  <1>1. AsksBehind(c, k)
    BY DEF Behind, Good, Up, Asking
  <1>2. PICK j \in 1..Len(wire) : wire[j].from = c
    BY <1>1 DEF AsksBehind
  <1>3. answer[c] = "none"
    BY <1>2 DEF KillInv, Asked
  <1> QED
    BY <1>3 DEF Good, Up

LEMMA RecordsOpens ==
  ASSUME Shape, SlotInv, KillInv, Dated, Records, NEW c \in Creates, Opens(c)
  PROVE  Behind' /\ Truthful' /\ Noticed'
  <1> DEFINE p == pane[c]
  <1>1. /\ UNCHANGED <<pane, daemon, disturbed, exits, crossed, killed, generation, gen, answer, wire>>
        /\ Good(c) /\ step[c] = "requested"
        /\ sessions' = [sessions EXCEPT ![p] = [by |-> c, alive |-> TRUE]]
    BY DEF Opens, Aside, Dates, Silent, Good, Up
  <1>2. p \in Panes /\ c \in Issuers
    BY <1>1, CreateStepSets, InPanes, IssuersAssumption
  <1>3. /\ step'[c] # "requested"
        /\ \A j \in Issuers \ {c} : step'[j] = step[j] \/ (step[j] = "queued" /\ step'[j] = "granted")
    <2>1. CASE Settle(c, "ok")
      BY <2>1, SettleMoves
    <2>2. CASE step' = [step EXCEPT ![c] = "writing"]
      BY <1>2, <2>2 DEF Shape
    <2> QED
      BY <2>1, <2>2 DEF Opens
  <1>4. ASSUME NEW d \in Creates, d # c
        PROVE  /\ (Asking(d) /\ Current(d))' => Asking(d) /\ Current(d)
               /\ Good(d)' => Good(d)
               /\ Looks(d) => Looks(d)'
    BY <1>1, <1>3, <1>4, IssuersAssumption, OthersKept
  <1>5. /\ sessions'[p].alive
        /\ \A q \in Panes : q # p => sessions'[q] = sessions[q]
    BY <1>1, <1>2 DEF Records, Kept
  <1>6. Calm(p) => ~KillSent(p)
    BY <1>1, GoodHasNoKill DEF Records
  <1>7. Behind'
    <2>1. \A q \in Panes : Calm(q)' /\ KillSent(q) => q # p
      BY <1>1, <1>6 DEF Calm
    <2>2. \A q \in Panes : Calm(q)' /\ KillSent(q) /\ ~sessions[q].alive => ~sessions'[q].alive
      BY <1>5, <2>1
    <2>3. \A q \in Panes, d \in Creates : Calm(q)' /\ KillSent(q) /\ pane[d] = q =>
            ((Asking(d) /\ Current(d))' => Asking(d) /\ Current(d))
      BY <1>4, <2>1
    <2> QED
      BY <1>1, <2>2, <2>3, BehindKept DEF Records
  <1>8. ASSUME NEW q \in Panes, q # p PROVE TruthfulAt(q)' /\ NoticedAt(q)'
    <2>1. /\ Sound(q)' => Sound(q)
          /\ KillSent(q) => KillSent(q)'
      BY <1>1 DEF Sound, KillSent
    <2>2. sessions'[q] = sessions[q] /\ daemon'[q] = daemon[q] /\ exits'[q] = exits[q]
      BY <1>1, <1>5, <1>8
    <2>3. \A d \in Creates : pane[d] = q => (Good(d)' => Good(d)) /\ (Looks(d) => Looks(d)')
      BY <1>4, <1>8
    <2> QED
      BY <1>1, <2>1, <2>2, <2>3, PaneKept
  <1>9. TruthfulAt(p)'
    <2>1. Sound(p) => daemon[p] = "live" \/ exits[p] > 0
      BY <1>1, <1>2 DEF Records, Truthful, TruthfulAt
    <2> QED
      BY <1>1, <2>1 DEF TruthfulAt, Sound
  <1>10. NoticedAt(p)'
    BY <1>1, <1>5 DEF NoticedAt
  <1>11. ASSUME NEW q \in Panes PROVE TruthfulAt(q)' /\ NoticedAt(q)'
    <2>1. CASE q = p
      <3>1. p' = p
        BY <1>1
      <3> QED
        BY <1>9, <1>10, <2>1, <3>1 DEF TruthfulAt, NoticedAt
    <2>2. CASE q # p
      BY <1>8, <2>2
    <2> QED
      BY <2>1, <2>2
  <1> QED
    BY <1>7, <1>11 DEF Truthful, Noticed

LEMMA RecordsDiscards ==
  ASSUME Shape, Dated, Held, Records, NEW c \in Creates, Discards(c)
  PROVE  Behind' /\ Truthful' /\ Noticed'
  <1> DEFINE p == pane[c]
  <1>1. /\ UNCHANGED <<pane, daemon, disturbed, exits, crossed, killed, generation, gen>>
        /\ step[c] \in {"requested", "writing"} /\ ~Current(c) /\ Sends(c, "kill")
        /\ step' = [step EXCEPT ![c] = "discarding"]
        /\ sessions' = [sessions EXCEPT ![p] = NoSession]
    BY DEF Discards, Aside, Dates, Up
  <1>2. p \in Panes /\ c \in Issuers
    BY <1>1, CreateStepSets, InPanes, IssuersAssumption
  <1>3. /\ "kill" \in Kinds /\ step'[c] = "discarding"
        /\ \A j \in Issuers \ {c} : step'[j] = step[j]
    BY <1>1, <1>2 DEF Shape, Kinds
  <1>4. \A j \in Issuers \ {c} : answer'[j] = answer[j]
    BY <1>1, <1>2, <1>3, Sent
  <1>5. ASSUME NEW d \in Creates, d # c
        PROVE  /\ pane[d] = p => ~Asking(d) /\ ~Asking(d)'
               /\ (Asking(d) /\ Current(d))' => Asking(d) /\ Current(d)
               /\ Good(d)' => Good(d)
               /\ Looks(d) => Looks(d)'
    <2>1. step'[d] = step[d] /\ answer'[d] = answer[d]
      BY <1>3, <1>4, <1>5, IssuersAssumption
    <2>2. pane[d] = p => ~Asking(d) /\ ~Asking(d)'
      BY <1>1, <1>5, <2>1, CreateStepSets DEF Held, Asking
    <2> QED
      BY <1>1, <2>1, <2>2, OthersKept
  <1>6. /\ sessions'[p] = NoSession
        /\ \A q \in Panes : q # p => sessions'[q] = sessions[q]
    BY <1>1, <1>2 DEF Records, Kept
  <1>7. Behind' /\ \A q : KillSent(q) => KillSent(q)'
    <2>1. ~sessions'[p].alive
      BY <1>6 DEF NoSession
    <2>2. ~Asking(c)'
      BY <1>3 DEF Asking
    <2>3. \A d \in Creates : (Asking(d) /\ Current(d))' => pane[d] # p /\ Asking(d) /\ Current(d)
      BY <1>5, <2>2
    <2> QED
      BY <1>1, <1>2, <1>6, <2>1, <2>3, BehindSends DEF Records
  <1>8. ASSUME NEW q \in Panes, q # p PROVE TruthfulAt(q)' /\ NoticedAt(q)'
    <2>1. /\ Sound(q)' => Sound(q)
          /\ KillSent(q) => KillSent(q)'
      BY <1>1, <1>7 DEF Sound
    <2>2. sessions'[q] = sessions[q] /\ daemon'[q] = daemon[q] /\ exits'[q] = exits[q]
      BY <1>1, <1>6, <1>8
    <2>3. \A d \in Creates : pane[d] = q => (Good(d)' => Good(d)) /\ (Looks(d) => Looks(d)')
      BY <1>5, <1>8
    <2> QED
      BY <1>1, <2>1, <2>2, <2>3, PaneKept
  <1>9. TruthfulAt(p)'
    <2>1. \A d \in Creates : pane[d] = p => ~Good(d)'
      BY <1>3, <1>5 DEF Good, Up, Asking
    <2> QED
      BY <1>1, <1>6, <2>1 DEF TruthfulAt, NoSession
  <1>10. NoticedAt(p)'
    BY <1>1, <1>6 DEF NoticedAt, NoSession
  <1>11. ASSUME NEW q \in Panes PROVE TruthfulAt(q)' /\ NoticedAt(q)'
    <2>1. CASE q = p
      <3>1. p' = p
        BY <1>1
      <3> QED
        BY <1>9, <1>10, <2>1, <3>1 DEF TruthfulAt, NoticedAt
    <2>2. CASE q # p
      BY <1>8, <2>2
    <2> QED
      BY <2>1, <2>2
  <1> QED
    BY <1>7, <1>11 DEF Truthful, Noticed

LEMMA RecordsTerminates ==
  ASSUME Shape, Dated, Records, NEW k \in Issuers, Terminates(k)
  PROVE  Behind' /\ Truthful' /\ Noticed'
  <1> DEFINE p == pane[k]
  <1>1. /\ UNCHANGED <<pane, daemon, disturbed, exits, crossed, gen>>
        /\ step[k] \in {"unused", "sweeping"} /\ Sends(k, "kill") /\ p \in Panes
        /\ step' = [step EXCEPT ![k] = "killing"] /\ Dead(p)
        /\ generation' = [generation EXCEPT ![p] = @ + 1] /\ killed' = killed \cup {p}
    BY DEF Terminates, Aside
  <1>2. "kill" \in Kinds /\ step'[k] = "killing" /\ \A j \in Issuers \ {k} : step'[j] = step[j]
    BY <1>1 DEF Shape, Kinds
  <1>3. \A j \in Issuers \ {k} : answer'[j] = answer[j]
    BY <1>1, <1>2, Sent
  <1>4. /\ ~sessions'[p].alive
        /\ \A q \in Panes : q # p => sessions'[q] = sessions[q]
    BY <1>1 DEF Records, Kept, Dead
  <1>5. ASSUME NEW d \in Creates, pane[d] = p PROVE ~Current(d)'
    BY <1>1, <1>5 DEF Current
  <1>6. ASSUME NEW d \in Creates, pane[d] \in Panes, pane[d] # p
        PROVE  /\ (Asking(d) /\ Current(d))' => Asking(d) /\ Current(d)
               /\ Good(d)' => Good(d)
               /\ Looks(d) => Looks(d)'
    <2>1. d # k /\ step'[d] = step[d] /\ answer'[d] = answer[d]
      BY <1>2, <1>3, <1>6, IssuersAssumption
    <2>2. generation'[pane[d]] = generation[pane[d]]
      BY <1>1, <1>6 DEF Dated
    <2>3. Current(d)' <=> Current(d)
      BY <1>1, <1>6, <2>2 DEF Current
    <2> QED
      BY <1>1, <2>1, <2>3 DEF Asking, Good, Looks, Up
  <1>7. \A d \in Creates : (Asking(d) /\ Current(d))' => pane[d] # p /\ Asking(d) /\ Current(d)
    <2> SUFFICES ASSUME NEW d \in Creates, (Asking(d) /\ Current(d))'
                 PROVE  pane[d] # p /\ Asking(d) /\ Current(d)
      OBVIOUS
    <2>1. pane[d] # p
      BY <1>5
    <2>2. step[d] \in {"requested", "writing"} /\ d \in Issuers
      BY <1>2, <2>1, IssuersAssumption DEF Asking
    <2>3. pane[d] \in Panes
      BY <2>2, CreateStepSets, InPanes
    <2> QED
      BY <1>6, <2>1, <2>3
  <1>8. Behind' /\ \A q : KillSent(q) => KillSent(q)'
    BY <1>1, <1>4, <1>7, BehindSends DEF Records
  <1>9. KillSent(p)'
    BY <1>1, <1>4, <1>7, BehindSends DEF Records
  <1>10. ASSUME NEW q \in Panes, q # p PROVE TruthfulAt(q)' /\ NoticedAt(q)'
    <2>1. /\ Sound(q)' => Sound(q)
          /\ KillSent(q) => KillSent(q)'
      BY <1>1, <1>8 DEF Sound
    <2>2. sessions'[q] = sessions[q] /\ daemon'[q] = daemon[q] /\ exits'[q] = exits[q]
      BY <1>1, <1>4, <1>10
    <2>3. \A d \in Creates : pane[d] = q => (Good(d)' => Good(d)) /\ (Looks(d) => Looks(d)')
      BY <1>6, <1>10
    <2> QED
      BY <1>1, <2>1, <2>2, <2>3, PaneKept
  <1>11. TruthfulAt(p)'
    BY <1>1, <1>4, <1>5 DEF TruthfulAt, Good
  <1>12. NoticedAt(p)'
    BY <1>9 DEF NoticedAt
  <1>13. ASSUME NEW q \in Panes PROVE TruthfulAt(q)' /\ NoticedAt(q)'
    <2>1. CASE q = p
      <3>1. p' = p
        BY <1>1
      <3> QED
        BY <1>11, <1>12, <2>1, <3>1 DEF TruthfulAt, NoticedAt
    <2>2. CASE q # p
      BY <1>10, <2>2
    <2> QED
      BY <2>1, <2>2
  <1> QED
    BY <1>8, <1>13 DEF Truthful, Noticed

(* A step of the daemon, or an event, that is about the pane p. *)
LEMMA OfOnePane ==
  ASSUME NEW p \in Panes, TruthfulAt(p)' /\ NoticedAt(p)',
         \A q \in Panes : q # p => TruthfulAt(q)' /\ NoticedAt(q)'
  PROVE  Truthful' /\ Noticed'
  <1> SUFFICES ASSUME NEW q \in Panes PROVE TruthfulAt(q)' /\ NoticedAt(q)'
    BY DEF Truthful, Noticed
  <1>1. CASE q = p
    BY <1>1
  <1>2. CASE q # p
    BY <1>2
  <1> QED
    BY <1>1, <1>2

LEMMA RecordsExitArrives ==
  ASSUME Shape, Records, NEW p \in Panes, ExitArrives(p)
  PROVE  Behind' /\ Truthful' /\ Noticed'
  <1>1. /\ UNCHANGED <<pane, daemon, disturbed, killed, generation, gen, step, answer, wire>>
        /\ Dead(p) /\ exits' = [exits EXCEPT ![p] = @ - 1]
    BY DEF ExitArrives, callVars, paramVars
  <1>2. crossed' = IF \/ Answered(p) # {} /\ daemon[p] # "live"
                      \/ Answered(p) = {} /\ daemon[p] = "live" /\ sessions[p].alive
                   THEN crossed \cup {p} ELSE crossed
    BY DEF ExitArrives
  <1>3. /\ sessions'[p].alive = FALSE /\ sessions'[p].by = sessions[p].by
        /\ \A q \in Panes : q # p => sessions'[q] = sessions[q] /\ exits'[q] = exits[q]
    BY <1>1 DEF Records, Kept, Dead
  <1>4. \A c \in Creates : (Current(c)' <=> Current(c)) /\ (Up(c)' <=> Up(c))
    BY <1>1 DEF Current, Up
  <1>5. \A c \in Creates : (Asking(c)' <=> Asking(c)) /\ (Good(c)' <=> Good(c)) /\ (Looks(c)' <=> Looks(c))
    BY <1>1, <1>4 DEF Asking, Good, Looks
  <1>6. Behind'
    <2>1. \A q \in Panes : ~sessions[q].alive => ~sessions'[q].alive
      BY <1>3
    <2>2. \A c \in Creates : (Asking(c) /\ Current(c))' => Asking(c) /\ Current(c)
      BY <1>4, <1>5
    <2> QED
      BY <1>1, <2>1, <2>2, BehindKept DEF Records
  <1>7. \A q \in Panes : (Sound(q)' => Sound(q)) /\ (KillSent(q)' <=> KillSent(q))
    BY <1>1, <1>2 DEF Sound, KillSent
  <1>8. ASSUME NEW q \in Panes, q # p PROVE TruthfulAt(q)' /\ NoticedAt(q)'
    BY <1>1, <1>3, <1>5, <1>7, <1>8, PaneKept
  <1>9. TruthfulAt(p)'
    <2> SUFFICES ASSUME Sound(p)', NEW c \in Creates, pane[c] = p, Good(c)'
                 PROVE  daemon[p] = "live"
      BY <1>1, <1>3 DEF TruthfulAt
    <2>1. c \in Answered(p)
      BY <1>5 DEF Answered, Good, Up
    <2>2. p \notin crossed'
      BY DEF Sound
    <2> QED
      BY <1>2, <2>1, <2>2
  <1>10. NoticedAt(p)'
    <2> SUFFICES ASSUME Sound(p)', daemon[p] = "live", sessions[p].by # None
                 PROVE  KillSent(p)' \/ \E c \in Creates : pane[c] = p /\ Looks(c)'
      BY <1>1, <1>3 DEF NoticedAt
    <2>1. CASE sessions[p].alive
      <3>1. Answered(p) # {}
        BY <1>2, <2>1 DEF Sound
      <3>2. PICK c \in Creates : pane[c] = p /\ Looks(c)
        BY <3>1 DEF Answered, Looks, Up
      <3> QED
        BY <1>5, <3>2
    <2>2. CASE ~sessions[p].alive
      <3>1. KillSent(p) \/ \E c \in Creates : pane[c] = p /\ Looks(c)
        BY <1>7, <2>2 DEF Records, Noticed, NoticedAt
      <3> QED
        BY <1>5, <1>7, <3>1
    <2> QED
      BY <2>1, <2>2
  <1> QED
    BY <1>6, <1>8, <1>9, <1>10, OfOnePane

LEMMA RecordsTimerFires ==
  ASSUME Shape, Records, NEW p \in Panes, TimerFires(p)
  PROVE  Behind' /\ Truthful' /\ Noticed'
  <1>1. /\ UNCHANGED <<pane, daemon, disturbed, crossed, exits, killed, generation, gen, step,
                       answer, wire>>
        /\ sessions' = [sessions EXCEPT ![p] = NoSession]
    BY DEF TimerFires, callVars, paramVars, daemonVars, faultVars
  <1>2. /\ sessions'[p] = NoSession
        /\ \A q \in Panes : q # p => sessions'[q] = sessions[q]
    BY <1>1 DEF Records, Kept
  <1>3. \A c \in Creates : (Current(c)' <=> Current(c)) /\ (Up(c)' <=> Up(c))
    BY <1>1 DEF Current, Up
  <1>4. \A c \in Creates : (Asking(c)' <=> Asking(c)) /\ (Good(c)' <=> Good(c)) /\ (Looks(c)' <=> Looks(c))
    BY <1>1, <1>3 DEF Asking, Good, Looks
  <1>5. \A q \in Panes : (Sound(q)' => Sound(q)) /\ (KillSent(q)' <=> KillSent(q))
    BY <1>1 DEF Sound, KillSent
  <1>6. Behind'
    <2>1. \A q \in Panes : ~sessions[q].alive => ~sessions'[q].alive
      BY <1>2 DEF NoSession
    <2>2. \A c \in Creates : (Asking(c) /\ Current(c))' => Asking(c) /\ Current(c)
      BY <1>3, <1>4
    <2> QED
      BY <1>1, <2>1, <2>2, BehindKept DEF Records
  <1>7. ASSUME NEW q \in Panes, q # p PROVE TruthfulAt(q)' /\ NoticedAt(q)'
    BY <1>1, <1>2, <1>4, <1>5, <1>7, PaneKept
  <1>8. TruthfulAt(p)'
    <2> SUFFICES ASSUME Sound(p), NEW c \in Creates, pane[c] = p, Good(c)
                 PROVE  daemon[p] = "live" \/ exits[p] > 0
      BY <1>1, <1>2, <1>4, <1>5 DEF TruthfulAt, NoSession
    <2> QED
      BY DEF Records, Truthful, TruthfulAt
  <1>9. NoticedAt(p)'
    BY <1>2 DEF NoticedAt, NoSession
  <1> QED
    BY <1>6, <1>7, <1>8, <1>9, OfOnePane

LEMMA RecordsShellExits ==
  ASSUME Shape, Records, NEW p \in Panes, ShellExits(p)
  PROVE  Behind' /\ Truthful' /\ Noticed'
  <1>1. /\ UNCHANGED <<pane, crossed, killed, generation, gen, step, answer, wire, sessions>>
        /\ daemon' = [daemon EXCEPT ![p] = "none"]
        /\ exits' = IF p \in attached THEN [exits EXCEPT ![p] = @ + 1] ELSE exits
        /\ disturbed' = IF p \notin attached /\ (sessions[p].alive \/ Answered(p) # {})
                        THEN disturbed \cup {p} ELSE disturbed
    BY DEF ShellExits, callVars, paramVars, managerVars
  <1>2. /\ daemon'[p] = "none" /\ (p \in attached => exits'[p] > 0)
        /\ \A q \in Panes : q # p => daemon'[q] = daemon[q] /\ exits'[q] = exits[q]
    BY <1>1 DEF Records, Kept, Shape
  <1>3. \A c \in Creates : (Current(c)' <=> Current(c)) /\ (Up(c)' <=> Up(c))
    BY <1>1 DEF Current, Up
  <1>4. \A c \in Creates : (Asking(c)' <=> Asking(c)) /\ (Good(c)' <=> Good(c)) /\ (Looks(c)' <=> Looks(c))
    BY <1>1, <1>3 DEF Asking, Good, Looks
  <1>5. \A q \in Panes : (Sound(q)' => Sound(q)) /\ (KillSent(q)' <=> KillSent(q))
    BY <1>1 DEF Sound, KillSent
  <1>6. Behind'
    <2>1. disturbed \subseteq disturbed'
      BY <1>1
    <2>2. \A c \in Creates : (Asking(c) /\ Current(c))' => Asking(c) /\ Current(c)
      BY <1>3, <1>4
    <2> QED
      BY <1>1, <2>1, <2>2, BehindKept DEF Records
  <1>7. ASSUME NEW q \in Panes, q # p PROVE TruthfulAt(q)' /\ NoticedAt(q)'
    BY <1>1, <1>2, <1>4, <1>5, <1>7, PaneKept
  <1>8. TruthfulAt(p)'
    <2> SUFFICES ASSUME p \notin disturbed', p \notin attached,
                        sessions[p].alive \/ \E c \in Creates : pane[c] = p /\ Good(c)
                 PROVE  FALSE
      BY <1>1, <1>2, <1>4 DEF TruthfulAt, Sound
    <2>1. ~sessions[p].alive /\ Answered(p) = {}
      BY <1>1
    <2> QED
      BY <2>1 DEF Answered, Good, Up
  <1>9. NoticedAt(p)'
    BY <1>2 DEF NoticedAt
  <1> QED
    BY <1>6, <1>7, <1>8, <1>9, OfOnePane

LEMMA RecordsFails ==
  ASSUME Shape, Records, NEW i \in Issuers, RequestFails(i)
  PROVE  Behind' /\ Truthful' /\ Noticed'
  <1>1. /\ UNCHANGED <<pane, crossed, killed, generation, gen, step, wire, sessions, daemon, exits>>
        /\ answer[i] = "none" /\ answer' = [answer EXCEPT ![i] = "failed"]
        /\ disturbed \subseteq disturbed'
    BY DEF RequestFails, Awaiting, paramVars, managerVars
  <1>2. \A c \in Creates : (Current(c)' <=> Current(c)) /\ (Asking(c)' <=> Asking(c))
    BY <1>1 DEF Current, Asking
  <1>3. \A c \in Creates : Up(c)' <=> Up(c)
    BY <1>1, IssuersAssumption DEF Up, Shape
  <1>4. \A c \in Creates : (Good(c)' <=> Good(c)) /\ (Looks(c)' <=> Looks(c))
    BY <1>1, <1>2, <1>3 DEF Good, Looks
  <1>5. \A q \in Panes : (Sound(q)' => Sound(q)) /\ (KillSent(q)' <=> KillSent(q))
    BY <1>1 DEF Sound, KillSent
  <1>6. Behind'
    BY <1>1, <1>2, BehindKept DEF Records
  <1>7. ASSUME NEW q \in Panes PROVE TruthfulAt(q)' /\ NoticedAt(q)'
    BY <1>1, <1>4, <1>5, PaneKept
  <1> QED
    BY <1>6, <1>7 DEF Truthful, Noticed

LEMMA RecordsSpawned ==
  ASSUME Shape, KillInv, Records, NEW c \in Creates, Spawned(c)
  PROVE  Behind' /\ Truthful' /\ Noticed'
  <1> DEFINE p == pane[c]
  <1>1. /\ UNCHANGED <<pane, crossed, disturbed, killed, generation, gen, step, wire, sessions, exits>>
        /\ c \in spawning /\ daemon' = [daemon EXCEPT ![p] = "live"]
        /\ answer' = IF Awaiting(c) /\ step[c] \in Awaited("create")
                     THEN [answer EXCEPT ![c] = "ok"] ELSE answer
    BY DEF Spawned, Answer, paramVars, managerVars, faultVars
  <1>2. c \in Issuers /\ p \in Panes
    BY <1>1 DEF Shape
  <1>3. /\ daemon'[p] = "live"
        /\ \A q \in Panes : q # p => daemon'[q] = daemon[q]
    BY <1>1, <1>2 DEF Shape
  <1>4. \A d \in Creates : d # c => answer'[d] = answer[d]
    BY <1>1, IssuersAssumption DEF Shape
  <1>5. \A d \in Creates : (Current(d)' <=> Current(d)) /\ (Asking(d)' <=> Asking(d))
    BY <1>1 DEF Current, Asking
  <1>6. \A d \in Creates : d # c => (Good(d)' <=> Good(d)) /\ (Looks(d)' <=> Looks(d))
    BY <1>1, <1>4, <1>5 DEF Good, Looks, Up
  <1>7. \A q \in Panes : (Sound(q)' => Sound(q)) /\ (KillSent(q)' <=> KillSent(q))
    BY <1>1 DEF Sound, KillSent
  <1>8. Behind'
    BY <1>1, <1>5, BehindKept DEF Records
  <1>9. ASSUME NEW q \in Panes, q # p PROVE TruthfulAt(q)' /\ NoticedAt(q)'
    <2>1. \A d \in Creates : pane[d] = q => (Good(d)' => Good(d)) /\ (Looks(d) => Looks(d)')
      BY <1>6, <1>9
    <2> QED
      BY <1>1, <1>3, <1>7, <1>9, <2>1, PaneKept
  <1>10. TruthfulAt(p)'
    BY <1>1, <1>3 DEF TruthfulAt
  <1>11. NoticedAt(p)'
    <2> SUFFICES ASSUME Calm(p) PROVE Looks(c)'
      BY <1>1 DEF NoticedAt, Sound, Calm
    <2>1. step[c] = "requested" /\ answer[c] = "none"
      BY <1>1 DEF KillInv, Coming
    <2>2. answer'[c] = "ok"
      BY <1>1, <1>2, <2>1 DEF Awaiting, Awaited, Shape
    <2> QED
      BY <1>1, <2>1, <2>2 DEF Looks, Up
  <1>12. p' = p
    BY <1>1
  <1> QED
    BY <1>2, <1>8, <1>9, <1>10, <1>11, <1>12, OfOnePane

(* The daemon handles the first request. *)
LEMMA Handled ==
  ASSUME Shape, DaemonHandles
  PROVE  /\ Len(wire) \in Nat /\ 1 \in 1..Len(wire) /\ Head(wire) = wire[1]
         /\ wire[1].from \in Issuers /\ pane[wire[1].from] \in Panes
         /\ \A k \in 1..Len(wire') : k + 1 \in 1..Len(wire) /\ wire'[k] = wire[k + 1]
         /\ \A k \in 1..Len(wire) : k # 1 => k - 1 \in 1..Len(wire') /\ wire'[k - 1] = wire[k]
  <1>1. /\ Len(wire) \in Nat /\ 1 \in 1..Len(wire) /\ Head(wire) = wire[1]
        /\ Len(wire') = Len(wire) - 1
        /\ \A k \in 1..Len(wire') : wire'[k] = wire[k + 1]
    <2>1. wire # <<>> /\ wire' = Tail(wire) /\ wire \in Seq([kind : Kinds, from : Issuers])
      BY DEF DaemonHandles, Shape
    <2> QED
      BY <2>1, HeadTailProperties, EmptySeq
  <1>2. \A k \in 1..Len(wire') : k + 1 \in 1..Len(wire)
    BY <1>1
  <1>3. ASSUME NEW k \in 1..Len(wire), k # 1
        PROVE  k - 1 \in 1..Len(wire') /\ wire'[k - 1] = wire[k]
    <2>1. k - 1 \in 1..Len(wire') /\ (k - 1) + 1 = k
      BY <1>1, <1>3
    <2> QED
      BY <1>1, <2>1
  <1>4. wire[1].from \in Issuers /\ pane[wire[1].from] \in Panes
    BY <1>1, WireCalls DEF Shape
  <1> QED
    BY <1>1, <1>2, <1>3, <1>4

LEMMA BehindHandled ==
  ASSUME Shape, Records, DaemonHandles
  PROVE  Behind'
  <1>1. UNCHANGED <<pane, sessions, disturbed, step, gen, generation, killed>>
    BY DEF DaemonHandles, paramVars, managerVars, faultVars
  <1>2. \A c \in Creates : (Asking(c) /\ Current(c))' <=> Asking(c) /\ Current(c)
    BY <1>1 DEF Asking, Current
  <1> SUFFICES ASSUME NEW k \in 1..Len(wire'), wire'[k].kind = "kill", Calm(pane[wire'[k].from])
               PROVE  /\ ~sessions[pane[wire'[k].from]].alive
                      /\ \A c \in Creates : pane[c] = pane[wire'[k].from] /\ Asking(c) /\ Current(c)
                            => AsksBehind(c, k)'
    BY <1>1, <1>2 DEF Behind, Calm
  <1>3. k + 1 \in 1..Len(wire) /\ wire'[k] = wire[k + 1]
    BY Handled
  <1>4. ~sessions[pane[wire'[k].from]].alive
    BY <1>3 DEF Records, Behind
  <1>5. ASSUME NEW c \in Creates, pane[c] = pane[wire'[k].from], Asking(c), Current(c)
        PROVE  AsksBehind(c, k)'
    <2>1. PICK j \in 1..Len(wire) : j > k + 1 /\ wire[j].kind = "create" /\ wire[j].from = c
      BY <1>3, <1>5 DEF Records, Behind, AsksBehind
    <2>2. j # 1 /\ j - 1 > k
      BY <2>1
    <2>3. j - 1 \in 1..Len(wire') /\ wire'[j - 1] = wire[j]
      BY <2>2, Handled
    <2>4. \E l \in 1..Len(wire') : l > k /\ wire'[l].kind = "create" /\ wire'[l].from = c
      BY <2>1, <2>2, <2>3
    <2> QED
      BY <2>4 DEF AsksBehind
  <1> QED
    BY <1>4, <1>5

LEMMA RecordsHandled ==
  ASSUME Shape, KillInv, Records, DaemonHandles
  PROVE  Behind' /\ Truthful' /\ Noticed'
  <1>0. PICK m : m = wire[1]
    OBVIOUS
  <1> PICK i \in Issuers, p \in Panes : i = m.from /\ p = pane[i]
    BY <1>0, Handled
  <1>1. /\ UNCHANGED <<pane, sessions, disturbed, crossed, exits, step, gen, generation, killed>>
        /\ 1 \in 1..Len(wire) /\ Head(wire) = m
    BY <1>0, Handled DEF DaemonHandles, paramVars, managerVars, faultVars
  <1>2. \/ /\ m.kind = "list" /\ Answer(m, "ok") /\ daemon' = daemon
        \/ /\ m.kind = "kill" /\ Answer(m, "ok")
           /\ daemon' = [daemon EXCEPT ![p] = IF @ = "live" THEN "dying" ELSE @]
        \/ /\ m.kind = "create" /\ daemon[p] = "live" /\ daemon' = daemon
           /\ Answer(m, IF p \in changed THEN "changed" ELSE "ok")
        \/ /\ m.kind = "create" /\ daemon[p] # "live" /\ answer' = answer
           /\ daemon' = [daemon EXCEPT ![p] = "none"]
    BY <1>1 DEF DaemonHandles
  <1>3. /\ \A j \in Issuers \ {i} : answer'[j] = answer[j]
        /\ answer'[i] # answer[i] => answer[i] = "none" /\ step[i] \in Awaited(m.kind)
    BY <1>1, <1>2 DEF Answer, Awaiting, Shape
  <1>4. \A q \in Panes : q # p => daemon'[q] = daemon[q]
    BY <1>1, <1>2 DEF Shape
  <1>5. \A c \in Creates : (Current(c)' <=> Current(c)) /\ (Looks(c) => Looks(c)')
    <2>1. \A c \in Creates : Current(c)' <=> Current(c)
      BY <1>1 DEF Current
    <2>2. \A c \in Creates : Up(c) => Up(c)'
      BY <1>1, <1>3, IssuersAssumption DEF Up
    <2> QED
      BY <1>1, <2>1, <2>2 DEF Looks
  <1>6. ASSUME NEW c \in Creates, Good(c)' PROVE Good(c) \/ (c = i /\ m.kind = "create")
    <2>1. step[c] = "requested" /\ answer'[c] = "ok" /\ Current(c)
      BY <1>1, <1>5, <1>6 DEF Good, Up
    <2>2. CASE answer[c] = "ok"
      BY <2>1, <2>2 DEF Good, Up
    <2>3. CASE answer[c] # "ok"
      <3>1. c = i /\ step[i] \in Awaited(m.kind)
        BY <1>3, <2>1, <2>3, IssuersAssumption
      <3>2. m.kind = "create"
        BY <2>1, <3>1 DEF Awaited
      <3> QED
        BY <3>1, <3>2
    <2> QED
      BY <2>2, <2>3
  <1>7. ASSUME NEW q, KillSent(q), ~(m.kind = "kill" /\ q = p) PROVE KillSent(q)'
    <2>1. PICK k \in 1..Len(wire) : wire[k].kind = "kill" /\ pane[wire[k].from] = q
      BY <1>7 DEF KillSent
    <2>2. k # 1
      BY <1>0, <1>7, <2>1
    <2>3. k - 1 \in 1..Len(wire') /\ wire'[k - 1] = wire[k]
      BY <2>2, Handled
    <2> QED
      BY <1>1, <2>1, <2>3 DEF KillSent
  <1>8. \A q \in Panes : Sound(q)' => Sound(q)
    BY <1>1 DEF Sound
  <1>9. m.kind = "kill" /\ Calm(p) =>
           ~sessions[p].alive /\ \A c \in Creates : pane[c] = p => ~Good(c)
    <2> SUFFICES ASSUME m.kind = "kill", Calm(p)
                 PROVE  ~sessions[p].alive /\ \A c \in Creates : pane[c] = p => ~Good(c)
      OBVIOUS
    <2>1. KillSent(p)
      BY <1>0, <1>1 DEF KillSent
    <2>2. ~sessions[p].alive
      BY <1>0, <1>1 DEF Records, Behind
    <2> QED
      BY <2>1, <2>2, GoodHasNoKill DEF Records
  <1>10. ASSUME NEW q \in Panes, q # p PROVE TruthfulAt(q)' /\ NoticedAt(q)'
    <2>1. \A c \in Creates : pane[c] = q => (Good(c)' => Good(c)) /\ (Looks(c) => Looks(c)')
      BY <1>5, <1>6, <1>10
    <2> QED
      BY <1>1, <1>4, <1>7, <1>8, <1>10, <2>1, PaneKept
  <1>11. CASE m.kind = "list"
    <2>1. \A c \in Creates : (Good(c)' => Good(c)) /\ (Looks(c) => Looks(c)')
      BY <1>5, <1>6, <1>11
    <2>2. daemon' = daemon
      BY <1>2, <1>11
    <2>3. TruthfulAt(p)' /\ NoticedAt(p)'
      BY <1>1, <1>7, <1>8, <1>11, <2>1, <2>2, PaneKept
    <2> QED
      BY <1>1, <1>10, <2>3, BehindHandled, OfOnePane
  <1>12. CASE m.kind = "kill"
    <2>1. daemon'[p] # "live"
      BY <1>1, <1>2, <1>12 DEF Shape
    <2>2. \A c \in Creates : Good(c)' => Good(c)
      BY <1>6, <1>12
    <2>3. TruthfulAt(p)'
      BY <1>1, <1>9, <1>12, <2>2 DEF TruthfulAt, Sound, Calm
    <2>4. NoticedAt(p)'
      BY <2>1 DEF NoticedAt
    <2> QED
      BY <1>1, <1>10, <2>3, <2>4, BehindHandled, OfOnePane
  <1>13. CASE m.kind = "create" /\ daemon[p] = "live"
    <2>1. daemon' = daemon
      BY <1>2, <1>13
    <2>2. TruthfulAt(p)'
      BY <1>13, <2>1 DEF TruthfulAt
    <2>3. NoticedAt(p)'
      <3> SUFFICES ASSUME Sound(p), sessions[p].by # None, ~sessions[p].alive
                   PROVE  KillSent(p)' \/ \E c \in Creates : pane[c] = p /\ Looks(c)'
        BY <1>1 DEF NoticedAt, Sound
      <3>1. KillSent(p) \/ \E c \in Creates : pane[c] = p /\ Looks(c)
        BY <1>1, <1>13 DEF Records, Noticed, NoticedAt
      <3>2. KillSent(p) => KillSent(p)'
        BY <1>7, <1>13
      <3> QED
        BY <1>5, <3>1, <3>2
    <2> QED
      BY <1>1, <1>10, <2>2, <2>3, BehindHandled, OfOnePane
  <1>14. CASE m.kind = "create" /\ daemon[p] # "live"
    <2>1. daemon'[p] = "none" /\ answer' = answer
      BY <1>1, <1>2, <1>14 DEF Shape
    <2>2. \A c \in Creates : Good(c)' => Good(c)
      BY <1>1, <1>5, <2>1 DEF Good, Up
    <2>3. TruthfulAt(p)'
      <3> SUFFICES ASSUME Sound(p), sessions[p].alive \/ \E c \in Creates : pane[c] = p /\ Good(c)
                   PROVE  exits[p] > 0
        BY <1>1, <2>2 DEF TruthfulAt, Sound
      <3> QED
        BY <1>1, <1>14 DEF Records, Truthful, TruthfulAt
    <2>4. NoticedAt(p)'
      BY <2>1 DEF NoticedAt
    <2> QED
      BY <1>1, <1>10, <2>3, <2>4, BehindHandled, OfOnePane
  <1> QED
    BY <1>2, <1>11, <1>12, <1>13, <1>14

(* The connection is lost. *)
LEMMA RecordsLost ==
  ASSUME Shape, KillInv, LoseConnection, wire' = wire \/ wire' = <<>>,
         spawning' \subseteq spawning, pane' = pane
  PROVE  Behind'
  <1> SUFFICES ASSUME NEW k \in 1..Len(wire'), wire'[k].kind = "kill",
                      pane[wire'[k].from] \notin disturbed'
               PROVE  FALSE
    BY DEF Behind, Calm
  <1>1. CASE wire' = wire
    <2>1. KillSent(pane[wire[k].from])
      BY <1>1 DEF KillSent
    <2> QED
      BY <1>1, <2>1, KillsLost
  <1>2. CASE wire' = <<>>
    <2>1. Len(wire') = 0
      BY <1>2
    <2> QED
      BY <2>1
  <1> QED
    BY <1>1, <1>2

LEMMA RecordsDisconnect ==
  ASSUME Shape, KillInv, Records, Disconnect
  PROVE  Behind' /\ Truthful' /\ Noticed'
  <1>1. /\ LoseConnection /\ (wire' = wire \/ wire' = <<>>)
        /\ UNCHANGED <<pane, daemon, sessions, crossed, step, gen, generation, killed, spawning>>
    BY DEF Disconnect, paramVars
  <1>2. \A q : q \notin disturbed' => ~KillSent(q)
    BY <1>1, KillsLost
  <1>3. ASSUME NEW q \in Panes, q \notin disturbed'
        PROVE  /\ q \notin disturbed /\ exits'[q] = exits[q]
               /\ \A j \in Issuers : pane[j] = q => answer'[j] = answer[j]
    <2>1. q \notin disturbed /\ ~(exits[q] > 0)
      BY <1>1, <1>3 DEF LoseConnection
    <2>2. exits'[q] = 0 /\ exits[q] \in Nat
      BY <1>1 DEF LoseConnection, Records, Kept
    <2>3. ASSUME NEW j \in Issuers, pane[j] = q PROVE answer'[j] = answer[j]
      <3>1. ~Awaiting(j)
        BY <1>1, <1>3, <2>3 DEF LoseConnection
      <3> QED
        BY <1>1, <3>1 DEF LoseConnection
    <2> QED
      BY <2>1, <2>2, <2>3
  <1>4. Behind'
    BY <1>1, RecordsLost
  <1>5. ASSUME NEW q \in Panes PROVE TruthfulAt(q)' /\ NoticedAt(q)'
    <2>1. CASE q \in disturbed'
      BY <2>1 DEF TruthfulAt, NoticedAt, Sound
    <2>2. CASE q \notin disturbed'
      <3>1. Sound(q)' => Sound(q)
        BY <1>1, <1>3, <2>2 DEF Sound
      <3>2. \A c \in Creates : pane[c] = q => (Good(c)' => Good(c)) /\ (Looks(c) => Looks(c)')
        BY <1>1, <1>3, <2>2, IssuersAssumption DEF Good, Looks, Up, Current
      <3> QED
        BY <1>1, <1>2, <1>3, <2>2, <3>1, <3>2, PaneKept
    <2> QED
      BY <2>1, <2>2
  <1> QED
    BY <1>4, <1>5 DEF Truthful, Noticed

LEMMA RecordsRestart ==
  ASSUME Shape, KillInv, Dated, Held, Records, Restart
  PROVE  Behind' /\ Truthful' /\ Noticed'
  <1>1. /\ LoseConnection /\ (wire' = wire \/ wire' = <<>>)
        /\ spawning' \subseteq spawning /\ pane' = pane /\ gen' = gen
        /\ sessions' = [p \in Panes |-> NoSession]
        /\ generation' = [p \in Panes |-> IF pending[p] = None THEN generation[p] ELSE generation[p] + 1]
        /\ step' = [i \in Issuers |-> IF step[i] = "queued" THEN "failed" ELSE step[i]]
    BY DEF Restart, paramVars
  <1>2. Behind'
    BY <1>1, RecordsLost
  <1>3. ASSUME NEW c \in Creates, pane[c] \in Panes PROVE ~Good(c)'
    <2> SUFFICES ASSUME step'[c] = "requested" PROVE gen[c] # generation'[pane[c]]
      BY <1>1 DEF Good, Up, Current
    <2>1. step[c] = "requested"
      BY <1>1, IssuersAssumption
    <2>2. pending[pane[c]] = c /\ c # None
      BY <2>1, CreateStepSets, NoneNotIssuer DEF Held
    <2>3. generation'[pane[c]] = generation[pane[c]] + 1
      BY <1>1, <1>3, <2>2
    <2>4. gen[c] \in Nat /\ generation[pane[c]] \in Nat /\ gen[c] <= generation[pane[c]]
      BY <1>3 DEF Dated
    <2> QED
      BY <2>3, <2>4
  <1>4. ASSUME NEW q \in Panes PROVE TruthfulAt(q)' /\ NoticedAt(q)'
    <2>1. sessions'[q].alive = FALSE /\ sessions'[q].by = None
      BY <1>1 DEF NoSession
    <2> QED
      BY <1>1, <1>3, <2>1 DEF TruthfulAt, NoticedAt
  <1> QED
    BY <1>2, <1>4 DEF Truthful, Noticed

LEMMA RecordsInductive ==
  ASSUME Shape, SlotInv, KillInv, Dated, Held, Records, Change
  PROVE  Records'
  <1>1. Kept'
    BY KeptInductive DEF Records
  <1> SUFFICES Behind' /\ Truthful' /\ Noticed'
    BY <1>1 DEF Records
  <1>2. CASE Stays
    <2>1. /\ UNCHANGED <<pane, daemon, exits, crossed, sessions, wire, answer, step, killed, generation, gen>>
          /\ disturbed \subseteq disturbed'
      BY <1>2 DEF Stays, Dates
    <2>2. \A c \in Creates : /\ Current(c)' <=> Current(c)
                             /\ Asking(c)' <=> Asking(c)
                             /\ Up(c)' <=> Up(c)
      BY <2>1 DEF Current, Asking, Up
    <2>3. \A c \in Creates : (Good(c)' <=> Good(c)) /\ (Looks(c)' <=> Looks(c))
      BY <2>1, <2>2 DEF Good, Looks
    <2>4. \A q \in Panes : (Sound(q)' => Sound(q)) /\ (KillSent(q)' <=> KillSent(q))
      BY <2>1 DEF Sound, KillSent
    <2>5. Behind'
      BY <2>1, <2>2, BehindKept DEF Records
    <2>6. ASSUME NEW q \in Panes PROVE TruthfulAt(q)' /\ NoticedAt(q)'
      BY <2>1, <2>3, <2>4, PaneKept
    <2> QED
      BY <2>5, <2>6 DEF Truthful, Noticed
  <1>3. CASE \E i \in Issuers, s \in Steps : Goes(i, s)
    BY <1>3, RecordsGoes
  <1>4. CASE \E c \in Creates : Loops(c) \/ Orders(c)
    BY <1>4, RecordsLoops, RecordsOrders
  <1>5. CASE \E c \in Creates : Opens(c) \/ Discards(c)
    BY <1>5, RecordsOpens, RecordsDiscards
  <1>6. CASE \E c \in Creates, s \in Ends : Finishes(c, s)
    BY <1>6, RecordsFinishes
  <1>7. CASE \E k \in Issuers : Terminates(k)
    BY <1>7, RecordsTerminates
  <1>8. CASE \E i \in Issuers : RequestFails(i)
    BY <1>8, RecordsFails
  <1>9. CASE \E p \in Panes : ExitArrives(p) \/ TimerFires(p) \/ ShellExits(p)
    BY <1>9, RecordsExitArrives, RecordsTimerFires, RecordsShellExits
  <1>10. CASE DaemonHandles
    BY <1>10, RecordsHandled
  <1>11. CASE \E c \in Creates : Spawned(c)
    BY <1>11, RecordsSpawned
  <1>12. CASE Disconnect
    BY <1>12, RecordsDisconnect
  <1>13. CASE Restart
    BY <1>13, RecordsRestart
  <1> QED
    BY <1>2, <1>3, <1>4, <1>5, <1>6, <1>7, <1>8, <1>9, <1>10, <1>11, <1>12, <1>13
    DEF Change, OfCreation, OfDaemon

LEMMA RecordsInit ==
  ASSUME Init
  PROVE  Dated /\ Held /\ Records
  <1>1. /\ wire = <<>> /\ Len(wire) = 0 /\ killed = {}
        /\ generation = [p \in Panes |-> 0] /\ gen = [i \in Creates |-> 0]
        /\ pending = [p \in Panes |-> None] /\ sessions = [p \in Panes |-> NoSession]
        /\ exits = [p \in Panes |-> 0] /\ step = [i \in Issuers |-> "unused"]
    BY EmptySeq DEF Init, ServiceInit
  <1>2. \A i \in Issuers : step[i] = "unused"
    BY <1>1
  <1>3. Dated
    BY <1>1 DEF Dated
  <1>4. Held
    BY <1>1, <1>2, CreateStepSets, IssuersAssumption DEF Held
  <1>5. Kept
    BY <1>1 DEF Kept, NoSession
  <1>6. Behind
    BY <1>1 DEF Behind
  <1>7. \A p \in Panes : sessions[p].alive = FALSE /\ sessions[p].by = None
    BY <1>1 DEF NoSession
  <1>8. \A c \in Creates : ~Up(c)
    BY <1>2, IssuersAssumption DEF Up
  <1>9. Truthful /\ Noticed
    BY <1>7, <1>8 DEF Truthful, TruthfulAt, Noticed, NoticedAt, Good
  <1> QED
    BY <1>3, <1>4, <1>5, <1>6, <1>9 DEF Records

(* A session that the service manager has on record as alive is live in    *)
(* the daemon, or its exit event is on the way; and a live session of a    *)
(* pane at rest is on record as alive: whatever kills, joined and stale    *)
(* creations, timers, exits and restarts came in between, except when a    *)
(* request of the pane failed or its exit event and an answer crossed.     *)
THEOREM RecordsAreTrue == Spec => []LiveSessionsLive
  <1> DEFINE Inv == Shape /\ SlotInv /\ KillInv /\ Dated /\ Held /\ Records
  <1>1. Init => Inv
    <2>1. Init => KillInv
      <3> SUFFICES ASSUME Init PROVE KillInv
        OBVIOUS
      <3>1. wire = <<>> /\ Len(wire) = 0 /\ spawning = {} /\ killed = {}
        BY EmptySeq DEF Init, ServiceInit
      <3> QED
        BY <3>1 DEF KillInv, Asked, Once, Coming, Ending
    <2> QED
      BY <2>1, ShapeInit, RecordsInit
  <1>2. Inv /\ [Next]_vars => Inv'
    <2> SUFFICES ASSUME Inv, [Next]_vars PROVE Inv'
      OBVIOUS
    <2>1. Effect /\ Change
      BY NextEffect, NextChange
    <2>2. (Shape /\ SlotInv)'
      BY <2>1, ShapeSlots
    <2>3. KillInv'
      BY <2>1, KillsInductive
    <2>4. (Dated /\ Held)' /\ Records'
      BY <2>1, DatedInductive, RecordsInductive
    <2> QED
      BY <2>2, <2>3, <2>4
  <1>3. Inv => LiveSessionsLive
    <2> SUFFICES ASSUME Inv, NEW p \in Panes, Sound(p)
                 PROVE  /\ sessions[p].alive => daemon[p] = "live" \/ exits[p] > 0
                        /\ AtRest(p) /\ sessions[p].by # None /\ daemon[p] = "live" /\ p \notin killed
                              => sessions[p].alive
      BY DEF LiveSessionsLive, Sound
    <2>1. sessions[p].alive => daemon[p] = "live" \/ exits[p] > 0
      BY DEF Records, Truthful, TruthfulAt
    <2>2. ASSUME AtRest(p), sessions[p].by # None, daemon[p] = "live", ~sessions[p].alive
          PROVE  FALSE
      <3>1. KillSent(p) \/ \E c \in Creates : pane[c] = p /\ Looks(c)
        BY <2>2 DEF Records, Noticed, NoticedAt
      <3>2. ~KillSent(p)
        BY <2>2 DEF AtRest, KillSent, Shape
      <3>3. PICK c \in Creates : pane[c] = p /\ Looks(c)
        BY <3>1, <3>2
      <3>4. Active(c) /\ c \in Issuers
        BY <3>3, CreateStepSets, IssuersAssumption DEF Looks, Up, Active
      <3> QED
        BY <2>2, <3>3, <3>4 DEF AtRest
    <2> QED
      BY <2>1, <2>2
  <1> QED
    BY <1>1, <1>2, <1>3, PTL DEF Spec

=============================================================================
