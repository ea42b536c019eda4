------------------------ MODULE TerminalHistoryProofs ------------------------
(***************************************************************************)
(* Proofs about the terminal history, the tunnel and about types, for      *)
(* every set of panes and calls, every number of slots, and all the        *)
(* failures that the model has.                                            *)
(*                                                                         *)
(* The first part proves the types of the service, the history and the     *)
(* tunnel.  The second proves what is on disk, and who writes there, once  *)
(* nothing is going on for the recorded pane.  Its invariant says how the  *)
(* initialisations of one history follow each other (Lining), where each   *)
(* call is while an operation of its own runs (Fits), and what is to come  *)
(* for a history that is not as it must be in the end: a removal that no   *)
(* initialisation comes after (Wiped), a writer for a session that is      *)
(* alive (Served).  It rests on what TerminalServiceProofs proves of the   *)
(* calls and of the records, and on what a creation that is stale or       *)
(* refused may have left in them (Certain).                                *)
(*                                                                         *)
(* The third proves where the tunnel ends once nothing is going on for it. *)
(* One creation of its pane is under way at a time (Lone); while it is     *)
(* enabled but not running and watched, somebody has yet to see to it      *)
(* (Landed, Watching); while it is disabled, its pane is killed, or a      *)
(* sweep of its workspace has yet to find it (Off).                        *)
(***************************************************************************)
EXTENDS TerminalServiceProofs

-----------------------------------------------------------------------------
(* Types of the history. *)

HistoryVars ==
    /\ historyGeneration \in Nat
    /\ initPromise \in Issuers \cup {None} /\ writer \in Issuers \cup {None}
    /\ closing \in Issuers \cup {None}
    /\ initializing \in BOOLEAN /\ pendingHook \in BOOLEAN
    /\ disk \in States

LEMMA HistoryTypes == HistoryTypeOK <=> HistoryVars /\ op \in [Issuers -> Operations]
  BY DEF HistoryTypeOK, HistoryVars

LEMMA OperationTypes ==
  ASSUME NEW at \in {"idle"} \cup InitSteps \cup CloseSteps \cup HookSteps,
         NEW o \in Issuers \cup {None}, NEW g \in Nat, NEW r \in BOOLEAN
  PROVE  [at |-> at, on |-> o, gen |-> g, remove |-> r] \in Operations
  BY DEF Operations

LEMMA SetOp ==
  ASSUME op \in [Issuers -> Operations], NEW i \in Issuers, NEW o \in Operations,
         op' = [op EXCEPT ![i] = o]
  PROVE  op' \in [Issuers -> Operations]
  OBVIOUS

LEMMA StepOp ==
  ASSUME op \in [Issuers -> Operations], NEW i \in Issuers,
         NEW at \in {"idle"} \cup InitSteps \cup CloseSteps \cup HookSteps,
         op' = [op EXCEPT ![i].at = at]
  PROVE  op' \in [Issuers -> Operations]
  <1>1. op' = [op EXCEPT ![i] = [op[i] EXCEPT !.at = at]]
    OBVIOUS
  <1>2. [op[i] EXCEPT !.at = at] \in Operations
    BY DEF Operations
  <1> QED
    BY <1>1, <1>2

LEMMA IdleTypes == Idle \in Operations /\ [Idle EXCEPT !.at = "removing"] \in Operations
  BY DEF Idle, Operations, CloseSteps

LEMMA EndInitTypes ==
  ASSUME HistoryTypeOK, NEW i \in Issuers, EndInit(i)
  PROVE  op' \in [Issuers -> Operations] /\ initPromise' \in Issuers \cup {None}
  <1>1. op' \in [Issuers -> Operations]
    BY HistoryTypes, IdleTypes, SetOp DEF EndInit
  <1>2. initPromise' \in Issuers \cup {None}
    BY HistoryTypes DEF EndInit, HistoryVars
  <1> QED
    BY <1>1, <1>2

LEMMA CloseNowTypes ==
  ASSUME HistoryTypeOK, NEW i \in Issuers, NEW remove \in BOOLEAN, CloseNow(i, remove)
  PROVE  /\ op' \in [Issuers -> Operations]
         /\ initializing' \in BOOLEAN /\ writer' \in Issuers \cup {None}
         /\ closing' \in Issuers \cup {None}
         /\ UNCHANGED <<initPromise, disk>>
  <1>1. HistoryVars /\ op \in [Issuers -> Operations]
    BY HistoryTypes
  <1>2. /\ initializing' \in BOOLEAN /\ writer' \in Issuers \cup {None}
        /\ closing' \in Issuers \cup {None}
        /\ UNCHANGED <<initPromise, disk>>
    BY <1>1 DEF CloseNow, HistoryVars
  <1>3. /\ [at |-> "closing", on |-> closing, gen |-> 0, remove |-> remove] \in Operations
        /\ [at |-> "closing", on |-> writer, gen |-> 0, remove |-> remove] \in Operations
        /\ [at |-> "removing", on |-> None, gen |-> 0, remove |-> remove] \in Operations
    BY <1>1, OperationTypes DEF HistoryVars, CloseSteps
  <1>4. \E o \in Operations : op' = [op EXCEPT ![i] = o]
    BY <1>3, IdleTypes DEF CloseNow
  <1>5. op' \in [Issuers -> Operations]
    BY <1>1, <1>4, SetOp
  <1> QED
    BY <1>2, <1>5

LEMMA AwaitInitTypes ==
  ASSUME HistoryTypeOK, NEW i \in Issuers, NEW at \in CloseSteps, NEW remove \in BOOLEAN,
         AwaitInit(i, at, remove)
  PROVE  /\ op' \in [Issuers -> Operations]
         /\ UNCHANGED <<initPromise, writer, closing, disk>>
  <1>1. HistoryVars /\ op \in [Issuers -> Operations]
    BY HistoryTypes
  <1>2. [at |-> at, on |-> initPromise, gen |-> 0, remove |-> remove] \in Operations
    BY <1>1, OperationTypes DEF HistoryVars
  <1> QED
    BY <1>1, <1>2, SetOp DEF AwaitInit

LEMMA CloseTypes ==
  ASSUME HistoryTypeOK, NEW i \in Issuers, NEW remove \in BOOLEAN, CloseWriter(i, remove),
         historyGeneration' \in Nat, pendingHook' \in BOOLEAN
  PROVE  HistoryTypeOK'
  <1>1. HistoryVars /\ op \in [Issuers -> Operations] /\ "closeAfterInit" \in CloseSteps
    BY HistoryTypes DEF CloseSteps
  <1>2. CASE CloseNow(i, remove)
    BY <1>1, <1>2, CloseNowTypes, HistoryTypes DEF HistoryVars, HistoryTypeOK
  <1>3. CASE AwaitInit(i, "closeAfterInit", remove) /\ UNCHANGED initializing
    BY <1>1, <1>3, AwaitInitTypes, HistoryTypes DEF HistoryVars, HistoryTypeOK
  <1> QED
    BY <1>2, <1>3 DEF CloseWriter

LEMMA BeginTypes ==
  ASSUME HistoryTypeOK, NEW i \in Issuers,
         \/ BeginInit(i) \/ BeginClose(i) \/ BeginCleanup(i) \/ BeginHook(i) \/ CloseAll(i)
  PROVE  HistoryTypeOK'
  <1>1. HistoryVars /\ op \in [Issuers -> Operations]
    BY HistoryTypes
  <1>2. CASE BeginInit(i)
    <2> DEFINE free == initPromise = None /\ closing = None
               at == IF free THEN "opening" ELSE IF initPromise # None THEN "afterInit" ELSE "afterClose"
               o == IF initPromise # None THEN initPromise ELSE closing
               made == [at |-> at, on |-> o, gen |-> historyGeneration + 1, remove |-> FALSE]
    <2>1. /\ historyGeneration + 1 \in Nat /\ o \in Issuers \cup {None} /\ at \in InitSteps
          /\ FALSE \in BOOLEAN
      BY <1>1 DEF HistoryVars, InitSteps
    <2>4. op' = [op EXCEPT ![i] = made]
      BY <1>2 DEF BeginInit
    <2>2. op' \in [Issuers -> Operations]
      <3> HIDE DEF at, o
      <3>1. made \in Operations
        BY <2>1, OperationTypes
      <3> HIDE DEF made
      <3> QED
        BY <1>1, <2>4, <3>1, SetOp
    <2>3. HistoryVars'
      BY <1>1, <1>2 DEF BeginInit, HistoryVars
    <2> QED
      BY <2>2, <2>3 DEF HistoryTypeOK, HistoryVars
  <1>3. CASE BeginClose(i)
    BY <1>1, <1>3, CloseTypes DEF BeginClose, HistoryVars
  <1>4. CASE BeginCleanup(i)
    <2>1. historyGeneration' \in Nat /\ pendingHook' \in BOOLEAN
      <3>1. historyGeneration \in Nat
        BY <1>1 DEF HistoryVars
      <3>2. /\ historyGeneration' = historyGeneration \/ historyGeneration' = historyGeneration + 1
            /\ pendingHook' = FALSE
        BY <1>4 DEF BeginCleanup
      <3>3. historyGeneration' \in Nat
        BY <3>1, <3>2
      <3> QED
        BY <3>2, <3>3
    <2>2. CASE CloseNow(i, TRUE)
      BY <1>1, <2>1, <2>2, CloseNowTypes DEF HistoryVars, HistoryTypeOK
    <2>3. CASE AwaitInit(i, "cleanAfterInit", TRUE) /\ initializing' = FALSE
      <3>1. "cleanAfterInit" \in CloseSteps
        BY DEF CloseSteps
      <3> QED
        BY <1>1, <2>1, <2>3, <3>1, AwaitInitTypes DEF HistoryVars, HistoryTypeOK
    <2> QED
      BY <1>4, <2>2, <2>3 DEF BeginCleanup
  <1>5. CASE BeginHook(i)
    <2>1. \E at \in {"hooking", "idle", "unhandled"} : op' = [op EXCEPT ![i].at = at]
      BY <1>5 DEF BeginHook
    <2>2. op' \in [Issuers -> Operations]
      BY <1>1, <2>1, StepOp DEF HookSteps
    <2>3. HistoryVars'
      BY <1>1, <1>5 DEF BeginHook, HistoryVars
    <2> QED
      BY <2>2, <2>3 DEF HistoryTypeOK, HistoryVars
  <1>6. CASE CloseAll(i)
    <2>1. historyGeneration' \in Nat /\ pendingHook' \in BOOLEAN
      <3>1. historyGeneration \in Nat
        BY <1>1 DEF HistoryVars
      <3>2. /\ historyGeneration' = historyGeneration \/ historyGeneration' = historyGeneration + 1
            /\ pendingHook' = FALSE
        BY <1>6 DEF CloseAll
      <3>3. historyGeneration' \in Nat
        BY <3>1, <3>2
      <3> QED
        BY <3>2, <3>3
    <2>2. CASE CloseNow(i, FALSE)
      BY <1>1, <2>1, <2>2, CloseNowTypes DEF HistoryVars, HistoryTypeOK
    <2>3. CASE AwaitInit(i, "closeAfterInit", FALSE) /\ initializing' = FALSE
      <3>1. "closeAfterInit" \in CloseSteps
        BY DEF CloseSteps
      <3> QED
        BY <1>1, <2>1, <2>3, <3>1, AwaitInitTypes DEF HistoryVars, HistoryTypeOK
    <2>4. CASE UNCHANGED <<initPromise, writer, closing, op, disk>> /\ initializing' = FALSE
      BY <1>1, <2>1, <2>4 DEF HistoryVars, HistoryTypeOK
    <2> QED
      BY <1>6, <2>2, <2>3, <2>4 DEF CloseAll
  <1> QED
    BY <1>2, <1>3, <1>4, <1>5, <1>6

LEMMA ProceedTypes ==
  ASSUME HistoryTypeOK, NEW i \in Issuers, Proceed(i)
  PROVE  HistoryTypeOK'
  <1>1. HistoryVars /\ op \in [Issuers -> Operations]
    BY HistoryTypes
  <1>2. /\ UNCHANGED <<historyGeneration, pendingHook, writer, closing, disk>>
        /\ initializing' \in BOOLEAN
    BY <1>1 DEF Proceed, HistoryVars
  <1>3. CASE op' = [op EXCEPT ![i].at = "opening", ![i].on = None] /\ UNCHANGED initPromise
    <2>1. [op[i] EXCEPT !.at = "opening", !.on = None] \in Operations
      BY <1>1 DEF Operations, InitSteps
    <2>2. op' \in [Issuers -> Operations]
      BY <1>1, <1>3, <2>1
    <2> QED
      BY <1>1, <1>2, <1>3, <2>2 DEF HistoryVars, HistoryTypeOK
  <1>4. CASE EndInit(i)
    BY <1>1, <1>2, <1>4, EndInitTypes DEF HistoryVars, HistoryTypeOK
  <1> QED
    BY <1>3, <1>4 DEF Proceed

LEMMA TurnTypes ==
  ASSUME HistoryTypeOK, NEW i \in Issuers, HistoryTurn(i)
  PROVE  HistoryTypeOK'
  <1>1. HistoryVars /\ op \in [Issuers -> Operations]
    BY HistoryTypes
  <1>2. CASE Proceed(i)
    BY <1>2, ProceedTypes
  <1>3. CASE /\ op' = [op EXCEPT ![i].at = "afterClose", ![i].on = closing]
             /\ UNCHANGED <<historyGeneration, initPromise, initializing, pendingHook, writer, closing, disk>>
    <2>1. [op[i] EXCEPT !.at = "afterClose", !.on = closing] \in Operations
      BY <1>1 DEF Operations, InitSteps, HistoryVars
    <2>2. op' \in [Issuers -> Operations]
      BY <1>1, <1>3, <2>1
    <2> QED
      BY <1>1, <1>3, <2>2 DEF HistoryVars, HistoryTypeOK
  <1>4. CASE AwaitedInitEnds(i)
    <2>1. historyGeneration' \in Nat /\ pendingHook' \in BOOLEAN /\ op[i].remove \in BOOLEAN
      BY <1>1, <1>4 DEF AwaitedInitEnds, HistoryVars, Operations
    <2>2. CASE CloseWriter(i, TRUE)
      BY <2>1, <2>2, CloseTypes
    <2>3. CASE CloseNow(i, op[i].remove)
      BY <1>1, <2>1, <2>3, CloseNowTypes DEF HistoryVars, HistoryTypeOK
    <2> QED
      BY <1>4, <2>2, <2>3 DEF AwaitedInitEnds
  <1>5. CASE AwaitedCloseEnds(i)
    <2>1. \E o \in Operations : op' = [op EXCEPT ![i] = o]
      BY <1>5, IdleTypes DEF AwaitedCloseEnds
    <2>2. op' \in [Issuers -> Operations]
      BY <1>1, <2>1, SetOp
    <2> QED
      BY <1>1, <1>5, <2>2 DEF AwaitedCloseEnds, HistoryVars, HistoryTypeOK
  <1> QED
    BY <1>2, <1>3, <1>4, <1>5 DEF HistoryTurn, PreviousInitEnds, PreviousCloseEnds

LEMMA DiskTypes ==
  ASSUME HistoryTypeOK
  PROVE  {"open", "none", Resumable, MarkEnded} \subseteq States
  BY DEF HistoryTypeOK, States, Resumable, MarkEnded

LEMMA IOTypes ==
  ASSUME HistoryTypeOK, NEW i \in Issuers, HistoryIO(i) \/ InitFails(i) \/ RemoveFails(i)
  PROVE  HistoryTypeOK'
  <1>1. HistoryVars /\ op \in [Issuers -> Operations]
    BY HistoryTypes
  <1>2. CASE Opened(i)
    <2>1. /\ UNCHANGED <<historyGeneration, pendingHook, closing>> /\ disk' \in States
          /\ writer' \in Issuers \cup {None} /\ initializing' \in BOOLEAN
      BY <1>1, <1>2, DiskTypes DEF Opened, HistoryVars
    <2>2. CASE \E at \in {"superseded", "applying"} : op' = [op EXCEPT ![i].at = at] /\ UNCHANGED initPromise
      <3>1. op' \in [Issuers -> Operations]
        BY <1>1, <2>2, StepOp DEF InitSteps
      <3> QED
        BY <1>1, <2>1, <2>2, <3>1 DEF HistoryVars, HistoryTypeOK
    <2>3. CASE EndInit(i)
      BY <1>1, <2>1, <2>3, EndInitTypes DEF HistoryVars, HistoryTypeOK
    <2> QED
      BY <1>2, <2>2, <2>3 DEF Opened
  <1>3. CASE HookApplied(i) \/ SupersededCloses(i) \/ InitFails(i)
    <2>1. /\ UNCHANGED <<historyGeneration, writer, closing>> /\ disk' \in States
          /\ pendingHook' \in BOOLEAN /\ initializing' \in BOOLEAN /\ EndInit(i)
      BY <1>1, <1>3, DiskTypes DEF HookApplied, SupersededCloses, InitFails, HistoryVars
    <2> QED
      BY <1>1, <2>1, EndInitTypes DEF HistoryVars, HistoryTypeOK
  <1>4. CASE Remove(i) \/ RemoveFails(i)
    <2>1. op' \in [Issuers -> Operations]
      BY <1>1, <1>4, IdleTypes, SetOp DEF Remove, RemoveFails
    <2> QED
      BY <1>1, <1>4, <2>1, DiskTypes DEF Remove, RemoveFails, HistoryVars, HistoryTypeOK
  <1>5. CASE HookWritten(i)
    <2>1. \E at \in {"idle", "unhandled"} : op' = [op EXCEPT ![i].at = at]
      BY <1>5 DEF HookWritten
    <2>2. op' \in [Issuers -> Operations]
      BY <1>1, <2>1, StepOp DEF HookSteps
    <2> QED
      BY <1>1, <1>5, <2>2 DEF HookWritten, HistoryVars, HistoryTypeOK
  <1> QED
    BY <1>2, <1>3, <1>4, <1>5 DEF HistoryIO

LEMMA WriterClosesTypes ==
  ASSUME HistoryTypeOK, WriterCloses
  PROVE  HistoryTypeOK'
  BY HistoryTypes, DiskTypes DEF WriterCloses, HistoryVars, HistoryTypeOK

LEMMA HistoryStays ==
  ASSUME HistoryTypeOK, UNCHANGED historyVars
  PROVE  HistoryTypeOK'
  BY HistoryTypes DEF historyVars, HistoryVars, HistoryTypeOK

(* An operation of the history begins, or none does. *)
Operates == UNCHANGED historyVars \/ \E i \in Issuers :
                BeginInit(i) \/ BeginClose(i) \/ BeginCleanup(i) \/ BeginHook(i) \/ CloseAll(i)

LEMMA OperatesTypes ==
  ASSUME HistoryTypeOK, Operates
  PROVE  HistoryTypeOK'
  BY HistoryStays, BeginTypes DEF Operates

-----------------------------------------------------------------------------
(* Types of what the service manager keeps of each pane. *)

PaneSets ==
    /\ deletedHistory \subseteq Panes /\ sticky \subseteq Panes /\ stopped \subseteq Panes
    /\ alive \subseteq Panes /\ changed \subseteq Panes /\ hydrated \in BOOLEAN

TimersTyped ==
    /\ timers \in [Panes -> [all : Nat, mapped : BOOLEAN]]
    /\ \A p \in Panes : timers[p].mapped => timers[p].all > 0

Listings == listed \in [Creates \cup Sweeps -> SUBSET Panes]

Types == PaneSets /\ TimersTyped /\ Listings /\ HistoryTypeOK

LEMMA ListedPanes ==
  ASSUME Listings, NEW c \in Creates
  PROVE  listed[c] \subseteq Panes
  BY DEF Listings

LEMMA CancelTypes ==
  ASSUME TimersTyped, NEW p \in Panes, CancelCleanup(p)
  PROVE  TimersTyped'
  <1>1. timers[p].all \in Nat /\ timers[p].mapped \in BOOLEAN /\ (timers[p].mapped => timers[p].all > 0)
    BY DEF TimersTyped
  <1> DEFINE n == IF timers[p].mapped THEN timers[p].all - 1 ELSE timers[p].all
  <1>2. n \in Nat
    BY <1>1
  <1>3. timers' = [timers EXCEPT ![p] = [all |-> n, mapped |-> FALSE]]
    BY DEF CancelCleanup
  <1> HIDE DEF n
  <1>4. timers' \in [Panes -> [all : Nat, mapped : BOOLEAN]]
    BY <1>2, <1>3 DEF TimersTyped
  <1>5. \A q \in Panes : timers'[q].mapped => timers'[q].all > 0
    BY <1>3 DEF TimersTyped
  <1> QED
    BY <1>4, <1>5 DEF TimersTyped

(* Steps that leave those variables alone, but for the history. *)
LEMMA SameTypes ==
  ASSUME Types, UNCHANGED <<deletedHistory, sticky, stopped, alive, changed, hydrated, timers, listed>>,
         HistoryTypeOK'
  PROVE  Types'
  BY DEF Types, PaneSets, TimersTyped, Listings

LEMMA CallTypes ==
  ASSUME Shape, Types, NEW i \in Issuers,
         \/ CreateOrAttach(i) \/ WaitedForPending(i) \/ Joined(i) \/ Discarded(i)
         \/ KillByWorkspaceId(i) \/ KillAnswered(i) \/ HookAwaited(i)
         \/ Clear(i) \/ ClearStep(i) \/ Hook(i) \/ RequestFails(i)
  PROVE  Types'
  <1> USE DEF managerVars, paramVars, callVars, daemonVars, faultVars
  <1>1. UNCHANGED <<deletedHistory, sticky, stopped, alive, changed, hydrated, timers, listed>>
    BY DEF CreateOrAttach, WaitedForPending, Joined, Discarded, KillByWorkspaceId, KillAnswered,
           HookAwaited, Clear, ClearStep, Hook, RequestFails, Request
  <1>2. Operates
    BY DEF CreateOrAttach, WaitedForPending, Joined, Discarded, KillByWorkspaceId, KillAnswered,
           HookAwaited, Clean, Clear, ClearStep, Hook, RequestFails, Operates
  <1>3. HistoryTypeOK'
    BY <1>2, OperatesTypes DEF Types
  <1> QED
    BY <1>1, <1>3, SameTypes

LEMMA HookTypes ==
  ASSUME Shape, Types, NEW h \in Issuers, HookStep(h) \/ HookSaved(h)
  PROVE  Types'
  <1> USE DEF managerVars, paramVars, callVars, daemonVars, faultVars
  <1>1. UNCHANGED <<deletedHistory, sticky, stopped, alive, changed, hydrated, timers, listed>>
    BY DEF HookStep, HookSaved
  <1>2. HistoryVars /\ op \in [Issuers -> Operations]
    BY HistoryTypes DEF Types
  <1>3. CASE Operates
    BY <1>1, <1>3, OperatesTypes, SameTypes DEF Types
  <1>4. CASE /\ op' = [op EXCEPT ![h] = Idle]
             /\ UNCHANGED <<historyGeneration, initPromise, initializing, pendingHook, writer, closing, disk>>
    <2>1. op' \in [Issuers -> Operations]
      BY <1>2, <1>4, IdleTypes, SetOp
    <2>2. HistoryTypeOK'
      BY <1>2, <1>4, <2>1 DEF HistoryVars, HistoryTypeOK
    <2> QED
      BY <1>1, <2>2, SameTypes
  <1>5. CASE HookSaved(h)
    <2>1. disk' \in States
      BY <1>5, DiskTypes DEF HookSaved, Types
    <2>2. HistoryTypeOK'
      BY <1>2, <1>5, <2>1 DEF HookSaved, HistoryVars, HistoryTypeOK
    <2> QED
      BY <1>1, <2>2, SameTypes
  <1>6. HookStep(h) => Operates \/ (/\ op' = [op EXCEPT ![h] = Idle]
             /\ UNCHANGED <<historyGeneration, initPromise, initializing, pendingHook, writer, closing, disk>>)
    BY DEF HookStep, Operates
  <1> QED
    BY <1>3, <1>4, <1>5, <1>6

LEMMA CreationTypes ==
  ASSUME Shape, Types, NEW c \in Creates,
         Begin(c) \/ Listed(c) \/ Purged(c) \/ ColdRestore(c) \/ Refused(c) \/ Dropped(c)
  PROVE  Types'
  <1> USE DEF Frame, paramVars, daemonVars, limiterVars
  <1>1. c \in Issuers /\ pane[c] \in Panes
    BY IssuersAssumption DEF Shape, Begin, Listed, Purged, ColdRestore, Refused, Dropped
  <1>2. UNCHANGED <<deletedHistory, stopped, changed, timers, listed>>
    BY DEF Begin, Listed, Purged, ColdRestore, Refused, Dropped, Cancelled, LookUp, Ask, Request
  <1>3. sticky' \subseteq sticky \cup {pane[c]}
    BY DEF Begin, Listed, Purged, ColdRestore, Refused, Dropped
  <1>4. alive' = alive \/ alive' = listed[c]
    BY DEF Begin, Listed, Purged, ColdRestore, Refused, Dropped
  <1>8. hydrated' \in BOOLEAN
    <2>1. CASE Listed(c)
      BY <2>1 DEF Listed
    <2>2. CASE ~Listed(c)
      <3>1. hydrated' = hydrated
        BY <2>2 DEF Begin, Purged, ColdRestore, Refused, Dropped
      <3> QED
        BY <3>1 DEF Types, PaneSets
    <2> QED
      BY <2>1, <2>2
  <1>5. Operates
    BY <1>1 DEF Begin, Listed, Purged, ColdRestore, Refused, Dropped, Cancelled, LookUp, Operates
  <1>6. PaneSets'
    BY <1>1, <1>2, <1>3, <1>4, <1>8, ListedPanes DEF PaneSets, Types
  <1>7. HistoryTypeOK'
    BY <1>5, OperatesTypes DEF Types
  <1> QED
    BY <1>2, <1>6, <1>7 DEF Types, TimersTyped, Listings

LEMMA CreatedTypes ==
  ASSUME Shape, Types, NEW c \in Creates, Created(c) \/ Written(c)
  PROVE  Types'
  <1> USE DEF Frame, paramVars, daemonVars, limiterVars
  <1>1. c \in Issuers /\ pane[c] \in Panes
    BY IssuersAssumption DEF Shape, Created, Written
  <1>2. UNCHANGED <<stopped, changed, listed, hydrated, sticky>>
    BY DEF Created, Written, Discard, Request
  <1>3. deletedHistory' \subseteq deletedHistory /\ alive' \subseteq alive \cup {pane[c]}
    BY DEF Created, Written, Discard, Undelete
  <1>4. CancelCleanup(pane[c]) \/ timers' = timers
    BY DEF Created, Written, Discard
  <1>5. Operates
    BY <1>1 DEF Created, Written, Discard, Operates
  <1>6. PaneSets'
    BY <1>1, <1>2, <1>3 DEF PaneSets, Types
  <1>7. HistoryTypeOK'
    BY <1>5, OperatesTypes DEF Types
  <1>8. TimersTyped'
    BY <1>1, <1>4, CancelTypes DEF Types, TimersTyped
  <1> QED
    BY <1>2, <1>6, <1>7, <1>8 DEF Types, Listings

LEMMA KillTypes ==
  ASSUME Shape, Types, NEW k \in Kills, pane[k] \in Panes,
         KillPane(k) \/ Swept(k) \/ KillEnds(k) \/ Erased(k)
  PROVE  Types'
  <1> USE DEF managerVars, paramVars, callVars, daemonVars, limiterVars, faultVars
  <1>1. k \in Issuers
    BY IssuersAssumption
  <1>2. UNCHANGED <<changed, listed, hydrated, timers>>
    BY DEF KillPane, Swept, KillEnds, Erased, Request
  <1>3. /\ deletedHistory' \subseteq deletedHistory \cup {pane[k]} /\ alive' \subseteq alive
        /\ sticky' \subseteq sticky /\ stopped' \subseteq stopped \cup {pane[k]}
    BY DEF KillPane, Swept, KillEnds, Erased
  <1>4. PaneSets'
    BY <1>2, <1>3 DEF PaneSets, Types
  <1>5. CASE Operates
    BY <1>2, <1>4, <1>5, OperatesTypes DEF Types, TimersTyped, Listings
  <1>6. CASE Erased(k)
    <2>1. HistoryTypeOK'
      BY <1>6, HistoryTypes, DiskTypes DEF Erased, HistoryVars, HistoryTypeOK, Types
    <2> QED
      BY <1>2, <1>4, <2>1 DEF Types, TimersTyped, Listings
  <1>7. Operates \/ Erased(k)
    BY <1>1 DEF KillPane, Swept, KillEnds, Operates
  <1> QED
    BY <1>5, <1>6, <1>7

LEMMA EventTypes ==
  ASSUME Shape, Types, NEW p \in Panes, ExitArrives(p) \/ TimerFires(p) \/ ShellExits(p)
  PROVE  Types'
  <1> USE DEF managerVars, paramVars, callVars, daemonVars, limiterVars, faultVars
  <1>1. UNCHANGED <<deletedHistory, sticky, stopped, hydrated, listed>>
    BY DEF ExitArrives, TimerFires, ShellExits
  <1>2. alive' \subseteq alive /\ changed' \subseteq changed
    BY DEF ExitArrives, TimerFires, ShellExits
  <1>3. PaneSets'
    BY <1>1, <1>2 DEF PaneSets, Types
  <1>4. Exits \subseteq Issuers
    BY IssuersAssumption
  <1>5. Operates
    BY <1>4 DEF ExitArrives, TimerFires, ShellExits, Operates
  <1>6. HistoryTypeOK'
    BY <1>5, OperatesTypes DEF Types
  <1>7. TimersTyped'
    <2>1. /\ timers[p].all \in Nat /\ timers[p].mapped \in BOOLEAN
          /\ timers \in [Panes -> [all : Nat, mapped : BOOLEAN]]
          /\ \A q \in Panes : timers[q].mapped => timers[q].all > 0
      BY DEF TimersTyped, Types
    <2>2. CASE timers' = timers
      BY <2>1, <2>2 DEF TimersTyped
    <2>3. CASE ExitArrives(p)
      <3>1. timers' = [timers EXCEPT ![p] = [all |-> timers[p].all + 1, mapped |-> TRUE]]
        BY <2>3 DEF ExitArrives
      <3>2. timers' \in [Panes -> [all : Nat, mapped : BOOLEAN]]
        BY <2>1, <3>1
      <3>3. \A q \in Panes : timers'[q].mapped => timers'[q].all > 0
        BY <2>1, <3>1
      <3> QED
        BY <3>2, <3>3 DEF TimersTyped
    <2>4. CASE TimerFires(p)
      <3>1. /\ timers' = [timers EXCEPT ![p] = [all |-> timers[p].all - 1, mapped |-> FALSE]]
            /\ timers[p].all > 0
        BY <2>4 DEF TimerFires
      <3>2. timers' \in [Panes -> [all : Nat, mapped : BOOLEAN]]
        BY <2>1, <3>1
      <3>3. \A q \in Panes : timers'[q].mapped => timers'[q].all > 0
        BY <2>1, <3>1
      <3> QED
        BY <3>2, <3>3 DEF TimersTyped
    <2> QED
      BY <2>2, <2>3, <2>4 DEF ShellExits
  <1> QED
    BY <1>1, <1>3, <1>6, <1>7 DEF Types, Listings

LEMMA DaemonTypes ==
  ASSUME Shape, Types,
         DaemonHandles \/ (\E c \in Creates : Spawned(c)) \/ Disconnect
  PROVE  Types'
  <1> USE DEF managerVars, paramVars, callVars, daemonVars, limiterVars, faultVars
  <1>1. UNCHANGED <<deletedHistory, sticky, stopped, timers>>
    BY DEF DaemonHandles, Spawned, Disconnect
  <1>2. /\ changed' \subseteq changed
        /\ alive' = alive \/ alive' = {}
        /\ hydrated' = hydrated \/ hydrated' = FALSE
    BY DEF DaemonHandles, Spawned, Disconnect, LoseConnection
  <1>3. PaneSets'
    BY <1>1, <1>2 DEF PaneSets, Types
  <1>4. HistoryTypeOK'
    BY HistoryStays DEF DaemonHandles, Spawned, Disconnect, Types
  <1>5. Listings'
    <2>1. CASE listed' = listed
      BY <2>1 DEF Types, Listings
    <2>2. CASE DaemonHandles /\ listed' # listed
      <3>1. \E k, L :
              listed' = [listed EXCEPT ![k] = L] /\ L \in {Live, {}, {pane[k]}} /\ k = wire[1].from
        BY <2>2, Handled DEF DaemonHandles, Inventory
      <3>2. PICK k, L :
              listed' = [listed EXCEPT ![k] = L] /\ L \in {Live, {}, {pane[k]}} /\ k = wire[1].from
        BY <3>1
      <3>3. L \subseteq Panes
        BY <2>2, <3>2, Handled DEF Live
      <3> QED
        BY <3>2, <3>3 DEF Types, Listings
    <2> QED
      BY <2>1, <2>2 DEF Spawned, Disconnect
  <1> QED
    BY <1>1, <1>3, <1>4, <1>5 DEF Types, TimersTyped

LEMMA RestartTypes ==
  ASSUME Shape, Types, Restart
  PROVE  Types'
  <1>1. /\ deletedHistory' = {} /\ sticky' = {} /\ stopped' = {} /\ listed' = listed
        /\ alive' = {} /\ hydrated' = FALSE /\ changed' \subseteq changed
    BY DEF Restart, LoseConnection
  <1>2. CloseAll(Restarter) /\ Restarter \in Issuers
    BY IssuersAssumption DEF Restart
  <1>3. HistoryTypeOK'
    BY <1>2, BeginTypes DEF Types
  <1>4. TimersTyped'
    <2>1. \A p \in Panes : timers[p].all \in Nat /\ (timers[p].mapped => timers[p].all > 0)
      BY DEF Types, TimersTyped
    <2> DEFINE n(p) == IF timers[p].mapped THEN timers[p].all - 1 ELSE timers[p].all
    <2>2. \A p \in Panes : n(p) \in Nat
      BY <2>1
    <2>3. timers' = [p \in Panes |-> [all |-> n(p), mapped |-> FALSE]]
      BY DEF Restart
    <2> HIDE DEF n
    <2>4. timers' \in [Panes -> [all : Nat, mapped : BOOLEAN]]
      BY <2>2, <2>3
    <2>5. \A p \in Panes : ~timers'[p].mapped
      BY <2>3
    <2> QED
      BY <2>4, <2>5 DEF TimersTyped
  <1> QED
    BY <1>1, <1>3, <1>4 DEF Types, PaneSets, Listings

LEMMA ServiceTypes ==
  ASSUME Shape, Types, [Next]_vars
  PROVE  Types'
  <1>1. CASE UNCHANGED serviceVars
    BY <1>1, HistoryStays, SameTypes
    DEF serviceVars, managerVars, callVars, daemonVars, Types
  <1>2. CASE HistoryTypeOK' /\ UNCHANGED <<managerVars, limiterVars, callVars, daemonVars, faultVars>>
    BY <1>2, SameTypes DEF managerVars, callVars, daemonVars
  <1>3. ASSUME NEW i \in Issuers, HistoryTurn(i) \/ HistoryIO(i) \/ InitFails(i) \/ RemoveFails(i)
        PROVE  HistoryTypeOK'
    BY <1>3, TurnTypes, IOTypes DEF Types
  <1>4. ASSUME NEW k \in Kills, Kill(k) PROVE Types'
    <2>1. pane[k] \in Panes /\ KillPane(k)
      BY <1>4, IssuersAssumption DEF Kill, NextOf, Unused, Shape
    <2> QED
      BY <2>1, KillTypes
  <1>5. ASSUME NEW k \in Kills, Swept(k) \/ KillEnds(k) \/ Erased(k) PROVE Types'
    <2>1. step[k] # "unused" /\ k \in Issuers
      BY <1>5, IssuersAssumption DEF Swept, KillEnds, Erased
    <2>2. pane[k] \in Panes
      BY <2>1 DEF Shape
    <2> QED
      BY <1>5, <2>2, KillTypes
  <1>6. \A i \in Creates \cup Kills \cup Clears \cup Hooks : i \in Issuers
    BY IssuersAssumption
  <1>7. ASSUME NEW at, NEW timer, Create(at, timer) \/ Ensure(timer) PROVE Types'
    <2>1. (\E c \in Creates : CreateOrAttach(c)) \/ UNCHANGED serviceVars
      BY <1>7 DEF Create, Ensure, Fail
    <2> QED
      BY <1>1, <1>6, <2>1, CallTypes
  <1>8. CASE Turn
    <2>1. CASE \E i \in Issuers :
                 HistoryTurn(i) /\ UNCHANGED <<managerVars, limiterVars, callVars, daemonVars, faultVars>>
      BY <1>2, <1>3, <2>1
    <2>2. CASE \E c \in Creates : WaitedForPending(c) \/ Joined(c)
      BY <1>6, <2>2, CallTypes
    <2>3. CASE \E c \in Creates : Begin(c) \/ Purged(c) \/ Dropped(c)
      BY <2>3, CreationTypes
    <2>4. CASE \E c \in Creates : Written(c)
      BY <2>4, CreatedTypes
    <2>5. CASE \E k \in Kills : HookAwaited(k)
      BY <1>6, <2>5, CallTypes
    <2>6. CASE \E k \in Kills : KillEnds(k)
      BY <1>5, <2>6
    <2>7. CASE \E x \in Clears : ClearStep(x)
      BY <1>6, <2>7, CallTypes
    <2>8. CASE \E h \in Hooks : HookStep(h)
      BY <1>6, <2>8, HookTypes
    <2> QED
      BY <1>8, <2>1, <2>2, <2>3, <2>4, <2>5, <2>6, <2>7, <2>8 DEF Turn
  <1>9. ASSUME NEW i \in Issuers, Progress(i) PROVE Types'
    <2>1. CASE i \in Creates /\ (Listed(i) \/ ColdRestore(i) \/ Refused(i) \/ Purged(i) \/ Dropped(i))
      BY <2>1, CreationTypes
    <2>2. CASE i \in Creates /\ Created(i)
      BY <2>2, CreatedTypes
    <2>3. CASE Discarded(i) \/ KillAnswered(i)
      BY <2>3, CallTypes
    <2>4. CASE i \in Kills /\ (Swept(i) \/ Erased(i) \/ KillEnds(i))
      BY <1>5, <2>4
    <2>5. CASE HookSaved(i)
      BY <2>5, HookTypes
    <2>6. CASE HistoryIO(i) /\ UNCHANGED <<managerVars, limiterVars, callVars, daemonVars, faultVars>>
      BY <1>2, <1>3, <2>6
    <2> QED
      BY <1>9, <2>1, <2>2, <2>3, <2>4, <2>5, <2>6 DEF Progress
  <1>10. CASE ServiceStep
    <2>1. CASE \E i \in Issuers : Progress(i)
      BY <1>9, <2>1
    <2>2. CASE \E i \in Issuers : RequestFails(i)
      BY <2>2, CallTypes
    <2>3. CASE \E i \in Issuers : HistoryFails(i)
      <3>1. UNCHANGED <<managerVars, callVars, daemonVars>> /\ \E i \in Issuers : InitFails(i) \/ RemoveFails(i)
        BY <2>3 DEF HistoryFails
      <3>2. HistoryTypeOK'
        BY <1>3, <3>1
      <3> QED
        BY <3>1, <3>2, SameTypes DEF managerVars, callVars, daemonVars
    <2>4. CASE WriterCloses /\ UNCHANGED <<managerVars, limiterVars, callVars, daemonVars, faultVars>>
      BY <1>2, <2>4, WriterClosesTypes DEF Types
    <2>5. CASE \E p \in Panes : TimerFires(p) \/ ShellExits(p)
      BY <2>5, EventTypes
    <2>6. CASE DaemonHandles \/ (\E c \in Creates : Spawned(c)) \/ Disconnect
      BY <2>6, DaemonTypes
    <2> QED
      BY <1>10, <2>1, <2>2, <2>3, <2>4, <2>5, <2>6 DEF ServiceStep
  <1>11. CASE \E i \in Issuers : CreateOrAttach(i) \/ KillByWorkspaceId(i) \/ Clear(i) \/ Hook(i)
    BY <1>11, CallTypes
  <1>12. CASE \E k \in Kills : Kill(k)
    BY <1>4, <1>12
  <1>13. CASE TunnelTurn
    <2>1. \/ UNCHANGED serviceVars
          \/ \E k \in Kills : Kill(k) \/ KillByWorkspaceId(k)
          \/ \E at, timer : Create(at, timer) \/ Ensure(timer)
      BY <1>13, IssuersAssumption
      DEF TunnelTurn, EnsureGoesOn, SweepEnds, StopEnds, Restarted, Fail, Sweep
    <2> QED
      BY <1>1, <1>6, <1>7, <1>11, <1>12, <2>1
  <1>14. CASE Reconcile \/ RetryFires \/ Erase \/ GiveUp \/ Start \/ Stop \/ RestartTunnel \/ DeleteWorkspace
    <2>1. \/ UNCHANGED serviceVars
          \/ \E k \in Kills : Kill(k) \/ KillByWorkspaceId(k)
          \/ \E timer : Ensure(timer)
      BY <1>14, IssuersAssumption
      DEF Reconcile, RetryFires, Erase, GiveUp, Start, Stop, RestartTunnel, DeleteWorkspace, StopSession,
          Sweep
    <2> QED
      BY <1>1, <1>6, <1>7, <1>11, <1>12, <2>1
  <1>15. CASE \E p \in Panes : Exit(p)
    BY <1>15, EventTypes DEF Exit
  <1>16. CASE RestartService
    BY <1>16, RestartTypes DEF RestartService
  <1>17. CASE UserStep(Panes \ {Tunnel})
    <2>1. \E i \in Issuers : \/ CreateOrAttach(i) \/ KillByWorkspaceId(i) \/ Clear(i) \/ Hook(i)
                             \/ i \in Kills /\ Kill(i)
      BY <1>17 DEF UserStep
    <2> QED
      BY <1>11, <1>12, <2>1
  <1> QED
    BY <1>1, <1>8, <1>10, <1>13, <1>14, <1>15, <1>16, <1>17 DEF Next, vars

(* Only creations are asked for, and spawned for. *)
Requests ==
    /\ \A k \in 1..Len(wire) : wire[k].kind = "create" => wire[k].from \in Creates
    /\ spawning \subseteq Creates

LEMMA RequestsSent ==
  ASSUME Shape, Requests, NEW i \in Issuers, NEW kind \in Kinds, Sends(i, kind),
         kind = "create" => i \in Creates, spawning' = spawning
  PROVE  Requests'
  <1>1. /\ \A k \in 1..Len(wire) : wire'[k] = wire[k]
        /\ wire'[Len(wire) + 1] = [kind |-> kind, from |-> i]
        /\ \A k \in 1..Len(wire') : k \in 1..Len(wire) \/ k = Len(wire) + 1
    BY Sent
  <1>2. ASSUME NEW k \in 1..Len(wire'), wire'[k].kind = "create" PROVE wire'[k].from \in Creates
    <2>1. CASE k \in 1..Len(wire)
      BY <1>1, <1>2, <2>1 DEF Requests
    <2>2. CASE k = Len(wire) + 1
      BY <1>1, <1>2, <2>2
    <2> QED
      BY <1>1, <2>1, <2>2
  <1> QED
    BY <1>2 DEF Requests

LEMMA RequestsInductive ==
  ASSUME Shape, Requests, Change
  PROVE  Requests'
  <1>1. CASE spawning' \subseteq spawning /\ (wire' = wire \/ wire' = <<>>)
    <2>1. CASE wire' = wire
      BY <1>1, <2>1 DEF Requests
    <2>2. CASE wire' = <<>>
      <3>1. Len(wire') = 0
        BY <2>2
      <3> QED
        BY <1>1, <3>1 DEF Requests
    <2> QED
      BY <1>1, <2>1, <2>2
  <1>2. {"list", "create", "kill"} \subseteq Kinds
    BY DEF Kinds
  <1>3. ASSUME NEW i \in Issuers, NEW s \in Steps, Goes(i, s) PROVE Requests'
    <2>1. Silent \/ Sends(i, "list")
      BY <1>3 DEF Goes
    <2>2. spawning' = spawning
      BY <1>3 DEF Goes, Aside
    <2> QED
      BY <1>1, <1>2, <2>1, <2>2, RequestsSent DEF Silent
  <1>4. ASSUME NEW c \in Creates, OfCreation(c) PROVE Requests'
    <2>1. spawning' = spawning /\ c \in Issuers
      BY <1>4, IssuersAssumption DEF OfCreation, Loops, Orders, Opens, Discards, Finishes, Aside
    <2>2. Silent \/ Sends(c, "create") \/ Sends(c, "kill")
      BY <1>4 DEF OfCreation, Loops, Orders, Opens, Discards, Finishes
    <2> QED
      BY <1>1, <1>2, <2>1, <2>2, RequestsSent DEF Silent
  <1>5. ASSUME NEW k \in Issuers, Terminates(k) PROVE Requests'
    <2>1. spawning' = spawning /\ Sends(k, "kill")
      BY <1>5 DEF Terminates, Aside
    <2> QED
      BY <1>2, <2>1, RequestsSent
  <1>6. CASE DaemonHandles
    <2>1. ASSUME NEW k \in 1..Len(wire'), wire'[k].kind = "create" PROVE wire'[k].from \in Creates
      <3>1. k + 1 \in 1..Len(wire) /\ wire'[k] = wire[k + 1]
        BY <1>6, Handled
      <3> QED
        BY <2>1, <3>1 DEF Requests
    <2>2. spawning' = spawning \/ (spawning' = spawning \cup {wire[1].from} /\ wire[1].kind = "create")
      BY <1>6, Handled DEF DaemonHandles
    <2>3. 1 \in 1..Len(wire)
      BY <1>6, Handled
    <2> QED
      BY <2>1, <2>2, <2>3 DEF Requests
  <1>7. CASE OfDaemon /\ ~DaemonHandles
    <2>1. spawning' \subseteq spawning /\ (wire' = wire \/ wire' = <<>>)
      BY <1>7 DEF OfDaemon, RequestFails, ExitArrives, TimerFires, ShellExits, Spawned, Disconnect,
                  Restart, daemonVars
    <2> QED
      BY <1>1, <2>1
  <1>8. CASE Stays
    BY <1>1, <1>8 DEF Stays
  <1> QED
    BY <1>3, <1>4, <1>5, <1>6, <1>7, <1>8 DEF Change

-----------------------------------------------------------------------------
(* Types of the tunnel. *)

EnsuringTyped ==
    \/ ensuring = NotEnsuring
    \/ ensuring.at \in {"creating", "recreating"} /\ ensuring.by \in Creates
    \/ ensuring.at = "replacing" /\ ensuring.by \in Kills

Statuses == {"stopped", "connecting", "connected", "retrying", "error"}
Flags ==
    /\ enabled \in BOOLEAN /\ known \in BOOLEAN /\ retryTimer \in BOOLEAN
    /\ ungated \in BOOLEAN /\ forgotten \in BOOLEAN
StopsTyped == stops \in [Kills -> {"none", "ensure"} \cup Purposes]
Phases == {"no", "stopping", "sweeping", "teardown", "purging", "gone"}

TunnelTyped ==
    /\ status \in Statuses /\ Flags /\ EnsuringTyped /\ StopsTyped
    /\ reconciling \in {"no", "expected", "unexpected"} /\ deleting \in Phases

(* What Create and Ensure assign. *)
LEMMA CreateTypes ==
  ASSUME TunnelTyped, NEW at \in {"creating", "recreating"}, NEW timer \in BOOLEAN, Create(at, timer)
  PROVE  /\ status' \in Statuses /\ EnsuringTyped'
         /\ known' \in BOOLEAN /\ retryTimer' \in BOOLEAN /\ ungated' \in BOOLEAN /\ forgotten' \in BOOLEAN
  <1>1. status' \in {status, "connecting", "error"}
    BY DEF Create, Fail
  <1>2. status' \in Statuses
    BY <1>1 DEF TunnelTyped, Statuses
  <1>3. EnsuringTyped'
    BY DEF Create, Fail, EnsuringTyped
  <1>4. known' \in BOOLEAN
    BY DEF Create, Fail, TunnelTyped, Flags
  <1>5. retryTimer' \in BOOLEAN
    BY DEF Create, Fail
  <1>6. ungated' \in BOOLEAN
    BY DEF Create, Fail, TunnelTyped, Flags
  <1>7. forgotten' \in BOOLEAN
    BY DEF Create, Fail, TunnelTyped, Flags
  <1> QED
    BY <1>2, <1>3, <1>4, <1>5, <1>6, <1>7

LEMMA EnsureTypes ==
  ASSUME TunnelTyped, NEW timer \in BOOLEAN, Ensure(timer)
  PROVE  /\ status' \in Statuses /\ EnsuringTyped'
         /\ known' \in BOOLEAN /\ retryTimer' \in BOOLEAN /\ ungated' \in BOOLEAN /\ forgotten' \in BOOLEAN
  <1>1. CASE Create("creating", timer)
    BY <1>1, CreateTypes
  <1>2. CASE /\ status' = status \/ status' = "stopped"
             /\ retryTimer' = timer /\ UNCHANGED <<known, ensuring, ungated, forgotten>>
    <2>1. status' \in Statuses
      BY <1>2 DEF TunnelTyped, Statuses
    <2>2. EnsuringTyped'
      BY <1>2 DEF TunnelTyped, EnsuringTyped
    <2>3. known' \in BOOLEAN /\ ungated' \in BOOLEAN /\ forgotten' \in BOOLEAN
      BY <1>2 DEF TunnelTyped, Flags
    <2> QED
      BY <1>2, <2>1, <2>2, <2>3
  <1> QED
    BY <1>1, <1>2 DEF Ensure

LEMMA GoesOnTypes ==
  ASSUME TunnelTyped, EnsureGoesOn
  PROVE  TunnelTyped'
  <1>1. /\ UNCHANGED <<enabled, stops, reconciling, deleting>>
        /\ status \in Statuses /\ Flags /\ StopsTyped
        /\ reconciling \in {"no", "expected", "unexpected"} /\ deleting \in Phases
    BY DEF EnsureGoesOn, TunnelTyped
  <1>2. CASE /\ status' = "connected" /\ retryTimer' = FALSE /\ ensuring' = NotEnsuring
             /\ UNCHANGED <<known, ungated, forgotten>>
    BY <1>1, <1>2 DEF TunnelTyped, Statuses, Flags, EnsuringTyped, StopsTyped
  <1>3. CASE /\ \E k \in Kills : ensuring' = [at |-> "replacing", by |-> k]
             /\ UNCHANGED <<status, known, retryTimer, ungated, forgotten>>
    BY <1>1, <1>3 DEF TunnelTyped, Flags, EnsuringTyped, StopsTyped
  <1>4. CASE Create("recreating", retryTimer)
    <2>1. retryTimer \in BOOLEAN
      BY <1>1 DEF Flags
    <2>2. /\ status' \in Statuses /\ EnsuringTyped'
          /\ known' \in BOOLEAN /\ retryTimer' \in BOOLEAN /\ ungated' \in BOOLEAN /\ forgotten' \in BOOLEAN
      BY <1>4, <2>1, CreateTypes
    <2> QED
      BY <1>1, <2>2 DEF TunnelTyped, Flags, StopsTyped
  <1>5. CASE Fail
    BY <1>1, <1>5 DEF Fail, TunnelTyped, Statuses, Flags, EnsuringTyped, StopsTyped
  <1> QED
    BY <1>2, <1>3, <1>4, <1>5 DEF EnsureGoesOn

LEMMA StopTypes ==
  ASSUME TunnelTyped, NEW k \in Kills, NEW purpose \in Purposes, StopSession(k, purpose)
  PROVE  /\ status' \in Statuses /\ EnsuringTyped' /\ StopsTyped'
         /\ known' \in BOOLEAN /\ retryTimer' \in BOOLEAN /\ ungated' \in BOOLEAN /\ forgotten' \in BOOLEAN
  <1>1. status' \in Statuses
    BY DEF StopSession, TunnelTyped
  <1>2. EnsuringTyped'
    BY DEF StopSession, TunnelTyped, EnsuringTyped
  <1>3. StopsTyped'
    BY DEF StopSession, TunnelTyped, StopsTyped
  <1>4. known' \in BOOLEAN /\ retryTimer' \in BOOLEAN /\ ungated' \in BOOLEAN /\ forgotten' \in BOOLEAN
    BY DEF StopSession, TunnelTyped, Flags
  <1> QED
    BY <1>1, <1>2, <1>3, <1>4

LEMMA StopEndsTypes ==
  ASSUME TunnelTyped, NEW k \in Kills, StopEnds(k)
  PROVE  TunnelTyped'
  <1>1. /\ UNCHANGED <<enabled, retryTimer, ensuring, reconciling, ungated>>
        /\ reconciling \in {"no", "expected", "unexpected"} /\ Flags /\ EnsuringTyped
    BY DEF StopEnds, TunnelTyped
  <1>2. status' \in Statuses
    BY DEF StopEnds, Statuses
  <1>3. StopsTyped'
    BY DEF StopEnds, TunnelTyped, StopsTyped
  <1>4. known' \in BOOLEAN /\ forgotten' \in BOOLEAN
    BY DEF StopEnds
  <1>5. deleting' \in Phases
    BY DEF StopEnds, Sweep, TunnelTyped, Phases
  <1>6. EnsuringTyped'
    BY <1>1 DEF EnsuringTyped
  <1> QED
    BY <1>1, <1>2, <1>3, <1>4, <1>5, <1>6 DEF TunnelTyped, Flags

LEMMA TunnelTypes ==
  ASSUME TunnelTyped, [Next]_vars
  PROVE  TunnelTyped'
  <1>1. /\ status \in Statuses /\ Flags /\ EnsuringTyped /\ StopsTyped
        /\ reconciling \in {"no", "expected", "unexpected"} /\ deleting \in Phases
    BY DEF TunnelTyped
  <1>2. CASE UNCHANGED tunnelVars
    BY <1>1, <1>2 DEF tunnelVars, TunnelTyped, Flags, EnsuringTyped, StopsTyped
  <1>3. CASE EnsureGoesOn
    BY <1>3, GoesOnTypes
  <1>4. CASE \E k \in Kills : StopEnds(k)
    BY <1>4, StopEndsTypes
  <1>5. ASSUME NEW timer \in BOOLEAN, Ensure(timer), StopsTyped', enabled' \in BOOLEAN,
               reconciling' \in {"no", "expected", "unexpected"}, deleting' = deleting
        PROVE  TunnelTyped'
    <2>1. /\ status' \in Statuses /\ EnsuringTyped'
          /\ known' \in BOOLEAN /\ retryTimer' \in BOOLEAN /\ ungated' \in BOOLEAN /\ forgotten' \in BOOLEAN
      BY <1>5, EnsureTypes
    <2> QED
      BY <1>1, <1>5, <2>1 DEF TunnelTyped, Flags
  <1>6. retryTimer \in BOOLEAN /\ enabled \in BOOLEAN
    BY <1>1 DEF Flags
  <1>7. CASE \E k \in Kills : Restarted(k)
    <2>1. StopsTyped'
      BY <1>1, <1>7 DEF Restarted, StopsTyped
    <2> QED
      BY <1>1, <1>5, <1>6, <1>7, <2>1 DEF Restarted
  <1>8. CASE Start \/ RetryFires
    <2>1. StopsTyped'
      BY <1>1, <1>8 DEF Start, RetryFires, StopsTyped
    <2> QED
      BY <1>1, <1>5, <1>6, <1>8, <2>1 DEF Start, RetryFires
  <1>9. ASSUME NEW k \in Kills, NEW purpose \in Purposes, StopSession(k, purpose), enabled' \in BOOLEAN,
               reconciling' \in {"no", "expected", "unexpected"}, deleting' \in Phases
        PROVE  TunnelTyped'
    BY <1>9, StopTypes DEF TunnelTyped, Flags
  <1>10. CASE Reconcile
    <2>1. CASE Ensure(retryTimer) /\ UNCHANGED stops
      <3>1. StopsTyped'
        BY <1>1, <2>1 DEF StopsTyped
      <3> QED
        BY <1>5, <1>6, <1>10, <2>1, <3>1 DEF Reconcile
    <2>2. CASE \E k \in Kills : StopSession(k, "stop")
      BY <1>1, <1>6, <1>9, <1>10, <2>2 DEF Reconcile, Purposes
    <2>3. CASE UNCHANGED <<status, known, retryTimer, ensuring, stops, ungated, forgotten>>
      BY <1>1, <1>10, <2>3 DEF Reconcile, TunnelTyped, Flags, EnsuringTyped, StopsTyped
    <2> QED
      BY <1>10, <2>1, <2>2, <2>3 DEF Reconcile
  <1>11. CASE Stop \/ RestartTunnel \/ DeleteWorkspace
    <2>1. PICK k \in Kills, purpose \in Purposes : StopSession(k, purpose)
      BY <1>11 DEF Stop, RestartTunnel, DeleteWorkspace, Purposes
    <2>2. /\ enabled' = enabled \/ enabled' = FALSE
          /\ reconciling' = reconciling
          /\ deleting' = deleting \/ deleting' = "stopping"
      BY <1>11 DEF Stop, RestartTunnel, DeleteWorkspace
    <2> QED
      BY <1>1, <1>6, <1>9, <2>1, <2>2 DEF Phases
  <1>12. CASE SweepEnds \/ GiveUp
    <2>1. /\ deleting' \in Phases
          /\ UNCHANGED <<enabled, status, known, retryTimer, ensuring, stops, reconciling, ungated, forgotten>>
      BY <1>12 DEF SweepEnds, GiveUp, Phases
    <2> QED
      BY <1>1, <2>1 DEF TunnelTyped, Flags, EnsuringTyped, StopsTyped
  <1>13. CASE Erase
    <2>1. /\ deleting' \in Phases /\ enabled' = FALSE
          /\ UNCHANGED <<status, known, retryTimer, ensuring, stops, reconciling, ungated, forgotten>>
      BY <1>13 DEF Erase, Sweep, Phases
    <2> QED
      BY <1>1, <2>1 DEF TunnelTyped, Flags, EnsuringTyped, StopsTyped
  <1>14. CASE \E p \in Panes : Exit(p)
    <2>1. UNCHANGED <<enabled, known, ensuring, stops, reconciling, deleting, ungated, forgotten>>
      BY <1>14 DEF Exit
    <2>2. status' \in {status, "retrying", "stopped"}
      BY <1>14 DEF Exit, UnexpectedExit
    <2>3. retryTimer' \in BOOLEAN
      BY <1>6, <1>14 DEF Exit, UnexpectedExit
    <2>4. status' \in Statuses
      BY <1>1, <2>2 DEF Statuses
    <2> QED
      BY <1>1, <2>1, <2>3, <2>4 DEF TunnelTyped, Flags, EnsuringTyped, StopsTyped
  <1>15. CASE RestartService
    <2>1. /\ reconciling' \in {"no", "expected", "unexpected"}
          /\ UNCHANGED <<enabled, status, known, retryTimer, ensuring, stops, deleting, ungated, forgotten>>
      BY <1>15 DEF RestartService
    <2> QED
      BY <1>1, <2>1 DEF TunnelTyped, Flags, EnsuringTyped, StopsTyped
  <1> QED
    BY <1>2, <1>3, <1>4, <1>7, <1>8, <1>10, <1>11, <1>12, <1>13, <1>14, <1>15
    DEF Next, TunnelTurn, vars

LEMMA TypesInit ==
  ASSUME Init
  PROVE  Types /\ Requests /\ TunnelTyped
  <1>1. ServiceInit
    BY DEF Init
  <1>2. PaneSets
    BY <1>1 DEF ServiceInit, PaneSets, Live
  <1>3. TimersTyped
    BY <1>1 DEF ServiceInit, TimersTyped
  <1>4. Listings
    BY <1>1 DEF ServiceInit, Listings
  <1>5. HistoryTypeOK
    BY <1>1, IdleTypes DEF ServiceInit, HistoryInit, HistoryTypeOK
  <1>6. Requests
    <2>1. Len(wire) = 0 /\ spawning = {}
      BY <1>1, EmptySeq DEF ServiceInit
    <2> QED
      BY <2>1 DEF Requests
  <1>7. TunnelTyped
    BY DEF Init, TunnelTyped, Statuses, Flags, EnsuringTyped, StopsTyped, Phases
  <1> QED
    BY <1>2, <1>3, <1>4, <1>5, <1>6, <1>7 DEF Types

(* The types of the terminal service: the service manager's records, the   *)
(* limiter, the history of the recorded pane, and the tunnel.              *)
THEOREM ServiceTyping == Spec => []TypeOK
  <1> DEFINE Inv == Shape /\ SlotInv /\ Dated /\ Held /\ Kept /\ Types /\ Requests /\ TunnelTyped
  <1>1. Init => Inv
    BY ShapeInit, RecordsInit, TypesInit DEF Records
  <1>2. Inv /\ [Next]_vars => Inv'
    <2> SUFFICES ASSUME Inv, [Next]_vars PROVE Inv'
      OBVIOUS
    <2>1. Effect /\ Change
      BY NextEffect, NextChange
    <2>2. (Shape /\ SlotInv)'
      BY <2>1, ShapeSlots
    <2>3. (Dated /\ Held)' /\ Kept'
      BY <2>1, DatedInductive, KeptInductive
    <2>4. Types' /\ Requests' /\ TunnelTyped'
      BY <2>1, ServiceTypes, RequestsInductive, TunnelTypes
    <2> QED
      BY <2>2, <2>3, <2>4
  <1>3. Inv => TypeOK
    <2> SUFFICES ASSUME Inv PROVE TypeOK
      OBVIOUS
    <2>1. generation \in [Panes -> Nat] /\ pending \in [Panes -> Creates \cup {None}]
      BY DEF Dated, Held
    <2>2. /\ {killed, deletedHistory, sticky, stopped, alive, changed} \subseteq SUBSET Panes
          /\ hydrated \in BOOLEAN
      BY DEF Shape, Types, PaneSets
    <2>3. /\ sessions \in [Panes -> [by : Creates \cup {None}, alive : BOOLEAN]]
          /\ exits \in [Panes -> Nat]
      BY DEF Kept
    <2>4. /\ timers \in [Panes -> [all : Nat, mapped : BOOLEAN]]
          /\ \A p \in Panes : timers[p].mapped => timers[p].all > 0
      BY DEF Types, TimersTyped
    <2>5. inUse \in 0..MaxSlots
      BY SlotsAssumption DEF SlotInv, Shape
    <2>6. /\ waiters \in Seq(Creates) /\ daemon \in [Panes -> {"none", "live", "dying"}]
          /\ step \in [Issuers -> {"unused"} \cup CreateSteps \cup KillSteps \cup OtherSteps \cup Ends]
      BY DEF Shape, Steps
    <2>7. spawning \subseteq Creates /\ HistoryTypeOK
      BY DEF Requests, Types
    <2>8. ServiceTypeOK
      BY <2>1, <2>2, <2>3, <2>4, <2>5, <2>6, <2>7 DEF ServiceTypeOK
    <2> QED
      BY <2>8 DEF TypeOK, TunnelTyped, Statuses, Flags, EnsuringTyped, StopsTyped, Phases
  <1> QED
    BY <1>1, <1>2, <1>3, PTL DEF Spec

-----------------------------------------------------------------------------
(* A creation that is stale, and one that is refused, have no session that *)
(* is alive on record in their pane, unless a request of the pane failed.  *)
Slotted(c) == step[c] \in Holding \cup {"queued"}
Stale(c) == gen[c] # generation[pane[c]]

Outdated ==
    \A c \in Creates :
        /\ Slotted(c) /\ Stale(c) => ~sessions[pane[c]].alive
        /\ step[c] \in {"discarding", "dropping"} => Stale(c)

(* No session on record was made with another launch than the daemon has.  *)
Matching ==
    /\ \A p \in Panes : sessions[p].alive => p \notin changed
    /\ \A c \in Creates : Up(c) => pane[c] \notin changed
    /\ \A c \in spawning : pane[c] \notin changed

Refusals ==
    \A c \in Creates : step[c] = "requested" =>
        /\ answer[c] = "changed" => ~sessions[pane[c]].alive
        /\ answer[c] = "failed" => pane[c] \in disturbed

(* The steps of a creation that say whether it has a slot.                 *)
LEMMA SlottedSteps ==
  /\ {"requested", "writing", "discarding", "dropping"} \subseteq Holding
  /\ {"joined", "waiting", "unused", "killing"} \cap (Holding \cup {"queued"}) = {}
  /\ Ends \cap (Holding \cup {"queued"}) = {}
  BY DEF Holding, CreateSteps, Ends, CreateEnds

LEMMA OnePerPane ==
  ASSUME Shape, Held, NEW c \in Creates, NEW d \in Creates,
         Slotted(c), Slotted(d), pane[c] = pane[d]
  PROVE  c = d
  BY DEF Held, Slotted

LEMMA StaleKept ==
  ASSUME Dated, NEW c \in Creates, pane[c] \in Panes, pane' = pane,
         gen'[c] = gen[c], generation'[pane[c]] \in Nat, generation[pane[c]] <= generation'[pane[c]]
  PROVE  Stale(c) => Stale(c)'
  <1>1. gen[c] \in Nat /\ generation[pane[c]] \in Nat /\ gen[c] <= generation[pane[c]]
    BY DEF Dated
  <1> QED
    BY <1>1 DEF Stale

(* Only what this says can make a stale creation's session alive.          *)
LEMMA OutdatedKept ==
  ASSUME Outdated, Dated, pane' = pane, UNCHANGED <<generation, gen>>,
         \A c \in Creates : Slotted(c)' => Slotted(c),
         \A c \in Creates : step'[c] \in {"discarding", "dropping"} =>
             step[c] \in {"discarding", "dropping"} \/ Stale(c),
         \A c \in Creates : Slotted(c) /\ Stale(c) /\ sessions'[pane[c]].alive => sessions[pane[c]].alive
  PROVE  Outdated'
  BY DEF Outdated, Stale

LEMMA OutdatedLoops ==
  ASSUME Shape, Dated, Outdated, NEW c \in Creates, Loops(c)
  PROVE  Outdated'
  <1>1. /\ pane[c] \in Panes /\ UNCHANGED <<pane, generation, sessions>> /\ c \in Issuers
        /\ \A d \in Creates \ {c} : gen'[d] = gen[d]
    BY IssuersAssumption DEF Loops, Aside, Dated
  <1>2. PICK s \in {"granted", "queued", "joined", "waiting"} : step' = [step EXCEPT ![c] = s]
    BY DEF Loops
  <1>3. ~Stale(c)'
    <2>1. CASE Current(c) /\ gen' = gen
      BY <1>1, <2>1 DEF Current, Stale
    <2>2. CASE gen' = [gen EXCEPT ![c] = generation[pane[c]]]
      BY <1>1, <2>2 DEF Stale, Dated
    <2> QED
      BY <2>1, <2>2 DEF Loops
  <1>4. ASSUME NEW d \in Creates
        PROVE  /\ Slotted(d)' /\ Stale(d)' => ~sessions'[pane'[d]].alive
               /\ step'[d] \in {"discarding", "dropping"} => Stale(d)'
    <2>1. CASE d = c
      BY <1>1, <1>2, <1>3, <2>1 DEF Shape
    <2>2. CASE d # c
      <3>1. step'[d] = step[d] /\ gen'[d] = gen[d]
        BY <1>1, <1>2, <2>2, IssuersAssumption DEF Shape
      <3> QED
        BY <1>1, <3>1 DEF Outdated, Slotted, Stale
    <2> QED
      BY <2>1, <2>2
  <1> QED
    BY <1>4 DEF Outdated

LEMMA OutdatedTerminates ==
  ASSUME Shape, Kept, Dated, Dated', Outdated, NEW k \in Issuers, Terminates(k)
  PROVE  Outdated'
  <1>1. /\ generation' = [generation EXCEPT ![pane[k]] = @ + 1] /\ pane[k] \in Panes
        /\ UNCHANGED <<gen, pane>> /\ Dead(pane[k]) /\ step' = [step EXCEPT ![k] = "killing"]
    BY DEF Terminates, Aside
  <1>2. ASSUME NEW c \in Creates, Slotted(c)'
        PROVE  /\ Slotted(c) /\ pane[c] \in Panes
               /\ step'[c] = step[c]
    BY <1>1, <1>2, SlottedSteps, CreateStepSets, InPanes, IssuersAssumption DEF Slotted, Shape
  <1>3. ASSUME NEW c \in Creates, Slotted(c)', Stale(c)'
        PROVE  ~sessions'[pane[c]].alive
    <2>1. CASE pane[c] = pane[k]
      BY <1>1, <2>1 DEF Dead, Kept
    <2>2. CASE pane[c] # pane[k]
      <3>1. Stale(c)
        BY <1>1, <1>2, <1>3, <2>2 DEF Stale, Dated
      <3> QED
        BY <1>1, <1>2, <1>3, <2>2, <3>1 DEF Outdated, Dead, Kept
    <2> QED
      BY <2>1, <2>2
  <1>4. ASSUME NEW c \in Creates, step'[c] \in {"discarding", "dropping"}
        PROVE  Stale(c)'
    <2>1. Slotted(c)'
      BY <1>4, SlottedSteps DEF Slotted
    <2>2. Stale(c) /\ pane[c] \in Panes
      BY <1>2, <1>4, <2>1 DEF Outdated
    <2>3. generation'[pane[c]] \in Nat /\ generation[pane[c]] <= generation'[pane[c]]
      BY <1>1, <2>2 DEF Dated
    <2> QED
      BY <1>1, <2>2, <2>3, StaleKept
  <1> QED
    BY <1>1, <1>3, <1>4 DEF Outdated

LEMMA OutdatedInductive ==
  ASSUME Shape, SlotInv, Kept, Dated, Dated', Held, Outdated, Change
  PROVE  Outdated'
  <1>1. CASE UNCHANGED <<step, pane, generation, gen>> /\
             \A p \in Panes : sessions'[p].alive => sessions[p].alive
    <2>1. \A c \in Creates : Slotted(c) => pane[c] \in Panes
      BY CreateStepSets, InPanes, IssuersAssumption DEF Slotted
    <2> QED
      BY <1>1, <2>1, OutdatedKept DEF Slotted
  <1>2. CASE \E i \in Issuers, s \in Steps : Goes(i, s)
    <2>1. PICK i \in Issuers, s \in Steps : Goes(i, s)
      BY <1>2
    <2>2. /\ UNCHANGED <<pane, generation, gen, sessions>> /\ step' = [step EXCEPT ![i] = s]
          /\ s # "queued" /\ s # "discarding" /\ (s = "dropping" => step[i] = "discarding")
          /\ step[i] \in Holding <=> s \in Holding
      BY <2>1 DEF Goes, Aside, Dates
    <2> QED
      BY <2>2, OutdatedKept, IssuersAssumption DEF Slotted, Shape
  <1>3. CASE \E c \in Creates : Loops(c)
    BY <1>3, OutdatedLoops
  <1>4. CASE \E c \in Creates : Orders(c)
    <2>1. PICK c \in Creates : Orders(c)
      BY <1>4
    <2>2. /\ UNCHANGED <<pane, generation, gen, sessions>> /\ step' = [step EXCEPT ![c] = "requested"]
          /\ step[c] \in Holding
      BY <2>1 DEF Orders, Aside, Dates
    <2> QED
      BY <2>2, OutdatedKept, IssuersAssumption DEF Slotted, Shape
  <1>5. CASE \E c \in Creates, s \in Ends : Finishes(c, s)
    <2>1. PICK c \in Creates, s \in Ends : Finishes(c, s)
      BY <1>5
    <2>2. UNCHANGED <<pane, generation, gen, sessions>> /\ step[c] \in Holding
      BY <2>1 DEF Finishes, Aside, Dates
    <2>3. /\ step'[c] = s
          /\ \A j \in Issuers \ {c} : step'[j] = step[j] \/ (step[j] = "queued" /\ step'[j] = "granted")
      BY <2>1, SettleMoves DEF Finishes
    <2> QED
      BY <2>2, <2>3, OutdatedKept, IssuersAssumption, SlottedSteps DEF Slotted
  <1>6. CASE \E c \in Creates : Opens(c)
    <2>1. PICK c \in Creates : Opens(c)
      BY <1>6
    <2>2. /\ UNCHANGED <<pane, generation, gen>> /\ Slotted(c) /\ Current(c) /\ c \in Issuers
          /\ sessions' = [sessions EXCEPT ![pane[c]] = [by |-> c, alive |-> TRUE]]
      BY <2>1, SlottedSteps, IssuersAssumption DEF Opens, Aside, Dates, Slotted, Up
    <2>3. /\ \A j \in Issuers \ {c} : step'[j] = step[j] \/ (step[j] = "queued" /\ step'[j] = "granted")
          /\ step'[c] \in {"ok", "writing"}
      <3>1. CASE Settle(c, "ok")
        BY <3>1, SettleMoves
      <3>2. CASE step' = [step EXCEPT ![c] = "writing"]
        BY <2>2, <3>2 DEF Shape
      <3> QED
        BY <2>1, <3>1, <3>2 DEF Opens
    <2>4. \A d \in Creates : Slotted(d)' => Slotted(d)
      BY <2>2, <2>3, SlottedSteps, IssuersAssumption DEF Slotted
    <2>5. \A d \in Creates : step'[d] \in {"discarding", "dropping"} => step[d] \in {"discarding", "dropping"}
      BY <2>3, IssuersAssumption
    <2>6. ASSUME NEW d \in Creates, Slotted(d), Stale(d)
          PROVE  sessions'[pane[d]] = sessions[pane[d]]
      <3>1. d # c
        BY <2>2, <2>6 DEF Current, Stale
      <3>2. pane[d] # pane[c]
        BY <2>2, <2>6, <3>1, OnePerPane
      <3>3. pane[d] \in Panes
        BY <2>6, CreateStepSets, InPanes, IssuersAssumption DEF Slotted
      <3> QED
        BY <2>2, <3>2, <3>3 DEF Kept
    <2> QED
      BY <2>2, <2>4, <2>5, <2>6, OutdatedKept
  <1>7. CASE \E c \in Creates : Discards(c)
    <2>1. PICK c \in Creates : Discards(c)
      BY <1>7
    <2>2. /\ UNCHANGED <<pane, generation, gen>> /\ Slotted(c) /\ ~Current(c) /\ c \in Issuers
          /\ sessions' = [sessions EXCEPT ![pane[c]] = NoSession]
          /\ step' = [step EXCEPT ![c] = "discarding"]
      BY <2>1, SlottedSteps, IssuersAssumption DEF Discards, Aside, Dates, Slotted, Up
    <2>3. step[c] \in CreateSteps /\ pane[c] \in Panes
      BY <2>2, CreateStepSets, InPanes DEF Slotted
    <2>4. Stale(c)
      BY <2>2, <2>3 DEF Dated, Current, Stale
    <2>5. \A d \in Creates : Slotted(d)' => Slotted(d)
      BY <2>2 DEF Slotted, Shape
    <2>6. \A d \in Creates : step'[d] \in {"discarding", "dropping"} =>
                                step[d] \in {"discarding", "dropping"} \/ Stale(d)
      BY <2>2, <2>4, IssuersAssumption DEF Shape
    <2>7. \A d \in Creates : Slotted(d) /\ sessions'[pane[d]].alive => sessions[pane[d]].alive
      BY <2>2, CreateStepSets, InPanes, IssuersAssumption DEF Kept, NoSession, Slotted
    <2> QED
      BY <2>2, <2>5, <2>6, <2>7, OutdatedKept
  <1>8. CASE \E k \in Issuers : Terminates(k)
    BY <1>8, OutdatedTerminates
  <1>9. CASE Stays
    <2>1. UNCHANGED <<step, pane, generation, gen, sessions>>
      BY <1>9 DEF Stays, Dates
    <2> QED
      BY <1>1, <2>1
  <1>10. CASE OfDaemon /\ ~Restart
    <2>1. UNCHANGED <<step, pane, generation, gen>>
      BY <1>10 DEF OfDaemon, RequestFails, ExitArrives, TimerFires, ShellExits, DaemonHandles, Spawned,
                   Disconnect, managerVars, callVars, paramVars, faultVars
    <2>2. sessions' = sessions \/ \E p \in Panes : Dead(p) \/ sessions' = [sessions EXCEPT ![p] = NoSession]
      BY <1>10 DEF OfDaemon, RequestFails, ExitArrives, TimerFires, ShellExits, DaemonHandles, Spawned,
                   Disconnect, managerVars
    <2>3. \A p \in Panes : sessions'[p].alive => sessions[p].alive
      BY <2>2 DEF Dead, Kept, NoSession
    <2> QED
      BY <1>1, <2>1, <2>3
  <1>11. CASE Restart
    <2>1. /\ sessions' = [p \in Panes |-> NoSession] /\ UNCHANGED <<pane, gen>>
          /\ generation' = [p \in Panes |-> IF pending[p] = None THEN generation[p] ELSE generation[p] + 1]
          /\ step' = [i \in Issuers |-> IF step[i] = "queued" THEN "failed" ELSE step[i]]
      BY <1>11 DEF Restart, paramVars
    <2>2. ASSUME NEW c \in Creates, Slotted(c)'
          PROVE  step'[c] = step[c] /\ pane[c] \in Panes /\ ~sessions'[pane[c]].alive
      <3>1. step'[c] = step[c]
        BY <2>1, <2>2, IssuersAssumption, SlottedSteps DEF Slotted, Ends, CreateEnds
      <3>2. pane[c] \in Panes
        BY <2>2, <3>1, CreateStepSets, InPanes, IssuersAssumption DEF Slotted
      <3> QED
        BY <2>1, <3>1, <3>2 DEF NoSession
    <2>3. ASSUME NEW c \in Creates, step'[c] \in {"discarding", "dropping"}
          PROVE  Stale(c)'
      <3>1. Slotted(c)'
        BY <2>3, SlottedSteps DEF Slotted
      <3>2. Stale(c) /\ pane[c] \in Panes
        BY <2>2, <2>3, <3>1 DEF Outdated
      <3>3. generation'[pane[c]] \in Nat /\ generation[pane[c]] <= generation'[pane[c]]
        BY <2>1, <3>2 DEF Dated
      <3> QED
        BY <2>1, <3>2, <3>3, StaleKept
    <2> QED
      BY <2>1, <2>2, <2>3 DEF Outdated
  <1> QED
    BY <1>2, <1>3, <1>4, <1>5, <1>6, <1>7, <1>8, <1>9, <1>10, <1>11 DEF Change, OfCreation, OfDaemon

(* Whose request is answered, and how, when the daemon handles a request.  *)
LEMMA HandledAnswers ==
  ASSUME Shape, DaemonHandles
  PROVE  /\ UNCHANGED <<pane, step, sessions, disturbed>>
         /\ changed' \subseteq changed
         /\ \A c \in Creates : step[c] = "requested" =>
               \/ answer'[c] = answer[c]
               \/ answer'[c] = "ok" /\ pane[c] \notin changed
               \/ answer'[c] = "changed" /\ pane[c] \in changed
         /\ \A c \in spawning' : c \in spawning \/ pane[c] \notin changed'
  <1> DEFINE m == wire[1]
  <1>1. m.from \in Issuers /\ pane[m.from] \in Panes /\ Head(wire) = m
    BY Handled
  <1>2. UNCHANGED <<pane, step, sessions, disturbed>> /\ changed' \subseteq changed
    BY DEF DaemonHandles, managerVars, paramVars, faultVars
  <1>3. ASSUME NEW c \in Creates, step[c] = "requested", answer'[c] # answer[c]
        PROVE  \/ answer'[c] = "ok" /\ pane[c] \notin changed
               \/ answer'[c] = "changed" /\ pane[c] \in changed
    <2>1. CASE m.kind = "create" /\ Answer(m, IF pane[m.from] \in changed THEN "changed" ELSE "ok")
      BY <1>1, <1>3, <2>1 DEF Answer, Shape
    <2>2. CASE m.kind \in {"list", "kill"} /\ Answer(m, "ok")
      BY <1>1, <1>3, <2>2 DEF Answer, Shape, Awaited
    <2>3. CASE answer' = answer
      BY <1>3, <2>3
    <2> QED
      BY <1>1, <2>1, <2>2, <2>3 DEF DaemonHandles
  <1>4. \A c \in spawning' : c \in spawning \/ pane[c] \notin changed'
    BY <1>1 DEF DaemonHandles
  <1> QED
    BY <1>2, <1>3, <1>4

(* Steps that leave answers and sessions as they are, or take them away.   *)
LEMMA AnswersKept ==
  ASSUME Shape, Matching, Refusals, pane' = pane, changed' \subseteq changed, disturbed \subseteq disturbed',
         \A p \in Panes : sessions'[p].alive => sessions[p].alive,
         \A c \in Creates : step'[c] = "requested" =>
             \/ step[c] = "requested" /\ answer'[c] = answer[c]
             \/ answer'[c] = "none"
             \/ answer'[c] = "failed" /\ pane[c] \in disturbed',
         \A c \in Creates : step'[c] = "requested" => pane[c] \in Panes,
         spawning' \subseteq spawning
  PROVE  Matching' /\ Refusals'
  BY DEF Matching, Refusals, Up

LEMMA RequestPanes ==
  ASSUME Shape
  PROVE  \A c \in Creates : step[c] = "requested" => pane[c] \in Panes
  BY CreateStepSets, InPanes, IssuersAssumption

LEMMA MatchingInductive ==
  ASSUME Shape, Shape', SlotInv, Kept, Held, Matching, Refusals, Change
  PROVE  Matching' /\ Refusals'
  <1>1. \A c \in Creates : step'[c] = "requested" => pane'[c] \in Panes
    BY CreateStepSets, IssuersAssumption DEF Shape
  <1>2. CASE Stays
    <2>1. /\ UNCHANGED <<step, pane, answer, sessions, spawning, changed>>
          /\ disturbed \subseteq disturbed'
      BY <1>2 DEF Stays
    <2> QED
      BY <1>1, <2>1, AnswersKept
  <1>3. CASE \E i \in Issuers, s \in Steps : Goes(i, s)
    <2>1. PICK i \in Issuers, s \in Steps : Goes(i, s)
      BY <1>3
    <2>2. /\ UNCHANGED <<pane, sessions, spawning, changed, disturbed>> /\ step' = [step EXCEPT ![i] = s]
          /\ s # "requested" /\ (answer' = answer \/ answer' = [answer EXCEPT ![i] = "none"])
      BY <2>1 DEF Goes, Aside, Silent, Sends
    <2>3. \A c \in Creates : step'[c] = "requested" => step[c] = "requested" /\ answer'[c] = answer[c]
      BY <2>2, IssuersAssumption DEF Shape
    <2> QED
      BY <1>1, <2>2, <2>3, AnswersKept
  <1>4. CASE \E c \in Creates : Loops(c)
    <2>1. PICK c \in Creates : Loops(c)
      BY <1>4
    <2>2. UNCHANGED <<pane, sessions, spawning, changed, disturbed, answer>>
      BY <2>1 DEF Loops, Aside, Silent
    <2>3. \A d \in Creates : step'[d] = "requested" => step[d] = "requested"
      BY <2>1, IssuersAssumption DEF Loops, Shape
    <2> QED
      BY <1>1, <2>2, <2>3, AnswersKept
  <1>5. CASE \E c \in Creates : Orders(c)
    <2>1. PICK c \in Creates : Orders(c)
      BY <1>5
    <2>2. /\ UNCHANGED <<pane, sessions, spawning, changed, disturbed>>
          /\ step' = [step EXCEPT ![c] = "requested"] /\ answer' = [answer EXCEPT ![c] = "none"]
      BY <2>1 DEF Orders, Aside, Sends
    <2>3. \A d \in Creates : step'[d] = "requested" =>
                 (step[d] = "requested" /\ answer'[d] = answer[d]) \/ answer'[d] = "none"
      BY <2>2, IssuersAssumption DEF Shape
    <2> QED
      BY <1>1, <2>2, <2>3, AnswersKept
  <1>6. CASE \E c \in Creates, s \in Ends : Finishes(c, s)
    <2>1. PICK c \in Creates, s \in Ends : Finishes(c, s)
      BY <1>6
    <2>2. UNCHANGED <<pane, sessions, spawning, changed, disturbed, answer>>
      BY <2>1 DEF Finishes, Aside, Silent
    <2>3. \A d \in Creates : step'[d] = "requested" => step[d] = "requested"
      BY <2>1, SettleMoves, SlottedSteps, IssuersAssumption DEF Finishes
    <2> QED
      BY <1>1, <2>2, <2>3, AnswersKept
  <1>7. CASE \E c \in Creates : Opens(c)
    <2>1. PICK c \in Creates : Opens(c)
      BY <1>7
    <2>2. /\ UNCHANGED <<pane, spawning, changed, disturbed, answer>> /\ Slotted(c) /\ Up(c) /\ c \in Issuers
          /\ sessions' = [sessions EXCEPT ![pane[c]] = [by |-> c, alive |-> TRUE]]
      BY <2>1, SlottedSteps, IssuersAssumption DEF Opens, Aside, Silent, Slotted, Up
    <2>3. \A d \in Creates : step'[d] = "requested" => step[d] = "requested"
      <3>1. CASE Settle(c, "ok")
        BY <3>1, SettleMoves, IssuersAssumption
      <3>2. CASE step' = [step EXCEPT ![c] = "writing"]
        BY <2>2, <3>2, IssuersAssumption DEF Shape
      <3> QED
        BY <2>1, <3>1, <3>2 DEF Opens
    <2>4. pane[c] \notin changed
      BY <2>2 DEF Matching
    <2>5. Matching'
      <3>1. \A d \in Creates : Up(d)' => Up(d)
        BY <2>2, <2>3 DEF Up
      <3>2. \A p \in Panes : sessions'[p].alive => sessions[p].alive \/ p = pane[c]
        BY <2>2 DEF Kept
      <3> QED
        BY <2>2, <2>4, <3>1, <3>2 DEF Matching
    <2>6. ASSUME NEW d \in Creates, step'[d] = "requested", answer[d] = "changed"
          PROVE  sessions'[pane[d]] = sessions[pane[d]]
      <3>1. step[d] = "requested" /\ d # c /\ Slotted(d) /\ pane[d] \in Panes
        BY <2>2, <2>3, <2>6, SlottedSteps, RequestPanes DEF Up, Slotted
      <3>2. pane[d] # pane[c]
        BY <2>2, <3>1, OnePerPane
      <3> QED
        BY <2>2, <3>1, <3>2 DEF Kept
    <2>7. Refusals'
      BY <2>2, <2>3, <2>6 DEF Refusals
    <2> QED
      BY <2>5, <2>7
  <1>8. CASE \E c \in Creates : Discards(c)
    <2>1. PICK c \in Creates : Discards(c)
      BY <1>8
    <2>2. /\ UNCHANGED <<pane, spawning, changed, disturbed>> /\ c \in Issuers
          /\ sessions' = [sessions EXCEPT ![pane[c]] = NoSession]
          /\ step' = [step EXCEPT ![c] = "discarding"] /\ answer' = [answer EXCEPT ![c] = "none"]
      BY <2>1, IssuersAssumption DEF Discards, Aside, Sends
    <2>3. \A d \in Creates : step'[d] = "requested" => step[d] = "requested" /\ answer'[d] = answer[d]
      BY <2>2, IssuersAssumption DEF Shape
    <2>4. \A p \in Panes : sessions'[p].alive => sessions[p].alive
      BY <2>2 DEF Kept, NoSession
    <2> QED
      BY <1>1, <2>2, <2>3, <2>4, AnswersKept
  <1>9. CASE \E k \in Issuers : Terminates(k)
    <2>1. PICK k \in Issuers : Terminates(k)
      BY <1>9
    <2>2. /\ UNCHANGED <<pane, spawning, changed, disturbed>> /\ Dead(pane[k])
          /\ step' = [step EXCEPT ![k] = "killing"] /\ answer' = [answer EXCEPT ![k] = "none"]
      BY <2>1 DEF Terminates, Aside, Sends
    <2>3. \A d \in Creates : step'[d] = "requested" => step[d] = "requested" /\ answer'[d] = answer[d]
      BY <2>2, IssuersAssumption DEF Shape
    <2>4. \A p \in Panes : sessions'[p].alive => sessions[p].alive
      BY <2>2 DEF Kept, Dead
    <2> QED
      BY <1>1, <2>2, <2>3, <2>4, AnswersKept
  <1>10. CASE DaemonHandles
    BY <1>10, HandledAnswers, RequestPanes DEF Matching, Refusals, Up
  <1>11. CASE \E c \in Creates : Spawned(c)
    <2>1. PICK c \in Creates : Spawned(c)
      BY <1>11
    <2>2. /\ UNCHANGED <<pane, step, sessions, disturbed, changed>> /\ spawning' \subseteq spawning
          /\ pane[c] \notin changed
          /\ answer' = answer \/ answer' = [answer EXCEPT ![c] = "ok"]
      BY <2>1 DEF Spawned, Answer, managerVars, paramVars, faultVars, Matching
    <2>3. \A d \in Creates : answer'[d] = answer[d] \/ (d = c /\ answer'[d] = "ok")
      BY <2>2, IssuersAssumption DEF Shape
    <2> QED
      BY <2>2, <2>3 DEF Matching, Refusals, Up
  <1>12. CASE (\E i \in Issuers : RequestFails(i)) \/ Disconnect \/ Restart
    <2>1. /\ pane' = pane /\ changed' \subseteq changed /\ spawning' \subseteq spawning
          /\ disturbed \subseteq disturbed'
          /\ \A p \in Panes : sessions'[p].alive => sessions[p].alive
      BY <1>12 DEF RequestFails, Disconnect, Restart, LoseConnection, paramVars, managerVars, NoSession
    <2>2. ASSUME NEW d \in Creates, step'[d] = "requested"
          PROVE  /\ step[d] = "requested"
                 /\ answer'[d] = answer[d] \/ (answer'[d] = "failed" /\ pane[d] \in disturbed')
      <3>1. d \in Issuers /\ step[d] = "requested"
        BY <1>12, <2>2, IssuersAssumption DEF RequestFails, Disconnect, Restart
      <3> QED
        BY <1>12, <3>1 DEF RequestFails, Disconnect, Restart, LoseConnection, Shape
    <2> QED
      BY <1>1, <2>1, <2>2, AnswersKept
  <1>13. CASE \E p \in Panes : ExitArrives(p) \/ TimerFires(p) \/ ShellExits(p)
    <2>1. /\ UNCHANGED <<pane, step, answer, spawning>> /\ changed' \subseteq changed
          /\ disturbed \subseteq disturbed'
      BY <1>13 DEF ExitArrives, TimerFires, ShellExits, callVars, paramVars, daemonVars, faultVars
    <2>2. sessions' = sessions \/ \E p \in Panes : Dead(p) \/ sessions' = [sessions EXCEPT ![p] = NoSession]
      BY <1>13 DEF ExitArrives, TimerFires, ShellExits, managerVars
    <2>3. \A p \in Panes : sessions'[p].alive => sessions[p].alive
      BY <2>2 DEF Dead, Kept, NoSession
    <2> QED
      BY <1>1, <2>1, <2>3, AnswersKept
  <1> QED
    BY <1>2, <1>3, <1>4, <1>5, <1>6, <1>7, <1>8, <1>9, <1>10, <1>11, <1>12, <1>13
    DEF Change, OfCreation, OfDaemon

Certain == Outdated /\ Matching /\ Refusals

LEMMA CertainInit ==
  ASSUME Init
  PROVE  Certain
  <1>1. /\ sessions = [p \in Panes |-> NoSession] /\ step = [i \in Issuers |-> "unused"] /\ spawning = {}
    BY DEF Init, ServiceInit
  <1>2. \A c \in Creates : step[c] = "unused"
    BY <1>1, IssuersAssumption
  <1>3. Outdated
    BY <1>2, SlottedSteps DEF Outdated, Slotted
  <1>4. Matching /\ Refusals
    BY <1>1, <1>2 DEF Matching, Refusals, Up, NoSession
  <1> QED
    BY <1>3, <1>4 DEF Certain

-----------------------------------------------------------------------------
(* The initialisations of a pane's history run one after the other.        *)
Busy(i) == op[i].at # "idle"
Inits == {i \in Issuers : Initializing(i)}
Closers == {i \in Issuers : op[i].at \in {"cleanAfterInit", "closeAfterInit"}}
WaitsForInit(i) == op[i].at \in {"afterInit", "cleanAfterInit", "closeAfterInit"}

(* Calls that have begun their initialisation, or never will.              *)
Begun == {c \in Creates : step[c] \in {"writing", "discarding", "dropping"} \cup Ends}
         \cup {x \in Clears : step[x] \in {"reopening"} \cup Ends}

(* The promise is that of the last one.                                    *)
Promised ==
    /\ IF initPromise = None THEN Inits = {}
       ELSE initPromise \in Inits /\ \A i \in Inits : op[i].gen <= op[initPromise].gen
    /\ \A i \in Inits : /\ op[i].gen <= historyGeneration
                        /\ op[i].at = "superseded" => op[i].gen < historyGeneration
    /\ \A i \in Issuers : WaitsForInit(i) => op[i].on \in Begun

(* All but the first wait, for one that is no older than any before them.  *)
Ordered ==
    \A i, j \in Inits :
        /\ op[i].gen = op[j].gen => i = j
        /\ op[i].gen < op[j].gen =>
              op[j].at = "afterInit" /\ op[j].on \in Inits /\ op[i].gen <= op[op[j].on].gen

(* A writer to which a hook is being applied is not closed.                *)
Applied ==
    \A i \in Issuers : op[i].at = "applying" =>
        writer = i /\ \A j \in Closers : op[j].on \in Inits

Lining == Promised /\ Ordered /\ Applied

Leads(i) == i \in Inits /\ (op[i].at = "afterInit" => op[i].on \notin Inits)

LEMMA OpTypes ==
  ASSUME HistoryTypeOK
  PROVE  /\ historyGeneration \in Nat
         /\ \A i \in Issuers : op[i] \in Operations /\ op[i].gen \in Nat
         /\ op = [i \in Issuers |-> op[i]]
  BY DEF HistoryTypeOK, Operations

(* The one that leads is the oldest.                                       *)
LEMMA LeaderIsFirst ==
  ASSUME HistoryTypeOK, Ordered, NEW i \in Issuers, Leads(i), NEW j \in Inits \ {i}
  PROVE  op[i].gen < op[j].gen /\ op[j].at = "afterInit" /\ op[j].on \in Inits
  <1>1. op[i].gen \in Nat /\ op[j].gen \in Nat /\ i \in Inits /\ op[i].gen # op[j].gen
    BY OpTypes DEF Inits, Ordered, Leads
  <1>2. ~(op[j].gen < op[i].gen)
    BY <1>1 DEF Ordered, Leads
  <1> QED
    BY <1>1, <1>2 DEF Ordered

(* Steps that are not about an initialisation.                             *)
LEMMA LiningSame ==
  ASSUME HistoryTypeOK, Lining, Inits \subseteq Begun, Begun \subseteq Begun', initPromise' = initPromise,
         historyGeneration' \in Nat, historyGeneration <= historyGeneration',
         \A i \in Issuers :
             \/ op'[i] = op[i]
             \/ /\ i \notin Inits /\ ~Initializing(i)'
                /\ WaitsForInit(i)' => op'[i].on = initPromise /\ initPromise # None,
         writer' = writer \/ \A j \in Issuers : op[j].at # "applying"
  PROVE  Lining' /\ Inits' = Inits
  <1>1. /\ Inits' = Inits
        /\ \A i \in Inits : op'[i] = op[i]
    BY DEF Inits, Initializing
  <1>2. \A i \in Issuers : op[i].gen \in Nat /\ historyGeneration \in Nat
    BY OpTypes
  <1>3. Promised'
    <2>1. IF initPromise' = None THEN Inits' = {}
          ELSE initPromise' \in Inits' /\ \A i \in Inits' : op'[i].gen <= op'[initPromise'].gen
      BY <1>1 DEF Lining, Promised
    <2>2. \A i \in Inits' : /\ op'[i].gen <= historyGeneration'
                            /\ op'[i].at = "superseded" => op'[i].gen < historyGeneration'
      <3> SUFFICES ASSUME NEW i \in Inits
                   PROVE  /\ op[i].gen <= historyGeneration'
                          /\ op[i].at = "superseded" => op[i].gen < historyGeneration'
        BY <1>1
      <3>1. /\ op[i].gen \in Nat /\ op[i].gen <= historyGeneration
            /\ op[i].at = "superseded" => op[i].gen < historyGeneration
            /\ historyGeneration \in Nat
        BY OpTypes DEF Lining, Promised, Inits
      <3>2. op[i].gen <= historyGeneration'
        BY <3>1
      <3>3. op[i].gen < historyGeneration => op[i].gen < historyGeneration'
        BY <3>1
      <3> QED
        BY <3>1, <3>2, <3>3
    <2>3. \A i \in Issuers : WaitsForInit(i)' => op'[i].on \in Begun'
      BY DEF Lining, Promised, WaitsForInit
    <2> QED
      BY <2>1, <2>2, <2>3 DEF Promised
  <1>4. Ordered'
    BY <1>1 DEF Lining, Ordered
  <1>5. Applied'
    <2> SUFFICES ASSUME NEW i \in Issuers, op'[i].at = "applying"
                 PROVE  writer' = i /\ \A j \in Closers' : op'[j].on \in Inits'
      BY DEF Applied
    <2>1. i \in Inits' /\ i \in Inits /\ op'[i] = op[i]
      BY <1>1 DEF Inits, Initializing, InitSteps
    <2>2. writer' = writer /\ writer = i /\ \A j \in Closers : op[j].on \in Inits
      BY <2>1 DEF Lining, Applied
    <2>3. ASSUME NEW j \in Closers' PROVE op'[j].on \in Inits
      <3>1. WaitsForInit(j)' /\ j \in Issuers
        BY DEF Closers, WaitsForInit
      <3>2. CASE op'[j] = op[j]
        BY <2>2, <3>1, <3>2, <2>3 DEF Closers
      <3>3. CASE op'[j].on = initPromise /\ initPromise # None
        BY <3>3 DEF Lining, Promised
      <3> QED
        BY <3>1, <3>2, <3>3
    <2> QED
      BY <1>1, <2>2, <2>3
  <1> QED
    BY <1>1, <1>3, <1>4, <1>5 DEF Lining

(* A new one.                                                              *)
LEMMA LiningBegins ==
  ASSUME HistoryTypeOK, Lining, Inits \subseteq Begun, Begun \subseteq Begun', NEW i \in Issuers,
         BeginInit(i), i \notin Begun, i \in Begun'
  PROVE  /\ Lining' /\ initPromise' = i /\ CurrentInit(i)'
         /\ \A j \in Closers' : op'[j].on # i
  <1> DEFINE made == op'[i]
  <1>1. /\ initPromise' = i /\ historyGeneration' = historyGeneration + 1 /\ writer' = writer
        /\ \A j \in Issuers \ {i} : op'[j] = op[j]
        /\ made.gen = historyGeneration + 1 /\ made.at \in {"opening", "afterInit", "afterClose"}
        /\ made.at = "afterInit" => initPromise # None /\ made.on = initPromise
        /\ initPromise # None => made.at = "afterInit"
    BY OpTypes DEF BeginInit
  <1>2. i \notin Inits /\ Inits' = Inits \cup {i} /\ i # None /\ historyGeneration \in Nat
    BY <1>1, NoneAssumption, OpTypes DEF Inits, Initializing, InitSteps
  <1>3. \A j \in Inits : /\ op'[j] = op[j] /\ op[j].gen \in Nat /\ op[j].gen <= historyGeneration
                         /\ op[j].at = "superseded" => op[j].gen < historyGeneration
    BY <1>1, <1>2, OpTypes DEF Inits, Lining, Promised
  <1>4. \A j \in Inits : op'[j].gen < made.gen
    BY <1>1, <1>2, <1>3
  <1> HIDE DEF made
  <1>5. Promised'
    <2>1. \A j \in Inits' : op'[j].gen <= op'[initPromise'].gen
      BY <1>1, <1>2, <1>3, <1>4 DEF made
    <2>2. \A j \in Inits' : /\ op'[j].gen <= historyGeneration'
                            /\ op'[j].at = "superseded" => op'[j].gen < historyGeneration'
      BY <1>1, <1>2, <1>3 DEF made
    <2>3. ASSUME NEW j \in Issuers, WaitsForInit(j)' PROVE op'[j].on \in Begun'
      <3>1. CASE j = i
        <4>1. made.at = "afterInit" /\ initPromise \in Inits /\ made.on = initPromise
          BY <1>1, <2>3, <3>1 DEF WaitsForInit, Lining, Promised, made
        <4> QED
          BY <3>1, <4>1 DEF made
      <3>2. CASE j # i
        BY <1>1, <2>3, <3>2 DEF Lining, Promised, WaitsForInit
      <3> QED
        BY <3>1, <3>2
    <2> QED
      BY <1>1, <1>2, <2>1, <2>2, <2>3 DEF Promised
  <1>6. Ordered'
    <2> SUFFICES ASSUME NEW a \in Inits', NEW b \in Inits'
                 PROVE  /\ op'[a].gen = op'[b].gen => a = b
                        /\ op'[a].gen < op'[b].gen =>
                             /\ op'[b].at = "afterInit" /\ op'[b].on \in Inits'
                             /\ op'[a].gen <= op'[op'[b].on].gen
      BY DEF Ordered
    <2>1. CASE a \in Inits /\ b \in Inits
      BY <1>2, <1>3, <2>1 DEF Lining, Ordered
    <2>2. CASE a \in Inits /\ b = i
      <3>1. initPromise \in Inits /\ op[a].gen <= op[initPromise].gen
        BY <2>2 DEF Lining, Promised
      <3>2. initPromise # None
        BY <3>1, NoneAssumption DEF Inits
      <3> QED
        BY <1>1, <1>2, <1>3, <1>4, <2>2, <3>1, <3>2 DEF made
    <2>3. CASE a = i /\ b \in Inits
      BY <1>1, <1>2, <1>3, <2>3 DEF made
    <2>4. CASE a = i /\ b = i
      BY <1>1, <1>2, <2>4 DEF made
    <2> QED
      BY <1>2, <2>1, <2>2, <2>3, <2>4
  <1>7. \A j \in Closers' : j \in Closers /\ op'[j] = op[j]
    BY <1>1 DEF Closers, made
  <1>8. Applied'
    <2>1. \A j \in Issuers : op'[j].at = "applying" => j # i /\ op'[j] = op[j]
      BY <1>1 DEF made
    <2> QED
      BY <1>1, <1>2, <1>7, <2>1 DEF Lining, Applied
  <1>9. \A j \in Closers' : op'[j].on # i
    BY <1>7 DEF Lining, Promised, Closers, WaitsForInit
  <1>10. CurrentInit(i)'
    BY <1>1 DEF CurrentInit, made
  <1> QED
    BY <1>1, <1>5, <1>6, <1>8, <1>9, <1>10 DEF Lining

(* The first goes on.                                                      *)
LEMMA LiningMoves ==
  ASSUME HistoryTypeOK, Lining, Begun \subseteq Begun', NEW i \in Issuers, Leads(i),
         \A j \in Issuers \ {i} : op'[j] = op[j],
         op'[i].gen = op[i].gen, Initializing(i)', op'[i].at # "afterInit",
         UNCHANGED <<initPromise, historyGeneration>>,
         op'[i].at = "superseded" => op[i].gen < historyGeneration,
         op'[i].at = "applying" => writer' = i /\ \A j \in Closers : op[j].on \in Inits
  PROVE  Lining'
  <1>1. Inits' = Inits /\ i \in Inits
    BY DEF Inits, Leads, Initializing
  <1>2. \A j \in Inits : op'[j].gen = op[j].gen
    BY DEF Inits
  <1>3. \A j \in Inits \ {i} : op'[j] = op[j] /\ op[j].at = "afterInit" /\ op[j].on \in Inits
                               /\ op[i].gen < op[j].gen
    BY LeaderIsFirst DEF Inits, Lining
  <1>4. Promised'
    <2>1. \A j \in Inits' : /\ op'[j].gen <= historyGeneration'
                            /\ op'[j].at = "superseded" => op'[j].gen < historyGeneration'
      BY <1>1, <1>2 DEF Lining, Promised, Inits
    <2>2. \A j \in Issuers : WaitsForInit(j)' => op'[j].on \in Begun'
      BY DEF Lining, Promised, WaitsForInit, Initializing, InitSteps
    <2>3. IF initPromise' = None THEN Inits' = {}
          ELSE initPromise' \in Inits' /\ \A j \in Inits' : op'[j].gen <= op'[initPromise'].gen
      BY <1>1, <1>2 DEF Lining, Promised
    <2> QED
      BY <2>1, <2>2, <2>3 DEF Promised
  <1>5. Ordered'
    <2> SUFFICES ASSUME NEW a \in Inits, NEW b \in Inits
                 PROVE  /\ op[a].gen = op[b].gen => a = b
                        /\ op[a].gen < op[b].gen =>
                             /\ op'[b].at = "afterInit" /\ op'[b].on \in Inits
                             /\ op[a].gen <= op'[op'[b].on].gen
      BY <1>1, <1>2 DEF Ordered
    <2>1. ASSUME op[a].gen < op[b].gen PROVE b # i
      <3>1. op[a].gen \in Nat /\ op[i].gen \in Nat
        BY OpTypes DEF Inits, Leads
      <3> QED
        BY <1>3, <2>1, <3>1
    <2> QED
      BY <1>2, <1>3, <2>1 DEF Lining, Ordered
  <1>6. Applied'
    <2> SUFFICES ASSUME NEW k \in Issuers, op'[k].at = "applying"
                 PROVE  writer' = k /\ \A j \in Closers' : op'[j].on \in Inits'
      BY DEF Applied
    <2>1. k = i
      <3>1. k \in Inits'
        BY DEF Inits, Initializing, InitSteps
      <3> QED
        BY <1>1, <1>3, <3>1
    <2>2. \A j \in Closers' : j \in Closers /\ op'[j] = op[j]
      BY DEF Closers, Initializing, InitSteps
    <2> QED
      BY <1>1, <2>1, <2>2
  <1> QED
    BY <1>4, <1>5, <1>6 DEF Lining

(* The first ends.                                                         *)
LEMMA LiningEnds ==
  ASSUME HistoryTypeOK, Lining, Begun \subseteq Begun', NEW i \in Issuers, Leads(i), EndInit(i),
         UNCHANGED historyGeneration
  PROVE  Lining' /\ Inits' = Inits \ {i} /\ op'[i] = Idle /\ \A j \in Issuers \ {i} : op'[j] = op[j]
  <1>1. op'[i] = Idle /\ \A j \in Issuers \ {i} : op'[j] = op[j]
    BY OpTypes DEF EndInit
  <1>2. Inits' = Inits \ {i} /\ i \in Inits
    BY <1>1 DEF Inits, Leads, Initializing, InitSteps, Idle
  <1>3. \A j \in Inits \ {i} : op'[j] = op[j] /\ op[j].at = "afterInit" /\ op[j].on \in Inits
                               /\ op[i].gen < op[j].gen
    BY <1>1, LeaderIsFirst DEF Inits, Lining
  <1>4. Promised'
    <2>1. \A j \in Inits' : /\ op'[j].gen <= historyGeneration'
                            /\ op'[j].at = "superseded" => op'[j].gen < historyGeneration'
      BY <1>2, <1>3 DEF Lining, Promised
    <2>2. \A j \in Issuers : WaitsForInit(j)' => op'[j].on \in Begun'
      BY <1>1 DEF Lining, Promised, WaitsForInit, Idle
    <2>3. IF initPromise' = None THEN Inits' = {}
          ELSE initPromise' \in Inits' /\ \A j \in Inits' : op'[j].gen <= op'[initPromise'].gen
      <3>1. CASE initPromise = i
        <4>1. \A j \in Inits : op[j].gen <= op[i].gen /\ op[j].gen \in Nat /\ op[i].gen \in Nat
          BY <1>2, <3>1, NoneAssumption, OpTypes DEF Lining, Promised, Inits
        <4>2. Inits \ {i} = {}
          BY <1>3, <4>1
        <4> QED
          BY <1>2, <3>1, <4>2 DEF EndInit
      <3>2. CASE initPromise # i
        BY <1>2, <1>3, <3>2 DEF Lining, Promised, EndInit
      <3> QED
        BY <3>1, <3>2
    <2> QED
      BY <2>1, <2>2, <2>3 DEF Promised
  <1>5. Ordered'
    <2> SUFFICES ASSUME NEW a \in Inits \ {i}, NEW b \in Inits \ {i}, op[a].gen < op[b].gen
                 PROVE  op[b].on \in Inits \ {i} /\ op[a].gen <= op'[op[b].on].gen
      BY <1>2, <1>3 DEF Ordered, Lining
    <2>1. op[b].on \in Inits /\ op[a].gen <= op[op[b].on].gen /\ op[i].gen < op[a].gen
      BY <1>3 DEF Ordered, Lining
    <2>2. op[b].on # i
      <3>1. op[a].gen \in Nat /\ op[i].gen \in Nat
        BY OpTypes DEF Inits
      <3> QED
        BY <2>1, <3>1
    <2> QED
      BY <1>3, <2>1, <2>2
  <1>6. Applied'
    <2>1. \A k \in Issuers : op'[k].at # "applying"
      <3> SUFFICES ASSUME NEW k \in Issuers, op'[k].at = "applying" PROVE FALSE
        OBVIOUS
      <3>1. k \in Inits'
        BY DEF Inits, Initializing, InitSteps
      <3> QED
        BY <1>2, <1>3, <3>1
    <2> QED
      BY <2>1 DEF Applied
  <1> QED
    BY <1>1, <1>2, <1>4, <1>5, <1>6 DEF Lining

-----------------------------------------------------------------------------
(* What closing and removing do to the calls and to the promise.           *)
LEMMA CloseNowDoes ==
  ASSUME HistoryTypeOK, NEW i \in Issuers, NEW remove \in BOOLEAN, CloseNow(i, remove)
  PROVE  /\ UNCHANGED <<initPromise, disk>>
         /\ \A j \in Issuers \ {i} : op'[j] = op[j]
         /\ op'[i].at \in {"closing", "removing", "idle"}
         /\ remove => op'[i].at \in {"closing", "removing"} /\ op'[i].remove
  BY OpTypes DEF CloseNow, Idle

LEMMA AwaitInitDoes ==
  ASSUME HistoryTypeOK, NEW i \in Issuers, NEW at, NEW remove \in BOOLEAN, AwaitInit(i, at, remove)
  PROVE  /\ UNCHANGED <<initPromise, disk, writer>>
         /\ \A j \in Issuers \ {i} : op'[j] = op[j]
         /\ op'[i].at = at /\ op'[i].on = initPromise /\ op'[i].remove = remove
  BY OpTypes DEF AwaitInit

(* Whether an initialisation is there to wait for.                         *)
LEMMA CleanupBegins ==
  ASSUME HistoryTypeOK, NEW i \in Issuers, BeginCleanup(i)
  PROVE  /\ UNCHANGED <<initPromise, disk>>
         /\ \A j \in Issuers \ {i} : op'[j] = op[j]
         /\ initPromise # None => writer' = writer
         /\ op'[i].remove
         /\ IF initPromise = None THEN op'[i].at \in {"closing", "removing"}
            ELSE op'[i].at = "cleanAfterInit" /\ op'[i].on = initPromise
  <1>1. CASE initPromise = None /\ CloseNow(i, TRUE)
    BY <1>1, CloseNowDoes
  <1>2. CASE initPromise # None /\ AwaitInit(i, "cleanAfterInit", TRUE)
    BY <1>2, AwaitInitDoes
  <1> QED
    BY <1>1, <1>2 DEF BeginCleanup

LEMMA CloseWriterDoes ==
  ASSUME HistoryTypeOK, NEW i \in Issuers, NEW remove \in BOOLEAN, CloseWriter(i, remove)
  PROVE  /\ UNCHANGED <<initPromise, disk>>
         /\ \A j \in Issuers \ {i} : op'[j] = op[j]
         /\ initPromise # None => writer' = writer
         /\ IF initPromise = None THEN op'[i].at \in {"closing", "removing", "idle"}
            ELSE op'[i].at = "closeAfterInit" /\ op'[i].on = initPromise
         /\ remove => op'[i].at \in {"closing", "removing", "closeAfterInit"} /\ op'[i].remove
  <1>1. CASE initPromise = None /\ CloseNow(i, remove)
    BY <1>1, CloseNowDoes
  <1>2. CASE initPromise # None /\ AwaitInit(i, "closeAfterInit", remove)
    BY <1>2, AwaitInitDoes
  <1> QED
    BY <1>1, <1>2 DEF CloseWriter

LEMMA CloseBegins ==
  ASSUME HistoryTypeOK, NEW i \in Issuers, BeginClose(i) \/ BeginCleanup(i) \/ CloseAll(i)
  PROVE  /\ UNCHANGED <<initPromise, disk>>
         /\ \A j \in Issuers \ {i} : op'[j] = op[j]
         /\ historyGeneration' \in Nat /\ historyGeneration <= historyGeneration'
         /\ initPromise # None => writer' = writer
         /\ \/ op'[i] = op[i]
            \/ initPromise = None /\ op'[i].at \in {"closing", "removing", "idle"}
            \/ /\ initPromise # None /\ op'[i].on = initPromise
               /\ op'[i].at \in {"cleanAfterInit", "closeAfterInit"}
  <1>1. historyGeneration' \in Nat /\ historyGeneration <= historyGeneration'
    <2>1. historyGeneration' = historyGeneration \/ historyGeneration' = historyGeneration + 1
      BY DEF BeginClose, BeginCleanup, CloseAll
    <2>2. historyGeneration \in Nat
      BY OpTypes
    <2> QED
      BY <2>1, <2>2
  <1>2. CASE BeginClose(i)
    <2>1. CloseWriter(i, FALSE)
      BY <1>2 DEF BeginClose
    <2> QED
      BY <1>1, <2>1, CloseWriterDoes
  <1>3. CASE BeginCleanup(i)
    BY <1>1, <1>3, CleanupBegins
  <1>4. CASE CloseAll(i)
    <2>1. CASE initPromise = None /\ CloseNow(i, FALSE)
      BY <1>1, <2>1, CloseNowDoes
    <2>2. CASE initPromise # None /\ AwaitInit(i, "closeAfterInit", FALSE)
      BY <1>1, <2>2, AwaitInitDoes
    <2>3. CASE UNCHANGED <<initPromise, writer, op, disk>>
      BY <1>1, <2>3
    <2> QED
      BY <1>4, <2>1, <2>2, <2>3 DEF CloseAll
  <1> QED
    BY <1>2, <1>3, <1>4

LEMMA NoneInitializes ==
  ASSUME Lining, initPromise = None
  PROVE  Inits = {} /\ \A j \in Issuers : op[j].at # "applying"
  BY DEF Lining, Promised, Inits, Initializing, InitSteps

LEMMA BegunCalls == Begun \subseteq Issuers
  BY IssuersAssumption DEF Begun

(* Whoever's initialisation is over is not waited for.                     *)
LEMMA WaitIsOver ==
  ASSUME Lining, NEW i \in Issuers, WaitsForInit(i)
  PROVE  op[i].on \in Issuers /\ (op[i].on \in Inits <=> Initializing(op[i].on))
  BY BegunCalls DEF Lining, Promised, Inits

LEMMA CloserSteps ==
  ASSUME NEW i, op'[i].at \in {"closing", "removing", "idle", "cleanAfterInit", "closeAfterInit"} \cup HookSteps
  PROVE  ~Initializing(i)' /\ (op'[i].at \in {"closing", "removing", "idle"} \cup HookSteps => ~WaitsForInit(i)')
  BY DEF Initializing, InitSteps, WaitsForInit, HookSteps

LEMMA LiningCloses ==
  ASSUME HistoryTypeOK, Lining, Inits \subseteq Begun, Begun \subseteq Begun', NEW i \in Issuers, i \notin Inits,
         BeginClose(i) \/ BeginCleanup(i) \/ CloseAll(i)
  PROVE  Lining' /\ Inits' = Inits
  <1>1. /\ initPromise' = initPromise
        /\ \A j \in Issuers \ {i} : op'[j] = op[j]
        /\ historyGeneration' \in Nat /\ historyGeneration <= historyGeneration'
        /\ initPromise # None => writer' = writer
        /\ \/ op'[i] = op[i]
           \/ initPromise = None /\ op'[i].at \in {"closing", "removing", "idle"}
           \/ /\ initPromise # None /\ op'[i].on = initPromise
              /\ op'[i].at \in {"cleanAfterInit", "closeAfterInit"}
    BY CloseBegins
  <1>2. \/ op'[i] = op[i]
        \/ ~Initializing(i)' /\ (WaitsForInit(i)' => op'[i].on = initPromise /\ initPromise # None)
    BY <1>1, CloserSteps
  <1>3. writer' = writer \/ \A j \in Issuers : op[j].at # "applying"
    BY <1>1, NoneInitializes
  <1> QED
    BY <1>1, <1>2, <1>3, LiningSame

(* An operation on its own: a hook, or the end of a close.                 *)
LEMMA LiningOther ==
  ASSUME HistoryTypeOK, Lining, Inits \subseteq Begun, Begun \subseteq Begun', NEW i \in Issuers, i \notin Inits,
         \A j \in Issuers \ {i} : op'[j] = op[j],
         op'[i].at \in {"closing", "removing", "idle"} \cup HookSteps,
         UNCHANGED <<initPromise, historyGeneration, writer>>
  PROVE  Lining' /\ Inits' = Inits
  <1>1. ~Initializing(i)' /\ ~WaitsForInit(i)'
    BY CloserSteps
  <1>2. historyGeneration' \in Nat /\ historyGeneration <= historyGeneration'
    BY OpTypes
  <1> QED
    BY <1>1, <1>2, LiningSame

LEMMA LiningStill ==
  ASSUME HistoryTypeOK, Lining, Inits \subseteq Begun, Begun \subseteq Begun',
         UNCHANGED <<initPromise, historyGeneration, writer, op>>
  PROVE  Lining' /\ Inits' = Inits
  <1>1. historyGeneration' \in Nat /\ historyGeneration <= historyGeneration'
    BY OpTypes
  <1> QED
    BY <1>1, LiningSame

LEMMA LiningTurn ==
  ASSUME HistoryTypeOK, Lining, Inits \subseteq Begun, Begun \subseteq Begun', NEW i \in Issuers, HistoryTurn(i)
  PROVE  Lining'
  <1>1. ASSUME Leads(i), Proceed(i) PROVE Lining'
    <2>1. CASE EndInit(i) /\ UNCHANGED historyGeneration
      BY <1>1, <2>1, LiningEnds
    <2>2. CASE /\ op' = [op EXCEPT ![i].at = "opening", ![i].on = None]
               /\ UNCHANGED <<initPromise, historyGeneration>>
      <3>1. /\ \A j \in Issuers \ {i} : op'[j] = op[j]
            /\ op'[i].gen = op[i].gen /\ op'[i].at = "opening"
        BY <2>2, OpTypes DEF Operations
      <3>2. Initializing(i)'
        BY <3>1 DEF Initializing, InitSteps
      <3> QED
        BY <1>1, <2>2, <3>1, <3>2, LiningMoves
    <2> QED
      BY <1>1, <2>1, <2>2 DEF Proceed
  <1>2. CASE PreviousInitEnds(i)
    <2>1. op[i].at = "afterInit" /\ i \in Inits /\ ~Initializing(op[i].on)
      BY <1>2 DEF PreviousInitEnds, Inits, Initializing, InitSteps
    <2>2. Leads(i)
      BY <2>1, WaitIsOver DEF Leads, WaitsForInit
    <2>3. CASE /\ op' = [op EXCEPT ![i].at = "afterClose", ![i].on = closing]
               /\ UNCHANGED <<initPromise, historyGeneration>>
      <3>1. /\ \A j \in Issuers \ {i} : op'[j] = op[j]
            /\ op'[i].gen = op[i].gen /\ op'[i].at = "afterClose"
        BY <2>3, OpTypes DEF Operations
      <3>2. Initializing(i)'
        BY <3>1 DEF Initializing, InitSteps
      <3> QED
        BY <2>2, <2>3, <3>1, <3>2, LiningMoves
    <2> QED
      BY <1>1, <1>2, <2>2, <2>3 DEF PreviousInitEnds
  <1>3. CASE PreviousCloseEnds(i)
    <2>1. Leads(i)
      BY <1>3 DEF PreviousCloseEnds, Leads, Inits, Initializing, InitSteps
    <2> QED
      BY <1>1, <1>3, <2>1 DEF PreviousCloseEnds
  <1>4. CASE AwaitedInitEnds(i)
    <2>1. /\ i \in Closers /\ i \notin Inits /\ op[i].on \notin Inits
          /\ UNCHANGED historyGeneration /\ op[i].remove \in BOOLEAN
      BY <1>4, WaitIsOver, OpTypes
      DEF AwaitedInitEnds, Closers, WaitsForInit, Inits, Initializing, InitSteps, Operations
    <2>2. \A j \in Issuers : op[j].at # "applying"
      BY <2>1 DEF Lining, Applied
    <2>3. historyGeneration' \in Nat /\ historyGeneration <= historyGeneration'
      BY <2>1, OpTypes
    <2>4. CASE CloseNow(i, op[i].remove) \/ CloseNow(i, TRUE)
      <3>1. /\ initPromise' = initPromise /\ \A j \in Issuers \ {i} : op'[j] = op[j]
            /\ op'[i].at \in {"closing", "removing", "idle"}
        BY <2>1, <2>4, CloseNowDoes
      <3>2. ~Initializing(i)' /\ ~WaitsForInit(i)'
        BY <3>1, CloserSteps
      <3> QED
        BY <2>1, <2>2, <2>3, <3>1, <3>2, LiningSame
    <2>5. CASE initPromise # None /\ AwaitInit(i, "closeAfterInit", TRUE)
      <3>1. /\ initPromise' = initPromise /\ \A j \in Issuers \ {i} : op'[j] = op[j]
            /\ op'[i].at = "closeAfterInit" /\ op'[i].on = initPromise
        BY <2>5, AwaitInitDoes
      <3>2. ~Initializing(i)'
        BY <3>1, CloserSteps
      <3> QED
        BY <2>1, <2>2, <2>3, <2>5, <3>1, <3>2, LiningSame
    <2> QED
      BY <1>4, <2>4, <2>5 DEF AwaitedInitEnds, CloseWriter
  <1>5. CASE AwaitedCloseEnds(i)
    <2>1. /\ i \notin Inits /\ \A j \in Issuers \ {i} : op'[j] = op[j]
          /\ op'[i].at \in {"removing", "idle"}
          /\ UNCHANGED <<initPromise, historyGeneration, writer>>
      BY <1>5, OpTypes DEF AwaitedCloseEnds, Inits, Initializing, InitSteps, Idle, Operations
    <2> QED
      BY <2>1, LiningOther
  <1> QED
    BY <1>2, <1>3, <1>4, <1>5 DEF HistoryTurn

LEMMA StepLeads ==
  ASSUME NEW i \in Issuers, op[i].at \in InitSteps \ {"afterInit"}
  PROVE  Leads(i)
  BY DEF Leads, Inits, Initializing

LEMMA LiningIO ==
  ASSUME HistoryTypeOK, Lining, Inits \subseteq Begun, Begun \subseteq Begun', NEW i \in Issuers,
         (HistoryIO(i) /\ \A j \in Issuers : ~HistoryDue(j)) \/ InitFails(i) \/ RemoveFails(i)
  PROVE  Lining'
  <1>1. CASE op[i].at \in InitSteps \ {"afterInit"} /\ EndInit(i) /\ UNCHANGED historyGeneration
    BY <1>1, StepLeads, LiningEnds
  <1>2. CASE Opened(i) /\ (\A j \in Issuers : ~HistoryDue(j)) /\ ~EndInit(i)
    <2>1. Leads(i) /\ i \in Inits
      BY <1>2, StepLeads DEF Opened, InitSteps, Leads
    <2>2. UNCHANGED <<initPromise, historyGeneration>>
      BY <1>2 DEF Opened
    <2>3. op[i].gen <= historyGeneration /\ op[i].gen \in Nat /\ historyGeneration \in Nat
      BY <2>1, OpTypes DEF Lining, Promised
    <2>4. \A j \in Closers : op[j].on \in Inits
      <3> SUFFICES ASSUME NEW j \in Closers PROVE op[j].on \in Inits
        OBVIOUS
      <3>1. j \in Issuers /\ WaitsForInit(j)
        BY DEF Closers, WaitsForInit
      <3>2. Initializing(op[j].on)
        BY <1>2, <3>1 DEF HistoryDue, Closers
      <3> QED
        BY <3>1, <3>2, WaitIsOver
    <2>5. /\ \A j \in Issuers \ {i} : op'[j] = op[j]
          /\ op'[i].gen = op[i].gen
          /\ \/ op'[i].at = "superseded" /\ ~CurrentInit(i)
             \/ op'[i].at = "applying" /\ writer' = i
      BY <1>2, OpTypes DEF Opened, Operations
    <2>6. Initializing(i)'
      BY <2>5 DEF Initializing, InitSteps
    <2>7. op'[i].at = "superseded" => op[i].gen < historyGeneration
      BY <2>3, <2>5 DEF CurrentInit
    <2> QED
      BY <2>1, <2>2, <2>4, <2>5, <2>6, <2>7, LiningMoves
  <1>3. CASE Remove(i) \/ RemoveFails(i) \/ HookWritten(i)
    <2>1. /\ i \notin Inits /\ UNCHANGED <<initPromise, historyGeneration, writer>>
      BY <1>3 DEF Remove, RemoveFails, HookWritten, Inits, Initializing, InitSteps
    <2>2. /\ \A j \in Issuers \ {i} : op'[j] = op[j]
          /\ op'[i].at \in {"idle"} \cup HookSteps
      <3>1. CASE Remove(i) \/ RemoveFails(i)
        BY <3>1, OpTypes DEF Remove, RemoveFails, Idle
      <3>2. CASE HookWritten(i)
        BY <3>2, OpTypes DEF HookWritten, HookSteps, Operations
      <3> QED
        BY <1>3, <3>1, <3>2
    <2> QED
      BY <2>1, <2>2, LiningOther
  <1> QED
    BY <1>1, <1>2, <1>3
    DEF HistoryIO, Opened, InitFails, HookApplied, SupersededCloses, InitSteps

LEMMA LiningHook ==
  ASSUME HistoryTypeOK, Lining, Inits \subseteq Begun, Begun \subseteq Begun', NEW i \in Issuers, i \notin Inits,
         \/ BeginHook(i)
         \/ op' = [op EXCEPT ![i] = Idle] /\ UNCHANGED <<initPromise, historyGeneration, writer>>
  PROVE  Lining' /\ Inits' = Inits
  <1>1. /\ \A j \in Issuers \ {i} : op'[j] = op[j]
        /\ op'[i].at \in {"idle"} \cup HookSteps
        /\ UNCHANGED <<initPromise, historyGeneration, writer>>
    BY OpTypes DEF BeginHook, Idle, HookSteps, Operations
  <1> QED
    BY <1>1, LiningOther

-----------------------------------------------------------------------------
(* Which calls work on the history, and where they are then.               *)
FitsAt(i) ==
    /\ Busy(i) =>
        /\ Initializing(i) => (i \in Creates /\ step[i] = "writing") \/ (i \in Clears /\ step[i] = "reopening")
        /\ op[i].at = "cleanAfterInit" => i \in Creates \cup Kills
        /\ i \in Creates => /\ Recording(i) /\ step[i] \in {"purging", "writing", "dropping"}
                            /\ step[i] = "writing" => Initializing(i)
        /\ i \in Kills => Recording(i) /\ (step[i] = "cleaning" \/ (step[i] = "killing" /\ i \notin deletes))
        /\ i \in Clears => step[i] \in {"clearing", "reopening"}
        /\ i \in Hooks => step[i] = "hooking" /\ op[i].at \in HookSteps
    /\ i \in Kills /\ step[i] = "hooks" => Recording(i) /\ i \in deletes

Fits == \A i \in Issuers : FitsAt(i)

(* One hook is stored after the other. *)
HooksInOrder ==
    /\ \A h \in Hooks : step[h] # "unused" => Recording(h)
    /\ \A g, h \in Hooks : Recording(g) /\ Recording(h) /\ g < h /\ step[g] = "unused" => step[h] = "unused"
    /\ \A g, h \in Hooks : step[g] \in {"hooking", "saving"} /\ h \in Hooking => g <= h

(* A deleted history is removed, or a removal is to come or under way that *)
(* no initialisation and no hook comes after.                              *)
Deleted == Recorded \in deletedHistory \ spared
Saving == {h \in Hooks : step[h] = "saving"}
ToErase(k) ==
    /\ k \in deletes \cap Placed /\ Recording(k)
    /\ \/ step[k] = "killing"
       \/ /\ step[k] = "hooks" /\ on[k] \in Hooks
          /\ Saving # {} => on[k] \in Hooking /\ \A g \in Saving : g <= on[k]
Erasing(i) ==
    \/ op[i].at \in {"cleanAfterInit", "closeAfterInit"} /\ op[i].remove /\ initPromise \in {None, op[i].on}
    \/ op[i].at = "removing" /\ initPromise = None
    \/ op[i].at = "closing" /\ op[i].remove /\ initPromise = None
Gone == disk = "none" /\ initPromise = None

Wiped ==
    Deleted =>
        /\ ~sessions[Recorded].alive
        /\ \/ \E k \in Kills : ToErase(k)
           \/ Saving = {} /\ (Gone \/ \E i \in Issuers : Erasing(i))

(* A session that is alive has a writer, or one is to come.                *)
Wanted == sessions[Recorded].alive /\ Recorded \notin overrun \cup disturbed
Renews(c) == Recording(c) /\ step[c] \in {"purging", "requested"}
Reopens(x) == Recording(x) /\ step[x] = "clearing" /\ on[x] = sessions[Recorded].by
Promising == initPromise # None /\ CurrentInit(initPromise) /\ \A i \in Closers : op[i].on # initPromise
BeingRecorded == initPromise = None /\ writer # None /\ Closers = {}

Served ==
    Wanted => \/ \E c \in Creates : Renews(c)
              \/ \E x \in Clears : Reopens(x)
              \/ Promising
              \/ BeingRecorded

TakesDown(k) == Recording(k) /\ step[k] \in {"killing", "hooks", "cleaning"}
NotEnding == Wanted => \A k \in Kills : ~TakesDown(k)

Settling == HistoryTypeOK /\ Lining /\ Fits /\ HooksInOrder /\ Wiped /\ Served /\ NotEnding

-----------------------------------------------------------------------------
(* A step of one call. *)
Alone(i) ==
    /\ i \in Issuers \ Hooks /\ pane' = pane
    /\ \A j \in Issuers \ {i} :
          /\ on'[j] = on[j]
          /\ step'[j] = step[j] \/ (step[j] = "queued" /\ step'[j] \in {"granted", "failed"})
    /\ \A k \in Kills : k \in deletes' <=> k \in deletes
    /\ overrun \subseteq overrun' /\ disturbed \subseteq disturbed'
    /\ i \in Begun => i \in Begun'

LEMMA Callers ==
  /\ Creates \subseteq Issuers /\ Kills \subseteq Issuers /\ Clears \subseteq Issuers
  /\ Hooks \subseteq Issuers /\ Exits \subseteq Issuers /\ Restarter \in Issuers
  BY IssuersAssumption

LEMMA CallersDiffer ==
  /\ \A c \in Creates : c \notin Kills /\ c \notin Clears /\ c \notin Hooks /\ c \notin Exits /\ c # Restarter
  /\ \A k \in Kills : k \notin Creates /\ k \notin Clears /\ k \notin Hooks /\ k \notin Exits /\ k # Restarter
  /\ \A x \in Clears : x \notin Creates /\ x \notin Kills /\ x \notin Hooks /\ x \notin Exits /\ x # Restarter
  /\ \A h \in Hooks : h \notin Creates /\ h \notin Kills /\ h \notin Clears /\ h \notin Exits /\ h # Restarter
  /\ \A e \in Exits : e \notin Creates /\ e \notin Kills /\ e \notin Clears /\ e \notin Hooks /\ e # Restarter
  BY CallersAssumption

LEMMA OtherCalls ==
  ASSUME Held, NEW i, Alone(i)
  PROVE  /\ \A j \in Issuers \ {i} : j \notin Creates => step'[j] = step[j]
         /\ \A c \in Creates \ {i} : step[c] # "queued" => step'[c] = step[c]
         /\ \A j \in Issuers \ {i} : step[j] # "queued" => step'[j] = step[j]
         /\ \A h \in Hooks : step'[h] = step[h]
         /\ Begun \subseteq Begun'
  <1>1. \A j \in Issuers \ {i} : j \notin Creates => step'[j] = step[j]
    BY DEF Alone, Held, CreateSteps
  <1>2. \A j \in Issuers \ {i} : step[j] # "queued" => step'[j] = step[j]
    BY DEF Alone
  <1>3. \A h \in Hooks : step'[h] = step[h]
    BY <1>1, Callers, CallersDiffer DEF Alone
  <1>4. ASSUME NEW j \in Begun PROVE j \in Begun'
    <2>1. CASE j = i
      BY <2>1 DEF Alone
    <2>2. CASE j # i
      <3>1. step[j] # "queued" /\ j \in Issuers
        BY BegunCalls DEF Begun, Ends, CreateEnds
      <3>2. step'[j] = step[j]
        BY <1>2, <2>2, <3>1
      <3> QED
        BY <3>2 DEF Begun
    <2> QED
      BY <2>1, <2>2
  <1> QED
    BY <1>1, <1>2, <1>3, <1>4, Callers

LEMMA FitsKept ==
  ASSUME Held, Fits, NEW i, Alone(i), \A j \in Issuers \ {i} : op'[j] = op[j], FitsAt(i)'
  PROVE  Fits'
  <1> SUFFICES ASSUME NEW j \in Issuers PROVE FitsAt(j)'
    BY DEF Fits
  <1>1. CASE j = i
    BY <1>1
  <1>2. CASE j # i /\ ~Busy(j)
    <2>1. j \in Kills => step'[j] = step[j] /\ (j \in deletes' <=> j \in deletes) /\ pane' = pane
      BY <1>2, OtherCalls, CallersDiffer DEF Alone
    <2>2. FitsAt(j) /\ ~Busy(j)'
      BY <1>2 DEF Fits, Busy
    <2> QED
      BY <2>1, <2>2 DEF FitsAt, Recording
  <1>3. CASE j # i /\ Busy(j)
    <2>1. step[j] # "queued"
      <3> SUFFICES ASSUME step[j] = "queued" PROVE FALSE
        OBVIOUS
      <3>1. j \in Creates
        BY DEF Held, CreateSteps
      <3> QED
        BY <1>3, <3>1 DEF Fits, FitsAt
    <2>2. step'[j] = step[j] /\ op'[j] = op[j] /\ pane' = pane /\ (j \in Kills => (j \in deletes' <=> j \in deletes))
      BY <1>3, <2>1, OtherCalls DEF Alone
    <2>3. FitsAt(j)
      BY DEF Fits
    <2> QED
      BY <2>2, <2>3 DEF FitsAt, Busy, Initializing, Recording
  <1> QED
    BY <1>1, <1>2, <1>3

LEMMA HooksKept ==
  ASSUME HooksInOrder, pane' = pane, \A h \in Hooks : step'[h] = step[h]
  PROVE  HooksInOrder' /\ Saving' = Saving /\ Hooking' = Hooking
  <1>1. Saving' = Saving /\ Hooking' = Hooking
    BY DEF Saving, Hooking
  <1> QED
    BY <1>1 DEF HooksInOrder, Recording

LEMMA InitsBegun ==
  ASSUME Fits
  PROVE  Inits \subseteq Begun
  BY DEF Inits, Initializing, InitSteps, Fits, FitsAt, Busy, Begun

(* What the others do. *)
LEMMA OthersAlone ==
  ASSUME Held, NEW i, Alone(i)
  PROVE  /\ \A k \in Kills \ {i} : ToErase(k) /\ Hooking' = Hooking /\ Saving' = Saving => ToErase(k)'
         /\ \A c \in Creates \ {i} : Renews(c) => Renews(c)'
         /\ sessions'[Recorded].by = sessions[Recorded].by => \A x \in Clears \ {i} : Reopens(x) => Reopens(x)'
         /\ \A k \in Kills \ {i} : TakesDown(k)' <=> TakesDown(k)
  <1>1. \A k \in Kills \ {i} : step'[k] = step[k] /\ on'[k] = on[k] /\ (k \in deletes' <=> k \in deletes)
    BY OtherCalls, Callers, CallersDiffer DEF Alone
  <1>2. \A c \in Creates \ {i} : step[c] # "queued" => step'[c] = step[c]
    BY OtherCalls
  <1>3. \A x \in Clears \ {i} : step'[x] = step[x] /\ on'[x] = on[x]
    BY OtherCalls, Callers, CallersDiffer DEF Alone
  <1>4. pane' = pane
    BY DEF Alone
  <1>5. \A k \in Kills \ {i} : ToErase(k) /\ Hooking' = Hooking /\ Saving' = Saving => ToErase(k)'
    BY <1>1, <1>4 DEF ToErase, Recording
  <1>6. \A c \in Creates \ {i} : Renews(c) => Renews(c)'
    BY <1>2, <1>4 DEF Renews, Recording
  <1>7. sessions'[Recorded].by = sessions[Recorded].by => \A x \in Clears \ {i} : Reopens(x) => Reopens(x)'
    BY <1>3, <1>4 DEF Reopens, Recording
  <1>8. \A k \in Kills \ {i} : TakesDown(k)' <=> TakesDown(k)
    BY <1>1, <1>4 DEF TakesDown, Recording
  <1> QED
    BY <1>5, <1>6, <1>7, <1>8

-----------------------------------------------------------------------------
(* Steps that leave the history alone.                                     *)
Aloof(i) ==
    /\ Alone(i)
    /\ UNCHANGED <<historyGeneration, initPromise, initializing, pendingHook, writer, closing, op>>
    /\ disk' \in {disk, "none"}
    /\ FitsAt(i)'
    /\ i \in Creates /\ Renews(i) => Renews(i)' \/ ~Wanted'
    /\ i \in Clears /\ Reopens(i) => Reopens(i)' \/ ~Wanted'
    /\ i \in Kills /\ ToErase(i) /\ Deleted' /\ Hooking' = Hooking /\ Saving' = Saving => ToErase(i)'
    /\ i \in Kills /\ TakesDown(i)' => TakesDown(i) \/ ~Wanted'
    /\ Deleted' => Deleted \/ (i \in Kills /\ ToErase(i)' /\ ~sessions'[Recorded].alive)
    /\ sessions'[Recorded].alive => sessions[Recorded].alive /\ sessions'[Recorded].by = sessions[Recorded].by

LEMMA AloofSettles ==
  ASSUME Held, Settling, NEW i, Aloof(i)
  PROVE  Settling'
  <1>1. /\ Alone(i) /\ i \in Issuers /\ pane' = pane
        /\ UNCHANGED <<historyGeneration, initPromise, initializing, pendingHook, writer, closing, op>>
        /\ disk' \in {disk, "none"}
    BY DEF Aloof, Alone
  <1>2. Fits'
    BY <1>1, FitsKept DEF Settling, Aloof
  <1>3. HistoryTypeOK' /\ Lining'
    <2>1. HistoryTypeOK'
      BY <1>1 DEF Settling, HistoryTypeOK, States
    <2> QED
      BY <1>1, <2>1, OtherCalls, InitsBegun, LiningStill DEF Settling
  <1>4. HooksInOrder' /\ Saving' = Saving /\ Hooking' = Hooking
    BY <1>1, OtherCalls, HooksKept DEF Settling
  <1>5. ASSUME Wanted' PROVE Wanted /\ sessions'[Recorded].by = sessions[Recorded].by
    BY <1>5 DEF Wanted, Aloof, Alone
  <1>6. Wiped'
    <2> SUFFICES ASSUME Deleted'
                 PROVE  /\ ~sessions'[Recorded].alive
                        /\ \/ \E k \in Kills : ToErase(k)'
                           \/ Saving' = {} /\ (Gone' \/ \E j \in Issuers : Erasing(j)')
      BY DEF Wiped
    <2>1. CASE i \in Kills /\ ToErase(i)' /\ ~sessions'[Recorded].alive
      BY <2>1
    <2>2. CASE Deleted
      <3>1. ~sessions'[Recorded].alive
        BY <2>2 DEF Settling, Wiped, Aloof
      <3>2. \A k \in Kills : ToErase(k) => ToErase(k)'
        BY <1>1, <1>4, OthersAlone DEF Aloof
      <3>3. (Gone => Gone') /\ \A j \in Issuers : Erasing(j)' <=> Erasing(j)
        BY <1>1 DEF Gone, Erasing
      <3> QED
        BY <1>4, <2>2, <3>1, <3>2, <3>3 DEF Settling, Wiped
    <2> QED
      BY <2>1, <2>2 DEF Aloof
  <1>7. Served'
    <2> SUFFICES ASSUME Wanted'
                 PROVE  \/ \E c \in Creates : Renews(c)'
                        \/ \E x \in Clears : Reopens(x)'
                        \/ Promising'
                        \/ BeingRecorded'
      BY DEF Served
    <2>1. \A c \in Creates : Renews(c) => Renews(c)'
      BY <1>1, OthersAlone DEF Aloof
    <2>2. \A x \in Clears : Reopens(x) => Reopens(x)'
      BY <1>1, <1>5, OthersAlone DEF Aloof
    <2>3. Closers' = Closers
      BY <1>1 DEF Closers
    <2>4. (Promising' <=> Promising) /\ (BeingRecorded' <=> BeingRecorded)
      BY <1>1, <2>3 DEF Promising, BeingRecorded, CurrentInit
    <2> QED
      BY <1>5, <2>1, <2>2, <2>4 DEF Settling, Served
  <1>8. NotEnding'
    <2>1. \A k \in Kills : TakesDown(k)' => TakesDown(k) \/ ~Wanted'
      BY <1>1, OthersAlone DEF Aloof
    <2> QED
      BY <1>5, <2>1 DEF Settling, NotEnding
  <1> QED
    BY <1>2, <1>3, <1>4, <1>6, <1>7, <1>8 DEF Settling

(* Steps that begin to close or to remove it.                              *)
Closes(i) ==
    /\ Alone(i) /\ ~Busy(i)
    /\ BeginClose(i) \/ BeginCleanup(i) \/ CloseAll(i)
    /\ FitsAt(i)'
    /\ Wanted' => (i \in Creates /\ Renews(i)') \/ (i \in Clears /\ Reopens(i)')
    /\ i \in Kills /\ ToErase(i) /\ Deleted' => BeginCleanup(i) /\ Saving = {}
    /\ Deleted' => Deleted
    /\ i \in Kills /\ TakesDown(i)' => TakesDown(i) \/ ~Wanted'
    /\ sessions'[Recorded].alive => sessions[Recorded].alive

LEMMA ClosesSettles ==
  ASSUME Held, Settling, NEW i, Closes(i)
  PROVE  Settling'
  <1>1. /\ Alone(i) /\ i \in Issuers /\ pane' = pane /\ op[i].at = "idle" /\ i \notin Inits
        /\ BeginClose(i) \/ BeginCleanup(i) \/ CloseAll(i)
    BY DEF Closes, Alone, Busy, Inits, Initializing, InitSteps
  <1>2. /\ UNCHANGED <<initPromise, disk>>
        /\ \A j \in Issuers \ {i} : op'[j] = op[j]
    BY <1>1, CloseBegins DEF Settling
  <1>3. Fits'
    BY <1>1, <1>2, FitsKept DEF Settling, Closes
  <1>4. HistoryTypeOK' /\ Lining'
    BY <1>1, OtherCalls, InitsBegun, LiningCloses, BeginTypes DEF Settling
  <1>5. HooksInOrder' /\ Saving' = Saving /\ Hooking' = Hooking
    BY <1>1, OtherCalls, HooksKept DEF Settling
  <1>6. Wiped'
    <2> SUFFICES ASSUME Deleted'
                 PROVE  /\ ~sessions'[Recorded].alive
                        /\ \/ \E k \in Kills : ToErase(k)'
                           \/ Saving' = {} /\ (Gone' \/ \E j \in Issuers : Erasing(j)')
      BY DEF Wiped
    <2>1. Deleted /\ ~sessions'[Recorded].alive
      BY DEF Closes, Settling, Wiped
    <2>2. \A k \in Kills \ {i} : ToErase(k) => ToErase(k)'
      BY <1>1, <1>5, OthersAlone
    <2>3. i \in Kills /\ ToErase(i) => Saving' = {} /\ Erasing(i)'
      BY <1>1, <1>2, <1>5, CleanupBegins DEF Closes, Erasing, Settling
    <2>4. Gone' = Gone
      BY <1>2 DEF Gone
    <2>5. \A j \in Issuers : Erasing(j) => Erasing(j)'
      BY <1>1, <1>2 DEF Erasing
    <2> QED
      BY <1>1, <1>5, <2>1, <2>2, <2>3, <2>4, <2>5 DEF Settling, Wiped
  <1>7. Served'
    BY DEF Closes, Served
  <1>8. NotEnding'
    <2>1. \A k \in Kills : TakesDown(k)' => TakesDown(k) \/ ~Wanted'
      BY <1>1, OthersAlone DEF Closes
    <2>2. Wanted' => Wanted
      BY DEF Wanted, Closes, Alone
    <2> QED
      BY <2>1, <2>2 DEF Settling, NotEnding
  <1> QED
    BY <1>3, <1>4, <1>5, <1>6, <1>7, <1>8 DEF Settling

(* Steps that begin an initialisation.                                     *)
BeginsInit(i) ==
    /\ Alone(i) /\ BeginInit(i) /\ i \notin Begun /\ i \in Begun'
    /\ FitsAt(i)'
    /\ ~Deleted'
    /\ Wanted' => \A k \in Kills : ~TakesDown(k)'

LEMMA OpensSettles ==
  ASSUME Held, Settling, NEW i, BeginsInit(i)
  PROVE  Settling'
  <1>1. Alone(i) /\ i \in Issuers /\ pane' = pane /\ BeginInit(i) /\ i \notin Begun /\ i \in Begun'
    BY DEF BeginsInit, Alone
  <1>2. \A j \in Issuers \ {i} : op'[j] = op[j]
    BY <1>1, OpTypes DEF BeginInit, Settling
  <1>3. Fits'
    BY <1>1, <1>2, FitsKept DEF Settling, BeginsInit
  <1>4. /\ HistoryTypeOK' /\ Lining' /\ initPromise' = i /\ CurrentInit(i)'
        /\ \A j \in Closers' : op'[j].on # i
    BY <1>1, OtherCalls, InitsBegun, LiningBegins, BeginTypes DEF Settling
  <1>5. HooksInOrder'
    BY <1>1, OtherCalls, HooksKept DEF Settling
  <1>6. Promising'
    BY <1>1, <1>4, NoneAssumption DEF Promising, CurrentInit
  <1> QED
    BY <1>3, <1>4, <1>5, <1>6 DEF Settling, Wiped, Served, NotEnding, BeginsInit

-----------------------------------------------------------------------------
(* Hooks.                                                                  *)
HookMoves(h) ==
    \/ step[h] = "unused" /\ step'[h] = "called" /\ NextOf(h, Hooks) /\ Recording(h) /\ UNCHANGED <<op, disk>>
    \/ /\ step[h] = "called" /\ step'[h] = "done" /\ UNCHANGED <<op, disk>>
       /\ \A g \in Hooking : h <= g
    \/ /\ step[h] = "called" /\ step'[h] = "hooking" /\ BeginHook(h)
       /\ Recorded \notin deletedHistory /\ \A g \in Hooking : h <= g
    \/ /\ step[h] = "hooking" /\ op' = [op EXCEPT ![h] = Idle] /\ disk' = disk
       /\ step'[h] = "done" \/ (step'[h] = "saving" /\ Recorded \notin deletedHistory)
    \/ step[h] = "saving" /\ step'[h] = "done" /\ op' = op

HookCall(h) ==
    /\ step' = [step EXCEPT ![h] = step'[h]]
    /\ UNCHANGED <<on, pane, deletes, deletedHistory, spared, sessions, overrun, disturbed>>
    /\ UNCHANGED <<initPromise, historyGeneration, writer>>
    /\ HookMoves(h)

LEMMA HookCalls ==
  ASSUME Shape, NEW h \in Hooks, Hook(h) \/ HookStep(h) \/ HookSaved(h)
  PROVE  HookCall(h)
  <1> USE DEF managerVars, callVars, paramVars, faultVars, historyVars
  <1>1. h \in Issuers
    BY Callers
  <1>2. /\ UNCHANGED <<on, pane, deletes, deletedHistory, spared, sessions, overrun, disturbed>>
        /\ UNCHANGED <<initPromise, historyGeneration, writer>>
    BY DEF Hook, HookStep, HookSaved, BeginHook
  <1>3. CASE Hook(h)
    BY <1>1, <1>2, <1>3 DEF Hook, Go, HookCall, HookMoves, NextOf, Unused, Shape
  <1>4. CASE HookSaved(h)
    BY <1>1, <1>2, <1>4 DEF HookSaved, Go, HookCall, HookMoves, Shape
  <1>5. CASE HookStep(h)
    <2>1. CASE /\ step[h] = "called" /\ \A g \in Hooking : h <= g
               /\ Recorded \in deletedHistory /\ Go(h, "done") /\ UNCHANGED historyVars
      BY <1>1, <1>2, <2>1 DEF Go, HookCall, HookMoves, Shape
    <2>2. CASE /\ step[h] = "called" /\ \A g \in Hooking : h <= g
               /\ Recorded \notin deletedHistory /\ Go(h, "hooking") /\ BeginHook(h)
      BY <1>1, <1>2, <2>2 DEF Go, HookCall, HookMoves, Shape
    <2>3. CASE /\ step[h] = "hooking" /\ op' = [op EXCEPT ![h] = Idle] /\ disk' = disk
               /\ Go(h, "done") \/ (Go(h, "saving") /\ Recorded \notin deletedHistory)
      BY <1>1, <1>2, <2>3 DEF Go, HookCall, HookMoves, Shape
    <2> QED
      BY <1>5, <2>1, <2>2, <2>3 DEF HookStep
  <1> QED
    BY <1>3, <1>4, <1>5

LEMMA HookCallFacts ==
  ASSUME Shape, HistoryTypeOK, NEW h \in Hooks, HookCall(h)
  PROVE  /\ \A j \in Issuers \ {h} : step'[j] = step[j] /\ op'[j] = op[j]
         /\ Begun' = Begun
         /\ step'[h] \in {"called", "hooking", "done", "saving"}
         /\ step[h] = "unused" \/ step[h] \in {"hooking", "saving"} \/ \A g \in Hooking : h <= g
  <1>1. \A j \in Issuers \ {h} : step'[j] = step[j]
    BY DEF HookCall, Shape
  <1>2. \A j \in Issuers \ {h} : op'[j] = op[j]
    BY OpTypes DEF HookCall, HookMoves, BeginHook
  <1>3. Begun' = Begun
    BY <1>1, Callers, CallersDiffer DEF Begun
  <1>4. step'[h] \in {"called", "hooking", "done", "saving"}
    BY DEF HookCall, HookMoves
  <1>5. step[h] = "unused" \/ step[h] \in {"hooking", "saving"} \/ \A g \in Hooking : h <= g
    BY Zenon DEF HookCall, HookMoves
  <1> QED
    BY <1>1, <1>2, <1>3, <1>4, <1>5

LEMMA HookOrder ==
  ASSUME Shape, HistoryTypeOK, HooksInOrder, NEW h \in Hooks, HookCall(h)
  PROVE  HooksInOrder'
  <1>1. /\ \A g \in Hooks \ {h} : step'[g] = step[g]
        /\ pane' = pane /\ h \in Issuers /\ HookMoves(h)
        /\ step'[h] \in {"called", "hooking", "done", "saving"}
    BY HookCallFacts, Callers DEF HookCall
  <1>2. \A g \in Hooks : g \in Nat
    BY Callers, IssuersAssumption
  <1>3. Recording(h)
    BY <1>1 DEF HookMoves, HooksInOrder
  <1>4. step[h] = "unused" => \A g \in Hooks : g < h /\ Recording(g) => step[g] # "unused"
    BY <1>1, <1>3 DEF HookMoves, NextOf, Unused, Recording
  <1>5. \A g \in Hooks : step'[g] # "unused" => Recording(g)'
    BY <1>1, <1>3 DEF HooksInOrder, Recording
  <1>6. ASSUME NEW g \in Hooks, NEW f \in Hooks, Recording(g)', Recording(f)', g < f, step'[g] = "unused"
        PROVE  step'[f] = "unused"
    <2>1. g # h /\ step[g] = "unused" /\ Recording(g) /\ Recording(f)
      BY <1>1, <1>6 DEF Recording
    <2>2. step[f] = "unused"
      BY <1>6, <2>1 DEF HooksInOrder
    <2>3. f # h
      BY <1>4, <1>6, <2>1, <2>2
    <2> QED
      BY <1>1, <2>2, <2>3
  <1>7. ASSUME NEW g \in Hooks, NEW f \in Hooking', step'[g] \in {"hooking", "saving"}
        PROVE  g <= f
    <2>1. f \in Hooks /\ step'[f] \in {"called", "hooking", "saving"}
      BY <1>7 DEF Hooking
    <2>2. CASE g = f
      BY <1>2, <2>1, <2>2
    <2>3. CASE g = h /\ f # h
      <3>1. f \in Hooking
        BY <1>1, <2>1, <2>3 DEF Hooking
      <3>2. step[h] # "unused"
        BY <1>1, <1>7, <2>3 DEF HookMoves
      <3>3. CASE step[h] \in {"hooking", "saving"}
        BY <2>1, <2>3, <3>1, <3>3 DEF HooksInOrder
      <3>4. CASE \A e \in Hooking : h <= e
        BY <2>3, <3>1, <3>4
      <3> QED
        BY <3>2, <3>3, <3>4, HookCallFacts
    <2>4. CASE g # h /\ f # h
      BY <1>1, <1>7, <2>1, <2>4 DEF HooksInOrder, Hooking
    <2>5. CASE g # h /\ f = h
      <3>1. step[g] \in {"hooking", "saving"} /\ Recording(g)
        BY <1>1, <1>7, <2>5 DEF HooksInOrder
      <3>2. CASE h \in Hooking
        BY <2>5, <3>1, <3>2 DEF HooksInOrder
      <3>3. CASE h \notin Hooking
        <4>1. step[h] = "unused"
          BY <1>1, <3>3 DEF HookMoves, Hooking
        <4>2. ~(h < g)
          BY <1>3, <3>1, <4>1 DEF HooksInOrder
        <4> QED
          BY <1>2, <2>5, <4>2
      <3> QED
        BY <3>2, <3>3
    <2> QED
      BY <2>2, <2>3, <2>4, <2>5
  <1> QED
    BY <1>5, <1>6, <1>7 DEF HooksInOrder

LEMMA HookWipes ==
  ASSUME Shape, Settling, NEW h \in Hooks, HookCall(h)
  PROVE  Wiped'
  <1>1. /\ \A j \in Issuers \ {h} : step'[j] = step[j] /\ op'[j] = op[j]
        /\ UNCHANGED <<on, pane, deletes, deletedHistory, spared, sessions, initPromise>>
        /\ h \in Issuers /\ HookMoves(h)
    BY HookCallFacts, Callers DEF HookCall, Settling
  <1> SUFFICES ASSUME Deleted
               PROVE  \/ \E k \in Kills : ToErase(k)'
                      \/ Saving' = {} /\ (Gone' \/ \E j \in Issuers : Erasing(j)')
    BY <1>1 DEF Settling, Wiped, Deleted
  <1>2. /\ step'[h] \in {"called", "done"} /\ Saving' \subseteq Saving /\ h \notin Saving'
        /\ \A g \in Hooks \ {h} : g \in Hooking => g \in Hooking'
    BY <1>1, Callers DEF HookMoves, Deleted, Saving, Hooking
  <1>3. ASSUME NEW k \in Kills, ToErase(k) PROVE ToErase(k)'
    <2>1. step'[k] = step[k] /\ on'[k] = on[k] /\ k \in deletes' \cap Placed /\ Recording(k)'
      BY <1>1, <1>3, Callers, CallersDiffer DEF ToErase, Recording
    <2>2. CASE step[k] = "killing"
      BY <2>1, <2>2 DEF ToErase
    <2>3. CASE step[k] = "hooks" /\ on[k] \in Hooks
      <3> SUFFICES ASSUME Saving' # {}
                   PROVE  on[k] \in Hooking' /\ \A g \in Saving' : g <= on[k]
        BY <2>1, <2>3 DEF ToErase
      <3>1. on[k] \in Hooking /\ \A g \in Saving : g <= on[k]
        BY <1>2, <1>3, <2>3 DEF ToErase
      <3>2. PICK g \in Saving' : g \in Saving /\ g \in Hooking /\ g # h
        BY <1>2 DEF Saving, Hooking
      <3>3. on[k] # h
        <4> SUFFICES ASSUME on[k] = h PROVE FALSE
          OBVIOUS
        <4>1. h <= g
          <5>1. CASE \A e \in Hooking : h <= e
            BY <3>2, <5>1
          <5>2. CASE step[h] \in {"hooking", "saving"}
            BY <3>2, <5>2 DEF Settling, HooksInOrder, Saving
          <5>3. step[h] # "unused"
            BY <3>1 DEF Hooking
          <5> QED
            BY <5>1, <5>2, <5>3, HookCallFacts DEF Settling
        <4>2. g <= h /\ g \in Nat /\ h \in Nat
          BY <1>1, <3>1, <3>2, Callers, IssuersAssumption DEF Saving
        <4> QED
          BY <3>2, <4>1, <4>2
      <3> QED
        BY <1>2, <2>3, <3>1, <3>3
    <2> QED
      BY <1>3, <2>2, <2>3 DEF ToErase
  <1>4. ASSUME Saving = {} PROVE Saving' = {} /\ (Gone => Gone')
    <2>1. step[h] # "saving"
      BY <1>4 DEF Saving
    <2>2. disk' = disk
      BY <1>1, <1>2, <2>1 DEF HookMoves
    <2> QED
      BY <1>1, <1>2, <1>4, <2>2 DEF Gone
  <1>5. ~Erasing(h)
    <2>1. ~Busy(h) \/ op[h].at \in HookSteps
      BY <1>1 DEF Settling, Fits, FitsAt
    <2> QED
      BY <2>1 DEF Erasing, Busy, HookSteps
  <1>6. \A j \in Issuers : Erasing(j) => Erasing(j)'
    BY <1>1, <1>5 DEF Erasing
  <1> QED
    BY <1>3, <1>4, <1>6 DEF Settling, Wiped

LEMMA HookSettles ==
  ASSUME Shape, Settling, HistoryTypeOK', NEW h \in Hooks, HookCall(h)
  PROVE  Settling'
  <1>1. /\ \A j \in Issuers \ {h} : step'[j] = step[j] /\ op'[j] = op[j]
        /\ Begun' = Begun /\ h \in Issuers /\ HookMoves(h)
        /\ UNCHANGED <<on, pane, deletes, sessions, overrun, disturbed>>
        /\ UNCHANGED <<initPromise, historyGeneration, writer>>
    BY HookCallFacts, Callers DEF HookCall, Settling
  <1>2. h \notin Creates /\ h \notin Kills /\ h \notin Clears
    BY CallersDiffer
  <1>3. ~Busy(h) \/ (step[h] = "hooking" /\ op[h].at \in HookSteps)
    BY <1>1 DEF Settling, Fits, FitsAt
  <1>4. h \notin Inits /\ h \notin Closers
    BY <1>3 DEF Inits, Closers, Initializing, InitSteps, Busy, HookSteps
  <1>5. \/ op'[h] = op[h] /\ (Busy(h) => step'[h] = "hooking")
        \/ op'[h].at = "idle"
        \/ op'[h].at \in HookSteps /\ step'[h] = "hooking"
    BY <1>1, <1>3, OpTypes DEF HookMoves, BeginHook, Settling, Idle, HookSteps, Operations
  <1>6. Lining'
    <2>1. CASE op' = op
      BY <1>1, <2>1, InitsBegun, LiningStill DEF Settling
    <2>2. CASE op' # op
      BY <1>1, <1>4, <2>2, InitsBegun, LiningHook DEF Settling, HookMoves
    <2> QED
      BY <2>1, <2>2
  <1>7. Fits'
    <2> SUFFICES ASSUME NEW j \in Issuers PROVE FitsAt(j)'
      BY DEF Fits
    <2>1. CASE j = h
      <3>1. op'[h].at \in HookSteps => ~Initializing(h)' /\ op'[h].at # "cleanAfterInit"
        BY DEF Initializing, InitSteps, HookSteps
      <3>2. Busy(h)' => step'[h] = "hooking" /\ op'[h].at \in HookSteps
        BY <1>3, <1>5 DEF Busy
      <3> QED
        BY <1>2, <2>1, <3>1, <3>2 DEF FitsAt
    <2>2. CASE j # h
      <3>1. FitsAt(j)
        BY DEF Settling, Fits
      <3> QED
        BY <1>1, <2>2, <3>1 DEF FitsAt, Busy, Initializing, Recording
    <2> QED
      BY <2>1, <2>2
  <1>8. HooksInOrder' /\ Wiped'
    BY HookOrder, HookWipes DEF Settling
  <1>9. Served'
    <2>1. /\ \A c \in Creates : Renews(c)' <=> Renews(c)
          /\ \A x \in Clears : Reopens(x)' <=> Reopens(x)
      BY <1>1, <1>2, Callers DEF Renews, Reopens, Recording
    <2>2. h \notin Closers'
      BY <1>3, <1>5 DEF Closers, Busy, HookSteps
    <2>3. Closers' = Closers /\ \A i \in Closers : op'[i] = op[i]
      BY <1>1, <1>4, <2>2 DEF Closers
    <2>4. initPromise # None => initPromise # h /\ initPromise \in Issuers
      BY <1>4 DEF Settling, Lining, Promised, Inits
    <2>5. (Promising => Promising') /\ (BeingRecorded => BeingRecorded')
      BY <1>1, <2>3, <2>4 DEF Promising, BeingRecorded, CurrentInit
    <2>6. Wanted' <=> Wanted
      BY <1>1 DEF Wanted
    <2> QED
      BY <2>1, <2>5, <2>6 DEF Settling, Served
  <1>10. NotEnding'
    <2>1. \A k \in Kills : TakesDown(k)' <=> TakesDown(k)
      BY <1>1, <1>2, Callers DEF TakesDown, Recording
    <2> QED
      BY <1>1, <2>1 DEF Settling, NotEnding, Wanted
  <1> QED
    BY <1>6, <1>7, <1>8, <1>9, <1>10 DEF Settling

-----------------------------------------------------------------------------
(* What the history does by itself.                                        *)
Inside ==
    /\ UNCHANGED <<step, on, pane, deletes, deletedHistory, sessions, overrun>>
    /\ disturbed \subseteq disturbed' /\ spared \subseteq spared'

Advances(i) == HistoryTurn(i) \/ HistoryIO(i) \/ InitFails(i) \/ RemoveFails(i)

LEMMA InitMoves ==
  ASSUME HistoryTypeOK, NEW i \in Issuers, Advances(i), i \in Inits
  PROVE  /\ \A j \in Issuers \ {i} : op'[j] = op[j]
         /\ (op'[i].at \in InitSteps /\ op'[i].gen = op[i].gen /\ initPromise' = initPromise)
            \/ (op'[i] = Idle /\ EndInit(i))
         /\ historyGeneration' = historyGeneration
  <1>1. PreviousInitEnds(i) \/ PreviousCloseEnds(i) \/ Opened(i) \/ HookApplied(i) \/ SupersededCloses(i) \/ InitFails(i)
    BY DEF Advances, HistoryTurn, HistoryIO, AwaitedInitEnds, AwaitedCloseEnds, Remove, RemoveFails, HookWritten,
           Inits, Initializing, InitSteps
  <1>2. historyGeneration' = historyGeneration
    BY <1>1 DEF PreviousInitEnds, PreviousCloseEnds, Opened, HookApplied, SupersededCloses, InitFails, Proceed
  <1>3. CASE EndInit(i)
    BY <1>2, <1>3, OpTypes DEF EndInit
  <1>4. CASE Opened(i) /\ ~EndInit(i)
    BY <1>2, <1>4, OpTypes DEF Opened, Operations, InitSteps
  <1>5. CASE Proceed(i) /\ ~EndInit(i)
    BY <1>2, <1>5, OpTypes DEF Proceed, Operations, InitSteps
  <1>6. CASE op' = [op EXCEPT ![i].at = "afterClose", ![i].on = closing] /\ initPromise' = initPromise
    BY <1>2, <1>6, OpTypes DEF Operations, InitSteps
  <1> QED
    BY <1>1, <1>3, <1>4, <1>5, <1>6
    DEF PreviousInitEnds, PreviousCloseEnds, HookApplied, SupersededCloses, InitFails

LEMMA CloserMoves ==
  ASSUME HistoryTypeOK, NEW i \in Issuers, Advances(i), i \in Closers
  PROVE  /\ \A j \in Issuers \ {i} : op'[j] = op[j]
         /\ UNCHANGED <<initPromise, disk, historyGeneration>>
         /\ ~Initializing(op[i].on)
         /\ op'[i].at \in {"closing", "removing", "idle"}
            \/ (op[i].at = "cleanAfterInit" /\ initPromise # None /\ op'[i].at = "closeAfterInit")
         /\ op[i].remove /\ initPromise = None =>
               op'[i].at \in {"closing", "removing"} /\ op'[i].remove
  <1>1. AwaitedInitEnds(i)
    BY DEF Advances, HistoryTurn, HistoryIO, Opened, HookApplied, SupersededCloses, InitFails,
           PreviousInitEnds, PreviousCloseEnds, AwaitedCloseEnds, Remove, RemoveFails, HookWritten, Closers
  <1>2. historyGeneration' = historyGeneration /\ op[i].remove \in BOOLEAN /\ ~Initializing(op[i].on)
    BY <1>1, OpTypes DEF AwaitedInitEnds, Operations
  <1>3. CASE CloseNow(i, op[i].remove)
    BY <1>2, <1>3, CloseNowDoes
  <1>4. CASE CloseNow(i, TRUE)
    BY <1>2, <1>4, CloseNowDoes
  <1>5. CASE op[i].at = "cleanAfterInit" /\ initPromise # None /\ AwaitInit(i, "closeAfterInit", TRUE)
    BY <1>2, <1>5, AwaitInitDoes
  <1> QED
    BY <1>1, <1>3, <1>4, <1>5 DEF AwaitedInitEnds, CloseWriter

LEMMA OtherMoves ==
  ASSUME HistoryTypeOK, NEW i \in Issuers, Advances(i), i \notin Inits, i \notin Closers
  PROVE  /\ \A j \in Issuers \ {i} : op'[j] = op[j]
         /\ UNCHANGED <<initPromise, historyGeneration, writer>>
         /\ disk' \in {disk, "none"}
         /\ Busy(i)
         /\ op'[i].at \in {"removing", "idle"} \cup HookSteps
         /\ op[i].at \in HookSteps <=> op[i].at \notin {"closing", "removing"}
         /\ op[i].at \in HookSteps => op'[i].at \in {"idle"} \cup HookSteps
         /\ op[i].at \in {"closing", "removing"} => op'[i].at \in {"removing", "idle"}
         /\ op[i].at = "closing" /\ op[i].remove => op'[i].at = "removing"
         /\ op[i].at = "removing" => disk' = "none" \/ RemoveFails(i)
  <1>1. AwaitedCloseEnds(i) \/ Remove(i) \/ RemoveFails(i) \/ HookWritten(i)
    BY DEF Advances, HistoryTurn, HistoryIO, Opened, HookApplied, SupersededCloses, InitFails,
           PreviousInitEnds, PreviousCloseEnds, AwaitedInitEnds, Closers, Inits, Initializing, InitSteps
  <1>2. CASE AwaitedCloseEnds(i)
    BY <1>2, OpTypes DEF AwaitedCloseEnds, Idle, HookSteps, Busy
  <1>3. CASE Remove(i) \/ RemoveFails(i)
    BY <1>3, OpTypes DEF Remove, RemoveFails, Idle, HookSteps, Busy
  <1>4. CASE HookWritten(i)
    BY <1>4, OpTypes DEF HookWritten, HookSteps, Busy, Operations
  <1> QED
    BY <1>1, <1>2, <1>3, <1>4

LEMMA FitsInside ==
  ASSUME HistoryTypeOK, Fits, Inside, NEW i \in Issuers, Advances(i)
  PROVE  Fits'
  <1> SUFFICES ASSUME NEW j \in Issuers PROVE FitsAt(j)'
    BY DEF Fits
  <1>1. FitsAt(j) /\ UNCHANGED <<step, on, pane, deletes>>
    BY DEF Fits, Inside
  <1>2. CASE j # i
    <2>1. op'[j] = op[j]
      BY <1>2, InitMoves, CloserMoves, OtherMoves
    <2> QED
      BY <1>1, <2>1 DEF FitsAt, Busy, Initializing, Recording
  <1>3. CASE j = i /\ i \in Inits
    <2>1. op'[i].at = "idle" \/ Initializing(i)'
      BY <1>3, InitMoves DEF Idle, Initializing
    <2>2. Busy(i) /\ Initializing(i) /\ op[i].at \notin HookSteps
      BY <1>3 DEF Inits, Busy, Initializing, InitSteps, HookSteps
    <2>3. Initializing(i)' => op'[i].at # "cleanAfterInit"
      BY DEF Initializing, InitSteps
    <2> QED
      BY <1>1, <1>3, <2>1, <2>2, <2>3 DEF FitsAt, Busy, Recording
  <1>4. CASE j = i /\ i \in Closers
    <2>1. op'[i].at \in {"closing", "removing", "idle", "closeAfterInit"}
      BY <1>4, CloserMoves
    <2>2. Busy(i) /\ ~Initializing(i) /\ op[i].at \notin HookSteps
      BY <1>4 DEF Closers, Busy, Initializing, InitSteps, HookSteps
    <2>3. ~Initializing(i)' /\ op'[i].at # "cleanAfterInit"
      BY <2>1 DEF Initializing, InitSteps
    <2> QED
      BY <1>1, <1>4, <2>2, <2>3 DEF FitsAt, Recording
  <1>5. CASE j = i /\ i \notin Inits /\ i \notin Closers
    <2>1. /\ Busy(i) /\ ~Initializing(i)
          /\ op'[i].at \in {"removing", "idle"} \cup HookSteps
          /\ op[i].at \in HookSteps => op'[i].at \in {"idle"} \cup HookSteps
      BY <1>5, OtherMoves DEF Inits
    <2>2. ~Initializing(i)' /\ op'[i].at # "cleanAfterInit"
      BY <2>1 DEF Initializing, InitSteps, HookSteps
    <2> QED
      BY <1>1, <1>5, <2>1, <2>2 DEF FitsAt, Busy, Recording
  <1> QED
    BY <1>2, <1>3, <1>4, <1>5

LEMMA WipedInside ==
  ASSUME Settling, Inside, NEW i \in Issuers, Advances(i), RemoveFails(i) => Recorded \in spared'
  PROVE  Wiped'
  <1> USE DEF Settling
  <1> SUFFICES ASSUME Deleted' PROVE Wiped'
    BY DEF Wiped
  <1>1. UNCHANGED <<step, on, pane, deletes, deletedHistory, sessions>> /\ Deleted /\ ~RemoveFails(i)
    BY DEF Inside, Deleted
  <1>2. Saving' = Saving /\ Hooking' = Hooking
    BY <1>1 DEF Saving, Hooking
  <1>3. \A k \in Kills : ToErase(k)' <=> ToErase(k)
    BY <1>1, <1>2 DEF ToErase, Recording
  <1>4. /\ \A j \in Issuers \ {i} : op'[j] = op[j]
        /\ initPromise' \in {initPromise, None}
    BY InitMoves, CloserMoves, OtherMoves DEF EndInit
  <1>5. ASSUME Gone PROVE Gone'
    <2>1. i \notin Inits /\ initPromise = None /\ disk = "none"
      BY <1>5, NoneInitializes DEF Gone
    <2>2. initPromise' = None /\ disk' = "none"
      BY <2>1, CloserMoves, OtherMoves
    <2> QED
      BY <2>2 DEF Gone
  <1>6. \A j \in Issuers \ {i} : Erasing(j) => Erasing(j)'
    BY <1>4 DEF Erasing
  <1>7. ASSUME Erasing(i) PROVE Erasing(i)' \/ Gone'
    <2>1. CASE op[i].at \in {"cleanAfterInit", "closeAfterInit"} /\ op[i].remove /\ initPromise \in {None, op[i].on}
      <3>1. i \in Closers /\ ~Initializing(op[i].on)
        BY <2>1, CloserMoves DEF Closers
      <3>2. initPromise = None
        <4>1. initPromise # None => Initializing(initPromise)
          BY DEF Lining, Promised, Inits
        <4> QED
          BY <2>1, <3>1, <4>1
      <3>3. initPromise' = None /\ op'[i].at \in {"closing", "removing"} /\ op'[i].remove
        BY <2>1, <3>1, <3>2, CloserMoves
      <3> QED
        BY <3>3 DEF Erasing
    <2>2. CASE op[i].at \in {"closing", "removing"} /\ initPromise = None
      <3>1. i \notin Inits /\ i \notin Closers
        BY <2>2 DEF Inits, Closers, Initializing, InitSteps
      <3>2. CASE op[i].at = "removing"
        <4>1. disk' = "none" /\ initPromise' = None
          BY <1>1, <2>2, <3>1, <3>2, OtherMoves
        <4> QED
          BY <4>1 DEF Gone
      <3>3. CASE op[i].at = "closing"
        <4>1. op'[i].at = "removing" /\ initPromise' = None
          BY <1>7, <2>2, <3>1, <3>3, OtherMoves DEF Erasing
        <4> QED
          BY <4>1 DEF Erasing
      <3> QED
        BY <2>2, <3>2, <3>3
    <2> QED
      BY <1>7, <2>1, <2>2 DEF Erasing
  <1> QED
    BY <1>1, <1>2, <1>3, <1>5, <1>6, <1>7 DEF Wiped

(* The last initialisation, when it is first, is the only one.             *)
LEMMA LastAndFirst ==
  ASSUME HistoryTypeOK, Lining, initPromise # None, Leads(initPromise)
  PROVE  Inits = {initPromise}
  <1>1. initPromise \in Inits /\ \A j \in Inits : op[j].gen <= op[initPromise].gen
    BY DEF Lining, Promised
  <1>2. ASSUME NEW j \in Inits \ {initPromise} PROVE FALSE
    <2>1. op[initPromise].gen < op[j].gen
      BY <1>1, <1>2, LeaderIsFirst DEF Lining, Inits
    <2>2. op[j].gen \in Nat /\ op[initPromise].gen \in Nat
      BY <1>1, OpTypes DEF Inits
    <2> QED
      BY <1>1, <1>2, <2>1, <2>2
  <1> QED
    BY <1>1, <1>2

LEMMA PromisingGoesOn ==
  ASSUME Settling, Outdated, Wanted, Promising, ~\E c \in Creates : Renews(c), NEW i \in Issuers,
         \/ HistoryTurn(i)
         \/ HistoryIO(i) /\ (\A j \in Issuers : ~HistoryDue(j))
         \/ RemoveFails(i)
  PROVE  Promising' \/ BeingRecorded'
  <1> USE DEF Settling
  <1> DEFINE P == initPromise
  <1>1. /\ P # None /\ P \in Inits /\ P \in Issuers /\ CurrentInit(P) /\ \A j \in Closers : op[j].on # P
    BY DEF Promising, Lining, Promised, Inits
  <1>2. Advances(i)
    BY DEF Advances
  <1>3. CASE i \in Closers
    <2>1. op[i].at # "cleanAfterInit"
      <3> SUFFICES ASSUME op[i].at = "cleanAfterInit" PROVE FALSE
        OBVIOUS
      <3>1. FitsAt(i) /\ Busy(i) /\ ~Initializing(i)
        BY <1>3 DEF Fits, Closers, Busy, Initializing, InitSteps
      <3>2. CASE i \in Kills
        BY <3>1, <3>2 DEF FitsAt, NotEnding, TakesDown
      <3>3. CASE i \in Creates
        <4>1. Recording(i) /\ step[i] = "dropping"
          BY <3>1, <3>3 DEF FitsAt, Renews
        <4>2. ~sessions[Recorded].alive
          BY <3>3, <4>1, SlottedSteps DEF Outdated, Slotted, Recording
        <4> QED
          BY <4>2 DEF Wanted
      <3> QED
        BY <3>1, <3>2, <3>3 DEF FitsAt
    <2>2. /\ \A j \in Issuers \ {i} : op'[j] = op[j]
          /\ UNCHANGED <<initPromise, historyGeneration>>
          /\ op'[i].at \in {"closing", "removing", "idle"}
      BY <1>2, <1>3, <2>1, CloserMoves
    <2>3. i # P
      BY <1>1, <1>3 DEF Closers, Inits, Initializing, InitSteps
    <2>4. \A j \in Closers' : j \in Closers /\ op'[j] = op[j]
      BY <2>2 DEF Closers
    <2> QED
      BY <1>1, <2>2, <2>3, <2>4 DEF Promising, CurrentInit
  <1>4. CASE i \notin Closers /\ i # P
    <2>1. /\ \A j \in Issuers \ {i} : op'[j] = op[j]
          /\ UNCHANGED <<initPromise, historyGeneration>>
          /\ op'[i].at \notin {"cleanAfterInit", "closeAfterInit"}
      <3>1. CASE i \in Inits
        BY <1>2, <1>4, <3>1, InitMoves DEF EndInit, Idle, InitSteps
      <3>2. CASE i \notin Inits
        BY <1>2, <1>4, <3>2, OtherMoves DEF HookSteps
      <3> QED
        BY <3>1, <3>2
    <2>2. \A j \in Closers' : j \in Closers /\ op'[j] = op[j]
      BY <2>1 DEF Closers
    <2> QED
      BY <1>1, <1>4, <2>1, <2>2 DEF Promising, CurrentInit
  <1>5. CASE i = P
    <2>1. /\ \A j \in Issuers \ {i} : op'[j] = op[j]
          /\ historyGeneration' = historyGeneration
      BY <1>1, <1>2, <1>5, InitMoves
    <2>2. op'[i].at \in InitSteps \cup {"idle"}
      BY <1>1, <1>2, <1>5, InitMoves DEF Idle
    <2>3. \A j \in Closers' : j \in Closers /\ op'[j] = op[j]
      BY <2>1, <2>2 DEF Closers, InitSteps
    <2>4. CASE op'[i].gen = op[i].gen /\ initPromise' = initPromise
      BY <1>1, <1>5, <2>1, <2>3, <2>4 DEF Promising, CurrentInit
    <2>5. CASE op'[i] = Idle /\ EndInit(i)
      <3>1. initPromise' = None
        BY <1>5, <2>5 DEF EndInit
      <3>2. ~PreviousInitEnds(i) /\ ~PreviousCloseEnds(i)
        BY <1>1, <1>5, <2>5, OpTypes DEF PreviousInitEnds, PreviousCloseEnds, Proceed, Idle, Operations
      <3>3. CASE Opened(i) /\ \A j \in Issuers : ~HistoryDue(j)
        <4>1. Inits = {P}
          BY <1>1, <1>5, <3>3, StepLeads, LastAndFirst DEF Opened, InitSteps
        <4>2. Closers = {}
          <5> SUFFICES ASSUME NEW j \in Closers PROVE FALSE
            OBVIOUS
          <5>1. j \in Issuers /\ WaitsForInit(j) /\ Initializing(op[j].on)
            BY <3>3 DEF Closers, WaitsForInit, HistoryDue
          <5> QED
            BY <1>1, <4>1, <5>1, WaitIsOver
        <4>3. writer' = i
          BY <1>1, <1>5, <3>3 DEF Opened
        <4> QED
          BY <1>1, <1>5, <2>3, <3>1, <4>2, <4>3 DEF BeingRecorded
      <3>4. CASE HookApplied(i)
        <4>1. Inits = {P}
          BY <1>1, <1>5, <3>4, StepLeads, LastAndFirst DEF HookApplied, InitSteps
        <4>2. writer = i /\ writer' = writer /\ \A j \in Closers : op[j].on \in Inits
          BY <3>4 DEF HookApplied, Lining, Applied
        <4> QED
          BY <1>1, <1>5, <2>3, <3>1, <4>1, <4>2 DEF BeingRecorded
      <3>5. ~SupersededCloses(i)
        <4> SUFFICES ASSUME op[i].at = "superseded" PROVE FALSE
          BY DEF SupersededCloses
        <4>1. op[i].gen < historyGeneration /\ op[i].gen = historyGeneration /\ historyGeneration \in Nat
          BY <1>1, <1>5, OpTypes DEF Lining, Promised, CurrentInit
        <4> QED
          BY <4>1
      <3>6. ~AwaitedInitEnds(i) /\ ~AwaitedCloseEnds(i) /\ ~Remove(i) /\ ~RemoveFails(i) /\ ~HookWritten(i)
        BY <1>1, <1>5 DEF AwaitedInitEnds, AwaitedCloseEnds, Remove, RemoveFails, HookWritten, Inits, Initializing, InitSteps
      <3> QED
        BY <3>2, <3>3, <3>4, <3>5, <3>6 DEF HistoryTurn, HistoryIO
    <2> QED
      BY <1>1, <1>2, <1>5, <2>4, <2>5, InitMoves
  <1> QED
    BY <1>3, <1>4, <1>5

LEMMA ServedInside ==
  ASSUME Settling, Outdated, Inside, NEW i \in Issuers,
         \/ HistoryTurn(i)
         \/ HistoryIO(i) /\ (\A j \in Issuers : ~HistoryDue(j))
         \/ InitFails(i) /\ Recorded \in disturbed'
         \/ RemoveFails(i) /\ Recorded \in spared'
  PROVE  Served'
  <1> USE DEF Settling
  <1> SUFFICES ASSUME Wanted'
               PROVE  \/ \E c \in Creates : Renews(c)'
                      \/ \E x \in Clears : Reopens(x)'
                      \/ Promising'
                      \/ BeingRecorded'
    BY DEF Served
  <1>1. UNCHANGED <<step, on, pane, sessions>> /\ Wanted /\ Advances(i)
        /\ (HistoryTurn(i) \/ (HistoryIO(i) /\ \A j \in Issuers : ~HistoryDue(j)) \/ RemoveFails(i))
    BY DEF Wanted, Inside, Advances
  <1>2. /\ \A c \in Creates : Renews(c) => Renews(c)'
        /\ \A x \in Clears : Reopens(x) => Reopens(x)'
    BY <1>1 DEF Renews, Reopens, Recording
  <1>3. CASE Promising /\ ~\E c \in Creates : Renews(c)
    BY <1>1, <1>3, PromisingGoesOn
  <1>4. CASE BeingRecorded
    <2>1. i \notin Inits /\ i \notin Closers /\ initPromise = None /\ writer # None /\ Closers = {}
      BY <1>4, NoneInitializes DEF BeingRecorded
    <2>2. /\ \A j \in Issuers \ {i} : op'[j] = op[j]
          /\ UNCHANGED <<initPromise, historyGeneration, writer>>
          /\ op'[i].at \in {"removing", "idle"} \cup HookSteps
      BY <1>1, <2>1, OtherMoves
    <2>3. Closers' = {}
      BY <2>1, <2>2 DEF Closers, HookSteps
    <2> QED
      BY <2>1, <2>2, <2>3 DEF BeingRecorded
  <1> QED
    BY <1>1, <1>2, <1>3, <1>4 DEF Served

LEMMA InsideSettles ==
  ASSUME Settling, Outdated, HistoryTypeOK', Inside, NEW i \in Issuers,
         \/ HistoryTurn(i)
         \/ HistoryIO(i) /\ (\A j \in Issuers : ~HistoryDue(j))
         \/ InitFails(i) /\ Recorded \in disturbed'
         \/ RemoveFails(i) /\ Recorded \in spared'
  PROVE  Settling'
  <1>1. Advances(i) /\ UNCHANGED <<step, on, pane, sessions, overrun>> /\ disturbed \subseteq disturbed'
    BY DEF Advances, Inside
  <1>2. Begun' = Begun
    BY <1>1 DEF Begun
  <1>3. Lining'
    BY <1>2, InitsBegun, LiningTurn, LiningIO DEF Settling
  <1>4. Fits' /\ Wiped' /\ Served'
    <2>1. HistoryTurn(i) \/ HistoryIO(i) \/ InitFails(i) => ~RemoveFails(i)
      BY DEF HistoryTurn, PreviousInitEnds, PreviousCloseEnds, AwaitedInitEnds, AwaitedCloseEnds, HistoryIO,
             Opened, InitFails, HookApplied, SupersededCloses, Remove, RemoveFails, HookWritten
    <2> QED
      BY <1>1, <2>1, FitsInside, WipedInside, ServedInside DEF Settling
  <1>5. HooksInOrder'
    BY <1>1, HooksKept DEF Settling
  <1>6. NotEnding'
    BY <1>1 DEF Settling, NotEnding, Wanted, TakesDown, Recording
  <1> QED
    BY <1>3, <1>4, <1>5, <1>6 DEF Settling

LEMMA WriterSettles ==
  ASSUME Settling, HistoryTypeOK', Inside, WriterCloses
  PROVE  Settling'
  <1>1. /\ UNCHANGED <<step, on, pane, deletes, deletedHistory, sessions, overrun>>
        /\ disturbed \subseteq disturbed' /\ spared \subseteq spared'
        /\ UNCHANGED <<historyGeneration, initPromise, writer, op>>
        /\ disk = "none" => disk' = "none"
    BY DEF Inside, WriterCloses, MarkEnded
  <1>2. Begun' = Begun /\ Saving' = Saving /\ Hooking' = Hooking /\ (Deleted' => Deleted) /\ Closers' = Closers
    BY <1>1 DEF Begun, Saving, Hooking, Deleted, Closers
  <1>3. Lining'
    BY <1>1, <1>2, InitsBegun, LiningStill DEF Settling
  <1>4. Fits' /\ HooksInOrder'
    BY <1>1, HooksKept DEF Settling, Fits, FitsAt, Busy, Initializing, Recording
  <1>5. Wiped'
    <2>1. \A k \in Kills : ToErase(k)' <=> ToErase(k)
      BY <1>1, <1>2 DEF ToErase, Recording
    <2>2. (Gone => Gone') /\ \A j \in Issuers : Erasing(j) => Erasing(j)'
      BY <1>1 DEF Gone, Erasing
    <2> QED
      BY <1>1, <1>2, <2>1, <2>2 DEF Settling, Wiped
  <1>6. Served' /\ NotEnding'
    <2>1. /\ \A c \in Creates : Renews(c)' <=> Renews(c)
          /\ \A x \in Clears : Reopens(x)' <=> Reopens(x)
          /\ \A k \in Kills : TakesDown(k)' <=> TakesDown(k)
      BY <1>1 DEF Renews, Reopens, Recording, TakesDown
    <2>2. (Promising' <=> Promising) /\ (BeingRecorded' <=> BeingRecorded) /\ (Wanted' => Wanted)
      BY <1>1, <1>2 DEF Promising, BeingRecorded, CurrentInit, Wanted
    <2> QED
      BY <2>1, <2>2 DEF Settling, Served, NotEnding
  <1> QED
    BY <1>3, <1>4, <1>5, <1>6 DEF Settling

-----------------------------------------------------------------------------
(* Every action of the service has one of those effects.                   *)
Awaiters == on = [i \in Issuers |-> on[i]]
Footing == Shape /\ SlotInv /\ Dated /\ Held /\ Kept /\ Certain /\ Awaiters /\ Settling

(* A creation that is stale, or one that the daemon refused, is of no      *)
(* session that is wanted.                                                 *)
LEMMA StaleUnwanted ==
  ASSUME Footing, NEW c \in Creates, Slotted(c), Recording(c), ~Current(c)
  PROVE  ~sessions[Recorded].alive
  <1>1. step[c] \in CreateSteps /\ c \in Issuers
    BY CreateStepSets, Callers DEF Slotted
  <1>2. pane[c] \in Panes
    BY <1>1, InPanes DEF Footing
  <1>3. gen[c] \in Nat /\ generation[pane[c]] \in Nat
    BY <1>2 DEF Footing, Dated
  <1>4. Stale(c)
    BY <1>1, <1>2, <1>3 DEF Current, Stale, Footing, Dated
  <1> QED
    BY <1>4 DEF Footing, Certain, Outdated, Recording

(* What a step of a creation leaves to the others.                         *)
CreationStep(c) ==
    \/ CreateOrAttach(c) \/ WaitedForPending(c) \/ Joined(c) \/ Begin(c) \/ Listed(c) \/ Purged(c)
    \/ ColdRestore(c) \/ Refused(c) \/ Created(c) \/ Written(c) \/ Discarded(c) \/ Dropped(c)

LEMMA CreationOthers ==
  ASSUME Footing, NEW c \in Creates, CreationStep(c)
  PROVE  /\ c \in Issuers \ Hooks /\ c \notin Kills /\ c \notin Clears /\ pane' = pane
         /\ \A j \in Issuers \ {c} :
               /\ on'[j] = on[j]
               /\ step'[j] = step[j] \/ (step[j] = "queued" /\ step'[j] \in {"granted", "failed"})
         /\ \A k \in Kills : k \in deletes' <=> k \in deletes
         /\ overrun \subseteq overrun' /\ disturbed' = disturbed
         /\ step[c] # "unused" => pane[c] \in Panes
  <1> USE DEF managerVars, paramVars, callVars, faultVars, daemonVars
  <1>1. c \in Issuers \ Hooks /\ c \notin Kills /\ c \notin Clears
    BY Callers, CallersDiffer
  <1>2. pane' = pane /\ disturbed' = disturbed /\ overrun \subseteq overrun'
    BY DEF CreationStep, CreateOrAttach, WaitedForPending, Joined, Begin, Listed, Purged, ColdRestore,
           Refused, Created, Written, Discarded, Dropped, Frame
  <1>3. deletes' = deletes \/ deletes' = deletes \cup {c}
    BY DEF CreationStep, CreateOrAttach, WaitedForPending, Joined, Begin, Listed, Purged, ColdRestore,
           Refused, Created, Written, Discarded, Dropped, Discard
  <1>4. on' = on \/ \E d : on' = [on EXCEPT ![c] = d]
    BY DEF CreationStep, CreateOrAttach, WaitedForPending, Joined, Begin, Listed, Purged, ColdRestore,
           Refused, Created, Written, Discarded, Dropped, Frame, Enter
  <1>5. \A j \in Issuers \ {c} : on'[j] = on[j]
    BY <1>4 DEF Footing, Awaiters
  <1>6. (\E s : Go(c, s)) \/ (\E s : Settle(c, s))
    BY DEF CreationStep, CreateOrAttach, WaitedForPending, Joined, Begin, Listed, Purged, ColdRestore,
           Refused, Created, Written, Discarded, Dropped, Discard, Enter, Acquire, LookUp, Ask, Request,
           Cancelled, Go
  <1>7. \A j \in Issuers \ {c} : step'[j] = step[j] \/ (step[j] = "queued" /\ step'[j] \in {"granted", "failed"})
    <2>1. CASE \E s : Go(c, s)
      BY <2>1 DEF Go, Footing, Shape
    <2>2. CASE \E s : Settle(c, s)
      BY <2>2, SettleMoves DEF Footing
    <2> QED
      BY <1>6, <2>1, <2>2
  <1> QED
    BY <1>1, <1>2, <1>3, <1>5, <1>7 DEF Footing, Shape

(* A creation that works on no history, and begins none.                   *)
LEMMA CreationAloof ==
  ASSUME Footing, NEW c \in Creates, CreationStep(c), UNCHANGED historyVars, ~Busy(c),
         c \in Begun => c \in Begun',
         Renews(c) => Renews(c)' \/ ~Wanted',
         Deleted' => Deleted,
         sessions'[Recorded].alive => sessions[Recorded].alive /\ sessions'[Recorded].by = sessions[Recorded].by
  PROVE  Settling'
  <1>1. UNCHANGED <<historyGeneration, initPromise, initializing, pendingHook, writer, closing, op>> /\ disk' = disk
    BY DEF historyVars
  <1>2. Alone(c)
    BY CreationOthers DEF Alone
  <1>3. FitsAt(c)'
    BY <1>1, CreationOthers DEF FitsAt, Busy
  <1>4. Aloof(c)
    BY <1>1, <1>2, <1>3, CreationOthers DEF Aloof
  <1> QED
    BY <1>4, AloofSettles DEF Footing

LEMMA EarlySteps ==
  ASSUME Footing, NEW c \in Creates,
         step[c] \in {"unused", "waiting", "joined", "granted", "listing", "restoring", "requested"}
  PROVE  ~Busy(c) /\ c \notin Begun /\ (step[c] # "requested" => ~Renews(c))
  <1>1. FitsAt(c)
    BY Callers DEF Footing, Settling, Fits
  <1>2. c \notin Clears
    BY CallersDiffer
  <1> QED
    BY <1>1, <1>2 DEF FitsAt, Begun, Renews, Ends, CreateEnds

LEMMA EarlySettles ==
  ASSUME Footing, NEW c \in Creates, UNCHANGED historyVars,
         CreateOrAttach(c) \/ WaitedForPending(c) \/ Joined(c) \/ Begin(c) \/ Listed(c) \/ ColdRestore(c)
  PROVE  Settling'
  <1>1. CreationStep(c)
    BY DEF CreationStep
  <1>2. step[c] \in {"unused", "waiting", "joined", "granted", "listing", "restoring"}
    BY DEF CreateOrAttach, WaitedForPending, Joined, Begin, Listed, ColdRestore, NextOf, Unused
  <1>3. UNCHANGED <<sessions, deletedHistory, spared>>
    BY DEF CreateOrAttach, WaitedForPending, Joined, Begin, Listed, ColdRestore, managerVars, faultVars
  <1>4. Deleted' = Deleted
    BY <1>3 DEF Deleted
  <1> QED
    BY <1>1, <1>2, <1>3, <1>4, EarlySteps, CreationAloof

(* A creation that is to skip the history purges it.                       *)
LEMMA PurgeSettles ==
  ASSUME Footing, NEW c \in Creates, Begin(c) \/ Listed(c), ~UNCHANGED historyVars
  PROVE  Settling'
  <1>1. /\ CreationStep(c) /\ step[c] \in {"granted", "listing"}
        /\ UNCHANGED <<sessions, deletedHistory, spared>>
    BY DEF CreationStep, Begin, Listed, managerVars, faultVars
  <1>2. Recording(c) /\ BeginCleanup(c) /\ Go(c, "purging")
    BY DEF Begin, Listed, LookUp, Cancelled
  <1>3. Alone(c) /\ ~Busy(c) /\ c \notin Kills /\ c \notin Clears /\ c \in Issuers \ Hooks
    BY <1>1, CreationOthers, EarlySteps DEF Alone
  <1>4. step'[c] = "purging" /\ Recording(c)'
    BY <1>2, <1>3 DEF Go, Footing, Shape, Alone, Recording
  <1>5. FitsAt(c)'
    <2>1. op'[c].at \in {"closing", "removing", "cleanAfterInit"}
      BY <1>2, <1>3, CleanupBegins DEF Footing, Settling
    <2>2. ~Initializing(c)'
      BY <2>1 DEF Initializing, InitSteps
    <2> QED
      BY <1>3, <1>4, <2>1, <2>2 DEF FitsAt
  <1>6. Closes(c)
    BY <1>1, <1>2, <1>3, <1>4, <1>5 DEF Closes, Renews, Deleted
  <1> QED
    BY <1>6, ClosesSettles DEF Footing

LEMMA PurgedSettles ==
  ASSUME Footing, NEW c \in Creates, Purged(c) \/ Refused(c) \/ Dropped(c)
  PROVE  Settling'
  <1> USE DEF Frame, managerVars, faultVars
  <1>1. /\ CreationStep(c) /\ UNCHANGED historyVars /\ UNCHANGED <<sessions, deletedHistory, spared, overrun>>
        /\ disturbed' = disturbed
    BY DEF CreationStep, Purged, Refused, Dropped, Cancelled
  <1>2. /\ c \in Issuers /\ pane' = pane /\ c \notin Clears
    BY <1>1, CreationOthers
  <1>3. step[c] \in {"purging", "requested", "dropping"} /\ Slotted(c)
    BY SlottedSteps DEF Purged, Refused, Dropped, Slotted, Holding, CreateSteps
  <1>4. ~Busy(c)
    BY <1>3, EarlySteps DEF Purged, Refused, Dropped, Busy, HistoryDone
  <1>5. c \in Begun => c \in Begun'
    <2>1. c \in Begun => Dropped(c)
      BY <1>2, <1>3, EarlySteps DEF Purged, Refused, Begun, Ends, CreateEnds
    <2>2. Dropped(c) => step'[c] = "killed"
      BY SettleMoves DEF Dropped, Cancelled, Footing
    <2> QED
      BY <2>1, <2>2 DEF Begun, Ends, CreateEnds
  <1>6. Renews(c) => Renews(c)' \/ ~Wanted'
    <2> SUFFICES ASSUME Renews(c), ~Renews(c)' PROVE ~Wanted'
      OBVIOUS
    <2>1. CASE Purged(c)
      <3>1. ~Current(c)
        <4> SUFFICES ASSUME Current(c) PROVE Renews(c)'
          OBVIOUS
        <4>1. step'[c] = "requested"
          BY <1>2, <2>1 DEF Purged, Ask, Request, Go, Footing, Shape
        <4> QED
          BY <1>2, <4>1 DEF Renews, Recording
      <3> QED
        BY <1>1, <1>3, <3>1, StaleUnwanted DEF Renews, Wanted
    <2>2. CASE Refused(c)
      <3>1. step[c] = "requested" /\ (answer[c] = "failed" \/ answer[c] = "changed") /\ pane[c] = Recorded
        BY <2>2 DEF Refused, Renews, Recording
      <3>2. Recorded \in disturbed \/ ~sessions[Recorded].alive
        BY <3>1 DEF Footing, Certain, Refusals
      <3> QED
        BY <1>1, <3>2 DEF Wanted
    <2>3. CASE Dropped(c)
      BY <2>3 DEF Dropped, Renews
    <2> QED
      BY <2>1, <2>2, <2>3
  <1>7. Deleted' = Deleted
    BY <1>1 DEF Deleted
  <1> QED
    BY <1>1, <1>4, <1>5, <1>6, <1>7, CreationAloof

(* A stale creation gives up its session.                                  *)
LEMMA DiscardSettles ==
  ASSUME Footing, NEW c \in Creates, Created(c) \/ Written(c), ~Current(c)
  PROVE  Settling'
  <1>1. /\ CreationStep(c) /\ UNCHANGED historyVars /\ deletedHistory' = deletedHistory /\ spared' = spared
        /\ sessions' = [sessions EXCEPT ![pane[c]] = NoSession]
        /\ Go(c, "discarding") /\ step[c] \in {"requested", "writing"}
    BY DEF CreationStep, Created, Written, Discard, Request
  <1>2. c \in Issuers /\ pane' = pane /\ pane[c] \in Panes
    BY <1>1, CreationOthers
  <1>3. step'[c] = "discarding"
    BY <1>1, <1>2 DEF Go, Footing, Shape
  <1>4. ~Busy(c)
    BY <1>1, EarlySteps DEF Created, Written, Busy, HistoryDone
  <1>5. sessions'[Recorded] = (IF Recording(c) THEN NoSession ELSE sessions[Recorded])
    BY <1>1, <1>2, IssuersAssumption DEF Footing, Kept, Recording
  <1>6. Deleted' = Deleted
    BY <1>1 DEF Deleted
  <1> QED
    BY <1>1, <1>3, <1>4, <1>5, <1>6, CreationAloof DEF Begun, Renews, Wanted, NoSession

LEMMA WrittenSettles ==
  ASSUME Footing, NEW c \in Creates, Written(c), Current(c)
  PROVE  Settling'
  <1>1. /\ CreationStep(c) /\ UNCHANGED historyVars /\ UNCHANGED <<sessions, spared>>
        /\ deletedHistory' \subseteq deletedHistory /\ Settle(c, "ok") /\ step[c] = "writing" /\ ~Busy(c)
    BY DEF CreationStep, Written, Undelete, Busy, HistoryDone
  <1>2. step'[c] = "ok"
    BY <1>1, SettleMoves DEF Footing
  <1>3. Deleted' => Deleted
    BY <1>1 DEF Deleted
  <1> QED
    BY <1>1, <1>2, <1>3, CreationAloof DEF Begun, Renews, Ends, CreateEnds

LEMMA CreatedSettles ==
  ASSUME Footing, NEW c \in Creates, Created(c), Current(c)
  PROVE  Settling'
  <1>1. /\ CreationStep(c) /\ step[c] = "requested"
        /\ sessions' = [sessions EXCEPT ![pane[c]] = [by |-> c, alive |-> TRUE]]
        /\ spared' = spared \cup {pane[c]}
        /\ overrun' = IF \E k \in Kills : pane[k] = pane[c] /\ Active(k) THEN overrun \cup {pane[c]} ELSE overrun
    BY DEF CreationStep, Created
  <1>2. /\ c \in Issuers \ Hooks /\ pane' = pane /\ pane[c] \in Panes /\ c \notin Clears /\ c \notin Kills
        /\ ~Busy(c) /\ c \notin Begun
    BY <1>1, CreationOthers, EarlySteps
  <1>3. CASE ~Recording(c)
    <2>1. UNCHANGED historyVars /\ deletedHistory' \subseteq deletedHistory
      BY <1>3 DEF Created, Undelete
    <2>2. sessions'[Recorded] = sessions[Recorded]
      BY <1>1, <1>2, <1>3, IssuersAssumption DEF Footing, Kept, Recording
    <2>3. Deleted' => Deleted
      BY <1>1, <2>1 DEF Deleted
    <2> QED
      BY <1>1, <1>2, <1>3, <2>1, <2>2, <2>3, CreationAloof DEF Renews
  <1>4. CASE Recording(c)
    <2>1. BeginInit(c) /\ Go(c, "writing")
      BY <1>4 DEF Created
    <2>2. step'[c] = "writing" /\ Recording(c)'
      BY <1>2, <1>4, <2>1 DEF Go, Footing, Shape, Recording
    <2>3. c \in Begun' /\ Alone(c)
      BY <1>1, <1>2, <2>2, CreationOthers DEF Begun, Alone
    <2>4. FitsAt(c)'
      <3>1. op'[c].at \in InitSteps
        BY <1>2, <2>1, OpTypes DEF BeginInit, InitSteps, Footing, Settling
      <3>2. Initializing(c)' /\ op'[c].at # "cleanAfterInit"
        BY <3>1 DEF Initializing, InitSteps
      <3> QED
        BY <1>2, <2>2, <3>2 DEF FitsAt
    <2>5. ~Deleted'
      BY <1>1, <1>4 DEF Deleted, Recording
    <2>6. Wanted' => \A k \in Kills : ~TakesDown(k)'
      <3> SUFFICES ASSUME NEW k \in Kills, TakesDown(k)' PROVE Recorded \in overrun'
        BY DEF Wanted
      <3>1. TakesDown(k)
        BY <1>2, <2>3, OthersAlone DEF Footing
      <3>2. pane[k] = pane[c] /\ Active(k)
        BY <1>4, <3>1 DEF TakesDown, Recording, Active, KillSteps
      <3> QED
        BY <1>1, <1>4, <3>2 DEF Recording
    <2> QED
      BY <1>2, <2>1, <2>3, <2>4, <2>5, <2>6, OpensSettles DEF BeginsInit, Footing
  <1> QED
    BY <1>3, <1>4

LEMMA DiscardedSettles ==
  ASSUME Footing, NEW c \in Creates, Discarded(c)
  PROVE  Settling'
  <1> USE DEF managerVars, faultVars
  <1>1. /\ CreationStep(c) /\ step[c] = "discarding" /\ Go(c, "dropping")
        /\ UNCHANGED <<sessions, deletedHistory, spared, overrun, disturbed>>
    BY DEF CreationStep, Discarded
  <1>2. c \in Issuers \ Hooks /\ pane' = pane /\ c \notin Clears /\ c \notin Kills
    BY <1>1, CreationOthers
  <1>3. step'[c] = "dropping" /\ c \in Begun'
    BY <1>1, <1>2 DEF Go, Footing, Shape, Begun
  <1>4. ~Busy(c)
    BY <1>1, <1>2 DEF Footing, Settling, Fits, FitsAt
  <1>5. Deleted' = Deleted
    BY <1>1 DEF Deleted
  <1>6. CASE ~Recording(c)
    BY <1>1, <1>3, <1>4, <1>5, <1>6, CreationAloof DEF Discarded, Renews
  <1>7. CASE Recording(c)
    <2>1. BeginCleanup(c) \/ BeginClose(c)
      BY <1>7 DEF Discarded
    <2>2. ~sessions[Recorded].alive
      BY <1>1, <1>7, SlottedSteps DEF Footing, Certain, Outdated, Slotted, Recording
    <2>3. FitsAt(c)'
      <3>1. op'[c].at \in {"closing", "removing", "idle", "cleanAfterInit", "closeAfterInit"}
        BY <1>2, <1>4, <2>1, CloseBegins DEF Busy, Footing, Settling
      <3>2. ~Initializing(c)'
        BY <3>1, CloserSteps
      <3> QED
        BY <1>2, <1>3, <1>7, <3>2 DEF FitsAt, Recording
    <2>4. Closes(c)
      BY <1>1, <1>2, <1>3, <1>4, <1>5, <2>1, <2>2, <2>3, CreationOthers DEF Closes, Alone, Wanted
    <2> QED
      BY <2>4, ClosesSettles DEF Footing
  <1> QED
    BY <1>6, <1>7

LEMMA CreationSettles ==
  ASSUME Footing, NEW c \in Creates, CreationStep(c)
  PROVE  Settling'
  <1>1. CASE CreateOrAttach(c) \/ WaitedForPending(c) \/ Joined(c) \/ ColdRestore(c)
    <2>1. UNCHANGED historyVars
      BY <1>1 DEF CreateOrAttach, WaitedForPending, Joined, ColdRestore, Cancelled
    <2> QED
      BY <1>1, <2>1, EarlySettles
  <1>2. CASE Begin(c) \/ Listed(c)
    BY <1>2, EarlySettles, PurgeSettles
  <1> QED
    BY <1>1, <1>2, PurgedSettles, DiscardSettles, WrittenSettles, CreatedSettles, DiscardedSettles DEF CreationStep

-----------------------------------------------------------------------------
(* A step of one call that is no creation.                                 *)
LEMMA CallAlone ==
  ASSUME Footing, NEW i \in Issuers \ Hooks, NEW s, Go(i, s), pane' = pane,
         on' = on \/ \E d : on' = [on EXCEPT ![i] = d],
         deletes' = deletes, overrun' = overrun, disturbed' = disturbed,
         i \in Begun => i \in Begun'
  PROVE  Alone(i) /\ step'[i] = s
  <1>1. step'[i] = s /\ \A j \in Issuers \ {i} : step'[j] = step[j]
    BY DEF Go, Footing, Shape
  <1>2. \A j \in Issuers \ {i} : on'[j] = on[j]
    BY DEF Footing, Awaiters
  <1> QED
    BY <1>1, <1>2 DEF Alone

LEMMA KillPaneSettles ==
  ASSUME Footing, NEW k \in Kills, KillPane(k), step[k] \in {"unused", "sweeping"}, pane[k] \in Panes
  PROVE  Settling'
  <1>1. /\ Go(k, "killing") /\ pane' = pane /\ UNCHANGED <<on, deletes, overrun, disturbed>>
        /\ sessions' = [sessions EXCEPT ![pane[k]].alive = FALSE]
        /\ deletedHistory' = IF k \in deletes THEN deletedHistory \cup {pane[k]} ELSE deletedHistory
        /\ spared' = IF k \notin deletes THEN spared
                     ELSE IF k \in Placed THEN spared \ {pane[k]} ELSE spared \cup {pane[k]}
    BY DEF KillPane, Request, Dead, paramVars
  <1>2. k \in Issuers \ Hooks /\ k \notin Creates /\ k \notin Clears /\ k \notin Begun
    BY Callers, CallersDiffer DEF Begun
  <1>3. Alone(k) /\ step'[k] = "killing"
    BY <1>1, <1>2, CallAlone
  <1>4. ~Busy(k) /\ ~ToErase(k)
    BY <1>2 DEF Footing, Settling, Fits, FitsAt, ToErase
  <1>5. /\ Recording(k) => ~sessions'[Recorded].alive
        /\ ~Recording(k) => sessions'[Recorded] = sessions[Recorded]
    BY <1>1, IssuersAssumption DEF Footing, Kept, Recording
  <1>6. TakesDown(k)' => ~Wanted'
    BY <1>1, <1>5 DEF TakesDown, Recording, Wanted
  <1>7. sessions'[Recorded].alive => sessions[Recorded].alive /\ sessions'[Recorded].by = sessions[Recorded].by
    BY <1>5
  <1>8. CASE Recording(k) /\ k \notin deletes
    <2>1. BeginClose(k)
      BY <1>8 DEF KillPane
    <2>2. Deleted' = Deleted
      BY <1>1, <1>8 DEF Deleted
    <2>3. FitsAt(k)'
      <3>1. op'[k].at \in {"closing", "removing", "idle", "cleanAfterInit", "closeAfterInit"}
        BY <1>2, <1>4, <2>1, CloseBegins DEF Busy, Footing, Settling
      <3>2. ~Initializing(k)'
        BY <3>1, CloserSteps
      <3> QED
        BY <1>1, <1>2, <1>3, <1>8, <3>2 DEF FitsAt, Recording
    <2>4. Closes(k)
      BY <1>2, <1>3, <1>4, <1>5, <1>6, <1>7, <1>8, <2>1, <2>2, <2>3 DEF Closes, Wanted
    <2> QED
      BY <2>4, ClosesSettles DEF Footing
  <1>9. CASE ~(Recording(k) /\ k \notin deletes)
    <2>1. UNCHANGED <<historyGeneration, initPromise, initializing, pendingHook, writer, closing, op, disk>>
      BY <1>9 DEF KillPane, historyVars
    <2>2. FitsAt(k)'
      BY <1>3, <1>4, <2>1 DEF FitsAt, Busy
    <2>3. Deleted' => Deleted \/ (ToErase(k)' /\ ~sessions'[Recorded].alive)
      <3>1. CASE Recording(k)
        BY <1>1, <1>3, <1>5, <1>9, <3>1 DEF Deleted, ToErase, Recording
      <3>2. CASE ~Recording(k)
        BY <1>1, <3>2 DEF Deleted, Recording
      <3> QED
        BY <3>1, <3>2
    <2>4. Aloof(k)
      BY <1>2, <1>3, <1>4, <1>6, <1>7, <2>1, <2>2, <2>3 DEF Aloof
    <2> QED
      BY <2>4, AloofSettles DEF Footing
  <1> QED
    BY <1>8, <1>9

(* The other steps of a kill: none of them is about the sessions.          *)
KillStep(k) == KillByWorkspaceId(k) \/ KillAnswered(k) \/ HookAwaited(k) \/ KillEnds(k) \/ Erased(k)
               \/ (Swept(k) /\ ~Found(k))

LEMMA KillStepSame ==
  ASSUME Footing, NEW k \in Kills, KillStep(k)
  PROVE  /\ k \in Issuers \ Hooks /\ k \notin Creates /\ k \notin Clears
         /\ pane' = pane /\ UNCHANGED <<deletes, overrun, disturbed, sessions>>
         /\ Alone(k) /\ FitsAt(k)
         /\ (Deleted' => Deleted) /\ Wanted' = Wanted /\ Go(k, step'[k])
  <1> USE DEF managerVars, paramVars, callVars, faultVars
  <1>1. k \in Issuers \ Hooks /\ k \notin Creates /\ k \notin Clears /\ k \notin Begun
    BY Callers, CallersDiffer DEF Begun
  <1>2. /\ pane' = pane /\ UNCHANGED <<deletes, overrun, disturbed, sessions, deletedHistory>>
        /\ spared \subseteq spared'
        /\ on' = on \/ \E d : on' = [on EXCEPT ![k] = d]
    BY DEF KillStep, KillByWorkspaceId, KillAnswered, HookAwaited, KillEnds, Erased, Spares, Swept, Request
  <1>3. \E s : Go(k, s)
    BY DEF KillStep, KillByWorkspaceId, KillAnswered, HookAwaited, KillEnds, Erased, Swept, Request
  <1>4. PICK s : Go(k, s)
    BY <1>3
  <1>5. Alone(k) /\ step'[k] = s
    BY <1>1, <1>2, <1>4, CallAlone
  <1> QED
    BY <1>1, <1>2, <1>4, <1>5 DEF Footing, Settling, Fits, Deleted, Wanted

LEMMA KillWaitsSettles ==
  ASSUME Footing, NEW k \in Kills, KillStep(k), disk' \in {disk, "none"},
         UNCHANGED <<historyGeneration, initPromise, initializing, pendingHook, writer, closing, op>>
  PROVE  Settling'
  <1> USE DEF managerVars, callVars
  <1>1. FitsAt(k)'
    <2>1. ~Initializing(k) /\ (Busy(k) => Recording(k) /\ step[k] \in {"killing", "cleaning"})
      BY KillStepSame DEF FitsAt, Busy, Initializing, InitSteps
    <2>2. Busy(k) => step[k] = "killing" /\ k \notin deletes /\ step'[k] = "cleaning"
      BY <2>1, KillStepSame
      DEF KillStep, KillByWorkspaceId, KillAnswered, HookAwaited, KillEnds, Erased, Swept,
          NextOf, Unused, HistoryDone, Busy, FitsAt, Go, Footing, Shape
    <2>3. step'[k] = "hooks" => Recording(k) /\ k \in deletes
      <3>1. CASE KillAnswered(k)
        BY <3>1, KillStepSame DEF KillAnswered, Go, Footing, Shape
      <3>2. CASE ~KillAnswered(k)
        BY <3>2, KillStepSame DEF KillStep, KillByWorkspaceId, HookAwaited, KillEnds, Erased, Swept,
               Request, Go, Footing, Shape
      <3> QED
        BY <3>1, <3>2
    <2> QED
      BY <2>1, <2>2, <2>3, KillStepSame DEF FitsAt, Busy, Initializing, Recording
  <1>2. ASSUME ToErase(k), Hooking' = Hooking, Saving' = Saving PROVE ToErase(k)'
    <2>1. Recording(k) /\ k \in deletes /\ step[k] \in {"killing", "hooks"}
      BY <1>2 DEF ToErase
    <2>2. KillAnswered(k) /\ Hooking # {}
      <3>1. ~BeginCleanup(k)
        <4>1. historyGeneration \in Nat /\ historyGeneration' = historyGeneration
          BY OpTypes DEF Footing, Settling
        <4>2. BeginCleanup(k) => historyGeneration' = historyGeneration + 1
          BY Zenon DEF BeginCleanup
        <4> QED
          BY <4>1, <4>2
      <3>2. k \in Placed
        BY <1>2 DEF ToErase
      <3> QED
        BY <2>1, <3>1, <3>2 DEF Clean, KillStep, KillByWorkspaceId, KillAnswered, HookAwaited, KillEnds, Erased, Swept,
               NextOf, Unused
    <2>3. PICK h \in Hooking : (\A g \in Hooking : g <= h) /\ on' = [on EXCEPT ![k] = h] /\ Go(k, "hooks")
      BY <2>1, <2>2 DEF KillAnswered
    <2>4. step'[k] = "hooks" /\ on'[k] = h
      BY <2>3, KillStepSame DEF Go, Footing, Shape, Awaiters
    <2>5. h \in Hooks /\ Saving \subseteq Hooking
      BY DEF Hooking, Saving
    <2> QED
      BY <1>2, <2>1, <2>3, <2>4, <2>5, KillStepSame DEF ToErase, Recording
  <1>3. TakesDown(k)' => TakesDown(k)
    BY KillStepSame
    DEF TakesDown, Recording, KillStep, KillByWorkspaceId, KillAnswered, HookAwaited, KillEnds, Erased, Swept,
        Request, Go, Footing, Shape
  <1>4. Aloof(k)
    BY <1>1, <1>2, <1>3, KillStepSame DEF Aloof
  <1> QED
    BY <1>4, AloofSettles DEF Footing

LEMMA KillCleansSettles ==
  ASSUME Footing, NEW k \in Kills,
         (KillAnswered(k) /\ Recording(k) /\ k \in deletes /\ Hooking = {}) \/ HookAwaited(k)
  PROVE  Settling'
  <1>1. KillStep(k) /\ (BeginCleanup(k) \/ BeginClose(k)) /\ (k \in Placed => BeginCleanup(k))
    BY DEF KillStep, KillAnswered, HookAwaited, Clean
  <1>2. /\ Recording(k) /\ k \in deletes /\ step[k] \in {"killing", "hooks"} /\ Go(k, "cleaning")
        /\ step[k] = "killing" => Hooking = {}
    <2>1. CASE HookAwaited(k)
      BY <1>1, <2>1, KillStepSame DEF HookAwaited, FitsAt
    <2>2. CASE KillAnswered(k) /\ Recording(k) /\ k \in deletes /\ Hooking = {}
      BY <2>2 DEF KillAnswered
    <2> QED
      BY <2>1, <2>2
  <1>3. step'[k] = "cleaning" /\ Recording(k)'
    BY <1>1, <1>2, KillStepSame DEF Go, Footing, Shape, Recording
  <1>4. ~Busy(k)
    BY <1>1, <1>2, KillStepSame DEF FitsAt
  <1>5. FitsAt(k)'
    <2>1. op'[k].at \in {"closing", "removing", "idle", "cleanAfterInit", "closeAfterInit"}
      BY <1>1, <1>4, KillStepSame, CloseBegins DEF Busy, Footing, Settling
    <2>2. ~Initializing(k)'
      BY <2>1 DEF Initializing, InitSteps
    <2> QED
      BY <1>1, <1>3, <2>2, KillStepSame DEF FitsAt
  <1>6. ~Wanted
    BY <1>2 DEF Footing, Settling, NotEnding, TakesDown
  <1>7. ToErase(k) => Saving = {}
    <2>1. CASE step[k] = "killing"
      BY <1>2, <2>1 DEF Saving, Hooking
    <2>2. CASE step[k] = "hooks"
      <3>1. on[k] \notin Hooking
        BY <2>2, CreateStepSets DEF HookAwaited, KillAnswered, Settled, Hooking, Ends, CreateEnds
      <3> QED
        BY <2>2, <3>1 DEF ToErase
    <2> QED
      BY <1>2, <2>1, <2>2
  <1>8. TakesDown(k)
    BY <1>2 DEF TakesDown
  <1>9. Closes(k)
    BY <1>1, <1>4, <1>5, <1>6, <1>7, <1>8, KillStepSame DEF Closes, ToErase
  <1> QED
    BY <1>9, ClosesSettles DEF Footing

LEMMA KillSettles ==
  ASSUME Footing, NEW k \in Kills,
         Kill(k) \/ KillByWorkspaceId(k) \/ KillAnswered(k) \/ HookAwaited(k) \/ KillEnds(k) \/ Swept(k) \/ Erased(k)
  PROVE  Settling'
  <1>1. CASE Kill(k)
    <2>1. KillPane(k) /\ step[k] = "unused" /\ pane[k] \in Panes
      BY <1>1, Callers DEF Kill, NextOf, Unused, Footing, Shape
    <2> QED
      BY <2>1, KillPaneSettles
  <1>2. CASE Swept(k) /\ Found(k)
    <2>1. KillPane(k) /\ step[k] = "sweeping"
      BY <1>2 DEF Swept
    <2>2. pane[k] \in Panes
      BY <2>1, Callers DEF Footing, Shape
    <2> QED
      BY <2>1, <2>2, KillPaneSettles
  <1>3. CASE KillByWorkspaceId(k) \/ KillEnds(k) \/ (Swept(k) /\ ~Found(k))
    <2>1. KillStep(k) /\ UNCHANGED historyVars
      BY <1>3 DEF KillStep, KillByWorkspaceId, KillEnds, Swept
    <2> QED
      BY <2>1, KillWaitsSettles DEF historyVars
  <1>4. CASE Erased(k)
    BY <1>4, KillWaitsSettles DEF KillStep, Erased
  <1>5. CASE KillAnswered(k) \/ HookAwaited(k)
    <2>1. CASE (KillAnswered(k) /\ Recording(k) /\ k \in deletes /\ Hooking = {}) \/ HookAwaited(k)
      BY <2>1, KillCleansSettles
    <2>2. CASE KillAnswered(k) /\ UNCHANGED historyVars
      BY <2>2, KillWaitsSettles DEF KillStep, historyVars
    <2> QED
      BY <1>5, <2>1, <2>2 DEF KillAnswered
  <1> QED
    BY <1>1, <1>2, <1>3, <1>4, <1>5

(* Clearing the scrollback.                                                *)
LEMMA ClearSettles ==
  ASSUME Footing, NEW x \in Clears, Clear(x) \/ ClearStep(x)
  PROVE  Settling'
  <1> USE DEF managerVars, paramVars, callVars, faultVars
  <1>1. x \in Issuers \ Hooks /\ x \notin Creates /\ x \notin Kills /\ FitsAt(x)
    BY Callers, CallersDiffer DEF Footing, Settling, Fits
  <1>2. /\ pane' = pane /\ UNCHANGED <<deletes, overrun, disturbed, sessions, deletedHistory, spared>>
        /\ on' = on \/ \E d : on' = [on EXCEPT ![x] = d]
    BY DEF Clear, ClearStep
  <1>3. Deleted' = Deleted /\ Wanted' = Wanted
    BY <1>2 DEF Deleted, Wanted
  <1>4. CASE Clear(x)
    <2>1. /\ Go(x, "clearing") /\ BeginClose(x) /\ step[x] = "unused" /\ Recording(x)
          /\ on' = [on EXCEPT ![x] = sessions[Recorded].by]
      BY <1>4 DEF Clear, NextOf, Unused
    <2>2. x \notin Begun /\ ~Busy(x)
      BY <1>1, <2>1 DEF Begun, Ends, CreateEnds, FitsAt
    <2>3. Alone(x) /\ step'[x] = "clearing" /\ on'[x] = sessions[Recorded].by
      BY <1>1, <1>2, <2>1, <2>2, CallAlone DEF Footing, Awaiters
    <2>4. Reopens(x)'
      BY <1>2, <2>1, <2>3 DEF Reopens, Recording
    <2>5. FitsAt(x)'
      <3>1. op'[x].at \in {"closing", "removing", "idle", "closeAfterInit"}
        <4>1. CloseWriter(x, FALSE)
          BY <2>1 DEF BeginClose
        <4> QED
          BY <1>1, <4>1, CloseWriterDoes DEF Footing, Settling
      <3>2. ~Initializing(x)'
        BY <3>1, CloserSteps
      <3> QED
        BY <1>1, <2>3, <3>1, <3>2 DEF FitsAt
    <2>6. Closes(x)
      BY <1>1, <1>2, <1>3, <2>1, <2>2, <2>3, <2>4, <2>5 DEF Closes
    <2> QED
      BY <2>6, ClosesSettles DEF Footing
  <1>5. CASE ClearStep(x) /\ step[x] = "clearing" /\ sessions[Recorded] = [by |-> on[x], alive |-> TRUE]
    <2>1. Go(x, "reopening") /\ BeginInit(x)
      BY <1>5 DEF ClearStep
    <2>2. x \notin Begun
      BY <1>1, <1>5 DEF Begun, Ends, CreateEnds
    <2>3. Alone(x) /\ step'[x] = "reopening"
      BY <1>1, <1>2, <2>1, <2>2, CallAlone
    <2>4. x \in Begun'
      BY <2>3 DEF Begun
    <2>5. FitsAt(x)'
      <3>1. op'[x].at \in InitSteps
        BY <1>1, <2>1, OpTypes DEF BeginInit, InitSteps, Footing, Settling
      <3>2. Initializing(x)' /\ op'[x].at # "cleanAfterInit"
        BY <3>1 DEF Initializing, InitSteps
      <3> QED
        BY <1>1, <2>3, <3>2 DEF FitsAt
    <2>6. ~Deleted'
      BY <1>3, <1>5 DEF Footing, Settling, Wiped
    <2>7. Wanted' => \A k \in Kills : ~TakesDown(k)'
      BY <1>1, <1>3, <2>3, OthersAlone DEF Footing, Settling, NotEnding
    <2> QED
      BY <2>1, <2>2, <2>3, <2>4, <2>5, <2>6, <2>7, OpensSettles DEF BeginsInit, Footing
  <1>6. CASE /\ ClearStep(x) /\ Go(x, "done") /\ UNCHANGED historyVars
             /\ step[x] = "clearing" => sessions[Recorded] # [by |-> on[x], alive |-> TRUE]
    <2>1. ~Busy(x) /\ step[x] \in {"clearing", "reopening"}
      BY <1>6 DEF ClearStep, HistoryDone, Busy
    <2>2. step'[x] = "done" /\ x \in Begun'
      BY <1>1, <1>6 DEF Go, Footing, Shape, Begun, Ends
    <2>3. Alone(x)
      BY <1>1, <1>2, <1>6, <2>2, CallAlone
    <2>4. FitsAt(x)'
      BY <1>1, <1>6, <2>1 DEF FitsAt, Busy, historyVars
    <2>5. Reopens(x) => ~Wanted'
      <3>1. sessions[Recorded] \in [by : Creates \cup {None}, alive : BOOLEAN]
        BY IssuersAssumption DEF Footing, Kept
      <3> QED
        BY <1>3, <1>6, <3>1 DEF Reopens, Wanted
    <2>6. Aloof(x)
      BY <1>1, <1>2, <1>3, <1>6, <2>3, <2>4, <2>5 DEF Aloof, historyVars
    <2> QED
      BY <2>6, AloofSettles DEF Footing
  <1> QED
    BY <1>4, <1>5, <1>6 DEF ClearStep

(* What is no step of a call.                                              *)
LEMMA StillSettles ==
  ASSUME Footing, UNCHANGED <<step, on, pane, deletes, deletedHistory, spared, overrun>>, UNCHANGED historyVars,
         disturbed \subseteq disturbed',
         sessions'[Recorded].alive => sessions[Recorded].alive /\ sessions'[Recorded].by = sessions[Recorded].by
  PROVE  Settling'
  <1>1. /\ Restarter \in Issuers \ Hooks /\ Restarter \notin Creates /\ Restarter \notin Kills
        /\ Restarter \notin Clears /\ FitsAt(Restarter)
    BY Callers, CallersDiffer DEF Footing, Settling, Fits
  <1>2. Alone(Restarter)
    BY <1>1 DEF Alone, Begun
  <1>3. FitsAt(Restarter)'
    BY <1>1 DEF FitsAt, Busy, Initializing, Recording, historyVars
  <1>4. Deleted' = Deleted
    BY DEF Deleted
  <1>5. Aloof(Restarter)
    BY <1>1, <1>2, <1>3, <1>4 DEF Aloof, historyVars
  <1> QED
    BY <1>5, AloofSettles DEF Footing

LEMMA EventSettles ==
  ASSUME Footing, NEW p \in Panes, ExitArrives(p) \/ TimerFires(p) \/ ShellExits(p)
  PROVE  Settling'
  <1> USE DEF managerVars, paramVars, callVars, faultVars
  <1>1. /\ UNCHANGED <<step, on, pane, deletes, deletedHistory, spared, overrun>>
        /\ disturbed \subseteq disturbed'
    BY DEF ExitArrives, TimerFires, ShellExits
  <1>2. sessions'[Recorded].alive => sessions[Recorded].alive /\ sessions'[Recorded].by = sessions[Recorded].by
    <2>1. CASE sessions' = sessions
      BY <2>1
    <2>2. CASE ExitArrives(p)
      BY <2>2, IssuersAssumption DEF ExitArrives, Dead, Footing, Kept
    <2>3. CASE TimerFires(p)
      BY <2>3, IssuersAssumption DEF TimerFires, NoSession, Footing, Kept
    <2> QED
      BY <2>1, <2>2, <2>3 DEF ShellExits
  <1>3. CASE UNCHANGED historyVars
    BY <1>1, <1>2, <1>3, StillSettles
  <1>4. CASE ExitArrives(p) /\ p = Recorded
    <2>1. PICK e \in Exits : HistoryDone(e) /\ BeginClose(e)
      BY <1>4 DEF ExitArrives
    <2>2. e \in Issuers \ Hooks /\ e \notin Creates /\ e \notin Kills /\ e \notin Clears /\ ~Busy(e)
      BY <2>1, Callers, CallersDiffer DEF HistoryDone, Busy
    <2>3. Alone(e)
      BY <1>1, <2>2 DEF Alone, Begun
    <2>4. FitsAt(e)'
      <3>1. op'[e].at \in {"closing", "removing", "idle", "closeAfterInit"}
        <4>1. CloseWriter(e, FALSE)
          BY <2>1 DEF BeginClose
        <4> QED
          BY <2>2, <4>1, CloseWriterDoes DEF Footing, Settling
      <3>2. ~Initializing(e)'
        BY <3>1, CloserSteps
      <3> QED
        BY <2>2, <3>1, <3>2 DEF FitsAt
    <2>5. ~sessions'[Recorded].alive /\ Deleted' = Deleted
      BY <1>1, <1>4, IssuersAssumption DEF ExitArrives, Dead, Footing, Kept, Deleted
    <2>6. Closes(e)
      BY <2>1, <2>2, <2>3, <2>4, <2>5 DEF Closes, Wanted
    <2> QED
      BY <2>6, ClosesSettles DEF Footing
  <1> QED
    BY <1>3, <1>4 DEF ExitArrives, TimerFires, ShellExits

LEMMA RestartSettles ==
  ASSUME Footing, Restart
  PROVE  Settling'
  <1>1. /\ Restarter \in Issuers \ Hooks /\ Restarter \notin Creates /\ Restarter \notin Kills
        /\ Restarter \notin Clears
    BY Callers, CallersDiffer
  <1>2. /\ HistoryDone(Restarter) /\ CloseAll(Restarter)
        /\ UNCHANGED <<on, pane, deletes, overrun, spared>> /\ deletedHistory' = {}
        /\ disturbed \subseteq disturbed'
        /\ sessions' = [p \in Panes |-> NoSession]
        /\ step' = [i \in Issuers |-> IF step[i] = "queued" THEN "failed" ELSE step[i]]
    BY DEF Restart, LoseConnection, paramVars
  <1>3. Alone(Restarter)
    BY <1>1, <1>2 DEF Alone, Begun
  <1>4. ~sessions'[Recorded].alive /\ ~Deleted'
    BY <1>2, IssuersAssumption DEF NoSession, Deleted
  <1>5. FitsAt(Restarter)'
    <2>1. op'[Restarter].at \in {"closing", "removing", "idle", "closeAfterInit"}
      <3>1. CASE CloseNow(Restarter, FALSE)
        BY <1>1, <3>1, CloseNowDoes DEF Footing, Settling
      <3>2. CASE AwaitInit(Restarter, "closeAfterInit", FALSE)
        BY <1>1, <3>2, AwaitInitDoes DEF Footing, Settling
      <3>3. CASE op' = op
        BY <1>2, <3>3 DEF HistoryDone
      <3> QED
        BY <1>2, <3>1, <3>2, <3>3 DEF CloseAll
    <2>2. ~Initializing(Restarter)'
      BY <2>1, CloserSteps
    <2> QED
      BY <1>1, <2>1, <2>2 DEF FitsAt
  <1>6. Closes(Restarter)
    BY <1>1, <1>2, <1>3, <1>4, <1>5 DEF Closes, Wanted, HistoryDone, Busy
  <1> QED
    BY <1>6, ClosesSettles DEF Footing

-----------------------------------------------------------------------------
(* What a step does to the service and to the history.                     *)
HistoryStep ==
    \/ /\ UNCHANGED <<managerVars, limiterVars, callVars, daemonVars, faultVars>>
       /\ \/ \E i \in Issuers : HistoryTurn(i) \/ (HistoryIO(i) /\ \A j \in Issuers : ~HistoryDue(j))
          \/ WriterCloses
    \/ \E i \in Issuers : HistoryFails(i)

CallStep ==
    \/ \E c \in Creates : CreationStep(c)
    \/ \E k \in Kills : \/ Kill(k) \/ KillByWorkspaceId(k) \/ KillAnswered(k) \/ HookAwaited(k)
                        \/ KillEnds(k) \/ Swept(k) \/ Erased(k)
    \/ \E x \in Clears : Clear(x) \/ ClearStep(x)
    \/ \E h \in Hooks : Hook(h) \/ HookStep(h) \/ HookSaved(h)

EventStep ==
    \/ \E i \in Issuers : RequestFails(i)
    \/ \E p \in Panes : ExitArrives(p) \/ TimerFires(p) \/ ShellExits(p)
    \/ DaemonHandles \/ (\E c \in Creates : Spawned(c)) \/ Disconnect \/ Restart

LEMMA NextCases ==
  ASSUME [Next]_vars
  PROVE  UNCHANGED serviceVars \/ HistoryStep \/ CallStep \/ EventStep
  <1>1. CASE Turn
    BY <1>1 DEF Turn, HistoryStep, CallStep, CreationStep
  <1>2. CASE AllQuiet /\ ServiceStep
    <2>1. \A j \in Issuers : ~HistoryDue(j)
      BY <1>2 DEF AllQuiet, Quiet
    <2>2. ASSUME NEW i \in Issuers, Progress(i) PROVE HistoryStep \/ CallStep
      BY <2>1, <2>2 DEF Progress, HistoryStep, CallStep, CreationStep
    <2> QED
      BY <1>2, <2>2 DEF ServiceStep, HistoryStep, EventStep
  <1>3. ASSUME NEW at, NEW timer, Create(at, timer) \/ Ensure(timer) PROVE UNCHANGED serviceVars \/ CallStep
    BY <1>3 DEF Create, Ensure, Fail, CallStep, CreationStep
  <1>4. Sweeps \subseteq Kills
    BY IssuersAssumption
  <1>5. CASE TunnelTurn
    <2>1. \/ UNCHANGED serviceVars
          \/ \E k \in Kills : Kill(k) \/ KillByWorkspaceId(k)
          \/ \E at, timer : Create(at, timer) \/ Ensure(timer)
      BY <1>5, IssuersAssumption
      DEF TunnelTurn, EnsureGoesOn, SweepEnds, StopEnds, Restarted, Fail, Sweep
    <2> QED
      BY <1>3, <2>1 DEF CallStep
  <1>6. CASE Reconcile \/ RetryFires \/ Erase \/ GiveUp \/ Start \/ Stop \/ RestartTunnel \/ DeleteWorkspace
    <2>1. \/ UNCHANGED serviceVars
          \/ \E k \in Kills : Kill(k) \/ KillByWorkspaceId(k)
          \/ \E timer : Ensure(timer)
      BY <1>6, IssuersAssumption
      DEF Reconcile, RetryFires, Erase, GiveUp, Start, Stop, RestartTunnel, DeleteWorkspace, StopSession,
          Sweep
    <2> QED
      BY <1>3, <2>1 DEF CallStep
  <1>7. CASE (\E p \in Panes : Exit(p)) \/ RestartService
    BY <1>7 DEF Exit, RestartService, EventStep
  <1>8. CASE UserStep(Panes \ {Tunnel})
    BY <1>4, <1>8 DEF UserStep, CallStep, CreationStep
  <1>9. CASE UNCHANGED vars
    BY <1>9 DEF vars
  <1> QED
    BY <1>1, <1>2, <1>5, <1>6, <1>7, <1>8, <1>9 DEF Next

LEMMA AwaitersKept ==
  ASSUME Awaiters, [Next]_vars
  PROVE  Awaiters'
  <1>1. on' = on \/ \E i, d : on' = [on EXCEPT ![i] = d]
    <2> USE DEF callVars, serviceVars
    <2>1. CASE UNCHANGED serviceVars \/ HistoryStep \/ EventStep
      BY <2>1 DEF HistoryStep, HistoryFails, EventStep, RequestFails, ExitArrives, TimerFires, ShellExits,
                  DaemonHandles, Spawned, Disconnect, Restart
    <2>2. CASE CallStep
      BY <2>2 DEF CallStep, CreationStep, CreateOrAttach, WaitedForPending, Enter, Joined, Begin, Listed, Purged,
                  ColdRestore, Refused, Created, Written, Discarded, Dropped, Frame, Kill, KillPane,
                  KillByWorkspaceId, KillAnswered, HookAwaited, KillEnds, Swept, Erased, Clear, ClearStep,
                  Hook, HookStep, HookSaved
    <2> QED
      BY <2>1, <2>2, NextCases
  <1> QED
    BY <1>1 DEF Awaiters

LEMMA SettlingInductive ==
  ASSUME Footing, HistoryTypeOK', [Next]_vars
  PROVE  Settling'
  <1> USE DEF managerVars, callVars, paramVars, faultVars
  <1>1. CASE UNCHANGED serviceVars
    BY <1>1, StillSettles DEF serviceVars
  <1>2. CASE HistoryStep
    <2>1. CASE UNCHANGED <<managerVars, limiterVars, callVars, daemonVars, faultVars>>
               /\ \E i \in Issuers : HistoryTurn(i) \/ (HistoryIO(i) /\ \A j \in Issuers : ~HistoryDue(j))
      <3>1. Inside
        BY <2>1 DEF Inside
      <3> QED
        BY <2>1, <3>1, InsideSettles DEF Footing, Certain
    <2>2. CASE UNCHANGED <<managerVars, limiterVars, callVars, daemonVars, faultVars>> /\ WriterCloses
      BY <2>2, WriterSettles DEF Inside, Footing
    <2>3. CASE \E i \in Issuers : HistoryFails(i)
      <3>1. PICK i \in Issuers : HistoryFails(i)
        BY <2>3
      <3>2. Inside /\ ((InitFails(i) /\ Recorded \in disturbed') \/ (RemoveFails(i) /\ Recorded \in spared'))
        BY <3>1 DEF Inside, HistoryFails, Spares
      <3> QED
        BY <3>2, InsideSettles DEF Footing, Certain
    <2> QED
      BY <1>2, <2>1, <2>2, <2>3 DEF HistoryStep
  <1>3. CASE CallStep
    BY <1>3, CreationSettles, KillSettles, ClearSettles, HookCalls, HookSettles DEF CallStep, Footing
  <1>4. CASE EventStep
    <2>1. CASE (\E i \in Issuers : RequestFails(i)) \/ DaemonHandles \/ (\E c \in Creates : Spawned(c)) \/ Disconnect
      <3>1. /\ UNCHANGED <<step, on, pane, deletes, deletedHistory, spared, overrun, sessions>>
            /\ UNCHANGED historyVars /\ disturbed \subseteq disturbed'
        BY <2>1 DEF RequestFails, DaemonHandles, Spawned, Disconnect, LoseConnection
      <3> QED
        BY <3>1, StillSettles
    <2> QED
      BY <1>4, <2>1, EventSettles, RestartSettles DEF EventStep
  <1> QED
    BY <1>1, <1>2, <1>3, <1>4, NextCases

LEMMA SettlingInit ==
  ASSUME Init
  PROVE  Settling /\ Awaiters
  <1>1. /\ HistoryTypeOK /\ initPromise = None /\ deletedHistory = {}
        /\ op = [i \in Issuers |-> Idle] /\ step = [i \in Issuers |-> "unused"]
        /\ on = [i \in Issuers |-> None]
        /\ sessions = [p \in Panes |-> NoSession]
    BY TypesInit DEF Init, ServiceInit, HistoryInit, Types
  <1>2. \A i \in Issuers : op[i].at = "idle" /\ step[i] = "unused"
    BY <1>1 DEF Idle
  <1>3. /\ Inits = {} /\ \A i \in Issuers : ~Busy(i) /\ ~WaitsForInit(i) /\ op[i].at # "applying"
    BY <1>2 DEF Inits, Initializing, InitSteps, Busy, WaitsForInit
  <1>4. Lining
    BY <1>1, <1>3 DEF Lining, Promised, Ordered, Applied
  <1>5. Fits
    BY <1>2, <1>3 DEF Fits, FitsAt
  <1>6. HooksInOrder
    BY <1>2, Callers DEF HooksInOrder, Hooking
  <1>7. ~Deleted /\ ~Wanted
    BY <1>1, IssuersAssumption DEF Deleted, Wanted, NoSession
  <1> QED
    BY <1>1, <1>4, <1>5, <1>6, <1>7 DEF Settling, Wiped, Served, NotEnding, Awaiters

(* Once nothing is going on for the recorded pane, a history whose pane    *)
(* was killed for good, by a call that knew its workspace, is not on disk, *)
(* unless a session was begun since or a removal of the files failed; and  *)
(* a session that is alive is being recorded, except when a request of the *)
(* pane failed, or it was created anew before a kill of it was through:    *)
(* whatever initialisations, closes, removals, hooks, clearings and        *)
(* restarts awaited each other in between.                                 *)
THEOREM HistorySettled == Spec => []HistorySettles
  <1> DEFINE Inv == Footing /\ KillInv /\ Records /\ Types
  <1>1. Init => Inv
    <2> SUFFICES ASSUME Init PROVE Inv
      OBVIOUS
    <2>1. KillInv
      <3>1. wire = <<>> /\ Len(wire) = 0 /\ spawning = {} /\ killed = {}
        BY EmptySeq DEF Init, ServiceInit
      <3> QED
        BY <3>1 DEF KillInv, Asked, Once, Coming, Ending
    <2> QED
      BY <2>1, ShapeInit, RecordsInit, TypesInit, CertainInit, SettlingInit DEF Footing, Records
  <1>2. Inv /\ [Next]_vars => Inv'
    <2> SUFFICES ASSUME Inv, [Next]_vars PROVE Inv'
      OBVIOUS
    <2>1. Effect /\ Change
      BY NextEffect, NextChange DEF Footing
    <2>2. (Shape /\ SlotInv)'
      BY <2>1, ShapeSlots DEF Footing
    <2>3. KillInv'
      BY <2>1, KillsInductive DEF Footing
    <2>4. (Dated /\ Held)' /\ Records'
      BY <2>1, DatedInductive, RecordsInductive DEF Footing
    <2>5. Types'
      BY ServiceTypes DEF Footing
    <2>6. Certain'
      BY <2>1, <2>2, <2>4, OutdatedInductive, MatchingInductive DEF Footing, Certain
    <2>7. Settling' /\ Awaiters'
      BY <2>5, SettlingInductive, AwaitersKept DEF Types, Footing
    <2> QED
      BY <2>2, <2>3, <2>4, <2>5, <2>6, <2>7 DEF Footing, Records
  <1>3. Inv => HistorySettles
    <2> SUFFICES ASSUME Inv, AtRest(Recorded)
                 PROVE  /\ Deleted => disk = "none"
                        /\ Wanted => writer # None
      BY DEF HistorySettles, Deleted, Wanted
    <2>1. /\ \A i \in Issuers : Recording(i) => ~Active(i)
          /\ \A i \in Issuers : op[i].at = "idle"
      BY DEF AtRest, Recording, HistoryDone
    <2>2. \A k \in Kills : ~ToErase(k)
      BY <2>1, Callers DEF ToErase, Active, KillSteps
    <2>3. \A i \in Issuers : ~Erasing(i)
      BY <2>1 DEF Erasing
    <2>4. \A c \in Creates : ~Renews(c)
      BY <2>1, Callers DEF Renews, Active, CreateSteps
    <2>5. \A x \in Clears : ~Reopens(x)
      BY <2>1, Callers DEF Reopens, Active, OtherSteps
    <2>6. ~Promising
      BY <2>1 DEF Promising, Footing, Settling, Lining, Promised, Inits, Initializing, InitSteps
    <2>7. Wiped /\ Served
      BY DEF Footing, Settling
    <2> QED
      BY <2>2, <2>3, <2>4, <2>5, <2>6, <2>7 DEF Wiped, Gone, Served, BeingRecorded
  <1> QED
    BY <1>1, <1>2, <1>3, PTL DEF Spec

-----------------------------------------------------------------------------
(* The calls for the tunnel's pane.  One creation of it is under way at a  *)
(* time, the ensure's (Lone), so none ever joins or awaits another (Plain);*)
(* and a kill of it fails only if one of its requests did.                 *)
Tunnels == {c \in Creates : pane[c] = Tunnel}
TunnelKills == {k \in Kills : pane[k] = Tunnel}
Ongoing == {c \in Tunnels : step[c] \in CreateSteps}

Pledged == \A p \in Panes : pending[p] # None => Slotted(pending[p]) /\ pane[pending[p]] = p
Owned == \A p \in Panes : sessions[p].alive => sessions[p].by # None

PlainSteps == {"unused", "queued", "ok", "killed", "failed", "changed"} \cup (Holding \ {"writing"})
Lone == \A c \in Ongoing : ensuring.at \in {"creating", "recreating"} /\ ensuring.by = c
Plain == Tunnel \notin sticky /\ \A c \in Tunnels : step[c] \in PlainSteps
Directed ==
    /\ ensuring # NotEnsuring => pane[ensuring.by] = Tunnel
    /\ \A k \in StopsOpen : pane[k] = Tunnel
Unfailed ==
    \A k \in TunnelKills :
        /\ step[k] \in {"unused", "done", "error"} \cup KillSteps
        /\ Calm(Tunnel) => /\ answer[k] \in {"none", "ok"} /\ step[k] # "error"
                           /\ step[k] \in {"hooks", "cleaning"} => answer[k] = "ok"

(* A tunnel that is enabled runs and is watched, or somebody still has to  *)
(* see to it; and it runs when its creation says so (Landed).              *)
Present == daemon[Tunnel] # "none" \/ exits[Tunnel] > 0
Certainly == Sound(Tunnel) /\ Tunnel \notin lost
KnownWhile == ensuring # NotEnsuring => known \/ forgotten
Landed ==
    /\ Certainly /\ ensuring # NotEnsuring /\ ensuring.at # "replacing" /\ step[ensuring.by] = "ok"
    => Present
Watching ==
    enabled /\ Certainly =>
        \/ forgotten \/ retryTimer \/ ensuring # NotEnsuring \/ StopsOpen # {}
        \/ reconciling = "expected"
        \/ known /\ status = "connected" /\ Present

(* A tunnel that is disabled was killed; or what there was of it is stale  *)
(* and gone, or will be when the tunnels are reconciled; or a sweep has    *)
(* still to look for it, and will find it.                                 *)
Quelled ==
    /\ \A c \in Ongoing : gen[c] # generation[Tunnel]
    /\ \A k \in 1..Len(wire) : wire[k].kind = "create" => pane[wire[k].from] # Tunnel
    /\ \A c \in spawning : pane[c] # Tunnel
Notable ==
    daemon[Tunnel] = "live" =>
        sessions[Tunnel].alive \/ \E c \in Tunnels : Up(c) \/ (step[c] = "discarding" /\ answer[c] = "none")
Sweeping(s) ==
    /\ s \in Sweeps \cap TunnelKills /\ step[s] = "sweeping"
    /\ answer[s] = "ok" /\ Tunnel \notin listed[s] /\ Tunnel \notin lost => Notable
Off ==
    ~enabled /\ ~ungated /\ Sound(Tunnel) =>
        \/ Tunnel \in killed
        \/ Quelled /\ (reconciling = "unexpected" \/ daemon[Tunnel] # "live")
        \/ Tunnel \in lost /\ Ongoing = {}
        \/ \E s \in Sweeps : Sweeping(s)

TunnelInv == Pledged /\ Owned /\ Lone /\ Plain /\ Directed /\ Unfailed /\ KnownWhile /\ Landed /\ Watching /\ Off
Base == Footing /\ KillInv /\ Records /\ Types /\ TunnelTyped /\ Requests

(* Whatever made the pending promise of a pane has a slot or queues for it.*)
LEMMA PledgedInductive ==
  ASSUME Shape, SlotInv, Held, Kept, Pledged, Change
  PROVE  Pledged'
  <1>1. pending \in [Panes -> Creates \cup {None}]
    BY DEF Held
  <1>2. ASSUME pending' = pending, pane' = pane,
               \A c \in Creates : Slotted(c) => Slotted(c)'
        PROVE  Pledged'
    BY <1>1, <1>2 DEF Pledged
  <1>3. CASE Stays
    BY <1>2, <1>3 DEF Stays, Slotted
  <1>4. CASE \E i \in Issuers, s \in Steps : Goes(i, s)
    BY <1>2, <1>4, Callers DEF Goes, Slotted, Aside, Shape
  <1>5. CASE \E c \in Creates : Orders(c)
    BY <1>2, <1>5, Callers, SlottedSteps DEF Orders, Slotted, Aside, Shape
  <1>6. CASE \E c \in Creates : Discards(c)
    BY <1>2, <1>6, Callers, SlottedSteps DEF Discards, Slotted, Aside, Shape
  <1>7. CASE \E k \in Issuers : Terminates(k)
    <2>1. PICK k \in Issuers : Terminates(k)
      BY <1>7
    <2>2. ~Slotted(k) /\ pending' = pending /\ pane' = pane /\ step' = [step EXCEPT ![k] = "killing"]
      BY <2>1 DEF Terminates, Aside, Slotted, Holding, CreateSteps
    <2> QED
      BY <1>2, <2>2, Callers DEF Slotted, Shape
  <1>8. CASE \E c \in Creates : Loops(c)
    <2>1. PICK c \in Creates : Loops(c)
      BY <1>8
    <2>2. ~Slotted(c) /\ pane' = pane /\ pane[c] \in Panes
      BY <2>1, SlottedSteps DEF Loops, Aside, Slotted
    <2>3. CASE pending' = pending /\ \E s \in {"joined", "waiting"} : step' = [step EXCEPT ![c] = s]
      BY <1>2, <2>2, <2>3, Callers DEF Slotted, Shape
    <2>4. CASE /\ pending' = [pending EXCEPT ![pane[c]] = c]
               /\ \E s \in {"granted", "queued"} : step' = [step EXCEPT ![c] = s]
      <3>1. Slotted(c)' /\ \A d \in Creates : Slotted(d) => Slotted(d)'
        BY <2>2, <2>4, Callers DEF Slotted, Shape, Holding, CreateSteps
      <3> QED
        BY <1>1, <2>2, <2>4, <3>1 DEF Pledged
    <2> QED
      BY <2>1, <2>3, <2>4 DEF Loops
  <1>9. ASSUME NEW c \in Creates, NEW s \in Ends, Settle(c, s), pane' = pane, step[c] \in Holding
        PROVE  Pledged'
    <2>1. /\ \A j \in Issuers \ {c} : step'[j] = step[j] \/ (step[j] = "queued" /\ step'[j] = "granted")
          /\ pending' = [pending EXCEPT ![pane[c]] = IF @ = c THEN None ELSE @]
      BY <1>9, SettleMoves
    <2>2. \A d \in Creates : Slotted(d) /\ d # c => Slotted(d)'
      BY <2>1, Callers DEF Slotted, Holding, CreateSteps
    <2>3. \A p \in Panes : pending'[p] # None => pending'[p] = pending[p] /\ pending[p] # c
      BY <1>1, <2>1 DEF Pledged
    <2> QED
      BY <1>1, <1>9, <2>2, <2>3 DEF Pledged
  <1>10. CASE \E c \in Creates, s \in Ends : Finishes(c, s)
    BY <1>9, <1>10 DEF Finishes, Aside
  <1>11. CASE \E c \in Creates : Opens(c)
    <2>1. PICK c \in Creates : Opens(c)
      BY <1>11
    <2>2. step[c] \in Holding /\ "ok" \in Ends /\ pane' = pane
      BY <2>1, SlottedSteps DEF Opens, Up, Aside, Ends, CreateEnds
    <2>3. CASE Settle(c, "ok")
      BY <1>9, <2>2, <2>3
    <2>4. CASE step' = [step EXCEPT ![c] = "writing"] /\ pending' = pending
      BY <1>2, <2>2, <2>4, Callers, SlottedSteps DEF Slotted, Shape
    <2> QED
      BY <2>1, <2>3, <2>4 DEF Opens
  <1>12. CASE OfDaemon /\ ~Restart
    <2>1. UNCHANGED <<pending, pane, step>>
      BY <1>12 DEF OfDaemon, RequestFails, ExitArrives, TimerFires, ShellExits, DaemonHandles, Spawned,
                   Disconnect, managerVars, callVars, paramVars
    <2> QED
      BY <1>2, <2>1 DEF Slotted
  <1>13. CASE Restart
    <2>1. /\ step' = [i \in Issuers |-> IF step[i] = "queued" THEN "failed" ELSE step[i]]
          /\ pending' = [p \in Panes |->
                 IF pending[p] # None /\ step[pending[p]] = "queued" THEN None ELSE pending[p]]
          /\ pane' = pane
      BY <1>13 DEF Restart, paramVars
    <2>2. \A d \in Creates : step[d] # "queued" => step'[d] = step[d]
      BY <2>1, Callers
    <2> QED
      BY <1>1, <2>1, <2>2 DEF Pledged, Slotted
  <1> QED
    BY <1>3, <1>4, <1>5, <1>6, <1>7, <1>8, <1>10, <1>11, <1>12, <1>13 DEF Change, OfCreation, OfDaemon

(* A record that says alive is of a session. *)
LEMMA OwnedInductive ==
  ASSUME Shape, Kept, Owned, Change
  PROVE  Owned'
  <1>1. sessions \in [Panes -> [by : Creates \cup {None}, alive : BOOLEAN]]
    BY DEF Kept
  <1>2. CASE sessions' = sessions
    BY <1>2 DEF Owned
  <1>3. CASE \E p \in Panes : Dead(p)
    BY <1>1, <1>3 DEF Owned, Dead
  <1>4. CASE \E p \in Panes, c \in Creates \cup {None} : \E b \in BOOLEAN :
                /\ sessions' = [sessions EXCEPT ![p] = [by |-> c, alive |-> b]]
                /\ b => c # None
    BY <1>1, <1>4 DEF Owned
  <1>5. CASE \E c \in Creates : Opens(c) \/ Discards(c)
    <2>1. PICK c \in Creates : Opens(c) \/ Discards(c)
      BY <1>5
    <2>2. pane[c] \in Panes /\ c # None
      BY <2>1, CreateStepSets, Callers, InPanes, NoneNotIssuer DEF Opens, Discards, Up
    <2>3. CASE Opens(c)
      <3>1. sessions' = [sessions EXCEPT ![pane[c]] = [by |-> c, alive |-> TRUE]]
        BY <2>3 DEF Opens
      <3> QED
        BY <1>4, <2>2, <3>1
    <2>4. CASE Discards(c)
      <3>1. sessions' = [sessions EXCEPT ![pane[c]] = [by |-> None, alive |-> FALSE]]
        BY <2>4 DEF Discards, NoSession
      <3> QED
        BY <1>4, <2>2, <3>1
    <2> QED
      BY <2>1, <2>3, <2>4
  <1>6. CASE Restart
    BY <1>6 DEF Restart, NoSession, Owned
  <1>7. CASE \E p \in Panes : TimerFires(p)
    BY <1>4, <1>7 DEF TimerFires, NoSession
  <1> QED
    BY <1>2, <1>3, <1>5, <1>6, <1>7
    DEF Change, OfCreation, OfDaemon, Stays, Goes, Loops, Orders, Finishes, Terminates, RequestFails, ExitArrives,
        ShellExits, DaemonHandles, Spawned, Disconnect, managerVars

-----------------------------------------------------------------------------
(* What a step is: the ensure begins a creation of the tunnel, which it    *)
(* does only when the binding is enabled or is marked as not read; or any  *)
(* other call or event goes on.                                            *)
Launches(c) ==
    /\ c \in Tunnels /\ CreateOrAttach(c) /\ Ongoing = {}
    /\ ensuring'.at \in {"creating", "recreating"} /\ ensuring'.by = c
    /\ enabled' \/ ungated'

Proceeds(c) ==
    \/ WaitedForPending(c) \/ Joined(c) \/ Begin(c) \/ Listed(c) \/ Purged(c) \/ ColdRestore(c)
    \/ Refused(c) \/ Created(c) \/ Written(c) \/ Discarded(c) \/ Dropped(c)

KillProceeds(k) ==
    \/ Kill(k) \/ KillByWorkspaceId(k) \/ KillAnswered(k) \/ HookAwaited(k) \/ KillEnds(k) \/ Swept(k)
    \/ Erased(k)

OtherCall ==
    \/ \E c \in Creates \ Tunnels : CreationStep(c)
    \/ \E c \in Tunnels : Proceeds(c)
    \/ \E k \in Kills : KillProceeds(k)
    \/ \E x \in Clears : Clear(x) \/ ClearStep(x)
    \/ \E h \in Hooks : Hook(h) \/ HookStep(h) \/ HookSaved(h)

DaemonEvent ==
    \/ \E i \in Issuers : RequestFails(i)
    \/ \E p \in Panes : TimerFires(p) \/ ShellExits(p)
    \/ DaemonHandles \/ (\E c \in Creates : Spawned(c)) \/ Disconnect
Event == DaemonEvent \/ \E p \in Panes : ExitArrives(p)

LEMMA NothingOngoing ==
  ASSUME Lone, ensuring = NotEnsuring \/ step[ensuring.by] \in Ends
  PROVE  Ongoing = {}
  BY CreateStepSets DEF Lone, NotEnsuring, Ongoing

LEMMA Launched ==
  ASSUME Lone, ensuring = NotEnsuring \/ step[ensuring.by] \in Ends,
         NEW at \in {"creating", "recreating"}, NEW timer, Create(at, timer), at = "creating" => enabled'
  PROVE  UNCHANGED serviceVars \/ \E c \in Tunnels : Launches(c)
  <1>1. CASE UNCHANGED serviceVars
    BY <1>1
  <1>2. CASE \E c \in Creates : /\ pane[c] = Tunnel /\ CreateOrAttach(c)
                                /\ ensuring' = [at |-> at, by |-> c]
                                /\ ungated' = (at = "recreating" /\ ~enabled')
    <2>1. PICK c \in Creates : /\ pane[c] = Tunnel /\ CreateOrAttach(c)
                               /\ ensuring' = [at |-> at, by |-> c]
                               /\ ungated' = (at = "recreating" /\ ~enabled')
      BY <1>2
    <2>2. enabled' \/ ungated'
      BY <2>1
    <2> QED
      BY <2>1, <2>2, NothingOngoing DEF Launches, Tunnels
  <1> QED
    BY <1>1, <1>2 DEF Create, Fail

LEMMA EnsureLaunches ==
  ASSUME Lone, NEW timer, Ensure(timer)
  PROVE  UNCHANGED serviceVars \/ \E c \in Tunnels : Launches(c)
  BY Launched DEF Ensure

LEMMA ServiceCases ==
  ASSUME AllQuiet, ServiceStep
  PROVE  HistoryStep \/ OtherCall \/ DaemonEvent
  <1>1. \A j \in Issuers : ~HistoryDue(j)
    BY DEF AllQuiet, Quiet
  <1>2. ASSUME NEW i \in Issuers, Progress(i) PROVE HistoryStep \/ OtherCall
    <2>1. CASE i \in Creates /\ (Listed(i) \/ ColdRestore(i) \/ Refused(i) \/ Created(i) \/ Discarded(i)
                                 \/ Purged(i) \/ Dropped(i))
      BY <2>1 DEF OtherCall, Proceeds, CreationStep
    <2>2. CASE i \in Kills /\ (KillAnswered(i) \/ Swept(i) \/ Erased(i) \/ KillEnds(i))
      BY <2>2 DEF OtherCall, KillProceeds
    <2>3. CASE i \in Hooks /\ HookSaved(i)
      BY <2>3 DEF OtherCall
    <2>4. CASE HistoryIO(i) /\ UNCHANGED <<managerVars, limiterVars, callVars, daemonVars, faultVars>>
      BY <1>1, <2>4 DEF HistoryStep
    <2> QED
      BY <1>2, <2>1, <2>2, <2>3, <2>4 DEF Progress
  <1> QED
    BY <1>2 DEF ServiceStep, HistoryStep, DaemonEvent

LEMMA TurnCases ==
  ASSUME Turn
  PROVE  HistoryStep \/ OtherCall
  <1>1. CASE \E c \in Creates : \/ WaitedForPending(c) \/ Joined(c) \/ Begin(c) \/ Written(c)
                                \/ Purged(c) \/ Dropped(c)
    BY <1>1 DEF OtherCall, Proceeds, CreationStep
  <1>2. CASE \E k \in Kills : HookAwaited(k) \/ KillEnds(k)
    BY <1>2 DEF OtherCall, KillProceeds
  <1> QED
    BY <1>1, <1>2 DEF Turn, HistoryStep, OtherCall

LEMMA UserCases ==
  ASSUME UserStep(Panes \ {Tunnel})
  PROVE  \/ \E c \in Creates \ Tunnels : CreateOrAttach(c)
         \/ \E k \in Kills \ TunnelKills : Kill(k) \/ KillByWorkspaceId(k)
         \/ \E x \in Clears : Clear(x)
         \/ \E h \in Hooks : Hook(h)
  BY IssuersAssumption DEF UserStep, Tunnels, TunnelKills

LEMMA StepCases ==
  ASSUME Lone, [Next]_vars
  PROVE  \/ UNCHANGED serviceVars \/ HistoryStep \/ OtherCall \/ Event \/ RestartService
         \/ \E c \in Tunnels : Launches(c)
  <1>1. Sweeps \subseteq Kills
    BY IssuersAssumption
  <1>2. CASE Turn
    BY <1>2, TurnCases
  <1>3. CASE AllQuiet /\ ServiceStep
    BY <1>3, ServiceCases DEF Event
  <1>4. CASE UserStep(Panes \ {Tunnel})
    BY <1>4, UserCases DEF OtherCall, KillProceeds, CreationStep
  <1>5. CASE EnsureGoesOn
    <2>1. \/ UNCHANGED serviceVars
          \/ \E k \in Kills : Kill(k)
          \/ step[ensuring.by] \in Ends /\ Create("recreating", retryTimer)
      BY <1>5 DEF EnsureGoesOn, Fail, Settled
    <2> QED
      BY <2>1, Launched DEF OtherCall, KillProceeds
  <1>6. CASE \/ SweepEnds \/ (\E k \in Kills : StopEnds(k)) \/ Erase \/ GiveUp \/ Stop \/ RestartTunnel
             \/ DeleteWorkspace
    <2>1. UNCHANGED serviceVars \/ \E k \in Kills : Kill(k) \/ KillByWorkspaceId(k)
      BY <1>1, <1>6 DEF SweepEnds, StopEnds, Erase, GiveUp, Stop, RestartTunnel, DeleteWorkspace, StopSession, Sweep
    <2> QED
      BY <2>1 DEF OtherCall, KillProceeds
  <1>7. CASE (\E k \in Kills : Restarted(k)) \/ Reconcile \/ RetryFires \/ Start
    <2>1. \/ UNCHANGED serviceVars
          \/ \E k \in Kills : Kill(k)
          \/ \E timer : Ensure(timer)
      BY <1>7 DEF Restarted, Reconcile, RetryFires, Start, StopSession
    <2> QED
      BY <2>1, EnsureLaunches DEF OtherCall, KillProceeds
  <1>8. CASE \E p \in Panes : Exit(p)
    BY <1>8 DEF Exit, Event
  <1>9. CASE UNCHANGED vars
    BY <1>9 DEF vars
  <1> QED
    BY <1>2, <1>3, <1>4, <1>5, <1>6, <1>7, <1>8, <1>9 DEF Next, TunnelTurn

-----------------------------------------------------------------------------
(* The steps that are not about the tunnel.                                *)
Elsewhere ==
    /\ pane' = pane
    /\ daemon'[Tunnel] = daemon[Tunnel] /\ exits'[Tunnel] = exits[Tunnel]
    /\ sessions'[Tunnel] = sessions[Tunnel] /\ generation'[Tunnel] = generation[Tunnel]
    /\ Tunnel \in killed => Tunnel \in killed'
    /\ Tunnel \in lost' <=> Tunnel \in lost
    /\ Tunnel \in sticky' => Tunnel \in sticky
    /\ \A c \in Tunnels :
          /\ gen'[c] = gen[c] /\ answer'[c] = answer[c]
          /\ step'[c] = step[c] \/ (step[c] = "queued" /\ step'[c] \in {"granted", "failed"})
    /\ \A s \in TunnelKills : step[s] = "sweeping" =>
          /\ step'[s] = "sweeping" /\ answer'[s] = answer[s]
          /\ s \in Sweeps => listed'[s] = listed[s]
    /\ \A k \in 1..Len(wire') : wire'[k].kind = "create" /\ pane[wire'[k].from] = Tunnel =>
          \E j \in 1..Len(wire) : wire[j] = wire'[k]
    /\ \A c \in spawning' : pane[c] = Tunnel => c \in spawning

(* What a call sends, if it is no creation of the tunnel.                  *)
LEMMA WireElsewhere ==
  ASSUME Shape, NEW i \in Issuers, NEW kind \in Kinds, wire' = Append(wire, [kind |-> kind, from |-> i]),
         kind = "create" => pane[i] # Tunnel
  PROVE  \A k \in 1..Len(wire') : wire'[k].kind = "create" /\ pane[wire'[k].from] = Tunnel =>
             \E j \in 1..Len(wire) : wire[j] = wire'[k]
  <1>1. Len(wire) \in Nat /\ Len(wire') = Len(wire) + 1
    BY DEF Shape
  <1>2. /\ \A k \in 1..Len(wire) : wire'[k] = wire[k]
        /\ wire'[Len(wire) + 1] = [kind |-> kind, from |-> i]
    BY AppendProperties DEF Shape
  <1>3. ASSUME NEW k \in 1..Len(wire'), wire'[k].kind = "create", pane[wire'[k].from] = Tunnel
        PROVE  \E j \in 1..Len(wire) : wire[j] = wire'[k]
    <2>1. k \in 1..Len(wire) \/ k = Len(wire) + 1
      BY <1>1
    <2>2. k # Len(wire) + 1
      BY <1>2, <1>3
    <2> QED
      BY <1>2, <2>1, <2>2
  <1> QED
    BY <1>3

LEMMA CallElsewhere ==
  ASSUME Shape, NEW i \in Issuers \ Tunnels, i \in TunnelKills => step[i] # "sweeping",
         \A j \in Issuers \ {i} :
            /\ step'[j] = step[j] \/ (step[j] = "queued" /\ step'[j] \in {"granted", "failed"})
            /\ answer'[j] = answer[j],
         \/ wire' = wire
         \/ \E kind \in Kinds : /\ wire' = Append(wire, [kind |-> kind, from |-> i])
                                /\ kind = "create" => pane[i] # Tunnel,
         UNCHANGED <<pane, daemon, exits, spawning, listed>>,
         sessions'[Tunnel] = sessions[Tunnel], generation'[Tunnel] = generation[Tunnel],
         Tunnel \in killed => Tunnel \in killed', Tunnel \in lost' <=> Tunnel \in lost,
         Tunnel \in sticky' => Tunnel \in sticky,
         \A c \in Tunnels : gen'[c] = gen[c]
  PROVE  Elsewhere
  <1>1. Tunnels \subseteq Issuers /\ TunnelKills \subseteq Issuers
    BY Callers DEF Tunnels, TunnelKills
  <1>2. \A k \in 1..Len(wire') : wire'[k].kind = "create" /\ pane[wire'[k].from] = Tunnel =>
             \E j \in 1..Len(wire) : wire[j] = wire'[k]
    BY WireElsewhere
  <1>3. \A c \in Tunnels : /\ answer'[c] = answer[c]
                           /\ step'[c] = step[c] \/ (step[c] = "queued" /\ step'[c] \in {"granted", "failed"})
    BY <1>1
  <1>4. \A s \in TunnelKills : step[s] = "sweeping" => step'[s] = "sweeping" /\ answer'[s] = answer[s]
    BY <1>1
  <1> QED
    BY <1>2, <1>3, <1>4 DEF Elsewhere

LEMMA StillElsewhere ==
  ASSUME UNCHANGED <<managerVars, callVars, daemonVars, faultVars>>
  PROVE  Elsewhere
  BY DEF Elsewhere, managerVars, callVars, paramVars, daemonVars, faultVars

LEMMA HistoryElsewhere ==
  ASSUME UNCHANGED serviceVars \/ HistoryStep
  PROVE  Elsewhere
  <1>1. CASE UNCHANGED serviceVars
    BY <1>1, StillElsewhere DEF serviceVars
  <1>2. CASE \E i \in Issuers : HistoryFails(i)
    BY <1>2 DEF HistoryFails, Spares, Elsewhere, managerVars, callVars, paramVars, daemonVars
  <1> QED
    BY <1>1, <1>2, StillElsewhere DEF HistoryStep

(* A creation of another pane. *)
LEMMA CreationElsewhere ==
  ASSUME Footing, NEW c \in Creates \ Tunnels, CreationStep(c)
  PROVE  Elsewhere
  <1> USE DEF managerVars, paramVars, callVars, faultVars, daemonVars
  <1>1. pane[c] # Tunnel /\ c \in Issuers \ Tunnels /\ c \notin TunnelKills
    BY Callers, CallersDiffer DEF Tunnels, TunnelKills
  <1>2. /\ pane' = pane
        /\ \A j \in Issuers \ {c} :
               step'[j] = step[j] \/ (step[j] = "queued" /\ step'[j] \in {"granted", "failed"})
    BY CreationOthers
  <1>3. \/ UNCHANGED <<answer, wire>>
        \/ \E kind \in Kinds : /\ answer' = [answer EXCEPT ![c] = "none"]
                               /\ wire' = Append(wire, [kind |-> kind, from |-> c])
    BY DEF CreationStep, CreateOrAttach, WaitedForPending, Joined, Begin, Listed, Purged, ColdRestore,
           Refused, Created, Written, Discarded, Dropped, Cancelled, LookUp, Ask, Discard, Request, Kinds
  <1>4. UNCHANGED <<daemon, exits, spawning, listed, generation>>
    BY DEF CreationStep, CreateOrAttach, WaitedForPending, Joined, Begin, Listed, Purged, ColdRestore,
           Refused, Created, Written, Discarded, Dropped, Cancelled, LookUp, Ask, Discard, Request, Frame
  <1>5. \/ sessions' = sessions
        \/ \E r : sessions' = [sessions EXCEPT ![pane[c]] = r]
    BY DEF CreationStep, CreateOrAttach, WaitedForPending, Joined, Begin, Listed, Purged, ColdRestore,
           Refused, Created, Written, Discarded, Dropped, Discard
  <1>6. sessions'[Tunnel] = sessions[Tunnel]
    BY <1>1, <1>5, TunnelAssumption DEF Footing, Kept
  <1>7. killed \ {pane[c]} \subseteq killed' /\ \A d \in Tunnels : gen'[d] = gen[d]
    BY <1>1, Callers DEF CreationStep, CreateOrAttach, WaitedForPending, Joined, Begin, Listed, Purged, ColdRestore,
           Refused, Created, Written, Discarded, Dropped, Frame, Tunnels, Footing, Dated
  <1>8. /\ Tunnel \in lost' <=> Tunnel \in lost
        /\ Tunnel \in sticky' => Tunnel \in sticky
    BY <1>1 DEF CreationStep, CreateOrAttach, WaitedForPending, Joined, Begin, Listed, Purged, ColdRestore,
           Refused, Created, Written, Discarded, Dropped
  <1>9. \A j \in Issuers \ {c} : answer'[j] = answer[j]
    BY <1>3 DEF Footing, Shape
  <1> QED
    BY <1>1, <1>2, <1>3, <1>4, <1>6, <1>7, <1>8, <1>9, CallElsewhere DEF Footing

(* Kills; those that only look at the tunnel, or go on, are elsewhere too. *)
LEMMA KillElsewhere ==
  ASSUME Footing, NEW k \in Kills, KillProceeds(k)
  PROVE  Elsewhere \/ (k \in TunnelKills /\ (KillPane(k) \/ (Swept(k) /\ ~Found(k))))
  <1> USE DEF managerVars, paramVars, callVars, faultVars, daemonVars, limiterVars
  <1>1. k \in Issuers \ Tunnels
    BY Callers, CallersDiffer DEF Tunnels
  <1>2. CASE KillPane(k) /\ pane[k] # Tunnel
    <2>1. UNCHANGED <<pane, daemon, exits, spawning, listed, lost, gen>>
      BY <1>2 DEF KillPane, Request
    <2>2. /\ wire' = Append(wire, [kind |-> "kill", from |-> k]) /\ "kill" \in Kinds
          /\ \A j \in Issuers \ {k} : step'[j] = step[j] /\ answer'[j] = answer[j]
      BY <1>2 DEF KillPane, Request, Go, Kinds, Footing, Shape
    <2>3. /\ sessions'[Tunnel] = sessions[Tunnel] /\ generation'[Tunnel] = generation[Tunnel]
          /\ killed \subseteq killed' /\ (Tunnel \in sticky' => Tunnel \in sticky)
      BY <1>2, TunnelAssumption DEF KillPane, Dead, Footing, Kept, Dated
    <2>4. k \notin TunnelKills
      BY <1>2 DEF TunnelKills
    <2> QED
      BY <1>1, <2>1, <2>2, <2>3, <2>4, CallElsewhere DEF Footing
  <1>3. CASE ~KillPane(k) /\ ~(k \in TunnelKills /\ Swept(k))
    <2>1. k \in TunnelKills => step[k] # "sweeping"
      BY <1>3 DEF KillProceeds, Kill, KillByWorkspaceId, NextOf, Unused, KillAnswered, HookAwaited, KillEnds, Erased
    <2>2. UNCHANGED <<pane, daemon, exits, spawning, listed, lost, gen, sessions, generation, killed, sticky>>
      BY <1>3 DEF KillProceeds, Kill, KillByWorkspaceId, KillAnswered, HookAwaited, KillEnds, Swept, Erased, Spares,
                  Request
    <2>3. \E s : step' = [step EXCEPT ![k] = s]
      BY <1>3 DEF KillProceeds, Kill, KillByWorkspaceId, KillAnswered, HookAwaited, KillEnds, Swept, Erased,
                  Request, Go
    <2>4. \/ UNCHANGED <<answer, wire>>
          \/ /\ answer' = [answer EXCEPT ![k] = "none"]
             /\ wire' = Append(wire, [kind |-> "list", from |-> k])
      BY <1>3 DEF KillProceeds, Kill, KillByWorkspaceId, KillAnswered, HookAwaited, KillEnds, Swept, Erased,
                  Request
    <2>5. \A j \in Issuers \ {k} : step'[j] = step[j] /\ answer'[j] = answer[j]
      BY <2>3, <2>4 DEF Footing, Shape
    <2>6. "list" \in Kinds
      BY DEF Kinds
    <2> QED
      BY <1>1, <2>1, <2>2, <2>4, <2>5, <2>6, CallElsewhere DEF Footing
  <1> QED
    BY <1>2, <1>3 DEF Swept, TunnelKills

LEMMA OtherElsewhere ==
  ASSUME Footing, NEW i \in Clears \cup Hooks,
         Clear(i) \/ ClearStep(i) \/ Hook(i) \/ HookStep(i) \/ HookSaved(i)
  PROVE  Elsewhere
  <1> USE DEF managerVars, paramVars, callVars, faultVars, daemonVars, limiterVars
  <1>1. i \in Issuers \ Tunnels /\ i \notin TunnelKills
    BY Callers, CallersDiffer DEF Tunnels, TunnelKills
  <1>2. UNCHANGED <<pane, daemon, exits, spawning, listed, lost, gen, sessions, generation, killed, sticky,
                    answer, wire>>
    BY DEF Clear, ClearStep, Hook, HookStep, HookSaved
  <1>3. \E s : step' = [step EXCEPT ![i] = s]
    BY DEF Clear, ClearStep, Hook, HookStep, HookSaved, Go
  <1>4. \A j \in Issuers \ {i} : step'[j] = step[j]
    BY <1>3 DEF Footing, Shape
  <1> QED
    BY <1>1, <1>2, <1>4, CallElsewhere DEF Footing

-----------------------------------------------------------------------------
(* A step, as the tunnel sees it.                                          *)
Concerns(k) == KillPane(k) \/ (Swept(k) /\ ~Found(k))

LEMMA CallCases ==
  ASSUME Footing, OtherCall
  PROVE  Elsewhere \/ (\E c \in Tunnels : Proceeds(c)) \/ (\E k \in TunnelKills : Concerns(k))
  <1>1. CASE \E c \in Creates \ Tunnels : CreationStep(c)
    BY <1>1, CreationElsewhere
  <1>2. CASE \E k \in Kills : KillProceeds(k)
    BY <1>2, KillElsewhere DEF Concerns
  <1>3. CASE (\E x \in Clears : Clear(x) \/ ClearStep(x)) \/ \E h \in Hooks : Hook(h) \/ HookStep(h) \/ HookSaved(h)
    BY <1>3, OtherElsewhere
  <1> QED
    BY <1>1, <1>2, <1>3 DEF OtherCall

LEMMA TunnelCases ==
  ASSUME Footing, Lone, [Next]_vars
  PROVE  \/ Elsewhere \/ Event \/ RestartService
         \/ \E c \in Tunnels : Launches(c) \/ Proceeds(c)
         \/ \E k \in TunnelKills : Concerns(k)
  <1>1. CASE UNCHANGED serviceVars \/ HistoryStep
    BY <1>1, HistoryElsewhere
  <1> QED
    BY <1>1, CallCases, StepCases

(* Panes that are disturbed, or were crossed, remain so.                   *)
LEMMA SoundBefore ==
  ASSUME Change
  PROVE  pane' = pane /\ (Sound(Tunnel)' => Sound(Tunnel)) /\ (Calm(Tunnel)' => Calm(Tunnel))
  <1>1. CASE Change /\ ~OfDaemon
    <2>1. pane' = pane /\ disturbed \subseteq disturbed' /\ crossed' = crossed
      BY <1>1 DEF Change, OfCreation, Stays, Goes, Loops, Orders, Finishes, Opens, Discards, Terminates, Aside
    <2> QED
      BY <2>1 DEF Sound, Calm
  <1>2. CASE OfDaemon
    <2>1. pane' = pane /\ disturbed \subseteq disturbed' /\ crossed \subseteq crossed'
      BY <1>2 DEF OfDaemon, RequestFails, ExitArrives, TimerFires, ShellExits, DaemonHandles, Spawned, Disconnect,
                  Restart, LoseConnection, managerVars, callVars, paramVars, faultVars
    <2> QED
      BY <2>1 DEF Sound, Calm
  <1> QED
    BY <1>1, <1>2

LEMMA TunnelCalls == Tunnels \subseteq Issuers /\ TunnelKills \subseteq Issuers /\ Tunnels \cap TunnelKills = {}
  BY Callers, CallersDiffer DEF Tunnels, TunnelKills

(* What a creation of the tunnel does.  It is never one of several, so it  *)
(* has no other to wait for, and goes straight on to its end.              *)
LEMMA LaunchMoves ==
  ASSUME Base, TunnelInv, NEW c \in Tunnels, Launches(c)
  PROVE  /\ step[c] = "unused" /\ step'[c] \in {"killed", "granted", "queued"}
         /\ \A j \in Issuers \ {c} : step'[j] = step[j]
         /\ UNCHANGED <<pane, sticky, sessions, answer, daemonVars, faultVars>>
  <1> USE DEF paramVars
  <1>1. /\ c \in Creates /\ c \in Issuers /\ pane[c] = Tunnel /\ Tunnel \in Panes
        /\ step[c] = "unused" /\ UNCHANGED <<pane, sticky, sessions, answer, daemonVars, faultVars>>
    BY Callers, TunnelAssumption DEF Launches, CreateOrAttach, NextOf, Unused, Tunnels
  <1>2. pending[Tunnel] = None
    <2> SUFFICES ASSUME pending[Tunnel] # None PROVE FALSE
      OBVIOUS
    <2>1. pending[Tunnel] \in Creates /\ Slotted(pending[Tunnel]) /\ pane[pending[Tunnel]] = Tunnel
      BY <1>1 DEF TunnelInv, Pledged, Base, Footing, Held
    <2>2. pending[Tunnel] \in Ongoing
      BY <2>1, CreateStepSets DEF Ongoing, Tunnels, Slotted
    <2> QED
      BY <2>2 DEF Launches
  <1>3. \E s \in {"killed", "granted", "queued"} : step' = [step EXCEPT ![c] = s]
    BY <1>1, <1>2 DEF Launches, CreateOrAttach, Enter, Acquire, Go
  <1> QED
    BY <1>1, <1>3 DEF Base, Footing, Shape

LEMMA ProceedMoves ==
  ASSUME Base, TunnelInv, NEW c \in Tunnels, Proceeds(c)
  PROVE  /\ c \in Ongoing /\ Ongoing \subseteq {c}
         /\ UNCHANGED <<pane, daemon, exits, spawning, listed, generation, gen, killed, disturbed, crossed>>
         /\ \A j \in Issuers \ {c} : step'[j] = step[j] \/ (step[j] = "queued" /\ step'[j] \in {"granted", "failed"})
         /\ \A j \in Issuers \ {c} : answer'[j] = answer[j]
         /\ Tunnel \notin sticky' /\ step'[c] \in PlainSteps /\ (step'[c] = "ok" => Good(c))
         /\ \/ wire' = wire
            \/ \E kind \in Kinds : /\ wire' = Append(wire, [kind |-> kind, from |-> c])
                                   /\ kind = "create" => Current(c)
         /\ \/ /\ sessions' = sessions /\ lost' = lost
               /\ ~Up(c) /\ ~(step[c] = "discarding" /\ answer[c] = "none")
            \/ sessions'[Tunnel].alive
            \/ step'[c] = "discarding" /\ answer'[c] = "none" /\ lost' = lost
  <1> USE DEF paramVars, callVars, daemonVars, faultVars, managerVars
  <1>1. /\ c \in Creates /\ c \in Issuers /\ pane[c] = Tunnel /\ Tunnel \in Panes /\ ~Recording(c)
        /\ CreationStep(c)
    BY Callers, TunnelAssumption DEF Proceeds, CreationStep, Tunnels, Recording
  <1>2. /\ step[c] \in PlainSteps /\ Tunnel \notin sticky
    BY DEF TunnelInv, Plain
  <1>3. step[c] \notin {"waiting", "joined", "writing"}
    BY <1>2 DEF PlainSteps, Holding
  <1>4. \/ Begin(c) \/ Listed(c) \/ Purged(c) \/ ColdRestore(c) \/ Refused(c) \/ Created(c)
        \/ Discarded(c) \/ Dropped(c)
    BY <1>3 DEF Proceeds, WaitedForPending, Joined, Written
  <1>5. c \in Ongoing
    BY <1>4 DEF Ongoing, CreateSteps, Begin, Listed, Purged, ColdRestore, Refused, Created, Discarded, Dropped
  <1>6. Ongoing \subseteq {c}
    BY <1>5 DEF TunnelInv, Lone
  <1>7. UNCHANGED <<pane, daemon, exits, spawning, listed, generation, gen, killed, disturbed, crossed>>
    BY <1>4 DEF Begin, Listed, Purged, ColdRestore, Refused, Created, Discarded, Dropped, Cancelled, LookUp, Ask,
                Discard, Request, Frame
  <1>8. \A j \in Issuers \ {c} : step'[j] = step[j] \/ (step[j] = "queued" /\ step'[j] \in {"granted", "failed"})
    BY <1>1, CreationOthers DEF Base
  <1>9. answer' = answer \/ answer' = [answer EXCEPT ![c] = "none"]
    BY <1>4 DEF Begin, Listed, Purged, ColdRestore, Refused, Created, Discarded, Dropped, Cancelled, LookUp, Ask,
                Discard, Request
  <1>10. Tunnel \notin sticky'
    BY <1>1, <1>2, <1>4 DEF Begin, Listed, Purged, ColdRestore, Refused, Created, Discarded, Dropped
  <1>11. \/ \E s \in PlainSteps \ {"ok"} : Go(c, s) \/ Settle(c, s)
         \/ Settle(c, "ok") /\ Good(c)
    BY <1>1, <1>2, <1>4
    DEF Begin, Listed, Purged, ColdRestore, Refused, Created, Discarded, Dropped, Cancelled, LookUp, Ask,
        Discard, Request, PlainSteps, Holding, CreateSteps, Good, Up
  <1>12. step'[c] \in PlainSteps /\ (step'[c] = "ok" => Good(c))
    <2>1. ASSUME NEW s, Go(c, s) \/ Settle(c, s) PROVE step'[c] = s
      BY <1>1, <2>1, SettleMoves DEF Go, Base, Footing, Shape
    <2>2. "ok" \in PlainSteps
      BY DEF PlainSteps
    <2> QED
      BY <1>11, <2>1, <2>2
  <1>13. \/ wire' = wire
         \/ \E kind \in Kinds : /\ wire' = Append(wire, [kind |-> kind, from |-> c])
                                /\ kind = "create" => Current(c)
    BY <1>4
    DEF Begin, Listed, Purged, ColdRestore, Refused, Created, Discarded, Dropped, Cancelled, LookUp, Ask,
        Discard, Request, Kinds
  <1>14. \/ /\ sessions' = sessions /\ lost' = lost
            /\ ~Up(c) /\ ~(step[c] = "discarding" /\ answer[c] = "none")
         \/ sessions'[Tunnel].alive
         \/ step'[c] = "discarding" /\ answer'[c] = "none" /\ lost' = lost
    <2>1. CASE ~Created(c)
      BY <1>4, <2>1 DEF Begin, Listed, Purged, ColdRestore, Refused, Discarded, Dropped, Up, Frame
    <2>2. CASE Created(c) /\ Current(c)
      BY <1>1, <2>2 DEF Created, Base, Footing, Kept
    <2>3. CASE Created(c) /\ ~Current(c)
      BY <1>1, <2>3 DEF Created, Discard, Request, Go, Base, Footing, Shape
    <2> QED
      BY <2>1, <2>2, <2>3
  <1>15. \A j \in Issuers \ {c} : answer'[j] = answer[j]
    BY <1>9 DEF Base, Footing, Shape
  <1> QED
    BY <1>5, <1>6, <1>7, <1>8, <1>10, <1>12, <1>13, <1>14, <1>15

LEMMA ConcernMoves ==
  ASSUME Base, NEW k \in TunnelKills, Concerns(k)
  PROVE  /\ UNCHANGED <<pane, daemon, exits, spawning, listed, gen, disturbed, crossed, lost>>
         /\ \A j \in Issuers \ {k} : step'[j] = step[j] /\ answer'[j] = answer[j]
         /\ Tunnel \in killed => Tunnel \in killed'
         /\ Tunnel \in sticky' => Tunnel \in sticky
         /\ (Swept(k) /\ ~Found(k)) \/ Tunnel \in killed'
  <1> USE DEF paramVars, callVars, daemonVars, faultVars, managerVars
  <1>1. pane[k] = Tunnel
    BY DEF TunnelKills
  <1>2. CASE KillPane(k)
    <2>1. /\ UNCHANGED <<pane, daemon, exits, spawning, listed, gen, disturbed, crossed, lost>>
          /\ killed' = killed \cup {Tunnel} /\ (sticky' = sticky \/ sticky' = sticky \ {Tunnel})
      BY <1>1, <1>2 DEF KillPane, Request
    <2>2. step' = [step EXCEPT ![k] = "killing"] /\ answer' = [answer EXCEPT ![k] = "none"]
      BY <1>2 DEF KillPane, Request, Go
    <2> QED
      BY <2>1, <2>2 DEF Base, Footing, Shape
  <1>3. CASE Swept(k) /\ ~Found(k)
    BY <1>3 DEF Swept, Go, Base, Footing, Shape
  <1> QED
    BY <1>2, <1>3 DEF Concerns

LEMMA EventMoves ==
  ASSUME Event
  PROVE  /\ UNCHANGED <<pane, step, gen, generation, killed, sticky>>
         /\ Tunnel \in lost => Tunnel \in lost'
  BY DEF Event, DaemonEvent, RequestFails, ExitArrives, TimerFires, ShellExits, DaemonHandles, Spawned, Disconnect,
         managerVars, callVars, paramVars, faultVars

LEMMA RestartMoves ==
  ASSUME Restart
  PROVE  /\ UNCHANGED <<pane, gen>> /\ sticky' = {}
         /\ step' = [i \in Issuers |-> IF step[i] = "queued" THEN "failed" ELSE step[i]]
  BY DEF Restart, paramVars

(* Where the creations of the tunnel are after a step.                     *)
LEMMA TunnelSteps ==
  ASSUME Base, TunnelInv, [Next]_vars
  PROVE  /\ Tunnel \notin sticky' /\ \A c \in Tunnels : step'[c] \in PlainSteps
         /\ \/ \E c \in Tunnels : Launches(c)
            \/ \A c \in Tunnels : step'[c] \in CreateSteps => step[c] \in CreateSteps
         /\ \A c \in Tunnels : step'[c] = "ok" => step[c] = "ok" \/ (Good(c) /\ UNCHANGED <<daemon, exits>>)
  <1> DEFINE Goal ==
        /\ Tunnel \notin sticky' /\ \A c \in Tunnels : step'[c] \in PlainSteps
        /\ \/ \E c \in Tunnels : Launches(c)
           \/ \A c \in Tunnels : step'[c] \in CreateSteps => step[c] \in CreateSteps
        /\ \A c \in Tunnels : step'[c] = "ok" => step[c] = "ok" \/ (Good(c) /\ UNCHANGED <<daemon, exits>>)
  <1>1. /\ Tunnel \notin sticky /\ \A c \in Tunnels : step[c] \in PlainSteps
        /\ {"granted", "failed", "killed", "queued"} \subseteq PlainSteps /\ "failed" \notin CreateSteps
        /\ {"granted", "queued"} \subseteq CreateSteps
    BY DEF TunnelInv, Plain, PlainSteps, Holding, CreateSteps
  <1>2. ASSUME Tunnel \notin sticky',
               \A c \in Tunnels : step'[c] = step[c] \/ (step[c] = "queued" /\ step'[c] \in {"granted", "failed"})
        PROVE  Goal
    BY <1>1, <1>2
  <1>3. CASE Elsewhere
    BY <1>1, <1>2, <1>3 DEF Elsewhere
  <1>4. CASE Event
    BY <1>1, <1>2, <1>4, EventMoves
  <1>5. CASE RestartService
    BY <1>2, <1>5, RestartMoves, TunnelCalls DEF RestartService
  <1>6. CASE \E k \in TunnelKills : Concerns(k)
    BY <1>1, <1>2, <1>6, ConcernMoves, TunnelCalls
  <1>7. ASSUME NEW c \in Tunnels, Launches(c) PROVE Goal
    <2>1. /\ step'[c] \in {"killed", "granted", "queued"} /\ sticky' = sticky
          /\ \A j \in Tunnels \ {c} : step'[j] = step[j]
      BY <1>7, LaunchMoves, TunnelCalls
    <2> QED
      BY <1>1, <1>7, <2>1
  <1>8. ASSUME NEW c \in Tunnels, Proceeds(c) PROVE Goal
    <2>1. /\ Tunnel \notin sticky' /\ step'[c] \in PlainSteps /\ step[c] \in CreateSteps
          /\ step'[c] = "ok" => Good(c) /\ UNCHANGED <<daemon, exits>>
          /\ \A j \in Tunnels \ {c} : step'[j] = step[j] \/ (step[j] = "queued" /\ step'[j] \in {"granted", "failed"})
      BY <1>8, ProceedMoves, TunnelCalls DEF Ongoing
    <2> QED
      BY <1>1, <2>1
  <1> QED
    BY <1>3, <1>4, <1>5, <1>6, <1>7, <1>8, TunnelCases DEF Base, TunnelInv

(* What an ensure changes of the tunnel.                                   *)
LEMMA CreateMoves ==
  ASSUME Lone, ensuring = NotEnsuring \/ step[ensuring.by] \in Ends,
         NEW at \in {"creating", "recreating"}, NEW timer, Create(at, timer), at = "creating" => enabled'
  PROVE  \/ ensuring' = NotEnsuring /\ retryTimer' /\ UNCHANGED <<known, ungated, forgotten, serviceVars>>
         \/ /\ \E c \in Tunnels : Launches(c) /\ ensuring' = [at |-> at, by |-> c]
            /\ ungated' = (at = "recreating" /\ ~enabled')
            /\ known' = (known \/ at = "creating") /\ forgotten' = (forgotten /\ at # "creating")
  <1>1. CASE Fail
    BY <1>1 DEF Fail
  <1>2. CASE \E c \in Creates : /\ pane[c] = Tunnel /\ CreateOrAttach(c)
                                /\ ensuring' = [at |-> at, by |-> c]
                                /\ ungated' = (at = "recreating" /\ ~enabled')
                                /\ known' = (known \/ at = "creating") /\ forgotten' = (forgotten /\ at # "creating")
    <2>1. PICK c \in Creates : /\ pane[c] = Tunnel /\ CreateOrAttach(c)
                               /\ ensuring' = [at |-> at, by |-> c]
                               /\ ungated' = (at = "recreating" /\ ~enabled')
                               /\ known' = (known \/ at = "creating") /\ forgotten' = (forgotten /\ at # "creating")
      BY <1>2
    <2>2. enabled' \/ ungated'
      BY <2>1
    <2>3. Launches(c)
      BY <2>1, <2>2, NothingOngoing DEF Launches, Tunnels
    <2> QED
      BY <2>1, <2>3 DEF Tunnels
  <1> QED
    BY <1>1, <1>2 DEF Create

LEMMA EnsuringMoves ==
  ASSUME Lone, [Next]_vars
  PROVE  \/ ensuring' = ensuring
         \/ Ongoing = {} /\ ensuring' = NotEnsuring
         \/ Ongoing = {} /\ \E k \in TunnelKills : ensuring' = [at |-> "replacing", by |-> k] /\ Kill(k)
         \/ \E c \in Tunnels : Launches(c) /\ \E at : ensuring' = [at |-> at, by |-> c]
  <1> DEFINE Goal ==
         \/ ensuring' = ensuring
         \/ Ongoing = {} /\ ensuring' = NotEnsuring
         \/ Ongoing = {} /\ \E k \in TunnelKills : ensuring' = [at |-> "replacing", by |-> k] /\ Kill(k)
         \/ \E c \in Tunnels : Launches(c) /\ \E at : ensuring' = [at |-> at, by |-> c]
  <1>1. ASSUME NEW at \in {"creating", "recreating"}, NEW timer, Create(at, timer), at = "creating" => enabled',
               ensuring = NotEnsuring \/ step[ensuring.by] \in Ends
        PROVE  Goal
    BY <1>1, CreateMoves, NothingOngoing
  <1>2. ASSUME NEW timer, Ensure(timer) PROVE Goal
    <2>1. ensuring' = ensuring \/ (ensuring = NotEnsuring /\ enabled' /\ Create("creating", timer))
      BY <1>2 DEF Ensure
    <2> QED
      BY <1>1, <2>1
  <1>3. CASE EnsureGoesOn
    <2>1. step[ensuring.by] \in Ends
      BY <1>3 DEF EnsureGoesOn, Settled
    <2>2. Ongoing = {}
      BY <2>1, NothingOngoing
    <2>3. CASE ensuring' = NotEnsuring
      BY <2>2, <2>3
    <2>4. CASE \E k \in Kills : pane[k] = Tunnel /\ Kill(k) /\ ensuring' = [at |-> "replacing", by |-> k]
      BY <2>2, <2>4 DEF TunnelKills
    <2>5. CASE Create("recreating", retryTimer)
      BY <1>1, <2>1, <2>5
    <2> QED
      BY <1>3, <2>3, <2>4, <2>5 DEF EnsureGoesOn, Fail
  <1>4. CASE (\E k \in Kills : Restarted(k)) \/ Reconcile \/ RetryFires \/ Start
    <2>1. ensuring' = ensuring \/ \E timer : Ensure(timer)
      BY <1>4 DEF Restarted, Reconcile, RetryFires, Start, StopSession
    <2> QED
      BY <1>2, <2>1
  <1> QED
    BY <1>3, <1>4 DEF Next, vars, tunnelVars, TunnelTurn, SweepEnds, StopEnds, Exit, RestartService, Erase, GiveUp,
                      Stop, RestartTunnel, DeleteWorkspace, StopSession

LEMMA LoneInductive ==
  ASSUME Base, TunnelInv, [Next]_vars
  PROVE  Lone'
  <1>1. pane' = pane
    BY NextChange, SoundBefore DEF Base, Footing
  <1>2. \/ \E c \in Tunnels : Launches(c)
        \/ \A c \in Tunnels : step'[c] \in CreateSteps => step[c] \in CreateSteps
    BY TunnelSteps
  <1>3. CASE \E c \in Tunnels : Launches(c)
    <2>1. PICK c \in Tunnels : Launches(c)
      BY <1>3
    <2>2. \A j \in Tunnels \ {c} : step'[j] = step[j]
      BY <2>1, LaunchMoves, TunnelCalls
    <2>3. Ongoing' \subseteq {c}
      BY <1>1, <2>1, <2>2 DEF Ongoing, Tunnels, Launches
    <2> QED
      BY <2>1, <2>3 DEF Lone, Launches
  <1>4. CASE ~\E c \in Tunnels : Launches(c)
    <2>1. Ongoing' \subseteq Ongoing
      BY <1>1, <1>2, <1>4 DEF Ongoing, Tunnels
    <2>2. ensuring' = ensuring \/ Ongoing = {}
      BY <1>4, EnsuringMoves DEF TunnelInv
    <2> QED
      BY <2>1, <2>2 DEF TunnelInv, Lone
  <1> QED
    BY <1>3, <1>4

LEMMA PlainInductive ==
  ASSUME Base, TunnelInv, [Next]_vars
  PROVE  Plain'
  <1>1. pane' = pane
    BY NextChange, SoundBefore DEF Base, Footing
  <1> QED
    BY <1>1, TunnelSteps DEF Plain, Tunnels

LEMMA StopsMove ==
  ASSUME Base, Directed, [Next]_vars
  PROVE  \/ stops' = stops
         \/ \E k \in TunnelKills : \E s : stops' = [stops EXCEPT ![k] = s]
  <1>1. ASSUME NEW k \in Kills, NEW s \in Purposes, StopSession(k, s)
        PROVE  \E d \in TunnelKills : \E r : stops' = [stops EXCEPT ![d] = r]
    BY <1>1 DEF StopSession, TunnelKills
  <1>2. ASSUME NEW k \in Kills, StopEnds(k) \/ Restarted(k)
        PROVE  \E d \in TunnelKills : \E s : stops' = [stops EXCEPT ![d] = s]
    <2>1. stops[k] # "none"
      BY <1>2 DEF StopEnds, Restarted, Purposes
    <2>2. k \in TunnelKills
      BY <2>1 DEF Directed, StopsOpen, TunnelKills
    <2>3. \E s : stops' = [stops EXCEPT ![k] = s]
      BY <1>2 DEF StopEnds, Restarted
    <2> QED
      BY <2>2, <2>3
  <1>3. {"stop", "restart", "delete"} \subseteq Purposes
    BY DEF Purposes
  <1>4. CASE Stop \/ RestartTunnel \/ DeleteWorkspace \/ Reconcile
    BY <1>1, <1>3, <1>4 DEF Stop, RestartTunnel, DeleteWorkspace, Reconcile
  <1> QED
    BY <1>2, <1>4 DEF Next, vars, tunnelVars, TunnelTurn, EnsureGoesOn, SweepEnds, Exit, RestartService, Erase, GiveUp,
                      Start, RetryFires

LEMMA DirectedInductive ==
  ASSUME Base, TunnelInv, [Next]_vars
  PROVE  Directed'
  <1>1. pane' = pane
    BY NextChange, SoundBefore DEF Base, Footing
  <1>2. ensuring' # NotEnsuring => pane[ensuring'.by] = Tunnel
    BY EnsuringMoves DEF TunnelInv, Directed, Tunnels, TunnelKills
  <1>3. \A k \in StopsOpen' : pane[k] = Tunnel
    <2>1. stops' = stops \/ \E k \in TunnelKills : \E s : stops' = [stops EXCEPT ![k] = s]
      BY StopsMove DEF TunnelInv
    <2>2. stops \in [Kills -> {"none", "ensure"} \cup Purposes]
      BY DEF Base, TunnelTyped, StopsTyped
    <2>3. \A k \in StopsOpen' : k \in StopsOpen \/ k \in TunnelKills
      BY <2>1, <2>2 DEF StopsOpen
    <2> QED
      BY <2>3 DEF TunnelInv, Directed, TunnelKills
  <1> QED
    BY <1>1, <1>2, <1>3 DEF Directed

LEMMA UnfailedKept ==
  ASSUME Unfailed, pane' = pane, Calm(Tunnel)' => Calm(Tunnel),
         \A k \in TunnelKills : /\ step'[k] = step[k]
                                /\ answer'[k] \in {answer[k], "ok"} \/ ~Calm(Tunnel)'
  PROVE  Unfailed'
  BY DEF Unfailed, TunnelKills

(* What a kill of the tunnel goes through.                                 *)
LEMMA KillGoesOn ==
  ASSUME Base, Unfailed, NEW k \in TunnelKills, KillProceeds(k)
  PROVE  /\ step'[k] \in {"done", "error"} \cup KillSteps
         /\ Calm(Tunnel)' => /\ answer'[k] \in {"none", "ok"} /\ step'[k] # "error"
                             /\ step'[k] \in {"hooks", "cleaning"} => answer'[k] = "ok"
  <1> USE DEF faultVars, daemonVars
  <1>1. k \in Issuers /\ disturbed' = disturbed
    BY TunnelCalls DEF KillProceeds, Kill, KillPane, KillByWorkspaceId, KillAnswered, HookAwaited, KillEnds, Swept,
                       Erased, Spares
  <1>2. CASE \E s \in {"killing", "sweeping"} : \E kind : Request(k, kind, s)
    BY <1>1, <1>2 DEF Request, Go, KillSteps, Base, Footing, Shape
  <1>3. CASE /\ answer' = answer /\ step[k] \in KillSteps
             /\ \E s \in {"erasing", "done"} : Go(k, s)
    BY <1>1, <1>3 DEF Unfailed, Go, KillSteps, Calm, Base, Footing, Shape
  <1>4. CASE KillAnswered(k)
    <2>1. answer' = answer /\ step[k] = "killing" /\ answer[k] # "none" /\ \E s \in {"hooks", "cleaning"} : Go(k, s)
      BY <1>4 DEF KillAnswered
    <2> QED
      BY <1>1, <2>1 DEF Unfailed, Go, KillSteps, Calm, Base, Footing, Shape
  <1>5. CASE HookAwaited(k)
    <2>1. answer' = answer /\ step[k] = "hooks" /\ Go(k, "cleaning")
      BY <1>5 DEF HookAwaited
    <2> QED
      BY <1>1, <2>1 DEF Unfailed, Go, KillSteps, Calm, Base, Footing, Shape
  <1>6. CASE KillEnds(k)
    <2>1. /\ answer' = answer /\ step[k] = "cleaning"
          /\ \E s \in {"erasing", "done", "error"} : Go(k, s) /\ (s = "error" => answer[k] # "ok")
      BY <1>6 DEF KillEnds
    <2> QED
      BY <1>1, <2>1 DEF Unfailed, Go, KillSteps, Calm, Base, Footing, Shape
  <1>7. CASE KillPane(k) \/ KillByWorkspaceId(k)
    BY <1>2, <1>7 DEF KillPane, KillByWorkspaceId
  <1>8. CASE Erased(k)
    BY <1>3, <1>8 DEF Erased, KillSteps
  <1>9. CASE Swept(k)
    BY <1>3, <1>7, <1>9 DEF Swept, KillSteps
  <1> QED
    BY <1>4, <1>5, <1>6, <1>7, <1>8, <1>9 DEF KillProceeds, Kill

LEMMA UnfailedInductive ==
  ASSUME Base, TunnelInv, [Next]_vars
  PROVE  Unfailed'
  <1> USE DEF managerVars, limiterVars, callVars, paramVars, daemonVars, faultVars
  <1>1. pane' = pane /\ (Calm(Tunnel)' => Calm(Tunnel)) /\ Unfailed
    BY NextChange, SoundBefore DEF Base, Footing, TunnelInv
  <1>2. \A k \in TunnelKills : step[k] # "queued" /\ step[k] \notin {"requested", "listing", "discarding"}
    BY <1>1 DEF Unfailed, KillSteps
  <1>3. CASE UNCHANGED serviceVars \/ HistoryStep
    BY <1>1, <1>3, UnfailedKept DEF serviceVars, HistoryStep, HistoryFails
  <1>4. ASSUME NEW i \in Issuers \ TunnelKills,
               \A j \in Issuers \ {i} :
                  /\ step'[j] = step[j] \/ (step[j] = "queued" /\ step'[j] \in {"granted", "failed"})
                  /\ answer'[j] = answer[j]
        PROVE  Unfailed'
    BY <1>1, <1>2, <1>4, UnfailedKept, TunnelCalls
  <1>5. ASSUME NEW c \in Creates, CreationStep(c) PROVE Unfailed'
    <2>1. answer' = answer \/ answer' = [answer EXCEPT ![c] = "none"]
      BY <1>5
      DEF CreationStep, CreateOrAttach, WaitedForPending, Joined, Begin, Listed, Purged, ColdRestore,
          Refused, Created, Written, Discarded, Dropped, Cancelled, LookUp, Ask, Discard, Request
    <2>2. \A j \in Issuers \ {c} : answer'[j] = answer[j]
      BY <2>1 DEF Base, Footing, Shape
    <2>3. c \in Issuers \ TunnelKills
      BY Callers, CallersDiffer DEF TunnelKills
    <2> QED
      BY <1>4, <1>5, <2>2, <2>3, CreationOthers DEF Base
  <1>6. ASSUME NEW k \in Kills, KillProceeds(k) PROVE Unfailed'
    <2>1. \E s : step' = [step EXCEPT ![k] = s]
      BY <1>6 DEF KillProceeds, Kill, KillPane, KillByWorkspaceId, KillAnswered, HookAwaited, KillEnds, Swept,
                  Erased, Request, Go
    <2>2. answer' = answer \/ answer' = [answer EXCEPT ![k] = "none"]
      BY <1>6 DEF KillProceeds, Kill, KillPane, KillByWorkspaceId, KillAnswered, HookAwaited, KillEnds, Swept,
                  Erased, Request
    <2>3. \A j \in Issuers \ {k} : step'[j] = step[j] /\ answer'[j] = answer[j]
      BY <2>1, <2>2 DEF Base, Footing, Shape
    <2>4. CASE k \notin TunnelKills
      BY <1>4, <2>3, <2>4, Callers
    <2>5. CASE k \in TunnelKills
      <3>1. /\ step'[k] \in {"done", "error"} \cup KillSteps
            /\ Calm(Tunnel)' => /\ answer'[k] \in {"none", "ok"} /\ step'[k] # "error"
                                /\ step'[k] \in {"hooks", "cleaning"} => answer'[k] = "ok"
        BY <1>1, <1>6, <2>5, KillGoesOn
      <3>2. \A j \in TunnelKills \ {k} : step'[j] = step[j] /\ answer'[j] = answer[j]
        BY <2>3, TunnelCalls
      <3> QED
        BY <1>1, <3>1, <3>2 DEF Unfailed, TunnelKills
    <2> QED
      BY <2>4, <2>5
  <1>7. ASSUME NEW i \in Clears \cup Hooks, Clear(i) \/ ClearStep(i) \/ Hook(i) \/ HookStep(i) \/ HookSaved(i)
        PROVE  Unfailed'
    <2>1. answer' = answer /\ \E s : step' = [step EXCEPT ![i] = s]
      BY <1>7 DEF Clear, ClearStep, Hook, HookStep, HookSaved, Go
    <2>2. i \in Issuers \ TunnelKills
      BY Callers, CallersDiffer DEF TunnelKills
    <2> QED
      BY <1>4, <2>1, <2>2 DEF Base, Footing, Shape
  <1>8. CASE Event
    <2>1. step' = step
      BY <1>8, EventMoves
    <2>2. ASSUME NEW k \in TunnelKills PROVE answer'[k] \in {answer[k], "ok"} \/ ~Calm(Tunnel)'
      <3>1. k \in Issuers /\ pane[k] = Tunnel /\ step[k] # "requested"
        BY <1>2, TunnelCalls DEF TunnelKills
      <3>2. ASSUME NEW m, NEW what, Answer(m, what), what = "ok" \/ m.kind = "create"
            PROVE  answer'[k] \in {answer[k], "ok"}
        BY <3>1, <3>2 DEF Answer, Awaited, Base, Footing, Shape
      <3>3. CASE \E i \in Issuers : RequestFails(i)
        BY <3>1, <3>3 DEF RequestFails, Calm, Base, Footing, Shape
      <3>4. CASE DaemonHandles
        BY <3>2, <3>4 DEF DaemonHandles
      <3>5. CASE \E c \in Creates : Spawned(c)
        BY <3>2, <3>5 DEF Spawned
      <3>6. CASE Disconnect
        BY <3>1, <3>6 DEF Disconnect, LoseConnection, Calm
      <3>7. CASE \E p \in Panes : ExitArrives(p) \/ TimerFires(p) \/ ShellExits(p)
        BY <3>7 DEF ExitArrives, TimerFires, ShellExits
      <3> QED
        BY <1>8, <3>3, <3>4, <3>5, <3>6, <3>7 DEF Event, DaemonEvent
    <2> QED
      BY <1>1, <2>1, <2>2, UnfailedKept
  <1>9. CASE RestartService
    <2>1. ASSUME NEW k \in TunnelKills PROVE /\ step'[k] = step[k]
                                             /\ answer'[k] \in {answer[k], "ok"} \/ ~Calm(Tunnel)'
      BY <1>2, <1>9, RestartMoves, TunnelCalls DEF RestartService, Restart, LoseConnection, Calm, TunnelKills
    <2> QED
      BY <1>1, <2>1, UnfailedKept
  <1>10. CASE \E c \in Tunnels : Launches(c)
    BY <1>5, <1>10 DEF Launches, CreationStep, Tunnels
  <1>11. CASE OtherCall
    BY <1>5, <1>6, <1>7, <1>11 DEF OtherCall, Proceeds, CreationStep, Tunnels
  <1> QED
    BY <1>3, <1>8, <1>9, <1>10, <1>11, StepCases DEF TunnelInv

LEMMA KnownInductive ==
  ASSUME Base, TunnelInv, [Next]_vars
  PROVE  KnownWhile'
  <1>1. KnownWhile /\ Lone /\ {known, forgotten, enabled} \subseteq BOOLEAN
    BY DEF TunnelInv, Base, TunnelTyped, Flags
  <1>2. ASSUME NEW timer, Ensure(timer) PROVE KnownWhile'
    <2>1. CASE ensuring' = ensuring /\ UNCHANGED <<known, forgotten>>
      BY <1>1, <2>1 DEF KnownWhile
    <2>2. CASE ensuring = NotEnsuring /\ enabled' /\ Create("creating", timer)
      <3>1. ensuring' = NotEnsuring \/ known'
        BY <1>1, <2>2, CreateMoves
      <3> QED
        BY <3>1 DEF KnownWhile
    <2> QED
      BY <1>2, <2>1, <2>2 DEF Ensure
  <1>3. CASE EnsureGoesOn
    <2>1. step[ensuring.by] \in Ends /\ ensuring # NotEnsuring
      BY <1>3 DEF EnsureGoesOn, Settled
    <2>2. CASE Create("recreating", retryTimer)
      <3>1. ensuring' = NotEnsuring \/ ((known' <=> known) /\ (forgotten' <=> forgotten))
        BY <1>1, <2>1, <2>2, CreateMoves
      <3> QED
        BY <1>1, <2>1, <3>1 DEF KnownWhile
    <2>3. CASE ensuring' = NotEnsuring \/ UNCHANGED <<known, forgotten>>
      BY <1>1, <2>1, <2>3 DEF KnownWhile
    <2> QED
      BY <1>3, <2>2, <2>3 DEF EnsureGoesOn, Fail
  <1>4. CASE \E k \in Kills : StopEnds(k)
    BY <1>1, <1>4 DEF StopEnds, KnownWhile
  <1>5. CASE (\E k \in Kills : Restarted(k)) \/ Reconcile \/ RetryFires \/ Start
    <2>1. (\E timer : Ensure(timer)) \/ UNCHANGED <<known, forgotten, ensuring>>
      BY <1>5 DEF Restarted, Reconcile, RetryFires, Start, StopSession
    <2> QED
      BY <1>1, <1>2, <2>1 DEF KnownWhile
  <1>6. CASE UNCHANGED <<known, forgotten, ensuring>>
    BY <1>1, <1>6 DEF KnownWhile
  <1> QED
    BY <1>3, <1>4, <1>5, <1>6
    DEF Next, vars, tunnelVars, TunnelTurn, SweepEnds, Exit, RestartService, Erase, GiveUp,
        Stop, RestartTunnel, DeleteWorkspace, StopSession

-----------------------------------------------------------------------------
(* Steps that do not touch what the daemon has, nor what failed.           *)
Untouched == UNCHANGED <<daemon, exits, disturbed, crossed, lost>>

LEMMA TurnUntouched ==
  ASSUME Turn \/ UNCHANGED vars
  PROVE  Untouched
  BY DEF Turn, WaitedForPending, Joined, Begin, Written, Purged, Dropped, HookAwaited, KillEnds, ClearStep, HookStep,
         Cancelled, LookUp, Ask, Discard, Request, Frame, Untouched, daemonVars, faultVars, vars, serviceVars

LEMMA CallUntouched ==
  ASSUME NEW i, CreateOrAttach(i) \/ Kill(i) \/ KillByWorkspaceId(i)
  PROVE  Untouched
  BY DEF CreateOrAttach, Kill, KillPane, KillByWorkspaceId, Request, Untouched, daemonVars, faultVars

LEMMA TunnelTurnUntouched ==
  ASSUME TunnelTurn
  PROVE  Untouched
  <1>1. CASE UNCHANGED serviceVars
    BY <1>1 DEF Untouched, serviceVars, daemonVars, faultVars
  <1>2. CASE \E at, timer : Create(at, timer)
    BY <1>1, <1>2, CallUntouched DEF Create, Fail
  <1>3. CASE \E k : Kill(k) \/ KillByWorkspaceId(k)
    BY <1>3, CallUntouched
  <1> QED
    BY <1>1, <1>2, <1>3 DEF TunnelTurn, EnsureGoesOn, SweepEnds, StopEnds, Restarted, Ensure, Fail, Sweep

LEMMA LandedInductive ==
  ASSUME Base, Base', TunnelInv, [Next]_vars
  PROVE  Landed'
  <1> SUFFICES ASSUME Certainly', ensuring' # NotEnsuring, ensuring'.at # "replacing", step'[ensuring'.by] = "ok"
               PROVE  Present'
    BY DEF Landed
  <1>1. pane' = pane /\ (Sound(Tunnel)' => Sound(Tunnel))
    BY NextChange, SoundBefore DEF Base, Footing
  <1>2. /\ Sound(Tunnel) /\ ensuring'.by \in Creates /\ pane[ensuring'.by] = Tunnel
    BY <1>1, DirectedInductive DEF Certainly, Base, TunnelTyped, EnsuringTyped, Directed
  <1>3. ensuring'.by \in Tunnels
    BY <1>2 DEF Tunnels
  <1>4. CASE step[ensuring'.by] # "ok"
    <2>1. Good(ensuring'.by) /\ UNCHANGED <<daemon, exits>>
      BY <1>3, <1>4, TunnelSteps
    <2>2. daemon[Tunnel] = "live" \/ exits[Tunnel] > 0
      BY <1>2, <2>1, TunnelAssumption DEF Base, Records, Truthful, TruthfulAt
    <2> QED
      BY <2>1, <2>2 DEF Present
  <1>5. CASE step[ensuring'.by] = "ok"
    <2>1. ~\E c \in Tunnels : Launches(c) /\ \E at : ensuring' = [at |-> at, by |-> c]
      BY <1>5, LaunchMoves
    <2>2. ensuring' = ensuring
      BY <2>1, EnsuringMoves DEF TunnelInv
    <2>3. TunnelDue
      BY <1>5, <2>2 DEF TunnelDue, Settled, Ends, CreateEnds
    <2>4. Untouched
      BY <2>3, TurnUntouched, TunnelTurnUntouched DEF Next, AllQuiet
    <2> QED
      BY <1>5, <2>2, <2>4 DEF TunnelInv, Landed, Certainly, Sound, Present, Untouched
  <1> QED
    BY <1>4, <1>5

(* What the daemon has been asked for the tunnel is still awaited.         *)
LEMMA AskedByOngoing ==
  ASSUME Base, Calm(Tunnel)
  PROVE  /\ \A k \in 1..Len(wire) : wire[k].kind = "create" /\ pane[wire[k].from] = Tunnel => wire[k].from \in Ongoing
         /\ \A c \in spawning : pane[c] = Tunnel => c \in Ongoing /\ step[c] = "requested" /\ answer[c] = "none"
  <1>1. "requested" \in CreateSteps
    BY DEF CreateSteps
  <1>2. ASSUME NEW k \in 1..Len(wire), wire[k].kind = "create", pane[wire[k].from] = Tunnel
        PROVE  wire[k].from \in Ongoing
    <2>1. wire[k].from \in Creates /\ step[wire[k].from] = "requested"
      BY <1>2 DEF Base, Requests, KillInv, Asked, Awaited
    <2> QED
      BY <1>1, <1>2, <2>1 DEF Ongoing, Tunnels
  <1>3. ASSUME NEW c \in spawning, pane[c] = Tunnel
        PROVE  c \in Ongoing /\ step[c] = "requested" /\ answer[c] = "none"
    BY <1>1, <1>3 DEF Base, Requests, KillInv, Coming, Ongoing, Tunnels
  <1> QED
    BY <1>2, <1>3

LEMMA PresentKept ==
  ASSUME Base, TunnelInv, ensuring = NotEnsuring,
         Elsewhere \/ DaemonEvent \/ (\E c \in Tunnels : Proceeds(c)) \/ (\E k \in TunnelKills : Concerns(k)),
         Certainly', Sound(Tunnel)
  PROVE  Certainly /\ (Present => Present')
  <1>1. Ongoing = {}
    BY NothingOngoing DEF TunnelInv
  <1>2. ~\E c \in Tunnels : Proceeds(c)
    BY <1>1, ProceedMoves
  <1>3. CASE Elsewhere \/ \E k \in TunnelKills : Concerns(k)
    <2>1. daemon'[Tunnel] = daemon[Tunnel] /\ exits'[Tunnel] = exits[Tunnel] /\ (Tunnel \in lost' <=> Tunnel \in lost)
      BY <1>3, ConcernMoves DEF Elsewhere
    <2> QED
      BY <2>1 DEF Certainly, Present
  <1>4. CASE DaemonEvent
    <2>1. Certainly
      BY <1>4, EventMoves DEF Event, Certainly
    <2>2. Calm(Tunnel) /\ Tunnel \in Panes
      BY TunnelAssumption DEF Sound, Calm
    <2>3. CASE UNCHANGED <<daemon, exits>>
      BY <2>1, <2>3 DEF Present
    <2>4. ASSUME NEW p \in Panes, ShellExits(p), Present PROVE Present'
      <3>1. CASE p = Tunnel
        <4>1. Tunnel \in attached
          BY <2>4, <3>1 DEF ShellExits, Certainly
        <4> QED
          BY <2>2, <2>4, <3>1, <4>1 DEF ShellExits, Present, Base, Footing, Kept
      <3>2. CASE p # Tunnel
        BY <2>2, <2>4, <3>2 DEF ShellExits, Present, Base, Footing, Kept, Shape
      <3> QED
        BY <3>1, <3>2
    <2>5. ASSUME DaemonHandles, Present PROVE Present'
      <3>1. 1 \in 1..Len(wire) /\ Head(wire) = wire[1] /\ wire[1].from \in Issuers
        BY <2>5, Handled DEF Base, Footing
      <3>2. ~(wire[1].kind = "create" /\ pane[wire[1].from] = Tunnel)
        BY <1>1, <2>2, <3>1, AskedByOngoing
      <3> QED
        BY <2>2, <2>5, <3>1, <3>2 DEF DaemonHandles, Present, Base, Footing, Shape
    <2>6. ASSUME NEW c \in Creates, Spawned(c), Present PROVE Present'
      BY <2>2, <2>6 DEF Spawned, Present, Base, Footing, Shape
    <2>7. ASSUME Disconnect, Present PROVE Present'
      BY <2>2, <2>7 DEF Disconnect, LoseConnection, Present, Certainly, Sound
    <2> QED
      BY <1>4, <2>1, <2>3, <2>4, <2>5, <2>6, <2>7 DEF DaemonEvent, RequestFails, TimerFires, daemonVars
  <1> QED
    BY <1>2, <1>3, <1>4

(* What is seen to by a new ensure, or by the one in flight.               *)
LEMMA EnsureWatches ==
  ASSUME TunnelInv, enabled', NEW timer, Ensure(timer)
  PROVE  Watching'
  <1>1. ensuring = NotEnsuring => Create("creating", timer)
    BY DEF Ensure
  <1>2. retryTimer' \/ ensuring' # NotEnsuring
    <2>1. CASE ensuring = NotEnsuring
      <3>1. CASE ensuring' = NotEnsuring /\ retryTimer'
        BY <3>1
      <3>2. CASE \E c \in Tunnels : ensuring' = [at |-> "creating", by |-> c]
        BY <3>2 DEF NotEnsuring
      <3> QED
        BY <1>1, <2>1, <3>1, <3>2, CreateMoves DEF TunnelInv
    <2>2. CASE ensuring # NotEnsuring
      BY <2>2 DEF Ensure
    <2> QED
      BY <2>1, <2>2
  <1> QED
    BY <1>2 DEF Watching

LEMMA WatchingStays ==
  ASSUME Watching, UNCHANGED tunnelVars, Certainly' => Certainly /\ (Present => Present')
  PROVE  Watching'
  BY DEF Watching, tunnelVars, StopsOpen, Certainly, Present

LEMMA GoesOnWatching ==
  ASSUME Base, TunnelInv, EnsureGoesOn
  PROVE  Watching'
  <1> SUFFICES ASSUME enabled', Certainly', ~retryTimer', ensuring' = NotEnsuring, ~forgotten'
               PROVE  known' /\ status' = "connected" /\ Present'
    BY DEF Watching
  <1>1. Untouched /\ step[ensuring.by] \in Ends /\ ensuring # NotEnsuring /\ pane[ensuring.by] = Tunnel
    BY TunnelTurnUntouched DEF TunnelTurn, EnsureGoesOn, Settled, TunnelInv, Directed
  <1>2. Certainly /\ (Present => Present')
    BY <1>1 DEF Untouched, Certainly, Sound, Present
  <1>3. ~Fail
    BY DEF Fail
  <1>4. ~Create("recreating", retryTimer)
    <2> SUFFICES ASSUME Create("recreating", retryTimer) PROVE FALSE
      OBVIOUS
    <2>1. \E c \in Tunnels : ensuring' = [at |-> "recreating", by |-> c]
      BY <1>1, CreateMoves DEF TunnelInv
    <2> QED
      BY <2>1 DEF NotEnsuring
  <1>5. /\ step[ensuring.by] \in {"ok", "restored"} /\ status' = "connected"
        /\ UNCHANGED <<known, forgotten>>
    BY <1>3, <1>4 DEF EnsureGoesOn, NotEnsuring
  <1>6. step[ensuring.by] = "ok" /\ ensuring.at # "replacing"
    <2>1. CASE ensuring.by \in Creates
      <3>1. ensuring.at # "replacing"
        BY <1>1, <2>1, CallersDiffer DEF Base, TunnelTyped, EnsuringTyped
      <3>2. step[ensuring.by] \in PlainSteps
        BY <1>1, <2>1 DEF TunnelInv, Plain, Tunnels
      <3> QED
        BY <1>5, <3>1, <3>2 DEF PlainSteps, Holding, CreateSteps
    <2>2. CASE ensuring.by \in Kills
      <3>1. step[ensuring.by] \in {"unused", "done", "error"} \cup KillSteps
        BY <1>1, <2>2 DEF TunnelInv, Unfailed, TunnelKills
      <3> QED
        BY <1>5, <3>1 DEF KillSteps
    <2> QED
      BY <1>1, <2>1, <2>2 DEF Base, TunnelTyped, EnsuringTyped
  <1>7. Present
    BY <1>1, <1>2, <1>6 DEF TunnelInv, Landed
  <1> QED
    BY <1>1, <1>2, <1>5, <1>7 DEF TunnelInv, KnownWhile

LEMMA StopWatching ==
  ASSUME Base, NEW k \in Kills, NEW s \in Purposes, StopSession(k, s)
  PROVE  Watching'
  <1>1. stops'[k] # "none"
    BY DEF StopSession, Base, TunnelTyped, StopsTyped, Purposes
  <1> QED
    BY <1>1 DEF Watching, StopsOpen

LEMMA WatchingInductive ==
  ASSUME Base, TunnelInv, [Next]_vars
  PROVE  Watching'
  <1> USE DEF paramVars
  <1>1. (Sound(Tunnel)' => Sound(Tunnel)) /\ Watching
    BY NextChange, SoundBefore DEF Base, Footing, TunnelInv
  <1>2. ASSUME Untouched, UNCHANGED tunnelVars PROVE Watching'
    BY <1>1, <1>2, WatchingStays DEF Untouched, Certainly, Sound, Present
  <1>3. CASE Turn /\ UNCHANGED tunnelVars
    BY <1>2, <1>3, TurnUntouched
  <1>4. CASE UNCHANGED vars
    BY <1>2, <1>4, TurnUntouched DEF vars
  <1>5. CASE EnsureGoesOn
    BY <1>5, GoesOnWatching
  <1>6. CASE SweepEnds \/ GiveUp
    <2>1. /\ Untouched
          /\ UNCHANGED <<enabled, status, known, retryTimer, ensuring, stops, reconciling, forgotten>>
      BY <1>6 DEF SweepEnds, GiveUp, serviceVars, daemonVars, faultVars, Untouched
    <2> QED
      BY <1>1, <2>1 DEF Watching, Untouched, Certainly, Sound, Present, StopsOpen
  <1>7. ASSUME NEW k \in Kills, StopEnds(k) PROVE Watching'
    <2> SUFFICES ASSUME enabled', Certainly', ~forgotten' PROVE FALSE
      BY DEF Watching
    <2>1. pane[k] = Tunnel /\ step[k] \in Ends /\ enabled
      BY <1>7 DEF StopEnds, Settled, TunnelInv, Directed, StopsOpen, Purposes
    <2>2. step[k] # "done"
      BY <1>7, <2>1 DEF StopEnds
    <2>3. step[k] = "error"
      BY <2>1, <2>2 DEF TunnelInv, Unfailed, TunnelKills, Ends, CreateEnds, KillSteps
    <2> QED
      BY <1>1, <2>1, <2>3 DEF TunnelInv, Unfailed, TunnelKills, Certainly, Sound, Calm
  <1>8. ASSUME \E k \in Kills : Restarted(k) PROVE Watching'
    <2>1. enabled' = enabled /\ Ensure(retryTimer) /\ UNCHANGED reconciling
      BY <1>8 DEF Restarted
    <2> QED
      BY <2>1, EnsureWatches DEF Watching
  <1>9. CASE AllQuiet /\ ServiceStep /\ UNCHANGED tunnelVars
    <2>1. CASE ensuring # NotEnsuring
      BY <1>9, <2>1 DEF Watching, tunnelVars
    <2>2. CASE ensuring = NotEnsuring
      <3>1. Elsewhere \/ DaemonEvent \/ (\E c \in Tunnels : Proceeds(c)) \/ (\E k \in TunnelKills : Concerns(k))
        BY <1>9, ServiceCases, HistoryElsewhere, CallCases DEF Base
      <3> QED
        BY <1>1, <1>9, <2>2, <3>1, PresentKept, WatchingStays DEF Certainly
    <2> QED
      BY <2>1, <2>2
  <1>10. ASSUME NEW p \in Panes, Exit(p) PROVE Watching'
    <2>1. /\ UNCHANGED <<daemon, disturbed, lost, enabled, known, ensuring, stops, reconciling, forgotten>>
          /\ ExitArrives(p)
      BY <1>10 DEF Exit, ExitArrives
    <2>2. CASE p = Tunnel
      <3>1. UnexpectedExit
        BY <1>10, <2>2 DEF Exit
      <3> QED
        BY <1>1, <2>1, <3>1 DEF UnexpectedExit, Watching, StopsOpen, Certainly
    <2>3. CASE p # Tunnel
      <3>1. exits'[Tunnel] = exits[Tunnel] /\ UNCHANGED <<status, retryTimer>>
        BY <1>10, <2>1, <2>3, TunnelAssumption DEF Exit, ExitArrives, Base, Footing, Kept
      <3> QED
        BY <1>1, <2>1, <3>1 DEF Watching, StopsOpen, Certainly, Present
    <2> QED
      BY <2>2, <2>3
  <1>11. CASE RestartService
    BY <1>11 DEF RestartService, Watching
  <1>12. CASE Reconcile
    <2>1. CASE Ensure(retryTimer)
      BY <2>1, EnsureWatches DEF Watching
    <2>2. CASE \E k \in Kills : StopSession(k, "stop")
      BY <2>2, StopWatching DEF Purposes
    <2>3. CASE /\ reconciling = "unexpected" /\ UNCHANGED <<enabled, status, known, retryTimer, ensuring, stops, forgotten>>
               /\ UNCHANGED serviceVars
      BY <1>1, <2>3 DEF Watching, Certainly, Sound, Present, StopsOpen, serviceVars, daemonVars, faultVars
    <2> QED
      BY <1>12, <2>1, <2>2, <2>3 DEF Reconcile
  <1>13. CASE RetryFires \/ Start
    <2>1. \E timer : Ensure(timer)
      BY <1>13 DEF RetryFires, Start
    <2> QED
      BY <2>1, EnsureWatches DEF Watching
  <1>14. CASE Erase \/ Stop
    BY <1>14 DEF Erase, Stop, Watching
  <1>15. CASE RestartTunnel \/ DeleteWorkspace
    BY <1>15, StopWatching DEF RestartTunnel, DeleteWorkspace, Purposes
  <1>16. CASE UserStep(Panes \ {Tunnel}) /\ UNCHANGED tunnelVars
    <2>1. Untouched
      BY <1>16, CallUntouched
      DEF UserStep, Clear, Hook, Untouched, daemonVars, faultVars
    <2> QED
      BY <1>2, <1>16, <2>1
  <1> QED
    BY <1>3, <1>4, <1>5, <1>6, <1>7, <1>8, <1>9, <1>10, <1>11, <1>12, <1>13, <1>14, <1>15, <1>16 DEF Next, TunnelTurn

-----------------------------------------------------------------------------
(* The tunnel is off after a step.  Either the step killed its session, or *)
(* begins a sweep for it, or it was off before.                            *)
StillOff ==
    /\ ~enabled /\ ~ungated
    /\ \/ reconciling' = reconciling \/ reconciling # "unexpected"
       \/ daemon[Tunnel] # "live" /\ UNCHANGED serviceVars
SweepBegins == \E s \in Sweeps \cap TunnelKills : KillByWorkspaceId(s)

LEMMA OffMoves ==
  ASSUME Base, TunnelInv, [Next]_vars, ~enabled', ~ungated'
  PROVE  StillOff \/ SweepBegins \/ RestartService \/ \E k \in TunnelKills : KillPane(k)
  <1>1. ASSUME UNCHANGED <<enabled, ungated, reconciling>> PROVE StillOff
    BY <1>1 DEF StillOff
  <1>2. ASSUME NEW k \in Kills, NEW s \in Purposes, StopSession(k, s) PROVE \E d \in TunnelKills : KillPane(d)
    BY <1>2 DEF StopSession, Kill, TunnelKills
  <1>3. {"stop", "restart", "delete"} \subseteq Purposes
    BY DEF Purposes
  <1>4. ASSUME NEW timer, Ensure(timer), UNCHANGED enabled PROVE UNCHANGED ungated
    BY <1>4 DEF Ensure
  <1>5. CASE EnsureGoesOn
    <2>1. step[ensuring.by] \in Ends /\ UNCHANGED <<enabled, reconciling>>
      BY <1>5 DEF EnsureGoesOn, Settled
    <2>2. Create("recreating", retryTimer) => UNCHANGED ungated
      BY <2>1, CreateMoves DEF TunnelInv
    <2>3. UNCHANGED ungated
      BY <1>5, <2>2 DEF EnsureGoesOn, Fail
    <2> QED
      BY <1>1, <2>1, <2>3
  <1>6. CASE Stop \/ RestartTunnel \/ DeleteWorkspace
    BY <1>2, <1>3, <1>6 DEF Stop, RestartTunnel, DeleteWorkspace
  <1>7. CASE Erase
    BY <1>7, IssuersAssumption DEF Erase, Sweep, SweepBegins, TunnelKills
  <1>8. CASE (\E k \in Kills : Restarted(k)) \/ RetryFires
    BY <1>1, <1>4, <1>8 DEF Restarted, RetryFires
  <1>9. CASE Reconcile
    <2>1. CASE reconciling = "expected" /\ Ensure(retryTimer)
      BY <1>4, <1>9, <2>1 DEF Reconcile, StillOff
    <2>2. CASE \E k \in Kills : StopSession(k, "stop")
      BY <1>2, <1>3, <2>2
    <2>3. CASE daemon[Tunnel] # "live" /\ UNCHANGED <<ungated, serviceVars>>
      BY <1>9, <2>3 DEF Reconcile, StillOff
    <2> QED
      BY <1>9, <2>1, <2>2, <2>3 DEF Reconcile
  <1>10. CASE Start
    BY <1>10 DEF Start
  <1> QED
    BY <1>1, <1>5, <1>6, <1>7, <1>8, <1>9, <1>10
    DEF Next, vars, tunnelVars, TunnelTurn, SweepEnds, StopEnds, Exit, GiveUp

(* A creation of the tunnel is launched only for a tunnel that is on.      *)
LEMMA OffLaunchesNone ==
  ASSUME ~enabled', ~ungated'
  PROVE  ~\E c \in Tunnels : Launches(c)
  BY DEF Launches

Going ==
    \/ Elsewhere \/ Event
    \/ (\E c \in Tunnels : Proceeds(c)) \/ \E k \in TunnelKills : Concerns(k)

LEMMA GoingOn ==
  ASSUME Base, TunnelInv, Going
  PROVE  /\ pane' = pane /\ Tunnels' = Tunnels /\ TunnelKills' = TunnelKills
         /\ Tunnel \in killed => Tunnel \in killed'
         /\ Ongoing' \subseteq Ongoing /\ \A c \in Tunnels : gen'[c] = gen[c]
         /\ Tunnel \in lost /\ Ongoing = {} => Tunnel \in lost'
  <1>1. /\ {"granted", "queued"} \subseteq CreateSteps /\ "failed" \notin CreateSteps
    BY DEF CreateSteps
  <1>2. ASSUME pane' = pane,
               \A c \in Tunnels : step'[c] = step[c] \/ (step[c] = "queued" /\ step'[c] \in {"granted", "failed"})
        PROVE  Tunnels' = Tunnels /\ TunnelKills' = TunnelKills /\ Ongoing' \subseteq Ongoing
    BY <1>1, <1>2 DEF Ongoing, Tunnels, TunnelKills
  <1>3. CASE Elsewhere
    BY <1>2, <1>3 DEF Elsewhere
  <1>4. CASE Event
    BY <1>2, <1>4, EventMoves
  <1>5. CASE \E k \in TunnelKills : Concerns(k)
    BY <1>2, <1>5, ConcernMoves, TunnelCalls
  <1>6. ASSUME NEW c \in Tunnels, Proceeds(c)
        PROVE  /\ pane' = pane /\ Tunnels' = Tunnels /\ TunnelKills' = TunnelKills
               /\ Tunnel \in killed => Tunnel \in killed'
               /\ Ongoing' \subseteq Ongoing /\ \A d \in Tunnels : gen'[d] = gen[d]
               /\ Ongoing # {}
    <2>1. /\ c \in Ongoing /\ UNCHANGED <<pane, gen, killed>>
          /\ \A d \in Tunnels \ {c} : step'[d] = step[d] \/ (step[d] = "queued" /\ step'[d] \in {"granted", "failed"})
      BY <1>6, ProceedMoves, TunnelCalls
    <2>2. Tunnels' = Tunnels /\ TunnelKills' = TunnelKills
      BY <2>1 DEF Tunnels, TunnelKills
    <2>3. Ongoing' \subseteq Ongoing
      BY <1>1, <2>1, <2>2 DEF Ongoing
    <2> QED
      BY <2>1, <2>2, <2>3
  <1> QED
    BY <1>3, <1>4, <1>5, <1>6 DEF Going

(* What is stale stays so.                                                 *)
LEMMA QuelledKept ==
  ASSUME Base, TunnelInv, Sound(Tunnel), Quelled, Going
  PROVE  \/ Tunnel \in killed'
         \/ Quelled' /\ (daemon[Tunnel] # "live" => daemon'[Tunnel] # "live")
  <1> USE DEF managerVars, callVars, paramVars, faultVars, limiterVars, daemonVars
  <1>1. /\ pane' = pane /\ Tunnels' = Tunnels /\ Ongoing' \subseteq Ongoing /\ \A c \in Tunnels : gen'[c] = gen[c]
        /\ Ongoing \subseteq Tunnels /\ Tunnel \in Panes
    BY GoingOn, TunnelAssumption DEF Ongoing
  <1>2. CASE Elsewhere
    BY <1>1, <1>2 DEF Elsewhere, Quelled
  <1>3. ASSUME NEW c \in Tunnels, Proceeds(c) PROVE Quelled' /\ daemon' = daemon
    <2>1. /\ c \in Ongoing /\ UNCHANGED <<daemon, generation, spawning>> /\ c \in Issuers /\ pane[c] = Tunnel
          /\ \/ wire' = wire
             \/ \E kind \in Kinds : /\ wire' = Append(wire, [kind |-> kind, from |-> c])
                                    /\ kind = "create" => Current(c)
      BY <1>3, ProceedMoves, TunnelCalls DEF Tunnels
    <2>2. ~Current(c)
      BY <2>1 DEF Quelled, Current
    <2>3. \A k \in 1..Len(wire') : wire'[k].kind = "create" /\ pane[wire'[k].from] = Tunnel =>
              \E j \in 1..Len(wire) : wire[j] = wire'[k]
      <3>1. CASE wire' = wire
        BY <3>1
      <3>2. CASE \E kind \in Kinds \ {"create"} : wire' = Append(wire, [kind |-> kind, from |-> c])
        BY <2>1, <3>2, WireElsewhere DEF Base, Footing
      <3> QED
        BY <2>1, <2>2, <3>1, <3>2
    <2> QED
      BY <1>1, <2>1, <2>3 DEF Quelled
  <1>4. ASSUME NEW k \in TunnelKills, Concerns(k), Tunnel \notin killed' PROVE Quelled' /\ daemon' = daemon
    <2>1. Swept(k) /\ ~Found(k)
      BY <1>4, ConcernMoves
    <2>2. UNCHANGED <<generation, wire, spawning, daemon>>
      BY <2>1 DEF Swept
    <2> QED
      BY <1>1, <2>2 DEF Quelled
  <1>5. ASSUME Event PROVE Quelled' /\ (daemon[Tunnel] # "live" => daemon'[Tunnel] # "live")
    <2>1. generation' = generation
      BY <1>5, EventMoves
    <2>2. CASE UNCHANGED <<wire, daemon>> /\ spawning' \subseteq spawning
      BY <1>1, <2>1, <2>2 DEF Quelled
    <2>3. ASSUME NEW p \in Panes, ShellExits(p) PROVE UNCHANGED <<wire, spawning>> /\ daemon' = [daemon EXCEPT ![p] = "none"]
      BY <2>3 DEF ShellExits
    <2>4. ASSUME NEW c \in Creates, Spawned(c)
          PROVE  /\ wire' = wire /\ spawning' \subseteq spawning /\ pane[c] # Tunnel
                 /\ daemon' = [daemon EXCEPT ![pane[c]] = "live"]
      BY <2>4 DEF Spawned, Quelled
    <2>5. CASE Disconnect
      <3>1. UNCHANGED <<daemon, spawning>> /\ wire' \in {wire, <<>>}
        BY <2>5 DEF Disconnect
      <3>2. CASE wire' = wire
        BY <2>2, <3>1, <3>2
      <3>3. CASE wire' = <<>>
        <4>1. Len(wire') = 0
          BY <3>3
        <4> QED
          BY <1>1, <2>1, <3>1, <4>1 DEF Quelled
      <3> QED
        BY <3>1, <3>2, <3>3
    <2>6. CASE DaemonHandles
      <3>1. /\ 1 \in 1..Len(wire) /\ Head(wire) = wire[1] /\ wire[1].from \in Issuers
            /\ \A k \in 1..Len(wire') : k + 1 \in 1..Len(wire) /\ wire'[k] = wire[k + 1]
        BY <2>6, Handled DEF Base, Footing
      <3>2. wire[1].kind = "create" => pane[wire[1].from] # Tunnel
        BY <3>1 DEF Quelled
      <3>3. \A k \in 1..Len(wire') : wire'[k].kind = "create" => pane[wire'[k].from] # Tunnel
        BY <3>1 DEF Quelled
      <3>4. \A c \in spawning' : pane[c] # Tunnel
        BY <2>6, <3>1, <3>2 DEF DaemonHandles, Quelled
      <3>5. daemon[Tunnel] # "live" => daemon'[Tunnel] # "live"
        BY <1>1, <2>6, <3>1 DEF DaemonHandles, Base, Footing, Shape
      <3> QED
        BY <1>1, <2>1, <3>3, <3>4, <3>5 DEF Quelled
    <2>7. CASE \E p \in Panes : ShellExits(p)
      BY <1>1, <2>1, <2>3, <2>7 DEF Quelled, Base, Footing, Shape
    <2>8. CASE \E c \in Creates : Spawned(c)
      BY <1>1, <2>1, <2>4, <2>8 DEF Quelled, Base, Footing, Shape
    <2> QED
      BY <1>5, <2>2, <2>5, <2>6, <2>7, <2>8 DEF Event, DaemonEvent, RequestFails, ExitArrives, TimerFires
  <1> QED
    BY <1>2, <1>3, <1>4, <1>5 DEF Going, Elsewhere

(* A sweep passes the tunnel over only if there is nothing of it.          *)
LEMMA PassedOver ==
  ASSUME Base, TunnelInv, Sound(Tunnel), NEW s \in Sweeps, Sweeping(s), Swept(s), ~Found(s)
  PROVE  (Tunnel \in lost /\ Ongoing = {}) \/ (Quelled /\ daemon[Tunnel] # "live")
  <1>1. pane[s] = Tunnel /\ s \in TunnelKills /\ Calm(Tunnel) /\ Tunnel \in Panes
    BY TunnelAssumption DEF Sweeping, TunnelKills, Sound, Calm
  <1>2. answer[s] = "ok"
    BY <1>1 DEF Swept, TunnelInv, Unfailed
  <1>3. Tunnel \notin listed[s] /\ sessions[Tunnel].by = None /\ pending[Tunnel] = None
    BY <1>1, <1>2 DEF Found
  <1>4. ~sessions[Tunnel].alive
    BY <1>1, <1>3 DEF TunnelInv, Owned
  <1>5. Ongoing = {}
    <2> SUFFICES ASSUME NEW c \in Ongoing PROVE FALSE
      OBVIOUS
    <2>1. c \in Creates /\ pane[c] = Tunnel /\ step[c] \in CreateSteps \cap PlainSteps
      BY DEF Ongoing, Tunnels, TunnelInv, Plain
    <2>2. step[c] \in Holding \cup {"queued"}
      BY <2>1 DEF PlainSteps, CreateSteps, Holding
    <2>3. pending[Tunnel] = c
      BY <2>1, <2>2 DEF Base, Footing, Held
    <2> QED
      BY <1>3, <2>1, <2>3, NoneNotIssuer
  <1>6. Quelled
    BY <1>1, <1>5, AskedByOngoing DEF Quelled
  <1>7. Tunnel \notin lost => daemon[Tunnel] # "live"
    <2>1. \A c \in Tunnels : ~Up(c) /\ step[c] # "discarding"
      BY <1>5, CreateStepSets DEF Ongoing, Up
    <2> QED
      BY <1>2, <1>3, <1>4, <2>1 DEF Sweeping, Notable
  <1> QED
    BY <1>5, <1>6, <1>7

LEMMA NotableKept ==
  ASSUME Notable, pane' = pane, daemon'[Tunnel] = "live" => daemon[Tunnel] = "live",
         sessions[Tunnel].alive => sessions'[Tunnel].alive \/ \E c \in Tunnels : Up(c),
         daemon'[Tunnel] = "live" =>
            \A c \in Tunnels : /\ step'[c] = step[c] \/ ~(step[c] \in {"requested", "discarding"})
                               /\ Up(c) \/ step[c] = "discarding" => answer'[c] = answer[c]
  PROVE  Notable'
  <1>1. Tunnels' = Tunnels
    BY DEF Tunnels
  <1> QED
    BY <1>1 DEF Notable, Up

LEMMA SweepingStays ==
  ASSUME NEW s, Sweeping(s), pane' = pane, step'[s] = step[s],
         \/ answer'[s] = answer[s] /\ listed'[s] = listed[s]
         \/ answer'[s] = "ok" => Tunnel \in listed'[s]
         \/ Notable',
         Tunnel \notin lost' => Tunnel \notin lost,
         Notable => Notable'
  PROVE  Sweeping(s)'
  BY DEF Sweeping, TunnelKills

LEMMA SweepingProceeds ==
  ASSUME Base, TunnelInv, NEW s \in Sweeps, Sweeping(s), NEW c \in Tunnels, Proceeds(c)
  PROVE  Sweeping(s)'
  <1>1. /\ UNCHANGED <<pane, daemon, listed>>
        /\ c \in Ongoing /\ Ongoing \subseteq {c}
        /\ \A j \in Issuers \ {c} : step'[j] = step[j] \/ (step[j] = "queued" /\ step'[j] \in {"granted", "failed"})
        /\ \A j \in Issuers \ {c} : answer'[j] = answer[j]
        /\ \/ /\ sessions' = sessions /\ lost' = lost
              /\ ~Up(c) /\ ~(step[c] = "discarding" /\ answer[c] = "none")
           \/ sessions'[Tunnel].alive
           \/ step'[c] = "discarding" /\ answer'[c] = "none" /\ lost' = lost
    BY ProceedMoves
  <1>2. s \in Issuers \ {c} /\ step[s] = "sweeping" /\ Tunnels' = Tunnels
    BY <1>1, TunnelCalls DEF Sweeping, Tunnels
  <1>3. step'[s] = step[s] /\ answer'[s] = answer[s]
    BY <1>1, <1>2
  <1>4. \A d \in Tunnels : Up(d) \/ step[d] = "discarding" => d = c
    BY <1>1, CreateStepSets DEF Up, Ongoing
  <1>5. CASE sessions'[Tunnel].alive
    <2>1. Notable'
      BY <1>5 DEF Notable
    <2> QED
      BY <1>1, <1>2, <1>3, <2>1 DEF Sweeping, TunnelKills
  <1>6. CASE step'[c] = "discarding" /\ answer'[c] = "none" /\ lost' = lost
    <2>1. Notable'
      BY <1>2, <1>6 DEF Notable
    <2> QED
      BY <1>1, <1>3, <1>6, <2>1, SweepingStays
  <1>7. CASE /\ sessions' = sessions /\ lost' = lost
             /\ ~Up(c) /\ ~(step[c] = "discarding" /\ answer[c] = "none")
    <2>1. Notable => Notable'
      BY <1>1, <1>4, <1>7 DEF Notable
    <2> QED
      BY <1>1, <1>3, <1>7, <2>1, SweepingStays
  <1> QED
    BY <1>1, <1>5, <1>6, <1>7

LEMMA SweepingElsewhere ==
  ASSUME NEW s \in Sweeps, Sweeping(s), Elsewhere
  PROVE  Sweeping(s)'
  <1>1. /\ pane' = pane /\ step'[s] = step[s] /\ answer'[s] = answer[s] /\ listed'[s] = listed[s]
        /\ Tunnel \in lost' <=> Tunnel \in lost
    BY DEF Sweeping, Elsewhere
  <1>2. Notable => Notable'
    <2>1. /\ daemon'[Tunnel] = daemon[Tunnel] /\ sessions'[Tunnel] = sessions[Tunnel] /\ Tunnels' = Tunnels
          /\ \A c \in Tunnels : answer'[c] = answer[c] /\ (step'[c] = step[c] \/ step[c] = "queued")
      BY DEF Elsewhere, Tunnels
    <2> QED
      BY <2>1 DEF Notable, Up
  <1> QED
    BY <1>1, <1>2, SweepingStays

LEMMA SweepingHandled ==
  ASSUME Base, TunnelInv, NEW s \in Sweeps, Sweeping(s), DaemonHandles
  PROVE  Sweeping(s)'
  <1> USE DEF managerVars, paramVars, faultVars
  <1> DEFINE m == wire[1]
  <1>1. /\ 1 \in 1..Len(wire) /\ Head(wire) = m /\ m.from \in Issuers /\ pane[m.from] \in Panes
        /\ UNCHANGED <<pane, step, sessions, lost>> /\ Tunnel \in Panes /\ Tunnels' = Tunnels
        /\ s \in Issuers /\ pane[s] = Tunnel /\ step[s] = "sweeping" /\ s \in Creates \cup Sweeps
    BY Handled, TunnelAssumption, TunnelCalls DEF DaemonHandles, Base, Footing, Sweeping, TunnelKills, Tunnels
  <1>2. CASE m.kind = "list" /\ Answer(m, "ok") /\ daemon' = daemon
    <2>1. \A c \in Tunnels : Up(c) \/ step[c] = "discarding" => answer'[c] = answer[c]
      BY <1>1, <1>2, TunnelCalls DEF Answer, Awaited, Up, Base, Footing, Shape
    <2>2. Notable => Notable'
      BY <1>1, <1>2, <2>1, NotableKept
    <2>3. CASE m.from # s
      <3>1. answer'[s] = answer[s]
        BY <1>1, <1>2, <2>3 DEF Answer, Base, Footing, Shape
      <3>2. listed' = listed \/ \E x : listed' = [listed EXCEPT ![m.from] = x]
        BY <1>1 DEF DaemonHandles, Inventory
      <3>3. listed'[s] = listed[s]
        BY <1>1, <2>3, <3>2 DEF Base, Types, Listings
      <3> QED
        BY <1>1, <2>2, <3>1, <3>3, SweepingStays
    <2>4. CASE m.from = s
      <3>1. Inventory(s)
        BY <1>1, <1>2, <2>4 DEF DaemonHandles
      <3>2. Tunnel \in listed'[s] \/ daemon[Tunnel] = "none"
        BY <1>1, <3>1 DEF Inventory, Base, Types, Listings
      <3>3. Tunnel \in listed'[s] \/ Notable'
        BY <1>2, <3>2 DEF Notable
      <3> QED
        BY <1>1, <2>2, <3>3, SweepingStays
    <2> QED
      BY <2>3, <2>4
  <1>3. CASE m.kind = "kill" /\ Answer(m, "ok") /\ listed' = listed
    <2>1. answer'[s] = answer[s]
      BY <1>1, <1>3 DEF Answer, Awaited, Base, Footing, Shape
    <2>2. daemon' = [daemon EXCEPT ![pane[m.from]] = IF @ = "live" THEN "dying" ELSE @]
      BY <1>1, <1>3 DEF DaemonHandles
    <2>3. daemon'[Tunnel] = "live" => daemon[Tunnel] = "live" /\ pane[m.from] # Tunnel
      BY <1>1, <2>2 DEF Base, Footing, Shape
    <2>4. pane[m.from] # Tunnel => \A c \in Tunnels : answer'[c] = answer[c]
      BY <1>1, <1>3, TunnelCalls DEF Answer, Tunnels, Base, Footing, Shape
    <2>5. Notable => Notable'
      BY <1>1, <2>3, <2>4, NotableKept
    <2> QED
      BY <1>1, <1>3, <2>1, <2>5, SweepingStays
  <1>4. CASE m.kind = "create" /\ daemon' = daemon /\ listed' = listed /\ \E what : Answer(m, what)
    <2>1. \A i \in Issuers : Up(i) \/ step[i] = "discarding" \/ i = s => answer'[i] = answer[i]
      BY <1>1, <1>4 DEF Answer, Awaited, Awaiting, Up, Base, Footing, Shape
    <2>2. Notable => Notable'
      BY <1>1, <1>4, <2>1, TunnelCalls, NotableKept
    <2> QED
      BY <1>1, <1>4, <2>1, <2>2, SweepingStays
  <1>5. CASE /\ m.kind = "create" /\ daemon' = [daemon EXCEPT ![pane[m.from]] = "none"]
             /\ UNCHANGED <<answer, listed>>
    <2>1. daemon'[Tunnel] = "live" => daemon[Tunnel] = "live"
      BY <1>1, <1>5 DEF Base, Footing, Shape
    <2>2. Notable => Notable'
      BY <1>1, <1>5, <2>1, NotableKept
    <2> QED
      BY <1>1, <1>5, <2>2, SweepingStays
  <1> QED
    BY <1>1, <1>2, <1>3, <1>4, <1>5 DEF DaemonHandles

LEMMA SweepingEvent ==
  ASSUME Base, TunnelInv, Sound(Tunnel), Sound(Tunnel)', NEW s \in Sweeps, Sweeping(s), Event
  PROVE  Sweeping(s)'
  <1> USE DEF managerVars, paramVars, callVars, daemonVars, faultVars
  <1>1. /\ UNCHANGED <<pane, step>> /\ (Tunnel \notin lost' => Tunnel \notin lost)
        /\ Tunnel \in Panes /\ s \in Issuers /\ pane[s] = Tunnel /\ step[s] = "sweeping"
        /\ Tunnels' = Tunnels /\ Tunnels \subseteq Issuers /\ \A c \in Tunnels : pane[c] = Tunnel
    BY EventMoves, TunnelAssumption, TunnelCalls DEF Sweeping, TunnelKills, Tunnels
  <1>2. ASSUME NEW i \in Issuers, RequestFails(i) PROVE Sweeping(s)'
    <2>1. pane[i] # Tunnel /\ UNCHANGED <<daemon, sessions, listed>> /\ answer' = [answer EXCEPT ![i] = "failed"]
      BY <1>2 DEF RequestFails, Sound
    <2>2. answer'[s] = answer[s] /\ \A c \in Tunnels : answer'[c] = answer[c]
      BY <1>1, <2>1 DEF Base, Footing, Shape
    <2>3. Notable => Notable'
      BY <1>1, <2>1, <2>2, NotableKept
    <2> QED
      BY <1>1, <2>1, <2>2, <2>3, SweepingStays
  <1>3. ASSUME NEW p \in Panes, ExitArrives(p) PROVE Sweeping(s)'
    <2>1. UNCHANGED <<daemon, answer, listed>> /\ Dead(p)
      BY <1>3 DEF ExitArrives
    <2>2. sessions[Tunnel].alive /\ daemon[Tunnel] = "live" =>
              sessions'[Tunnel].alive \/ \E c \in Tunnels : Up(c)
      <3>1. CASE p # Tunnel
        BY <1>1, <2>1, <3>1 DEF Dead, Base, Footing, Kept
      <3>2. CASE p = Tunnel
        <4>1. ASSUME sessions[Tunnel].alive, daemon[Tunnel] = "live" PROVE Answered(Tunnel) # {}
          BY <1>3, <3>2, <4>1 DEF ExitArrives, Sound
        <4>2. \A c \in Answered(Tunnel) : c \in Tunnels /\ Up(c)
          BY DEF Answered, Tunnels, Up
        <4> QED
          BY <4>1, <4>2
      <3> QED
        BY <3>1, <3>2
    <2>3. Notable => Notable'
      BY <1>1, <2>1, <2>2 DEF Notable, Up
    <2> QED
      BY <1>1, <2>1, <2>3, SweepingStays
  <1>4. ASSUME NEW p \in Panes, TimerFires(p) PROVE Sweeping(s)'
    <2>1. UNCHANGED <<daemon, answer, listed>> /\ sessions' = [sessions EXCEPT ![p] = NoSession]
      BY <1>4 DEF TimerFires
    <2>2. CASE p = Tunnel /\ sessions[Tunnel].alive
      <3>1. Tunnel \in lost'
        BY <1>4, <2>2 DEF TimerFires
      <3> QED
        BY <1>1, <3>1 DEF Sweeping, TunnelKills
    <2>3. CASE p # Tunnel \/ ~sessions[Tunnel].alive
      <3>1. sessions[Tunnel].alive => sessions'[Tunnel].alive
        BY <1>1, <2>1, <2>3 DEF Base, Footing, Kept
      <3>2. Notable => Notable'
        BY <1>1, <2>1, <3>1, NotableKept
      <3> QED
        BY <1>1, <2>1, <3>2, SweepingStays
    <2> QED
      BY <2>2, <2>3
  <1>5. ASSUME NEW p \in Panes, ShellExits(p) PROVE Sweeping(s)'
    <2>1. UNCHANGED <<sessions, answer, listed>> /\ daemon' = [daemon EXCEPT ![p] = "none"]
      BY <1>5 DEF ShellExits
    <2>2. daemon'[Tunnel] = "live" => daemon[Tunnel] = "live"
      BY <1>1, <2>1 DEF Base, Footing, Shape
    <2>3. Notable => Notable'
      BY <1>1, <2>1, <2>2, NotableKept
    <2> QED
      BY <1>1, <2>1, <2>3, SweepingStays
  <1>6. ASSUME NEW c \in Creates, Spawned(c) PROVE Sweeping(s)'
    <2>1. /\ UNCHANGED <<sessions, listed>> /\ daemon' = [daemon EXCEPT ![pane[c]] = "live"]
          /\ Answer([kind |-> "create", from |-> c], "ok") /\ c \in spawning /\ c \in Issuers
      BY <1>6, Callers DEF Spawned
    <2>2. \A i \in Issuers : Up(i) \/ step[i] = "discarding" \/ i = s => answer'[i] = answer[i]
      BY <1>1, <2>1 DEF Answer, Awaited, Awaiting, Up, Base, Footing, Shape
    <2>3. Notable => Notable'
      <3>1. CASE pane[c] = Tunnel
        <4>1. step[c] = "requested" /\ answer[c] = "none"
          BY <2>1, <3>1, AskedByOngoing DEF Sound, Calm
        <4>2. Up(c)' /\ c \in Tunnels
          BY <1>1, <2>1, <3>1, <4>1 DEF Answer, Awaited, Awaiting, Up, Tunnels, Base, Footing, Shape
        <4> QED
          BY <1>1, <4>2 DEF Notable
      <3>2. CASE pane[c] # Tunnel
        <4>1. daemon'[Tunnel] = "live" => daemon[Tunnel] = "live"
          BY <1>1, <2>1, <3>2 DEF Base, Footing, Shape
        <4> QED
          BY <1>1, <2>1, <2>2, <4>1, NotableKept
      <3> QED
        BY <3>1, <3>2
    <2> QED
      BY <1>1, <2>1, <2>2, <2>3, SweepingStays
  <1>7. CASE Disconnect
    <2>1. UNCHANGED <<sessions, listed, daemon>> /\ LoseConnection
      BY <1>7 DEF Disconnect
    <2>2. \A i \in Issuers : pane[i] = Tunnel => answer'[i] = answer[i]
      BY <2>1 DEF LoseConnection, Sound
    <2>3. Notable => Notable'
      BY <1>1, <2>1, <2>2, NotableKept
    <2> QED
      BY <1>1, <2>1, <2>2, <2>3, SweepingStays
  <1> QED
    BY <1>2, <1>3, <1>4, <1>5, <1>6, <1>7, SweepingHandled DEF Event, DaemonEvent

LEMMA SweepingGoes ==
  ASSUME Base, TunnelInv, Sound(Tunnel), Sound(Tunnel)', NEW s \in Sweeps, Sweeping(s), Going
  PROVE  \/ Tunnel \in killed'
         \/ Quelled' /\ daemon'[Tunnel] # "live"
         \/ Tunnel \in lost' /\ Ongoing' = {}
         \/ Sweeping(s)'
  <1>1. CASE Elsewhere \/ Event \/ \E c \in Tunnels : Proceeds(c)
    BY <1>1, SweepingElsewhere, SweepingEvent, SweepingProceeds
  <1>2. ASSUME NEW k \in TunnelKills, Concerns(k), Tunnel \notin killed'
        PROVE  \/ Quelled' /\ daemon'[Tunnel] # "live"
               \/ Tunnel \in lost' /\ Ongoing' = {}
               \/ Sweeping(s)'
    <2>1. Swept(k) /\ ~Found(k)
      BY <1>2, ConcernMoves
    <2>2. CASE k = s
      <3>1. (Tunnel \in lost /\ Ongoing = {}) \/ (Quelled /\ daemon[Tunnel] # "live")
        BY <2>1, <2>2, PassedOver
      <3>2. Going
        BY <1>2 DEF Going
      <3> QED
        BY <1>2, <3>1, <3>2, GoingOn, QuelledKept
    <2>3. CASE k # s
      <3>1. UNCHANGED <<pane, daemon, sessions, listed, answer, lost>>
        BY <2>1 DEF Swept, managerVars, paramVars, daemonVars, faultVars
      <3>2. \A j \in Issuers \ {k} : step'[j] = step[j]
        BY <1>2, ConcernMoves
      <3>3. step'[s] = step[s] /\ \A c \in Tunnels : step'[c] = step[c]
        BY <1>2, <2>3, <3>2, TunnelCalls DEF Sweeping
      <3>4. Notable => Notable'
        BY <3>1, <3>3, NotableKept
      <3> QED
        BY <3>1, <3>3, <3>4, SweepingStays
    <2> QED
      BY <2>2, <2>3
  <1> QED
    BY <1>1, <1>2 DEF Going

(* The manager's reset makes every creation stale, or lets it fail.        *)
LEMMA RestartQuells ==
  ASSUME Base, Base', TunnelInv, Restart, Sound(Tunnel)'
  PROVE  Quelled'
  <1>1. /\ pane' = pane /\ gen' = gen /\ Tunnel \in Panes /\ Tunnels' = Tunnels
        /\ step' = [i \in Issuers |-> IF step[i] = "queued" THEN "failed" ELSE step[i]]
        /\ generation' = [p \in Panes |-> IF pending[p] = None THEN generation[p] ELSE generation[p] + 1]
        /\ LoseConnection
    BY RestartMoves, TunnelAssumption DEF Restart, Tunnels
  <1>2. ASSUME NEW c \in Ongoing' PROVE gen'[c] # generation'[Tunnel]
    <2>1. /\ c \in Creates /\ c \in Issuers /\ pane[c] = Tunnel
          /\ step[c] # "queued" /\ step[c] \in CreateSteps \cap PlainSteps
      BY <1>1, <1>2, TunnelCalls DEF Ongoing, Tunnels, CreateSteps, TunnelInv, Plain
    <2>2. step[c] \in Holding
      BY <2>1 DEF PlainSteps, CreateSteps, Holding
    <2>3. pending[Tunnel] = c /\ c # None
      BY <2>1, <2>2, NoneNotIssuer DEF Base, Footing, Held
    <2>4. gen[c] \in Nat /\ generation[Tunnel] \in Nat /\ gen[c] <= generation[Tunnel]
      BY <1>1, <2>1 DEF Base, Footing, Dated
    <2> QED
      BY <1>1, <2>3, <2>4
  <1>3. ASSUME NEW c \in Issuers, step'[c] = "requested", answer'[c] = "none" PROVE FALSE
    BY <1>1, <1>3 DEF LoseConnection, Awaiting
  <1>4. Calm(Tunnel)'
    BY DEF Sound, Calm
  <1>5. \A k \in 1..Len(wire') : wire'[k].kind = "create" => pane'[wire'[k].from] # Tunnel
    <2> SUFFICES ASSUME NEW k \in 1..Len(wire'), wire'[k].kind = "create", pane'[wire'[k].from] = Tunnel
                 PROVE  FALSE
      OBVIOUS
    <2>1. wire'[k].from \in Creates /\ step'[wire'[k].from] = "requested" /\ answer'[wire'[k].from] = "none"
      BY <1>4 DEF Base, Requests, KillInv, Asked, Awaited, Calm
    <2> QED
      BY <1>3, <2>1, Callers
  <1>6. \A c \in spawning' : pane'[c] # Tunnel
    <2> SUFFICES ASSUME NEW c \in spawning', pane'[c] = Tunnel PROVE FALSE
      OBVIOUS
    <2>1. c \in Creates /\ step'[c] = "requested" /\ answer'[c] = "none"
      BY <1>4 DEF Base, Requests, KillInv, Coming, Calm
    <2> QED
      BY <1>3, <2>1, Callers
  <1> QED
    BY <1>2, <1>5, <1>6 DEF Quelled

LEMMA OffInductive ==
  ASSUME Base, Base', TunnelInv, [Next]_vars
  PROVE  Off'
  <1> SUFFICES ASSUME ~enabled', ~ungated', Sound(Tunnel)'
               PROVE  \/ Tunnel \in killed'
                      \/ Quelled' /\ (reconciling' = "unexpected" \/ daemon'[Tunnel] # "live")
                      \/ Tunnel \in lost' /\ Ongoing' = {}
                      \/ \E s \in Sweeps : Sweeping(s)'
    BY DEF Off
  <1>1. Sound(Tunnel)
    BY NextChange, SoundBefore DEF Base, Footing
  <1>2. CASE RestartService
    BY <1>2, RestartQuells DEF RestartService
  <1>3. CASE \E k \in TunnelKills : KillPane(k)
    BY <1>3 DEF KillPane, TunnelKills
  <1>4. CASE SweepBegins
    <2>1. PICK s \in Sweeps \cap TunnelKills : KillByWorkspaceId(s)
      BY <1>4 DEF SweepBegins
    <2>2. Sweeping(s)'
      BY <2>1, TunnelCalls DEF KillByWorkspaceId, Request, Go, Sweeping, TunnelKills, paramVars, Base, Footing, Shape
    <2> QED
      BY <2>1, <2>2
  <1>5. CASE StillOff /\ ~RestartService
    <2>1. Going
      BY <1>5, TunnelCases, OffLaunchesNone DEF Going, Base, TunnelInv
    <2>2. CASE Tunnel \in killed
      BY <2>1, <2>2, GoingOn
    <2>3. CASE Quelled /\ (reconciling = "unexpected" \/ daemon[Tunnel] # "live")
      BY <1>1, <1>5, <2>1, <2>3, QuelledKept DEF StillOff
    <2>4. CASE Tunnel \in lost /\ Ongoing = {}
      BY <2>1, <2>4, GoingOn
    <2>5. CASE \E s \in Sweeps : Sweeping(s)
      BY <1>1, <2>1, <2>5, SweepingGoes
    <2> QED
      BY <1>1, <1>5, <2>2, <2>3, <2>4, <2>5 DEF TunnelInv, Off, StillOff
  <1> QED
    BY <1>2, <1>3, <1>4, <1>5, OffMoves

LEMMA TunnelInit ==
  ASSUME Init
  PROVE  TunnelInv
  <1>1. /\ pending = [p \in Panes |-> None] /\ sessions = [p \in Panes |-> NoSession]
        /\ step = [i \in Issuers |-> "unused"] /\ answer = [i \in Issuers |-> "none"]
        /\ sticky = {} /\ ensuring = NotEnsuring /\ stops = [k \in Kills |-> "none"]
        /\ reconciling = IF enabled THEN "expected" ELSE "unexpected"
        /\ wire = <<>> /\ Len(wire) = 0 /\ spawning = {}
    BY EmptySeq DEF Init, ServiceInit
  <1>2. \A i \in Issuers : step[i] = "unused" /\ answer[i] = "none"
    BY <1>1
  <1>3. Pledged /\ Owned /\ Directed
    BY <1>1 DEF Pledged, Owned, Directed, StopsOpen, NoSession
  <1>4. Plain /\ Unfailed
    BY <1>1, <1>2, TunnelCalls DEF Plain, PlainSteps, Unfailed
  <1>5. Ongoing = {} /\ Lone
    BY <1>2, TunnelCalls, CreateStepSets DEF Ongoing, Lone
  <1>6. KnownWhile /\ Landed /\ Watching
    BY <1>1 DEF KnownWhile, Landed, Watching
  <1>7. Off
    BY <1>1, <1>5 DEF Off, Quelled
  <1> QED
    BY <1>3, <1>4, <1>5, <1>6, <1>7 DEF TunnelInv

LEMMA BaseInit ==
  ASSUME Init
  PROVE  Base
  <1>1. wire = <<>> /\ Len(wire) = 0 /\ spawning = {} /\ killed = {}
    BY EmptySeq DEF Init, ServiceInit
  <1>2. KillInv /\ Requests
    BY <1>1 DEF KillInv, Asked, Once, Coming, Ending, Requests
  <1> QED
    BY <1>2, ShapeInit, RecordsInit, TypesInit, CertainInit, SettlingInit DEF Base, Footing, Records

LEMMA BaseInductive ==
  ASSUME Base, [Next]_vars
  PROVE  Base'
  <1>1. Effect /\ Change
    BY NextEffect, NextChange DEF Base, Footing
  <1>2. (Shape /\ SlotInv)' /\ KillInv'
    BY <1>1, ShapeSlots, KillsInductive DEF Base, Footing
  <1>3. (Dated /\ Held)' /\ Records'
    BY <1>1, DatedInductive, RecordsInductive DEF Base, Footing
  <1>4. Types' /\ TunnelTyped' /\ Requests'
    BY <1>1, ServiceTypes, TunnelTypes, RequestsInductive DEF Base, Footing
  <1>5. Certain'
    BY <1>1, <1>2, <1>3, OutdatedInductive, MatchingInductive DEF Base, Footing, Certain
  <1>6. Settling' /\ Awaiters'
    BY <1>4, SettlingInductive, AwaitersKept DEF Types, Base, Footing
  <1> QED
    BY <1>2, <1>3, <1>4, <1>5, <1>6 DEF Base, Footing, Records

LEMMA TunnelInductive ==
  ASSUME Base, Base', TunnelInv, [Next]_vars
  PROVE  TunnelInv'
  <1>1. Change
    BY NextChange DEF Base, Footing
  <1>2. Pledged' /\ Owned'
    BY <1>1, PledgedInductive, OwnedInductive DEF Base, Footing, TunnelInv
  <1> QED
    BY <1>2, LoneInductive, PlainInductive, DirectedInductive, UnfailedInductive, KnownInductive, LandedInductive,
       WatchingInductive, OffInductive
    DEF TunnelInv

(* Once nothing is going on for the tunnel, one that is enabled runs and   *)
(* is watched, or will be tried again, or a stop of it ended that no longer*)
(* was the last word; and one that is disabled does not run, unless it was *)
(* created anew without a look at its binding: whatever starts, stops,     *)
(* retries, restarts, sweeps and edits overlapped.  Except when a request  *)
(* of the pane failed, its exit event and an answer crossed, or its last   *)
(* session was lost to the manager.                                        *)
THEOREM TunnelSettled == Spec => []TunnelSettles
  <1> DEFINE Inv == Base /\ TunnelInv
  <1>1. Init => Inv
    BY BaseInit, TunnelInit
  <1>2. Inv /\ [Next]_vars => Inv'
    BY BaseInductive, TunnelInductive
  <1>3. Inv /\ KilledStaysKilled => TunnelSettles
    <2> SUFFICES ASSUME Inv, KilledStaysKilled, TunnelAtRest, Sound(Tunnel), Tunnel \notin lost
                 PROVE  IF enabled
                        THEN forgotten \/ retryTimer \/ (daemon[Tunnel] = "live" /\ known /\ status = "connected")
                        ELSE daemon[Tunnel] = "live" => ungated
      BY DEF TunnelSettles, Sound
    <2>1. /\ AtRest(Tunnel) /\ ensuring = NotEnsuring /\ StopsOpen = {} /\ reconciling = "no"
          /\ exits[Tunnel] = 0 /\ daemon[Tunnel] \in {"none", "live"}
      BY TunnelAssumption DEF TunnelAtRest, AtRest, Base, Footing, Shape
    <2>2. ASSUME enabled
          PROVE  forgotten \/ retryTimer \/ (daemon[Tunnel] = "live" /\ known /\ status = "connected")
      BY <2>1, <2>2 DEF TunnelInv, Watching, Certainly, Present
    <2>3. ASSUME ~enabled, ~ungated, daemon[Tunnel] = "live" PROVE FALSE
      <3>1. Tunnel \notin killed
        BY <2>1, <2>3 DEF KilledStaysKilled, Sound
      <3>2. PICK s \in Sweeps : Sweeping(s)
        BY <2>1, <2>3, <3>1 DEF TunnelInv, Off
      <3>3. s \in Issuers /\ pane[s] = Tunnel /\ Active(s)
        BY <3>2, TunnelCalls DEF Sweeping, TunnelKills, Active, KillSteps
      <3> QED
        BY <2>1, <3>3 DEF AtRest
    <2> QED
      BY <2>2, <2>3
  <1> QED
    BY <1>1, <1>2, <1>3, KilledPanesStayKilled, PTL DEF Spec
=============================================================================
