--------------------------- MODULE TerminalHistory ---------------------------
(***************************************************************************)
(* The history of one pane: terminal/service/history-manager.ts over the   *)
(* HistoryWriter and HistoryReader of terminal-history.ts.  Nothing in the *)
(* HistoryManager relates two panes.                                       *)
(*                                                                         *)
(* An operation (init, close, cleanup, hook) belongs to an issuer, one of  *)
(* the service manager's calls, and is the code between two awaits at a    *)
(* time.  A writer and an initialisation promise are named by the issuer   *)
(* of the init that made them.  Output itself is left out: it goes to the  *)
(* writer there is, or to a buffer while one is being initialised.         *)
(***************************************************************************)
EXTENDS Naturals

CONSTANTS Issuers, None

ASSUME NoneAssumption == None \notin Issuers

VARIABLES
    historyGeneration,
    initPromise,     \* whose initialisation historyInitPromises holds
    initializing,    \* the pane is in historyInitializing
    pendingHook,     \* pendingHookSessions has a provider session
    writer,          \* whose writer historyWriters holds
    closing,         \* whose writer is being closed
    op,              \* operation in progress of each issuer
    disk             \* the pane's directory: see States

historyVars == <<historyGeneration, initPromise, initializing, pendingHook,
                 writer, closing, op, disk>>

(* Only a provider's session was stored; a session is being recorded, or   *)
(* its recording was cut off; it has ended.                                *)
States == {"none", "resumable", "open", "ended"}

InitSteps == {"afterInit", "afterClose", "opening", "applying", "superseded"}
CloseSteps == {"cleanAfterInit", "closeAfterInit", "closing", "removing"}
HookSteps == {"hooking", "unhandled"}

Idle == [at |-> "idle", on |-> None, gen |-> 0, remove |-> FALSE]
Operations == [at : {"idle"} \cup InitSteps \cup CloseSteps \cup HookSteps,
               on : Issuers \cup {None}, gen : Nat, remove : BOOLEAN]

Initializing(i) == op[i].at \in InitSteps
HistoryDone(i) == op[i].at = "idle"

HistoryInit ==
    /\ historyGeneration = 0
    /\ initPromise = None /\ writer = None /\ closing = None
    /\ initializing = FALSE /\ pendingHook = FALSE
    /\ op = [i \in Issuers |-> Idle]
    /\ disk \in States

-----------------------------------------------------------------------------
(* initHistoryWriter: after the initialisation before it, after the close  *)
(* in progress, and only if no later one and no cleanup came in between.   *)

BeginInit(i) ==
    LET free == initPromise = None /\ closing = None IN
    /\ historyGeneration' = historyGeneration + 1
    /\ initPromise' = i
    /\ initializing' = (initializing \/ free)
    /\ op' = [op EXCEPT ![i] =
                [at |-> IF free THEN "opening"
                        ELSE IF initPromise # None THEN "afterInit" ELSE "afterClose",
                 on |-> IF initPromise # None THEN initPromise ELSE closing,
                 gen |-> historyGeneration + 1, remove |-> FALSE]]
    /\ UNCHANGED <<pendingHook, writer, closing, disk>>

CurrentInit(i) == op[i].gen = historyGeneration

EndInit(i) ==
    /\ op' = [op EXCEPT ![i] = Idle]
    /\ initPromise' = IF initPromise = i THEN None ELSE initPromise

Proceed(i) ==
    /\ IF CurrentInit(i)
       THEN /\ op' = [op EXCEPT ![i].at = "opening", ![i].on = None]
            /\ initializing' = TRUE
            /\ UNCHANGED initPromise
       ELSE EndInit(i) /\ UNCHANGED initializing
    /\ UNCHANGED <<historyGeneration, pendingHook, writer, closing, disk>>

PreviousInitEnds(i) ==
    /\ op[i].at = "afterInit" /\ ~Initializing(op[i].on)
    /\ IF closing = None THEN Proceed(i)
       ELSE /\ op' = [op EXCEPT ![i].at = "afterClose", ![i].on = closing]
            /\ UNCHANGED <<historyGeneration, initPromise, initializing,
                           pendingHook, writer, closing, disk>>

PreviousCloseEnds(i) ==
    op[i].at = "afterClose" /\ closing # op[i].on /\ Proceed(i)

(* writer.init is through: directory, scrollback and metadata are there.   *)
Opened(i) ==
    /\ op[i].at = "opening"
    /\ disk' = "open"
    /\ IF ~CurrentInit(i)
       THEN /\ op' = [op EXCEPT ![i].at = "superseded"]
            /\ UNCHANGED <<initPromise, initializing, writer>>
       ELSE /\ writer' = i
            /\ IF pendingHook
               THEN /\ op' = [op EXCEPT ![i].at = "applying"]
                    /\ UNCHANGED <<initPromise, initializing>>
               ELSE EndInit(i) /\ initializing' = FALSE
    /\ UNCHANGED <<historyGeneration, pendingHook, closing>>

(* What a hook leaves on disk when there is no writer. *)
Resumable == IF disk = "none" THEN "resumable" ELSE disk

(* writer.init throws, or the writer cannot store the hook.                *)
InitFails(i) ==
    LET applies == pendingHook /\ CurrentInit(i) IN
    /\ op[i].at \in {"opening", "applying"}
    /\ disk' = IF applies THEN Resumable ELSE disk
    /\ pendingHook' = (pendingHook /\ ~applies)
    /\ initializing' = (initializing /\ ~CurrentInit(i))
    /\ EndInit(i)
    /\ UNCHANGED <<historyGeneration, writer, closing>>

HookApplied(i) ==
    /\ op[i].at = "applying"
    /\ pendingHook' = FALSE /\ initializing' = FALSE
    /\ EndInit(i)
    /\ UNCHANGED <<historyGeneration, writer, closing, disk>>

(* A writer's close notes the end in the metadata, if they are still there.*)
MarkEnded == IF disk = "none" THEN "none" ELSE "ended"

SupersededCloses(i) ==
    /\ op[i].at = "superseded"
    /\ disk' = MarkEnded
    /\ EndInit(i)
    /\ UNCHANGED <<historyGeneration, initializing, pendingHook, writer, closing>>

-----------------------------------------------------------------------------
(* closeHistoryWriter, and cleanupHistory, which closes and then removes.  *)

(* What comes after the awaited initialisation. *)
CloseNow(i, remove) ==
    LET set(at, on) == op' = [op EXCEPT ![i] =
                          [at |-> at, on |-> on, gen |-> 0, remove |-> remove]]
    IN
    /\ IF closing # None
       THEN set("closing", closing) /\ UNCHANGED <<initializing, writer, closing>>
       ELSE /\ initializing' = FALSE
            /\ closing' = writer
            /\ writer' = None
            /\ IF writer # None THEN set("closing", writer)
               ELSE IF remove THEN set("removing", None)
               ELSE op' = [op EXCEPT ![i] = Idle]
    /\ UNCHANGED <<initPromise, disk>>

AwaitInit(i, at, remove) ==
    /\ op' = [op EXCEPT ![i] = [at |-> at, on |-> initPromise, gen |-> 0, remove |-> remove]]
    /\ UNCHANGED <<initPromise, writer, closing, disk>>

CloseWriter(i, remove) ==
    IF initPromise = None THEN CloseNow(i, remove)
    ELSE AwaitInit(i, "closeAfterInit", remove) /\ UNCHANGED initializing

BeginClose(i) ==
    CloseWriter(i, FALSE) /\ UNCHANGED <<historyGeneration, pendingHook>>

(* Mutant of BeginCleanup: an initialisation is not waited for.            *)
BeginCleanupAtOnce(i) ==
    /\ historyGeneration' = historyGeneration + 1
    /\ pendingHook' = FALSE
    /\ CloseNow(i, TRUE)

BeginCleanup(i) ==
    /\ historyGeneration' = historyGeneration + 1
    /\ pendingHook' = FALSE
    /\ IF initPromise = None THEN CloseNow(i, TRUE)
       ELSE AwaitInit(i, "cleanAfterInit", TRUE) /\ initializing' = FALSE

AwaitedInitEnds(i) ==
    /\ op[i].at \in {"cleanAfterInit", "closeAfterInit"}
    /\ ~Initializing(op[i].on)
    /\ IF op[i].at = "cleanAfterInit" THEN CloseWriter(i, TRUE)
       ELSE CloseNow(i, op[i].remove)
    /\ UNCHANGED <<historyGeneration, pendingHook>>

WriterCloses ==
    /\ closing # None
    /\ closing' = None
    /\ disk' = MarkEnded
    /\ UNCHANGED <<historyGeneration, initPromise, initializing, pendingHook, writer, op>>

AwaitedCloseEnds(i) ==
    /\ op[i].at = "closing" /\ closing # op[i].on
    /\ op' = [op EXCEPT ![i] =
                IF op[i].remove THEN [Idle EXCEPT !.at = "removing"] ELSE Idle]
    /\ UNCHANGED <<historyGeneration, initPromise, initializing, pendingHook,
                   writer, closing, disk>>

Remove(i) ==
    /\ op[i].at = "removing"
    /\ disk' = "none"
    /\ op' = [op EXCEPT ![i] = Idle]
    /\ UNCHANGED <<historyGeneration, initPromise, initializing, pendingHook,
                   writer, closing>>

(* cleanupHistory goes on when the files cannot be removed. *)
RemoveFails(i) ==
    /\ op[i].at = "removing" /\ disk # "none"
    /\ op' = [op EXCEPT ![i] = Idle]
    /\ UNCHANGED <<historyGeneration, initPromise, initializing, pendingHook,
                   writer, closing, disk>>

(* closeAllSync starts to close and waits for nothing. *)
CloseAll(i) ==
    /\ historyGeneration' = IF initPromise = None THEN historyGeneration
                            ELSE historyGeneration + 1
    /\ pendingHook' = FALSE
    /\ IF writer # None /\ initPromise = None THEN CloseNow(i, FALSE)
       ELSE /\ initializing' = FALSE
            /\ IF writer # None THEN AwaitInit(i, "closeAfterInit", FALSE)
               ELSE UNCHANGED <<initPromise, writer, closing, op, disk>>

-----------------------------------------------------------------------------
(* updateAgentSessionFromHook: through the writer, to the initialisation in*)
(* progress, or to nobody.                                                 *)

BeginHook(i) ==
    LET open == writer # None \/ closing # None IN
    /\ pendingHook' = (pendingHook \/ (~open /\ initializing))
    /\ op' = [op EXCEPT ![i].at = IF open THEN "hooking"
                                  ELSE IF initializing THEN "idle" ELSE "unhandled"]
    /\ UNCHANGED <<historyGeneration, initPromise, initializing, writer, closing, disk>>

(* The writer's metadata cannot be written without the directory. *)
HookWritten(i) ==
    /\ op[i].at = "hooking"
    /\ op' = [op EXCEPT ![i].at = IF disk = "none" THEN "unhandled" ELSE "idle"]
    /\ UNCHANGED <<historyGeneration, initPromise, initializing, pendingHook,
                   writer, closing, disk>>

(* What happens by itself, and what follows at once when a promise that an *)
(* operation awaits is resolved.                                           *)
HistoryIO(i) == Opened(i) \/ HookApplied(i) \/ SupersededCloses(i) \/ Remove(i) \/ HookWritten(i)

HistoryDue(i) ==
    \/ op[i].at \in {"afterInit", "cleanAfterInit", "closeAfterInit"} /\ ~Initializing(op[i].on)
    \/ op[i].at \in {"afterClose", "closing"} /\ closing # op[i].on

HistoryTurn(i) ==
    \/ PreviousInitEnds(i) \/ PreviousCloseEnds(i)
    \/ AwaitedInitEnds(i) \/ AwaitedCloseEnds(i)

-----------------------------------------------------------------------------
HistoryTypeOK ==
    /\ historyGeneration \in Nat
    /\ {initPromise, writer, closing} \subseteq Issuers \cup {None}
    /\ {initializing, pendingHook} \subseteq BOOLEAN
    /\ op \in [Issuers -> Operations]
    /\ disk \in States
=============================================================================
