--------------------------- MODULE SessionStream ---------------------------
(***************************************************************************)
(* The output side of one daemon Session (terminal-host/session.ts): data  *)
(* frames from the subprocess are queued for the headless emulator and     *)
(* broadcast to the attached clients; an attach waits until the emulator   *)
(* has caught up to where it was when the attach began, and takes a        *)
(* snapshot; a client whose socket is full stops the reading of stdout.    *)
(*                                                                         *)
(* A data frame has one or two slices, the pieces of at most               *)
(* MAX_CHUNK_CHARS the emulator is written in, and output is counted in    *)
(* slices.  Every action is one turn of the daemon's event loop or a step  *)
(* of the subprocess, of the OS or of a client; a chunk of several frames  *)
(* is handled frame by frame while nothing else runs.                      *)
(***************************************************************************)
EXTENDS Naturals, Sequences, FiniteSets, Units

CONSTANTS
    Sockets,      \* client stream sockets
    MaxOutput     \* bound: slices the subprocess produces

ASSUME BoundAssumption == MaxOutput \in Nat

VARIABLES
    produced,       \* slices the subprocess has written to its stdout
    stdout,         \* frames not read yet: sizes, and 0 for Exit
    chunk,          \* frames of the chunk being handled in this turn
    proc,           \* the subprocess: "running", "leaving" or "ended"
    sub,            \* this.subprocess: "up" or "null"
    exitBy,         \* who set exitCode: "none", the "frame" or the "event"
    disposed,
    received,       \* slices received in data frames (and broadcast)
    writeQueue,     \* emulatorWriteQueue: slices left in each item
    processed,      \* emulatorWriteProcessedItems
    scheduled,      \* emulatorWriteScheduled
    waiters,        \* snapshotBoundaryWaiters
    emulated,       \* slices the emulator has been given
    dropped,        \* slices resetProcessState has thrown away
    attach,         \* progress of each socket's attach call
    boundary,       \* slices received when that call began
    missing,        \* slices up to the boundary its snapshot left out
    creating,       \* the socket whose createOrAttach awaits the spawn, if any
    gone,           \* its "close" was handled during that await
    attachedClients,
    waitingForDrain,  \* clientSocketsWaitingForDrain
    stdoutPaused,     \* subprocessStdoutPaused
    full,           \* sockets with a full buffer, which owe a "drain"
    closing         \* destroyed, but "close" is not handled yet

procVars    == <<produced, stdout, proc>>
stateVars   == <<sub, exitBy, disposed>>
emuVars     == <<writeQueue, processed, scheduled, emulated, dropped>>
attachVars  == <<boundary, missing, creating, gone>>
clientVars  == <<attachedClients, waitingForDrain, stdoutPaused, full>>
vars == <<procVars, chunk, stateVars, received, emuVars, waiters, attach,
          attachVars, clientVars, closing>>

Waiter == [sock : Sockets, target : Nat]
Idle == chunk = <<>>
Destroyed == closing \cup gone

Init ==
    /\ produced = 0 /\ stdout = <<>> /\ chunk = <<>> /\ proc = "running"
    /\ sub = "up" /\ exitBy = "none" /\ disposed = FALSE
    /\ received = 0 /\ writeQueue = <<>> /\ processed = 0
    /\ scheduled = FALSE /\ waiters = {} /\ emulated = 0 /\ dropped = 0
    /\ attach = [s \in Sockets |-> "idle"]
    /\ boundary = [s \in Sockets |-> 0] /\ missing = [s \in Sockets |-> 0]
    /\ attachedClients = {} /\ waitingForDrain = {} /\ stdoutPaused = FALSE
    /\ full = {} /\ closing = {} /\ gone = {}
    /\ \E s \in Sockets : creating = {s}

-----------------------------------------------------------------------------
(* The subprocess and the OS pipe.  What it does once the session has let  *)
(* go of it nobody reads.                                                  *)

Produce(n) ==
    /\ proc = "running" /\ sub = "up"
    /\ produced + n <= MaxOutput
    /\ produced' = produced + n
    /\ stdout' = Append(stdout, n)
    /\ UNCHANGED <<chunk, proc, stateVars, received, emuVars, waiters, attach,
                   attachVars, clientVars, closing>>

ProduceExit ==
    /\ proc = "running" /\ sub = "up"
    /\ proc' = "leaving"
    /\ stdout' = Append(stdout, 0)
    /\ UNCHANGED <<produced, chunk, stateVars, received, emuVars, waiters,
                   attach, attachVars, clientVars, closing>>

ProcEnds ==
    /\ proc = "leaving" /\ sub = "up"
    /\ proc' = "ended"
    /\ UNCHANGED <<produced, stdout, chunk, stateVars, received, emuVars,
                   waiters, attach, attachVars, clientVars, closing>>

(* The subprocess dies without an Exit frame: killed, or crashed. *)
Crash ==
    /\ proc = "running" /\ sub = "up"
    /\ proc' = "ended"
    /\ UNCHANGED <<produced, stdout, chunk, stateVars, received, emuVars,
                   waiters, attach, attachVars, clientVars, closing>>

ReadChunk(k) ==
    /\ Idle
    /\ sub = "up" /\ ~stdoutPaused
    /\ chunk' = SubSeq(stdout, 1, k)
    /\ stdout' = SubSeq(stdout, k + 1, Len(stdout))
    /\ UNCHANGED <<produced, proc, stateVars, received, emuVars, waiters,
                   attach, attachVars, clientVars, closing>>

-----------------------------------------------------------------------------
(* Effects shared by several handlers. *)

(* broadcastEvent and handleClientBackpressure: write returns false on a   *)
(* full or destroyed socket, or fills it; on a destroyed one it may throw. *)
Broadcast(mayPause) ==
    \E filled \in SUBSET (attachedClients \ Destroyed),
       threw \in SUBSET (attachedClients \cap Destroyed) :
        LET refused == filled \cup ((attachedClients \cap (full \cup Destroyed)) \ threw)
        IN  /\ attachedClients' = attachedClients \ threw
            /\ waitingForDrain' = (waitingForDrain \cup refused) \ threw
            /\ full' = full \cup filled
            /\ stdoutPaused' = (mayPause /\ (stdoutPaused \/ refused # {}))

(* resetProcessState, but for the flags of the subprocess's stdin. *)
ResetProcessState ==
    /\ sub' = "null"
    /\ writeQueue' = <<>> /\ processed' = 0 /\ scheduled' = FALSE
    /\ dropped' = dropped + Total(writeQueue)
    /\ waiters' = {}
    /\ attach' = [s \in Sockets |->
                    IF \E w \in waiters : w.sock = s THEN "reached" ELSE attach[s]]

(* Those of ws whose target is reached by n processed items. *)
Reached(ws, n) == {w \in ws : n >= w.target}
Resolve(ws, n) ==
    /\ waiters' = ws \ Reached(ws, n)
    /\ attach' = [s \in Sockets |->
                    IF \E w \in Reached(ws, n) : w.sock = s THEN "reached"
                    ELSE attach[s]]

(* maybeResumeSubprocessStdout once `waiting` are left. *)
ResumeUnless(waiting) ==
    stdoutPaused' = (stdoutPaused /\ (waiting # {} \/ sub = "null"))

-----------------------------------------------------------------------------
(* Frames.  Without a decoder the rest of a chunk is thrown away. *)

(* Mutant of NextFrame: the frame is delivered and stays in the decoder. *)
NextFrameStays == chunk # <<>> /\ UNCHANGED chunk

NextFrame == chunk # <<>> /\ chunk' = Tail(chunk)

DataFrame ==
    /\ NextFrame
    /\ Head(chunk) > 0
    /\ received' = received + Head(chunk)
    /\ writeQueue' = Append(writeQueue, Head(chunk))
    /\ scheduled' = (scheduled \/ ~disposed)
    /\ Broadcast(sub = "up")
    /\ UNCHANGED <<procVars, stateVars, processed, emulated, dropped, waiters,
                   attach, attachVars, closing>>

ExitFrame ==
    /\ NextFrame
    /\ Head(chunk) = 0
    /\ exitBy' = "frame"
    /\ Broadcast(sub = "up")
    /\ UNCHANGED <<procVars, sub, disposed, received, emuVars, waiters, attach,
                   attachVars, closing>>

(* The child's "exit" event, which need not wait for the end of stdout. *)
ProcessExit ==
    /\ Idle
    /\ proc = "ended" /\ sub = "up"
    /\ IF exitBy = "none"
       THEN exitBy' = "event" /\ Broadcast(FALSE)
       ELSE /\ stdoutPaused' = FALSE
            /\ UNCHANGED <<exitBy, attachedClients, waitingForDrain, full>>
    /\ ResetProcessState
    /\ UNCHANGED <<procVars, chunk, disposed, received, emulated, attachVars, closing>>

-----------------------------------------------------------------------------
(* processEmulatorWriteQueue.  Its time budget ends a turn after any slice, *)
(* so one slice a turn gives every interleaving.                           *)

EmulatorTurn ==
    /\ Idle
    /\ scheduled /\ ~disposed
    /\ writeQueue # <<>>
    /\ emulated' = emulated + 1
    /\ writeQueue' = IF Head(writeQueue) > 1
                     THEN [writeQueue EXCEPT ![1] = @ - 1] ELSE Tail(writeQueue)
    /\ UNCHANGED <<procVars, chunk, stateVars, received, dropped, attachVars,
                   clientVars, closing>>

(* The item at the head counts as processed with its last slice. *)
CountItem ==
    IF Head(writeQueue) = 1
    THEN processed' = processed + 1 /\ Resolve(waiters, processed + 1)
    ELSE UNCHANGED <<processed, waiters, attach>>

(* Mutant of WriteSlice: a loop out of budget does not schedule another. *)
WriteSliceOnce == EmulatorTurn /\ CountItem /\ scheduled' = FALSE

(* Mutant of WriteSlice: every slice counts as an item. *)
WriteSliceCountsAll ==
    /\ EmulatorTurn
    /\ processed' = processed + 1
    /\ Resolve(waiters, processed + 1)
    /\ scheduled' = (writeQueue' # <<>>)

(* Mutant of WriteSlice: waiters are not looked at. *)
WriteSliceSilent ==
    /\ EmulatorTurn
    /\ processed' = processed + (IF Head(writeQueue) = 1 THEN 1 ELSE 0)
    /\ scheduled' = (writeQueue' # <<>>)
    /\ UNCHANGED <<waiters, attach>>

WriteSlice == EmulatorTurn /\ CountItem /\ scheduled' = (writeQueue' # <<>>)

-----------------------------------------------------------------------------
(* Attach and detach. *)

(* attach up to its await.  The call that creates the session has read its *)
(* socket before it awaited the spawn, and attaches it whatever became of  *)
(* it; until then the session is in no map for another call to find.  Any  *)
(* other call takes the client's socket of now, destroyed or not.          *)
AttachBegins(s) ==
    /\ Idle
    /\ IF creating = {} THEN s \notin gone ELSE s \in creating
    /\ creating' = {}
    /\ attach[s] = "idle"
    /\ ~disposed /\ sub = "up" /\ exitBy = "none"
    /\ attachedClients' = attachedClients \cup {s}
    /\ boundary' = [boundary EXCEPT ![s] = received]
    /\ IF writeQueue = <<>>
       THEN attach' = [attach EXCEPT ![s] = "reached"] /\ UNCHANGED <<waiters, scheduled>>
       ELSE /\ attach' = [attach EXCEPT ![s] = "waiting"]
            /\ waiters' = waiters \cup
                 {[sock |-> s, target |-> processed + Len(writeQueue)]}
            /\ scheduled' = TRUE
    /\ UNCHANGED <<procVars, chunk, stateVars, received, writeQueue, processed,
                   emulated, dropped, missing, gone, waitingForDrain, stdoutPaused,
                   full, closing>>

FlushTimeout(s) ==
    /\ Idle
    /\ attach[s] = "waiting"
    /\ attach' = [attach EXCEPT ![s] = "late"]
    /\ waiters' = {w \in waiters : w.sock # s}
    /\ UNCHANGED <<procVars, chunk, stateVars, received, emuVars, attachVars,
                   clientVars, closing>>

(* getSnapshotAsync: xterm's own queue is flushed, then serialized.  A     *)
(* flush that timed out is logged: what its snapshot lacks is not counted. *)
TakeSnapshot(s) ==
    /\ Idle
    /\ attach[s] \in {"reached", "late"}
    /\ attach' = [attach EXCEPT ![s] = "idle"]
    /\ boundary' = [boundary EXCEPT ![s] = 0]
    /\ missing' = [missing EXCEPT ![s] =
                     IF attach[s] = "reached" /\ boundary[s] > emulated
                     THEN boundary[s] - emulated ELSE 0]
    /\ UNCHANGED <<procVars, chunk, stateVars, received, emuVars, waiters,
                   creating, gone, clientVars, closing>>

(* Mutant of Detach: stdout is not looked at. *)
DetachNoResume(s) ==
    /\ attachedClients' = attachedClients \ {s}
    /\ waitingForDrain' = waitingForDrain \ {s}
    /\ UNCHANGED stdoutPaused

Detach(s) ==
    /\ attachedClients' = attachedClients \ {s}
    /\ waitingForDrain' = waitingForDrain \ {s}
    /\ ResumeUnless(waitingForDrain \ {s})

DetachRequest(s) ==
    /\ Idle
    /\ s \in attachedClients \ gone
    /\ Detach(s)
    /\ UNCHANGED <<procVars, chunk, stateVars, received, emuVars, waiters,
                   attach, attachVars, full, closing>>

(* The socket is destroyed; "close" comes in a later turn and detaches it. *)
(* A client that connects again takes a free name for its new socket.      *)
Destroy(s) ==
    /\ Idle
    /\ s \notin Destroyed
    /\ closing' = closing \cup {s}
    /\ full' = full \ {s}
    /\ UNCHANGED <<procVars, chunk, stateVars, received, emuVars, waiters, attach,
                   attachVars, attachedClients, waitingForDrain, stdoutPaused>>

Disconnect(s) ==
    /\ Idle
    /\ s \in closing
    /\ closing' = closing \ {s}
    /\ gone' = gone \cup ({s} \cap creating)
    /\ Detach(s)
    /\ UNCHANGED <<procVars, chunk, stateVars, received, emuVars, waiters,
                   attach, boundary, missing, creating, full>>

(* Mutant of ClientDrain: the socket stays in the set. *)
ClientDrainForgets(s) ==
    /\ Idle
    /\ s \in full
    /\ full' = full \ {s}
    /\ UNCHANGED <<procVars, chunk, stateVars, received, emuVars, waiters, attach,
                   attachVars, attachedClients, waitingForDrain, stdoutPaused, closing>>

ClientDrain(s) ==
    /\ Idle
    /\ s \in full
    /\ full' = full \ {s}
    /\ waitingForDrain' = waitingForDrain \ {s}
    /\ ResumeUnless(waitingForDrain \ {s})
    /\ UNCHANGED <<procVars, chunk, stateVars, received, emuVars, waiters, attach,
                   attachVars, attachedClients, closing>>

Dispose ==
    /\ Idle
    /\ ~disposed
    /\ disposed' = TRUE
    /\ ResetProcessState
    /\ attachedClients' = {} /\ waitingForDrain' = {} /\ stdoutPaused' = FALSE
    /\ UNCHANGED <<procVars, chunk, exitBy, received, emulated, attachVars,
                   full, closing>>

-----------------------------------------------------------------------------
Subprocess == \/ \E n \in 1..2 : Produce(n)
              \/ ProduceExit \/ ProcEnds \/ Crash

Daemon == \/ \E k \in 1..Len(stdout) : ReadChunk(k)
          \/ DataFrame \/ ExitFrame \/ ProcessExit \/ WriteSlice \/ Dispose
          \/ \E s \in Sockets : AttachBegins(s) \/ FlushTimeout(s)
                \/ TakeSnapshot(s) \/ DetachRequest(s) \/ Disconnect(s)

Client == \E s \in Sockets : ClientDrain(s) \/ Destroy(s)

Next == Subprocess \/ Daemon \/ Client

(* Queued turns run.  A full socket drains or is destroyed in the end, and *)
(* the "close" of a destroyed one is handled.                              *)
Fairness ==
    /\ WF_vars(DataFrame \/ ExitFrame)
    /\ \A s \in Sockets : WF_vars(ClientDrain(s) \/ Disconnect(s))

Safety == Init /\ [][Next]_vars
Spec == Safety /\ Fairness

-----------------------------------------------------------------------------
TypeOK ==
    /\ produced \in 0..MaxOutput /\ received \in 0..MaxOutput
    /\ stdout \in Seq(0..2) /\ chunk \in Seq(0..2)
    /\ proc \in {"running", "leaving", "ended"} /\ sub \in {"up", "null"}
    /\ exitBy \in {"none", "frame", "event"} /\ disposed \in BOOLEAN
    /\ writeQueue \in Seq(1..2) /\ processed \in 0..MaxOutput
    /\ scheduled \in BOOLEAN /\ waiters \subseteq Waiter
    /\ emulated \in 0..MaxOutput /\ dropped \in 0..MaxOutput
    /\ attach \in [Sockets -> {"idle", "waiting", "reached", "late"}]
    /\ boundary \in [Sockets -> 0..MaxOutput]
    /\ missing \in [Sockets -> 0..MaxOutput]
    /\ attachedClients \subseteq Sockets /\ waitingForDrain \subseteq Sockets
    /\ stdoutPaused \in BOOLEAN /\ full \subseteq Sockets
    /\ closing \subseteq Sockets /\ creating \subseteq Sockets /\ gone \subseteq Sockets

(* What was received is in the emulator, in its queue or was thrown away   *)
(* by a reset, each slice once; and a queue that holds something will be   *)
(* written.                                                                *)
EmulatorAccounting ==
    /\ received = emulated + Total(writeQueue) + dropped
    /\ writeQueue # <<>> => scheduled

(* Every attach that waits has one waiter, whose target is ahead of what   *)
(* is processed and within what is queued: the queue, which is being       *)
(* written, reaches it without the help of the timeout.                    *)
WaitersReachable ==
    /\ \A w \in waiters : /\ attach[w.sock] = "waiting"
                          /\ processed < w.target
                          /\ w.target <= processed + Len(writeQueue)
    /\ \A s \in Sockets :
          attach[s] = "waiting" => \E w \in waiters : w.sock = s

(* A snapshot covers all the session had received when the attach began,   *)
(* however output went on meanwhile -- unless the flush timed out, or the  *)
(* subprocess exited before the emulator had caught up: resetProcessState  *)
(* then empties the queue and resolves the waiters as if it had.           *)
SnapshotCoversBoundary == dropped = 0 => \A s \in Sockets : missing[s] = 0

(* Reading of stdout stops only for a client that still owes something, a  *)
(* drain or the "close" event of a destroyed socket -- unless the session  *)
(* was given a ghost: the call that created it attached a socket whose     *)
(* "close" had been handled, which owes nothing and is waited for or, when *)
(* a write to it throws, forgotten without a look at stdout.               *)
PausedForClient ==
    stdoutPaused => waitingForDrain \cap full # {} \/ closing # {} \/ gone # {}

(* A pause ends, whatever clients attach, detach, stall and disconnect     *)
(* meanwhile, unless the session was given such a ghost.                   *)
PauseEnds == []<>(~stdoutPaused \/ gone # {})

(* TERMINAL_HOST_EVENTS.md:97: "clients receive all terminal output before *)
(* the exit event", for a subprocess that sent its Exit frame.             *)
ExitAfterAllOutput ==
    exitBy # "none" /\ (\E i \in 1..Len(stdout) : stdout[i] = 0)
        => received = produced
=============================================================================
