--------------------------- MODULE PtySubprocess ---------------------------
(***************************************************************************)
(* The process that owns one PTY (terminal-host/pty-subprocess.ts): the    *)
(* input queue in front of the PTY and its two watermarks, the batched     *)
(* output behind it, stdout backpressure, and the three ways to end.       *)
(*                                                                         *)
(* Bytes are counted in units.  Input is a sequence of buffer sizes, and   *)
(* output a count: the order of data is that of the counts, since every    *)
(* buffer in the code is a FIFO.  The daemon is the environment: it feeds  *)
(* stdin and reads stdout.  A chunk read from stdin may hold several       *)
(* frames, all of them handled in one turn, even those behind the one that *)
(* paused stdin; `chunk` holds the rest of that turn.                      *)
(***************************************************************************)
EXTENDS Naturals, Integers, Sequences, FiniteSets, FiniteSetsExt, Units

CONSTANTS
    High, Low, Hard,  \* INPUT_QUEUE_*_BYTES: pause, resume, refuse
    OutHwm,           \* frames outstanding when stdout.write returns false
    MaxBatch,         \* MAX_OUTPUT_BATCH_SIZE_BYTES
    FrameSizes,       \* sizes of Write payloads
    PipeSize,         \* bound: frames the stdin pipe holds
    MaxInput,         \* bound: units of input the daemon sends
    MaxOutput,        \* bound: units of output the shell produces
    MaxFails          \* bound: PTY writes that fail with a real error

ASSUME WatermarkAssumption ==
    /\ High \in Nat /\ Low \in Nat /\ Hard \in Nat
    /\ Low < High /\ High <= Hard
ASSUME OutputAssumption == OutHwm \in Nat \ {0} /\ MaxBatch \in Nat \ {0}
ASSUME BoundAssumption ==
    /\ FrameSizes \subseteq Nat \ {0}
    /\ PipeSize \in Nat \ {0} /\ MaxInput \in Nat /\ MaxOutput \in Nat /\ MaxFails \in Nat

VARIABLES
    pipe,        \* frames in the stdin pipe, not yet read
    chunk,       \* frames of the chunk being handled in this turn
    sentInput,   \* units of input the daemon has sent
    sentOps,     \* which of "kill" and "dispose" the daemon has sent
    pty,         \* ptyProcess, and why it is null when it is
    fd,          \* whether the PTY's descriptor is known: "async" or "sync"
    shell,       \* the process tree in the PTY
    writeQueue, queuedBytes,
    armed,       \* what flushing waits for: "none", a "timer" or a "write"
    inFlight,    \* size of the buffer the outstanding fs.write holds
    stdinPaused,
    kill,        \* how far the escalation of handleKill has got
    emitted,     \* units of output the PTY has handed to onData
    batched,     \* outputBytesQueued
    out,         \* frames written to stdout that the daemon has not read
    needDrain,   \* a write returned false: stdout owes a "drain" event
    ptyPaused,
    got,         \* units of output the daemon has read
    exitSeen,    \* "no", "natural", "forced": the Exit frame the daemon read
    proc,        \* "running", "leaving" (an exit is scheduled) or "exited"
    fails

inputVars  == <<pipe, chunk, sentInput, sentOps>>
queueVars  == <<writeQueue, queuedBytes, armed, inFlight, stdinPaused, fails>>
ptyVars    == <<pty, fd, shell, kill>>
outputVars == <<emitted, batched, out, needDrain, ptyPaused>>
seenVars   == <<got, exitSeen>>
vars == <<inputVars, queueVars, ptyVars, outputVars, seenVars, proc>>

Frame == [op : {"spawn", "write", "kill", "dispose"},
          n : FrameSizes \cup {0}]
OutFrame == [op : {"spawned", "data", "error", "natural", "forced"}, n : Nat]

Idle == proc # "exited" /\ chunk = <<>>    \* between two turns of the loop

-----------------------------------------------------------------------------
(* The session answers Ready with its pending Spawn frame. *)
Init ==
    /\ pipe = <<[op |-> "spawn", n |-> 0]>> /\ chunk = <<>>
    /\ sentInput = 0 /\ sentOps = {}
    /\ pty = "none" /\ fd = "sync" /\ shell = "none" /\ kill = "none"
    /\ writeQueue = <<>> /\ queuedBytes = 0 /\ armed = "none"
    /\ inFlight = 0 /\ stdinPaused = FALSE /\ fails = 0
    /\ emitted = 0 /\ batched = 0 /\ out = <<>>
    /\ needDrain = FALSE /\ ptyPaused = FALSE
    /\ got = 0 /\ exitSeen = "no" /\ proc = "running"

-----------------------------------------------------------------------------
(* The daemon's side of the two pipes. *)

SendWrite(n) ==
    /\ Len(pipe) < PipeSize
    /\ sentInput + n <= MaxInput
    /\ "dispose" \notin sentOps
    /\ sentInput' = sentInput + n
    /\ pipe' = Append(pipe, [op |-> "write", n |-> n])
    /\ UNCHANGED <<chunk, sentOps, queueVars, ptyVars, outputVars, seenVars, proc>>

(* Kill at most once (Session.kill is idempotent); "dispose" stands for    *)
(* the Dispose frame and for the end of stdin, which share a handler.      *)
SendOp(op) ==
    /\ Len(pipe) < PipeSize
    /\ op \notin sentOps /\ "dispose" \notin sentOps
    /\ sentOps' = sentOps \cup {op}
    /\ pipe' = Append(pipe, [op |-> op, n |-> 0])
    /\ UNCHANGED <<chunk, sentInput, queueVars, ptyVars, outputVars, seenVars, proc>>

Receive ==
    /\ out # <<>>
    /\ out' = Tail(out)
    /\ got' = got + (IF Head(out).op = "data" THEN Head(out).n ELSE 0)
    /\ exitSeen' = IF Head(out).op \in {"natural", "forced"}
                   THEN Head(out).op ELSE exitSeen
    /\ UNCHANGED <<inputVars, queueVars, ptyVars, emitted, batched,
                   needDrain, ptyPaused, proc>>

-----------------------------------------------------------------------------
(* Output. *)

OneFrame(op) == <<[op |-> op, n |-> 0]>>
DataFrame(n) == IF n = 0 THEN <<>> ELSE <<[op |-> "data", n |-> n]>>

(* send, once per frame: a full stdout pauses the PTY if there is one. *)
Send(frames, ptyUp) ==
    LET full == Len(out) + Len(frames) >= OutHwm IN
    /\ out' = out \o frames
    /\ needDrain' = (needDrain \/ (frames # <<>> /\ full))
    /\ ptyPaused' = (ptyPaused \/ (frames # <<>> /\ full /\ ptyUp))

(* Mutant of Drain: the PTY stays paused. *)
DrainNoResume ==
    /\ Idle
    /\ needDrain /\ Len(out) < OutHwm
    /\ needDrain' = FALSE
    /\ UNCHANGED <<inputVars, queueVars, ptyVars, emitted, batched, out,
                   ptyPaused, seenVars, proc>>

(* stdout "drain": what this process buffered beyond the OS pipe is gone. *)
Drain ==
    /\ Idle
    /\ needDrain /\ Len(out) < OutHwm
    /\ needDrain' = FALSE
    /\ ptyPaused' = (ptyPaused /\ pty # "up")
    /\ UNCHANGED <<inputVars, queueVars, ptyVars, emitted, batched, out, seenVars, proc>>

(* onData -> queueOutput: a full batch is flushed at once, a smaller one   *)
(* by the timer.  The handler stays registered after handleDispose.        *)
QueueOutput(n) ==
    /\ Idle
    /\ shell # "none" /\ pty # "exited"
    /\ ~ptyPaused
    /\ emitted + n <= MaxOutput
    /\ emitted' = emitted + n
    /\ IF batched + n >= MaxBatch
       THEN batched' = 0 /\ Send(DataFrame(batched + n), pty = "up")
       ELSE /\ batched' = batched + n
            /\ UNCHANGED <<out, needDrain, ptyPaused>>
    /\ UNCHANGED <<inputVars, queueVars, ptyVars, seenVars, proc>>

(* Mutant of FlushOutput: the batch is sent and kept. *)
FlushOutputKeeps ==
    /\ Idle
    /\ batched > 0
    /\ Send(DataFrame(batched), pty = "up")
    /\ UNCHANGED <<inputVars, queueVars, ptyVars, emitted, batched, seenVars, proc>>

(* The timer of queueOutput. *)
FlushOutput ==
    /\ Idle
    /\ batched > 0
    /\ batched' = 0
    /\ Send(DataFrame(batched), pty = "up")
    /\ UNCHANGED <<inputVars, queueVars, ptyVars, emitted, seenVars, proc>>

-----------------------------------------------------------------------------
(* Input: reading frames, the queue, and the flush loop. *)

ReadChunk(k) ==
    /\ Idle
    /\ ~stdinPaused
    /\ k <= Len(pipe)
    /\ chunk' = SubSeq(pipe, 1, k)
    /\ pipe' = SubSeq(pipe, k + 1, Len(pipe))
    /\ UNCHANGED <<sentInput, sentOps, queueVars, ptyVars, outputVars, seenVars, proc>>

(* The next frame of this turn's chunk. *)
Handle(op) ==
    /\ proc # "exited"
    /\ chunk # <<>>
    /\ Head(chunk).op = op
    /\ chunk' = Tail(chunk)
    /\ UNCHANGED <<pipe, sentInput, sentOps, seenVars, emitted>>

HandleSpawn ==
    /\ Handle("spawn")
    /\ pty = "none"
    /\ \/ /\ pty' = "up" /\ shell' = "alive"
          /\ fd' \in {"async", "sync"}
          /\ Send(OneFrame("spawned"), TRUE)
       \/ UNCHANGED <<pty, shell, fd>> /\ Send(OneFrame("error"), FALSE)
    /\ UNCHANGED <<kill, queueVars, batched, proc>>

(* handleWrite, queueWriteBuffer, maybePauseStdin and scheduleFlush. *)
HandleWrite ==
    LET n == Head(chunk).n IN
    /\ Handle("write")
    /\ IF pty # "up" \/ queuedBytes + n > Hard
       THEN Send(OneFrame("error"), pty = "up") /\ UNCHANGED queueVars
       ELSE /\ writeQueue' = Append(writeQueue, n)
            /\ queuedBytes' = queuedBytes + n
            /\ stdinPaused' = (stdinPaused \/ queuedBytes + n >= High)
            /\ armed' = IF armed = "none" THEN "timer" ELSE armed
            /\ UNCHANGED <<inFlight, fails, out, needDrain, ptyPaused>>
    /\ UNCHANGED <<ptyVars, batched, proc>>

(* maybeResumeStdin, with the queue at b bytes. *)
ResumeAt(b) == stdinPaused' = (stdinPaused /\ b > Low)

(* flush finds no PTY or nothing to write. *)
FlushStops ==
    /\ Idle
    /\ armed = "timer"
    /\ pty # "up" \/ writeQueue = <<>>
    /\ armed' = "none"
    /\ UNCHANGED <<inputVars, writeQueue, queuedBytes, inFlight, stdinPaused,
                   fails, ptyVars, outputVars, seenVars, proc>>

FlushAsync ==
    /\ Idle
    /\ armed = "timer" /\ pty = "up" /\ writeQueue # <<>> /\ fd = "async"
    /\ armed' = "write"
    /\ inFlight' = Head(writeQueue)
    /\ UNCHANGED <<inputVars, writeQueue, queuedBytes, stdinPaused, fails,
                   ptyVars, outputVars, seenVars, proc>>

(* The fs.write callback: w units were written.  After handleDispose the   *)
(* queue it works on is empty, and queuedBytes falls below zero.           *)
Wrote(w) ==
    /\ Idle
    /\ armed = "write"
    /\ w <= inFlight
    /\ inFlight' = 0
    /\ queuedBytes' = queuedBytes - w
    /\ writeQueue' = (IF w = inFlight THEN <<>> ELSE <<inFlight - w>>)
                      \o (IF writeQueue = <<>> THEN <<>> ELSE Tail(writeQueue))
    /\ UNCHANGED <<inputVars, fails, ptyVars, outputVars, seenVars, proc>>

FlushAgain == armed' = IF writeQueue' = <<>> THEN "none" ELSE "timer"

(* Mutant of WriteDone: a partial write does not re-arm the loop. *)
WriteDoneStops(w) ==
    /\ Wrote(w)
    /\ ResumeAt(queuedBytes - w)
    /\ armed' = IF w = inFlight /\ writeQueue' # <<>> THEN "timer" ELSE "none"

(* Mutant of WriteDone: stdin is resumed by the size before the write. *)
WriteDoneNoResume(w) == Wrote(w) /\ ResumeAt(queuedBytes) /\ FlushAgain

WriteDone(w) == Wrote(w) /\ ResumeAt(queuedBytes - w) /\ FlushAgain

(* EAGAIN: try again later. *)
WriteAgain ==
    /\ Idle
    /\ armed = "write"
    /\ armed' = "timer" /\ inFlight' = 0
    /\ UNCHANGED <<inputVars, writeQueue, queuedBytes, stdinPaused, fails,
                   ptyVars, outputVars, seenVars, proc>>

(* Any other error drops the whole queue; stdin is not resumed. *)
WriteFails ==
    /\ Idle
    /\ armed = "write"
    /\ fails < MaxFails
    /\ fails' = fails + 1
    /\ writeQueue' = <<>> /\ queuedBytes' = 0 /\ armed' = "none" /\ inFlight' = 0
    /\ Send(OneFrame("error"), pty = "up")
    /\ UNCHANGED <<inputVars, stdinPaused, ptyVars, emitted, batched, seenVars, proc>>

(* The fallback through node-pty's synchronous write, which may throw. *)
FlushSync ==
    LET left == queuedBytes - Head(writeQueue) IN
    /\ Idle
    /\ armed = "timer" /\ pty = "up" /\ writeQueue # <<>> /\ fd = "sync"
    /\ ResumeAt(left)
    /\ \/ /\ writeQueue' = Tail(writeQueue) /\ queuedBytes' = left
          /\ armed' = IF Tail(writeQueue) = <<>> THEN "none" ELSE "timer"
          /\ UNCHANGED <<fails, out, needDrain, ptyPaused>>
       \/ /\ fails < MaxFails /\ fails' = fails + 1
          /\ writeQueue' = <<>> /\ queuedBytes' = 0 /\ armed' = "none"
          /\ Send(OneFrame("error"), TRUE)
    /\ UNCHANGED <<inputVars, inFlight, ptyVars, emitted, batched, seenVars, proc>>

-----------------------------------------------------------------------------
(* Ending. *)

(* process.exit: what the OS pipe does not hold yet may be lost. *)
ProcessExit(frames) ==
    /\ proc' = "exited"
    /\ \E k \in Min({OutHwm - 1, Len(frames)})..Len(frames) :
          out' = SubSeq(frames, 1, k)

ShellEnds ==
    /\ shell = "alive"
    /\ shell' = "dead"
    /\ UNCHANGED <<inputVars, queueVars, pty, fd, kill, outputVars, seenVars, proc>>

(* Mutant of PtyExit: the batched output is left to its timer. *)
PtyExitUnflushed ==
    /\ Idle
    /\ pty \in {"up", "disposed"} /\ shell = "dead"
    /\ pty' = "exited"
    /\ proc' = "leaving"
    /\ Send(OneFrame("natural"), pty = "up")
    /\ UNCHANGED <<inputVars, queueVars, fd, shell, kill, emitted, batched, seenVars>>

(* node-pty's onExit, which it may never call. *)
PtyExit ==
    /\ Idle
    /\ pty \in {"up", "disposed"} /\ shell = "dead"
    /\ pty' = "exited"
    /\ proc' = "leaving"
    /\ batched' = 0
    /\ Send(DataFrame(batched) \o OneFrame("natural"), pty = "up")
    /\ UNCHANGED <<inputVars, queueVars, fd, shell, kill, emitted, seenVars>>

(* The timer of onExit, or treeKill's callback in handleDispose: it has    *)
(* killed the tree by then.                                                *)
Leave ==
    /\ Idle
    /\ proc = "leaving"
    /\ shell' = IF shell = "alive" THEN "dead" ELSE shell
    /\ ProcessExit(out)
    /\ UNCHANGED <<inputVars, queueVars, pty, fd, kill, emitted, batched,
                   needDrain, ptyPaused, seenVars>>

(* Mutant of HandleKill: nothing follows a first signal that is ignored. *)
HandleKillOnce ==
    /\ Handle("kill")
    /\ UNCHANGED <<kill, queueVars, pty, fd, shell, batched, out,
                   needDrain, ptyPaused, proc>>

(* handleKill: signal the tree, which may ignore it, and start the timers. *)
HandleKill ==
    /\ Handle("kill")
    /\ kill' = IF pty = "up" THEN "term" ELSE kill
    /\ UNCHANGED <<queueVars, pty, fd, shell, batched, out, needDrain,
                   ptyPaused, proc>>

Escalate ==
    /\ Idle
    /\ kill = "term" /\ pty = "up"
    /\ kill' = "sigkill"
    /\ shell' = "dead"
    /\ UNCHANGED <<inputVars, queueVars, pty, fd, outputVars, seenVars, proc>>

(* Mutant of ForceExit: leave one timer early, before SIGKILL. *)
ForceExitEarly ==
    /\ Idle
    /\ kill \in {"term", "sigkill"} /\ pty = "up"
    /\ pty' = "exited"
    /\ ProcessExit(out \o OneFrame("forced"))
    /\ UNCHANGED <<inputVars, queueVars, fd, shell, kill, emitted, batched,
                   needDrain, ptyPaused, seenVars>>

(* onExit never came: synthesize Exit, without flushing, and go. *)
ForceExit ==
    /\ Idle
    /\ kill = "sigkill" /\ pty = "up"
    /\ pty' = "exited"
    /\ ProcessExit(out \o OneFrame("forced"))
    /\ UNCHANGED <<inputVars, queueVars, fd, shell, kill, emitted, batched,
                   needDrain, ptyPaused, seenVars>>

(* handleDispose waits for treeKill only if there is a PTY.  A timer or an *)
(* fs.write that is outstanding still comes back.                          *)
HandleDispose ==
    /\ Handle("dispose")
    /\ batched' = 0
    /\ writeQueue' = <<>> /\ queuedBytes' = 0
    /\ IF pty = "up"
       THEN /\ pty' = "disposed" /\ proc' = "leaving"
            /\ Send(DataFrame(batched), TRUE)
       ELSE /\ ProcessExit(out \o DataFrame(batched))
            /\ UNCHANGED <<pty, needDrain, ptyPaused>>
    /\ UNCHANGED <<armed, inFlight, stdinPaused, fails, fd, shell, kill>>

-----------------------------------------------------------------------------
Daemon == \/ \E n \in FrameSizes : SendWrite(n)
          \/ \E op \in {"kill", "dispose"} : SendOp(op)
          \/ Receive

Input == \/ \E k \in 1..Len(pipe) : ReadChunk(k)
         \/ HandleSpawn \/ HandleWrite \/ HandleKill \/ HandleDispose
         \/ FlushStops \/ FlushAsync \/ FlushSync
         \/ \E w \in 0..inFlight : WriteDone(w)
         \/ WriteAgain \/ WriteFails

Output == Drain \/ FlushOutput \/ \E n \in 1..MaxOutput : QueueOutput(n)

Ending == ShellEnds \/ PtyExit \/ Leave \/ Escalate \/ ForceExit

Next == Daemon \/ Input \/ Output \/ Ending

(* The event loop runs what is due, and timers expire.  A write that is    *)
(* tried for ever succeeds some time: the program in the PTY reads its     *)
(* input.  Nothing says that it exits, or that onExit is ever called.      *)
Fairness ==
    /\ WF_vars(\E k \in 1..Len(pipe) : ReadChunk(k))
    /\ WF_vars(HandleSpawn) /\ WF_vars(HandleWrite)
    /\ WF_vars(HandleKill) /\ WF_vars(HandleDispose)
    /\ WF_vars(FlushStops) /\ WF_vars(FlushAsync) /\ WF_vars(FlushSync)
    /\ SF_vars(\E w \in 1..inFlight : WriteDone(w))
    /\ WF_vars(Escalate) /\ WF_vars(ForceExit) /\ WF_vars(Leave)
    /\ WF_vars(WriteAgain \/ \E w \in 0..inFlight : WriteDone(w))

Safety == Init /\ [][Next]_vars
Spec == Safety /\ Fairness

-----------------------------------------------------------------------------
(* Properties. *)

TypeOK ==
    /\ pipe \in Seq(Frame) /\ chunk \in Seq(Frame)
    /\ sentInput \in 0..MaxInput /\ sentOps \subseteq {"kill", "dispose"}
    /\ pty \in {"none", "up", "exited", "disposed"}
    /\ fd \in {"async", "sync"}
    /\ shell \in {"none", "alive", "dead"}
    /\ kill \in {"none", "term", "sigkill"}
    /\ writeQueue \in Seq(Nat) /\ queuedBytes \in Int /\ inFlight \in Nat
    /\ armed \in {"none", "timer", "write"}
    /\ stdinPaused \in BOOLEAN /\ fails \in 0..MaxFails
    /\ emitted \in 0..MaxOutput /\ batched \in 0..MaxOutput
    /\ out \in Seq(OutFrame) /\ got \in 0..MaxOutput
    /\ needDrain \in BOOLEAN /\ ptyPaused \in BOOLEAN
    /\ exitSeen \in {"no", "natural", "forced"}
    /\ proc \in {"running", "leaving", "exited"}

(* As long as there is a PTY, queuedBytes is what the queue holds, never   *)
(* above the hard limit; and input that is queued has a flush coming for   *)
(* it, whose outstanding write is for the buffer at the head.  Partial     *)
(* writes, EAGAIN and errors all keep it so.                               *)
QueueAccounting ==
    pty = "up" =>
        /\ queuedBytes = Total(writeQueue)
        /\ queuedBytes \in 0..Hard
        /\ writeQueue # <<>> => armed # "none"
        /\ armed = "write" => writeQueue # <<>> /\ inFlight = Head(writeQueue)

(* Reading from the daemon stops only for a backlog: a paused stdin has    *)
(* more than the low watermark queued, so a later write resumes it.  The   *)
(* error path of flush is the exception (see KillReachesExit).             *)
PausedForBacklog ==
    stdinPaused /\ pty = "up" /\ fails = 0 => queuedBytes > Low

(* What the shell has printed is read by the daemon, under way or in the   *)
(* batch, each unit once, until the process starts to end.                 *)
OutputAccounting ==
    proc = "running" =>
        emitted = got + batched + Total(Payload(out))

(* A daemon that has read the Exit frame of onExit has read all output.    *)
ExitAfterOutput == exitSeen = "natural" => got = emitted

(* The PTY is paused only while a stdout "drain" is still to come, whose   *)
(* handler resumes it.                                                     *)
PausedForDrain == ptyPaused /\ pty = "up" => needDrain

(* The process never leaves a live shell behind, however it ends.          *)
NoOrphanShell == proc = "exited" => shell # "alive"

(* A Kill sent to a process with a PTY, or a Dispose, ends the process:    *)
(* even if the shell ignores the signal, onExit never comes, and input     *)
(* had filled the queue -- unless a PTY write has failed.                  *)
Terminates ==
    (("kill" \in sentOps /\ pty = "up") \/ "dispose" \in sentOps)
        ~> (proc = "exited" \/ fails > 0)

(* The same with no exception: pty-subprocess.ts:391 says of Kill's last   *)
(* timer that it "ensures the subprocess exits even if node-pty never      *)
(* emits onExit".                                                          *)
KillReachesExit == ("kill" \in sentOps /\ pty = "up") ~> (proc = "exited")
=============================================================================
