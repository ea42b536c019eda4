------------------------- MODULE PtySubprocessProofs -------------------------
(***************************************************************************)
(* Proofs about the PTY subprocess, for every watermark, pipe and batch    *)
(* size: what it never leaves behind and when it stops reading (Inv),      *)
(* where each unit of output is (Account) and what the input queue holds   *)
(* (Queue).                                                                *)
(***************************************************************************)
EXTENDS PtySubprocess, UnitsProofs

(* The types that the first proofs need. *)
Shape ==
    /\ pipe \in Seq(Frame) /\ chunk \in Seq(Frame)
    /\ writeQueue \in Seq(Nat) /\ queuedBytes \in Int /\ inFlight \in Nat
    /\ stdinPaused \in BOOLEAN /\ needDrain \in BOOLEAN /\ ptyPaused \in BOOLEAN
    /\ pty \in {"none", "up", "exited", "disposed"}
    /\ shell \in {"none", "alive", "dead"}
    /\ fails \in Nat

LEMMA FrameSize == ASSUME NEW f \in Frame PROVE f.n \in Nat
  <1>1. f.n \in FrameSizes \cup {0}
    BY DEF Frame
  <1>2. FrameSizes \subseteq Nat \ {0}
    BY BoundAssumption
  <1>3. f.n \in (Nat \ {0}) \cup {0}
    BY <1>1, <1>2
  <1> QED
    BY <1>3

LEMMA ChunkHead ==
  ASSUME Shape, NEW op, Handle(op)
  PROVE  /\ Head(chunk) \in Frame /\ Head(chunk).n \in Nat
         /\ chunk' \in Seq(Frame) /\ Len(chunk') = Len(chunk) - 1 /\ Len(chunk) \in Nat
         /\ \A k \in 1..Len(chunk') : chunk'[k] = chunk[k + 1]
         /\ chunk[1].op = op
  <1>1. chunk \in Seq(Frame) /\ chunk # <<>> /\ chunk' = Tail(chunk) /\ Head(chunk).op = op
    BY DEF Shape, Handle
  <1>2. Head(chunk) \in Frame
    BY <1>1, HeadTailProperties
  <1> QED
    BY <1>1, <1>2, FrameSize, HeadTailProperties

LEMMA WriteHead ==
  ASSUME Shape, writeQueue # <<>>
  PROVE  Head(writeQueue) \in Nat /\ Tail(writeQueue) \in Seq(Nat)
  BY HeadTailProperties DEF Shape

LEMMA ReadParts ==
  ASSUME Shape, NEW k \in 1..Len(pipe)
  PROVE  /\ SubSeq(pipe, 1, k) \in Seq(Frame) /\ SubSeq(pipe, k + 1, Len(pipe)) \in Seq(Frame)
         /\ Len(SubSeq(pipe, 1, k)) = k /\ Len(SubSeq(pipe, k + 1, Len(pipe))) = Len(pipe) - k
         /\ \A j \in 1..k : SubSeq(pipe, 1, k)[j] = pipe[j]
         /\ \A j \in 1..Len(pipe) - k : SubSeq(pipe, k + 1, Len(pipe))[j] = pipe[k + j]
  <1>1. Len(pipe) \in Nat /\ k \in Nat /\ k <= Len(pipe) /\ pipe \in Seq(Frame)
    BY DEF Shape
  <1>2. \A j \in 1..Len(pipe) : pipe[j] \in Frame
    BY <1>1, ElementOfSeq
  <1>3. /\ SubSeq(pipe, 1, k) \in Seq(Frame)
        /\ Len(SubSeq(pipe, 1, k)) = IF 1 <= k THEN k - 1 + 1 ELSE 0
        /\ \A j \in 1..k - 1 + 1 : SubSeq(pipe, 1, k)[j] = pipe[1 + j - 1]
    <2>1. \A j \in 1..k : pipe[j] \in Frame
      BY <1>1, <1>2
    <2> QED
      BY <1>1, <2>1, SubSeqProperties
  <1>4. /\ SubSeq(pipe, k + 1, Len(pipe)) \in Seq(Frame)
        /\ Len(SubSeq(pipe, k + 1, Len(pipe)))
              = IF k + 1 <= Len(pipe) THEN Len(pipe) - (k + 1) + 1 ELSE 0
        /\ \A j \in 1..Len(pipe) - (k + 1) + 1 :
              SubSeq(pipe, k + 1, Len(pipe))[j] = pipe[k + 1 + j - 1]
    <2>1. \A j \in k + 1..Len(pipe) : pipe[j] \in Frame
      BY <1>1, <1>2
    <2> QED
      BY <1>1, <2>1, SubSeqProperties, k + 1 \in Int
  <1> QED
    BY <1>1, <1>3, <1>4

(* A frame sent makes the PTY pause only with a drain to come. *)
LEMMA SendPauses ==
  ASSUME Shape, NEW frames, NEW ptyUp \in BOOLEAN, Send(frames, ptyUp)
  PROVE  /\ needDrain' \in BOOLEAN /\ ptyPaused' \in BOOLEAN
         /\ needDrain => needDrain'
         /\ ptyPaused' => ptyPaused \/ (ptyUp /\ needDrain')
  BY DEF Send, Shape

-----------------------------------------------------------------------------
LEMMA ShapeInductive ==
  ASSUME Shape, [Next]_vars
  PROVE  Shape'
  <1> USE DEF vars, inputVars, queueVars, ptyVars, outputVars, seenVars
  <1>1. CASE UNCHANGED vars
    BY <1>1 DEF Shape
  <1>2. ASSUME NEW n \in FrameSizes, SendWrite(n) PROVE Shape'
    <2>1. [op |-> "write", n |-> n] \in Frame
      BY DEF Frame
    <2>2. pipe' \in Seq(Frame)
      BY <1>2, <2>1, AppendProperties DEF SendWrite, Shape
    <2> QED
      BY <1>2, <2>2 DEF SendWrite, Shape
  <1>3. ASSUME NEW op \in {"kill", "dispose"}, SendOp(op) PROVE Shape'
    <2>1. [op |-> op, n |-> 0] \in Frame
      BY DEF Frame
    <2>2. pipe' \in Seq(Frame)
      BY <1>3, <2>1, AppendProperties DEF SendOp, Shape
    <2> QED
      BY <1>3, <2>2 DEF SendOp, Shape
  <1>4. CASE Receive
    BY <1>4 DEF Receive, Shape
  <1>5. ASSUME NEW k \in 1..Len(pipe), ReadChunk(k) PROVE Shape'
    BY <1>5, ReadParts DEF ReadChunk, Shape
  <1>6. CASE HandleSpawn
    BY <1>6, ChunkHead, SendPauses DEF HandleSpawn, Handle, Shape
  <1>7. CASE HandleWrite
    <2>1. Head(chunk).n \in Nat /\ chunk' \in Seq(Frame)
      BY <1>7, ChunkHead DEF HandleWrite
    <2>2. CASE Send(OneFrame("error"), pty = "up") /\ UNCHANGED queueVars
      BY <1>7, <2>1, <2>2, SendPauses DEF HandleWrite, Handle, Shape
    <2>3. CASE ~(Send(OneFrame("error"), pty = "up") /\ UNCHANGED queueVars)
      <3>1. /\ writeQueue' = Append(writeQueue, Head(chunk).n)
            /\ queuedBytes' = queuedBytes + Head(chunk).n
            /\ stdinPaused' = (stdinPaused \/ queuedBytes + Head(chunk).n >= High)
            /\ UNCHANGED <<inFlight, fails, needDrain, ptyPaused, pty, shell, pipe>>
        BY <1>7, <2>3 DEF HandleWrite, Handle
      <3>2. writeQueue' \in Seq(Nat)
        BY <2>1, <3>1, AppendProperties DEF Shape
      <3> QED
        BY <2>1, <3>1, <3>2 DEF Shape
    <2> QED
      BY <2>2, <2>3
  <1>8. CASE HandleKill
    BY <1>8, ChunkHead DEF HandleKill, Handle, Shape
  <1>9. CASE HandleDispose
    <2>1. chunk' \in Seq(Frame) /\ <<>> \in Seq(Nat)
      BY <1>9, ChunkHead, EmptySeq DEF HandleDispose
    <2>2. needDrain' \in BOOLEAN /\ ptyPaused' \in BOOLEAN
      BY <1>9, SendPauses DEF HandleDispose, Shape
    <2>3. /\ writeQueue' = <<>> /\ queuedBytes' = 0
          /\ pty' \in {pty, "disposed"}
          /\ UNCHANGED <<inFlight, stdinPaused, fails, shell, pipe>>
      BY <1>9 DEF HandleDispose, Handle
    <2> QED
      BY <2>1, <2>2, <2>3 DEF Shape
  <1>10. CASE FlushStops \/ FlushAsync \/ WriteAgain
    BY <1>10, WriteHead DEF FlushStops, FlushAsync, WriteAgain, Shape
  <1>11. CASE FlushSync
    <2>1. Head(writeQueue) \in Nat /\ Tail(writeQueue) \in Seq(Nat) /\ <<>> \in Seq(Nat)
      BY <1>11, WriteHead, EmptySeq DEF FlushSync
    <2>2. needDrain' \in BOOLEAN /\ ptyPaused' \in BOOLEAN
      BY <1>11, SendPauses DEF FlushSync, Shape
    <2>3. /\ writeQueue' \in {Tail(writeQueue), <<>>}
          /\ queuedBytes' \in {queuedBytes - Head(writeQueue), 0}
          /\ stdinPaused' = (stdinPaused /\ queuedBytes - Head(writeQueue) > Low)
          /\ fails' \in {fails, fails + 1}
          /\ UNCHANGED <<inFlight, pty, shell, pipe, chunk>>
      BY <1>11 DEF FlushSync, ResumeAt
    <2>4. queuedBytes' \in Int /\ fails' \in Nat
      BY <2>1, <2>3 DEF Shape
    <2>5. writeQueue' \in Seq(Nat) /\ stdinPaused' \in BOOLEAN
      BY <2>1, <2>3 DEF Shape
    <2> QED
      BY <2>2, <2>3, <2>4, <2>5 DEF Shape
  <1>12. ASSUME NEW w \in 0..inFlight, WriteDone(w) PROVE Shape'
    <2>1. inFlight \in Nat /\ w \in Nat /\ inFlight - w \in Nat
      BY DEF Shape
    <2>2. (IF w = inFlight THEN <<>> ELSE <<inFlight - w>>) \in Seq(Nat)
      BY <2>1, EmptySeq
    <2>3. (IF writeQueue = <<>> THEN <<>> ELSE Tail(writeQueue)) \in Seq(Nat)
      BY WriteHead, EmptySeq DEF Shape
    <2>4. writeQueue' \in Seq(Nat)
      BY <1>12, <2>2, <2>3, ConcatProperties DEF WriteDone, Wrote
    <2>5. /\ inFlight' = 0 /\ queuedBytes' = queuedBytes - w
          /\ stdinPaused' = (stdinPaused /\ queuedBytes - w > Low)
          /\ UNCHANGED <<pipe, chunk, fails, pty, shell, needDrain, ptyPaused>>
      BY <1>12 DEF WriteDone, Wrote, ResumeAt
    <2> QED
      BY <2>1, <2>4, <2>5 DEF Shape
  <1>13. CASE WriteFails
    <2>1. needDrain' \in BOOLEAN /\ ptyPaused' \in BOOLEAN
      BY <1>13, SendPauses DEF WriteFails, Shape
    <2>2. /\ writeQueue' = <<>> /\ queuedBytes' = 0 /\ inFlight' = 0 /\ fails' = fails + 1
          /\ UNCHANGED <<pipe, chunk, stdinPaused, pty, shell>>
      BY <1>13 DEF WriteFails
    <2> QED
      BY <2>1, <2>2, EmptySeq DEF Shape
  <1>14. CASE Drain
    BY <1>14 DEF Drain, Shape
  <1>15. CASE FlushOutput
    BY <1>15, SendPauses DEF FlushOutput, Shape
  <1>16. ASSUME NEW n \in 1..MaxOutput, QueueOutput(n) PROVE Shape'
    BY <1>16, SendPauses DEF QueueOutput, Shape
  <1>17. CASE ShellEnds \/ Leave \/ Escalate \/ ForceExit
    BY <1>17 DEF ShellEnds, Leave, Escalate, ForceExit, Shape
  <1>18. CASE PtyExit
    BY <1>18, SendPauses DEF PtyExit, Shape
  <1> QED
    BY <1>1, <1>2, <1>3, <1>4, <1>5, <1>6, <1>7, <1>8, <1>9, <1>10, <1>11, <1>12, <1>13, <1>14,
       <1>15, <1>16, <1>17, <1>18 DEF Next, Daemon, Input, Output, Ending

-----------------------------------------------------------------------------
(* The PTY and its shell come and go together: before the spawn there is   *)
(* nothing to kill or to pause, and a PTY that has exited, or has been     *)
(* through SIGKILL, has a dead shell.                                      *)
Together ==
    /\ pty = "none" => shell = "none" /\ kill = "none" /\ ~ptyPaused /\ ~stdinPaused
    /\ pty = "exited" => shell = "dead"
    /\ pty = "up" /\ kill = "sigkill" => shell = "dead"

(* The daemon sends nothing after a Dispose, so handleDispose runs once.   *)
DisposeLast ==
    /\ \A i \in 1..Len(pipe) :
          pipe[i].op = "dispose" => i = Len(pipe) /\ "dispose" \in sentOps
    /\ \A i \in 1..Len(chunk) :
          chunk[i].op = "dispose" =>
              i = Len(chunk) /\ "dispose" \in sentOps /\ Len(pipe) = 0
    /\ pty = "disposed" => "dispose" \in sentOps /\ Len(pipe) = 0 /\ Len(chunk) = 0

Inv == /\ Shape /\ Together /\ DisposeLast
       /\ NoOrphanShell /\ PausedForDrain /\ PausedForBacklog

LEMMA InitInv == Init => Inv
  <1> SUFFICES ASSUME Init PROVE Inv
    OBVIOUS
  <1>1. [op |-> "spawn", n |-> 0] \in Frame
    BY DEF Frame
  <1>2. pipe \in Seq(Frame) /\ Len(pipe) = 1 /\ pipe[1].op = "spawn"
    BY <1>1 DEF Init
  <1>3. chunk \in Seq(Frame) /\ writeQueue \in Seq(Nat) /\ Len(chunk) = 0
    BY EmptySeq DEF Init
  <1>4. Shape
    <2>1. queuedBytes = 0 /\ inFlight = 0 /\ fails = 0
      BY DEF Init
    <2>2. queuedBytes \in Int /\ inFlight \in Nat /\ fails \in Nat
      BY <2>1
    <2>3. stdinPaused = FALSE /\ needDrain = FALSE /\ ptyPaused = FALSE /\ pty = "none" /\ shell = "none"
      BY DEF Init
    <2> QED
      BY <1>2, <1>3, <2>2, <2>3 DEF Shape
  <1>5. DisposeLast
    BY <1>2, <1>3 DEF Init, DisposeLast
  <1> QED
    BY <1>4, <1>5 DEF Init, Inv, Together, NoOrphanShell, PausedForDrain, PausedForBacklog

(* Most steps leave the PTY and the process alone, and pause only what     *)
(* something is there to resume.                                           *)
Steady ==
    /\ UNCHANGED <<pty, shell, kill, proc>>
    /\ ptyPaused' => ptyPaused \/ (pty = "up" /\ needDrain')
    /\ needDrain => needDrain' \/ ~ptyPaused' \/ pty # "up"
    /\ stdinPaused' => stdinPaused \/ pty = "up"

Queueing == \/ HandleWrite \/ FlushStops \/ FlushAsync \/ FlushSync
            \/ \E w \in 0..inFlight : WriteDone(w)
            \/ WriteAgain \/ WriteFails

LEMMA SteadySteps ==
  ASSUME Shape, \/ Daemon \/ Output \/ Queueing
                \/ \E k \in 1..Len(pipe) : ReadChunk(k)
                \/ UNCHANGED vars
  PROVE  Steady
  <1> USE DEF vars, inputVars, queueVars, ptyVars, outputVars, seenVars
  <1>1. CASE UNCHANGED vars
    BY <1>1 DEF Steady
  <1>2. CASE Daemon
    <2>1. UNCHANGED <<pty, shell, kill, proc, ptyPaused, needDrain, stdinPaused>>
      BY <1>2 DEF Daemon, SendWrite, SendOp, Receive
    <2> QED
      BY <2>1 DEF Steady
  <1>3. ASSUME NEW k \in 1..Len(pipe), ReadChunk(k) PROVE Steady
    BY <1>3 DEF ReadChunk, Steady
  <1>4. CASE Drain
    BY <1>4 DEF Drain, Steady
  <1>5. CASE FlushOutput
    <2>1. UNCHANGED <<pty, shell, kill, proc, stdinPaused>> /\ Send(DataFrame(batched), pty = "up")
      BY <1>5 DEF FlushOutput
    <2> QED
      BY <2>1, SendPauses DEF Steady
  <1>6. ASSUME NEW n \in 1..MaxOutput, QueueOutput(n) PROVE Steady
    <2>1. /\ UNCHANGED <<pty, shell, kill, proc, stdinPaused>>
          /\ \/ Send(DataFrame(batched + n), pty = "up")
             \/ UNCHANGED <<needDrain, ptyPaused>>
      BY <1>6 DEF QueueOutput
    <2>2. CASE Send(DataFrame(batched + n), pty = "up")
      BY <2>1, <2>2, SendPauses DEF Steady
    <2>3. CASE UNCHANGED <<needDrain, ptyPaused>>
      BY <2>1, <2>3 DEF Steady
    <2> QED
      BY <2>1, <2>2, <2>3
  <1>7. CASE HandleWrite
    <2>1. UNCHANGED <<pty, shell, kill, proc>>
      BY <1>7 DEF HandleWrite
    <2>2. CASE Send(OneFrame("error"), pty = "up") /\ UNCHANGED queueVars
      BY <2>1, <2>2, SendPauses DEF Steady
    <2>3. CASE pty = "up" /\ UNCHANGED <<needDrain, ptyPaused>>
      BY <2>1, <2>3 DEF Steady
    <2> QED
      BY <1>7, <2>2, <2>3 DEF HandleWrite
  <1>8. CASE FlushStops \/ FlushAsync \/ WriteAgain
    BY <1>8 DEF FlushStops, FlushAsync, WriteAgain, Steady
  <1>9. CASE FlushSync
    <2>1. pty = "up" /\ UNCHANGED <<pty, shell, kill, proc>>
      BY <1>9 DEF FlushSync
    <2>2. Send(OneFrame("error"), TRUE) \/ UNCHANGED <<needDrain, ptyPaused>>
      BY <1>9 DEF FlushSync
    <2>3. CASE Send(OneFrame("error"), TRUE)
      BY <2>1, <2>3, SendPauses DEF Steady
    <2>4. CASE UNCHANGED <<needDrain, ptyPaused>>
      BY <2>1, <2>4 DEF Steady
    <2> QED
      BY <2>2, <2>3, <2>4
  <1>10. ASSUME NEW w \in 0..inFlight, WriteDone(w) PROVE Steady
    BY <1>10 DEF WriteDone, Wrote, ResumeAt, Steady
  <1>11. CASE WriteFails
    BY <1>11, SendPauses DEF WriteFails, Steady
  <1> QED
    BY <1>1, <1>2, <1>3, <1>4, <1>5, <1>6, <1>7, <1>8, <1>9, <1>10, <1>11 DEF Output, Queueing

LEMMA StepKinds ==
  ASSUME Shape, [Next]_vars
  PROVE  Steady \/ HandleSpawn \/ HandleKill \/ HandleDispose \/ Ending
  BY SteadySteps DEF Next, Input, Queueing

LEMMA TogetherInductive ==
  ASSUME Inv, [Next]_vars
  PROVE  Together'
  <1> USE DEF Inv
  <1>1. CASE Steady
    BY <1>1 DEF Steady, Together
  <1>2. CASE HandleSpawn
    BY <1>2, SendPauses DEF HandleSpawn, queueVars, Together
  <1>3. CASE HandleKill
    BY <1>3 DEF HandleKill, queueVars, Together
  <1>4. CASE HandleDispose
    BY <1>4 DEF HandleDispose, Together
  <1>5. CASE Ending
    BY <1>5, SendPauses DEF Ending, ShellEnds, PtyExit, Leave, Escalate, ForceExit, queueVars,
       outputVars, Together
  <1> QED
    BY <1>1, <1>2, <1>3, <1>4, <1>5, StepKinds

LEMMA DrainInductive ==
  ASSUME Inv, [Next]_vars
  PROVE  PausedForDrain'
  <1> USE DEF Inv
  <1>1. CASE Steady
    BY <1>1 DEF Steady, PausedForDrain
  <1>2. CASE HandleSpawn
    BY <1>2, SendPauses DEF HandleSpawn, Together, PausedForDrain
  <1>3. CASE HandleKill
    BY <1>3 DEF HandleKill, PausedForDrain
  <1>4. CASE HandleDispose
    BY <1>4 DEF HandleDispose, PausedForDrain
  <1>5. CASE Ending
    BY <1>5 DEF Ending, ShellEnds, PtyExit, Leave, Escalate, ForceExit, outputVars, PausedForDrain
  <1> QED
    BY <1>1, <1>2, <1>3, <1>4, <1>5, StepKinds

LEMMA OrphanInductive ==
  ASSUME Inv, [Next]_vars
  PROVE  NoOrphanShell'
  <1> USE DEF Inv
  <1>1. CASE Steady
    BY <1>1 DEF Steady, NoOrphanShell
  <1>2. CASE HandleSpawn
    BY <1>2 DEF HandleSpawn, Handle, NoOrphanShell
  <1>3. CASE HandleKill
    BY <1>3 DEF HandleKill, NoOrphanShell
  <1>4. CASE HandleDispose
    <2>1. UNCHANGED shell /\ (pty = "up" => proc' = "leaving")
      BY <1>4 DEF HandleDispose
    <2>2. pty # "disposed"
      <3>1. chunk \in Seq(Frame) /\ chunk # <<>>
        BY <1>4 DEF HandleDispose, Handle, Shape
      <3>2. Len(chunk) # 0
        BY <3>1, EmptySeq
      <3> QED
        BY <3>2 DEF DisposeLast
    <2> QED
      BY <2>1, <2>2 DEF Shape, Together, NoOrphanShell
  <1>5. CASE Ending
    BY <1>5 DEF Ending, ShellEnds, PtyExit, Leave, Escalate, ForceExit, Shape, Together,
       NoOrphanShell
  <1> QED
    BY <1>1, <1>2, <1>3, <1>4, <1>5, StepKinds

LEMMA BacklogInductive ==
  ASSUME Inv, [Next]_vars
  PROVE  PausedForBacklog'
  <1> USE DEF Inv
  <1>1. CASE UNCHANGED <<stdinPaused, queuedBytes, fails>> /\ (pty' = "up" => pty = "up")
    BY <1>1 DEF PausedForBacklog
  <1>2. CASE HandleSpawn
    BY <1>2 DEF HandleSpawn, queueVars, Together, PausedForBacklog
  <1>3. CASE HandleWrite
    <2>1. UNCHANGED pty /\ Head(chunk).n \in Nat
      BY <1>3, ChunkHead DEF HandleWrite, ptyVars
    <2>2. CASE UNCHANGED queueVars
      BY <2>1, <2>2 DEF queueVars, PausedForBacklog
    <2>3. CASE /\ queuedBytes' = queuedBytes + Head(chunk).n
               /\ stdinPaused' = (stdinPaused \/ queuedBytes + Head(chunk).n >= High)
               /\ UNCHANGED fails
      BY <2>1, <2>3, WatermarkAssumption DEF Shape, PausedForBacklog
    <2> QED
      BY <1>3, <2>2, <2>3 DEF HandleWrite
  <1>4. CASE HandleDispose
    BY <1>4 DEF HandleDispose, PausedForBacklog
  <1>5. CASE FlushSync
    <2>1. stdinPaused' => queuedBytes - Head(writeQueue) > Low
      BY <1>5 DEF FlushSync, ResumeAt
    <2>2. CASE queuedBytes' = queuedBytes - Head(writeQueue)
      BY <2>1, <2>2 DEF PausedForBacklog
    <2>3. CASE fails' = fails + 1
      BY <2>3 DEF Shape, PausedForBacklog
    <2> QED
      BY <1>5, <2>2, <2>3 DEF FlushSync
  <1>6. ASSUME NEW w \in 0..inFlight, WriteDone(w) PROVE PausedForBacklog'
    BY <1>6 DEF WriteDone, Wrote, ResumeAt, PausedForBacklog
  <1>7. CASE WriteFails
    BY <1>7 DEF WriteFails, Shape, PausedForBacklog
  <1>8. CASE Daemon \/ Output \/ Ending \/ HandleKill \/ FlushStops \/ FlushAsync \/ WriteAgain
             \/ \E k \in 1..Len(pipe) : ReadChunk(k)
    BY <1>1, <1>8 DEF Daemon, SendWrite, SendOp, Receive, Output, Drain, FlushOutput, QueueOutput,
       Ending, ShellEnds, PtyExit, Leave, Escalate, ForceExit, HandleKill, FlushStops, FlushAsync,
       WriteAgain, ReadChunk, queueVars, ptyVars
  <1>9. CASE UNCHANGED vars
    BY <1>1, <1>9 DEF vars, queueVars, ptyVars
  <1> QED
    BY <1>2, <1>3, <1>4, <1>5, <1>6, <1>7, <1>8, <1>9 DEF Next, Input

(* One more frame in the pipe, sent while no Dispose has been. *)
LEMMA SentFrame ==
  ASSUME Inv, NEW f \in Frame, "dispose" \notin sentOps, pipe' = Append(pipe, f),
         UNCHANGED <<chunk, pty>>, sentOps \subseteq sentOps',
         f.op = "dispose" => "dispose" \in sentOps'
  PROVE  DisposeLast'
  <1>1. /\ pipe \in Seq(Frame) /\ Len(pipe) \in Nat /\ Len(pipe') = Len(pipe) + 1
        /\ \A i \in 1..Len(pipe) : pipe'[i] = pipe[i]
        /\ pipe'[Len(pipe) + 1] = f
    BY AppendProperties, LenProperties DEF Inv, Shape
  <1>2. \A i \in 1..Len(pipe) : pipe[i].op # "dispose"
    BY DEF Inv, DisposeLast
  <1>3. \A i \in 1..Len(chunk) : chunk[i].op # "dispose"
    BY DEF Inv, DisposeLast
  <1>4. pty # "disposed"
    BY DEF Inv, DisposeLast
  <1>5. \A i \in 1..Len(pipe') :
           pipe'[i].op = "dispose" => i = Len(pipe') /\ "dispose" \in sentOps'
    <2> SUFFICES ASSUME NEW i \in 1..Len(pipe'), pipe'[i].op = "dispose"
                 PROVE  i = Len(pipe') /\ "dispose" \in sentOps'
      OBVIOUS
    <2>1. CASE i \in 1..Len(pipe)
      BY <1>1, <1>2, <2>1
    <2>2. CASE i = Len(pipe) + 1
      BY <1>1, <2>2
    <2> QED
      BY <1>1, <2>1, <2>2
  <1> QED
    BY <1>3, <1>4, <1>5 DEF DisposeLast

(* One frame of the chunk is handled.  No frame follows a Dispose. *)
LEMMA HandledFrame ==
  ASSUME Inv, NEW op, Handle(op),
         pty' = "disposed" => pty = "disposed" \/ op = "dispose"
  PROVE  DisposeLast'
  <1>1. /\ Len(chunk') = Len(chunk) - 1 /\ Len(chunk) \in Nat /\ Len(chunk') \in Nat
        /\ \A k \in 1..Len(chunk') : chunk'[k] = chunk[k + 1]
        /\ chunk[1].op = op
    <2>1. chunk' \in Seq(Frame)
      BY ChunkHead DEF Inv
    <2> QED
      BY <2>1, ChunkHead, LenProperties DEF Inv
  <1>2. UNCHANGED <<pipe, sentOps>>
    BY DEF Handle
  <1>3. \A i \in 1..Len(chunk') :
           chunk'[i].op = "dispose" =>
               i = Len(chunk') /\ "dispose" \in sentOps' /\ Len(pipe') = 0
    BY <1>1, <1>2 DEF Inv, DisposeLast
  <1>4. pty # "disposed" /\ 1 \in 1..Len(chunk)
    BY <1>1 DEF Inv, DisposeLast
  <1>5. op = "dispose" => "dispose" \in sentOps' /\ Len(pipe') = 0 /\ Len(chunk') = 0
    BY <1>1, <1>2, <1>4 DEF Inv, DisposeLast
  <1> QED
    BY <1>2, <1>3, <1>4, <1>5 DEF Inv, DisposeLast

LEMMA DisposeInductive ==
  ASSUME Inv, [Next]_vars
  PROVE  DisposeLast'
  <1>1. CASE UNCHANGED <<pipe, chunk, sentOps>> /\ (pty' = "disposed" => pty = "disposed")
    BY <1>1 DEF Inv, DisposeLast
  <1>2. ASSUME NEW n \in FrameSizes, SendWrite(n) PROVE DisposeLast'
    <2>1. [op |-> "write", n |-> n] \in Frame
      BY DEF Frame
    <2> QED
      BY <1>2, <2>1, SentFrame DEF SendWrite, ptyVars
  <1>3. ASSUME NEW op \in {"kill", "dispose"}, SendOp(op) PROVE DisposeLast'
    <2>1. [op |-> op, n |-> 0] \in Frame
      BY DEF Frame
    <2> QED
      BY <1>3, <2>1, SentFrame DEF SendOp, ptyVars
  <1>4. ASSUME NEW k \in 1..Len(pipe), ReadChunk(k) PROVE DisposeLast'
    <2>1. /\ Len(pipe) \in Nat /\ k \in Nat /\ k <= Len(pipe)
          /\ Len(chunk') = k /\ Len(pipe') = Len(pipe) - k
          /\ \A j \in 1..k : chunk'[j] = pipe[j]
          /\ \A j \in 1..Len(pipe) - k : pipe'[j] = pipe[k + j]
      BY <1>4, ReadParts, LenProperties DEF ReadChunk, Inv, Shape
    <2>2. UNCHANGED <<sentOps, pty>> /\ Len(pipe) # 0
      BY <1>4, <2>1 DEF ReadChunk, ptyVars
    <2>3. \A i \in 1..Len(pipe') :
             pipe'[i].op = "dispose" => i = Len(pipe') /\ "dispose" \in sentOps'
      BY <2>1, <2>2 DEF Inv, DisposeLast
    <2>4. \A i \in 1..Len(chunk') :
             chunk'[i].op = "dispose" =>
                 i = Len(chunk') /\ "dispose" \in sentOps' /\ Len(pipe') = 0
      BY <2>1, <2>2 DEF Inv, DisposeLast
    <2>5. pty' # "disposed"
      BY <2>2 DEF Inv, DisposeLast
    <2> QED
      BY <2>3, <2>4, <2>5 DEF DisposeLast
  <1>5. CASE HandleSpawn
    BY <1>5, HandledFrame DEF HandleSpawn
  <1>6. CASE HandleWrite \/ HandleKill
    BY <1>6, HandledFrame DEF HandleWrite, HandleKill, ptyVars
  <1>7. CASE HandleDispose
    BY <1>7, HandledFrame DEF HandleDispose
  <1>8. CASE \/ Receive \/ Output \/ Ending \/ FlushStops \/ FlushAsync \/ FlushSync \/ WriteAgain
             \/ WriteFails \/ \E w \in 0..inFlight : WriteDone(w)
    BY <1>1, <1>8 DEF Receive, Output, Drain, FlushOutput, QueueOutput, Ending, ShellEnds, PtyExit,
       Leave, Escalate, ForceExit, FlushStops, FlushAsync, FlushSync, WriteAgain, WriteFails,
       WriteDone, Wrote, inputVars, ptyVars
  <1>9. CASE UNCHANGED vars
    BY <1>1, <1>9 DEF vars, inputVars, ptyVars
  <1> QED
    BY <1>2, <1>3, <1>4, <1>5, <1>6, <1>7, <1>8, <1>9 DEF Next, Daemon, Input

-----------------------------------------------------------------------------
(* Output: where each unit of it is. *)

(* What the process sends: only data has a size. *)
Sent == {f \in OutFrame : f.op # "data" => f.n = 0}

Rest ==
    /\ sentInput \in 0..MaxInput /\ sentOps \subseteq {"kill", "dispose"}
    /\ fd \in {"async", "sync"} /\ kill \in {"none", "term", "sigkill"}
    /\ armed \in {"none", "timer", "write"} /\ fails \in 0..MaxFails
    /\ exitSeen \in {"no", "natural", "forced"}
    /\ proc \in {"running", "leaving", "exited"}

(* A process that exits may lose output; nothing else does. *)
Flow ==
    /\ out \in Seq(Sent) /\ got \in Nat /\ batched \in Nat /\ emitted \in 0..MaxOutput
    /\ got + batched + Total(Payload(out)) <= emitted
    /\ proc # "exited" => emitted = got + batched + Total(Payload(out))

(* The Exit frame of onExit has all output in front of it, wherever it is, *)
(* and no output follows it.                                               *)
NaturalLast ==
    /\ exitSeen = "natural" => pty = "exited" /\ batched = 0 /\ got = emitted
    /\ \A i \in 1..Len(out) :
          out[i].op = "natural" =>
              /\ pty = "exited" /\ batched = 0
              /\ emitted = got + Total(Payload(SubSeq(out, 1, i)))

Account == Rest /\ Flow /\ NaturalLast

LEMMA SentSize == \A f \in Sent : f.n \in Nat
  BY DEF Sent, OutFrame

LEMMA OneFrameSent ==
  ASSUME NEW op \in {"spawned", "error", "natural", "forced"}
  PROVE  /\ OneFrame(op) \in Seq(Sent) /\ Len(OneFrame(op)) = 1 /\ OneFrame(op)[1].op = op
         /\ Total(Payload(OneFrame(op))) = 0
  <1>1. [op |-> op, n |-> 0] \in Sent
    BY DEF Sent, OutFrame
  <1>2. OneFrame(op) \in Seq(Sent) /\ Len(OneFrame(op)) = 1 /\ OneFrame(op)[1].op = op
    BY <1>1 DEF OneFrame
  <1>3. Payload(OneFrame(op)) = <<0>>
    BY DEF OneFrame, Payload
  <1> QED
    BY <1>2, <1>3, TotalOne

LEMMA DataFrameSent ==
  ASSUME NEW n \in Nat
  PROVE  /\ DataFrame(n) \in Seq(Sent) /\ \A i \in 1..Len(DataFrame(n)) : DataFrame(n)[i].op = "data"
         /\ Total(Payload(DataFrame(n))) = n
  <1>1. CASE n = 0
    <2>1. DataFrame(n) = <<>> /\ Payload(<<>>) = <<>>
      BY <1>1 DEF DataFrame, Payload
    <2>2. <<>> \in Seq(Sent) /\ Len(<<>>) = 0
      BY EmptySeq
    <2>3. Len(DataFrame(n)) = 0 /\ Total(Payload(DataFrame(n))) = n /\ DataFrame(n) \in Seq(Sent)
      BY <1>1, <2>1, <2>2, TotalEmpty
    <2>4. \A i \in 1..Len(DataFrame(n)) : FALSE
      BY <2>3
    <2> QED
      BY <2>3, <2>4
  <1>2. CASE n # 0
    <2>1. [op |-> "data", n |-> n] \in Sent
      BY DEF Sent, OutFrame
    <2>2. DataFrame(n) = <<[op |-> "data", n |-> n]>> /\ Payload(DataFrame(n)) = <<n>>
      BY <1>2 DEF DataFrame, Payload
    <2> QED
      BY <2>1, <2>2, TotalOne
  <1> QED
    BY <1>1, <1>2

(* process.exit keeps a prefix of the frames. *)
LEMMA ExitPrefix ==
  ASSUME NEW frames \in Seq(Sent), ProcessExit(frames)
  PROVE  proc' = "exited" /\ \E k \in 0..Len(frames) : out' = SubSeq(frames, 1, k)
  <1> DEFINE least == Min({OutHwm - 1, Len(frames)})
  <1>1. OutHwm - 1 \in Nat /\ Len(frames) \in Nat
    BY OutputAssumption, LenProperties
  <1>2. \E x \in {OutHwm - 1, Len(frames)} : \A y \in {OutHwm - 1, Len(frames)} : x <= y
    BY <1>1
  <1>3. least \in {OutHwm - 1, Len(frames)}
    BY <1>2 DEF Min
  <1>4. least \in Nat
    BY <1>1, <1>3
  <1>5. proc' = "exited" /\ \E k \in least..Len(frames) : out' = SubSeq(frames, 1, k)
    BY DEF ProcessExit
  <1> HIDE DEF least
  <1> QED
    BY <1>1, <1>4, <1>5

(* Every step but Receive and PtyExit at most sends frames, which carry    *)
(* what was batched and what the PTY has just printed; of a process that   *)
(* exits a prefix is left.                                                 *)
Sending(frames) ==
    /\ frames \in Seq(Sent) /\ \A i \in 1..Len(frames) : frames[i].op # "natural"
    /\ \/ out' = out \o frames
       \/ proc' = "exited" /\ \E k \in 0..Len(out \o frames) : out' = SubSeq(out \o frames, 1, k)
    /\ batched' \in Nat /\ emitted' \in 0..MaxOutput
    /\ emitted' + batched = emitted + batched' + Total(Payload(frames))
    /\ UNCHANGED <<got, exitSeen>>
    /\ pty = "exited" => pty' = "exited" /\ emitted' = emitted /\ (batched = 0 => batched' = 0)
    /\ proc = "exited" => proc' = "exited"

LEMMA SendingFlow ==
  ASSUME Flow, NEW frames, Sending(frames)
  PROVE  Flow'
  <1>1. /\ out \in Seq(Sent) /\ frames \in Seq(Sent) /\ out \o frames \in Seq(Sent)
        /\ Total(Payload(out \o frames)) = Total(Payload(out)) + Total(Payload(frames))
    BY SentSize, PayloadConcat DEF Flow, Sending
  <1>2. Total(Payload(out)) \in Nat /\ Total(Payload(frames)) \in Nat
    BY <1>1, SentSize, PayloadCounted
  <1>3. /\ out' \in Seq(Sent) /\ Total(Payload(out')) \in Nat
        /\ Total(Payload(out')) <= Total(Payload(out)) + Total(Payload(frames))
        /\ proc' # "exited" => Total(Payload(out')) = Total(Payload(out)) + Total(Payload(frames))
    <2>1. CASE out' = out \o frames
      BY <1>1, <1>2, <2>1
    <2>2. CASE proc' = "exited" /\ \E k \in 0..Len(out \o frames) : out' = SubSeq(out \o frames, 1, k)
      <3>1. out' \in Seq(Sent) /\ Total(Payload(out')) <= Total(Payload(out \o frames))
        BY <1>1, <2>2, SentSize, PayloadPrefix
      <3>2. Total(Payload(out')) \in Nat
        BY <3>1, SentSize, PayloadCounted
      <3> QED
        BY <1>1, <2>2, <3>1, <3>2
    <2> QED
      BY <2>1, <2>2 DEF Sending
  <1>4. /\ got \in Nat /\ batched \in Nat /\ emitted \in Nat /\ got' = got
        /\ batched' \in Nat /\ emitted' \in Nat /\ emitted' \in 0..MaxOutput
        /\ emitted' + batched = emitted + batched' + Total(Payload(frames))
        /\ proc' # "exited" => proc # "exited"
    BY DEF Flow, Sending
  <1>5. got' + batched' + Total(Payload(out')) <= emitted'
    <2> DEFINE a == Total(Payload(out))
               b == Total(Payload(frames))
               c == Total(Payload(out'))
    <2>1. got + batched + a <= emitted
      BY DEF Flow
    <2>2. a \in Nat /\ b \in Nat /\ c \in Nat /\ c <= a + b
      BY <1>2, <1>3
    <2>3. emitted' + batched = emitted + batched' + b
      BY <1>4
    <2> HIDE DEF a, b, c
    <2>4. got + batched' + c <= emitted'
      <3>1. \A g, o, p, e, f \in Nat : \A x, y, z \in Nat :
               g + o + x <= e /\ f + o = e + p + y /\ z <= x + y => g + p + z <= f
        OBVIOUS
      <3>2. got \in Nat /\ batched \in Nat /\ batched' \in Nat /\ emitted \in Nat /\ emitted' \in Nat
        BY <1>4
      <3> QED
        BY <2>1, <2>2, <2>3, <3>1, <3>2
    <2> QED
      BY <1>4, <2>4 DEF c
  <1>6. ASSUME proc' # "exited" PROVE emitted' = got' + batched' + Total(Payload(out'))
    <2>1. emitted = got + batched + Total(Payload(out))
      BY <1>4, <1>6 DEF Flow
    <2>2. Total(Payload(out')) = Total(Payload(out)) + Total(Payload(frames))
      BY <1>3, <1>6
    <2> QED
      BY <1>2, <1>4, <2>1, <2>2
  <1> QED
    BY <1>3, <1>4, <1>5, <1>6 DEF Flow

LEMMA SendingNatural ==
  ASSUME Flow, NaturalLast, NEW frames, Sending(frames)
  PROVE  NaturalLast'
  <1>1. out \in Seq(Sent) /\ frames \in Seq(Sent) /\ out \o frames \in Seq(Sent)
    BY SentSize, PayloadConcat DEF Flow, Sending
  <1>2. PICK k \in 0..Len(out \o frames) : out' = SubSeq(out \o frames, 1, k)
    <2>1. CASE out' = out \o frames
      <3>1. Len(out \o frames) \in 0..Len(out \o frames)
        BY <1>1, LenProperties
      <3> QED
        BY <1>1, <2>1, <3>1, SubSeqFull
    <2> QED
      BY <2>1 DEF Sending
  <1>3. /\ Len(out') = k /\ \A i \in 1..k : out'[i] = (out \o frames)[i]
        /\ \A i \in 1..k : SubSeq(out', 1, i) = SubSeq(out \o frames, 1, i)
    BY <1>1, <1>2, SentSize, PayloadPrefix
  <1>4. /\ Len(out) \in Nat /\ Len(frames) \in Nat /\ Len(out \o frames) = Len(out) + Len(frames)
        /\ \A i \in 1..Len(out) + Len(frames) :
              (out \o frames)[i] = IF i <= Len(out) THEN out[i] ELSE frames[i - Len(out)]
    BY <1>1, LenProperties, ConcatProperties
  <1>5. ASSUME NEW i \in 1..Len(out'), out'[i].op = "natural"
        PROVE  /\ pty' = "exited" /\ batched' = 0
               /\ emitted' = got' + Total(Payload(SubSeq(out', 1, i)))
    <2>1. i \in 1..k /\ i \in 1..Len(out) + Len(frames) /\ (out \o frames)[i].op = "natural"
      BY <1>3, <1>4, <1>5
    <2>2. i <= Len(out)
      <3>1. SUFFICES ASSUME ~(i <= Len(out)) PROVE FALSE
        OBVIOUS
      <3>2. i - Len(out) \in 1..Len(frames) /\ (out \o frames)[i] = frames[i - Len(out)]
        BY <1>4, <2>1, <3>1
      <3> QED
        BY <2>1, <3>2 DEF Sending
    <2>3. i \in 1..Len(out) /\ out[i].op = "natural"
      BY <1>4, <2>1, <2>2
    <2>4. pty = "exited" /\ batched = 0 /\ emitted = got + Total(Payload(SubSeq(out, 1, i)))
      BY <2>3 DEF NaturalLast
    <2>5. SubSeq(out', 1, i) = SubSeq(out, 1, i)
      <3>1. 1 \in 1..Len(out)
        BY <1>4, <2>3
      <3>2. SubSeq(out \o frames, 1, i) = SubSeq(out, 1, i)
        BY <1>1, <2>3, <3>1, SubSeqOfConcat1
      <3> QED
        BY <1>3, <2>1, <3>2
    <2>6. pty' = "exited" /\ batched' = 0 /\ emitted' = emitted /\ got' = got
      BY <2>4 DEF Sending
    <2> QED
      BY <2>4, <2>5, <2>6
  <1>6. exitSeen' = "natural" => pty' = "exited" /\ batched' = 0 /\ got' = emitted'
    BY DEF NaturalLast, Sending
  <1> QED
    BY <1>5, <1>6 DEF NaturalLast

LEMMA ReceiveFlow ==
  ASSUME Flow, NaturalLast, Receive
  PROVE  Flow' /\ NaturalLast'
  <1> USE DEF inputVars, queueVars, ptyVars
  <1>1. /\ out \in Seq(Sent) /\ out # <<>> /\ out' = Tail(out)
        /\ UNCHANGED <<pty, emitted, batched, proc>>
    BY DEF Flow, Receive
  <1>2. /\ Head(out) \in Sent /\ Tail(out) \in Seq(Sent)
        /\ Total(Payload(out)) = Head(out).n + Total(Payload(Tail(out)))
    BY <1>1, SentSize, PayloadHeadTail
  <1>3. /\ Head(out).n \in Nat /\ Total(Payload(out)) \in Nat /\ Total(Payload(Tail(out))) \in Nat
    BY <1>1, <1>2, SentSize, PayloadCounted
  <1>4. got' = got + Head(out).n
    <2>1. got \in Nat /\ (Head(out).op # "data" => Head(out).n = 0)
      BY <1>2 DEF Flow, Sent
    <2>2. got' = got + (IF Head(out).op = "data" THEN Head(out).n ELSE 0)
      BY DEF Receive
    <2> QED
      BY <2>1, <2>2
  <1>5. got \in Nat /\ batched \in Nat /\ emitted \in Nat /\ emitted \in 0..MaxOutput
    BY DEF Flow
  <1>6. Flow'
    <2>1. got' + batched' + Total(Payload(out')) = got + batched + Total(Payload(out)) /\ got' \in Nat
      BY <1>1, <1>2, <1>3, <1>4, <1>5
    <2> QED
      BY <1>1, <1>2, <1>5, <2>1 DEF Flow
  <1>7. ASSUME NEW i \in 1..Len(out'), out'[i].op = "natural"
        PROVE  pty' = "exited" /\ batched' = 0 /\ emitted' = got' + Total(Payload(SubSeq(out', 1, i)))
    <2>1. /\ out[i + 1].op = "natural" /\ i + 1 \in 1..Len(out)
          /\ Total(Payload(SubSeq(out, 1, i + 1))) = Head(out).n + Total(Payload(SubSeq(out', 1, i)))
      BY <1>1, <1>7, SentSize, PayloadUpTo
    <2>2. pty = "exited" /\ batched = 0 /\ emitted = got + Total(Payload(SubSeq(out, 1, i + 1)))
      BY <2>1 DEF NaturalLast
    <2>3. SubSeq(out', 1, i) \in Seq(Sent)
      <3>1. i \in 0..Len(out')
        BY <1>1, <1>2, LenProperties
      <3> QED
        BY <1>1, <1>2, <3>1, SentSize, PayloadPrefix
    <2>4. Total(Payload(SubSeq(out', 1, i))) \in Nat
      BY <2>3, SentSize, PayloadCounted
    <2> QED
      BY <1>1, <1>3, <1>4, <1>5, <2>1, <2>2, <2>4
  <1>8. ASSUME exitSeen' = "natural" PROVE pty' = "exited" /\ batched' = 0 /\ got' = emitted'
    <2>1. CASE Head(out).op = "natural"
      <3>1. /\ 1 \in 1..Len(out) /\ out[1] = Head(out)
            /\ Total(Payload(SubSeq(out, 1, 1))) = Head(out).n
        BY <1>1, SentSize, PayloadFirst
      <3>2. pty = "exited" /\ batched = 0 /\ emitted = got + Total(Payload(SubSeq(out, 1, 1)))
        BY <2>1, <3>1 DEF NaturalLast
      <3> QED
        BY <1>1, <1>3, <1>4, <1>5, <3>1, <3>2
    <2>2. CASE Head(out).op # "natural"
      <3>1. exitSeen = "natural"
        BY <1>8, <2>2 DEF Receive
      <3>2. pty = "exited" /\ batched = 0 /\ got = emitted
        BY <3>1 DEF NaturalLast
      <3>3. got + batched + Total(Payload(out)) <= emitted
        BY DEF Flow
      <3>4. Head(out).n = 0
        BY <1>2, <1>3, <1>5, <3>2, <3>3
      <3> QED
        BY <1>1, <1>4, <1>5, <3>2, <3>4
    <2> QED
      BY <2>1, <2>2
  <1> QED
    BY <1>6, <1>7, <1>8 DEF NaturalLast

LEMMA PtyExitFlow ==
  ASSUME Flow, NaturalLast, PtyExit
  PROVE  Flow' /\ NaturalLast'
  <1> DEFINE frames == DataFrame(batched) \o OneFrame("natural")
  <1>1. /\ pty \in {"up", "disposed"} /\ pty' = "exited" /\ proc # "exited" /\ proc' = "leaving"
        /\ batched' = 0 /\ out' = out \o frames /\ UNCHANGED <<emitted, got, exitSeen>>
    BY DEF PtyExit, Idle, Send, seenVars
  <1>2. /\ out \in Seq(Sent) /\ batched \in Nat /\ got \in Nat /\ emitted \in 0..MaxOutput
        /\ emitted = got + batched + Total(Payload(out))
    BY <1>1 DEF Flow
  <1>3. /\ DataFrame(batched) \in Seq(Sent) /\ Total(Payload(DataFrame(batched))) = batched
        /\ \A i \in 1..Len(DataFrame(batched)) : DataFrame(batched)[i].op = "data"
    BY <1>2, DataFrameSent
  <1>4. OneFrame("natural") \in Seq(Sent) /\ Total(Payload(OneFrame("natural"))) = 0
        /\ Len(OneFrame("natural")) = 1
    BY OneFrameSent
  <1>5. frames \in Seq(Sent) /\ Total(Payload(frames)) = batched + 0
    BY <1>3, <1>4, SentSize, PayloadConcat
  <1>6. /\ Len(DataFrame(batched)) \in Nat /\ Len(frames) = Len(DataFrame(batched)) + 1
        /\ \A i \in 1..Len(DataFrame(batched)) : frames[i] = DataFrame(batched)[i]
    BY <1>3, <1>4, LenProperties, ConcatProperties
  <1>7. \A i \in 1..Len(frames) : frames[i].op = "natural" => i = Len(frames)
    BY <1>3, <1>6
  <1> HIDE DEF frames
  <1>8. /\ out' \in Seq(Sent) /\ Len(out) \in Nat /\ Len(frames) \in Nat
        /\ Len(out') = Len(out) + Len(frames)
        /\ \A i \in 1..Len(out) + Len(frames) :
              out'[i] = IF i <= Len(out) THEN out[i] ELSE frames[i - Len(out)]
    BY <1>1, <1>2, <1>5, ConcatProperties, LenProperties
  <1>9. Total(Payload(out')) = Total(Payload(out)) + batched /\ Total(Payload(out)) \in Nat
    <2>1. Total(Payload(out')) = Total(Payload(out)) + Total(Payload(frames))
      BY <1>1, <1>2, <1>5, SentSize, PayloadConcat
    <2> QED
      BY <1>2, <1>5, <2>1, SentSize, PayloadCounted
  <1>10. emitted' = got' + batched' + Total(Payload(out')) /\ emitted' = got' + Total(Payload(out'))
    BY <1>1, <1>2, <1>9
  <1>11. Flow'
    <2>1. emitted' \in 0..MaxOutput /\ emitted' \in Nat /\ got' \in Nat /\ batched' \in Nat
      BY <1>1, <1>2
    <2> QED
      BY <1>8, <1>10, <2>1 DEF Flow
  <1>12. ASSUME NEW i \in 1..Len(out'), out'[i].op = "natural"
         PROVE  emitted' = got' + Total(Payload(SubSeq(out', 1, i)))
    <2>1. ~(i <= Len(out))
      <3>1. SUFFICES ASSUME i <= Len(out) PROVE FALSE
        OBVIOUS
      <3>2. i \in 1..Len(out) /\ out[i].op = "natural"
        BY <1>8, <1>12, <3>1
      <3> QED
        BY <1>1, <3>2 DEF NaturalLast
    <2>2. i - Len(out) \in 1..Len(frames) /\ frames[i - Len(out)].op = "natural"
      BY <1>8, <1>12, <2>1
    <2>3. i = Len(out')
      BY <1>7, <1>8, <2>2
    <2>4. SubSeq(out', 1, i) = out'
      BY <1>8, <2>3, SubSeqFull
    <2> QED
      BY <1>10, <2>4
  <1>13. exitSeen' # "natural"
    BY <1>1 DEF NaturalLast
  <1> QED
    BY <1>1, <1>11, <1>12, <1>13 DEF NaturalLast

SendingNothing == \/ \E n \in FrameSizes : SendWrite(n)
                  \/ \E op \in {"kill", "dispose"} : SendOp(op)
                  \/ \E k \in 1..Len(pipe) : ReadChunk(k)
                  \/ HandleKill \/ FlushStops \/ FlushAsync \/ WriteAgain \/ Drain
                  \/ \E w \in 0..inFlight : WriteDone(w)
                  \/ ShellEnds \/ Escalate \/ UNCHANGED vars

LEMMA StepsSend ==
  ASSUME Inv, Flow, [Next]_vars
  PROVE  Receive \/ PtyExit \/ \E frames : Sending(frames)
  <1> USE DEF vars, inputVars, queueVars, ptyVars, outputVars, seenVars
  <1>0. /\ out \in Seq(Sent) /\ got \in Nat /\ batched \in Nat /\ emitted \in 0..MaxOutput
        /\ emitted \in Nat /\ Shape
    BY DEF Flow, Inv
  <1>1. ASSUME UNCHANGED <<got, exitSeen, pty, emitted, batched, out>>, proc = "exited" => proc' = "exited"
        PROVE  Sending(<<>>)
    <2>1. <<>> \in Seq(Sent) /\ Len(<<>>) = 0 /\ out \o <<>> = out
      BY <1>0, EmptySeq, ConcatEmptySeq
    <2>2. Payload(<<>>) = <<>>
      BY DEF Payload
    <2>3. Total(Payload(<<>>)) = 0
      BY <2>2, TotalEmpty
    <2> QED
      BY <1>0, <1>1, <2>1, <2>3 DEF Sending
  <1>2. ASSUME NEW op \in {"spawned", "error"}, out' = out \o OneFrame(op),
               UNCHANGED <<got, exitSeen, emitted, batched, proc>>, pty = "exited" => pty' = "exited"
        PROVE  Sending(OneFrame(op))
    <2>1. /\ OneFrame(op) \in Seq(Sent) /\ Len(OneFrame(op)) = 1 /\ OneFrame(op)[1].op = op
          /\ Total(Payload(OneFrame(op))) = 0
      BY OneFrameSent
    <2> HIDE DEF OneFrame
    <2>2. \A i \in 1..Len(OneFrame(op)) : OneFrame(op)[i].op # "natural"
      BY <2>1
    <2> QED
      BY <1>0, <1>2, <2>1, <2>2 DEF Sending
  <1>3. CASE SendingNothing
    <2>1. UNCHANGED <<got, exitSeen, pty, emitted, batched, out, proc>>
      BY <1>3 DEF SendingNothing, SendWrite, SendOp, ReadChunk, HandleKill, Handle, FlushStops,
         FlushAsync, WriteAgain, Drain, WriteDone, Wrote, ShellEnds, Escalate
    <2> QED
      BY <1>1, <2>1
  <1>4. CASE HandleSpawn
    BY <1>2, <1>4 DEF HandleSpawn, Handle, Send
  <1>5. CASE HandleWrite
    BY <1>1, <1>2, <1>5 DEF HandleWrite, Handle, Send
  <1>6. CASE WriteFails \/ FlushSync
    BY <1>1, <1>2, <1>6 DEF WriteFails, FlushSync, Send
  <1>7. CASE FlushOutput
    <2>1. /\ out' = out \o DataFrame(batched) /\ batched' = 0
          /\ UNCHANGED <<got, exitSeen, pty, emitted, proc>>
      BY <1>7 DEF FlushOutput, Send
    <2>2. /\ DataFrame(batched) \in Seq(Sent) /\ Total(Payload(DataFrame(batched))) = batched
          /\ \A i \in 1..Len(DataFrame(batched)) : DataFrame(batched)[i].op = "data"
      BY <1>0, DataFrameSent
    <2>3. Sending(DataFrame(batched))
      BY <1>0, <2>1, <2>2 DEF Sending
    <2> QED
      BY <2>3
  <1>8. ASSUME NEW n \in 1..MaxOutput, QueueOutput(n) PROVE \E frames : Sending(frames)
    <2>1. /\ emitted' = emitted + n /\ emitted' \in 0..MaxOutput /\ pty # "exited"
          /\ UNCHANGED <<got, exitSeen, pty, proc>>
      BY <1>0, <1>8, BoundAssumption DEF QueueOutput
    <2>2. CASE batched' = 0 /\ out' = out \o DataFrame(batched + n)
      <3>1. batched + n \in Nat
        BY <1>0
      <3>2. /\ DataFrame(batched + n) \in Seq(Sent)
            /\ Total(Payload(DataFrame(batched + n))) = batched + n
            /\ \A i \in 1..Len(DataFrame(batched + n)) : DataFrame(batched + n)[i].op = "data"
        BY <3>1, DataFrameSent
      <3>3. emitted' + batched = emitted + batched' + (batched + n)
        BY <1>0, <2>1, <2>2
      <3>4. Sending(DataFrame(batched + n))
        BY <2>1, <2>2, <3>2, <3>3 DEF Sending
      <3> QED
        BY <3>4
    <2>3. CASE batched' = batched + n /\ UNCHANGED out
      <3>1. <<>> \in Seq(Sent) /\ Len(<<>>) = 0 /\ out \o <<>> = out
        BY <1>0, EmptySeq, ConcatEmptySeq
      <3>2. Payload(<<>>) = <<>>
        BY DEF Payload
      <3>3. Total(Payload(<<>>)) = 0
        BY <3>2, TotalEmpty
      <3>4. Sending(<<>>)
        BY <1>0, <2>1, <2>3, <3>1, <3>3 DEF Sending
      <3> QED
        BY <3>4
    <2> QED
      BY <1>8, <2>2, <2>3 DEF QueueOutput, Send
  <1>9. CASE Leave
    <2>1. ProcessExit(out) /\ UNCHANGED <<got, exitSeen, pty, emitted, batched>>
      BY <1>9 DEF Leave
    <2>2. proc' = "exited" /\ \E k \in 0..Len(out) : out' = SubSeq(out, 1, k)
      BY <1>0, <2>1, ExitPrefix
    <2>3. <<>> \in Seq(Sent) /\ Len(<<>>) = 0 /\ out \o <<>> = out
      BY <1>0, EmptySeq, ConcatEmptySeq
    <2>4. Payload(<<>>) = <<>>
      BY DEF Payload
    <2>5. Total(Payload(<<>>)) = 0
      BY <2>4, TotalEmpty
    <2>6. Sending(<<>>)
      BY <1>0, <2>1, <2>2, <2>3, <2>5 DEF Sending
    <2> QED
      BY <2>6
  <1>10. CASE ForceExit
    <2>1. /\ ProcessExit(out \o OneFrame("forced")) /\ pty = "up"
          /\ UNCHANGED <<got, exitSeen, emitted, batched>>
      BY <1>10 DEF ForceExit
    <2>2. /\ OneFrame("forced") \in Seq(Sent) /\ Len(OneFrame("forced")) = 1
          /\ OneFrame("forced")[1].op = "forced" /\ Total(Payload(OneFrame("forced"))) = 0
      BY OneFrameSent
    <2> HIDE DEF OneFrame
    <2>3. out \o OneFrame("forced") \in Seq(Sent)
      BY <1>0, <2>2, ConcatProperties
    <2>4. /\ proc' = "exited"
          /\ \E k \in 0..Len(out \o OneFrame("forced")) : out' = SubSeq(out \o OneFrame("forced"), 1, k)
      BY <2>1, <2>3, ExitPrefix
    <2>5. \A i \in 1..Len(OneFrame("forced")) : OneFrame("forced")[i].op # "natural"
      BY <2>2
    <2>6. Sending(OneFrame("forced"))
      BY <1>0, <2>1, <2>2, <2>4, <2>5 DEF Sending
    <2> QED
      BY <2>6
  <1>11. CASE HandleDispose
    <2>1. batched' = 0 /\ UNCHANGED <<got, exitSeen, emitted>>
      BY <1>11 DEF HandleDispose, Handle
    <2>2. /\ DataFrame(batched) \in Seq(Sent) /\ Total(Payload(DataFrame(batched))) = batched
          /\ \A i \in 1..Len(DataFrame(batched)) : DataFrame(batched)[i].op = "data"
      BY <1>0, DataFrameSent
    <2>3. CASE pty = "up" /\ out' = out \o DataFrame(batched) /\ proc # "exited"
      <3>1. Sending(DataFrame(batched))
        BY <1>0, <2>1, <2>2, <2>3 DEF Sending
      <3> QED
        BY <3>1
    <2>4. CASE ProcessExit(out \o DataFrame(batched)) /\ UNCHANGED pty
      <3>1. out \o DataFrame(batched) \in Seq(Sent)
        BY <1>0, <2>2, ConcatProperties
      <3>2. /\ proc' = "exited"
            /\ \E k \in 0..Len(out \o DataFrame(batched)) : out' = SubSeq(out \o DataFrame(batched), 1, k)
        BY <2>4, <3>1, ExitPrefix
      <3>3. Sending(DataFrame(batched))
        BY <1>0, <2>1, <2>2, <2>4, <3>2 DEF Sending
      <3> QED
        BY <3>3
    <2> QED
      BY <1>11, <2>3, <2>4 DEF HandleDispose, Handle, Send
  <1> QED
    BY <1>3, <1>4, <1>5, <1>6, <1>7, <1>8, <1>9, <1>10, <1>11
    DEF Next, Daemon, Input, Output, Ending, SendingNothing

LEMMA RestInductive ==
  ASSUME Inv, Account, [Next]_vars
  PROVE  Rest'
  <1> USE DEF vars, inputVars, queueVars, ptyVars, outputVars, seenVars
  <1>0. Rest /\ MaxFails \in Nat /\ MaxInput \in Nat /\ FrameSizes \subseteq Nat
    BY BoundAssumption DEF Account
  <1>1. ASSUME NEW n \in FrameSizes, SendWrite(n) PROVE Rest'
    <2>1. n \in Nat /\ sentInput' = sentInput + n /\ sentInput + n <= MaxInput
      BY <1>0, <1>1 DEF SendWrite
    <2>2. sentInput' \in 0..MaxInput
      BY <1>0, <2>1 DEF Rest
    <2> QED
      BY <1>0, <1>1, <2>2 DEF SendWrite, Rest
  <1>2. ASSUME NEW op \in {"kill", "dispose"}, SendOp(op) PROVE Rest'
    BY <1>0, <1>2 DEF SendOp, Rest
  <1>3. CASE Receive
    BY <1>0, <1>3 DEF Receive, Rest
  <1>4. ASSUME NEW k \in 1..Len(pipe), ReadChunk(k) PROVE Rest'
    BY <1>0, <1>4 DEF ReadChunk, Rest
  <1>5. CASE HandleSpawn
    BY <1>0, <1>5 DEF HandleSpawn, Handle, Rest
  <1>6. CASE HandleWrite
    BY <1>0, <1>6 DEF HandleWrite, Handle, Rest
  <1>7. CASE HandleKill
    BY <1>0, <1>7 DEF HandleKill, Handle, Rest
  <1>8. CASE HandleDispose
    BY <1>0, <1>8 DEF HandleDispose, Handle, ProcessExit, Rest
  <1>9. CASE FlushStops \/ FlushAsync \/ WriteAgain
    BY <1>0, <1>9 DEF FlushStops, FlushAsync, WriteAgain, Rest
  <1>10. CASE FlushSync
    <2>1. /\ armed' \in {"none", "timer"}
          /\ fails' = fails \/ (fails < MaxFails /\ fails' = fails + 1)
          /\ UNCHANGED <<sentInput, sentOps, fd, kill, exitSeen, proc>>
      BY <1>10 DEF FlushSync
    <2>2. fails' \in 0..MaxFails
      BY <1>0, <2>1 DEF Rest
    <2> QED
      BY <1>0, <2>1, <2>2 DEF Rest
  <1>11. ASSUME NEW w \in 0..inFlight, WriteDone(w) PROVE Rest'
    BY <1>0, <1>11 DEF WriteDone, Wrote, FlushAgain, Rest
  <1>12. CASE WriteFails
    BY <1>0, <1>12 DEF WriteFails, Rest
  <1>13. CASE Drain \/ FlushOutput
    BY <1>0, <1>13 DEF Drain, FlushOutput, Rest
  <1>14. ASSUME NEW n \in 1..MaxOutput, QueueOutput(n) PROVE Rest'
    BY <1>0, <1>14 DEF QueueOutput, Rest
  <1>15. CASE ShellEnds \/ PtyExit \/ Leave \/ Escalate \/ ForceExit
    BY <1>0, <1>15 DEF ShellEnds, PtyExit, Leave, Escalate, ForceExit, ProcessExit, Rest
  <1>16. CASE UNCHANGED vars
    BY <1>0, <1>16 DEF Rest
  <1> QED
    BY <1>1, <1>2, <1>3, <1>4, <1>5, <1>6, <1>7, <1>8, <1>9, <1>10, <1>11, <1>12, <1>13, <1>14,
       <1>15, <1>16 DEF Next, Daemon, Input, Output, Ending

LEMMA AccountInductive ==
  ASSUME Inv, Account, [Next]_vars
  PROVE  Account'
  BY StepsSend, ReceiveFlow, PtyExitFlow, SendingFlow, SendingNatural, RestInductive DEF Account

LEMMA InitAccount == Init => Account
  <1> SUFFICES ASSUME Init PROVE Account
    OBVIOUS
  <1>1. out = <<>> /\ got = 0 /\ batched = 0 /\ emitted = 0
    BY DEF Init
  <1>2. Len(out) = 0 /\ out \in Seq(Sent) /\ Payload(out) = <<>>
    BY <1>1, EmptySeq DEF Payload
  <1>3. Total(Payload(out)) = 0
    BY <1>2, TotalEmpty
  <1>4. Flow
    BY <1>1, <1>2, <1>3, BoundAssumption DEF Flow
  <1>5. NaturalLast
    BY <1>2 DEF Init, NaturalLast
  <1>6. Rest
    <2>1. sentInput = 0 /\ fails = 0 /\ 0 \in 0..MaxInput /\ 0 \in 0..MaxFails
      BY BoundAssumption DEF Init
    <2>2. sentOps = {} /\ fd = "sync" /\ kill = "none" /\ armed = "none" /\ exitSeen = "no" /\ proc = "running"
      BY DEF Init
    <2> QED
      BY <2>1, <2>2 DEF Rest
  <1> QED
    BY <1>4, <1>5, <1>6 DEF Account

-----------------------------------------------------------------------------
(* Input: what queuedBytes counts. *)

Queue ==
    /\ pty = "none" => writeQueue = <<>> /\ queuedBytes = 0 /\ armed = "none"
    /\ QueueAccounting

LEMMA Taken ==
  \A q, h, t, w \in Nat :
     q \in 0..Hard /\ Hard \in Nat /\ q = h + t /\ w <= h =>
        q - w = h - w + t /\ q - w \in 0..Hard
  OBVIOUS

LEMMA QueueInductive ==
  ASSUME Inv, Account, Queue, [Next]_vars
  PROVE  Queue'
  <1> USE DEF vars, inputVars, queueVars, ptyVars, outputVars, seenVars
  <1>0. /\ Shape /\ writeQueue \in Seq(Nat) /\ queuedBytes \in Int /\ inFlight \in Nat /\ Hard \in Nat
        /\ Total(writeQueue) \in Nat /\ armed \in {"none", "timer", "write"}
    <2>1. Shape /\ writeQueue \in Seq(Nat) /\ Hard \in Nat /\ armed \in {"none", "timer", "write"}
      BY WatermarkAssumption DEF Inv, Shape, Account, Rest
    <2> QED
      BY <2>1, UnitsFinite DEF Shape
  <1>1. CASE UNCHANGED <<pty, writeQueue, queuedBytes, armed, inFlight>>
    BY <1>1 DEF Queue, QueueAccounting
  <1>2. ASSUME pty' \notin {"none", "up"} PROVE Queue'
    BY <1>2 DEF Queue, QueueAccounting
  <1>3. CASE HandleSpawn
    <2>1. writeQueue = <<>> /\ queuedBytes = 0 /\ armed = "none" /\ UNCHANGED queueVars
      BY <1>3 DEF HandleSpawn, Queue
    <2>2. Total(writeQueue) = 0
      BY <2>1, TotalEmpty
    <2> QED
      BY <1>0, <2>1, <2>2 DEF Queue, QueueAccounting
  <1>4. CASE HandleWrite
    <2>1. CASE UNCHANGED queueVars
      BY <1>1, <1>4, <2>1 DEF HandleWrite
    <2>2. CASE ~ UNCHANGED queueVars
      <3> DEFINE n == Head(chunk).n
      <3>1. /\ pty = "up" /\ pty' = "up" /\ ~(queuedBytes + n > Hard)
            /\ writeQueue' = Append(writeQueue, n) /\ queuedBytes' = queuedBytes + n
            /\ armed' = IF armed = "none" THEN "timer" ELSE armed
            /\ UNCHANGED inFlight
        BY <1>4, <2>2 DEF HandleWrite
      <3>2. n \in Nat
        BY <1>0, <1>4, ChunkHead DEF HandleWrite
      <3> HIDE DEF n
      <3>3. Total(writeQueue') = Total(writeQueue) + n
        BY <1>0, <3>1, <3>2, TotalAppend
      <3>4. writeQueue' # <<>> /\ (writeQueue # <<>> => Head(writeQueue') = Head(writeQueue))
        <4>1. writeQueue' # <<>>
          BY <1>0, <3>1, <3>2, AppendProperties
        <4>2. Head(writeQueue') = IF writeQueue = <<>> THEN n ELSE Head(writeQueue)
          BY <1>0, <3>1, HeadTailAppend
        <4> QED
          BY <4>1, <4>2
      <3>5. queuedBytes' = Total(writeQueue') /\ queuedBytes' \in 0..Hard
        BY <1>0, <3>1, <3>2, <3>3 DEF Queue, QueueAccounting
      <3>6. armed' # "none" /\ (armed' = "write" => inFlight' = Head(writeQueue'))
        BY <1>0, <3>1, <3>4 DEF Queue, QueueAccounting
      <3> QED
        BY <3>1, <3>4, <3>5, <3>6 DEF Queue, QueueAccounting
    <2> QED
      BY <2>1, <2>2
  <1>5. CASE HandleDispose
    <2>1. writeQueue' = <<>> /\ queuedBytes' = 0 /\ UNCHANGED armed /\ pty' # "up"
          /\ (pty' = "none" => pty = "none")
      BY <1>5 DEF HandleDispose
    <2> QED
      BY <2>1 DEF Queue, QueueAccounting
  <1>6. CASE FlushStops \/ FlushAsync \/ WriteAgain
    <2>1. CASE FlushStops
      BY <2>1 DEF FlushStops, Queue, QueueAccounting
    <2>2. CASE FlushAsync
      BY <2>2 DEF FlushAsync, Queue, QueueAccounting
    <2>3. CASE WriteAgain
      BY <2>3 DEF WriteAgain, Queue, QueueAccounting
    <2> QED
      BY <1>6, <2>1, <2>2, <2>3
  <1>7. CASE FlushSync
    <2>1. /\ Head(writeQueue) \in Nat /\ Tail(writeQueue) \in Seq(Nat)
          /\ Total(writeQueue) = Head(writeQueue) + Total(Tail(writeQueue))
          /\ Total(Tail(writeQueue)) \in Nat
      BY <1>0, <1>7, TotalHeadTail, UnitsFinite DEF FlushSync
    <2>2. pty = "up" /\ pty' = "up" /\ armed = "timer"
      BY <1>7 DEF FlushSync
    <2>3. CASE /\ writeQueue' = Tail(writeQueue) /\ queuedBytes' = queuedBytes - Head(writeQueue)
               /\ armed' = IF Tail(writeQueue) = <<>> THEN "none" ELSE "timer"
      <3>1. queuedBytes = Total(writeQueue) /\ queuedBytes \in 0..Hard
        BY <2>2 DEF Queue, QueueAccounting
      <3>2. queuedBytes \in Nat /\ Head(writeQueue) <= Head(writeQueue)
        BY <1>0, <2>1, <3>1
      <3>3. /\ queuedBytes - Head(writeQueue) = Head(writeQueue) - Head(writeQueue) + Total(Tail(writeQueue))
            /\ queuedBytes - Head(writeQueue) \in 0..Hard
        BY <1>0, <2>1, <3>1, <3>2, Taken
      <3>4. Head(writeQueue) - Head(writeQueue) + Total(Tail(writeQueue)) = Total(Tail(writeQueue))
        BY <2>1
      <3>5. queuedBytes' = Total(Tail(writeQueue)) /\ queuedBytes' \in 0..Hard
        BY <2>3, <3>3, <3>4
      <3> QED
        BY <2>2, <2>3, <3>5 DEF Queue, QueueAccounting
    <2>4. CASE writeQueue' = <<>> /\ queuedBytes' = 0 /\ armed' = "none"
      <3>1. Total(writeQueue') = 0
        BY <2>4, TotalEmpty
      <3> QED
        BY <1>0, <2>2, <2>4, <3>1 DEF Queue, QueueAccounting
    <2> QED
      BY <1>7, <2>3, <2>4 DEF FlushSync
  <1>8. ASSUME NEW w \in 0..inFlight, WriteDone(w) PROVE Queue'
    <2>1. /\ armed = "write" /\ queuedBytes' = queuedBytes - w /\ UNCHANGED pty
          /\ writeQueue' = (IF w = inFlight THEN <<>> ELSE <<inFlight - w>>)
                            \o (IF writeQueue = <<>> THEN <<>> ELSE Tail(writeQueue))
          /\ armed' = IF writeQueue' = <<>> THEN "none" ELSE "timer"
      BY <1>8 DEF WriteDone, Wrote, FlushAgain
    <2>2. SUFFICES ASSUME pty = "up" PROVE Queue'
      BY <2>1 DEF Queue, QueueAccounting
    <2>3. /\ writeQueue # <<>> /\ inFlight = Head(writeQueue)
          /\ queuedBytes = Total(writeQueue) /\ queuedBytes \in 0..Hard
      BY <2>1, <2>2 DEF Queue, QueueAccounting
    <2>4. /\ Tail(writeQueue) \in Seq(Nat) /\ Total(Tail(writeQueue)) \in Nat
          /\ Total(writeQueue) = Head(writeQueue) + Total(Tail(writeQueue))
      BY <1>0, <2>3, TotalHeadTail, UnitsFinite
    <2>5. w \in Nat /\ inFlight - w \in Nat
      BY <1>0
    <2>6. Total(writeQueue') = inFlight - w + Total(Tail(writeQueue))
      <3>1. CASE w = inFlight
        <4>1. writeQueue' = Tail(writeQueue)
          BY <2>1, <2>3, <2>4, <3>1, ConcatEmptySeq
        <4> QED
          BY <1>0, <2>4, <3>1, <4>1
      <3>2. CASE w # inFlight
        <4>1. writeQueue' = <<inFlight - w>> \o Tail(writeQueue)
          BY <2>1, <2>3, <3>2
        <4>2. <<inFlight - w>> \in Seq(Nat) /\ Total(<<inFlight - w>>) = inFlight - w
          BY <2>5, TotalOne
        <4>3. Total(<<inFlight - w>> \o Tail(writeQueue))
                 = Total(<<inFlight - w>>) + Total(Tail(writeQueue))
          BY <2>4, <4>2, TotalConcat
        <4> QED
          BY <4>1, <4>2, <4>3
      <3> QED
        BY <3>1, <3>2
    <2>7. queuedBytes' = Total(writeQueue') /\ queuedBytes' \in 0..Hard
      <3>1. queuedBytes = inFlight + Total(Tail(writeQueue)) /\ w <= inFlight
        BY <1>0, <2>3, <2>4
      <3>2. queuedBytes \in Nat
        BY <1>0, <2>3
      <3>3. /\ queuedBytes - w = inFlight - w + Total(Tail(writeQueue))
            /\ queuedBytes - w \in 0..Hard
        <4>1. inFlight \in Nat /\ Total(Tail(writeQueue)) \in Nat /\ w \in Nat /\ Hard \in Nat
          BY <1>0, <2>4, <2>5
        <4>2. queuedBytes \in 0..Hard
          BY <2>3
        <4> QED
          BY <3>1, <3>2, <4>1, <4>2, Taken
      <3> QED
        BY <2>1, <2>6, <3>3
    <2> QED
      BY <2>1, <2>2, <2>7 DEF Queue, QueueAccounting
  <1>9. CASE WriteFails
    <2>1. writeQueue' = <<>> /\ queuedBytes' = 0 /\ armed' = "none" /\ UNCHANGED pty
      BY <1>9 DEF WriteFails
    <2>2. Total(writeQueue') = 0
      BY <2>1, TotalEmpty
    <2> QED
      BY <1>0, <2>1, <2>2 DEF Queue, QueueAccounting
  <1>10. CASE PtyExit \/ ForceExit
    BY <1>2, <1>10 DEF PtyExit, ForceExit
  <1>11. CASE Daemon \/ Output \/ HandleKill \/ ShellEnds \/ Leave \/ Escalate
              \/ UNCHANGED vars \/ \E k \in 1..Len(pipe) : ReadChunk(k)
    BY <1>1, <1>11 DEF Daemon, SendWrite, SendOp, Receive, Output, Drain, FlushOutput, QueueOutput,
       ShellEnds, Leave, Escalate, HandleKill, ReadChunk
  <1> QED
    BY <1>3, <1>4, <1>5, <1>6, <1>7, <1>8, <1>9, <1>10, <1>11 DEF Next, Input, Ending

LEMMA InitQueue == Init => Queue
  BY TotalEmpty DEF Init, Queue, QueueAccounting

-----------------------------------------------------------------------------
(* Every reachable state keeps the invariant. *)
THEOREM InvAlways == Safety => []Inv
  <1>1. Inv /\ [Next]_vars => Inv'
    BY ShapeInductive, TogetherInductive, DisposeInductive, OrphanInductive, DrainInductive,
       BacklogInductive DEF Inv
  <1> QED
    BY InitInv, <1>1, PTL DEF Safety

THEOREM AccountAlways == Safety => []Account
  <1>1. Inv /\ Account /\ [Next]_vars => Account'
    BY AccountInductive
  <1> QED
    BY InitAccount, <1>1, InvAlways, PTL DEF Safety

THEOREM QueueAlways == Safety => []Queue
  <1>1. Inv /\ Account /\ Queue /\ [Next]_vars => Queue'
    BY QueueInductive
  <1> QED
    BY InitQueue, <1>1, InvAlways, AccountAlways, PTL DEF Safety

(* The type invariant: what is batched or read is never more than what the *)
(* shell has printed.                                                      *)
THEOREM Typing == Spec => []TypeOK
  <1>1. ASSUME Inv, Account PROVE TypeOK
    <2>1. Shape /\ Rest /\ Flow /\ MaxOutput \in Nat
      BY <1>1, BoundAssumption DEF Inv, Account
    <2>2. out \in Seq(OutFrame)
      <3>1. Sent \subseteq OutFrame
        BY DEF Sent
      <3> QED
        BY <2>1, <3>1, SeqMonotonic DEF Flow
    <2>3. Total(Payload(out)) \in Nat
      BY <2>1, SentSize, PayloadCounted DEF Flow
    <2>4. got \in 0..MaxOutput /\ batched \in 0..MaxOutput /\ emitted \in 0..MaxOutput
      BY <2>1, <2>3 DEF Flow
    <2> QED
      BY <2>1, <2>2, <2>4 DEF TypeOK, Shape, Rest
  <1> QED
    BY InvAlways, AccountAlways, <1>1, PTL DEF Spec

(* For every watermark, every size of frame and every partial write,       *)
(* EAGAIN or error of the PTY: queuedBytes is what the queue holds, stays  *)
(* within the hard limit, and a queue with something in it is being        *)
(* flushed.                                                                *)
THEOREM QueueCounted == Spec => []QueueAccounting
  <1>1. Queue => QueueAccounting
    BY DEF Queue
  <1> QED
    BY QueueAlways, <1>1, PTL DEF Spec

(* Until the process starts to end, every unit the shell has printed is    *)
(* read, under way or in the batch, once.                                  *)
THEOREM OutputCounted == Spec => []OutputAccounting
  <1>1. Account => OutputAccounting
    BY DEF Account, Flow, OutputAccounting
  <1> QED
    BY AccountAlways, <1>1, PTL DEF Spec

(* The Exit frame of onExit is the last the daemon hears of the shell's    *)
(* output, whatever the process sends after it and wherever process.exit   *)
(* cuts stdout off.                                                        *)
THEOREM ExitComesLast == Spec => []ExitAfterOutput
  <1>1. Account => ExitAfterOutput
    BY DEF Account, NaturalLast, ExitAfterOutput
  <1> QED
    BY AccountAlways, <1>1, PTL DEF Spec

(* However the subprocess ends -- onExit, the last timer of handleKill or  *)
(* handleDispose, in whatever order their timers and frames arrive -- the  *)
(* process tree of the PTY is dead when it is gone.                        *)
THEOREM NoShellOutlivesProcess == Spec => []NoOrphanShell
  <1>1. Inv => NoOrphanShell
    BY DEF Inv
  <1> QED
    BY InvAlways, <1>1, PTL DEF Spec

(* For every stdout buffer and batch size, a PTY that send has paused has  *)
(* a "drain" event to come, whose handler resumes it.                      *)
THEOREM PausedPtyHasDrain == Spec => []PausedForDrain
  <1>1. Inv => PausedForDrain
    BY DEF Inv
  <1> QED
    BY InvAlways, <1>1, PTL DEF Spec

(* For every choice of the watermarks and every size of frame, stdin is    *)
(* paused only over the low watermark, as long as no PTY write has failed. *)
THEOREM PausedStdinHasBacklog == Spec => []PausedForBacklog
  <1>1. Inv => PausedForBacklog
    BY DEF Inv
  <1> QED
    BY InvAlways, <1>1, PTL DEF Spec
=============================================================================
