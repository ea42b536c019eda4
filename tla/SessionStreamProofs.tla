------------------------- MODULE SessionStreamProofs -------------------------
(***************************************************************************)
(* Proofs about the output side of a session, for every number of sockets  *)
(* and every amount of output: which pauses and which waits are left to    *)
(* somebody (Inv), and where each slice is, so that a snapshot covers its  *)
(* boundary (Account).                                                     *)
(***************************************************************************)
EXTENDS SessionStream, UnitsProofs

(* The types that the proofs need. *)
Shape ==
    /\ stdout \in Seq(0..2) /\ chunk \in Seq(0..2) /\ writeQueue \in Seq(1..2)
    /\ processed \in Nat /\ waiters \subseteq Waiter
    /\ attach \in [Sockets -> {"idle", "waiting", "reached", "late"}]
    /\ sub \in {"up", "null"} /\ stdoutPaused \in BOOLEAN

(* A session without a subprocess pauses nothing; who waits for a drain    *)
(* owes one, is being closed or is a ghost; and a pause is somebody's, or  *)
(* was a ghost's.                                                          *)
PauseInv ==
    /\ sub = "null" => ~stdoutPaused
    /\ waitingForDrain \subseteq full \cup closing \cup gone
    /\ stdoutPaused => waitingForDrain # {} \/ closing # {} \/ gone # {}

OneWaiter == \A v, w \in waiters : v.sock = w.sock => v = w

Inv == Shape /\ PauseInv /\ OneWaiter /\ WaitersReachable

-----------------------------------------------------------------------------
LEMMA ChunkHead ==
  ASSUME Shape, NextFrame
  PROVE  Head(chunk) \in 0..2 /\ chunk' \in Seq(0..2)
  BY HeadTailProperties DEF Shape, NextFrame

LEMMA QueueLength ==
  ASSUME Shape
  PROVE  /\ Len(writeQueue) \in Nat
         /\ writeQueue # <<>> => Len(writeQueue) # 0
         /\ Len(<<>>) = 0
  BY EmptySeq, LenProperties DEF Shape

(* One slice is written: the item at the head gets shorter, or is done. *)
LEMMA SliceWritten ==
  ASSUME Shape, EmulatorTurn
  PROVE  /\ writeQueue' \in Seq(1..2)
         /\ Len(writeQueue) \in Nat \ {0} /\ Len(writeQueue') \in Nat
         /\ Len(writeQueue') = IF Head(writeQueue) = 1 THEN Len(writeQueue) - 1 ELSE Len(writeQueue)
  <1>1. writeQueue \in Seq(1..2) /\ writeQueue # <<>> /\ Head(writeQueue) \in 1..2
    BY HeadTailProperties DEF Shape, EmulatorTurn
  <1>2. Len(writeQueue) \in Nat \ {0} /\ Head(writeQueue) = writeQueue[1]
    BY <1>1, HeadTailProperties, LenProperties, EmptySeq
  <1>3. CASE Head(writeQueue) = 1
    BY <1>1, <1>2, <1>3, HeadTailProperties DEF EmulatorTurn
  <1>4. CASE Head(writeQueue) # 1
    <2>1. writeQueue[1] = 2 /\ writeQueue' = [writeQueue EXCEPT ![1] = 1]
      <3>1. Head(writeQueue) = 2
        BY <1>1, <1>4
      <3>2. writeQueue' = [writeQueue EXCEPT ![1] = writeQueue[1] - 1]
        BY <3>1 DEF EmulatorTurn
      <3>3. writeQueue[1] = 2
        BY <1>2, <3>1
      <3>4. writeQueue[1] - 1 = 1
        BY <3>3
      <3> QED
        BY <3>2, <3>3, <3>4
    <2> QED
      BY <1>1, <1>2, <1>4, <2>1, ExceptSeq
  <1> QED
    BY <1>3, <1>4

LEMMA ShapeInductive ==
  ASSUME Inv, [Next]_vars
  PROVE  Shape'
  <1> USE DEF procVars, stateVars, emuVars, attachVars, clientVars
  <1>0. Shape
    BY DEF Inv
  <1>1. ASSUME NEW n \in 1..2, Produce(n) PROVE Shape'
    <2>1. stdout' \in Seq(0..2)
      BY <1>0, <1>1, AppendProperties DEF Produce, Shape
    <2> QED
      BY <1>0, <1>1, <2>1 DEF Produce, Shape
  <1>2. CASE ProduceExit
    <2>1. stdout' \in Seq(0..2)
      BY <1>0, <1>2, AppendProperties DEF ProduceExit, Shape
    <2> QED
      BY <1>0, <1>2, <2>1 DEF ProduceExit, Shape
  <1>3. CASE ProcEnds \/ Crash
    BY <1>0, <1>3 DEF ProcEnds, Crash, Shape
  <1>4. ASSUME NEW k \in 1..Len(stdout), ReadChunk(k) PROVE Shape'
    <2>1. /\ stdout \in Seq(0..2) /\ Len(stdout) \in Nat /\ k \in Nat
          /\ \A i \in 1..Len(stdout) : stdout[i] \in 0..2
      BY <1>0, ElementOfSeq, LenProperties DEF Shape
    <2>2. SubSeq(stdout, 1, k) \in Seq(0..2)
      <3>1. \A i \in 1..k : stdout[i] \in 0..2
        BY <2>1
      <3> QED
        BY <2>1, <3>1, SubSeqProperties
    <2>3. SubSeq(stdout, k + 1, Len(stdout)) \in Seq(0..2)
      <3>1. \A i \in k + 1..Len(stdout) : stdout[i] \in 0..2
        BY <2>1
      <3> QED
        BY <2>1, <3>1, SubSeqProperties
    <2> QED
      BY <1>0, <1>4, <2>2, <2>3 DEF ReadChunk, Shape
  <1>5. CASE DataFrame
    <2>1. Head(chunk) \in 1..2 /\ chunk' \in Seq(0..2)
      BY <1>0, <1>5, ChunkHead DEF DataFrame
    <2>2. writeQueue' \in Seq(1..2)
      BY <1>0, <1>5, <2>1, AppendProperties DEF DataFrame, Shape
    <2> QED
      BY <1>0, <1>5, <2>1, <2>2 DEF DataFrame, Broadcast, Shape
  <1>6. CASE ExitFrame
    <2>1. chunk' \in Seq(0..2)
      BY <1>0, <1>6, ChunkHead DEF ExitFrame
    <2> QED
      BY <1>0, <1>6, <2>1 DEF ExitFrame, Broadcast, Shape
  <1>7. CASE ProcessExit \/ Dispose
    <2>1. /\ writeQueue' = <<>> /\ processed' = 0 /\ waiters' = {} /\ sub' = "null"
          /\ stdoutPaused' = FALSE /\ UNCHANGED <<stdout, chunk>>
      BY <1>7 DEF ProcessExit, Dispose, ResetProcessState, Broadcast
    <2>2. attach' \in [Sockets -> {"idle", "waiting", "reached", "late"}]
      BY <1>0, <1>7 DEF ProcessExit, Dispose, ResetProcessState, Shape
    <2> QED
      BY <1>0, <2>1, <2>2, EmptySeq DEF Shape
  <1>8. CASE WriteSlice
    <2>1. writeQueue' \in Seq(1..2) /\ UNCHANGED <<stdout, chunk, sub, stdoutPaused>>
      BY <1>0, <1>8, SliceWritten DEF WriteSlice, EmulatorTurn
    <2>2. processed' \in Nat /\ waiters' \subseteq Waiter
      BY <1>0, <1>8 DEF WriteSlice, CountItem, Resolve, Shape
    <2>3. attach' \in [Sockets -> {"idle", "waiting", "reached", "late"}]
      BY <1>0, <1>8 DEF WriteSlice, CountItem, Resolve, Shape
    <2> QED
      BY <1>0, <2>1, <2>2, <2>3 DEF Shape
  <1>9. ASSUME NEW s \in Sockets, AttachBegins(s) PROVE Shape'
    <2>1. [sock |-> s, target |-> processed + Len(writeQueue)] \in Waiter
      BY <1>0, QueueLength DEF Shape, Waiter
    <2>2. waiters' \subseteq Waiter
      BY <1>0, <1>9, <2>1 DEF AttachBegins, Shape
    <2> QED
      BY <1>0, <1>9, <2>2 DEF AttachBegins, Shape
  <1>10. ASSUME NEW s \in Sockets, FlushTimeout(s) \/ TakeSnapshot(s) PROVE Shape'
    BY <1>0, <1>10 DEF FlushTimeout, TakeSnapshot, Shape
  <1>11. ASSUME NEW s \in Sockets,
                DetachRequest(s) \/ Disconnect(s) \/ ClientDrain(s) \/ Destroy(s)
         PROVE  Shape'
    BY <1>0, <1>11 DEF DetachRequest, Disconnect, Detach, ClientDrain, Destroy, ResumeUnless, Shape
  <1>12. CASE UNCHANGED vars
    BY <1>0, <1>12 DEF vars, Shape
  <1> QED
    BY <1>1, <1>2, <1>3, <1>4, <1>5, <1>6, <1>7, <1>8, <1>9, <1>10, <1>11, <1>12
    DEF Next, Subprocess, Daemon, Client

-----------------------------------------------------------------------------
LEMMA PauseInductive ==
  ASSUME Inv, [Next]_vars
  PROVE  PauseInv'
  <1> USE DEF procVars, stateVars, emuVars, attachVars, clientVars
  <1>0. Shape /\ PauseInv
    BY DEF Inv
  <1>1. CASE DataFrame \/ ExitFrame
    <2>1. Broadcast(sub = "up") /\ UNCHANGED <<sub, closing, gone>>
      BY <1>1 DEF DataFrame, ExitFrame
    <2>2. PICK filled \in SUBSET (attachedClients \ Destroyed),
               threw \in SUBSET (attachedClients \cap Destroyed) :
            LET refused == filled \cup ((attachedClients \cap (full \cup Destroyed)) \ threw)
            IN  /\ waitingForDrain' = (waitingForDrain \cup refused) \ threw
                /\ full' = full \cup filled
                /\ stdoutPaused' = (sub = "up" /\ (stdoutPaused \/ refused # {}))
      BY <2>1 DEF Broadcast
    <2>3. waitingForDrain' \subseteq full' \cup closing' \cup gone'
      BY <1>0, <2>1, <2>2 DEF PauseInv, Destroyed
    <2>4. ASSUME stdoutPaused', closing = {}, gone = {} PROVE waitingForDrain' # {}
      BY <1>0, <2>2, <2>4 DEF PauseInv, Destroyed
    <2> QED
      BY <1>0, <2>1, <2>2, <2>3, <2>4 DEF PauseInv, Shape
  <1>2. CASE ProcessExit
    <2>1. UNCHANGED <<closing, gone>> /\ stdoutPaused' = FALSE
      BY <1>2 DEF ProcessExit, Broadcast
    <2>2. waitingForDrain' \subseteq full' \cup closing \cup gone
      BY <1>0, <1>2 DEF ProcessExit, Broadcast, Destroyed, PauseInv
    <2> QED
      BY <2>1, <2>2 DEF PauseInv
  <1>3. CASE Dispose
    BY <1>3 DEF Dispose, PauseInv
  <1>4. ASSUME NEW s \in Sockets, Destroy(s) PROVE PauseInv'
    BY <1>0, <1>4 DEF Destroy, PauseInv
  <1>5. ASSUME NEW s \in Sockets, DetachRequest(s) \/ Disconnect(s) \/ ClientDrain(s)
        PROVE  PauseInv'
    BY <1>0, <1>5 DEF DetachRequest, Disconnect, Detach, ClientDrain, ResumeUnless, PauseInv
  <1>6. CASE UNCHANGED <<sub, stdoutPaused, waitingForDrain, full, closing, gone>>
    BY <1>0, <1>6 DEF PauseInv
  <1> QED
    BY <1>1, <1>2, <1>3, <1>4, <1>5, <1>6
    DEF Next, Subprocess, Daemon, Client, Produce, ProduceExit, ProcEnds, Crash, ReadChunk,
        WriteSlice, EmulatorTurn, AttachBegins, FlushTimeout, TakeSnapshot, vars

LEMMA WaitersInductive ==
  ASSUME Inv, [Next]_vars
  PROVE  OneWaiter' /\ WaitersReachable'
  <1> USE DEF procVars, stateVars, emuVars, attachVars, clientVars
  <1>0. Shape /\ OneWaiter /\ WaitersReachable
    BY DEF Inv
  <1>1. CASE DataFrame
    <2>1. Len(writeQueue') = Len(writeQueue) + 1 /\ Len(writeQueue) \in Nat
      BY <1>0, <1>1, ChunkHead, AppendProperties, LenProperties DEF DataFrame, Shape
    <2>2. UNCHANGED <<waiters, attach, processed>>
      BY <1>1 DEF DataFrame
    <2> QED
      BY <1>0, <2>1, <2>2 DEF OneWaiter, WaitersReachable, Shape, Waiter
  <1>2. CASE ProcessExit \/ Dispose
    <2>1. /\ waiters' = {}
          /\ attach' = [s \in Sockets |->
                          IF \E w \in waiters : w.sock = s THEN "reached" ELSE attach[s]]
      BY <1>2 DEF ProcessExit, Dispose, ResetProcessState
    <2>2. \A s \in Sockets : attach'[s] # "waiting"
      BY <1>0, <2>1 DEF WaitersReachable
    <2> QED
      BY <2>1, <2>2 DEF OneWaiter, WaitersReachable
  <1>3. CASE WriteSlice
    <2>1. /\ Len(writeQueue) \in Nat /\ Len(writeQueue') \in Nat /\ processed \in Nat
          /\ Len(writeQueue') = IF Head(writeQueue) = 1 THEN Len(writeQueue) - 1 ELSE Len(writeQueue)
      BY <1>0, <1>3, SliceWritten DEF WriteSlice, Shape
    <2>2. CASE Head(writeQueue) = 1
      <3>1. /\ processed' = processed + 1
            /\ waiters' = {w \in waiters : ~(processed + 1 >= w.target)}
            /\ attach' = [s \in Sockets |->
                            IF \E w \in waiters : processed + 1 >= w.target /\ w.sock = s
                            THEN "reached" ELSE attach[s]]
        BY <1>3, <2>2 DEF WriteSlice, CountItem, Resolve, Reached
      <3>2. ASSUME NEW w \in waiters'
            PROVE  /\ attach'[w.sock] = "waiting"
                   /\ processed' < w.target /\ w.target <= processed' + Len(writeQueue')
        <4>1. w \in waiters /\ w.sock \in Sockets /\ w.target \in Nat /\ ~(processed + 1 >= w.target)
          BY <1>0, <3>1 DEF Shape, Waiter
        <4>2. attach[w.sock] = "waiting" /\ w.target <= processed + Len(writeQueue)
          BY <1>0, <4>1 DEF WaitersReachable
        <4>3. ~\E v \in waiters : processed + 1 >= v.target /\ v.sock = w.sock
          BY <1>0, <4>1 DEF OneWaiter
        <4> QED
          BY <2>1, <2>2, <3>1, <4>1, <4>2, <4>3
      <3>3. ASSUME NEW s \in Sockets, attach'[s] = "waiting"
            PROVE  \E w \in waiters' : w.sock = s
        BY <1>0, <3>1, <3>3 DEF WaitersReachable
      <3> QED
        BY <1>0, <3>1, <3>2, <3>3 DEF OneWaiter, WaitersReachable
    <2>3. CASE Head(writeQueue) # 1
      <3>1. UNCHANGED <<processed, waiters, attach>>
        BY <1>3, <2>3 DEF WriteSlice, CountItem
      <3>2. Len(writeQueue') = Len(writeQueue)
        BY <2>1, <2>3
      <3>3. OneWaiter'
        BY <1>0, <3>1 DEF OneWaiter
      <3>4. WaitersReachable'
        BY <1>0, <3>1, <3>2 DEF WaitersReachable
      <3> QED
        BY <3>3, <3>4
    <2> QED
      BY <2>2, <2>3
  <1>4. ASSUME NEW s \in Sockets, AttachBegins(s) PROVE OneWaiter' /\ WaitersReachable'
    <2>1. /\ attach[s] = "idle" /\ UNCHANGED <<writeQueue, processed>>
          /\ Len(writeQueue) \in Nat /\ processed \in Nat
      BY <1>0, <1>4, QueueLength DEF AttachBegins, Shape
    <2>2. \A w \in waiters : w.sock # s
      BY <1>0, <2>1 DEF WaitersReachable
    <2>3. CASE writeQueue = <<>>
      <3>1. waiters' = waiters /\ attach' = [attach EXCEPT ![s] = "reached"]
        BY <1>4, <2>3 DEF AttachBegins
      <3>2. OneWaiter'
        BY <1>0, <3>1 DEF OneWaiter
      <3>3. WaitersReachable'
        BY <1>0, <2>1, <2>2, <3>1 DEF WaitersReachable, Shape
      <3> QED
        BY <3>2, <3>3
    <2>4. CASE writeQueue # <<>>
      <3> DEFINE new == [sock |-> s, target |-> processed + Len(writeQueue)]
      <3>1. /\ waiters' = waiters \cup {new}
            /\ attach' = [attach EXCEPT ![s] = "waiting"]
        BY <1>4, <2>4 DEF AttachBegins
      <3>2. processed < new.target /\ new.target <= processed + Len(writeQueue) /\ new.sock = s
        BY <1>0, <2>1, <2>4, QueueLength
      <3> HIDE DEF new
      <3> QED
        BY <1>0, <2>1, <2>2, <3>1, <3>2 DEF OneWaiter, WaitersReachable, Shape, Waiter
    <2> QED
      BY <2>3, <2>4
  <1>5. ASSUME NEW s \in Sockets, FlushTimeout(s) PROVE OneWaiter' /\ WaitersReachable'
    BY <1>0, <1>5 DEF FlushTimeout, OneWaiter, WaitersReachable, Shape, Waiter
  <1>6. ASSUME NEW s \in Sockets, TakeSnapshot(s) PROVE OneWaiter' /\ WaitersReachable'
    BY <1>0, <1>6 DEF TakeSnapshot, OneWaiter, WaitersReachable, Shape, Waiter
  <1>7. CASE UNCHANGED <<waiters, attach, processed, writeQueue>>
    BY <1>0, <1>7 DEF OneWaiter, WaitersReachable
  <1> QED
    BY <1>1, <1>2, <1>3, <1>4, <1>5, <1>6, <1>7
    DEF Next, Subprocess, Daemon, Client, Produce, ProduceExit, ProcEnds, Crash, ReadChunk,
        ExitFrame, DetachRequest, Disconnect, ClientDrain, Destroy, vars

LEMMA InitInv == Init => Inv
  <1> SUFFICES ASSUME Init PROVE Inv
    OBVIOUS
  <1>1. Shape
    BY EmptySeq DEF Init, Shape
  <1> QED
    BY <1>1 DEF Init, Inv, PauseInv, OneWaiter, WaitersReachable

-----------------------------------------------------------------------------
(* Where the slices are. *)

Types ==
    /\ {produced, received, emulated, dropped} \subseteq Nat
    /\ proc \in {"running", "leaving", "ended"} /\ exitBy \in {"none", "frame", "event"}
    /\ {disposed, scheduled} \subseteq BOOLEAN
    /\ boundary \in [Sockets -> 0..MaxOutput] /\ missing \in [Sockets -> 0..MaxOutput]
    /\ attachedClients \subseteq Sockets /\ waitingForDrain \subseteq Sockets
    /\ full \subseteq Sockets /\ closing \subseteq Sockets
    /\ creating \subseteq Sockets /\ gone \subseteq Sockets

(* Each slice that was produced is in one place; an item that counts as    *)
(* processed has been written with one slice at least.                     *)
Flow ==
    /\ produced = received + Total(chunk) + Total(stdout)
    /\ produced <= MaxOutput
    /\ received = emulated + Total(writeQueue) + dropped
    /\ processed <= emulated

(* No frame is delivered to a session that has let go of its subprocess,   *)
(* so the queue that a reset emptied stays empty.                          *)
LetGo ==
    /\ disposed => sub = "null"
    /\ sub = "null" => chunk = <<>>
    /\ writeQueue # <<>> => scheduled

(* The items up to a waiter's target hold exactly what is missing to its   *)
(* boundary.                                                               *)
Covered ==
    dropped = 0 =>
        /\ \A w \in waiters :
              boundary[w.sock] = emulated + Total(SubSeq(writeQueue, 1, w.target - processed))
        /\ \A s \in Sockets : /\ attach[s] = "reached" => boundary[s] <= emulated
                              /\ missing[s] = 0

Account == Types /\ Flow /\ LetGo /\ Covered

LEMMA Amounts ==
  ASSUME Shape
  PROVE  /\ stdout \in Seq(Nat) /\ Total(stdout) \in Nat
         /\ chunk \in Seq(Nat) /\ Total(chunk) \in Nat
         /\ writeQueue \in Seq(Nat) /\ Total(writeQueue) \in Nat
  <1>1. 0..2 \subseteq Nat /\ 1..2 \subseteq Nat
    OBVIOUS
  <1>2. stdout \in Seq(Nat) /\ chunk \in Seq(Nat) /\ writeQueue \in Seq(Nat)
    BY <1>1, SeqMonotonic DEF Shape
  <1> QED
    BY <1>2, UnitsFinite

(* A slice leaves the queue. *)
LEMMA SliceCounted ==
  ASSUME Shape, EmulatorTurn
  PROVE  /\ Head(writeQueue) \in 1..2 /\ Tail(writeQueue) \in Seq(Nat)
         /\ Total(writeQueue') \in Nat /\ Total(writeQueue) = Total(writeQueue') + 1
         /\ Head(writeQueue) # 1 =>
               writeQueue' = [writeQueue EXCEPT ![1] = Head(writeQueue) - 1]
  <1>1. /\ writeQueue \in Seq(1..2) /\ writeQueue \in Seq(Nat) /\ writeQueue # <<>>
        /\ Head(writeQueue) \in 1..2
    BY Amounts, HeadTailProperties DEF Shape, EmulatorTurn
  <1>2. /\ Tail(writeQueue) \in Seq(Nat) /\ Head(writeQueue) = writeQueue[1]
        /\ Total(writeQueue) = Head(writeQueue) + Total(Tail(writeQueue))
        /\ Total(Tail(writeQueue)) \in Nat
    <2>1. /\ Tail(writeQueue) \in Seq(Nat)
          /\ Total(writeQueue) = Head(writeQueue) + Total(Tail(writeQueue))
      BY <1>1, TotalHeadTail
    <2>2. Head(writeQueue) = writeQueue[1]
      BY <1>1, HeadTailProperties
    <2> QED
      BY <2>1, <2>2, UnitsFinite
  <1>3. CASE Head(writeQueue) = 1
    BY <1>1, <1>2, <1>3 DEF EmulatorTurn
  <1>4. CASE Head(writeQueue) # 1
    <2>1. Head(writeQueue) = 2 /\ Head(writeQueue) > 1
      BY <1>1, <1>4
    <2>2. writeQueue' = [writeQueue EXCEPT ![1] = writeQueue[1] - 1]
      BY <2>1 DEF EmulatorTurn
    <2>3. writeQueue' = [writeQueue EXCEPT ![1] = Head(writeQueue) - 1] /\ Head(writeQueue) - 1 \in Nat
      BY <1>2, <2>1, <2>2
    <2>4. Total(writeQueue') = Head(writeQueue) - 1 + Total(Tail(writeQueue))
      BY <1>1, <2>3, Shortened
    <2> QED
      BY <1>1, <1>2, <2>1, <2>3, <2>4
  <1> QED
    BY <1>3, <1>4

LEMMA FlowInductive ==
  ASSUME Inv, Account, [Next]_vars
  PROVE  Flow'
  <1> USE DEF procVars, stateVars, emuVars, attachVars, clientVars
  <1>0. /\ Shape /\ Flow /\ MaxOutput \in Nat
        /\ produced \in Nat /\ received \in Nat /\ emulated \in Nat /\ dropped \in Nat
    BY BoundAssumption DEF Inv, Account, Types
  <1>00. /\ stdout \in Seq(Nat) /\ Total(stdout) \in Nat
         /\ chunk \in Seq(Nat) /\ Total(chunk) \in Nat
         /\ writeQueue \in Seq(Nat) /\ Total(writeQueue) \in Nat
    BY <1>0, Amounts
  <1>1. ASSUME NEW n \in 1..2, Produce(n) PROVE Flow'
    <2>1. /\ n \in Nat /\ stdout' = Append(stdout, n) /\ produced' = produced + n
          /\ produced' <= MaxOutput
          /\ UNCHANGED <<chunk, received, writeQueue, processed, emulated, dropped>>
      BY <1>1 DEF Produce
    <2>2. Total(stdout') = Total(stdout) + n
      BY <1>00, <2>1, TotalAppend
    <2>3. produced' = received' + Total(chunk') + Total(stdout')
      <3>1. produced = received + Total(chunk) + Total(stdout)
        BY <1>0 DEF Flow
      <3>2. Total(chunk') = Total(chunk) /\ received' = received
        BY <2>1
      <3>3. received + Total(chunk) + Total(stdout) + n = received + Total(chunk) + (Total(stdout) + n)
        BY <1>0, <1>00, <2>1
      <3>4. produced' = received + Total(chunk) + (Total(stdout) + n)
        BY <2>1, <3>1, <3>3
      <3> QED
        BY <2>2, <3>2, <3>4
    <2>4. received' = emulated' + Total(writeQueue') + dropped' /\ processed' <= emulated'
      BY <1>0, <2>1 DEF Flow
    <2> QED
      BY <2>1, <2>3, <2>4 DEF Flow
  <1>2. CASE ProduceExit
    <2>1. Total(stdout') = Total(stdout) + 0
      BY <1>00, <1>2, TotalAppend DEF ProduceExit
    <2> QED
      BY <1>0, <1>00, <1>2, <2>1 DEF ProduceExit, Flow
  <1>3. ASSUME NEW k \in 1..Len(stdout), ReadChunk(k) PROVE Flow'
    <2>1. Total(chunk) = 0
      BY <1>3, TotalEmpty DEF ReadChunk, Idle
    <2>2. k \in 0..Len(stdout)
      BY <1>00, LenProperties
    <2>3. /\ chunk' \in Seq(Nat) /\ stdout' \in Seq(Nat)
          /\ Total(stdout) = Total(chunk') + Total(stdout')
      BY <1>00, <1>3, <2>2, TotalSplit DEF ReadChunk
    <2>4. Total(chunk') \in Nat /\ Total(stdout') \in Nat
      BY <2>3, UnitsFinite
    <2> QED
      BY <1>0, <1>00, <1>3, <2>1, <2>3, <2>4 DEF ReadChunk, Flow
  <1>4. CASE DataFrame \/ ExitFrame
    <2>1. /\ Head(chunk) \in Nat /\ Total(chunk) = Head(chunk) + Total(chunk')
          /\ Total(chunk') \in Nat
      BY <1>00, <1>4, TotalHeadTail, UnitsFinite DEF DataFrame, ExitFrame, NextFrame
    <2>2. CASE DataFrame
      <3>1. Total(writeQueue') = Total(writeQueue) + Head(chunk)
        BY <1>00, <2>1, <2>2, TotalAppend DEF DataFrame
      <3>2. /\ received' = received + Head(chunk)
            /\ UNCHANGED <<produced, stdout, processed, emulated, dropped>>
        BY <2>2 DEF DataFrame
      <3>3. produced' = received' + Total(chunk') + Total(stdout')
        <4>1. produced = received + (Head(chunk) + Total(chunk')) + Total(stdout)
          BY <1>0, <2>1 DEF Flow
        <4>2. received + (Head(chunk) + Total(chunk')) + Total(stdout)
                = received + Head(chunk) + Total(chunk') + Total(stdout)
          BY <1>0, <1>00, <2>1
        <4> QED
          BY <3>2, <4>1, <4>2
      <3>4. received' = emulated' + Total(writeQueue') + dropped'
        <4>1. received = emulated + Total(writeQueue) + dropped
          BY <1>0 DEF Flow
        <4>2. emulated + Total(writeQueue) + dropped + Head(chunk)
                = emulated + (Total(writeQueue) + Head(chunk)) + dropped
          BY <1>0, <1>00, <2>1
        <4> QED
          BY <3>1, <3>2, <4>1, <4>2
      <3> QED
        BY <1>0, <3>2, <3>3, <3>4 DEF Flow
    <2>3. CASE ExitFrame
      BY <1>0, <1>00, <2>1, <2>3 DEF ExitFrame, Flow
    <2> QED
      BY <1>4, <2>2, <2>3
  <1>5. CASE ProcessExit \/ Dispose
    <2>1. /\ writeQueue' = <<>> /\ processed' = 0 /\ dropped' = dropped + Total(writeQueue)
          /\ UNCHANGED <<procVars, chunk, received, emulated>>
      BY <1>5 DEF ProcessExit, Dispose, ResetProcessState
    <2> QED
      BY <1>0, <1>00, <2>1, TotalEmpty DEF Flow
  <1>6. CASE WriteSlice
    <2>1. EmulatorTurn /\ processed' \in {processed, processed + 1} /\ processed \in Nat
      BY <1>0, <1>6 DEF WriteSlice, CountItem, Shape
    <2>2. Total(writeQueue') \in Nat /\ Total(writeQueue) = Total(writeQueue') + 1
      BY <1>0, <2>1, SliceCounted
    <2>3. emulated' = emulated + 1 /\ UNCHANGED <<produced, stdout, chunk, received, dropped>>
      BY <2>1 DEF EmulatorTurn
    <2>4. received' = emulated' + Total(writeQueue') + dropped'
      BY <1>0, <1>00, <2>2, <2>3 DEF Flow
    <2>5. processed' <= emulated'
      BY <1>0, <2>1, <2>3 DEF Flow
    <2> QED
      BY <1>0, <2>3, <2>4, <2>5 DEF Flow
  <1>7. CASE UNCHANGED <<produced, stdout, chunk, received, writeQueue, processed, emulated, dropped>>
    BY <1>0, <1>7 DEF Flow
  <1> QED
    BY <1>1, <1>2, <1>3, <1>4, <1>5, <1>6, <1>7
    DEF Next, Subprocess, Daemon, Client, ProcEnds, Crash, AttachBegins, FlushTimeout, TakeSnapshot,
        DetachRequest, Disconnect, ClientDrain, Destroy, vars

LEMMA LetGoInductive ==
  ASSUME Inv, Account, [Next]_vars
  PROVE  LetGo'
  <1> USE DEF procVars, stateVars, emuVars, attachVars, clientVars
  <1>0. LetGo /\ {disposed, scheduled} \subseteq BOOLEAN
    BY DEF Account, Types
  <1>1. CASE DataFrame
    <2>1. scheduled' = TRUE /\ UNCHANGED <<sub, disposed>>
      BY <1>0, <1>1 DEF DataFrame, NextFrame, LetGo
    <2> QED
      BY <1>0, <1>1, <2>1 DEF DataFrame, NextFrame, LetGo
  <1>2. CASE ExitFrame
    BY <1>0, <1>2 DEF ExitFrame, NextFrame, LetGo
  <1>3. CASE ProcessExit \/ Dispose
    BY <1>0, <1>3 DEF ProcessExit, Dispose, ResetProcessState, Idle, LetGo
  <1>4. ASSUME NEW k \in 1..Len(stdout), ReadChunk(k) PROVE LetGo'
    BY <1>0, <1>4 DEF ReadChunk, LetGo
  <1>5. CASE WriteSlice
    BY <1>0, <1>5 DEF WriteSlice, EmulatorTurn, LetGo
  <1>6. ASSUME NEW s \in Sockets, AttachBegins(s) PROVE LetGo'
    BY <1>0, <1>6 DEF AttachBegins, LetGo
  <1>7. CASE UNCHANGED <<sub, disposed, chunk, writeQueue, scheduled>>
    BY <1>0, <1>7 DEF LetGo
  <1> QED
    BY <1>1, <1>2, <1>3, <1>4, <1>5, <1>6, <1>7
    DEF Next, Subprocess, Daemon, Client, Produce, ProduceExit, ProcEnds, Crash, FlushTimeout,
        TakeSnapshot, DetachRequest, Disconnect, ClientDrain, Destroy, vars

(* A waiter's items are a prefix of the queue. *)
LEMMA WaiterPrefix ==
  ASSUME Shape, WaitersReachable, NEW w \in waiters
  PROVE  /\ w.sock \in Sockets /\ w.target \in Nat /\ attach[w.sock] = "waiting"
         /\ processed < w.target /\ w.target - processed \in 1..Len(writeQueue)
  BY QueueLength DEF Shape, Waiter, WaitersReachable

LEMMA CoveredByEmulator ==
  ASSUME Inv, Account, WriteSlice
  PROVE  Covered'
  <1> USE DEF procVars, stateVars, emuVars, attachVars, clientVars
  <1>0. /\ Shape /\ WaitersReachable /\ EmulatorTurn /\ Covered /\ emulated \in Nat
        /\ writeQueue \in Seq(Nat) /\ processed \in Nat /\ boundary \in [Sockets -> 0..MaxOutput]
        /\ MaxOutput \in Nat
    BY Amounts, BoundAssumption DEF Inv, Account, Types, WriteSlice, Shape
  <1>1. emulated' = emulated + 1 /\ UNCHANGED <<boundary, missing, dropped>>
    BY <1>0 DEF EmulatorTurn
  <1>2. /\ writeQueue # <<>> /\ Head(writeQueue) \in 1..2 /\ Tail(writeQueue) \in Seq(Nat)
        /\ Head(writeQueue) # 1 => writeQueue' = [writeQueue EXCEPT ![1] = Head(writeQueue) - 1]
        /\ Head(writeQueue) = 1 => writeQueue' = Tail(writeQueue)
    BY <1>0, SliceCounted DEF EmulatorTurn
  <1>3. ASSUME NEW k \in 1..Len(writeQueue)
        PROVE  /\ Total(SubSeq(writeQueue, 2, k)) \in Nat
               /\ Total(SubSeq(writeQueue, 1, k)) = Head(writeQueue) + Total(SubSeq(writeQueue, 2, k))
    BY <1>0, PrefixHead, UnitsFinite
  <1>4. CASE Head(writeQueue) = 1
    <2>1. /\ processed' = processed + 1
          /\ waiters' = {w \in waiters : ~(processed + 1 >= w.target)}
          /\ attach' = [s \in Sockets |->
                          IF \E w \in waiters : processed + 1 >= w.target /\ w.sock = s
                          THEN "reached" ELSE attach[s]]
      BY <1>4 DEF WriteSlice, CountItem, Resolve, Reached
    <2>2. ASSUME NEW w \in waiters', dropped = 0
          PROVE  boundary[w.sock] = emulated' + Total(SubSeq(writeQueue', 1, w.target - processed'))
      <3> DEFINE k == w.target - processed
      <3>1. k \in 1..Len(writeQueue) /\ w.target - processed' = k - 1
        BY <1>0, <2>1, WaiterPrefix
      <3>2. boundary[w.sock] = emulated + Total(SubSeq(writeQueue, 1, k))
        BY <1>0, <2>1, <2>2 DEF Covered
      <3>3. SubSeq(writeQueue', 1, k - 1) = SubSeq(writeQueue, 2, k)
        BY <1>0, <1>2, <1>4, <3>1, PrefixTail
      <3>4. Total(SubSeq(writeQueue, 1, k)) = 1 + Total(SubSeq(writeQueue, 2, k))
        BY <1>3, <1>4, <3>1
      <3>5. Total(SubSeq(writeQueue, 2, k)) \in Nat
        BY <1>3, <3>1
      <3> HIDE DEF k
      <3>6. boundary[w.sock] = emulated + 1 + Total(SubSeq(writeQueue, 2, k))
        BY <1>0, <3>2, <3>4, <3>5
      <3> QED
        BY <1>1, <3>1, <3>3, <3>6
    <2>3. ASSUME NEW s \in Sockets, attach'[s] = "reached", dropped = 0
          PROVE  boundary[s] <= emulated'
      <3>1. CASE attach[s] = "reached"
        BY <1>0, <1>1, <2>3, <3>1 DEF Covered
      <3>2. CASE attach[s] # "reached"
        <4>1. PICK w \in waiters : processed + 1 >= w.target /\ w.sock = s
          BY <2>1, <2>3, <3>2
        <4>2. w.target - processed = 1 /\ 1 \in 1..Len(writeQueue)
          BY <1>0, <4>1, WaiterPrefix
        <4>3. boundary[s] = emulated + Total(SubSeq(writeQueue, 1, 1))
          BY <1>0, <2>3, <4>1, <4>2 DEF Covered
        <4>4. Total(SubSeq(writeQueue, 2, 1)) = 0
          <5>1. 2 \in Int /\ 1 \in Int /\ 1 < 2
            OBVIOUS
          <5>2. SubSeq(writeQueue, 2, 1) = <<>>
            BY <5>1, SubSeqEmpty, Zenon
          <5> QED
            BY <5>2, TotalEmpty
        <4>5. Total(SubSeq(writeQueue, 1, 1)) = 1
          BY <1>3, <1>4, <4>2, <4>4
        <4> QED
          BY <1>0, <1>1, <4>3, <4>5
      <3> QED
        BY <3>1, <3>2
    <2> QED
      BY <1>0, <1>1, <2>2, <2>3 DEF Covered
  <1>5. CASE Head(writeQueue) # 1
    <2>1. UNCHANGED <<processed, waiters, attach>>
      BY <1>5 DEF WriteSlice, CountItem
    <2>2. ASSUME NEW w \in waiters, dropped = 0
          PROVE  boundary[w.sock] = emulated' + Total(SubSeq(writeQueue', 1, w.target - processed))
      <3> DEFINE k == w.target - processed
      <3>1. k \in 1..Len(writeQueue)
        BY <1>0, WaiterPrefix
      <3>2. boundary[w.sock] = emulated + Total(SubSeq(writeQueue, 1, k))
        BY <1>0, <2>2 DEF Covered
      <3>3. Head(writeQueue) - 1 \in Nat
        BY <1>2
      <3>4. SubSeq(writeQueue', 2, k) = SubSeq(writeQueue, 2, k)
        BY <1>0, <1>2, <1>5, <3>1, <3>3, Shortened
      <3>5. /\ writeQueue' \in Seq(Nat) /\ k \in 1..Len(writeQueue')
            /\ writeQueue'[1] = Head(writeQueue) - 1
        <4>1. 1 \in 1..Len(writeQueue)
          BY <1>0, <3>1, LenProperties
        <4> QED
          BY <1>0, <1>2, <1>5, <3>1, <3>3, <4>1, ExceptSeq
      <3>6. Total(SubSeq(writeQueue', 1, k)) = Head(writeQueue') + Total(SubSeq(writeQueue', 2, k))
        BY <3>5, PrefixHead
      <3>7. Head(writeQueue') = Head(writeQueue) - 1
        BY <3>5
      <3>8. /\ Total(SubSeq(writeQueue', 1, k)) = Head(writeQueue) - 1 + Total(SubSeq(writeQueue, 2, k))
            /\ Total(SubSeq(writeQueue, 1, k)) = Head(writeQueue) + Total(SubSeq(writeQueue, 2, k))
            /\ Total(SubSeq(writeQueue, 2, k)) \in Nat
        BY <1>3, <3>1, <3>4, <3>6, <3>7
      <3> HIDE DEF k
      <3> QED
        BY <1>0, <1>1, <1>2, <3>2, <3>8 DEF k
    <2>3. ASSUME NEW s \in Sockets, attach[s] = "reached", dropped = 0
          PROVE  boundary[s] <= emulated'
      BY <1>0, <1>1, <2>3 DEF Covered
    <2> QED
      BY <1>0, <1>1, <2>1, <2>2, <2>3 DEF Covered
  <1> QED
    BY <1>4, <1>5

LEMMA CoveredInductive ==
  ASSUME Inv, Account, [Next]_vars
  PROVE  Covered'
  <1> USE DEF procVars, stateVars, emuVars, attachVars, clientVars
  <1>0. /\ Shape /\ OneWaiter /\ WaitersReachable /\ Covered /\ Flow
        /\ writeQueue \in Seq(Nat) /\ Total(writeQueue) \in Nat /\ processed \in Nat
        /\ emulated \in Nat /\ dropped \in Nat /\ received \in Nat
        /\ boundary \in [Sockets -> 0..MaxOutput] /\ missing \in [Sockets -> 0..MaxOutput]
        /\ attach \in [Sockets -> {"idle", "waiting", "reached", "late"}]
        /\ MaxOutput \in Nat
    BY Amounts, BoundAssumption DEF Inv, Account, Types, Shape
  <1>1. ASSUME NEW w \in waiters
        PROVE  /\ w.sock \in Sockets /\ attach[w.sock] = "waiting"
               /\ w.target - processed \in 1..Len(writeQueue)
    BY <1>0, WaiterPrefix
  <1>2. CASE DataFrame
    <2>1. /\ writeQueue' = Append(writeQueue, Head(chunk)) /\ Head(chunk) \in Nat
          /\ UNCHANGED <<waiters, attach, processed, emulated, dropped, boundary, missing>>
      BY <1>0, <1>2, ChunkHead DEF DataFrame
    <2>2. ASSUME NEW w \in waiters
          PROVE  SubSeq(writeQueue', 1, w.target - processed) = SubSeq(writeQueue, 1, w.target - processed)
      BY <1>0, <1>1, <2>1, PrefixAppend
    <2> QED
      BY <1>0, <2>1, <2>2 DEF Covered
  <1>3. CASE ProcessExit \/ Dispose
    <2>1. /\ dropped' = dropped + Total(writeQueue) /\ waiters' = {}
          /\ attach' = [s \in Sockets |-> IF \E w \in waiters : w.sock = s THEN "reached" ELSE attach[s]]
          /\ UNCHANGED <<emulated, boundary, missing>>
      BY <1>3 DEF ProcessExit, Dispose, ResetProcessState
    <2>2. SUFFICES ASSUME dropped' = 0 PROVE Covered'
      BY DEF Covered
    <2>3. dropped = 0 /\ Total(writeQueue) = 0
      BY <1>0, <2>1, <2>2
    <2>4. writeQueue = <<>>
      <3>1. SUFFICES ASSUME writeQueue # <<>> PROVE FALSE
        OBVIOUS
      <3>2. Head(writeQueue) \in 1..2
        BY <1>0, <3>1, HeadTailProperties DEF Shape
      <3> QED
        BY <1>0, <2>3, <3>1, <3>2, TotalPositive
    <2>5. waiters = {}
      BY <1>0, <1>1, <2>4, QueueLength
    <2> QED
      BY <1>0, <2>1, <2>3, <2>5 DEF Covered
  <1>4. ASSUME NEW s \in Sockets, AttachBegins(s) PROVE Covered'
    <2>1. /\ attach[s] = "idle" /\ boundary' = [boundary EXCEPT ![s] = received]
          /\ UNCHANGED <<writeQueue, processed, emulated, dropped, missing>>
      BY <1>4 DEF AttachBegins
    <2>2. SUFFICES ASSUME dropped = 0 PROVE Covered'
      BY <2>1 DEF Covered
    <2>3. received = emulated + Total(writeQueue)
      BY <1>0, <2>2 DEF Flow
    <2>4. CASE writeQueue = <<>>
      <3>1. attach' = [attach EXCEPT ![s] = "reached"] /\ UNCHANGED waiters
        BY <1>4, <2>4 DEF AttachBegins
      <3>2. received = emulated
        BY <1>0, <2>3, <2>4, TotalEmpty
      <3>3. waiters = {}
        BY <1>0, <1>1, <2>4, QueueLength
      <3> QED
        BY <1>0, <2>1, <2>2, <3>1, <3>2, <3>3 DEF Covered
    <2>5. CASE writeQueue # <<>>
      <3> DEFINE new == [sock |-> s, target |-> processed + Len(writeQueue)]
      <3>1. attach' = [attach EXCEPT ![s] = "waiting"] /\ waiters' = waiters \cup {new}
        BY <1>4, <2>5 DEF AttachBegins
      <3>2. new.target - processed = Len(writeQueue) /\ new.sock = s
        BY <1>0, QueueLength
      <3>3. SubSeq(writeQueue, 1, Len(writeQueue)) = writeQueue
        BY <1>0, SubSeqFull
      <3>4. boundary'[new.sock] = emulated + Total(SubSeq(writeQueue, 1, new.target - processed))
        BY <1>0, <2>1, <2>3, <3>2, <3>3
      <3> HIDE DEF new
      <3>5. ASSUME NEW w \in waiters'
            PROVE  boundary'[w.sock] = emulated + Total(SubSeq(writeQueue, 1, w.target - processed))
        <4>1. CASE w = new
          BY <3>4, <4>1
        <4>2. CASE w \in waiters
          <5>1. boundary'[w.sock] = boundary[w.sock]
            BY <1>0, <1>1, <2>1, <4>2
          <5> QED
            BY <1>0, <2>2, <4>2, <5>1 DEF Covered
        <4> QED
          BY <3>1, <4>1, <4>2
      <3>6. ASSUME NEW r \in Sockets, attach'[r] = "reached" PROVE boundary'[r] <= emulated
        BY <1>0, <2>1, <2>2, <3>1, <3>6 DEF Covered
      <3>7. \A r \in Sockets : missing[r] = 0
        BY <1>0, <2>2 DEF Covered
      <3> QED
        BY <2>1, <3>5, <3>6, <3>7 DEF Covered
    <2> QED
      BY <2>4, <2>5
  <1>5. ASSUME NEW s \in Sockets, FlushTimeout(s) PROVE Covered'
    <2>1. /\ attach' = [attach EXCEPT ![s] = "late"] /\ waiters' \subseteq waiters
          /\ UNCHANGED <<writeQueue, processed, emulated, dropped, boundary, missing>>
      BY <1>5 DEF FlushTimeout
    <2> QED
      BY <1>0, <2>1 DEF Covered
  <1>6. ASSUME NEW s \in Sockets, TakeSnapshot(s) PROVE Covered'
    <2>1. /\ attach[s] \in {"reached", "late"} /\ attach' = [attach EXCEPT ![s] = "idle"]
          /\ boundary' = [boundary EXCEPT ![s] = 0]
          /\ missing' = [missing EXCEPT ![s] =
                           IF attach[s] = "reached" /\ boundary[s] > emulated
                           THEN boundary[s] - emulated ELSE 0]
          /\ UNCHANGED <<waiters, writeQueue, processed, emulated, dropped>>
      BY <1>6 DEF TakeSnapshot
    <2>2. SUFFICES ASSUME dropped = 0 PROVE Covered'
      BY <2>1 DEF Covered
    <2>3. attach[s] = "reached" => ~(boundary[s] > emulated)
      BY <1>0, <2>2 DEF Covered
    <2>4. ASSUME NEW r \in Sockets
          PROVE  missing'[r] = 0 /\ (attach'[r] = "reached" => boundary'[r] <= emulated)
      BY <1>0, <2>1, <2>2, <2>3 DEF Covered
    <2>5. ASSUME NEW w \in waiters PROVE boundary'[w.sock] = boundary[w.sock]
      BY <1>0, <1>1, <2>1
    <2> QED
      BY <1>0, <2>1, <2>2, <2>4, <2>5 DEF Covered
  <1>7. CASE UNCHANGED <<waiters, attach, processed, writeQueue, emulated, dropped, boundary, missing>>
    BY <1>0, <1>7 DEF Covered
  <1>8. CASE WriteSlice
    BY <1>8, CoveredByEmulator
  <1> QED
    BY <1>2, <1>3, <1>4, <1>5, <1>6, <1>7, <1>8
    DEF Next, Subprocess, Daemon, Client, Produce, ProduceExit, ProcEnds, Crash, ReadChunk,
        ExitFrame, DetachRequest, Disconnect, ClientDrain, Destroy, vars

LEMMA BroadcastTypes ==
  ASSUME Types, NEW mayPause \in BOOLEAN, Broadcast(mayPause)
  PROVE  attachedClients' \subseteq Sockets /\ waitingForDrain' \subseteq Sockets /\ full' \subseteq Sockets
  BY DEF Types, Broadcast

LEMMA TypesInductive ==
  ASSUME Inv, Account, [Next]_vars
  PROVE  Types'
  <1> USE DEF procVars, stateVars, emuVars, attachVars, clientVars
  <1>0. /\ Shape /\ Types /\ Flow /\ MaxOutput \in Nat
        /\ chunk \in Seq(Nat) /\ Total(chunk) \in Nat /\ Total(stdout) \in Nat
        /\ Total(writeQueue) \in Nat /\ received <= MaxOutput
    <2>1. Shape /\ Types /\ Flow /\ MaxOutput \in Nat
      BY BoundAssumption DEF Inv, Account
    <2>2. /\ chunk \in Seq(Nat) /\ Total(chunk) \in Nat /\ Total(stdout) \in Nat
          /\ Total(writeQueue) \in Nat
      BY <2>1, Amounts
    <2>3. /\ produced \in Nat /\ received \in Nat /\ produced <= MaxOutput
          /\ produced = received + Total(chunk) + Total(stdout)
      BY <2>1 DEF Flow, Types
    <2>4. received <= MaxOutput
      BY <2>1, <2>2, <2>3
    <2> QED
      BY <2>1, <2>2, <2>4
  <1>1. ASSUME NEW n \in 1..2, Produce(n) PROVE Types'
    <2>1. /\ produced' = produced + n
          /\ UNCHANGED <<received, emulated, dropped, proc, exitBy, disposed, scheduled, boundary,
                         missing, creating, gone, attachedClients, waitingForDrain, full, closing>>
      BY <1>1 DEF Produce
    <2>2. produced' \in Nat
      BY <1>0, <2>1 DEF Types
    <2> QED
      BY <1>0, <2>1, <2>2 DEF Types
  <1>2. CASE ProduceExit \/ ProcEnds \/ Crash
    BY <1>0, <1>2 DEF ProduceExit, ProcEnds, Crash, Types
  <1>3. ASSUME NEW k \in 1..Len(stdout), ReadChunk(k) PROVE Types'
    BY <1>0, <1>3 DEF ReadChunk, Types
  <1>4. CASE DataFrame
    <2>1. Head(chunk) \in Nat
      BY <1>0, <1>4, ChunkHead DEF DataFrame
    <2>2. attachedClients' \subseteq Sockets /\ waitingForDrain' \subseteq Sockets /\ full' \subseteq Sockets
      BY <1>0, <1>4, BroadcastTypes DEF DataFrame
    <2>3. /\ received' = received + Head(chunk) /\ scheduled' = (scheduled \/ ~disposed)
          /\ UNCHANGED <<produced, emulated, dropped, proc, exitBy, disposed, boundary, missing, creating, gone, closing>>
      BY <1>4 DEF DataFrame
    <2> QED
      BY <1>0, <2>1, <2>2, <2>3 DEF Types
  <1>5. CASE ExitFrame
    <2>1. attachedClients' \subseteq Sockets /\ waitingForDrain' \subseteq Sockets /\ full' \subseteq Sockets
      BY <1>0, <1>5, BroadcastTypes DEF ExitFrame
    <2>2. /\ exitBy' = "frame"
          /\ UNCHANGED <<produced, received, emulated, dropped, proc, disposed, scheduled, boundary,
                         missing, creating, gone, closing>>
      BY <1>5 DEF ExitFrame
    <2> QED
      BY <1>0, <2>1, <2>2 DEF Types
  <1>6. CASE ProcessExit \/ Dispose
    <2>1. /\ scheduled' = FALSE /\ dropped' = dropped + Total(writeQueue)
          /\ UNCHANGED <<produced, received, emulated, proc, boundary, missing, creating, gone, closing>>
      BY <1>6 DEF ProcessExit, Dispose, ResetProcessState
    <2>2. attachedClients' \subseteq Sockets /\ waitingForDrain' \subseteq Sockets /\ full' \subseteq Sockets
      <3>1. CASE ProcessExit /\ exitBy = "none"
        BY <1>0, <3>1, BroadcastTypes DEF ProcessExit
      <3>2. CASE ProcessExit /\ exitBy # "none"
        BY <1>0, <3>2 DEF ProcessExit, Types
      <3>3. CASE Dispose
        BY <1>0, <3>3 DEF Dispose, Types
      <3> QED
        BY <1>6, <3>1, <3>2, <3>3
    <2>3. exitBy' \in {"none", "frame", "event"} /\ disposed' \in BOOLEAN
      BY <1>0, <1>6 DEF ProcessExit, Dispose, Types
    <2>4. {produced', received', emulated', dropped'} \subseteq Nat
      BY <1>0, <2>1 DEF Types
    <2> QED
      BY <1>0, <2>1, <2>2, <2>3, <2>4 DEF Types
  <1>7. CASE WriteSlice
    BY <1>0, <1>7 DEF WriteSlice, EmulatorTurn, Types
  <1>8. ASSUME NEW s \in Sockets, AttachBegins(s) PROVE Types'
    <2>1. /\ boundary' = [boundary EXCEPT ![s] = received] /\ scheduled' \in {scheduled, TRUE}
          /\ attachedClients' = attachedClients \cup {s} /\ creating' = {}
          /\ UNCHANGED <<produced, received, emulated, dropped, proc, exitBy, disposed, missing,
                         gone, waitingForDrain, full, closing>>
      BY <1>8 DEF AttachBegins
    <2>2. boundary' \in [Sockets -> 0..MaxOutput]
      BY <1>0, <2>1 DEF Types
    <2> QED
      BY <1>0, <2>1, <2>2 DEF Types
  <1>9. ASSUME NEW s \in Sockets, FlushTimeout(s) \/ TakeSnapshot(s) PROVE Types'
    <2>1. CASE FlushTimeout(s)
      BY <1>0, <2>1 DEF FlushTimeout, Types
    <2>2. CASE TakeSnapshot(s)
      <3>1. (IF attach[s] = "reached" /\ boundary[s] > emulated THEN boundary[s] - emulated ELSE 0)
              \in 0..MaxOutput
        BY <1>0 DEF Types
      <3> QED
        BY <1>0, <2>2, <3>1 DEF TakeSnapshot, Types
    <2> QED
      BY <1>9, <2>1, <2>2
  <1>10. ASSUME NEW s \in Sockets,
                DetachRequest(s) \/ Disconnect(s) \/ ClientDrain(s) \/ Destroy(s)
         PROVE  Types'
    BY <1>0, <1>10 DEF DetachRequest, Disconnect, Detach, ClientDrain, Destroy, Types
  <1>11. CASE UNCHANGED vars
    BY <1>0, <1>11 DEF vars, Types
  <1> QED
    BY <1>1, <1>2, <1>3, <1>4, <1>5, <1>6, <1>7, <1>8, <1>9, <1>10, <1>11
    DEF Next, Subprocess, Daemon, Client

LEMMA InitAccount == Init => Account
  <1> SUFFICES ASSUME Init PROVE Account
    OBVIOUS
  <1>1. Types
    <2>1. 0 \in 0..MaxOutput
      BY BoundAssumption
    <2>2. boundary \in [Sockets -> 0..MaxOutput] /\ missing \in [Sockets -> 0..MaxOutput]
      BY <2>1 DEF Init
    <2>3. produced = 0 /\ received = 0 /\ emulated = 0 /\ dropped = 0 /\ disposed = FALSE /\ scheduled = FALSE
      BY DEF Init
    <2>4. proc = "running" /\ exitBy = "none"
      BY DEF Init
    <2>5. /\ attachedClients = {} /\ waitingForDrain = {} /\ full = {} /\ closing = {}
          /\ gone = {} /\ creating \subseteq Sockets
      BY DEF Init
    <2>6. {produced, received, emulated, dropped} \subseteq Nat
      BY <2>3
    <2>7. {disposed, scheduled} \subseteq BOOLEAN
      BY <2>3
    <2> QED
      BY <2>2, <2>4, <2>5, <2>6, <2>7 DEF Types
  <1>2. Total(chunk) = 0 /\ Total(stdout) = 0 /\ Total(writeQueue) = 0
    BY TotalEmpty DEF Init
  <1> QED
    BY <1>1, <1>2, BoundAssumption DEF Init, Account, Flow, LetGo, Covered

-----------------------------------------------------------------------------
(* Every reachable state keeps the invariant. *)
THEOREM InvAlways == Safety => []Inv
  <1>1. Inv /\ [Next]_vars => Inv'
    BY ShapeInductive, PauseInductive, WaitersInductive DEF Inv
  <1> QED
    BY InitInv, <1>1, PTL DEF Safety

THEOREM AccountAlways == Safety => []Account
  <1>1. Inv /\ Account /\ [Next]_vars => Account'
    BY FlowInductive, LetGoInductive, CoveredInductive, TypesInductive DEF Account
  <1> QED
    BY InitAccount, <1>1, InvAlways, PTL DEF Safety

(* The type invariant: whatever is produced within MaxOutput, no count of  *)
(* slices exceeds it.                                                      *)
THEOREM Typing == Spec => []TypeOK
  <1>1. ASSUME Inv, Account PROVE TypeOK
    <2>1. Shape /\ Types /\ Flow /\ MaxOutput \in Nat
      BY <1>1, BoundAssumption DEF Inv, Account
    <2>2. Total(chunk) \in Nat /\ Total(stdout) \in Nat /\ Total(writeQueue) \in Nat
      BY <2>1, Amounts
    <2>3. /\ produced \in Nat /\ received \in Nat /\ emulated \in Nat
          /\ dropped \in Nat /\ processed \in Nat
      BY <2>1 DEF Types, Shape
    <2>4. /\ produced <= MaxOutput /\ received <= produced /\ emulated <= received
          /\ dropped <= received /\ processed <= emulated
      BY <2>1, <2>2, <2>3 DEF Flow
    <2>5. {produced, received, emulated, dropped, processed} \subseteq 0..MaxOutput
      BY <2>1, <2>3, <2>4
    <2> QED
      BY <2>1, <2>5 DEF TypeOK, Types, Shape
  <1> QED
    BY InvAlways, AccountAlways, <1>1, PTL DEF Spec

(* Every slice that was received is with the emulator, in its queue or     *)
(* thrown away by a reset, once; and a queue with something in it is going *)
(* to be written.                                                          *)
THEOREM SlicesAccounted == Spec => []EmulatorAccounting
  <1>1. Account => EmulatorAccounting
    BY DEF Account, Flow, LetGo, EmulatorAccounting
  <1> QED
    BY AccountAlways, <1>1, PTL DEF Spec

(* A snapshot taken at its boundary has all that was received when the     *)
(* attach began, for any number of attaches at once and any output in the  *)
(* meantime, as long as no reset threw output away.                        *)
THEOREM SnapshotsCover == Spec => []SnapshotCoversBoundary
  <1>1. Account => SnapshotCoversBoundary
    BY DEF Account, Covered, SnapshotCoversBoundary
  <1> QED
    BY AccountAlways, <1>1, PTL DEF Spec

(* For every number of clients that attach, stall, detach and disconnect,  *)
(* stdout is paused only while one of them owes a drain or a "close", if   *)
(* the call that created the session did not attach a ghost to it.         *)
THEOREM PauseIsSomebodys == Spec => []PausedForClient
  <1>1. Inv => PausedForClient
    BY DEF Inv, PauseInv, PausedForClient
  <1> QED
    BY InvAlways, <1>1, PTL DEF Spec

(* Every attach that waits for its boundary has one waiter, which the      *)
(* queue as it stands will reach: no reset and no timeout of another       *)
(* attach leaves one behind.                                               *)
THEOREM WaitsEndWithQueue == Spec => []WaitersReachable
  <1>1. Inv => WaitersReachable
    BY DEF Inv
  <1> QED
    BY InvAlways, <1>1, PTL DEF Spec
=============================================================================
