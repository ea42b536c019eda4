------------------------ MODULE TerminalHostProofs -------------------------
(* Proofs about TerminalHost, for every set of session ids, requests and   *)
(* sockets, every number of spawn slots, and with or without overlapping   *)
(* requests for one id.                                                    *)
EXTENDS TerminalHost, TLAPS, FiniteSetTheorems, SequenceTheorems

-----------------------------------------------------------------------------
(* The state of the daemon is always well typed. *)
LEMMA TypeInit == Init => TypeOK
  BY DEF Init, TypeOK

LEMMA ReleaseType ==
  ASSUME TypeOK, NEW c \in Calls, NEW next \in {"done", "failed"}, Release(c, next)
  PROVE  /\ pc' \in [Calls -> {"idle", "queued", "granted", "spawning", "done", "failed"}]
         /\ inUse' \in Nat
         /\ queue' \in Seq(Calls)
  BY DEF TypeOK, Release

LEMMA DisposeType ==
  ASSUME TypeOK, NEW D \in SUBSET Calls, Dispose(D)
  PROVE  /\ disposed' \subseteq Calls
         /\ proc' \in [Calls -> {"none", "booting", "up", "gone"}]
         /\ clients' \in [Calls -> SUBSET Sockets]
  BY DEF TypeOK, Dispose

LEMMA TypeNext == TypeOK /\ [Next]_vars => TypeOK'
  <1> SUFFICES ASSUME TypeOK, [Next]_vars PROVE TypeOK'
    OBVIOUS
  <1> USE DEF requestVars, limiterVars, timerVars, objectVars
  <1>1. ASSUME NEW c \in Calls, Attach(c) PROVE TypeOK'
    BY <1>1 DEF Attach, MayCall, TypeOK
  <1>2. ASSUME NEW c \in Calls, RejectIncompatible(c) PROVE TypeOK'
    BY <1>2 DEF RejectIncompatible, MayCall, TypeOK
  <1>3. ASSUME NEW c \in Calls, Create(c) PROVE TypeOK'
    <2>1. {sessions[sid[c]]} \cap Calls \in SUBSET Calls
      OBVIOUS
    <2>2. /\ disposed' \subseteq Calls
          /\ proc' \in [Calls -> {"none", "booting", "up", "gone"}]
          /\ clients' \in [Calls -> SUBSET Sockets]
      BY <1>3, <2>1, DisposeType DEF Create
    <2>3. /\ sessions' \in [SessionIds -> Calls \cup {NoSession}]
          /\ killTimers' \subseteq SessionIds
      BY <1>3 DEF Create, TypeOK
    <2>4. /\ pc' \in [Calls -> {"idle", "queued", "granted", "spawning", "done", "failed"}]
          /\ inUse' \in Nat
          /\ queue' \in Seq(Calls)
      <3>1. CASE inUse < MaxSpawns
        <4>1. pc' = [pc EXCEPT ![c] = "granted"] /\ inUse' = inUse + 1 /\ queue' = queue
          BY <1>3, <3>1 DEF Create
        <4> QED
          BY <4>1 DEF TypeOK
      <3>2. CASE ~(inUse < MaxSpawns)
        <4>1. pc' = [pc EXCEPT ![c] = "queued"] /\ inUse' = inUse /\ queue' = Append(queue, c)
          BY <1>3, <3>2 DEF Create
        <4> QED
          BY <4>1 DEF TypeOK
      <3> QED
        BY <3>1, <3>2
    <2> QED
      BY <1>3, <2>2, <2>3, <2>4 DEF Create, TypeOK
  <1>4. ASSUME NEW c \in Calls, Spawn(c) PROVE TypeOK'
    BY <1>4 DEF Spawn, TypeOK
  <1>5. ASSUME NEW c \in Calls, SpawnThrows(c) PROVE TypeOK'
    BY <1>5, ReleaseType DEF SpawnThrows, TypeOK
  <1>6. ASSUME NEW c \in Calls, FinishSpawn(c) PROVE TypeOK'
    <2>1. /\ pc' \in [Calls -> {"idle", "queued", "granted", "spawning", "done", "failed"}]
          /\ inUse' \in Nat
          /\ queue' \in Seq(Calls)
      BY <1>6, ReleaseType DEF FinishSpawn
    <2>2. /\ disposed' \subseteq Calls
          /\ proc' \in [Calls -> {"none", "booting", "up", "gone"}]
          /\ clients' \in [Calls -> SUBSET Sockets]
      <3>1. CASE isAlive(c)
        <4>1. /\ clients' = [clients EXCEPT ![c] = @ \cup {sock[c]}]
              /\ disposed' = disposed
              /\ proc' = proc
          BY <1>6, <3>1 DEF FinishSpawn
        <4> QED
          BY <4>1 DEF TypeOK
      <3>2. CASE ~isAlive(c)
        BY <1>6, <3>2, DisposeType DEF FinishSpawn
      <3> QED
        BY <3>1, <3>2
    <2> QED
      BY <1>6, <2>1, <2>2 DEF FinishSpawn, TypeOK
  <1>7. ASSUME NEW c \in Calls, Subprocess(c) PROVE TypeOK'
    <2>1. CASE SpawnedFrame(c)
      BY <2>1 DEF SpawnedFrame, TypeOK
    <2>2. CASE ExitFrame(c)
      BY <2>2 DEF ExitFrame, HandleSessionExit, TypeOK
    <2>3. CASE ProcessExit(c)
      <3>1. killTimers' \subseteq SessionIds /\ cleanups' \in [SessionIds -> Nat]
        <4>1. CASE c \in exited
          BY <2>3, <4>1 DEF ProcessExit, TypeOK
        <4>2. CASE c \notin exited
          BY <2>3, <4>2 DEF ProcessExit, HandleSessionExit, TypeOK
        <4> QED
          BY <4>1, <4>2
      <3> QED
        BY <2>3, <3>1 DEF ProcessExit, TypeOK
    <2> QED
      BY <1>7, <2>1, <2>2, <2>3 DEF Subprocess
  <1>8. ASSUME NEW I \in SUBSET SessionIds, \A i \in I : Mapped(i), KillIds(I)
        PROVE TypeOK'
    BY <1>8 DEF KillIds, Mapped, TypeOK
  <1>9. ASSUME NEW i \in SessionIds, KillTimeout(i) PROVE TypeOK'
    BY <1>9, DisposeType DEF KillTimeout, TypeOK
  <1>10. ASSUME NEW i \in SessionIds, CleanupTimeout(i) PROVE TypeOK'
    <2>1. /\ sessions' \in [SessionIds -> Calls \cup {NoSession}]
          /\ cleanups' \in [SessionIds -> Nat]
      BY <1>10 DEF CleanupTimeout, TypeOK
    <2>2. /\ disposed' \subseteq Calls
          /\ proc' \in [Calls -> {"none", "booting", "up", "gone"}]
          /\ clients' \in [Calls -> SUBSET Sockets]
      BY <1>10, DisposeType DEF CleanupTimeout, TypeOK
    <2> QED
      BY <1>10, <2>1, <2>2 DEF CleanupTimeout, TypeOK
  <1>11. ASSUME NEW s \in Sockets, NEW I \in SUBSET SessionIds, DetachFrom(s, I),
                \A i \in I : Mapped(i), openSockets' \subseteq openSockets
         PROVE TypeOK'
    BY <1>11 DEF DetachFrom, Mapped, TypeOK
  <1>12. CASE HostDispose
    BY <1>12, DisposeType DEF HostDispose, TypeOK
  <1>13. CASE UNCHANGED vars
    BY <1>13 DEF vars, TypeOK
  <1>14. ASSUME NEW c \in Calls, Request(c) PROVE TypeOK'
    BY <1>14, <1>1, <1>2, <1>3, <1>4, <1>5, <1>6 DEF Request
  <1>15. ASSUME NEW i \in SessionIds, Kill(i) PROVE TypeOK'
    BY <1>15, <1>8 DEF Kill
  <1>16. CASE KillAll
    BY <1>16, <1>8 DEF KillAll
  <1>17. ASSUME NEW s \in Sockets, NEW i \in SessionIds, Detach(s, i) PROVE TypeOK'
    BY <1>17, <1>11 DEF Detach
  <1>18. ASSUME NEW s \in Sockets, Disconnect(s) PROVE TypeOK'
    BY <1>18, <1>11 DEF Disconnect
  <1> QED
    BY <1>7, <1>9, <1>10, <1>12, <1>13, <1>14, <1>15, <1>16, <1>17, <1>18
    DEF Next, Timeout

THEOREM Typing == Spec => []TypeOK
  BY TypeInit, TypeNext, PTL DEF Spec

-----------------------------------------------------------------------------
(* The spawn semaphore.  Only createOrAttach touches it: every other       *)
(* handler leaves pc, inUse and queue alone.                               *)
LEMMA HoldersFinite == IsFiniteSet(Holders) /\ Cardinality(Holders) \in Nat
  BY CallsAssumption, FS_Subset, FS_CardinalityType DEF Holders

LEMMA SlotsInit == Init => SpawnSlots
  <1> SUFFICES ASSUME Init PROVE SpawnSlots
    OBVIOUS
  <1>1. Holders = {}
    BY DEF Init, Holders
  <1>2. Cardinality(Holders) = 0
    BY <1>1, FS_EmptySet
  <1>3. DOMAIN queue = {}
    BY DEF Init
  <1> QED
    BY <1>2, <1>3, MaxSpawnsAssumption DEF Init, SpawnSlots

(* A request that leaves its spawn section frees its slot or passes it to  *)
(* the request that has waited longest.                                    *)
LEMMA ReleaseSlots ==
  ASSUME TypeOK, SpawnSlots, NEW c \in Holders, NEW next \in {"done", "failed"},
         Release(c, next)
  PROVE  SpawnSlots'
  <1>1. c \in Calls /\ pc[c] \in {"granted", "spawning"}
    BY DEF Holders
  <1>2. Cardinality(Holders \ {c}) = inUse - 1 /\ IsFiniteSet(Holders \ {c}) /\ inUse > 0
    <2>1. Cardinality(Holders \ {c}) = Cardinality(Holders) - 1 /\ IsFiniteSet(Holders \ {c})
      BY HoldersFinite, FS_RemoveElement
    <2>2. Cardinality(Holders \ {c}) \in Nat
      BY <2>1, FS_CardinalityType
    <2> QED
      BY <2>1, <2>2, HoldersFinite DEF SpawnSlots
  <1>3. CASE queue = <<>>
    <2>1. pc' = [r \in Calls |-> IF r = c THEN next ELSE pc[r]]
      BY <1>3 DEF Release
    <2>2. inUse' = inUse - 1 /\ queue' = queue
      BY <1>2, <1>3 DEF Release, TypeOK
    <2>3. Holders' = Holders \ {c}
      BY <2>1 DEF Holders
    <2>4. \A r \in Calls : pc'[r] = "queued" <=> pc[r] = "queued"
      BY <1>1, <2>1
    <2> QED
      BY <1>2, <1>3, <2>2, <2>3, <2>4, MaxSpawnsAssumption DEF SpawnSlots, TypeOK
  <1>4. CASE queue # <<>>
    <2> DEFINE h == Head(queue)
    <2>1. /\ Len(queue) \in Nat \ {0}
          /\ h = queue[1]
          /\ h \in Calls
          /\ DOMAIN queue = 1..Len(queue)
          /\ DOMAIN Tail(queue) = 1..(Len(queue) - 1)
          /\ \A k \in 1..(Len(queue) - 1) : Tail(queue)[k] = queue[k + 1]
      BY <1>4 DEF TypeOK
    <2>2. pc[h] = "queued" /\ h # c
      BY <1>1, <2>1 DEF SpawnSlots
    <2> HIDE DEF h
    <2>3. pc' = [r \in Calls |-> IF r = c THEN next ELSE IF r = h THEN "granted" ELSE pc[r]]
      BY <1>4 DEF Release, h
    <2>4. inUse' = inUse /\ queue' = Tail(queue)
      BY <1>2, <1>4 DEF Release, TypeOK
    <2>5. Holders' = (Holders \ {c}) \cup {h}
      BY <1>1, <2>1, <2>2, <2>3 DEF Holders
    <2>6. Cardinality(Holders') = inUse
      <3>1. h \notin Holders \ {c}
        BY <2>2 DEF Holders
      <3> QED
        <4>1. Cardinality((Holders \ {c}) \cup {h}) = (inUse - 1) + 1
          BY <3>1, <1>2, FS_AddElement
        <4> QED
          BY <4>1, <2>5 DEF TypeOK
    <2>7. \A r \in Calls : pc'[r] = "queued" <=> \E k \in DOMAIN queue' : queue'[k] = r
      <3> SUFFICES ASSUME NEW r \in Calls
                   PROVE  pc'[r] = "queued" <=> \E k \in DOMAIN queue' : queue'[k] = r
        OBVIOUS
      <3>1. pc'[r] = "queued" <=> pc[r] = "queued" /\ r # h
        BY <1>1, <2>1, <2>2, <2>3
      <3>2. ASSUME pc[r] = "queued", r # h
            PROVE  \E k \in DOMAIN queue' : queue'[k] = r
        <4>1. PICK k \in DOMAIN queue : queue[k] = r
          BY <3>2 DEF SpawnSlots
        <4>2. k # 1 /\ k - 1 \in 1..(Len(queue) - 1) /\ (k - 1) + 1 = k
          BY <2>1, <3>2, <4>1
        <4> QED
          BY <2>1, <2>4, <4>1, <4>2
      <3>3. ASSUME NEW k \in DOMAIN queue', queue'[k] = r
            PROVE  pc[r] = "queued" /\ r # h
        <4>1. k \in 1..(Len(queue) - 1) /\ k + 1 \in DOMAIN queue /\ queue[k + 1] = r
          BY <2>1, <2>4, <3>3
        <4>2. 1 \in DOMAIN queue /\ k + 1 # 1
          BY <2>1, <4>1
        <4> QED
          BY <2>1, <4>1, <4>2 DEF SpawnSlots
      <3> QED
        BY <3>1, <3>2, <3>3
    <2>8. \A j, k \in DOMAIN queue' : queue'[j] = queue'[k] => j = k
      <3> SUFFICES ASSUME NEW j \in DOMAIN queue', NEW k \in DOMAIN queue',
                          queue'[j] = queue'[k]
                   PROVE  j = k
        OBVIOUS
      <3>1. /\ j \in 1..(Len(queue) - 1) /\ k \in 1..(Len(queue) - 1)
            /\ j + 1 \in DOMAIN queue /\ k + 1 \in DOMAIN queue
            /\ queue[j + 1] = queue[k + 1]
        BY <2>1, <2>4
      <3>2. j + 1 = k + 1
        BY <3>1 DEF SpawnSlots
      <3> QED
        BY <3>1, <3>2, <2>1
    <2> QED
      BY <1>4, <2>4, <2>6, <2>7, <2>8 DEF SpawnSlots
  <1> QED
    BY <1>3, <1>4

LEMMA CreateSlots ==
  ASSUME TypeOK, SpawnSlots, NEW c \in Calls, Create(c)
  PROVE  SpawnSlots'
  <1>1. pc[c] = "idle" /\ c \notin Holders
    BY DEF Create, MayCall, Holders
  <1>2. CASE inUse < MaxSpawns
    <2>1. pc' = [pc EXCEPT ![c] = "granted"] /\ inUse' = inUse + 1 /\ queue' = queue
      BY <1>2 DEF Create
    <2>2. Holders' = Holders \cup {c}
      BY <2>1 DEF Holders, TypeOK
    <2>3. Cardinality(Holders') = inUse'
      BY <1>1, <2>1, <2>2, HoldersFinite, FS_AddElement DEF SpawnSlots
    <2>4. \A r \in Calls : pc'[r] = "queued" <=> pc[r] = "queued"
      BY <1>1, <2>1 DEF TypeOK
    <2>5. queue = <<>> /\ inUse' <= MaxSpawns
      BY <1>2, <2>1, MaxSpawnsAssumption DEF SpawnSlots, TypeOK
    <2> QED
      BY <2>1, <2>3, <2>4, <2>5 DEF SpawnSlots
  <1>3. CASE ~(inUse < MaxSpawns)
    <2>1. pc' = [pc EXCEPT ![c] = "queued"] /\ inUse' = inUse /\ queue' = Append(queue, c)
      BY <1>3 DEF Create
    <2>2. Holders' = Holders
      BY <1>1, <2>1 DEF Holders, TypeOK
    <2>3. inUse = MaxSpawns
      BY <1>3, MaxSpawnsAssumption DEF SpawnSlots, TypeOK
    <2>4. /\ Len(queue) \in Nat
          /\ DOMAIN queue = 1..Len(queue)
          /\ DOMAIN queue' = 1..(Len(queue) + 1)
          /\ \A k \in 1..Len(queue) : queue'[k] = queue[k] /\ queue[k] # c
          /\ queue'[Len(queue) + 1] = c
      <3>1. /\ Len(queue) \in Nat
            /\ DOMAIN queue = 1..Len(queue)
            /\ DOMAIN queue' = 1..(Len(queue) + 1)
            /\ \A k \in 1..Len(queue) : queue'[k] = queue[k]
            /\ queue'[Len(queue) + 1] = c
        BY <2>1 DEF TypeOK
      <3>2. \A k \in DOMAIN queue : queue[k] # c
        BY <1>1 DEF SpawnSlots
      <3> QED
        BY <3>1, <3>2
    <2>5. \A r \in Calls : pc'[r] = "queued" <=> \E k \in DOMAIN queue' : queue'[k] = r
      <3> SUFFICES ASSUME NEW r \in Calls
                   PROVE  pc'[r] = "queued" <=> \E k \in DOMAIN queue' : queue'[k] = r
        OBVIOUS
      <3>1. CASE r = c
        BY <2>1, <2>4, <3>1 DEF TypeOK
      <3>2. CASE r # c
        <4>1. pc'[r] = "queued" <=> \E k \in DOMAIN queue : queue[k] = r
          BY <2>1, <3>2 DEF SpawnSlots, TypeOK
        <4>2. \A k \in DOMAIN queue' : queue'[k] = r <=> k \in DOMAIN queue /\ queue[k] = r
          BY <2>4, <3>2
        <4>3. \A k \in DOMAIN queue : k \in DOMAIN queue'
          BY <2>4
        <4> QED
          BY <4>1, <4>2, <4>3
      <3> QED
        BY <3>1, <3>2
    <2>6. \A j, k \in DOMAIN queue' : queue'[j] = queue'[k] => j = k
      BY <2>4 DEF SpawnSlots
    <2> QED
      BY <2>1, <2>2, <2>3, <2>5, <2>6 DEF SpawnSlots
  <1> QED
    BY <1>2, <1>3

LEMMA SlotsNext == TypeOK /\ SpawnSlots /\ [Next]_vars => SpawnSlots'
  <1> SUFFICES ASSUME TypeOK, SpawnSlots, [Next]_vars PROVE SpawnSlots'
    OBVIOUS
  <1> USE DEF requestVars, limiterVars
  <1>1. ASSUME NEW c \in Calls, pc[c] = "idle", NEW next \in {"done", "failed"},
               pc' = [pc EXCEPT ![c] = next], UNCHANGED limiterVars
        PROVE  SpawnSlots'
    <2>1. Holders' = Holders
      BY <1>1 DEF Holders, TypeOK
    <2>2. \A r \in Calls : pc'[r] = "queued" <=> pc[r] = "queued"
      BY <1>1 DEF TypeOK
    <2> QED
      BY <1>1, <2>1, <2>2 DEF SpawnSlots
  <1>2. ASSUME NEW c \in Calls, Attach(c) PROVE SpawnSlots'
    BY <1>1, <1>2 DEF Attach, MayCall
  <1>3. ASSUME NEW c \in Calls, RejectIncompatible(c) PROVE SpawnSlots'
    BY <1>1, <1>3 DEF RejectIncompatible, MayCall
  <1>4. ASSUME NEW c \in Calls, Create(c) PROVE SpawnSlots'
    BY <1>4, CreateSlots
  <1>5. ASSUME NEW c \in Calls, Spawn(c) PROVE SpawnSlots'
    <2>1. Holders' = Holders
      BY <1>5 DEF Spawn, Holders, TypeOK
    <2>2. \A r \in Calls : pc'[r] = "queued" <=> pc[r] = "queued"
      BY <1>5 DEF Spawn, TypeOK
    <2> QED
      BY <1>5, <2>1, <2>2 DEF Spawn, SpawnSlots
  <1>6. ASSUME NEW c \in Calls, SpawnThrows(c) PROVE SpawnSlots'
    BY <1>6, ReleaseSlots DEF SpawnThrows, Holders
  <1>7. ASSUME NEW c \in Calls, FinishSpawn(c) PROVE SpawnSlots'
    BY <1>7, ReleaseSlots DEF FinishSpawn, Holders
  <1>8. ASSUME UNCHANGED <<requestVars, limiterVars>> PROVE SpawnSlots'
    BY <1>8 DEF SpawnSlots, Holders
  <1>9. ASSUME NEW c \in Calls, Subprocess(c) PROVE SpawnSlots'
    BY <1>8, <1>9 DEF Subprocess, SpawnedFrame, ExitFrame, ProcessExit
  <1>10. ASSUME NEW i \in SessionIds, Kill(i) \/ Timeout(i) PROVE SpawnSlots'
    BY <1>8, <1>10 DEF Kill, KillIds, Timeout, KillTimeout, CleanupTimeout
  <1>11. ASSUME NEW s \in Sockets, NEW i \in SessionIds, Detach(s, i) PROVE SpawnSlots'
    BY <1>8, <1>11 DEF Detach, DetachFrom
  <1>12. ASSUME NEW s \in Sockets, Disconnect(s) PROVE SpawnSlots'
    BY <1>8, <1>12 DEF Disconnect, DetachFrom
  <1>13. CASE KillAll \/ HostDispose
    BY <1>8, <1>13 DEF KillAll, KillIds, HostDispose
  <1>14. CASE UNCHANGED vars
    BY <1>8, <1>14 DEF vars
  <1> QED
    BY <1>2, <1>3, <1>4, <1>5, <1>6, <1>7, <1>9, <1>10, <1>11, <1>12, <1>13, <1>14
    DEF Next, Request

(* Spawn slots are never lost, duplicated or exceeded, whatever the number *)
(* of requests: a failed, timed-out or throwing spawn gives its slot back  *)
(* exactly once.                                                           *)
THEOREM SlotAccounting == Spec => []SpawnSlots
  BY TypeInit, TypeNext, SlotsInit, SlotsNext, PTL DEF Spec

-----------------------------------------------------------------------------
(* The session map.  RequestStage relates what has happened to a Session   *)
(* object to the progress of the request that created it; it makes         *)
(* MapSound inductive.                                                     *)
RequestStage ==
    \A c \in Calls :
        /\ c \in disposed => pc[c] \in {"done", "failed"}
        /\ c \in terminating => pc[c] = "done"
        /\ c \in Spawned => pc[c] \in {"spawning", "done"}

(* While a request is in flight it is the only one for its id, and the map *)
(* has no session under that id.                                           *)
OneRequestPerId ==
    ExclusiveCreate =>
        \A c \in InFlight :
            /\ sessions[sid[c]] = NoSession
            /\ \A d \in InFlight : sid[d] = sid[c] => d = c

MapInv == TypeOK /\ SpawnSlots /\ MapSound /\ RequestStage
OwnerInv == MapInv /\ OneRequestPerId /\ NoOrphan

(* One Session object is mapped under one id only. *)
LEMMA MapInjective ==
  ASSUME MapInv, NEW i \in SessionIds, Mapped(i)
  PROVE  /\ sessions[i] \in Calls
         /\ \A j \in SessionIds : sessions[j] = sessions[i] => j = i
  BY DEF MapInv, MapSound, Mapped, TypeOK

LEMMA MapInit == Init => MapSound /\ RequestStage /\ OneRequestPerId /\ NoOrphan
  BY DEF Init, MapSound, RequestStage, OneRequestPerId, NoOrphan, Mapped,
         Spawned, InFlight

LEMMA ReleasePc ==
  ASSUME TypeOK, SpawnSlots, NEW c \in Calls, NEW next, Release(c, next)
  PROVE  /\ pc'[c] = next
         /\ \A r \in Calls \ {c} : \/ pc'[r] = pc[r]
                                   \/ pc[r] = "queued" /\ pc'[r] = "granted"
  <1>1. pc'[c] = next
    BY DEF Release
  <1>2. ASSUME NEW r \in Calls \ {c}
        PROVE  \/ pc'[r] = pc[r]
               \/ pc[r] = "queued" /\ pc'[r] = "granted"
    <2>1. CASE queue # <<>> /\ r = Head(queue)
      <3>1. 1 \in DOMAIN queue /\ queue[1] = r
        BY <2>1 DEF TypeOK
      <3>2. pc'[r] = "granted"
        BY <2>1 DEF Release
      <3> QED
        BY <3>1, <3>2 DEF SpawnSlots
    <2>2. CASE ~(queue # <<>> /\ r = Head(queue))
      BY <2>2 DEF Release
    <2> QED
      BY <2>1, <2>2
  <1> QED
    BY <1>1, <1>2

(* Handlers that only take sessions out of the map, disposing what they    *)
(* take, keep it sound.                                                    *)
LEMMA Unmap ==
  ASSUME MapInv, TypeOK', SpawnSlots',
         NEW D \in SUBSET Calls, \A c \in D : pc[c] = "done",
         \A i \in SessionIds : sessions'[i] = IF sessions[i] \in D THEN NoSession ELSE sessions[i],
         disposed' = disposed \cup D,
         proc' = [c \in Calls |-> IF c \in D THEN "gone" ELSE proc[c]],
         UNCHANGED <<pc, sid, terminating>>
  PROVE  MapInv'
  <1>1. MapSound'
    BY DEF MapInv, MapSound, Mapped, TypeOK
  <1>2. RequestStage'
    BY DEF MapInv, RequestStage, Spawned
  <1> QED
    BY <1>1, <1>2 DEF MapInv

LEMMA MapNext == MapInv /\ [Next]_vars => MapInv'
  <1> SUFFICES ASSUME MapInv, [Next]_vars PROVE MapInv'
    OBVIOUS
  <1>0. TypeOK /\ TypeOK' /\ SpawnSlots /\ SpawnSlots'
    BY TypeNext, SlotsNext DEF MapInv
  <1> USE DEF requestVars, limiterVars, timerVars, objectVars
  <1>1. ASSUME NEW c \in Calls, Attach(c) PROVE MapInv'
    <2>1. MapSound'
      BY <1>0, <1>1 DEF MapInv, MapSound, Mapped, Attach, MayCall, TypeOK
    <2>2. RequestStage'
      BY <1>0, <1>1 DEF MapInv, RequestStage, Spawned, Attach, MayCall, TypeOK
    <2> QED
      BY <1>0, <2>1, <2>2 DEF MapInv
  <1>2. ASSUME NEW c \in Calls, RejectIncompatible(c) PROVE MapInv'
    <2>1. MapSound'
      BY <1>0, <1>2 DEF MapInv, MapSound, Mapped, RejectIncompatible, MayCall, TypeOK
    <2>2. RequestStage'
      BY <1>0, <1>2 DEF MapInv, RequestStage, Spawned, RejectIncompatible, MayCall, TypeOK
    <2> QED
      BY <1>0, <2>1, <2>2 DEF MapInv
  <1>3. ASSUME NEW c \in Calls, Create(c) PROVE MapInv'
    <2> DEFINE s == sessions[sid[c]]
    <2>1. /\ sid[c] \in SessionIds
          /\ pc[c] = "idle"
          /\ sessions' = [sessions EXCEPT ![sid[c]] = NoSession]
          /\ disposed' = disposed \cup ({s} \cap Calls)
          /\ proc' = [d \in Calls |-> IF d \in {s} \cap Calls THEN "gone" ELSE proc[d]]
          /\ UNCHANGED <<sid, terminating>>
      BY <1>0, <1>3 DEF Create, Dispose, MayCall, TypeOK
    <2>2. \E v \in {"granted", "queued"} : pc' = [pc EXCEPT ![c] = v]
      BY <1>3 DEF Create
    <2>3. \A i \in SessionIds : Mapped(i)' => i # sid[c] /\ Mapped(i) /\ sessions'[i] = sessions[i]
      BY <1>0, <2>1 DEF Mapped, TypeOK
    <2>4. \A i \in SessionIds : Mapped(i)' => sessions'[i] # s /\ sessions'[i] # c
      BY <1>0, <2>1, <2>3 DEF MapInv, MapSound, Mapped, TypeOK
    <2>5. MapSound'
      <3> SUFFICES ASSUME NEW i \in SessionIds, Mapped(i)'
                   PROVE  /\ sid[sessions[i]] = i
                          /\ pc'[sessions[i]] = "done"
                          /\ sessions[i] \notin disposed'
        BY <2>1, <2>3 DEF MapSound
      <3>1. sid[sessions[i]] = i /\ pc[sessions[i]] = "done" /\ sessions[i] \notin disposed
        BY <2>3 DEF MapInv, MapSound
      <3> QED
        BY <1>0, <2>1, <2>2, <2>3, <2>4, <3>1 DEF TypeOK, Mapped
    <2>6. s \in Calls => pc[s] = "done" /\ s # c
      BY <2>1, CallsAssumption DEF MapInv, MapSound, Mapped
    <2>7. RequestStage'
      BY <1>0, <2>1, <2>2, <2>6 DEF MapInv, RequestStage, Spawned, TypeOK
    <2> QED
      BY <1>0, <2>5, <2>7 DEF MapInv
  <1>4. ASSUME NEW c \in Calls, Spawn(c) PROVE MapInv'
    <2>1. MapSound'
      BY <1>0, <1>4 DEF MapInv, MapSound, Mapped, Spawn, TypeOK
    <2>2. RequestStage'
      BY <1>0, <1>4 DEF MapInv, RequestStage, Spawned, Spawn, TypeOK
    <2> QED
      BY <1>0, <2>1, <2>2 DEF MapInv
  <1>5. ASSUME NEW c \in Calls, SpawnThrows(c) PROVE MapInv'
    <2>1. /\ pc[c] = "granted"
          /\ pc'[c] = "failed"
          /\ \A r \in Calls \ {c} : \/ pc'[r] = pc[r]
                                    \/ pc[r] = "queued" /\ pc'[r] = "granted"
          /\ UNCHANGED <<sid, sessions, proc, disposed, terminating>>
      BY <1>0, <1>5, ReleasePc DEF SpawnThrows
    <2>2. MapSound'
      <3> SUFFICES ASSUME NEW i \in SessionIds, Mapped(i)
                   PROVE  /\ sid[sessions[i]] = i
                          /\ pc'[sessions[i]] = "done"
                          /\ sessions[i] \notin disposed
        BY <2>1 DEF MapSound, Mapped
      <3>1. /\ sessions[i] \in Calls
            /\ sid[sessions[i]] = i
            /\ pc[sessions[i]] = "done"
            /\ sessions[i] \notin disposed
        BY <1>0 DEF MapInv, MapSound, Mapped, TypeOK
      <3> QED
        BY <2>1, <3>1
    <2>3. RequestStage'
      BY <1>0, <2>1 DEF MapInv, RequestStage, Spawned, TypeOK
    <2> QED
      BY <1>0, <2>2, <2>3 DEF MapInv
  <1>6. ASSUME NEW c \in Calls, FinishSpawn(c) PROVE MapInv'
    <2>1. /\ pc[c] = "spawning"
          /\ \A r \in Calls \ {c} : \/ pc'[r] = pc[r]
                                    \/ pc[r] = "queued" /\ pc'[r] = "granted"
          /\ UNCHANGED <<sid, terminating>>
      BY <1>0, <1>6, ReleasePc DEF FinishSpawn
    <2>2. CASE isAlive(c)
      <3>1. /\ pc'[c] = "done"
            /\ sessions' = [sessions EXCEPT ![sid[c]] = c]
            /\ UNCHANGED <<proc, disposed>>
        BY <1>0, <1>6, <2>2, ReleasePc DEF FinishSpawn
      <3>2. MapSound'
        <4> SUFFICES ASSUME NEW i \in SessionIds, Mapped(i)'
                     PROVE  /\ sid[sessions'[i]] = i
                            /\ pc'[sessions'[i]] = "done"
                            /\ sessions'[i] \notin disposed
          BY <2>1, <3>1 DEF MapSound
        <4>1. CASE i = sid[c]
          BY <1>0, <2>1, <3>1, <4>1 DEF MapInv, RequestStage, TypeOK
        <4>2. CASE i # sid[c]
          <5>1. sessions'[i] = sessions[i] /\ Mapped(i)
            BY <1>0, <3>1, <4>2 DEF Mapped, TypeOK
          <5>2. /\ sessions[i] \in Calls
                /\ sid[sessions[i]] = i
                /\ pc[sessions[i]] = "done"
                /\ sessions[i] \notin disposed
            BY <1>0, <5>1 DEF MapInv, MapSound, Mapped, TypeOK
          <5> QED
            BY <2>1, <5>1, <5>2
        <4> QED
          BY <4>1, <4>2
      <3>3. RequestStage'
        BY <1>0, <2>1, <3>1 DEF MapInv, RequestStage, Spawned, TypeOK
      <3> QED
        BY <1>0, <3>2, <3>3 DEF MapInv
    <2>3. CASE ~isAlive(c)
      <3>1. /\ pc'[c] = "failed"
            /\ disposed' = disposed \cup {c}
            /\ proc' = [d \in Calls |-> IF d \in {c} THEN "gone" ELSE proc[d]]
            /\ UNCHANGED sessions
        BY <1>0, <1>6, <2>3, ReleasePc DEF FinishSpawn, Dispose
      <3>2. MapSound'
        BY <1>0, <2>1, <3>1 DEF MapInv, MapSound, Mapped, TypeOK
      <3>3. RequestStage'
        BY <1>0, <2>1, <3>1 DEF MapInv, RequestStage, Spawned, TypeOK
      <3> QED
        BY <1>0, <3>2, <3>3 DEF MapInv
    <2> QED
      BY <2>2, <2>3
  <1>7. ASSUME NEW c \in Calls, Subprocess(c) PROVE MapInv'
    <2>1. UNCHANGED <<pc, sid, sessions, disposed, terminating>>
      BY <1>7 DEF Subprocess, SpawnedFrame, ExitFrame, ProcessExit
    <2>2. \E v \in {"up", "gone", proc[c]} :
             /\ proc' = [proc EXCEPT ![c] = v]
             /\ v = "up" => proc[c] \in {"booting", "up"}
      BY <1>0, <1>7 DEF Subprocess, SpawnedFrame, ExitFrame, ProcessExit, TypeOK
    <2>3. MapSound'
      BY <1>0, <2>1 DEF MapInv, MapSound, Mapped
    <2>4. RequestStage'
      BY <1>0, <2>1, <2>2 DEF MapInv, RequestStage, Spawned, TypeOK
    <2> QED
      BY <1>0, <2>3, <2>4 DEF MapInv
  <1>8. ASSUME NEW I \in SUBSET SessionIds, \A i \in I : Mapped(i), KillIds(I)
        PROVE  MapInv'
    <2>1. MapSound'
      BY <1>0, <1>8 DEF MapInv, MapSound, Mapped, KillIds
    <2>2. RequestStage'
      BY <1>0, <1>8 DEF MapInv, MapSound, RequestStage, Spawned, KillIds
    <2> QED
      BY <1>0, <2>1, <2>2 DEF MapInv
  <1>9. ASSUME NEW i \in SessionIds, KillTimeout(i) PROVE MapInv'
    <2>1. CASE Mapped(i) /\ isTerminating(sessions[i])
      <3>1. /\ sessions[i] \in Calls
            /\ pc[sessions[i]] = "done"
            /\ \A j \in SessionIds : sessions[j] = sessions[i] => j = i
        BY <2>1, MapInjective DEF MapInv, MapSound
      <3>2. /\ sessions' = [sessions EXCEPT ![i] = NoSession]
            /\ disposed' = disposed \cup {sessions[i]}
            /\ proc' = [c \in Calls |-> IF c \in {sessions[i]} THEN "gone" ELSE proc[c]]
            /\ UNCHANGED <<pc, sid, terminating>>
        BY <1>9, <2>1 DEF KillTimeout, Dispose, Mapped
      <3>3. \A j \in SessionIds :
              sessions'[j] = IF sessions[j] \in {sessions[i]} THEN NoSession ELSE sessions[j]
        BY <1>0, <3>1, <3>2 DEF TypeOK
      <3>4. {sessions[i]} \in SUBSET Calls /\ \A c \in {sessions[i]} : pc[c] = "done"
        BY <3>1
      <3> QED
        BY <1>0, <3>2, <3>3, <3>4, Unmap
    <2>2. CASE ~(Mapped(i) /\ isTerminating(sessions[i]))
      BY <1>0, <1>9, <2>2 DEF KillTimeout, MapInv, MapSound, RequestStage, Spawned, Mapped
    <2> QED
      BY <2>1, <2>2
  <1>10. ASSUME NEW i \in SessionIds, CleanupTimeout(i) PROVE MapInv'
    <2>1. CASE Mapped(i) /\ ~isAlive(sessions[i])
      <3>1. /\ sessions[i] \in Calls
            /\ pc[sessions[i]] = "done"
            /\ \A j \in SessionIds : sessions[j] = sessions[i] => j = i
        BY <2>1, MapInjective DEF MapInv, MapSound
      <3>2. /\ sessions' = [sessions EXCEPT ![i] = NoSession]
            /\ disposed' = disposed \cup {sessions[i]}
            /\ proc' = [c \in Calls |-> IF c \in {sessions[i]} THEN "gone" ELSE proc[c]]
            /\ UNCHANGED <<pc, sid, terminating>>
        BY <1>10, <2>1 DEF CleanupTimeout, Dispose, Mapped
      <3>3. \A j \in SessionIds :
              sessions'[j] = IF sessions[j] \in {sessions[i]} THEN NoSession ELSE sessions[j]
        BY <1>0, <3>1, <3>2 DEF TypeOK
      <3>4. {sessions[i]} \in SUBSET Calls /\ \A c \in {sessions[i]} : pc[c] = "done"
        BY <3>1
      <3> QED
        BY <1>0, <3>2, <3>3, <3>4, Unmap
    <2>2. CASE ~(Mapped(i) /\ ~isAlive(sessions[i]))
      BY <1>0, <1>10, <2>2 DEF CleanupTimeout, MapInv, MapSound, RequestStage, Spawned, Mapped
    <2> QED
      BY <2>1, <2>2
  <1>11. ASSUME NEW s \in Sockets, NEW I \in SUBSET SessionIds, DetachFrom(s, I),
                \A i \in I : Mapped(i)
         PROVE  MapInv'
    <2> DEFINE idle == {c \in {sessions[i] : i \in I} : ~isAlive(c) /\ clients[c] \subseteq {s}}
    <2>1. /\ idle \in SUBSET Calls
          /\ \A c \in idle : pc[c] = "done"
      BY <1>0, <1>11 DEF MapInv, MapSound, Mapped, TypeOK
    <2>2. /\ disposed' = disposed \cup idle
          /\ proc' = [c \in Calls |-> IF c \in idle THEN "gone" ELSE proc[c]]
          /\ UNCHANGED <<pc, sid, terminating>>
      BY <1>11 DEF DetachFrom
    <2>3. ASSUME NEW i \in SessionIds, sessions[i] \in idle PROVE i \in I
      <3>1. PICK j \in I : sessions[j] = sessions[i]
        BY <2>3
      <3> QED
        BY <1>11, <3>1, MapInjective
    <2>4. \A i \in SessionIds : sessions'[i] = IF sessions[i] \in idle THEN NoSession ELSE sessions[i]
      BY <1>11, <2>3 DEF DetachFrom
    <2> HIDE DEF idle
    <2> QED
      BY <1>0, <2>1, <2>2, <2>4, Unmap
  <1>12. CASE HostDispose
    <2> DEFINE D == {sessions[i] : i \in SessionIds} \ {NoSession}
    <2>1. /\ D \in SUBSET Calls
          /\ \A c \in D : pc[c] = "done"
      BY <1>0 DEF MapInv, MapSound, Mapped, TypeOK
    <2>2. \A i \in SessionIds : sessions'[i] = IF sessions[i] \in D THEN NoSession ELSE sessions[i]
      BY <1>0, <1>12 DEF HostDispose, TypeOK
    <2>3. /\ disposed' = disposed \cup D
          /\ proc' = [c \in Calls |-> IF c \in D THEN "gone" ELSE proc[c]]
          /\ UNCHANGED <<pc, sid, terminating>>
      BY <1>12 DEF HostDispose, Dispose
    <2> HIDE DEF D
    <2> QED
      BY <1>0, <2>1, <2>2, <2>3, Unmap
  <1>13. CASE UNCHANGED vars
    BY <1>0, <1>13 DEF vars, MapInv, MapSound, RequestStage, Spawned, Mapped
  <1>14. ASSUME NEW i \in SessionIds, Kill(i) PROVE MapInv'
    BY <1>14, <1>8 DEF Kill
  <1>15. CASE KillAll
    BY <1>15, <1>8 DEF KillAll
  <1>16. ASSUME NEW s \in Sockets, NEW i \in SessionIds, Detach(s, i) PROVE MapInv'
    BY <1>16, <1>11 DEF Detach
  <1>17. ASSUME NEW s \in Sockets, Disconnect(s) PROVE MapInv'
    BY <1>17, <1>11 DEF Disconnect
  <1> QED
    BY <1>1, <1>2, <1>3, <1>4, <1>5, <1>6, <1>7, <1>9, <1>10, <1>12, <1>13,
       <1>14, <1>15, <1>16, <1>17
    DEF Next, Request, Timeout

(* A session the daemon can look up is never a disposed one, and belongs   *)
(* to a request that was answered: attach, write and kill always act on    *)
(* the Session object that was created for that id.                        *)
THEOREM SessionMapSound == Spec => []MapSound
  <1>1. Init => MapInv
    BY TypeInit, SlotsInit, MapInit DEF MapInv
  <1>2. MapInv => MapSound
    BY DEF MapInv
  <1> QED
    BY <1>1, <1>2, MapNext, PTL DEF Spec

-----------------------------------------------------------------------------
(* Timers.  Every handler that takes the Session objects D out of the map  *)
(* disposes exactly those, so an entry that remains is as alive as before. *)
Removed(D) ==
    /\ \A i \in SessionIds : sessions'[i] = IF sessions[i] \in D THEN NoSession ELSE sessions[i]
    /\ proc' = [c \in Calls |-> IF c \in D THEN "gone" ELSE proc[c]]
    /\ UNCHANGED <<sid, exited, terminating>>

LEMMA RemovedEntry ==
  ASSUME TypeOK, NEW D \in SUBSET Calls, Removed(D), NEW i \in SessionIds, Mapped(i)'
  PROVE  /\ Mapped(i)
         /\ sessions'[i] = sessions[i]
         /\ sessions[i] \in Calls \ D
         /\ isAlive(sessions[i])' = isAlive(sessions[i])
  BY DEF Removed, Mapped, isAlive, Spawned, TypeOK

(* The handlers that remove entries, and what each does to the timers. *)
LEMMA CreateRemoves ==
  ASSUME MapInv, NEW c \in Calls, Create(c)
  PROVE  /\ \E D \in SUBSET Calls : Removed(D)
         /\ UNCHANGED cleanups
         /\ sessions'[sid[c]] = NoSession
         /\ killTimers' \cup {sid[c]} = killTimers \cup {sid[c]}
  <1> DEFINE D == {sessions[sid[c]]} \cap Calls
  <1>1. /\ sessions' = [sessions EXCEPT ![sid[c]] = NoSession]
        /\ sid[c] \in SessionIds
        /\ killTimers' \cup {sid[c]} = killTimers \cup {sid[c]}
        /\ proc' = [d \in Calls |-> IF d \in D THEN "gone" ELSE proc[d]]
        /\ UNCHANGED <<sid, cleanups, exited, terminating>>
    BY DEF Create, Dispose, MapInv, TypeOK
  <1>2. ASSUME NEW i \in SessionIds
        PROVE  sessions'[i] = IF sessions[i] \in D THEN NoSession ELSE sessions[i]
    <2>1. CASE i = sid[c]
      BY <1>1, <2>1, CallsAssumption DEF MapInv, TypeOK
    <2>2. CASE i # sid[c]
      <3>1. sessions'[i] = sessions[i]
        BY <1>1, <2>2 DEF MapInv, TypeOK
      <3>2. sessions[i] \notin D
        BY <1>1, <2>2, MapInjective, CallsAssumption DEF Mapped
      <3> QED
        BY <3>1, <3>2
    <2> QED
      BY <2>1, <2>2
  <1>3. D \in SUBSET Calls /\ Removed(D)
    BY <1>1, <1>2 DEF Removed
  <1> QED
    BY <1>1, <1>3 DEF MapInv, TypeOK

LEMMA KillTimeoutRemoves ==
  ASSUME MapInv, NEW i \in SessionIds, KillTimeout(i)
  PROVE  /\ \E D \in SUBSET Calls : Removed(D)
         /\ UNCHANGED cleanups
         /\ killTimers' = killTimers \ {i}
         /\ Mapped(i)' => ~isTerminating(sessions[i])
  <1>1. CASE Mapped(i) /\ isTerminating(sessions[i])
    <2>1. /\ sessions' = [sessions EXCEPT ![i] = NoSession]
          /\ proc' = [c \in Calls |-> IF c \in {sessions[i]} THEN "gone" ELSE proc[c]]
          /\ killTimers' = killTimers \ {i}
          /\ UNCHANGED <<sid, cleanups, exited, terminating>>
      BY <1>1 DEF KillTimeout, Dispose, Mapped, requestVars
    <2>2. {sessions[i]} \in SUBSET Calls /\ Removed({sessions[i]})
      BY <1>1, <2>1, MapInjective DEF Removed, MapInv, TypeOK
    <2> QED
      BY <2>1, <2>2 DEF Mapped, MapInv, TypeOK
  <1>2. CASE ~(Mapped(i) /\ isTerminating(sessions[i]))
    <2>1. Removed({})
      BY <1>2 DEF KillTimeout, Removed, Mapped, MapInv, TypeOK, requestVars
    <2> QED
      BY <1>2, <2>1 DEF KillTimeout, Mapped
  <1> QED
    BY <1>1, <1>2

LEMMA CleanupTimeoutRemoves ==
  ASSUME MapInv, NEW i \in SessionIds, CleanupTimeout(i)
  PROVE  /\ \E D \in SUBSET Calls : Removed(D)
         /\ UNCHANGED killTimers
         /\ \A j \in SessionIds : j # i => cleanups'[j] = cleanups[j]
         /\ Mapped(i)' => isAlive(sessions[i])
  <1>1. CASE Mapped(i) /\ ~isAlive(sessions[i])
    <2>1. /\ sessions' = [sessions EXCEPT ![i] = NoSession]
          /\ proc' = [c \in Calls |-> IF c \in {sessions[i]} THEN "gone" ELSE proc[c]]
          /\ cleanups' = [cleanups EXCEPT ![i] = @ - 1]
          /\ UNCHANGED <<sid, killTimers, exited, terminating>>
      BY <1>1 DEF CleanupTimeout, Dispose, Mapped, requestVars
    <2>2. {sessions[i]} \in SUBSET Calls /\ Removed({sessions[i]})
      BY <1>1, <2>1, MapInjective DEF Removed, MapInv, TypeOK
    <2> QED
      BY <2>1, <2>2 DEF Mapped, MapInv, TypeOK
  <1>2. CASE ~(Mapped(i) /\ ~isAlive(sessions[i]))
    <2>1. /\ UNCHANGED <<sid, sessions, proc, killTimers, exited, terminating>>
          /\ cleanups' = [cleanups EXCEPT ![i] = @ - 1]
      BY <1>2 DEF CleanupTimeout, Mapped, requestVars
    <2>2. Removed({})
      BY <2>1 DEF Removed, MapInv, TypeOK
    <2> QED
      BY <1>2, <2>1, <2>2 DEF Mapped, MapInv, TypeOK
  <1> QED
    BY <1>1, <1>2

LEMMA DetachRemoves ==
  ASSUME MapInv, NEW s \in Sockets, NEW I \in SUBSET SessionIds, DetachFrom(s, I),
         \A i \in I : Mapped(i)
  PROVE  /\ \E D \in SUBSET Calls : Removed(D)
         /\ UNCHANGED timerVars
  <1> DEFINE idle == {c \in {sessions[i] : i \in I} : ~isAlive(c) /\ clients[c] \subseteq {s}}
  <1>1. idle \in SUBSET Calls
    BY DEF Mapped, MapInv, TypeOK
  <1>2. ASSUME NEW i \in SessionIds, sessions[i] \in idle PROVE i \in I
    <2>1. PICK j \in I : sessions[j] = sessions[i]
      BY <1>2
    <2> QED
      BY <2>1, MapInjective
  <1>3. Removed(idle)
    BY <1>2 DEF DetachFrom, Removed, requestVars
  <1> QED
    BY <1>1, <1>3 DEF DetachFrom

LEMMA HostDisposeRemoves ==
  ASSUME MapInv, HostDispose
  PROVE  \A i \in SessionIds : ~Mapped(i)'
  BY DEF HostDispose, Mapped

(* A finished spawn maps a live session nobody has killed yet. *)
LEMMA FinishSpawnMaps ==
  ASSUME MapInv, NEW c \in Calls, FinishSpawn(c), NEW i \in SessionIds, Mapped(i)'
  PROVE  /\ UNCHANGED <<timerVars, exited, terminating, sid>>
         /\ \/ sessions'[i] = c /\ isAlive(c)' /\ c \notin terminating
            \/ sessions'[i] = sessions[i] /\ Mapped(i) /\ isAlive(sessions[i])' = isAlive(sessions[i])
  <1>1. CASE isAlive(c)
    <2>1. /\ sessions' = [sessions EXCEPT ![sid[c]] = c]
          /\ UNCHANGED <<proc, exited, terminating, timerVars, sid>>
          /\ pc[c] = "spawning"
      BY <1>1 DEF FinishSpawn
    <2>2. c \notin terminating
      BY <2>1 DEF MapInv, RequestStage
    <2> QED
      BY <1>1, <2>1, <2>2 DEF isAlive, Spawned, Mapped, MapInv, TypeOK
  <1>2. CASE ~isAlive(c)
    <2>1. /\ proc' = [d \in Calls |-> IF d \in {c} THEN "gone" ELSE proc[d]]
          /\ UNCHANGED <<sessions, exited, terminating, timerVars, sid>>
          /\ pc[c] = "spawning"
      BY <1>2 DEF FinishSpawn, Dispose
    <2>2. sessions[i] \in Calls /\ sessions[i] # c
      BY <2>1 DEF MapInv, MapSound, Mapped, TypeOK
    <2> QED
      BY <2>1, <2>2 DEF isAlive, Spawned, Mapped
  <1> QED
    BY <1>1, <1>2

LEMMA CleanupNext ==
  ASSUME MapInv, DeadSessionsHaveCleanup, [Next]_vars
  PROVE  DeadSessionsHaveCleanup'
  <1> SUFFICES ASSUME NEW i \in SessionIds, Mapped(i)', ~isAlive(sessions[i])'
               PROVE  cleanups'[i] > 0
    BY DEF DeadSessionsHaveCleanup
  <1> USE DEF requestVars, limiterVars, timerVars, objectVars
  <1>0. TypeOK /\ TypeOK' /\ (Mapped(i) /\ ~isAlive(sessions[i]) => cleanups[i] > 0)
    BY TypeNext DEF MapInv, DeadSessionsHaveCleanup
  <1>1. ASSUME UNCHANGED <<sessions, proc, exited, cleanups>> PROVE cleanups'[i] > 0
    BY <1>0, <1>1 DEF Mapped, isAlive, Spawned
  <1>2. ASSUME NEW D \in SUBSET Calls, Removed(D), cleanups'[i] = cleanups[i]
        PROVE  cleanups'[i] > 0
    BY <1>0, <1>2, RemovedEntry
  <1>3. ASSUME NEW c \in Calls, Create(c) PROVE cleanups'[i] > 0
    BY <1>2, <1>3, CreateRemoves
  <1>4. ASSUME NEW c \in Calls, FinishSpawn(c) PROVE cleanups'[i] > 0
    BY <1>0, <1>4, FinishSpawnMaps
  <1>5. ASSUME NEW c \in Calls, Attach(c) \/ RejectIncompatible(c) \/ SpawnThrows(c)
        PROVE  cleanups'[i] > 0
    BY <1>1, <1>5 DEF Attach, RejectIncompatible, SpawnThrows
  <1>6. ASSUME NEW c \in Calls, Spawn(c) PROVE cleanups'[i] > 0
    BY <1>0, <1>6 DEF Spawn, Mapped, isAlive, Spawned, TypeOK
  <1>7. ASSUME NEW c \in Calls, SpawnedFrame(c) PROVE cleanups'[i] > 0
    BY <1>0, <1>7 DEF SpawnedFrame, Mapped, isAlive, Spawned, TypeOK
  <1>8. ASSUME NEW c \in Calls, ExitFrame(c) \/ ProcessExit(c) PROVE cleanups'[i] > 0
    <2>1. /\ sessions' = sessions
          /\ \A d \in Calls \ {c} : proc'[d] = proc[d]
          /\ exited' = exited \cup {c}
          /\ \/ UNCHANGED cleanups /\ c \in exited
             \/ cleanups' = [cleanups EXCEPT ![sid[c]] = @ + 1]
      BY <1>0, <1>8 DEF ExitFrame, ProcessExit, HandleSessionExit, TypeOK
    <2>2. sessions[i] \in Calls /\ sid[sessions[i]] = i
      BY <1>0, <2>1 DEF MapInv, MapSound, Mapped, TypeOK
    <2>3. CASE sessions[i] = c
      BY <1>0, <2>1, <2>2, <2>3 DEF Mapped, isAlive, TypeOK
    <2>4. CASE sessions[i] # c
      <3>1. ~isAlive(sessions[i]) /\ Mapped(i)
        BY <2>1, <2>2, <2>4 DEF Mapped, isAlive, Spawned
      <3>2. cleanups[i] \in Nat /\ cleanups[i] > 0
        BY <1>0, <3>1 DEF TypeOK
      <3>3. cleanups'[i] \in {cleanups[i], cleanups[i] + 1}
        BY <1>0, <2>1 DEF TypeOK
      <3> QED
        BY <3>2, <3>3
    <2> QED
      BY <2>3, <2>4
  <1>9. ASSUME NEW j \in SessionIds, KillTimeout(j) PROVE cleanups'[i] > 0
    BY <1>2, <1>9, KillTimeoutRemoves
  <1>10. ASSUME NEW j \in SessionIds, CleanupTimeout(j) PROVE cleanups'[i] > 0
    <2>1. PICK D \in SUBSET Calls : Removed(D)
      BY <1>10, CleanupTimeoutRemoves
    <2>2. CASE i = j
      BY <1>0, <1>10, <2>1, <2>2, CleanupTimeoutRemoves, RemovedEntry
    <2>3. CASE i # j
      BY <1>2, <1>10, <2>1, <2>3, CleanupTimeoutRemoves
    <2> QED
      BY <2>2, <2>3
  <1>11. ASSUME NEW s \in Sockets, NEW I \in SUBSET SessionIds, DetachFrom(s, I),
                \A j \in I : Mapped(j)
         PROVE  cleanups'[i] > 0
    BY <1>2, <1>11, DetachRemoves
  <1>12. CASE HostDispose
    BY <1>12, HostDisposeRemoves
  <1>13. ASSUME NEW j \in SessionIds, Kill(j) PROVE cleanups'[i] > 0
    BY <1>1, <1>13 DEF Kill, KillIds
  <1>14. CASE KillAll \/ UNCHANGED vars
    BY <1>1, <1>14 DEF KillAll, KillIds, vars
  <1>15. ASSUME NEW s \in Sockets, NEW j \in SessionIds, Detach(s, j) PROVE cleanups'[i] > 0
    BY <1>11, <1>15 DEF Detach
  <1>16. ASSUME NEW s \in Sockets, Disconnect(s) PROVE cleanups'[i] > 0
    BY <1>11, <1>16 DEF Disconnect
  <1> QED
    BY <1>3, <1>4, <1>5, <1>6, <1>7, <1>8, <1>9, <1>10, <1>12, <1>13, <1>14, <1>15, <1>16
    DEF Next, Request, Subprocess, Timeout

(* Dead sessions are collected: as long as one is in the map a cleanup     *)
(* timeout is pending for its id, even when timeouts started for earlier   *)
(* sessions of that id were spent on it while it was still alive.          *)
THEOREM DeadSessionsCollected == Spec => []DeadSessionsHaveCleanup
  <1>1. Init => MapInv
    BY TypeInit, SlotsInit, MapInit DEF MapInv
  <1>2. Init => DeadSessionsHaveCleanup
    BY DEF Init, DeadSessionsHaveCleanup, Mapped
  <1>3. MapInv /\ DeadSessionsHaveCleanup /\ [Next]_vars => DeadSessionsHaveCleanup'
    BY CleanupNext
  <1> QED
    BY <1>1, <1>2, <1>3, MapNext, PTL DEF Spec

LEMMA KillNext ==
  ASSUME MapInv, KillFailSafeUnlessStaleExit, [Next]_vars
  PROVE  KillFailSafeUnlessStaleExit'
  <1> DEFINE Guarded(i) == \/ i \in killTimers
                           \/ \E d \in exited : d # sessions[i] /\ sid[d] = i
  <1> SUFFICES ASSUME NEW i \in SessionIds, Mapped(i)', isTerminating(sessions[i])',
                      isAlive(sessions[i])'
               PROVE  Guarded(i)'
    BY DEF KillFailSafeUnlessStaleExit
  <1> USE DEF requestVars, limiterVars, timerVars, objectVars
  <1>0. /\ TypeOK /\ TypeOK'
        /\ Mapped(i) /\ isTerminating(sessions[i]) /\ isAlive(sessions[i]) => Guarded(i)
    BY TypeNext DEF MapInv, KillFailSafeUnlessStaleExit
  <1>1. ASSUME UNCHANGED <<sid, sessions, killTimers, terminating, proc, exited>>
        PROVE  Guarded(i)'
    BY <1>0, <1>1 DEF Mapped, isAlive, isTerminating, Spawned
  <1>2. ASSUME NEW D \in SUBSET Calls, Removed(D), i \in killTimers => i \in killTimers'
        PROVE  Guarded(i)'
    <2>1. /\ Mapped(i) /\ sessions'[i] = sessions[i]
          /\ isTerminating(sessions[i]) /\ isAlive(sessions[i])
          /\ exited' = exited /\ sid' = sid
      BY <1>0, <1>2, RemovedEntry DEF isTerminating, Removed
    <2> QED
      BY <1>0, <1>2, <2>1
  <1>3. ASSUME NEW c \in Calls, Create(c) PROVE Guarded(i)'
    <2>1. i # sid[c]
      BY <1>3, CreateRemoves DEF Mapped
    <2> QED
      BY <1>2, <1>3, <2>1, CreateRemoves
  <1>4. ASSUME NEW c \in Calls, FinishSpawn(c) PROVE Guarded(i)'
    <2>1. /\ sessions'[i] = sessions[i] /\ Mapped(i)
          /\ isTerminating(sessions[i]) /\ isAlive(sessions[i])
          /\ UNCHANGED <<killTimers, exited, sid>>
      BY <1>4, FinishSpawnMaps DEF isTerminating
    <2> QED
      BY <1>0, <2>1
  <1>5. ASSUME NEW c \in Calls, Attach(c) \/ RejectIncompatible(c) \/ SpawnThrows(c)
        PROVE  Guarded(i)'
    BY <1>1, <1>5 DEF Attach, RejectIncompatible, SpawnThrows
  <1>6. ASSUME NEW c \in Calls, Spawn(c) PROVE Guarded(i)'
    <2>1. /\ pc[c] = "granted"
          /\ \A d \in Calls \ {c} : proc'[d] = proc[d]
          /\ UNCHANGED <<sid, sessions, killTimers, terminating, exited>>
      BY <1>0, <1>6 DEF Spawn, TypeOK
    <2>2. sessions[i] \in Calls \ {c}
      BY <1>0, <2>1 DEF MapInv, MapSound, Mapped, TypeOK
    <2> QED
      BY <1>0, <2>1, <2>2 DEF Mapped, isAlive, isTerminating, Spawned
  <1>7. ASSUME NEW c \in Calls, SpawnedFrame(c) PROVE Guarded(i)'
    BY <1>0, <1>7 DEF SpawnedFrame, Mapped, isAlive, isTerminating, Spawned, TypeOK
  <1>8. ASSUME NEW c \in Calls, ExitFrame(c) \/ ProcessExit(c) PROVE Guarded(i)'
    <2>1. /\ UNCHANGED <<sid, sessions, terminating>>
          /\ \A d \in Calls \ {c} : proc'[d] = proc[d]
          /\ exited' = exited \cup {c}
          /\ killTimers' = killTimers \/ killTimers' = killTimers \ {sid[c]}
      BY <1>0, <1>8 DEF ExitFrame, ProcessExit, HandleSessionExit, TypeOK
    <2>2. sessions[i] \in Calls \ {c} /\ Mapped(i)
      BY <1>0, <2>1 DEF Mapped, isAlive, TypeOK
    <2>3. Guarded(i)
      BY <1>0, <2>1, <2>2 DEF isAlive, isTerminating, Spawned
    <2> QED
      BY <2>1, <2>2, <2>3
  <1>9. ASSUME NEW j \in SessionIds, KillTimeout(j) PROVE Guarded(i)'
    <2>1. PICK D \in SUBSET Calls : Removed(D)
      BY <1>9, KillTimeoutRemoves
    <2>2. i # j
      BY <1>0, <1>9, <2>1, KillTimeoutRemoves, RemovedEntry DEF isTerminating, Removed
    <2> QED
      BY <1>2, <1>9, <2>1, <2>2, KillTimeoutRemoves
  <1>10. ASSUME NEW j \in SessionIds, CleanupTimeout(j) PROVE Guarded(i)'
    BY <1>2, <1>10, CleanupTimeoutRemoves
  <1>11. ASSUME NEW s \in Sockets, NEW I \in SUBSET SessionIds, DetachFrom(s, I),
                \A j \in I : Mapped(j)
         PROVE  Guarded(i)'
    BY <1>2, <1>11, DetachRemoves
  <1>12. CASE HostDispose
    BY <1>12, HostDisposeRemoves
  <1>13. ASSUME NEW I \in SUBSET SessionIds, \A j \in I : Mapped(j), KillIds(I)
         PROVE  Guarded(i)'
    <2>1. /\ UNCHANGED <<sid, sessions, proc, exited>>
          /\ terminating' = terminating \cup {sessions[j] : j \in I}
          /\ killTimers' = killTimers \cup I
      BY <1>13 DEF KillIds
    <2>2. Mapped(i) /\ isAlive(sessions[i])
      BY <2>1 DEF Mapped, isAlive, Spawned
    <2>3. CASE i \in I
      BY <2>1, <2>3
    <2>4. CASE i \notin I
      <3>1. sessions[i] \notin {sessions[j] : j \in I}
        BY <1>13, <2>2, <2>4, MapInjective
      <3> QED
        BY <1>0, <2>1, <2>2, <3>1 DEF isTerminating
    <2> QED
      BY <2>3, <2>4
  <1>14. ASSUME NEW j \in SessionIds, Kill(j) PROVE Guarded(i)'
    BY <1>13, <1>14 DEF Kill
  <1>15. CASE KillAll
    BY <1>13, <1>15 DEF KillAll
  <1>16. CASE UNCHANGED vars
    BY <1>1, <1>16 DEF vars
  <1>17. ASSUME NEW s \in Sockets, NEW j \in SessionIds, Detach(s, j) PROVE Guarded(i)'
    BY <1>11, <1>17 DEF Detach
  <1>18. ASSUME NEW s \in Sockets, Disconnect(s) PROVE Guarded(i)'
    BY <1>11, <1>18 DEF Disconnect
  <1> QED
    BY <1>3, <1>4, <1>5, <1>6, <1>7, <1>8, <1>9, <1>10, <1>12, <1>14, <1>15, <1>16, <1>17, <1>18
    DEF Next, Request, Subprocess, Timeout

(* The kill fail-safe can only be lost to the exit of another Session      *)
(* object of the same id: under a client that never reuses an id after a   *)
(* kill, every session being killed is eventually disposed.                *)
THEOREM KillGuarded == Spec => []KillFailSafeUnlessStaleExit
  <1>1. Init => MapInv
    BY TypeInit, SlotsInit, MapInit DEF MapInv
  <1>2. Init => KillFailSafeUnlessStaleExit
    BY DEF Init, KillFailSafeUnlessStaleExit, Mapped
  <1>3. MapInv /\ KillFailSafeUnlessStaleExit /\ [Next]_vars => KillFailSafeUnlessStaleExit'
    BY KillNext
  <1> QED
    BY <1>1, <1>2, <1>3, MapNext, PTL DEF Spec

-----------------------------------------------------------------------------
(* Ownership, for clients that never have two requests for one id in       *)
(* flight.                                                                 *)
LEMMA FlightNext ==
  ASSUME OwnerInv, [Next]_vars
  PROVE  OneRequestPerId'
  <1> SUFFICES ASSUME ExclusiveCreate, NEW c \in InFlight', NEW d \in InFlight', sid'[d] = sid'[c]
               PROVE  sessions'[sid'[c]] = NoSession /\ d = c
    BY DEF OneRequestPerId
  <1> USE DEF requestVars, limiterVars, timerVars, objectVars
  <1>0. /\ MapInv /\ TypeOK /\ SpawnSlots
        /\ c \in Calls /\ d \in Calls
        /\ \A e \in InFlight : /\ sessions[sid[e]] = NoSession
                             /\ \A f \in InFlight : sid[f] = sid[e] => f = e
    BY DEF OwnerInv, MapInv, OneRequestPerId, InFlight
  <1>1. ASSUME InFlight' \subseteq InFlight, sid' = sid,
               \A i \in SessionIds : sessions[i] = NoSession => sessions'[i] = NoSession
        PROVE  sessions'[sid'[c]] = NoSession /\ d = c
    BY <1>0, <1>1 DEF TypeOK
  <1>2. ASSUME NEW D \in SUBSET Calls, Removed(D), pc' = pc
        PROVE  sessions'[sid'[c]] = NoSession /\ d = c
    BY <1>0, <1>1, <1>2, CallsAssumption DEF Removed, InFlight
  <1>3. ASSUME NEW r \in Calls, Create(r)
        PROVE  sessions'[sid'[c]] = NoSession /\ d = c
    <2>1. /\ InFlight' \subseteq InFlight \cup {r}
          /\ sid' = sid
          /\ \A e \in InFlight : sid[e] # sid[r]
          /\ sessions' = [sessions EXCEPT ![sid[r]] = NoSession]
      BY <1>0, <1>3 DEF Create, MayCall, InFlight, TypeOK
    <2> QED
      BY <1>0, <2>1 DEF TypeOK
  <1>4. ASSUME NEW r \in Calls, Attach(r) \/ RejectIncompatible(r)
        PROVE  sessions'[sid'[c]] = NoSession /\ d = c
    <2>1. InFlight' \subseteq InFlight /\ UNCHANGED <<sid, sessions>>
      BY <1>0, <1>4 DEF Attach, RejectIncompatible, InFlight, TypeOK
    <2> QED
      BY <1>1, <2>1
  <1>5. ASSUME NEW r \in Calls, Spawn(r)
        PROVE  sessions'[sid'[c]] = NoSession /\ d = c
    <2>1. InFlight' \subseteq InFlight /\ UNCHANGED <<sid, sessions>>
      BY <1>0, <1>5 DEF Spawn, InFlight, TypeOK
    <2> QED
      BY <1>1, <2>1
  <1>6. ASSUME NEW r \in Calls, SpawnThrows(r)
        PROVE  sessions'[sid'[c]] = NoSession /\ d = c
    <2>1. InFlight' \subseteq InFlight /\ UNCHANGED <<sid, sessions>>
      BY <1>0, <1>6, ReleasePc DEF SpawnThrows, InFlight
    <2> QED
      BY <1>1, <2>1
  <1>7. ASSUME NEW r \in Calls, FinishSpawn(r)
        PROVE  sessions'[sid'[c]] = NoSession /\ d = c
    <2>1. /\ InFlight' \subseteq InFlight \ {r}
          /\ r \in InFlight
          /\ sid' = sid
      BY <1>0, <1>7, ReleasePc DEF FinishSpawn, InFlight
    <2>2. sessions' = sessions \/ sessions' = [sessions EXCEPT ![sid[r]] = r]
      BY <1>7 DEF FinishSpawn
    <2>3. sid[c] # sid[r]
      BY <1>0, <2>1
    <2> QED
      BY <1>0, <2>1, <2>2, <2>3 DEF TypeOK
  <1>8. ASSUME UNCHANGED <<pc, sid, sessions>>
        PROVE  sessions'[sid'[c]] = NoSession /\ d = c
    BY <1>1, <1>8 DEF InFlight
  <1>9. ASSUME NEW r \in Calls, Subprocess(r)
        PROVE  sessions'[sid'[c]] = NoSession /\ d = c
    BY <1>8, <1>9 DEF Subprocess, SpawnedFrame, ExitFrame, ProcessExit
  <1>10. ASSUME NEW i \in SessionIds, Kill(i) \/ Timeout(i)
         PROVE  sessions'[sid'[c]] = NoSession /\ d = c
    <2>1. CASE Kill(i)
      BY <1>8, <2>1 DEF Kill, KillIds
    <2>2. CASE KillTimeout(i)
      BY <1>0, <1>2, <2>2, KillTimeoutRemoves DEF KillTimeout
    <2>3. CASE CleanupTimeout(i)
      BY <1>0, <1>2, <2>3, CleanupTimeoutRemoves DEF CleanupTimeout
    <2> QED
      BY <1>10, <2>1, <2>2, <2>3 DEF Timeout
  <1>11. ASSUME NEW s \in Sockets, NEW I \in SUBSET SessionIds, DetachFrom(s, I),
                \A j \in I : Mapped(j)
         PROVE  sessions'[sid'[c]] = NoSession /\ d = c
    BY <1>0, <1>2, <1>11, DetachRemoves DEF DetachFrom
  <1>12. ASSUME NEW s \in Sockets, NEW i \in SessionIds, Detach(s, i)
         PROVE  sessions'[sid'[c]] = NoSession /\ d = c
    BY <1>11, <1>12 DEF Detach
  <1>13. ASSUME NEW s \in Sockets, Disconnect(s)
         PROVE  sessions'[sid'[c]] = NoSession /\ d = c
    BY <1>11, <1>13 DEF Disconnect
  <1>14. CASE HostDispose
    BY <1>1, <1>14 DEF HostDispose, InFlight
  <1>15. CASE KillAll \/ UNCHANGED vars
    BY <1>8, <1>15 DEF KillAll, KillIds, vars
  <1> QED
    BY <1>3, <1>4, <1>5, <1>6, <1>7, <1>9, <1>10, <1>12, <1>13, <1>14, <1>15
    DEF Next, Request

LEMMA OrphanNext ==
  ASSUME OwnerInv, [Next]_vars
  PROVE  NoOrphan'
  <1> SUFFICES ASSUME ExclusiveCreate, NEW c \in Spawned'
               PROVE  pc'[c] = "spawning" \/ sessions'[sid'[c]] = c
    BY DEF NoOrphan
  <1> DEFINE Owned == pc'[c] = "spawning" \/ sessions'[sid'[c]] = c
  <1> USE DEF requestVars, limiterVars, timerVars, objectVars
  <1>0. /\ MapInv /\ TypeOK /\ SpawnSlots
        /\ c \in Calls
        /\ \A e \in InFlight : sessions[sid[e]] = NoSession
        /\ \A e \in Spawned : pc[e] = "spawning" \/ sessions[sid[e]] = e
    BY DEF OwnerInv, MapInv, OneRequestPerId, NoOrphan, Spawned
  <1>1. ASSUME UNCHANGED <<sid, sessions>>, c \in Spawned,
               pc[c] = "spawning" => pc'[c] = "spawning"
        PROVE  Owned
    BY <1>0, <1>1
  <1>2. ASSUME NEW D \in SUBSET Calls, Removed(D), pc[c] = "spawning" => pc'[c] = "spawning"
        PROVE  Owned
    <2>1. c \in Spawned \ D
      BY <1>0, <1>2 DEF Removed, Spawned
    <2> QED
      BY <1>0, <1>2, <2>1 DEF Removed, TypeOK
  <1>3. ASSUME NEW r \in Calls, Create(r) PROVE Owned
    <2>1. pc[c] = "spawning" => pc'[c] = "spawning"
      BY <1>0, <1>3 DEF Create, MayCall, TypeOK
    <2>2. PICK D \in SUBSET Calls : Removed(D)
      BY <1>0, <1>3, CreateRemoves
    <2> QED
      BY <1>2, <2>1, <2>2
  <1>4. ASSUME NEW r \in Calls, Attach(r) \/ RejectIncompatible(r) PROVE Owned
    BY <1>0, <1>1, <1>4 DEF Attach, RejectIncompatible, MayCall, Spawned, TypeOK
  <1>5. ASSUME NEW r \in Calls, Spawn(r) PROVE Owned
    BY <1>0, <1>5 DEF Spawn, Spawned, TypeOK
  <1>6. ASSUME NEW r \in Calls, SpawnThrows(r) PROVE Owned
    <2>1. pc[c] = "spawning" => pc'[c] = "spawning"
      BY <1>0, <1>6, ReleasePc DEF SpawnThrows
    <2> QED
      BY <1>1, <1>6, <2>1 DEF SpawnThrows, Spawned
  <1>7. ASSUME NEW r \in Calls, FinishSpawn(r) PROVE Owned
    <2>1. /\ pc[r] = "spawning" /\ r \in InFlight
          /\ c # r /\ pc[c] = "spawning" => pc'[c] = "spawning"
          /\ sid' = sid
      BY <1>0, <1>7, ReleasePc DEF FinishSpawn, InFlight
    <2>2. CASE isAlive(r)
      <3>1. sessions' = [sessions EXCEPT ![sid[r]] = r] /\ c \in Spawned
        BY <1>7, <2>2 DEF FinishSpawn, Spawned
      <3>2. sessions[sid[r]] = NoSession
        BY <1>0, <2>1
      <3> QED
        BY <1>0, <2>1, <3>1, <3>2, CallsAssumption DEF TypeOK
    <2>3. CASE ~isAlive(r)
      <3>1. sessions' = sessions /\ c \in Spawned /\ c # r
        BY <1>0, <1>7, <2>3 DEF FinishSpawn, Dispose, Spawned
      <3> QED
        BY <1>1, <2>1, <3>1
    <2> QED
      BY <2>2, <2>3
  <1>8. ASSUME NEW r \in Calls, Subprocess(r) PROVE Owned
    <2>1. c \in Spawned
      BY <1>0, <1>8 DEF Subprocess, SpawnedFrame, ExitFrame, ProcessExit, Spawned, TypeOK
    <2> QED
      BY <1>1, <1>8, <2>1 DEF Subprocess, SpawnedFrame, ExitFrame, ProcessExit
  <1>9. ASSUME UNCHANGED <<pc, sid, sessions, proc>> PROVE Owned
    BY <1>1, <1>9 DEF Spawned
  <1>10. ASSUME NEW i \in SessionIds, Kill(i) \/ Timeout(i) PROVE Owned
    <2>1. CASE Kill(i)
      BY <1>9, <2>1 DEF Kill, KillIds
    <2>2. CASE KillTimeout(i)
      BY <1>0, <1>2, <2>2, KillTimeoutRemoves DEF KillTimeout
    <2>3. CASE CleanupTimeout(i)
      BY <1>0, <1>2, <2>3, CleanupTimeoutRemoves DEF CleanupTimeout
    <2> QED
      BY <1>10, <2>1, <2>2, <2>3 DEF Timeout
  <1>11. ASSUME NEW s \in Sockets, NEW I \in SUBSET SessionIds, DetachFrom(s, I),
                \A j \in I : Mapped(j)
         PROVE  Owned
    BY <1>0, <1>2, <1>11, DetachRemoves DEF DetachFrom
  <1>12. ASSUME NEW s \in Sockets, NEW i \in SessionIds, Detach(s, i) PROVE Owned
    BY <1>11, <1>12 DEF Detach
  <1>13. ASSUME NEW s \in Sockets, Disconnect(s) PROVE Owned
    BY <1>11, <1>13 DEF Disconnect
  <1>14. CASE HostDispose
    <2>1. c \in Spawned /\ c \notin {sessions[i] : i \in SessionIds}
      BY <1>0, <1>14, CallsAssumption DEF HostDispose, Dispose, Spawned
    <2>2. pc[c] = "spawning" /\ pc' = pc
      BY <1>0, <1>14, <2>1 DEF HostDispose, TypeOK
    <2> QED
      BY <2>2
  <1>15. CASE KillAll \/ UNCHANGED vars
    BY <1>9, <1>15 DEF KillAll, KillIds, vars
  <1> QED
    BY <1>3, <1>4, <1>5, <1>6, <1>7, <1>8, <1>10, <1>12, <1>13, <1>14, <1>15
    DEF Next, Request

LEMMA OwnerInit == Init => OwnerInv
  BY TypeInit, SlotsInit, MapInit DEF OwnerInv, MapInv

LEMMA OwnerNext == OwnerInv /\ [Next]_vars => OwnerInv'
  BY MapNext, FlightNext, OrphanNext DEF OwnerInv

(* No subprocess is lost: while clients keep one request per id in flight, *)
(* every live one is inside its createOrAttach or reachable by its id.     *)
THEOREM SubprocessesOwned == Spec => []NoOrphan
  <1>1. OwnerInv => NoOrphan
    BY DEF OwnerInv
  <1> QED
    BY <1>1, OwnerInit, OwnerNext, PTL DEF Spec

(* What every step keeps: the body of LiveSessionsKept. *)
LEMMA LiveEntryKept ==
  ASSUME ExclusiveCreate, OwnerInv, [Next]_vars, NEW i \in SessionIds,
         Mapped(i), isAlive(sessions[i]), ~isTerminating(sessions[i])
  PROVE  sessions'[i] = sessions[i] \/ stage' # stage
  <1> USE DEF requestVars, limiterVars, timerVars, objectVars
  <1>0. MapInv /\ TypeOK /\ \A e \in InFlight : sessions[sid[e]] = NoSession
    BY DEF OwnerInv, MapInv, OneRequestPerId
  <1>1. ASSUME NEW r \in Calls, Request(r) PROVE sessions'[i] = sessions[i]
    <2>1. CASE Create(r)
      BY <1>0, <2>1 DEF Create, Mapped, TypeOK
    <2>2. CASE FinishSpawn(r)
      <3>1. r \in InFlight /\ (sessions' = sessions \/ sessions' = [sessions EXCEPT ![sid[r]] = r])
        BY <2>2 DEF FinishSpawn, InFlight
      <3> QED
        BY <1>0, <3>1 DEF Mapped, TypeOK
    <2>3. CASE Attach(r) \/ RejectIncompatible(r) \/ Spawn(r) \/ SpawnThrows(r)
      BY <2>3 DEF Attach, RejectIncompatible, Spawn, SpawnThrows
    <2> QED
      BY <1>1, <2>1, <2>2, <2>3 DEF Request
  <1>2. ASSUME NEW r \in Calls, Subprocess(r) PROVE sessions'[i] = sessions[i]
    BY <1>2 DEF Subprocess, SpawnedFrame, ExitFrame, ProcessExit
  <1>3. ASSUME NEW j \in SessionIds, Kill(j) \/ Timeout(j) PROVE sessions'[i] = sessions[i]
    <2>1. CASE Kill(j)
      BY <2>1 DEF Kill, KillIds
    <2>2. CASE KillTimeout(j)
      BY <1>0, <2>2 DEF KillTimeout, TypeOK
    <2>3. CASE CleanupTimeout(j)
      BY <1>0, <2>3 DEF CleanupTimeout, TypeOK
    <2> QED
      BY <1>3, <2>1, <2>2, <2>3 DEF Timeout
  <1>4. ASSUME NEW s \in Sockets, NEW I \in SUBSET SessionIds, DetachFrom(s, I)
        PROVE  sessions'[i] = sessions[i]
    BY <1>4 DEF DetachFrom
  <1>5. ASSUME NEW s \in Sockets, Disconnect(s) \/ \E j \in SessionIds : Detach(s, j)
        PROVE  sessions'[i] = sessions[i]
    BY <1>4, <1>5 DEF Disconnect, Detach
  <1>6. CASE KillAll \/ UNCHANGED vars
    BY <1>6 DEF KillAll, KillIds, vars
  <1>7. CASE HostDispose
    BY <1>7 DEF HostDispose
  <1> QED
    BY <1>1, <1>2, <1>3, <1>5, <1>6, <1>7 DEF Next

(* A session that lives and is not being killed stays where clients find   *)
(* it until the daemon shuts down.                                         *)
THEOREM LiveSessionsStay == ASSUME ExclusiveCreate PROVE Spec => LiveSessionsKept
  <1>1. ASSUME OwnerInv, [Next]_vars
        PROVE  [\A i \in SessionIds :
                  LET s == sessions[i] IN
                  Mapped(i) /\ isAlive(s) /\ ~isTerminating(s) =>
                    sessions'[i] = s \/ stage' # stage]_vars
    BY <1>1, LiveEntryKept
  <1> QED
    BY <1>1, OwnerInit, OwnerNext, PTL DEF Spec, LiveSessionsKept

=============================================================================
