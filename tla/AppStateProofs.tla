--------------------------- MODULE AppStateProofs ---------------------------
(***************************************************************************)
(* Proofs about AppState, for any number of mutations, peers, crashes and  *)
(* link attempts: the types, that the coordinator implements AppStateStore,*)
(* and that the promotion loses neither a peer's snapshot nor the state    *)
(* callers see.                                                            *)
(***************************************************************************)
EXTENDS AppState, TLAPS

USE DEF Ops

(* A non-empty sequence taken apart, and what is known of the parts. *)
LEMMA TailFacts ==
    ASSUME NEW S, NEW s \in Seq(S), s # <<>>
    PROVE  /\ Head(s) \in S /\ Tail(s) \in Seq(S)
           /\ Len(s) \in Nat /\ Len(s) > 0
           /\ Head(s) = s[1]
           /\ Len(Tail(s)) = Len(s) - 1
           /\ \A i \in 1..Len(Tail(s)) : Tail(s)[i] = s[i + 1]
OBVIOUS

(* The last element is an element. *)
LEMMA LastFacts ==
    ASSUME NEW S, NEW s \in Seq(S), s # <<>>
    PROVE  Last(s) \in S /\ Last(s) \in ToSet(s) /\ Last(s) = s[Len(s)]
BY DEF Last, ToSet

(* Its elements are in the set a sequence is over. *)
LEMMA ElementFacts ==
    ASSUME NEW S, NEW s \in Seq(S)
    PROVE  Len(s) \in Nat /\ \A i \in 1..Len(s) : s[i] \in S
OBVIOUS

(* So is the set of its elements within it. *)
LEMMA ToSetFacts ==
    ASSUME NEW S, NEW s \in Seq(S)
    PROVE  ToSet(s) \subseteq S
BY DEF ToSet

(* Appending adds one element. *)
LEMMA AppendFacts ==
    ASSUME NEW S, NEW s \in Seq(S), NEW e \in S
    PROVE  /\ Append(s, e) \in Seq(S)
           /\ Len(Append(s, e)) = Len(s) + 1
           /\ Append(s, e) # <<>>
           /\ \A i \in 1..Len(s) : Append(s, e)[i] = s[i]
           /\ Append(s, e)[Len(s) + 1] = e
           /\ ToSet(Append(s, e)) = ToSet(s) \cup {e}
BY DEF ToSet

(* The empty sequence has no elements. *)
LEMMA EmptyToSet == ToSet(<<>>) = {}
BY DEF ToSet

(* Snapshots are what their constructors make. *)
LEMMA SnapshotFacts ==
    /\ \A l \in Seq(Ops) : Local(l) \in Snapshot
    /\ Local(<<>>) \in Snapshot /\ Local(<<>>) # None
    /\ \A k \in 1..MaxPeers : Peer(k) \in Snapshot /\ Peer(k) # None
    /\ \A s \in Snapshot : s.log \in Seq(Ops) /\ s.dev \in 0..MaxPeers /\ s # None
<1>1. \A l \in Seq(Ops) : Local(l) \in Snapshot
  BY BoundAssumption DEF Snapshot, Local
<1>0. Local(<<>>) \in Snapshot
  <2>1. <<>> \in Seq(Ops)
    OBVIOUS
  <2> QED  BY <1>1, <2>1
<1>2. \A k \in 1..MaxPeers : Peer(k) \in Snapshot
  <2> TAKE k \in 1..MaxPeers
  <2>1. k \in 0..MaxPeers /\ <<>> \in Seq(Ops)
    BY BoundAssumption
  <2> QED  BY <2>1 DEF Snapshot, Peer
<1>3. \A s \in Snapshot : s.log \in Seq(Ops) /\ s.dev \in 0..MaxPeers
  BY DEF Snapshot
<1>4. \A s \in Snapshot : s # None
  BY NoneAssumption
<1> QED  BY <1>0, <1>1, <1>2, <1>3, <1>4

-----------------------------------------------------------------------------
(* Types. *)

(* Restoring a displaced snapshot keeps the disk well typed. *)
LEMMA RestoreType ==
    ASSUME TypeOK, NEW s \in Snapshot, Restore(s)
    PROVE  target' \in Snapshot \cup {None} /\ kept' \subseteq Snapshot
BY DEF TypeOK, Restore

(* An operation that ends leaves calls and work well typed. *)
LEMMA AnswerType ==
    ASSUME TypeOK, tail # <<>>,
           NEW a \in {"committed", "stale", "failed"}, Answer(a)
    PROVE  /\ answer' \in [Ops -> {"none", "pending", "committed", "stale",
                                   "failed", "lost"}]
           /\ tail' \in Seq(Ops)
           /\ wanted' \in [Ops -> Nat \cup {Unconditional}]
<1>1. Head(tail) \in Ops /\ Tail(tail) \in Seq(Ops)
  BY TailFacts DEF TypeOK
<1>2. answer' = [answer EXCEPT ![Head(tail)] = a] /\ tail' = Tail(tail) /\ wanted' = wanted
  BY DEF Answer
<1> QED  BY <1>1, <1>2 DEF TypeOK

(* While an operation runs, it is at the head of the tail, and its draft   *)
(* is the committed state with that operation applied.                     *)
Running == phase \notin {"idle", "down"}

Serial ==
    /\ Running => /\ tail # <<>>
                  /\ draft = Append(committed, Head(tail))
                  /\ wanted[Head(tail)] \in {Unconditional, revision}
    /\ phase = "down" => tail = <<>>

(* The tail holds the pending operations, oldest first, and operations are *)
(* asked for in the order of their numbers.                                *)
Ordered ==
    /\ \A i, j \in 1..Len(tail) : i < j => tail[i] < tail[j]
    /\ \A op \in Ops : answer[op] = "pending" => \E i \in 1..Len(tail) : tail[i] = op
    /\ \A i \in 1..Len(tail) : answer[tail[i]] = "pending"
    /\ \A o, op \in Ops : o < op /\ answer[op] # "none" => answer[o] # "none"

(* Everything displaced has been captured, but for the last while it is    *)
(* being captured.                                                         *)
Captures ==
    /\ phase = "capturing" => displaced # <<>>
    /\ \A i \in 1..Len(displaced) :
          displaced[i] \in captured \/ (phase = "capturing" /\ i = Len(displaced))

CallInv == TypeOK /\ Serial /\ Ordered

(* The initial state satisfies them all. *)
LEMMA InitInv == Init => CallInv /\ Captures /\ PeerSnapshotsKept /\ TargetPresent
<1> SUFFICES ASSUME Init PROVE CallInv /\ Captures /\ PeerSnapshotsKept /\ TargetPresent
  OBVIOUS
<1>0. Local(<<>>) \in Snapshot /\ Local(<<>>) # None
  BY SnapshotFacts
<1>1. TypeOK
  <2>1. wanted \in [Ops -> Nat \cup {Unconditional}]
    BY DEF Init
  <2>2. answer \in [Ops -> {"none", "pending", "committed", "stale", "failed", "lost"}]
    BY DEF Init
  <2>3. target \in Snapshot \cup {None} /\ kept \subseteq Snapshot
    BY <1>0 DEF Init
  <2>4. committed \in Seq(Ops) /\ draft \in Seq(Ops) /\ tail \in Seq(Ops)
    BY DEF Init
  <2>5. displaced \in Seq(Snapshot) /\ captured \subseteq Snapshot /\ replaced \subseteq Snapshot
    BY DEF Init
  <2>6. revision \in Nat /\ attempt \in 0..MaxAttempts /\ peers \in 0..MaxPeers
        /\ crashes \in 0..MaxCrashes
    BY BoundAssumption DEF Init
  <2> QED  BY <2>1, <2>2, <2>3, <2>4, <2>5, <2>6 DEF TypeOK, Init
<1>2. Serial /\ Ordered
  BY DEF Init, Serial, Ordered, Running
<1>3. Captures /\ PeerSnapshotsKept
  BY BoundAssumption DEF Init, Captures, PeerSnapshotsKept
<1>4. TargetPresent
  BY <1>0 DEF Init, TargetPresent
<1> QED  BY <1>1, <1>2, <1>3, <1>4 DEF CallInv

(* Every step keeps the types. *)
LEMMA TypeStep == CallInv /\ Captures /\ [Next]_vars => TypeOK'
<1> SUFFICES ASSUME CallInv, Captures, [Next]_vars PROVE TypeOK'
  OBVIOUS
<1> USE BoundAssumption
<1>0. TypeOK /\ (Running => tail # <<>>)
  BY DEF CallInv, Serial
<1>1. ASSUME NEW op \in Ops, NEW e \in {Unconditional} \cup 0..revision, Enqueue(op, e)
      PROVE  TypeOK'
  <2>1. tail' \in Seq(Ops)
    BY <1>0, <1>1 DEF Enqueue, TypeOK
  <2>2. answer' \in [Ops -> {"none", "pending", "committed", "stale", "failed", "lost"}]
    BY <1>0, <1>1 DEF Enqueue, TypeOK
  <2>3. wanted' \in [Ops -> Nat \cup {Unconditional}]
    BY <1>0, <1>1 DEF Enqueue, TypeOK
  <2> QED
    BY <1>0, <1>1, <2>1, <2>2, <2>3
    DEF Enqueue, TypeOK, stateVars, workVars, diskVars, peerVars
<1>2. CASE Begin
  <2>1. Head(tail) \in Ops
    BY <1>0, <1>2, TailFacts DEF Begin, TypeOK
  <2>2. CASE wanted[Head(tail)] \notin {Unconditional, revision}
    <3>1. Answer("stale") /\ UNCHANGED <<phase, draft>>
      BY <1>2, <2>2 DEF Begin
    <3> QED
      BY <1>0, <1>2, <3>1, AnswerType DEF Begin, TypeOK, stateVars, diskVars, peerVars
  <2>3. CASE wanted[Head(tail)] \in {Unconditional, revision}
    <3>1. phase' = "mutating" /\ draft' = Append(committed, Head(tail))
          /\ UNCHANGED <<callVars, displaced, attempt, stateVars, diskVars, captured,
                         peerVars, crashes>>
      BY <1>2, <2>3 DEF Begin
    <3>2. draft' \in Seq(Ops)
      BY <1>0, <2>1, <3>1 DEF TypeOK
    <3> QED
      BY <1>0, <3>1, <3>2
      DEF TypeOK, callVars, stateVars, diskVars, peerVars
  <2> QED  BY <2>2, <2>3
<1>3. CASE MutateFails \/ DisplaceFails \/ LinkGivesUp
  <2>1. tail # <<>> /\ Answer("failed") /\ Finish
    BY <1>0, <1>3 DEF MutateFails, DisplaceFails, LinkGivesUp, Running
  <2>2. UNCHANGED <<stateVars, diskVars, captured, peerVars, crashes>>
    BY <1>3 DEF MutateFails, DisplaceFails, LinkGivesUp
  <2> QED
    BY <1>0, <2>1, <2>2, AnswerType DEF Finish, TypeOK, stateVars, diskVars, peerVars
<1>4. CASE WriteTemporary
  BY <1>0, <1>4 DEF WriteTemporary, TypeOK, callVars, stateVars, diskVars, peerVars
<1>5. CASE Displace
  <2>1. displaced' \in Seq(Snapshot) /\ phase' \in {"linking", "capturing"}
    <3>1. CASE target = None
      BY <1>0, <1>5, <3>1 DEF Displace, TypeOK
    <3>2. CASE target # None
      <4>1. target \in Snapshot /\ displaced \in Seq(Snapshot)
        BY <1>0, <3>2 DEF TypeOK
      <4>2. phase' = "capturing" /\ displaced' = Append(displaced, target)
        BY <1>5, <3>2 DEF Displace
      <4> QED  BY <4>1, <4>2
    <3> QED  BY <3>1, <3>2
  <2>2. target' = None
        /\ UNCHANGED <<callVars, draft, attempt, stateVars, kept, captured, peerVars, crashes>>
    BY <1>5 DEF Displace
  <2> QED
    BY <1>0, <2>1, <2>2 DEF TypeOK, callVars, stateVars, peerVars
<1>6. CASE Capture
  <2>1. Last(displaced) \in Snapshot
    BY <1>0, <1>6, LastFacts DEF Capture, TypeOK, Captures
  <2> QED
    BY <1>0, <1>6, <2>1
    DEF Capture, TypeOK, callVars, stateVars, diskVars, peerVars
<1>7. CASE CaptureFails
  <2>1. Last(displaced) \in Snapshot
    BY <1>0, <1>7, LastFacts DEF CaptureFails, TypeOK, Captures
  <2>2. target' \in Snapshot \cup {None} /\ kept' \subseteq Snapshot
    BY <1>0, <1>7, <2>1, RestoreType DEF CaptureFails
  <2>3. tail # <<>>
    BY <1>0, <1>7 DEF CaptureFails, Running
  <2> QED
    BY <1>0, <1>7, <2>2, <2>3, AnswerType DEF CaptureFails, Finish, TypeOK, stateVars, peerVars
<1>8. CASE Link
  <2>1. target' \in Snapshot
    BY <1>0, <1>8, SnapshotFacts DEF Link, TypeOK
  <2> QED
    BY <1>0, <1>8, <2>1 DEF Link, TypeOK, callVars, stateVars, peerVars
<1>9. CASE LinkAgain
  BY <1>0, <1>9 DEF LinkAgain, TypeOK, callVars, stateVars, diskVars, peerVars
<1>10. CASE LinkFails
  <2>1. target' \in Snapshot \cup {None} /\ kept' \subseteq Snapshot
    <3>1. CASE displaced = <<>>
      BY <1>0, <1>10, <3>1 DEF LinkFails, TypeOK, diskVars
    <3>2. CASE displaced # <<>>
      BY <1>0, <1>10, <3>2, LastFacts, RestoreType DEF LinkFails, TypeOK
    <3> QED  BY <3>1, <3>2
  <2>2. tail # <<>> /\ Answer("failed") /\ Finish
        /\ UNCHANGED <<stateVars, captured, peerVars, crashes>>
    BY <1>0, <1>10 DEF LinkFails, Running
  <2> QED
    BY <1>0, <2>1, <2>2, AnswerType DEF Finish, TypeOK, stateVars, peerVars
<1>11. CASE Commit \/ CleanupFails
  <2>1. tail # <<>>
    BY <1>0, <1>11 DEF Commit, CleanupFails, Running
  <2>2. CASE Commit
    BY <1>0, <2>1, <2>2, AnswerType DEF Commit, Finish, TypeOK, diskVars, peerVars
  <2>3. CASE CleanupFails
    BY <1>0, <2>1, <2>3, AnswerType
    DEF CleanupFails, Finish, TypeOK, stateVars, diskVars, peerVars
  <2> QED  BY <1>11, <2>2, <2>3
<1>12. CASE PeerWrites
  <2>1. target' \in Snapshot
    BY <1>0, <1>12, SnapshotFacts DEF PeerWrites, TypeOK
  <2>2. replaced' \subseteq Snapshot
    BY <1>0, <1>12 DEF PeerWrites, TypeOK
  <2> QED
    BY <1>0, <1>12, <2>1, <2>2 DEF PeerWrites, TypeOK, callVars, stateVars, workVars
<1>13. CASE Crash
  <2>1. kept' \subseteq Snapshot
    BY <1>0, <1>13, ToSetFacts DEF Crash, TypeOK
  <2>2. answer' \in [Ops -> {"none", "pending", "committed", "stale", "failed", "lost"}]
    BY <1>0, <1>13 DEF Crash, TypeOK
  <2> QED
    BY <1>0, <1>13, <2>1, <2>2 DEF Crash, TypeOK, stateVars, peerVars
<1>14. CASE Restart
  <2>1. target' \in Snapshot
    <3>1. CASE target = None
      BY <1>14, <3>1, SnapshotFacts DEF Restart
    <3>2. CASE target # None
      BY <1>0, <1>14, <3>2 DEF Restart, TypeOK
    <3> QED  BY <3>1, <3>2
  <2>2. committed' \in Seq(Ops)
    BY <1>14, <2>1, SnapshotFacts DEF Restart
  <2>3. peers' \in 0..MaxPeers
    BY <1>0, <1>14 DEF Restart, TypeOK
  <2>4. captured' \subseteq Snapshot
    <3>1. \A k \in peers + 1..peers' : k \in 1..MaxPeers
      BY <1>0, <2>3, BoundAssumption DEF TypeOK
    <3>2. {Peer(k) : k \in peers + 1..peers'} \subseteq Snapshot
      BY <3>1, SnapshotFacts
    <3> QED  BY <1>0, <1>14, <3>2 DEF Restart, TypeOK
  <2> QED
    BY <1>0, <1>14, <2>1, <2>2, <2>3, <2>4 DEF Restart, TypeOK, callVars
<1>15. CASE RestartFails
  BY <1>0, <1>15, SnapshotFacts
  DEF RestartFails, TypeOK, callVars, stateVars, workVars, peerVars
<1>16. CASE UNCHANGED vars
  BY <1>0, <1>16 DEF TypeOK, vars, callVars, stateVars, workVars, diskVars, peerVars
<1> QED
  BY <1>1, <1>2, <1>3, <1>4, <1>5, <1>6, <1>7, <1>8, <1>9, <1>10, <1>11, <1>12,
     <1>13, <1>14, <1>15, <1>16
  DEF Next, Promote, Fail

-----------------------------------------------------------------------------
(* The coordinator's queue. *)

(* An operation that ends takes the oldest pending one off the tail. *)
LEMMA AnswerOrdered ==
    ASSUME TypeOK, Ordered, tail # <<>>,
           NEW a \in {"committed", "stale", "failed"}, Answer(a)
    PROVE  Ordered'
<1>1. /\ Head(tail) \in Ops /\ Tail(tail) \in Seq(Ops) /\ Head(tail) = tail[1]
      /\ Len(tail) \in Nat /\ Len(tail) > 0 /\ Len(Tail(tail)) = Len(tail) - 1
      /\ \A i \in 1..Len(Tail(tail)) : Tail(tail)[i] = tail[i + 1]
  BY TailFacts DEF TypeOK
<1>2. \A i \in 1..Len(tail) : tail[i] \in Ops
  <2>1. tail \in Seq(Ops)
    BY DEF TypeOK
  <2> QED  BY <2>1, ElementFacts
<1>3. tail' = Tail(tail) /\ answer' = [answer EXCEPT ![Head(tail)] = a]
  BY DEF Answer
<1>4. \A op \in Ops : answer'[op] = IF op = tail[1] THEN a ELSE answer[op]
  BY <1>1, <1>3 DEF TypeOK
<1>5. \A i \in 1..Len(tail') : tail'[i] = tail[i + 1] /\ i + 1 \in 1..Len(tail)
  BY <1>1, <1>3
<1>6. \A i, j \in 1..Len(tail') : i < j => tail'[i] < tail'[j]
  BY <1>1, <1>5 DEF Ordered
<1>7. ASSUME NEW op \in Ops, answer'[op] = "pending"
      PROVE  \E i \in 1..Len(tail') : tail'[i] = op
  <2>1. op # tail[1] /\ answer[op] = "pending"
    BY <1>4, <1>7
  <2>2. PICK i \in 1..Len(tail) : tail[i] = op
    BY <2>1 DEF Ordered
  <2>3. i - 1 \in 1..Len(tail') /\ tail'[i - 1] = op
    BY <1>1, <1>3, <2>1, <2>2
  <2> QED  BY <2>3
<1>8. \A i \in 1..Len(tail') : answer'[tail'[i]] = "pending"
  <2> TAKE i \in 1..Len(tail')
  <2>1. tail'[i] = tail[i + 1] /\ i + 1 \in 1..Len(tail) /\ 1 \in 1..Len(tail) /\ 1 < i + 1
    BY <1>1, <1>5
  <2>2. tail[1] < tail[i + 1] /\ tail[i + 1] \in Ops /\ tail[1] \in Ops
    BY <1>2, <2>1 DEF Ordered
  <2>3. tail[i + 1] # tail[1]
    BY <2>2
  <2> QED  BY <1>4, <2>1, <2>2, <2>3 DEF Ordered
<1>9. \A o, op \in Ops : o < op /\ answer'[op] # "none" => answer'[o] # "none"
  <2>1. \A op \in Ops : answer'[op] # "none" <=> answer[op] # "none"
    <3>1. answer[tail[1]] = "pending"
      BY <1>1 DEF Ordered
    <3> QED  BY <1>4, <3>1
  <2> QED  BY <2>1 DEF Ordered
<1> QED  BY <1>6, <1>7, <1>8, <1>9 DEF Ordered

(* A request joins the tail behind all the older ones. *)
LEMMA EnqueueStep ==
    ASSUME CallInv, NEW op \in Ops, NEW e \in {Unconditional} \cup 0..revision, Enqueue(op, e)
    PROVE  Serial' /\ Ordered'
<1>0. TypeOK /\ Ordered /\ Serial
  BY DEF CallInv
<1>1. /\ Up /\ answer[op] = "none" /\ \A o \in Ops : o < op => answer[o] # "none"
      /\ tail' = Append(tail, op) /\ answer' = [answer EXCEPT ![op] = "pending"]
      /\ wanted' = [wanted EXCEPT ![op] = e]
      /\ phase' = phase /\ draft' = draft /\ committed' = committed /\ revision' = revision
  BY DEF Enqueue, workVars, stateVars
<1>2. /\ Len(tail) \in Nat /\ Len(tail') = Len(tail) + 1
      /\ \A i \in 1..Len(tail) : tail'[i] = tail[i] /\ tail[i] \in Ops
      /\ tail'[Len(tail) + 1] = op
  <2>1. tail \in Seq(Ops)
    BY <1>0 DEF TypeOK
  <2>2. Len(tail) \in Nat /\ \A i \in 1..Len(tail) : tail[i] \in Ops
    BY <2>1, ElementFacts
  <2>3. /\ Len(Append(tail, op)) = Len(tail) + 1
        /\ \A i \in 1..Len(tail) : Append(tail, op)[i] = tail[i]
        /\ Append(tail, op)[Len(tail) + 1] = op
    BY <2>1, AppendFacts
  <2> QED  BY <1>1, <2>2, <2>3
<1>3. \A o \in Ops : answer'[o] = IF o = op THEN "pending" ELSE answer[o]
  BY <1>0, <1>1 DEF TypeOK
<1>4. \A i \in 1..Len(tail) : tail[i] < op
  <2> TAKE i \in 1..Len(tail)
  <2>1. tail[i] \in Ops /\ answer[tail[i]] = "pending"
    BY <1>0, <1>2 DEF Ordered
  <2>2. tail[i] # op /\ ~ (op < tail[i])
    BY <1>0, <1>1, <2>1 DEF Ordered
  <2> QED  BY <2>1, <2>2, BoundAssumption
<1>5. \A i, j \in 1..Len(tail') : i < j => tail'[i] < tail'[j]
  <2> TAKE i, j \in 1..Len(tail')
  <2> HAVE i < j
  <2>1. i \in 1..Len(tail)
    BY <1>2
  <2>2. CASE j = Len(tail) + 1
    BY <1>2, <1>4, <2>1, <2>2
  <2>3. CASE j # Len(tail) + 1
    <3>1. j \in 1..Len(tail)
      BY <1>2, <2>3
    <3> QED  BY <1>0, <1>2, <2>1, <3>1 DEF Ordered
  <2> QED  BY <2>2, <2>3
<1>6. ASSUME NEW o \in Ops, answer'[o] = "pending"
      PROVE  \E i \in 1..Len(tail') : tail'[i] = o
  <2>1. CASE o = op
    BY <1>2, <2>1
  <2>2. CASE o # op
    <3>1. PICK i \in 1..Len(tail) : tail[i] = o
      BY <1>0, <1>3, <1>6, <2>2 DEF Ordered
    <3>2. i \in 1..Len(tail') /\ tail'[i] = o
      BY <1>2, <3>1
    <3> QED  BY <3>2
  <2> QED  BY <2>1, <2>2
<1>7. \A i \in 1..Len(tail') : answer'[tail'[i]] = "pending"
  <2> TAKE i \in 1..Len(tail')
  <2>1. CASE i = Len(tail) + 1
    BY <1>2, <1>3, <2>1
  <2>2. CASE i # Len(tail) + 1
    <3>1. i \in 1..Len(tail)
      BY <1>2, <2>2
    <3>2. tail'[i] = tail[i] /\ tail[i] \in Ops /\ answer[tail[i]] = "pending"
      BY <1>0, <1>2, <3>1 DEF Ordered
    <3> QED  BY <1>3, <3>2
  <2> QED  BY <2>1, <2>2
<1>8. \A o, p \in Ops : o < p /\ answer'[p] # "none" => answer'[o] # "none"
  <2> TAKE o, p \in Ops
  <2> HAVE o < p /\ answer'[p] # "none"
  <2>1. CASE o = op
    BY <1>3, <2>1
  <2>2. CASE o # op /\ p = op
    BY <1>1, <1>3, <2>2
  <2>3. CASE o # op /\ p # op
    BY <1>0, <1>3, <2>3 DEF Ordered
  <2> QED  BY <2>1, <2>2, <2>3
<1>9. Serial'
  <2>1. ASSUME Running'
        PROVE  /\ tail' # <<>> /\ draft' = Append(committed', Head(tail'))
               /\ wanted'[Head(tail')] \in {Unconditional, revision'}
    <3>1. tail # <<>> /\ draft = Append(committed, Head(tail))
          /\ wanted[Head(tail)] \in {Unconditional, revision}
      BY <1>0, <1>1, <2>1 DEF Serial, Running
    <3>2. Head(tail) = tail[1] /\ Len(tail) > 0 /\ Head(tail) \in Ops
      BY <1>0, <3>1, TailFacts DEF TypeOK
    <3>3. tail' \in Seq(Ops) /\ tail' # <<>>
      BY <1>0, <1>1, AppendFacts DEF TypeOK
    <3>4. Head(tail') = tail'[1]
      BY <3>3, TailFacts
    <3>5. Head(tail') = Head(tail)
      BY <1>2, <3>2, <3>4
    <3>6. Head(tail) # op
      BY <1>2, <1>4, <3>2, BoundAssumption
    <3>7. wanted'[Head(tail)] = wanted[Head(tail)]
      BY <1>0, <1>1, <3>2, <3>6 DEF TypeOK
    <3> QED  BY <1>1, <3>1, <3>3, <3>5, <3>7
  <2>2. phase' # "down"
    BY <1>1 DEF Up
  <2> QED  BY <2>1, <2>2 DEF Serial
<1> QED  BY <1>5, <1>6, <1>7, <1>8, <1>9 DEF Ordered

(* Every step keeps the queue in order. *)
LEMMA CallStep == CallInv /\ [Next]_vars => Serial' /\ Ordered'
<1> SUFFICES ASSUME CallInv, [Next]_vars PROVE Serial' /\ Ordered'
  OBVIOUS
<1>0. TypeOK /\ Serial /\ Ordered /\ (Running => tail # <<>>)
  BY DEF CallInv, Serial
<1>1. ASSUME NEW op \in Ops, NEW e \in {Unconditional} \cup 0..revision, Enqueue(op, e)
      PROVE  Serial' /\ Ordered'
  BY <1>1, EnqueueStep
<1>2. CASE Begin
  <2>1. CASE wanted[Head(tail)] \notin {Unconditional, revision}
    <3>1. Answer("stale") /\ phase' = "idle" /\ tail # <<>>
      BY <1>2, <2>1 DEF Begin
    <3> QED  BY <1>0, <3>1, AnswerOrdered DEF Serial, Running
  <2>2. CASE wanted[Head(tail)] \in {Unconditional, revision}
    <3>1. phase' = "mutating" /\ draft' = Append(committed, Head(tail)) /\ tail # <<>>
          /\ UNCHANGED callVars /\ UNCHANGED stateVars
      BY <1>2, <2>2 DEF Begin
    <3>2. Serial'
      BY <2>2, <3>1 DEF Serial, callVars, stateVars
    <3>3. Ordered'
      BY <1>0, <3>1 DEF Ordered, callVars
    <3> QED  BY <3>2, <3>3
  <2> QED  BY <2>1, <2>2
<1>3. CASE Fail \/ LinkGivesUp \/ Commit
  <2>1. tail # <<>> /\ phase' = "idle" /\ \E a \in {"committed", "failed"} : Answer(a)
    BY <1>0, <1>3
    DEF Fail, MutateFails, DisplaceFails, CaptureFails, LinkFails, CleanupFails, LinkGivesUp,
        Commit, Running, Finish
  <2> QED  BY <1>0, <2>1, AnswerOrdered DEF Serial, Running
<1>4. CASE WriteTemporary \/ Displace \/ Capture \/ Link \/ LinkAgain
  <2>1. Running /\ Running' /\ phase' # "down"
    BY <1>4 DEF WriteTemporary, Displace, Capture, Link, LinkAgain, Running
  <2>2. UNCHANGED <<callVars, draft, stateVars>>
    BY <1>4 DEF WriteTemporary, Displace, Capture, Link, LinkAgain
  <2>3. Serial'
    BY <1>0, <2>1, <2>2 DEF Serial, callVars, stateVars
  <2>4. Ordered'
    BY <1>0, <2>2 DEF Ordered, callVars
  <2> QED  BY <2>3, <2>4
<1>5. CASE PeerWrites \/ RestartFails \/ UNCHANGED vars
  <2>1. UNCHANGED <<callVars, workVars, stateVars>>
    BY <1>5 DEF PeerWrites, RestartFails, vars
  <2> QED  BY <1>0, <2>1 DEF Serial, Running, Ordered, callVars, workVars, stateVars
<1>6. CASE Crash
  <2>1. tail' = <<>> /\ phase' = "down"
    BY <1>6 DEF Crash
  <2>2. \A op \in Ops : answer'[op] = IF answer[op] = "pending" THEN "lost" ELSE answer[op]
    BY <1>6 DEF Crash
  <2> QED  BY <1>0, <2>1, <2>2 DEF Serial, Running, Ordered
<1>7. CASE Restart
  <2>1. phase' = "idle" /\ UNCHANGED callVars
    BY <1>7 DEF Restart
  <2> QED  BY <1>0, <2>1 DEF Serial, Running, Ordered, callVars
<1> QED
  BY <1>1, <1>2, <1>3, <1>4, <1>5, <1>6, <1>7 DEF Next, Promote

-----------------------------------------------------------------------------
(* The promotion. *)

(* Everything but the last displaced snapshot has been captured. *)
LEMMA Displaced ==
    ASSUME TypeOK, Captures, NEW s \in ToSet(displaced)
    PROVE  s \in captured \/ (phase = "capturing" /\ displaced # <<>> /\ s = Last(displaced))
<1>1. displaced \in Seq(Snapshot)
  BY DEF TypeOK
<1>2. PICK i \in 1..Len(displaced) : s = displaced[i]
  BY <1>1 DEF ToSet
<1>3. displaced # <<>>
  BY <1>1, <1>2
<1>4. Last(displaced) = displaced[Len(displaced)]
  BY <1>1, <1>3, LastFacts
<1> QED  BY <1>2, <1>3, <1>4 DEF Captures

(* A displaced snapshot is captured before the next one is displaced. *)
LEMMA CaptureStep == TypeOK /\ Captures /\ [Next]_vars => Captures'
<1> SUFFICES ASSUME TypeOK, Captures, [Next]_vars PROVE Captures'
  OBVIOUS
<1>0. displaced \in Seq(Snapshot) /\ target \in Snapshot \cup {None}
  BY DEF TypeOK
<1>1. CASE \/ \E op \in Ops, e \in {Unconditional} \cup 0..revision : Enqueue(op, e)
           \/ PeerWrites \/ RestartFails \/ UNCHANGED vars
  <2>1. UNCHANGED <<workVars, captured>>
    BY <1>1 DEF Enqueue, PeerWrites, RestartFails, vars
  <2> QED  BY <2>1 DEF Captures, workVars
<1>2. CASE Begin \/ WriteTemporary \/ Link \/ LinkAgain \/ Restart
  <2>1. /\ UNCHANGED displaced /\ captured \subseteq captured'
        /\ phase # "capturing" /\ phase' # "capturing"
    <3>1. CASE Begin
      BY <3>1 DEF Begin
    <3>2. CASE WriteTemporary \/ Link \/ LinkAgain \/ Restart
      BY <3>2 DEF WriteTemporary, Link, LinkAgain, Restart
    <3> QED  BY <1>2, <3>1, <3>2
  <2> QED  BY <2>1 DEF Captures
<1>3. CASE Fail \/ LinkGivesUp \/ Commit \/ Crash
  <2>1. phase' # "capturing" /\ displaced' = <<>>
    BY <1>3 DEF Fail, MutateFails, DisplaceFails, CaptureFails, LinkFails, CleanupFails,
                LinkGivesUp, Commit, Crash, Finish
  <2> QED  BY <2>1 DEF Captures
<1>4. CASE Displace
  <2>1. \A i \in 1..Len(displaced) : displaced[i] \in captured
    BY <1>4 DEF Displace, Captures
  <2>2. CASE target = None
    BY <1>4, <2>1, <2>2 DEF Displace, Captures
  <2>3. CASE target # None
    <3>1. phase' = "capturing" /\ displaced' = Append(displaced, target) /\ captured' = captured
      BY <1>4, <2>3 DEF Displace
    <3>2. target \in Snapshot
      BY <1>0, <2>3
    <3>3. /\ Len(displaced') = Len(displaced) + 1 /\ displaced' # <<>>
          /\ \A i \in 1..Len(displaced) : displaced'[i] = displaced[i]
          /\ Len(displaced) \in Nat
      BY <1>0, <3>1, <3>2, AppendFacts
    <3> QED  BY <2>1, <3>1, <3>3 DEF Captures
  <2> QED  BY <2>2, <2>3
<1>5. CASE Capture
  <2>1. /\ captured' = captured \cup {Last(displaced)} /\ phase' = "linking"
        /\ displaced' = displaced
    BY <1>5 DEF Capture
  <2>2. displaced # <<>>
    BY <1>5 DEF Capture, Captures
  <2>3. Last(displaced) = displaced[Len(displaced)]
    BY <1>0, <2>2, LastFacts
  <2> QED  BY <2>1, <2>3 DEF Captures
<1> QED
  BY <1>1, <1>2, <1>3, <1>4, <1>5 DEF Next, Promote, Fail

(* No step drops the last trace of a peer's snapshot. *)
LEMMA KeptStep ==
    TypeOK /\ Captures /\ PeerSnapshotsKept /\ [Next]_vars => PeerSnapshotsKept'
<1> SUFFICES ASSUME TypeOK, Captures, PeerSnapshotsKept, [Next]_vars,
                    NEW k \in 1..peers'
             PROVE  Peer(k) \in {target'} \cup replaced' \cup captured' \cup kept'
                                \cup ToSet(displaced')
  BY DEF PeerSnapshotsKept
<1>0. /\ displaced \in Seq(Snapshot) /\ target \in Snapshot \cup {None}
      /\ peers \in 0..MaxPeers
  BY DEF TypeOK
<1>1. ASSUME k \in 1..peers
      PROVE  Peer(k) \in {target} \cup replaced \cup captured \cup kept \cup ToSet(displaced)
  BY <1>1 DEF PeerSnapshotsKept
<1>2. ASSUME NEW op \in Ops, NEW e \in {Unconditional} \cup 0..revision, Enqueue(op, e)
      PROVE  Peer(k) \in {target'} \cup replaced' \cup captured' \cup kept'
                         \cup ToSet(displaced')
  BY <1>1, <1>2 DEF Enqueue, workVars, diskVars, peerVars
<1>3. CASE Begin \/ WriteTemporary \/ LinkAgain \/ UNCHANGED vars
  <2>1. UNCHANGED <<displaced, diskVars, captured, peerVars>>
    BY <1>3 DEF Begin, WriteTemporary, LinkAgain, vars, workVars
  <2> QED  BY <1>1, <2>1 DEF diskVars, peerVars
<1>4. CASE MutateFails \/ DisplaceFails \/ CleanupFails \/ LinkGivesUp \/ Commit
  <2>1. phase # "capturing" /\ UNCHANGED <<diskVars, captured, peerVars>>
    BY <1>4 DEF MutateFails, DisplaceFails, CleanupFails, LinkGivesUp, Commit
  <2> QED  BY <1>1, <2>1, Displaced DEF diskVars, peerVars
<1>5. CASE Displace
  <2>1. UNCHANGED <<kept, captured, peerVars>>
    BY <1>5 DEF Displace
  <2>2. ToSet(displaced') = ToSet(displaced) \cup ({target} \ {None})
    <3>1. CASE target = None
      BY <1>5, <3>1 DEF Displace
    <3>2. CASE target # None
      <4>1. displaced' = Append(displaced, target) /\ target \in Snapshot
        BY <1>0, <1>5, <3>2 DEF Displace
      <4> QED  BY <1>0, <3>2, <4>1, AppendFacts
    <3> QED  BY <3>1, <3>2
  <2>3. k \in 1..peers /\ Peer(k) # None
    BY <1>0, <2>1, BoundAssumption, SnapshotFacts DEF peerVars
  <2> QED  BY <1>1, <2>1, <2>2, <2>3 DEF peerVars
<1>6. CASE Capture
  BY <1>1, <1>6 DEF Capture, diskVars, peerVars
<1>7. ASSUME UNCHANGED <<captured, peerVars>>, displaced # <<>>, Restore(Last(displaced)),
             phase \in {"capturing", "linking"}
      PROVE  Peer(k) \in {target'} \cup replaced' \cup captured' \cup kept'
                         \cup ToSet(displaced')
  <2>1. Last(displaced) \in {target'} \cup kept'
    BY <1>7 DEF Restore
  <2>2. k \in 1..peers /\ Peer(k) # None
    BY <1>0, <1>7, BoundAssumption, SnapshotFacts DEF peerVars
  <2>3. target # None => target' = target
    BY <1>7 DEF Restore
  <2>4. kept \subseteq kept'
    BY <1>7 DEF Restore
  <2> QED  BY <1>1, <1>7, <2>1, <2>2, <2>3, <2>4, Displaced DEF peerVars
<1>8. CASE CaptureFails
  BY <1>7, <1>8 DEF CaptureFails, Captures
<1>9. CASE LinkFails
  <2>1. CASE displaced = <<>>
    <3>1. UNCHANGED <<diskVars, captured, peerVars>> /\ displaced' = <<>>
      BY <1>9, <2>1 DEF LinkFails, Finish
    <3> QED  BY <1>1, <2>1, <3>1 DEF diskVars, peerVars
  <2>2. CASE displaced # <<>>
    BY <1>7, <1>9, <2>2 DEF LinkFails
  <2> QED  BY <2>1, <2>2
<1>10. CASE Link
  <2>1. k \in 1..peers /\ Peer(k) # None
    BY <1>0, <1>10, BoundAssumption, SnapshotFacts DEF Link, peerVars
  <2> QED  BY <1>1, <1>10, <2>1 DEF Link, peerVars
<1>11. CASE PeerWrites
  <2>1. /\ peers' = peers + 1 /\ target' = Peer(peers + 1)
        /\ UNCHANGED <<displaced, kept, captured>>
        /\ replaced \subseteq replaced'
    BY <1>11 DEF PeerWrites, workVars
  <2>2. CASE k = peers + 1
    BY <2>1, <2>2
  <2>3. CASE k # peers + 1
    <3>1. k \in 1..peers /\ Peer(k) # None
      BY <1>0, <2>1, <2>3, BoundAssumption, SnapshotFacts
    <3>2. Peer(k) = target => target \in replaced'
      <4>1. Peer(k).dev = k /\ k # 0
        BY <3>1 DEF Peer
      <4> QED  BY <1>11, <3>1, <4>1 DEF PeerWrites
    <3> QED  BY <1>1, <2>1, <3>1, <3>2
  <2> QED  BY <2>2, <2>3
<1>12. CASE Crash
  BY <1>1, <1>12 DEF Crash, peerVars
<1>13. CASE Restart
  <2>1. /\ UNCHANGED <<displaced, kept, replaced>> /\ (target # None => target' = target)
        /\ captured \subseteq captured'
    BY <1>13 DEF Restart
  <2>2. CASE k \in 1..peers
    <3>1. Peer(k) # None
      BY <1>0, <2>2, BoundAssumption, SnapshotFacts
    <3> QED  BY <1>1, <2>1, <2>2, <3>1
  <2>3. CASE k \notin 1..peers
    <3>1. k \in peers + 1..peers' /\ peers' # peers
      BY <1>0, <2>3, BoundAssumption
    <3> QED  BY <1>13, <3>1 DEF Restart
  <2> QED  BY <2>2, <2>3
<1>14. CASE RestartFails
  <2>1. UNCHANGED <<displaced, kept, captured, peerVars>> /\ target = None
    BY <1>14 DEF RestartFails, workVars
  <2>2. k \in 1..peers /\ Peer(k) # None
    BY <1>0, <2>1, BoundAssumption, SnapshotFacts DEF peerVars
  <2> QED  BY <1>1, <2>1, <2>2 DEF peerVars
<1> QED
  BY <1>2, <1>3, <1>4, <1>5, <1>6, <1>8, <1>9, <1>10, <1>11, <1>12, <1>13, <1>14
  DEF Next, Promote, Fail

(* No step leaves the target missing with nothing beside it. *)
LEMMA PresentStep ==
    TypeOK /\ Captures /\ TargetPresent /\ [Next]_vars => TargetPresent'
<1> SUFFICES ASSUME TypeOK, Captures, TargetPresent, [Next]_vars, target' = None
             PROVE  \/ phase' \in {"capturing", "linking"} /\ displaced' # <<>>
                    \/ kept' # {}
  BY DEF TargetPresent
<1>0. displaced \in Seq(Snapshot) /\ target \in Snapshot \cup {None}
  BY DEF TypeOK
<1>1. CASE \/ \E op \in Ops, e \in {Unconditional} \cup 0..revision : Enqueue(op, e)
           \/ UNCHANGED vars
  <2>1. UNCHANGED <<phase, displaced, diskVars>>
    BY <1>1 DEF Enqueue, vars, workVars
  <2> QED  BY <2>1 DEF TargetPresent, diskVars
<1>2. CASE Begin \/ WriteTemporary \/ MutateFails \/ DisplaceFails \/ CleanupFails \/ Commit
  <2>1. phase \notin {"capturing", "linking"} /\ UNCHANGED diskVars
    BY <1>2 DEF Begin, WriteTemporary, MutateFails, DisplaceFails, CleanupFails, Commit
  <2> QED  BY <2>1 DEF TargetPresent, diskVars
<1>3. CASE Displace
  <2>1. CASE target = None
    BY <1>3, <2>1 DEF Displace, TargetPresent
  <2>2. CASE target # None
    <3>1. phase' = "capturing" /\ displaced' = Append(displaced, target) /\ target \in Snapshot
      BY <1>0, <1>3, <2>2 DEF Displace
    <3> QED  BY <1>0, <3>1, AppendFacts
  <2> QED  BY <2>1, <2>2
<1>4. CASE Capture
  BY <1>4 DEF Capture, Captures
<1>5. ASSUME displaced # <<>>, Restore(Last(displaced))
      PROVE  kept' # {}
  <2>1. Last(displaced) # None
    BY <1>0, <1>5, LastFacts, SnapshotFacts
  <2> QED  BY <1>5, <2>1 DEF Restore
<1>6. CASE CaptureFails
  BY <1>5, <1>6 DEF CaptureFails, Captures
<1>7. CASE LinkFails
  <2>1. CASE displaced = <<>>
    BY <1>7, <2>1 DEF LinkFails, TargetPresent, diskVars
  <2>2. CASE displaced # <<>>
    BY <1>5, <1>7, <2>2 DEF LinkFails
  <2> QED  BY <2>1, <2>2
<1>8. CASE Link \/ LinkAgain \/ LinkGivesUp
  <2>1. ~ Link
    <3>1. \A l \in Seq(Ops) : Local(l) # None
      BY SnapshotFacts
    <3> QED  BY <3>1 DEF Link, TypeOK
  <2> QED  BY <1>8, <2>1 DEF LinkAgain, LinkGivesUp, diskVars
<1>9. CASE PeerWrites
  <2>1. peers + 1 \in 1..MaxPeers /\ target' = Peer(peers + 1)
    BY <1>9, BoundAssumption DEF PeerWrites, TypeOK
  <2> QED  BY <2>1, SnapshotFacts
<1>10. CASE Crash
  <2>1. kept' = kept \cup ToSet(displaced) /\ target' = target
    BY <1>10 DEF Crash
  <2>2. displaced # <<>> => ToSet(displaced) # {}
    BY <1>0, LastFacts
  <2> QED  BY <2>1, <2>2 DEF TargetPresent
<1>11. CASE Restart \/ RestartFails
  BY <1>11, SnapshotFacts DEF Restart, RestartFails
<1> QED
  BY <1>1, <1>2, <1>3, <1>4, <1>6, <1>7, <1>8, <1>9, <1>10, <1>11
  DEF Next, Promote, Fail

(* With no peer writing, the target is this device's, a promotion displaces *)
(* at most that one file, and what it links is its draft.                   *)
Alone ==
    peers = 0 =>
        /\ target \in Snapshot => target = Local(target.log)
        /\ phase \in {"idle", "mutating", "displacing", "down"} => displaced = <<>>
        /\ phase \in {"capturing", "linking"} => target = None
        /\ phase = "linked" => target = Local(draft)
        /\ displaced # <<>> =>
              /\ ToSet(displaced) = {Last(displaced)}
              /\ Last(displaced) = Local(Last(displaced).log)

(* The initial state is on disk. *)
LEMMA InitAlone == Init => Alone /\ CommittedOnDisk
BY DEF Init, Alone, CommittedOnDisk, Visible, Local

(* Every step keeps a lonely device's disk in order. *)
LEMMA AloneStep == TypeOK /\ Captures /\ Alone /\ [Next]_vars => Alone'
<1> SUFFICES ASSUME TypeOK, Captures, Alone, [Next]_vars, peers' = 0 PROVE Alone'
  BY DEF Alone
<1>0. /\ displaced \in Seq(Snapshot) /\ target \in Snapshot \cup {None}
      /\ peers \in Nat /\ None \notin Snapshot
  BY BoundAssumption, NoneAssumption DEF TypeOK
<1>1. CASE PeerWrites
  BY <1>0, <1>1 DEF PeerWrites
<1>2. CASE \/ \E op \in Ops, e \in {Unconditional} \cup 0..revision : Enqueue(op, e)
           \/ UNCHANGED vars
  <2>1. UNCHANGED <<workVars, target, peers>>
    BY <1>2 DEF Enqueue, vars, diskVars, peerVars
  <2> QED  BY <2>1 DEF Alone, workVars
<1>3. CASE Begin
  <2>1. UNCHANGED <<displaced, target, peers>> /\ phase' \in {"idle", "mutating"}
        /\ phase = "idle"
    BY <1>3 DEF Begin, diskVars, peerVars
  <2> QED  BY <2>1 DEF Alone
<1>4. CASE WriteTemporary
  BY <1>4 DEF WriteTemporary, Alone, diskVars, peerVars
<1>5. CASE MutateFails \/ DisplaceFails \/ CleanupFails \/ LinkGivesUp \/ Commit \/ Crash
  <2>1. displaced' = <<>> /\ phase' \in {"idle", "down"} /\ UNCHANGED <<target, peers>>
    BY <1>5 DEF MutateFails, DisplaceFails, CleanupFails, LinkGivesUp, Commit, Crash, Finish,
                diskVars, peerVars
  <2> QED  BY <2>1 DEF Alone
<1>6. CASE Displace
  <2>1. target' = None /\ peers = 0 /\ phase = "displacing" /\ displaced = <<>>
    BY <1>6 DEF Displace, peerVars, Alone
  <2>2. CASE target = None
    BY <1>0, <1>6, <2>1, <2>2 DEF Displace, Alone
  <2>3. CASE target # None
    <3>1. phase' = "capturing" /\ displaced' = <<target>> /\ target \in Snapshot
      BY <1>0, <1>6, <2>1, <2>3 DEF Displace
    <3>2. Last(<<target>>) = target /\ ToSet(<<target>>) = {target}
      BY <1>0, <3>1 DEF Last, ToSet
    <3>3. target = Local(target.log)
      BY <2>1, <3>1 DEF Alone
    <3> QED  BY <1>0, <2>1, <3>1, <3>2, <3>3 DEF Alone
  <2> QED  BY <2>2, <2>3
<1>7. CASE Capture
  BY <1>7 DEF Capture, Alone, diskVars, peerVars
<1>8. ASSUME displaced # <<>>, Restore(Last(displaced)), peers = 0,
             phase' = "idle", displaced' = <<>>
      PROVE  Alone'
  BY <1>8 DEF Restore, Alone
<1>9. CASE CaptureFails
  BY <1>8, <1>9 DEF CaptureFails, Captures, Finish, peerVars
<1>10. CASE LinkFails
  <2>1. CASE displaced = <<>>
    BY <1>10, <2>1 DEF LinkFails, Finish, Alone, diskVars, peerVars
  <2>2. CASE displaced # <<>>
    BY <1>8, <1>10, <2>2 DEF LinkFails, Finish, peerVars
  <2> QED  BY <2>1, <2>2
<1>11. CASE Link
  BY <1>11 DEF Link, Alone, Local, peerVars
<1>12. CASE LinkAgain
  <2>1. peers = 0 /\ phase = "linking" /\ target # None
    BY <1>12 DEF LinkAgain, peerVars
  <2> QED  BY <2>1 DEF Alone
<1>13. CASE Restart \/ RestartFails
  <2>1. /\ peers = 0 /\ phase = "down" /\ phase' \in {"idle", "down"} /\ UNCHANGED displaced
        /\ target' = target \/ target' = Local(<<>>)
    BY <1>0, <1>13 DEF Restart, RestartFails, workVars, peerVars
  <2> QED  BY <2>1 DEF Alone, Local
<1> QED
  BY <1>1, <1>2, <1>3, <1>4, <1>5, <1>6, <1>7, <1>9, <1>10, <1>11, <1>12, <1>13
  DEF Next, Promote, Fail

(* The head of the tail is the oldest pending operation. *)
LEMMA HeadOldest ==
    ASSUME TypeOK, Ordered, tail # <<>>
    PROVE  Head(tail) \in Ops /\ answer[Head(tail)] = "pending" /\ Store!Oldest(Head(tail))
<1>1. /\ tail \in Seq(Ops) /\ Head(tail) = tail[1] /\ Head(tail) \in Ops
      /\ Len(tail) \in Nat /\ Len(tail) > 0
  BY TailFacts DEF TypeOK
<1>2. answer[Head(tail)] = "pending"
  BY <1>1 DEF Ordered
<1>3. ASSUME NEW o \in Ops, o < Head(tail), answer[o] = "pending" PROVE FALSE
  <2>1. PICK i \in 1..Len(tail) : tail[i] = o
    BY <1>3 DEF Ordered
  <2>2. i = 1 \/ tail[1] < tail[i]
    BY <1>1, <2>1 DEF Ordered
  <2> QED  BY <1>1, <1>3, <2>1, <2>2, BoundAssumption
<1> QED  BY <1>1, <1>2, <1>3 DEF Store!Oldest

(* A step that commits nothing and keeps what failed keeps what counts as  *)
(* the visible state.                                                      *)
LEMMA VisibleKept ==
    ASSUME committed' = committed,
           \A op \in Ops : answer[op] = "failed" => answer'[op] = "failed"
    PROVE  Visible \subseteq Visible'
BY DEF Visible

(* No step takes the visible state off the disk. *)
LEMMA CommittedStep ==
    CallInv /\ Captures /\ Alone /\ CommittedOnDisk /\ [Next]_vars => CommittedOnDisk'
<1> SUFFICES ASSUME CallInv, Captures, Alone, CommittedOnDisk, [Next]_vars,
                    peers' = 0, Up'
             PROVE  \/ ({target'} \cup kept' \cup ToSet(displaced')) \cap Visible' # {}
                    \/ phase' = "linked" /\ target' = Local(draft')
  BY DEF CommittedOnDisk
<1>0. /\ displaced \in Seq(Snapshot) /\ target \in Snapshot \cup {None}
      /\ peers \in Nat /\ None \notin Snapshot
      /\ TypeOK /\ Serial /\ Ordered /\ (Running => tail # <<>>)
  BY BoundAssumption, NoneAssumption DEF TypeOK, CallInv, Serial
<1>1. ASSUME peers = 0, Up, phase # "linked"
      PROVE  \E s \in {target} \cup kept \cup ToSet(displaced) : s \in Visible
  BY <1>1 DEF CommittedOnDisk
<1>2. ~ PeerWrites /\ ~ Crash /\ ~ RestartFails
  BY <1>0 DEF PeerWrites, Crash, RestartFails, Up, workVars
<1>15. None \notin Visible
  <2>1. Local(committed) # None
    BY <1>0, SnapshotFacts DEF TypeOK
  <2>2. \A op \in Ops : Append(committed, op) \in Seq(Ops)
    BY <1>0, AppendFacts DEF TypeOK
  <2> QED  BY <2>1, <2>2, SnapshotFacts DEF Visible
<1>16. ASSUME NEW a \in {"stale", "failed"}, Answer(a), tail # <<>>, UNCHANGED stateVars
      PROVE  Visible \subseteq Visible'
  <2>1. Head(tail) \in Ops /\ answer[Head(tail)] = "pending"
    BY <1>0, <1>16, HeadOldest
  <2>2. \A op \in Ops : answer[op] = "failed" => answer'[op] = "failed"
    BY <1>0, <1>16, <2>1 DEF Answer, TypeOK
  <2> QED  BY <1>16, <2>2, VisibleKept DEF stateVars
<1>17. ASSUME UNCHANGED <<answer, committed>> PROVE Visible' = Visible
  BY <1>17 DEF Visible
<1>3. CASE \/ \E op \in Ops, e \in {Unconditional} \cup 0..revision : Enqueue(op, e)
           \/ UNCHANGED vars
  <2>1. UNCHANGED <<workVars, stateVars, diskVars, peers>>
    BY <1>3 DEF Enqueue, vars, peerVars
  <2>2. \A op \in Ops : answer[op] = "failed" => answer'[op] = "failed"
    BY <1>0, <1>3 DEF Enqueue, vars, callVars, TypeOK
  <2>3. Visible \subseteq Visible'
    BY <2>1, <2>2, VisibleKept DEF stateVars
  <2> QED  BY <2>1, <2>3 DEF CommittedOnDisk, Up, workVars, diskVars
<1>4. CASE Begin \/ WriteTemporary \/ Capture
  <2>1. /\ UNCHANGED <<displaced, stateVars, diskVars, peers>>
        /\ phase \in {"idle", "mutating", "capturing"}
    BY <1>4 DEF Begin, WriteTemporary, Capture, peerVars
  <2>2. Visible \subseteq Visible'
    <3>1. CASE UNCHANGED callVars
      BY <2>1, <3>1, <1>17 DEF callVars, stateVars
    <3>2. CASE ~ UNCHANGED callVars
      <4>1. Answer("stale") /\ tail # <<>>
        BY <1>4, <3>2 DEF Begin, WriteTemporary, Capture
      <4> QED  BY <2>1, <4>1, <1>16
    <3> QED  BY <3>1, <3>2
  <2> QED  BY <1>1, <2>1, <2>2 DEF Up, diskVars
<1>5. CASE MutateFails \/ DisplaceFails
  <2>1. /\ UNCHANGED <<stateVars, diskVars, peers>> /\ Answer("failed") /\ Running
        /\ phase \in {"mutating", "displacing"}
    BY <1>5 DEF MutateFails, DisplaceFails, Running, peerVars
  <2>2. displaced = <<>>
    BY <2>1 DEF Alone
  <2>3. Visible \subseteq Visible'
    BY <1>0, <2>1, <1>16
  <2> QED  BY <1>1, <2>1, <2>2, <2>3, EmptyToSet DEF Up, diskVars
<1>6. CASE Displace
  <2>1. UNCHANGED <<committed, kept, peers>> /\ phase = "displacing" /\ Visible' = Visible
    BY <1>6, <1>17 DEF Displace, stateVars, peerVars, callVars
  <2>2. PICK s \in {target} \cup kept \cup ToSet(displaced) : s \in Visible /\ s # None
    BY <1>1, <1>15, <2>1 DEF Up
  <2>3. s \in kept' \cup ToSet(displaced')
    <3>1. CASE target = None
      BY <1>6, <2>1, <2>2, <3>1 DEF Displace
    <3>2. CASE target # None
      <4>1. displaced' = Append(displaced, target) /\ target \in Snapshot
        BY <1>0, <1>6, <3>2 DEF Displace
      <4> QED  BY <1>0, <2>1, <2>2, <4>1, AppendFacts
    <3> QED  BY <3>1, <3>2
  <2> QED  BY <2>1, <2>2, <2>3
<1>7. ASSUME displaced # <<>>, Restore(Last(displaced)), peers = 0, UNCHANGED stateVars,
             Answer("failed"), phase \in {"capturing", "linking"}
      PROVE  ({target'} \cup kept') \cap Visible' # {}
  <2>1. Visible \subseteq Visible'
    BY <1>0, <1>7, <1>16 DEF Running
  <2>2. target = None /\ ToSet(displaced) = {Last(displaced)}
    BY <1>7 DEF Alone
  <2>3. PICK s \in kept \cup {Last(displaced)} : s \in Visible
    BY <1>1, <1>7, <1>15, <2>2 DEF Up
  <2>4. s \in {target'} \cup kept'
    BY <1>7, <2>3 DEF Restore
  <2> QED  BY <2>1, <2>3, <2>4
<1>8. CASE CaptureFails
  BY <1>7, <1>8 DEF CaptureFails, Captures, peerVars
<1>9. CASE LinkFails
  <2>1. CASE displaced = <<>>
    <3>1. UNCHANGED <<stateVars, diskVars, peers>> /\ Answer("failed") /\ phase = "linking"
      BY <1>9, <2>1 DEF LinkFails, peerVars
    <3>2. Visible \subseteq Visible'
      BY <1>0, <3>1, <1>16 DEF Running
    <3> QED  BY <1>1, <2>1, <3>1, <3>2, EmptyToSet DEF Up, diskVars
  <2>2. CASE displaced # <<>>
    BY <1>7, <1>9, <2>2 DEF LinkFails, peerVars
  <2> QED  BY <2>1, <2>2
<1>10. CASE Link
  BY <1>10 DEF Link
<1>11. CASE LinkAgain \/ LinkGivesUp
  <2>1. peers = 0 /\ phase = "linking" /\ target # None
    BY <1>11 DEF LinkAgain, LinkGivesUp, peerVars
  <2> QED  BY <2>1 DEF Alone
<1>12. CASE Commit
  BY <1>12 DEF Commit, Alone, Visible, diskVars, peerVars
<1>13. CASE Restart
  <2>1. target' = Local(committed')
    <3>1. CASE target = None
      BY <1>13, <3>1 DEF Restart, Local
    <3>2. CASE target # None
      BY <1>0, <1>13, <3>2 DEF Restart, Alone
    <3> QED  BY <3>1, <3>2
  <2> QED  BY <2>1 DEF Visible
<1>14. CASE CleanupFails
  <2>1. /\ target' = Local(Append(committed, Head(tail))) /\ tail # <<>>
        /\ Answer("failed") /\ UNCHANGED committed
    BY <1>0, <1>14 DEF CleanupFails, Alone, Serial, Running, stateVars, diskVars, peerVars
  <2>2. Head(tail) \in Ops /\ answer'[Head(tail)] = "failed"
    BY <1>0, <2>1, HeadOldest DEF Answer, TypeOK
  <2> QED  BY <2>1, <2>2 DEF Visible
<1> QED
  BY <1>2, <1>3, <1>4, <1>5, <1>6, <1>8, <1>9, <1>10, <1>11, <1>12, <1>13, <1>14
  DEF Next, Promote, Fail

-----------------------------------------------------------------------------
(* The theorems. *)

(* The queue's invariant, with what the types need of the promotion. *)
LEMMA Invariance == Safety => [](CallInv /\ Captures)
<1>1. Init => CallInv /\ Captures
  BY InitInv
<1>2. CallInv /\ Captures /\ [Next]_vars => (CallInv /\ Captures)'
  BY TypeStep, CallStep, CaptureStep DEF CallInv
<1> QED  BY <1>1, <1>2, PTL DEF Safety

(* Every variable keeps to its type, in particular the promotion never     *)
(* makes more than MAX_ATOMIC_PROMOTION_ATTEMPTS attempts.                 *)
THEOREM Typing == Spec => []TypeOK
<1>1. CallInv => TypeOK
  BY DEF CallInv
<1> QED  BY <1>1, Invariance, PTL DEF Spec

(* A snapshot a peer wrote is never lost to this device's promotion before *)
(* it was handed to the watcher (promoteSnapshotWithoutClobber).           *)
THEOREM PeersKept == Spec => []PeerSnapshotsKept
<1>1. Init => PeerSnapshotsKept
  BY InitInv
<1>2. CallInv /\ Captures /\ PeerSnapshotsKept /\ [Next]_vars => PeerSnapshotsKept'
  BY KeptStep DEF CallInv
<1> QED  BY <1>1, <1>2, Invariance, PTL DEF Spec, Safety

(* The target is missing only between displacing and linking, or when the  *)
(* displaced file was left beside it.                                      *)
THEOREM TargetStays == Spec => []TargetPresent
<1>1. Init => TargetPresent
  BY InitInv
<1>2. CallInv /\ Captures /\ TargetPresent /\ [Next]_vars => TargetPresent'
  BY PresentStep DEF CallInv
<1> QED  BY <1>1, <1>2, Invariance, PTL DEF Spec, Safety

(* Without a peer's write the state callers see is on disk at every moment, *)
(* under every error the promotion can meet, its cleanup included: with one *)
(* mutation more at most, which is about to be committed or was reported    *)
(* failed.                                                                  *)
THEOREM CommittedStays == Spec => []CommittedOnDisk
<1>1. Init => Alone /\ CommittedOnDisk
  BY InitAlone
<1>2. CallInv /\ Captures /\ Alone /\ CommittedOnDisk /\ [Next]_vars
         => Alone' /\ CommittedOnDisk'
  BY AloneStep, CommittedStep DEF CallInv
<1> QED  BY <1>1, <1>2, Invariance, PTL DEF Spec, Safety

(* An operation that fails or is stale is refused. *)
LEMMA AnswerRefuses ==
    ASSUME TypeOK, Ordered, tail # <<>>, UNCHANGED stateVars,
           \/ Answer("failed")
           \/ Answer("stale") /\ wanted[Head(tail)] \notin {Unconditional, revision}
    PROVE  Store!Refuse(Head(tail))
BY HeadOldest DEF Store!Refuse, Answer, stateVars

(* Every step is a step of the abstract store, or changes nothing of it. *)
LEMMA StepImplements == CallInv /\ [Next]_vars => [Store!Next]_(Store!vars)
<1> SUFFICES ASSUME CallInv, [Next]_vars PROVE Store!Next \/ UNCHANGED Store!vars
  OBVIOUS
<1>0. TypeOK /\ Serial /\ Ordered /\ (Running => tail # <<>>)
  BY DEF CallInv, Serial
<1>1. ASSUME NEW op \in Ops, NEW e \in {Unconditional} \cup 0..revision, Enqueue(op, e)
      PROVE  Store!Next
  <2>1. Store!Ask(op, e)
    BY <1>1 DEF Enqueue, Store!Ask, stateVars
  <2> QED  BY <2>1 DEF Store!Next
<1>2. CASE Begin
  <2>1. CASE wanted[Head(tail)] \notin {Unconditional, revision}
    <3>1. Answer("stale") /\ UNCHANGED stateVars /\ tail # <<>>
      BY <1>2, <2>1 DEF Begin
    <3>2. Store!Refuse(Head(tail)) /\ Head(tail) \in Ops
      BY <1>0, <2>1, <3>1, AnswerRefuses, HeadOldest
    <3> QED  BY <3>2 DEF Store!Next
  <2>2. CASE wanted[Head(tail)] \in {Unconditional, revision}
    BY <1>2, <2>2 DEF Begin, Store!vars, callVars, stateVars
  <2> QED  BY <2>1, <2>2
<1>3. CASE Fail \/ LinkGivesUp
  <2>1. tail # <<>> /\ Answer("failed") /\ UNCHANGED stateVars
    BY <1>0, <1>3
    DEF Fail, MutateFails, DisplaceFails, CaptureFails, LinkFails, CleanupFails, LinkGivesUp,
        Running
  <2>2. Store!Refuse(Head(tail)) /\ Head(tail) \in Ops
    BY <1>0, <2>1, AnswerRefuses, HeadOldest
  <2> QED  BY <2>2 DEF Store!Next
<1>4. CASE Commit
  <2>1. /\ tail # <<>> /\ draft = Append(committed, Head(tail))
        /\ wanted[Head(tail)] \in {Unconditional, revision}
    BY <1>0, <1>4 DEF Commit, Serial, Running
  <2>2. Store!Commit(Head(tail))
    BY <1>0, <1>4, <2>1, HeadOldest DEF Commit, Answer, Store!Commit
  <2>3. Head(tail) \in Ops
    BY <1>0, <2>1, HeadOldest
  <2> QED  BY <2>2, <2>3 DEF Store!Next
<1>5. CASE WriteTemporary \/ Displace \/ Capture \/ Link \/ LinkAgain \/ PeerWrites
           \/ RestartFails \/ UNCHANGED vars
  <2>1. UNCHANGED <<callVars, stateVars>>
    BY <1>5 DEF WriteTemporary, Displace, Capture, Link, LinkAgain, PeerWrites, RestartFails,
                vars
  <2> QED  BY <2>1 DEF Store!vars, callVars, stateVars
<1>6. CASE Crash
  <2>1. Store!Crash
    BY <1>6 DEF Crash, Store!Crash, stateVars
  <2> QED  BY <2>1 DEF Store!Next
<1>7. CASE Restart
  <2>1. \A op \in Ops : answer[op] # "pending"
    BY <1>0, <1>7 DEF Restart, Serial, Ordered
  <2>2. committed' \in Seq(Ops)
    <3>1. CASE target = None
      <4>1. target' = Local(<<>>) /\ committed' = target'.log
        BY <1>7, <3>1 DEF Restart
      <4> QED  BY <4>1, SnapshotFacts
    <3>2. CASE target # None
      BY <1>0, <1>7, <3>2, SnapshotFacts DEF Restart, TypeOK
    <3> QED  BY <3>1, <3>2
  <2>3. revision' = 0 /\ UNCHANGED callVars
    BY <1>7 DEF Restart
  <2>4. Store!Restart
    BY <2>1, <2>2, <2>3 DEF Store!Restart, callVars
  <2> QED  BY <2>4 DEF Store!Next
<1> QED
  BY <1>1, <1>2, <1>3, <1>4, <1>5, <1>6, <1>7 DEF Next, Promote

(* Callers see atomic, ordered and conditional mutations, whatever the     *)
(* turns of a promotion are interleaved with (AppStateMutationCoordinator).*)
THEOREM Implements == Spec => ImplementsStore
<1>1. Init => Store!Init
  BY DEF Init, Store!Init
<1>2. CallInv /\ [Next]_vars => [Store!Next]_(Store!vars)
  BY StepImplements
<1> QED  BY <1>1, <1>2, Invariance, PTL DEF Spec, Safety, ImplementsStore, Store!Spec

=============================================================================
