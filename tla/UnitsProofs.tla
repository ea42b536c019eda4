----------------------------- MODULE UnitsProofs -----------------------------
(***************************************************************************)
(* That Total is the sum: it adds up over a concatenation, and of one size *)
(* it is that size.  What else the accounting of a queue needs follows.    *)
(***************************************************************************)
EXTENDS Units, TLAPS, FiniteSetTheorems, SequenceTheorems

LEMMA UnitPairs ==
  ASSUME NEW s \in Seq(Nat), NEW u
  PROVE  u \in UnitsOf(s) <=> \E i \in 1..Len(s) : \E j \in 1..s[i] : u = <<i, j>>
  <1>1. DOMAIN s = 1..Len(s)
    BY LenProperties
  <1>2. u \in UnitsOf(s) <=> \E i \in 1..Len(s) : u \in {i} \X (1..s[i])
    BY <1>1, Zenon DEF UnitsOf
  <1>3. ASSUME NEW i \in 1..Len(s)
        PROVE  u \in {i} \X (1..s[i]) <=> \E j \in 1..s[i] : u = <<i, j>>
    OBVIOUS
  <1> QED
    BY <1>2, <1>3, Zenon

LEMMA UnitsFinite ==
  ASSUME NEW s \in Seq(Nat)
  PROVE  IsFiniteSet(UnitsOf(s)) /\ Total(s) \in Nat
  <1> DEFINE f == [i \in 1..Len(s) |-> {i} \X (1..s[i])]
             T == {{i} \X (1..s[i]) : i \in DOMAIN s}
  <1>1. Len(s) \in Nat /\ DOMAIN s = 1..Len(s) /\ \A i \in 1..Len(s) : s[i] \in Nat
    BY LenProperties, ElementOfSeq
  <1>2. f \in Surjection(1..Len(s), T)
    BY <1>1 DEF Surjection
  <1>3. IsFiniteSet(T)
    BY <1>1, <1>2, FS_Surjection, FS_Interval
  <1>4. ASSUME NEW t \in T PROVE IsFiniteSet(t)
    <2>1. PICK i \in 1..Len(s) : t = {i} \X (1..s[i])
      BY <1>1
    <2>2. IsFiniteSet({i})
      BY FS_Singleton, Zenon
    <2>3. IsFiniteSet(1..s[i])
      BY <1>1, FS_Interval
    <2> QED
      BY <2>1, <2>2, <2>3, FS_Product
  <1>5. IsFiniteSet(UNION T)
    BY <1>3, <1>4, FS_UNION
  <1> QED
    BY <1>5, FS_CardinalityType DEF UnitsOf, Total

LEMMA TotalEmpty == Total(<<>>) = 0
  <1>1. UnitsOf(<<>>) = {}
    BY DEF UnitsOf
  <1> QED
    BY <1>1, FS_EmptySet DEF Total

LEMMA TotalOne ==
  ASSUME NEW n \in Nat
  PROVE  <<n>> \in Seq(Nat) /\ Total(<<n>>) = n
  <1>1. UnitsOf(<<n>>) = {1} \X (1..n)
    BY DEF UnitsOf
  <1>2. Cardinality({1}) = 1 /\ IsFiniteSet({1})
    BY FS_Singleton, Zenon
  <1>3. IsFiniteSet(1..n) /\ Cardinality(1..n) = n
    BY FS_Interval
  <1>4. Cardinality({1} \X (1..n)) = 1 * n
    BY <1>2, <1>3, FS_Product
  <1> QED
    BY <1>1, <1>4 DEF Total

(* The units of t come behind those of s. *)
LEMMA TotalConcat ==
  ASSUME NEW s \in Seq(Nat), NEW t \in Seq(Nat)
  PROVE  Total(s \o t) = Total(s) + Total(t)
  <1> DEFINE A == UnitsOf(s)
             B == UnitsOf(t)
             C == UnitsOf(s \o t)
             f == [u \in B |-> <<Len(s) + u[1], u[2]>>]
  <1>1. /\ s \o t \in Seq(Nat) /\ Len(s) \in Nat /\ Len(t) \in Nat
        /\ Len(s \o t) = Len(s) + Len(t)
        /\ \A i \in 1..Len(s) : (s \o t)[i] = s[i]
        /\ \A i \in 1..Len(t) : (s \o t)[Len(s) + i] = t[i]
    <2>1. /\ s \o t \in Seq(Nat) /\ Len(s) \in Nat /\ Len(t) \in Nat
          /\ Len(s \o t) = Len(s) + Len(t)
          /\ \A i \in 1..Len(s) + Len(t) : (s \o t)[i] = IF i <= Len(s) THEN s[i] ELSE t[i - Len(s)]
      BY ConcatProperties, LenProperties
    <2>2. \A i \in 1..Len(t) : /\ Len(s) + i \in 1..Len(s) + Len(t)
                               /\ ~(Len(s) + i <= Len(s)) /\ Len(s) + i - Len(s) = i
      BY <2>1
    <2> QED
      BY <2>1, <2>2
  <1>2. A \subseteq C
    <2> SUFFICES ASSUME NEW u \in A PROVE u \in C
      OBVIOUS
    <2>1. PICK i \in 1..Len(s), j \in Nat : j \in 1..s[i] /\ u = <<i, j>>
      BY UnitPairs
    <2>2. i \in 1..Len(s \o t) /\ j \in 1..(s \o t)[i]
      BY <1>1, <2>1
    <2> QED
      BY <1>1, <2>1, <2>2, UnitPairs
  <1>3. ASSUME NEW u \in B PROVE f[u] \in C \ A
    <2>1. PICK i \in 1..Len(t), j \in Nat : j \in 1..t[i] /\ u = <<i, j>>
      BY UnitPairs
    <2>2. f[u] = <<Len(s) + i, j>>
      BY <2>1
    <2>3. Len(s) + i \in 1..Len(s \o t) /\ j \in 1..(s \o t)[Len(s) + i]
      BY <1>1, <2>1
    <2>4. f[u] \in C
      BY <1>1, <2>2, <2>3, UnitPairs
    <2>5. Len(s) + i \notin 1..Len(s)
      BY <1>1
    <2> QED
      BY <2>2, <2>4, <2>5, UnitPairs
  <1>4. ASSUME NEW u \in C \ A PROVE \E v \in B : f[v] = u
    <2>1. PICK i \in 1..Len(s \o t), j \in Nat : j \in 1..(s \o t)[i] /\ u = <<i, j>>
      <3>0. \A q \in Seq(Nat) : u \in UnitsOf(q) =>
               \E i \in 1..Len(q) : \E j \in 1..q[i] : u = <<i, j>>
        BY UnitPairs
      <3>1. PICK i \in 1..Len(s \o t) : \E j \in 1..(s \o t)[i] : u = <<i, j>>
        BY <1>1, <1>4, <3>0, Zenon
      <3>2. PICK j \in 1..(s \o t)[i] : u = <<i, j>>
        BY <3>1
      <3> QED
        BY <3>2
    <2>2. i \notin 1..Len(s)
      BY <1>1, <1>4, <2>1, UnitPairs
    <2>3. i - Len(s) \in 1..Len(t) /\ Len(s) + (i - Len(s)) = i
      BY <1>1, <2>1, <2>2
    <2>4. j \in 1..t[i - Len(s)]
      BY <1>1, <2>1, <2>3
    <2>5. <<i - Len(s), j>> \in B
      BY <2>3, <2>4, UnitPairs
    <2> QED
      BY <2>1, <2>3, <2>5
  <1>5. ASSUME NEW u \in B, NEW v \in B, f[u] = f[v] PROVE u = v
    <2>1. PICK i \in 1..Len(t), j \in Nat : j \in 1..t[i] /\ u = <<i, j>>
      BY UnitPairs
    <2>2. PICK k \in 1..Len(t), l \in Nat : l \in 1..t[k] /\ v = <<k, l>>
      BY UnitPairs
    <2>3. Len(s) + i = Len(s) + k /\ j = l
      BY <1>5, <2>1, <2>2
    <2> QED
      BY <1>1, <2>1, <2>2, <2>3
  <1>6. f \in Bijection(B, C \ A)
    <2> HIDE DEF A, B, C
    <2>1. f \in [B -> C \ A]
      BY <1>3
    <2>2. f \in Injection(B, C \ A)
      BY <1>5, <2>1 DEF Injection, IsInjective
    <2>3. f \in Surjection(B, C \ A)
      BY <1>4, <2>1 DEF Surjection
    <2> QED
      BY <2>2, <2>3 DEF Bijection
  <1>7. IsFiniteSet(A) /\ IsFiniteSet(B) /\ IsFiniteSet(C) /\ Cardinality(A) \in Nat
        /\ Cardinality(B) \in Nat /\ Cardinality(C) \in Nat
    BY <1>1, UnitsFinite DEF Total
  <1> HIDE DEF A, B, C, f
  <1>8. Cardinality(C \ A) = Cardinality(B)
    BY <1>6, <1>7, FS_Bijection DEF ExistsBijection
  <1>9. Cardinality(C \ A) = Cardinality(C) - Cardinality(A)
    <2>1. C \cap A = A
      BY <1>2
    <2> QED
      BY <1>7, <2>1, FS_Difference
  <1> QED
    BY <1>7, <1>8, <1>9 DEF Total, A, B, C

(* What a queue does. *)
LEMMA TotalAppend ==
  ASSUME NEW s \in Seq(Nat), NEW n \in Nat
  PROVE  Append(s, n) \in Seq(Nat) /\ Total(Append(s, n)) = Total(s) + n
  <1>1. Append(s, n) \in Seq(Nat) /\ Append(s, n) = s \o <<n>>
    BY AppendIsConcat, AppendProperties
  <1>2. <<n>> \in Seq(Nat) /\ Total(<<n>>) = n
    BY TotalOne
  <1>3. Total(s \o <<n>>) = Total(s) + Total(<<n>>)
    BY <1>2, TotalConcat
  <1> QED
    BY <1>1, <1>2, <1>3

LEMMA TotalHeadTail ==
  ASSUME NEW s \in Seq(Nat), s # <<>>
  PROVE  /\ Head(s) \in Nat /\ Tail(s) \in Seq(Nat)
         /\ s = <<Head(s)>> \o Tail(s)
         /\ Total(s) = Head(s) + Total(Tail(s))
  <1>1. Head(s) \in Nat /\ Tail(s) \in Seq(Nat) /\ Len(s) \in Nat \ {0} /\ Head(s) = s[1]
    BY HeadTailProperties, EmptySeq
  <1>2. s = <<Head(s)>> \o Tail(s)
    BY <1>1, SubSeqFull, SubSeqRecursiveFirst, TailIsSubSeq
  <1>3. <<Head(s)>> \in Seq(Nat) /\ Total(<<Head(s)>>) = Head(s)
    BY <1>1, TotalOne
  <1>4. Total(<<Head(s)>> \o Tail(s)) = Total(<<Head(s)>>) + Total(Tail(s))
    BY <1>1, <1>3, TotalConcat
  <1> QED
    BY <1>1, <1>2, <1>3, <1>4

LEMMA TotalSplit ==
  ASSUME NEW s \in Seq(Nat), NEW k \in 0..Len(s)
  PROVE  /\ SubSeq(s, 1, k) \in Seq(Nat) /\ SubSeq(s, k + 1, Len(s)) \in Seq(Nat)
         /\ SubSeq(s, 1, k) \o SubSeq(s, k + 1, Len(s)) = s
         /\ Total(s) = Total(SubSeq(s, 1, k)) + Total(SubSeq(s, k + 1, Len(s)))
  <1>1. Len(s) \in Nat /\ \A i \in 1..Len(s) : s[i] \in Nat
    BY LenProperties, ElementOfSeq
  <1>2. SubSeq(s, 1, k) \in Seq(Nat)
    <2>1. \A i \in 1..k : s[i] \in Nat
      BY <1>1
    <2> QED
      BY <2>1, SubSeqProperties
  <1>3. SubSeq(s, k + 1, Len(s)) \in Seq(Nat)
    <2>1. \A i \in k + 1..Len(s) : s[i] \in Nat
      BY <1>1
    <2> QED
      BY <1>1, <2>1, SubSeqProperties
  <1>4. SubSeq(s, 1, k) \o SubSeq(s, k + 1, Len(s)) = s
    <2>1. 1 \in 1..Len(s) + 1 /\ k \in 1 - 1..Len(s) /\ Len(s) \in k..Len(s)
      BY <1>1
    <2>2. SubSeq(s, 1, k) \o SubSeq(s, k + 1, Len(s)) = SubSeq(s, 1, Len(s))
      BY <2>1, ConcatAdjacentSubSeq
    <2> QED
      BY <2>2, SubSeqFull
  <1> QED
    BY <1>2, <1>3, <1>4, TotalConcat

(* A queue without empty items holds at least a unit for each. *)
LEMMA TotalPositive ==
  ASSUME NEW s \in Seq(Nat), s # <<>>, Head(s) # 0
  PROVE  Total(s) > 0
  <1>1. Head(s) \in Nat /\ Tail(s) \in Seq(Nat) /\ Total(s) = Head(s) + Total(Tail(s))
    BY TotalHeadTail
  <1>2. Total(Tail(s)) \in Nat
    BY <1>1, UnitsFinite
  <1> QED
    BY <1>1, <1>2

(* The first k items of a queue: what is behind them does not count, and   *)
(* what is taken from the head is taken from them.                         *)
LEMMA PrefixAppend ==
  ASSUME NEW s \in Seq(Nat), NEW n \in Nat, NEW k \in 1..Len(s)
  PROVE  SubSeq(Append(s, n), 1, k) = SubSeq(s, 1, k)
  <1>1. /\ Append(s, n) = s \o <<n>> /\ <<n>> \in Seq(Nat)
        /\ Len(s) \in Nat /\ 1 \in 1..Len(s)
    BY AppendIsConcat, TotalOne, LenProperties
  <1>2. SubSeq(s \o <<n>>, 1, k) = SubSeq(s, 1, k)
    BY <1>1, SubSeqOfConcat1
  <1> QED
    BY <1>1, <1>2

LEMMA PrefixHead ==
  ASSUME NEW s \in Seq(Nat), NEW k \in 1..Len(s)
  PROVE  /\ SubSeq(s, 2, k) \in Seq(Nat)
         /\ Total(SubSeq(s, 1, k)) = Head(s) + Total(SubSeq(s, 2, k))
  <1>1. Len(s) \in Nat /\ 1 \in 1..Len(s) /\ k \in 1..Len(s) /\ s[1] \in Nat /\ Head(s) = s[1]
    BY LenProperties, ElementOfSeq
  <1>2. SubSeq(s, 1, k) = <<s[1]>> \o SubSeq(s, 2, k)
    <2>1. SubSeq(s, 1, k) = <<s[1]>> \o SubSeq(s, 1 + 1, k)
      BY <1>1, SubSeqRecursiveFirst
    <2>2. 1 + 1 = 2
      OBVIOUS
    <2> QED
      BY <2>1, <2>2
  <1>3. SubSeq(s, 2, k) \in Seq(Nat)
    <2>1. \A i \in 2..k : s[i] \in Nat
      BY <1>1, ElementOfSeq
    <2> QED
      BY <1>1, <2>1, SubSeqProperties
  <1>4. <<s[1]>> \in Seq(Nat) /\ Total(<<s[1]>>) = s[1]
    BY <1>1, TotalOne
  <1>5. Total(<<s[1]>> \o SubSeq(s, 2, k)) = s[1] + Total(SubSeq(s, 2, k))
    <2>1. Total(<<s[1]>> \o SubSeq(s, 2, k)) = Total(<<s[1]>>) + Total(SubSeq(s, 2, k))
      BY <1>3, <1>4, TotalConcat
    <2> QED
      BY <1>4, <2>1
  <1> QED
    BY <1>1, <1>2, <1>3, <1>5

LEMMA PrefixTail ==
  ASSUME NEW s \in Seq(Nat), NEW k \in 1..Len(s)
  PROVE  SubSeq(Tail(s), 1, k - 1) = SubSeq(s, 2, k)
  <1>1. s # <<>> /\ Len(s) \in Nat /\ 1 \in 1..Len(s) /\ k \in 1..Len(s)
    BY LenProperties
  <1>2. /\ Tail(s) \in Seq(Nat) /\ Len(Tail(s)) = Len(s) - 1
        /\ \A i \in 1..Len(Tail(s)) : Tail(s)[i] = s[i + 1]
    BY <1>1, HeadTailProperties
  <1>3. /\ SubSeq(s, 2, k) \in Seq(Nat) /\ Len(SubSeq(s, 2, k)) = k - 1
        /\ \A i \in 1..k - 1 : SubSeq(s, 2, k)[i] = s[i + 1]
    <2>1. \A i \in 2..k : s[i] \in Nat
      BY <1>1, ElementOfSeq
    <2>2. /\ SubSeq(s, 2, k) \in Seq(Nat)
          /\ Len(SubSeq(s, 2, k)) = IF 2 <= k THEN k - 2 + 1 ELSE 0
          /\ \A i \in 1..k - 2 + 1 : SubSeq(s, 2, k)[i] = s[2 + i - 1]
      BY <1>1, <2>1, SubSeqProperties
    <2> QED
      BY <1>1, <2>2
  <1>4. /\ SubSeq(Tail(s), 1, k - 1) \in Seq(Nat) /\ Len(SubSeq(Tail(s), 1, k - 1)) = k - 1
        /\ \A i \in 1..k - 1 : SubSeq(Tail(s), 1, k - 1)[i] = Tail(s)[i]
    <2>1. \A i \in 1..k - 1 : Tail(s)[i] \in Nat
      BY <1>1, <1>2, ElementOfSeq
    <2>2. /\ SubSeq(Tail(s), 1, k - 1) \in Seq(Nat)
          /\ Len(SubSeq(Tail(s), 1, k - 1)) = IF 1 <= k - 1 THEN k - 1 - 1 + 1 ELSE 0
          /\ \A i \in 1..k - 1 - 1 + 1 : SubSeq(Tail(s), 1, k - 1)[i] = Tail(s)[1 + i - 1]
      BY <1>1, <2>1, SubSeqProperties
    <2> QED
      BY <1>1, <2>2
  <1>5. \A i \in 1..k - 1 : SubSeq(Tail(s), 1, k - 1)[i] = SubSeq(s, 2, k)[i]
    BY <1>1, <1>2, <1>3, <1>4
  <1> QED
    BY <1>3, <1>4, <1>5, SeqEqual

(* An item at the head that gets shorter. *)
LEMMA Shortened ==
  ASSUME NEW s \in Seq(Nat), s # <<>>, NEW n \in Nat
  PROVE  /\ [s EXCEPT ![1] = n] = <<n>> \o Tail(s)
         /\ Total([s EXCEPT ![1] = n]) = n + Total(Tail(s))
         /\ \A k \in 1..Len(s) : SubSeq([s EXCEPT ![1] = n], 2, k) = SubSeq(s, 2, k)
  <1> DEFINE t == [s EXCEPT ![1] = n]
  <1>1. Len(s) \in Nat \ {0} /\ 1 \in 1..Len(s)
    BY EmptySeq
  <1>2. /\ t \in Seq(Nat) /\ Len(t) = Len(s)
        /\ \A i \in 1..Len(s) : t[i] = IF i = 1 THEN n ELSE s[i]
    BY <1>1, ExceptSeq
  <1> HIDE DEF t
  <1>3. t # <<>> /\ Head(t) = n
    BY <1>1, <1>2, EmptySeq
  <1>4. Tail(t) = Tail(s)
    <2>1. /\ Tail(t) \in Seq(Nat) /\ Len(Tail(t)) = Len(t) - 1
          /\ \A i \in 1..Len(Tail(t)) : Tail(t)[i] = t[i + 1]
      BY <1>2, <1>3, HeadTailProperties
    <2>2. /\ Tail(s) \in Seq(Nat) /\ Len(Tail(s)) = Len(s) - 1
          /\ \A i \in 1..Len(Tail(s)) : Tail(s)[i] = s[i + 1]
      BY HeadTailProperties
    <2>3. \A i \in 1..Len(Tail(t)) : Tail(t)[i] = Tail(s)[i]
      BY <1>1, <1>2, <2>1, <2>2
    <2> QED
      BY <1>2, <2>1, <2>2, <2>3, SeqEqual
  <1>5. t = <<n>> \o Tail(s) /\ Total(t) = n + Total(Tail(s))
    BY <1>2, <1>3, <1>4, TotalHeadTail
  <1>6. ASSUME NEW k \in 1..Len(s) PROVE SubSeq(t, 2, k) = SubSeq(s, 2, k)
    <2>1. SubSeq(Tail(t), 1, k - 1) = SubSeq(t, 2, k)
      BY <1>2, PrefixTail
    <2>2. SubSeq(Tail(s), 1, k - 1) = SubSeq(s, 2, k)
      BY PrefixTail
    <2> QED
      BY <1>4, <2>1, <2>2
  <1> QED
    BY <1>5, <1>6 DEF t

(* The payload of frames, and of what is made of them. *)
LEMMA PayloadConcat ==
  ASSUME NEW S, \A f \in S : f.n \in Nat, NEW s \in Seq(S), NEW t \in Seq(S)
  PROVE  /\ Payload(s) \in Seq(Nat) /\ Payload(t) \in Seq(Nat) /\ s \o t \in Seq(S)
         /\ Payload(s \o t) = Payload(s) \o Payload(t)
         /\ Total(Payload(s \o t)) = Total(Payload(s)) + Total(Payload(t))
  <1>1. ASSUME NEW q \in Seq(S)
        PROVE  /\ Len(q) \in Nat /\ Payload(q) = [i \in 1..Len(q) |-> q[i].n]
               /\ Payload(q) \in Seq(Nat) /\ Len(Payload(q)) = Len(q)
    <2>1. Len(q) \in Nat /\ DOMAIN q = 1..Len(q) /\ \A i \in 1..Len(q) : q[i] \in S
      BY LenProperties, ElementOfSeq
    <2>2. Payload(q) = [i \in 1..Len(q) |-> q[i].n] /\ Payload(q) \in [1..Len(q) -> Nat]
      BY <2>1 DEF Payload
    <2>3. Payload(q) \in Seq(Nat)
      BY <2>1, <2>2, SeqDef
    <2> QED
      BY <2>1, <2>2, <2>3
  <1>2. /\ s \o t \in Seq(S) /\ Len(s \o t) = Len(s) + Len(t)
        /\ \A i \in 1..Len(s) + Len(t) : (s \o t)[i] = IF i <= Len(s) THEN s[i] ELSE t[i - Len(s)]
    BY ConcatProperties
  <1>3. /\ Payload(s) \o Payload(t) \in Seq(Nat)
        /\ Len(Payload(s) \o Payload(t)) = Len(s) + Len(t)
        /\ \A i \in 1..Len(s) + Len(t) :
              (Payload(s) \o Payload(t))[i] =
                 IF i <= Len(s) THEN Payload(s)[i] ELSE Payload(t)[i - Len(s)]
    <2>1. /\ Payload(s) \in Seq(Nat) /\ Len(Payload(s)) = Len(s)
          /\ Payload(t) \in Seq(Nat) /\ Len(Payload(t)) = Len(t)
      BY <1>1
    <2> HIDE DEF Payload
    <2> QED
      BY <2>1, ConcatProperties
  <1>4. ASSUME NEW i \in 1..Len(s) + Len(t)
        PROVE  Payload(s \o t)[i] = (Payload(s) \o Payload(t))[i]
    <2>1. Payload(s \o t)[i] = (s \o t)[i].n
      BY <1>1, <1>2
    <2>2. CASE i <= Len(s)
      BY <1>1, <1>2, <1>3, <2>1, <2>2
    <2>3. CASE ~(i <= Len(s))
      <3>1. i - Len(s) \in 1..Len(t)
        BY <1>1, <2>3
      <3> QED
        BY <1>1, <1>2, <1>3, <2>1, <2>3, <3>1
    <2> QED
      BY <2>2, <2>3
  <1>5. Payload(s \o t) = Payload(s) \o Payload(t)
    <2>1. Payload(s \o t) \in Seq(Nat) /\ Len(Payload(s \o t)) = Len(s) + Len(t)
      BY <1>1, <1>2
    <2> HIDE DEF Payload
    <2> QED
      BY <1>3, <1>4, <2>1, SeqEqual
  <1> QED
    BY <1>1, <1>2, <1>5, TotalConcat

LEMMA PayloadHeadTail ==
  ASSUME NEW S, \A f \in S : f.n \in Nat, NEW s \in Seq(S), s # <<>>
  PROVE  /\ Head(s) \in S /\ Tail(s) \in Seq(S)
         /\ s = <<Head(s)>> \o Tail(s)
         /\ Total(Payload(s)) = Head(s).n + Total(Payload(Tail(s)))
  <1>1. Head(s) \in S /\ Tail(s) \in Seq(S) /\ Len(s) \in Nat \ {0} /\ Head(s) = s[1]
    BY HeadTailProperties, EmptySeq
  <1>2. s = <<Head(s)>> \o Tail(s)
    BY <1>1, SubSeqFull, SubSeqRecursiveFirst, TailIsSubSeq
  <1>3. <<Head(s)>> \in Seq(S) /\ Payload(<<Head(s)>>) = <<Head(s).n>>
    BY <1>1 DEF Payload
  <1>4. Total(<<Head(s).n>>) = Head(s).n
    BY <1>1, TotalOne
  <1>5. Total(Payload(<<Head(s)>> \o Tail(s))) = Total(Payload(<<Head(s)>>)) + Total(Payload(Tail(s)))
    BY <1>1, <1>3, PayloadConcat
  <1> QED
    BY <1>1, <1>2, <1>3, <1>4, <1>5

LEMMA PayloadFirst ==
  ASSUME NEW S, \A f \in S : f.n \in Nat, NEW s \in Seq(S), s # <<>>
  PROVE  1 \in 1..Len(s) /\ s[1] = Head(s) /\ Total(Payload(SubSeq(s, 1, 1))) = Head(s).n
  <1>1. Head(s) \in S /\ Len(s) \in Nat \ {0} /\ Head(s) = s[1] /\ 1 \in 1..Len(s)
    BY HeadTailProperties, EmptySeq
  <1>2. SubSeq(s, 1, 1) = <<s[1]>> \o SubSeq(s, 1 + 1, 1)
    BY <1>1, SubSeqRecursiveFirst
  <1>3. SubSeq(s, 1 + 1, 1) = <<>>
    <2>1. 1 + 1 \in Int /\ 1 \in Int /\ 1 < 1 + 1
      OBVIOUS
    <2> QED
      BY <2>1, SubSeqEmpty, Zenon
  <1>4. <<s[1]>> \in Seq(S) /\ Payload(<<s[1]>>) = <<s[1].n>> /\ s[1].n \in Nat
    BY <1>1 DEF Payload
  <1>5. SubSeq(s, 1, 1) = <<s[1]>>
    <2>1. <<s[1]>> \o <<>> = <<s[1]>>
      BY <1>4, ConcatEmptySeq
    <2> QED
      BY <1>2, <1>3, <2>1
  <1>6. Total(<<s[1].n>>) = s[1].n
    BY <1>4, TotalOne
  <1> QED
    BY <1>1, <1>4, <1>5, <1>6

LEMMA PayloadCounted ==
  ASSUME NEW S, \A f \in S : f.n \in Nat, NEW s \in Seq(S)
  PROVE  Total(Payload(s)) \in Nat
  <1>1. Payload(s) \in Seq(Nat)
    BY PayloadConcat
  <1> QED
    BY <1>1, UnitsFinite

(* What is cut off at the end of frames can only make the payload smaller. *)
LEMMA PayloadPrefix ==
  ASSUME NEW S, \A f \in S : f.n \in Nat, NEW s \in Seq(S), NEW k \in 0..Len(s)
  PROVE  /\ SubSeq(s, 1, k) \in Seq(S) /\ Len(SubSeq(s, 1, k)) = k
         /\ \A i \in 1..k : SubSeq(s, 1, k)[i] = s[i]
         /\ \A i \in 1..k : SubSeq(SubSeq(s, 1, k), 1, i) = SubSeq(s, 1, i)
         /\ Total(Payload(SubSeq(s, 1, k))) <= Total(Payload(s))
  <1>1. Len(s) \in Nat /\ \A i \in 1..Len(s) : s[i] \in S
    BY LenProperties, ElementOfSeq
  <1>2. /\ SubSeq(s, 1, k) \in Seq(S) /\ Len(SubSeq(s, 1, k)) = k
        /\ \A i \in 1..k : SubSeq(s, 1, k)[i] = s[i]
    <2>1. \A i \in 1..k : s[i] \in S
      BY <1>1
    <2>2. /\ SubSeq(s, 1, k) \in Seq(S)
          /\ Len(SubSeq(s, 1, k)) = IF 1 <= k THEN k - 1 + 1 ELSE 0
          /\ \A i \in 1..k - 1 + 1 : SubSeq(s, 1, k)[i] = s[1 + i - 1]
      BY <1>1, <2>1, SubSeqProperties
    <2> QED
      BY <1>1, <2>2
  <1>3. SubSeq(s, k + 1, Len(s)) \in Seq(S)
    <2>1. \A i \in k + 1..Len(s) : s[i] \in S
      BY <1>1
    <2> QED
      BY <1>1, <2>1, SubSeqProperties
  <1>4. SubSeq(s, 1, k) \o SubSeq(s, k + 1, Len(s)) = s
    <2>1. 1 \in 1..Len(s) + 1 /\ k \in 1 - 1..Len(s) /\ Len(s) \in k..Len(s)
      BY <1>1
    <2>2. SubSeq(s, 1, k) \o SubSeq(s, k + 1, Len(s)) = SubSeq(s, 1, Len(s))
      BY <2>1, ConcatAdjacentSubSeq
    <2> QED
      BY <2>2, SubSeqFull
  <1>5. ASSUME NEW i \in 1..k PROVE SubSeq(SubSeq(s, 1, k), 1, i) = SubSeq(s, 1, i)
    <2>1. /\ 1 \in 1..Len(s) /\ k \in 1..Len(s) /\ 1 \in 1..k - 1 + 1 /\ i \in 1..k - 1 + 1
          /\ 1 + 1 - 1 = 1 /\ 1 + i - 1 = i
      BY <1>1
    <2>2. SubSeq(SubSeq(s, 1, k), 1, i) = SubSeq(s, 1 + 1 - 1, 1 + i - 1)
      BY <2>1, SubSeqOfSubSeq
    <2> QED
      BY <2>1, <2>2
  <1>6. /\ Total(Payload(SubSeq(s, 1, k))) \in Nat
        /\ Total(Payload(SubSeq(s, k + 1, Len(s)))) \in Nat
    BY <1>2, <1>3, PayloadCounted
  <1>7. Total(Payload(s)) = Total(Payload(SubSeq(s, 1, k))) + Total(Payload(SubSeq(s, k + 1, Len(s))))
    BY <1>2, <1>3, <1>4, PayloadConcat
  <1> QED
    BY <1>2, <1>5, <1>6, <1>7

(* The frames up to one of them, when the first frame is taken.            *)
LEMMA PayloadUpTo ==
  ASSUME NEW S, \A f \in S : f.n \in Nat, NEW s \in Seq(S), s # <<>>, NEW i \in 1..Len(Tail(s))
  PROVE  /\ Tail(s)[i] = s[i + 1] /\ i + 1 \in 1..Len(s)
         /\ Total(Payload(SubSeq(s, 1, i + 1))) = Head(s).n + Total(Payload(SubSeq(Tail(s), 1, i)))
  <1>1. /\ Head(s) \in S /\ Tail(s) \in Seq(S) /\ s = <<Head(s)>> \o Tail(s)
        /\ Len(s) \in Nat \ {0} /\ Len(Tail(s)) = Len(s) - 1 /\ Head(s) = s[1]
        /\ Tail(s)[i] = s[i + 1]
    <2>1. Head(s) \in S /\ Tail(s) \in Seq(S) /\ s = <<Head(s)>> \o Tail(s)
      BY PayloadHeadTail
    <2>2. /\ Len(Tail(s)) = Len(s) - 1 /\ Head(s) = s[1]
          /\ \A j \in 1..Len(Tail(s)) : Tail(s)[j] = s[j + 1]
      BY HeadTailProperties
    <2>3. Len(s) \in Nat \ {0}
      BY EmptySeq
    <2> QED
      BY <2>1, <2>2, <2>3
  <1>2. 1 \in 1..Len(s) /\ i + 1 \in 1..Len(s) /\ i \in 0..Len(Tail(s))
    BY <1>1
  <1>3. SubSeq(s, 1, i + 1) = <<Head(s)>> \o SubSeq(s, 2, i + 1)
    <2>1. SubSeq(s, 1, i + 1) = <<s[1]>> \o SubSeq(s, 1 + 1, i + 1)
      BY <1>2, SubSeqRecursiveFirst
    <2>2. 1 + 1 = 2
      OBVIOUS
    <2> QED
      BY <1>1, <2>1, <2>2
  <1>4. SubSeq(s, 2, i + 1) = SubSeq(Tail(s), 1, i)
    <2>1. Tail(s) = SubSeq(s, 2, Len(s))
      BY TailIsSubSeq
    <2>2. /\ 2 \in 1..Len(s) /\ Len(s) \in 1..Len(s)
          /\ 1 \in 1..Len(s) - 2 + 1 /\ i \in 1..Len(s) - 2 + 1
          /\ 2 + 1 - 1 = 2 /\ 2 + i - 1 = i + 1
      BY <1>1
    <2>3. SubSeq(SubSeq(s, 2, Len(s)), 1, i) = SubSeq(s, 2 + 1 - 1, 2 + i - 1)
      BY <2>2, SubSeqOfSubSeq
    <2> QED
      BY <2>1, <2>2, <2>3
  <1>5. SubSeq(Tail(s), 1, i) \in Seq(S)
    BY <1>1, <1>2, PayloadPrefix
  <1>6. <<Head(s)>> \in Seq(S) /\ Total(Payload(<<Head(s)>>)) = Head(s).n
    <2>1. <<Head(s)>> \in Seq(S) /\ Payload(<<Head(s)>>) = <<Head(s).n>> /\ Head(s).n \in Nat
      BY <1>1 DEF Payload
    <2> QED
      BY <2>1, TotalOne
  <1>7. Total(Payload(<<Head(s)>> \o SubSeq(Tail(s), 1, i)))
           = Total(Payload(<<Head(s)>>)) + Total(Payload(SubSeq(Tail(s), 1, i)))
    BY <1>5, <1>6, PayloadConcat
  <1> QED
    BY <1>1, <1>2, <1>3, <1>4, <1>6, <1>7
=============================================================================
