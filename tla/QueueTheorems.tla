----------------------------- MODULE QueueTheorems -----------------------------
(***************************************************************************)
(* What the operations on a queue of processes do: rpush is Append, lrem   *)
(* (with which lock.py removes a process) is RemoveFirst of the community  *)
(* modules, and Keep leaves the living ones.                               *)
(***************************************************************************)
EXTENDS Queues, Integers, FiniteSets, SequencesExt, SequenceTheorems,
        WellFoundedInduction, TLAPS

(* A set of indices that is not empty has a least element. *)
LEMMA LeastIndex ==
  ASSUME NEW I \in SUBSET Nat, I # {}
  PROVE  Min(I) \in I /\ \A i \in I : Min(I) <= i
<1> DEFINE R == {ss \in Nat \X Nat : ss[1] < ss[2]}
<1>1. IsWellFoundedOn(R, Nat)
  BY NatLessThanWellFounded DEF OpToRel
<1>2. PICK m \in I : \A i \in I : <<i, m>> \notin R
  BY <1>1, WFMin
<1>3. ASSUME NEW i \in I PROVE m <= i
  <2>1. ~ (i < m)
    <3>1. <<i, m>> \in Nat \X Nat /\ <<i, m>>[1] = i /\ <<i, m>>[2] = m
      OBVIOUS
    <3>2. QED
      BY <1>2, <3>1, Zenon
  <2>2. QED
    BY <2>1
<1>4. QED
  BY <1>3, Zenon DEF Min

-------------------------------------------------------------------------------
(* A set of sequences that has the empty one, and with a sequence also the *)
(* longer by one, is the set of all of them.                               *)
LEMMA SeqInduction ==
  ASSUME NEW S, NEW P \in SUBSET Seq(S), <<>> \in P,
         \A s \in P, e \in S : Append(s, e) \in P
  PROVE  P = Seq(S)
<1> SUFFICES ASSUME Seq(S) \ P # {} PROVE FALSE
  OBVIOUS
<1> DEFINE I == {Len(s) : s \in Seq(S) \ P}
<1>1. I \in SUBSET Nat /\ I # {}
  <2>1. \A s \in Seq(S) : Len(s) \in Nat
    BY LenProperties
  <2> QED
    BY <2>1
<1>2. Min(I) \in I /\ \A i \in I : Min(I) <= i
  <2> HIDE DEF I
  <2> QED
    BY <1>1, LeastIndex
<1>3. PICK s \in Seq(S) \ P : Len(s) = Min(I)
  BY <1>2
<1>4. PICK t \in Seq(S), e \in S : s = Append(t, e)
  BY <1>3, SequenceEmptyOrAppend
<1>5. t \in Seq(S) \ P
  BY <1>3, <1>4
<1>6. Len(t) < Len(s) /\ Len(t) \in Nat /\ Len(s) \in Nat
  BY <1>3, <1>4, AppendProperties, LenProperties
<1>7. Len(s) <= Len(t)
  BY <1>2, <1>3, <1>5
<1> QED
  BY <1>6, <1>7

-------------------------------------------------------------------------------
(* Keep. *)

(* f has the values of the recursive function of Keep. *)
IsKept(f, s, T) ==
  /\ f[0] = <<>>
  /\ \A i \in 1 .. Len(s) :
       f[i] = IF s[i] \in T THEN Append(f[i - 1], s[i]) ELSE f[i - 1]

(* There is such a function ... *)
LEMMA KeptExists ==
  ASSUME NEW S, NEW T
  PROVE  \A s \in Seq(S) : \E f : IsKept(f, s, T)
<1> DEFINE P == {s \in Seq(S) : \E f : IsKept(f, s, T)}
<1>1. <<>> \in P
  <2>1. IsKept([i \in 0 .. 0 |-> <<>>], <<>>, T)
    BY EmptySeq DEF IsKept
  <2> QED
    BY <2>1, EmptySeq
<1>2. ASSUME NEW s \in P, NEW e \in S PROVE Append(s, e) \in P
  <2> DEFINE n == Len(s)
             t == Append(s, e)
  <2>1. PICK f : IsKept(f, s, T)
    OBVIOUS
  <2> DEFINE g == [i \in 0 .. n + 1 |->
                     IF i = n + 1 THEN (IF e \in T THEN Append(f[n], e) ELSE f[n]) ELSE f[i]]
  <2>2. n \in Nat /\ Len(t) = n + 1 /\ t[n + 1] = e /\ \A i \in 1 .. n : t[i] = s[i]
    BY AppendProperties, LenProperties
  <2>3. IsKept(g, t, T)
    <3>1. f[0] = <<>> /\ \A i \in 1 .. n :
            f[i] = IF s[i] \in T THEN Append(f[i - 1], s[i]) ELSE f[i - 1]
      BY <2>1 DEF IsKept
    <3> HIDE DEF n, t
    <3>2. g[0] = f[0] /\ \A i \in 1 .. n : g[i] = f[i] /\ g[i - 1] = f[i - 1]
      BY <2>2
    <3>3. g[n + 1] = IF e \in T THEN Append(g[n], e) ELSE g[n]
      BY <2>2
    <3> HIDE DEF g
    <3>4. ASSUME NEW i \in 1 .. n + 1
          PROVE  g[i] = IF t[i] \in T THEN Append(g[i - 1], t[i]) ELSE g[i - 1]
      <4>1. CASE i \in 1 .. n
        BY <2>2, <3>1, <3>2, <4>1
      <4>2. CASE i = n + 1
        BY <2>2, <3>3, <4>2
      <4> QED
        BY <2>2, <4>1, <4>2
    <3> QED
      BY <2>2, <3>1, <3>2, <3>4 DEF IsKept
  <2> QED
    BY <2>3, AppendProperties
<1>3. P = Seq(S)
  <2> HIDE DEF P
  <2>1. P \in SUBSET Seq(S)
    BY DEF P
  <2> QED
    BY <1>1, <1>2, <2>1, SeqInduction
<1> QED
  BY <1>3

(* ... and what it says of a queue depends on nothing behind it. *)
LEMMA KeptUnique ==
  ASSUME NEW S, NEW T, NEW s \in Seq(S), NEW e \in S,
         NEW f, IsKept(f, s, T), NEW g, IsKept(g, Append(s, e), T)
  PROVE  f[Len(s)] = g[Len(s)]
<1> DEFINE n == Len(s)
           t == Append(s, e)
           I == {i \in 0 .. n : f[i] # g[i]}
<1> SUFFICES ASSUME f[n] # g[n] PROVE FALSE
  OBVIOUS
<1>1. n \in Nat /\ Len(t) = n + 1 /\ \A i \in 1 .. n : t[i] = s[i]
  BY AppendProperties, LenProperties
<1>2. /\ f[0] = g[0]
      /\ \A i \in 1 .. n :
           f[i] = IF s[i] \in T THEN Append(f[i - 1], s[i]) ELSE f[i - 1]
      /\ \A i \in 1 .. Len(t) :
           g[i] = IF t[i] \in T THEN Append(g[i - 1], t[i]) ELSE g[i - 1]
  BY DEF IsKept
<1> HIDE DEF n, t
<1>3. Min(I) \in I /\ \A i \in I : Min(I) <= i
  <2>1. I \in SUBSET Nat /\ n \in I
    BY <1>1
  <2> HIDE DEF I
  <2> QED
    BY <2>1, LeastIndex
<1>4. PICK k \in 0 .. n : f[k] # g[k] /\ \A i \in I : k <= i
  BY <1>3
<1>5. k # 0
  BY <1>2, <1>4
<1>6. f[k - 1] = g[k - 1]
  <2>1. k - 1 \in 0 .. n /\ ~(k <= k - 1)
    BY <1>1, <1>5
  <2> QED
    BY <1>4, <2>1
<1>7. k \in 1 .. n /\ k \in 1 .. Len(t) /\ t[k] = s[k]
  BY <1>1, <1>5
<1>8. f[k] = g[k]
  BY <1>2, <1>6, <1>7
<1> QED
  BY <1>4, <1>8

LEMMA KeepIsKept ==
  ASSUME NEW S, NEW T, NEW s \in Seq(S)
  PROVE  \E f : IsKept(f, s, T) /\ Keep(s, T) = f[Len(s)]
<1> DEFINE n == Len(s)
           Kept(f) == [i \in 0 .. n |->
                         IF i = 0 THEN <<>>
                         ELSE IF s[i] \in T THEN Append(f[i - 1], s[i])
                         ELSE f[i - 1]]
<1>1. n \in Nat
  BY LenProperties
<1>2. \E f : f = Kept(f)
  <2>1. PICK g : IsKept(g, s, T)
    BY KeptExists
  <2> DEFINE f == [i \in 0 .. n |-> g[i]]
  <2> HIDE DEF n
  <2>2. f = Kept(f)
    <3>1. g[0] = <<>> /\ \A i \in 1 .. n :
            g[i] = IF s[i] \in T THEN Append(g[i - 1], s[i]) ELSE g[i - 1]
      BY <2>1 DEF IsKept, n
    <3> QED
      BY <1>1, <3>1
  <2> QED
    BY <2>2
<1>3. PICK f : f = Kept(f) /\ Keep(s, T) = f[n]
  BY <1>2, Zenon DEF Keep
<1>4. \A i \in 0 .. n :
        f[i] = IF i = 0 THEN <<>>
               ELSE IF s[i] \in T THEN Append(f[i - 1], s[i])
               ELSE f[i - 1]
  BY <1>3, Zenon
<1>5. IsKept(f, s, T)
  <2>1. 0 \in 0 .. n /\ \A i \in 1 .. n : i \in 0 .. n /\ i # 0
    <3> HIDE DEF n
    <3> QED
      BY <1>1
  <2> QED
    BY <1>4, <2>1, Zenon DEF IsKept
<1> QED
  BY <1>3, <1>5, Zenon

(* Keep without recursion: what it makes of the empty queue and of one     *)
(* that is longer by an element.                                           *)
LEMMA KeepEmpty == \A T : Keep(<<>>, T) = <<>>
<1> TAKE T
<1>1. <<>> \in Seq({}) /\ Len(<<>>) = 0
  BY EmptySeq
<1>2. PICK f : IsKept(f, <<>>, T) /\ Keep(<<>>, T) = f[0]
  BY <1>1, KeepIsKept
<1> QED
  BY <1>2 DEF IsKept

LEMMA KeepAppend ==
  ASSUME NEW S, NEW T, NEW s \in Seq(S), NEW e \in S
  PROVE  Keep(Append(s, e), T) = IF e \in T THEN Append(Keep(s, T), e) ELSE Keep(s, T)
<1> DEFINE n == Len(s)
           t == Append(s, e)
<1>1. /\ n \in Nat /\ t \in Seq(S) /\ Len(t) = n + 1
      /\ t[n + 1] = e /\ \A i \in 1 .. n : t[i] = s[i]
  BY AppendProperties, LenProperties
<1> HIDE DEF t
<1>2. PICK f : IsKept(f, s, T) /\ Keep(s, T) = f[n]
  BY KeepIsKept
<1>3. PICK g : IsKept(g, t, T) /\ Keep(t, T) = g[n + 1]
  BY <1>1, KeepIsKept
<1>4. f[n] = g[n]
  BY <1>2, <1>3, KeptUnique DEF t
<1>5. n + 1 \in 1 .. Len(t) /\ (n + 1) - 1 = n
  BY <1>1
<1>6. g[n + 1] = IF t[n + 1] \in T THEN Append(g[n], t[n + 1]) ELSE g[n]
  <2> HIDE DEF n
  <2> QED
    BY <1>3, <1>5 DEF IsKept
<1> QED
  BY <1>1, <1>2, <1>3, <1>4, <1>6 DEF t

-------------------------------------------------------------------------------
(* Contains, Append and Keep. *)

LEMMA ContainsEmpty == \A x : ~Contains(<<>>, x)
BY EmptySeq DEF Contains

LEMMA ContainsAppend ==
  ASSUME NEW S, NEW x, NEW s \in Seq(S), NEW e \in S
  PROVE  Contains(Append(s, e), x) <=> Contains(s, x) \/ x = e
<1> DEFINE n == Len(s)
           t == Append(s, e)
<1>1. n \in Nat /\ Len(t) = n + 1 /\ t[n + 1] = e /\ \A i \in 1 .. n : t[i] = s[i]
  BY AppendProperties, LenProperties
<1> HIDE DEF n, t
<1>2. Contains(t, x) <=> (\E i \in 1 .. n : s[i] = x) \/ x = e
  BY <1>1 DEF Contains
<1> QED
  BY <1>2 DEF Contains, n, t

(* Keep keeps the elements that are in T, and no other. *)
LEMMA KeepMembers ==
  ASSUME NEW S, NEW T
  PROVE  \A s \in Seq(S) :
           /\ Keep(s, T) \in Seq(S)
           /\ \A x \in S : Contains(Keep(s, T), x) <=> Contains(s, x) /\ x \in T
<1> DEFINE P == {s \in Seq(S) :
                  /\ Keep(s, T) \in Seq(S)
                  /\ \A x \in S : Contains(Keep(s, T), x) <=> Contains(s, x) /\ x \in T}
<1>1. <<>> \in P
  BY KeepEmpty, ContainsEmpty, EmptySeq
<1>2. ASSUME NEW s \in P, NEW e \in S PROVE Append(s, e) \in P
  <2> DEFINE k == Keep(s, T)
  <2>1. s \in Seq(S) /\ k \in Seq(S) /\ Append(s, e) \in Seq(S) /\ Append(k, e) \in Seq(S)
    BY AppendProperties
  <2>2. \A x \in S : Contains(k, x) <=> Contains(s, x) /\ x \in T
    OBVIOUS
  <2>3. Keep(Append(s, e), T) = IF e \in T THEN Append(k, e) ELSE k
    BY <2>1, KeepAppend
  <2> HIDE DEF k, P
  <2>4. \A x \in S : /\ Contains(Append(s, e), x) <=> Contains(s, x) \/ x = e
                     /\ Contains(Append(k, e), x) <=> Contains(k, x) \/ x = e
    BY <2>1, ContainsAppend
  <2>5. \A x \in S : Contains(Keep(Append(s, e), T), x) <=> Contains(Append(s, e), x) /\ x \in T
    BY <2>2, <2>3, <2>4
  <2> QED
    BY <2>1, <2>3, <2>5 DEF P
<1>3. P = Seq(S)
  <2>1. P \in SUBSET Seq(S)
    OBVIOUS
  <2> HIDE DEF P
  <2> QED
    BY <1>1, <1>2, <2>1, SeqInduction
<1> QED
  BY <1>3

(* Only the elements of the queue matter. *)
LEMMA KeepAgrees ==
  ASSUME NEW S, NEW T, NEW U
  PROVE  \A s \in Seq(S) :
           (\A x \in S : Contains(s, x) => (x \in T <=> x \in U)) => Keep(s, T) = Keep(s, U)
<1> DEFINE Agree(s) == \A x \in S : Contains(s, x) => (x \in T <=> x \in U)
           P == {s \in Seq(S) : Agree(s) => Keep(s, T) = Keep(s, U)}
<1>1. <<>> \in P
  <2>1. Keep(<<>>, T) = <<>> /\ Keep(<<>>, U) = <<>>
    BY KeepEmpty
  <2> QED
    BY <2>1, EmptySeq
<1>2. ASSUME NEW s \in P, NEW e \in S PROVE Append(s, e) \in P
  <2>1. s \in Seq(S) /\ Append(s, e) \in Seq(S)
    BY AppendProperties
  <2>2. \A x \in S : Contains(Append(s, e), x) <=> Contains(s, x) \/ x = e
    BY <2>1, ContainsAppend
  <2>3. ASSUME Agree(Append(s, e)) PROVE Agree(s) /\ (e \in T <=> e \in U)
    BY <2>2, <2>3
  <2>4. Keep(Append(s, e), T) = IF e \in T THEN Append(Keep(s, T), e) ELSE Keep(s, T)
    BY <2>1, KeepAppend
  <2>5. Keep(Append(s, e), U) = IF e \in U THEN Append(Keep(s, U), e) ELSE Keep(s, U)
    BY <2>1, KeepAppend
  <2>6. Agree(s) => Keep(s, T) = Keep(s, U)
    OBVIOUS
  <2> HIDE DEF Agree
  <2> QED
    BY <2>1, <2>3, <2>4, <2>5, <2>6
<1>3. P = Seq(S)
  <2>1. P \in SUBSET Seq(S)
    OBVIOUS
  <2> HIDE DEF P
  <2> QED
    BY <1>1, <1>2, <2>1, SeqInduction
<1> QED
  BY <1>3

(* Whoever is at the head of the queue stays there if it is kept. *)
LEMMA KeepHead ==
  ASSUME NEW S, NEW T
  PROVE  \A s \in Seq(S) : s # <<>> /\ Head(s) \in T =>
           Keep(s, T) # <<>> /\ Head(Keep(s, T)) = Head(s)
<1> DEFINE P == {s \in Seq(S) : s # <<>> /\ Head(s) \in T =>
                   Keep(s, T) # <<>> /\ Head(Keep(s, T)) = Head(s)}
<1>1. <<>> \in P
  BY EmptySeq
<1>2. ASSUME NEW s \in P, NEW e \in S PROVE Append(s, e) \in P
  <2> DEFINE k == Keep(s, T)
  <2>1. s \in Seq(S) /\ Append(s, e) \in Seq(S) /\ k \in Seq(S)
    BY AppendProperties, KeepMembers
  <2>2. Keep(Append(s, e), T) = IF e \in T THEN Append(k, e) ELSE k
    BY <2>1, KeepAppend
  <2>3. /\ s # <<>> => Head(Append(s, e)) = Head(s)
        /\ s = <<>> => Head(Append(s, e)) = e
        /\ k # <<>> => Head(Append(k, e)) = Head(k)
        /\ k = <<>> => Head(Append(k, e)) = e
    BY <2>1, HeadTailAppend
  <2>4. Append(k, e) # <<>>
    BY <2>1, AppendProperties
  <2>5. s = <<>> => k = <<>>
    BY KeepEmpty
  <2>6. s # <<>> /\ Head(s) \in T => k # <<>> /\ Head(k) = Head(s)
    OBVIOUS
  <2> HIDE DEF k
  <2>7. CASE s = <<>>
    BY <2>1, <2>2, <2>3, <2>4, <2>5, <2>7
  <2>8. CASE s # <<>>
    BY <2>1, <2>2, <2>3, <2>4, <2>6, <2>8
  <2> QED
    BY <2>7, <2>8
<1>3. P = Seq(S)
  <2>1. P \in SUBSET Seq(S)
    OBVIOUS
  <2> HIDE DEF P
  <2> QED
    BY <1>1, <1>2, <2>1, SeqInduction
<1> QED
  BY <1>3

-------------------------------------------------------------------------------
(* RemoveFirst. *)

LEMMA FirstOccurrence ==
  ASSUME NEW S, NEW s \in Seq(S), NEW x, Contains(s, x)
  PROVE  \E k \in 1 .. Len(s) : s[k] = x /\ \A i \in 1 .. k - 1 : s[i] # x
<1> DEFINE I == {i \in 1 .. Len(s) : s[i] = x}
<1>1. Len(s) \in Nat
  BY LenProperties
<1>2. Min(I) \in I /\ \A i \in I : Min(I) <= i
  <2>1. I \in SUBSET Nat /\ I # {}
    BY DEF Contains
  <2> HIDE DEF I
  <2> QED
    BY <2>1, LeastIndex
<1>3. PICK k \in 1 .. Len(s) : s[k] = x /\ \A i \in I : k <= i
  BY <1>2
<1>4. ASSUME NEW i \in 1 .. k - 1 PROVE s[i] # x
  <2>1. i \in 1 .. Len(s) /\ ~(k <= i)
    BY <1>1
  <2> QED
    BY <1>3, <2>1
<1> QED
  BY <1>3, <1>4

LEMMA RemoveFirstAt ==
  ASSUME NEW S, NEW s \in Seq(S), NEW k \in 1 .. Len(s), \A i \in 1 .. k - 1 : s[i] # s[k]
  PROVE  /\ RemoveFirst(s, s[k]) \in Seq(S)
         /\ Len(RemoveFirst(s, s[k])) = Len(s) - 1
         /\ \A i \in 1 .. Len(s) - 1 :
              RemoveFirst(s, s[k])[i] = IF i < k THEN s[i] ELSE s[i + 1]
<1> DEFINE I == {i \in 1 .. Len(s) : s[i] = s[k]}
           a == SubSeq(s, 1, k - 1)
           b == SubSeq(s, k + 1, Len(s))
<1>1. Len(s) \in Nat /\ \A i \in 1 .. Len(s) : s[i] \in S
  BY LenProperties, ElementOfSeq
<1>2. Min(I) = k
  <2>1. I \in SUBSET Nat /\ k \in I
    OBVIOUS
  <2>2. \A i \in I : i \in Nat /\ ~(i \in 1 .. k - 1)
    OBVIOUS
  <2> HIDE DEF I
  <2>3. Min(I) \in I /\ \A i \in I : Min(I) <= i
    BY <2>1, LeastIndex
  <2>4. Min(I) \in 1 .. Len(s)
    BY <2>3 DEF I
  <2>5. Min(I) <= k /\ ~(Min(I) < k)
    BY <2>1, <2>2, <2>3, <2>4
  <2> DEFINE m == Min(I)
  <2>6. m \in Nat /\ k \in Nat /\ m <= k /\ ~(m < k)
    BY <2>4, <2>5
  <2> HIDE DEF m
  <2>7. m = k
    BY <2>6
  <2> QED
    BY <2>7 DEF m
<1>3. RemoveFirst(s, s[k]) = a \o b
  <2>1. I # {}
    OBVIOUS
  <2> QED
    BY <1>2, <2>1 DEF RemoveFirst, RemoveAt, SelectInSeq
<1>4. a \in Seq(S) /\ Len(a) = k - 1 /\ \A i \in 1 .. k - 1 : a[i] = s[i]
  BY <1>1, SubSeqProperties
<1>5. b \in Seq(S) /\ Len(b) = Len(s) - k /\ \A i \in 1 .. Len(s) - k : b[i] = s[k + i]
  <2>1. k + 1 \in Int /\ Len(s) \in Int /\ \A i \in k + 1 .. Len(s) : s[i] \in S
    BY <1>1
  <2>2. /\ b \in Seq(S)
        /\ Len(b) = IF k + 1 <= Len(s) THEN Len(s) - (k + 1) + 1 ELSE 0
        /\ \A i \in 1 .. Len(s) - (k + 1) + 1 : b[i] = s[(k + 1) + i - 1]
    BY <2>1, SubSeqProperties
  <2> HIDE DEF b
  <2> QED
    BY <1>1, <2>2
<1> HIDE DEF a, b, I
<1>6. /\ a \o b \in Seq(S)
      /\ Len(a \o b) = Len(a) + Len(b)
      /\ \A i \in 1 .. Len(a) + Len(b) :
           (a \o b)[i] = IF i <= Len(a) THEN a[i] ELSE b[i - Len(a)]
  BY <1>4, <1>5, ConcatProperties
<1>7. Len(a) + Len(b) = Len(s) - 1
  BY <1>1, <1>4, <1>5
<1>8. ASSUME NEW i \in 1 .. Len(s) - 1
      PROVE  (a \o b)[i] = IF i < k THEN s[i] ELSE s[i + 1]
  <2>1. CASE i < k
    BY <1>1, <1>4, <1>6, <1>7, <2>1
  <2>2. CASE ~(i < k)
    <3>1. i - Len(a) \in 1 .. Len(s) - k /\ k + (i - Len(a)) = i + 1 /\ ~(i <= Len(a))
      BY <1>1, <1>4, <2>2
    <3>2. (a \o b)[i] = b[i - Len(a)] /\ b[i - Len(a)] = s[k + (i - Len(a))]
      BY <1>5, <1>6, <1>7, <3>1
    <3> QED
      BY <2>2, <3>1, <3>2
  <2> QED
    BY <2>1, <2>2
<1> QED
  BY <1>3, <1>6, <1>7, <1>8

LEMMA RemoveFirstNone ==
  ASSUME NEW s, NEW x, ~Contains(s, x)
  PROVE  RemoveFirst(s, x) = s
BY DEF RemoveFirst, Contains

(* RemoveFirst without indices: what it makes of a queue that is longer by *)
(* an element.                                                             *)
LEMMA RemoveFirstAppend ==
  ASSUME NEW S, NEW s \in Seq(S), NEW e \in S, NEW x
  PROVE  RemoveFirst(Append(s, e), x) =
           IF Contains(s, x) THEN Append(RemoveFirst(s, x), e)
           ELSE IF e = x THEN s
           ELSE Append(s, e)
<1> DEFINE n == Len(s)
           t == Append(s, e)
<1>1. /\ n \in Nat /\ t \in Seq(S) /\ Len(t) = n + 1
      /\ t[n + 1] = e /\ \A i \in 1 .. n : t[i] = s[i]
  BY AppendProperties, LenProperties
<1>2. CASE Contains(s, x)
  <2>1. PICK k \in 1 .. n : s[k] = x /\ \A i \in 1 .. k - 1 : s[i] # x
    BY <1>2, FirstOccurrence
  <2> DEFINE r == RemoveFirst(s, x)
             q == RemoveFirst(t, x)
  <2>2. r \in Seq(S) /\ Len(r) = n - 1 /\
        \A i \in 1 .. n - 1 : r[i] = IF i < k THEN s[i] ELSE s[i + 1]
    BY <2>1, RemoveFirstAt
  <2>3. q \in Seq(S) /\ Len(q) = Len(t) - 1 /\
        \A i \in 1 .. Len(t) - 1 : q[i] = IF i < k THEN t[i] ELSE t[i + 1]
    <3> HIDE DEF n, t
    <3>1. k \in 1 .. Len(t) /\ t[k] = x /\ \A i \in 1 .. k - 1 : t[i] # t[k]
      BY <1>1, <2>1
    <3> QED
      BY <1>1, <3>1, RemoveFirstAt
  <2>4. /\ Append(r, e) \in Seq(S) /\ Len(Append(r, e)) = n
        /\ Append(r, e)[n] = e /\ \A i \in 1 .. n - 1 : Append(r, e)[i] = r[i]
    <3> HIDE DEF r
    <3>1. Len(r) + 1 = n
      BY <1>1, <2>2
    <3> QED
      BY <2>2, <3>1, AppendProperties
  <2>5. ASSUME NEW i \in 1 .. n PROVE q[i] = Append(r, e)[i]
    <3> HIDE DEF n, t, q, r
    <3> QED
      BY <1>1, <2>1, <2>2, <2>3, <2>4
  <2>6. q = Append(r, e)
    <3> HIDE DEF n, t, q, r
    <3>1. Len(q) = n
      BY <1>1, <2>3
    <3> QED
      BY <2>3, <2>4, <2>5, <3>1, SeqEqual
  <2> QED
    BY <1>2, <2>6
<1>3. CASE ~Contains(s, x) /\ e = x
  <2> DEFINE q == RemoveFirst(t, x)
  <2>1. \A i \in 1 .. n : s[i] # x
    BY <1>3 DEF Contains
  <2>2. q \in Seq(S) /\ Len(q) = Len(t) - 1 /\
        \A i \in 1 .. Len(t) - 1 : q[i] = IF i < n + 1 THEN t[i] ELSE t[i + 1]
    <3> HIDE DEF n, t
    <3>1. n + 1 \in 1 .. Len(t) /\ t[n + 1] = x /\ \A i \in 1 .. (n + 1) - 1 : t[i] # t[n + 1]
      BY <1>1, <1>3, <2>1
    <3> QED
      BY <1>1, <3>1, RemoveFirstAt
  <2>3. q = s
    <3>1. Len(q) = n /\ \A i \in 1 .. n : q[i] = s[i]
      <4> HIDE DEF n, t, q
      <4> QED
        BY <1>1, <2>2
    <3> HIDE DEF q
    <3> QED
      BY <2>2, <3>1, SeqEqual
  <2> QED
    BY <1>3, <2>3
<1>4. CASE ~Contains(s, x) /\ e # x
  BY <1>4, ContainsAppend, RemoveFirstNone
<1> QED
  BY <1>2, <1>3, <1>4

(* The result is a queue of the same elements, and its head is the old one *)
(* unless that is what was removed.                                        *)
LEMMA RemoveFirstKeepsHead ==
  ASSUME NEW S, NEW s \in Seq(S), NEW e
  PROVE  /\ RemoveFirst(s, e) \in Seq(S)
         /\ s # <<>> /\ Head(s) # e =>
              RemoveFirst(s, e) # <<>> /\ Head(RemoveFirst(s, e)) = Head(s)
<1> DEFINE r == RemoveFirst(s, e)
<1>1. CASE ~Contains(s, e)
  BY <1>1, RemoveFirstNone
<1>2. CASE Contains(s, e)
  <2>1. PICK k \in 1 .. Len(s) : s[k] = e /\ \A i \in 1 .. k - 1 : s[i] # e
    BY <1>2, FirstOccurrence
  <2>2. /\ r \in Seq(S) /\ Len(r) = Len(s) - 1
        /\ \A i \in 1 .. Len(s) - 1 : r[i] = IF i < k THEN s[i] ELSE s[i + 1]
    BY <2>1, RemoveFirstAt
  <2>3. ASSUME s # <<>>, Head(s) # e PROVE r # <<>> /\ Head(r) = Head(s)
    <3> HIDE DEF r
    <3>1. k > 1 /\ Len(s) - 1 >= 1
      BY <2>1, <2>3
    <3>2. r # <<>> /\ r[1] = s[1]
      BY <2>2, <3>1
    <3> QED
      BY <2>2, <2>3, <3>2
  <2> QED
    BY <2>2, <2>3
<1> QED
  BY <1>1, <1>2

(* A queue in which x is at most once is without it afterwards; everybody  *)
(* else stays in any case.                                                 *)
LEMMA RemoveFirstMembers ==
  ASSUME NEW S, NEW x
  PROVE  \A s \in Seq(S) : \A y \in S \ {x} :
           Contains(RemoveFirst(s, x), y) <=> Contains(s, y)
<1> DEFINE P == {s \in Seq(S) : \A y \in S \ {x} :
                   Contains(RemoveFirst(s, x), y) <=> Contains(s, y)}
<1>1. <<>> \in P
  BY ContainsEmpty, RemoveFirstNone, EmptySeq
<1>2. ASSUME NEW s \in P, NEW e \in S PROVE Append(s, e) \in P
  <2> DEFINE r == RemoveFirst(s, x)
             q == RemoveFirst(Append(s, e), x)
  <2>1. s \in Seq(S) /\ Append(s, e) \in Seq(S) /\ r \in Seq(S)
    BY AppendProperties, RemoveFirstKeepsHead
  <2>2. q = IF Contains(s, x) THEN Append(r, e) ELSE IF e = x THEN s ELSE Append(s, e)
    BY <2>1, RemoveFirstAppend
  <2> SUFFICES ASSUME NEW y \in S \ {x}
               PROVE  Contains(q, y) <=> Contains(Append(s, e), y)
    BY <2>1
  <2>3. Contains(r, y) <=> Contains(s, y)
    OBVIOUS
  <2> HIDE DEF r, q
  <2>4. /\ Contains(Append(s, e), y) <=> Contains(s, y) \/ y = e
        /\ Contains(Append(r, e), y) <=> Contains(r, y) \/ y = e
    BY <2>1, ContainsAppend
  <2> QED
    BY <2>2, <2>3, <2>4
<1>3. P = Seq(S)
  <2>1. P \in SUBSET Seq(S)
    OBVIOUS
  <2> HIDE DEF P
  <2> QED
    BY <1>1, <1>2, <2>1, SeqInduction
<1> QED
  BY <1>3

LEMMA InjectiveAppend ==
  ASSUME NEW S, NEW s \in Seq(S), NEW e \in S
  PROVE  IsInjective(Append(s, e)) <=> IsInjective(s) /\ ~Contains(s, e)
<1> DEFINE n == Len(s)
           t == Append(s, e)
<1>1. /\ n \in Nat /\ DOMAIN s = 1 .. n /\ DOMAIN t = 1 .. n + 1
      /\ t[n + 1] = e /\ \A i \in 1 .. n : t[i] = s[i]
  BY AppendProperties, LenProperties
<1> HIDE DEF n, t
<1>2. IsInjective(t) <=> IsInjective(s) /\ \A i \in 1 .. n : s[i] # e
  <2>1. ASSUME IsInjective(t) PROVE IsInjective(s) /\ \A i \in 1 .. n : s[i] # e
    <3>1. \A i \in 1 .. n : i \in 1 .. n + 1 /\ i # n + 1
      BY <1>1
    <3> QED
      BY <1>1, <2>1, <3>1 DEF IsInjective
  <2>2. ASSUME IsInjective(s), \A i \in 1 .. n : s[i] # e PROVE IsInjective(t)
    <3>1. \A i \in 1 .. n + 1 : i \in 1 .. n \/ i = n + 1
      BY <1>1
    <3> QED
      BY <1>1, <2>2, <3>1 DEF IsInjective
  <2> QED
    BY <2>1, <2>2
<1> QED
  BY <1>2 DEF Contains, n, t

LEMMA RemoveFirstInjective ==
  ASSUME NEW S, NEW x
  PROVE  \A s \in Seq(S) :
           IsInjective(s) => IsInjective(RemoveFirst(s, x)) /\ ~Contains(RemoveFirst(s, x), x)
<1> DEFINE P == {s \in Seq(S) :
                   IsInjective(s) =>
                     IsInjective(RemoveFirst(s, x)) /\ ~Contains(RemoveFirst(s, x), x)}
<1>1. <<>> \in P
  BY ContainsEmpty, RemoveFirstNone, EmptySeq
<1>2. ASSUME NEW s \in P, NEW e \in S PROVE Append(s, e) \in P
  <2> DEFINE r == RemoveFirst(s, x)
             q == RemoveFirst(Append(s, e), x)
  <2>1. s \in Seq(S) /\ Append(s, e) \in Seq(S) /\ r \in Seq(S)
    BY AppendProperties, RemoveFirstKeepsHead
  <2>2. q = IF Contains(s, x) THEN Append(r, e) ELSE IF e = x THEN s ELSE Append(s, e)
    BY <2>1, RemoveFirstAppend
  <2> SUFFICES ASSUME IsInjective(Append(s, e))
               PROVE  IsInjective(q) /\ ~Contains(q, x)
    BY <2>1
  <2>3. IsInjective(s) /\ ~Contains(s, e)
    BY <2>1, InjectiveAppend
  <2>4. IsInjective(r) /\ ~Contains(r, x)
    BY <2>3
  <2>5. Contains(r, e) => e = x \/ Contains(s, e)
    BY <2>1, RemoveFirstMembers
  <2> HIDE DEF r, q
  <2>6. CASE Contains(s, x)
    <3>1. e # x
      BY <2>3, <2>6
    <3>2. ~Contains(r, e)
      BY <2>3, <2>5, <3>1
    <3>3. IsInjective(Append(r, e))
      BY <2>1, <2>4, <3>2, InjectiveAppend
    <3>4. ~Contains(Append(r, e), x)
      BY <2>1, <2>4, <3>1, ContainsAppend
    <3> QED
      BY <2>2, <2>6, <3>3, <3>4
  <2>7. CASE ~Contains(s, x) /\ e = x
    BY <2>2, <2>3, <2>7
  <2>8. CASE ~Contains(s, x) /\ e # x
    <3>1. ~Contains(Append(s, e), x)
      BY <2>1, <2>8, ContainsAppend
    <3> QED
      BY <2>2, <2>8, <3>1
  <2> QED
    BY <2>6, <2>7, <2>8
<1>3. P = Seq(S)
  <2>1. P \in SUBSET Seq(S)
    OBVIOUS
  <2> HIDE DEF P
  <2> QED
    BY <1>1, <1>2, <2>1, SeqInduction
<1> QED
  BY <1>3

-------------------------------------------------------------------------------
(* Keep and RemoveFirst. *)

(* Somebody who is kept leaves the kept ones when it leaves the queue;     *)
(* when another one is removed from it, they do not notice.                *)
LEMMA KeepRemove ==
  ASSUME NEW S, NEW T, NEW x
  PROVE  \A s \in Seq(S) : Keep(RemoveFirst(s, x), T) =
                             IF x \in T THEN RemoveFirst(Keep(s, T), x) ELSE Keep(s, T)
<1> DEFINE Kept(s) == IF x \in T THEN RemoveFirst(Keep(s, T), x) ELSE Keep(s, T)
           P == {s \in Seq(S) : Keep(RemoveFirst(s, x), T) = Kept(s)}
<1>1. <<>> \in P
  <2>1. RemoveFirst(<<>>, x) = <<>>
    BY ContainsEmpty, RemoveFirstNone
  <2> QED
    BY <2>1, KeepEmpty, EmptySeq
<1>2. ASSUME NEW s \in P, NEW e \in S PROVE Append(s, e) \in P
  <2> DEFINE k == Keep(s, T)
             r == RemoveFirst(s, x)
  <2>1. /\ s \in Seq(S) /\ Append(s, e) \in Seq(S)
        /\ k \in Seq(S) /\ Append(k, e) \in Seq(S) /\ r \in Seq(S)
    BY AppendProperties, KeepMembers, RemoveFirstKeepsHead
  <2>2. Keep(r, T) = IF x \in T THEN RemoveFirst(k, x) ELSE k
    OBVIOUS
  <2>3. Keep(Append(s, e), T) = IF e \in T THEN Append(k, e) ELSE k
    BY <2>1, KeepAppend
  <2>4. Keep(Append(r, e), T) = IF e \in T THEN Append(Keep(r, T), e) ELSE Keep(r, T)
    BY <2>1, KeepAppend
  <2>5. RemoveFirst(Append(s, e), x) =
          IF Contains(s, x) THEN Append(r, e) ELSE IF e = x THEN s ELSE Append(s, e)
    BY <2>1, RemoveFirstAppend
  <2>6. RemoveFirst(Append(k, e), x) =
          IF Contains(k, x) THEN Append(RemoveFirst(k, x), e)
          ELSE IF e = x THEN k ELSE Append(k, e)
    BY <2>1, RemoveFirstAppend
  <2>7. ~Contains(k, x) => RemoveFirst(k, x) = k
    BY RemoveFirstNone
  <2>8. ~Contains(s, x) => r = s
    BY RemoveFirstNone
  <2>9. x \in S => (Contains(k, x) <=> Contains(s, x) /\ x \in T)
    BY <2>1, KeepMembers
  <2>10. (Contains(s, x) => x \in S) /\ (Contains(k, x) => x \in S)
    BY <2>1, ElementOfSeq DEF Contains
  <2> HIDE DEF k, r
  <2>11. Keep(RemoveFirst(Append(s, e), x), T) =
           IF x \in T THEN RemoveFirst(Keep(Append(s, e), T), x) ELSE Keep(Append(s, e), T)
    <3>1. CASE Contains(s, x)
      BY <2>2, <2>3, <2>4, <2>5, <2>6, <2>7, <2>9, <2>10, <3>1
    <3>2. CASE ~Contains(s, x)
      BY <2>2, <2>3, <2>4, <2>5, <2>6, <2>7, <2>8, <2>9, <2>10, <3>2 DEF k
    <3> QED
      BY <3>1, <3>2
  <2> QED
    BY <2>1, <2>11
<1>3. P = Seq(S)
  <2>1. P \in SUBSET Seq(S)
    OBVIOUS
  <2> HIDE DEF P
  <2> QED
    BY <1>1, <1>2, <2>1, SeqInduction
<1> QED
  BY <1>3

(* Whoever is in the queue once and is not kept any more is missing once.  *)
LEMMA KeepWithout ==
  ASSUME NEW S, NEW T, NEW x
  PROVE  \A s \in Seq(S) : IsInjective(s) => Keep(s, T \ {x}) = RemoveFirst(Keep(s, T), x)
<1> DEFINE P == {s \in Seq(S) :
                   IsInjective(s) => Keep(s, T \ {x}) = RemoveFirst(Keep(s, T), x)}
<1>1. <<>> \in P
  BY ContainsEmpty, RemoveFirstNone, KeepEmpty, EmptySeq
<1>2. ASSUME NEW s \in P, NEW e \in S PROVE Append(s, e) \in P
  <2> DEFINE k == Keep(s, T)
  <2>1. /\ s \in Seq(S) /\ Append(s, e) \in Seq(S)
        /\ k \in Seq(S) /\ Append(k, e) \in Seq(S)
    BY AppendProperties, KeepMembers
  <2> SUFFICES ASSUME IsInjective(Append(s, e))
               PROVE  Keep(Append(s, e), T \ {x}) = RemoveFirst(Keep(Append(s, e), T), x)
    BY <2>1
  <2>2. IsInjective(s) /\ ~Contains(s, e)
    BY <2>1, InjectiveAppend
  <2>3. Keep(s, T \ {x}) = RemoveFirst(k, x)
    BY <2>2
  <2>4. Keep(Append(s, e), T) = IF e \in T THEN Append(k, e) ELSE k
    BY <2>1, KeepAppend
  <2>5. Keep(Append(s, e), T \ {x}) =
          IF e \in T \ {x} THEN Append(RemoveFirst(k, x), e) ELSE RemoveFirst(k, x)
    BY <2>1, <2>3, KeepAppend
  <2>6. RemoveFirst(Append(k, e), x) =
          IF Contains(k, x) THEN Append(RemoveFirst(k, x), e)
          ELSE IF e = x THEN k ELSE Append(k, e)
    BY <2>1, RemoveFirstAppend
  <2>7. ~Contains(k, x) => RemoveFirst(k, x) = k
    BY RemoveFirstNone
  <2>8. ~Contains(k, e)
    BY <2>1, <2>2, KeepMembers
  <2> HIDE DEF k
  <2> QED
    BY <2>4, <2>5, <2>6, <2>7, <2>8
<1>3. P = Seq(S)
  <2>1. P \in SUBSET Seq(S)
    OBVIOUS
  <2> HIDE DEF P
  <2> QED
    BY <1>1, <1>2, <2>1, SeqInduction
<1> QED
  BY <1>3
================================================================================
