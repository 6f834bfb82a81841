--------------------------- MODULE SequenceLemmas ---------------------------
(***************************************************************************)
(* What the proofs about the queues of commands need to know of the        *)
(* operators of SequencesExt and Folds, of commands that wait in a         *)
(* sequence, of sums over finite sets, and of sequences in order.          *)
(***************************************************************************)
EXTENDS Integers, FiniteSets, Sequences, SequencesExt, SequenceTheorems,
        FiniteSetTheorems, TLAPS

(* Element m comes at most once in the sequence q.                         *)
Once(q, m) == \A j, k \in DOMAIN q : q[j] = m /\ q[k] = m => j = k

(* Whether e is known after the messages w: those in V are known now,      *)
(* message on makes e known, and message off ends that.                    *)
Outcome(w, on, off, e, V) ==
  \/ e \in V /\ \A k \in DOMAIN w : w[k] # off
  \/ \E n \in DOMAIN w : w[n] = on /\ \A k \in DOMAIN w : w[k] = off => k < n

-----------------------------------------------------------------------------
(* Induction in the form that the provers can use: over a set of numbers.  *)
LEMMA SetInduction ==
  ASSUME NEW T, 0 \in T, \A n \in Nat : n \in T => n + 1 \in T
  PROVE  Nat \subseteq T
<1> SUFFICES ASSUME NEW x \in Nat, x \notin T PROVE FALSE
  OBVIOUS
<1> DEFINE U == {n \in Nat : n \notin T}
<1>1. U \subseteq Nat /\ U # {}
  OBVIOUS
<1>2. PICK i \in U : \A j \in U : ~(<<j, i>> \in OpToRel(<, Nat))
  <2> HIDE DEF U
  <2> QED BY <1>1, NatLessThanWellFounded, WFMin
<1>3. \A j \in U : ~(j < i)
  BY <1>1, <1>2 DEF OpToRel
<1>4. i # 0 /\ i \in Nat
  BY <1>2
<1>5. i - 1 \in Nat /\ i - 1 < i
  BY <1>4
<1>6. i - 1 \in T
  BY <1>3, <1>5
<1>7. (i - 1) + 1 \in T /\ (i - 1) + 1 = i
  BY <1>4, <1>5, <1>6
<1> QED BY <1>2, <1>7

(* The n-fold application of a function g, from a on: it exists, and stays *)
(* in the domain of g.                                                     *)
Iterates(T, a, g, k) ==
  {f \in [0..k -> T] : \A i \in 0..k : f[i] = IF i = 0 THEN a ELSE g[f[i-1]]}

LEMMA IteratesExist ==
  ASSUME NEW T, NEW a \in T, NEW g \in [T -> T], NEW n \in Nat
  PROVE  Iterates(T, a, g, n) # {}
<1> DEFINE K == {k \in Nat : Iterates(T, a, g, k) # {}}
<1>1. 0 \in K
  <2> DEFINE h == [i \in 0..0 |-> a]
  <2>1. h \in [0..0 -> T] /\ \A i \in 0..0 : i = 0 /\ h[i] = a
    OBVIOUS
  <2> HIDE DEF h
  <2> QED BY <2>1 DEF Iterates
<1>2. ASSUME NEW k \in Nat, k \in K PROVE k + 1 \in K
  <2>1. PICK f : f \in Iterates(T, a, g, k)
    BY <1>2
  <2>2. /\ f \in [0..k -> T]
        /\ \A i \in 0..k : f[i] = IF i = 0 THEN a ELSE g[f[i-1]]
    BY <2>1 DEF Iterates
  <2> DEFINE h == [i \in 0..(k+1) |-> IF i <= k THEN f[i] ELSE g[f[k]]]
  <2>3. f[k] \in T
    BY <2>2
  <2>4. g[f[k]] \in T
    BY <2>3
  <2>5. h \in [0..(k+1) -> T]
    BY <2>2, <2>4
  <2>6. ASSUME NEW i \in 0..(k+1) PROVE h[i] = IF i = 0 THEN a ELSE g[h[i-1]]
    <3>1. CASE i <= k
      <4>1. i \in 0..k /\ h[i] = f[i]
        BY <3>1
      <4>2. i # 0 => h[i-1] = f[i-1]
        BY <3>1
      <4> QED BY <2>2, <4>1, <4>2
    <3>2. CASE ~(i <= k)
      <4>1. i = k + 1 /\ i # 0 /\ i - 1 = k
        BY <3>2
      <4>2. k \in 0..(k+1) /\ k + 1 \in 0..(k+1) /\ ~(k + 1 <= k) /\ k <= k
        OBVIOUS
      <4>3. h[k+1] = g[f[k]] /\ h[k] = f[k]
        BY <4>2
      <4> HIDE DEF h
      <4> QED BY <4>1, <4>3
    <3> QED BY <3>1, <3>2
  <2> HIDE DEF h
  <2>7. h \in Iterates(T, a, g, k + 1)
    BY <2>5, <2>6 DEF Iterates
  <2> QED BY <2>7
<1>3. Nat \subseteq K
  <2> HIDE DEF K
  <2> QED BY <1>1, <1>2, SetInduction
<1> QED BY <1>3

-----------------------------------------------------------------------------
(* The elements of sequences.                                              *)
LEMMA ConcatElements ==
  ASSUME NEW T, NEW p \in Seq(T), NEW q \in Seq(T)
  PROVE  /\ p \o q \in Seq(T)
         /\ ToSet(p \o q) = ToSet(p) \union ToSet(q)
<1>1. /\ p \o q \in Seq(T) /\ Len(p \o q) = Len(p) + Len(q)
      /\ DOMAIN (p \o q) = 1..(Len(p) + Len(q))
      /\ DOMAIN p = 1..Len(p) /\ DOMAIN q = 1..Len(q) /\ Len(p) \in Nat /\ Len(q) \in Nat
  BY ConcatProperties, LenProperties
<1>2. \A i \in 1..(Len(p) + Len(q)) :
        (p \o q)[i] = IF i <= Len(p) THEN p[i] ELSE q[i - Len(p)]
  BY ConcatProperties
<1>3. ASSUME NEW x \in ToSet(p \o q) PROVE x \in ToSet(p) \union ToSet(q)
  <2>1. PICK i \in 1..(Len(p) + Len(q)) : x = (p \o q)[i]
    BY <1>1, <1>3 DEF ToSet
  <2>2. CASE i <= Len(p)
    BY <1>1, <1>2, <2>1, <2>2 DEF ToSet
  <2>3. CASE ~(i <= Len(p))
    <3>1. i - Len(p) \in 1..Len(q)
      BY <1>1, <2>3
    <3> QED BY <1>1, <1>2, <2>1, <2>3, <3>1 DEF ToSet
  <2> QED BY <2>2, <2>3
<1>4. ASSUME NEW x \in ToSet(p) PROVE x \in ToSet(p \o q)
  <2>1. PICK i \in 1..Len(p) : x = p[i]
    BY <1>1, <1>4 DEF ToSet
  <2>2. i \in 1..(Len(p) + Len(q)) /\ (p \o q)[i] = x
    BY <1>1, <1>2, <2>1
  <2> QED BY <1>1, <2>2 DEF ToSet
<1>5. ASSUME NEW x \in ToSet(q) PROVE x \in ToSet(p \o q)
  <2>1. PICK i \in 1..Len(q) : x = q[i]
    BY <1>1, <1>5 DEF ToSet
  <2>2. i + Len(p) \in 1..(Len(p) + Len(q)) /\ (p \o q)[i + Len(p)] = x
    BY <1>1, <1>2, <2>1
  <2> QED BY <1>1, <2>2 DEF ToSet
<1> QED BY <1>1, <1>3, <1>4, <1>5

LEMMA ConcatOnce ==
  ASSUME NEW T, NEW p \in Seq(T), NEW q \in Seq(T), NEW m,
         Once(p, m), Once(q, m), ~(m \in ToSet(p) /\ m \in ToSet(q))
  PROVE  Once(p \o q, m)
<1>1. /\ DOMAIN (p \o q) = 1..(Len(p) + Len(q))
      /\ DOMAIN p = 1..Len(p) /\ DOMAIN q = 1..Len(q) /\ Len(p) \in Nat /\ Len(q) \in Nat
  BY ConcatProperties, LenProperties
<1>2. \A i \in 1..(Len(p) + Len(q)) :
        (p \o q)[i] = IF i <= Len(p) THEN p[i] ELSE q[i - Len(p)]
  BY ConcatProperties
<1>3. ASSUME NEW j \in 1..(Len(p) + Len(q)), NEW k \in 1..(Len(p) + Len(q)),
             (p \o q)[j] = m, (p \o q)[k] = m
      PROVE  j = k
  <2>1. CASE j <= Len(p) /\ k <= Len(p)
    BY <1>1, <1>2, <1>3, <2>1 DEF Once
  <2>2. CASE ~(j <= Len(p)) /\ ~(k <= Len(p))
    <3>1. j - Len(p) \in 1..Len(q) /\ k - Len(p) \in 1..Len(q)
      BY <1>1, <2>2
    <3>2. q[j - Len(p)] = m /\ q[k - Len(p)] = m
      BY <1>2, <1>3, <2>2
    <3>3. j - Len(p) = k - Len(p)
      BY <1>1, <3>1, <3>2 DEF Once
    <3> QED BY <1>1, <3>3
  <2>3. ASSUME NEW a \in 1..(Len(p) + Len(q)), NEW b \in 1..(Len(p) + Len(q)),
               (p \o q)[a] = m, (p \o q)[b] = m, a <= Len(p), ~(b <= Len(p))
        PROVE  FALSE
    <3>1. m \in ToSet(p)
      BY <1>1, <1>2, <2>3 DEF ToSet
    <3>2. b - Len(p) \in 1..Len(q) /\ q[b - Len(p)] = m
      BY <1>1, <1>2, <2>3
    <3> QED BY <1>1, <3>1, <3>2 DEF ToSet
  <2> QED BY <1>3, <2>1, <2>2, <2>3
<1> QED BY <1>1, <1>3 DEF Once

(* The element that leaves a sequence at its head.                         *)
LEMMA TailElements ==
  ASSUME NEW T, NEW q \in Seq(T), q # <<>>
  PROVE  /\ Head(q) \in T /\ Tail(q) \in Seq(T) /\ Head(q) \in ToSet(q)
         /\ ToSet(q) = {Head(q)} \union ToSet(Tail(q))
         /\ q = <<Head(q)>> \o Tail(q)
         /\ \A m : Once(q, m) => /\ Once(Tail(q), m)
                                 /\ m = Head(q) => m \notin ToSet(Tail(q))
<1>1. /\ Head(q) \in T /\ Tail(q) \in Seq(T) /\ Len(Tail(q)) = Len(q) - 1
      /\ \A i \in 1..Len(Tail(q)) : Tail(q)[i] = q[i + 1]
  BY HeadTailProperties
<1>2. Head(q) = q[1]
  OBVIOUS
<1>3. /\ Len(q) \in Nat /\ Len(q) >= 1
      /\ DOMAIN q = 1..Len(q) /\ DOMAIN Tail(q) = 1..(Len(q) - 1)
  BY <1>1, LenProperties, EmptySeq
<1>4. Head(q) \in ToSet(q)
  BY <1>2, <1>3 DEF ToSet
<1>5. ToSet(Tail(q)) \subseteq ToSet(q)
  <2> SUFFICES ASSUME NEW x \in ToSet(Tail(q)) PROVE x \in ToSet(q)
    OBVIOUS
  <2>1. PICK i \in 1..(Len(q) - 1) : x = Tail(q)[i]
    BY <1>3 DEF ToSet
  <2>2. x = q[i + 1] /\ i + 1 \in 1..Len(q)
    BY <1>1, <1>3, <2>1
  <2> QED BY <1>3, <2>2 DEF ToSet
<1>6. ASSUME NEW x \in ToSet(q), x # Head(q) PROVE x \in ToSet(Tail(q))
  <2>1. PICK i \in 1..Len(q) : x = q[i]
    BY <1>3 DEF ToSet
  <2>2. i - 1 \in 1..(Len(q) - 1) /\ (i - 1) + 1 = i
    BY <1>2, <1>3, <1>6, <2>1
  <2>3. Tail(q)[i - 1] = x
    BY <1>1, <2>1, <2>2
  <2> QED BY <1>3, <2>2, <2>3 DEF ToSet
<1>7. ASSUME NEW m, Once(q, m) PROVE Once(Tail(q), m) /\ (m = Head(q) => m \notin ToSet(Tail(q)))
  <2>1. \A i \in 1..(Len(q) - 1) : Tail(q)[i] = q[i + 1] /\ i + 1 \in 1..Len(q) /\ i + 1 # 1
    BY <1>1, <1>3
  <2>2. Once(Tail(q), m)
    <3> SUFFICES ASSUME NEW j \in 1..(Len(q) - 1), NEW k \in 1..(Len(q) - 1),
                        Tail(q)[j] = m, Tail(q)[k] = m
                 PROVE  j = k
      BY <1>3 DEF Once
    <3>1. j + 1 = k + 1
      BY <1>3, <1>7, <2>1 DEF Once
    <3> QED BY <3>1
  <2>3. ASSUME m = Head(q), m \in ToSet(Tail(q)) PROVE FALSE
    <3>1. PICK i \in 1..(Len(q) - 1) : m = Tail(q)[i]
      BY <1>3, <2>3 DEF ToSet
    <3>2. 1 = i + 1
      BY <1>2, <1>3, <1>7, <2>1, <2>3, <3>1 DEF Once
    <3> QED BY <3>2
  <2> QED BY <2>2, <2>3
<1>8. q = <<Head(q)>> \o Tail(q)
  <2>1. <<Head(q)>> \in Seq(T) /\ Len(<<Head(q)>>) = 1 /\ <<Head(q)>>[1] = Head(q)
    BY <1>1
  <2>2. /\ <<Head(q)>> \o Tail(q) \in Seq(T)
        /\ Len(<<Head(q)>> \o Tail(q)) = Len(q)
        /\ \A i \in 1..Len(q) :
             (<<Head(q)>> \o Tail(q))[i] = IF i <= 1 THEN <<Head(q)>>[i] ELSE Tail(q)[i - 1]
    BY <1>1, <1>3, <2>1, ConcatProperties
  <2>3. ASSUME NEW i \in 1..Len(q) PROVE (<<Head(q)>> \o Tail(q))[i] = q[i]
    <3>1. CASE i = 1
      BY <1>2, <2>1, <2>2, <3>1
    <3>2. CASE i # 1
      <4>1. i - 1 \in 1..Len(Tail(q)) /\ (i - 1) + 1 = i /\ ~(i <= 1)
        BY <1>1, <1>3, <3>2
      <4> QED BY <1>1, <2>2, <4>1
    <3> QED BY <3>1, <3>2
  <2> QED BY <2>2, <2>3, SeqEqual
<1> QED BY <1>1, <1>4, <1>5, <1>6, <1>7, <1>8

-----------------------------------------------------------------------------
(* The elements of a finite set in some order.                             *)
LEMMA SetToSeqElements ==
  ASSUME NEW S, IsFiniteSet(S)
  PROVE  /\ SetToSeq(S) \in Seq(S) /\ ToSet(SetToSeq(S)) = S
         /\ \A m : Once(SetToSeq(S), m)
<1> DEFINE n == Cardinality(S)
           q == SetToSeq(S)
<1>1. n \in Nat /\ ExistsBijection(1..n, S)
  BY FS_CardinalityType
<1>2. \E f \in [1..n -> S] : IsInjective(f)
  BY <1>1 DEF ExistsBijection, Bijection, Injection
<1>3. q \in [1..n -> S] /\ IsInjective(q)
  BY <1>2 DEF SetToSeq
<1> HIDE DEF q
<1>4. q \in Injection(1..n, S)
  BY <1>3 DEF Injection
<1>5. IsFiniteSet(1..n) /\ Cardinality(1..n) = n
  BY <1>1, FS_Interval
<1>6. q \in Surjection(1..n, S)
  BY <1>4, <1>5, FS_Injection
<1>7. q \in Seq(S)
  BY <1>1, <1>3
<1>8. DOMAIN q = 1..n
  BY <1>3
<1>9. ToSet(q) = S
  BY <1>3, <1>6, <1>8 DEF ToSet, Surjection
<1>10. \A m : Once(q, m)
  BY <1>3 DEF Once, IsInjective
<1> QED BY <1>7, <1>9, <1>10 DEF q

(* Sequences of sequences: the recursive function of FlattenSeq exists.    *)
PartlyFlat(T, s, k) ==
  {f \in [1..k -> Seq(T)] :
     \A i \in 1..k : f[i] = IF i = 1 THEN s[i] ELSE f[i-1] \o s[i]}

LEMMA FlattenExists ==
  ASSUME NEW T, NEW n \in Nat, n # 0, NEW s \in [1..n -> Seq(T)]
  PROVE  \E f : f = [i \in 1..n |-> IF i = 1 THEN s[i] ELSE f[i-1] \o s[i]]
<1> DEFINE K == {k \in Nat : k <= n /\ k # 0 => PartlyFlat(T, s, k) # {}}
<1>1. 0 \in K
  OBVIOUS
<1>2. ASSUME NEW k \in Nat, k \in K PROVE k + 1 \in K
  <2> SUFFICES ASSUME k + 1 <= n PROVE PartlyFlat(T, s, k + 1) # {}
    OBVIOUS
  <2>1. CASE k = 0
    <3> DEFINE g == [i \in 1..1 |-> s[1]]
    <3>1. g \in [1..1 -> Seq(T)]
      OBVIOUS
    <3>2. \A i \in 1..1 : i = 1 /\ g[i] = s[i]
      OBVIOUS
    <3>3. g \in PartlyFlat(T, s, 1)
      BY <3>1, <3>2 DEF PartlyFlat
    <3> QED BY <2>1, <3>3
  <2>2. CASE k # 0
    <3>0. PICK f : f \in PartlyFlat(T, s, k)
      BY <1>2, <2>2
    <3>1. /\ f \in [1..k -> Seq(T)]
          /\ \A i \in 1..k : f[i] = IF i = 1 THEN s[i] ELSE f[i-1] \o s[i]
      BY <3>0 DEF PartlyFlat
    <3> DEFINE g == [i \in 1..(k+1) |-> IF i <= k THEN f[i] ELSE f[k] \o s[k+1]]
    <3>2. f[k] \o s[k+1] \in Seq(T)
      <4>1. f[k] \in Seq(T) /\ s[k+1] \in Seq(T)
        BY <2>2, <3>1
      <4> QED BY <4>1, ConcatProperties
    <3>3. g \in [1..(k+1) -> Seq(T)]
      BY <3>1, <3>2
    <3>4. ASSUME NEW i \in 1..(k+1) PROVE g[i] = IF i = 1 THEN s[i] ELSE g[i-1] \o s[i]
      <4>1. CASE i <= k
        <5>1. i \in 1..k /\ g[i] = f[i]
          BY <4>1
        <5>2. i # 1 => g[i-1] = f[i-1]
          BY <4>1
        <5> QED BY <3>1, <5>1, <5>2
      <4>2. CASE ~(i <= k)
        <5>1. i = k + 1 /\ i # 1 /\ i - 1 = k
          BY <2>2, <4>2
        <5>2. k \in 1..(k+1) /\ k + 1 \in 1..(k+1) /\ ~(k + 1 <= k) /\ k <= k
          BY <2>2
        <5>3. g[k+1] = f[k] \o s[k+1] /\ g[k] = f[k]
          BY <5>2
        <5> QED BY <5>1, <5>3
      <4> QED BY <4>1, <4>2
    <3> HIDE DEF g
    <3> QED BY <3>3, <3>4 DEF PartlyFlat
  <2> QED BY <2>1, <2>2
<1>3. n \in K
  <2> HIDE DEF K
  <2> QED BY <1>1, <1>2, SetInduction
<1>4. PICK f : f \in PartlyFlat(T, s, n)
  BY <1>3
<1>5. f = [i \in 1..n |-> IF i = 1 THEN s[i] ELSE f[i-1] \o s[i]]
  BY <1>4 DEF PartlyFlat
<1> QED BY <1>5

LEMMA FlattenElements ==
  ASSUME NEW T, NEW n \in Nat, n # 0, NEW s \in [1..n -> Seq(T)]
  PROVE  /\ FlattenSeq(s) \in Seq(T)
         /\ ToSet(FlattenSeq(s)) = UNION {ToSet(s[k]) : k \in 1..n}
         /\ \A m : /\ \A k \in 1..n : Once(s[k], m)
                   /\ \A j, k \in 1..n : m \in ToSet(s[j]) /\ m \in ToSet(s[k]) => j = k
                   => Once(FlattenSeq(s), m)
<1> DEFINE f == CHOOSE g : g = [i \in 1..n |-> IF i = 1 THEN s[i] ELSE g[i-1] \o s[i]]
<1>1. f = [i \in 1..n |-> IF i = 1 THEN s[i] ELSE f[i-1] \o s[i]]
  BY FlattenExists
<1>2. Len(s) = n
  OBVIOUS
<1>3. FlattenSeq(s) = f[n]
  BY <1>2 DEF FlattenSeq
<1> HIDE DEF f
<1>4. f[1] = s[1] /\ \A i \in 2..n : f[i] = f[i-1] \o s[i]
  <2>1. 1 \in 1..n /\ \A i \in 2..n : i \in 1..n /\ i # 1
    OBVIOUS
  <2>2. \A i \in 1..n : f[i] = IF i = 1 THEN s[i] ELSE f[i-1] \o s[i]
    BY <1>1
  <2> QED BY <2>1, <2>2
<1> DEFINE All(k) == UNION {ToSet(s[j]) : j \in 1..k}
           K == {k \in Nat : k <= n /\ k # 0 => f[k] \in Seq(T) /\ ToSet(f[k]) = All(k)}
<1>5. 0 \in K
  OBVIOUS
<1>6. ASSUME NEW k \in Nat, k \in K PROVE k + 1 \in K
  <2> SUFFICES ASSUME k + 1 <= n PROVE f[k+1] \in Seq(T) /\ ToSet(f[k+1]) = All(k+1)
    OBVIOUS
  <2>1. CASE k = 0
    <3>1. k + 1 = 1 /\ 1..1 = {1}
      BY <2>1
    <3> QED BY <1>4, <3>1
  <2>2. CASE k # 0
    <3>1. f[k+1] = f[k] \o s[k+1]
      <4>1. k + 1 \in 2..n /\ (k + 1) - 1 = k
        BY <2>2
      <4> QED BY <1>4, <4>1
    <3>2. f[k] \in Seq(T) /\ ToSet(f[k]) = All(k) /\ s[k+1] \in Seq(T)
      BY <1>6, <2>2
    <3>3. f[k+1] \in Seq(T) /\ ToSet(f[k+1]) = All(k) \union ToSet(s[k+1])
      BY <3>1, <3>2, ConcatElements
    <3>4. 1..(k+1) = (1..k) \union {k+1}
      OBVIOUS
    <3>5. All(k+1) = All(k) \union ToSet(s[k+1])
      BY <3>4
    <3> QED BY <3>3, <3>5
  <2> QED BY <2>1, <2>2
<1>7. \A k \in 1..n : f[k] \in Seq(T) /\ ToSet(f[k]) = All(k)
  <2>1. Nat \subseteq K
    <3> HIDE DEF K
    <3> QED BY <1>5, <1>6, SetInduction
  <2>2. ASSUME NEW k \in 1..n PROVE f[k] \in Seq(T) /\ ToSet(f[k]) = All(k)
    <3> HIDE DEF All
    <3>1. k \in Nat /\ k <= n /\ k # 0
      OBVIOUS
    <3>2. k \in K
      <4> HIDE DEF K
      <4> QED BY <2>1, <3>1
    <3> QED BY <3>1, <3>2
  <2> QED BY <2>2
<1>8. ASSUME NEW m, \A k \in 1..n : Once(s[k], m),
             \A j, k \in 1..n : m \in ToSet(s[j]) /\ m \in ToSet(s[k]) => j = k
      PROVE  Once(f[n], m)
  <2> DEFINE L == {k \in Nat : k <= n /\ k # 0 => Once(f[k], m)}
  <2>1. 0 \in L
    OBVIOUS
  <2>2. ASSUME NEW k \in Nat, k \in L PROVE k + 1 \in L
    <3> SUFFICES ASSUME k + 1 <= n PROVE Once(f[k+1], m)
      OBVIOUS
    <3>1. CASE k = 0
      <4>1. k + 1 = 1 /\ 1 \in 1..n
        BY <3>1
      <4> QED BY <1>4, <1>8, <4>1
    <3>2. CASE k # 0
      <4>1. k + 1 \in 2..n /\ (k + 1) - 1 = k /\ k \in 1..n /\ k + 1 \in 1..n
        BY <3>2
      <4>2. f[k+1] = f[k] \o s[k+1]
        BY <1>4, <4>1
      <4>3. Once(f[k], m) /\ Once(s[k+1], m)
        BY <1>8, <2>2, <3>2, <4>1
      <4>4. ~(m \in ToSet(f[k]) /\ m \in ToSet(s[k+1]))
        <5> SUFFICES ASSUME m \in ToSet(f[k]), m \in ToSet(s[k+1]) PROVE FALSE
          OBVIOUS
        <5>1. m \in All(k)
          BY <1>7, <4>1
        <5>2. PICK j \in 1..k : m \in ToSet(s[j])
          BY <5>1
        <5>3. j = k + 1
          BY <1>8, <4>1, <5>2
        <5> QED BY <5>3
      <4>5. f[k] \in Seq(T) /\ s[k+1] \in Seq(T)
        BY <1>7, <4>1
      <4> QED BY <4>2, <4>3, <4>4, <4>5, ConcatOnce
    <3> QED BY <3>1, <3>2
  <2>3. Nat \subseteq L
    <3> HIDE DEF L
    <3> QED BY <2>1, <2>2, SetInduction
  <2> QED BY <2>3
<1>9. n \in 1..n
  OBVIOUS
<1> QED BY <1>3, <1>7, <1>8, <1>9

-----------------------------------------------------------------------------
(* What is known when messages are sent and arrive.                        *)
LEMMA OutcomeEmpty ==
  ASSUME NEW on, NEW off, NEW e, NEW V
  PROVE  Outcome(<<>>, on, off, e, V) <=> e \in V
BY DEF Outcome

LEMMA OutcomeAppend ==
  ASSUME NEW T, NEW w \in Seq(T), NEW m \in T, NEW on, NEW off, on # off, NEW e, NEW V
  PROVE  /\ m = on => Outcome(Append(w, m), on, off, e, V)
         /\ m = off => ~Outcome(Append(w, m), on, off, e, V)
         /\ m # on /\ m # off =>
              (Outcome(Append(w, m), on, off, e, V) <=> Outcome(w, on, off, e, V))
<1>1. PICK u, n : u = Append(w, m) /\ n = Len(w)
  OBVIOUS
<1>2. /\ n \in Nat /\ DOMAIN w = 1..n /\ DOMAIN u = 1..(n + 1) /\ u[n + 1] = m
      /\ \A k \in 1..n : u[k] = w[k]
  BY <1>1, AppendProperties, LenProperties
<1>3. \A k : k \in DOMAIN u <=> k \in DOMAIN w \/ k = n + 1
  BY <1>2
<1>4. \A k \in DOMAIN w : k < n + 1 /\ u[k] = w[k] /\ k \in Nat
  BY <1>2
<1>5. m = on => Outcome(u, on, off, e, V)
  BY <1>2, <1>3, <1>4 DEF Outcome
<1>6. m = off => ~Outcome(u, on, off, e, V)
  BY <1>2, <1>3, <1>4 DEF Outcome
<1>7. m # on /\ m # off => (Outcome(u, on, off, e, V) <=> Outcome(w, on, off, e, V))
  BY <1>2, <1>3, <1>4 DEF Outcome
<1> QED BY <1>1, <1>5, <1>6, <1>7

LEMMA OutcomeTail ==
  ASSUME NEW T, NEW w \in Seq(T), w # <<>>, NEW m, m = Head(w), NEW on, NEW off, on # off,
         NEW e, NEW V, NEW W,
         m = on => e \in W, m = off => e \notin W, m # on /\ m # off => (e \in W <=> e \in V)
  PROVE  Outcome(w, on, off, e, V) <=> Outcome(Tail(w), on, off, e, W)
<1>1. PICK u, n : u = Tail(w) /\ n = Len(w)
  OBVIOUS
<1>2. /\ n \in Nat /\ n # 0 /\ DOMAIN w = 1..n /\ DOMAIN u = 1..(n - 1) /\ w[1] = m
      /\ \A k \in 1..(n - 1) : u[k] = w[k + 1]
  BY <1>1, HeadTailProperties, LenProperties, EmptySeq
<1>3. ASSUME Outcome(w, on, off, e, V) PROVE Outcome(u, on, off, e, W)
  <2>1. CASE e \in V /\ \A k \in DOMAIN w : w[k] # off
    <3>1. m # off /\ \A k \in DOMAIN u : u[k] # off
      BY <1>2, <2>1
    <3>2. e \in W
      BY <2>1, <3>1
    <3> QED BY <3>1, <3>2 DEF Outcome
  <2>2. ASSUME NEW j \in DOMAIN w, w[j] = on, \A k \in DOMAIN w : w[k] = off => k < j
        PROVE  Outcome(u, on, off, e, W)
    <3>1. CASE j = 1
      <4>1. \A k \in DOMAIN u : u[k] # off
        BY <1>2, <2>2, <3>1
      <4> QED BY <1>2, <2>2, <3>1, <4>1 DEF Outcome
    <3>2. CASE j # 1
      <4>1. j - 1 \in DOMAIN u /\ u[j - 1] = on
        BY <1>2, <2>2, <3>2
      <4>2. \A k \in DOMAIN u : u[k] = off => k < j - 1
        BY SMTT(60), <1>2, <2>2
      <4> QED BY <4>1, <4>2 DEF Outcome
    <3> QED BY <3>1, <3>2
  <2> QED BY <1>3, <2>1, <2>2 DEF Outcome
<1>4. ASSUME Outcome(u, on, off, e, W) PROVE Outcome(w, on, off, e, V)
  <2>1. CASE e \in W /\ \A k \in DOMAIN u : u[k] # off
    <3>1. m # off /\ \A k \in DOMAIN w : w[k] # off
      <4>1. m # off
        BY <2>1
      <4>2. ASSUME NEW k \in DOMAIN w, w[k] = off PROVE FALSE
        <5>1. k # 1
          BY <1>2, <4>1, <4>2
        <5>2. k - 1 \in DOMAIN u /\ u[k - 1] = w[k]
          BY <1>2, <5>1
        <5> QED BY <2>1, <4>2, <5>2
      <4> QED BY <4>1, <4>2
    <3>2. CASE m = on
      <4>1. 1 \in DOMAIN w /\ w[1] = on
        BY <1>2, <3>2
      <4> QED BY <3>1, <4>1 DEF Outcome
    <3>3. CASE m # on
      BY <2>1, <3>1, <3>3 DEF Outcome
    <3> QED BY <3>2, <3>3
  <2>2. ASSUME NEW j \in DOMAIN u, u[j] = on, \A k \in DOMAIN u : u[k] = off => k < j
        PROVE  Outcome(w, on, off, e, V)
    <3>1. j + 1 \in DOMAIN w /\ w[j + 1] = on
      BY <1>2, <2>2
    <3>2. ASSUME NEW k \in DOMAIN w, w[k] = off PROVE k < j + 1
      <4>1. CASE k = 1
        BY <1>2, <4>1
      <4>2. CASE k # 1
        <5>1. k - 1 \in DOMAIN u /\ u[k - 1] = w[k]
          BY <1>2, <4>2
        <5> QED BY <1>2, <2>2, <3>2, <5>1
      <4> QED BY <4>1, <4>2
    <3> QED BY <3>1, <3>2 DEF Outcome
  <2> QED BY <1>4, <2>1, <2>2 DEF Outcome
<1> QED BY <1>1, <1>3, <1>4

-----------------------------------------------------------------------------
(* An entity and a client that is told of it: the server sends create,     *)
(* waits until it is acknowledged (created), sends destroy, and waits      *)
(* again (destroyed).  f is what the server has noted of the client; the   *)
(* commands H are on their way (q those of a stream that were not sent, w  *)
(* those that were), the acknowledgements A as well, and the client knows  *)
(* the entities V, of which this is e.                                     *)

Tracked(H, q, w, A, f, create, destroy, created, destroyed, e, V) ==
  LET known == Outcome(w, create, destroy, e, V)
  IN /\ Once(q, create) /\ Once(q, destroy)
     /\ \/ /\ f = "NONE" /\ ~known /\ create \notin H /\ destroy \notin H
           /\ created \notin A /\ destroyed \notin A
        \/ /\ f = "CREATING" /\ ~known /\ create \in H /\ destroy \notin H
           /\ created \notin A /\ destroyed \notin A
        \/ /\ f = "CREATING" /\ known /\ create \notin H /\ destroy \notin H
           /\ created \in A /\ destroyed \notin A
        \/ /\ f = "CREATED" /\ known /\ create \notin H /\ destroy \notin H
           /\ created \notin A /\ destroyed \notin A
        \/ /\ f = "DELETING" /\ known /\ create \notin H /\ destroy \in H
           /\ created \notin A /\ destroyed \notin A
        \/ /\ f = "DELETING" /\ ~known /\ create \notin H /\ destroy \notin H
           /\ created \notin A /\ destroyed \in A

(* What a handler may do to it: it notes g, queues the commands o, and     *)
(* leaves the acknowledgements B.                                          *)
Transition(f, g, o, A, B, create, destroy, created, destroyed) ==
  \/ /\ g = f /\ create \notin o /\ destroy \notin o
     /\ created \in B <=> created \in A
     /\ destroyed \in B <=> destroyed \in A
  \/ /\ f = "NONE" /\ g = "CREATING" /\ create \in o /\ destroy \notin o
     /\ created \in B <=> created \in A
     /\ destroyed \in B <=> destroyed \in A
  \/ /\ f = "CREATED" /\ g = "DELETING" /\ create \notin o /\ destroy \in o
     /\ created \in B <=> created \in A
     /\ destroyed \in B <=> destroyed \in A
  \/ /\ created \in A /\ created \notin B /\ create \notin o
     /\ destroyed \in B <=> destroyed \in A
     /\ \/ g = "CREATED" /\ destroy \notin o
        \/ g = "DELETING" /\ destroy \in o
  \/ /\ destroyed \in A /\ destroyed \notin B /\ g = "NONE" /\ create \notin o /\ destroy \notin o
     /\ created \in B <=> created \in A

(* The commands o were queued, m possibly among them: those on their way   *)
(* were H and are I, the queue of a stream was q and is r.                 *)
Queued(H, I, q, r, o, m) ==
  /\ m \in I <=> m \in H \/ m \in o
  /\ Once(q, m) /\ ~(m \in H /\ m \in o) => Once(r, m)

LEMMA TrackedQueued ==
  ASSUME NEW H, NEW I, NEW q, NEW r, NEW w, NEW A, NEW B, NEW f, NEW g, NEW o,
         NEW create, NEW destroy, NEW created, NEW destroyed, NEW e, NEW V,
         Tracked(H, q, w, A, f, create, destroy, created, destroyed, e, V),
         Transition(f, g, o, A, B, create, destroy, created, destroyed),
         Queued(H, I, q, r, o, create), Queued(H, I, q, r, o, destroy)
  PROVE  Tracked(I, r, w, B, g, create, destroy, created, destroyed, e, V)
<1>1. PICK K \in BOOLEAN : K <=> Outcome(w, create, destroy, e, V)
  OBVIOUS
<1>2. Once(r, create) /\ Once(r, destroy)
  BY DEF Tracked, Transition, Queued
<1> QED BY <1>1, <1>2 DEF Tracked, Transition, Queued

(* What command m makes known of e: W after it, V before.                  *)
Tells(m, create, destroy, e, V, W) ==
  /\ m = create => e \in W
  /\ m = destroy => e \notin W
  /\ m # create /\ m # destroy => (e \in W <=> e \in V)

(* Command m is sent: it is no longer in I, and it is acknowledged by B.   *)
Departed(H, I, r, A, B, m, x, ack) ==
  /\ m = x => x \in H /\ x \notin I /\ ack \in B
  /\ m # x => (x \in I <=> x \in H) /\ (ack \in B <=> ack \in A)
  /\ Once(r, x)

LEMMA TrackedSent ==
  ASSUME NEW H, NEW I, NEW q, NEW r, NEW w, NEW u, NEW A, NEW B, NEW f, NEW m,
         NEW create, NEW destroy, NEW created, NEW destroyed, NEW e, NEW V, NEW W,
         Tracked(H, q, w, A, f, create, destroy, created, destroyed, e, V), create # destroy,
         Departed(H, I, r, A, B, m, create, created), Departed(H, I, r, A, B, m, destroy, destroyed),
         m = create => Outcome(u, create, destroy, e, W),
         m = destroy => ~Outcome(u, create, destroy, e, W),
         m # create /\ m # destroy =>
           (Outcome(u, create, destroy, e, W) <=> Outcome(w, create, destroy, e, V))
  PROVE  Tracked(I, r, u, B, f, create, destroy, created, destroyed, e, W)
BY DEF Tracked, Departed

-----------------------------------------------------------------------------
(* The value that a client has in the end: it has now, and the messages s  *)
(* are on their way to it, of which those in X are about the value; last   *)
(* sets it to v.                                                           *)
Settles(s, last, X, v, now) ==
  \/ now = v /\ \A k \in DOMAIN s : s[k] \notin X
  \/ \E n \in DOMAIN s : s[n] = last /\ \A k \in DOMAIN s : s[k] \in X => k <= n

LEMMA SettlesFrame ==
  ASSUME NEW T, NEW s \in Seq(T), NEW o \in Seq(T), NEW last, NEW X, NEW v, NEW now,
         Settles(s, last, X, v, now), \A m \in ToSet(o) : m \notin X
  PROVE  Settles(s \o o, last, X, v, now)
<1>1. PICK u, n, l : u = s \o o /\ n = Len(s) /\ l = Len(o)
  OBVIOUS
<1>2. /\ n \in Nat /\ l \in Nat /\ DOMAIN s = 1..n /\ DOMAIN o = 1..l /\ DOMAIN u = 1..(n + l)
      /\ \A k \in 1..(n + l) : u[k] = IF k <= n THEN s[k] ELSE o[k - n]
  BY <1>1, ConcatProperties, LenProperties
<1>3. \A k \in DOMAIN o : o[k] \notin X
  BY DEF ToSet
<1>4. \A k \in DOMAIN u : u[k] \in X => k \in DOMAIN s /\ s[k] \in X
  <2> SUFFICES ASSUME NEW k \in DOMAIN u, u[k] \in X PROVE k \in DOMAIN s /\ s[k] \in X
    OBVIOUS
  <2>1. CASE k <= n
    BY <1>2, <2>1
  <2>2. CASE ~(k <= n)
    <3>1. k - n \in DOMAIN o /\ u[k] = o[k - n]
      BY <1>2, <2>2
    <3> QED BY <1>3, <3>1
  <2> QED BY <2>1, <2>2
<1>5. \A k \in DOMAIN s : k \in DOMAIN u /\ u[k] = s[k]
  BY <1>2
<1>6. Settles(u, last, X, v, now)
  BY <1>4, <1>5 DEF Settles
<1> QED BY <1>1, <1>6

LEMMA SettlesLast ==
  ASSUME NEW T, NEW s \in Seq(T), NEW last \in T, NEW X, NEW v, NEW now
  PROVE  Settles(s \o <<last>>, last, X, v, now)
<1>1. PICK u, n : u = s \o <<last>> /\ n = Len(s)
  OBVIOUS
<1>2. <<last>> \in Seq(T) /\ Len(<<last>>) = 1
  OBVIOUS
<1>3. /\ n \in Nat /\ u \in Seq(T) /\ Len(u) = n + 1
      /\ \A k \in 1..(n + 1) : u[k] = IF k <= n THEN s[k] ELSE <<last>>[k - n]
  BY <1>1, <1>2, ConcatProperties, LenProperties
<1>4. DOMAIN u = 1..(n + 1) /\ u[n + 1] = last
  BY <1>3, LenProperties
<1>5. n + 1 \in DOMAIN u /\ \A k \in DOMAIN u : k <= n + 1
  BY <1>3, <1>4
<1>6. Settles(u, last, X, v, now)
  BY <1>4, <1>5 DEF Settles
<1> QED BY <1>1, <1>6

LEMMA SettlesTail ==
  ASSUME NEW T, NEW s \in Seq(T), s # <<>>, NEW last, NEW X, last \in X, NEW v, NEW now, NEW now2,
         Settles(s, last, X, v, now), NEW m, m = Head(s), m \notin X => now2 = now,
         m = last /\ (\A x \in ToSet(Tail(s)) : x \notin X) => now2 = v
  PROVE  Settles(Tail(s), last, X, v, now2)
<1>1. PICK u, l : u = Tail(s) /\ l = Len(s)
  OBVIOUS
<1>2. /\ l \in Nat /\ l # 0 /\ DOMAIN s = 1..l /\ DOMAIN u = 1..(l - 1) /\ s[1] = m
      /\ \A k \in 1..(l - 1) : u[k] = s[k + 1]
  BY <1>1, HeadTailProperties, LenProperties, EmptySeq
<1>3. CASE now = v /\ \A k \in DOMAIN s : s[k] \notin X
  <2>1. m \notin X /\ \A k \in DOMAIN u : u[k] \notin X
    BY <1>2, <1>3
  <2> QED BY <1>1, <1>3, <2>1 DEF Settles
<1>4. ASSUME NEW n \in DOMAIN s, s[n] = last, \A k \in DOMAIN s : s[k] \in X => k <= n
      PROVE  Settles(Tail(s), last, X, v, now2)
  <2>1. CASE n = 1
    <3>1. m = last /\ \A k \in DOMAIN u : u[k] \notin X
      BY <1>2, <1>4, <2>1
    <3>2. \A x \in ToSet(u) : x \notin X
      BY <3>1 DEF ToSet
    <3> QED BY <1>1, <3>1, <3>2 DEF Settles
  <2>2. CASE n # 1
    <3>1. n - 1 \in DOMAIN u /\ u[n - 1] = last
      BY <1>2, <1>4, <2>2
    <3>2. \A k \in DOMAIN u : u[k] \in X => k <= n - 1
      BY <1>2, <1>4
    <3> QED BY <1>1, <3>1, <3>2 DEF Settles
  <2> QED BY <2>1, <2>2
<1> QED BY <1>3, <1>4 DEF Settles

(* The messages of a stream, sent (w) and not sent yet (q).                *)
LEMMA StreamSent ==
  ASSUME NEW T, NEW w \in Seq(T), NEW q \in Seq(T), q # <<>>
  PROVE  Append(w, Head(q)) \o Tail(q) = w \o q
<1>1. Head(q) \in T /\ Tail(q) \in Seq(T) /\ q = <<Head(q)>> \o Tail(q)
  BY TailElements
<1>2. PICK h, r : h = Head(q) /\ r = Tail(q)
  OBVIOUS
<1>3. <<h>> \in Seq(T)
  BY <1>1, <1>2
<1>4. Append(w, h) = w \o <<h>>
  BY <1>1, <1>2, AppendIsConcat
<1>5. (w \o <<h>>) \o r = w \o (<<h>> \o r)
  BY <1>1, <1>2, <1>3, ConcatAssociative
<1> QED BY <1>1, <1>2, <1>4, <1>5

LEMMA StreamArrived ==
  ASSUME NEW T, NEW w \in Seq(T), NEW q \in Seq(T), w # <<>>
  PROVE  /\ w \o q \in Seq(T) /\ w \o q # <<>>
         /\ Head(w \o q) = Head(w) /\ Tail(w \o q) = Tail(w) \o q
<1>1. PICK s, a, b, n, l, r :
        s = w \o q /\ a = Tail(s) /\ r = Tail(w) /\ b = r \o q /\ n = Len(w) /\ l = Len(q)
  OBVIOUS
<1>2. n \in Nat /\ l \in Nat /\ n # 0
  BY <1>1, LenProperties, EmptySeq
<1>3. /\ s \in Seq(T) /\ Len(s) = n + l
      /\ \A k \in 1..(n + l) : s[k] = IF k <= n THEN w[k] ELSE q[k - n]
  BY <1>1, ConcatProperties
<1>4. s # <<>>
  BY <1>2, <1>3, EmptySeq
<1>5. r \in Seq(T) /\ Len(r) = n - 1 /\ \A k \in 1..(n - 1) : r[k] = w[k + 1]
  BY <1>1, HeadTailProperties
<1>6. a \in Seq(T) /\ Len(a) = n + l - 1 /\ \A k \in 1..(n + l - 1) : a[k] = s[k + 1]
  BY <1>1, <1>2, <1>3, <1>4, HeadTailProperties
<1>7. /\ b \in Seq(T) /\ Len(b) = n - 1 + l
      /\ \A k \in 1..(n - 1 + l) : b[k] = IF k <= n - 1 THEN r[k] ELSE q[k - (n - 1)]
  BY <1>1, <1>5, ConcatProperties
<1>8. Len(a) = Len(b)
  BY <1>2, <1>6, <1>7
<1>9. ASSUME NEW k \in 1..Len(a) PROVE a[k] = b[k]
  <2>1. k \in 1..(n + l - 1) /\ k + 1 \in 1..(n + l) /\ k \in 1..(n - 1 + l) /\ k \in Nat
    BY <1>2, <1>6
  <2>2. CASE k <= n - 1
    <3>1. a[k] = w[k + 1]
      BY <1>2, <1>3, <1>6, <2>1, <2>2
    <3>2. b[k] = w[k + 1]
      BY <1>2, <1>5, <1>7, <2>1, <2>2
    <3> QED BY <3>1, <3>2
  <2>3. CASE ~(k <= n - 1)
    <3>1. a[k] = s[k + 1] /\ ~(k + 1 <= n)
      BY <1>2, <1>6, <2>1, <2>3
    <3>2. s[k + 1] = q[k + 1 - n]
      <4>1. PICK j \in 1..(n + l) : j = k + 1
        BY <2>1
      <4>2. s[j] = q[j - n]
        BY <1>3, <3>1, <4>1
      <4> QED BY <1>2, <2>1, <4>1, <4>2
    <3>3. b[k] = q[k - (n - 1)] /\ k - (n - 1) = k + 1 - n
      BY <1>2, <1>7, <2>1, <2>3
    <3> QED BY <3>1, <3>2, <3>3
  <2> QED BY <2>2, <2>3
<1>10. a = b
  BY <1>6, <1>7, <1>8, <1>9, SeqEqual
<1>11. Head(s) = s[1] /\ Head(w) = w[1]
  BY <1>1
<1>12. s[1] = w[1]
  BY <1>2, <1>3
<1> QED BY <1>1, <1>3, <1>4, <1>10, <1>11, <1>12

-----------------------------------------------------------------------------
(* Sums over finite sets.  One round of the recursion behind               *)
(* SumFunctionOnSet, and what its result satisfies.                        *)
SumRound(f, S, h) ==
  [s \in SUBSET S |-> IF s = {} THEN 0
                      ELSE f[CHOOSE x \in s : TRUE] + h[s \ {CHOOSE x \in s : TRUE}]]

IsSum(f, S, h) == h = SumRound(f, S, h)

LEMMA SumRoundType ==
  ASSUME NEW S, NEW f, \A x \in S : f[x] \in Int, NEW h \in [SUBSET S -> Int]
  PROVE  SumRound(f, S, h) \in [SUBSET S -> Int]
<1> SUFFICES ASSUME NEW s \in SUBSET S, s # {}
             PROVE  f[CHOOSE x \in s : TRUE] + h[s \ {CHOOSE x \in s : TRUE}] \in Int
  BY DEF SumRound
<1> DEFINE x == CHOOSE y \in s : TRUE
<1>1. x \in s
  OBVIOUS
<1>2. x \in S /\ s \ {x} \in SUBSET S
  BY <1>1
<1> QED BY <1>2

(* The recursive function exists.                                          *)
LEMMA SumExists ==
  ASSUME NEW S, IsFiniteSet(S), NEW f, \A x \in S : f[x] \in Int
  PROVE  \E h \in [SUBSET S -> Int] : IsSum(f, S, h)
<1> DEFINE T == [SUBSET S -> Int]
           a == [s \in SUBSET S |-> 0]
           g == [h \in T |-> SumRound(f, S, h)]
           n == Cardinality(S)
<1>1. n \in Nat
  BY FS_CardinalityType
<1>2. a \in T /\ g \in [T -> T]
  <2>1. \A h \in T : SumRound(f, S, h) \in T
    BY SumRoundType
  <2>2. a \in T
    OBVIOUS
  <2> HIDE DEF T, a
  <2> QED BY <2>1, <2>2
<1>3. PICK G : G \in Iterates(T, a, g, n)
  <2> HIDE DEF T, a, g, n
  <2> QED BY <1>1, <1>2, IteratesExist
<1>4. /\ G \in [0..n -> T] /\ G[0] = a
      /\ \A i \in 0..n : i # 0 => G[i] = SumRound(f, S, G[i-1])
  <2>1. G \in [0..n -> T] /\ \A i \in 0..n : G[i] = IF i = 0 THEN a ELSE g[G[i-1]]
    BY <1>3 DEF Iterates
  <2>2. \A i \in 0..n : i # 0 => i - 1 \in 0..n
    BY <1>1
  <2>3. \A i \in 0..n : i # 0 => G[i-1] \in T
    BY <2>1, <2>2
  <2>4. \A h \in T : g[h] = SumRound(f, S, h)
    OBVIOUS
  <2>5. 0 \in 0..n
    BY <1>1
  <2> HIDE DEF T, a, g, n
  <2> QED BY <2>1, <2>3, <2>4, <2>5
<1> DEFINE K == {k \in Nat : k <= n => \A s \in SUBSET S : Cardinality(s) <= k => G[k][s] = SumRound(f, S, G[k])[s]}
<1>5. \A s \in SUBSET S : IsFiniteSet(s) /\ Cardinality(s) \in Nat /\ Cardinality(s) <= n
  BY FS_Subset, FS_CardinalityType
<1>6. 0 \in K
  <2> SUFFICES ASSUME NEW s \in SUBSET S, Cardinality(s) <= 0 PROVE G[0][s] = SumRound(f, S, G[0])[s]
    OBVIOUS
  <2>1. s = {}
    BY <1>5, FS_EmptySet
  <2> QED BY <1>4, <2>1 DEF SumRound
<1>7. ASSUME NEW k \in Nat, k \in K PROVE k + 1 \in K
  <2> SUFFICES ASSUME k + 1 <= n, NEW s \in SUBSET S, Cardinality(s) <= k + 1
               PROVE  G[k+1][s] = SumRound(f, S, G[k+1])[s]
    OBVIOUS
  <2>1. k + 1 \in 0..n /\ k \in 0..n /\ k + 1 # 0 /\ (k + 1) - 1 = k
    BY <1>1
  <2>2. G[k+1] = SumRound(f, S, G[k])
    BY <1>4, <2>1
  <2>3. CASE s = {}
    BY <2>2, <2>3 DEF SumRound
  <2>4. CASE s # {}
    <3> DEFINE x == CHOOSE y \in s : TRUE
    <3>1. x \in s
      BY <2>4
    <3>2. s \ {x} \in SUBSET S /\ Cardinality(s \ {x}) <= k
      <4>1. Cardinality(s \ {x}) = Cardinality(s) - 1 /\ IsFiniteSet(s) /\ Cardinality(s) \in Nat
        <5> HIDE DEF x
        <5> QED BY <1>5, <3>1, FS_RemoveElement
      <4> HIDE DEF x
      <4> QED BY <4>1
    <3>3. G[k][s \ {x}] = SumRound(f, S, G[k])[s \ {x}]
      BY <1>7, <2>1, <3>2
    <3>4. G[k][s \ {x}] = G[k+1][s \ {x}]
      BY <2>2, <3>3
    <3>5. \A h : SumRound(f, S, h)[s] = f[x] + h[s \ {x}]
      BY <2>4 DEF SumRound
    <3> QED BY <2>2, <3>4, <3>5
  <2> QED BY <2>3, <2>4
<1>8. n \in K
  <2> HIDE DEF K
  <2> QED BY <1>1, <1>6, <1>7, SetInduction
<1>9. G[n] \in T
  <2>1. n \in 0..n
    BY <1>1
  <2> HIDE DEF T, n
  <2> QED BY <1>4, <2>1
<1>10. SumRound(f, S, G[n]) \in T
  BY <1>9, SumRoundType
<1>11. \A s \in SUBSET S : G[n][s] = SumRound(f, S, G[n])[s]
  BY <1>1, <1>5, <1>8
<1>12. IsSum(f, S, G[n])
  <2>1. \A u, v \in T : (\A s \in SUBSET S : u[s] = v[s]) => u = v
    OBVIOUS
  <2> HIDE DEF T
  <2> QED BY <1>9, <1>10, <1>11, <2>1 DEF IsSum
<1> QED BY <1>9, <1>12

(* SumFunctionOnSet is what the recursion ends with.                       *)
LEMMA SumIs ==
  ASSUME NEW S, IsFiniteSet(S), NEW f, \A x \in S : f[x] \in Int
  PROVE  \E h : IsSum(f, S, h) /\ SumFunctionOnSet(f, S) = h[S]
<1> DEFINE h == CHOOSE g : g = [s \in SUBSET S |-> IF s = {} THEN 0
                      ELSE f[CHOOSE x \in s : TRUE] + g[s \ {CHOOSE x \in s : TRUE}]]
<1>1. PICK g \in [SUBSET S -> Int] : IsSum(f, S, g)
  BY SumExists
<1>2. h = [s \in SUBSET S |-> IF s = {} THEN 0
                      ELSE f[CHOOSE x \in s : TRUE] + h[s \ {CHOOSE x \in s : TRUE}]]
  BY <1>1 DEF IsSum, SumRound
<1>3. IsSum(f, S, h)
  BY <1>2 DEF IsSum, SumRound
<1>4. SumFunctionOnSet(f, S) = h[S]
  BY DEF SumFunctionOnSet, FoldFunctionOnSet, MapThenFoldSet
<1> HIDE DEF h
<1> QED BY <1>3, <1>4

(* Whatever set the recursion started with, it gives a subset one sum.     *)
LEMMA SumUnique ==
  ASSUME NEW S, NEW T, NEW f, NEW g, NEW h, NEW k, IsSum(f, S, h), IsSum(g, T, k),
         NEW s, IsFiniteSet(s), s \subseteq S, s \subseteq T,
         \A x \in s : f[x] \in Int /\ g[x] = f[x]
  PROVE  h[s] = k[s] /\ h[s] \in Int
<1> DEFINE K == {n \in Nat : \A u \in SUBSET s : Cardinality(u) = n => h[u] = k[u] /\ h[u] \in Int}
<1>0. \A u \in SUBSET s : IsFiniteSet(u) /\ Cardinality(u) \in Nat
  BY FS_Subset, FS_CardinalityType
<1>1. 0 \in K
  <2> SUFFICES ASSUME NEW u \in SUBSET s, Cardinality(u) = 0 PROVE h[u] = k[u] /\ h[u] \in Int
    OBVIOUS
  <2>1. u = {}
    BY <1>0, FS_EmptySet
  <2>2. h[u] = 0 /\ k[u] = 0
    BY <2>1 DEF IsSum, SumRound
  <2> QED BY <2>2
<1>2. ASSUME NEW n \in Nat, n \in K PROVE n + 1 \in K
  <2> SUFFICES ASSUME NEW u \in SUBSET s, Cardinality(u) = n + 1 PROVE h[u] = k[u] /\ h[u] \in Int
    OBVIOUS
  <2>1. u # {}
    BY FS_EmptySet
  <2> DEFINE x == CHOOSE y \in u : TRUE
  <2>2. x \in u
    BY <2>1
  <2>3. h[u] = f[x] + h[u \ {x}] /\ k[u] = g[x] + k[u \ {x}]
    BY <2>1 DEF IsSum, SumRound
  <2> HIDE DEF x
  <2>4. u \ {x} \in SUBSET s /\ Cardinality(u \ {x}) = n
    BY <1>0, <2>2, FS_RemoveElement
  <2>5. h[u \ {x}] = k[u \ {x}] /\ h[u \ {x}] \in Int
    BY <1>2, <2>4
  <2>6. f[x] \in Int /\ g[x] = f[x]
    BY <2>2
  <2> QED BY <2>3, <2>5, <2>6
<1>3. Nat \subseteq K
  <2> HIDE DEF K
  <2> QED BY <1>1, <1>2, SetInduction
<1> QED BY <1>0, <1>3

LEMMA SumType ==
  ASSUME NEW S, IsFiniteSet(S), NEW f, \A x \in S : f[x] \in Int
  PROVE  SumFunctionOnSet(f, S) \in Int
<1>1. PICK h : IsSum(f, S, h) /\ SumFunctionOnSet(f, S) = h[S]
  BY SumIs
<1>2. h[S] \in Int
  BY <1>1, SumUnique
<1> QED BY <1>1, <1>2

LEMMA SumEmpty ==
  ASSUME NEW f
  PROVE  SumFunctionOnSet(f, {}) = 0
<1>1. PICK h : IsSum(f, {}, h) /\ SumFunctionOnSet(f, {}) = h[{}]
  BY SumIs, FS_EmptySet
<1>2. h[{}] = 0
  BY <1>1 DEF IsSum, SumRound
<1> QED BY <1>1, <1>2

(* A sum says the same of functions that agree on its set.                 *)
LEMMA SumSame ==
  ASSUME NEW S, IsFiniteSet(S), NEW f, NEW g, \A x \in S : f[x] \in Int /\ g[x] = f[x]
  PROVE  SumFunctionOnSet(g, S) = SumFunctionOnSet(f, S)
<1>1. PICK h : IsSum(f, S, h) /\ SumFunctionOnSet(f, S) = h[S]
  BY SumIs
<1>2. PICK k : IsSum(g, S, k) /\ SumFunctionOnSet(g, S) = k[S]
  BY SumIs
<1>3. h[S] = k[S]
  BY <1>1, <1>2, SumUnique
<1> QED BY <1>1, <1>2, <1>3

(* Any element may be taken out first.                                     *)
LEMMA SumRemove ==
  ASSUME NEW S, IsFiniteSet(S), NEW f, \A x \in S : f[x] \in Int, NEW x \in S
  PROVE  SumFunctionOnSet(f, S) = f[x] + SumFunctionOnSet(f, S \ {x})
<1>1. PICK h : IsSum(f, S, h) /\ SumFunctionOnSet(f, S) = h[S]
  BY SumIs
<1>2. ASSUME NEW u \in SUBSET S PROVE IsFiniteSet(u) /\ Cardinality(u) \in Nat /\ h[u] \in Int
  <2>1. IsFiniteSet(u) /\ Cardinality(u) \in Nat
    BY FS_Subset, FS_CardinalityType
  <2>2. h[u] \in Int
    BY <1>1, <2>1, SumUnique
  <2> QED BY <2>1, <2>2
<1> DEFINE K == {n \in Nat : \A u \in SUBSET S : \A y \in u : Cardinality(u) = n => h[u] = f[y] + h[u \ {y}]}
<1>3. 0 \in K
  <2>1. \A u \in SUBSET S : Cardinality(u) = 0 => u = {}
    BY <1>2, FS_EmptySet
  <2> QED BY <2>1
<1>4. ASSUME NEW n \in Nat, n \in K PROVE n + 1 \in K
  <2> SUFFICES ASSUME NEW u \in SUBSET S, NEW y \in u, Cardinality(u) = n + 1 PROVE h[u] = f[y] + h[u \ {y}]
    OBVIOUS
  <2> DEFINE z == CHOOSE w \in u : TRUE
  <2>1. z \in u
    OBVIOUS
  <2>2. h[u] = f[z] + h[u \ {z}]
    BY <1>1 DEF IsSum, SumRound
  <2> HIDE DEF z
  <2>3. CASE z = y
    BY <2>2, <2>3
  <2>4. CASE z # y
    <3>1. u \ {z} \in SUBSET S /\ y \in u \ {z} /\ Cardinality(u \ {z}) = n
      BY <1>2, <2>1, <2>4, FS_RemoveElement
    <3>2. u \ {y} \in SUBSET S /\ z \in u \ {y} /\ Cardinality(u \ {y}) = n
      <4>1. IsFiniteSet(u) /\ y \in u
        BY <1>2
      <4>2. Cardinality(u \ {y}) = Cardinality(u) - 1
        BY <4>1, FS_RemoveElement
      <4> QED BY <2>1, <2>4, <4>2
    <3>3. h[u \ {z}] = f[y] + h[(u \ {z}) \ {y}]
      BY <1>4, <3>1
    <3>4. h[u \ {y}] = f[z] + h[(u \ {y}) \ {z}]
      BY <1>4, <3>2
    <3>5. (u \ {y}) \ {z} = (u \ {z}) \ {y}
      OBVIOUS
    <3>6. f[y] \in Int /\ f[z] \in Int
      BY <2>1
    <3>7. h[(u \ {z}) \ {y}] \in Int
      BY <1>2, <3>1
    <3>8. PICK a \in Int : a = h[(u \ {z}) \ {y}]
      BY <3>7
    <3>9. h[u] = f[z] + (f[y] + a) /\ h[u \ {y}] = f[z] + a
      BY <2>2, <3>3, <3>4, <3>5, <3>8
    <3>10. f[z] + (f[y] + a) = f[y] + (f[z] + a)
      BY <3>6
    <3> QED BY <3>9, <3>10
  <2> QED BY <2>3, <2>4
<1>5. Nat \subseteq K
  <2> HIDE DEF K
  <2> QED BY <1>3, <1>4, SetInduction
<1>6. h[S] = f[x] + h[S \ {x}]
  BY <1>2, <1>5
<1>7. h[S \ {x}] = SumFunctionOnSet(f, S \ {x})
  <2>1. IsFiniteSet(S \ {x}) /\ S \ {x} \subseteq S /\ \A y \in S \ {x} : f[y] \in Int
    BY FS_Subset
  <2>2. PICK k : IsSum(f, S \ {x}, k) /\ SumFunctionOnSet(f, S \ {x}) = k[S \ {x}]
    BY <2>1, SumIs
  <2>3. h[S \ {x}] = k[S \ {x}]
    BY <1>1, <2>1, <2>2, SumUnique
  <2> QED BY <2>2, <2>3
<1> QED BY <1>1, <1>6, <1>7

LEMMA SumAdd ==
  ASSUME NEW S, IsFiniteSet(S), NEW x, x \notin S, NEW f, \A y \in S \union {x} : f[y] \in Int
  PROVE  SumFunctionOnSet(f, S \union {x}) = SumFunctionOnSet(f, S) + f[x]
<1>1. IsFiniteSet(S \union {x}) /\ x \in S \union {x}
  BY FS_AddElement
<1>2. SumFunctionOnSet(f, S \union {x}) = f[x] + SumFunctionOnSet(f, (S \union {x}) \ {x})
  BY <1>1, SumRemove
<1>3. (S \union {x}) \ {x} = S
  OBVIOUS
<1>4. SumFunctionOnSet(f, S) \in Int /\ f[x] \in Int
  BY SumType
<1>5. PICK a \in Int : a = SumFunctionOnSet(f, S)
  BY <1>4
<1>6. SumFunctionOnSet(f, S \union {x}) = f[x] + a
  BY <1>2, <1>3, <1>5
<1>7. f[x] + a = a + f[x]
  BY <1>4
<1> QED BY <1>5, <1>6, <1>7

-----------------------------------------------------------------------------
(* Sequences in order.  R[c] are the elements that may come after c.       *)
Follows(X, Y, R) == \A c \in X, d \in Y : d \in R[c]

Ordered(a, R) == \A i, j \in DOMAIN a : i < j => a[j] \in R[a[i]]

LEMMA OrderedConcat ==
  ASSUME NEW T, NEW a \in Seq(T), NEW b \in Seq(T), NEW R,
         Ordered(a, R), Ordered(b, R), Follows(ToSet(a), ToSet(b), R)
  PROVE  Ordered(a \o b, R)
<1>1. PICK u, n, l : u = a \o b /\ n = Len(a) /\ l = Len(b)
  OBVIOUS
<1>2. /\ n \in Nat /\ l \in Nat /\ DOMAIN a = 1..n /\ DOMAIN b = 1..l /\ DOMAIN u = 1..(n + l)
      /\ \A i \in 1..(n + l) : u[i] = IF i <= n THEN a[i] ELSE b[i - n]
  BY <1>1, ConcatProperties, LenProperties
<1> SUFFICES ASSUME NEW i \in 1..(n + l), NEW j \in 1..(n + l), i < j PROVE u[j] \in R[u[i]]
  BY <1>1, <1>2 DEF Ordered
<1>3. CASE j <= n
  <2>1. i \in 1..n /\ j \in 1..n /\ i <= n
    BY <1>2, <1>3
  <2>2. u[i] = a[i] /\ u[j] = a[j]
    BY <1>2, <1>3, <2>1
  <2> QED BY <1>2, <2>1, <2>2 DEF Ordered
<1>4. CASE ~(j <= n) /\ i <= n
  <2>1. i \in 1..n /\ j - n \in 1..l
    BY <1>2, <1>4
  <2>2. u[i] = a[i] /\ u[j] = b[j - n]
    BY <1>2, <1>4
  <2>3. a[i] \in ToSet(a) /\ b[j - n] \in ToSet(b)
    BY <1>2, <2>1 DEF ToSet
  <2> QED BY <2>2, <2>3 DEF Follows
<1>5. CASE ~(i <= n)
  <2>1. PICK x, y : x = i - n /\ y = j - n
    OBVIOUS
  <2>2. x \in 1..l /\ y \in 1..l /\ x < y /\ ~(j <= n)
    BY <1>2, <1>5, <2>1
  <2>3. u[i] = b[x] /\ u[j] = b[y]
    BY <1>2, <1>5, <2>1, <2>2
  <2> QED BY <1>2, <2>2, <2>3 DEF Ordered
<1> QED BY <1>3, <1>4, <1>5

LEMMA OrderedAppend ==
  ASSUME NEW T, NEW a \in Seq(T), NEW d \in T, NEW R
  PROVE  /\ Append(a, d) \in Seq(T) /\ ToSet(Append(a, d)) = ToSet(a) \union {d}
         /\ Ordered(a, R) /\ (\A c \in ToSet(a) : d \in R[c]) => Ordered(Append(a, d), R)
<1>1. PICK u, n : u = Append(a, d) /\ n = Len(a)
  OBVIOUS
<1>2. /\ n \in Nat /\ DOMAIN a = 1..n /\ DOMAIN u = 1..(n + 1) /\ u[n + 1] = d /\ \A i \in 1..n : u[i] = a[i]
      /\ u \in Seq(T)
  BY <1>1, AppendProperties, LenProperties
<1>3. /\ n + 1 \in 1..(n + 1) /\ (\A i \in 1..n : i \in 1..(n + 1))
      /\ \A i \in 1..(n + 1) : i = n + 1 \/ i \in 1..n
  BY <1>2
<1>4. ToSet(u) = ToSet(a) \union {d}
  BY <1>2, <1>3 DEF ToSet
<1>5. ASSUME Ordered(a, R), \A c \in ToSet(a) : d \in R[c] PROVE Ordered(u, R)
  <2> SUFFICES ASSUME NEW i \in 1..(n + 1), NEW j \in 1..(n + 1), i < j PROVE u[j] \in R[u[i]]
    BY <1>2 DEF Ordered
  <2>1. i \in 1..n /\ u[i] = a[i]
    BY <1>2
  <2>2. CASE j = n + 1
    <3>1. a[i] \in ToSet(a)
      BY <1>2, <2>1 DEF ToSet
    <3> QED BY <1>2, <1>5, <2>1, <2>2, <3>1
  <2>3. CASE j \in 1..n
    BY <1>2, <1>5, <2>1, <2>3 DEF Ordered
  <2> QED BY <1>3, <2>2, <2>3
<1> QED BY <1>1, <1>2, <1>4, <1>5

LEMMA OrderedTail ==
  ASSUME NEW T, NEW q \in Seq(T), q # <<>>, NEW R, Ordered(q, R)
  PROVE  Ordered(Tail(q), R) /\ Follows({Head(q)}, ToSet(Tail(q)), R)
<1>1. PICK u, n : u = Tail(q) /\ n = Len(q)
  OBVIOUS
<1>2. n \in Nat /\ n # 0 /\ DOMAIN q = 1..n /\ DOMAIN u = 1..(n - 1) /\ \A i \in 1..(n - 1) : u[i] = q[i + 1]
  BY <1>1, HeadTailProperties, LenProperties, EmptySeq
<1>3. 1 \in 1..n /\ \A i \in 1..(n - 1) : i + 1 \in 1..n /\ 1 < i + 1
  BY <1>2
<1>4. Head(q) = q[1]
  BY <1>1, <1>2, <1>3, HeadTailProperties
<1>5. \A i, j \in 1..(n - 1) : i < j => i + 1 < j + 1
  BY <1>2
<1>6. \A i, j \in DOMAIN u : i < j => u[j] \in R[u[i]]
  BY <1>2, <1>3, <1>5 DEF Ordered
<1>7. \A j \in DOMAIN u : u[j] \in R[q[1]]
  BY <1>2, <1>3 DEF Ordered
<1>8. Follows({q[1]}, ToSet(u), R)
  BY <1>7 DEF Follows, ToSet
<1> QED BY <1>1, <1>4, <1>6, <1>8 DEF Ordered

(* Element i is replaced by d, which no element after it must precede.     *)
Suits(q, i, d, R) == (\A c \in ToSet(q) : d \in R[c]) /\ \A j \in 1..Len(q) : j # i => q[j] \in R[d]

WithElement(q, i, d) == [q EXCEPT ![i] = d]

LEMMA OrderedReplace ==
  ASSUME NEW T, NEW q \in Seq(T), NEW i \in 1..Len(q), NEW d \in T, NEW R, Ordered(q, R), Suits(q, i, d, R),
         NEW u, u = WithElement(q, i, d)
  PROVE  /\ u \in Seq(T) /\ Ordered(u, R) /\ DOMAIN u = DOMAIN q /\ u[i] = d
         /\ \A j \in DOMAIN q : j # i => u[j] = q[j]
<1>1. DOMAIN q = 1..Len(q) /\ u \in Seq(T) /\ DOMAIN u = DOMAIN q
  BY LenProperties, ExceptSeq DEF WithElement
<1>2. u[i] = d /\ \A j \in DOMAIN q : j # i => u[j] = q[j]
  BY <1>1 DEF WithElement
<1>3. ASSUME NEW j \in DOMAIN u, NEW k \in DOMAIN u, j < k PROVE u[k] \in R[u[j]]
  <2>1. j # k
    <3>1. j \in Int /\ k \in Int
      BY <1>1
    <3> QED BY <1>3, <3>1
  <2>2. CASE k = i
    <3>1. u[j] = q[j] /\ q[j] \in ToSet(q)
      BY <1>1, <1>2, <2>1, <2>2 DEF ToSet
    <3> QED BY <1>2, <2>2, <3>1 DEF Suits
  <2>3. CASE k # i /\ j = i
    BY <1>1, <1>2, <2>3 DEF Suits
  <2>4. CASE k # i /\ j # i
    BY <1>1, <1>2, <1>3, <2>4 DEF Ordered
  <2> QED BY <2>2, <2>3, <2>4
<1> QED BY <1>1, <1>2, <1>3 DEF Ordered

LEMMA FlattenOrdered ==
  ASSUME NEW T, NEW n \in Nat, n # 0, NEW s \in [1..n -> Seq(T)], NEW R,
         \A i \in 1..n : Ordered(s[i], R),
         \A i, j \in 1..n : i < j => Follows(ToSet(s[i]), ToSet(s[j]), R)
  PROVE  Ordered(FlattenSeq(s), R)
<1> DEFINE f == CHOOSE g : g = [i \in 1..n |-> IF i = 1 THEN s[i] ELSE g[i-1] \o s[i]]
<1>1. f = [i \in 1..n |-> IF i = 1 THEN s[i] ELSE f[i-1] \o s[i]]
  BY FlattenExists
<1>2. Len(s) = n
  OBVIOUS
<1>3. FlattenSeq(s) = f[n]
  BY <1>2 DEF FlattenSeq
<1> HIDE DEF f
<1>4. f[1] = s[1] /\ \A i \in 2..n : f[i] = f[i-1] \o s[i]
  <2>1. 1 \in 1..n /\ \A i \in 2..n : i \in 1..n /\ i # 1
    OBVIOUS
  <2>2. \A i \in 1..n : f[i] = IF i = 1 THEN s[i] ELSE f[i-1] \o s[i]
    BY <1>1
  <2> QED BY <2>1, <2>2
<1> DEFINE Parts(k) == /\ f[k] \in Seq(T) /\ Ordered(f[k], R)
                       /\ \A j \in 1..n : k < j => Follows(ToSet(f[k]), ToSet(s[j]), R)
           K == {k \in Nat : k <= n /\ k # 0 => Parts(k)}
<1>5. 0 \in K
  OBVIOUS
<1>6. ASSUME NEW k \in Nat, k \in K PROVE k + 1 \in K
  <2> SUFFICES ASSUME k + 1 <= n PROVE Parts(k + 1)
    OBVIOUS
  <2>1. CASE k = 0
    <3>1. k + 1 = 1 /\ 1 \in 1..n
      BY <2>1
    <3> QED BY <1>4, <3>1
  <2>2. CASE k # 0
    <3>1. k + 1 \in 2..n /\ (k + 1) - 1 = k /\ k + 1 \in 1..n /\ k < k + 1 /\ k <= n
      BY <2>2
    <3>2. PICK a, b, u : a = f[k] /\ b = s[k + 1] /\ u = f[k + 1]
      OBVIOUS
    <3>3. u = a \o b
      BY <1>4, <3>1, <3>2
    <3>4. Parts(k)
      BY <1>6, <2>2, <3>1
    <3>5. a \in Seq(T) /\ Ordered(a, R) /\ b \in Seq(T) /\ Ordered(b, R) /\ Follows(ToSet(a), ToSet(b), R)
      BY <3>1, <3>2, <3>4
    <3>6. u \in Seq(T) /\ ToSet(u) = ToSet(a) \union ToSet(b) /\ Ordered(u, R)
      BY <3>3, <3>5, ConcatElements, OrderedConcat
    <3>7. ASSUME NEW j \in 1..n, k + 1 < j PROVE Follows(ToSet(u), ToSet(s[j]), R)
      <4>1. k < j
        BY <3>7
      <4>2. Follows(ToSet(a), ToSet(s[j]), R) /\ Follows(ToSet(b), ToSet(s[j]), R)
        BY <3>1, <3>2, <3>4, <3>7, <4>1
      <4> QED BY <3>6, <4>2 DEF Follows
    <3> QED BY <3>2, <3>6, <3>7
  <2> QED BY <2>1, <2>2
<1>7. n \in K
  <2> HIDE DEF K
  <2> QED BY <1>5, <1>6, SetInduction
<1>8. Parts(n)
  BY <1>7
<1> QED BY <1>3, <1>8
=============================================================================
