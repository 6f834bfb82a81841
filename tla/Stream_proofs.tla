--------------------------- MODULE Stream_proofs ---------------------------
(***************************************************************************)
(* Proofs about module Stream: the books of the queue of outgoing commands *)
(* are right, values arrive in order, nothing is lost, and the FPS is      *)
(* known, for any commands, priorities, limits and windows.                *)
(***************************************************************************)
EXTENDS Stream, SequenceLemmas, TLAPS

-----------------------------------------------------------------------------
(* A set of numbers has a least one, and a greatest one if it is bounded.  *)
LEMMA LeastExists ==
  ASSUME NEW S, S \subseteq Nat, S # {}
  PROVE  \E i \in S : \A j \in S : i <= j
<1>1. PICK i \in S : \A j \in S : ~(<<j, i>> \in OpToRel(<, Nat))
  BY NatLessThanWellFounded, WFMin
<1>2. \A j \in S : ~(j < i) /\ j \in Nat /\ i \in Nat
  BY <1>1 DEF OpToRel
<1> QED BY <1>2

LEMMA GreatestExists ==
  ASSUME NEW S, S \subseteq Nat, S # {}, NEW n \in Nat, \A s \in S : s <= n
  PROVE  \E i \in S : \A j \in S : j <= i
<1> DEFINE U == {n - s : s \in S}
<1>1. U \subseteq Nat /\ U # {}
  <2>1. \A s \in S : s \in Nat /\ s <= n
    OBVIOUS
  <2>2. \A s \in S : n - s \in Nat
    BY <2>1
  <2> QED BY <2>2
<1>2. PICK u \in U : \A v \in U : u <= v
  <2> HIDE DEF U
  <2> QED BY <1>1, LeastExists
<1>3. PICK i \in S : u = n - i
  OBVIOUS
<1>4. ASSUME NEW j \in S PROVE j <= i
  <2>1. n - i <= n - j
    BY <1>2, <1>3
  <2>2. i \in Nat /\ j \in Nat
    OBVIOUS
  <2> QED BY <2>1, <2>2
<1> QED BY <1>4

-----------------------------------------------------------------------------
(* Lists whose elements have increasing ids.                               *)
Sorted(s) == \A i, j \in DOMAIN s : i < j => s[i].id < s[j].id

(* Sequence r is s without its n-th element.                               *)
Cut(T, s, n, r) ==
  /\ r \in Seq(T) /\ Len(r) = Len(s) - 1
  /\ \A i \in 1..Len(r) : r[i] = IF i < n THEN s[i] ELSE s[i+1]

LEMMA CutSubSeq ==
  ASSUME NEW T, NEW s \in Seq(T), NEW n \in 1..Len(s)
  PROVE  Cut(T, s, n, SubSeq(s, 1, n - 1) \o SubSeq(s, n + 1, Len(s)))
<1> DEFINE a == SubSeq(s, 1, n - 1)
           b == SubSeq(s, n + 1, Len(s))
<1>1. Len(s) \in Nat /\ \A i \in 1..Len(s) : s[i] \in T
  BY LenProperties
<1>2. a \in Seq(T) /\ Len(a) = n - 1 /\ \A i \in 1..(n-1) : a[i] = s[i]
  <2>1. \A i \in 1..(n-1) : s[i] \in T
    BY <1>1
  <2>2. /\ a \in Seq(T) /\ Len(a) = IF 1 <= n - 1 THEN (n - 1) - 1 + 1 ELSE 0
        /\ \A i \in 1..((n-1)-1+1) : a[i] = s[1+i-1]
    BY <2>1, SubSeqProperties
  <2>3. (n - 1) - 1 + 1 = n - 1 /\ \A i \in 1..(n-1) : 1 + i - 1 = i
    BY SMTT(30)
  <2> HIDE DEF a
  <2> QED BY <2>2, <2>3
<1>3. b \in Seq(T) /\ Len(b) = Len(s) - n /\ \A i \in 1..(Len(s)-n) : b[i] = s[n+i]
  <2>1. \A i \in (n+1)..Len(s) : s[i] \in T
    BY <1>1
  <2>2. /\ b \in Seq(T) /\ Len(b) = IF n + 1 <= Len(s) THEN Len(s) - (n + 1) + 1 ELSE 0
        /\ \A i \in 1..(Len(s)-(n+1)+1) : b[i] = s[(n+1)+i-1]
    BY <1>1, <2>1, SubSeqProperties
  <2>3. Len(s) - (n + 1) + 1 = Len(s) - n /\ \A i \in 1..(Len(s)-n) : (n + 1) + i - 1 = n + i
    BY <1>1
  <2>4. Len(b) = Len(s) - n
    <3>1. n \in Nat /\ n <= Len(s) /\ Len(b) = IF n + 1 <= Len(s) THEN Len(s) - (n + 1) + 1 ELSE 0
      BY <1>1, <2>2
    <3> HIDE DEF b
    <3> QED BY <1>1, <3>1
  <2> HIDE DEF b
  <2> QED BY <2>2, <2>3, <2>4
<1> HIDE DEF a, b
<1>4. /\ a \o b \in Seq(T) /\ Len(a \o b) = Len(s) - 1
      /\ \A i \in 1..(Len(s) - 1) : (a \o b)[i] = IF i <= n - 1 THEN a[i] ELSE b[i - (n - 1)]
  <2>1. Len(a) + Len(b) = Len(s) - 1
    BY <1>1, <1>2, <1>3
  <2>2. /\ a \o b \in Seq(T) /\ Len(a \o b) = Len(a) + Len(b)
        /\ \A i \in 1..(Len(a) + Len(b)) : (a \o b)[i] = IF i <= Len(a) THEN a[i] ELSE b[i - Len(a)]
    BY <1>2, <1>3, ConcatProperties
  <2> QED BY <1>2, <2>1, <2>2
<1>5. ASSUME NEW i \in 1..(Len(s) - 1) PROVE (a \o b)[i] = IF i < n THEN s[i] ELSE s[i+1]
  <2>1. CASE i <= n - 1
    BY <1>1, <1>2, <1>4, <2>1
  <2>2. CASE ~(i <= n - 1)
    <3>1. i - (n - 1) \in 1..(Len(s) - n) /\ n + (i - (n - 1)) = i + 1 /\ ~(i < n)
      BY <1>1, <2>2
    <3>2. b[i - (n - 1)] = s[n + (i - (n - 1))]
      BY <1>3, <3>1
    <3> QED BY <1>4, <2>2, <3>1, <3>2
  <2> QED BY <2>1, <2>2
<1>6. Cut(T, s, n, a \o b)
  BY <1>4, <1>5 DEF Cut
<1> QED BY <1>6 DEF a, b

LEMMA CutTail ==
  ASSUME NEW T, NEW s \in Seq(T), s # <<>>
  PROVE  1 \in 1..Len(s) /\ Head(s) = s[1] /\ Cut(T, s, 1, Tail(s))
<1>1. Len(s) \in Nat \ {0}
  BY EmptySeq
<1>2. Head(s) = s[1]
  OBVIOUS
<1>3. /\ Tail(s) \in Seq(T) /\ Len(Tail(s)) = Len(s) - 1
      /\ \A i \in 1..Len(Tail(s)) : Tail(s)[i] = s[i+1]
  BY HeadTailProperties
<1>4. \A i \in 1..Len(Tail(s)) : ~(i < 1)
  BY <1>1, <1>3
<1> QED BY <1>1, <1>2, <1>3, <1>4 DEF Cut

LEMMA CutSorted ==
  ASSUME NEW T, \A x \in T : x.id \in Nat, NEW s \in Seq(T), Sorted(s), NEW n \in 1..Len(s),
         NEW r, Cut(T, s, n, r)
  PROVE  Sorted(r) /\ Range(r) = Range(s) \ {s[n]}
<1>1. /\ Len(s) \in Nat /\ DOMAIN s = 1..Len(s) /\ DOMAIN r = 1..(Len(s)-1) /\ r \in Seq(T)
      /\ \A i \in 1..(Len(s)-1) : r[i] = IF i < n THEN s[i] ELSE s[i+1]
  BY LenProperties DEF Cut
<1>2. \A i \in 1..Len(s) : s[i] \in T /\ s[i].id \in Nat
  BY LenProperties
<1>3. Sorted(r)
  <2> SUFFICES ASSUME NEW i \in 1..(Len(s)-1), NEW j \in 1..(Len(s)-1), i < j PROVE r[i].id < r[j].id
    BY <1>1 DEF Sorted
  <2>1. PICK k \in 1..Len(s) : r[i] = s[k] /\ k = IF i < n THEN i ELSE i + 1
    BY <1>1
  <2>2. PICK l \in 1..Len(s) : r[j] = s[l] /\ l = IF j < n THEN j ELSE j + 1
    BY <1>1
  <2>3. k < l
    BY <2>1, <2>2
  <2> QED BY <1>1, <2>1, <2>2, <2>3 DEF Sorted
<1>4. \A i, j \in 1..Len(s) : i # j => s[i] # s[j]
  <2> SUFFICES ASSUME NEW i \in 1..Len(s), NEW j \in 1..Len(s), i # j, s[i] = s[j] PROVE FALSE
    OBVIOUS
  <2>0. i < j \/ j < i
    BY <1>1
  <2>1. s[i].id < s[j].id \/ s[j].id < s[i].id
    BY <1>1, <2>0 DEF Sorted
  <2> QED BY <1>2, <2>1
<1>5. ASSUME NEW x \in Range(r) PROVE x \in Range(s) \ {s[n]}
  <2>1. PICK i \in 1..(Len(s)-1) : x = r[i]
    BY <1>1, <1>5 DEF Range
  <2>2. PICK k \in 1..Len(s) : r[i] = s[k] /\ k = IF i < n THEN i ELSE i + 1
    BY <1>1
  <2>3. k # n
    BY <2>2
  <2> QED BY <1>1, <1>4, <2>1, <2>2, <2>3 DEF Range
<1>6. ASSUME NEW x \in Range(s), x # s[n] PROVE x \in Range(r)
  <2>1. PICK k \in 1..Len(s) : x = s[k]
    BY <1>1, <1>6 DEF Range
  <2>2. k # n
    BY <1>6, <2>1
  <2>3. PICK i \in 1..(Len(s)-1) : r[i] = s[k]
    <3>1. CASE k < n
      <4>1. k \in 1..(Len(s)-1)
        BY <1>1, <3>1
      <4> QED BY <1>1, <3>1, <4>1
    <3>2. CASE ~(k < n)
      <4>1. k - 1 \in 1..(Len(s)-1) /\ ~(k - 1 < n) /\ (k - 1) + 1 = k
        BY <1>1, <2>2, <3>2
      <4> QED BY <1>1, <4>1
    <3> QED BY <3>1, <3>2
  <2> QED BY <1>1, <2>1, <2>3 DEF Range
<1> QED BY <1>3, <1>5, <1>6

LEMMA AppendSorted ==
  ASSUME NEW T, \A x \in T : x.id \in Nat, NEW s \in Seq(T), Sorted(s), NEW e \in T,
         \A x \in Range(s) : x.id < e.id
  PROVE  /\ Append(s, e) \in Seq(T) /\ Sorted(Append(s, e)) /\ Len(Append(s, e)) = Len(s) + 1
         /\ Range(Append(s, e)) = Range(s) \union {e} /\ e \notin Range(s)
<1> DEFINE r == Append(s, e)
<1>1. /\ Len(s) \in Nat /\ DOMAIN s = 1..Len(s) /\ DOMAIN r = 1..(Len(s)+1) /\ r \in Seq(T)
      /\ Len(r) = Len(s) + 1
      /\ \A i \in 1..Len(s) : r[i] = s[i]
      /\ r[Len(s)+1] = e
  BY LenProperties, AppendProperties
<1> HIDE DEF r
<1>2. \A i \in 1..(Len(s)+1) : i \in 1..Len(s) \/ i = Len(s) + 1
  BY <1>1
<1>3. Sorted(r)
  <2> SUFFICES ASSUME NEW i \in 1..(Len(s)+1), NEW j \in 1..(Len(s)+1), i < j PROVE r[i].id < r[j].id
    BY <1>1 DEF Sorted
  <2>1. i \in 1..Len(s) /\ r[i] = s[i] /\ s[i] \in Range(s)
    BY <1>1 DEF Range
  <2>2. CASE j = Len(s) + 1
    BY <1>1, <2>1, <2>2
  <2>3. CASE j \in 1..Len(s)
    BY <1>1, <2>1, <2>3 DEF Sorted
  <2> QED BY <1>2, <2>2, <2>3
<1>4. Range(r) = Range(s) \union {e}
  <2>1. Len(s) + 1 \in 1..(Len(s)+1) /\ \A i \in 1..Len(s) : i \in 1..(Len(s)+1)
    BY <1>1
  <2> QED BY <1>1, <1>2, <2>1 DEF Range
<1>5. e \notin Range(s)
  <2>1. e.id \in Nat
    OBVIOUS
  <2> QED BY <2>1
<1> QED BY <1>1, <1>3, <1>4, <1>5 DEF r

Updated(s, n, e) == [s EXCEPT ![n] = e]

LEMMA UpdateSorted ==
  ASSUME NEW T, \A x \in T : x.id \in Nat, NEW s \in Seq(T), Sorted(s), NEW n \in 1..Len(s),
         NEW e \in T, e.id = s[n].id, NEW r, r = Updated(s, n, e)
  PROVE  r \in Seq(T) /\ Sorted(r) /\ Len(r) = Len(s) /\ Range(r) = (Range(s) \ {s[n]}) \union {e}
<1>1. /\ Len(s) \in Nat /\ DOMAIN s = 1..Len(s) /\ DOMAIN r = 1..Len(s) /\ r \in Seq(T) /\ Len(r) = Len(s)
      /\ \A i \in 1..Len(s) : r[i] = IF i = n THEN e ELSE s[i]
  BY LenProperties, ExceptSeq DEF Updated
<1>2. \A i \in 1..Len(s) : s[i] \in T /\ s[i].id \in Nat /\ r[i].id = s[i].id
  BY <1>1, LenProperties
<1>3. Sorted(r)
  BY <1>1, <1>2 DEF Sorted
<1>4. \A i \in 1..Len(s) : i # n => s[i] # s[n]
  <2> SUFFICES ASSUME NEW i \in 1..Len(s), i # n, s[i] = s[n] PROVE FALSE
    OBVIOUS
  <2>1. s[i].id < s[n].id \/ s[n].id < s[i].id
    BY <1>1 DEF Sorted
  <2> QED BY <1>2, <2>1
<1>5. Range(r) = (Range(s) \ {s[n]}) \union {e}
  BY <1>1, <1>4 DEF Range
<1> QED BY <1>1, <1>3, <1>5

-----------------------------------------------------------------------------
(* The lists Q of a queue, for commands that come from prog: every entry   *)
(* is at its place, and no two have one id or one key that is replaced.    *)
AllOf(Q) == UNION {Range(Q[prio]) : prio \in Prios}

WithList(Q, prio, L) == [Q EXCEPT ![prio] = L]

Fits(prog, acc, prio, e) ==
  /\ e.ver \in acc /\ e.id <= e.ver
  /\ prog[e.ver].key = e.key /\ prog[e.ver].prio = prio
  /\ ~Cmd[e.key].dups => e.id = e.ver

Unique(S) == \A e, f \in S : e.id = f.id \/ (e.key = f.key /\ Cmd[e.key].dups) => e = f

ListsSound(Q, prog, acc) ==
  /\ Q \in [Prios -> Seq(Entries)]
  /\ \A prio \in Prios : Sorted(Q[prio]) /\ \A e \in Range(Q[prio]) : Fits(prog, acc, prio, e)
  /\ Unique(AllOf(Q))

LEMMA EntryType ==
  ASSUME NEW e \in Entries
  PROVE  /\ e.id \in Nat \ {0} /\ e.id \in Ids /\ e.key \in Keys /\ e.ver \in Ids /\ e.ver \in Nat
         /\ e.counter \in Ids \union {NoCounter} /\ e.counter \in Nat
         /\ Cmd[e.key].item_size \in Nat /\ Cmd[e.key].dups \in BOOLEAN
<1>1. /\ e.id \in Ids /\ e.key \in Keys /\ e.ver \in Ids /\ e.counter \in Ids \union {NoCounter}
  BY DEF Entries
<1>2. Ids \subseteq Nat \ {0} /\ NoCounter = 0
  BY OutQueueAssumption DEF NoCounter
<1>3. Cmd[e.key].item_size \in Nat /\ Cmd[e.key].dups \in BOOLEAN
  BY <1>1, OutQueueAssumption
<1>4. e.id \in Nat \ {0} /\ e.ver \in Nat
  BY <1>1, <1>2
<1>5. e.counter \in Nat
  <2>1. CASE e.counter \in Ids
    BY <1>2, <2>1
  <2>2. CASE e.counter = NoCounter
    BY <2>2 DEF NoCounter
  <2> QED BY <1>1, <2>1, <2>2
<1> QED BY <1>1, <1>3, <1>4, <1>5

LEMMA PrioType ==
  ASSUME NEW prio \in Prios
  PROVE  prio \in Int /\ prio \in Nat /\ prio # -1 /\ prio <= 255 /\ RPrio[prio] \in Nat \ {0}
<1>1. prio \in 0..255
  BY OutQueueAssumption
<1>2. RPrio[prio] \in Nat \ {0}
  BY OutQueueAssumption
<1> QED BY <1>1, <1>2

LEMMA PrioNumbers ==
  ASSUME NEW prio \in Prios
  PROVE  RPrio[prio] \in Int /\ -RPrio[prio] \in Int
<1>1. RPrio[prio] \in Nat
  BY PrioType
<1> QED BY <1>1

LEMMA GreatestPrio ==
  ASSUME NEW S, S \subseteq Prios, S # {}
  PROVE  \E i \in S : \A j \in S : j <= i
<1>1. S \subseteq Nat /\ \A x \in S : x <= 255
  BY PrioType
<1>2. 255 \in Nat
  OBVIOUS
<1> QED BY <1>1, <1>2, GreatestExists

LEMMA ListEntries ==
  ASSUME NEW Q \in [Prios -> Seq(Entries)], NEW prio \in Prios
  PROVE  /\ Range(Q[prio]) \subseteq Entries /\ Range(Q[prio]) \subseteq AllOf(Q)
         /\ DOMAIN Q[prio] = 1..Len(Q[prio]) /\ Len(Q[prio]) \in Nat
         /\ \A n \in 1..Len(Q[prio]) : Q[prio][n] \in Range(Q[prio])
         /\ Q[prio] = <<>> <=> Len(Q[prio]) = 0
         /\ Q[prio] = <<>> <=> Range(Q[prio]) = {}
<1>1. Q[prio] \in Seq(Entries)
  OBVIOUS
<1>2. /\ DOMAIN Q[prio] = 1..Len(Q[prio]) /\ Len(Q[prio]) \in Nat
      /\ \A n \in 1..Len(Q[prio]) : Q[prio][n] \in Entries
  BY <1>1, LenProperties
<1>3. Q[prio] = <<>> <=> Len(Q[prio]) = 0
  BY <1>1, EmptySeq
<1>4. Range(Q[prio]) = {Q[prio][n] : n \in 1..Len(Q[prio])}
  BY <1>2 DEF Range
<1>5. Q[prio] = <<>> <=> Range(Q[prio]) = {}
  <2>1. 1..Len(Q[prio]) = {} <=> Len(Q[prio]) = 0
    <3>1. Len(Q[prio]) # 0 => 1 \in 1..Len(Q[prio])
      BY <1>2
    <3> QED BY <1>2, <3>1
  <2> QED BY <1>3, <1>4, <2>1
<1> QED BY <1>2, <1>3, <1>4, <1>5 DEF AllOf

LEMMA ListsReplaced ==
  ASSUME NEW Q, NEW prog, NEW acc, ListsSound(Q, prog, acc), NEW prio \in Prios,
         NEW L \in Seq(Entries), Sorted(L), NEW A, NEW B, A \subseteq Range(Q[prio]),
         Range(L) = (Range(Q[prio]) \ A) \union B,
         \A e \in B : Fits(prog, acc, prio, e),
         Unique((AllOf(Q) \ A) \union B),
         NEW R, R = WithList(Q, prio, L)
  PROVE  ListsSound(R, prog, acc) /\ AllOf(R) = (AllOf(Q) \ A) \union B
<1>1. /\ Q \in [Prios -> Seq(Entries)] /\ R \in [Prios -> Seq(Entries)]
      /\ R[prio] = L /\ \A x \in Prios : x # prio => R[x] = Q[x]
  BY DEF ListsSound, WithList
<1>2. \A x \in Prios : Sorted(R[x]) /\ \A e \in Range(R[x]) : Fits(prog, acc, x, e)
  <2>1. \A e \in Range(L) : Fits(prog, acc, prio, e)
    BY DEF ListsSound
  <2> QED BY <1>1, <2>1 DEF ListsSound
<1>3. \A x \in Prios : x # prio => Range(Q[x]) \cap A = {}
  <2> SUFFICES ASSUME NEW x \in Prios, x # prio, NEW e \in Range(Q[x]), e \in A PROVE FALSE
    OBVIOUS
  <2>1. Fits(prog, acc, x, e) /\ Fits(prog, acc, prio, e)
    BY DEF ListsSound
  <2> QED BY <2>1 DEF Fits
<1>4. AllOf(R) = (AllOf(Q) \ A) \union B
  <2>1. ASSUME NEW e \in AllOf(R) PROVE e \in (AllOf(Q) \ A) \union B
    <3>1. PICK x \in Prios : e \in Range(R[x])
      BY <2>1 DEF AllOf
    <3> QED BY <1>1, <1>3, <3>1 DEF AllOf
  <2>2. ASSUME NEW e \in AllOf(Q), e \notin A PROVE e \in AllOf(R)
    <3>1. PICK x \in Prios : e \in Range(Q[x])
      BY <2>2 DEF AllOf
    <3> QED BY <1>1, <2>2, <3>1 DEF AllOf
  <2>3. ASSUME NEW e \in B PROVE e \in AllOf(R)
    BY <1>1, <2>3 DEF AllOf
  <2> QED BY <2>1, <2>2, <2>3
<1>5. Unique(AllOf(R))
  BY <1>4
<1> QED BY <1>1, <1>2, <1>4, <1>5 DEF ListsSound

LEMMA ListUpdated ==
  ASSUME NEW Q, NEW prog, NEW acc, ListsSound(Q, prog, acc), NEW prio \in Prios,
         NEW n \in 1..Len(Q[prio]), NEW e \in Entries,
         e.id = Q[prio][n].id, e.key = Q[prio][n].key, Fits(prog, acc, prio, e),
         NEW R, R = WithList(Q, prio, Updated(Q[prio], n, e))
  PROVE  /\ ListsSound(R, prog, acc) /\ AllOf(R) = (AllOf(Q) \ {Q[prio][n]}) \union {e}
         /\ Q[prio][n] \in AllOf(Q) /\ \A f \in AllOf(Q) \ {Q[prio][n]} : f.id # e.id
         /\ Len(R[prio]) = Len(Q[prio]) /\ \A x \in Prios : x # prio => R[x] = Q[x]
<1> DEFINE L == Updated(Q[prio], n, e)
<1>0. Q \in [Prios -> Seq(Entries)] /\ Q[prio] \in Seq(Entries) /\ Sorted(Q[prio])
  BY DEF ListsSound
<1>1. Q[prio][n] \in Range(Q[prio]) /\ Q[prio][n] \in AllOf(Q)
  BY <1>0, ListEntries
<1>2. \A x \in Entries : x.id \in Nat
  BY EntryType
<1>3. /\ L \in Seq(Entries) /\ Sorted(L) /\ Len(L) = Len(Q[prio])
      /\ Range(L) = (Range(Q[prio]) \ {Q[prio][n]}) \union {e}
  BY <1>0, <1>2, UpdateSorted
<1>4. \A f \in AllOf(Q) \ {Q[prio][n]} : f.id # e.id /\ ~(f.key = e.key /\ Cmd[f.key].dups)
  BY <1>1 DEF ListsSound, Unique
<1>5. Unique((AllOf(Q) \ {Q[prio][n]}) \union {e})
  BY <1>4 DEF ListsSound, Unique
<1> HIDE DEF L
<1>6. R = WithList(Q, prio, L)
  BY DEF L
<1>7. ListsSound(R, prog, acc) /\ AllOf(R) = (AllOf(Q) \ {Q[prio][n]}) \union {e}
  <2> DEFINE A == {Q[prio][n]}
             B == {e}
  <2>1. /\ A \subseteq Range(Q[prio]) /\ \A f \in B : Fits(prog, acc, prio, f)
        /\ Range(L) = (Range(Q[prio]) \ A) \union B /\ Unique((AllOf(Q) \ A) \union B)
    BY <1>1, <1>3, <1>5
  <2> HIDE DEF A, B
  <2>2. ListsSound(R, prog, acc) /\ AllOf(R) = (AllOf(Q) \ A) \union B
    BY <1>3, <1>6, <2>1, ListsReplaced
  <2> QED BY <2>2 DEF A, B
<1>8. R[prio] = L /\ \A x \in Prios : x # prio => R[x] = Q[x]
  BY <1>0, <1>6 DEF WithList
<1> QED BY <1>1, <1>3, <1>4, <1>7, <1>8

LEMMA ListAppended ==
  ASSUME NEW Q, NEW prog, NEW acc, ListsSound(Q, prog, acc), NEW prio \in Prios,
         NEW e \in Entries, Fits(prog, acc, prio, e),
         \A f \in AllOf(Q) : f.id < e.id /\ ~(f.key = e.key /\ Cmd[e.key].dups),
         NEW R, R = WithList(Q, prio, Append(Q[prio], e))
  PROVE  /\ ListsSound(R, prog, acc) /\ AllOf(R) = AllOf(Q) \union {e} /\ e \notin AllOf(Q)
         /\ Len(R[prio]) = Len(Q[prio]) + 1 /\ \A x \in Prios : x # prio => R[x] = Q[x]
<1> DEFINE L == Append(Q[prio], e)
<1>0. Q \in [Prios -> Seq(Entries)] /\ Q[prio] \in Seq(Entries) /\ Sorted(Q[prio])
  BY DEF ListsSound
<1>1. Range(Q[prio]) \subseteq AllOf(Q)
  BY <1>0, ListEntries
<1>2. \A x \in Entries : x.id \in Nat
  BY EntryType
<1>3. \A x \in Range(Q[prio]) : x.id < e.id
  BY <1>1
<1>4. /\ L \in Seq(Entries) /\ Sorted(L) /\ Len(L) = Len(Q[prio]) + 1
      /\ Range(L) = Range(Q[prio]) \union {e}
  BY <1>0, <1>2, <1>3, AppendSorted
<1>5. \A f \in AllOf(Q) : f.id # e.id
  BY <1>2
<1>6. Unique((AllOf(Q) \ {}) \union {e})
  BY <1>5 DEF ListsSound, Unique
<1> HIDE DEF L
<1>7. R = WithList(Q, prio, L)
  BY DEF L
<1>8. ListsSound(R, prog, acc) /\ AllOf(R) = (AllOf(Q) \ {}) \union {e}
  <2> DEFINE A == {}
             B == {e}
  <2>1. /\ A \subseteq Range(Q[prio]) /\ \A f \in B : Fits(prog, acc, prio, f)
        /\ Range(L) = (Range(Q[prio]) \ A) \union B /\ Unique((AllOf(Q) \ A) \union B)
    BY <1>4, <1>6
  <2> HIDE DEF A, B
  <2>2. ListsSound(R, prog, acc) /\ AllOf(R) = (AllOf(Q) \ A) \union B
    BY <1>4, <1>7, <2>1, ListsReplaced
  <2> QED BY <2>2 DEF A, B
<1>9. R[prio] = L /\ \A x \in Prios : x # prio => R[x] = Q[x]
  BY <1>0, <1>7 DEF WithList
<1> QED BY <1>4, <1>5, <1>8, <1>9

LEMMA ListCut ==
  ASSUME NEW Q, NEW prog, NEW acc, ListsSound(Q, prog, acc), NEW prio \in Prios,
         NEW n \in 1..Len(Q[prio]), NEW L, Cut(Entries, Q[prio], n, L),
         NEW R, R = WithList(Q, prio, L)
  PROVE  /\ ListsSound(R, prog, acc) /\ AllOf(R) = AllOf(Q) \ {Q[prio][n]}
         /\ Q[prio][n] \in AllOf(Q)
         /\ Len(R[prio]) = Len(Q[prio]) - 1 /\ \A x \in Prios : x # prio => R[x] = Q[x]
<1>0. Q \in [Prios -> Seq(Entries)] /\ Q[prio] \in Seq(Entries) /\ Sorted(Q[prio])
  BY DEF ListsSound
<1>1. Q[prio][n] \in Range(Q[prio]) /\ Q[prio][n] \in AllOf(Q)
  BY <1>0, ListEntries
<1>2. \A x \in Entries : x.id \in Nat
  BY EntryType
<1>3. L \in Seq(Entries) /\ Len(L) = Len(Q[prio]) - 1
  BY DEF Cut
<1>4. Sorted(L) /\ Range(L) = Range(Q[prio]) \ {Q[prio][n]}
  BY <1>0, <1>2, CutSorted
<1>5. Unique((AllOf(Q) \ {Q[prio][n]}) \union {})
  BY DEF ListsSound, Unique
<1>6. ListsSound(R, prog, acc) /\ AllOf(R) = (AllOf(Q) \ {Q[prio][n]}) \union {}
  <2> DEFINE A == {Q[prio][n]}
             B == {}
  <2>1. /\ A \subseteq Range(Q[prio]) /\ \A f \in B : Fits(prog, acc, prio, f)
        /\ Range(L) = (Range(Q[prio]) \ A) \union B /\ Unique((AllOf(Q) \ A) \union B)
    BY <1>1, <1>4, <1>5
  <2> HIDE DEF A, B
  <2>2. ListsSound(R, prog, acc) /\ AllOf(R) = (AllOf(Q) \ A) \union B
    BY <1>3, <1>4, <2>1, ListsReplaced, SMTT(30)
  <2> QED BY <2>2 DEF A, B
<1>7. R[prio] = L /\ \A x \in Prios : x # prio => R[x] = Q[x]
  BY <1>0 DEF WithList
<1> QED BY <1>1, <1>3, <1>6, <1>7

-----------------------------------------------------------------------------
(* The fields of a queue after each of the functions that change it.       *)
Buckets == [key : Keys, id : Ids]

QueueType ==
  [queues : [Prios -> Seq(Entries)], counts : [Prios -> Int], buckets : Seq(Buckets),
   counters : [Ids -> Int], count : Int, size : Int, max_size : Nat,
   max_prio : Prios, min_prio : Prios, sum_high : Int, sum_low : Int]

LEMMA QueueSums ==
  ASSUME NEW q \in QueueType
  PROVE  q.sum_high \in Int /\ q.sum_low \in Int
BY DEF QueueType

SameLists(q, r)  == r.queues = q.queues /\ r.counters = q.counters
SameTable(q, r)  == r.counts = q.counts /\ r.buckets = q.buckets
SameTotals(q, r) == r.count = q.count /\ r.size = q.size /\ r.max_size = q.max_size
SameBounds(q, r) == r.max_prio = q.max_prio /\ r.min_prio = q.min_prio
SameSums(q, r)   == r.sum_high = q.sum_high /\ r.sum_low = q.sum_low

(* x is added to the summary of the half to which prio belongs.            *)
Summed(q, r, prio, x) ==
  /\ r.sum_high = IF prio >= VRS_DEFAULT_PRIORITY THEN q.sum_high + x ELSE q.sum_high
  /\ r.sum_low  = IF prio >= VRS_DEFAULT_PRIORITY THEN q.sum_low ELSE q.sum_low + x

LEMMA AddToSumFields ==
  ASSUME NEW q \in QueueType, NEW prio \in Prios, NEW x \in Int, NEW r, r = AddToSum(q, prio, x)
  PROVE  /\ r \in QueueType /\ Summed(q, r, prio, x)
         /\ SameLists(q, r) /\ SameTable(q, r) /\ SameTotals(q, r) /\ SameBounds(q, r)
<1>1. CASE prio >= VRS_DEFAULT_PRIORITY
  <2>1. PICK y : y = q.sum_high + x
    OBVIOUS
  <2>2. y \in Int
    BY <2>1 DEF QueueType
  <2>3. r = [q EXCEPT !.sum_high = y]
    BY <1>1, <2>1 DEF AddToSum
  <2>4. /\ r \in QueueType /\ r.sum_high = y /\ r.sum_low = q.sum_low
        /\ SameLists(q, r) /\ SameTable(q, r) /\ SameTotals(q, r) /\ SameBounds(q, r)
    BY <2>2, <2>3 DEF QueueType, SameLists, SameTable, SameTotals, SameBounds
  <2> QED BY <1>1, <2>1, <2>4 DEF Summed
<1>2. CASE ~(prio >= VRS_DEFAULT_PRIORITY)
  <2>1. PICK y : y = q.sum_low + x
    OBVIOUS
  <2>2. y \in Int
    BY <2>1 DEF QueueType
  <2>3. r = [q EXCEPT !.sum_low = y]
    BY <1>2, <2>1 DEF AddToSum
  <2>4. /\ r \in QueueType /\ r.sum_low = y /\ r.sum_high = q.sum_high
        /\ SameLists(q, r) /\ SameTable(q, r) /\ SameTotals(q, r) /\ SameBounds(q, r)
    BY <2>2, <2>3 DEF QueueType, SameLists, SameTable, SameTotals, SameBounds
  <2> QED BY <1>2, <2>1, <2>4 DEF Summed
<1> QED BY <1>1, <1>2

LEMMA AddItemFields ==
  ASSUME NEW q \in QueueType, NEW e \in Entries, NEW r, r = v_hash_array_add_item(q, e)
  PROVE  /\ r \in QueueType /\ r.buckets = Append(q.buckets, [key |-> e.key, id |-> e.id])
         /\ SameLists(q, r) /\ r.counts = q.counts /\ SameTotals(q, r) /\ SameBounds(q, r) /\ SameSums(q, r)
<1>1. [key |-> e.key, id |-> e.id] \in Buckets
  BY DEF Entries, Buckets
<1>2. PICK B : B = Append(q.buckets, [key |-> e.key, id |-> e.id])
  OBVIOUS
<1>3. B \in Seq(Buckets)
  BY <1>1, <1>2, AppendProperties DEF QueueType
<1>4. r = [q EXCEPT !.buckets = B]
  BY <1>2 DEF v_hash_array_add_item
<1> QED BY <1>2, <1>3, <1>4 DEF QueueType, SameLists, SameTotals, SameBounds, SameSums

(* The bucket that is removed is the first one with the key.               *)
FirstGone(B, key, C) ==
  \/ C = B /\ \A n \in DOMAIN B : B[n].key # key
  \/ \E n \in 1..Len(B) : /\ B[n].key = key /\ Cut(Buckets, B, n, C)
                          /\ \A m \in 1..Len(B) : B[m].key = key => n <= m

LEMMA RemoveItemFields ==
  ASSUME NEW q \in QueueType, NEW key, NEW r, r = v_hash_array_remove_item(q, key)
  PROVE  /\ r \in QueueType /\ FirstGone(q.buckets, key, r.buckets)
         /\ SameLists(q, r) /\ r.counts = q.counts /\ SameTotals(q, r) /\ SameBounds(q, r) /\ SameSums(q, r)
<1> DEFINE found == v_hash_array_find_item(q, key)
           first == CHOOSE n \in found : \A m \in found : n <= m
<1>1. PICK B \in Seq(Buckets) : B = q.buckets
  BY DEF QueueType
<1>2. DOMAIN B = 1..Len(B) /\ Len(B) \in Nat /\ found = {n \in 1..Len(B) : B[n].key = key}
  BY <1>1, LenProperties DEF v_hash_array_find_item
<1>3. CASE found = {}
  <2>1. r = q
    BY <1>3 DEF v_hash_array_remove_item
  <2> QED BY <1>1, <1>2, <1>3, <2>1 DEF FirstGone, SameLists, SameTotals, SameBounds, SameSums
<1>4. CASE found # {}
  <2>1. first \in found /\ \A m \in found : first <= m
    <3>1. found \subseteq Nat /\ found # {}
      BY <1>2, <1>4
    <3>2. PICK i \in found : \A j \in found : i <= j
      <4> HIDE DEF found
      <4> QED BY <3>1, LeastExists
    <3> HIDE DEF found
    <3> QED BY <3>2
  <2>2. PICK C : C = SubSeq(B, 1, first - 1) \o SubSeq(B, first + 1, Len(B))
    OBVIOUS
  <2>3. r = [q EXCEPT !.buckets = C]
    BY <1>1, <1>4, <2>2 DEF v_hash_array_remove_item
  <2> HIDE DEF first
  <2>4. first \in 1..Len(B) /\ B[first].key = key /\ \A m \in 1..Len(B) : B[m].key = key => first <= m
    BY <1>2, <2>1
  <2>5. Cut(Buckets, B, first, C)
    BY <2>2, <2>4, CutSubSeq
  <2>6. C \in Seq(Buckets)
    BY <2>5 DEF Cut
  <2>7. FirstGone(B, key, C)
    BY <2>4, <2>5 DEF FirstGone
  <2>8. r \in QueueType /\ r.buckets = C
    BY <2>3, <2>6 DEF QueueType
  <2> QED BY <1>1, <2>3, <2>7, <2>8 DEF QueueType, SameLists, SameTotals, SameBounds, SameSums
<1> QED BY <1>3, <1>4

LEMMA WidenedFields ==
  ASSUME NEW q \in QueueType, NEW prio \in Prios, NEW r, r = Widened(q, prio)
  PROVE  /\ r \in QueueType
         /\ r.max_prio = IF prio > q.max_prio THEN prio ELSE q.max_prio
         /\ r.min_prio = IF prio <= q.max_prio /\ prio < q.min_prio THEN prio ELSE q.min_prio
         /\ SameLists(q, r) /\ SameTable(q, r) /\ SameTotals(q, r) /\ SameSums(q, r)
<1>0. q.max_prio \in Int /\ q.min_prio \in Int /\ prio \in Int
  <2>1. q.max_prio \in Prios /\ q.min_prio \in Prios
    BY DEF QueueType
  <2> QED BY <2>1, PrioType
<1>1. CASE prio > q.max_prio
  <2>1. r = [q EXCEPT !.max_prio = prio]
    BY <1>1 DEF Widened
  <2>2. /\ r \in QueueType /\ r.max_prio = prio /\ r.min_prio = q.min_prio
        /\ SameLists(q, r) /\ SameTable(q, r) /\ SameTotals(q, r) /\ SameSums(q, r)
    BY <2>1 DEF QueueType, SameLists, SameTable, SameTotals, SameSums
  <2> QED BY <1>0, <1>1, <2>2
<1>2. CASE ~(prio > q.max_prio) /\ prio < q.min_prio
  <2>1. r = [q EXCEPT !.min_prio = prio]
    BY <1>2 DEF Widened
  <2>2. /\ r \in QueueType /\ r.max_prio = q.max_prio /\ r.min_prio = prio
        /\ SameLists(q, r) /\ SameTable(q, r) /\ SameTotals(q, r) /\ SameSums(q, r)
    BY <2>1 DEF QueueType, SameLists, SameTable, SameTotals, SameSums
  <2> QED BY <1>0, <1>2, <2>2
<1>3. CASE ~(prio > q.max_prio) /\ ~(prio < q.min_prio)
  <2>1. r = q
    BY <1>3 DEF Widened
  <2> QED BY <1>0, <1>3, <2>1 DEF QueueType, SameLists, SameTable, SameTotals, SameSums
<1> QED BY <1>1, <1>2, <1>3

(* An entry at the tail of list L, the list with it and the counters.      *)
Joins(L, e) ==
  L # <<>> /\ Cmd[e.key].share /\ Cmd[L[Len(L)].key].opcode = Cmd[e.key].opcode

Cell(L) == IF L[Len(L)].counter = NoCounter THEN L[Len(L)].id ELSE L[Len(L)].counter

WithCounter(e, c) == [e EXCEPT !.counter = c]

Entered(L, e) ==
  IF L = <<>> THEN e ELSE WithCounter(e, IF Joins(L, e) THEN Cell(L) ELSE NoCounter)

Border(L) == WithCounter(L[Len(L)], Cell(L))

AddedList(L, e) ==
  Append(IF Joins(L, e) THEN Updated(L, Len(L), Border(L)) ELSE L, Entered(L, e))

AddedCounters(K, L, e) ==
  IF Joins(L, e)
  THEN [K EXCEPT ![Cell(L)] = (IF L[Len(L)].counter = NoCounter THEN 1 ELSE K[Cell(L)]) + 1]
  ELSE K

LEMMA WithCounterType ==
  ASSUME NEW e \in Entries, NEW c \in Ids \union {NoCounter}
  PROVE  /\ WithCounter(e, c) \in Entries /\ WithCounter(e, c).counter = c
         /\ WithCounter(e, c).id = e.id /\ WithCounter(e, c).key = e.key /\ WithCounter(e, c).ver = e.ver
  BY DEF WithCounter, Entries

LEMMA AddedType ==
  ASSUME NEW L \in Seq(Entries), NEW e \in Entries, NEW K \in [Ids -> Int]
  PROVE  /\ AddedList(L, e) \in Seq(Entries) /\ AddedCounters(K, L, e) \in [Ids -> Int]
         /\ Entered(L, e) \in Entries /\ Entered(L, e).id = e.id /\ Entered(L, e).key = e.key
         /\ Entered(L, e).ver = e.ver
         /\ L # <<>> => /\ Cell(L) \in Ids /\ Border(L) \in Entries /\ Len(L) \in 1..Len(L)
                        /\ Border(L).id = L[Len(L)].id /\ Border(L).key = L[Len(L)].key
                        /\ Border(L).ver = L[Len(L)].ver /\ Border(L).counter = Cell(L)
<1>1. L # <<>> => /\ L[Len(L)] \in Entries /\ Len(L) \in 1..Len(L)
                  /\ Cell(L) \in Ids
  <2> SUFFICES ASSUME L # <<>> PROVE L[Len(L)] \in Entries /\ Len(L) \in 1..Len(L) /\ Cell(L) \in Ids
    OBVIOUS
  <2>1. Len(L) \in 1..Len(L)
    BY EmptySeq
  <2>2. L[Len(L)] \in Entries
    BY <2>1, LenProperties
  <2>3. L[Len(L)].id \in Ids /\ L[Len(L)].counter \in Ids \union {NoCounter}
    BY <2>2, EntryType
  <2> QED BY <2>1, <2>2, <2>3 DEF Cell
<1>2. L # <<>> => /\ Border(L) \in Entries /\ Border(L).id = L[Len(L)].id /\ Border(L).key = L[Len(L)].key
                  /\ Border(L).ver = L[Len(L)].ver /\ Border(L).counter = Cell(L)
  BY <1>1, WithCounterType DEF Border
<1>3. /\ Entered(L, e) \in Entries /\ Entered(L, e).id = e.id /\ Entered(L, e).key = e.key
      /\ Entered(L, e).ver = e.ver
  <2>1. CASE L = <<>>
    BY <2>1 DEF Entered
  <2>2. CASE L # <<>>
    <3>1. PICK c \in Ids \union {NoCounter} : c = IF Joins(L, e) THEN Cell(L) ELSE NoCounter
      BY <1>1, <2>2
    <3>2. Entered(L, e) = WithCounter(e, c)
      BY <2>2, <3>1 DEF Entered
    <3> QED BY <3>2, WithCounterType
  <2> QED BY <2>1, <2>2
<1>4. AddedList(L, e) \in Seq(Entries)
  <2>1. Joins(L, e) => Updated(L, Len(L), Border(L)) \in Seq(Entries)
    BY <1>1, <1>2, ExceptSeq DEF Joins, Updated
  <2>2. PICK M \in Seq(Entries) : M = IF Joins(L, e) THEN Updated(L, Len(L), Border(L)) ELSE L
    BY <2>1
  <2> QED BY <1>3, <2>2, AppendProperties DEF AddedList
<1>5. AddedCounters(K, L, e) \in [Ids -> Int]
  <2>1. CASE Joins(L, e)
    <3>1. Cell(L) \in Ids
      BY <1>1, <2>1 DEF Joins
    <3>2. PICK x : x = (IF L[Len(L)].counter = NoCounter THEN 1 ELSE K[Cell(L)]) + 1
      OBVIOUS
    <3>3. x \in Int
      BY <3>1, <3>2
    <3> QED BY <2>1, <3>2, <3>3 DEF AddedCounters
  <2>2. CASE ~Joins(L, e)
    BY <2>2 DEF AddedCounters
  <2> QED BY <2>1, <2>2
<1> QED BY <1>1, <1>2, <1>3, <1>4, <1>5

CommandAdded(q, prio, e, r) ==
  /\ r.queues = WithList(q.queues, prio, AddedList(q.queues[prio], e))
  /\ r.counters = AddedCounters(q.counters, q.queues[prio], e)
  /\ SameTable(q, r) /\ SameTotals(q, r) /\ SameBounds(q, r) /\ SameSums(q, r)

LEMMA CommandAddFields ==
  ASSUME NEW q \in QueueType, NEW prio \in Prios, NEW e \in Entries,
         NEW r, r = _v_out_queue_command_add(q, prio, e)
  PROVE  r \in QueueType /\ CommandAdded(q, prio, e, r)
<1>1. PICK L \in Seq(Entries) : L = q.queues[prio]
  BY DEF QueueType
<1>2. PICK K \in [Ids -> Int] : K = q.counters
  BY DEF QueueType
<1>3. PICK M \in Seq(Entries) : M = AddedList(L, e)
  BY AddedType
<1>4. PICK N \in [Ids -> Int] : N = AddedCounters(K, L, e)
  BY AddedType
<1>5. r = [q EXCEPT !.queues = [q.queues EXCEPT ![prio] = M], !.counters = N]
  <2>0. [q EXCEPT !.counters = K] = q
    BY <1>2 DEF QueueType
  <2>1. CASE L = <<>>
    <3>1. r = [q EXCEPT !.queues[prio] = <<e>>]
      BY <1>1, <2>1 DEF _v_out_queue_command_add
    <3>2. M = <<e>> /\ N = K
      BY <1>3, <1>4, <2>1 DEF AddedList, AddedCounters, Joins, Entered
    <3> QED BY <1>2, <3>1, <3>2 DEF QueueType
  <2>2. CASE L # <<>> /\ ~Joins(L, e)
    <3>1. r = [q EXCEPT !.queues[prio] = Append(q.queues[prio], [e EXCEPT !.counter = NoCounter])]
      BY <1>1, <2>2 DEF _v_out_queue_command_add, Joins
    <3>2. M = Append(L, [e EXCEPT !.counter = NoCounter]) /\ N = K
      BY <1>3, <1>4, <2>2 DEF AddedList, AddedCounters, Entered, WithCounter
    <3> QED BY <1>1, <1>2, <3>1, <3>2 DEF QueueType
  <2>3. CASE Joins(L, e)
    <3>1. M = Append([L EXCEPT ![Len(L)] = [L[Len(L)] EXCEPT !.counter = Cell(L)]], [e EXCEPT !.counter = Cell(L)])
      BY <1>3, <2>3 DEF AddedList, Entered, WithCounter, Border, Updated, Joins
    <3>2. N = [K EXCEPT ![Cell(L)] = (IF L[Len(L)].counter = NoCounter THEN 1 ELSE K[Cell(L)]) + 1]
      BY <1>4, <2>3 DEF AddedCounters
    <3>3. L # <<>> /\ Cmd[e.key].share /\ Cmd[L[Len(L)].key].opcode = Cmd[e.key].opcode
      BY <2>3 DEF Joins
    <3>4. r = [q EXCEPT !.queues[prio]   = Append([@ EXCEPT ![Len(@)].counter = Cell(L)], [e EXCEPT !.counter = Cell(L)]),
                        !.counters[Cell(L)] = (IF L[Len(L)].counter = NoCounter THEN 1 ELSE @) + 1]
      BY <1>1, <3>3 DEF _v_out_queue_command_add, Cell
    <3> QED BY <1>1, <1>2, <3>1, <3>2, <3>4 DEF QueueType
  <2> QED BY <2>1, <2>2, <2>3 DEF Joins
<1>6. PICK R \in [Prios -> Seq(Entries)] : R = WithList(q.queues, prio, M)
  BY DEF QueueType, WithList
<1>7. r = [q EXCEPT !.queues = R, !.counters = N]
  BY <1>5, <1>6 DEF WithList
<1>8. /\ r \in QueueType /\ r.queues = R /\ r.counters = N
      /\ SameTable(q, r) /\ SameTotals(q, r) /\ SameBounds(q, r) /\ SameSums(q, r)
  BY <1>7 DEF QueueType, SameTable, SameTotals, SameBounds, SameSums
<1> QED BY <1>1, <1>2, <1>3, <1>4, <1>6, <1>8 DEF CommandAdded

Less(C, prio) == [C EXCEPT ![prio] = C[prio] - 1]
More(C, prio) == [C EXCEPT ![prio] = C[prio] + 1]

CountedIn(q, prio, e, r) ==
  /\ r.counts = More(q.counts, prio)
  /\ r.buckets = Append(q.buckets, [key |-> e.key, id |-> e.id])
  /\ Summed(q, r, prio, IF q.counts[prio] = 0 THEN RPrio[prio] ELSE 0)
  /\ SameLists(q, r) /\ SameTotals(q, r) /\ SameBounds(q, r)

LEMMA CountedFields ==
  ASSUME NEW q \in QueueType, NEW prio \in Prios, NEW e \in Entries, NEW r, r = Counted(q, prio, e)
  PROVE  r \in QueueType /\ CountedIn(q, prio, e, r)
<1>0. RPrio[prio] \in Int /\ q.sum_high \in Int /\ q.sum_low \in Int /\ q.counts \in [Prios -> Int]
  BY PrioType DEF QueueType
<1>1. PICK s : s = IF q.counts[prio] = 0 THEN AddToSum(q, prio, RPrio[prio]) ELSE q
  OBVIOUS
<1>2. /\ s \in QueueType /\ Summed(q, s, prio, IF q.counts[prio] = 0 THEN RPrio[prio] ELSE 0)
      /\ SameLists(q, s) /\ SameTable(q, s) /\ SameTotals(q, s) /\ SameBounds(q, s)
  <2>1. CASE q.counts[prio] = 0
    BY <1>0, <1>1, <2>1, AddToSumFields
  <2>2. CASE q.counts[prio] # 0
    <3>1. Summed(q, q, prio, 0)
      BY <1>0 DEF Summed
    <3> QED BY <1>1, <2>2, <3>1 DEF SameLists, SameTable, SameTotals, SameBounds
  <2> QED BY <2>1, <2>2
<1>3. PICK t : t = v_hash_array_add_item(s, e)
  OBVIOUS
<1>4. /\ t \in QueueType /\ t.buckets = Append(s.buckets, [key |-> e.key, id |-> e.id])
      /\ SameLists(s, t) /\ t.counts = s.counts /\ SameTotals(s, t) /\ SameBounds(s, t) /\ SameSums(s, t)
  BY <1>2, <1>3, AddItemFields
<1>5. PICK C : C = [t.counts EXCEPT ![prio] = t.counts[prio] + 1]
  OBVIOUS
<1>6. C \in [Prios -> Int]
  <2>1. t.counts \in [Prios -> Int]
    BY <1>4 DEF QueueType
  <2>2. t.counts[prio] + 1 \in Int
    BY <2>1
  <2> QED BY <1>5, <2>1, <2>2
<1>7. r = [t EXCEPT !.counts = C]
  <2>1. r = [t EXCEPT !.counts[prio] = t.counts[prio] + 1]
    BY <1>1, <1>3 DEF Counted
  <2> QED BY <1>5, <2>1
<1>8. /\ r \in QueueType /\ r.counts = C /\ r.buckets = t.buckets
      /\ SameLists(t, r) /\ SameTotals(t, r) /\ SameBounds(t, r) /\ SameSums(t, r)
  BY <1>4, <1>6, <1>7 DEF QueueType, SameLists, SameTotals, SameBounds, SameSums
<1>9. r.buckets = Append(q.buckets, [key |-> e.key, id |-> e.id])
  BY <1>2, <1>4, <1>8 DEF SameTable
<1>10. r.counts = More(q.counts, prio)
  BY <1>2, <1>4, <1>5, <1>8 DEF SameTable, More
<1>11. Summed(q, r, prio, IF q.counts[prio] = 0 THEN RPrio[prio] ELSE 0)
  BY <1>2, <1>4, <1>8 DEF Summed, SameSums
<1> QED BY <1>2, <1>4, <1>8, <1>9, <1>10, <1>11 DEF CountedIn, SameLists, SameTotals, SameBounds

UncountedOf(K, c) == IF c = NoCounter THEN K ELSE [K EXCEPT ![c] = K[c] - 1]

LEMMA UncountedFields ==
  ASSUME NEW q \in QueueType, NEW e \in Entries, NEW r, r = Uncounted(q, e)
  PROVE  /\ r \in QueueType /\ r.queues = q.queues /\ r.counters = UncountedOf(q.counters, e.counter)
         /\ SameTable(q, r) /\ SameTotals(q, r) /\ SameBounds(q, r) /\ SameSums(q, r)
<1>1. PICK N : N = UncountedOf(q.counters, e.counter)
  OBVIOUS
<1>2. e.counter \in Ids \union {NoCounter} /\ q.counters \in [Ids -> Int]
  BY EntryType DEF QueueType
<1>3. N \in [Ids -> Int]
  BY <1>1, <1>2 DEF UncountedOf
<1>4. r = [q EXCEPT !.counters = N]
  <2>1. CASE e.counter = NoCounter
    BY <1>1, <2>1 DEF Uncounted, UncountedOf, QueueType
  <2>2. CASE e.counter # NoCounter
    BY <1>1, <2>2 DEF Uncounted, UncountedOf, QueueType
  <2> QED BY <2>1, <2>2
<1>5. /\ r \in QueueType /\ r.queues = q.queues /\ r.counters = N
      /\ SameTable(q, r) /\ SameTotals(q, r) /\ SameBounds(q, r) /\ SameSums(q, r)
  BY <1>3, <1>4 DEF QueueType, SameTable, SameTotals, SameBounds, SameSums
<1> QED BY <1>1, <1>5

(* The priorities that have commands lie within the bounds.                *)
InBounds(q) ==
  /\ q.min_prio <= q.max_prio
  /\ \A x \in Prios : q.counts[x] # 0 => q.min_prio <= x /\ x <= q.max_prio

LEMMA ShrunkFields ==
  ASSUME NEW q \in QueueType, NEW prio \in Prios, NEW r, r = Shrunk(q, prio), InBounds(q),
         q.counts[prio] = 0
  PROVE  /\ r \in QueueType /\ InBounds(r)
         /\ SameLists(q, r) /\ SameTable(q, r) /\ SameTotals(q, r) /\ SameSums(q, r)
<1> DEFINE below == {x \in Prios : q.counts[x] # 0 /\ q.min_prio <= x /\ x <= prio}
           above == {x \in Prios : q.counts[x] # 0 /\ prio <= x /\ x <= q.max_prio}
           top == IF below = {} THEN q.max_prio ELSE CHOOSE x \in below : \A y \in below : y <= x
           bottom == IF above = {} THEN q.min_prio ELSE CHOOSE x \in above : \A y \in above : x <= y
<1>0. /\ q.max_prio \in Prios /\ q.min_prio \in Prios
      /\ \A x \in Prios : x \in Nat /\ x <= 255
  BY PrioType DEF QueueType
<1>1. below # {} => \E x \in below : \A y \in below : y <= x
  <2>1. below \subseteq Prios
    OBVIOUS
  <2> HIDE DEF below
  <2> QED BY <2>1, GreatestPrio
<1>2. above # {} => \E x \in above : \A y \in above : x <= y
  <2>1. above \subseteq Nat
    BY <1>0
  <2> HIDE DEF above
  <2> QED BY <2>1, LeastExists
<1>3. top \in Prios /\ (below # {} => top \in below /\ \A y \in below : y <= top) /\ (below = {} => top = q.max_prio)
  BY <1>0, <1>1
<1>4. bottom \in Prios /\ (above # {} => bottom \in above /\ \A y \in above : bottom <= y) /\ (above = {} => bottom = q.min_prio)
  <2>1. CASE above = {}
    BY <1>0, <2>1
  <2>2. CASE above # {}
    <3>1. bottom = CHOOSE x \in above : \A y \in above : x <= y
      BY <2>2
    <3>2. above \subseteq Prios
      OBVIOUS
    <3> HIDE DEF above, bottom
    <3>3. bottom \in above /\ \A y \in above : bottom <= y
      BY <1>2, <2>2, <3>1
    <3> QED BY <2>2, <3>2, <3>3
  <2> QED BY <2>1, <2>2
<1>5. CASE q.max_prio = prio /\ q.min_prio # prio
  <2>1. r = [q EXCEPT !.max_prio = top]
    BY <1>5 DEF Shrunk
  <2> HIDE DEF top
  <2>2. /\ r \in QueueType /\ r.max_prio = top /\ r.min_prio = q.min_prio
        /\ SameLists(q, r) /\ SameTable(q, r) /\ SameTotals(q, r) /\ SameSums(q, r)
    BY <1>3, <2>1 DEF QueueType, SameLists, SameTable, SameTotals, SameSums
  <2>3. q.min_prio <= top
    BY <1>0, <1>3, <1>5 DEF InBounds
  <2>4. \A x \in Prios : q.counts[x] # 0 => x \in below
    BY <1>5 DEF InBounds
  <2>5. \A x \in Prios : q.counts[x] # 0 => q.min_prio <= x /\ x <= top
    <3> HIDE DEF below
    <3> QED BY <1>3, <2>4 DEF InBounds
  <2> QED BY <2>2, <2>3, <2>5 DEF InBounds, SameTable
<1>6. CASE q.min_prio = prio /\ q.max_prio # prio
  <2>1. r = [q EXCEPT !.min_prio = bottom]
    BY <1>6 DEF Shrunk
  <2> HIDE DEF bottom
  <2>2. /\ r \in QueueType /\ r.min_prio = bottom /\ r.max_prio = q.max_prio
        /\ SameLists(q, r) /\ SameTable(q, r) /\ SameTotals(q, r) /\ SameSums(q, r)
    BY <1>4, <2>1 DEF QueueType, SameLists, SameTable, SameTotals, SameSums
  <2>3. bottom <= q.max_prio
    BY <1>0, <1>4, <1>6 DEF InBounds
  <2>4. \A x \in Prios : q.counts[x] # 0 => x \in above
    BY <1>6 DEF InBounds
  <2>5. \A x \in Prios : q.counts[x] # 0 => bottom <= x /\ x <= q.max_prio
    <3> HIDE DEF above
    <3> QED BY <1>4, <2>4 DEF InBounds
  <2> QED BY <2>2, <2>3, <2>5 DEF InBounds, SameTable
<1>7. CASE q.min_prio = prio /\ q.max_prio = prio
  <2>1. r = [q EXCEPT !.min_prio = VRS_DEFAULT_PRIORITY, !.max_prio = VRS_DEFAULT_PRIORITY]
    BY <1>7 DEF Shrunk
  <2>2. VRS_DEFAULT_PRIORITY \in Prios
    BY OutQueueAssumption
  <2>3. /\ r \in QueueType /\ r.min_prio = VRS_DEFAULT_PRIORITY /\ r.max_prio = VRS_DEFAULT_PRIORITY
        /\ SameLists(q, r) /\ SameTable(q, r) /\ SameTotals(q, r) /\ SameSums(q, r)
    BY <2>1, <2>2 DEF QueueType, SameLists, SameTable, SameTotals, SameSums
  <2>4. \A x \in Prios : q.counts[x] = 0
    <3>1. \A x \in Prios : q.counts[x] # 0 => x = prio
      BY <1>0, <1>7 DEF InBounds
    <3> QED BY <3>1
  <2>5. InBounds(r)
    BY <2>3, <2>4 DEF InBounds, SameTable, VRS_DEFAULT_PRIORITY
  <2> QED BY <2>3, <2>5
<1>8. CASE q.min_prio # prio /\ q.max_prio # prio
  <2>1. r = q
    BY <1>8 DEF Shrunk
  <2> QED BY <2>1 DEF SameLists, SameTable, SameTotals, SameSums
<1> QED BY <1>5, <1>6, <1>7, <1>8

LEMMA WidenedBounds ==
  ASSUME NEW q \in QueueType, NEW prio \in Prios, NEW r, r = Widened(q, prio),
         q.min_prio <= q.max_prio,
         \A x \in Prios : x # prio /\ q.counts[x] # 0 => q.min_prio <= x /\ x <= q.max_prio
  PROVE  InBounds(r)
<1>1. /\ r.max_prio = IF prio > q.max_prio THEN prio ELSE q.max_prio
      /\ r.min_prio = IF prio <= q.max_prio /\ prio < q.min_prio THEN prio ELSE q.min_prio
      /\ r.counts = q.counts
  BY WidenedFields DEF SameTable
<1>2. q.max_prio \in Nat /\ q.min_prio \in Nat /\ \A x \in Prios : x \in Nat
  BY PrioType DEF QueueType
<1>3. /\ r.min_prio <= r.max_prio /\ r.min_prio <= prio /\ prio <= r.max_prio
      /\ r.min_prio <= q.min_prio /\ q.max_prio <= r.max_prio /\ r.min_prio \in Nat /\ r.max_prio \in Nat
  BY <1>1, <1>2
<1>4. ASSUME NEW x \in Prios, q.counts[x] # 0 PROVE r.min_prio <= x /\ x <= r.max_prio
  <2>1. CASE x = prio
    BY <1>3, <2>1
  <2>2. CASE x # prio
    <3>1. q.min_prio <= x /\ x <= q.max_prio /\ x \in Nat
      BY <1>2, <1>4, <2>2
    <3> QED BY <1>2, <1>3, <3>1
  <2> QED BY <2>1, <2>2
<1> QED BY <1>1, <1>3, <1>4 DEF InBounds

LEMMA EmptiedFields ==
  ASSUME NEW q \in QueueType, NEW prio \in Prios, InBounds(q), NEW r, r = Emptied(q, prio)
  PROVE  /\ r \in QueueType /\ InBounds(r)
         /\ Summed(q, r, prio, IF q.counts[prio] = 0 THEN -RPrio[prio] ELSE 0)
         /\ SameLists(q, r) /\ SameTable(q, r) /\ SameTotals(q, r)
<1>0. RPrio[prio] \in Int /\ -RPrio[prio] \in Int /\ q.sum_high \in Int /\ q.sum_low \in Int
  BY PrioNumbers, QueueSums
<1>1. CASE q.counts[prio] # 0
  <2>1. r = q
    BY <1>1 DEF Emptied
  <2>2. Summed(q, q, prio, 0)
    BY <1>0 DEF Summed
  <2> QED BY <1>1, <2>1, <2>2 DEF SameLists, SameTable, SameTotals
<1>2. CASE q.counts[prio] = 0
  <2>1. PICK s : s = AddToSum(q, prio, -RPrio[prio])
    OBVIOUS
  <2>2. /\ s \in QueueType /\ Summed(q, s, prio, -RPrio[prio])
        /\ SameLists(q, s) /\ SameTable(q, s) /\ SameTotals(q, s) /\ SameBounds(q, s)
    BY <1>0, <2>1, AddToSumFields
  <2>3. r = Shrunk(s, prio)
    BY <1>2, <2>1 DEF Emptied
  <2>4. InBounds(s) /\ s.counts[prio] = 0
    BY <1>2, <2>2 DEF InBounds, SameTable, SameBounds
  <2>5. /\ r \in QueueType /\ InBounds(r)
        /\ SameLists(s, r) /\ SameTable(s, r) /\ SameTotals(s, r) /\ SameSums(s, r)
    BY <2>2, <2>3, <2>4, ShrunkFields
  <2>6. Summed(q, r, prio, -RPrio[prio])
    BY <2>2, <2>5 DEF Summed, SameSums
  <2> QED BY <1>2, <2>2, <2>5, <2>6 DEF SameLists, SameTable, SameTotals
<1> QED BY <1>1, <1>2

(* The queue after a command was popped.                                   *)
LEMMA PopFields ==
  ASSUME NEW q \in QueueType, NEW prio \in Prios, q.queues[prio] # <<>>, InBounds(q),
         q.counts[prio] # 0, NEW e, e = Head(q.queues[prio]), NEW r, r = v_out_queue_pop(q, prio)
  PROVE  /\ r \in QueueType /\ InBounds(r) /\ e \in Entries
         /\ r.queues = WithList(q.queues, prio, Tail(q.queues[prio]))
         /\ r.counters = UncountedOf(q.counters, e.counter)
         /\ r.counts = Less(q.counts, prio) /\ FirstGone(q.buckets, e.key, r.buckets)
         /\ r.count = q.count - 1 /\ r.size = q.size - Cmd[e.key].item_size /\ r.max_size = q.max_size
         /\ Summed(q, r, prio, IF q.counts[prio] = 1 THEN -RPrio[prio] ELSE 0)
<1>1. q.queues \in [Prios -> Seq(Entries)] /\ q.counts \in [Prios -> Int] /\ q.count \in Int /\ q.size \in Int
  BY DEF QueueType
<1>2. e \in Entries /\ Tail(q.queues[prio]) \in Seq(Entries)
  BY <1>1, HeadTailProperties
<1>3. PICK s : s = v_hash_array_remove_item(q, e.key)
  OBVIOUS
<1>4. /\ s \in QueueType /\ FirstGone(q.buckets, e.key, s.buckets)
      /\ SameLists(q, s) /\ s.counts = q.counts /\ SameTotals(q, s) /\ SameBounds(q, s) /\ SameSums(q, s)
  BY <1>3, RemoveItemFields
<1>5. PICK R \in [Prios -> Seq(Entries)] : R = WithList(q.queues, prio, Tail(q.queues[prio]))
  BY <1>1, <1>2 DEF WithList
<1>6. PICK C \in [Prios -> Int] : C = Less(q.counts, prio)
  <2>1. q.counts[prio] - 1 \in Int
    BY <1>1
  <2> QED BY <1>1, <2>1 DEF Less
<1>7. PICK c \in Int : c = q.count - 1
  BY <1>1
<1>8. PICK z \in Int : z = q.size - Cmd[e.key].item_size
  <2>1. Cmd[e.key].item_size \in Nat
    BY <1>2, EntryType
  <2> QED BY <1>1, <2>1
<1>9. PICK t : t = [s EXCEPT !.queues = R, !.counts = C, !.count = c, !.size = z]
  OBVIOUS
<1>10. /\ t \in QueueType /\ t.queues = R /\ t.counts = C /\ t.count = c /\ t.size = z
       /\ t.counters = s.counters /\ t.buckets = s.buckets /\ t.max_size = s.max_size
       /\ SameBounds(s, t) /\ SameSums(s, t)
  BY <1>4, <1>9 DEF QueueType, SameBounds, SameSums
<1>11. r = Emptied(Uncounted(t, e), prio)
  <2>1. /\ s.queues = q.queues /\ s.counts = q.counts /\ s.count = q.count /\ s.size = q.size
    BY <1>4 DEF SameLists, SameTotals
  <2>2. t = [s EXCEPT !.queues[prio] = Tail(s.queues[prio]), !.counts[prio] = s.counts[prio] - 1,
                      !.count = s.count - 1, !.size = s.size - Cmd[e.key].item_size]
    BY <1>5, <1>6, <1>7, <1>8, <1>9, <2>1 DEF WithList, Less
  <2> QED BY <1>3, <2>2 DEF v_out_queue_pop
<1>12. PICK u : u = Uncounted(t, e)
  OBVIOUS
<1>13. /\ u \in QueueType /\ u.queues = t.queues /\ u.counters = UncountedOf(t.counters, e.counter)
       /\ SameTable(t, u) /\ SameTotals(t, u) /\ SameBounds(t, u) /\ SameSums(t, u)
  BY <1>2, <1>10, <1>12, UncountedFields
<1>14. u.counts = C /\ u.max_prio = q.max_prio /\ u.min_prio = q.min_prio
  BY <1>4, <1>10, <1>13 DEF SameTable, SameBounds
<1>15. InBounds(u)
  <2>1. \A x \in Prios : C[x] # 0 => q.counts[x] # 0
    BY <1>1, <1>6 DEF Less
  <2> QED BY <1>14, <2>1 DEF InBounds
<1>16. /\ r \in QueueType /\ InBounds(r)
       /\ Summed(u, r, prio, IF u.counts[prio] = 0 THEN -RPrio[prio] ELSE 0)
       /\ SameLists(u, r) /\ SameTable(u, r) /\ SameTotals(u, r)
  BY <1>11, <1>12, <1>13, <1>15, EmptiedFields
<1>17. u.counts[prio] = 0 <=> q.counts[prio] = 1
  BY <1>1, <1>6, <1>14 DEF Less
<1>18. Summed(q, r, prio, IF q.counts[prio] = 1 THEN -RPrio[prio] ELSE 0)
  BY <1>4, <1>10, <1>13, <1>16, <1>17 DEF Summed, SameSums
<1>19. r.queues = R /\ r.counters = UncountedOf(q.counters, e.counter)
  BY <1>4, <1>10, <1>13, <1>16 DEF SameLists
<1>20. r.counts = C /\ r.buckets = s.buckets
  BY <1>10, <1>13, <1>16 DEF SameTable
<1>21. r.count = c /\ r.size = z /\ r.max_size = q.max_size
  BY <1>4, <1>10, <1>13, <1>16 DEF SameTotals
<1> QED BY <1>2, <1>4, <1>5, <1>6, <1>7, <1>8, <1>16, <1>18, <1>19, <1>20, <1>21

(* The queue after a new command was added.                                *)
LEMMA CreateFields ==
  ASSUME NEW q \in QueueType, NEW prio \in Prios, NEW e \in Entries, InBounds(q),
         NEW r, r = _v_out_queue_command_create(q, prio, e)
  PROVE  /\ r \in QueueType /\ InBounds(r)
         /\ r.queues = WithList(q.queues, prio, AddedList(q.queues[prio], e))
         /\ r.counters = AddedCounters(q.counters, q.queues[prio], e)
         /\ r.counts = More(q.counts, prio)
         /\ r.buckets = Append(q.buckets, [key |-> e.key, id |-> e.id])
         /\ r.count = q.count + 1 /\ r.size = q.size + Cmd[e.key].item_size /\ r.max_size = q.max_size
         /\ Summed(q, r, prio, IF q.counts[prio] = 0 THEN RPrio[prio] ELSE 0)
<1>1. q.count \in Int /\ q.size \in Int /\ Cmd[e.key].item_size \in Nat
  BY EntryType DEF QueueType
<1>2. PICK s : s = _v_out_queue_command_add(q, prio, e)
  OBVIOUS
<1>3. /\ s \in QueueType
      /\ s.queues = WithList(q.queues, prio, AddedList(q.queues[prio], e))
      /\ s.counters = AddedCounters(q.counters, q.queues[prio], e)
      /\ SameTable(q, s) /\ SameTotals(q, s) /\ SameBounds(q, s) /\ SameSums(q, s)
  BY <1>2, CommandAddFields DEF CommandAdded
<1>4. PICK t : t = Counted(s, prio, e)
  OBVIOUS
<1>5. /\ t \in QueueType /\ t.counts = More(s.counts, prio)
      /\ t.buckets = Append(s.buckets, [key |-> e.key, id |-> e.id])
      /\ Summed(s, t, prio, IF s.counts[prio] = 0 THEN RPrio[prio] ELSE 0)
      /\ SameLists(s, t) /\ SameTotals(s, t) /\ SameBounds(s, t)
  BY <1>3, <1>4, CountedFields DEF CountedIn
<1>6. PICK c \in Int : c = q.count + 1
  BY <1>1
<1>7. PICK z \in Int : z = q.size + Cmd[e.key].item_size
  BY <1>1
<1>8. PICK u : u = [t EXCEPT !.count = c, !.size = z]
  OBVIOUS
<1>9. /\ u \in QueueType /\ u.count = c /\ u.size = z /\ u.max_size = t.max_size
      /\ SameLists(t, u) /\ SameTable(t, u) /\ SameBounds(t, u) /\ SameSums(t, u)
  BY <1>5, <1>8 DEF QueueType, SameLists, SameTable, SameBounds, SameSums
<1>10. r = Widened(u, prio)
  <2>1. t.count = q.count /\ t.size = q.size
    BY <1>3, <1>5 DEF SameTotals
  <2>2. u = [t EXCEPT !.count = t.count + 1, !.size = t.size + Cmd[e.key].item_size]
    BY <1>6, <1>7, <1>8, <2>1
  <2> QED BY <1>2, <1>4, <2>2 DEF _v_out_queue_command_create
<1>11. /\ r \in QueueType /\ SameLists(u, r) /\ SameTable(u, r) /\ SameTotals(u, r) /\ SameSums(u, r)
  BY <1>9, <1>10, WidenedFields
<1>12. u.counts = More(q.counts, prio)
  BY <1>3, <1>5, <1>9 DEF SameTable
<1>13. InBounds(r)
  <2>1. u.max_prio = q.max_prio /\ u.min_prio = q.min_prio
    BY <1>3, <1>5, <1>9 DEF SameBounds
  <2>2. q.counts \in [Prios -> Int]
    BY DEF QueueType
  <2>3. \A x \in Prios : x # prio /\ u.counts[x] # 0 => u.min_prio <= x /\ x <= u.max_prio
    BY <1>12, <2>1, <2>2 DEF InBounds, More
  <2> QED BY <1>9, <1>10, <2>1, <2>3, WidenedBounds DEF InBounds
<1>14. r.queues = s.queues /\ r.counters = s.counters
  BY <1>5, <1>9, <1>11 DEF SameLists
<1>15. r.counts = More(q.counts, prio) /\ r.buckets = Append(q.buckets, [key |-> e.key, id |-> e.id])
  BY <1>3, <1>5, <1>9, <1>11, <1>12 DEF SameTable
<1>16. r.count = c /\ r.size = z /\ r.max_size = q.max_size
  BY <1>3, <1>5, <1>9, <1>11 DEF SameTotals
<1>17. Summed(q, r, prio, IF q.counts[prio] = 0 THEN RPrio[prio] ELSE 0)
  BY <1>3, <1>5, <1>9, <1>11 DEF Summed, SameSums, SameTable
<1> QED BY <1>3, <1>6, <1>7, <1>11, <1>13, <1>14, <1>15, <1>16, <1>17

(* The queue after a newer value has taken the place of a waiting one.     *)
WithVer(e, v) == [e EXCEPT !.ver = v]

LEMMA ReplacedFields ==
  ASSUME NEW q \in QueueType, NEW prio \in Prios, NEW n \in 1..Len(q.queues[prio]), NEW e \in Entries,
         NEW r, r = Replaced(q, prio, n, e)
  PROVE  /\ r \in QueueType
         /\ r.queues = WithList(q.queues, prio, Updated(q.queues[prio], n, WithVer(q.queues[prio][n], e.ver)))
         /\ WithVer(q.queues[prio][n], e.ver) \in Entries
         /\ r.counters = q.counters /\ SameTable(q, r) /\ SameTotals(q, r) /\ SameBounds(q, r) /\ SameSums(q, r)
<1>1. q.queues \in [Prios -> Seq(Entries)] /\ q.queues[prio] \in Seq(Entries)
  BY DEF QueueType
<1>2. q.queues[prio][n] \in Entries
  BY <1>1, LenProperties
<1>3. PICK x : x = WithVer(q.queues[prio][n], e.ver)
  OBVIOUS
<1>4. x \in Entries
  BY <1>2, <1>3 DEF WithVer, Entries
<1>5. PICK L : L = Updated(q.queues[prio], n, x)
  OBVIOUS
<1>6. L \in Seq(Entries)
  BY <1>1, <1>4, <1>5, ExceptSeq DEF Updated
<1>7. PICK R \in [Prios -> Seq(Entries)] : R = WithList(q.queues, prio, L)
  BY <1>1, <1>6 DEF WithList
<1>8. r = [q EXCEPT !.queues = R]
  <2>1. r = [q EXCEPT !.queues = [q.queues EXCEPT ![prio] = [q.queues[prio] EXCEPT ![n] = [q.queues[prio][n] EXCEPT !.ver = e.ver]]]]
    BY DEF Replaced
  <2> QED BY <1>3, <1>5, <1>7, <2>1 DEF WithList, Updated, WithVer
<1>9. /\ r \in QueueType /\ r.queues = R
      /\ r.counters = q.counters /\ SameTable(q, r) /\ SameTotals(q, r) /\ SameBounds(q, r) /\ SameSums(q, r)
  BY <1>8 DEF QueueType, SameTable, SameTotals, SameBounds, SameSums
<1> QED BY <1>3, <1>4, <1>5, <1>7, <1>9

(* The queue after a newer value with another priority has replaced a      *)
(* waiting one: R, K and B are its lists, counters and buckets between     *)
(* both steps.                                                             *)
Without(L, n) == SubSeq(L, 1, n - 1) \o SubSeq(L, n + 1, Len(L))

KeptCounter(K, c) == IF c # NoCounter /\ UncountedOf(K, c)[c] = 0 THEN NoCounter ELSE c

MovedTo(q, r, old, n, prio, e, R, K, B, x) ==
  /\ R = WithList(q.queues, old, Without(q.queues[old], n))
  /\ K = UncountedOf(q.counters, q.queues[old][n].counter)
  /\ FirstGone(q.buckets, e.key, B)
  /\ x = WithCounter(e, KeptCounter(q.counters, q.queues[old][n].counter)) /\ x \in Entries
  /\ r.queues = WithList(R, prio, AddedList(R[prio], x))
  /\ r.counters = AddedCounters(K, R[prio], x)
  /\ r.buckets = Append(B, [key |-> x.key, id |-> x.id])
  /\ r.counts = More(Less(q.counts, old), prio)
  /\ Summed(q, r, prio, (IF q.counts[old] = 1 THEN -RPrio[old] ELSE 0)
                          + (IF q.counts[prio] = 0 THEN RPrio[prio] ELSE 0))
  /\ SameTotals(q, r)

LEMMA MovedFields ==
  ASSUME NEW q \in QueueType, NEW old \in Prios, NEW n \in 1..Len(q.queues[old]), NEW prio \in Prios,
         old # prio, NEW e \in Entries, e.key = q.queues[old][n].key, InBounds(q), q.counts[old] # 0, NEW r, r = Moved(q, old, n, prio, e)
  PROVE  r \in QueueType /\ InBounds(r) /\ \E R, K, B, x : MovedTo(q, r, old, n, prio, e, R, K, B, x)
<1>1. /\ q.queues \in [Prios -> Seq(Entries)] /\ q.queues[old] \in Seq(Entries)
      /\ q.counts \in [Prios -> Int] /\ q.sum_high \in Int /\ q.sum_low \in Int
      /\ RPrio[prio] \in Int /\ RPrio[old] \in Int /\ -RPrio[old] \in Int
  <2>1. RPrio[prio] \in Nat /\ RPrio[old] \in Nat
    BY PrioType
  <2>2. RPrio[prio] \in Int /\ RPrio[old] \in Int /\ -RPrio[old] \in Int
    BY <2>1
  <2> QED BY <2>2 DEF QueueType
<1>2. PICK entry \in Entries : entry = q.queues[old][n]
  BY <1>1, LenProperties
<1>3. PICK L \in Seq(Entries) : L = Without(q.queues[old], n)
  BY <1>1, CutSubSeq DEF Cut, Without
<1>4. PICK R \in [Prios -> Seq(Entries)] : R = WithList(q.queues, old, L)
  BY <1>1, <1>3 DEF WithList
<1>5. PICK C \in [Prios -> Int] : C = Less(q.counts, old)
  <2>1. q.counts[old] - 1 \in Int
    BY <1>1
  <2> QED BY <1>1, <2>1 DEF Less
<1>6. PICK s : s = v_hash_array_remove_item(q, e.key)
  OBVIOUS
<1>7. /\ s \in QueueType /\ FirstGone(q.buckets, e.key, s.buckets)
      /\ SameLists(q, s) /\ s.counts = q.counts /\ SameTotals(q, s) /\ SameBounds(q, s) /\ SameSums(q, s)
  BY <1>6, RemoveItemFields
<1>8. PICK t : t = [s EXCEPT !.queues = R, !.counts = C]
  OBVIOUS
<1>9. /\ t \in QueueType /\ t.queues = R /\ t.counts = C /\ t.counters = s.counters /\ t.buckets = s.buckets
      /\ SameTotals(s, t) /\ SameBounds(s, t) /\ SameSums(s, t)
  BY <1>7, <1>8 DEF QueueType, SameTotals, SameBounds, SameSums
<1>10. t = [s EXCEPT !.queues[old] = SubSeq(@, 1, n - 1) \o SubSeq(@, n + 1, Len(@)), !.counts[old] = @ - 1]
  <2>1. s.queues = q.queues /\ s.counts = q.counts
    BY <1>7 DEF SameLists
  <2> QED BY <1>3, <1>4, <1>5, <1>8, <2>1 DEF WithList, Without, Less
<1>11. PICK u : u = Uncounted(t, entry)
  OBVIOUS
<1>12. /\ u \in QueueType /\ u.queues = t.queues /\ u.counters = UncountedOf(t.counters, entry.counter)
       /\ SameTable(t, u) /\ SameTotals(t, u) /\ SameBounds(t, u) /\ SameSums(t, u)
  BY <1>2, <1>9, <1>11, UncountedFields
<1>13. PICK v : v = IF u.counts[old] = 0 THEN AddToSum(u, prio, -RPrio[old]) ELSE u
  OBVIOUS
<1>14. /\ v \in QueueType /\ Summed(u, v, prio, IF u.counts[old] = 0 THEN -RPrio[old] ELSE 0)
       /\ SameLists(u, v) /\ SameTable(u, v) /\ SameTotals(u, v) /\ SameBounds(u, v)
  <2>1. CASE u.counts[old] = 0
    BY <1>1, <1>12, <1>13, <2>1, AddToSumFields
  <2>2. CASE u.counts[old] # 0
    <3>1. u.sum_high \in Int /\ u.sum_low \in Int
      BY <1>12 DEF QueueType
    <3>2. Summed(u, u, prio, 0)
      BY <3>1 DEF Summed
    <3> QED BY <1>12, <1>13, <2>2, <3>2 DEF SameLists, SameTable, SameTotals, SameBounds
  <2> QED BY <2>1, <2>2
<1>15. PICK K : K = UncountedOf(q.counters, entry.counter)
  OBVIOUS
<1>16. v.queues = R /\ v.counters = K /\ v.counts = C /\ v.buckets = s.buckets /\ u.counters = K
  BY <1>7, <1>9, <1>12, <1>14, <1>15 DEF SameLists, SameTable
<1>17. PICK x : x = WithCounter(e, KeptCounter(q.counters, entry.counter))
  OBVIOUS
<1>18. x \in Entries
  <2>1. PICK c : c = KeptCounter(q.counters, entry.counter)
    OBVIOUS
  <2>2. c \in Ids \union {NoCounter}
    BY <1>2, <2>1, EntryType DEF KeptCounter
  <2> QED BY <1>17, <2>1, <2>2, WithCounterType
<1>19. PICK w : w = _v_out_queue_command_add(v, prio, x)
  OBVIOUS
<1>20. /\ w \in QueueType
       /\ w.queues = WithList(v.queues, prio, AddedList(v.queues[prio], x))
       /\ w.counters = AddedCounters(v.counters, v.queues[prio], x)
       /\ SameTable(v, w) /\ SameTotals(v, w) /\ SameBounds(v, w) /\ SameSums(v, w)
  <2>1. v \in QueueType
    BY <1>14
  <2>2. w \in QueueType /\ CommandAdded(v, prio, x, w)
    BY <1>18, <1>19, <2>1, CommandAddFields
  <2> QED BY <2>2 DEF CommandAdded
<1>21. PICK y : y = Counted(w, prio, x)
  OBVIOUS
<1>22. /\ y \in QueueType /\ y.counts = More(w.counts, prio)
       /\ y.buckets = Append(w.buckets, [key |-> x.key, id |-> x.id])
       /\ Summed(w, y, prio, IF w.counts[prio] = 0 THEN RPrio[prio] ELSE 0)
       /\ SameLists(w, y) /\ SameTotals(w, y) /\ SameBounds(w, y)
  <2>1. w \in QueueType
    BY <1>20
  <2>2. y \in QueueType /\ CountedIn(w, prio, x, y)
    BY <1>18, <1>21, <2>1, CountedFields
  <2> QED BY <2>2 DEF CountedIn
<1>23. r = Widened(y, prio)
  <2>1. x = [e EXCEPT !.counter = IF entry.counter # NoCounter /\ u.counters[entry.counter] = 0
                                  THEN NoCounter ELSE entry.counter]
    BY <1>15, <1>16, <1>17 DEF WithCounter, KeptCounter
  <2>2. t = [v_hash_array_remove_item(q, q.queues[old][n].key)
              EXCEPT !.queues[old] = SubSeq(@, 1, n - 1) \o SubSeq(@, n + 1, Len(@)), !.counts[old] = @ - 1]
    BY <1>6, <1>10
  <2>3. u = Unlisted(q, old, n)
    BY <1>2, <1>11, <2>2 DEF Unlisted
  <2>4. x = [e EXCEPT !.counter = IF q.queues[old][n].counter # NoCounter /\ u.counters[q.queues[old][n].counter] = 0
                                  THEN NoCounter ELSE q.queues[old][n].counter]
    BY <1>2, <2>1
  <2>5. r = Widened(Counted(_v_out_queue_command_add(v, prio, x), prio, x), prio)
    BY <1>13, <2>3, <2>4 DEF Moved
  <2> QED BY <1>19, <1>21, <2>5
<1>24. /\ r \in QueueType /\ SameLists(y, r) /\ SameTable(y, r) /\ SameTotals(y, r) /\ SameSums(y, r)
  BY <1>22, <1>23, WidenedFields
<1>25. w.counts = C /\ y.counts = More(C, prio) /\ C[prio] = q.counts[prio]
       /\ (C[old] = 0 <=> q.counts[old] = 1) /\ u.counts = C
  BY <1>1, <1>5, <1>9, <1>12, <1>16, <1>20, <1>22 DEF SameTable, More, Less
<1>26. InBounds(r)
  <2>1. y.max_prio = q.max_prio /\ y.min_prio = q.min_prio
    BY <1>7, <1>9, <1>12, <1>14, <1>20, <1>22 DEF SameBounds
  <2>2. \A z \in Prios : z # prio /\ y.counts[z] # 0 => q.counts[z] # 0
    BY <1>1, <1>5, <1>25 DEF Less, More
  <2>3. \A z \in Prios : z # prio /\ y.counts[z] # 0 => y.min_prio <= z /\ z <= y.max_prio
    BY <2>1, <2>2 DEF InBounds
  <2> QED BY <1>22, <1>23, <2>1, <2>3, WidenedBounds DEF InBounds
<1>27. r.queues = WithList(R, prio, AddedList(R[prio], x)) /\ r.counters = AddedCounters(K, R[prio], x)
  BY <1>16, <1>20, <1>22, <1>24 DEF SameLists
<1>28. r.buckets = Append(s.buckets, [key |-> x.key, id |-> x.id]) /\ r.counts = More(Less(q.counts, old), prio)
  BY <1>5, <1>16, <1>20, <1>22, <1>24, <1>25 DEF SameTable
<1>29. SameTotals(q, r)
  BY <1>7, <1>9, <1>12, <1>14, <1>20, <1>22, <1>24 DEF SameTotals
<1>30. Summed(q, r, prio, (IF q.counts[old] = 1 THEN -RPrio[old] ELSE 0)
                            + (IF q.counts[prio] = 0 THEN RPrio[prio] ELSE 0))
  <2>1. PICK a \in Int : a = IF q.counts[old] = 1 THEN -RPrio[old] ELSE 0
    <3>1. -RPrio[old] \in Int
      BY PrioNumbers
    <3> QED BY <3>1
  <2>2. PICK b \in Int : b = IF q.counts[prio] = 0 THEN RPrio[prio] ELSE 0
    <3>1. RPrio[prio] \in Int
      BY PrioNumbers
    <3> QED BY <3>1
  <2>3. Summed(q, v, prio, a)
    BY <1>7, <1>9, <1>12, <1>14, <1>25, <2>1 DEF Summed, SameSums
  <2>4. Summed(v, r, prio, b)
    BY <1>20, <1>22, <1>24, <1>25, <2>2 DEF Summed, SameSums
  <2>5. Summed(q, r, prio, a + b)
    BY <1>1, <2>3, <2>4 DEF Summed
  <2> QED BY <2>1, <2>2, <2>5
<1>31. MovedTo(q, r, old, n, prio, e, R, K, s.buckets, x)
  BY <1>2, <1>3, <1>4, <1>7, <1>15, <1>17, <1>18, <1>27, <1>28, <1>29, <1>30 DEF MovedTo
<1> QED BY <1>24, <1>26, <1>31

-----------------------------------------------------------------------------
(* A set of entries that grows, shrinks, or exchanges an entry.            *)
LEMMA EntrySetAdd ==
  ASSUME NEW S, IsFiniteSet(S), NEW x, x \notin S
  PROVE  IsFiniteSet(S \union {x}) /\ Cardinality(S \union {x}) = Cardinality(S) + 1
BY FS_AddElement

LEMMA EntrySetRemove ==
  ASSUME NEW S, IsFiniteSet(S), NEW x \in S
  PROVE  /\ IsFiniteSet(S \ {x}) /\ Cardinality(S \ {x}) = Cardinality(S) - 1
         /\ Cardinality(S) \in Nat \ {0}
<1>1. IsFiniteSet(S \ {x}) /\ Cardinality(S \ {x}) = Cardinality(S) - 1
  BY FS_RemoveElement
<1>2. Cardinality(S) \in Nat /\ Cardinality(S) # 0
  BY FS_EmptySet, FS_CardinalityType
<1> QED BY <1>1, <1>2

ItemSize == [e \in Entries |-> Cmd[e.key].item_size]

SizeOf(S) == SumFunctionOnSet(ItemSize, S)

LEMMA SizeAdd ==
  ASSUME NEW S, S \subseteq Entries, IsFiniteSet(S), NEW x \in Entries, x \notin S
  PROVE  SizeOf(S \union {x}) = SizeOf(S) + Cmd[x.key].item_size /\ SizeOf(S) \in Int
<1>1. \A y \in S \union {x} : ItemSize[y] \in Int /\ ItemSize[x] = Cmd[x.key].item_size
  BY EntryType DEF ItemSize
<1>2. SumFunctionOnSet(ItemSize, S \union {x}) = SumFunctionOnSet(ItemSize, S) + ItemSize[x]
  BY <1>1, SumAdd
<1>3. SumFunctionOnSet(ItemSize, S) \in Int
  BY <1>1, SumType
<1> QED BY <1>1, <1>2, <1>3 DEF SizeOf

LEMMA SizeRemove ==
  ASSUME NEW S, S \subseteq Entries, IsFiniteSet(S), NEW x \in S
  PROVE  SizeOf(S \ {x}) = SizeOf(S) - Cmd[x.key].item_size /\ SizeOf(S \ {x}) \in Int
<1>0. PICK T : T = S \ {x}
  OBVIOUS
<1>1. T \subseteq Entries /\ IsFiniteSet(T) /\ x \notin T /\ x \in Entries /\ S = T \union {x}
  BY <1>0, FS_RemoveElement
<1>2. SizeOf(S) = SizeOf(T) + Cmd[x.key].item_size /\ SizeOf(T) \in Int
  BY <1>1, SizeAdd
<1>3. Cmd[x.key].item_size \in Nat
  BY <1>1, EntryType
<1> QED BY <1>0, <1>2, <1>3

LEMMA SizeNat ==
  ASSUME NEW S, S \subseteq Entries, IsFiniteSet(S)
  PROVE  SizeOf(S) \in Nat
<1> DEFINE K == {k \in Nat : \A T \in SUBSET Entries : IsFiniteSet(T) /\ Cardinality(T) = k => SizeOf(T) \in Nat}
<1>1. 0 \in K
  <2> SUFFICES ASSUME NEW T \in SUBSET Entries, IsFiniteSet(T), Cardinality(T) = 0 PROVE SizeOf(T) \in Nat
    OBVIOUS
  <2>1. T = {}
    BY FS_EmptySet
  <2>2. SizeOf({}) = 0
    BY SumEmpty DEF SizeOf
  <2> QED BY <2>1, <2>2
<1>2. ASSUME NEW k \in Nat, k \in K PROVE k + 1 \in K
  <2> SUFFICES ASSUME NEW T \in SUBSET Entries, IsFiniteSet(T), Cardinality(T) = k + 1 PROVE SizeOf(T) \in Nat
    OBVIOUS
  <2>1. T # {}
    BY FS_EmptySet
  <2>2. PICK x \in T : TRUE
    BY <2>1
  <2>3. PICK U : U = T \ {x}
    OBVIOUS
  <2>4. U \in SUBSET Entries /\ IsFiniteSet(U) /\ Cardinality(U) = k
    <3>1. IsFiniteSet(U) /\ Cardinality(U) = Cardinality(T) - 1
      BY <2>3, FS_RemoveElement
    <3> QED BY <2>3, <3>1
  <2>5. SizeOf(U) \in Nat
    BY <1>2, <2>4
  <2>6. SizeOf(U) = SizeOf(T) - Cmd[x.key].item_size
    BY <2>3, SizeRemove
  <2>7. Cmd[x.key].item_size \in Nat
    BY EntryType
  <2>8. SizeOf(T) \in Int
    <3>1. \A y \in T : ItemSize[y] \in Int
      BY EntryType DEF ItemSize
    <3> QED BY <3>1, SumType DEF SizeOf
  <2> QED BY <2>5, <2>6, <2>7, <2>8
<1> HIDE DEF K
<1>3. Nat \subseteq K
  BY <1>1, <1>2, SetInduction
<1>4. Cardinality(S) \in K
  BY <1>3, FS_CardinalityType
<1> QED BY <1>4 DEF K

(* Entry b is exchanged for c, which differs from it in counter or value.  *)
Swapped(S, b, c) == (S \ {b}) \union {c}

Twin(S, b, c) ==
  /\ b \in S /\ b \in Entries /\ c \in Entries /\ c.id = b.id /\ c.key = b.key
  /\ \A f \in S \ {b} : f.id # c.id

LEMMA SwapFacts ==
  ASSUME NEW S, S \subseteq Entries, IsFiniteSet(S), NEW b, NEW c, Twin(S, b, c)
  PROVE  /\ Swapped(S, b, c) \subseteq Entries /\ IsFiniteSet(Swapped(S, b, c))
         /\ Cardinality(Swapped(S, b, c)) = Cardinality(S)
         /\ SizeOf(Swapped(S, b, c)) = SizeOf(S)
<1>1. PICK T : T = S \ {b}
  OBVIOUS
<1>2. /\ IsFiniteSet(T) /\ T \subseteq Entries /\ c \notin T /\ c \in Entries /\ b \in S /\ b \in Entries
      /\ c.key = b.key /\ Swapped(S, b, c) = T \union {c}
  BY <1>1, FS_RemoveElement DEF Twin, Swapped
<1>3. Cardinality(T) = Cardinality(S) - 1 /\ Cardinality(S) \in Nat
  BY <1>1, <1>2, EntrySetRemove
<1>4. IsFiniteSet(T \union {c}) /\ Cardinality(T \union {c}) = Cardinality(T) + 1
  BY <1>2, EntrySetAdd
<1>5. SizeOf(T) = SizeOf(S) - Cmd[b.key].item_size /\ SizeOf(T) \in Int
  BY <1>1, <1>2, SizeRemove
<1>6. SizeOf(T \union {c}) = SizeOf(T) + Cmd[c.key].item_size
  BY <1>2, SizeAdd
<1>7. Cmd[b.key].item_size \in Nat /\ SizeOf(S) \in Int
  BY <1>2, EntryType, SizeNat
<1> QED BY <1>2, <1>3, <1>4, <1>5, <1>6, <1>7

(* The entries S of a queue, with e added behind list L, are T.            *)
Entering(S, T, L, e) ==
  \/ ~Joins(L, e) /\ T = S \union {Entered(L, e)}
  \/ /\ Joins(L, e) /\ Twin(S, Last(L), Border(L))
     /\ T = Swapped(S, Last(L), Border(L)) \union {Entered(L, e)}

LEMMA ListEntered ==
  ASSUME NEW Q, NEW prog, NEW acc, ListsSound(Q, prog, acc), NEW prio \in Prios,
         NEW e \in Entries, Fits(prog, acc, prio, e),
         \A f \in AllOf(Q) : f.id < e.id /\ ~(f.key = e.key /\ Cmd[e.key].dups),
         NEW R, R = WithList(Q, prio, AddedList(Q[prio], e))
  PROVE  /\ ListsSound(R, prog, acc) /\ Entering(AllOf(Q), AllOf(R), Q[prio], e)
         /\ Len(R[prio]) = Len(Q[prio]) + 1 /\ \A x \in Prios : x # prio => R[x] = Q[x]
<1>1. PICK L \in Seq(Entries) : L = Q[prio]
  BY DEF ListsSound
<1>2. PICK x : x = Entered(L, e)
  OBVIOUS
<1>3. x \in Entries /\ x.id = e.id /\ x.key = e.key /\ x.ver = e.ver
  <2>1. PICK K \in [Ids -> Int] : TRUE
    <3>1. [i \in Ids |-> 0] \in [Ids -> Int]
      OBVIOUS
    <3> QED BY <3>1
  <2> QED BY <1>2, <2>1, AddedType
<1>4. Fits(prog, acc, prio, x)
  BY <1>3 DEF Fits
<1>5. CASE ~Joins(L, e)
  <2>1. R = WithList(Q, prio, Append(Q[prio], x))
    BY <1>1, <1>2, <1>5 DEF AddedList
  <2>2. \A f \in AllOf(Q) : f.id < x.id /\ ~(f.key = x.key /\ Cmd[x.key].dups)
    BY <1>3
  <2>3. /\ ListsSound(R, prog, acc) /\ AllOf(R) = AllOf(Q) \union {x}
        /\ Len(R[prio]) = Len(Q[prio]) + 1 /\ \A y \in Prios : y # prio => R[y] = Q[y]
    BY <1>3, <1>4, <2>1, <2>2, ListAppended
  <2> QED BY <1>1, <1>2, <1>5, <2>3 DEF Entering
<1>6. CASE Joins(L, e)
  <2>0. L # <<>>
    BY <1>6 DEF Joins
  <2>1. PICK n, b : n = Len(L) /\ b = Border(L)
    OBVIOUS
  <2>2. /\ n \in 1..Len(L) /\ b \in Entries /\ b.id = L[n].id /\ b.key = L[n].key /\ b.ver = L[n].ver
    <3>1. PICK K \in [Ids -> Int] : TRUE
      <4>1. [i \in Ids |-> 0] \in [Ids -> Int]
        OBVIOUS
      <4> QED BY <4>1
    <3> QED BY <2>0, <2>1, <3>1, AddedType
  <2>3. n \in 1..Len(Q[prio]) /\ b.id = Q[prio][n].id /\ b.key = Q[prio][n].key
    BY <1>1, <2>2
  <2>4. Fits(prog, acc, prio, b)
    <3>1. Q \in [Prios -> Seq(Entries)]
      BY DEF ListsSound
    <3>2. L[n] \in Range(Q[prio])
      BY <1>1, <2>3, <3>1, ListEntries
    <3>3. Fits(prog, acc, prio, L[n])
      BY <3>2 DEF ListsSound
    <3> QED BY <2>2, <3>3 DEF Fits
  <2>5. PICK P : P = WithList(Q, prio, Updated(Q[prio], n, b))
    OBVIOUS
  <2>6. /\ ListsSound(P, prog, acc) /\ AllOf(P) = (AllOf(Q) \ {Q[prio][n]}) \union {b}
        /\ Q[prio][n] \in AllOf(Q) /\ \A f \in AllOf(Q) \ {Q[prio][n]} : f.id # b.id
        /\ Len(P[prio]) = Len(Q[prio]) /\ \A y \in Prios : y # prio => P[y] = Q[y]
    BY <2>2, <2>3, <2>4, <2>5, ListUpdated
  <2>7. Q[prio][n] \in Entries /\ Twin(AllOf(Q), Last(L), b)
    <3>1. Q[prio][n] \in Entries
      BY <1>1, <2>2, LenProperties
    <3> QED BY <1>1, <2>1, <2>2, <2>6, <3>1 DEF Twin, Last
  <2>8. P[prio] = Updated(L, n, b)
    <3>1. Q \in [Prios -> Seq(Entries)]
      BY DEF ListsSound
    <3> QED BY <1>1, <2>5, <3>1 DEF WithList
  <2>9. R = WithList(P, prio, Append(P[prio], x))
    <3>1. R = WithList(Q, prio, Append(Updated(L, n, b), x))
      BY <1>1, <1>2, <1>6, <2>1 DEF AddedList
    <3>2. Q \in [Prios -> Seq(Entries)]
      BY DEF ListsSound
    <3> QED BY <2>5, <2>8, <3>1, <3>2 DEF WithList
  <2>10. \A f \in AllOf(P) : f.id < x.id /\ ~(f.key = x.key /\ Cmd[x.key].dups)
    <3>1. \A f \in AllOf(P) : \E g \in AllOf(Q) : g.id = f.id /\ g.key = f.key
      BY <2>3, <2>6
    <3> QED BY <1>3, <3>1
  <2>11. /\ ListsSound(R, prog, acc) /\ AllOf(R) = AllOf(P) \union {x}
         /\ Len(R[prio]) = Len(P[prio]) + 1 /\ \A y \in Prios : y # prio => R[y] = P[y]
    BY <1>3, <1>4, <2>6, <2>9, <2>10, ListAppended
  <2>12. AllOf(P) = Swapped(AllOf(Q), Last(L), b)
    BY <1>1, <2>1, <2>6 DEF Swapped, Last
  <2> QED BY <1>1, <1>2, <1>6, <2>1, <2>6, <2>7, <2>11, <2>12 DEF Entering
<1> QED BY <1>5, <1>6

(* What entering does to the number of entries and to their size.          *)
LEMMA EnteringTotals ==
  ASSUME NEW S, S \subseteq Entries, IsFiniteSet(S), NEW T, NEW L, NEW e \in Entries, L \in Seq(Entries),
         Entering(S, T, L, e), \A f \in S : f.id < e.id
  PROVE  /\ T \subseteq Entries /\ IsFiniteSet(T) /\ Cardinality(T) = Cardinality(S) + 1
         /\ SizeOf(T) = SizeOf(S) + Cmd[e.key].item_size
<1>1. PICK x : x = Entered(L, e)
  OBVIOUS
<1>2. x \in Entries /\ x.id = e.id /\ x.key = e.key
  <2>1. PICK K \in [Ids -> Int] : TRUE
    <3>1. [i \in Ids |-> 0] \in [Ids -> Int]
      OBVIOUS
    <3> QED BY <3>1
  <2> QED BY <1>1, <2>1, AddedType
<1>3. PICK U : /\ T = U \union {x} /\ U \subseteq Entries /\ IsFiniteSet(U)
               /\ Cardinality(U) = Cardinality(S) /\ SizeOf(U) = SizeOf(S)
               /\ \A f \in U : \E g \in S : g.id = f.id
  <2>1. CASE ~Joins(L, e)
    BY <1>1, <2>1 DEF Entering
  <2>2. CASE Joins(L, e)
    <3>1. PICK b, c : b = Last(L) /\ c = Border(L)
      OBVIOUS
    <3>2. Twin(S, b, c) /\ T = Swapped(S, b, c) \union {x}
      BY <1>1, <2>2, <3>1 DEF Entering
    <3>3. /\ Swapped(S, b, c) \subseteq Entries /\ IsFiniteSet(Swapped(S, b, c))
          /\ Cardinality(Swapped(S, b, c)) = Cardinality(S) /\ SizeOf(Swapped(S, b, c)) = SizeOf(S)
      BY <3>2, SwapFacts
    <3>4. \A f \in Swapped(S, b, c) : \E g \in S : g.id = f.id
      BY <3>2 DEF Twin, Swapped
    <3> QED BY <3>2, <3>3, <3>4
  <2> QED BY <2>1, <2>2
<1>4. x \notin U
  <2>1. x \in U => \E g \in S : g.id = x.id
    BY <1>3
  <2>2. \A g \in S : g.id # x.id
    BY <1>2, EntryType
  <2> QED BY <2>1, <2>2
<1>5. IsFiniteSet(T) /\ Cardinality(T) = Cardinality(U) + 1
  BY <1>3, <1>4, EntrySetAdd
<1>6. SizeOf(T) = SizeOf(U) + Cmd[x.key].item_size
  BY <1>2, <1>3, <1>4, SizeAdd
<1> QED BY <1>2, <1>3, <1>5, <1>6

-----------------------------------------------------------------------------
(* Counters.  A counter is named by an entry that shares it as long as the *)
(* entry waits, so a new counter is never one in use; an entry whose key   *)
(* is replaced shares a counter only with entries of another key.          *)
CountIn(S, c) == Cardinality({e \in S : e.counter = c})

OtherKey(prog, key) ==
  \E k \in DOMAIN prog : Cmd[prog[k].key].opcode = Cmd[key].opcode /\ prog[k].key # key

Owned(S) == \A f, g \in S : f.counter = g.id => g.counter = g.id

CountersSound(S, prog, K) ==
  /\ \A c \in Ids : K[c] = CountIn(S, c)
  /\ \A e \in S : e.counter <= e.id
  /\ Owned(S)
  /\ \A e \in S : e.counter # NoCounter /\ Cmd[e.key].dups => OtherKey(prog, e.key)

LEMMA CountInAdd ==
  ASSUME NEW S, IsFiniteSet(S), NEW x, x \notin S, NEW c
  PROVE  /\ CountIn(S \union {x}, c) = IF x.counter = c THEN CountIn(S, c) + 1 ELSE CountIn(S, c)
         /\ CountIn(S, c) \in Nat
<1>1. PICK A : A = {e \in S : e.counter = c}
  OBVIOUS
<1>2. IsFiniteSet(A) /\ x \notin A
  BY <1>1, FS_Subset
<1>3. Cardinality(A) \in Nat
  BY <1>2, FS_CardinalityType
<1>4. CASE x.counter = c
  <2>1. {e \in S \union {x} : e.counter = c} = A \union {x}
    BY <1>1, <1>4
  <2>2. Cardinality(A \union {x}) = Cardinality(A) + 1
    BY <1>2, EntrySetAdd
  <2> QED BY <1>1, <1>3, <1>4, <2>1, <2>2 DEF CountIn
<1>5. CASE x.counter # c
  <2>1. {e \in S \union {x} : e.counter = c} = A
    BY <1>1, <1>5
  <2> QED BY <1>1, <1>3, <1>5, <2>1 DEF CountIn
<1> QED BY <1>4, <1>5

LEMMA CountInRemove ==
  ASSUME NEW S, IsFiniteSet(S), NEW x \in S, NEW c
  PROVE  /\ CountIn(S \ {x}, c) = IF x.counter = c THEN CountIn(S, c) - 1 ELSE CountIn(S, c)
         /\ CountIn(S, c) \in Nat /\ CountIn(S \ {x}, c) \in Nat
<1>1. PICK T : T = S \ {x}
  OBVIOUS
<1>2. IsFiniteSet(T) /\ x \notin T /\ S = T \union {x}
  BY <1>1, FS_RemoveElement
<1>3. /\ CountIn(S, c) = IF x.counter = c THEN CountIn(T, c) + 1 ELSE CountIn(T, c)
      /\ CountIn(T, c) \in Nat
  BY <1>2, CountInAdd
<1> QED BY <1>1, <1>3

LEMMA CountersRemove ==
  ASSUME NEW S, S \subseteq Entries, IsFiniteSet(S), NEW prog, NEW K \in [Ids -> Int],
         CountersSound(S, prog, K), NEW x \in S
  PROVE  CountersSound(S \ {x}, prog, UncountedOf(K, x.counter))
<1>1. PICK T : T = S \ {x}
  OBVIOUS
<1>2. x.counter \in Ids \union {NoCounter} /\ NoCounter \notin Ids
  BY EntryType, OutQueueAssumption
<1>3. PICK N : N = UncountedOf(K, x.counter)
  OBVIOUS
<1>4. ASSUME NEW c \in Ids PROVE N[c] = CountIn(T, c)
  <2>1. /\ CountIn(T, c) = IF x.counter = c THEN CountIn(S, c) - 1 ELSE CountIn(S, c)
    BY <1>1, CountInRemove
  <2>2. K[c] = CountIn(S, c)
    BY DEF CountersSound
  <2>3. N[c] = IF x.counter = c THEN K[c] - 1 ELSE K[c]
    BY <1>2, <1>3 DEF UncountedOf
  <2> QED BY <2>1, <2>2, <2>3
<1>5. \A e \in T : e.counter <= e.id
  BY <1>1 DEF CountersSound
<1>6. Owned(T)
  BY <1>1 DEF CountersSound, Owned
<1>7. \A e \in T : e.counter # NoCounter /\ Cmd[e.key].dups => OtherKey(prog, e.key)
  BY <1>1 DEF CountersSound
<1> QED BY <1>1, <1>3, <1>4, <1>5, <1>6, <1>7 DEF CountersSound

LEMMA CountersSwap ==
  ASSUME NEW S, S \subseteq Entries, IsFiniteSet(S), NEW prog, NEW K,
         CountersSound(S, prog, K), NEW b, NEW d, Twin(S, b, d), d.counter = b.counter
  PROVE  CountersSound(Swapped(S, b, d), prog, K)
<1>1. PICK T : T = S \ {b}
  OBVIOUS
<1>2. PICK U : U = Swapped(S, b, d)
  OBVIOUS
<1>3. U = T \union {d} /\ d \notin T /\ b \in S /\ IsFiniteSet(T) /\ d.id = b.id /\ d.key = b.key
  BY <1>1, <1>2, FS_RemoveElement DEF Swapped, Twin
<1>4. ASSUME NEW c \in Ids PROVE K[c] = CountIn(U, c)
  <2>1. /\ CountIn(T, c) = IF b.counter = c THEN CountIn(S, c) - 1 ELSE CountIn(S, c)
        /\ CountIn(S, c) \in Nat
    BY <1>1, <1>3, CountInRemove
  <2>2. CountIn(U, c) = IF d.counter = c THEN CountIn(T, c) + 1 ELSE CountIn(T, c)
    BY <1>3, CountInAdd
  <2>3. K[c] = CountIn(S, c)
    BY DEF CountersSound
  <2> QED BY <2>1, <2>2, <2>3
<1>5. \A e \in U : \E f \in S : f.id = e.id /\ f.key = e.key /\ f.counter = e.counter
  BY <1>1, <1>3
<1>6. \A e \in U : e.counter <= e.id
  BY <1>5 DEF CountersSound
<1>7. Owned(U)
  <2> SUFFICES ASSUME NEW f \in U, NEW g \in U, f.counter = g.id PROVE g.counter = g.id
    BY DEF Owned
  <2>1. PICK i \in S : i.counter = f.counter
    BY <1>5
  <2>2. PICK j \in S : j.id = g.id /\ j.counter = g.counter
    BY <1>5
  <2> QED BY <2>1, <2>2 DEF CountersSound, Owned
<1>8. \A e \in U : e.counter # NoCounter /\ Cmd[e.key].dups => OtherKey(prog, e.key)
  BY <1>5 DEF CountersSound
<1> QED BY <1>2, <1>4, <1>6, <1>7, <1>8 DEF CountersSound

LEMMA CountersEnter ==
  ASSUME NEW S, S \subseteq Entries, IsFiniteSet(S), NEW prog, NEW K \in [Ids -> Int],
         CountersSound(S, prog, K), NEW L \in Seq(Entries), NEW T, NEW e \in Entries, Entering(S, T, L, e),
         \A f \in S : f.id < e.id /\ ~(f.key = e.key /\ Cmd[e.key].dups), e.counter = NoCounter,
         \A f \in S : \E k \in DOMAIN prog : prog[k].key = f.key,
         \E k \in DOMAIN prog : prog[k].key = e.key
  PROVE  CountersSound(T, prog, AddedCounters(K, L, e))
<1>1. PICK x : x = Entered(L, e)
  OBVIOUS
<1>2. x \in Entries /\ x.id = e.id /\ x.key = e.key
  BY <1>1, AddedType
<1>3. \A f \in S : /\ f.id \in Nat \ {0} /\ f.id \in Ids /\ f.id < x.id /\ f.id # x.id
                   /\ f.counter \in Nat /\ f.counter <= f.id /\ f.counter # x.id
  <2> SUFFICES ASSUME NEW f \in S
               PROVE  /\ f.id \in Nat \ {0} /\ f.id \in Ids /\ f.id < x.id /\ f.id # x.id
                      /\ f.counter \in Nat /\ f.counter <= f.id /\ f.counter # x.id
    OBVIOUS
  <2>1. f.id \in Nat \ {0} /\ f.id \in Ids /\ f.counter \in Nat /\ x.id \in Nat
    BY <1>2, EntryType
  <2>2. f.id < x.id /\ f.counter <= f.id
    BY <1>2 DEF CountersSound
  <2> QED BY <2>1, <2>2
<1>4. CASE ~Joins(L, e)
  <2>1. T = S \union {x} /\ AddedCounters(K, L, e) = K
    BY <1>1, <1>4 DEF Entering, AddedCounters
  <2>2. x.counter = NoCounter
    <3>1. CASE L = <<>>
      BY <1>1, <3>1 DEF Entered
    <3>2. CASE L # <<>>
      <4>1. x = WithCounter(e, NoCounter)
        BY <1>1, <1>4, <3>2 DEF Entered
      <4> QED BY <4>1, WithCounterType
    <3> QED BY <3>1, <3>2
  <2>3. x \notin S
    BY <1>3
  <2>4. \A c \in Ids : K[c] = CountIn(T, c)
    <3>1. NoCounter \notin Ids
      BY OutQueueAssumption
    <3> QED BY <2>1, <2>2, <2>3, <3>1, CountInAdd DEF CountersSound
  <2>5. x.counter <= x.id /\ x.id \in Nat \ {0}
    <3>1. x.id \in Nat \ {0}
      BY <1>2, EntryType
    <3> QED BY <2>2, <3>1 DEF NoCounter
  <2>6. Owned(T)
    <3> SUFFICES ASSUME NEW f \in T, NEW g \in T, f.counter = g.id PROVE g.counter = g.id
      BY DEF Owned
    <3>1. f \in S
      BY <1>3, <2>1, <2>2, <2>5 DEF NoCounter
    <3>2. g \in S
      BY <1>3, <2>1, <3>1
    <3> QED BY <3>1, <3>2 DEF CountersSound, Owned
  <2>7. \A f \in T : f.counter <= f.id
    BY <2>1, <2>5 DEF CountersSound
  <2>8. \A f \in T : f.counter # NoCounter /\ Cmd[f.key].dups => OtherKey(prog, f.key)
    BY <2>1, <2>2 DEF CountersSound
  <2> QED BY <2>1, <2>4, <2>6, <2>7, <2>8 DEF CountersSound
<1>5. CASE Joins(L, e)
  <2>1. PICK b, d, cell : b = Last(L) /\ d = Border(L) /\ cell = Cell(L)
    OBVIOUS
  <2>2. /\ Twin(S, b, d) /\ T = Swapped(S, b, d) \union {x} /\ L # <<>>
        /\ Cmd[b.key].opcode = Cmd[e.key].opcode
    BY <1>1, <1>5, <2>1 DEF Entering, Joins, Last
  <2>3. cell \in Ids /\ d.counter = cell /\ b \in S /\ d \in Entries /\ d.id = b.id /\ d.key = b.key
    BY <2>1, <2>2, AddedType DEF Twin
  <2>4. cell = (IF b.counter = NoCounter THEN b.id ELSE b.counter) /\ cell <= b.id /\ cell \in Nat
    <3>1. cell = IF b.counter = NoCounter THEN b.id ELSE b.counter
      BY <2>1 DEF Cell, Last
    <3> QED BY <1>3, <2>3, <3>1
  <2>5. x.counter = cell
    <3>1. x = WithCounter(e, cell)
      BY <1>1, <1>5, <2>1, <2>2 DEF Entered
    <3> QED BY <2>3, <3>1, WithCounterType
  <2>6. cell < x.id /\ cell <= x.id /\ x.id \in Nat
    <3>1. x.id \in Nat /\ b.id \in Nat /\ b.id < x.id
      BY <1>2, <1>3, <2>3, EntryType
    <3> QED BY <2>4, <3>1
  <2>7. PICK A : A = S \ {b}
    OBVIOUS
  <2>8. PICK U : U = A \union {d}
    OBVIOUS
  <2>9. T = U \union {x} /\ IsFiniteSet(A) /\ d \notin A /\ IsFiniteSet(U) /\ x \notin U
    <3>1. IsFiniteSet(A) /\ d \notin A
      BY <2>2, <2>7, FS_RemoveElement DEF Twin
    <3>2. IsFiniteSet(U)
      BY <2>8, <3>1, EntrySetAdd
    <3>3. x \notin U
      BY <1>3, <2>3, <2>7, <2>8
    <3> QED BY <2>2, <2>7, <2>8, <3>1, <3>2, <3>3 DEF Swapped
  <2>10. PICK N : N = AddedCounters(K, L, e)
    OBVIOUS
  <2>11. \A c \in Ids : N[c] = IF c = cell THEN (IF b.counter = NoCounter THEN 1 ELSE K[cell]) + 1 ELSE K[c]
    <3>1. N = [K EXCEPT ![cell] = (IF b.counter = NoCounter THEN 1 ELSE K[cell]) + 1]
      BY <1>5, <2>1, <2>10 DEF AddedCounters, Last
    <3> QED BY <2>3, <3>1
  <2>12. b.counter = NoCounter => K[cell] = 0
    <3> SUFFICES ASSUME b.counter = NoCounter PROVE K[cell] = 0
      OBVIOUS
    <3>1. cell = b.id /\ b.id # NoCounter
      BY <1>3, <2>3, <2>4 DEF NoCounter
    <3>2. \A f \in S : f.counter # cell
      BY <2>3, <3>1 DEF CountersSound, Owned
    <3>3. {f \in S : f.counter = cell} = {}
      BY <3>2
    <3>4. CountIn(S, cell) = 0
      BY <3>3, FS_EmptySet DEF CountIn
    <3> QED BY <2>3, <3>4 DEF CountersSound
  <2>13. ASSUME NEW c \in Ids PROVE N[c] = CountIn(T, c)
    <3>1. /\ CountIn(A, c) = IF b.counter = c THEN CountIn(S, c) - 1 ELSE CountIn(S, c)
          /\ CountIn(S, c) \in Nat /\ CountIn(A, c) \in Nat
      BY <2>3, <2>7, CountInRemove
    <3>2. CountIn(U, c) = (IF d.counter = c THEN CountIn(A, c) + 1 ELSE CountIn(A, c)) /\ CountIn(U, c) \in Nat
      <4>1. CountIn(U, c) = (IF d.counter = c THEN CountIn(A, c) + 1 ELSE CountIn(A, c))
        BY <2>8, <2>9, CountInAdd
      <4> QED BY <3>1, <4>1
    <3>3. CountIn(T, c) = IF x.counter = c THEN CountIn(U, c) + 1 ELSE CountIn(U, c)
      BY <2>9, CountInAdd
    <3>4. K[c] = CountIn(S, c) /\ NoCounter # c
      BY OutQueueAssumption DEF CountersSound
    <3>5. CASE c = cell
      <4>1. N[c] = (IF b.counter = NoCounter THEN 1 ELSE K[c]) + 1
        BY <2>11, <3>5
      <4>2. b.counter = NoCounter => K[c] = 0
        BY <2>12, <3>5
      <4>3. b.counter # NoCounter => b.counter = c
        BY <2>4, <3>5
      <4>4. d.counter = c /\ x.counter = c
        BY <2>3, <2>5, <3>5
      <4> QED BY <3>1, <3>2, <3>3, <3>4, <4>1, <4>2, <4>3, <4>4
    <3>6. CASE c # cell
      <4>1. N[c] = K[c]
        BY <2>11, <3>6
      <4>2. d.counter # c /\ x.counter # c /\ b.counter # c
        BY <2>3, <2>4, <2>5, <3>4, <3>6
      <4> QED BY <3>1, <3>2, <3>3, <3>4, <4>1, <4>2
    <3> QED BY <3>5, <3>6
  <2>14. \A f \in T : f.counter <= f.id
    BY <2>3, <2>4, <2>5, <2>6, <2>7, <2>8, <2>9 DEF CountersSound
  <2>15. Owned(T)
    <3> SUFFICES ASSUME NEW f \in T, NEW g \in T, f.counter = g.id PROVE g.counter = g.id
      BY DEF Owned
    <3>1. g # x
      <4>1. f.counter # x.id
        BY <1>3, <2>3, <2>5, <2>6, <2>7, <2>8, <2>9
      <4> QED BY <4>1
    <3>2. CASE g = d
      <4>1. CASE b.counter = NoCounter
        BY <2>3, <2>4, <3>2, <4>1
      <4>2. CASE b.counter # NoCounter
        <5>1. \E i \in S : i.counter = f.counter
          BY <2>3, <2>4, <2>5, <2>7, <2>8, <2>9, <4>2
        <5>2. b.counter = b.id
          BY <2>3, <3>2, <5>1 DEF CountersSound, Owned
        <5> QED BY <2>3, <2>4, <3>2, <4>2, <5>2
      <4> QED BY <4>1, <4>2
    <3>3. CASE g \in A
      <4>1. g \in S /\ g.id # b.id
        BY <2>2, <2>3, <2>7, <3>3 DEF Twin
      <4>2. \E i \in S : i.counter = f.counter
        <5>1. CASE f \in A
          BY <2>7, <5>1
        <5>2. CASE f = d \/ f = x
          <6>1. f.counter = cell
            BY <2>3, <2>5, <5>2
          <6>2. b.counter # NoCounter
            BY <2>4, <4>1, <6>1
          <6> QED BY <2>3, <2>4, <6>1, <6>2
        <5> QED BY <2>8, <2>9, <5>1, <5>2
      <4> QED BY <4>1, <4>2 DEF CountersSound, Owned
    <3> QED BY <2>8, <2>9, <3>1, <3>2, <3>3
  <2>16. \A f \in T : f.counter # NoCounter /\ Cmd[f.key].dups => OtherKey(prog, f.key)
    <3>1. b.key = e.key => ~Cmd[e.key].dups
      BY <2>3
    <3>2. Cmd[d.key].dups => OtherKey(prog, d.key)
      BY <2>2, <2>3, <3>1 DEF OtherKey
    <3>3. Cmd[x.key].dups => OtherKey(prog, x.key)
      BY <1>2, <2>2, <2>3, <3>1 DEF OtherKey
    <3>4. \A f \in A : f.counter # NoCounter /\ Cmd[f.key].dups => OtherKey(prog, f.key)
      BY <2>7 DEF CountersSound
    <3> QED BY <2>8, <2>9, <3>2, <3>3, <3>4
  <2> QED BY <2>10, <2>13, <2>14, <2>15, <2>16 DEF CountersSound
<1> QED BY <1>4, <1>5

-----------------------------------------------------------------------------
(* The table of buckets.  It is in the order of ids, and for the keys that *)
(* wait in one list it has the ids of the entries.                         *)
IdsOf(S, key) == {e.id : e \in {x \in S : x.key = key}}

OneListOf(prog, key) ==
  \/ Cmd[key].dups
  \/ \A m, n \in DOMAIN prog : prog[m].key = key /\ prog[n].key = key => prog[m].prio = prog[n].prio

TableSound(B, S, prog, top) ==
  /\ Sorted(B) /\ \A b \in Range(B) : b.id <= top
  /\ \A key \in Keys : OneListOf(prog, key) => IdsOf(S, key) = IdsOf(Range(B), key)

LEMMA BucketType ==
  ASSUME NEW b \in Buckets
  PROVE  b.id \in Nat /\ b.key \in Keys
<1>1. b.id \in Ids /\ b.key \in Keys
  BY DEF Buckets
<1> QED BY <1>1, OutQueueAssumption

LEMMA TableAdd ==
  ASSUME NEW B \in Seq(Buckets), NEW S, NEW T, NEW prog, NEW top \in Nat, TableSound(B, S, prog, top),
         NEW e \in Entries, top < e.id, \A key \in Keys : IdsOf(T, key) = IdsOf(S \union {e}, key)
  PROVE  TableSound(Append(B, [key |-> e.key, id |-> e.id]), T, prog, e.id)
<1>1. PICK b : b = [key |-> e.key, id |-> e.id]
  OBVIOUS
<1>2. b \in Buckets /\ b.key = e.key /\ b.id = e.id
  BY <1>1 DEF Entries, Buckets
<1>3. \A x \in Buckets : x.id \in Nat
  BY BucketType
<1>4. Range(B) \subseteq Buckets
  <2>1. DOMAIN B = 1..Len(B) /\ \A i \in 1..Len(B) : B[i] \in Buckets
    BY LenProperties
  <2> QED BY <2>1 DEF Range
<1>5. \A x \in Range(B) : x.id < b.id /\ x.id <= b.id
  <2> SUFFICES ASSUME NEW x \in Range(B) PROVE x.id < b.id /\ x.id <= b.id
    OBVIOUS
  <2>1. x.id \in Nat /\ x.id <= top /\ b.id \in Nat /\ top < b.id
    BY <1>2, <1>3, <1>4, EntryType DEF TableSound
  <2> QED BY <2>1
<1>6. /\ Sorted(Append(B, b)) /\ Range(Append(B, b)) = Range(B) \union {b}
  BY <1>2, <1>3, <1>5, AppendSorted DEF TableSound
<1>7. \A x \in Range(Append(B, b)) : x.id <= e.id
  <2>1. b.id <= e.id
    BY <1>2, EntryType
  <2> QED BY <1>2, <1>5, <1>6, <2>1
<1>8. ASSUME NEW key \in Keys, OneListOf(prog, key) PROVE IdsOf(T, key) = IdsOf(Range(Append(B, b)), key)
  <2>1. IdsOf(S, key) = IdsOf(Range(B), key)
    BY <1>8 DEF TableSound
  <2>2. IdsOf(S \union {e}, key) = IdsOf(S, key) \union IdsOf({e}, key)
    BY DEF IdsOf
  <2>3. IdsOf(Range(B) \union {b}, key) = IdsOf(Range(B), key) \union IdsOf({b}, key)
    BY DEF IdsOf
  <2>4. IdsOf({b}, key) = IdsOf({e}, key)
    BY <1>2 DEF IdsOf
  <2>5. IdsOf(T, key) = IdsOf(S \union {e}, key)
    OBVIOUS
  <2> QED BY <1>6, <2>1, <2>2, <2>3, <2>4, <2>5
<1> QED BY <1>1, <1>6, <1>7, <1>8 DEF TableSound

LEMMA TableRemove ==
  ASSUME NEW B \in Seq(Buckets), NEW S, S \subseteq Entries, NEW prog, NEW top \in Nat,
         TableSound(B, S, prog, top), NEW e \in S, \A f \in S : f.id = e.id => f = e,
         OneListOf(prog, e.key) => \A f \in S : f.key = e.key => e.id <= f.id,
         NEW C, FirstGone(B, e.key, C)
  PROVE  TableSound(C, S \ {e}, prog, top) /\ C \in Seq(Buckets)
<1>0. e.key \in Keys /\ e.id \in Nat
  BY EntryType
<1>1. \A x \in Buckets : x.id \in Nat
  BY BucketType
<1>2. DOMAIN B = 1..Len(B) /\ Len(B) \in Nat /\ \A i \in 1..Len(B) : B[i] \in Buckets /\ B[i] \in Range(B)
  <2>1. DOMAIN B = 1..Len(B) /\ Len(B) \in Nat /\ \A i \in 1..Len(B) : B[i] \in Buckets
    BY LenProperties
  <2> QED BY <2>1 DEF Range
<1>3. \A key \in Keys : key # e.key => IdsOf(S \ {e}, key) = IdsOf(S, key)
  BY DEF IdsOf
<1>4. CASE C = B /\ \A n \in DOMAIN B : B[n].key # e.key
  <2>1. ~OneListOf(prog, e.key)
    <3> SUFFICES ASSUME OneListOf(prog, e.key) PROVE FALSE
      OBVIOUS
    <3>1. e.id \in IdsOf(S, e.key)
      BY DEF IdsOf
    <3>2. e.id \in IdsOf(Range(B), e.key)
      BY <1>0, <3>1 DEF TableSound
    <3>3. \A b \in Range(B) : b.key # e.key
      BY <1>4 DEF Range
    <3> QED BY <3>2, <3>3 DEF IdsOf
  <2>2. \A key \in Keys : OneListOf(prog, key) => key # e.key
    BY <2>1
  <2> QED BY <1>3, <1>4, <2>2 DEF TableSound
<1>5. ASSUME NEW n \in 1..Len(B), B[n].key = e.key, Cut(Buckets, B, n, C),
             \A m \in 1..Len(B) : B[m].key = e.key => n <= m
      PROVE  TableSound(C, S \ {e}, prog, top) /\ C \in Seq(Buckets)
  <2>1. Sorted(C) /\ Range(C) = Range(B) \ {B[n]} /\ C \in Seq(Buckets)
    <3>1. C \in Seq(Buckets)
      BY <1>5 DEF Cut
    <3>2. Sorted(B)
      BY DEF TableSound
    <3> QED BY <1>1, <1>5, <3>1, <3>2, CutSorted
  <2>2. \A b \in Range(C) : b.id <= top
    BY <2>1 DEF TableSound
  <2>3. \A b \in Range(B) : b.key = e.key => b = B[n] \/ B[n].id < b.id
    <3> SUFFICES ASSUME NEW b \in Range(B), b.key = e.key, b # B[n] PROVE B[n].id < b.id
      OBVIOUS
    <3>1. PICK m \in 1..Len(B) : b = B[m]
      BY <1>2 DEF Range
    <3>2. n < m
      BY <1>2, <1>5, <3>1
    <3> QED BY <1>2, <3>1, <3>2 DEF TableSound, Sorted
  <2>4. ASSUME NEW key \in Keys, OneListOf(prog, key) PROVE IdsOf(S \ {e}, key) = IdsOf(Range(C), key)
    <3>0. IdsOf(S, key) = IdsOf(Range(B), key)
      BY <2>4 DEF TableSound
    <3>1. CASE key # e.key
      <4>1. IdsOf(Range(C), key) = IdsOf(Range(B), key)
        BY <1>5, <2>1, <3>1 DEF IdsOf
      <4> QED BY <1>3, <3>0, <3>1, <4>1
    <3>2. CASE key = e.key
      <4>1. IdsOf(S \ {e}, key) = IdsOf(S, key) \ {e.id}
        BY <3>2 DEF IdsOf
      <4>2. Range(B) \subseteq Buckets
        BY <1>2 DEF Range
      <4>3. IdsOf(Range(C), key) = IdsOf(Range(B), key) \ {B[n].id}
        <5>1. \A b \in Range(B) : b.key = key => (b = B[n] <=> b.id = B[n].id)
          <6> SUFFICES ASSUME NEW b \in Range(B), b.key = key, b # B[n] PROVE b.id # B[n].id
            OBVIOUS
          <6>1. B[n].id < b.id /\ b.id \in Nat /\ B[n].id \in Nat
            BY <1>1, <1>2, <2>3, <3>2, <4>2
          <6> QED BY <6>1
        <5> QED BY <2>1, <5>1 DEF IdsOf
      <4>4. B[n].id = e.id
        <5>1. e.id \in IdsOf(Range(B), key) /\ B[n].id \in IdsOf(S, key)
          <6>1. e.id \in IdsOf(S, key)
            BY <3>2 DEF IdsOf
          <6>2. B[n].id \in IdsOf(Range(B), key)
            BY <1>2, <1>5, <3>2 DEF IdsOf
          <6> QED BY <3>0, <6>1, <6>2
        <5>2. PICK b \in Range(B) : b.key = e.key /\ b.id = e.id
          BY <3>2, <5>1 DEF IdsOf
        <5>3. PICK f \in S : f.key = e.key /\ f.id = B[n].id
          BY <3>2, <5>1 DEF IdsOf
        <5>4. e.id <= B[n].id
          BY <2>4, <3>2, <5>3
        <5>5. b = B[n] \/ B[n].id < e.id
          BY <2>3, <5>2
        <5>6. B[n].id \in Nat
          BY <1>1, <1>2
        <5> QED BY <1>0, <5>2, <5>4, <5>5, <5>6
      <4> QED BY <3>0, <4>1, <4>3, <4>4
    <3> QED BY <3>1, <3>2
  <2> QED BY <2>1, <2>2, <2>4 DEF TableSound
<1> QED BY <1>4, <1>5 DEF FirstGone

(* Exchanging an entry, or letting one enter, keeps the other ids.         *)
LEMMA SwapIds ==
  ASSUME NEW S, NEW b, NEW d, Twin(S, b, d), NEW key
  PROVE  IdsOf(Swapped(S, b, d), key) = IdsOf(S, key)
<1>1. b \in S /\ d.id = b.id /\ d.key = b.key
  BY DEF Twin
<1>2. ASSUME NEW i \in IdsOf(S, key) PROVE i \in IdsOf(Swapped(S, b, d), key)
  <2>1. PICK f \in S : f.key = key /\ f.id = i
    BY <1>2 DEF IdsOf
  <2>2. PICK g \in Swapped(S, b, d) : g.key = key /\ g.id = i
    BY <1>1, <2>1 DEF Swapped
  <2> QED BY <2>2 DEF IdsOf
<1>3. ASSUME NEW i \in IdsOf(Swapped(S, b, d), key) PROVE i \in IdsOf(S, key)
  <2>1. PICK f \in Swapped(S, b, d) : f.key = key /\ f.id = i
    BY <1>3 DEF IdsOf
  <2>2. PICK g \in S : g.key = key /\ g.id = i
    BY <1>1, <2>1 DEF Swapped
  <2> QED BY <2>2 DEF IdsOf
<1> QED BY <1>2, <1>3

LEMMA EnteringIds ==
  ASSUME NEW S, NEW T, NEW L \in Seq(Entries), NEW e \in Entries, Entering(S, T, L, e), NEW key
  PROVE  IdsOf(T, key) = IdsOf(S \union {e}, key)
<1>1. PICK x : x = Entered(L, e)
  OBVIOUS
<1>2. x.id = e.id /\ x.key = e.key
  <2>1. PICK K \in [Ids -> Int] : TRUE
    <3>1. [i \in Ids |-> 0] \in [Ids -> Int]
      OBVIOUS
    <3> QED BY <3>1
  <2> QED BY <1>1, <2>1, AddedType
<1>3. PICK U : T = U \union {x} /\ IdsOf(U, key) = IdsOf(S, key)
  <2>1. CASE ~Joins(L, e)
    BY <1>1, <2>1 DEF Entering
  <2>2. CASE Joins(L, e)
    <3>1. Twin(S, Last(L), Border(L)) /\ T = Swapped(S, Last(L), Border(L)) \union {x}
      BY <1>1, <2>2 DEF Entering
    <3> QED BY <3>1, SwapIds
  <2> QED BY <2>1, <2>2
<1>4. IdsOf(U \union {x}, key) = IdsOf(U, key) \union IdsOf({x}, key)
  BY DEF IdsOf
<1>5. IdsOf(S \union {e}, key) = IdsOf(S, key) \union IdsOf({e}, key)
  BY DEF IdsOf
<1>6. IdsOf({x}, key) = IdsOf({e}, key)
  BY <1>2 DEF IdsOf
<1> QED BY <1>3, <1>4, <1>5, <1>6

-----------------------------------------------------------------------------
(* The summaries of real priorities in use.                                *)
High(Q) == {prio \in Prios : Q[prio] # <<>> /\ prio >= VRS_DEFAULT_PRIORITY}
Low(Q)  == {prio \in Prios : Q[prio] # <<>> /\ prio < VRS_DEFAULT_PRIORITY}

SumsSound(Q, high, low) ==
  high = SumFunctionOnSet(RPrio, High(Q)) /\ low = SumFunctionOnSet(RPrio, Low(Q))

(* The other lists of Q and R are the same.                                *)
OthersSame(Q, R, prio) == \A x \in Prios : x # prio => R[x] = Q[x]

LEMMA SumOfPrios ==
  ASSUME NEW A, A \subseteq Prios
  PROVE  /\ IsFiniteSet(A) /\ \A x \in A : RPrio[x] \in Int
         /\ SumFunctionOnSet(RPrio, A) \in Int
<1>1. IsFiniteSet(A)
  BY OutQueueAssumption, FS_Subset
<1>2. \A x \in A : RPrio[x] \in Int
  BY PrioType
<1> QED BY <1>1, <1>2, SumType

LEMMA SumWith ==
  ASSUME NEW A, A \subseteq Prios, NEW prio \in Prios
  PROVE  SumFunctionOnSet(RPrio, A \union {prio})
           = SumFunctionOnSet(RPrio, A) + (IF prio \in A THEN 0 ELSE RPrio[prio])
<1>1. IsFiniteSet(A) /\ (\A x \in A \union {prio} : RPrio[x] \in Int) /\ SumFunctionOnSet(RPrio, A) \in Int
  BY SumOfPrios, PrioType
<1>2. CASE prio \in A
  <2>1. A \union {prio} = A
    BY <1>2
  <2> QED BY <1>1, <1>2, <2>1
<1>3. CASE prio \notin A
  BY <1>1, <1>3, SumAdd
<1> QED BY <1>2, <1>3

LEMMA HalfWith ==
  ASSUME NEW Q, NEW R, NEW prio \in Prios, OthersSame(Q, R, prio), R[prio] # <<>>
  PROVE  /\ prio >= VRS_DEFAULT_PRIORITY =>
              High(R) = High(Q) \union {prio} /\ Low(R) = Low(Q) /\ (prio \in High(Q) <=> Q[prio] # <<>>)
         /\ ~(prio >= VRS_DEFAULT_PRIORITY) =>
              Low(R) = Low(Q) \union {prio} /\ High(R) = High(Q) /\ (prio \in Low(Q) <=> Q[prio] # <<>>)
<1> DEFINE H(x) == x >= VRS_DEFAULT_PRIORITY
<1>1. \A x \in Prios : x < VRS_DEFAULT_PRIORITY <=> ~H(x)
  BY PrioType DEF VRS_DEFAULT_PRIORITY
<1>2. High(Q) = {x \in Prios : Q[x] # <<>> /\ H(x)} /\ High(R) = {x \in Prios : R[x] # <<>> /\ H(x)}
  BY DEF High
<1>3. Low(Q) = {x \in Prios : Q[x] # <<>> /\ ~H(x)} /\ Low(R) = {x \in Prios : R[x] # <<>> /\ ~H(x)}
  BY <1>1 DEF Low
<1>4. \A x \in Prios : x # prio => R[x] = Q[x]
  BY DEF OthersSame
<1> HIDE DEF H
<1>5. H(prio) =>
        High(R) = High(Q) \union {prio} /\ Low(R) = Low(Q) /\ (prio \in High(Q) <=> Q[prio] # <<>>)
  BY <1>2, <1>3, <1>4
<1>6. ~H(prio) =>
        Low(R) = Low(Q) \union {prio} /\ High(R) = High(Q) /\ (prio \in Low(Q) <=> Q[prio] # <<>>)
  BY <1>2, <1>3, <1>4
<1> QED BY <1>5, <1>6 DEF H

LEMMA SumsGrow ==
  ASSUME NEW Q, NEW R, NEW prio \in Prios, OthersSame(Q, R, prio), R[prio] # <<>>,
         NEW q, NEW r, SumsSound(Q, q.sum_high, q.sum_low),
         Summed(q, r, prio, IF Q[prio] = <<>> THEN RPrio[prio] ELSE 0)
  PROVE  SumsSound(R, r.sum_high, r.sum_low)
<1>1. High(Q) \subseteq Prios /\ Low(Q) \subseteq Prios
  BY DEF High, Low
<1>2. SumFunctionOnSet(RPrio, High(Q)) \in Int /\ SumFunctionOnSet(RPrio, Low(Q)) \in Int /\ prio \in Int
  BY <1>1, SumOfPrios, PrioType
<1>3. CASE prio >= VRS_DEFAULT_PRIORITY
  <2>1. High(R) = High(Q) \union {prio} /\ Low(R) = Low(Q) /\ (prio \in High(Q) <=> Q[prio] # <<>>)
    BY <1>3, HalfWith
  <2>2. SumFunctionOnSet(RPrio, High(R))
          = SumFunctionOnSet(RPrio, High(Q)) + (IF prio \in High(Q) THEN 0 ELSE RPrio[prio])
    BY <1>1, <2>1, SumWith
  <2> QED BY <1>3, <2>1, <2>2 DEF SumsSound, Summed
<1>4. CASE ~(prio >= VRS_DEFAULT_PRIORITY)
  <2>1. Low(R) = Low(Q) \union {prio} /\ High(R) = High(Q) /\ (prio \in Low(Q) <=> Q[prio] # <<>>)
    BY <1>4, HalfWith
  <2>2. SumFunctionOnSet(RPrio, Low(R))
          = SumFunctionOnSet(RPrio, Low(Q)) + (IF prio \in Low(Q) THEN 0 ELSE RPrio[prio])
    BY <1>1, <2>1, SumWith
  <2> QED BY <1>4, <2>1, <2>2 DEF SumsSound, Summed
<1> QED BY <1>3, <1>4

LEMMA SumsFall ==
  ASSUME NEW Q, NEW R, NEW prio \in Prios, OthersSame(Q, R, prio), Q[prio] # <<>>,
         NEW q, NEW r, SumsSound(Q, q.sum_high, q.sum_low),
         Summed(q, r, prio, IF R[prio] = <<>> THEN -RPrio[prio] ELSE 0)
  PROVE  SumsSound(R, r.sum_high, r.sum_low)
<1>0. OthersSame(R, Q, prio)
  BY DEF OthersSame
<1>1. High(R) \subseteq Prios /\ Low(R) \subseteq Prios
  BY DEF High, Low
<1>2. SumFunctionOnSet(RPrio, High(R)) \in Int /\ SumFunctionOnSet(RPrio, Low(R)) \in Int
      /\ prio \in Int /\ RPrio[prio] \in Int
  BY <1>1, SumOfPrios, PrioType
<1>3. CASE prio >= VRS_DEFAULT_PRIORITY
  <2>1. High(Q) = High(R) \union {prio} /\ Low(R) = Low(Q) /\ (prio \in High(R) <=> R[prio] # <<>>)
    BY <1>3, <1>0, HalfWith
  <2>2. SumFunctionOnSet(RPrio, High(Q))
          = SumFunctionOnSet(RPrio, High(R)) + (IF prio \in High(R) THEN 0 ELSE RPrio[prio])
    BY <1>1, <2>1, SumWith
  <2> QED BY <1>2, <1>3, <2>1, <2>2 DEF SumsSound, Summed
<1>4. CASE ~(prio >= VRS_DEFAULT_PRIORITY)
  <2>1. Low(Q) = Low(R) \union {prio} /\ High(R) = High(Q) /\ (prio \in Low(R) <=> R[prio] # <<>>)
    BY <1>4, <1>0, HalfWith
  <2>2. SumFunctionOnSet(RPrio, Low(Q))
          = SumFunctionOnSet(RPrio, Low(R)) + (IF prio \in Low(R) THEN 0 ELSE RPrio[prio])
    BY <1>1, <2>1, SumWith
  <2> QED BY <1>2, <1>4, <2>1, <2>2 DEF SumsSound, Summed
<1> QED BY <1>3, <1>4

-----------------------------------------------------------------------------
(* The invariant of a queue of outgoing commands: the first n commands of  *)
(* prog were pushed, and those in acc accepted.                            *)
MovesOf(prog, m, n) ==
  prog[m].key = prog[n].key /\ Cmd[prog[n].key].dups /\ prog[m].prio # prog[n].prio

Alone(prog) ==
  \A m, n, k \in DOMAIN prog :
    MovesOf(prog, m, n) /\ Cmd[prog[k].key].opcode = Cmd[prog[n].key].opcode => prog[k].key = prog[n].key

InHalf(prog) ==
  \A m, n \in DOMAIN prog :
    MovesOf(prog, m, n) => (prog[m].prio >= VRS_DEFAULT_PRIORITY <=> prog[n].prio >= VRS_DEFAULT_PRIORITY)

Program(prog) == prog \in Seq([key : Keys, prio : Prios]) /\ DOMAIN prog \subseteq Ids

Progress(prog, n, acc) == Program(prog) /\ n \in 0..Len(prog) /\ acc \subseteq 1..n

QueueSound(q, prog, n, acc) ==
  /\ q \in QueueType /\ InBounds(q)
  /\ ListsSound(q.queues, prog, acc) /\ IsFiniteSet(AllOf(q.queues))
  /\ \A x \in Prios : q.counts[x] = Len(q.queues[x])
  /\ q.count = Cardinality(AllOf(q.queues)) /\ q.size = SizeOf(AllOf(q.queues))
  /\ Alone(prog) => CountersSound(AllOf(q.queues), prog, q.counters)
  /\ TableSound(q.buckets, AllOf(q.queues), prog, n)
  /\ InHalf(prog) => SumsSound(q.queues, q.sum_high, q.sum_low)

(* What is known of a waiting entry.                                       *)
LEMMA EntryFacts ==
  ASSUME NEW Q, NEW prog, NEW n, NEW acc, Progress(prog, n, acc), ListsSound(Q, prog, acc), NEW e \in AllOf(Q)
  PROVE  /\ e \in Entries /\ e.ver \in acc /\ e.ver \in 1..n /\ e.ver \in DOMAIN prog
         /\ e.id \in Nat /\ e.ver \in Nat /\ e.id <= e.ver /\ e.id <= n /\ e.ver <= n
         /\ prog[e.ver].key = e.key /\ e.key \in Keys
         /\ ~Cmd[e.key].dups => e.id = e.ver
         /\ \E prio \in Prios : e \in Range(Q[prio]) /\ prog[e.ver].prio = prio
<1>1. PICK prio \in Prios : e \in Range(Q[prio])
  BY DEF AllOf
<1>2. Q \in [Prios -> Seq(Entries)]
  BY DEF ListsSound
<1>3. e \in Entries
  BY <1>1, <1>2, ListEntries
<1>4. Fits(prog, acc, prio, e)
  BY <1>1 DEF ListsSound
<1>5. e.ver \in 1..n /\ n \in Nat /\ e.ver \in DOMAIN prog
  <2>1. e.ver \in 1..n /\ n \in 0..Len(prog)
    BY <1>4 DEF Fits, Progress
  <2>2. DOMAIN prog = 1..Len(prog) /\ Len(prog) \in Nat
    BY LenProperties DEF Progress, Program
  <2> QED BY <2>1, <2>2
<1>6. e.id \in Nat /\ e.ver \in Nat /\ e.key \in Keys
  BY <1>3, EntryType
<1>7. e.id <= n
  BY <1>4, <1>5, <1>6 DEF Fits
<1> QED BY <1>1, <1>3, <1>4, <1>5, <1>6, <1>7 DEF Fits

LEMMA ListsAccept ==
  ASSUME NEW Q, NEW prog, NEW acc, NEW bcc, ListsSound(Q, prog, acc), acc \subseteq bcc
  PROVE  ListsSound(Q, prog, bcc)
<1>1. \A prio, e : Fits(prog, acc, prio, e) => Fits(prog, bcc, prio, e)
  BY DEF Fits
<1> QED BY <1>1 DEF ListsSound

LEMMA TableTop ==
  ASSUME NEW B \in Seq(Buckets), NEW S, NEW prog, NEW n \in Nat, TableSound(B, S, prog, n)
  PROVE  TableSound(B, S, prog, n + 1)
<1>1. \A b \in Range(B) : b.id \in Nat
  <2>1. DOMAIN B = 1..Len(B) /\ \A i \in 1..Len(B) : B[i] \in Buckets
    BY LenProperties
  <2> QED BY <2>1, BucketType DEF Range
<1>2. \A b \in Range(B) : b.id <= n
  BY DEF TableSound
<1>3. \A b \in Range(B) : b.id <= n + 1
  BY <1>1, <1>2
<1> QED BY <1>3 DEF TableSound

LEMMA AllEntries ==
  ASSUME NEW Q \in [Prios -> Seq(Entries)]
  PROVE  AllOf(Q) \subseteq Entries
BY ListEntries DEF AllOf

LEMMA QueueInit ==
  ASSUME NEW prog, Program(prog), NEW max \in Nat
  PROVE  /\ QueueSound(v_out_queue_init(max), prog, 0, {}) /\ Progress(prog, 0, {})
         /\ AllOf(v_out_queue_init(max).queues) = {}
<1>1. PICK q : q = v_out_queue_init(max)
  OBVIOUS
<1>2. /\ q.queues = [x \in Prios |-> <<>>] /\ q.counts = [x \in Prios |-> 0]
      /\ q.buckets = <<>> /\ q.counters = [i \in Ids |-> 0]
      /\ q.count = 0 /\ q.size = 0 /\ q.max_size = max
      /\ q.max_prio = VRS_DEFAULT_PRIORITY /\ q.min_prio = VRS_DEFAULT_PRIORITY
      /\ q.sum_high = 0 /\ q.sum_low = 0
  BY <1>1 DEF v_out_queue_init
<1>3. q.queues \in [Prios -> Seq(Entries)] /\ q.counts \in [Prios -> Int] /\ q.counters \in [Ids -> Int]
  BY <1>2
<1>4. VRS_DEFAULT_PRIORITY \in Prios /\ <<>> \in Seq(Buckets) /\ 0 \in Int
  BY OutQueueAssumption
<1>5. q \in QueueType
  <2>1. PICK Q \in [Prios -> Seq(Entries)], C \in [Prios -> Int], K \in [Ids -> Int] :
          Q = q.queues /\ C = q.counts /\ K = q.counters
    BY <1>3
  <2>2. PICK d \in Prios : d = VRS_DEFAULT_PRIORITY
    BY <1>4
  <2>3. q = [queues |-> Q, counts |-> C, buckets |-> <<>>, counters |-> K,
             count |-> 0, size |-> 0, max_size |-> max, max_prio |-> d,
             min_prio |-> d, sum_high |-> 0, sum_low |-> 0]
    BY <1>1, <1>2, <2>1, <2>2 DEF v_out_queue_init
  <2> QED BY <1>4, <2>3 DEF QueueType
<1>6. Range(<<>>) = {}
  BY DEF Range
<1>7. AllOf(q.queues) = {}
  BY <1>2, <1>6 DEF AllOf
<1>8. InBounds(q)
  BY <1>2 DEF InBounds, VRS_DEFAULT_PRIORITY
<1>9. ListsSound(q.queues, prog, {})
  BY <1>2, <1>3, <1>6, <1>7 DEF ListsSound, Sorted, Unique
<1>10. IsFiniteSet({}) /\ Cardinality({}) = 0 /\ SizeOf({}) = 0
  BY FS_EmptySet, SumEmpty DEF SizeOf
<1>11. CountersSound({}, prog, q.counters)
  <2>1. \A c \in Ids : CountIn({}, c) = 0
    <3>1. \A c \in Ids : {e \in {} : e.counter = c} = {}
      OBVIOUS
    <3> QED BY <1>10, <3>1 DEF CountIn
  <2> QED BY <1>2, <2>1 DEF CountersSound, Owned
<1>12. TableSound(<<>>, {}, prog, 0)
  BY <1>6 DEF TableSound, Sorted
<1>13. SumsSound(q.queues, 0, 0)
  <2>1. High(q.queues) = {} /\ Low(q.queues) = {}
    BY <1>2 DEF High, Low
  <2> QED BY <2>1, SumEmpty DEF SumsSound
<1>14. \A x \in Prios : q.counts[x] = Len(q.queues[x])
  BY <1>2
<1>15. Progress(prog, 0, {})
  <2>1. Len(prog) \in Nat
    BY LenProperties DEF Program
  <2> QED BY <2>1 DEF Progress
<1> QED BY <1>1, <1>2, <1>5, <1>7, <1>8, <1>9, <1>10, <1>11, <1>12, <1>13, <1>14, <1>15 DEF QueueSound

(* A command that is refused.                                              *)
LEMMA QueueRefused ==
  ASSUME NEW q, NEW prog, NEW n, NEW acc, Progress(prog, n, acc), n + 1 \in DOMAIN prog,
         QueueSound(q, prog, n, acc)
  PROVE  QueueSound(q, prog, n + 1, acc) /\ Progress(prog, n + 1, acc)
<1>1. n \in Nat /\ q.buckets \in Seq(Buckets)
  <2>1. n \in 0..Len(prog) /\ Len(prog) \in Nat
    BY LenProperties DEF Progress, Program
  <2> QED BY <2>1 DEF QueueSound, QueueType
<1>2. TableSound(q.buckets, AllOf(q.queues), prog, n + 1)
  BY <1>1, TableTop DEF QueueSound
<1>3. Progress(prog, n + 1, acc)
  <2>1. DOMAIN prog = 1..Len(prog) /\ Len(prog) \in Nat
    BY LenProperties DEF Progress, Program
  <2> QED BY <1>1, <2>1 DEF Progress
<1> QED BY <1>2, <1>3 DEF QueueSound

LEMMA ProgressAccepts ==
  ASSUME NEW prog, NEW n, NEW acc, Progress(prog, n, acc), n + 1 \in DOMAIN prog
  PROVE  /\ Progress(prog, n + 1, acc \union {n + 1}) /\ n \in Nat /\ n + 1 \in Ids
         /\ prog[n + 1].key \in Keys /\ prog[n + 1].prio \in Prios
<1>1. n \in Nat /\ n + 1 \in 1..(n + 1)
  <2>1. n \in 0..Len(prog) /\ Len(prog) \in Nat
    BY LenProperties DEF Progress, Program
  <2> QED BY <2>1
<1>2. DOMAIN prog = 1..Len(prog) /\ Len(prog) \in Nat /\ prog[n + 1] \in [key : Keys, prio : Prios]
  BY LenProperties DEF Progress, Program
<1>3. n + 1 \in 0..Len(prog) /\ acc \union {n + 1} \subseteq 1..(n + 1)
  BY <1>1, <1>2 DEF Progress
<1> QED BY <1>1, <1>2, <1>3 DEF Progress, Program

NewEntry(prog, n) == [id |-> n, key |-> prog[n].key, ver |-> n, counter |-> NoCounter]

LEMMA NewEntryFacts ==
  ASSUME NEW prog, NEW n, NEW acc, Progress(prog, n, acc), n + 1 \in DOMAIN prog, NEW e, e = NewEntry(prog, n + 1)
  PROVE  /\ e \in Entries /\ e.id = n + 1 /\ e.ver = n + 1 /\ e.counter = NoCounter /\ e.key = prog[n + 1].key
         /\ Fits(prog, acc \union {n + 1}, prog[n + 1].prio, e)
<1>1. n + 1 \in Ids /\ prog[n + 1].key \in Keys /\ n \in Nat
  BY ProgressAccepts
<1>2. e.id = n + 1 /\ e.ver = n + 1 /\ e.counter = NoCounter /\ e.key = prog[n + 1].key
  BY DEF NewEntry
<1>3. e \in Entries
  BY <1>1 DEF NewEntry, Entries
<1>4. n + 1 <= n + 1
  BY <1>1
<1> QED BY <1>2, <1>3, <1>4 DEF Fits

(* What a push does to the versions that wait.                             *)
Pushes(S, T, v, key) ==
  /\ \E x \in T : x.ver = v /\ x.key = key
  /\ \A f \in T : f.ver = v \/ \E g \in S : g.ver = f.ver /\ g.key = f.key
  /\ \A g \in S : (\E f \in T : f.ver = g.ver /\ f.key = g.key) \/ (g.key = key /\ Cmd[key].dups)

Adds(S, T, e) ==
  /\ \E x \in T : x.ver = e.ver /\ x.key = e.key
  /\ \A f \in T : f.ver = e.ver \/ \E g \in S : g.ver = f.ver /\ g.key = f.key
  /\ \A g \in S : \E f \in T : f.ver = g.ver /\ f.key = g.key

LEMMA EnteringAdds ==
  ASSUME NEW S, NEW T, NEW L \in Seq(Entries), NEW e \in Entries, Entering(S, T, L, e)
  PROVE  Adds(S, T, e)
<1>1. PICK x : x = Entered(L, e)
  OBVIOUS
<1>2. PICK K \in [Ids -> Int] : TRUE
  <2>1. [i \in Ids |-> 0] \in [Ids -> Int]
    OBVIOUS
  <2> QED BY <2>1
<1>3. x.ver = e.ver /\ x.key = e.key
  BY <1>1, <1>2, AddedType
<1>4. CASE ~Joins(L, e)
  <2>1. T = S \union {x}
    BY <1>1, <1>4 DEF Entering
  <2> QED BY <1>3, <2>1 DEF Adds
<1>5. CASE Joins(L, e)
  <2>1. PICK b, d : b = Last(L) /\ d = Border(L)
    OBVIOUS
  <2>2. Twin(S, b, d) /\ T = Swapped(S, b, d) \union {x} /\ L # <<>>
    BY <1>1, <1>5, <2>1 DEF Entering, Joins
  <2>3. d.ver = b.ver /\ d.key = b.key
    BY <1>2, <2>1, <2>2, AddedType DEF Last
  <2>4. T = ((S \ {b}) \union {d}) \union {x} /\ b \in S
    BY <2>2 DEF Swapped, Twin
  <2> QED BY <1>3, <2>3, <2>4 DEF Adds
<1> QED BY <1>4, <1>5

(* A command that is new to the queue.                                     *)
LEMMA QueueCreated ==
  ASSUME NEW q, NEW prog, NEW n, NEW acc, Progress(prog, n, acc), n + 1 \in DOMAIN prog,
         QueueSound(q, prog, n, acc), NEW e, e = NewEntry(prog, n + 1),
         NEW prio, prio = prog[n + 1].prio,
         \A f \in AllOf(q.queues) : ~(f.key = e.key /\ Cmd[e.key].dups),
         NEW r, r = _v_out_queue_command_create(q, prio, e)
  PROVE  /\ QueueSound(r, prog, n + 1, acc \union {n + 1})
         /\ Pushes(AllOf(q.queues), AllOf(r.queues), n + 1, prog[n + 1].key)
<1>1. PICK bcc : bcc = acc \union {n + 1}
  OBVIOUS
<1>2. Progress(prog, n + 1, bcc) /\ n \in Nat /\ n + 1 \in Ids /\ prio \in Prios
  BY <1>1, ProgressAccepts
<1>3. /\ e \in Entries /\ e.id = n + 1 /\ e.ver = n + 1 /\ e.counter = NoCounter /\ e.key = prog[n + 1].key
      /\ Fits(prog, bcc, prio, e)
  BY <1>1, NewEntryFacts
<1>4. PICK Q : Q = q.queues
  OBVIOUS
<1>5. PICK S : S = AllOf(Q)
  OBVIOUS
<1>6. q \in QueueType /\ InBounds(q) /\ Q \in [Prios -> Seq(Entries)] /\ q.counters \in [Ids -> Int]
      /\ q.buckets \in Seq(Buckets) /\ q.counts \in [Prios -> Int]
  BY <1>4 DEF QueueSound, QueueType
<1>7. ListsSound(Q, prog, acc) /\ ListsSound(Q, prog, bcc)
  <2>1. ListsSound(Q, prog, acc)
    BY <1>4 DEF QueueSound
  <2> QED BY <1>1, <2>1, ListsAccept
<1>8. S \subseteq Entries /\ IsFiniteSet(S)
  BY <1>4, <1>5, <1>6, AllEntries DEF QueueSound
<1>9. \A f \in S : f.id < e.id /\ ~(f.key = e.key /\ Cmd[e.key].dups)
  <2>1. \A f \in S : f.id \in Nat /\ f.id <= n
    BY <1>5, <1>7, EntryFacts
  <2> QED BY <1>2, <1>3, <1>4, <1>5, <2>1
<1>10. /\ r \in QueueType /\ InBounds(r)
       /\ r.queues = WithList(Q, prio, AddedList(Q[prio], e))
       /\ r.counters = AddedCounters(q.counters, Q[prio], e)
       /\ r.counts = More(q.counts, prio)
       /\ r.buckets = Append(q.buckets, [key |-> e.key, id |-> e.id])
       /\ r.count = q.count + 1 /\ r.size = q.size + Cmd[e.key].item_size
       /\ Summed(q, r, prio, IF q.counts[prio] = 0 THEN RPrio[prio] ELSE 0)
  BY <1>2, <1>3, <1>4, <1>6, CreateFields, SMTT(30)
<1>11. PICK R : R = r.queues
  OBVIOUS
<1>12. PICK T : T = AllOf(R)
  OBVIOUS
<1>13. /\ ListsSound(R, prog, bcc) /\ Entering(S, T, Q[prio], e)
       /\ Len(R[prio]) = Len(Q[prio]) + 1 /\ \A x \in Prios : x # prio => R[x] = Q[x]
  BY <1>2, <1>3, <1>5, <1>7, <1>9, <1>10, <1>11, <1>12, ListEntered
<1>14. Q[prio] \in Seq(Entries) /\ Len(Q[prio]) \in Nat /\ R[prio] # <<>> /\ (Q[prio] = <<>> <=> Len(Q[prio]) = 0)
  <2>1. Q[prio] \in Seq(Entries) /\ Len(Q[prio]) \in Nat /\ (Q[prio] = <<>> <=> Len(Q[prio]) = 0)
    BY <1>2, <1>6, ListEntries
  <2>2. Len(R[prio]) # 0
    BY <1>13, <2>1
  <2> QED BY <2>1, <2>2
<1>15. /\ T \subseteq Entries /\ IsFiniteSet(T) /\ Cardinality(T) = Cardinality(S) + 1
       /\ SizeOf(T) = SizeOf(S) + Cmd[e.key].item_size
  BY <1>3, <1>8, <1>9, <1>13, <1>14, EnteringTotals
<1>16. r.count = Cardinality(T) /\ r.size = SizeOf(T)
  BY <1>4, <1>5, <1>10, <1>15 DEF QueueSound
<1>17. \A x \in Prios : r.counts[x] = Len(R[x])
  <2>1. \A x \in Prios : q.counts[x] = Len(Q[x])
    BY <1>4 DEF QueueSound
  <2>2. r.counts[prio] = q.counts[prio] + 1 /\ \A x \in Prios : x # prio => r.counts[x] = q.counts[x]
    BY <1>2, <1>6, <1>10 DEF More
  <2> QED BY <1>13, <2>1, <2>2
<1>18. Alone(prog) => CountersSound(T, prog, r.counters)
  <2> SUFFICES ASSUME Alone(prog) PROVE CountersSound(T, prog, r.counters)
    OBVIOUS
  <2>1. CountersSound(S, prog, q.counters)
    BY <1>4, <1>5 DEF QueueSound
  <2>2. \A f \in S : \E k \in DOMAIN prog : prog[k].key = f.key
    BY <1>5, <1>7, EntryFacts
  <2>3. \E k \in DOMAIN prog : prog[k].key = e.key
    BY <1>3
  <2>4. PICK K \in [Ids -> Int], L \in Seq(Entries) : K = q.counters /\ L = Q[prio]
    BY <1>6, <1>14
  <2>5. CountersSound(S, prog, K) /\ Entering(S, T, L, e)
    BY <1>13, <2>1, <2>4
  <2>6. CountersSound(T, prog, AddedCounters(K, L, e))
    BY <1>3, <1>8, <1>9, <2>2, <2>3, <2>5, CountersEnter
  <2> QED BY <1>10, <2>4, <2>6
<1>19. TableSound(r.buckets, T, prog, n + 1)
  <2>1. \A key \in Keys : IdsOf(T, key) = IdsOf(S \union {e}, key)
    BY <1>3, <1>13, <1>14, EnteringIds
  <2>2. TableSound(q.buckets, S, prog, n)
    BY <1>4, <1>5 DEF QueueSound
  <2>3. n < e.id
    BY <1>2, <1>3
  <2>4. PICK B \in Seq(Buckets) : B = q.buckets
    BY <1>6
  <2>5. TableSound(Append(B, [key |-> e.key, id |-> e.id]), T, prog, e.id)
    BY <1>2, <1>3, <2>1, <2>2, <2>3, <2>4, TableAdd
  <2>6. TableSound(r.buckets, T, prog, e.id)
    BY <1>10, <2>4, <2>5
  <2> QED BY <1>3, <2>6
<1>20. InHalf(prog) => SumsSound(R, r.sum_high, r.sum_low)
  <2> SUFFICES ASSUME InHalf(prog) PROVE SumsSound(R, r.sum_high, r.sum_low)
    OBVIOUS
  <2>1. SumsSound(Q, q.sum_high, q.sum_low)
    BY <1>4 DEF QueueSound
  <2>2. q.counts[prio] = 0 <=> Q[prio] = <<>>
    BY <1>2, <1>4, <1>14 DEF QueueSound
  <2>3. Summed(q, r, prio, IF Q[prio] = <<>> THEN RPrio[prio] ELSE 0)
    BY <1>10, <2>2
  <2>4. OthersSame(Q, R, prio)
    BY <1>13 DEF OthersSame
  <2> QED BY <1>2, <1>14, <2>1, <2>3, <2>4, SumsGrow
<1>21. QueueSound(r, prog, n + 1, bcc)
  BY <1>10, <1>11, <1>12, <1>13, <1>15, <1>16, <1>17, <1>18, <1>19, <1>20 DEF QueueSound
<1>22. Pushes(S, T, n + 1, prog[n + 1].key)
  <2>1. PICK L \in Seq(Entries) : L = Q[prio]
    BY <1>14
  <2>2. Adds(S, T, e)
    BY <1>3, <1>13, <2>1, EnteringAdds
  <2> QED BY <1>3, <2>2 DEF Pushes, Adds
<1> QED BY <1>1, <1>4, <1>5, <1>11, <1>12, <1>21, <1>22

(* An older value of e waits as the i-th command of priority prio.         *)
WaitsAt(q, prio, i, e) == q.queues[prio][i].key = e.key /\ Cmd[e.key].dups

(* A newer value takes the place of a waiting one.                         *)
LEMMA QueueReplaced ==
  ASSUME NEW q, NEW prog, NEW n, NEW acc, Progress(prog, n, acc), n + 1 \in DOMAIN prog,
         QueueSound(q, prog, n, acc), NEW e, e = NewEntry(prog, n + 1),
         NEW prio, prio = prog[n + 1].prio, NEW i \in 1..Len(q.queues[prio]),
         WaitsAt(q, prio, i, e),
         NEW r, r = Replaced(q, prio, i, e)
  PROVE  /\ QueueSound(r, prog, n + 1, acc \union {n + 1})
         /\ Pushes(AllOf(q.queues), AllOf(r.queues), n + 1, prog[n + 1].key)
<1>1. PICK bcc : bcc = acc \union {n + 1}
  OBVIOUS
<1>2. Progress(prog, n + 1, bcc) /\ n \in Nat /\ n + 1 \in Ids /\ prio \in Prios
  BY <1>1, ProgressAccepts
<1>3. /\ e \in Entries /\ e.id = n + 1 /\ e.ver = n + 1 /\ e.counter = NoCounter /\ e.key = prog[n + 1].key
      /\ Fits(prog, bcc, prio, e)
  <2>1. /\ e \in Entries /\ e.id = n + 1 /\ e.ver = n + 1 /\ e.counter = NoCounter /\ e.key = prog[n + 1].key
        /\ Fits(prog, acc \union {n + 1}, prog[n + 1].prio, e)
    BY NewEntryFacts, ZenonT(60)
  <2> QED BY <1>1, <2>1
<1>4. PICK Q : Q = q.queues
  OBVIOUS
<1>5. PICK S : S = AllOf(Q)
  OBVIOUS
<1>6. /\ q \in QueueType /\ Q \in [Prios -> Seq(Entries)] /\ q.buckets \in Seq(Buckets)
      /\ ListsSound(Q, prog, acc) /\ i \in 1..Len(Q[prio])
  BY <1>4 DEF QueueSound, QueueType
<1>7. ListsSound(Q, prog, bcc)
  BY <1>1, <1>6, ListsAccept
<1>8. PICK b : b = Q[prio][i]
  OBVIOUS
<1>9. b \in S /\ b \in Range(Q[prio]) /\ b.key = e.key /\ Cmd[e.key].dups
  BY <1>2, <1>4, <1>5, <1>6, <1>8, ListEntries DEF WaitsAt
<1>10. b \in Entries /\ b.id \in Nat /\ b.id <= n
  BY <1>5, <1>6, <1>9, EntryFacts
<1>11. PICK d : d = WithVer(b, e.ver)
  OBVIOUS
<1>12. d.id = b.id /\ d.key = b.key /\ d.ver = n + 1 /\ d.counter = b.counter
  BY <1>3, <1>10, <1>11 DEF WithVer, Entries
<1>13. /\ r \in QueueType /\ r.queues = WithList(Q, prio, Updated(Q[prio], i, d)) /\ d \in Entries
       /\ r.counters = q.counters /\ SameTable(q, r) /\ SameTotals(q, r) /\ SameBounds(q, r) /\ SameSums(q, r)
  BY <1>2, <1>3, <1>4, <1>6, <1>8, <1>11, ReplacedFields
<1>14. Fits(prog, bcc, prio, d)
  <2>1. b.id <= n + 1
    BY <1>2, <1>10
  <2> QED BY <1>1, <1>3, <1>9, <1>12, <2>1 DEF Fits
<1>15. PICK R : R = r.queues
  OBVIOUS
<1>16. PICK T : T = AllOf(R)
  OBVIOUS
<1>17. /\ ListsSound(R, prog, bcc) /\ T = (S \ {b}) \union {d} /\ \A f \in S \ {b} : f.id # d.id
       /\ Len(R[prio]) = Len(Q[prio]) /\ \A x \in Prios : x # prio => R[x] = Q[x]
  <2>1. R = WithList(Q, prio, Updated(Q[prio], i, d)) /\ d.id = Q[prio][i].id /\ d.key = Q[prio][i].key
    BY <1>8, <1>12, <1>13, <1>15
  <2> QED BY <1>2, <1>5, <1>6, <1>7, <1>8, <1>13, <1>14, <1>16, <2>1, ListUpdated
<1>18. Twin(S, b, d) /\ T = Swapped(S, b, d)
  BY <1>9, <1>10, <1>12, <1>13, <1>17 DEF Twin, Swapped
<1>19. S \subseteq Entries /\ IsFiniteSet(S)
  BY <1>4, <1>5, <1>6, AllEntries DEF QueueSound
<1>20. IsFiniteSet(T) /\ Cardinality(T) = Cardinality(S) /\ SizeOf(T) = SizeOf(S)
  BY <1>18, <1>19, SwapFacts
<1>21. r.count = Cardinality(T) /\ r.size = SizeOf(T)
  BY <1>4, <1>5, <1>13, <1>20 DEF QueueSound, SameTotals
<1>22. \A x \in Prios : r.counts[x] = Len(R[x])
  BY <1>4, <1>13, <1>17 DEF QueueSound, SameTable
<1>23. InBounds(r)
  BY <1>13 DEF QueueSound, InBounds, SameTable, SameBounds
<1>24. Alone(prog) => CountersSound(T, prog, r.counters)
  <2> SUFFICES ASSUME Alone(prog) PROVE CountersSound(T, prog, r.counters)
    OBVIOUS
  <2>1. CountersSound(S, prog, q.counters)
    BY <1>4, <1>5 DEF QueueSound
  <2> QED BY <1>12, <1>13, <1>18, <1>19, <2>1, CountersSwap
<1>25. TableSound(r.buckets, T, prog, n + 1)
  <2>1. TableSound(q.buckets, S, prog, n)
    BY <1>4, <1>5 DEF QueueSound
  <2>2. TableSound(q.buckets, S, prog, n + 1)
    BY <1>2, <1>6, <2>1, TableTop
  <2>3. \A key \in Keys : IdsOf(T, key) = IdsOf(S, key)
    BY <1>18, SwapIds
  <2> QED BY <1>13, <2>2, <2>3 DEF TableSound, SameTable
<1>26. InHalf(prog) => SumsSound(R, r.sum_high, r.sum_low)
  <2> SUFFICES ASSUME InHalf(prog) PROVE SumsSound(R, r.sum_high, r.sum_low)
    OBVIOUS
  <2>1. SumsSound(Q, q.sum_high, q.sum_low)
    BY <1>4 DEF QueueSound
  <2>2. R \in [Prios -> Seq(Entries)]
    BY <1>17 DEF ListsSound
  <2>3. \A x \in Prios : R[x] = <<>> <=> Q[x] = <<>>
    BY <1>6, <1>17, <2>2, ListEntries
  <2>4. High(R) = High(Q) /\ Low(R) = Low(Q)
    BY <2>3 DEF High, Low
  <2> QED BY <1>13, <2>1, <2>4 DEF SumsSound, SameSums
<1>27. QueueSound(r, prog, n + 1, bcc)
  BY <1>13, <1>15, <1>16, <1>17, <1>20, <1>21, <1>22, <1>23, <1>24, <1>25, <1>26 DEF QueueSound
<1>28. Pushes(S, T, n + 1, prog[n + 1].key)
  BY <1>3, <1>9, <1>12, <1>17 DEF Pushes
<1> QED BY <1>1, <1>4, <1>5, <1>15, <1>16, <1>27, <1>28

(* A newer value with another priority replaces a waiting one.             *)
LEMMA QueueMoved ==
  ASSUME NEW q, NEW prog, NEW n, NEW acc, Progress(prog, n, acc), n + 1 \in DOMAIN prog,
         QueueSound(q, prog, n, acc), NEW e, e = NewEntry(prog, n + 1),
         NEW prio, prio = prog[n + 1].prio, NEW old \in Prios, old # prio,
         NEW i \in 1..Len(q.queues[old]), WaitsAt(q, old, i, e),
         NEW r, r = Moved(q, old, i, prio, e)
  PROVE  /\ QueueSound(r, prog, n + 1, acc \union {n + 1})
         /\ Pushes(AllOf(q.queues), AllOf(r.queues), n + 1, prog[n + 1].key)
<1>1. PICK bcc : bcc = acc \union {n + 1}
  OBVIOUS
<1>2. Progress(prog, n + 1, bcc) /\ n \in Nat /\ n + 1 \in Ids /\ prio \in Prios
  BY <1>1, ProgressAccepts
<1>3. /\ e \in Entries /\ e.id = n + 1 /\ e.ver = n + 1 /\ e.counter = NoCounter /\ e.key = prog[n + 1].key
      /\ Fits(prog, bcc, prio, e)
  <2>1. /\ e \in Entries /\ e.id = n + 1 /\ e.ver = n + 1 /\ e.counter = NoCounter /\ e.key = prog[n + 1].key
        /\ Fits(prog, acc \union {n + 1}, prog[n + 1].prio, e)
    BY NewEntryFacts, ZenonT(60)
  <2> QED BY <1>1, <2>1
<1>4. PICK Q : Q = q.queues
  OBVIOUS
<1>5. PICK S : S = AllOf(Q)
  OBVIOUS
<1>6. /\ q \in QueueType /\ Q \in [Prios -> Seq(Entries)] /\ q.buckets \in Seq(Buckets) /\ InBounds(q)
      /\ q.counts \in [Prios -> Int] /\ q.counters \in [Ids -> Int]
      /\ ListsSound(Q, prog, acc) /\ i \in 1..Len(Q[old]) /\ \A x \in Prios : q.counts[x] = Len(Q[x])
  BY <1>4 DEF QueueSound, QueueType
<1>7. ListsSound(Q, prog, bcc)
  BY <1>1, <1>6, ListsAccept
<1>8. PICK b : b = Q[old][i]
  OBVIOUS
<1>9. b \in S /\ b \in Range(Q[old]) /\ b.key = e.key /\ Cmd[e.key].dups
  BY <1>4, <1>5, <1>6, <1>8, ListEntries DEF WaitsAt
<1>10. b \in Entries /\ b.id \in Nat /\ b.id <= n /\ b.ver \in DOMAIN prog
  BY <1>5, <1>6, <1>9, EntryFacts
<1>11. q.counts[old] # 0 /\ Len(Q[old]) \in Nat
  <2>1. Len(Q[old]) \in Nat
    BY <1>6, ListEntries
  <2> QED BY <1>6, <2>1
<1>12. MovesOf(prog, b.ver, n + 1)
  <2>1. Fits(prog, acc, old, b)
    BY <1>6, <1>9 DEF ListsSound
  <2> QED BY <1>3, <1>9, <2>1 DEF MovesOf, Fits
<1>13. r \in QueueType /\ InBounds(r) /\ \E R, K, B, x : MovedTo(q, r, old, i, prio, e, R, K, B, x)
  <2>1. e.key = q.queues[old][i].key
    BY DEF WaitsAt
  <2> QED BY <1>2, <1>3, <1>6, <1>11, <2>1, MovedFields
<1>14. PICK P, K, B, x : MovedTo(q, r, old, i, prio, e, P, K, B, x)
  BY <1>13
<1>15. /\ P = WithList(Q, old, Without(Q[old], i))
       /\ K = UncountedOf(q.counters, b.counter)
       /\ FirstGone(q.buckets, b.key, B)
       /\ x = WithCounter(e, KeptCounter(q.counters, b.counter)) /\ x \in Entries
       /\ r.queues = WithList(P, prio, AddedList(P[prio], x))
       /\ r.counters = AddedCounters(K, P[prio], x)
       /\ r.buckets = Append(B, [key |-> x.key, id |-> x.id])
       /\ r.counts = More(Less(q.counts, old), prio)
       /\ Summed(q, r, prio, (IF q.counts[old] = 1 THEN -RPrio[old] ELSE 0)
                               + (IF q.counts[prio] = 0 THEN RPrio[prio] ELSE 0))
       /\ SameTotals(q, r)
  BY <1>4, <1>8, <1>9, <1>14 DEF MovedTo
<1>16. x.id = n + 1 /\ x.ver = n + 1 /\ x.key = e.key /\ Fits(prog, bcc, prio, x)
  <2>1. x.id = e.id /\ x.ver = e.ver /\ x.key = e.key
    <3>1. PICK c : c = KeptCounter(q.counters, b.counter)
      OBVIOUS
    <3>2. c \in Ids \union {NoCounter}
      BY <1>10, <3>1, EntryType DEF KeptCounter
    <3> QED BY <1>3, <1>15, <3>1, <3>2, WithCounterType
  <2> QED BY <1>3, <2>1 DEF Fits
<1>17. PICK L : L = Without(Q[old], i)
  OBVIOUS
<1>18. Cut(Entries, Q[old], i, L)
  BY <1>6, <1>17, CutSubSeq DEF Without
<1>19. PICK U : U = AllOf(P)
  OBVIOUS
<1>20. /\ ListsSound(P, prog, bcc) /\ U = S \ {b}
       /\ Len(P[old]) = Len(Q[old]) - 1 /\ \A y \in Prios : y # old => P[y] = Q[y]
  BY <1>5, <1>6, <1>7, <1>8, <1>15, <1>17, <1>18, <1>19, ListCut
<1>21. S \subseteq Entries /\ IsFiniteSet(S)
  BY <1>4, <1>5, <1>6, AllEntries DEF QueueSound
<1>22. U \subseteq Entries /\ IsFiniteSet(U) /\ Cardinality(U) = Cardinality(S) - 1
  BY <1>9, <1>20, <1>21, EntrySetRemove
<1>23. SizeOf(U) = SizeOf(S) - Cmd[b.key].item_size /\ SizeOf(S) \in Int
  BY <1>9, <1>20, <1>21, SizeRemove, SizeNat
<1>24. \A f \in S : (f.id = b.id => f = b) /\ (f.key = b.key => f = b)
  BY <1>5, <1>6, <1>9 DEF ListsSound, Unique
<1>25. \A f \in U : f.id < x.id /\ ~(f.key = x.key /\ Cmd[x.key].dups)
  <2>1. \A f \in S : f.id \in Nat /\ f.id <= n
    BY <1>5, <1>6, EntryFacts
  <2>2. \A f \in U : f.id < x.id
    BY <1>2, <1>16, <1>20, <2>1
  <2> QED BY <1>9, <1>16, <1>20, <1>24, <2>2
<1>26. PICK R : R = r.queues
  OBVIOUS
<1>27. PICK T : T = AllOf(R)
  OBVIOUS
<1>28. PICK M \in Seq(Entries) : M = P[prio]
  BY <1>2, <1>20 DEF ListsSound
<1>29. /\ ListsSound(R, prog, bcc) /\ Entering(U, T, M, x)
       /\ Len(R[prio]) = Len(P[prio]) + 1 /\ \A y \in Prios : y # prio => R[y] = P[y]
  <2>1. R = WithList(P, prio, AddedList(P[prio], x)) /\ x \in Entries
    BY <1>15, <1>26
  <2>2. \A f \in AllOf(P) : f.id < x.id /\ ~(f.key = x.key /\ Cmd[x.key].dups)
    BY <1>19, <1>25
  <2>3. /\ ListsSound(R, prog, bcc) /\ Entering(AllOf(P), AllOf(R), P[prio], x)
        /\ Len(R[prio]) = Len(P[prio]) + 1 /\ \A y \in Prios : y # prio => R[y] = P[y]
    BY <1>2, <1>16, <1>20, <2>1, <2>2, ListEntered
  <2> QED BY <1>19, <1>27, <1>28, <2>3
<1>30. /\ T \subseteq Entries /\ IsFiniteSet(T) /\ Cardinality(T) = Cardinality(U) + 1
       /\ SizeOf(T) = SizeOf(U) + Cmd[x.key].item_size
  BY <1>15, <1>22, <1>25, <1>28, <1>29, EnteringTotals
<1>31. r.count = Cardinality(T) /\ r.size = SizeOf(T)
  <2>1. r.count = Cardinality(S) /\ r.size = SizeOf(S)
    BY <1>4, <1>5, <1>15 DEF QueueSound, SameTotals
  <2>2. Cardinality(S) \in Nat /\ Cmd[x.key].item_size \in Nat
    BY <1>15, <1>21, FS_CardinalityType, EntryType
  <2>3. x.key = b.key
    BY <1>9, <1>16
  <2> QED BY <1>22, <1>23, <1>30, <2>1, <2>2, <2>3
<1>32. \A y \in Prios : r.counts[y] = Len(R[y])
  <2>1. \A y \in Prios : Less(q.counts, old)[y] = Len(P[y])
    BY <1>6, <1>20 DEF Less
  <2>2. Less(q.counts, old) \in [Prios -> Int]
    <3>1. q.counts[old] - 1 \in Int
      BY <1>6
    <3> QED BY <1>6, <3>1 DEF Less
  <2>3. PICK C \in [Prios -> Int] : C = Less(q.counts, old)
    BY <2>2
  <2>4. r.counts = More(C, prio) /\ \A y \in Prios : C[y] = Len(P[y])
    BY <1>15, <2>1, <2>3
  <2>5. r.counts[prio] = C[prio] + 1 /\ \A y \in Prios : y # prio => r.counts[y] = C[y]
    BY <1>2, <2>4 DEF More
  <2> QED BY <1>29, <2>4, <2>5
<1>33. Alone(prog) => CountersSound(T, prog, r.counters)
  <2> SUFFICES ASSUME Alone(prog) PROVE CountersSound(T, prog, r.counters)
    OBVIOUS
  <2>1. CountersSound(S, prog, q.counters)
    BY <1>4, <1>5 DEF QueueSound
  <2>2. b.counter = NoCounter
    <3>1. \A k \in DOMAIN prog : Cmd[prog[k].key].opcode = Cmd[b.key].opcode => prog[k].key = b.key
      BY <1>3, <1>9, <1>10, <1>12 DEF Alone
    <3>2. ~OtherKey(prog, b.key)
      BY <3>1 DEF OtherKey
    <3> QED BY <1>9, <2>1, <3>2 DEF CountersSound
  <2>3. x.counter = NoCounter
    <3>1. KeptCounter(q.counters, b.counter) = NoCounter
      BY <2>2 DEF KeptCounter
    <3> QED BY <1>3, <1>15, <3>1, WithCounterType
  <2>4. PICK J \in [Ids -> Int] : J = q.counters
    BY <1>6
  <2>5. K = J
    BY <1>15, <2>2, <2>4 DEF UncountedOf
  <2>6. CountersSound(U, prog, J)
    <3>1. CountersSound(S \ {b}, prog, UncountedOf(J, b.counter))
      BY <1>9, <1>21, <2>1, <2>4, CountersRemove
    <3> QED BY <1>20, <2>2, <3>1 DEF UncountedOf
  <2>7. \A f \in U : \E k \in DOMAIN prog : prog[k].key = f.key
    <3>1. \A f \in S : f.ver \in DOMAIN prog /\ prog[f.ver].key = f.key
      BY <1>5, <1>6, EntryFacts
    <3> QED BY <1>20, <3>1
  <2>8. \E k \in DOMAIN prog : prog[k].key = x.key
    BY <1>3, <1>16
  <2>9. CountersSound(T, prog, AddedCounters(J, M, x))
    BY <1>15, <1>22, <1>25, <1>28, <1>29, <2>3, <2>6, <2>7, <2>8, CountersEnter
  <2> QED BY <1>15, <1>28, <2>5, <2>9
<1>34. TableSound(r.buckets, T, prog, n + 1)
  <2>1. PICK A \in Seq(Buckets) : A = q.buckets
    BY <1>6
  <2>2. TableSound(A, S, prog, n)
    BY <1>4, <1>5, <2>1 DEF QueueSound
  <2>3. \A f \in S : f.key = b.key => b.id <= f.id
    BY <1>10, <1>24
  <2>4. TableSound(B, S \ {b}, prog, n) /\ B \in Seq(Buckets)
    <3>1. FirstGone(A, b.key, B)
      BY <1>15, <2>1
    <3> QED BY <1>2, <1>9, <1>21, <1>24, <2>2, <2>3, <3>1, TableRemove
  <2>5. \A key \in Keys : IdsOf(T, key) = IdsOf(U \union {x}, key)
    BY <1>15, <1>28, <1>29, EnteringIds
  <2>6. n < x.id
    BY <1>2, <1>16
  <2>7. TableSound(B, U, prog, n)
    BY <1>20, <2>4
  <2>8. TableSound(Append(B, [key |-> x.key, id |-> x.id]), T, prog, x.id)
    <3>1. x \in Entries /\ n \in Nat
      BY <1>2, <1>15
    <3> QED BY <2>4, <2>5, <2>6, <2>7, <3>1, TableAdd
  <2> QED BY <1>15, <1>16, <2>8
<1>35. InHalf(prog) => SumsSound(R, r.sum_high, r.sum_low)
  <2> SUFFICES ASSUME InHalf(prog) PROVE SumsSound(R, r.sum_high, r.sum_low)
    OBVIOUS
  <2>1. SumsSound(Q, q.sum_high, q.sum_low)
    BY <1>4 DEF QueueSound
  <2>2. old >= VRS_DEFAULT_PRIORITY <=> prio >= VRS_DEFAULT_PRIORITY
    <3>1. Fits(prog, acc, old, b)
      BY <1>6, <1>9 DEF ListsSound
    <3> QED BY <1>10, <1>12, <3>1 DEF InHalf, Fits
  <2>3. P \in [Prios -> Seq(Entries)] /\ R \in [Prios -> Seq(Entries)]
    BY <1>20, <1>29 DEF ListsSound
  <2>4. Q[old] # <<>> /\ (q.counts[old] = 1 <=> P[old] = <<>>)
    <3>1. /\ Len(Q[old]) \in Nat /\ (Q[old] = <<>> <=> Len(Q[old]) = 0) /\ (P[old] = <<>> <=> Len(P[old]) = 0)
      BY <1>6, <2>3, ListEntries
    <3> QED BY <1>6, <1>11, <1>20, <3>1
  <2>5. R[prio] # <<>> /\ (q.counts[prio] = 0 <=> P[prio] = <<>>)
    <3>1. /\ Len(P[prio]) \in Nat /\ (P[prio] = <<>> <=> Len(P[prio]) = 0) /\ (R[prio] = <<>> <=> Len(R[prio]) = 0)
      BY <1>2, <2>3, ListEntries
    <3>2. Len(P[prio]) = Len(Q[prio]) /\ q.counts[prio] = Len(Q[prio])
      BY <1>2, <1>6, <1>20
    <3> QED BY <1>29, <3>1, <3>2
  <2>6. q.sum_high \in Int /\ q.sum_low \in Int /\ RPrio[old] \in Int /\ RPrio[prio] \in Int /\ -RPrio[old] \in Int
    <3>1. RPrio[old] \in Nat /\ RPrio[prio] \in Nat
      BY <1>2, PrioType
    <3>2. -RPrio[old] \in Int
      BY <3>1
    <3>3. q.sum_high \in Int /\ q.sum_low \in Int
      BY <1>6, QueueSums
    <3> QED BY <3>1, <3>2, <3>3
  <2>7. PICK y \in Int : y = IF P[old] = <<>> THEN -RPrio[old] ELSE 0
    BY <2>6
  <2>8. PICK z \in Int : z = IF P[prio] = <<>> THEN RPrio[prio] ELSE 0
    BY <2>6
  <2>9. Summed(q, r, prio, y + z)
    BY <1>15, <2>4, <2>5, <2>7, <2>8
  <2>10. PICK s : s = [sum_high |-> IF prio >= VRS_DEFAULT_PRIORITY THEN q.sum_high + y ELSE q.sum_high,
                       sum_low  |-> IF prio >= VRS_DEFAULT_PRIORITY THEN q.sum_low ELSE q.sum_low + y]
    OBVIOUS
  <2>11. /\ s.sum_high = IF prio >= VRS_DEFAULT_PRIORITY THEN q.sum_high + y ELSE q.sum_high
         /\ s.sum_low  = IF prio >= VRS_DEFAULT_PRIORITY THEN q.sum_low ELSE q.sum_low + y
    BY <2>10
  <2>12. Summed(q, s, old, y)
    BY <2>2, <2>11 DEF Summed
  <2>13. Summed(s, r, prio, z)
    BY <2>6, <2>9, <2>11 DEF Summed
  <2>14. SumsSound(P, s.sum_high, s.sum_low)
    <3>1. OthersSame(Q, P, old)
      BY <1>20 DEF OthersSame
    <3>2. Summed(q, s, old, IF P[old] = <<>> THEN -RPrio[old] ELSE 0)
      BY <2>7, <2>12
    <3> QED BY <2>1, <2>4, <3>1, <3>2, SumsFall
  <2>15. OthersSame(P, R, prio)
    BY <1>29 DEF OthersSame
  <2>16. Summed(s, r, prio, IF P[prio] = <<>> THEN RPrio[prio] ELSE 0)
    BY <2>8, <2>13
  <2> QED BY <1>2, <2>5, <2>14, <2>15, <2>16, SumsGrow
<1>36. QueueSound(r, prog, n + 1, bcc)
  BY <1>13, <1>26, <1>27, <1>29, <1>30, <1>31, <1>32, <1>33, <1>34, <1>35 DEF QueueSound
<1>37. Pushes(S, T, n + 1, prog[n + 1].key)
  <2>1. Adds(U, T, x)
    BY <1>15, <1>28, <1>29, EnteringAdds
  <2> QED BY <1>3, <1>9, <1>16, <1>20, <2>1 DEF Pushes, Adds
<1> QED BY <1>1, <1>4, <1>5, <1>26, <1>27, <1>36, <1>37

(* The first command of a list is popped: those that stay behind it, and   *)
(* those of its key, are younger.                                          *)
Pops(S, T, prog, prio, e) ==
  /\ e \in S /\ T = S \ {e}
  /\ \A f \in T : prog[f.ver].prio = prio => e.id < f.id
  /\ \A f \in T : f.key = e.key => ~Cmd[e.key].dups

LEMMA QueuePopped ==
  ASSUME NEW q, NEW prog, NEW n, NEW acc, Progress(prog, n, acc), QueueSound(q, prog, n, acc),
         NEW prio \in Prios, q.queues[prio] # <<>>, NEW e, e = Head(q.queues[prio]),
         NEW r, r = v_out_queue_pop(q, prio)
  PROVE  /\ QueueSound(r, prog, n, acc) /\ Pops(AllOf(q.queues), AllOf(r.queues), prog, prio, e)
         /\ prog[e.ver].prio = prio
<1>4. PICK Q : Q = q.queues
  OBVIOUS
<1>5. PICK S : S = AllOf(Q)
  OBVIOUS
<1>6. /\ q \in QueueType /\ Q \in [Prios -> Seq(Entries)] /\ q.buckets \in Seq(Buckets) /\ InBounds(q)
      /\ q.counts \in [Prios -> Int] /\ q.counters \in [Ids -> Int] /\ q.count \in Int /\ q.size \in Int
      /\ ListsSound(Q, prog, acc) /\ \A x \in Prios : q.counts[x] = Len(Q[x])
  BY <1>4 DEF QueueSound, QueueType
<1>7. PICK L \in Seq(Entries) : L = Q[prio]
  BY <1>6
<1>8. L # <<>> /\ e = Head(L)
  BY <1>4, <1>7
<1>9. 1 \in 1..Len(L) /\ e = L[1] /\ Cut(Entries, L, 1, Tail(L))
  BY <1>8, CutTail
<1>10. e \in S /\ e \in Range(Q[prio]) /\ DOMAIN L = 1..Len(L) /\ Len(L) \in Nat
  BY <1>5, <1>6, <1>7, <1>9, ListEntries
<1>11. q.counts[prio] # 0
  BY <1>6, <1>7, <1>9
<1>12. /\ r \in QueueType /\ InBounds(r) /\ e \in Entries
       /\ r.queues = WithList(q.queues, prio, Tail(q.queues[prio]))
       /\ r.counters = UncountedOf(q.counters, e.counter)
       /\ r.counts = Less(q.counts, prio) /\ FirstGone(q.buckets, e.key, r.buckets)
       /\ r.count = q.count - 1 /\ r.size = q.size - Cmd[e.key].item_size /\ r.max_size = q.max_size
       /\ Summed(q, r, prio, IF q.counts[prio] = 1 THEN -RPrio[prio] ELSE 0)
  BY <1>6, <1>11, PopFields
<1>13. PICK R : R = r.queues
  OBVIOUS
<1>14. PICK T : T = AllOf(R)
  OBVIOUS
<1>15. /\ ListsSound(R, prog, acc) /\ T = S \ {e}
       /\ Len(R[prio]) = Len(Q[prio]) - 1 /\ \A y \in Prios : y # prio => R[y] = Q[y]
  <2>1. R = WithList(Q, prio, Tail(L))
    BY <1>4, <1>7, <1>12, <1>13
  <2>2. 1 \in 1..Len(Q[prio]) /\ Cut(Entries, Q[prio], 1, Tail(L)) /\ Q[prio][1] = e
    BY <1>7, <1>9
  <2>3. /\ ListsSound(R, prog, acc) /\ AllOf(R) = AllOf(Q) \ {Q[prio][1]}
        /\ Len(R[prio]) = Len(Q[prio]) - 1 /\ \A y \in Prios : y # prio => R[y] = Q[y]
    BY <1>6, <2>1, <2>2, ListCut
  <2> QED BY <1>5, <1>14, <2>2, <2>3
<1>16. S \subseteq Entries /\ IsFiniteSet(S)
  BY <1>4, <1>5, <1>6, AllEntries DEF QueueSound
<1>17. IsFiniteSet(T) /\ Cardinality(T) = Cardinality(S) - 1
  BY <1>10, <1>15, <1>16, EntrySetRemove
<1>18. SizeOf(T) = SizeOf(S) - Cmd[e.key].item_size
  BY <1>10, <1>15, <1>16, SizeRemove
<1>19. r.count = Cardinality(T) /\ r.size = SizeOf(T)
  BY <1>4, <1>5, <1>12, <1>17, <1>18 DEF QueueSound
<1>20. \A y \in Prios : r.counts[y] = Len(R[y])
  BY <1>6, <1>12, <1>15 DEF Less
<1>21. Alone(prog) => CountersSound(T, prog, r.counters)
  <2> SUFFICES ASSUME Alone(prog) PROVE CountersSound(T, prog, r.counters)
    OBVIOUS
  <2>1. CountersSound(S, prog, q.counters)
    BY <1>4, <1>5 DEF QueueSound
  <2>2. PICK K \in [Ids -> Int] : K = q.counters
    BY <1>6
  <2>3. CountersSound(S \ {e}, prog, UncountedOf(K, e.counter))
    BY <1>10, <1>16, <2>1, <2>2, CountersRemove
  <2> QED BY <1>12, <1>15, <2>2, <2>3
<1>22. \A f \in S : f.id = e.id => f = e
  BY <1>5, <1>6, <1>10 DEF ListsSound, Unique
<1>23. \A f \in S : f.key = e.key /\ Cmd[e.key].dups => f = e
  BY <1>5, <1>6, <1>10 DEF ListsSound, Unique
<1>24. Fits(prog, acc, prio, e)
  BY <1>6, <1>10 DEF ListsSound
<1>25. ASSUME NEW f \in S, prog[f.ver].prio = prio, f # e PROVE e.id < f.id
  <2>1. f \in Range(L)
    BY <1>5, <1>6, <1>7, <1>25, EntryFacts
  <2>2. PICK j \in 1..Len(L) : f = L[j]
    BY <1>10, <2>1 DEF Range
  <2>3. 1 < j
    BY <1>9, <1>10, <1>25, <2>2
  <2>4. Sorted(L)
    BY <1>6, <1>7 DEF ListsSound
  <2> QED BY <1>9, <1>10, <2>2, <2>3, <2>4 DEF Sorted
<1>26. OneListOf(prog, e.key) => \A f \in S : f.key = e.key => e.id <= f.id
  <2> SUFFICES ASSUME OneListOf(prog, e.key), NEW f \in S, f.key = e.key, f # e PROVE e.id <= f.id
    <3>1. e.id \in Nat
      BY <1>12, EntryType
    <3> QED BY <3>1
  <2>1. ~Cmd[e.key].dups
    BY <1>23
  <2>2. f.ver \in DOMAIN prog /\ prog[f.ver].key = e.key
    BY <1>5, <1>6, EntryFacts
  <2>3. e.ver \in DOMAIN prog /\ prog[e.ver].key = e.key /\ prog[e.ver].prio = prio
    BY <1>5, <1>6, <1>10, <1>24, EntryFacts DEF Fits
  <2>4. prog[f.ver].prio = prio
    BY <2>1, <2>2, <2>3 DEF OneListOf
  <2>5. e.id < f.id /\ e.id \in Nat /\ f.id \in Nat
    BY <1>12, <1>16, <1>25, <2>4, EntryType
  <2> QED BY <2>5
<1>27. TableSound(r.buckets, T, prog, n)
  <2>1. PICK A \in Seq(Buckets) : A = q.buckets
    BY <1>6
  <2>2. TableSound(A, S, prog, n) /\ FirstGone(A, e.key, r.buckets)
    BY <1>4, <1>5, <1>12, <2>1 DEF QueueSound
  <2>3. n \in Nat
    <3>1. n \in 0..Len(prog) /\ Len(prog) \in Nat
      BY LenProperties DEF Progress, Program
    <3> QED BY <3>1
  <2>4. TableSound(r.buckets, S \ {e}, prog, n)
    BY <1>10, <1>16, <1>22, <1>26, <2>2, <2>3, TableRemove
  <2> QED BY <1>15, <2>4
<1>28. InHalf(prog) => SumsSound(R, r.sum_high, r.sum_low)
  <2> SUFFICES ASSUME InHalf(prog) PROVE SumsSound(R, r.sum_high, r.sum_low)
    OBVIOUS
  <2>1. SumsSound(Q, q.sum_high, q.sum_low)
    BY <1>4 DEF QueueSound
  <2>2. R \in [Prios -> Seq(Entries)]
    BY <1>15 DEF ListsSound
  <2>3. q.counts[prio] = 1 <=> R[prio] = <<>>
    <3>1. R[prio] = <<>> <=> Len(R[prio]) = 0
      BY <2>2, ListEntries
    <3>2. q.counts[prio] = Len(L) /\ Len(R[prio]) = Len(L) - 1
      BY <1>6, <1>7, <1>15
    <3>3. q.counts[prio] = 1 <=> Len(R[prio]) = 0
      <4>1. PICK k, c, m : k \in Nat /\ k = Len(L) /\ c = q.counts[prio] /\ m = Len(R[prio])
        BY <1>10
      <4>2. c = k /\ m = k - 1
        BY <3>2, <4>1
      <4>3. c = 1 <=> m = 0
        BY <4>2
      <4> QED BY <4>1, <4>3
    <3> QED BY <3>1, <3>3
  <2>4. Summed(q, r, prio, IF R[prio] = <<>> THEN -RPrio[prio] ELSE 0)
    BY <1>12, <2>3
  <2>5. OthersSame(Q, R, prio) /\ Q[prio] # <<>>
    BY <1>7, <1>8, <1>15 DEF OthersSame
  <2> QED BY <2>1, <2>4, <2>5, SumsFall
<1>29. QueueSound(r, prog, n, acc)
  BY <1>12, <1>13, <1>14, <1>15, <1>17, <1>19, <1>20, <1>21, <1>27, <1>28 DEF QueueSound
<1>30. Pops(S, T, prog, prio, e)
  BY <1>10, <1>15, <1>23, <1>25 DEF Pops
<1> QED BY <1>4, <1>5, <1>13, <1>14, <1>24, <1>29, <1>30 DEF Fits

(* v_out_queue_push_tail as a whole.                                       *)
LEMMA WaitingFacts ==
  ASSUME NEW q, NEW prog, NEW acc, ListsSound(q.queues, prog, acc), NEW key
  PROVE  /\ \A w \in Waiting(q, key) : /\ w[1] \in Prios /\ w[2] \in 1..Len(q.queues[w[1]])
                                       /\ q.queues[w[1]][w[2]].key = key
         /\ Waiting(q, key) = {} => \A f \in AllOf(q.queues) : f.key # key
<1>1. PICK Q : Q = q.queues
  OBVIOUS
<1>2. Q \in [Prios -> Seq(Entries)]
  BY <1>1 DEF ListsSound
<1>3. \A prio \in Prios : DOMAIN Q[prio] = 1..Len(Q[prio])
  BY <1>2, ListEntries
<1>4. Waiting(q, key) = {w \in UNION {{<<prio, n>> : n \in DOMAIN Q[prio]} : prio \in Prios} : Q[w[1]][w[2]].key = key}
  BY <1>1 DEF Waiting
<1>5. ASSUME NEW w \in Waiting(q, key)
      PROVE  w[1] \in Prios /\ w[2] \in 1..Len(Q[w[1]]) /\ Q[w[1]][w[2]].key = key
  <2>0. PICK prio \in Prios : w \in {<<prio, n>> : n \in DOMAIN Q[prio]}
    BY <1>4, <1>5
  <2>1. PICK n \in DOMAIN Q[prio] : w = <<prio, n>>
    BY <2>0
  <2>2. w[1] = prio /\ w[2] = n
    BY <2>1
  <2> QED BY <1>3, <1>4, <1>5, <2>1, <2>2
<1>6. ASSUME Waiting(q, key) = {}, NEW f \in AllOf(Q), f.key = key PROVE FALSE
  <2>1. PICK prio \in Prios : f \in Range(Q[prio])
    BY <1>6 DEF AllOf
  <2>2. PICK n \in DOMAIN Q[prio] : f = Q[prio][n]
    BY <2>1 DEF Range
  <2>3. <<prio, n>> \in UNION {{<<x, m>> : m \in DOMAIN Q[x]} : x \in Prios}
    BY <2>1, <2>2
  <2>4. <<prio, n>>[1] = prio /\ <<prio, n>>[2] = n
    OBVIOUS
  <2>5. <<prio, n>> \in Waiting(q, key)
    BY <1>4, <1>6, <2>2, <2>3, <2>4
  <2> QED BY <1>6, <2>5
<1> QED BY <1>1, <1>5, <1>6

PushResult(q, prog, n, acc, res) ==
  /\ res.ret \in BOOLEAN
  /\ res.ret  => /\ QueueSound(res.queue, prog, n + 1, acc \union {n + 1})
                 /\ Pushes(AllOf(q.queues), AllOf(res.queue.queues), n + 1, prog[n + 1].key)
  /\ ~res.ret => res.queue = q

LEMMA QueuePushed ==
  ASSUME NEW q, NEW prog, NEW n, NEW acc, Progress(prog, n, acc), n + 1 \in DOMAIN prog,
         QueueSound(q, prog, n, acc), NEW e, e = NewEntry(prog, n + 1), NEW limits,
         NEW prio, prio = prog[n + 1].prio, NEW res, res = v_out_queue_push_tail(q, limits, prio, e)
  PROVE  PushResult(q, prog, n, acc, res)
<1> DEFINE waiting == IF Cmd[e.key].dups THEN Waiting(q, e.key) ELSE {}
           w == CHOOSE x \in waiting : TRUE
<1>1. ListsSound(q.queues, prog, acc)
  BY DEF QueueSound
<1>2. CASE waiting # {}
  <2>1. w \in waiting
    BY <1>2
  <2>2. Cmd[e.key].dups /\ w \in Waiting(q, e.key)
    BY <2>1
  <2>3. PICK old, i : old = w[1] /\ i = w[2]
    OBVIOUS
  <2>4. old \in Prios /\ i \in 1..Len(q.queues[old]) /\ WaitsAt(q, old, i, e)
    <3> HIDE DEF w, waiting
    <3>1. w[1] \in Prios /\ w[2] \in 1..Len(q.queues[w[1]]) /\ q.queues[w[1]][w[2]].key = e.key
      <4>1. PICK key, v : key = e.key /\ v = w
        OBVIOUS
      <4>2. v \in Waiting(q, key)
        BY <2>2, <4>1
      <4>3. v[1] \in Prios /\ v[2] \in 1..Len(q.queues[v[1]]) /\ q.queues[v[1]][v[2]].key = key
        BY <1>1, <4>2, WaitingFacts, ZenonT(60)
      <4> QED BY <4>1, <4>3
    <3> QED BY <2>2, <2>3, <3>1 DEF WaitsAt
  <2>5. res = [queue |-> IF old = prio THEN Replaced(q, prio, i, e) ELSE Moved(q, old, i, prio, e), ret |-> TRUE]
    BY <1>2, <2>3 DEF v_out_queue_push_tail
  <2> HIDE DEF w, waiting
  <2>6. CASE old = prio
    <3>1. res.ret = TRUE /\ res.queue = Replaced(q, prio, i, e)
      BY <2>5, <2>6
    <3>2. i \in 1..Len(q.queues[prio]) /\ WaitsAt(q, prio, i, e)
      BY <2>4, <2>6
    <3>3. PICK r : r = Replaced(q, prio, i, e)
      OBVIOUS
    <3>4. /\ QueueSound(r, prog, n + 1, acc \union {n + 1})
          /\ Pushes(AllOf(q.queues), AllOf(r.queues), n + 1, prog[n + 1].key)
      BY <3>2, <3>3, QueueReplaced
    <3> QED BY <3>1, <3>3, <3>4 DEF PushResult
  <2>7. CASE old # prio
    <3>1. res.ret = TRUE /\ res.queue = Moved(q, old, i, prio, e)
      BY <2>5, <2>7
    <3>3. PICK r : r = Moved(q, old, i, prio, e)
      OBVIOUS
    <3>4. /\ QueueSound(r, prog, n + 1, acc \union {n + 1})
          /\ Pushes(AllOf(q.queues), AllOf(r.queues), n + 1, prog[n + 1].key)
      BY <2>4, <2>7, <3>3, QueueMoved
    <3> QED BY <3>1, <3>3, <3>4 DEF PushResult
  <2> QED BY <2>6, <2>7
<1>3. CASE waiting = {} /\ HasRoom(q, limits, e.key)
  <2>1. res = [queue |-> _v_out_queue_command_create(q, prio, e), ret |-> TRUE]
    BY <1>3 DEF v_out_queue_push_tail
  <2>2. \A f \in AllOf(q.queues) : ~(f.key = e.key /\ Cmd[e.key].dups)
    BY <1>1, <1>3, WaitingFacts
  <2>3. PICK r : r = _v_out_queue_command_create(q, prio, e)
    OBVIOUS
  <2>4. /\ QueueSound(r, prog, n + 1, acc \union {n + 1})
        /\ Pushes(AllOf(q.queues), AllOf(r.queues), n + 1, prog[n + 1].key)
    BY <2>2, <2>3, QueueCreated
  <2>5. res.ret = TRUE /\ res.queue = r
    BY <2>1, <2>3
  <2> QED BY <2>4, <2>5 DEF PushResult
<1>4. CASE waiting = {} /\ ~HasRoom(q, limits, e.key)
  <2>1. res = [queue |-> q, ret |-> FALSE]
    BY <1>4 DEF v_out_queue_push_tail
  <2>2. res.ret = FALSE /\ res.queue = q
    BY <2>1
  <2> QED BY <2>2 DEF PushResult
<1> QED BY <1>2, <1>3, <1>4

-----------------------------------------------------------------------------
(* The state: types of the variables, the phases of packing, and both      *)
(* queues of outgoing commands.                                            *)
Phases  == {WAIT, TURN, PRIO, POP}
States  == {OPEN, CLOSING, FAILED}
SysCmds == [cmd : {"NONE", "CHANGE_L", "CONFIRM_L"}, value : Nat]
Sent    == [key : Keys, ver : Ids]
Got     == [key : Keys \union {ACK}, ver : Ids]
Messages == [sys : SysCmds, cmds : Seq(Sent)]
Fps     == [host : Nat, peer : Nat, negotiate : BOOLEAN]
Packs   == [phase : Phases, sys : SysCmds, cmds : Seq(Sent), prio : Int, min : Int, high : Int, low : Int,
            swin : Int, pos : Int, win : Int, sent : Int, left : Int]

PackSound(k) ==
  /\ k \in Packs
  /\ k.phase \in {WAIT, TURN} => k = Turned(k.phase)
  /\ k.phase = PRIO => k.prio \in Prios \union {-1} /\ k.min \in Prios
  /\ k.phase = POP  => k.prio \in Prios /\ k.min \in Prios

Typed ==
  /\ workload \in Workloads
  /\ pushed \in [Peers -> Nat] /\ accepted \in [Peers -> SUBSET Nat]
  /\ out_queue \in [Peers -> QueueType]
  /\ in_queue \in [Peers -> Seq(Got)] /\ applied \in [Peers -> Seq(Got)]
  /\ fps \in [Peers -> Fps]
  /\ pack \in [Peers -> Packs] /\ \A p \in Peers : PackSound(pack[p])
  /\ wire \in [Peers -> Seq(Messages)]
  /\ state \in [Peers -> States]

Books ==
  \A p \in Peers : /\ Progress(workload.program[p], pushed[p], accepted[p])
                   /\ QueueSound(out_queue[p], workload.program[p], pushed[p], accepted[p])

LEMMA WorkloadFacts ==
  ASSUME NEW w \in Workloads, NEW p \in Peers
  PROVE  /\ Program(w.program[p]) /\ w.max_size \in Nat /\ w.windows \subseteq Nat
         /\ DOMAIN w.program[p] = 1..Len(w.program[p]) /\ Len(w.program[p]) \in Nat
         /\ \A n \in DOMAIN w.program[p] : n \in Ids /\ w.program[p][n] \in [key : Keys, prio : Prios]
<1>1. /\ w.program \in [Peers -> Seq([key : Keys, prio : Prios])]
      /\ DOMAIN w.program[p] \subseteq Ids /\ w.max_size \in Nat /\ w.windows \subseteq Nat
  BY StreamAssumption
<1>2. Program(w.program[p])
  BY <1>1 DEF Program
<1>3. /\ DOMAIN w.program[p] = 1..Len(w.program[p]) /\ Len(w.program[p]) \in Nat
      /\ \A n \in 1..Len(w.program[p]) : w.program[p][n] \in [key : Keys, prio : Prios]
  BY <1>1, LenProperties
<1> QED BY <1>1, <1>2, <1>3

LEMMA PeerFacts ==
  ASSUME NEW p \in Peers
  PROVE  Peer(p) \in Peers /\ Peer(p) # p /\ Peer(Peer(p)) = p /\ \A x \in Peers : x = p \/ x = Peer(p)
BY DEF Peers, Peer, CLIENT, SERVER

LEMMA TurnedType ==
  ASSUME NEW phase \in Phases
  PROVE  /\ Turned(phase).phase = phase /\ Turned(phase) \in Packs
         /\ Turned(phase).sys = NoSys /\ Turned(phase).cmds = <<>> /\ Turned(phase).prio = 0
<1>1. NoSys \in SysCmds /\ <<>> \in Seq(Sent)
  BY DEF NoSys, SysCmds
<1>2. PICK y \in SysCmds, c \in Seq(Sent) : y = NoSys /\ c = <<>>
  BY <1>1
<1>3. Turned(phase) = [phase |-> phase, sys |-> y, cmds |-> c, prio |-> 0, min |-> 0,
                       high |-> 0, low |-> 0, swin |-> 0, pos |-> 0, win |-> 0, sent |-> 0, left |-> 0]
  BY <1>2 DEF Turned
<1>4. Turned(phase) \in Packs
  BY <1>1, <1>3 DEF Packs
<1>5. /\ Turned(phase).phase = phase /\ Turned(phase).sys = NoSys /\ Turned(phase).cmds = <<>>
      /\ Turned(phase).prio = 0
  BY DEF Turned
<1> QED BY <1>4, <1>5

LEMMA TurnedSound ==
  ASSUME NEW phase \in {WAIT, TURN}
  PROVE  PackSound(Turned(phase)) /\ Turned(phase).phase = phase /\ Turned(phase) \in Packs
         /\ Turned(phase).sys = NoSys /\ Turned(phase).cmds = <<>> /\ Turned(phase).prio = 0
<1>1. phase \in Phases
  BY DEF Phases
<1>2. /\ Turned(phase).phase = phase /\ Turned(phase) \in Packs
      /\ Turned(phase).sys = NoSys /\ Turned(phase).cmds = <<>> /\ Turned(phase).prio = 0
  BY <1>1, TurnedType
<1>3. PackSound(Turned(phase))
  BY <1>2 DEF PackSound, WAIT, TURN, PRIO, POP
<1> QED BY <1>2, <1>3

LEMMA InQueueType ==
  ASSUME NEW queue \in Seq(Got), NEW cmd \in Got
  PROVE  v_in_queue_push(queue, cmd) \in Seq(Got)
<1> DEFINE same == {n \in DOMAIN queue : queue[n].key = cmd.key}
           at == CHOOSE n \in same : TRUE
<1>1. CASE cmd.key # ACK /\ Cmd[cmd.key].dups /\ same # {}
  <2>1. at \in 1..Len(queue)
    BY <1>1, LenProperties
  <2>2. v_in_queue_push(queue, cmd) = [queue EXCEPT ![at] = cmd]
    BY <1>1 DEF v_in_queue_push
  <2> HIDE DEF at
  <2> QED BY <2>1, <2>2, ExceptSeq
<1>2. CASE ~(cmd.key # ACK /\ Cmd[cmd.key].dups /\ same # {})
  <2>1. v_in_queue_push(queue, cmd) = Append(queue, cmd)
    BY <1>2 DEF v_in_queue_push
  <2> QED BY <2>1, AppendProperties
<1> QED BY <1>1, <1>2

(* The pushes of a message one after another: f[n] is the queue after n    *)
(* commands.                                                               *)
Unpacked(queue, cmds, f) ==
  /\ f \in [0..Len(cmds) -> Seq(Got)] /\ f[0] = queue
  /\ \A n \in 1..Len(cmds) : f[n] = v_in_queue_push(f[n - 1], cmds[n])

LEMMA SentGot ==
  ASSUME NEW c \in Sent
  PROVE  c \in Got /\ c.key # ACK /\ c.key \in Keys /\ c.ver \in Ids /\ c.ver \in Nat
<1>1. c.key \in Keys /\ c.ver \in Ids /\ c \in Got
  BY DEF Sent, Got
<1> QED BY <1>1, StreamAssumption, OutQueueAssumption

LEMMA UnpackSteps ==
  ASSUME NEW queue \in Seq(Got), NEW cmds \in Seq(Sent)
  PROVE  \E f : Unpacked(queue, cmds, f) /\ v_cmd_unpack(queue, cmds) = f[Len(cmds)]
<1> DEFINE N == Len(cmds)
           T == Seq(Got)
           Round(f) == [n \in 0..N |-> IF n = 0 THEN queue ELSE v_in_queue_push(f[n - 1], cmds[n])]
           Partly(k, f) == /\ f \in [0..N -> T] /\ f[0] = queue
                           /\ \A n \in 1..N : n <= k => f[n] = v_in_queue_push(f[n - 1], cmds[n])
           K == {k \in Nat : k <= N => \E f : Partly(k, f)}
<1>1. N \in Nat /\ \A n \in 1..N : cmds[n] \in Sent /\ cmds[n] \in Got
  BY LenProperties, SentGot
<1> HIDE DEF N, T
<1>2. 0 \in K
  <2>1. PICK f : f = [n \in 0..N |-> queue]
    OBVIOUS
  <2>2. f \in [0..N -> T] /\ f[0] = queue /\ \A n \in 1..N : ~(n <= 0)
    BY <1>1, <2>1 DEF T
  <2>3. Partly(0, f)
    BY <2>2
  <2> QED BY <2>3
<1>3. ASSUME NEW k \in Nat, k \in K PROVE k + 1 \in K
  <2> SUFFICES ASSUME k + 1 <= N PROVE \E f : Partly(k + 1, f)
    OBVIOUS
  <2>1. PICK f : Partly(k, f)
    BY <1>1, <1>3
  <2>2. PICK v : v = v_in_queue_push(f[k], cmds[k + 1])
    OBVIOUS
  <2>3. k \in 0..N /\ k + 1 \in 0..N /\ k + 1 \in 1..N /\ (k + 1) - 1 = k
    BY <1>1
  <2>4. f[k] \in T /\ cmds[k + 1] \in Got
    BY <1>1, <2>1, <2>3
  <2>5. v \in T
    BY <2>2, <2>4, InQueueType DEF T
  <2>6. PICK g : g = [f EXCEPT ![k + 1] = v]
    OBVIOUS
  <2>7. g \in [0..N -> T] /\ g[k + 1] = v /\ \A n \in 0..N : n # k + 1 => g[n] = f[n]
    BY <2>1, <2>3, <2>5, <2>6
  <2>8. g[0] = queue
    BY <1>1, <2>1, <2>7
  <2>9. ASSUME NEW n \in 1..N, n <= k + 1 PROVE g[n] = v_in_queue_push(g[n - 1], cmds[n])
    <3>1. CASE n = k + 1
      <4>1. g[n] = v /\ g[n - 1] = f[k]
        BY <2>3, <2>7, <3>1
      <4> QED BY <2>2, <3>1, <4>1
    <3>2. CASE n # k + 1
      <4>1. n <= k /\ n - 1 \in 0..N /\ n - 1 # k + 1 /\ n \in 0..N
        BY <1>1, <2>9, <3>2
      <4>2. g[n] = f[n] /\ g[n - 1] = f[n - 1]
        BY <2>7, <3>2, <4>1
      <4> QED BY <2>1, <4>1, <4>2
    <3> QED BY <3>1, <3>2
  <2>10. Partly(k + 1, g)
    BY <2>7, <2>8, <2>9
  <2> QED BY <2>10
<1>4. Nat \subseteq K
  <2> HIDE DEF K
  <2> QED BY <1>2, <1>3, SetInduction
<1>5. PICK f : Partly(N, f)
  <2>1. N \in K
    <3> HIDE DEF K
    <3> QED BY <1>1, <1>4
  <2>2. N <= N
    BY <1>1
  <2> QED BY <2>1, <2>2
<1>6. Unpacked(queue, cmds, f)
  BY <1>1, <1>5 DEF Unpacked, N, T
<1>7. f = [n \in 0..N |-> IF n = 0 THEN queue ELSE v_in_queue_push(f[n - 1], cmds[n])]
  <2>1. \A n \in 0..N : f[n] = IF n = 0 THEN queue ELSE v_in_queue_push(f[n - 1], cmds[n])
    <3>1. \A n \in 0..N : n = 0 \/ (n \in 1..N /\ n <= N)
      BY <1>1
    <3> QED BY <1>5, <3>1
  <2> QED BY <1>5, <2>1
<1> DEFINE unpacked == CHOOSE g : g = [n \in 0..N |-> IF n = 0 THEN queue ELSE v_in_queue_push(g[n - 1], cmds[n])]
<1>8. unpacked = [n \in 0..N |-> IF n = 0 THEN queue ELSE v_in_queue_push(unpacked[n - 1], cmds[n])]
  BY <1>7
<1>9. v_cmd_unpack(queue, cmds) = unpacked[N]
  BY DEF v_cmd_unpack, N
<1> HIDE DEF unpacked
<1>10. \A k \in 0..N : unpacked[k] = f[k]
  <2> DEFINE J == {k \in Nat : k <= N => unpacked[k] = f[k]}
  <2>1. 0 \in J
    BY <1>1, <1>5, <1>8
  <2>2. ASSUME NEW k \in Nat, k \in J PROVE k + 1 \in J
    <3> SUFFICES ASSUME k + 1 <= N PROVE unpacked[k + 1] = f[k + 1]
      OBVIOUS
    <3>1. k + 1 \in 0..N /\ k + 1 # 0 /\ (k + 1) - 1 = k /\ k <= N
      BY <1>1
    <3>2. unpacked[k + 1] = v_in_queue_push(unpacked[k], cmds[k + 1])
      BY <1>8, <3>1
    <3>3. f[k + 1] = v_in_queue_push(f[k], cmds[k + 1])
      BY <1>7, <3>1
    <3>4. unpacked[k] = f[k]
      BY <2>2, <3>1
    <3> QED BY <3>2, <3>3, <3>4
  <2>3. Nat \subseteq J
    <3> HIDE DEF J
    <3> QED BY <2>1, <2>2, SetInduction
  <2> QED BY <1>1, <2>3
<1>11. unpacked[N] = f[N]
  BY <1>1, <1>10
<1> QED BY <1>6, <1>9, <1>11 DEF N

LEMMA UnpackType ==
  ASSUME NEW queue \in Seq(Got), NEW cmds \in Seq(Sent)
  PROVE  v_cmd_unpack(queue, cmds) \in Seq(Got)
<1>1. PICK f : Unpacked(queue, cmds, f) /\ v_cmd_unpack(queue, cmds) = f[Len(cmds)]
  BY UnpackSteps
<1>2. Len(cmds) \in 0..Len(cmds)
  BY LenProperties
<1> QED BY <1>1, <1>2 DEF Unpacked

-----------------------------------------------------------------------------
(* Every step keeps the types and the books.                               *)
Base == Typed /\ Books

LEMMA BaseInit ==
  ASSUME Init
  PROVE  Base
<1>1. workload \in Workloads
  BY DEF Init
<1>2. \A p \in Peers : /\ Progress(workload.program[p], 0, {}) /\ workload.max_size \in Nat
                       /\ QueueSound(v_out_queue_init(workload.max_size), workload.program[p], 0, {})
  BY <1>1, WorkloadFacts, QueueInit
<1>3. v_out_queue_init(workload.max_size) \in QueueType
  <2>1. CLIENT \in Peers
    BY DEF Peers
  <2> QED BY <1>2, <2>1 DEF QueueSound
<1>4. Books
  BY <1>2 DEF Books, Init
<1>5. PackSound(Turned(WAIT)) /\ Turned(WAIT) \in Packs
  BY TurnedSound
<1>6. [host |-> DEFAULT_FPS, peer |-> DEFAULT_FPS, negotiate |-> FALSE] \in Fps
  BY DEF Fps, DEFAULT_FPS
<1>7. /\ pushed \in [Peers -> Nat] /\ accepted \in [Peers -> SUBSET Nat]
      /\ in_queue \in [Peers -> Seq(Got)] /\ applied \in [Peers -> Seq(Got)]
      /\ wire \in [Peers -> Seq(Messages)] /\ state \in [Peers -> States]
  BY DEF Init, States
<1>8. out_queue \in [Peers -> QueueType] /\ fps \in [Peers -> Fps] /\ pack \in [Peers -> Packs]
  BY <1>3, <1>5, <1>6 DEF Init
<1>9. \A p \in Peers : PackSound(pack[p])
  BY <1>5 DEF Init
<1> QED BY <1>1, <1>4, <1>7, <1>8, <1>9 DEF Base, Typed

(* Only the pack record of p changes, to a sound one.                      *)
LEMMA PackKeeps ==
  ASSUME Base, NEW p \in Peers, NEW k, PackSound(k), pack' = [pack EXCEPT ![p] = k],
         UNCHANGED <<workload, pushed, accepted, out_queue>>,
         in_queue' \in [Peers -> Seq(Got)], applied' \in [Peers -> Seq(Got)], fps' \in [Peers -> Fps],
         wire' \in [Peers -> Seq(Messages)], state' \in [Peers -> States]
  PROVE  Base'
<1>1. pack' \in [Peers -> Packs] /\ \A x \in Peers : PackSound(pack'[x])
  BY DEF Base, Typed, PackSound
<1>2. Books'
  BY DEF Base, Books
<1> QED BY <1>1, <1>2 DEF Base, Typed

LEMMA PushKeeps ==
  ASSUME Base, NEW p \in Peers, PushCmd(p)
  PROVE  /\ Base' /\ pushed[p] + 1 \in DOMAIN workload.program[p] /\ pushed' = [pushed EXCEPT ![p] = pushed[p] + 1]
         /\ \/ /\ accepted' = [accepted EXCEPT ![p] = accepted[p] \union {pushed[p] + 1}]
               /\ Pushes(AllOf(out_queue[p].queues), AllOf(out_queue'[p].queues), pushed[p] + 1,
                         workload.program[p][pushed[p] + 1].key)
            \/ accepted' = accepted /\ out_queue' = out_queue
<1>1. PICK n, prog, q, acc : n = pushed[p] /\ prog = workload.program[p] /\ q = out_queue[p] /\ acc = accepted[p]
  OBVIOUS
<1>2. /\ workload \in Workloads /\ pushed \in [Peers -> Nat] /\ accepted \in [Peers -> SUBSET Nat]
      /\ out_queue \in [Peers -> QueueType]
  BY DEF Base, Typed
<1>3. n \in Nat /\ n < Len(prog) /\ DOMAIN prog = 1..Len(prog) /\ Len(prog) \in Nat
  BY <1>1, <1>2, WorkloadFacts DEF PushCmd
<1>4. n + 1 \in DOMAIN prog
  BY <1>3
<1>5. PICK e, prio : e = NewEntry(prog, n + 1) /\ prio = prog[n + 1].prio
  OBVIOUS
<1>6. PICK res, limits : res = v_out_queue_push_tail(q, limits, prio, e) /\ limits = (p = CLIENT)
  OBVIOUS
<1>7. /\ pushed' = [pushed EXCEPT ![p] = n + 1] /\ out_queue' = [out_queue EXCEPT ![p] = res.queue]
      /\ accepted' = [accepted EXCEPT ![p] = IF res.ret THEN acc \union {n + 1} ELSE acc]
      /\ UNCHANGED <<workload, in_queue, applied, fps, pack, wire, state>>
  BY <1>1, <1>5, <1>6 DEF PushCmd, NewEntry
<1>8. Progress(prog, n, acc) /\ QueueSound(q, prog, n, acc)
  BY <1>1 DEF Base, Books
<1>9. /\ res.ret \in BOOLEAN
      /\ res.ret  => /\ QueueSound(res.queue, prog, n + 1, acc \union {n + 1})
                     /\ Pushes(AllOf(q.queues), AllOf(res.queue.queues), n + 1, prog[n + 1].key)
      /\ ~res.ret => res.queue = q
  <2>1. PushResult(q, prog, n, acc, res)
    BY <1>4, <1>5, <1>6, <1>8, QueuePushed
  <2> QED BY <2>1 DEF PushResult
<1>10. PICK bcc : bcc = IF res.ret THEN acc \union {n + 1} ELSE acc
  OBVIOUS
<1>11. Progress(prog, n + 1, bcc) /\ QueueSound(res.queue, prog, n + 1, bcc)
  <2>1. CASE res.ret
    BY <1>4, <1>8, <1>9, <1>10, <2>1, ProgressAccepts
  <2>2. CASE ~res.ret
    BY <1>4, <1>8, <1>9, <1>10, <2>2, QueueRefused
  <2> QED BY <2>1, <2>2
<1>12. res.queue \in QueueType /\ bcc \in SUBSET Nat /\ n + 1 \in Nat
  <2>1. bcc \subseteq 1..(n + 1)
    BY <1>11 DEF Progress
  <2> QED BY <1>3, <1>11, <2>1 DEF QueueSound
<1>13. accepted' = [accepted EXCEPT ![p] = bcc]
  BY <1>7, <1>10
<1>14. /\ pushed' \in [Peers -> Nat] /\ accepted' \in [Peers -> SUBSET Nat] /\ out_queue' \in [Peers -> QueueType]
       /\ pushed'[p] = n + 1 /\ accepted'[p] = bcc /\ out_queue'[p] = res.queue
       /\ \A x \in Peers : x # p => pushed'[x] = pushed[x] /\ accepted'[x] = accepted[x] /\ out_queue'[x] = out_queue[x]
  BY <1>2, <1>7, <1>12, <1>13
<1>15. Typed'
  BY <1>7, <1>14 DEF Base, Typed
<1>16. Books'
  <2> SUFFICES ASSUME NEW x \in Peers
               PROVE  /\ Progress(workload.program[x], pushed'[x], accepted'[x])
                      /\ QueueSound(out_queue'[x], workload.program[x], pushed'[x], accepted'[x])
    BY <1>7 DEF Books
  <2>1. CASE x = p
    BY <1>1, <1>11, <1>14, <2>1
  <2>2. CASE x # p
    BY <1>14, <2>2 DEF Base, Books
  <2> QED BY <2>1, <2>2
<1>17. CASE res.ret
  BY <1>1, <1>4, <1>7, <1>9, <1>14, <1>15, <1>16, <1>17 DEF Base
<1>18. CASE ~res.ret
  <2>1. accepted' = accepted /\ out_queue' = out_queue
    BY <1>1, <1>2, <1>7, <1>9, <1>18
  <2> QED BY <1>1, <1>4, <1>7, <1>15, <1>16, <2>1 DEF Base
<1> QED BY <1>9, <1>17, <1>18

LEMMA TakeKeeps ==
  ASSUME Base, NEW p \in Peers, TakeCmd(p)
  PROVE  Base'
<1>1. in_queue \in [Peers -> Seq(Got)] /\ applied \in [Peers -> Seq(Got)]
  BY DEF Base, Typed
<1>2. in_queue[p] \in Seq(Got) /\ in_queue[p] # <<>>
  BY <1>1 DEF TakeCmd
<1>3. Head(in_queue[p]) \in Got /\ Tail(in_queue[p]) \in Seq(Got)
  BY <1>2, HeadTailProperties
<1>4. Append(applied[p], Head(in_queue[p])) \in Seq(Got)
  BY <1>1, <1>3, AppendProperties
<1>5. in_queue' \in [Peers -> Seq(Got)] /\ applied' \in [Peers -> Seq(Got)]
  BY <1>1, <1>3, <1>4 DEF TakeCmd
<1>6. UNCHANGED <<workload, pushed, accepted, out_queue, fps, pack, wire, state>>
  BY DEF TakeCmd
<1>7. Typed'
  BY <1>5, <1>6 DEF Base, Typed
<1>8. Books'
  BY <1>6 DEF Base, Books
<1> QED BY <1>7, <1>8 DEF Base

LEMMA NegotiateType ==
  ASSUME NEW f \in Fps
  PROVE  NegotiateFps(f) \in SysCmds
BY DEF NegotiateFps, Fps, SysCmds, NoSys

LEMMA PackStartKeeps ==
  ASSUME Base, NEW p \in Peers, NEW swin \in workload.windows, PackStart(p, swin)
  PROVE  /\ Base' /\ pack'[p].cmds = <<>> /\ pack'[p].sys = NegotiateFps(fps[p])
         /\ \A x \in Peers : x # p => pack'[x] = pack[x]
<1>1. PICK q, f, y : q = out_queue[p] /\ f = fps[p] /\ y = NegotiateFps(f)
  OBVIOUS
<1>2. q \in QueueType /\ f \in Fps /\ pack \in [Peers -> Packs] /\ workload \in Workloads
      /\ fps \in [Peers -> Fps] /\ in_queue \in [Peers -> Seq(Got)] /\ applied \in [Peers -> Seq(Got)]
      /\ wire \in [Peers -> Seq(Messages)] /\ state \in [Peers -> States]
  BY <1>1 DEF Base, Typed
<1>3. y \in SysCmds
  BY <1>1, <1>2, NegotiateType
<1>4. PICK pos \in Int : pos = HEADER_SIZE + (IF y = NoSys THEN 0 ELSE NEGOTIATE_SIZE)
  BY DEF HEADER_SIZE, NEGOTIATE_SIZE
<1>5. PICK a \in Prios, b \in Prios, c \in Int, d \in Int : a = q.max_prio /\ b = q.min_prio /\ c = q.sum_high /\ d = q.sum_low
  BY <1>2 DEF QueueType
<1>6. PICK t : t = Turned(PRIO)
  OBVIOUS
<1>7. PICK k : k = [t EXCEPT !.sys = y, !.prio = a, !.min = b, !.high = c, !.low = d, !.swin = swin, !.pos = pos]
  OBVIOUS
<1>8. a \in Int /\ b \in Int /\ swin \in Int /\ PRIO \in Phases /\ <<>> \in Seq(Sent)
  <2>1. swin \in Nat
    BY <1>2, WorkloadFacts
  <2> QED BY <2>1, PrioType DEF Phases
<1>9. k \in Packs /\ k.phase = PRIO /\ k.prio = a /\ k.min = b /\ k.cmds = <<>> /\ k.sys = y
  <2>1. t \in Packs /\ t.phase = PRIO /\ t.cmds = <<>>
    BY <1>6, <1>8, TurnedType
  <2> QED BY <1>3, <1>7, <1>8, <2>1 DEF Packs
<1>10. PackSound(k)
  BY <1>9 DEF PackSound, WAIT, TURN, PRIO, POP
<1>11. fps' \in [Peers -> Fps]
  <2>1. PICK g : g = [f EXCEPT !.negotiate = f.negotiate /\ y.cmd # "CONFIRM_L"]
    OBVIOUS
  <2>2. g \in Fps
    BY <1>2, <2>1 DEF Fps
  <2>3. fps' = [fps EXCEPT ![p] = g]
    BY <1>1, <1>2, <2>1 DEF PackStart
  <2> QED BY <1>2, <2>2, <2>3
<1>12. UNCHANGED <<workload, pushed, accepted, out_queue, in_queue, applied, wire, state>>
  BY DEF PackStart
<1>13. pack' = [pack EXCEPT ![p] = k]
  BY <1>1, <1>4, <1>5, <1>6, <1>7 DEF PackStart
<1>14. Base'
  BY <1>2, <1>13, <1>10, <1>11, <1>12, PackKeeps
<1> QED BY <1>1, <1>2, <1>9, <1>13, <1>14

LEMMA BelowType ==
  ASSUME NEW prio \in Prios
  PROVE  Below(prio) \in Prios \union {-1} /\ Below(prio) \in Int
<1> DEFINE below == {x \in Prios : x < prio}
<1>1. below \subseteq Prios
  OBVIOUS
<1>2. below # {} => \E x \in below : \A y \in below : y <= x
  <2> HIDE DEF below
  <2> QED BY <1>1, GreatestPrio
<1>3. Below(prio) \in Prios \union {-1}
  BY <1>2 DEF Below
<1>4. \A x \in Prios : x \in Int
  BY PrioType
<1> QED BY <1>3, <1>4

LEMMA PrioWinType ==
  ASSUME NEW k \in Packs, k.prio \in Prios, NEW win \in PrioWin(k)
  PROVE  win \in Int
<1>1. PICK sum \in Int : sum = IF k.prio >= VRS_DEFAULT_PRIORITY THEN k.high ELSE k.low
  BY DEF Packs
<1>2. PICK x \in Int : x = (k.swin - k.pos) * RPrio[k.prio]
  <2>1. PICK a \in Int, b \in Int : a = k.swin - k.pos /\ b = RPrio[k.prio]
    <3>1. k.swin \in Int /\ k.pos \in Int /\ RPrio[k.prio] \in Nat
      BY PrioType DEF Packs
    <3> QED BY <3>1
  <2>2. a * b \in Int
    OBVIOUS
  <2> QED BY <2>1, <2>2
<1>3. PrioWin(k) = IF sum > 0 /\ k.swin >= k.pos /\ x <= MaxWin * sum THEN {x \div sum} ELSE {0, MaxWin}
  BY <1>1, <1>2 DEF PrioWin
<1>4. CASE sum > 0 /\ k.swin >= k.pos /\ x <= MaxWin * sum
  <2>1. win = x \div sum
    BY <1>3, <1>4
  <2>2. x \div sum \in Int
    BY <1>4
  <2> QED BY <2>1, <2>2
<1>5. CASE ~(sum > 0 /\ k.swin >= k.pos /\ x <= MaxWin * sum)
  <2>1. win \in {0, MaxWin}
    BY <1>3, <1>5
  <2> QED BY <2>1 DEF MaxWin
<1> QED BY <1>4, <1>5

LEMMA PackPrioKeeps ==
  ASSUME Base, NEW p \in Peers, PackPrio(p)
  PROVE  /\ Base' /\ pack'[p].cmds = pack[p].cmds /\ pack'[p].sys = pack[p].sys /\ pack'[p].phase \in {PRIO, POP}
         /\ \A x \in Peers : x # p => pack'[x] = pack[x]
<1>1. PICK k : k = pack[p]
  OBVIOUS
<1>2. /\ k \in Packs /\ k.phase = PRIO /\ k.prio \in Prios \union {-1} /\ k.min \in Prios /\ k.prio >= k.min
      /\ pack \in [Peers -> Packs]
  BY <1>1 DEF Base, Typed, PackSound, PackPrio
<1>3. k.prio \in Prios
  <2>1. k.min \in Nat
    BY <1>2, PrioType
  <2>2. k.prio # -1
    BY <1>2, <2>1
  <2> QED BY <1>2, <2>2
<1>4. UNCHANGED <<workload, pushed, accepted, out_queue, in_queue, applied, fps, wire, state>>
  BY DEF PackPrio
<1>5. PICK count : count = out_queue[p].counts[k.prio]
  OBVIOUS
<1>6. count \in Int
  <2>1. out_queue[p] \in QueueType
    BY DEF Base, Typed
  <2>2. out_queue[p].counts \in [Prios -> Int]
    BY <2>1, SMTT(30) DEF QueueType
  <2> QED BY <1>3, <1>5, <2>2
<1>7. PICK l : /\ pack' = [pack EXCEPT ![p] = l] /\ PackSound(l)
               /\ l.cmds = k.cmds /\ l.sys = k.sys /\ l.phase \in {PRIO, POP}
  <2>1. CASE pack' = [pack EXCEPT ![p].prio = Below(@)]
    <3>1. PICK b : b = Below(k.prio)
      OBVIOUS
    <3>2. b \in Prios \union {-1} /\ b \in Int
      BY <1>3, <3>1, BelowType
    <3>3. PICK l : l = [k EXCEPT !.prio = b]
      OBVIOUS
    <3>4. /\ l \in Packs /\ l.prio = b /\ l.phase = PRIO /\ l.min = k.min /\ l.cmds = k.cmds /\ l.sys = k.sys
      BY <1>2, <3>2, <3>3 DEF Packs
    <3>5. PackSound(l)
      BY <1>2, <3>2, <3>4 DEF PackSound, WAIT, TURN, PRIO, POP
    <3>6. pack' = [pack EXCEPT ![p] = l]
      BY <1>1, <1>2, <2>1, <3>1, <3>3
    <3> QED BY <3>4, <3>5, <3>6
  <2>2. ASSUME NEW win \in PrioWin(k),
               pack' = [pack EXCEPT ![p] = [k EXCEPT !.phase = POP, !.win = win, !.sent = 0, !.left = count]]
        PROVE  \E l : /\ pack' = [pack EXCEPT ![p] = l] /\ PackSound(l)
                      /\ l.cmds = k.cmds /\ l.sys = k.sys /\ l.phase \in {PRIO, POP}
    <3>1. win \in Int
      BY <1>2, <1>3, <2>2, PrioWinType
    <3>2. PICK l : l = [k EXCEPT !.phase = POP, !.win = win, !.sent = 0, !.left = count]
      OBVIOUS
    <3>3. POP \in Phases
      BY DEF Phases
    <3>4. l \in Packs /\ l.phase = POP /\ l.prio = k.prio /\ l.min = k.min /\ l.cmds = k.cmds /\ l.sys = k.sys
      <4>1. PICK t : t = [k EXCEPT !.phase = POP, !.win = win]
        OBVIOUS
      <4>2. t \in Packs /\ t.phase = POP /\ t.prio = k.prio /\ t.min = k.min /\ t.cmds = k.cmds /\ t.sys = k.sys
        BY <1>2, <3>1, <3>3, <4>1 DEF Packs
      <4>3. l = [t EXCEPT !.sent = 0, !.left = count]
        BY <1>2, <3>2, <4>1 DEF Packs
      <4>4. PICK z \in Int : z = 0
        OBVIOUS
      <4>5. PICK u : u = [t EXCEPT !.sent = z]
        OBVIOUS
      <4>6. u \in Packs /\ u.phase = POP /\ u.prio = k.prio /\ u.min = k.min /\ u.cmds = k.cmds /\ u.sys = k.sys
        BY <4>2, <4>5 DEF Packs
      <4>7. l = [u EXCEPT !.left = count]
        BY <4>2, <4>3, <4>4, <4>5 DEF Packs
      <4> QED BY <1>6, <4>6, <4>7 DEF Packs
    <3>5. PackSound(l)
      BY <1>2, <1>3, <3>4 DEF PackSound, WAIT, TURN, PRIO, POP
    <3> QED BY <2>2, <3>2, <3>4, <3>5
  <2> QED BY <1>1, <1>5, <2>1, <2>2 DEF PackPrio
<1>8. Base'
  <2>1. /\ in_queue' \in [Peers -> Seq(Got)] /\ applied' \in [Peers -> Seq(Got)] /\ fps' \in [Peers -> Fps]
        /\ wire' \in [Peers -> Seq(Messages)] /\ state' \in [Peers -> States]
    BY <1>4 DEF Base, Typed
  <2> QED BY <1>4, <1>7, <2>1, PackKeeps
<1> QED BY <1>1, <1>2, <1>7, <1>8

LEMMA PackBreakKeeps ==
  ASSUME Base, NEW p \in Peers, PackBreak(p)
  PROVE  /\ Base' /\ pack'[p].cmds = pack[p].cmds /\ pack'[p].sys = pack[p].sys /\ pack'[p].phase = PRIO
         /\ \A x \in Peers : x # p => pack'[x] = pack[x]
<1>1. PICK k : k = pack[p]
  OBVIOUS
<1>2. k \in Packs /\ k.phase = POP /\ k.prio \in Prios /\ k.min \in Prios /\ pack \in [Peers -> Packs]
  BY <1>1 DEF Base, Typed, PackSound, PackBreak
<1>3. UNCHANGED <<workload, pushed, accepted, out_queue, in_queue, applied, fps, wire, state>>
  BY DEF PackBreak
<1>4. PICK b : b = Below(k.prio)
  OBVIOUS
<1>5. b \in Prios \union {-1} /\ b \in Int
  BY <1>2, <1>4, BelowType
<1>6. PICK l : l = [k EXCEPT !.phase = PRIO, !.prio = b]
  OBVIOUS
<1>7. l \in Packs /\ l.phase = PRIO /\ l.prio = b /\ l.min = k.min /\ l.cmds = k.cmds /\ l.sys = k.sys
  <2>1. PRIO \in Phases
    BY DEF Phases
  <2> QED BY <1>2, <1>5, <1>6, <2>1 DEF Packs
<1>8. PackSound(l)
  BY <1>2, <1>5, <1>7 DEF PackSound, WAIT, TURN, PRIO, POP
<1>9. pack' = [pack EXCEPT ![p] = l]
  BY <1>1, <1>2, <1>4, <1>6 DEF PackBreak
<1>10. Base'
  <2>1. /\ in_queue' \in [Peers -> Seq(Got)] /\ applied' \in [Peers -> Seq(Got)] /\ fps' \in [Peers -> Fps]
        /\ wire' \in [Peers -> Seq(Messages)] /\ state' \in [Peers -> States]
    BY <1>3 DEF Base, Typed
  <2> QED BY <1>3, <1>8, <1>9, <2>1, PackKeeps
<1> QED BY <1>1, <1>2, <1>7, <1>9, <1>10

(* The turns that end: nothing to send, a message written, and one that    *)
(* could not be written.                                                   *)
LEMMA PackNothingKeeps ==
  ASSUME Base, NEW p \in Peers, PackNothing(p)
  PROVE  Base' /\ pack'[p] = Turned(WAIT) /\ \A x \in Peers : x # p => pack'[x] = pack[x]
<1>1. PackSound(Turned(WAIT)) /\ Turned(WAIT) \in Packs
  BY TurnedSound
<1>2. UNCHANGED <<workload, pushed, accepted, out_queue, in_queue, applied, fps, wire, state>>
      /\ pack' = [pack EXCEPT ![p] = Turned(WAIT)] /\ pack \in [Peers -> Packs]
  BY DEF PackNothing, Base, Typed
<1>3. /\ in_queue' \in [Peers -> Seq(Got)] /\ applied' \in [Peers -> Seq(Got)] /\ fps' \in [Peers -> Fps]
      /\ wire' \in [Peers -> Seq(Messages)] /\ state' \in [Peers -> States]
  BY <1>2 DEF Base, Typed
<1>4. Base'
  BY <1>1, <1>2, <1>3, PackKeeps
<1> QED BY <1>2, <1>4

LEMMA WriteMessageKeeps ==
  ASSUME Base, NEW p \in Peers, WriteMessage(p)
  PROVE  Base' /\ pack'[p] = Turned(WAIT) /\ \A x \in Peers : x # p => pack'[x] = pack[x]
<1>1. PackSound(Turned(WAIT)) /\ Turned(WAIT) \in Packs
  BY TurnedSound
<1>2. UNCHANGED <<workload, pushed, accepted, out_queue, in_queue, applied, fps, state>>
      /\ pack' = [pack EXCEPT ![p] = Turned(WAIT)] /\ pack \in [Peers -> Packs]
  BY DEF WriteMessage, Base, Typed
<1>3. /\ in_queue' \in [Peers -> Seq(Got)] /\ applied' \in [Peers -> Seq(Got)] /\ fps' \in [Peers -> Fps]
      /\ state' \in [Peers -> States]
  BY <1>2 DEF Base, Typed
<1>4. wire' \in [Peers -> Seq(Messages)]
  <2>1. PICK m : m = [sys |-> pack[p].sys, cmds |-> pack[p].cmds]
    OBVIOUS
  <2>2. m \in Messages
    <3>1. pack[p] \in Packs
      BY <1>2
    <3>2. pack[p].sys \in SysCmds /\ pack[p].cmds \in Seq(Sent)
      BY <3>1 DEF Packs
    <3> QED BY <2>1, <3>2 DEF Messages
  <2>3. wire \in [Peers -> Seq(Messages)] /\ Peer(p) \in Peers
    BY PeerFacts DEF Base, Typed
  <2>4. Append(wire[Peer(p)], m) \in Seq(Messages)
    BY <2>2, <2>3, AppendProperties
  <2>5. wire' = [wire EXCEPT ![Peer(p)] = IF state[Peer(p)] = OPEN THEN Append(wire[Peer(p)], m) ELSE wire[Peer(p)]]
    BY <2>1 DEF WriteMessage
  <2> QED BY <2>3, <2>4, <2>5
<1>5. Base'
  BY <1>1, <1>2, <1>3, <1>4, PackKeeps
<1> QED BY <1>2, <1>5

LEMMA WriteFailsKeeps ==
  ASSUME Base, NEW p \in Peers, WriteFails(p)
  PROVE  Base' /\ pack'[p] = Turned(WAIT) /\ \A x \in Peers : x # p => pack'[x] = pack[x]
<1>1. PackSound(Turned(WAIT)) /\ Turned(WAIT) \in Packs
  BY TurnedSound
<1>2. UNCHANGED <<workload, pushed, accepted, out_queue, in_queue, applied, fps, wire>>
      /\ pack' = [pack EXCEPT ![p] = Turned(WAIT)] /\ pack \in [Peers -> Packs]
      /\ state' = [state EXCEPT ![p] = FAILED]
  BY DEF WriteFails, Base, Typed
<1>3. /\ in_queue' \in [Peers -> Seq(Got)] /\ applied' \in [Peers -> Seq(Got)] /\ fps' \in [Peers -> Fps]
      /\ wire' \in [Peers -> Seq(Messages)]
  BY <1>2 DEF Base, Typed
<1>4. state' \in [Peers -> States]
  BY <1>2 DEF Base, Typed, States
<1>5. Base'
  BY <1>1, <1>2, <1>3, <1>4, PackKeeps
<1> QED BY <1>2, <1>5

LEMMA HandledFpsType ==
  ASSUME NEW f \in Fps, NEW y \in SysCmds
  PROVE  /\ HandledFps(f, y) \in Fps
         /\ y.cmd = "CHANGE_L" => /\ HandledFps(f, y).host = y.value /\ HandledFps(f, y).peer = y.value
                                  /\ HandledFps(f, y).negotiate = TRUE
         /\ y.cmd = "CONFIRM_L" => /\ HandledFps(f, y).host = f.host /\ HandledFps(f, y).peer = y.value
                                   /\ HandledFps(f, y).negotiate = f.negotiate
         /\ y.cmd = "NONE" => HandledFps(f, y) = f
<1>1. y.value \in Nat /\ y.cmd \in {"NONE", "CHANGE_L", "CONFIRM_L"}
  BY DEF SysCmds
<1>2. CASE y.cmd = "CHANGE_L"
  <2>1. HandledFps(f, y) = [host |-> y.value, peer |-> y.value, negotiate |-> TRUE]
    BY <1>2 DEF HandledFps
  <2> QED BY <1>1, <1>2, <2>1 DEF Fps
<1>3. CASE y.cmd = "CONFIRM_L"
  <2>1. HandledFps(f, y) = [f EXCEPT !.peer = y.value]
    BY <1>3 DEF HandledFps
  <2> QED BY <1>1, <1>3, <2>1 DEF Fps
<1>4. CASE y.cmd = "NONE"
  <2>1. HandledFps(f, y) = f
    BY <1>4 DEF HandledFps
  <2> QED BY <1>4, <2>1
<1> QED BY <1>1, <1>2, <1>3, <1>4

LEMMA HandleKeeps ==
  ASSUME Base, NEW p \in Peers, v_STREAM_handle_messages(p)
  PROVE  Base' /\ pack'[p] = Turned(TURN) /\ \A x \in Peers : x # p => pack'[x] = pack[x]
<1>1. PackSound(Turned(TURN)) /\ Turned(TURN) \in Packs
  BY TurnedSound
<1>2. UNCHANGED <<workload, pushed, accepted, out_queue, applied, state>>
      /\ pack' = [pack EXCEPT ![p] = Turned(TURN)] /\ pack \in [Peers -> Packs]
  BY DEF v_STREAM_handle_messages, Base, Typed
<1>3. /\ applied' \in [Peers -> Seq(Got)] /\ state' \in [Peers -> States]
  BY <1>2 DEF Base, Typed
<1>4. /\ wire \in [Peers -> Seq(Messages)] /\ wire[p] \in Seq(Messages) /\ wire[p] # <<>>
      /\ fps \in [Peers -> Fps] /\ in_queue \in [Peers -> Seq(Got)]
  BY DEF Base, Typed, v_STREAM_handle_messages
<1>5. PICK m : m = Head(wire[p])
  OBVIOUS
<1>6. m \in Messages /\ Tail(wire[p]) \in Seq(Messages)
  BY <1>4, <1>5, HeadTailProperties
<1>7. m.sys \in SysCmds /\ m.cmds \in Seq(Sent)
  BY <1>6 DEF Messages
<1>8. HandledFps(fps[p], m.sys) \in Fps /\ v_cmd_unpack(in_queue[p], m.cmds) \in Seq(Got)
  BY <1>4, <1>7, HandledFpsType, UnpackType
<1>9. /\ fps' = [fps EXCEPT ![p] = HandledFps(fps[p], m.sys)]
      /\ in_queue' = [in_queue EXCEPT ![p] = v_cmd_unpack(in_queue[p], m.cmds)]
      /\ wire' = [wire EXCEPT ![p] = Tail(wire[p])]
  BY <1>5 DEF v_STREAM_handle_messages
<1>10. fps' \in [Peers -> Fps] /\ in_queue' \in [Peers -> Seq(Got)] /\ wire' \in [Peers -> Seq(Messages)]
  BY <1>4, <1>6, <1>8, <1>9
<1>11. Base'
  BY <1>1, <1>2, <1>3, <1>10, PackKeeps
<1> QED BY <1>2, <1>11

LEMMA ReadEndKeeps ==
  ASSUME Base, NEW p \in Peers, ReadEnd(p)
  PROVE  Base'
<1>1. UNCHANGED <<workload, pushed, accepted, out_queue, in_queue, applied, fps, pack, wire>>
      /\ state' = [state EXCEPT ![p] = CLOSING]
  BY DEF ReadEnd
<1>2. state' \in [Peers -> States]
  BY <1>1 DEF Base, Typed, States
<1>3. Typed' /\ Books'
  BY <1>1, <1>2 DEF Base, Typed, Books
<1> QED BY <1>3 DEF Base

LEMMA AcksType ==
  ASSUME NEW p \in Peers, NEW e \in Entries, in_queue \in [Peers -> Seq(Got)]
  PROVE  /\ Acks(p, e) \in [Peers -> Seq(Got)]
         /\ \A x \in Peers : x # p => Acks(p, e)[x] = in_queue[x]
         /\ e.key # CREATE => Acks(p, e) = in_queue
         /\ e.key = CREATE => Acks(p, e)[p] = Append(in_queue[p], [key |-> ACK, ver |-> e.ver])
<1>1. CASE e.key = CREATE
  <2>1. PICK a : a = [key |-> ACK, ver |-> e.ver]
    OBVIOUS
  <2>2. a \in Got /\ a.key = ACK
    <3>1. e.ver \in Ids
      BY EntryType DEF Entries
    <3> QED BY <2>1, <3>1 DEF Got
  <2>3. v_in_queue_push(in_queue[p], a) = Append(in_queue[p], a)
    BY <2>2 DEF v_in_queue_push
  <2>4. Acks(p, e) = [in_queue EXCEPT ![p] = Append(in_queue[p], a)]
    BY <1>1, <2>1, <2>3 DEF Acks
  <2>5. Append(in_queue[p], a) \in Seq(Got)
    BY <2>2, AppendProperties
  <2> QED BY <1>1, <2>1, <2>4, <2>5
<1>2. CASE e.key # CREATE
  <2>1. Acks(p, e) = in_queue
    BY <1>2 DEF Acks
  <2> QED BY <1>2, <2>1
<1> QED BY <1>1, <1>2

(* What a step of packing does to the commands of the message.             *)
Packing(l, k, e) ==
  /\ l.phase = POP /\ l.sys = k.sys
  /\ IsFake(e)  => l.cmds = k.cmds
  /\ ~IsFake(e) => l.cmds = Append(k.cmds, [key |-> e.key, ver |-> e.ver])

PackedPop(k, e) ==
  IF IsFake(e) THEN [k EXCEPT !.left = @ - 1]
  ELSE [k EXCEPT !.left = @ - 1, !.cmds = Append(@, [key |-> e.key, ver |-> e.ver]),
                 !.sent = @ + Cmd[e.key].size, !.pos = @ + Cmd[e.key].size]

LEMMA PackedPopType ==
  ASSUME NEW k \in Packs, NEW e \in Entries, k.phase = POP, k.prio \in Prios, k.min \in Prios
  PROVE  PackSound(PackedPop(k, e)) /\ Packing(PackedPop(k, e), k, e)
<1>1. PICK l : l = PackedPop(k, e)
  OBVIOUS
<1>2. PICK left \in Int : left = k.left - 1
  <2>1. k.left \in Int
    BY DEF Packs
  <2> QED BY <2>1
<1>3. CASE IsFake(e)
  <2>1. l = [k EXCEPT !.left = left]
    BY <1>1, <1>2, <1>3 DEF PackedPop
  <2>2. l \in Packs /\ l.phase = POP /\ l.prio = k.prio /\ l.min = k.min /\ l.cmds = k.cmds /\ l.sys = k.sys
    BY <2>1 DEF Packs
  <2> QED BY <1>1, <1>3, <2>2 DEF PackSound, Packing, WAIT, TURN, PRIO, POP
<1>4. CASE ~IsFake(e)
  <2>1. PICK c : c = Append(k.cmds, [key |-> e.key, ver |-> e.ver])
    OBVIOUS
  <2>2. c \in Seq(Sent)
    <3>1. e.key \in Keys /\ e.ver \in Ids
      BY DEF Entries
    <3>2. PICK s : s = [key |-> e.key, ver |-> e.ver]
      OBVIOUS
    <3>3. s \in Sent /\ k.cmds \in Seq(Sent)
      BY <3>1, <3>2 DEF Sent, Packs
    <3> QED BY <2>1, <3>2, <3>3, AppendProperties
  <2>3. PICK a \in Int, b \in Int : a = k.sent + Cmd[e.key].size /\ b = k.pos + Cmd[e.key].size
    <3>1. Cmd[e.key].size \in Nat /\ k.sent \in Int /\ k.pos \in Int
      BY OutQueueAssumption DEF Packs, Entries
    <3> QED BY <3>1
  <2>4. PICK t : t = [k EXCEPT !.left = left, !.cmds = c]
    OBVIOUS
  <2>5. t \in Packs /\ t.phase = POP /\ t.prio = k.prio /\ t.min = k.min /\ t.cmds = c /\ t.sys = k.sys
    BY <2>2, <2>4 DEF Packs
  <2>6. PICK u : u = [t EXCEPT !.sent = a]
    OBVIOUS
  <2>7. u \in Packs /\ u.phase = POP /\ u.prio = k.prio /\ u.min = k.min /\ u.cmds = c /\ u.sys = k.sys
    BY <2>5, <2>6 DEF Packs
  <2>8. l = [k EXCEPT !.left = left, !.cmds = c, !.sent = a, !.pos = b]
    BY <1>1, <1>2, <1>4, <2>1, <2>3 DEF PackedPop
  <2>9. l = [u EXCEPT !.pos = b]
    BY <2>4, <2>6, <2>8 DEF Packs
  <2>10. l \in Packs /\ l.phase = POP /\ l.prio = k.prio /\ l.min = k.min /\ l.cmds = c /\ l.sys = k.sys
    BY <2>7, <2>9 DEF Packs
  <2> QED BY <1>1, <1>4, <2>1, <2>10 DEF PackSound, Packing, WAIT, TURN, PRIO, POP
<1> QED BY <1>3, <1>4

(* What popping a command does: the command e leaves the queue of p and is *)
(* handled, or packed.                                                     *)
PopsOne(p, e) ==
  /\ e \in Entries /\ e.ver \in accepted[p] /\ e.ver \in DOMAIN workload.program[p]
  /\ workload.program[p][e.ver].key = e.key /\ (~Cmd[e.key].dups => e.id = e.ver)
  /\ Pops(AllOf(out_queue[p].queues), AllOf(out_queue'[p].queues), workload.program[p],
          workload.program[p][e.ver].prio, e)
  /\ \A x \in Peers : x # p => out_queue'[x] = out_queue[x]
  /\ Packing(pack'[p], pack[p], e) /\ \A x \in Peers : x # p => pack'[x] = pack[x]
  /\ state' = [state EXCEPT ![p] = IF e.key = TERMINATE THEN CLOSING ELSE @]
  /\ fps'   = [fps EXCEPT ![p].host = IF e.key = FPS THEN e.ver ELSE @]
  /\ in_queue' = Acks(p, e)
  /\ UNCHANGED <<workload, pushed, accepted, applied, wire>>

LEMMA PackPopKeeps ==
  ASSUME Base, NEW p \in Peers, PackPop(p)
  PROVE  Base' /\ \E e : PopsOne(p, e)
<1>1. PICK k, q, prog, n, acc : /\ k = pack[p] /\ q = out_queue[p] /\ prog = workload.program[p]
                                /\ n = pushed[p] /\ acc = accepted[p]
  OBVIOUS
<1>2. PICK prio : prio = k.prio
  OBVIOUS
<1>3. PICK e : e = Head(q.queues[prio])
  OBVIOUS
<1>4. /\ k \in Packs /\ k.phase = POP /\ prio \in Prios /\ k.min \in Prios /\ pack \in [Peers -> Packs]
      /\ workload \in Workloads /\ pushed \in [Peers -> Nat] /\ accepted \in [Peers -> SUBSET Nat]
      /\ out_queue \in [Peers -> QueueType] /\ in_queue \in [Peers -> Seq(Got)] /\ applied \in [Peers -> Seq(Got)]
      /\ fps \in [Peers -> Fps] /\ wire \in [Peers -> Seq(Messages)] /\ state \in [Peers -> States]
  BY <1>1, <1>2 DEF Base, Typed, PackSound, PackPop
<1>5. q.queues[prio] # <<>>
  BY <1>1, <1>2 DEF PackPop, CanPack, CanPop
<1>6. e = Popped(p)
  BY <1>1, <1>2, <1>3 DEF Popped
<1>7. PICK r : r = v_out_queue_pop(q, prio)
  OBVIOUS
<1>8. Progress(prog, n, acc) /\ QueueSound(q, prog, n, acc)
  BY <1>1 DEF Base, Books
<1>9. /\ QueueSound(r, prog, n, acc) /\ Pops(AllOf(q.queues), AllOf(r.queues), prog, prio, e)
      /\ prog[e.ver].prio = prio
  BY <1>3, <1>4, <1>5, <1>7, <1>8, QueuePopped, SMTT(30)
<1>10. /\ e \in Entries /\ e.ver \in acc /\ e.ver \in DOMAIN prog /\ prog[e.ver].key = e.key
       /\ (~Cmd[e.key].dups => e.id = e.ver) /\ e.ver \in Nat
  <2>1. e \in AllOf(q.queues)
    BY <1>9 DEF Pops
  <2>2. PICK Q : Q = q.queues
    OBVIOUS
  <2>3. ListsSound(Q, prog, acc)
    BY <1>8, <2>2 DEF QueueSound
  <2>4. e \in AllOf(Q)
    BY <2>1, <2>2
  <2> QED BY <1>8, <2>3, <2>4, EntryFacts
<1>11. PICK l : l = PackedPop(k, e)
  OBVIOUS
<1>12. PackSound(l) /\ Packing(l, k, e) /\ l \in Packs
  <2>1. k.prio \in Prios
    BY <1>2, <1>4
  <2>2. PackSound(PackedPop(k, e)) /\ Packing(PackedPop(k, e), k, e)
    BY <1>4, <1>10, <2>1, PackedPopType
  <2> QED BY <1>11, <2>2 DEF PackSound
<1>13. /\ out_queue' = [out_queue EXCEPT ![p] = r] /\ pack' = [pack EXCEPT ![p] = l]
       /\ state' = [state EXCEPT ![p] = IF e.key = TERMINATE THEN CLOSING ELSE @]
       /\ fps'   = [fps EXCEPT ![p].host = IF e.key = FPS THEN e.ver ELSE @]
       /\ in_queue' = Acks(p, e)
       /\ UNCHANGED <<workload, pushed, accepted, applied, wire>>
  BY <1>1, <1>2, <1>6, <1>7, <1>11 DEF PackPop, PackedPop
<1>14. r \in QueueType
  BY <1>9 DEF QueueSound
<1>15. /\ out_queue' \in [Peers -> QueueType] /\ out_queue'[p] = r /\ \A x \in Peers : x # p => out_queue'[x] = out_queue[x]
       /\ pack' \in [Peers -> Packs] /\ pack'[p] = l /\ \A x \in Peers : x # p => pack'[x] = pack[x]
  BY <1>4, <1>12, <1>13, <1>14
<1>16. state' \in [Peers -> States] /\ fps' \in [Peers -> Fps] /\ in_queue' \in [Peers -> Seq(Got)]
  <2>1. state' \in [Peers -> States]
    BY <1>4, <1>13 DEF States
  <2>2. PICK g : g = [fps[p] EXCEPT !.host = IF e.key = FPS THEN e.ver ELSE fps[p].host]
    OBVIOUS
  <2>3. g \in Fps
    BY <1>4, <1>10, <2>2 DEF Fps
  <2>4. fps' = [fps EXCEPT ![p] = g]
    BY <1>4, <1>13, <2>2
  <2>5. in_queue' \in [Peers -> Seq(Got)]
    BY <1>4, <1>10, <1>13, AcksType
  <2> QED BY <1>4, <2>1, <2>3, <2>4, <2>5
<1>17. \A x \in Peers : PackSound(pack'[x])
  BY <1>12, <1>15 DEF Base, Typed
<1>18. Typed'
  BY <1>4, <1>13, <1>15, <1>16, <1>17 DEF Typed
<1>19. Books'
  <2> SUFFICES ASSUME NEW x \in Peers
               PROVE  /\ Progress(workload.program[x], pushed[x], accepted[x])
                      /\ QueueSound(out_queue'[x], workload.program[x], pushed[x], accepted[x])
    BY <1>13 DEF Books
  <2>1. CASE x = p
    BY <1>1, <1>8, <1>9, <1>15, <2>1
  <2>2. CASE x # p
    BY <1>15, <2>2 DEF Base, Books
  <2> QED BY <2>1, <2>2
<1>20. PopsOne(p, e)
  BY <1>1, <1>9, <1>10, <1>12, <1>13, <1>15 DEF PopsOne
<1> QED BY <1>18, <1>19, <1>20 DEF Base

LEMMA BaseStep ==
  ASSUME Base, [Next]_vars
  PROVE  Base'
<1>1. CASE UNCHANGED vars
  BY <1>1 DEF vars, Base, Typed, Books
<1>2. ASSUME NEW p \in Peers, v_STREAM_pack_message(p) PROVE Base'
  BY <1>2, PackStartKeeps, PackNothingKeeps, PackPrioKeeps, PackPopKeeps, PackBreakKeeps, WriteMessageKeeps,
     WriteFailsKeeps DEF v_STREAM_pack_message
<1> QED BY <1>1, <1>2, PushKeeps, TakeKeeps, HandleKeeps, ReadEndKeeps DEF Next

(* Base is an invariant: every variable has its type, and each queue of    *)
(* outgoing commands holds accepted versions of the program only, in lists *)
(* that its counters, table and summaries describe (v_out_queue.c).        *)
THEOREM BaseKept == Spec => []Base
<1>1. Init => Base
  BY BaseInit
<1>2. Base /\ [Next]_vars => Base'
  BY BaseStep
<1> QED BY <1>1, <1>2, PTL DEF Spec

-----------------------------------------------------------------------------
(* The books of the queue, as module Stream states them.                   *)
LEMMA BaseTypes ==
  ASSUME Base
  PROVE  TypeOK
<1> SUFFICES ASSUME NEW p \in Peers
             PROVE  /\ pushed[p] \in Nat /\ accepted[p] \subseteq 1 .. pushed[p]
                    /\ \A prio \in Prios : out_queue[p].queues[prio] \in Seq(Entries) /\ out_queue[p].counts[prio] \in Nat
                    /\ out_queue[p].counters \in [Ids -> Int]
                    /\ out_queue[p].count \in Nat /\ out_queue[p].size \in Nat
                    /\ out_queue[p].max_prio \in Prios /\ out_queue[p].min_prio \in Prios
                    /\ pack[p].phase \in {WAIT, TURN, PRIO, POP} /\ pack[p].prio \in Prios \union {-1, 0}
                    /\ state[p] \in {OPEN, CLOSING, FAILED}
  BY DEF Base, Typed, TypeOK
<1>1. PICK q, prog, n, acc, k : /\ q = out_queue[p] /\ prog = workload.program[p] /\ n = pushed[p]
                                /\ acc = accepted[p] /\ k = pack[p]
  OBVIOUS
<1>2. /\ n \in Nat /\ q \in QueueType /\ PackSound(k) /\ state[p] \in States
      /\ Progress(prog, n, acc) /\ QueueSound(q, prog, n, acc)
  BY <1>1 DEF Base, Typed, Books
<1>3. acc \subseteq 1..n
  BY <1>2 DEF Progress
<1>4. /\ q.queues \in [Prios -> Seq(Entries)] /\ q.counters \in [Ids -> Int] /\ q.max_prio \in Prios /\ q.min_prio \in Prios
  BY <1>2 DEF QueueType
<1>5. \A prio \in Prios : q.queues[prio] \in Seq(Entries) /\ q.counts[prio] \in Nat
  <2>1. \A prio \in Prios : q.counts[prio] = Len(q.queues[prio])
    BY <1>2 DEF QueueSound
  <2> QED BY <1>4, <2>1, LenProperties
<1>6. q.count \in Nat /\ q.size \in Nat
  <2>1. PICK S : S = AllOf(q.queues)
    OBVIOUS
  <2>2. q.count = Cardinality(S) /\ q.size = SizeOf(S) /\ IsFiniteSet(S)
    BY <1>2, <2>1 DEF QueueSound
  <2>3. S \subseteq Entries
    BY <1>4, <2>1, AllEntries
  <2> QED BY <2>2, <2>3, SizeNat, FS_CardinalityType
<1>7. k.phase \in Phases /\ k.prio \in Prios \union {-1, 0}
  <2>1. k.phase \in Phases
    BY <1>2 DEF PackSound, Packs
  <2>2. k.phase \in {WAIT, TURN} => k.prio = 0
    <3>1. k.phase \in {WAIT, TURN} => k = Turned(k.phase)
      BY <1>2 DEF PackSound
    <3> QED BY <3>1, TurnedSound
  <2>3. k.phase \in {PRIO, POP} => k.prio \in Prios \union {-1}
    BY <1>2 DEF PackSound
  <2> QED BY <2>1, <2>2, <2>3 DEF Phases
<1> QED BY <1>1, <1>2, <1>3, <1>4, <1>5, <1>6, <1>7 DEF Phases, States

LEMMA BooksShown ==
  ASSUME Base
  PROVE  CountsTrue /\ BucketsIntact /\ PriosInBounds /\ SumsTrue
<1>1. ASSUME NEW p \in Peers
      PROVE  /\ out_queue[p].count = Cardinality(QueuedCmds(p))
             /\ out_queue[p].size = SumFunctionOnSet([e \in Entries |-> Cmd[e.key].item_size], QueuedCmds(p))
             /\ \A prio \in Prios : out_queue[p].counts[prio] = Len(out_queue[p].queues[prio])
             /\ MovesAlone(p) => \A c \in Ids :
                  out_queue[p].counters[c] = Cardinality({e \in QueuedCmds(p) : e.counter = c})
  <2>1. PICK q, prog, S : q = out_queue[p] /\ prog = workload.program[p] /\ S = QueuedCmds(p)
    OBVIOUS
  <2>2. S = AllOf(q.queues)
    BY <2>1 DEF QueuedCmds, AllOf
  <2>3. /\ q.count = Cardinality(S) /\ q.size = SizeOf(S) /\ \A prio \in Prios : q.counts[prio] = Len(q.queues[prio])
        /\ Alone(prog) => CountersSound(S, prog, q.counters)
    BY <2>1, <2>2 DEF Base, Books, QueueSound
  <2>4. MovesAlone(p) => Alone(prog)
    BY <2>1 DEF MovesAlone, Alone, Moves, MovesOf, KeyOf, PrioOf
  <2>5. MovesAlone(p) => \A c \in Ids : q.counters[c] = Cardinality({e \in S : e.counter = c})
    BY <2>3, <2>4 DEF CountersSound, CountIn
  <2> QED BY <2>1, <2>3, <2>5 DEF SizeOf, ItemSize
<1>2. ASSUME NEW p \in Peers, NEW key \in Keys, OneList(p, key)
      PROVE  {e.id : e \in {x \in QueuedCmds(p) : x.key = key}}
               = {b.id : b \in {x \in Range(out_queue[p].buckets) : x.key = key}}
  <2>1. PICK q, prog, S, B : q = out_queue[p] /\ prog = workload.program[p] /\ S = QueuedCmds(p) /\ B = Range(q.buckets)
    OBVIOUS
  <2>2. S = AllOf(q.queues)
    BY <2>1 DEF QueuedCmds, AllOf
  <2>3. TableSound(q.buckets, S, prog, pushed[p])
    BY <2>1, <2>2 DEF Base, Books, QueueSound
  <2>4. OneListOf(prog, key)
    BY <1>2, <2>1 DEF OneList, OneListOf, KeyOf, PrioOf
  <2>5. IdsOf(S, key) = IdsOf(B, key)
    BY <2>1, <2>3, <2>4 DEF TableSound
  <2> QED BY <2>1, <2>5 DEF IdsOf
<1>3. ASSUME NEW p \in Peers, NEW prio \in Prios, out_queue[p].queues[prio] # <<>>
      PROVE  out_queue[p].min_prio <= prio /\ prio <= out_queue[p].max_prio
  <2>1. PICK q : q = out_queue[p]
    OBVIOUS
  <2>2. q \in QueueType /\ InBounds(q) /\ q.counts[prio] = Len(q.queues[prio])
    BY <2>1 DEF Base, Books, QueueSound
  <2>3. q.queues[prio] \in Seq(Entries)
    BY <2>2 DEF QueueType
  <2>4. q.counts[prio] # 0
    BY <1>3, <2>1, <2>2, <2>3, LenProperties
  <2> QED BY <2>1, <2>2, <2>4 DEF InBounds
<1>4. ASSUME NEW p \in Peers, MovesInHalf(p), NEW q, q = out_queue[p],
             NEW used, used = {prio \in Prios : q.queues[prio] # <<>>}
      PROVE  /\ q.sum_high = SumFunctionOnSet(RPrio, {prio \in used : prio >= VRS_DEFAULT_PRIORITY})
             /\ q.sum_low  = SumFunctionOnSet(RPrio, {prio \in used : prio < VRS_DEFAULT_PRIORITY})
  <2>1. PICK prog, Q : prog = workload.program[p] /\ Q = q.queues
    OBVIOUS
  <2>2. InHalf(prog)
    BY <1>4, <2>1 DEF MovesInHalf, InHalf, Moves, MovesOf, KeyOf, PrioOf
  <2>3. SumsSound(Q, q.sum_high, q.sum_low)
    BY <1>4, <2>1, <2>2 DEF Base, Books, QueueSound
  <2>4. High(Q) = {prio \in used : prio >= VRS_DEFAULT_PRIORITY} /\ Low(Q) = {prio \in used : prio < VRS_DEFAULT_PRIORITY}
    BY <1>4, <2>1 DEF High, Low
  <2> QED BY <2>3, <2>4 DEF SumsSound
<1>5. CountsTrue
  BY <1>1 DEF CountsTrue
<1>6. BucketsIntact
  BY <1>2 DEF BucketsIntact
<1>7. PriosInBounds
  BY <1>3 DEF PriosInBounds
<1>8. SumsTrue
  BY <1>4 DEF SumsTrue
<1> QED BY <1>5, <1>6, <1>7, <1>8

(* The books of both queues of outgoing commands are right in every state, *)
(* whatever commands are pushed, with whatever priorities and limits: the  *)
(* counters, the table of buckets, the bounds of priorities and the        *)
(* summaries say what is in the lists (v_out_queue.c).                     *)
THEOREM QueueBooksHold == Spec => []QueueBooks
<1>1. Base => QueueBooks
  BY BaseTypes, BooksShown DEF QueueBooks
<1> QED BY <1>1, BaseKept, PTL

-----------------------------------------------------------------------------
(* The negotiation of FPS.  Only the client changes it, and only the       *)
(* server confirms it.  While the server owes no confirmation, the one     *)
(* with its FPS is in the message that it packs, or the last one under     *)
(* way, or has come to the client.                                         *)
Only(y, cmd)    == y.cmd \in {"NONE", cmd}
AllOnly(w, cmd) == \A i \in DOMAIN w : Only(w[i].sys, cmd)

Confirms(y, value) == y.cmd = "CONFIRM_L" /\ y.value = value

Told(w, y, peer, host) ==
  \/ Confirms(y, host)
  \/ /\ y.cmd = "NONE"
     /\ \/ \E i \in DOMAIN w : Confirms(w[i].sys, host) /\ \A j \in DOMAIN w : i < j => w[j].sys.cmd = "NONE"
        \/ peer = host /\ \A j \in DOMAIN w : w[j].sys.cmd = "NONE"

FpsInv ==
  /\ fps[SERVER].host = fps[SERVER].peer /\ fps[CLIENT].negotiate = FALSE
  /\ Only(pack[CLIENT].sys, "CHANGE_L") /\ AllOnly(wire[SERVER], "CHANGE_L")
  /\ Only(pack[SERVER].sys, "CONFIRM_L") /\ AllOnly(wire[CLIENT], "CONFIRM_L")
  /\ state[CLIENT] = OPEN /\ state[SERVER] = OPEN /\ ~fps[SERVER].negotiate
       => Told(wire[CLIENT], pack[SERVER].sys, fps[CLIENT].peer, fps[SERVER].host)

LEMMA BothPeers ==
  /\ CLIENT \in Peers /\ SERVER \in Peers /\ CLIENT # SERVER
  /\ Peer(CLIENT) = SERVER /\ Peer(SERVER) = CLIENT /\ \A p \in Peers : p = CLIENT \/ p = SERVER
BY DEF Peers, Peer, CLIENT, SERVER

LEMMA NoSysNone == NoSys.cmd = "NONE"
BY DEF NoSys

LEMMA IdleSys ==
  ASSUME Base, NEW p \in Peers, pack[p].phase \in {WAIT, TURN}
  PROVE  pack[p].sys = NoSys /\ pack[p].cmds = <<>>
<1>1. pack[p] = Turned(pack[p].phase)
  BY DEF Base, Typed, PackSound
<1> QED BY <1>1, TurnedSound

LEMMA OnlyAppend ==
  ASSUME NEW w \in Seq(Messages), NEW m \in Messages, NEW cmd, AllOnly(w, cmd), Only(m.sys, cmd)
  PROVE  AllOnly(Append(w, m), cmd)
<1>1. PICK u, n : u = Append(w, m) /\ n = Len(w)
  OBVIOUS
<1>2. n \in Nat /\ DOMAIN w = 1..n /\ DOMAIN u = 1..(n + 1) /\ u[n + 1] = m /\ \A i \in 1..n : u[i] = w[i]
  BY <1>1, AppendProperties, LenProperties
<1>3. \A i \in 1..(n + 1) : i = n + 1 \/ i \in 1..n
  BY <1>2
<1>4. \A i \in DOMAIN u : Only(u[i].sys, cmd)
  BY <1>2, <1>3 DEF AllOnly
<1> QED BY <1>1, <1>4 DEF AllOnly

LEMMA OnlyTail ==
  ASSUME NEW w \in Seq(Messages), w # <<>>, NEW cmd, AllOnly(w, cmd)
  PROVE  AllOnly(Tail(w), cmd) /\ Only(Head(w).sys, cmd)
<1>1. PICK u, n : u = Tail(w) /\ n = Len(w)
  OBVIOUS
<1>2. n \in Nat /\ n # 0 /\ DOMAIN w = 1..n /\ DOMAIN u = 1..(n - 1) /\ \A i \in 1..(n - 1) : u[i] = w[i + 1]
  BY <1>1, HeadTailProperties, LenProperties, EmptySeq
<1>3. 1 \in 1..n /\ \A i \in 1..(n - 1) : i + 1 \in 1..n
  BY <1>2
<1>4. Head(w) = w[1]
  BY <1>1, <1>2, <1>3, HeadTailProperties
<1>5. \A i \in DOMAIN u : Only(u[i].sys, cmd)
  BY <1>2, <1>3 DEF AllOnly
<1>6. Only(Head(w).sys, cmd)
  BY <1>2, <1>3, <1>4 DEF AllOnly
<1> QED BY <1>1, <1>5, <1>6 DEF AllOnly

(* The message that told it is sent, or a message that tells nothing.      *)
LEMMA ToldAppend ==
  ASSUME NEW w \in Seq(Messages), NEW m \in Messages, NEW y, y = m.sys, NEW peer, NEW host,
         Told(w, y, peer, host), NEW z, z.cmd = "NONE"
  PROVE  Told(Append(w, m), z, peer, host)
<1>1. PICK u, n : u = Append(w, m) /\ n = Len(w)
  OBVIOUS
<1>2. n \in Nat /\ DOMAIN w = 1..n /\ DOMAIN u = 1..(n + 1) /\ u[n + 1] = m /\ \A i \in 1..n : u[i] = w[i]
  BY <1>1, AppendProperties, LenProperties
<1>3. \A i \in 1..(n + 1) : i = n + 1 \/ i \in 1..n
  BY <1>2
<1>4. \A i \in 1..(n + 1) : ~(n + 1 < i)
  BY <1>2
<1>5. n + 1 \in 1..(n + 1) /\ \A i \in 1..n : i \in 1..(n + 1)
  BY <1>2
<1>6. CASE Confirms(y, host)
  <2>1. Confirms(u[n + 1].sys, host)
    BY <1>2, <1>6
  <2>2. \E i \in DOMAIN u : Confirms(u[i].sys, host) /\ \A j \in DOMAIN u : i < j => u[j].sys.cmd = "NONE"
    BY <1>2, <1>4, <1>5, <2>1
  <2> QED BY <1>1, <2>2 DEF Told
<1>7. CASE y.cmd = "NONE" /\ \E i \in DOMAIN w : Confirms(w[i].sys, host) /\ \A j \in DOMAIN w : i < j => w[j].sys.cmd = "NONE"
  <2>1. PICK i \in 1..n : Confirms(w[i].sys, host) /\ \A j \in 1..n : i < j => w[j].sys.cmd = "NONE"
    BY <1>2, <1>7
  <2>2. Confirms(u[i].sys, host) /\ \A j \in DOMAIN u : i < j => u[j].sys.cmd = "NONE"
    BY <1>2, <1>3, <1>7, <2>1
  <2> QED BY <1>1, <1>2, <1>5, <2>2 DEF Told
<1>8. CASE y.cmd = "NONE" /\ peer = host /\ \A j \in DOMAIN w : w[j].sys.cmd = "NONE"
  <2>1. \A j \in DOMAIN u : u[j].sys.cmd = "NONE"
    BY <1>2, <1>3, <1>8
  <2> QED BY <1>1, <1>8, <2>1 DEF Told
<1> QED BY <1>6, <1>7, <1>8 DEF Told

LEMMA ToldTail ==
  ASSUME NEW w \in Seq(Messages), w # <<>>, NEW y, NEW peer, NEW host, Told(w, y, peer, host), NEW now,
         NEW h, h = Head(w).sys, h.cmd = "NONE" => now = peer, h.cmd = "CONFIRM_L" => now = h.value
  PROVE  Told(Tail(w), y, now, host)
<1>1. PICK u, n : u = Tail(w) /\ n = Len(w)
  OBVIOUS
<1>2. n \in Nat /\ n # 0 /\ DOMAIN w = 1..n /\ DOMAIN u = 1..(n - 1) /\ \A i \in 1..(n - 1) : u[i] = w[i + 1]
  BY <1>1, HeadTailProperties, LenProperties, EmptySeq
<1>3. 1 \in 1..n /\ \A i \in 1..(n - 1) : i + 1 \in 1..n
  BY <1>2
<1>4. h = w[1].sys
  BY <1>1, <1>2, <1>3, HeadTailProperties
<1>5. CASE Confirms(y, host)
  BY <1>5 DEF Told
<1>6. CASE y.cmd = "NONE" /\ \E i \in DOMAIN w : Confirms(w[i].sys, host) /\ \A j \in DOMAIN w : i < j => w[j].sys.cmd = "NONE"
  <2>1. PICK i \in 1..n : Confirms(w[i].sys, host) /\ \A j \in 1..n : i < j => w[j].sys.cmd = "NONE"
    BY <1>2, <1>6
  <2>2. CASE i = 1
    <3>1. now = host
      BY <1>4, <2>1, <2>2 DEF Confirms
    <3>2. \A j \in 1..(n - 1) : i < j + 1
      BY <2>2
    <3>3. \A j \in DOMAIN u : u[j].sys.cmd = "NONE"
      <4>1. \A j \in 1..(n - 1) : w[j + 1].sys.cmd = "NONE"
        BY <1>3, <2>1, <3>2
      <4> QED BY <1>2, <4>1
    <3> QED BY <1>1, <1>6, <3>1, <3>3 DEF Told
  <2>3. CASE i # 1
    <3>1. PICK k \in 1..(n - 1) : k + 1 = i
      <4>1. i - 1 \in 1..(n - 1) /\ (i - 1) + 1 = i
        BY <1>2, <2>3
      <4> QED BY <4>1
    <3>2. \A j \in 1..(n - 1) : k < j => i < j + 1
      BY <3>1
    <3>3. Confirms(u[k].sys, host) /\ \A j \in DOMAIN u : k < j => u[j].sys.cmd = "NONE"
      BY <1>2, <1>3, <2>1, <3>1, <3>2
    <3> QED BY <1>1, <1>2, <1>6, <3>3 DEF Told
  <2> QED BY <2>2, <2>3
<1>7. CASE y.cmd = "NONE" /\ peer = host /\ \A j \in DOMAIN w : w[j].sys.cmd = "NONE"
  <2>1. now = host /\ \A j \in DOMAIN u : u[j].sys.cmd = "NONE"
    <3>1. h.cmd = "NONE"
      BY <1>2, <1>3, <1>4, <1>7
    <3>2. \A j \in 1..(n - 1) : w[j + 1].sys.cmd = "NONE"
      BY <1>2, <1>3, <1>7
    <3> QED BY <1>2, <1>7, <3>1, <3>2
  <2> QED BY <1>1, <1>7, <2>1 DEF Told
<1> QED BY <1>5, <1>6, <1>7 DEF Told

(* Steps that neither send nor handle a system command.                    *)
LEMMA FpsFrame ==
  ASSUME FpsInv, wire' = wire, fps'[SERVER] = fps[SERVER],
         fps'[CLIENT].peer = fps[CLIENT].peer, fps'[CLIENT].negotiate = fps[CLIENT].negotiate,
         \A x \in Peers : state'[x] = OPEN => state[x] = OPEN,
         \A x \in Peers : pack'[x].sys = pack[x].sys \/ (pack'[x].sys = NoSys /\ state'[x] # OPEN)
  PROVE  FpsInv'
<1>1. Only(NoSys, "CHANGE_L") /\ Only(NoSys, "CONFIRM_L")
  BY NoSysNone DEF Only
<1>2. Only(pack'[CLIENT].sys, "CHANGE_L") /\ Only(pack'[SERVER].sys, "CONFIRM_L")
  BY <1>1, BothPeers DEF FpsInv
<1>3. state'[CLIENT] = OPEN /\ state'[SERVER] = OPEN /\ ~fps'[SERVER].negotiate
       => Told(wire'[CLIENT], pack'[SERVER].sys, fps'[CLIENT].peer, fps'[SERVER].host)
  BY BothPeers DEF FpsInv
<1> QED BY <1>2, <1>3 DEF FpsInv

LEMMA FpsStart ==
  ASSUME Base, FpsInv, NEW p \in Peers, NEW swin \in workload.windows, PackStart(p, swin)
  PROVE  FpsInv'
<1>1. PICK y : y = NegotiateFps(fps[p])
  OBVIOUS
<1>2. /\ pack'[p].sys = y /\ \A x \in Peers : x # p => pack'[x] = pack[x]
  BY <1>1, PackStartKeeps
<1>3. wire' = wire /\ state' = state /\ fps \in [Peers -> Fps] /\ pack[p].phase \in {WAIT, TURN}
  BY DEF PackStart, Base, Typed
<1>4. PICK g : g = [fps[p] EXCEPT !.negotiate = fps[p].negotiate /\ y.cmd # "CONFIRM_L"]
  OBVIOUS
<1>5. fps' = [fps EXCEPT ![p] = g]
  BY <1>1, <1>3, <1>4 DEF PackStart
<1>6. /\ g.host = fps[p].host /\ g.peer = fps[p].peer /\ g.negotiate = (fps[p].negotiate /\ y.cmd # "CONFIRM_L")
      /\ fps'[p] = g /\ \A x \in Peers : x # p => fps'[x] = fps[x]
  <2>1. fps[p] \in Fps
    BY <1>3
  <2>2. g.host = fps[p].host /\ g.peer = fps[p].peer /\ g.negotiate = (fps[p].negotiate /\ y.cmd # "CONFIRM_L")
    BY <1>4, <2>1 DEF Fps
  <2>3. fps'[p] = g /\ \A x \in Peers : x # p => fps'[x] = fps[x]
    BY <1>3, <1>5
  <2> QED BY <2>2, <2>3
<1>7. pack[p].sys = NoSys /\ NoSys.cmd = "NONE"
  BY <1>3, IdleSys, NoSysNone
<1>8. CASE p = CLIENT
  <2>1. Only(y, "CHANGE_L")
    <3>1. fps[p].negotiate = FALSE
      BY <1>8 DEF FpsInv
    <3> QED BY <1>1, <3>1 DEF NegotiateFps, NoSys, Only
  <2>2. g.negotiate = FALSE
    BY <1>6, <1>8 DEF FpsInv
  <2>3. pack'[SERVER] = pack[SERVER] /\ fps'[SERVER] = fps[SERVER] /\ fps'[CLIENT] = g /\ g.peer = fps[CLIENT].peer
    BY <1>2, <1>6, <1>8, BothPeers
  <2> QED BY <1>2, <1>3, <1>8, <2>1, <2>2, <2>3 DEF FpsInv
<1>9. CASE p = SERVER
  <2>1. fps[p].host = fps[p].peer
    BY <1>9 DEF FpsInv
  <2>2. CASE fps[p].negotiate
    <3>1. y = [cmd |-> "CONFIRM_L", value |-> fps[p].peer]
      BY <1>1, <2>1, <2>2 DEF NegotiateFps
    <3>2. Confirms(y, fps[p].host) /\ Only(y, "CONFIRM_L")
      BY <2>1, <3>1 DEF Confirms, Only
    <3>3. Told(wire'[CLIENT], pack'[SERVER].sys, fps'[CLIENT].peer, fps'[SERVER].host)
      BY <1>2, <1>6, <1>9, <3>2 DEF Told
    <3>4. pack'[CLIENT] = pack[CLIENT] /\ fps'[CLIENT] = fps[CLIENT]
      BY <1>2, <1>6, <1>9, BothPeers
    <3> QED BY <1>2, <1>3, <1>6, <1>9, <3>2, <3>3, <3>4 DEF FpsInv
  <2>3. CASE ~fps[p].negotiate
    <3>1. y = NoSys
      BY <1>1, <2>1, <2>3 DEF NegotiateFps
    <3>2. fps'[SERVER].host = fps[SERVER].host /\ fps'[SERVER].peer = fps[SERVER].peer /\ ~fps[SERVER].negotiate
      BY <1>6, <1>9, <2>3
    <3>3. pack'[CLIENT] = pack[CLIENT] /\ fps'[CLIENT] = fps[CLIENT] /\ pack'[SERVER].sys = pack[SERVER].sys
      BY <1>2, <1>6, <1>7, <1>9, <3>1, BothPeers
    <3> QED BY <1>3, <3>2, <3>3 DEF FpsInv
  <2> QED BY <2>2, <2>3
<1> QED BY <1>8, <1>9, BothPeers

LEMMA FpsWrite ==
  ASSUME Base, FpsInv, NEW p \in Peers, WriteMessage(p)
  PROVE  FpsInv'
<1>1. PICK m, w, o : m = [sys |-> pack[p].sys, cmds |-> pack[p].cmds] /\ o = Peer(p) /\ w = wire[o]
  OBVIOUS
<1>2. m \in Messages /\ m.sys = pack[p].sys
  <2>1. pack[p] \in Packs
    BY DEF Base, Typed
  <2>2. pack[p].sys \in SysCmds /\ pack[p].cmds \in Seq(Sent)
    BY <2>1 DEF Packs
  <2> QED BY <1>1, <2>2 DEF Messages
<1>3. wire \in [Peers -> Seq(Messages)] /\ o \in Peers /\ o # p /\ w \in Seq(Messages)
  BY <1>1, PeerFacts DEF Base, Typed
<1>4. /\ wire' = [wire EXCEPT ![o] = IF state[o] = OPEN THEN Append(w, m) ELSE w]
      /\ state' = state /\ fps' = fps
  BY <1>1 DEF WriteMessage
<1>5. pack'[p].sys = NoSys /\ \A x \in Peers : x # p => pack'[x] = pack[x]
  BY WriteMessageKeeps, TurnedSound
<1>6. wire'[p] = wire[p] /\ wire'[o] = IF state[o] = OPEN THEN Append(w, m) ELSE w
  BY <1>3, <1>4
<1>7. CASE p = CLIENT
  <2>1. o = SERVER
    BY <1>1, <1>7, BothPeers
  <2>2. AllOnly(w, "CHANGE_L") /\ Only(m.sys, "CHANGE_L")
    BY <1>1, <1>2, <1>7, <2>1 DEF FpsInv
  <2>3. AllOnly(Append(w, m), "CHANGE_L")
    BY <1>2, <1>3, <2>2, OnlyAppend
  <2>4. AllOnly(wire'[SERVER], "CHANGE_L") /\ wire'[CLIENT] = wire[CLIENT] /\ pack'[SERVER] = pack[SERVER]
    BY <1>5, <1>6, <1>7, <2>1, <2>2, <2>3, BothPeers
  <2>5. Only(pack'[CLIENT].sys, "CHANGE_L")
    BY <1>5, <1>7, NoSysNone DEF Only
  <2> QED BY <1>4, <2>4, <2>5 DEF FpsInv
<1>8. CASE p = SERVER
  <2>1. o = CLIENT
    BY <1>1, <1>8, BothPeers
  <2>2. AllOnly(w, "CONFIRM_L") /\ Only(m.sys, "CONFIRM_L")
    BY <1>1, <1>2, <1>8, <2>1 DEF FpsInv
  <2>3. AllOnly(Append(w, m), "CONFIRM_L")
    BY <1>2, <1>3, <2>2, OnlyAppend
  <2>4. AllOnly(wire'[CLIENT], "CONFIRM_L") /\ wire'[SERVER] = wire[SERVER] /\ pack'[CLIENT] = pack[CLIENT]
    BY <1>5, <1>6, <1>8, <2>1, <2>2, <2>3, BothPeers
  <2>5. Only(pack'[SERVER].sys, "CONFIRM_L")
    BY <1>5, <1>8, NoSysNone DEF Only
  <2>6. ASSUME state[CLIENT] = OPEN, state[SERVER] = OPEN, ~fps[SERVER].negotiate
        PROVE  Told(wire'[CLIENT], pack'[SERVER].sys, fps[CLIENT].peer, fps[SERVER].host)
    <3>1. PICK y, peer, host : y = m.sys /\ peer = fps[CLIENT].peer /\ host = fps[SERVER].host
      OBVIOUS
    <3>2. Told(w, y, peer, host)
      BY <1>1, <1>2, <1>8, <2>1, <2>6, <3>1 DEF FpsInv
    <3>3. PICK z : z = NoSys
      OBVIOUS
    <3>4. z.cmd = "NONE"
      BY <3>3, NoSysNone
    <3>5. Told(Append(w, m), z, peer, host)
      BY <1>2, <1>3, <3>1, <3>2, <3>4, ToldAppend
    <3> QED BY <1>5, <1>6, <1>8, <2>1, <2>6, <3>1, <3>3, <3>5
  <2> QED BY <1>4, <2>4, <2>5, <2>6 DEF FpsInv
<1> QED BY <1>7, <1>8, BothPeers

LEMMA FpsHandle ==
  ASSUME Base, FpsInv, NEW p \in Peers, v_STREAM_handle_messages(p)
  PROVE  FpsInv'
<1>1. PICK w, h, f : w = wire[p] /\ h = Head(wire[p]).sys /\ f = HandledFps(fps[p], h)
  OBVIOUS
<1>2. /\ wire \in [Peers -> Seq(Messages)] /\ w \in Seq(Messages) /\ w # <<>>
      /\ fps \in [Peers -> Fps] /\ fps[p] \in Fps /\ pack[p].phase = WAIT
  BY <1>1 DEF Base, Typed, v_STREAM_handle_messages
<1>3. h \in SysCmds
  <2>1. Head(w) \in Messages
    BY <1>2, HeadTailProperties
  <2> QED BY <1>1, <2>1 DEF Messages
<1>4. /\ h.cmd = "CHANGE_L" => f.host = h.value /\ f.peer = h.value /\ f.negotiate = TRUE
      /\ h.cmd = "CONFIRM_L" => f.host = fps[p].host /\ f.peer = h.value /\ f.negotiate = fps[p].negotiate
      /\ h.cmd = "NONE" => f = fps[p]
  BY <1>1, <1>2, <1>3, HandledFpsType
<1>5. /\ fps' = [fps EXCEPT ![p] = f] /\ wire' = [wire EXCEPT ![p] = Tail(w)] /\ state' = state
  BY <1>1 DEF v_STREAM_handle_messages
<1>6. /\ fps'[p] = f /\ wire'[p] = Tail(w)
      /\ \A x \in Peers : x # p => fps'[x] = fps[x] /\ wire'[x] = wire[x]
  BY <1>2, <1>5
<1>7. pack'[p].sys = pack[p].sys /\ \A x \in Peers : x # p => pack'[x] = pack[x]
  BY <1>2, HandleKeeps, TurnedSound, IdleSys
<1>8. pack[p].sys = NoSys
  BY <1>2, IdleSys
<1>9. CASE p = CLIENT
  <2>1. AllOnly(Tail(w), "CONFIRM_L") /\ Only(h, "CONFIRM_L")
    <3>1. AllOnly(w, "CONFIRM_L")
      BY <1>1, <1>9 DEF FpsInv
    <3> QED BY <1>1, <1>2, <3>1, OnlyTail
  <2>2. /\ pack'[CLIENT].sys = pack[CLIENT].sys /\ pack'[SERVER] = pack[SERVER] /\ fps'[SERVER] = fps[SERVER]
        /\ wire'[SERVER] = wire[SERVER] /\ fps'[CLIENT] = f /\ wire'[CLIENT] = Tail(w)
    BY <1>6, <1>7, <1>9, BothPeers
  <2>3. f.negotiate = FALSE
    BY <1>4, <1>9, <2>1 DEF FpsInv, Only
  <2>4. ASSUME state[CLIENT] = OPEN, state[SERVER] = OPEN, ~fps[SERVER].negotiate
        PROVE  Told(Tail(w), pack[SERVER].sys, f.peer, fps[SERVER].host)
    <3>1. PICK y, peer, host, now : /\ y = pack[SERVER].sys /\ peer = fps[CLIENT].peer /\ host = fps[SERVER].host
                                    /\ now = f.peer
      OBVIOUS
    <3>2. Told(w, y, peer, host)
      BY <1>1, <1>9, <2>4, <3>1 DEF FpsInv
    <3>3. (h.cmd = "NONE" => now = peer) /\ (h.cmd = "CONFIRM_L" => now = h.value) /\ h = Head(w).sys
      BY <1>1, <1>4, <1>9, <3>1
    <3>4. Told(Tail(w), y, now, host)
      BY <1>2, <3>2, <3>3, ToldTail
    <3> QED BY <3>1, <3>4
  <2> QED BY <1>5, <2>1, <2>2, <2>3, <2>4 DEF FpsInv
<1>10. CASE p = SERVER
  <2>1. AllOnly(Tail(w), "CHANGE_L") /\ Only(h, "CHANGE_L")
    <3>1. AllOnly(w, "CHANGE_L")
      BY <1>1, <1>10 DEF FpsInv
    <3> QED BY <1>1, <1>2, <3>1, OnlyTail
  <2>2. /\ pack'[SERVER].sys = pack[SERVER].sys /\ pack'[CLIENT] = pack[CLIENT] /\ fps'[CLIENT] = fps[CLIENT]
        /\ wire'[CLIENT] = wire[CLIENT] /\ fps'[SERVER] = f /\ wire'[SERVER] = Tail(w)
    BY <1>6, <1>7, <1>10, BothPeers
  <2>3. CASE h.cmd = "CHANGE_L"
    <3>1. f.host = f.peer /\ f.negotiate = TRUE
      BY <1>4, <2>3
    <3> QED BY <1>5, <2>1, <2>2, <3>1 DEF FpsInv
  <2>4. CASE h.cmd = "NONE"
    <3>1. f = fps[SERVER]
      BY <1>4, <1>10, <2>4
    <3> QED BY <1>5, <2>1, <2>2, <3>1 DEF FpsInv
  <2> QED BY <2>1, <2>3, <2>4 DEF Only
<1> QED BY <1>9, <1>10, BothPeers

LEMMA FpsPop ==
  ASSUME Base, FpsInv, NEW p \in Peers, PackPop(p)
  PROVE  FpsInv'
<1>1. PICK e : PopsOne(p, e)
  BY PackPopKeeps
<1>2. fps \in [Peers -> Fps] /\ fps[p] \in Fps /\ workload \in Workloads /\ state \in [Peers -> States]
  BY DEF Base, Typed
<1>3. PICK g : g = [fps[p] EXCEPT !.host = IF e.key = FPS THEN e.ver ELSE fps[p].host]
  OBVIOUS
<1>4. fps'[p] = g /\ \A x \in Peers : x # p => fps'[x] = fps[x]
  BY <1>1, <1>2, <1>3 DEF PopsOne
<1>5. g.peer = fps[p].peer /\ g.negotiate = fps[p].negotiate
  BY <1>2, <1>3 DEF Fps
<1>6. p = SERVER => g = fps[p]
  <2> HAVE p = SERVER
  <2>1. e.key # FPS
    <3>1. e.ver \in DOMAIN workload.program[SERVER] /\ workload.program[SERVER][e.ver].key = e.key
      BY <1>1 DEF PopsOne
    <3> QED BY <1>2, <3>1, StreamAssumption
  <2> QED BY <1>2, <1>3, <2>1 DEF Fps
<1>7. /\ fps'[SERVER] = fps[SERVER] /\ fps'[CLIENT].peer = fps[CLIENT].peer
      /\ fps'[CLIENT].negotiate = fps[CLIENT].negotiate
  BY <1>4, <1>5, <1>6, BothPeers
<1>8. \A x \in Peers : state'[x] = OPEN => state[x] = OPEN
  BY <1>1, <1>2 DEF PopsOne, OPEN, CLOSING
<1>9. wire' = wire /\ \A x \in Peers : pack'[x].sys = pack[x].sys
  BY <1>1 DEF PopsOne, Packing
<1> QED BY <1>7, <1>8, <1>9, FpsFrame

LEMMA FpsRest ==
  ASSUME Base, FpsInv, NEW p \in Peers,
         PushCmd(p) \/ TakeCmd(p) \/ PackNothing(p) \/ PackPrio(p) \/ PackBreak(p) \/ WriteFails(p) \/ ReadEnd(p)
  PROVE  FpsInv'
<1>1. wire' = wire /\ fps' = fps
  BY DEF PushCmd, TakeCmd, PackNothing, PackPrio, PackBreak, WriteFails, ReadEnd
<1>2. state \in [Peers -> States]
  BY DEF Base, Typed
<1>3. \A x \in Peers : state'[x] = OPEN => state[x] = OPEN
  BY <1>2 DEF PushCmd, TakeCmd, PackNothing, PackPrio, PackBreak, WriteFails, ReadEnd, OPEN, CLOSING, FAILED
<1>4. \A x \in Peers : pack'[x].sys = pack[x].sys \/ (pack'[x].sys = NoSys /\ state'[x] # OPEN)
  <2>1. CASE PackNothing(p)
    <3>1. pack[p].phase \in {WAIT, TURN}
      BY <2>1 DEF PackNothing
    <3> QED BY <2>1, <3>1, PackNothingKeeps, IdleSys, TurnedSound
  <2>2. CASE PackPrio(p) \/ PackBreak(p)
    BY <2>2, PackPrioKeeps, PackBreakKeeps
  <2>3. CASE WriteFails(p)
    <3>1. state'[p] # OPEN
      BY <1>2, <2>3 DEF WriteFails, OPEN, FAILED
    <3> QED BY <2>3, <3>1, WriteFailsKeeps, TurnedSound
  <2>4. CASE PushCmd(p) \/ TakeCmd(p) \/ ReadEnd(p)
    BY <2>4 DEF PushCmd, TakeCmd, ReadEnd
  <2> QED BY <2>1, <2>2, <2>3, <2>4
<1> QED BY <1>1, <1>3, <1>4, FpsFrame

LEMMA FpsInit ==
  ASSUME Init
  PROVE  FpsInv
<1>1. pack[CLIENT].sys = NoSys /\ pack[SERVER].sys = NoSys
  BY BothPeers, TurnedSound DEF Init
<1>2. wire[CLIENT] = <<>> /\ wire[SERVER] = <<>>
  BY BothPeers DEF Init
<1>3. /\ fps[SERVER].host = fps[SERVER].peer /\ fps[CLIENT].negotiate = FALSE
      /\ fps[CLIENT].peer = fps[SERVER].host
  BY BothPeers DEF Init
<1>4. \A i \in DOMAIN <<>> : FALSE
  OBVIOUS
<1> QED BY <1>1, <1>2, <1>3, <1>4, NoSysNone DEF FpsInv, Only, AllOnly, Told

LEMMA FpsStep ==
  ASSUME Base, FpsInv, [Next]_vars
  PROVE  FpsInv'
<1>1. CASE UNCHANGED vars
  BY <1>1 DEF vars, FpsInv
<1>2. ASSUME NEW p \in Peers, v_STREAM_pack_message(p) PROVE FpsInv'
  BY <1>2, FpsStart, FpsPop, FpsWrite, FpsRest DEF v_STREAM_pack_message
<1> QED BY <1>1, <1>2, FpsHandle, FpsRest DEF Next

(* When no message is under way and none is owed, the client knows with    *)
(* which FPS the server runs: a change that crosses another one, or its    *)
(* confirmation, is never taken for confirmed (v_stream.c,                 *)
(* vs_sys_cmds.c), whatever the application changes and however messages   *)
(* are cut.                                                                *)
THEOREM FpsKnownHolds == Spec => []FpsKnown
<1>1. Init => Base /\ FpsInv
  BY BaseInit, FpsInit
<1>2. Base /\ FpsInv /\ [Next]_vars => Base' /\ FpsInv'
  BY BaseStep, FpsStep
<1>3. Base /\ FpsInv => FpsKnown
  <2> SUFFICES ASSUME Base, FpsInv,
                      \A p \in Peers : wire[p] = <<>> /\ pack[p].phase = WAIT /\ ~fps[p].negotiate /\ state[p] = OPEN
               PROVE  fps[CLIENT].peer = fps[SERVER].host
    BY DEF FpsKnown
  <2>1. pack[SERVER].sys.cmd = "NONE" /\ wire[CLIENT] = <<>>
    BY BothPeers, IdleSys, NoSysNone
  <2>2. Told(wire[CLIENT], pack[SERVER].sys, fps[CLIENT].peer, fps[SERVER].host)
    BY BothPeers DEF FpsInv
  <2>3. \A i \in DOMAIN <<>> : FALSE
    OBVIOUS
  <2> QED BY <2>1, <2>2, <2>3 DEF Told, Confirms
<1> QED BY <1>1, <1>2, <1>3, PTL DEF Spec

-----------------------------------------------------------------------------
(* The commands on their way to a peer, in order: applied (A), in the      *)
(* queue of incoming commands (q), in messages under way (w) and in the    *)
(* message that is packed (k).  R[c] are the commands that may come after  *)
(* command c.                                                              *)
RelSound(R) ==
  /\ \A x, y \in Got : x.key # y.key => y \in R[x]
  /\ \A x, y \in Got : y \in R[x] /\ x.key = y.key /\ x.key # ACK /\ Cmd[x.key].dups => x.ver < y.ver

Distinct(q) ==
  \A i, j \in DOMAIN q : q[i].key = q[j].key /\ q[i].key # ACK /\ Cmd[q[i].key].dups => i = j

(* A command of S is in T, or a newer value of its address is.             *)
Survives(S, T) ==
  \A x \in S : \/ x \in T
               \/ \E y \in T : y.key = x.key /\ x.key # ACK /\ Cmd[x.key].dups /\ x.ver < y.ver

FlightSet(w, k) == ToSet(k) \union UNION {ToSet(w[i].cmds) : i \in DOMAIN w}

Flight(w, k, R) ==
  /\ Ordered(k, R) /\ \A i \in DOMAIN w : Ordered(w[i].cmds, R) /\ Follows(ToSet(w[i].cmds), ToSet(k), R)
  /\ \A i, j \in DOMAIN w : i < j => Follows(ToSet(w[i].cmds), ToSet(w[j].cmds), R)

Lined(A, q, w, k, R) ==
  /\ Ordered(A, R) /\ Ordered(q, R) /\ Follows(ToSet(A), ToSet(q), R)
  /\ Flight(w, k, R) /\ Follows(ToSet(A) \union ToSet(q), FlightSet(w, k), R)

AllIn(A, q, w, k) == ToSet(A) \union ToSet(q) \union FlightSet(w, k)

LEMMA GotType ==
  ASSUME NEW c \in Got
  PROVE  c.key \in Keys \union {ACK} /\ c.ver \in Ids /\ c.ver \in Nat
<1>1. c.key \in Keys \union {ACK} /\ c.ver \in Ids
  BY DEF Got
<1> QED BY <1>1, OutQueueAssumption

LEMMA SeqElements ==
  ASSUME NEW T, NEW q \in Seq(T)
  PROVE  /\ ToSet(q) \subseteq T /\ DOMAIN q = 1..Len(q) /\ Len(q) \in Nat
         /\ \A i \in DOMAIN q : q[i] \in ToSet(q)
<1>1. DOMAIN q = 1..Len(q) /\ Len(q) \in Nat /\ \A i \in 1..Len(q) : q[i] \in T
  BY LenProperties
<1> QED BY <1>1 DEF ToSet

Pushed(q, c, u) ==
  /\ Distinct(u) /\ ToSet(u) \subseteq ToSet(q) \union {c} /\ c \in ToSet(u)
  /\ \A x \in ToSet(q) : x \in ToSet(u) \/ (x.key = c.key /\ Cmd[c.key].dups)

LEMMA PushInOrder ==
  ASSUME NEW q \in Seq(Got), NEW c \in Got, c.key # ACK, NEW R, RelSound(R), Ordered(q, R), Distinct(q),
         \A x \in ToSet(q) : c \in R[x], NEW u, u = v_in_queue_push(q, c)
  PROVE  u \in Seq(Got) /\ Ordered(u, R) /\ Pushed(q, c, u)
<1> DEFINE same == {n \in DOMAIN q : q[n].key = c.key}
           at == CHOOSE n \in same : TRUE
<1>1. ToSet(q) \subseteq Got /\ DOMAIN q = 1..Len(q) /\ \A i \in DOMAIN q : q[i] \in ToSet(q)
  BY SeqElements
<1>2. CASE Cmd[c.key].dups /\ same # {}
  <2>0. PICK i : i = at
    OBVIOUS
  <2>1. i \in DOMAIN q /\ q[i].key = c.key
    BY <1>2, <2>0
  <2>2. u = WithElement(q, i, c)
    BY <1>2, <2>0 DEF v_in_queue_push, WithElement
  <2> HIDE DEF at
  <2>3. i \in 1..Len(q)
    BY <1>1, <2>1
  <2>4. \A j \in 1..Len(q) : j # i => q[j].key # c.key
    BY <1>1, <1>2, <2>1 DEF Distinct
  <2>5. Suits(q, i, c, R)
    <3>1. \A j \in 1..Len(q) : j # i => q[j] \in R[c]
      BY <1>1, <2>4 DEF RelSound
    <3> QED BY <3>1 DEF Suits
  <2>6. /\ u \in Seq(Got) /\ Ordered(u, R) /\ DOMAIN u = DOMAIN q /\ u[i] = c
        /\ \A j \in DOMAIN q : j # i => u[j] = q[j]
    BY <2>2, <2>3, <2>5, OrderedReplace
  <2>7. Distinct(u)
    BY <1>1, <2>1, <2>4, <2>6 DEF Distinct
  <2>8. ToSet(u) \subseteq ToSet(q) \union {c} /\ c \in ToSet(u)
    BY <1>1, <2>1, <2>6 DEF ToSet
  <2>9. ASSUME NEW x \in ToSet(q) PROVE x \in ToSet(u) \/ (x.key = c.key /\ Cmd[c.key].dups)
    <3>1. PICK j \in DOMAIN q : x = q[j]
      BY DEF ToSet
    <3>2. CASE j = i
      BY <1>2, <2>1, <3>1, <3>2
    <3>3. CASE j # i
      BY <2>6, <3>1, <3>3 DEF ToSet
    <3> QED BY <3>2, <3>3
  <2> QED BY <2>6, <2>7, <2>8, <2>9 DEF Pushed
<1>3. CASE ~(Cmd[c.key].dups /\ same # {})
  <2>1. u = Append(q, c)
    BY <1>3 DEF v_in_queue_push
  <2>2. u \in Seq(Got) /\ ToSet(u) = ToSet(q) \union {c} /\ Ordered(u, R)
    BY <2>1, OrderedAppend
  <2>3. Distinct(u)
    <3>1. PICK n : n = Len(q)
      OBVIOUS
    <3>2. /\ n \in Nat /\ DOMAIN q = 1..n /\ DOMAIN u = 1..(n + 1) /\ u[n + 1] = c /\ \A i \in 1..n : u[i] = q[i]
      BY <2>1, <3>1, AppendProperties, LenProperties
    <3>3. \A i \in 1..(n + 1) : i = n + 1 \/ i \in 1..n
      BY <3>2
    <3>4. Cmd[c.key].dups => \A i \in 1..n : q[i].key # c.key
      BY <1>3, <3>2
    <3> QED BY <3>2, <3>3, <3>4 DEF Distinct
  <2> QED BY <2>2, <2>3 DEF Pushed
<1> QED BY <1>2, <1>3

UnpackResult(q, cmds, u, R) ==
  /\ u \in Seq(Got) /\ Ordered(u, R) /\ Distinct(u)
  /\ ToSet(u) \subseteq ToSet(q) \union ToSet(cmds)
  /\ Survives(ToSet(q) \union ToSet(cmds), ToSet(u))

LEMMA UnpackInOrder ==
  ASSUME NEW q \in Seq(Got), NEW cmds \in Seq(Sent), NEW R, RelSound(R), Ordered(q, R), Distinct(q),
         Ordered(cmds, R), Follows(ToSet(q), ToSet(cmds), R), NEW u, u = v_cmd_unpack(q, cmds)
  PROVE  UnpackResult(q, cmds, u, R)
<1>1. PICK f : Unpacked(q, cmds, f) /\ u = f[Len(cmds)]
  BY UnpackSteps
<1>2. PICK N : N = Len(cmds)
  OBVIOUS
<1>3. /\ f \in [0..N -> Seq(Got)] /\ f[0] = q /\ N \in Nat /\ DOMAIN cmds = 1..N
      /\ \A n \in 1..N : f[n] = v_in_queue_push(f[n - 1], cmds[n]) /\ cmds[n] \in Sent
  BY <1>1, <1>2, LenProperties DEF Unpacked
<1> DEFINE X(n) == ToSet(q) \union {cmds[i] : i \in 1..n}
           Parts(n) == /\ f[n] \in Seq(Got) /\ Ordered(f[n], R) /\ Distinct(f[n])
                       /\ ToSet(f[n]) \subseteq X(n) /\ Survives(X(n), ToSet(f[n]))
           K == {n \in Nat : n <= N => Parts(n)}
<1>4. 0 \in K
  <2>1. 1..0 = {}
    OBVIOUS
  <2>2. X(0) = ToSet(q)
    BY <2>1
  <2>3. Parts(0)
    BY <1>3, <2>2 DEF Survives
  <2> QED BY <2>3
<1>5. ASSUME NEW n \in Nat, n \in K PROVE n + 1 \in K
  <2> SUFFICES ASSUME n + 1 <= N PROVE Parts(n + 1)
    OBVIOUS
  <2>1. PICK a, b, c : a = f[n] /\ b = f[n + 1] /\ c = cmds[n + 1]
    OBVIOUS
  <2>2. n + 1 \in 1..N /\ (n + 1) - 1 = n /\ n <= N
    BY <1>3
  <2>3. b = v_in_queue_push(a, c) /\ c \in Sent
    BY <1>3, <2>1, <2>2
  <2>4. a \in Seq(Got) /\ Ordered(a, R) /\ Distinct(a) /\ ToSet(a) \subseteq X(n) /\ Survives(X(n), ToSet(a))
    BY <1>5, <2>1, <2>2
  <2>5. c \in Got /\ c.key # ACK /\ c \in ToSet(cmds)
    BY <1>3, <2>1, <2>2, <2>3, SentGot DEF ToSet
  <2>6. ASSUME NEW x \in ToSet(a) PROVE c \in R[x]
    <3>1. CASE x \in ToSet(q)
      BY <2>5, <3>1 DEF Follows
    <3>2. CASE x \notin ToSet(q)
      <4>1. PICK i \in 1..n : x = cmds[i]
        BY <2>4, <3>2
      <4>2. i < n + 1 /\ i \in 1..N
        BY <1>3, <2>2
      <4> QED BY <1>3, <2>1, <2>2, <4>1, <4>2 DEF Ordered
    <3> QED BY <3>1, <3>2
  <2>7. b \in Seq(Got) /\ Ordered(b, R) /\ Pushed(a, c, b)
    BY <2>3, <2>4, <2>5, <2>6, PushInOrder
  <2>8. X(n + 1) = X(n) \union {c}
    <3>1. 1..(n + 1) = (1..n) \union {n + 1}
      OBVIOUS
    <3> QED BY <2>1, <3>1
  <2> HIDE DEF X
  <2>9. ToSet(b) \subseteq X(n + 1)
    BY <2>4, <2>7, <2>8 DEF Pushed
  <2>10. ASSUME NEW x \in X(n + 1)
         PROVE  x \in ToSet(b) \/ \E y \in ToSet(b) : y.key = x.key /\ x.key # ACK /\ Cmd[x.key].dups /\ x.ver < y.ver
    <3>1. CASE x = c
      BY <2>7, <3>1 DEF Pushed
    <3>2. CASE x \in X(n)
      <4>1. ASSUME NEW y \in ToSet(a)
            PROVE  y \in ToSet(b) \/ (y.key = c.key /\ Cmd[c.key].dups /\ y.ver < c.ver /\ c \in ToSet(b))
        <5>1. y \in Got
          BY <2>4, SeqElements
        <5>2. c \in R[y]
          BY <2>6
        <5> QED BY <2>5, <2>7, <5>1, <5>2 DEF Pushed, RelSound
      <4>2. CASE x \in ToSet(a)
        BY <2>5, <4>1, <4>2
      <4>3. CASE x \notin ToSet(a)
        <5>1. PICK y \in ToSet(a) : y.key = x.key /\ x.key # ACK /\ Cmd[x.key].dups /\ x.ver < y.ver
          BY <2>4, <3>2, <4>3 DEF Survives
        <5>2. CASE y \in ToSet(b)
          BY <5>1, <5>2
        <5>3. CASE y \notin ToSet(b)
          <6>1. y.key = c.key /\ y.ver < c.ver /\ c \in ToSet(b)
            BY <4>1, <5>3
          <6>2. x \in Got /\ y \in Got
            <7>1. X(n) \subseteq Got
              <8>1. ToSet(q) \subseteq Got
                BY SeqElements
              <8>2. \A i \in 1..n : cmds[i] \in Got
                <9>1. \A i \in 1..n : i \in 1..N
                  BY <1>3, <2>2
                <9> QED BY <1>3, <9>1, SentGot
              <8> QED BY <8>1, <8>2 DEF X
            <7> QED BY <2>4, <3>2, <7>1
          <6>3. x.ver \in Nat /\ y.ver \in Nat /\ c.ver \in Nat
            BY <2>5, <6>2, GotType
          <6>4. x.ver < c.ver
            BY <5>1, <6>1, <6>3
          <6> QED BY <5>1, <6>1, <6>4
        <5> QED BY <5>2, <5>3
      <4> QED BY <4>2, <4>3
    <3> QED BY <2>8, <3>1, <3>2
  <2> QED BY <2>1, <2>7, <2>9, <2>10 DEF Pushed, Survives
<1>6. N \in K
  <2> HIDE DEF K
  <2> QED BY <1>3, <1>4, <1>5, SetInduction
<1>7. Parts(N)
  BY <1>6
<1>8. X(N) = ToSet(q) \union ToSet(cmds)
  BY <1>3 DEF ToSet
<1> HIDE DEF X
<1> QED BY <1>1, <1>2, <1>7, <1>8 DEF UnpackResult

Line(A, q, w, k, R) ==
  /\ A \in Seq(Got) /\ q \in Seq(Got) /\ w \in Seq(Messages) /\ k \in Seq(Sent) /\ RelSound(R)
  /\ Lined(A, q, w, k, R) /\ Distinct(q)

LEMMA MessageFacts ==
  ASSUME NEW w \in Seq(Messages)
  PROVE  /\ DOMAIN w = 1..Len(w) /\ Len(w) \in Nat
         /\ \A i \in DOMAIN w : w[i] \in Messages /\ w[i].cmds \in Seq(Sent) /\ ToSet(w[i].cmds) \subseteq Sent
<1>1. DOMAIN w = 1..Len(w) /\ Len(w) \in Nat /\ \A i \in 1..Len(w) : w[i] \in Messages
  BY LenProperties
<1>2. \A i \in DOMAIN w : w[i].cmds \in Seq(Sent)
  BY <1>1 DEF Messages
<1>3. \A i \in DOMAIN w : ToSet(w[i].cmds) \subseteq Sent
  BY <1>2, SeqElements
<1> QED BY <1>1, <1>2, <1>3

LEMMA FlightSent ==
  ASSUME NEW w \in Seq(Messages), NEW k \in Seq(Sent)
  PROVE  FlightSet(w, k) \subseteq Sent
<1>1. ToSet(k) \subseteq Sent
  BY SeqElements
<1>2. \A i \in DOMAIN w : ToSet(w[i].cmds) \subseteq Sent
  BY MessageFacts
<1> QED BY <1>1, <1>2 DEF FlightSet

LEMMA NothingIn == ToSet(<<>>) = {} /\ \A R : Ordered(<<>>, R)
<1>1. \A i \in DOMAIN <<>> : FALSE
  OBVIOUS
<1> QED BY <1>1 DEF ToSet, Ordered

LEMMA LineInit ==
  ASSUME NEW R, RelSound(R)
  PROVE  Line(<<>>, <<>>, <<>>, <<>>, R) /\ AllIn(<<>>, <<>>, <<>>, <<>>) = {}
<1>1. \A i \in DOMAIN <<>> : FALSE
  OBVIOUS
<1>2. FlightSet(<<>>, <<>>) = {}
  BY <1>1, NothingIn DEF FlightSet
<1>3. Flight(<<>>, <<>>, R)
  BY <1>1, NothingIn DEF Flight
<1>4. Lined(<<>>, <<>>, <<>>, <<>>, R)
  BY <1>2, <1>3, NothingIn DEF Lined, Follows
<1>5. Distinct(<<>>)
  BY <1>1 DEF Distinct
<1>6. <<>> \in Seq(Got) /\ <<>> \in Seq(Messages) /\ <<>> \in Seq(Sent)
  OBVIOUS
<1> QED BY <1>2, <1>4, <1>5, <1>6, NothingIn DEF AllIn, Line

Added(s, x) == Append(s, x)

Taken(q, h, u) == q # <<>> /\ h = Head(q) /\ u = Tail(q)

(* A command is taken from the queue.                                      *)
LEMMA LineTake ==
  ASSUME NEW A, NEW q, NEW w, NEW k, NEW R, Line(A, q, w, k, R), NEW h, NEW u, Taken(q, h, u),
         NEW B, B = Added(A, h)
  PROVE  Line(B, u, w, k, R) /\ AllIn(B, u, w, k) = AllIn(A, q, w, k) /\ ToSet(B) \union ToSet(u) = ToSet(A) \union ToSet(q)
<1>1. /\ A \in Seq(Got) /\ q \in Seq(Got) /\ w \in Seq(Messages) /\ k \in Seq(Sent) /\ RelSound(R)
      /\ Lined(A, q, w, k, R) /\ Distinct(q)
  BY DEF Line
<1>3. h \in Got /\ u \in Seq(Got) /\ h \in ToSet(q) /\ ToSet(q) = {h} \union ToSet(u)
  BY <1>1, TailElements DEF Taken
<1>4. Ordered(q, R) /\ Ordered(A, R) /\ Follows(ToSet(A), ToSet(q), R)
  BY <1>1 DEF Lined
<1>5. Ordered(u, R) /\ Follows({h}, ToSet(u), R)
  BY <1>1, <1>4, OrderedTail DEF Taken
<1>6. B = Append(A, h)
  BY DEF Added
<1>7. B \in Seq(Got) /\ ToSet(B) = ToSet(A) \union {h}
  BY <1>1, <1>3, <1>6, OrderedAppend
<1>8. Ordered(B, R)
  <2>1. \A c \in ToSet(A) : h \in R[c]
    BY <1>3, <1>4 DEF Follows
  <2> QED BY <1>1, <1>3, <1>4, <1>6, <2>1, OrderedAppend
<1>9. Follows(ToSet(B), ToSet(u), R)
  BY <1>3, <1>4, <1>5, <1>7 DEF Follows
<1>10. ToSet(B) \union ToSet(u) = ToSet(A) \union ToSet(q)
  BY <1>3, <1>7
<1>11. Lined(B, u, w, k, R)
  BY <1>1, <1>5, <1>8, <1>9, <1>10 DEF Lined
<1>12. Distinct(u)
  <2>1. PICK n : n = Len(q)
    OBVIOUS
  <2>2. n \in Nat /\ n # 0 /\ DOMAIN q = 1..n /\ DOMAIN u = 1..(n - 1) /\ \A i \in 1..(n - 1) : u[i] = q[i + 1]
    BY <1>1, <2>1, HeadTailProperties, LenProperties, EmptySeq DEF Taken
  <2>3. \A i \in 1..(n - 1) : i + 1 \in 1..n
    BY <2>2
  <2>4. \A i, j \in 1..(n - 1) : i + 1 = j + 1 => i = j
    BY <2>2
  <2>5. ASSUME NEW i \in 1..(n - 1), NEW j \in 1..(n - 1), u[i].key = u[j].key, u[i].key # ACK, Cmd[u[i].key].dups
        PROVE  i = j
    <3>1. PICK a, b : a = i + 1 /\ b = j + 1
      OBVIOUS
    <3>2. a \in DOMAIN q /\ b \in DOMAIN q /\ u[i] = q[a] /\ u[j] = q[b]
      BY <2>2, <2>3, <3>1
    <3>3. a = b
      BY <1>1, <2>5, <3>2 DEF Distinct
    <3> QED BY <2>4, <3>1, <3>3
  <2> QED BY <2>2, <2>5 DEF Distinct
<1>13. AllIn(B, u, w, k) = AllIn(A, q, w, k)
  BY <1>10 DEF AllIn
<1> QED BY <1>1, <1>3, <1>7, <1>10, <1>11, <1>12, <1>13 DEF Line

(* A command is packed.                                                    *)
LEMMA LinePack ==
  ASSUME NEW A, NEW q, NEW w, NEW k, NEW R, Line(A, q, w, k, R), NEW c \in Sent,
         \A x \in AllIn(A, q, w, k) : c \in R[x], NEW l, l = Added(k, c)
  PROVE  Line(A, q, w, l, R) /\ AllIn(A, q, w, l) = AllIn(A, q, w, k) \union {c}
<1>1. /\ A \in Seq(Got) /\ q \in Seq(Got) /\ w \in Seq(Messages) /\ k \in Seq(Sent) /\ RelSound(R)
      /\ Lined(A, q, w, k, R) /\ Distinct(q)
  BY DEF Line
<1>2. Flight(w, k, R) /\ Ordered(k, R)
  BY <1>1 DEF Lined, Flight
<1>3. l \in Seq(Sent) /\ ToSet(l) = ToSet(k) \union {c}
  BY <1>1, OrderedAppend DEF Added
<1>4. FlightSet(w, l) = FlightSet(w, k) \union {c}
  BY <1>3 DEF FlightSet
<1>5. ToSet(k) \subseteq AllIn(A, q, w, k) /\ \A i \in DOMAIN w : ToSet(w[i].cmds) \subseteq AllIn(A, q, w, k)
  BY DEF AllIn, FlightSet
<1>6. Ordered(l, R)
  BY <1>1, <1>2, <1>5, OrderedAppend DEF Added
<1>7. \A i \in DOMAIN w : Follows(ToSet(w[i].cmds), ToSet(l), R)
  BY <1>2, <1>3, <1>5 DEF Flight, Follows
<1>8. Flight(w, l, R)
  BY <1>2, <1>6, <1>7 DEF Flight
<1>9. Follows(ToSet(A) \union ToSet(q), FlightSet(w, l), R)
  BY <1>1, <1>4 DEF Lined, Follows, AllIn
<1>10. Lined(A, q, w, l, R)
  BY <1>1, <1>8, <1>9 DEF Lined
<1> QED BY <1>1, <1>3, <1>4, <1>10 DEF Line, AllIn

(* An acknowledgment of creation is put to the queue.                      *)
LEMMA LineAck ==
  ASSUME NEW A, NEW q, NEW w, NEW k, NEW R, Line(A, q, w, k, R), NEW a \in Got, a.key = ACK,
         \A x \in ToSet(A) \union ToSet(q) : a \in R[x], NEW u, u = Added(q, a)
  PROVE  Line(A, u, w, k, R) /\ AllIn(A, u, w, k) = AllIn(A, q, w, k) \union {a} /\ ToSet(u) = ToSet(q) \union {a}
<1>1. /\ A \in Seq(Got) /\ q \in Seq(Got) /\ w \in Seq(Messages) /\ k \in Seq(Sent) /\ RelSound(R)
      /\ Lined(A, q, w, k, R) /\ Distinct(q)
  BY DEF Line
<1>2. u \in Seq(Got) /\ ToSet(u) = ToSet(q) \union {a}
  BY <1>1, OrderedAppend DEF Added
<1>3. Ordered(u, R)
  <2>1. Ordered(q, R)
    BY <1>1 DEF Lined
  <2> QED BY <1>1, <2>1, OrderedAppend DEF Added
<1>4. Follows(ToSet(A), ToSet(u), R)
  BY <1>1, <1>2 DEF Lined, Follows
<1>5. \A d \in FlightSet(w, k) : d \in R[a]
  BY <1>1, FlightSent, SentGot DEF RelSound
<1>6. Follows(ToSet(A) \union ToSet(u), FlightSet(w, k), R)
  BY <1>1, <1>2, <1>5 DEF Lined, Follows
<1>7. Lined(A, u, w, k, R)
  BY <1>1, <1>3, <1>4, <1>6 DEF Lined
<1>8. Distinct(u)
  <2>1. PICK n : n = Len(q)
    OBVIOUS
  <2>2. n \in Nat /\ DOMAIN q = 1..n /\ DOMAIN u = 1..(n + 1) /\ u[n + 1] = a /\ \A i \in 1..n : u[i] = q[i]
    BY <1>1, <2>1, AppendProperties, LenProperties DEF Added
  <2>3. \A i \in 1..(n + 1) : i = n + 1 \/ i \in 1..n
    BY <2>2
  <2> QED BY <1>1, <2>2, <2>3, SMTT(30) DEF Distinct
<1>9. AllIn(A, u, w, k) = AllIn(A, q, w, k) \union {a}
  BY <1>2 DEF AllIn
<1> QED BY <1>1, <1>2, <1>7, <1>8, <1>9 DEF Line

(* The packed message is dropped.                                          *)
LEMMA LineDrop ==
  ASSUME NEW A, NEW q, NEW w, NEW k, NEW R, Line(A, q, w, k, R), NEW l, l = <<>>
  PROVE  Line(A, q, w, l, R) /\ AllIn(A, q, w, l) \subseteq AllIn(A, q, w, k)
<1>1. /\ A \in Seq(Got) /\ q \in Seq(Got) /\ w \in Seq(Messages) /\ k \in Seq(Sent) /\ RelSound(R)
      /\ Lined(A, q, w, k, R) /\ Distinct(q)
  BY DEF Line
<1>2. l \in Seq(Sent) /\ ToSet(l) = {} /\ Ordered(l, R)
  BY NothingIn
<1>3. FlightSet(w, l) \subseteq FlightSet(w, k)
  BY <1>2 DEF FlightSet
<1>4. Flight(w, l, R)
  BY <1>1, <1>2 DEF Lined, Flight, Follows
<1>5. Lined(A, q, w, l, R)
  BY <1>1, <1>3, <1>4 DEF Lined, Follows
<1> QED BY <1>1, <1>2, <1>3, <1>5 DEF Line, AllIn

(* The packed message is written.                                          *)
Carries(m, k) == m \in Messages /\ m.cmds = k

LEMMA LineWrite ==
  ASSUME NEW A, NEW q, NEW w, NEW k, NEW R, Line(A, q, w, k, R), NEW m, Carries(m, k),
         NEW v, v = Added(w, m), NEW l, l = <<>>
  PROVE  Line(A, q, v, l, R) /\ AllIn(A, q, v, l) = AllIn(A, q, w, k)
<1>1. /\ A \in Seq(Got) /\ q \in Seq(Got) /\ w \in Seq(Messages) /\ k \in Seq(Sent) /\ RelSound(R)
      /\ Lined(A, q, w, k, R) /\ Distinct(q)
  BY DEF Line
<1>2. l \in Seq(Sent) /\ ToSet(l) = {} /\ Ordered(l, R)
  BY NothingIn
<1>0. m \in Messages /\ m.cmds = k
  BY DEF Carries
<1>3. PICK n : n = Len(w)
  OBVIOUS
<1>4. /\ n \in Nat /\ DOMAIN w = 1..n /\ DOMAIN v = 1..(n + 1) /\ v[n + 1] = m /\ (\A i \in 1..n : v[i] = w[i])
      /\ v \in Seq(Messages)
  BY <1>0, <1>1, <1>3, AppendProperties, LenProperties DEF Added
<1>5. /\ \A i \in 1..(n + 1) : i = n + 1 \/ i \in 1..n
      /\ \A i, j \in 1..(n + 1) : i < j => i \in 1..n
      /\ n + 1 \in 1..(n + 1) /\ \A i \in 1..n : i \in 1..(n + 1)
  BY <1>4
<1>6. FlightSet(v, l) = FlightSet(w, k)
  <2>1. ASSUME NEW x \in FlightSet(v, l) PROVE x \in FlightSet(w, k)
    <3>1. PICK i \in 1..(n + 1) : x \in ToSet(v[i].cmds)
      BY <1>2, <1>4, <2>1 DEF FlightSet
    <3> QED BY <1>0, <1>4, <1>5, <3>1 DEF FlightSet
  <2>2. ASSUME NEW x \in FlightSet(w, k) PROVE x \in FlightSet(v, l)
    <3>1. CASE x \in ToSet(k)
      BY <1>0, <1>4, <1>5, <3>1 DEF FlightSet
    <3>2. CASE x \notin ToSet(k)
      <4>1. PICK i \in 1..n : x \in ToSet(w[i].cmds)
        BY <1>4, <2>2, <3>2 DEF FlightSet
      <4> QED BY <1>4, <1>5, <4>1 DEF FlightSet
    <3> QED BY <3>1, <3>2
  <2> QED BY <2>1, <2>2
<1>7. Flight(w, k, R)
  BY <1>1 DEF Lined
<1>8. Flight(v, l, R)
  <2>1. \A i \in DOMAIN v : Ordered(v[i].cmds, R) /\ Follows(ToSet(v[i].cmds), ToSet(l), R)
    BY <1>0, <1>2, <1>4, <1>5, <1>7 DEF Flight, Follows
  <2>2. ASSUME NEW i \in DOMAIN v, NEW j \in DOMAIN v, i < j PROVE Follows(ToSet(v[i].cmds), ToSet(v[j].cmds), R)
    <3>1. i \in 1..n /\ v[i] = w[i]
      BY <1>4, <1>5, <2>2
    <3>2. CASE j = n + 1
      BY <1>0, <1>4, <1>7, <3>1, <3>2 DEF Flight
    <3>3. CASE j \in 1..n
      BY <1>4, <1>7, <2>2, <3>1, <3>3 DEF Flight
    <3> QED BY <1>4, <1>5, <3>2, <3>3
  <2> QED BY <1>2, <2>1, <2>2 DEF Flight
<1>9. Lined(A, q, v, l, R)
  BY <1>1, <1>6, <1>8 DEF Lined
<1> QED BY <1>1, <1>2, <1>4, <1>6, <1>9 DEF Line, AllIn

(* A message is read.                                                      *)
LEMMA LineHandle ==
  ASSUME NEW A, NEW q, NEW w, NEW k, NEW R, Line(A, q, w, k, R), w # <<>>,
         NEW u, u = v_cmd_unpack(q, Head(w).cmds), NEW v, v = Tail(w)
  PROVE  /\ Line(A, u, v, k, R) /\ AllIn(A, u, v, k) \subseteq AllIn(A, q, w, k)
         /\ Survives(AllIn(A, q, w, k), AllIn(A, u, v, k)) /\ ToSet(u) \subseteq ToSet(q) \union Sent
<1>1. /\ A \in Seq(Got) /\ q \in Seq(Got) /\ w \in Seq(Messages) /\ k \in Seq(Sent) /\ RelSound(R)
      /\ Lined(A, q, w, k, R) /\ Distinct(q)
  BY DEF Line
<1>2. PICK n, c : n = Len(w) /\ c = Head(w).cmds
  OBVIOUS
<1>3. n \in Nat /\ n # 0 /\ DOMAIN w = 1..n /\ DOMAIN v = 1..(n - 1) /\ (\A i \in 1..(n - 1) : v[i] = w[i + 1])
      /\ v \in Seq(Messages) /\ Head(w) = w[1]
  BY <1>1, <1>2, HeadTailProperties, LenProperties, EmptySeq
<1>4. /\ 1 \in 1..n /\ \A i \in 1..(n - 1) : i + 1 \in 1..n /\ 1 < i + 1
      /\ \A i \in 1..n : i = 1 \/ \E j \in 1..(n - 1) : i = j + 1
      /\ \A i, j \in 1..(n - 1) : i < j => i + 1 < j + 1
  <2>1. ASSUME NEW i \in 1..n, i # 1 PROVE \E j \in 1..(n - 1) : i = j + 1
    <3>1. i - 1 \in 1..(n - 1) /\ i = (i - 1) + 1
      BY <1>3, <2>1
    <3> QED BY <3>1
  <2> QED BY <1>3, <2>1
<1>5. c = w[1].cmds /\ c \in Seq(Sent) /\ ToSet(c) \subseteq Sent
  <2>1. c = w[1].cmds
    BY <1>2, <1>3
  <2>2. w[1].cmds \in Seq(Sent) /\ ToSet(w[1].cmds) \subseteq Sent
    BY <1>1, <1>3, <1>4, MessageFacts
  <2> QED BY <2>1, <2>2
<1>6. Flight(w, k, R)
  BY <1>1 DEF Lined
<1>7. FlightSet(w, k) = ToSet(c) \union FlightSet(v, k)
  <2>1. ASSUME NEW x \in FlightSet(w, k) PROVE x \in ToSet(c) \union FlightSet(v, k)
    <3>1. CASE x \in ToSet(k)
      BY <3>1 DEF FlightSet
    <3>2. CASE x \notin ToSet(k)
      <4>1. PICK i \in 1..n : x \in ToSet(w[i].cmds)
        BY <1>3, <2>1, <3>2 DEF FlightSet
      <4>2. CASE i = 1
        BY <1>5, <4>1, <4>2
      <4>3. CASE i # 1
        <5>1. PICK j \in 1..(n - 1) : i = j + 1
          BY <1>4, <4>3
        <5>2. x \in ToSet(v[j].cmds)
          BY <1>3, <4>1, <5>1
        <5> QED BY <1>3, <5>2 DEF FlightSet
      <4> QED BY <4>2, <4>3
    <3> QED BY <3>1, <3>2
  <2>2. ToSet(c) \subseteq FlightSet(w, k)
    BY <1>3, <1>4, <1>5 DEF FlightSet
  <2>3. ASSUME NEW x \in FlightSet(v, k) PROVE x \in FlightSet(w, k)
    <3>1. CASE x \in ToSet(k)
      BY <3>1 DEF FlightSet
    <3>2. CASE x \notin ToSet(k)
      <4>1. PICK i \in 1..(n - 1) : x \in ToSet(v[i].cmds)
        BY <1>3, <2>3, <3>2 DEF FlightSet
      <4>2. x \in ToSet(w[i + 1].cmds) /\ i + 1 \in DOMAIN w
        BY <1>3, <1>4, <4>1
      <4> QED BY <4>2 DEF FlightSet
    <3> QED BY <3>1, <3>2
  <2> QED BY <2>1, <2>2, <2>3
<1>8. Flight(v, k, R)
  <2>1. \A i \in DOMAIN v : Ordered(v[i].cmds, R) /\ Follows(ToSet(v[i].cmds), ToSet(k), R)
    BY <1>3, <1>4, <1>6 DEF Flight
  <2>2. ASSUME NEW i \in 1..(n - 1), NEW j \in 1..(n - 1), i < j PROVE Follows(ToSet(v[i].cmds), ToSet(v[j].cmds), R)
    <3>1. i + 1 \in DOMAIN w /\ j + 1 \in DOMAIN w /\ i + 1 < j + 1 /\ v[i] = w[i + 1] /\ v[j] = w[j + 1]
      BY <1>3, <1>4, <2>2
    <3> QED BY <1>6, <3>1 DEF Flight
  <2> QED BY <1>3, <1>6, <2>1, <2>2 DEF Flight
<1>9. Ordered(c, R) /\ Follows(ToSet(c), FlightSet(v, k), R)
  <2>1. Ordered(c, R) /\ Follows(ToSet(c), ToSet(k), R)
    BY <1>3, <1>4, <1>5, <1>6 DEF Flight
  <2>2. ASSUME NEW i \in 1..(n - 1) PROVE Follows(ToSet(c), ToSet(v[i].cmds), R)
    <3>1. 1 \in DOMAIN w /\ i + 1 \in DOMAIN w /\ 1 < i + 1 /\ v[i] = w[i + 1]
      BY <1>3, <1>4
    <3> QED BY <1>5, <1>6, <3>1 DEF Flight
  <2> QED BY <1>3, <2>1, <2>2 DEF Follows, FlightSet
<1>10. Ordered(q, R) /\ Follows(ToSet(q), ToSet(c), R)
  BY <1>1, <1>7 DEF Lined, Follows
<1>11. UnpackResult(q, c, u, R)
  <2>1. u = v_cmd_unpack(q, c)
    BY <1>2
  <2> QED BY <1>1, <1>5, <1>9, <1>10, <2>1, UnpackInOrder
<1>12. /\ u \in Seq(Got) /\ Ordered(u, R) /\ Distinct(u) /\ ToSet(u) \subseteq ToSet(q) \union ToSet(c)
       /\ Survives(ToSet(q) \union ToSet(c), ToSet(u))
  BY <1>11 DEF UnpackResult
<1>13. Follows(ToSet(A), ToSet(u), R)
  BY <1>1, <1>7, <1>12 DEF Lined, Follows
<1>14. Follows(ToSet(A) \union ToSet(u), FlightSet(v, k), R)
  BY <1>1, <1>7, <1>9, <1>12 DEF Lined, Follows
<1>15. Lined(A, u, v, k, R)
  BY <1>1, <1>8, <1>12, <1>13, <1>14 DEF Lined
<1>16. AllIn(A, u, v, k) \subseteq AllIn(A, q, w, k)
  BY <1>7, <1>12 DEF AllIn
<1>17. Survives(AllIn(A, q, w, k), AllIn(A, u, v, k))
  BY <1>7, <1>12 DEF AllIn, Survives
<1> QED BY <1>1, <1>3, <1>5, <1>12, <1>15, <1>16, <1>17 DEF Line

-----------------------------------------------------------------------------
(* The order in the state.  What comes to r was pushed by its peer, or is  *)
(* an acknowledgment of what r itself has pushed.  Whatever still waits in *)
(* the queue that it came from, with its key and in its list, is younger.  *)
Reached(r) == AllIn(applied[r], in_queue[r], wire[r], pack[Peer(r)].cmds)

Later(r) ==
  [c \in Got |-> {d \in Got : c.key = d.key /\ (SamePrio(r, c, d) \/ (c.key # ACK /\ Cmd[c.key].dups)) => c.ver < d.ver}]

RealKey(c) == IF c.key = ACK THEN CREATE ELSE c.key

Origin(r, c) == IF c.key = ACK THEN r ELSE Peer(r)

Left(s, key, v) ==
  /\ v \in accepted[s] /\ KeyOf(s, v) = key
  /\ \A e \in QueuedCmds(s) : e.key = key /\ (Cmd[key].dups \/ PrioOf(s, e.ver) = PrioOf(s, v)) => v < e.ver

LineAt(r) ==
  /\ Line(applied[r], in_queue[r], wire[r], pack[Peer(r)].cmds, Later(r))
  /\ \A c \in Reached(r) : Left(Origin(r, c), RealKey(c), c.ver)

LineInv == \A r \in Peers : LineAt(r)

LEMMA LaterDef ==
  ASSUME NEW r, NEW c \in Got, NEW d \in Got
  PROVE  d \in Later(r)[c] <=> (c.key = d.key /\ (SamePrio(r, c, d) \/ (c.key # ACK /\ Cmd[c.key].dups)) => c.ver < d.ver)
BY DEF Later

LEMMA LaterSound ==
  ASSUME NEW r
  PROVE  RelSound(Later(r))
BY LaterDef DEF RelSound

LEMMA LaterSame ==
  ASSUME NEW r, workload' = workload
  PROVE  Later(r)' = Later(r)
BY DEF Later, SamePrio, PrioOf

LEMMA QueuedAll ==
  ASSUME NEW p \in Peers
  PROVE  QueuedCmds(p) = AllOf(out_queue[p].queues)
BY DEF QueuedCmds, AllOf

LEMMA QueuedFacts ==
  ASSUME Base, NEW p \in Peers, NEW e \in QueuedCmds(p)
  PROVE  /\ e \in Entries /\ e.ver \in accepted[p] /\ e.ver \in 1..pushed[p] /\ e.id \in Nat /\ e.ver \in Nat
         /\ e.id <= e.ver /\ KeyOf(p, e.ver) = e.key /\ e.key \in Keys /\ (~Cmd[e.key].dups => e.id = e.ver)
<1>1. PICK prog, n, acc, Q : /\ prog = workload.program[p] /\ n = pushed[p] /\ acc = accepted[p]
                             /\ Q = out_queue[p].queues
  OBVIOUS
<1>2. Progress(prog, n, acc) /\ ListsSound(Q, prog, acc)
  BY <1>1 DEF Base, Books, QueueSound
<1>3. e \in AllOf(Q)
  BY <1>1, QueuedAll
<1>4. /\ e \in Entries /\ e.ver \in acc /\ e.ver \in 1..n
      /\ e.id \in Nat /\ e.ver \in Nat /\ e.id <= e.ver /\ prog[e.ver].key = e.key /\ e.key \in Keys
      /\ (~Cmd[e.key].dups => e.id = e.ver)
  BY <1>2, <1>3, EntryFacts
<1> QED BY <1>1, <1>4 DEF KeyOf

LEMMA AcceptedFacts ==
  ASSUME Base, NEW p \in Peers, NEW n \in accepted[p]
  PROVE  n \in 1..pushed[p] /\ pushed[p] \in Nat /\ n \in Nat /\ n <= pushed[p] /\ n < pushed[p] + 1
<1>1. pushed[p] \in Nat
  BY DEF Base, Typed
<1>2. accepted[p] \subseteq 1..pushed[p]
  BY DEF Base, Books, Progress
<1> QED BY <1>1, <1>2

(* A push of p, as the commands that wait see it.                          *)
LEMMA PushedCmds ==
  ASSUME Base, NEW p \in Peers, PushCmd(p), NEW v, v = pushed[p] + 1
  PROVE  /\ pushed'[p] = v /\ v \in Nat /\ UNCHANGED <<workload, in_queue, applied, fps, pack, wire, state>>
         /\ \A x \in Peers : x # p => pushed'[x] = pushed[x] /\ accepted'[x] = accepted[x] /\ QueuedCmds(x)' = QueuedCmds(x)
         /\ \/ accepted'[p] = accepted[p] \union {v} /\ Pushes(QueuedCmds(p), QueuedCmds(p)', v, KeyOf(p, v))
            \/ accepted'[p] = accepted[p] /\ QueuedCmds(p)' = QueuedCmds(p)
<1>1. UNCHANGED <<workload, in_queue, applied, fps, pack, wire, state>>
  BY DEF PushCmd
<1>2. pushed \in [Peers -> Nat] /\ accepted \in [Peers -> SUBSET Nat] /\ out_queue \in [Peers -> QueueType]
  BY DEF Base, Typed
<1>3. pushed' = [pushed EXCEPT ![p] = v]
  BY PushKeeps
<1>4. \A x \in Peers : x # p => accepted'[x] = accepted[x] /\ out_queue'[x] = out_queue[x]
  BY <1>2 DEF PushCmd
<1>5. \A x \in Peers : QueuedCmds(x) = AllOf(out_queue[x].queues) /\ QueuedCmds(x)' = AllOf(out_queue'[x].queues)
  BY DEF QueuedCmds, AllOf
<1>6. \/ accepted' = [accepted EXCEPT ![p] = accepted[p] \union {v}] /\ Pushes(QueuedCmds(p), QueuedCmds(p)', v, KeyOf(p, v))
      \/ accepted' = accepted /\ out_queue' = out_queue
  BY <1>5, PushKeeps DEF KeyOf
<1> QED BY <1>1, <1>2, <1>3, <1>4, <1>5, <1>6

LEMMA LeftPushed ==
  ASSUME Base, NEW p \in Peers, PushCmd(p), NEW s \in Peers, NEW key, NEW v, Left(s, key, v)
  PROVE  Left(s, key, v)'
<1>1. PICK n : n = pushed[p] + 1
  OBVIOUS
<1>2. /\ UNCHANGED <<workload, in_queue, applied, fps, pack, wire, state>>
      /\ \A x \in Peers : x # p => accepted'[x] = accepted[x] /\ QueuedCmds(x)' = QueuedCmds(x)
      /\ \/ accepted'[p] = accepted[p] \union {n} /\ Pushes(QueuedCmds(p), QueuedCmds(p)', n, KeyOf(p, n))
         \/ accepted'[p] = accepted[p] /\ QueuedCmds(p)' = QueuedCmds(p)
  BY <1>1, PushedCmds
<1>3. v \in accepted[s] /\ KeyOf(s, v) = key
  BY DEF Left
<1>4. CASE accepted'[s] = accepted[s] /\ QueuedCmds(s)' = QueuedCmds(s)
  BY <1>2, <1>4 DEF Left, KeyOf, PrioOf
<1>5. CASE s = p /\ accepted'[p] = accepted[p] \union {n} /\ Pushes(QueuedCmds(p), QueuedCmds(p)', n, KeyOf(p, n))
  <2>1. v < n
    BY <1>1, <1>3, <1>5, AcceptedFacts
  <2>2. ASSUME NEW e \in QueuedCmds(s)', e.key = key, Cmd[key].dups \/ PrioOf(s, e.ver) = PrioOf(s, v) PROVE v < e.ver
    <3>1. CASE e.ver = n
      BY <2>1, <3>1
    <3>2. CASE \E g \in QueuedCmds(p) : g.ver = e.ver /\ g.key = e.key
      BY <1>5, <2>2, <3>2 DEF Left
    <3> QED BY <1>5, <3>1, <3>2 DEF Pushes
  <2>3. v \in accepted'[s]
    BY <1>3, <1>5
  <2> QED BY <1>2, <1>3, <2>2, <2>3 DEF Left, KeyOf, PrioOf
<1> QED BY <1>2, <1>4, <1>5

(* A command is popped from the queue of p.                                *)
LEMMA PoppedCmds ==
  ASSUME Base, NEW p \in Peers, NEW e, PopsOne(p, e)
  PROVE  /\ e \in QueuedCmds(p) /\ QueuedCmds(p)' = QueuedCmds(p) \ {e}
         /\ (\A f \in QueuedCmds(p)' : PrioOf(p, f.ver) = PrioOf(p, e.ver) => e.id < f.id)
         /\ (\A f \in QueuedCmds(p)' : f.key = e.key => ~Cmd[e.key].dups)
         /\ \A x \in Peers : x # p => QueuedCmds(x)' = QueuedCmds(x)
<1>1. \A x \in Peers : QueuedCmds(x) = AllOf(out_queue[x].queues) /\ QueuedCmds(x)' = AllOf(out_queue'[x].queues)
  BY DEF QueuedCmds, AllOf
<1>2. Pops(QueuedCmds(p), QueuedCmds(p)', workload.program[p], workload.program[p][e.ver].prio, e)
  BY <1>1 DEF PopsOne
<1>3. \A x \in Peers : x # p => QueuedCmds(x)' = QueuedCmds(x)
  BY <1>1 DEF PopsOne
<1> QED BY <1>2, <1>3 DEF Pops, PrioOf

LEMMA LeftPopped ==
  ASSUME Base, NEW p \in Peers, NEW e, PopsOne(p, e)
  PROVE  /\ \A s \in Peers : \A key, v : Left(s, key, v) => Left(s, key, v)'
         /\ Left(p, e.key, e.ver)'
<1>1. workload' = workload /\ accepted' = accepted /\ e \in Entries /\ e.ver \in accepted[p] /\ KeyOf(p, e.ver) = e.key
  BY DEF PopsOne, KeyOf
<1>2. /\ e \in QueuedCmds(p) /\ QueuedCmds(p)' = QueuedCmds(p) \ {e}
      /\ (\A f \in QueuedCmds(p)' : PrioOf(p, f.ver) = PrioOf(p, e.ver) => e.id < f.id)
      /\ (\A f \in QueuedCmds(p)' : f.key = e.key => ~Cmd[e.key].dups)
      /\ \A x \in Peers : x # p => QueuedCmds(x)' = QueuedCmds(x)
  BY PoppedCmds
<1>3. \A s \in Peers : QueuedCmds(s)' \subseteq QueuedCmds(s)
  BY <1>2
<1>4. ASSUME NEW s \in Peers, NEW key, NEW v, Left(s, key, v) PROVE Left(s, key, v)'
  BY <1>1, <1>3, <1>4 DEF Left, KeyOf, PrioOf
<1>5. ASSUME NEW f \in QueuedCmds(p)', f.key = e.key, Cmd[e.key].dups \/ PrioOf(p, f.ver) = PrioOf(p, e.ver)
      PROVE  e.ver < f.ver
  <2>1. ~Cmd[e.key].dups /\ e.id < f.id
    BY <1>2, <1>5
  <2>2. f \in QueuedCmds(p)
    BY <1>3
  <2>3. e.id = e.ver /\ f.id = f.ver
    BY <1>2, <1>5, <2>1, <2>2, QueuedFacts
  <2> QED BY <2>1, <2>3
<1>6. Left(p, e.key, e.ver)'
  BY <1>1, <1>5 DEF Left, KeyOf, PrioOf
<1> QED BY <1>4, <1>6

(* The commands on the way to r are the same, or only taken or unpacked.   *)
LeftKept == \A s \in Peers : \A key, v : Left(s, key, v) => Left(s, key, v)'

LEMMA LeftSame ==
  ASSUME UNCHANGED <<workload, accepted, out_queue>>
  PROVE  LeftKept
BY DEF LeftKept, Left, KeyOf, PrioOf, QueuedCmds

LEMMA OriginPeer ==
  ASSUME NEW r \in Peers, NEW c
  PROVE  Origin(r, c) \in Peers
BY PeerFacts DEF Origin

LEMMA LineAtKept ==
  ASSUME NEW r \in Peers, LineAt(r), LeftKept, workload' = workload,
         Line(applied'[r], in_queue'[r], wire'[r], pack'[Peer(r)].cmds, Later(r)), Reached(r)' \subseteq Reached(r)
  PROVE  LineAt(r)'
<1>1. Later(r)' = Later(r)
  BY LaterSame
<1>2. Line(applied[r], in_queue[r], wire[r], pack[Peer(r)].cmds, Later(r))'
  BY <1>1
<1>3. \A c \in Reached(r)' : Left(Origin(r, c), RealKey(c), c.ver)
  BY DEF LineAt
<1>4. ASSUME NEW c \in Reached(r)' PROVE Left(Origin(r, c), RealKey(c), c.ver)'
  <2>1. PICK s, key, v : s = Origin(r, c) /\ key = RealKey(c) /\ v = c.ver
    OBVIOUS
  <2>2. Left(s, key, v) /\ s \in Peers
    BY <1>3, <2>1, OriginPeer
  <2>3. Left(s, key, v)'
    BY <2>2 DEF LeftKept
  <2> QED BY <2>1, <2>3
<1> QED BY <1>2, <1>4 DEF LineAt

LEMMA LineAtSame ==
  ASSUME NEW r \in Peers, LineAt(r), LeftKept, workload' = workload,
         applied'[r] = applied[r], in_queue'[r] = in_queue[r], wire'[r] = wire[r],
         pack'[Peer(r)].cmds = pack[Peer(r)].cmds
  PROVE  LineAt(r)' /\ Reached(r)' = Reached(r)
<1>1. Reached(r)' = Reached(r)
  BY DEF Reached
<1>2. Line(applied'[r], in_queue'[r], wire'[r], pack'[Peer(r)].cmds, Later(r))
  BY DEF LineAt
<1> QED BY <1>1, <1>2, LineAtKept

Acked(r) == {c \in ToSet(applied[r]) \union ToSet(in_queue[r]) : c.key = ACK}

BothOpen == \A p \in Peers : state[p] = OPEN

(* What is on its way to r stays in order, and survives in an open stream. *)
Travels(r) ==
  /\ LineAt(r)' /\ (BothOpen' => Survives(Reached(r), Reached(r)')) /\ Acked(r)' \subseteq Acked(r)

LEMMA SurvivesAll ==
  ASSUME NEW S, NEW T, S \subseteq T
  PROVE  Survives(S, T)
BY DEF Survives

LEMMA TravelsSame ==
  ASSUME NEW r \in Peers, LineAt(r), LeftKept, workload' = workload,
         applied'[r] = applied[r], in_queue'[r] = in_queue[r], wire'[r] = wire[r],
         pack'[Peer(r)].cmds = pack[Peer(r)].cmds
  PROVE  Travels(r)
<1>1. LineAt(r)' /\ Reached(r)' = Reached(r)
  BY LineAtSame
<1>2. Acked(r)' = Acked(r)
  BY DEF Acked
<1> QED BY <1>1, <1>2, SurvivesAll DEF Travels

LEMMA PushTravels ==
  ASSUME Base, LineInv, NEW p \in Peers, PushCmd(p), NEW r \in Peers
  PROVE  Travels(r)
<1>1. UNCHANGED <<workload, in_queue, applied, fps, pack, wire, state>>
  BY DEF PushCmd
<1>2. LeftKept
  BY LeftPushed DEF LeftKept
<1>3. LineAt(r)
  BY DEF LineInv
<1> QED BY <1>1, <1>2, <1>3, TravelsSame

LEMMA TakeTravels ==
  ASSUME Base, LineInv, NEW p \in Peers, TakeCmd(p), NEW r \in Peers
  PROVE  Travels(r)
<1>1. UNCHANGED <<workload, pushed, accepted, out_queue, fps, pack, wire, state>>
  BY DEF TakeCmd
<1>2. LeftKept /\ LineAt(r)
  BY <1>1, LeftSame DEF LineInv
<1>3. in_queue \in [Peers -> Seq(Got)] /\ applied \in [Peers -> Seq(Got)]
  BY DEF Base, Typed
<1>4. CASE r # p
  <2>1. in_queue'[r] = in_queue[r] /\ applied'[r] = applied[r]
    BY <1>3, <1>4 DEF TakeCmd
  <2> QED BY <1>1, <1>2, <2>1, TravelsSame
<1>5. CASE r = p
  <2>1. PICK A, q, w, k, R, B, u : /\ A = applied[r] /\ q = in_queue[r] /\ w = wire[r] /\ k = pack[Peer(r)].cmds
                                   /\ R = Later(r) /\ B = Append(A, Head(q)) /\ u = Tail(q)
    OBVIOUS
  <2>2. q # <<>> /\ applied'[r] = B /\ in_queue'[r] = u
    BY <1>3, <1>5, <2>1 DEF TakeCmd
  <2>3. Line(A, q, w, k, R)
    BY <1>2, <2>1 DEF LineAt
  <2>4. Line(B, u, w, k, R) /\ AllIn(B, u, w, k) = AllIn(A, q, w, k) /\ ToSet(B) \union ToSet(u) = ToSet(A) \union ToSet(q)
    <3>0. PICK h : h = Head(q)
      OBVIOUS
    <3>1. B = Added(A, h) /\ Taken(q, h, u)
      BY <2>1, <2>2, <3>0 DEF Added, Taken
    <3> QED BY <2>3, <3>1, LineTake
  <2>5. Reached(r) = AllIn(A, q, w, k) /\ Reached(r)' = AllIn(B, u, w, k)
    BY <1>1, <2>1, <2>2 DEF Reached
  <2>6. LineAt(r)'
    BY <1>1, <1>2, <2>1, <2>2, <2>4, <2>5, LineAtKept
  <2>7. Acked(r)' = Acked(r)
    BY <2>1, <2>2, <2>4 DEF Acked
  <2> QED BY <2>4, <2>5, <2>6, <2>7, SurvivesAll DEF Travels
<1> QED BY <1>4, <1>5

LEMMA HandleTravels ==
  ASSUME Base, LineInv, NEW p \in Peers, v_STREAM_handle_messages(p), NEW r \in Peers
  PROVE  Travels(r)
<1>1. UNCHANGED <<workload, pushed, accepted, out_queue, applied, state>>
  BY DEF v_STREAM_handle_messages
<1>2. LeftKept /\ LineAt(r)
  BY <1>1, LeftSame DEF LineInv
<1>3. in_queue \in [Peers -> Seq(Got)] /\ wire \in [Peers -> Seq(Messages)]
  BY DEF Base, Typed
<1>4. \A x \in Peers : pack'[x].cmds = pack[x].cmds
  <2>1. pack[p].phase \in {WAIT, TURN}
    BY DEF v_STREAM_handle_messages
  <2> QED BY <2>1, HandleKeeps, IdleSys, TurnedSound
<1>5. Peer(r) \in Peers
  BY PeerFacts
<1>6. CASE r # p
  <2>1. in_queue'[r] = in_queue[r] /\ wire'[r] = wire[r]
    BY <1>3, <1>6 DEF v_STREAM_handle_messages
  <2> QED BY <1>1, <1>2, <1>4, <1>5, <2>1, TravelsSame
<1>7. CASE r = p
  <2>1. PICK A, q, w, k, R, u, v : /\ A = applied[r] /\ q = in_queue[r] /\ w = wire[r] /\ k = pack[Peer(r)].cmds
                                   /\ R = Later(r) /\ u = v_cmd_unpack(q, Head(w).cmds) /\ v = Tail(w)
    OBVIOUS
  <2>2. w # <<>> /\ applied'[r] = A /\ in_queue'[r] = u /\ wire'[r] = v /\ pack'[Peer(r)].cmds = k
    BY <1>1, <1>3, <1>4, <1>5, <1>7, <2>1 DEF v_STREAM_handle_messages
  <2>3. Line(A, q, w, k, R)
    BY <1>2, <2>1 DEF LineAt
  <2>4. /\ Line(A, u, v, k, R) /\ AllIn(A, u, v, k) \subseteq AllIn(A, q, w, k)
        /\ Survives(AllIn(A, q, w, k), AllIn(A, u, v, k)) /\ ToSet(u) \subseteq ToSet(q) \union Sent
    BY <2>1, <2>2, <2>3, LineHandle
  <2>5. Reached(r) = AllIn(A, q, w, k) /\ Reached(r)' = AllIn(A, u, v, k)
    BY <2>1, <2>2 DEF Reached
  <2>6. LineAt(r)'
    BY <1>1, <1>2, <2>1, <2>2, <2>4, <2>5, LineAtKept
  <2>7. Acked(r)' \subseteq Acked(r)
    <3>1. Acked(r)' = {c \in ToSet(A) \union ToSet(u) : c.key = ACK} /\ Acked(r) = {c \in ToSet(A) \union ToSet(q) : c.key = ACK}
      BY <2>1, <2>2 DEF Acked
    <3>2. \A c \in Sent : c.key # ACK
      BY SentGot
    <3> QED BY <2>4, <3>1, <3>2
  <2> QED BY <2>4, <2>5, <2>6, <2>7 DEF Travels
<1> QED BY <1>6, <1>7

LEMMA WriteTravels ==
  ASSUME Base, LineInv, NEW p \in Peers, WriteMessage(p) \/ WriteFails(p), NEW r \in Peers
  PROVE  Travels(r)
<1>1. UNCHANGED <<workload, pushed, accepted, out_queue, in_queue, applied, fps>>
  BY DEF WriteMessage, WriteFails
<1>2. LeftKept /\ LineAt(r)
  BY <1>1, LeftSame DEF LineInv
<1>3. wire \in [Peers -> Seq(Messages)] /\ state \in [Peers -> States] /\ pack[p] \in Packs
  BY DEF Base, Typed
<1>4. pack'[p].cmds = <<>> /\ \A x \in Peers : x # p => pack'[x] = pack[x]
  BY WriteMessageKeeps, WriteFailsKeeps, TurnedSound
<1>5. Peer(p) \in Peers /\ Peer(r) \in Peers /\ (r # Peer(p) => Peer(r) # p) /\ (r = Peer(p) => Peer(r) = p)
  BY PeerFacts
<1>6. CASE r # Peer(p)
  <2>1. wire'[r] = wire[r] /\ pack'[Peer(r)] = pack[Peer(r)]
    BY <1>3, <1>4, <1>5, <1>6 DEF WriteMessage, WriteFails
  <2> QED BY <1>1, <1>2, <2>1, TravelsSame
<1>7. CASE r = Peer(p)
  <2>1. PICK A, q, w, k, R, l : /\ A = applied[r] /\ q = in_queue[r] /\ w = wire[r] /\ k = pack[Peer(r)].cmds
                                /\ R = Later(r) /\ l = <<>>
    OBVIOUS
  <2>2. applied'[r] = A /\ in_queue'[r] = q /\ pack'[Peer(r)].cmds = l /\ k = pack[p].cmds
    BY <1>1, <1>4, <1>5, <1>7, <2>1
  <2>3. Line(A, q, w, k, R)
    BY <1>2, <2>1 DEF LineAt
  <2>4. Acked(r)' = Acked(r)
    BY <1>1 DEF Acked
  <2>5. CASE WriteMessage(p) /\ state[r] = OPEN
    <3>1. PICK m : m = [sys |-> pack[p].sys, cmds |-> pack[p].cmds]
      OBVIOUS
    <3>2. m \in Messages /\ m.cmds = k
      <4>1. pack[p].sys \in SysCmds /\ pack[p].cmds \in Seq(Sent)
        BY <1>3 DEF Packs
      <4> QED BY <2>2, <3>1, <4>1 DEF Messages
    <3>3. PICK v : v = Append(w, m)
      OBVIOUS
    <3>4. wire'[r] = v
      BY <1>3, <1>5, <1>7, <2>1, <2>5, <3>1, <3>3 DEF WriteMessage
    <3>5. Line(A, q, v, l, R) /\ AllIn(A, q, v, l) = AllIn(A, q, w, k)
      <4>1. Carries(m, k) /\ l = <<>> /\ v = Added(w, m)
        BY <2>1, <3>2, <3>3 DEF Carries, Added
      <4> QED BY <2>3, <4>1, LineWrite
    <3>6. Reached(r) = AllIn(A, q, w, k) /\ Reached(r)' = AllIn(A, q, v, l)
      BY <2>1, <2>2, <3>4 DEF Reached
    <3>7. LineAt(r)'
      BY <1>1, <1>2, <2>1, <2>2, <3>4, <3>5, <3>6, LineAtKept
    <3> QED BY <2>4, <3>5, <3>6, <3>7, SurvivesAll DEF Travels
  <2>6. CASE WriteFails(p) \/ state[r] # OPEN
    <3>1. wire'[r] = w
      BY <1>3, <1>5, <1>7, <2>1, <2>6 DEF WriteMessage, WriteFails
    <3>2. Line(A, q, w, l, R) /\ AllIn(A, q, w, l) \subseteq AllIn(A, q, w, k)
      BY <2>1, <2>3, LineDrop
    <3>3. Reached(r) = AllIn(A, q, w, k) /\ Reached(r)' = AllIn(A, q, w, l)
      BY <2>1, <2>2, <3>1 DEF Reached
    <3>4. LineAt(r)'
      BY <1>1, <1>2, <2>1, <2>2, <3>1, <3>2, <3>3, LineAtKept
    <3>5. ~BothOpen'
      BY <1>3, <2>6 DEF BothOpen, WriteFails, WriteMessage, OPEN, FAILED
    <3> QED BY <2>4, <3>4, <3>5 DEF Travels
  <2> QED BY <2>5, <2>6
<1> QED BY <1>6, <1>7

LEMMA QuietTravels ==
  ASSUME Base, LineInv, NEW p \in Peers, NEW r \in Peers,
         \/ \E swin \in workload.windows : PackStart(p, swin)
         \/ PackNothing(p) \/ PackPrio(p) \/ PackBreak(p) \/ ReadEnd(p)
  PROVE  Travels(r)
<1>1. UNCHANGED <<workload, pushed, accepted, out_queue, in_queue, applied, wire>>
  BY DEF PackStart, PackNothing, PackPrio, PackBreak, ReadEnd
<1>2. LeftKept /\ LineAt(r) /\ Peer(r) \in Peers
  BY <1>1, LeftSame, PeerFacts DEF LineInv
<1>3. \A x \in Peers : pack'[x].cmds = pack[x].cmds
  <2>1. CASE \E swin \in workload.windows : PackStart(p, swin)
    <3>1. pack[p].phase \in {WAIT, TURN}
      BY <2>1 DEF PackStart
    <3> QED BY <2>1, <3>1, PackStartKeeps, IdleSys
  <2>2. CASE PackNothing(p)
    <3>1. pack[p].phase \in {WAIT, TURN}
      BY <2>2 DEF PackNothing
    <3> QED BY <2>2, <3>1, PackNothingKeeps, IdleSys, TurnedSound
  <2>3. CASE PackPrio(p) \/ PackBreak(p)
    BY <2>3, PackPrioKeeps, PackBreakKeeps
  <2>4. CASE ReadEnd(p)
    BY <2>4 DEF ReadEnd
  <2> QED BY <2>1, <2>2, <2>3, <2>4
<1> QED BY <1>1, <1>2, <1>3, TravelsSame

(* A popped command is put to the end of what is on its way, and so is the *)
(* acknowledgment of a create command.                                     *)
PopTravels(p, e) ==
  /\ LineAt(p)' /\ LineAt(Peer(p))'
  /\ Reached(p) \subseteq Reached(p)' /\ Reached(Peer(p)) \subseteq Reached(Peer(p))'
  /\ ~IsFake(e) => [key |-> e.key, ver |-> e.ver] \in Reached(Peer(p))'
  /\ Acked(Peer(p))' = Acked(Peer(p))
  /\ \A c \in Acked(p)' : c \in Acked(p) \/ (e.key = CREATE /\ c.ver = e.ver)

LEMMA LeftBefore ==
  ASSUME NEW p \in Peers, NEW e \in QueuedCmds(p), NEW v, Left(p, e.key, v),
         Cmd[e.key].dups \/ PrioOf(p, v) = PrioOf(p, e.ver)
  PROVE  v < e.ver
BY DEF Left

LEMMA FakeKeys ==
  ASSUME NEW e \in Entries
  PROVE  IsFake(e) <=> e.key \in {FPS, TERMINATE}
<1>1. e.key \in Keys
  BY EntryType
<1> QED BY <1>1, StreamAssumption DEF IsFake

LEMMA KeysApart == CREATE \notin {FPS, TERMINATE} /\ ACK # CREATE
BY DEF CREATE, FPS, TERMINATE, ACK

LEMMA PopOneTravels ==
  ASSUME Base, LineInv, NEW p \in Peers, NEW e, PopsOne(p, e)
  PROVE  PopTravels(p, e)
<1>1. /\ workload' = workload /\ applied' = applied /\ wire' = wire /\ in_queue' = Acks(p, e)
      /\ Packing(pack'[p], pack[p], e) /\ (\A x \in Peers : x # p => pack'[x] = pack[x]) /\ e \in Entries
  BY DEF PopsOne
<1>2. LeftKept /\ Left(p, e.key, e.ver)'
  BY LeftPopped DEF LeftKept
<1>3. PICK o \in Peers : o = Peer(p) /\ o # p /\ Peer(o) = p
  BY PeerFacts
<1>4. LineAt(p) /\ LineAt(o)
  BY DEF LineInv
<1>5. in_queue \in [Peers -> Seq(Got)]
  BY DEF Base, Typed
<1>6. /\ in_queue'[o] = in_queue[o] /\ (e.key # CREATE => in_queue'[p] = in_queue[p])
      /\ (e.key = CREATE => in_queue'[p] = Append(in_queue[p], [key |-> ACK, ver |-> e.ver]))
  BY <1>1, <1>3, <1>5, AcksType
<1>7. e \in QueuedCmds(p) /\ e.key \in Keys /\ e.ver \in Ids /\ e.key # ACK
  <2>1. e \in QueuedCmds(p) /\ e.key \in Keys /\ e.ver \in Ids
    BY <1>1, PoppedCmds, EntryType
  <2> QED BY <2>1, StreamAssumption
<1>8. LineAt(o)' /\ Reached(o) \subseteq Reached(o)' /\ (~IsFake(e) => [key |-> e.key, ver |-> e.ver] \in Reached(o)')
      /\ Acked(o)' = Acked(o)
  <2>1. Acked(o)' = Acked(o)
    BY <1>1, <1>6 DEF Acked
  <2>2. CASE IsFake(e)
    <3>1. pack'[Peer(o)].cmds = pack[Peer(o)].cmds
      BY <1>1, <1>3, <2>2 DEF Packing
    <3> QED BY <1>1, <1>2, <1>4, <1>6, <2>1, <2>2, <3>1, LineAtSame
  <2>3. CASE ~IsFake(e)
    <3>1. PICK c : c = [key |-> e.key, ver |-> e.ver]
      OBVIOUS
    <3>2. c \in Sent /\ c \in Got /\ c.key = e.key /\ c.ver = e.ver
      BY <1>7, <3>1 DEF Sent, Got
    <3>3. PICK A, q, w, k, R, l : /\ A = applied[o] /\ q = in_queue[o] /\ w = wire[o] /\ k = pack[Peer(o)].cmds
                                  /\ R = Later(o) /\ l = Append(k, c)
      OBVIOUS
    <3>4. applied'[o] = A /\ in_queue'[o] = q /\ wire'[o] = w /\ pack'[Peer(o)].cmds = l
      BY <1>1, <1>3, <1>6, <2>3, <3>1, <3>3 DEF Packing
    <3>5. Line(A, q, w, k, R)
      BY <1>4, <3>3 DEF LineAt
    <3>6. Reached(o) = AllIn(A, q, w, k) /\ Reached(o)' = AllIn(A, q, w, l)
      BY <3>3, <3>4 DEF Reached
    <3>7. AllIn(A, q, w, k) \subseteq Got
      <4>1. A \in Seq(Got) /\ q \in Seq(Got) /\ w \in Seq(Messages) /\ k \in Seq(Sent)
        BY <3>5 DEF Line
      <4>2. ToSet(A) \subseteq Got /\ ToSet(q) \subseteq Got /\ FlightSet(w, k) \subseteq Got
        BY <4>1, SeqElements, FlightSent, SentGot
      <4> QED BY <4>2 DEF AllIn
    <3>8. ASSUME NEW x \in AllIn(A, q, w, k) PROVE c \in R[x]
      <4>1. x \in Got /\ x \in Reached(o)
        BY <3>6, <3>7
      <4>2. ASSUME x.key = c.key, SamePrio(o, x, c) \/ (x.key # ACK /\ Cmd[x.key].dups) PROVE x.ver < c.ver
        <5>1. x.key = e.key /\ x.key # ACK
          BY <1>7, <3>2, <4>2
        <5>2. Origin(o, x) = p /\ RealKey(x) = e.key
          BY <1>3, <5>1 DEF Origin, RealKey
        <5>3. PICK v : v = x.ver
          OBVIOUS
        <5>4. Left(Origin(o, x), RealKey(x), v)
          BY <1>4, <4>1, <5>3 DEF LineAt
        <5>5. Left(p, e.key, v)
          BY <5>2, <5>4
        <5>6. Cmd[e.key].dups \/ PrioOf(p, v) = PrioOf(p, e.ver)
          BY <1>3, <3>2, <4>2, <5>1, <5>3 DEF SamePrio
        <5>7. v < e.ver
          BY <1>7, <5>5, <5>6, LeftBefore
        <5> QED BY <3>2, <5>3, <5>7
      <4> QED BY <3>2, <3>3, <4>1, <4>2, LaterDef
    <3>9. Line(A, q, w, l, R) /\ AllIn(A, q, w, l) = AllIn(A, q, w, k) \union {c}
      <4>1. l = Added(k, c) /\ c \in Sent
        BY <3>2, <3>3 DEF Added
      <4> QED BY <3>5, <3>8, <4>1, LinePack
    <3>10. Line(applied'[o], in_queue'[o], wire'[o], pack'[Peer(o)].cmds, Later(o))
      BY <3>3, <3>4, <3>9
    <3>11. ASSUME NEW x \in Reached(o)' PROVE Left(Origin(o, x), RealKey(x), x.ver)'
      <4>1. PICK s, key, v : s = Origin(o, x) /\ key = RealKey(x) /\ v = x.ver
        OBVIOUS
      <4>2. CASE x = c
        <5>1. s = p /\ key = e.key /\ v = e.ver
          BY <1>3, <1>7, <3>2, <4>1, <4>2 DEF Origin, RealKey
        <5>2. Left(s, key, v)'
          BY <1>2, <5>1
        <5> QED BY <4>1, <5>2
      <4>3. CASE x \in Reached(o)
        <5>1. Left(s, key, v) /\ s \in Peers
          BY <1>4, <4>1, <4>3, OriginPeer DEF LineAt
        <5>2. Left(s, key, v)'
          BY <1>2, <5>1 DEF LeftKept
        <5> QED BY <4>1, <5>2
      <4> QED BY <3>6, <3>9, <4>2, <4>3
    <3>12. Later(o)' = Later(o)
      BY <1>1, LaterSame
    <3>13. LineAt(o)'
      BY <3>10, <3>11, <3>12 DEF LineAt
    <3> QED BY <2>1, <3>1, <3>6, <3>9, <3>13
  <2> QED BY <2>2, <2>3
<1>9. /\ LineAt(p)' /\ Reached(p) \subseteq Reached(p)'
      /\ \A c \in Acked(p)' : c \in Acked(p) \/ (e.key = CREATE /\ c.ver = e.ver)
  <2>1. pack'[Peer(p)] = pack[Peer(p)]
    BY <1>1, <1>3
  <2>2. CASE e.key # CREATE
    <3>1. Acked(p)' = Acked(p)
      BY <1>1, <1>6, <2>2 DEF Acked
    <3> QED BY <1>1, <1>2, <1>4, <1>6, <2>1, <2>2, <3>1, LineAtSame
  <2>3. CASE e.key = CREATE
    <3>1. PICK c : c = [key |-> ACK, ver |-> e.ver]
      OBVIOUS
    <3>2. c \in Got /\ c.key = ACK /\ c.ver = e.ver
      BY <1>7, <3>1 DEF Got
    <3>3. PICK A, q, w, k, R, u : /\ A = applied[p] /\ q = in_queue[p] /\ w = wire[p] /\ k = pack[Peer(p)].cmds
                                  /\ R = Later(p) /\ u = Append(q, c)
      OBVIOUS
    <3>4. applied'[p] = A /\ in_queue'[p] = u /\ wire'[p] = w /\ pack'[Peer(p)].cmds = k
      BY <1>1, <1>6, <2>1, <2>3, <3>1, <3>3
    <3>5. Line(A, q, w, k, R)
      BY <1>4, <3>3 DEF LineAt
    <3>6. Reached(p) = AllIn(A, q, w, k) /\ Reached(p)' = AllIn(A, u, w, k)
      BY <3>3, <3>4 DEF Reached
    <3>7. ToSet(A) \union ToSet(q) \subseteq Got
      <4>1. A \in Seq(Got) /\ q \in Seq(Got)
        BY <3>5 DEF Line
      <4> QED BY <4>1, SeqElements
    <3>8. ASSUME NEW x \in ToSet(A) \union ToSet(q) PROVE c \in R[x]
      <4>1. x \in Got /\ x \in Reached(p)
        BY <3>6, <3>7 DEF AllIn
      <4>2. ASSUME x.key = c.key, SamePrio(p, x, c) \/ (x.key # ACK /\ Cmd[x.key].dups) PROVE x.ver < c.ver
        <5>1. x.key = ACK
          BY <3>2, <4>2
        <5>2. Origin(p, x) = p /\ RealKey(x) = e.key
          BY <2>3, <5>1 DEF Origin, RealKey
        <5>3. PICK v : v = x.ver
          OBVIOUS
        <5>4. Left(Origin(p, x), RealKey(x), v)
          BY <1>4, <4>1, <5>3 DEF LineAt
        <5>5. Left(p, e.key, v)
          BY <5>2, <5>4
        <5>6. PrioOf(p, v) = PrioOf(p, e.ver)
          BY <3>2, <4>2, <5>1, <5>3 DEF SamePrio
        <5>7. v < e.ver
          BY <1>7, <5>5, <5>6, LeftBefore
        <5> QED BY <3>2, <5>3, <5>7
      <4> QED BY <3>2, <3>3, <4>1, <4>2, LaterDef
    <3>9. Line(A, u, w, k, R) /\ AllIn(A, u, w, k) = AllIn(A, q, w, k) \union {c} /\ ToSet(u) = ToSet(q) \union {c}
      <4>1. u = Added(q, c) /\ c \in Got /\ c.key = ACK
        BY <3>2, <3>3 DEF Added
      <4> QED BY <3>5, <3>8, <4>1, LineAck
    <3>10. Line(applied'[p], in_queue'[p], wire'[p], pack'[Peer(p)].cmds, Later(p))
      BY <3>3, <3>4, <3>9
    <3>11. ASSUME NEW x \in Reached(p)' PROVE Left(Origin(p, x), RealKey(x), x.ver)'
      <4>1. PICK s, key, v : s = Origin(p, x) /\ key = RealKey(x) /\ v = x.ver
        OBVIOUS
      <4>2. CASE x = c
        <5>1. s = p /\ key = e.key /\ v = e.ver
          BY <2>3, <3>2, <4>1, <4>2 DEF Origin, RealKey
        <5>2. Left(s, key, v)'
          BY <1>2, <5>1
        <5> QED BY <4>1, <5>2
      <4>3. CASE x \in Reached(p)
        <5>1. Left(s, key, v) /\ s \in Peers
          BY <1>4, <4>1, <4>3, OriginPeer DEF LineAt
        <5>2. Left(s, key, v)'
          BY <1>2, <5>1 DEF LeftKept
        <5> QED BY <4>1, <5>2
      <4> QED BY <3>6, <3>9, <4>2, <4>3
    <3>12. Later(p)' = Later(p)
      BY <1>1, LaterSame
    <3>13. LineAt(p)'
      BY <3>10, <3>11, <3>12 DEF LineAt
    <3>14. \A x \in Acked(p)' : x \in Acked(p) \/ x.ver = e.ver
      <4>1. Acked(p)' = {x \in ToSet(A) \union ToSet(u) : x.key = ACK} /\ Acked(p) = {x \in ToSet(A) \union ToSet(q) : x.key = ACK}
        BY <3>3, <3>4 DEF Acked
      <4> QED BY <3>2, <3>9, <4>1
    <3> QED BY <2>3, <3>6, <3>9, <3>13, <3>14
  <2> QED BY <2>2, <2>3
<1> QED BY <1>3, <1>8, <1>9 DEF PopTravels

LEMMA LineInit0 ==
  ASSUME Init
  PROVE  LineInv
<1> SUFFICES ASSUME NEW r \in Peers PROVE LineAt(r)
  BY DEF LineInv
<1>1. Peer(r) \in Peers
  BY PeerFacts
<1>2. applied[r] = <<>> /\ in_queue[r] = <<>> /\ wire[r] = <<>> /\ pack[Peer(r)].cmds = <<>>
  BY <1>1, TurnedSound DEF Init
<1>3. PICK R : R = Later(r)
  OBVIOUS
<1>4. RelSound(R)
  BY <1>3, LaterSound
<1>5. Line(<<>>, <<>>, <<>>, <<>>, R) /\ AllIn(<<>>, <<>>, <<>>, <<>>) = {}
  BY <1>4, LineInit
<1>6. Reached(r) = {}
  BY <1>2, <1>5 DEF Reached
<1>7. Line(applied[r], in_queue[r], wire[r], pack[Peer(r)].cmds, Later(r))
  BY <1>2, <1>3, <1>5
<1> QED BY <1>6, <1>7 DEF LineAt

(* Every step but popping a command.                                       *)
Others(p) ==
  \/ PushCmd(p) \/ TakeCmd(p) \/ v_STREAM_handle_messages(p) \/ WriteMessage(p) \/ WriteFails(p)
  \/ (\E swin \in workload.windows : PackStart(p, swin))
  \/ PackNothing(p) \/ PackPrio(p) \/ PackBreak(p) \/ ReadEnd(p)

LEMMA NextSteps ==
  ASSUME [Next]_vars
  PROVE  UNCHANGED vars \/ \E p \in Peers : Others(p) \/ PackPop(p)
BY DEF Next, v_STREAM_pack_message, Others

LEMMA OthersTravel ==
  ASSUME Base, LineInv, NEW p \in Peers, Others(p), NEW r \in Peers
  PROVE  Travels(r)
<1>1. CASE PushCmd(p)
  BY <1>1, PushTravels
<1>2. CASE TakeCmd(p)
  BY <1>2, TakeTravels
<1>3. CASE v_STREAM_handle_messages(p)
  BY <1>3, HandleTravels
<1>4. CASE WriteMessage(p) \/ WriteFails(p)
  BY <1>4, WriteTravels
<1>5. CASE \/ \E swin \in workload.windows : PackStart(p, swin)
           \/ PackNothing(p) \/ PackPrio(p) \/ PackBreak(p) \/ ReadEnd(p)
  BY <1>5, QuietTravels
<1> QED BY <1>1, <1>2, <1>3, <1>4, <1>5 DEF Others

LEMMA LineStep ==
  ASSUME Base, LineInv, [Next]_vars
  PROVE  LineInv'
<1> SUFFICES ASSUME NEW r \in Peers PROVE LineAt(r)'
  BY DEF LineInv
<1>1. CASE UNCHANGED vars
  <2>1. UNCHANGED <<workload, accepted, out_queue, applied, in_queue, wire, pack>>
    BY <1>1 DEF vars
  <2>2. LeftKept /\ LineAt(r)
    BY <2>1, LeftSame DEF LineInv
  <2> QED BY <2>1, <2>2, LineAtSame
<1>2. ASSUME NEW p \in Peers, Others(p) PROVE LineAt(r)'
  BY <1>2, OthersTravel DEF Travels
<1>3. ASSUME NEW p \in Peers, PackPop(p) PROVE LineAt(r)'
  <2>1. PICK e : PopsOne(p, e)
    BY <1>3, PackPopKeeps
  <2>2. PopTravels(p, e)
    BY <2>1, PopOneTravels
  <2> QED BY <2>2, PeerFacts DEF PopTravels
<1> QED BY <1>1, <1>2, <1>3, NextSteps

(* The sequence that arrives is the line.                                  *)
LEMMA SentSeq ==
  ASSUME NEW k \in Seq(Sent)
  PROVE  k \in Seq(Got)
<1>1. k \in [1..Len(k) -> Sent] /\ Len(k) \in Nat
  BY LenProperties
<1>2. k \in [1..Len(k) -> Got]
  BY <1>1, SentGot
<1> QED BY <1>1, <1>2

FlatOf(w) == FlattenSeq([n \in DOMAIN w |-> w[n].cmds])

LEMMA FlatFacts ==
  ASSUME NEW w \in Seq(Messages), NEW k, NEW R, Flight(w, k, R)
  PROVE  /\ FlatOf(w) \in Seq(Got) /\ Ordered(FlatOf(w), R)
         /\ ToSet(FlatOf(w)) = UNION {ToSet(w[i].cmds) : i \in DOMAIN w}
         /\ Follows(ToSet(FlatOf(w)), ToSet(k), R)
<1>1. PICK n, s : n = Len(w) /\ s = [i \in 1..n |-> w[i].cmds]
  OBVIOUS
<1>2. n \in Nat /\ DOMAIN w = 1..n /\ \A i \in 1..n : w[i].cmds \in Seq(Sent)
  BY <1>1, MessageFacts
<1>3. s \in [1..n -> Seq(Got)] /\ \A i \in 1..n : s[i] = w[i].cmds
  BY <1>1, <1>2, SentSeq
<1>4. FlatOf(w) = FlattenSeq(s)
  BY <1>1, <1>2 DEF FlatOf
<1>5. CASE n = 0
  <2>1. s = <<>>
    <3>1. 1..n = {}
      BY <1>5
    <3> QED BY <1>1, <3>1
  <2>2. FlattenSeq(s) = <<>>
    BY <2>1 DEF FlattenSeq
  <2>3. UNION {ToSet(w[i].cmds) : i \in DOMAIN w} = {}
    BY <1>2, <1>5
  <2>4. PICK f, z : f = FlatOf(w) /\ z = <<>>
    OBVIOUS
  <2>5. f = z
    BY <1>4, <2>2, <2>4
  <2>6. z \in Seq(Got) /\ Len(z) = 0 /\ DOMAIN z = {} /\ ToSet(z) = {}
    BY <2>4, NothingIn
  <2>7. Ordered(z, R)
    BY <2>6 DEF Ordered
  <2>8. Follows(ToSet(z), ToSet(k), R)
    BY <2>6 DEF Follows
  <2> QED BY <2>3, <2>4, <2>5, <2>6, <2>7, <2>8
<1>6. CASE n # 0
  <2>1. FlattenSeq(s) \in Seq(Got) /\ ToSet(FlattenSeq(s)) = UNION {ToSet(s[i]) : i \in 1..n}
    BY <1>2, <1>3, <1>6, FlattenElements, ZenonT(60)
  <2>2. UNION {ToSet(s[i]) : i \in 1..n} = UNION {ToSet(w[i].cmds) : i \in DOMAIN w}
    BY <1>2, <1>3
  <2>3. \A i \in 1..n : Ordered(s[i], R) /\ Follows(ToSet(s[i]), ToSet(k), R)
    BY <1>2, <1>3 DEF Flight
  <2>4. \A i, j \in 1..n : i < j => Follows(ToSet(s[i]), ToSet(s[j]), R)
    BY <1>2, <1>3 DEF Flight
  <2>5. Ordered(FlattenSeq(s), R)
    BY <1>2, <1>3, <1>6, <2>3, <2>4, FlattenOrdered
  <2>6. Follows(ToSet(FlattenSeq(s)), ToSet(k), R)
    BY <2>1, <2>3 DEF Follows
  <2> QED BY <1>4, <2>1, <2>2, <2>5, <2>6
<1> QED BY <1>5, <1>6

LEMMA LineArrives ==
  ASSUME NEW A, NEW q, NEW w, NEW k, NEW R, Line(A, q, w, k, R), NEW a, a = A \o q \o FlatOf(w) \o k
  PROVE  a \in Seq(Got) /\ Ordered(a, R) /\ ToSet(a) = AllIn(A, q, w, k)
<1>1. /\ A \in Seq(Got) /\ q \in Seq(Got) /\ w \in Seq(Messages) /\ k \in Seq(Sent)
      /\ Ordered(A, R) /\ Ordered(q, R) /\ Follows(ToSet(A), ToSet(q), R)
      /\ Flight(w, k, R) /\ Follows(ToSet(A) \union ToSet(q), FlightSet(w, k), R) /\ Ordered(k, R)
  BY DEF Line, Lined, Flight
<1>2. PICK F : F = FlatOf(w)
  OBVIOUS
<1>3. /\ F \in Seq(Got) /\ Ordered(F, R) /\ ToSet(F) = UNION {ToSet(w[i].cmds) : i \in DOMAIN w}
      /\ Follows(ToSet(F), ToSet(k), R)
  BY <1>1, <1>2, FlatFacts
<1>4. k \in Seq(Got) /\ FlightSet(w, k) = ToSet(F) \union ToSet(k)
  BY <1>1, <1>3, SentSeq DEF FlightSet
<1>5. PICK b, c : b = A \o q /\ c = b \o F
  OBVIOUS
<1>6. b \in Seq(Got) /\ ToSet(b) = ToSet(A) \union ToSet(q) /\ Ordered(b, R)
  BY <1>1, <1>5, ConcatElements, OrderedConcat
<1>7. c \in Seq(Got) /\ ToSet(c) = ToSet(b) \union ToSet(F) /\ Ordered(c, R)
  <2>1. Follows(ToSet(b), ToSet(F), R)
    BY <1>1, <1>4, <1>6 DEF Follows
  <2>2. c = b \o F
    BY <1>5
  <2>3. c \in Seq(Got) /\ ToSet(c) = ToSet(b) \union ToSet(F)
    BY <1>3, <1>6, <2>2, ConcatElements
  <2>4. Ordered(c, R)
    BY <1>3, <1>6, <2>1, <2>2, OrderedConcat
  <2> QED BY <2>3, <2>4
<1>8. a = c \o k
  BY <1>2, <1>5
<1>9. Follows(ToSet(c), ToSet(k), R)
  BY <1>1, <1>3, <1>4, <1>6, <1>7 DEF Follows
<1>10. a \in Seq(Got) /\ ToSet(a) = ToSet(c) \union ToSet(k) /\ Ordered(a, R)
  <2>1. a \in Seq(Got) /\ ToSet(a) = ToSet(c) \union ToSet(k)
    BY <1>4, <1>7, <1>8, ConcatElements
  <2>2. Ordered(a, R)
    BY <1>1, <1>4, <1>7, <1>8, <1>9, OrderedConcat
  <2> QED BY <2>1, <2>2
<1> QED BY <1>4, <1>6, <1>7, <1>10 DEF AllIn

LEMMA ArrivingLine ==
  ASSUME LineInv, NEW p \in Peers
  PROVE  Arriving(p) \in Seq(Got) /\ Ordered(Arriving(p), Later(p)) /\ ToSet(Arriving(p)) = Reached(p)
<1>1. PICK A, q, w, k, R, a : /\ A = applied[p] /\ q = in_queue[p] /\ w = wire[p] /\ k = pack[Peer(p)].cmds
                              /\ R = Later(p) /\ a = A \o q \o FlatOf(w) \o k
  OBVIOUS
<1>2. a = Arriving(p)
  BY <1>1 DEF Arriving, FlatOf
<1>3. Line(A, q, w, k, R)
  BY <1>1 DEF LineInv, LineAt
<1>4. a = A \o q \o FlatOf(w) \o k
  BY <1>1
<1>5. a \in Seq(Got) /\ Ordered(a, R) /\ ToSet(a) = AllIn(A, q, w, k)
  BY <1>3, <1>4, LineArrives
<1> QED BY <1>1, <1>2, <1>5 DEF Reached

LEMMA LineOrder ==
  ASSUME LineInv
  PROVE  ValuesInOrder
<1> SUFFICES ASSUME NEW p \in Peers, NEW a, a = Arriving(p), NEW m \in DOMAIN a, NEW n \in DOMAIN a,
                    m < n, a[m].key = a[n].key,
                    SamePrio(p, a[m], a[n]) \/ (a[m].key # ACK /\ Cmd[a[m].key].dups)
             PROVE  a[m].ver < a[n].ver
  BY DEF ValuesInOrder
<1>1. a \in Seq(Got) /\ Ordered(a, Later(p))
  BY ArrivingLine
<1>2. PICK c, d : c = a[m] /\ d = a[n]
  OBVIOUS
<1>3. c \in Got /\ d \in Got
  BY <1>1, <1>2, SeqElements
<1>4. d \in Later(p)[c]
  BY <1>1, <1>2 DEF Ordered
<1> QED BY <1>2, <1>3, <1>4, LaterDef

(* A request to terminate leaves the queue after all that waited in its    *)
(* list.                                                                   *)
LEMMA TermStep ==
  ASSUME Base, TerminateLast, [Next]_vars
  PROVE  TerminateLast'
<1> DEFINE C == CLIENT
<1>1. C \in Peers
  BY BothPeers
<1> HIDE DEF C
<1>2. ~Cmd[TERMINATE].dups
  BY StreamAssumption
<1> SUFFICES ASSUME NEW n \in accepted'[C], KeyOf(C, n)' = TERMINATE, ~Waits(C, n)',
                    NEW m \in accepted'[C], m < n, PrioOf(C, m)' = PrioOf(C, n)', Waits(C, m)'
             PROVE  FALSE
  BY DEF TerminateLast, C
<1>3. workload' = workload
  BY DEF Next, vars, PushCmd, TakeCmd, v_STREAM_pack_message, PackStart, PackNothing, PackPrio, PackPop, PackBreak,
         WriteMessage, WriteFails, v_STREAM_handle_messages, ReadEnd
<1>4. KeyOf(C, n) = TERMINATE /\ PrioOf(C, m) = PrioOf(C, n)
  BY <1>3 DEF KeyOf, PrioOf
<1>5. PICK f \in QueuedCmds(C)' : f.ver = m
  BY DEF Waits
<1>6. CASE accepted'[C] = accepted[C] /\ QueuedCmds(C)' = QueuedCmds(C)
  BY <1>4, <1>5, <1>6 DEF TerminateLast, Waits, C
<1>7. CASE PushCmd(C)
  <2>1. PICK v : v = pushed[C] + 1
    OBVIOUS
  <2>2. CASE accepted'[C] = accepted[C] \union {v} /\ Pushes(QueuedCmds(C), QueuedCmds(C)', v, KeyOf(C, v))
    <3>1. n # v
      <4>1. \E x \in QueuedCmds(C)' : x.ver = v
        BY <2>2 DEF Pushes
      <4> QED BY <4>1 DEF Waits
    <3>2. n \in accepted[C] /\ n < v /\ n \in Nat
      BY <1>1, <2>1, <2>2, <3>1, AcceptedFacts
    <3>3. ~Waits(C, n)
      <4> SUFFICES ASSUME NEW g \in QueuedCmds(C), g.ver = n PROVE FALSE
        BY DEF Waits
      <4>1. g.key = TERMINATE
        BY <1>1, <1>4, QueuedFacts
      <4>2. \E x \in QueuedCmds(C)' : x.ver = g.ver
        BY <1>2, <2>2, <4>1 DEF Pushes
      <4> QED BY <4>2 DEF Waits
    <3>4. m # v /\ m \in accepted[C]
      <4>1. m # v
        <5> SUFFICES ASSUME m = v PROVE FALSE
          OBVIOUS
        <5>1. v < n /\ n < v
          BY <3>2
        <5>2. v \in Nat
          BY <1>1, <1>7, <2>1, PushedCmds
        <5> QED BY <3>2, <5>1, <5>2
      <4> QED BY <2>2, <4>1
    <3>5. Waits(C, m)
      BY <1>5, <2>2, <3>4 DEF Pushes, Waits
    <3> QED BY <1>4, <3>2, <3>3, <3>4, <3>5 DEF TerminateLast, C
  <2> QED BY <1>1, <1>6, <1>7, <2>1, <2>2, PushedCmds
<1>8. CASE PackPop(C)
  <2>1. PICK e : PopsOne(C, e)
    BY <1>1, <1>8, PackPopKeeps
  <2>2. /\ e \in QueuedCmds(C) /\ QueuedCmds(C)' = QueuedCmds(C) \ {e}
        /\ (\A g \in QueuedCmds(C)' : PrioOf(C, g.ver) = PrioOf(C, e.ver) => e.id < g.id)
    BY <1>1, <2>1, PoppedCmds
  <2>3. accepted' = accepted
    BY <2>1 DEF PopsOne
  <2>4. Waits(C, m)
    BY <1>5, <2>2 DEF Waits
  <2>5. Waits(C, n)
    BY <1>4, <2>3, <2>4 DEF TerminateLast, C
  <2>6. e.ver = n
    <3>1. PICK g \in QueuedCmds(C) : g.ver = n
      BY <2>5 DEF Waits
    <3>2. g = e
      BY <2>2, <3>1 DEF Waits
    <3> QED BY <3>1, <3>2
  <2>7. e.key = TERMINATE /\ e.id = n
    BY <1>1, <1>2, <1>4, <2>2, <2>6, QueuedFacts
  <2>8. e.id < f.id
    BY <1>4, <1>5, <2>2, <2>6
  <2>9. f \in QueuedCmds(C)
    BY <2>2
  <2>10. f.id <= m /\ f.id \in Nat /\ m \in Nat /\ n \in Nat
    BY <1>1, <1>5, <2>2, <2>6, <2>9, QueuedFacts
  <2> QED BY <2>7, <2>8, <2>10
<1>9. ASSUME NEW p \in Peers, Others(p) \/ PackPop(p), ~(PushCmd(C) \/ PackPop(C))
      PROVE  accepted'[C] = accepted[C] /\ QueuedCmds(C)' = QueuedCmds(C)
  <2>1. CASE PushCmd(p)
    <3>1. p # C
      BY <1>9, <2>1
    <3> QED BY <1>1, <2>1, <3>1, PushedCmds
  <2>2. CASE PackPop(p)
    <3>1. p # C
      BY <1>9, <2>2
    <3>2. PICK e : PopsOne(p, e)
      BY <2>2, PackPopKeeps
    <3> QED BY <1>1, <3>1, <3>2, PoppedCmds DEF PopsOne
  <2>3. CASE ~PushCmd(p) /\ ~PackPop(p)
    <3>1. accepted' = accepted /\ out_queue' = out_queue
      BY <1>9, <2>3 DEF Others, TakeCmd, PackStart, PackNothing, PackPrio, PackBreak,
         WriteMessage, WriteFails, v_STREAM_handle_messages, ReadEnd
    <3> QED BY <3>1 DEF QueuedCmds
  <2> QED BY <2>1, <2>2, <2>3
<1>10. CASE UNCHANGED vars
  <2>1. accepted' = accepted /\ out_queue' = out_queue
    BY <1>10 DEF vars
  <2> QED BY <1>6, <2>1 DEF QueuedCmds
<1> QED BY <1>6, <1>7, <1>8, <1>9, <1>10, NextSteps

(* Both queues keep the order that matters: the values of an address       *)
(* arrive in the order in which they were pushed, whatever is replaced,    *)
(* moved to another priority, cut into messages or unpacked meanwhile, and *)
(* a request to terminate leaves after what waited before it (v_stream.c,  *)
(* v_out_queue.c, v_in_queue.c).                                           *)
THEOREM OrderIsKept == Spec => []OrderKept
<1>1. Init => Base /\ LineInv /\ TerminateLast
  <2>1. Init => TerminateLast
    BY BothPeers DEF Init, TerminateLast
  <2> QED BY <2>1, BaseInit, LineInit0
<1>2. Base /\ LineInv /\ TerminateLast /\ [Next]_vars => Base' /\ LineInv' /\ TerminateLast'
  BY BaseStep, LineStep, TermStep
<1>3. Base /\ LineInv /\ TerminateLast => OrderKept
  BY LineOrder DEF OrderKept
<1> QED BY <1>1, <1>2, <1>3, PTL DEF Spec

-----------------------------------------------------------------------------
(* Nothing is lost.  A command that was taken is somewhere in the stream,  *)
(* or a newer value of its address is, as long as both peers are open.     *)
Real(p, n) == KeyOf(p, n) \notin {FPS, TERMINATE}

There(p, n) == Waits(p, n) \/ \E c \in Reached(Peer(p)) : c.key = KeyOf(p, n) /\ c.ver = n

Heir(p, n, m) ==
  m \in accepted[p] /\ n <= m /\ (m = n \/ (Cmd[KeyOf(p, n)].dups /\ KeyOf(p, m) = KeyOf(p, n)))

Safe(p) == \A n \in accepted[p] : Real(p, n) => \E m : Heir(p, n, m) /\ There(p, m)

Truthful(p) == \A c \in Acked(p) : \E d \in Reached(Peer(p)) : d.key = CREATE /\ d.ver = c.ver

OpenInv == BothOpen => \A p \in Peers : Safe(p) /\ Truthful(p)

MovesOn(p) ==
  /\ \A m \in accepted[p] : Real(p, m) /\ There(p, m) => \E k : Heir(p, m, k)' /\ There(p, k)'
  /\ \A n \in accepted'[p] : n \in accepted[p] \/ There(p, n)'

LEMMA OpenBefore ==
  ASSUME Base, [Next]_vars
  PROVE  BothOpen' => BothOpen /\ workload' = workload
<1>1. state \in [Peers -> States]
  BY DEF Base, Typed
<1> SUFFICES ASSUME BothOpen', NEW r \in Peers PROVE state[r] = OPEN /\ workload' = workload
  BY BothPeers DEF BothOpen
<1>2. state'[r] = OPEN
  BY DEF BothOpen
<1>3. CASE UNCHANGED vars
  BY <1>2, <1>3 DEF vars
<1>4. ASSUME NEW p \in Peers, Others(p) PROVE state[r] = OPEN /\ workload' = workload
  BY <1>1, <1>2, <1>4 DEF Others, PushCmd, TakeCmd, PackStart, PackNothing, PackPrio, PackBreak, WriteMessage,
     WriteFails, v_STREAM_handle_messages, ReadEnd, OPEN, CLOSING, FAILED
<1>5. ASSUME NEW p \in Peers, PackPop(p) PROVE state[r] = OPEN /\ workload' = workload
  <2>1. PICK e : PopsOne(p, e)
    BY <1>5, PackPopKeeps
  <2>2. state' = [state EXCEPT ![p] = IF e.key = TERMINATE THEN CLOSING ELSE @] /\ workload' = workload
    BY <2>1 DEF PopsOne
  <2> QED BY <1>1, <1>2, <2>2 DEF OPEN, CLOSING
<1> QED BY <1>3, <1>4, <1>5, NextSteps

LEMMA SafeKept ==
  ASSUME Base, Base', workload' = workload, NEW p \in Peers, Safe(p), MovesOn(p)
  PROVE  Safe(p)'
<1>1. accepted[p] \subseteq Nat /\ accepted'[p] \subseteq Nat
  BY DEF Base, Typed
<1>2. \A n : KeyOf(p, n)' = KeyOf(p, n) /\ Real(p, n)' = Real(p, n)
  BY DEF KeyOf, Real
<1> SUFFICES ASSUME NEW n \in accepted'[p], Real(p, n) PROVE \E k : Heir(p, n, k)' /\ There(p, k)'
  BY <1>2 DEF Safe
<1>3. CASE n \notin accepted[p]
  <2>1. There(p, n)'
    BY <1>3 DEF MovesOn
  <2>2. n <= n
    BY <1>1
  <2>3. Heir(p, n, n)'
    BY <2>2 DEF Heir
  <2> QED BY <2>1, <2>3
<1>4. CASE n \in accepted[p]
  <2>1. PICK m : Heir(p, n, m) /\ There(p, m)
    BY <1>4 DEF Safe
  <2>2. m \in accepted[p] /\ Real(p, m)
    BY <2>1 DEF Heir, Real
  <2>3. PICK k : Heir(p, m, k)' /\ There(p, k)'
    BY <2>1, <2>2 DEF MovesOn
  <2>4. k \in accepted'[p] /\ n <= m /\ m <= k
    BY <2>1, <2>3 DEF Heir
  <2>5. n <= k
    BY <1>1, <2>2, <2>4
  <2>6. k = n \/ (Cmd[KeyOf(p, n)].dups /\ KeyOf(p, k) = KeyOf(p, n))
    BY <1>2, <2>1, <2>3 DEF Heir
  <2>7. Heir(p, n, k)'
    BY <1>2, <2>4, <2>5, <2>6 DEF Heir
  <2> QED BY <2>3, <2>7
<1> QED BY <1>3, <1>4

(* A command that has come so far goes on, or is replaced by its heir.     *)
LEMMA ReachedMoves ==
  ASSUME Base, Base', workload' = workload, NEW p \in Peers, accepted[p] \subseteq accepted'[p],
         LineAt(Peer(p))', Survives(Reached(Peer(p)), Reached(Peer(p))'),
         NEW m \in accepted[p], NEW c \in Reached(Peer(p)), c.key = KeyOf(p, m), c.ver = m
  PROVE  \E k : Heir(p, m, k)' /\ There(p, k)'
<1>1. m \in accepted'[p] /\ m \in Nat
  BY AcceptedFacts
<1>2. \A n : KeyOf(p, n)' = KeyOf(p, n)
  BY DEF KeyOf
<1>3. CASE c \in Reached(Peer(p))'
  <2>1. There(p, m)'
    BY <1>2, <1>3 DEF There
  <2>2. Heir(p, m, m)'
    BY <1>1 DEF Heir
  <2> QED BY <2>1, <2>2
<1>4. ASSUME NEW y \in Reached(Peer(p))', y.key = c.key, c.key # ACK, Cmd[c.key].dups, c.ver < y.ver
      PROVE  \E k : Heir(p, m, k)' /\ There(p, k)'
  <2>1. PICK k : k = y.ver
    OBVIOUS
  <2>2. Left(Origin(Peer(p), y), RealKey(y), k)'
    BY <2>1 DEF LineAt
  <2>3. PICK s, key : s = Origin(Peer(p), y) /\ key = RealKey(y)
    OBVIOUS
  <2>4. s = p /\ key = c.key
    BY <1>4, <2>3, PeerFacts DEF Origin, RealKey
  <2>5. Left(s, key, k)'
    BY <2>2, <2>3
  <2>6. k \in accepted'[p] /\ KeyOf(p, k)' = c.key
    BY <2>4, <2>5 DEF Left
  <2>7. k \in Nat /\ m < k
    <3>1. accepted'[p] \subseteq Nat
      BY DEF Base, Typed
    <3> QED BY <1>4, <2>1, <2>6, <3>1
  <2>8. m <= k
    BY <1>1, <2>7
  <2>9. Heir(p, m, k)'
    BY <1>2, <1>4, <2>6, <2>8 DEF Heir
  <2>10. There(p, k)'
    BY <1>4, <2>1, <2>6 DEF There
  <2> QED BY <2>9, <2>10
<1> QED BY <1>3, <1>4 DEF Survives

LEMMA QuietMoves ==
  ASSUME Base, Base', workload' = workload, NEW p \in Peers, accepted'[p] = accepted[p],
         QueuedCmds(p)' = QueuedCmds(p), LineAt(Peer(p))', Survives(Reached(Peer(p)), Reached(Peer(p))')
  PROVE  MovesOn(p)
<1> SUFFICES ASSUME NEW m \in accepted[p], There(p, m) PROVE \E k : Heir(p, m, k)' /\ There(p, k)'
  BY DEF MovesOn
<1>1. CASE Waits(p, m)
  <2>1. There(p, m)'
    BY <1>1 DEF There, Waits
  <2>2. m \in Nat /\ m <= m
    BY AcceptedFacts
  <2>3. Heir(p, m, m)'
    BY <2>2 DEF Heir
  <2> QED BY <2>1, <2>3
<1>2. CASE \E c \in Reached(Peer(p)) : c.key = KeyOf(p, m) /\ c.ver = m
  <2>1. accepted[p] \subseteq accepted'[p]
    OBVIOUS
  <2> QED BY <1>2, <2>1, ReachedMoves
<1> QED BY <1>1, <1>2 DEF There

(* The application pushes: a value that waits has the new one as its heir. *)
LEMMA PushMoves ==
  ASSUME Base, Base', LineInv, NEW p \in Peers, PushCmd(p), NEW r \in Peers,
         LineAt(Peer(r))', Survives(Reached(Peer(r)), Reached(Peer(r))')
  PROVE  MovesOn(r)
<1>1. PICK v : v = pushed[p] + 1
  OBVIOUS
<1>2. /\ v \in Nat /\ workload' = workload
      /\ \A x \in Peers : x # p => accepted'[x] = accepted[x] /\ QueuedCmds(x)' = QueuedCmds(x)
      /\ \/ accepted'[p] = accepted[p] \union {v} /\ Pushes(QueuedCmds(p), QueuedCmds(p)', v, KeyOf(p, v))
         \/ accepted'[p] = accepted[p] /\ QueuedCmds(p)' = QueuedCmds(p)
  BY <1>1, PushedCmds
<1>3. CASE accepted'[r] = accepted[r] /\ QueuedCmds(r)' = QueuedCmds(r)
  BY <1>2, <1>3, QuietMoves
<1>4. CASE r = p /\ accepted'[p] = accepted[p] \union {v} /\ Pushes(QueuedCmds(p), QueuedCmds(p)', v, KeyOf(p, v))
  <2>1. There(r, v)'
    <3>1. \E x \in QueuedCmds(r)' : x.ver = v
      BY <1>4 DEF Pushes
    <3> QED BY <3>1 DEF There, Waits
  <2>2. ASSUME NEW m \in accepted[r], There(r, m) PROVE \E k : Heir(r, m, k)' /\ There(r, k)'
    <3>1. m \in Nat /\ m < v
      BY <1>1, <1>4, AcceptedFacts
    <3>2. m <= m /\ m <= v
      BY <1>2, <3>1
    <3>3. ASSUME NEW g \in QueuedCmds(r), g.ver = m PROVE \E k : Heir(r, m, k)' /\ There(r, k)'
      <4>1. CASE \E f \in QueuedCmds(p)' : f.ver = g.ver /\ f.key = g.key
        <5>1. There(r, m)'
          BY <1>4, <3>3, <4>1 DEF There, Waits
        <5>2. Heir(r, m, m)'
          BY <1>4, <3>2 DEF Heir
        <5> QED BY <5>1, <5>2
      <4>2. CASE g.key = KeyOf(p, v) /\ Cmd[KeyOf(p, v)].dups
        <5>1. KeyOf(r, m) = g.key
          BY <3>3, QueuedFacts
        <5>2. KeyOf(r, m)' = KeyOf(r, v)' /\ Cmd[KeyOf(r, m)'].dups
          BY <1>2, <1>4, <4>2, <5>1 DEF KeyOf
        <5>3. Heir(r, m, v)'
          BY <1>4, <3>2, <5>2 DEF Heir
        <5> QED BY <2>1, <5>3
      <4> QED BY <1>4, <4>1, <4>2 DEF Pushes
    <3>4. ASSUME NEW c \in Reached(Peer(r)), c.key = KeyOf(r, m), c.ver = m
          PROVE  \E k : Heir(r, m, k)' /\ There(r, k)'
      <4>1. accepted[r] \subseteq accepted'[r]
        BY <1>4
      <4> QED BY <1>2, <3>4, <4>1, ReachedMoves
    <3> QED BY <2>2, <3>3, <3>4 DEF There, Waits
  <2> QED BY <1>4, <2>1, <2>2 DEF MovesOn
<1> QED BY <1>2, <1>3, <1>4

LEMMA PopMoves ==
  ASSUME Base, Base', NEW p \in Peers, NEW e, PopsOne(p, e), PopTravels(p, e), NEW r \in Peers
  PROVE  MovesOn(r)
<1>1. workload' = workload /\ accepted' = accepted /\ e \in Entries
  BY DEF PopsOne
<1>2. /\ e \in QueuedCmds(p) /\ QueuedCmds(p)' = QueuedCmds(p) \ {e}
      /\ \A x \in Peers : x # p => QueuedCmds(x)' = QueuedCmds(x)
  BY PoppedCmds
<1>3. LineAt(Peer(r))' /\ Reached(Peer(r)) \subseteq Reached(Peer(r))'
  BY PeerFacts DEF PopTravels
<1>4. Survives(Reached(Peer(r)), Reached(Peer(r))')
  BY <1>3, SurvivesAll
<1>5. CASE r # p
  BY <1>1, <1>2, <1>3, <1>4, <1>5, QuietMoves
<1>6. CASE r = p
  <2> SUFFICES ASSUME NEW m \in accepted[r], Real(r, m), There(r, m) PROVE \E k : Heir(r, m, k)' /\ There(r, k)'
    BY <1>1 DEF MovesOn
  <2>1. m \in Nat /\ m <= m
    BY AcceptedFacts
  <2>2. Heir(r, m, m)'
    BY <1>1, <2>1 DEF Heir
  <2>3. ASSUME NEW g \in QueuedCmds(r), g.ver = m, g # e PROVE There(r, m)'
    BY <1>2, <1>6, <2>3 DEF There, Waits
  <2>4. ASSUME e.ver = m PROVE There(r, m)'
    <3>1. KeyOf(r, m) = e.key
      BY <1>2, <1>6, <2>4, QueuedFacts
    <3>2. ~IsFake(e)
      BY <1>1, <3>1, FakeKeys DEF Real
    <3>3. PICK c : c = [key |-> e.key, ver |-> e.ver]
      OBVIOUS
    <3>4. c \in Reached(Peer(r))' /\ c.key = e.key /\ c.ver = m
      BY <1>6, <2>4, <3>2, <3>3 DEF PopTravels
    <3>5. KeyOf(r, m)' = e.key
      BY <1>1, <3>1 DEF KeyOf
    <3> QED BY <3>4, <3>5 DEF There
  <2>5. ASSUME NEW c \in Reached(Peer(r)), c.key = KeyOf(r, m), c.ver = m PROVE There(r, m)'
    <3>1. KeyOf(r, m)' = KeyOf(r, m)
      BY <1>1 DEF KeyOf
    <3> QED BY <1>3, <2>5, <3>1 DEF There
  <2> QED BY <2>2, <2>3, <2>4, <2>5 DEF There, Waits
<1> QED BY <1>5, <1>6

LEMMA OthersMove ==
  ASSUME Base, Base', LineInv, NEW p \in Peers, Others(p), BothOpen', NEW r \in Peers
  PROVE  MovesOn(r)
<1>1. Peer(r) \in Peers
  BY PeerFacts
<1>2. LineAt(Peer(r))' /\ Survives(Reached(Peer(r)), Reached(Peer(r))')
  BY <1>1, OthersTravel DEF Travels
<1>3. CASE PushCmd(p)
  BY <1>2, <1>3, PushMoves
<1>4. CASE ~PushCmd(p)
  <2>1. accepted' = accepted /\ out_queue' = out_queue /\ workload' = workload
    BY <1>4 DEF Others, TakeCmd, PackStart, PackNothing, PackPrio, PackBreak,
       WriteMessage, WriteFails, v_STREAM_handle_messages, ReadEnd
  <2>2. accepted'[r] = accepted[r] /\ QueuedCmds(r)' = QueuedCmds(r)
    BY <2>1 DEF QueuedCmds
  <2> QED BY <1>2, <2>1, <2>2, QuietMoves
<1> QED BY <1>3, <1>4

LEMMA OthersTruthful ==
  ASSUME Base, LineInv, NEW p \in Peers, Others(p), BothOpen', NEW r \in Peers, Truthful(r)
  PROVE  Truthful(r)'
<1>1. Peer(r) \in Peers
  BY PeerFacts
<1>2. Survives(Reached(Peer(r)), Reached(Peer(r))') /\ Acked(r)' \subseteq Acked(r)
  BY <1>1, OthersTravel DEF Travels
<1> SUFFICES ASSUME NEW c \in Acked(r)' PROVE \E d \in Reached(Peer(r))' : d.key = CREATE /\ d.ver = c.ver
  BY DEF Truthful
<1>3. PICK d \in Reached(Peer(r)) : d.key = CREATE /\ d.ver = c.ver
  BY <1>2 DEF Truthful
<1>4. ~Cmd[d.key].dups
  BY <1>3, StreamAssumption
<1>5. d \in Reached(Peer(r))'
  BY <1>2, <1>4 DEF Survives
<1> QED BY <1>3, <1>5

LEMMA PopTruthful ==
  ASSUME NEW p \in Peers, NEW e \in Entries, PopTravels(p, e), NEW r \in Peers, Truthful(r)
  PROVE  Truthful(r)'
<1>1. Reached(Peer(r)) \subseteq Reached(Peer(r))'
  BY PeerFacts DEF PopTravels
<1> SUFFICES ASSUME NEW c \in Acked(r)' PROVE \E d \in Reached(Peer(r))' : d.key = CREATE /\ d.ver = c.ver
  BY DEF Truthful
<1>2. CASE c \in Acked(r)
  BY <1>1, <1>2 DEF Truthful
<1>3. CASE r = p /\ e.key = CREATE /\ c.ver = e.ver
  <2>1. ~IsFake(e)
    BY <1>3, FakeKeys, KeysApart
  <2>2. PICK d : d = [key |-> e.key, ver |-> e.ver]
    OBVIOUS
  <2>3. d \in Reached(Peer(r))' /\ d.key = e.key /\ d.ver = e.ver
    BY <1>3, <2>1, <2>2 DEF PopTravels
  <2> QED BY <1>3, <2>3
<1>4. r = p \/ r = Peer(p)
  BY PeerFacts
<1> QED BY <1>2, <1>3, <1>4 DEF PopTravels

LEMMA OpenStep ==
  ASSUME Base, Base', LineInv, OpenInv, [Next]_vars
  PROVE  OpenInv'
<1> SUFFICES ASSUME BothOpen', NEW r \in Peers PROVE Safe(r)' /\ Truthful(r)'
  BY DEF OpenInv
<1>1. workload' = workload /\ Safe(r) /\ Truthful(r)
  BY OpenBefore DEF OpenInv
<1>2. CASE UNCHANGED vars
  <2>1. UNCHANGED <<workload, accepted, out_queue, applied, in_queue, wire, pack>>
    BY <1>2 DEF vars
  <2>2. \A n, m : Heir(r, n, m)' = Heir(r, n, m) /\ There(r, m)' = There(r, m) /\ Real(r, n)' = Real(r, n)
    BY <2>1 DEF Heir, There, Real, Waits, KeyOf, QueuedCmds, Reached
  <2>3. Safe(r)'
    BY <1>1, <2>1, <2>2 DEF Safe
  <2>4. Truthful(r)'
    BY <1>1, <2>1 DEF Truthful, Acked, Reached
  <2> QED BY <2>3, <2>4
<1>3. ASSUME NEW p \in Peers, Others(p) PROVE Safe(r)' /\ Truthful(r)'
  BY <1>1, <1>3, OthersMove, SafeKept, OthersTruthful
<1>4. ASSUME NEW p \in Peers, PackPop(p) PROVE Safe(r)' /\ Truthful(r)'
  <2>1. PICK e : PopsOne(p, e)
    BY <1>4, PackPopKeeps
  <2>2. PopTravels(p, e) /\ e \in Entries
    BY <2>1, PopOneTravels DEF PopsOne
  <2> QED BY <1>1, <2>1, <2>2, PopMoves, SafeKept, PopTruthful
<1> QED BY <1>2, <1>3, <1>4, NextSteps

LEMMA OpenDelivers ==
  ASSUME Base, LineInv, OpenInv
  PROVE  Delivered
<1>1. ASSUME NEW p \in Peers, state[p] = OPEN, state[Peer(p)] = OPEN
      PROVE  Safe(p) /\ Truthful(p) /\ Range(Arriving(Peer(p))) = Reached(Peer(p))
  <2>1. BothOpen
    BY <1>1, PeerFacts DEF BothOpen
  <2>2. ToSet(Arriving(Peer(p))) = Reached(Peer(p))
    BY ArrivingLine, PeerFacts
  <2>3. Range(Arriving(Peer(p))) = ToSet(Arriving(Peer(p)))
    BY DEF Range, ToSet
  <2> QED BY <2>1, <2>2, <2>3 DEF OpenInv
<1>2. NothingLost
  <2> SUFFICES ASSUME NEW p \in Peers, state[p] = OPEN, state[Peer(p)] = OPEN, NEW n \in accepted[p],
                      KeyOf(p, n) \notin {FPS, TERMINATE}
               PROVE  \E m \in n .. pushed[p] :
                        /\ m = n \/ (Cmd[KeyOf(p, n)].dups /\ KeyOf(p, m) = KeyOf(p, n) /\ m \in accepted[p])
                        /\ \/ Waits(p, m)
                           \/ \E c \in Range(Arriving(Peer(p))) : c.key = KeyOf(p, m) /\ c.ver = m
    BY DEF NothingLost
  <2>1. PICK m : Heir(p, n, m) /\ There(p, m)
    BY <1>1 DEF Safe, Real
  <2>2. m \in accepted[p] /\ n <= m
    BY <2>1 DEF Heir
  <2>3. m \in Nat /\ n \in Nat /\ m <= pushed[p] /\ pushed[p] \in Nat
    BY <2>2, AcceptedFacts
  <2>4. m \in n .. pushed[p]
    BY <2>2, <2>3
  <2>5. Waits(p, m) \/ \E c \in Range(Arriving(Peer(p))) : c.key = KeyOf(p, m) /\ c.ver = m
    BY <1>1, <2>1 DEF There
  <2>6. m = n \/ (Cmd[KeyOf(p, n)].dups /\ KeyOf(p, m) = KeyOf(p, n) /\ m \in accepted[p])
    BY <2>1 DEF Heir
  <2> QED BY <2>4, <2>5, <2>6
<1>3. AckTruthful
  <2> SUFFICES ASSUME NEW p \in Peers, state[p] = OPEN, state[Peer(p)] = OPEN,
                      NEW c \in Range(applied[p] \o in_queue[p]), c.key = ACK
               PROVE  \E d \in Range(Arriving(Peer(p))) : d.key = CREATE /\ d.ver = c.ver
    BY DEF AckTruthful
  <2>1. PICK a, b : a = applied[p] /\ b = in_queue[p]
    OBVIOUS
  <2>2. a \in Seq(Got) /\ b \in Seq(Got)
    BY <2>1 DEF Base, Typed
  <2>3. ToSet(a \o b) = ToSet(a) \union ToSet(b)
    BY <2>2, ConcatElements
  <2>4. c \in ToSet(a \o b)
    BY <2>1 DEF Range, ToSet
  <2>5. c \in Acked(p)
    BY <2>1, <2>3, <2>4 DEF Acked
  <2> QED BY <1>1, <2>5 DEF Truthful
<1> QED BY <1>2, <1>3 DEF Delivered

(* As long as both ends are open, no command that v_out_queue_push_tail    *)
(* has taken is lost between it and v_in_queue_pop of the peer: it waits,  *)
(* or was packed, or a newer value of its address did, and a create        *)
(* command is acknowledged only when it was packed (v_out_queue.c,         *)
(* v_stream.c, v_in_queue.c).                                              *)
THEOREM StreamDelivers == Spec => []Delivered
<1>1. Init => Base /\ LineInv /\ OpenInv
  <2>1. ASSUME Init PROVE OpenInv
    <3> SUFFICES ASSUME NEW p \in Peers PROVE Safe(p) /\ Truthful(p)
      BY DEF OpenInv
    <3>1. accepted[p] = {} /\ applied[p] = <<>> /\ in_queue[p] = <<>>
      BY <2>1 DEF Init
    <3>2. Acked(p) = {}
      BY <3>1, NothingIn DEF Acked
    <3> QED BY <3>1, <3>2 DEF Safe, Truthful
  <2> QED BY <2>1, BaseInit, LineInit0
<1>2. Base /\ LineInv /\ OpenInv /\ [Next]_vars => Base' /\ LineInv' /\ OpenInv'
  BY BaseStep, LineStep, OpenStep
<1>3. Base /\ LineInv /\ OpenInv => Delivered
  BY OpenDelivers
<1> QED BY <1>1, <1>2, <1>3, PTL DEF Spec
=============================================================================
