---------------------------- MODULE Resend_proofs ----------------------------
(***************************************************************************)
(* Proofs about the resend mechanism, for any set of commands, any number  *)
(* of packets and any network: what its vectors and sizes say is true, it  *)
(* delivers no command twice, loses none, reports none as known to the     *)
(* peer that is not, and lets no older value overwrite a newer one.        *)
(***************************************************************************)
EXTENDS Resend, SequenceTheorems, FiniteSetTheorems, WellFoundedInduction, TLAPS

-----------------------------------------------------------------------------
(* What the compression of ACK and NAK commands preserves, for vectors and *)
(* payload ids of any size: adding a received packet to a truthful vector  *)
(* and cutting it at any ANK ID leaves a truthful vector.                  *)

(* A vector ends with the ACK of payload packet last, or it is empty.      *)
EndsAt(h, last) == h # <<>> => h[Len(h)] = Cmd(ACK, last)

(* The operator Cmd builds commands of the vector.                         *)
LEMMA CmdType ==
  ASSUME NEW id \in {ACK, NAK}, NEW pay_id \in Nat
  PROVE  /\ Cmd(id, pay_id) \in AckNakCmd
         /\ Cmd(id, pay_id).id = id
         /\ Cmd(id, pay_id).pay_id = pay_id
  BY DEF Cmd, AckNakCmd

(* The payload ids of a vector are natural numbers.                        *)
LEMMA PayIdType ==
  ASSUME NEW h \in Seq(AckNakCmd), NEW i \in 1..Len(h)
  PROVE  /\ h[i] \in AckNakCmd
         /\ h[i].id \in {ACK, NAK}
         /\ h[i].pay_id \in Nat
         /\ h[i] = Cmd(h[i].id, h[i].pay_id)
<1>1. h[i] \in AckNakCmd
  BY ElementOfSeq
<1> QED BY <1>1 DEF AckNakCmd, Cmd

(* The two kinds of commands are told apart.                               *)
LEMMA KindsDiffer == ACK # NAK
  BY DEF ACK, NAK

(***************************************************************************)
(* v_ack_nak_history_remove_cmds finds a place to cut a vector whose last  *)
(* command is not below the ANK ID.                                        *)
(***************************************************************************)
LEMMA CutIndexExists ==
  ASSUME NEW h \in Seq(AckNakCmd), NEW ank \in Nat,
         h # <<>>, h[Len(h)].pay_id >= ank
  PROVE  /\ CutIndex(h, ank) \in 1..Len(h)
         /\ h[CutIndex(h, ank)].pay_id >= ank
         /\ \A j \in 1..(CutIndex(h, ank) - 1) : h[j].pay_id < ank
<1> DEFINE T == {i \in 1..Len(h) : h[i].pay_id >= ank}
<1>1. Len(h) \in Nat \ {0}
  BY EmptySeq, LenProperties
<1>2. \A i \in 1..Len(h) : h[i].pay_id \in Nat
  BY PayIdType
<1>3. T \subseteq Nat /\ T # {}
  BY <1>1
<1>4. PICK i \in T : \A j \in T : ~(<<j, i>> \in OpToRel(<, Nat))
  <2> HIDE DEF T
  <2> QED BY <1>3, NatLessThanWellFounded, WFMin
<1>5. \A j \in T : ~(j < i)
  BY <1>3, <1>4 DEF OpToRel
<1>6. \A j \in 1..(i-1) : h[j].pay_id < ank
  <2> SUFFICES ASSUME NEW j \in 1..(i-1) PROVE h[j].pay_id < ank
    OBVIOUS
  <2>1. j \in 1..Len(h) /\ j < i
    BY <1>1
  <2>2. j \notin T
    BY <2>1, <1>5
  <2> QED BY <2>1, <2>2, <1>2
<1>7. \E k \in 1..Len(h) : /\ h[k].pay_id >= ank
                           /\ \A j \in 1..(k-1) : h[j].pay_id < ank
  BY <1>6
<1> QED BY <1>7 DEF CutIndex

(***************************************************************************)
(* Prefixing a tail of a truthful vector with a command whose scope lies   *)
(* in that of the command before the tail gives a truthful vector.         *)
(***************************************************************************)
LEMMA TailTruthful ==
  ASSUME NEW h \in Seq(AckNakCmd), NEW rcv, NEW last \in Nat,
         Truthful(h, rcv, last), NEW i \in 1..Len(h)
  PROVE  /\ SubSeq(h, i, Len(h)) \in Seq(AckNakCmd)
         /\ Len(SubSeq(h, i, Len(h))) = Len(h) - i + 1
         /\ Truthful(SubSeq(h, i, Len(h)), rcv, last)
         /\ SubSeq(h, i, Len(h))[Len(SubSeq(h, i, Len(h)))] = h[Len(h)]
<1> DEFINE n == Len(h)
           g == SubSeq(h, i, n)
<1>1. n \in Nat /\ i \in Nat
  BY LenProperties
<1>2. /\ g \in Seq(AckNakCmd)
      /\ Len(g) = n - i + 1
      /\ \A j \in 1..(n - i + 1) : g[j] = h[i + j - 1]
  BY SubSeqProperties, <1>1
<1> HIDE DEF g
<1>3. Truthful(g, rcv, last)
  <2> SUFFICES ASSUME NEW j \in 1..Len(g)
               PROVE  IF g[j].id = ACK
                      THEN Scope(g, j) \subseteq rcv
                      ELSE /\ j < Len(g)
                           /\ \A x \in Scope(g, j) : x \notin rcv /\ x <= last
    BY DEF Truthful
  <2>1. i + j - 1 \in 1..n /\ g[j] = h[i + j - 1]
    BY <1>1, <1>2
  <2>2. Scope(g, j) = Scope(h, i + j - 1)
    <3>1. CASE j < Len(g)
      <4>1. g[j+1] = h[i + j]
        <5>1. j + 1 \in 1..(n - i + 1) /\ i + (j + 1) - 1 = i + j
          BY <3>1, <1>1, <1>2
        <5> QED BY <5>1, <1>2
      <4>2. i + j - 1 < n /\ (i + j - 1) + 1 = i + j
        BY <3>1, <1>1, <1>2
      <4> QED BY <4>1, <4>2, <2>1, <3>1 DEF Scope
    <3>2. CASE ~(j < Len(g))
      <4>1. ~(i + j - 1 < n)
        BY <3>2, <1>1, <1>2
      <4> QED BY <4>1, <2>1, <3>2 DEF Scope
    <3> QED BY <3>1, <3>2
  <2>3. i + j - 1 < n => j < Len(g)
    BY <1>1, <1>2
  <2> QED BY <2>1, <2>2, <2>3 DEF Truthful
<1>4. g[Len(g)] = h[n]
  <2>1. Len(g) \in 1..(n - i + 1) /\ i + Len(g) - 1 = n
    BY <1>1, <1>2
  <2> QED BY <2>1, <1>2
<1> QED BY <1>2, <1>3, <1>4 DEF g

Prefixed(id, pay_id, t) == <<Cmd(id, pay_id)>> \o t

(* A command id that speaks for the packets from .. to - 1 is right.       *)
RightFor(id, from, to, rcv, last) ==
  /\ id = ACK => from .. (to - 1) \subseteq rcv
  /\ id = NAK => \A x \in from .. (to - 1) : x \notin rcv /\ x <= last

(* What a vector with another first command looks like.                    *)
LEMMA PrefixedShape ==
  ASSUME NEW t \in Seq(AckNakCmd), t # <<>>, NEW c \in AckNakCmd
  PROVE  /\ <<c>> \o t \in Seq(AckNakCmd)
         /\ Len(<<c>> \o t) = Len(t) + 1
         /\ (<<c>> \o t)[1] = c
         /\ \A j \in 1..Len(t) : (<<c>> \o t)[j + 1] = t[j]
         /\ (<<c>> \o t)[Len(<<c>> \o t)] = t[Len(t)]
<1> DEFINE g == <<c>> \o t
<1>1. <<c>> \in Seq(AckNakCmd) /\ Len(<<c>>) = 1 /\ <<c>>[1] = c
  OBVIOUS
<1>2. Len(t) \in Nat \ {0}
  BY EmptySeq, LenProperties
<1>3. /\ g \in Seq(AckNakCmd)
      /\ Len(g) = 1 + Len(t)
      /\ \A j \in 1..(1 + Len(t)) : g[j] = IF j <= 1 THEN <<c>>[j] ELSE t[j - 1]
  BY ConcatProperties, <1>1
<1> HIDE DEF g
<1>4. g[1] = c
  <2>1. 1 \in 1..(1 + Len(t)) /\ 1 <= 1
    BY <1>2
  <2> QED BY <2>1, <1>3, <1>1
<1>5. ASSUME NEW j \in 1..Len(t) PROVE g[j + 1] = t[j]
  <2>1. j + 1 \in 1..(1 + Len(t)) /\ ~(j + 1 <= 1) /\ (j + 1) - 1 = j
    BY <1>2
  <2> QED BY <2>1, <1>3
<1>6. Len(t) \in 1..Len(t) /\ Len(g) = Len(t) + 1
  BY <1>2, <1>3
<1>7. g[Len(g)] = t[Len(t)]
  BY <1>5, <1>6
<1> QED BY <1>3, <1>4, <1>5, <1>6, <1>7 DEF g

(* A truthful vector stays truthful with a right first command.            *)
LEMMA PrefixedTruthful ==
  ASSUME NEW t \in Seq(AckNakCmd), t # <<>>, NEW rcv, NEW last \in Nat,
         Truthful(t, rcv, last), NEW id \in {ACK, NAK}, NEW pay_id \in Nat,
         RightFor(id, pay_id, t[1].pay_id, rcv, last)
  PROVE  Truthful(Prefixed(id, pay_id, t), rcv, last)
<1> DEFINE c == Cmd(id, pay_id)
           g == <<c>> \o t
<1>1. c \in AckNakCmd /\ c.id = id /\ c.pay_id = pay_id
  BY CmdType
<1> HIDE DEF c
<1>3. Len(t) \in Nat \ {0}
  BY EmptySeq, LenProperties
<1>4. g \in Seq(AckNakCmd) /\ Len(g) = 1 + Len(t)
  BY <1>1, <1>3, PrefixedShape
<1>5. g[1] = c /\ \A j \in 1..Len(t) : g[j + 1] = t[j]
  BY <1>1, PrefixedShape
<1> HIDE DEF g
<1>6. Truthful(g, rcv, last)
  <2> SUFFICES ASSUME NEW j \in 1..Len(g)
               PROVE  IF g[j].id = ACK
                      THEN Scope(g, j) \subseteq rcv
                      ELSE /\ j < Len(g)
                           /\ \A x \in Scope(g, j) : x \notin rcv /\ x <= last
    BY DEF Truthful
  <2>1. CASE j = 1
    <3>1. 1 < Len(g) /\ 1 \in 1..Len(t)
      BY <1>3, <1>4
    <3>2. g[1 + 1] = t[1]
      BY <3>1, <1>5
    <3>3. Scope(g, 1) = pay_id .. (t[1].pay_id - 1)
      BY <3>1, <3>2, <1>1, <1>5 DEF Scope
    <3> QED BY <2>1, <3>1, <3>3, <1>1, <1>5, KindsDiffer DEF RightFor
  <2>2. CASE j # 1
    <3>1. PICK k \in 1..Len(t) : j = k + 1
      <4>1. j - 1 \in 1..Len(t) /\ j = (j - 1) + 1
        BY <2>2, <1>3, <1>4
      <4> QED BY <4>1
    <3>2. g[j] = t[k] /\ (j < Len(g) <=> k < Len(t))
      BY <3>1, <1>3, <1>4, <1>5
    <3>3. Scope(g, j) = Scope(t, k)
      <4>1. CASE k < Len(t)
        <5>1. k + 1 \in 1..Len(t)
          BY <4>1, <1>3
        <5>2. g[j + 1] = t[k + 1]
          BY <5>1, <3>1, <1>5
        <5> QED BY <4>1, <5>2, <3>2 DEF Scope
      <4>2. CASE ~(k < Len(t))
        BY <4>2, <3>2 DEF Scope
      <4> QED BY <4>1, <4>2
    <3> QED BY <3>2, <3>3 DEF Truthful
  <2> QED BY <2>1, <2>2
<1> QED BY <1>6 DEF Prefixed, g, c

(***************************************************************************)
(* v_ack_nak_history_remove_cmds: whatever the ANK ID, even a stale one,   *)
(* the shortened vector is truthful and ends as before, or it is empty.    *)
(***************************************************************************)
THEOREM RemoveCmdsTruthful ==
  ASSUME NEW h \in Seq(AckNakCmd), NEW ank \in Nat, NEW rcv, NEW last \in Nat,
         Truthful(h, rcv, last)
  PROVE  /\ RemoveCmds(h, ank) \in Seq(AckNakCmd)
         /\ Truthful(RemoveCmds(h, ank), rcv, last)
         /\ RemoveCmds(h, ank) # <<>> =>
              /\ h # <<>>
              /\ RemoveCmds(h, ank)[Len(RemoveCmds(h, ank))] = h[Len(h)]
<1> DEFINE n == Len(h)
           i == CutIndex(h, ank)
           g == RemoveCmds(h, ank)
<1>1. n \in Nat /\ (h # <<>> <=> n # 0)
  BY EmptySeq, LenProperties
<1>2. CASE n = 0 \/ (n > 0 /\ ank > h[n].pay_id)
  BY <1>1, <1>2 DEF RemoveCmds
<1>3. CASE ~(n = 0 \/ (n > 0 /\ ank > h[n].pay_id))
  <2>1. h # <<>> /\ n \in 1..Len(h) /\ h[n].pay_id \in Nat /\ h[n].pay_id >= ank
    BY <1>1, <1>3, PayIdType
  <2>2. /\ i \in 1..n
        /\ h[i].pay_id >= ank
        /\ \A j \in 1..(i - 1) : h[j].pay_id < ank
    BY <2>1, CutIndexExists
  <2> HIDE DEF i
  <2>3. CASE h[i].pay_id = ank /\ i = n
    <3>1. g = <<>>
      BY <1>3, <2>3 DEF RemoveCmds, i
    <3> QED BY <3>1, EmptySeq DEF Truthful
  <2>4. CASE h[i].pay_id = ank /\ i # n /\ h[i+1].pay_id = ank + 1
    <3>1. g = SubSeq(h, i + 1, n)
      BY <1>3, <2>4 DEF RemoveCmds, i
    <3>2. i + 1 \in 1..n
      BY <1>1, <2>2, <2>4
    <3> QED BY <3>1, <3>2, <2>1, TailTruthful
  <2>5. CASE h[i].pay_id = ank /\ i # n /\ h[i+1].pay_id # ank + 1
    <3> DEFINE t == SubSeq(h, i + 1, n)
    <3>1. g = <<Cmd(h[i].id, ank + 1)>> \o t
      BY <1>3, <2>5 DEF RemoveCmds, i
    <3>2. i + 1 \in 1..n /\ i < n
      BY <1>1, <2>2, <2>5
    <3>3. /\ t \in Seq(AckNakCmd)
          /\ Len(t) = n - (i + 1) + 1
          /\ Truthful(t, rcv, last)
          /\ t[Len(t)] = h[n]
      BY <3>2, TailTruthful
    <3>4. t # <<>> /\ t[1] = h[i + 1]
      <4>1. 1 \in 1..(n - (i + 1) + 1) /\ (i + 1) + 1 - 1 = i + 1
        BY <1>1, <3>2
      <4>2. \A j \in 1..(n - (i + 1) + 1) : t[j] = h[(i + 1) + j - 1]
        BY <1>1, <3>2, PayIdType, SubSeqProperties
      <4> HIDE DEF t
      <4> QED BY <4>1, <4>2, <3>3, EmptySeq
    <3>5. /\ h[i].id \in {ACK, NAK} /\ h[i].pay_id \in Nat
          /\ h[i + 1].pay_id \in Nat
      BY <2>2, <3>2, PayIdType
    <3>6. Scope(h, i) = h[i].pay_id .. (h[i + 1].pay_id - 1)
      BY <3>2 DEF Scope
    <3>7. (ank + 1) .. (h[i + 1].pay_id - 1) \subseteq Scope(h, i)
      BY <3>5, <3>6, <2>5
    <3>8. /\ h[i].id = ACK => Scope(h, i) \subseteq rcv
          /\ h[i].id = NAK => \A x \in Scope(h, i) : x \notin rcv /\ x <= last
      BY <2>2, KindsDiffer DEF Truthful
    <3> HIDE DEF t
    <3>9. ank + 1 \in Nat
      OBVIOUS
    <3>10. RightFor(h[i].id, ank + 1, t[1].pay_id, rcv, last)
      BY <3>4, <3>7, <3>8 DEF RightFor
    <3> DEFINE w == Prefixed(h[i].id, ank + 1, t)
    <3>11. /\ w \in Seq(AckNakCmd)
           /\ Truthful(w, rcv, last)
           /\ w[Len(w)] = t[Len(t)]
      <4>1. Truthful(w, rcv, last)
        BY <3>3, <3>4, <3>5, <3>9, <3>10, PrefixedTruthful
      <4>2. Cmd(h[i].id, ank + 1) \in AckNakCmd
        BY <3>5, <3>9, CmdType
      <4>3. w \in Seq(AckNakCmd) /\ w[Len(w)] = t[Len(t)]
        BY <4>2, <3>3, <3>4, PrefixedShape DEF Prefixed
      <4> QED BY <4>1, <4>3
    <3>12. g = w
      BY <3>1 DEF Prefixed
    <3> HIDE DEF w, g
    <3>13. /\ g \in Seq(AckNakCmd)
           /\ Truthful(g, rcv, last)
           /\ g[Len(g)] = h[n]
      BY <3>3, <3>11, <3>12
    <3> QED BY <3>13, <2>1 DEF g
  <2>6. CASE h[i].pay_id # ank /\ i > 1
    <3> DEFINE t == SubSeq(h, i, n)
    <3>1. g = <<Cmd(h[i-1].id, ank)>> \o t
      BY <1>3, <2>6 DEF RemoveCmds, i
    <3>2. i - 1 \in 1..n /\ i - 1 < n /\ (i - 1) + 1 = i
      BY <1>1, <2>2, <2>6
    <3>3. /\ t \in Seq(AckNakCmd)
          /\ Len(t) = n - i + 1
          /\ Truthful(t, rcv, last)
          /\ t[Len(t)] = h[n]
      BY <2>2, TailTruthful
    <3>4. t # <<>> /\ t[1] = h[i]
      <4>1. 1 \in 1..(n - i + 1) /\ i + 1 - 1 = i
        BY <1>1, <2>2
      <4>2. \A j \in 1..(n - i + 1) : t[j] = h[i + j - 1]
        BY <1>1, <2>2, PayIdType, SubSeqProperties
      <4> HIDE DEF t
      <4> QED BY <4>1, <4>2, <3>3, EmptySeq
    <3>5. /\ h[i-1].id \in {ACK, NAK} /\ h[i-1].pay_id \in Nat
          /\ h[i].pay_id \in Nat
      BY <2>2, <3>2, PayIdType
    <3>6. Scope(h, i - 1) = h[i-1].pay_id .. (h[i].pay_id - 1)
      BY <3>2 DEF Scope
    <3>7. h[i-1].pay_id < ank
      BY <2>2, <3>2, <2>6
    <3>8. ank .. (h[i].pay_id - 1) \subseteq Scope(h, i - 1)
      BY <3>5, <3>6, <3>7
    <3>9. /\ h[i-1].id = ACK => Scope(h, i - 1) \subseteq rcv
          /\ h[i-1].id = NAK => \A x \in Scope(h, i - 1) : x \notin rcv /\ x <= last
      BY <3>2, KindsDiffer DEF Truthful
    <3> HIDE DEF t
    <3>10. RightFor(h[i-1].id, ank, t[1].pay_id, rcv, last)
      BY <3>4, <3>8, <3>9 DEF RightFor
    <3> DEFINE w == Prefixed(h[i-1].id, ank, t)
    <3>11. /\ w \in Seq(AckNakCmd)
           /\ Truthful(w, rcv, last)
           /\ w[Len(w)] = t[Len(t)]
      <4>1. Truthful(w, rcv, last)
        BY <3>3, <3>4, <3>5, <3>10, PrefixedTruthful
      <4>2. Cmd(h[i-1].id, ank) \in AckNakCmd
        BY <3>5, CmdType
      <4>3. w \in Seq(AckNakCmd) /\ w[Len(w)] = t[Len(t)]
        BY <4>2, <3>3, <3>4, PrefixedShape DEF Prefixed
      <4> QED BY <4>1, <4>3
    <3>12. g = w
      BY <3>1 DEF Prefixed
    <3> HIDE DEF w, g
    <3>13. /\ g \in Seq(AckNakCmd)
           /\ Truthful(g, rcv, last)
           /\ g[Len(g)] = h[n]
      BY <3>3, <3>11, <3>12
    <3> QED BY <3>13, <2>1 DEF g
  <2>7. CASE h[i].pay_id # ank /\ ~(i > 1)
    <3>1. g = h
      BY <1>3, <2>7 DEF RemoveCmds, i
    <3> QED BY <3>1, <2>1
  <2> QED BY <2>3, <2>4, <2>5, <2>6, <2>7
<1> QED BY <1>2, <1>3

(***************************************************************************)
(* A vector that is still open at the end: its last command speaks for the *)
(* packets up to next - 1.                                                 *)
(***************************************************************************)
Until(h, i, next) ==
  h[i].pay_id .. ((IF i < Len(h) THEN h[i+1].pay_id ELSE next) - 1)

TruthfulUntil(h, next, rcv, last) ==
  \A i \in 1..Len(h) :
    IF h[i].id = ACK
    THEN Until(h, i, next) \subseteq rcv
    ELSE \A x \in Until(h, i, next) : x \notin rcv /\ x <= last

(* v_ack_nak_history_add_cmd: the next command closes the vector.          *)
LEMMA AddCmdTruthful ==
  ASSUME NEW h \in Seq(AckNakCmd), NEW rcv, NEW last \in Nat,
         NEW id \in {ACK, NAK}, NEW pay_id \in Nat, NEW next \in Nat,
         TruthfulUntil(h, pay_id, rcv, last),
         h # <<>> /\ h[Len(h)].id = NAK => id = ACK,
         id = ACK => pay_id .. (next - 1) \subseteq rcv,
         id = NAK => \A x \in pay_id .. (next - 1) : x \notin rcv /\ x <= last
  PROVE  /\ AddCmd(h, Cmd(id, pay_id)) \in Seq(AckNakCmd)
         /\ AddCmd(h, Cmd(id, pay_id)) # <<>>
         /\ TruthfulUntil(AddCmd(h, Cmd(id, pay_id)), next, rcv, last)
         /\ AddCmd(h, Cmd(id, pay_id))[Len(AddCmd(h, Cmd(id, pay_id)))] = Cmd(id, pay_id)
<1> DEFINE c == Cmd(id, pay_id)
           n == Len(h)
           g == AddCmd(h, c)
<1>1. c \in AckNakCmd /\ c.id = id /\ c.pay_id = pay_id
  BY CmdType
<1>2. n \in Nat /\ (h # <<>> <=> n # 0)
  BY EmptySeq, LenProperties
<1> HIDE DEF c
<1>3. CASE n = 0
  <2>1. g = <<c>>
    BY <1>3 DEF AddCmd
  <2>2. /\ <<c>> \in Seq(AckNakCmd) /\ <<c>> # <<>>
        /\ Len(<<c>>) = 1 /\ <<c>>[1] = c
    BY <1>1
  <2>3. Until(<<c>>, 1, next) = pay_id .. (next - 1)
    BY <2>2, <1>1 DEF Until
  <2>4. TruthfulUntil(<<c>>, next, rcv, last)
    BY <2>2, <2>3, <1>1, KindsDiffer DEF TruthfulUntil
  <2> QED BY <2>1, <2>2, <2>4 DEF c
<1>4. CASE n > 1 /\ h[n].id = ACK /\ h[n-1].id = ACK
  <2>1. g = [h EXCEPT ![n] = c]
    BY <1>4, <1>1, <1>2, KindsDiffer DEF AddCmd
  <2>2. n \in 1..Len(h) /\ n - 1 \in 1..Len(h) /\ (n - 1) + 1 = n
    BY <1>2, <1>4
  <2>3. /\ g \in Seq(AckNakCmd)
        /\ Len(g) = n
        /\ \A j \in 1..n : g[j] = IF j = n THEN c ELSE h[j]
    BY <2>1, <2>2, <1>1, ExceptSeq
  <2> HIDE DEF g
  <2>4. \A j \in 1..n : h[j].pay_id \in Nat
    BY PayIdType
  <2>5. Until(h, n - 1, pay_id) \subseteq rcv /\ Until(h, n, pay_id) \subseteq rcv
    BY <2>2, <1>4 DEF TruthfulUntil
  <2>6. TruthfulUntil(g, next, rcv, last)
    <3> SUFFICES ASSUME NEW j \in 1..n
                 PROVE  IF g[j].id = ACK
                        THEN Until(g, j, next) \subseteq rcv
                        ELSE \A x \in Until(g, j, next) : x \notin rcv /\ x <= last
      BY <2>3 DEF TruthfulUntil
    <3>1. CASE j = n
      <4>1. g[j] = c /\ Until(g, j, next) = pay_id .. (next - 1)
        BY <3>1, <2>3, <1>1, <1>2 DEF Until
      <4> QED BY <4>1, <1>1, KindsDiffer
    <3>2. CASE j = n - 1
      <4>1. g[j] = h[n - 1] /\ g[j + 1] = c /\ j < Len(g)
        BY <3>2, <2>2, <2>3, <1>2
      <4>2. Until(g, j, next) = h[n-1].pay_id .. (pay_id - 1)
        BY <4>1, <1>1 DEF Until
      <4>3. Until(h, n - 1, pay_id) = h[n-1].pay_id .. (h[n].pay_id - 1)
        BY <2>2, <1>2 DEF Until
      <4>4. Until(h, n, pay_id) = h[n].pay_id .. (pay_id - 1)
        BY <1>2 DEF Until
      <4>5. h[n-1].pay_id .. (pay_id - 1) \subseteq rcv
        <5> SUFFICES ASSUME NEW x \in h[n-1].pay_id .. (pay_id - 1)
                     PROVE  x \in rcv
          OBVIOUS
        <5>1. h[n-1].pay_id \in Nat /\ h[n].pay_id \in Nat
          BY <2>2, <2>4
        <5>2. CASE x < h[n].pay_id
          BY <5>1, <5>2, <4>3, <2>5
        <5>3. CASE ~(x < h[n].pay_id)
          BY <5>1, <5>3, <4>4, <2>5
        <5> QED BY <5>2, <5>3
      <4> QED BY <4>1, <4>2, <4>5, <1>4
    <3>3. CASE j < n - 1
      <4>1. j \in 1..n /\ j + 1 \in 1..n /\ j # n /\ j + 1 # n
        BY <3>3, <1>2
      <4>2. g[j] = h[j] /\ g[j + 1] = h[j + 1]
        BY <4>1, <2>3
      <4>3. j < Len(g) /\ j < Len(h)
        BY <3>3, <2>3, <1>2
      <4>4. Until(g, j, next) = Until(h, j, pay_id)
        BY <4>2, <4>3 DEF Until
      <4> QED BY <4>1, <4>2, <4>4 DEF TruthfulUntil
    <3> QED BY <3>1, <3>2, <3>3, <1>2
  <2>7. g # <<>> /\ g[Len(g)] = c
    <3>1. g # <<>>
      BY <2>3, <1>2, <1>4, EmptySeq
    <3> QED BY <3>1, <2>2, <2>3
  <2> QED BY <2>3, <2>6, <2>7 DEF g, c
<1>5. CASE n # 0 /\ ~(n > 1 /\ h[n].id = ACK /\ h[n-1].id = ACK)
  <2>1. g = Append(h, c)
    <3>1. ~(c.id = NAK /\ h[n].id = NAK)
      BY <1>1, <1>2, <1>5, KindsDiffer
    <3> QED BY <3>1, <1>5 DEF AddCmd
  <2>2. /\ g \in Seq(AckNakCmd)
        /\ g # <<>>
        /\ Len(g) = n + 1
        /\ \A j \in 1..n : g[j] = h[j]
        /\ g[n + 1] = c
    BY <2>1, <1>1, AppendProperties
  <2> HIDE DEF g
  <2>3. TruthfulUntil(g, next, rcv, last)
    <3> SUFFICES ASSUME NEW j \in 1..(n + 1)
                 PROVE  IF g[j].id = ACK
                        THEN Until(g, j, next) \subseteq rcv
                        ELSE \A x \in Until(g, j, next) : x \notin rcv /\ x <= last
      BY <2>2 DEF TruthfulUntil
    <3>1. CASE j = n + 1
      <4>1. g[j] = c /\ Until(g, j, next) = pay_id .. (next - 1)
        BY <3>1, <2>2, <1>1, <1>2 DEF Until
      <4> QED BY <4>1, <1>1, KindsDiffer
    <3>2. CASE j = n
      <4>1. g[j] = h[n] /\ g[j + 1] = c /\ j < Len(g) /\ ~(j < Len(h))
        BY <3>2, <2>2, <1>2
      <4>2. Until(g, j, next) = Until(h, n, pay_id)
        BY <4>1, <3>2, <1>1 DEF Until
      <4>3. n \in 1..Len(h)
        BY <1>2, <1>5
      <4> QED BY <4>1, <4>2, <4>3 DEF TruthfulUntil
    <3>3. CASE j < n
      <4>1. j \in 1..n /\ j + 1 \in 1..n
        BY <3>3, <1>2
      <4>2. g[j] = h[j] /\ g[j + 1] = h[j + 1]
        BY <4>1, <2>2
      <4>3. j < Len(g) /\ j < Len(h)
        BY <3>3, <2>2, <1>2
      <4>4. Until(g, j, next) = Until(h, j, pay_id)
        BY <4>2, <4>3 DEF Until
      <4> QED BY <4>1, <4>2, <4>4 DEF TruthfulUntil
    <3> QED BY <3>1, <3>2, <3>3, <1>2
  <2>4. g[Len(g)] = c
    BY <2>2
  <2> QED BY <2>2, <2>3, <2>4 DEF g, c
<1> QED BY <1>2, <1>3, <1>4, <1>5

(***************************************************************************)
(* handle_node_commands: after the gap and the packet were recorded, the   *)
(* vector is truthful about what has been received now, and it ends with   *)
(* the ACK of the packet.                                                  *)
(***************************************************************************)
THEOREM AddReceivedTruthful ==
  ASSUME NEW h \in Seq(AckNakCmd), NEW last \in Nat, NEW id \in Nat, id > last,
         NEW rcv, rcv \subseteq 0..last,
         Truthful(h, rcv, last), EndsAt(h, last)
  PROVE  /\ AddReceived(h, last, id) \in Seq(AckNakCmd)
         /\ Truthful(AddReceived(h, last, id), rcv \union {id}, id)
         /\ EndsAt(AddReceived(h, last, id), id)
<1> DEFINE n == Len(h)
           now == rcv \union {id}
           gapped == IF id > last + 1 THEN AddCmd(h, Cmd(NAK, last + 1)) ELSE h
           g == AddCmd(gapped, Cmd(ACK, id))
<1>1. n \in Nat /\ (h # <<>> <=> n # 0)
  BY EmptySeq, LenProperties
<1>2. h # <<>> => h[n].id = ACK /\ h[n].pay_id = last
  BY CmdType DEF EndsAt
<1>3. TruthfulUntil(h, last + 1, now, id)
  <2> SUFFICES ASSUME NEW i \in 1..n
               PROVE  IF h[i].id = ACK
                      THEN Until(h, i, last + 1) \subseteq now
                      ELSE \A x \in Until(h, i, last + 1) : x \notin now /\ x <= id
    BY DEF TruthfulUntil
  <2>1. CASE i < n
    <3>1. Until(h, i, last + 1) = Scope(h, i)
      BY <2>1 DEF Until, Scope
    <3>2. \A x \in Scope(h, i) : x \in Int
      BY <2>1 DEF Scope
    <3>3. CASE h[i].id = ACK
      BY <3>1, <3>3 DEF Truthful
    <3>4. CASE h[i].id # ACK
      <4>1. \A x \in Scope(h, i) : x \notin rcv /\ x <= last
        BY <3>4 DEF Truthful
      <4>2. \A x \in Scope(h, i) : x # id /\ x <= id
        BY <4>1, <3>2
      <4> QED BY <3>1, <3>4, <4>1, <4>2
    <3> QED BY <3>3, <3>4
  <2>2. CASE ~(i < n)
    <3>1. i = n /\ h # <<>>
      BY <2>2, <1>1
    <3>2. h[i].id = ACK /\ h[i].pay_id = last
      BY <3>1, <1>2
    <3>3. Until(h, i, last + 1) = last .. last /\ Scope(h, i) = {last}
      BY <2>2, <3>2 DEF Until, Scope
    <3>4. Scope(h, i) \subseteq rcv
      BY <3>2 DEF Truthful
    <3> QED BY <3>2, <3>3, <3>4
  <2> QED BY <2>1, <2>2
<1>4. /\ gapped \in Seq(AckNakCmd)
      /\ TruthfulUntil(gapped, id, now, id)
  <2>1. CASE id > last + 1
    <3>1. last + 1 \in Nat /\ NAK \in {ACK, NAK}
      OBVIOUS
    <3>2. \A x \in (last + 1) .. (id - 1) : x \notin now /\ x <= id
      OBVIOUS
    <3>3. ~(h # <<>> /\ h[Len(h)].id = NAK)
      BY <1>2, KindsDiffer
    <3>4. /\ AddCmd(h, Cmd(NAK, last + 1)) \in Seq(AckNakCmd)
          /\ TruthfulUntil(AddCmd(h, Cmd(NAK, last + 1)), id, now, id)
      <4> HIDE DEF now
      <4> QED BY <1>3, <3>1, <3>2, <3>3, KindsDiffer, AddCmdTruthful
    <3> QED BY <3>4, <2>1
  <2>2. CASE ~(id > last + 1)
    <3>1. id = last + 1
      BY <2>2
    <3> QED BY <3>1, <2>2, <1>3
  <2> QED BY <2>1, <2>2
<1>5. /\ g \in Seq(AckNakCmd)
      /\ g # <<>>
      /\ TruthfulUntil(g, id + 1, now, id)
      /\ g[Len(g)] = Cmd(ACK, id)
  <2>1. id + 1 \in Nat /\ ACK \in {ACK, NAK}
    OBVIOUS
  <2>2. id .. ((id + 1) - 1) \subseteq now
    OBVIOUS
  <2> HIDE DEF gapped, now
  <2> QED BY ZenonT(60), <1>4, <2>1, <2>2, KindsDiffer, AddCmdTruthful
<1>6. Truthful(g, now, id)
  <2> HIDE DEF g, now
  <2> SUFFICES ASSUME NEW i \in 1..Len(g)
               PROVE  IF g[i].id = ACK
                      THEN Scope(g, i) \subseteq now
                      ELSE /\ i < Len(g)
                           /\ \A x \in Scope(g, i) : x \notin now /\ x <= id
    BY DEF Truthful
  <2>0. Len(g) \in Nat
    BY <1>5, LenProperties
  <2>1. CASE i < Len(g)
    <3>1. Until(g, i, id + 1) = Scope(g, i)
      BY <2>1 DEF Until, Scope
    <3> QED BY <2>1, <3>1, <1>5 DEF TruthfulUntil
  <2>2. CASE ~(i < Len(g))
    <3>1. i = Len(g)
      BY <2>0, <2>2
    <3>2. g[i].id = ACK /\ g[i].pay_id = id
      BY <3>1, <1>5, CmdType
    <3>3. Until(g, i, id + 1) = id .. id /\ Scope(g, i) = {id}
      BY <2>2, <3>2 DEF Until, Scope
    <3> QED BY <3>2, <3>3, <1>5 DEF TruthfulUntil
  <2> QED BY <2>1, <2>2
<1>7. AddReceived(h, last, id) = g
  BY DEF AddReceived
<1> HIDE DEF g
<1> QED BY <1>5, <1>6, <1>7 DEF EndsAt

(***************************************************************************)
(* The operations on a vector return vectors, truthful or not.             *)
(***************************************************************************)
LEMMA AddCmdType ==
  ASSUME NEW h \in Seq(AckNakCmd), NEW c \in AckNakCmd
  PROVE  AddCmd(h, c) \in Seq(AckNakCmd)
<1>1. Len(h) \in Nat
  BY LenProperties
<1>2. <<c>> \in Seq(AckNakCmd) /\ Append(h, c) \in Seq(AckNakCmd)
  OBVIOUS
<1>3. ASSUME Len(h) > 1 PROVE [h EXCEPT ![Len(h)] = c] \in Seq(AckNakCmd)
  <2>1. Len(h) \in 1..Len(h)
    BY <1>1, <1>3
  <2> QED BY <2>1, ExceptSeq
<1> QED BY <1>2, <1>3 DEF AddCmd

(* Recording a gap and a packet returns a vector.                          *)
LEMMA AddReceivedType ==
  ASSUME NEW h \in Seq(AckNakCmd), NEW last \in Nat, NEW id \in Nat
  PROVE  AddReceived(h, last, id) \in Seq(AckNakCmd)
<1>1. Cmd(NAK, last + 1) \in AckNakCmd /\ Cmd(ACK, id) \in AckNakCmd
  <2>1. last + 1 \in Nat
    OBVIOUS
  <2> QED BY <2>1, CmdType
<1>2. AddCmd(h, Cmd(NAK, last + 1)) \in Seq(AckNakCmd)
  BY <1>1, AddCmdType
<1>3. (IF id > last + 1 THEN AddCmd(h, Cmd(NAK, last + 1)) ELSE h) \in Seq(AckNakCmd)
  BY <1>2
<1> QED BY <1>1, <1>3, AddCmdType DEF AddReceived

(* Cutting a vector returns a vector.                                      *)
LEMMA RemoveCmdsType ==
  ASSUME NEW h \in Seq(AckNakCmd), NEW ank \in Nat
  PROVE  RemoveCmds(h, ank) \in Seq(AckNakCmd)
<1> DEFINE n == Len(h)
           i == CutIndex(h, ank)
<1>1. n \in Nat /\ (h # <<>> <=> n # 0)
  BY EmptySeq, LenProperties
<1>2. CASE n = 0 \/ (n > 0 /\ ank > h[n].pay_id)
  BY <1>2 DEF RemoveCmds
<1>3. CASE ~(n = 0 \/ (n > 0 /\ ank > h[n].pay_id))
  <2>1. h # <<>> /\ n \in 1..Len(h) /\ h[n].pay_id \in Nat /\ h[n].pay_id >= ank
    BY <1>1, <1>3, PayIdType
  <2>2. i \in 1..n
    BY <2>1, CutIndexExists
  <2> HIDE DEF i
  <2>3. ASSUME NEW m \in 1..(n + 1)
        PROVE  SubSeq(h, m, n) \in Seq(AckNakCmd)
    <3>1. m \in Int /\ n \in Int /\ \A j \in m..n : h[j] \in AckNakCmd
      BY <1>1, PayIdType
    <3> QED BY <3>1, SubSeqProperties
  <2>4. ASSUME NEW m \in 1..(n + 1), NEW k \in 1..n, NEW p \in Nat
        PROVE  <<Cmd(h[k].id, p)>> \o SubSeq(h, m, n) \in Seq(AckNakCmd)
    <3>1. Cmd(h[k].id, p) \in AckNakCmd
      BY PayIdType, CmdType
    <3>2. <<Cmd(h[k].id, p)>> \in Seq(AckNakCmd)
      BY <3>1
    <3> QED BY <3>2, <2>3, ConcatProperties
  <2>5. i + 1 \in 1..(n + 1) /\ i \in 1..(n + 1) /\ (i > 1 => i - 1 \in 1..n)
    BY <1>1, <2>2
  <2>6. <<>> \in Seq(AckNakCmd) /\ ank + 1 \in Nat
    OBVIOUS
  <2> QED BY <1>3, <2>2, <2>3, <2>4, <2>5, <2>6 DEF RemoveCmds, i
<1> QED BY <1>2, <1>3

-----------------------------------------------------------------------------
(* The resend mechanism.                                                   *)

USE ResendAssumption

(* The sets that are counted are finite.                                   *)
Finite == IsFiniteSet(out_queue) /\ IsFiniteSet(packet_history)

TypeInv == TypeOK /\ Finite

(* The image of a finite set is finite and not larger.                     *)
LEMMA ImageFinite ==
  ASSUME NEW S, IsFiniteSet(S), NEW f, f \in [S -> {f[x] : x \in S}]
  PROVE  /\ IsFiniteSet({f[x] : x \in S})
         /\ Cardinality({f[x] : x \in S}) <= Cardinality(S)
<1> DEFINE T == {f[x] : x \in S}
<1>1. f \in Surjection(S, T)
  BY DEF Surjection
<1> QED BY <1>1, FS_Surjection

(* The commands of a finite set of sent commands.                          *)
LEMMA CmdsFinite ==
  ASSUME NEW S, IsFiniteSet(S)
  PROVE  IsFiniteSet({s.cmd : s \in S})
<1> DEFINE T == {s.cmd : s \in S}
           f == [s \in S |-> s.cmd]
<1>1. f \in Surjection(S, T)
  BY DEF Surjection
<1> HIDE DEF f, T
<1>2. IsFiniteSet(T)
  BY <1>1, FS_Surjection
<1> QED BY <1>2 DEF T

(* The history gets at most one entry for each command of a packet.        *)
LEMMA EntriesFinite ==
  ASSUME NEW cmds, IsFiniteSet(cmds), NEW id
  PROVE  /\ IsFiniteSet({[pkt |-> id, cmd |-> c] : c \in cmds})
         /\ Cardinality({[pkt |-> id, cmd |-> c] : c \in cmds}) <= Cardinality(cmds)
<1> DEFINE f == [c \in cmds |-> [pkt |-> id, cmd |-> c]]
<1>1. f \in [cmds -> {f[x] : x \in cmds}]
  OBVIOUS
<1>2. {f[x] : x \in cmds} = {[pkt |-> id, cmd |-> c] : c \in cmds}
  OBVIOUS
<1> HIDE DEF f
<1> QED BY <1>1, <1>2, ImageFinite

(* The initial state.                                                      *)
LEMMA InitType == Init => TypeInv
<1> SUFFICES ASSUME Init PROVE TypeInv
  OBVIOUS
<1>1. ack_nak \in Seq(AckNakCmd)
  <2>1. Cmd(ACK, 1) \in AckNakCmd
    BY CmdType
  <2> QED BY <2>1 DEF Init
<1>2. Finite
  BY FS_EmptySet DEF Finite, Init
<1> QED BY <1>1, <1>2 DEF Init, TypeInv, TypeOK

(* PushCmd keeps the types.                                                *)
LEMMA PushCmdType ==
  ASSUME TypeInv, NEW k \in Keys, PushCmd(k)
  PROVE  TypeInv'
<1> DEFINE cmd == [key |-> k, ver |-> pushed[k] + 1]
           kept == {c \in out_queue : ~Obsolete(c, {cmd})}
<1>1. pushed[k] \in 0..MaxVer /\ pushed[k] + 1 \in 1..MaxVer
  BY DEF TypeInv, TypeOK, PushCmd
<1>2. cmd \in Command
  BY <1>1 DEF Command
<1>3. out_queue' = kept \union {cmd}
  BY DEF PushCmd
<1>4. IsFiniteSet(kept)
  <2>1. kept \in SUBSET out_queue /\ IsFiniteSet(out_queue)
    BY DEF TypeInv, Finite
  <2> HIDE DEF kept
  <2> QED BY <2>1, FS_Subset
<1>5. IsFiniteSet(out_queue')
  <2> HIDE DEF kept, cmd
  <2> QED BY <1>3, <1>4, FS_AddElement
<1>6. out_queue' \subseteq Command
  BY <1>2, <1>3 DEF TypeInv, TypeOK
<1>7. pushed' \in [Keys -> 0..MaxVer]
  BY <1>1 DEF PushCmd, TypeInv, TypeOK
<1> QED BY <1>5, <1>6, <1>7
        DEF PushCmd, TypeInv, TypeOK, Finite, receiverVars, networkVars

(***************************************************************************)
(* A packet takes any part of the queue; the bookkeeping of its commands.  *)
(***************************************************************************)
LEMMA AddToHistoryType ==
  ASSUME TypeInv, NEW cmds, cmds \subseteq out_queue, count_s_pay <= MaxPkt
  PROVE  /\ AddToHistory(count_s_pay, cmds) \subseteq SentCommand
         /\ IsFiniteSet(AddToHistory(count_s_pay, cmds))
         /\ IsFiniteSet(cmds)
         /\ IsFiniteSet(out_queue \ cmds)
         /\ IsFiniteSet({s \in packet_history : ~Obsolete(s.cmd, cmds)})
         /\ Cardinality(cmds) \in Nat
<1> DEFINE kept == {s \in packet_history : ~Obsolete(s.cmd, cmds)}
           entries == {[pkt |-> count_s_pay, cmd |-> c] : c \in cmds}
<1>1. IsFiniteSet(cmds) /\ IsFiniteSet(out_queue \ cmds) /\ IsFiniteSet(kept)
  <2>1. cmds \in SUBSET out_queue /\ out_queue \ cmds \in SUBSET out_queue
    OBVIOUS
  <2>2. kept \in SUBSET packet_history
    OBVIOUS
  <2>3. IsFiniteSet(out_queue) /\ IsFiniteSet(packet_history)
    BY DEF TypeInv, Finite
  <2> HIDE DEF kept
  <2> QED BY <2>1, <2>2, <2>3, FS_Subset
<1>2. IsFiniteSet(entries)
  BY <1>1, EntriesFinite
<1>3. IsFiniteSet(kept \union entries)
  <2> HIDE DEF kept, entries
  <2> QED BY <1>1, <1>2, FS_Union
<1>4. entries \subseteq SentCommand
  BY DEF TypeInv, TypeOK, SentCommand
<1>5. kept \union entries \subseteq SentCommand
  BY <1>4 DEF TypeInv, TypeOK
<1> QED BY <1>1, <1>3, <1>5, FS_CardinalityType DEF AddToHistory

(* SendPacket keeps the types, and the history finite.                     *)
LEMMA SendPacketType ==
  ASSUME TypeInv, NEW cmds, SendPacket(cmds)
  PROVE  TypeInv'
<1>1. cmds \subseteq out_queue /\ count_s_pay <= MaxPkt
  BY DEF SendPacket, MaySend
<1>2. /\ packet_history' \subseteq SentCommand
      /\ IsFiniteSet(packet_history')
      /\ IsFiniteSet(out_queue')
      /\ Cardinality(cmds) \in Nat
  BY <1>1, AddToHistoryType DEF SendPacket
<1>3. [id |-> count_s_pay, cmds |-> cmds, ank |-> ank_id] \in Packet
  BY <1>1 DEF Packet, TypeInv, TypeOK
<1>4. wire' \subseteq Packet
  BY <1>3 DEF SendPacket, TypeInv, TypeOK
<1>5. sent_size' \in Int /\ count_s_pay' \in 2..(MaxPkt + 1)
  BY <1>1, <1>2 DEF SendPacket, TypeInv, TypeOK
<1> QED BY <1>1, <1>2, <1>4, <1>5
        DEF SendPacket, TypeInv, TypeOK, Finite, receiverVars

(* So does a packet that could not be sent.                                *)
LEMMA SendPacketErrorType ==
  ASSUME TypeInv, NEW cmds, SendPacketError(cmds)
  PROVE  TypeInv'
<1>1. cmds \subseteq out_queue /\ count_s_pay <= MaxPkt
  BY DEF SendPacketError, MaySend
<1>2. IsFiniteSet(packet_history') /\ IsFiniteSet(out_queue')
  BY <1>1, AddToHistoryType DEF SendPacketError
<1>3. packet_history' \subseteq SentCommand /\ out_queue' \subseteq Command
  BY DEF SendPacketError, TypeInv, TypeOK
<1>4. fake_acks' \subseteq Command
  BY <1>1 DEF SendPacketError, FakeAcks, TypeInv, TypeOK
<1> QED BY <1>2, <1>3, <1>4
        DEF SendPacketError, TypeInv, TypeOK, Finite, receiverVars, networkVars

(* The last acknowledged id of a vector is a payload id.                   *)
LEMMA LastAckedType ==
  ASSUME NEW h \in Seq(AckNakCmd), h # <<>>
  PROVE  LastAcked(h) \in Nat
<1>1. Len(h) \in 1..Len(h)
  BY EmptySeq
<1> QED BY <1>1, PayIdType DEF LastAcked

(* ReceiveAck keeps the types; sent_size stays a number.                   *)
LEMMA ReceiveAckType ==
  ASSUME TypeInv, NEW h \in ack_wire, ReceiveAck(h)
  PROVE  TypeInv'
<1> DEFINE acked   == {s \in packet_history : s.pkt \in AckedIds(h)}
           nakked  == {s \in packet_history : s.pkt \in NakkedIds(h)}
           resent  == {s \in nakked : ~Obsolete(s.cmd, out_queue)}
           removed == acked \union (nakked \ resent)
<1>1. /\ out_queue' = out_queue \union {s.cmd : s \in resent}
      /\ packet_history' = packet_history \ (acked \union nakked)
      /\ sent_size' = sent_size - Cardinality(removed)
      /\ fake_acks' = fake_acks \union FakeAcks({s.cmd : s \in removed})
      /\ ank_id' = LastAcked(h)
  BY DEF ReceiveAck, HandleAckNak
<1>2. /\ resent \in SUBSET packet_history
      /\ removed \in SUBSET packet_history
      /\ packet_history \ (acked \union nakked) \in SUBSET packet_history
  OBVIOUS
<1> HIDE DEF acked, nakked, resent, removed
<1>3. /\ IsFiniteSet(resent) /\ IsFiniteSet(removed) /\ IsFiniteSet(packet_history')
  BY <1>1, <1>2, FS_Subset DEF TypeInv, Finite
<1>4. IsFiniteSet(out_queue')
  <2>1. IsFiniteSet({s.cmd : s \in resent})
    BY <1>3, CmdsFinite
  <2> DEFINE cs == {s.cmd : s \in resent}
  <2>2. IsFiniteSet(out_queue)
    BY DEF TypeInv, Finite
  <2> HIDE DEF cs
  <2>3. IsFiniteSet(out_queue \union cs)
    BY <2>1, <2>2, FS_Union DEF cs
  <2> QED BY <2>3, <1>1 DEF cs
<1>5. Cardinality(removed) \in Nat
  BY <1>3, FS_CardinalityType
<1>6. \A s \in packet_history : s.cmd \in Command
  BY DEF TypeInv, TypeOK, SentCommand
<1>7. out_queue' \subseteq Command /\ fake_acks' \subseteq Command
  BY <1>1, <1>2, <1>6 DEF TypeInv, TypeOK, FakeAcks
<1>8. packet_history' \subseteq SentCommand /\ sent_size' \in Int
  BY <1>1, <1>5 DEF TypeInv, TypeOK
<1>9. ank_id' \in Nat
  BY <1>1, LastAckedType DEF TypeInv, TypeOK
<1>10. ack_wire' \subseteq ack_wire
  BY DEF ReceiveAck
<1> QED BY <1>3, <1>4, <1>7, <1>8, <1>9, <1>10
        DEF ReceiveAck, TypeInv, TypeOK, Finite, receiverVars

(* ReceivePacket keeps the types.                                          *)
LEMMA ReceivePacketType ==
  ASSUME TypeInv, NEW p \in wire, ReceivePacket(p)
  PROVE  TypeInv'
<1>1. p.id \in Nat /\ p.ank \in Nat /\ p.cmds \subseteq Command
  BY DEF TypeInv, TypeOK, Packet
<1>2. ack_nak' \in Seq(AckNakCmd)
  BY <1>1, AddReceivedType, RemoveCmdsType DEF ReceivePacket, TypeInv, TypeOK
<1>3. value' \in [Keys -> 0..MaxVer]
  BY DEF ReceivePacket, Apply
<1>4. got' \in [Command -> Nat]
  BY DEF ReceivePacket, TypeInv, TypeOK
<1>5. gone' \subseteq Nat /\ received' \subseteq Nat /\ last_r_pay' \in Nat
  BY <1>1 DEF ReceivePacket, Arrived, TypeInv, TypeOK
<1> QED BY <1>2, <1>3, <1>4, <1>5
        DEF ReceivePacket, TypeInv, TypeOK, Finite, senderVars

(* ReceiveUnordered keeps the types.                                       *)
LEMMA ReceiveUnorderedType ==
  ASSUME TypeInv, NEW p \in wire, ReceiveUnordered(p)
  PROVE  TypeInv'
<1>1. p.id \in Nat
  BY DEF TypeInv, TypeOK, Packet
<1>2. gone' \subseteq Nat /\ last_r_pay' \in Nat
  BY <1>1 DEF ReceiveUnordered, Arrived, TypeInv, TypeOK
<1> QED BY <1>2 DEF ReceiveUnordered, TypeInv, TypeOK, Finite, senderVars

(* The steps of acknowledgments and losses keep the types.                 *)
LEMMA OtherStepsType ==
  ASSUME TypeInv,
         \/ SendAnk
         \/ \E ank \in ank_wire : ReceiveAnk(ank)
         \/ SendAck
         \/ \E p \in wire : LosePacket(p)
         \/ \E h \in ack_wire : LoseAck(h)
         \/ \E ank \in ank_wire : LoseAnk(ank)
         \/ UNCHANGED vars
  PROVE  TypeInv'
<1> USE DEF TypeInv, TypeOK, Finite, senderVars, receiverVars, networkVars
<1>1. CASE SendAnk
  BY <1>1 DEF SendAnk
<1>2. ASSUME NEW ank \in ank_wire, ReceiveAnk(ank) PROVE TypeInv'
  <2>1. ack_nak' \in Seq(AckNakCmd)
    BY <1>2, RemoveCmdsType DEF ReceiveAnk
  <2> QED BY <1>2, <2>1 DEF ReceiveAnk
<1>3. CASE SendAck
  BY <1>3 DEF SendAck
<1>4. ASSUME NEW p \in wire, LosePacket(p) PROVE TypeInv'
  <2>1. p.id \in Nat
    BY DEF Packet
  <2>2. gone' = gone \union {p.id} /\ losses' = losses + 1 /\ losses < MaxLoss
    BY <1>4 DEF LosePacket
  <2>3. gone' \subseteq Nat
    BY <2>1, <2>2
  <2>4. losses' \in 0..MaxLoss
    BY <2>2
  <2> QED BY <1>4, <2>3, <2>4 DEF LosePacket
<1>5. ASSUME NEW h \in ack_wire, LoseAck(h) PROVE TypeInv'
  BY <1>5 DEF LoseAck
<1>6. ASSUME NEW ank \in ank_wire, LoseAnk(ank) PROVE TypeInv'
  BY <1>6 DEF LoseAnk
<1>7. CASE UNCHANGED vars
  BY <1>7 DEF vars
<1> QED BY <1>1, <1>2, <1>3, <1>4, <1>5, <1>6, <1>7

(* Every step keeps the types.                                             *)
LEMMA TypeStep ==
  ASSUME TypeInv, [Next]_vars
  PROVE  TypeInv'
<1>1. CASE \E k \in Keys : PushCmd(k)
  BY <1>1, PushCmdType
<1>2. CASE SendSome
  BY <1>2, SendPacketType DEF SendSome
<1>3. CASE \E cmds \in SUBSET out_queue : SendPacketError(cmds)
  BY <1>3, SendPacketErrorType
<1>4. CASE ReceiveAcks
  BY <1>4, ReceiveAckType DEF ReceiveAcks
<1>5. CASE ReceiveSome
  BY <1>5, ReceivePacketType, ReceiveUnorderedType DEF ReceiveSome
<1> QED BY <1>1, <1>2, <1>3, <1>4, <1>5, OtherStepsType DEF Next

(* The type invariant with the finiteness it needs.                        *)
LEMMA TypeInvariant == Spec => []TypeInv
<1>1. TypeInv /\ [Next]_vars => TypeInv'
  BY TypeStep
<1> QED BY InitType, <1>1, PTL DEF Spec

(***************************************************************************)
(* Every variable keeps its type, whichever peer receives and whatever the *)
(* network and v_send_packet do.                                           *)
(***************************************************************************)
THEOREM TypeCorrect == Spec => []TypeOK
<1>1. TypeInv => TypeOK
  BY DEF TypeInv
<1> QED BY TypeInvariant, <1>1, PTL

-----------------------------------------------------------------------------
(***************************************************************************)
(* The vectors of ACK and NAK commands of a receiving client.  The         *)
(* inductive invariant adds to HistoryTruthful what AddReceivedTruthful    *)
(* needs: no packet beyond last_r_pay was taken, and the vector ends with  *)
(* the ACK of packet last_r_pay.                                           *)
(***************************************************************************)
VectorInv ==
  /\ received \subseteq 0..last_r_pay
  /\ EndsAt(ack_nak, last_r_pay)
  /\ HistoryTruthful

(* A vector stays truthful when a new packet is received.                  *)
LEMMA StillTruthful ==
  ASSUME NEW h, NEW rcv, NEW last \in Nat, NEW id \in Nat, id > last,
         Truthful(h, rcv, last)
  PROVE  Truthful(h, rcv \union {id}, id)
<1> SUFFICES ASSUME NEW i \in 1..Len(h)
             PROVE  IF h[i].id = ACK
                    THEN Scope(h, i) \subseteq rcv \union {id}
                    ELSE /\ i < Len(h)
                         /\ \A x \in Scope(h, i) : x \notin rcv \union {id} /\ x <= id
  BY DEF Truthful
<1>1. CASE h[i].id = ACK
  BY <1>1 DEF Truthful
<1>2. CASE h[i].id # ACK
  <2>1. i < Len(h) /\ \A x \in Scope(h, i) : x \notin rcv /\ x <= last
    BY <1>2 DEF Truthful
  <2>2. \A x \in Scope(h, i) : x \in Int
    BY <2>1 DEF Scope
  <2> QED BY <1>2, <2>1, <2>2
<1> QED BY <1>1, <1>2

(* The initial vector, one ACK, is truthful.                               *)
LEMMA InitVector == Init => VectorInv
<1> SUFFICES ASSUME Init PROVE VectorInv
  OBVIOUS
<1> DEFINE h == <<Cmd(ACK, 1)>>
<1>1. Cmd(ACK, 1).id = ACK /\ Cmd(ACK, 1).pay_id = 1
  BY CmdType
<1>2. Len(h) = 1 /\ h[1] = Cmd(ACK, 1)
  OBVIOUS
<1> HIDE DEF h
<1>3. Scope(h, 1) = {1}
  BY <1>1, <1>2 DEF Scope
<1>4. Truthful(h, {0, 1}, 1)
  BY <1>1, <1>2, <1>3 DEF Truthful
<1>5. ack_nak = h /\ ack_wire = {} /\ received = {0, 1} /\ last_r_pay = 1
  BY DEF Init, h
<1>6. HistoryTruthful
  <2> SUFFICES ASSUME NEW g \in ack_wire \union {ack_nak}
               PROVE  Truthful(g, received, last_r_pay)
    BY DEF HistoryTruthful
  <2>1. g = h
    BY <1>5
  <2> QED BY <2>1, <1>4, <1>5
<1>7. EndsAt(ack_nak, last_r_pay)
  BY <1>1, <1>2, <1>5 DEF EndsAt
<1>8. received \subseteq 0..last_r_pay
  BY <1>5
<1> QED BY <1>6, <1>7, <1>8 DEF VectorInv

(* ReceivePacket: the vector stays truthful, old ones in flight too.       *)
LEMMA ReceivePacketVector ==
  ASSUME TypeInv, VectorInv, NEW p \in wire, ReceivePacket(p)
  PROVE  VectorInv'
<1> DEFINE g == AddReceived(ack_nak, last_r_pay, p.id)
<1>1. p.id \in Nat /\ p.ank \in Nat
  BY DEF TypeInv, TypeOK, Packet
<1>2. /\ p.id > last_r_pay
      /\ ack_nak' = RemoveCmds(g, p.ank)
      /\ last_r_pay' = p.id
      /\ received' = received \union {p.id}
      /\ ack_wire' = ack_wire
  BY DEF ReceivePacket
<1>3. /\ ack_nak \in Seq(AckNakCmd)
      /\ last_r_pay \in Nat
      /\ ack_wire \subseteq Seq(AckNakCmd)
  BY DEF TypeInv, TypeOK
<1>4. /\ g \in Seq(AckNakCmd)
      /\ Truthful(g, received', p.id)
      /\ EndsAt(g, p.id)
  BY <1>1, <1>2, <1>3, AddReceivedTruthful DEF VectorInv, HistoryTruthful
<1> HIDE DEF g
<1>5. /\ Truthful(ack_nak', received', p.id)
      /\ ack_nak' # <<>> => g # <<>> /\ ack_nak'[Len(ack_nak')] = g[Len(g)]
  BY <1>1, <1>2, <1>4, RemoveCmdsTruthful
<1>6. EndsAt(ack_nak', p.id)
  BY <1>4, <1>5 DEF EndsAt
<1>7. \A h \in ack_wire : Truthful(h, received', p.id)
  BY <1>1, <1>2, <1>3, StillTruthful DEF VectorInv, HistoryTruthful
<1>8. received' \subseteq 0..p.id
  <2>1. received \subseteq 0..last_r_pay
    BY DEF VectorInv
  <2> SUFFICES ASSUME NEW x \in received' PROVE x \in 0..p.id
    OBVIOUS
  <2>2. CASE x \in received
    <3>1. x \in 0..last_r_pay
      BY <2>1, <2>2
    <3>2. last_r_pay < p.id
      BY <1>1, <1>2, <1>3
    <3> QED BY <3>1, <3>2, <1>1, <1>3
  <2>3. CASE x = p.id
    BY <2>3, <1>1
  <2> QED BY <1>2, <2>2, <2>3
<1>9. HistoryTruthful'
  BY <1>2, <1>5, <1>7 DEF HistoryTruthful
<1>10. EndsAt(ack_nak, last_r_pay)'
  BY <1>2, <1>6 DEF EndsAt
<1> QED BY <1>2, <1>8, <1>9, <1>10 DEF VectorInv

(* ReceiveAnk cuts the vector and leaves it truthful.                      *)
LEMMA ReceiveAnkVector ==
  ASSUME TypeInv, VectorInv, NEW ank \in ank_wire, ReceiveAnk(ank)
  PROVE  VectorInv'
<1>1. /\ ack_nak \in Seq(AckNakCmd) /\ last_r_pay \in Nat /\ ank \in Nat
  BY DEF TypeInv, TypeOK
<1>2. /\ ack_nak' = RemoveCmds(ack_nak, ank)
      /\ received' = received /\ last_r_pay' = last_r_pay /\ ack_wire' = ack_wire
  BY DEF ReceiveAnk
<1>3. /\ Truthful(ack_nak', received, last_r_pay)
      /\ ack_nak' # <<>> =>
           ack_nak # <<>> /\ ack_nak'[Len(ack_nak')] = ack_nak[Len(ack_nak)]
  BY <1>1, <1>2, RemoveCmdsTruthful DEF VectorInv, HistoryTruthful
<1>4. EndsAt(ack_nak, last_r_pay)'
  BY <1>2, <1>3 DEF VectorInv, EndsAt
<1>5. HistoryTruthful'
  BY <1>2, <1>3 DEF VectorInv, HistoryTruthful
<1> QED BY <1>2, <1>4, <1>5 DEF VectorInv

(* The other steps change nothing but the set of vectors in flight.        *)
LEMMA OtherStepsVector ==
  ASSUME VectorInv,
         received' = received, last_r_pay' = last_r_pay, ack_nak' = ack_nak,
         ack_wire' \subseteq ack_wire \union {ack_nak}
  PROVE  VectorInv'
<1>1. HistoryTruthful'
  BY DEF VectorInv, HistoryTruthful
<1>2. EndsAt(ack_nak, last_r_pay)'
  BY DEF VectorInv, EndsAt
<1> QED BY <1>1, <1>2 DEF VectorInv

(* VectorInv is an invariant at a client that receives.                    *)
LEMMA VectorInvariant ==
  ASSUME ReceiverIsServer = FALSE
  PROVE  Spec => []VectorInv
<1>1. TypeInv /\ VectorInv /\ [Next]_vars => VectorInv'
  <2> SUFFICES ASSUME TypeInv, VectorInv, [Next]_vars PROVE VectorInv'
    OBVIOUS
  <2> USE DEF receiverVars, networkVars
  <2>1. CASE \E k \in Keys : PushCmd(k)
    BY <2>1, OtherStepsVector DEF PushCmd
  <2>2. CASE SendSome
    BY <2>2, OtherStepsVector DEF SendSome, SendPacket
  <2>3. CASE \E cmds \in SUBSET out_queue : SendPacketError(cmds)
    BY <2>3, OtherStepsVector DEF SendPacketError
  <2>4. CASE ReceiveAcks
    BY <2>4, OtherStepsVector DEF ReceiveAcks, ReceiveAck
  <2>5. CASE SendAnk
    BY <2>5, OtherStepsVector DEF SendAnk
  <2>6. CASE \E p \in wire : ReceivePacket(p)
    BY <2>6, ReceivePacketVector
  <2>7. CASE \E p \in wire : ReceiveUnordered(p)
    BY <2>7, OtherStepsVector DEF ReceiveUnordered
  <2>8. CASE \E ank \in ank_wire : ReceiveAnk(ank)
    BY <2>8, ReceiveAnkVector
  <2>9. CASE SendAck
    BY <2>9, OtherStepsVector DEF SendAck
  <2>10. CASE \E p \in wire : LosePacket(p)
    BY <2>10, OtherStepsVector DEF LosePacket
  <2>11. CASE \E h \in ack_wire : LoseAck(h)
    BY <2>11, OtherStepsVector DEF LoseAck
  <2>12. CASE \E ank \in ank_wire : LoseAnk(ank)
    BY <2>12, OtherStepsVector DEF LoseAnk
  <2>13. CASE UNCHANGED vars
    BY <2>13, OtherStepsVector DEF vars
  <2> QED BY <2>1, <2>2, <2>3, <2>4, <2>5, <2>6, <2>7, <2>8, <2>9, <2>10,
             <2>11, <2>12, <2>13 DEF Next, ReceiveSome
<1> QED BY InitVector, TypeInvariant, <1>1, PTL DEF Spec

(***************************************************************************)
(* At a client that receives (the server's handler takes over the ids of   *)
(* late packets and does not have this property), no loss, delay,          *)
(* reordering, duplication or failed sending makes a vector of ACK and NAK *)
(* commands lie: v_ack_nak_history_add_cmd and                             *)
(* v_ack_nak_history_remove_cmds lose only what the sender knows.          *)
(***************************************************************************)
THEOREM VectorsAreTruthful ==
  ASSUME ReceiverIsServer = FALSE
  PROVE  Spec => []HistoryTruthful
<1>1. VectorInv => HistoryTruthful
  BY DEF VectorInv
<1> QED BY VectorInvariant, <1>1, PTL
-----------------------------------------------------------------------------
(* Taking a part R of a finite set away, and more, leaves at most what is  *)
(* left without R.                                                         *)
LEMMA RemovedCount ==
  ASSUME NEW S, IsFiniteSet(S), NEW R, R \subseteq S, NEW T, T \subseteq S \ R
  PROVE  /\ IsFiniteSet(T) /\ IsFiniteSet(R)
         /\ Cardinality(T) \in Nat /\ Cardinality(R) \in Nat
         /\ Cardinality(T) <= Cardinality(S) - Cardinality(R)
<1>1. IsFiniteSet(R) /\ IsFiniteSet(S \ R) /\ IsFiniteSet(T)
  BY FS_Subset
<1>2. Cardinality(T) <= Cardinality(S \ R)
  BY <1>1, FS_Subset
<1>3. Cardinality(S \ R) = Cardinality(S) - Cardinality(S \cap R)
  BY FS_Difference
<1>4. S \cap R = R
  OBVIOUS
<1>5. /\ Cardinality(T) \in Nat /\ Cardinality(R) \in Nat
      /\ Cardinality(S) \in Nat /\ Cardinality(S \ R) \in Nat
  BY <1>1, FS_CardinalityType
<1> QED BY <1>1, <1>2, <1>3, <1>4, <1>5

(* A sent packet is counted before its commands can be taken off the       *)
(* history, and what it makes obsolete stays counted.                      *)
LEMMA SendPacketSize ==
  ASSUME TypeInv, SentSizeCovers, NEW cmds, SendPacket(cmds)
  PROVE  SentSizeCovers'
<1> DEFINE kept == {s \in packet_history : ~Obsolete(s.cmd, cmds)}
           entries == {[pkt |-> count_s_pay, cmd |-> c] : c \in cmds}
<1>1. cmds \subseteq out_queue /\ count_s_pay <= MaxPkt
  BY DEF SendPacket, MaySend
<1>2. IsFiniteSet(cmds) /\ IsFiniteSet(kept) /\ Cardinality(cmds) \in Nat
  BY <1>1, AddToHistoryType
<1>3. IsFiniteSet(entries) /\ Cardinality(entries) <= Cardinality(cmds)
  BY <1>2, EntriesFinite
<1>4. kept \in SUBSET packet_history /\ IsFiniteSet(packet_history)
  BY DEF TypeInv, Finite
<1>5. packet_history' = kept \union entries /\ sent_size' = sent_size + Cardinality(cmds)
  BY DEF SendPacket, AddToHistory
<1>6. sent_size \in Int /\ sent_size >= Cardinality(packet_history)
  BY DEF TypeInv, TypeOK, SentSizeCovers
<1> HIDE DEF kept, entries
<1>7. Cardinality(kept) <= Cardinality(packet_history)
  BY <1>4, FS_Subset
<1>8. IsFiniteSet(kept \cap entries)
  BY <1>2, FS_Subset
<1>9. Cardinality(kept \union entries) =
        Cardinality(kept) + Cardinality(entries) - Cardinality(kept \cap entries)
  BY <1>2, <1>3, FS_Union
<1>10. /\ Cardinality(kept) \in Nat /\ Cardinality(entries) \in Nat
       /\ Cardinality(kept \cap entries) \in Nat /\ Cardinality(packet_history) \in Nat
  BY <1>2, <1>3, <1>4, <1>8, FS_CardinalityType
<1>11. Cardinality(packet_history') <= Cardinality(packet_history) + Cardinality(cmds)
  BY <1>2, <1>3, <1>5, <1>7, <1>9, <1>10
<1>12. Cardinality(packet_history') \in Nat
  BY <1>2, <1>3, <1>5, <1>9, FS_Union, FS_CardinalityType
<1> QED BY <1>2, <1>5, <1>6, <1>10, <1>11, <1>12 DEF SentSizeCovers

(* sent_size is reduced by no more than what leaves the history.           *)
LEMMA ReceiveAckSize ==
  ASSUME TypeInv, SentSizeCovers, NEW h \in ack_wire, ReceiveAck(h)
  PROVE  SentSizeCovers'
<1> DEFINE acked   == {s \in packet_history : s.pkt \in AckedIds(h)}
           nakked  == {s \in packet_history : s.pkt \in NakkedIds(h)}
           resent  == {s \in nakked : ~Obsolete(s.cmd, out_queue)}
           removed == acked \union (nakked \ resent)
           left    == packet_history \ (acked \union nakked)
<1>1. packet_history' = left /\ sent_size' = sent_size - Cardinality(removed)
  BY DEF ReceiveAck, HandleAckNak
<1>2. removed \subseteq packet_history /\ left \subseteq packet_history \ removed
  OBVIOUS
<1>3. IsFiniteSet(packet_history) /\ sent_size \in Int /\ sent_size >= Cardinality(packet_history)
  BY DEF TypeInv, TypeOK, Finite, SentSizeCovers
<1> HIDE DEF acked, nakked, resent, removed, left
<1>4. /\ Cardinality(left) \in Nat /\ Cardinality(removed) \in Nat
      /\ Cardinality(left) <= Cardinality(packet_history) - Cardinality(removed)
  BY <1>2, <1>3, RemovedCount
<1>5. Cardinality(packet_history) \in Nat
  BY <1>3, FS_CardinalityType
<1> QED BY <1>1, <1>3, <1>4, <1>5 DEF SentSizeCovers

(* A failed packet leaves sent_size alone; the history only shrinks.       *)
LEMMA SendPacketErrorSize ==
  ASSUME TypeInv, SentSizeCovers, NEW cmds, SendPacketError(cmds)
  PROVE  SentSizeCovers'
<1>1. packet_history' \in SUBSET packet_history /\ sent_size' = sent_size
  BY DEF SendPacketError
<1>2. IsFiniteSet(packet_history) /\ sent_size \in Int /\ sent_size >= Cardinality(packet_history)
  BY DEF TypeInv, TypeOK, Finite, SentSizeCovers
<1>3. /\ Cardinality(packet_history') <= Cardinality(packet_history)
      /\ IsFiniteSet(packet_history')
  BY <1>1, <1>2, FS_Subset
<1>4. Cardinality(packet_history) \in Nat /\ Cardinality(packet_history') \in Nat
  BY <1>2, <1>3, FS_CardinalityType
<1> QED BY <1>1, <1>2, <1>3, <1>4 DEF SentSizeCovers

(***************************************************************************)
(* What is in the history of sent packets is accounted for in sent_size,   *)
(* whatever was acknowledged, rejected, made obsolete or could not be      *)
(* sent: when v_packet_history_rem_packet takes sizes off the unsigned     *)
(* counter it does not fall below zero.                                    *)
(***************************************************************************)
THEOREM SentSizeCoversHistory == Spec => []SentSizeCovers
<1>1. Init => SentSizeCovers
  BY FS_EmptySet DEF Init, SentSizeCovers
<1>2. ASSUME TypeInv, SentSizeCovers, [Next]_vars PROVE SentSizeCovers'
  <2> USE <1>2
  <2>1. CASE SendSome
    BY <2>1, SendPacketSize DEF SendSome
  <2>2. CASE \E cmds \in SUBSET out_queue : SendPacketError(cmds)
    BY <2>2, SendPacketErrorSize
  <2>3. CASE ReceiveAcks
    BY <2>3, ReceiveAckSize DEF ReceiveAcks
  <2>4. CASE UNCHANGED <<packet_history, sent_size>>
    BY <2>4 DEF SentSizeCovers
  <2>5. CASE \E k \in Keys : PushCmd(k)
    BY <2>4, <2>5 DEF PushCmd
  <2>6. CASE \/ SendAnk \/ SendAck \/ ReceiveSome
             \/ \E ank \in ank_wire : ReceiveAnk(ank)
             \/ \E p \in wire : LosePacket(p)
             \/ \E h \in ack_wire : LoseAck(h)
             \/ \E ank \in ank_wire : LoseAnk(ank)
    BY <2>4, <2>6 DEF SendAnk, SendAck, ReceiveSome, ReceivePacket, ReceiveUnordered,
                      ReceiveAnk, LosePacket, LoseAck, LoseAnk, senderVars
  <2>7. CASE UNCHANGED vars
    BY <2>4, <2>7 DEF vars, senderVars
  <2> QED BY <2>1, <2>2, <2>3, <2>5, <2>6, <2>7 DEF Next
<1>3. TypeInv /\ SentSizeCovers /\ [Next]_vars => SentSizeCovers'
  BY <1>2
<1> QED BY TypeInvariant, <1>1, <1>3, PTL DEF Spec

-----------------------------------------------------------------------------
(* No command is delivered twice or lost, none is reported as known to the *)
(* peer that is not, and an older value never overwrites a newer one.      *)
USE ResendAssumption

(* Packet p was not received and never will be.                            *)
Dead(p) == p.id \notin received /\ p.id <= last_r_pay

(* Payload ids are used in order.                                          *)
IdsInOrder ==
  /\ last_r_pay < count_s_pay
  /\ \A p \in wire : p.id < count_s_pay
  /\ \A s \in packet_history : s.pkt < count_s_pay

(* Only issued commands are queued, remembered, sent or received.          *)
OnlyIssued ==
  /\ \A c \in out_queue : c.ver <= pushed[c.key]
  /\ \A s \in packet_history : s.cmd.ver <= pushed[s.cmd.key]
  /\ \A p \in wire : \A c \in p.cmds : c.ver <= pushed[c.key]
  /\ \A c \in Command : got[c] > 0 => c.ver <= pushed[c.key]

(* What waits in the queue was not received and can only be received from  *)
(* packets that are still to be sent.                                      *)
QueueUnsent ==
  \A c \in out_queue :
    /\ got[c] = 0
    /\ \A p \in wire : c \in p.cmds => Dead(p)
    /\ \A s \in packet_history : s.cmd # c

(* A command of the history is carried by its own packet, and by no other  *)
(* packet that could be received.                                          *)
HistoryOwned ==
  /\ \A s \in packet_history :
       /\ \A p \in wire : s.cmd \in p.cmds /\ p.id # s.pkt => Dead(p)
       /\ \A p \in wire : p.id = s.pkt => s.cmd \in p.cmds
       /\ IF s.pkt \in received THEN got[s.cmd] = 1 ELSE got[s.cmd] = 0
  /\ \A s, t \in packet_history : s.cmd = t.cmd => s = t

(* Of the packets that carry a command only the last can be received.      *)
LastCarrier ==
  \A p, q \in wire :
    p.id < q.id /\ p.cmds \cap q.cmds # {} => Dead(p)

(* A received command is not received again.                               *)
GotOnce ==
  \A c \in Command :
    /\ got[c] <= 1
    /\ got[c] > 0 => \A p \in wire : c \in p.cmds => p.id <= last_r_pay

DeliveryInv ==
  /\ IdsInOrder
  /\ OnlyIssued
  /\ QueueUnsent
  /\ HistoryOwned
  /\ LastCarrier
  /\ GotOnce

-----------------------------------------------------------------------------
(* The types of the parts of commands, packets and entries of the history. *)
LEMMA Parts ==
  ASSUME TypeInv
  PROVE  /\ \A c \in Command : c.key \in Keys /\ c.ver \in Nat
         /\ \A p \in wire : p.id \in Nat /\ p.cmds \subseteq Command
         /\ \A s \in packet_history : s.pkt \in Nat /\ s.cmd \in Command
         /\ out_queue \subseteq Command
         /\ count_s_pay \in Nat /\ last_r_pay \in Nat
         /\ \A k \in Keys : pushed[k] \in Nat
         /\ \A c \in Command : got[c] \in Nat
<1>1. \A c \in Command : c.key \in Keys /\ c.ver \in 1..MaxVer
  BY DEF Command
<1>2. \A p \in wire : p.id \in 0..MaxPkt /\ p.cmds \subseteq Command
  BY DEF TypeInv, TypeOK, Packet
<1>3. \A s \in packet_history : s.pkt \in 0..MaxPkt /\ s.cmd \in Command
  BY DEF TypeInv, TypeOK, SentCommand
<1>4. out_queue \subseteq Command
  BY DEF TypeInv, TypeOK
<1>5. count_s_pay \in Nat /\ last_r_pay \in Nat
  BY DEF TypeInv, TypeOK
<1>6. \A k \in Keys : pushed[k] \in 0..MaxVer
  BY DEF TypeInv, TypeOK
<1>7. \A c \in Command : got[c] \in Nat
  BY DEF TypeInv, TypeOK
<1>8. /\ \A n \in 1..MaxVer : n \in Nat
      /\ \A n \in 0..MaxVer : n \in Nat
      /\ \A n \in 0..MaxPkt : n \in Nat
  OBVIOUS
<1> QED BY <1>1, <1>2, <1>3, <1>4, <1>5, <1>6, <1>7, <1>8

(* The initial state.                                                      *)
LEMMA InitDelivery == Init => DeliveryInv
BY DEF Init, DeliveryInv, IdsInOrder, OnlyIssued, QueueUnsent, HistoryOwned,
       LastCarrier, GotOnce

(***************************************************************************)
(* A step that removes commands from the queue and entries from the        *)
(* history, and leaves the rest alone.                                     *)
(***************************************************************************)
LEMMA ShrinkDelivery ==
  ASSUME DeliveryInv, out_queue' \subseteq out_queue,
         packet_history' \subseteq packet_history,
         UNCHANGED <<pushed, count_s_pay, last_r_pay, received, got, wire>>
  PROVE  DeliveryInv'
<1>1. \A p : Dead(p)' <=> Dead(p)
  BY DEF Dead
<1>2. IdsInOrder' /\ OnlyIssued'
  BY DEF DeliveryInv, IdsInOrder, OnlyIssued
<1>3. QueueUnsent'
  BY <1>1 DEF DeliveryInv, QueueUnsent
<1>4. HistoryOwned'
  BY <1>1 DEF DeliveryInv, HistoryOwned
<1>5. LastCarrier' /\ GotOnce'
  BY <1>1 DEF DeliveryInv, LastCarrier, GotOnce
<1> QED BY <1>2, <1>3, <1>4, <1>5 DEF DeliveryInv

(* The bound on the number of commands.                                    *)
LEMMA PushedBelow ==
  ASSUME TypeInv, NEW k \in Keys, PushCmd(k)
  PROVE  pushed[k] + 1 \in 1..MaxVer
BY DEF TypeInv, TypeOK, PushCmd

(* PushCmd: the new command was never sent.                                *)
LEMMA PushCmdDelivery ==
  ASSUME TypeInv, DeliveryInv, NEW k \in Keys, PushCmd(k)
  PROVE  DeliveryInv'
<1> DEFINE cmd == [key |-> k, ver |-> pushed[k] + 1]
<1>1. /\ out_queue' \subseteq out_queue \union {cmd}
      /\ pushed' = [pushed EXCEPT ![k] = @ + 1]
      /\ UNCHANGED <<packet_history, count_s_pay, last_r_pay, received, got, wire>>
  BY DEF PushCmd, receiverVars, networkVars
<1>2. \A p : Dead(p)' <=> Dead(p)
  BY <1>1 DEF Dead
<1>3. /\ \A j \in Keys : pushed[j] \in Nat /\ pushed[j] <= pushed'[j]
      /\ pushed'[k] = pushed[k] + 1 /\ pushed \in [Keys -> 0..MaxVer]
  BY <1>1 DEF TypeInv, TypeOK
<1>4. /\ cmd \in Command
      /\ got[cmd] = 0
      /\ \A p \in wire : cmd \notin p.cmds
      /\ \A s \in packet_history : s.cmd # cmd
  <2>1. cmd \in Command
    <3>1. pushed[k] + 1 \in 1..MaxVer
      BY PushedBelow
    <3> QED BY <3>1 DEF Command
  <2>2. ~(cmd.ver <= pushed[cmd.key])
    BY <1>3
  <2> QED BY <2>1, <2>2, Parts DEF DeliveryInv, OnlyIssued
<1> HIDE DEF cmd
<1>5. IdsInOrder'
  BY <1>1 DEF DeliveryInv, IdsInOrder
<1>6. OnlyIssued'
  <2>1. ASSUME NEW c \in Command, c.ver <= pushed[c.key]
        PROVE  c.ver <= pushed'[c.key]
    <3>1. c.key \in Keys /\ c.ver \in Nat
      BY Parts
    <3>2. pushed[c.key] \in Nat /\ pushed'[c.key] \in Nat
          /\ pushed[c.key] <= pushed'[c.key]
      BY <3>1, <1>1, <1>3
    <3> QED BY <2>1, <3>1, <3>2
  <2>2. cmd.ver <= pushed'[cmd.key]
    BY <1>3 DEF cmd
  <2> QED BY <1>1, <2>1, <2>2, Parts DEF DeliveryInv, OnlyIssued
<1>7. QueueUnsent'
  BY <1>1, <1>2, <1>4 DEF DeliveryInv, QueueUnsent
<1>8. HistoryOwned' /\ LastCarrier' /\ GotOnce'
  BY <1>1, <1>2 DEF DeliveryInv, HistoryOwned, LastCarrier, GotOnce
<1> QED BY <1>5, <1>6, <1>7, <1>8 DEF DeliveryInv

(* SendPacket: every older packet with one of the commands is dead.        *)
LEMMA SendPacketDelivery ==
  ASSUME TypeInv, VectorInv, DeliveryInv, NEW cmds \in SUBSET out_queue,
         SendPacket(cmds)
  PROVE  DeliveryInv'
<1> DEFINE id == count_s_pay
           new == [id |-> id, cmds |-> cmds, ank |-> ank_id]
           sent == {[pkt |-> id, cmd |-> c] : c \in cmds}
<1>1. /\ out_queue' = out_queue \ cmds
      /\ packet_history' \subseteq packet_history \union sent
      /\ wire' = wire \union {new}
      /\ count_s_pay' = id + 1
      /\ UNCHANGED <<pushed, last_r_pay, received, got>>
  BY DEF SendPacket, AddToHistory, receiverVars
<1>2. \A p : Dead(p)' <=> Dead(p)
  BY <1>1 DEF Dead
<1>3. /\ new.id = id /\ new.cmds = cmds
      /\ \A s \in sent : s.pkt = id /\ s.cmd \in cmds /\ s = [pkt |-> id, cmd |-> s.cmd]
      /\ \A p \in wire' : p \in wire \/ (p.id = id /\ p.cmds = cmds)
      /\ \A s \in packet_history' : s \in packet_history \/ s \in sent
  BY <1>1
<1>4. id \notin received
  <2>1. received \subseteq 0..last_r_pay /\ last_r_pay < id
    BY DEF VectorInv, DeliveryInv, IdsInOrder
  <2> QED BY <2>1, Parts
<1> HIDE DEF new, sent
<1>5. IdsInOrder'
  BY <1>1, <1>3, Parts DEF DeliveryInv, IdsInOrder
<1>6. OnlyIssued'
  BY <1>1, <1>3 DEF DeliveryInv, OnlyIssued
<1>7. QueueUnsent'
  BY <1>1, <1>2, <1>3 DEF DeliveryInv, QueueUnsent
<1>8. HistoryOwned'
  <2>1. ASSUME NEW s \in packet_history'
        PROVE  /\ \A p \in wire' : s.cmd \in p.cmds /\ p.id # s.pkt => Dead(p)
               /\ \A p \in wire' : p.id = s.pkt => s.cmd \in p.cmds
               /\ IF s.pkt \in received THEN got[s.cmd] = 1 ELSE got[s.cmd] = 0
    <3>1. CASE s \in packet_history
      <4>1. s.cmd \notin cmds /\ s.pkt # id
        BY <3>1, Parts DEF DeliveryInv, QueueUnsent, IdsInOrder
      <4> QED BY <3>1, <4>1, <1>3 DEF DeliveryInv, HistoryOwned
    <3>2. CASE s \in sent
      <4>1. \A p \in wire : p.id # id
        BY Parts DEF DeliveryInv, IdsInOrder
      <4> QED BY <3>2, <4>1, <1>3, <1>4 DEF DeliveryInv, QueueUnsent
    <3> QED BY <3>1, <3>2, <1>3
  <2>2. ASSUME NEW s \in packet_history', NEW t \in packet_history', s.cmd = t.cmd
        PROVE  s = t
    BY <2>2, <1>3 DEF DeliveryInv, HistoryOwned, QueueUnsent
  <2> QED BY <1>1, <1>2, <2>1, <2>2 DEF HistoryOwned
<1>9. LastCarrier'
  <2> SUFFICES ASSUME NEW p \in wire', NEW q \in wire',
                      p.id < q.id, p.cmds \cap q.cmds # {}
               PROVE  Dead(p)
    BY <1>2 DEF LastCarrier
  <2>1. CASE p \in wire /\ q \in wire
    BY <2>1 DEF DeliveryInv, LastCarrier
  <2>2. CASE p \in wire /\ q.cmds = cmds
    BY <2>2 DEF DeliveryInv, QueueUnsent
  <2>3. CASE p.id = id
    <3>1. q.id <= id
      BY <1>3, Parts DEF DeliveryInv, IdsInOrder
    <3> QED BY <3>1, <2>3, <1>3, Parts
  <2> QED BY <2>1, <2>2, <2>3, <1>3
<1>10. GotOnce'
  BY <1>1, <1>3 DEF DeliveryInv, GotOnce, QueueUnsent
<1> QED BY <1>5, <1>6, <1>7, <1>8, <1>9, <1>10 DEF DeliveryInv

(* ReceivePacket: the packet is not dead, so its commands are new.         *)
LEMMA ReceivePacketDelivery ==
  ASSUME TypeInv, VectorInv, DeliveryInv, NEW p \in wire, ReceivePacket(p)
  PROVE  DeliveryInv'
<1>1. /\ p.id > last_r_pay
      /\ last_r_pay' = p.id
      /\ received' = received \union {p.id}
      /\ got' = [c \in Command |-> IF c \in p.cmds THEN got[c] + 1 ELSE got[c]]
      /\ UNCHANGED <<pushed, out_queue, packet_history, count_s_pay, wire>>
  BY DEF ReceivePacket, senderVars
<1>2. \A q \in wire : Dead(q) => Dead(q)'
  BY <1>1, Parts DEF Dead
<1>3. ~Dead(p)
  BY <1>1, Parts DEF Dead
<1>4. \A c \in p.cmds : c \in Command /\ got[c] = 0 /\ got'[c] = 1
  BY <1>1, Parts DEF DeliveryInv, GotOnce
<1>5. \A c \in Command : c \notin p.cmds => got'[c] = got[c]
  BY <1>1
<1>6. IdsInOrder'
  BY <1>1 DEF DeliveryInv, IdsInOrder
<1>7. OnlyIssued'
  BY <1>1, <1>4, <1>5 DEF DeliveryInv, OnlyIssued
<1>8. QueueUnsent'
  <2> SUFFICES ASSUME NEW c \in out_queue
               PROVE  /\ got'[c] = 0
                      /\ \A q \in wire : c \in q.cmds => Dead(q)'
                      /\ \A s \in packet_history : s.cmd # c
    BY <1>1 DEF QueueUnsent
  <2>1. c \notin p.cmds
    BY <1>3 DEF DeliveryInv, QueueUnsent
  <2> QED BY <2>1, <1>2, <1>5, Parts DEF DeliveryInv, QueueUnsent
<1>9. HistoryOwned'
  <2>1. ASSUME NEW s \in packet_history
        PROVE  /\ \A q \in wire : s.cmd \in q.cmds /\ q.id # s.pkt => Dead(q)'
               /\ \A q \in wire : q.id = s.pkt => s.cmd \in q.cmds
               /\ IF s.pkt \in received' THEN got'[s.cmd] = 1 ELSE got'[s.cmd] = 0
    <3>1. CASE s.pkt = p.id
      <4>1. s.cmd \in p.cmds
        BY <3>1 DEF DeliveryInv, HistoryOwned
      <4> QED BY <3>1, <4>1, <1>1, <1>2, <1>4 DEF DeliveryInv, HistoryOwned
    <3>2. CASE s.pkt # p.id
      <4>1. s.cmd \notin p.cmds
        BY <3>2, <1>3 DEF DeliveryInv, HistoryOwned
      <4> QED BY <3>2, <4>1, <1>1, <1>2, <1>5, Parts DEF DeliveryInv, HistoryOwned
    <3> QED BY <3>1, <3>2
  <2>2. \A s, t \in packet_history : s.cmd = t.cmd => s = t
    BY DEF DeliveryInv, HistoryOwned
  <2> QED BY <1>1, <2>1, <2>2 DEF HistoryOwned
<1>10. LastCarrier'
  BY <1>1, <1>2 DEF DeliveryInv, LastCarrier
<1>11. GotOnce'
  <2> SUFFICES ASSUME NEW c \in Command
               PROVE  /\ got'[c] <= 1
                      /\ got'[c] > 0 =>
                           \A q \in wire : c \in q.cmds => q.id <= p.id
    BY <1>1 DEF GotOnce
  <2>1. CASE c \in p.cmds
    <3>1. \A q \in wire : c \in q.cmds => ~(p.id < q.id)
      BY <2>1, <1>3 DEF DeliveryInv, LastCarrier
    <3>2. \A q \in wire : q.id \in Nat
      BY Parts
    <3> QED BY <2>1, <3>1, <3>2, <1>4
  <2>2. CASE c \notin p.cmds
    <3>1. got'[c] = got[c] /\ got[c] <= 1
      BY <2>2, <1>5 DEF DeliveryInv, GotOnce
    <3>2. got[c] > 0 => \A q \in wire : c \in q.cmds => q.id <= last_r_pay
      BY DEF DeliveryInv, GotOnce
    <3> QED BY <3>1, <3>2, <1>1, Parts
  <2> QED BY <2>1, <2>2
<1> QED BY <1>6, <1>7, <1>8, <1>9, <1>10, <1>11 DEF DeliveryInv

(* What a truthful vector says of the packets it acknowledges or rejects.  *)
LEMMA TruthfulIds ==
  ASSUME NEW h, NEW rcv, NEW last, Truthful(h, rcv, last)
  PROVE  /\ AckedIds(h) \subseteq rcv
         /\ \A x \in NakkedIds(h) : x \notin rcv /\ x <= last
<1>1. ASSUME NEW x \in AckedIds(h) PROVE x \in rcv
  <2>1. PICK i \in 1..Len(h) : h[i].id = ACK /\ x \in Scope(h, i)
    BY DEF AckedIds, IdsFirstSeenAs
  <2> QED BY <2>1 DEF Truthful
<1>2. ASSUME NEW x \in NakkedIds(h) PROVE x \notin rcv /\ x <= last
  <2>1. PICK i \in 1..Len(h) : h[i].id = NAK /\ x \in Scope(h, i)
    BY DEF NakkedIds, IdsFirstSeenAs
  <2> QED BY <2>1, KindsDiffer DEF Truthful
<1> QED BY <1>1, <1>2

(* ReceiveAck: the packets of the commands that are queued again are dead. *)
LEMMA ReceiveAckDelivery ==
  ASSUME TypeInv, VectorInv, DeliveryInv, NEW h \in ack_wire, ReceiveAck(h)
  PROVE  DeliveryInv'
<1> DEFINE acked == {s \in packet_history : s.pkt \in AckedIds(h)}
           nakked == {s \in packet_history : s.pkt \in NakkedIds(h)}
           resent == {s \in nakked : ~Obsolete(s.cmd, out_queue)}
<1>1. /\ out_queue' = out_queue \union {s.cmd : s \in resent}
      /\ packet_history' = packet_history \ (acked \union nakked)
      /\ UNCHANGED <<pushed, count_s_pay, last_r_pay, received, got, wire>>
  BY DEF ReceiveAck, HandleAckNak, receiverVars
<1>2. Truthful(h, received, last_r_pay)
  BY DEF VectorInv, HistoryTruthful
<1>3. \A s \in resent : /\ s \in packet_history /\ s \notin packet_history'
                        /\ s.pkt \notin received /\ s.pkt <= last_r_pay
  BY <1>1, <1>2, TruthfulIds
<1>4. packet_history' \subseteq packet_history
  BY <1>1
<1>5. \A p : Dead(p)' <=> Dead(p)
  BY <1>1 DEF Dead
<1> HIDE DEF acked, nakked, resent
<1>6. IdsInOrder' /\ OnlyIssued'
  BY <1>1, <1>3, <1>4 DEF DeliveryInv, IdsInOrder, OnlyIssued
<1>7. QueueUnsent'
  <2> SUFFICES ASSUME NEW c \in out_queue'
               PROVE  /\ got[c] = 0
                      /\ \A p \in wire : c \in p.cmds => Dead(p)
                      /\ \A s \in packet_history' : s.cmd # c
    BY <1>1, <1>5 DEF QueueUnsent
  <2>1. CASE c \in out_queue
    BY <2>1, <1>4 DEF DeliveryInv, QueueUnsent
  <2>2. CASE \E s \in resent : c = s.cmd
    <3>1. PICK s \in resent : c = s.cmd
      BY <2>2
    <3>2. got[c] = 0
      BY <3>1, <1>3 DEF DeliveryInv, HistoryOwned
    <3>3. ASSUME NEW p \in wire, c \in p.cmds PROVE Dead(p)
      <4>1. CASE p.id = s.pkt
        BY <4>1, <3>1, <1>3 DEF Dead
      <4>2. CASE p.id # s.pkt
        BY <4>2, <3>1, <3>3, <1>3 DEF DeliveryInv, HistoryOwned
      <4> QED BY <4>1, <4>2
    <3>4. \A t \in packet_history' : t.cmd # c
      BY <3>1, <1>3, <1>4 DEF DeliveryInv, HistoryOwned
    <3> QED BY <3>2, <3>3, <3>4
  <2> QED BY <2>1, <2>2, <1>1
<1>8. HistoryOwned'
  BY <1>1, <1>4, <1>5 DEF DeliveryInv, HistoryOwned
<1>9. LastCarrier' /\ GotOnce'
  BY <1>1, <1>5 DEF DeliveryInv, LastCarrier, GotOnce
<1> QED BY <1>6, <1>7, <1>8, <1>9 DEF DeliveryInv

(* DeliveryInv is an inductive invariant at a client that receives.        *)
LEMMA DeliveryInvariant ==
  ASSUME ReceiverIsServer = FALSE
  PROVE  Spec => []DeliveryInv
<1>1. TypeInv /\ VectorInv /\ DeliveryInv /\ [Next]_vars => DeliveryInv'
  <2> SUFFICES ASSUME TypeInv, VectorInv, DeliveryInv, [Next]_vars
               PROVE  DeliveryInv'
    OBVIOUS
  <2> USE DEF senderVars, receiverVars, networkVars
  <2>1. CASE \E k \in Keys : PushCmd(k)
    BY <2>1, PushCmdDelivery
  <2>2. CASE SendSome
    BY <2>2, SendPacketDelivery DEF SendSome
  <2>3. CASE \E cmds \in SUBSET out_queue : SendPacketError(cmds)
    BY <2>3, ShrinkDelivery DEF SendPacketError
  <2>4. CASE ReceiveAcks
    BY <2>4, ReceiveAckDelivery DEF ReceiveAcks
  <2>5. CASE SendAnk
    BY <2>5, ShrinkDelivery DEF SendAnk
  <2>6. CASE \E p \in wire : ReceivePacket(p)
    BY <2>6, ReceivePacketDelivery
  <2>7. CASE \E p \in wire : ReceiveUnordered(p)
    BY <2>7, ShrinkDelivery DEF ReceiveUnordered
  <2>8. CASE \E ank \in ank_wire : ReceiveAnk(ank)
    BY <2>8, ShrinkDelivery DEF ReceiveAnk
  <2>9. CASE SendAck
    BY <2>9, ShrinkDelivery DEF SendAck
  <2>10. CASE \E p \in wire : LosePacket(p)
    BY <2>10, ShrinkDelivery DEF LosePacket
  <2>11. CASE \E h \in ack_wire : LoseAck(h)
    BY <2>11, ShrinkDelivery DEF LoseAck
  <2>12. CASE \E ank \in ank_wire : LoseAnk(ank)
    BY <2>12, ShrinkDelivery DEF LoseAnk
  <2>13. CASE UNCHANGED vars
    BY <2>13, ShrinkDelivery DEF vars
  <2> QED BY <2>1, <2>2, <2>3, <2>4, <2>5, <2>6, <2>7, <2>8, <2>9, <2>10,
             <2>11, <2>12, <2>13 DEF Next, ReceiveSome
<1> QED BY InitDelivery, TypeInvariant, VectorInvariant, <1>1, PTL DEF Spec

(***************************************************************************)
(* However packets are lost, duplicated or reordered and however often a   *)
(* command is resent, a client's handle_node_commands takes it at most     *)
(* once.                                                                   *)
(***************************************************************************)
THEOREM DeliveredAtMostOnce ==
  ASSUME ReceiverIsServer = FALSE
  PROVE  Spec => []AtMostOnce
<1>1. DeliveryInv => AtMostOnce
  BY DEF DeliveryInv, GotOnce, AtMostOnce
<1> QED BY DeliveryInvariant, <1>1, PTL

-----------------------------------------------------------------------------
(***************************************************************************)
(* Replacing obsolete commands is safe: the resend mechanism forgets no    *)
(* command, tells the server nothing untrue about its client and never     *)
(* lets an older value overwrite a newer one.                              *)
(***************************************************************************)

(* Both are commands of one key, of which only the newest matters.         *)
SameKey(c, d) == c.key = d.key /\ c.key \in ReplaceKeys

(***************************************************************************)
(* Of the commands of a key with REM_DUP the queue holds one and the       *)
(* history holds one, and the one in the queue is the newer.               *)
(***************************************************************************)
KeyOrder ==
  /\ \A c, d \in out_queue : SameKey(c, d) => c = d
  /\ \A s, t \in packet_history : SameKey(s.cmd, t.cmd) => s = t
  /\ \A s \in packet_history, d \in out_queue :
       SameKey(s.cmd, d) => s.cmd.ver < d.ver
  /\ \A k \in AckKeys : pushed[k] <= 1

(* The initial state.                                                      *)
LEMMA InitOrder == Init => KeyOrder
BY DEF Init, KeyOrder

(* A step that only removes from the queue and the history.                *)
LEMMA ShrinkOrder ==
  ASSUME KeyOrder, out_queue' \subseteq out_queue,
         packet_history' \subseteq packet_history, pushed' = pushed
  PROVE  KeyOrder'
BY DEF KeyOrder

(* PushCmd: the new command is newer than all others of its key.           *)
LEMMA PushCmdOrder ==
  ASSUME TypeInv, DeliveryInv, KeyOrder, NEW k \in Keys, PushCmd(k)
  PROVE  KeyOrder'
<1> DEFINE cmd == [key |-> k, ver |-> pushed[k] + 1]
<1>1. /\ out_queue' = {c \in out_queue : ~Obsolete(c, {cmd})} \union {cmd}
      /\ pushed' = [pushed EXCEPT ![k] = @ + 1]
      /\ packet_history' = packet_history
  BY DEF PushCmd
<1>2. cmd.key = k /\ cmd.ver = pushed[k] + 1
  OBVIOUS
<1> HIDE DEF cmd
<1>3. \A c \in out_queue' : c = cmd \/ (c \in out_queue /\ ~SameKey(c, cmd))
  BY <1>1 DEF Obsolete, SameKey
<1>4. \A c, d \in out_queue' : SameKey(c, d) => c = d
  BY <1>3 DEF KeyOrder, SameKey
<1>5. ASSUME NEW s \in packet_history', NEW d \in out_queue', SameKey(s.cmd, d)
      PROVE  s.cmd.ver < d.ver
  <2>1. CASE d = cmd
    <3>1. s.cmd.ver <= pushed[k] /\ s.cmd.ver \in Nat /\ pushed[k] \in Nat
      BY <1>1, <1>2, <1>5, <2>1, Parts DEF DeliveryInv, OnlyIssued, SameKey
    <3> QED BY <3>1, <2>1, <1>2
  <2>2. CASE d \in out_queue
    BY <2>2, <1>1, <1>5 DEF KeyOrder
  <2> QED BY <2>1, <2>2, <1>3
<1>6. \A j \in AckKeys : pushed'[j] <= 1
  <2> SUFFICES ASSUME NEW j \in AckKeys PROVE pushed'[j] <= 1
    OBVIOUS
  <2>1. pushed \in [Keys -> 0..MaxVer] /\ j \in Keys
    BY DEF TypeInv, TypeOK
  <2>2. CASE j = k
    <3>1. pushed[k] < 1 /\ pushed[k] \in Nat
      BY <2>2, Parts DEF PushCmd
    <3> QED BY <3>1, <2>1, <2>2, <1>1
  <2>3. CASE j # k
    BY <2>1, <2>3, <1>1 DEF KeyOrder
  <2> QED BY <2>2, <2>3
<1> QED BY <1>1, <1>4, <1>5, <1>6 DEF KeyOrder

(* SendPacket: the commands move from the queue to the history.            *)
LEMMA SendPacketOrder ==
  ASSUME KeyOrder, NEW cmds \in SUBSET out_queue, SendPacket(cmds)
  PROVE  KeyOrder'
<1> DEFINE sent == {[pkt |-> count_s_pay, cmd |-> c] : c \in cmds}
<1>1. /\ out_queue' = out_queue \ cmds
      /\ packet_history' = {s \in packet_history : ~Obsolete(s.cmd, cmds)} \union sent
      /\ pushed' = pushed
  BY DEF SendPacket, AddToHistory
<1>2. \A s \in sent : s.cmd \in cmds /\ s = [pkt |-> count_s_pay, cmd |-> s.cmd]
  OBVIOUS
<1> HIDE DEF sent
<1>3. \A s \in packet_history' :
        \/ s \in sent
        \/ s \in packet_history /\ \A c \in cmds : ~SameKey(s.cmd, c)
  BY <1>1 DEF Obsolete, SameKey
<1>4. \A s, t \in packet_history' : SameKey(s.cmd, t.cmd) => s = t
  <2> SUFFICES ASSUME NEW s \in packet_history', NEW t \in packet_history',
                      SameKey(s.cmd, t.cmd)
               PROVE  s = t
    OBVIOUS
  <2>1. SameKey(t.cmd, s.cmd)
    BY DEF SameKey
  <2>2. CASE s \in sent /\ t \in sent
    BY <2>2, <1>2 DEF KeyOrder
  <2>3. CASE s \notin sent /\ t \notin sent
    BY <2>3, <1>3 DEF KeyOrder
  <2> QED BY <2>1, <2>2, <2>3, <1>2, <1>3
<1>5. \A s \in packet_history', d \in out_queue' :
        SameKey(s.cmd, d) => s.cmd.ver < d.ver
  BY <1>1, <1>2, <1>3 DEF KeyOrder
<1> QED BY <1>1, <1>4, <1>5 DEF KeyOrder

(* ReceiveAck: a command goes back only where no newer one waits.          *)
LEMMA ReceiveAckOrder ==
  ASSUME KeyOrder, NEW h \in ack_wire, ReceiveAck(h)
  PROVE  KeyOrder'
<1> DEFINE acked == {s \in packet_history : s.pkt \in AckedIds(h)}
           nakked == {s \in packet_history : s.pkt \in NakkedIds(h)}
           resent == {s \in nakked : ~Obsolete(s.cmd, out_queue)}
<1>1. /\ out_queue' = out_queue \union {s.cmd : s \in resent}
      /\ packet_history' = packet_history \ (acked \union nakked)
      /\ pushed' = pushed
  BY DEF ReceiveAck, HandleAckNak
<1>2. \A s \in resent : /\ s \in packet_history /\ s \notin packet_history'
                        /\ \A d \in out_queue : ~SameKey(s.cmd, d)
  BY <1>1 DEF Obsolete, SameKey
<1>3. packet_history' \subseteq packet_history
  BY <1>1
<1> HIDE DEF acked, nakked, resent
<1>4. \A c \in out_queue' : c \in out_queue \/ \E s \in resent : c = s.cmd
  BY <1>1
<1>5. \A c, d \in out_queue' : SameKey(c, d) => c = d
  <2> SUFFICES ASSUME NEW c \in out_queue', NEW d \in out_queue', SameKey(c, d)
               PROVE  c = d
    OBVIOUS
  <2>1. SameKey(d, c)
    BY DEF SameKey
  <2> QED BY <2>1, <1>2, <1>4 DEF KeyOrder
<1>6. \A s \in packet_history', d \in out_queue' :
        SameKey(s.cmd, d) => s.cmd.ver < d.ver
  BY <1>2, <1>3, <1>4 DEF KeyOrder
<1> QED BY <1>1, <1>3, <1>5, <1>6 DEF KeyOrder

(* KeyOrder is an inductive invariant.                                     *)
LEMMA OrderInvariant ==
  ASSUME ReceiverIsServer = FALSE
  PROVE  Spec => []KeyOrder
<1>1. TypeInv /\ DeliveryInv /\ KeyOrder /\ [Next]_vars => KeyOrder'
  <2> SUFFICES ASSUME TypeInv, DeliveryInv, KeyOrder, [Next]_vars
               PROVE  KeyOrder'
    OBVIOUS
  <2> USE DEF senderVars
  <2>1. CASE \E k \in Keys : PushCmd(k)
    BY <2>1, PushCmdOrder
  <2>2. CASE SendSome
    BY <2>2, SendPacketOrder DEF SendSome
  <2>3. CASE \E cmds \in SUBSET out_queue : SendPacketError(cmds)
    BY <2>3, ShrinkOrder DEF SendPacketError
  <2>4. CASE ReceiveAcks
    BY <2>4, ReceiveAckOrder DEF ReceiveAcks
  <2>5. CASE UNCHANGED senderVars
    BY <2>5, ShrinkOrder
  <2> QED BY <2>1, <2>2, <2>3, <2>4, <2>5
          DEF Next, ReceiveSome, SendAnk, ReceivePacket, ReceiveUnordered,
              ReceiveAnk, SendAck, LosePacket, LoseAck, LoseAnk, vars
<1> QED BY InitOrder, TypeInvariant, DeliveryInvariant, <1>1, PTL DEF Spec

-----------------------------------------------------------------------------
(* Commands are received, and issued, but never the reverse.               *)
LEMMA GotGrows ==
  ASSUME TypeInv, [Next]_vars
  PROVE  /\ \A c \in Command : got[c] > 0 => got'[c] > 0
         /\ \A k \in Keys : pushed'[k] >= pushed[k]
<1> USE DEF senderVars, receiverVars, networkVars
<1>1. ASSUME NEW p \in wire, ReceivePacket(p)
      PROVE  /\ \A c \in Command : got[c] > 0 => got'[c] > 0
             /\ pushed' = pushed
  BY <1>1, Parts DEF ReceivePacket
<1>2. ASSUME NEW k \in Keys, PushCmd(k)
      PROVE  got' = got /\ \A j \in Keys : pushed'[j] >= pushed[j]
  <2>1. pushed \in [Keys -> 0..MaxVer] /\ \A j \in Keys : pushed[j] \in Nat
    BY Parts DEF TypeInv, TypeOK
  <2> QED BY <1>2, <2>1 DEF PushCmd
<1>3. CASE got' = got /\ pushed' = pushed
  BY <1>3, Parts
<1> QED BY <1>1, <1>2, <1>3, Parts
        DEF Next, SendSome, SendPacket, SendPacketError, ReceiveAcks, ReceiveAck,
            SendAnk, ReceiveSome, ReceiveUnordered, ReceiveAnk, SendAck,
            LosePacket, LoseAck, LoseAnk, vars

(***************************************************************************)
(* The entries of the history that handle_ack_nak_commands removes without *)
(* queueing their commands again: the command was received, or a newer one *)
(* is waiting.                                                             *)
(***************************************************************************)
LEMMA RemovedEntries ==
  ASSUME TypeInv, VectorInv, DeliveryInv, KeyOrder, NEW h \in ack_wire,
         ReceiveAck(h),
         NEW s \in packet_history, s \notin packet_history', s.cmd \notin out_queue'
  PROVE  \/ got[s.cmd] = 1
         \/ \E d \in out_queue : SameKey(s.cmd, d) /\ s.cmd.ver < d.ver
<1> DEFINE acked == {t \in packet_history : t.pkt \in AckedIds(h)}
           nakked == {t \in packet_history : t.pkt \in NakkedIds(h)}
           resent == {t \in nakked : ~Obsolete(t.cmd, out_queue)}
<1>1. /\ out_queue' = out_queue \union {t.cmd : t \in resent}
      /\ packet_history' = packet_history \ (acked \union nakked)
  BY DEF ReceiveAck, HandleAckNak
<1>2. CASE s \in acked
  <2>1. s.pkt \in received
    BY <1>2, TruthfulIds DEF VectorInv, HistoryTruthful
  <2> QED BY <2>1 DEF DeliveryInv, HistoryOwned
<1>3. CASE s \in nakked
  <2>1. Obsolete(s.cmd, out_queue)
    BY <1>1, <1>3
  <2>2. PICK d \in out_queue : SameKey(s.cmd, d)
    BY <2>1 DEF Obsolete, SameKey
  <2> QED BY <2>2 DEF KeyOrder
<1> QED BY <1>1, <1>2, <1>3

(***************************************************************************)
(* When no sending fails, the fake acknowledgments that                    *)
(* v_packet_history_rem_packet queues for the server are about commands    *)
(* the client has received.                                                *)
(***************************************************************************)
THEOREM FakeAcksAreTruthful ==
  ASSUME ReceiverIsServer = FALSE, SendErrors = FALSE
  PROVE  Spec => []FakeAckTruthful
<1>1. TypeInv /\ VectorInv /\ DeliveryInv /\ KeyOrder /\ FakeAckTruthful
        /\ [Next]_vars => FakeAckTruthful'
  <2> SUFFICES ASSUME TypeInv, VectorInv, DeliveryInv, KeyOrder, FakeAckTruthful,
                      [Next]_vars, NEW c \in fake_acks'
               PROVE  got'[c] > 0
    BY DEF FakeAckTruthful
  <2>1. CASE c \in fake_acks
    BY <2>1, GotGrows DEF TypeInv, TypeOK, FakeAckTruthful
  <2>2. ASSUME NEW h \in ack_wire, ReceiveAck(h), c \notin fake_acks
        PROVE  got'[c] > 0
    <3> DEFINE acked == {t \in packet_history : t.pkt \in AckedIds(h)}
               nakked == {t \in packet_history : t.pkt \in NakkedIds(h)}
               resent == {t \in nakked : ~Obsolete(t.cmd, out_queue)}
               removed == acked \union (nakked \ resent)
    <3>1. /\ fake_acks' = fake_acks \union FakeAcks({t.cmd : t \in removed})
          /\ packet_history' = packet_history \ (acked \union nakked)
          /\ out_queue' = out_queue \union {t.cmd : t \in resent}
          /\ got' = got
      BY <2>2 DEF ReceiveAck, HandleAckNak, receiverVars
    <3>2. PICK s \in removed : c = s.cmd /\ c.key \in AckKeys
      BY <2>2, <3>1 DEF FakeAcks
    <3>3. s \in packet_history /\ s \notin packet_history' /\ c \in Command
      BY <3>1, <3>2, Parts
    <3>4. c \notin out_queue'
      <4>1. c \notin out_queue
        BY <3>2, <3>3 DEF DeliveryInv, QueueUnsent
      <4>2. ASSUME NEW t \in resent, c = t.cmd PROVE FALSE
        <5>1. t \in packet_history /\ t = s
          BY <4>2, <3>2, <3>3 DEF DeliveryInv, HistoryOwned
        <5>2. s \in acked
          BY <4>2, <5>1
        <5>3. s \in nakked
          BY <4>2, <5>1
        <5> QED BY <2>2, <5>2, <5>3, TruthfulIds DEF VectorInv, HistoryTruthful
      <4> QED BY <3>1, <4>1, <4>2
    <3> HIDE DEF acked, nakked, resent, removed
    <3>5. ASSUME NEW d \in out_queue, SameKey(c, d), c.ver < d.ver
          PROVE  FALSE
      <4>1. d \in Command /\ d.key = c.key /\ d.ver <= pushed[c.key]
        BY <3>5, Parts DEF DeliveryInv, OnlyIssued, SameKey
      <4>2. pushed[c.key] <= 1 /\ pushed[c.key] \in Nat
        BY <3>2, <3>3, Parts DEF KeyOrder
      <4>3. c.ver \in 1..MaxVer /\ d.ver \in Nat
        BY <3>3, <4>1, Parts DEF Command
      <4> QED BY <3>5, <4>1, <4>2, <4>3
    <3>6. got[c] = 1
      BY <2>2, <3>2, <3>3, <3>4, <3>5, RemovedEntries
    <3> QED BY <3>1, <3>6
  <2>3. ASSUME fake_acks' = fake_acks PROVE got'[c] > 0
    BY <2>1, <2>3
  <2> QED BY <2>1, <2>2, <2>3
          DEF Next, PushCmd, SendSome, SendPacket, SendPacketError, ReceiveAcks,
              SendAnk, ReceiveSome, ReceivePacket, ReceiveUnordered, ReceiveAnk,
              SendAck, LosePacket, LoseAck, LoseAnk, vars, senderVars
<1>2. Init => FakeAckTruthful
  BY DEF Init, FakeAckTruthful
<1> QED BY TypeInvariant, VectorInvariant, DeliveryInvariant, OrderInvariant,
           <1>1, <1>2, PTL DEF Spec

-----------------------------------------------------------------------------
(* NothingLost, for one command.                                           *)
Kept(c) ==
  \/ c \in out_queue
  \/ \E s \in packet_history : s.cmd = c
  \/ Settled(c)

(* A settled command stays settled.                                        *)
LEMMA SettledStays ==
  ASSUME TypeInv, [Next]_vars, NEW c \in Command, Settled(c)
  PROVE  Settled(c)'
<1>1. pushed[c.key] \in Nat /\ c.ver \in Nat /\ c.key \in Keys
  BY Parts
<1>2. pushed'[c.key] >= pushed[c.key]
  BY <1>1, GotGrows
<1>3. pushed'[c.key] \in Int
  <2>1. TypeInv'
    BY TypeStep
  <2> QED BY <2>1, <1>1 DEF TypeInv, TypeOK
<1>4. CASE got[c] > 0
  BY <1>4, GotGrows DEF Settled
<1>5. CASE c.key \in ReplaceKeys /\ pushed[c.key] > c.ver
  BY <1>1, <1>2, <1>3, <1>5 DEF Settled
<1> QED BY <1>4, <1>5 DEF Settled

(***************************************************************************)
(* When no sending fails, every issued command is waiting, or remembered   *)
(* until it is acknowledged, or received, or replaced by a newer one.      *)
(***************************************************************************)
THEOREM NoCommandIsLost ==
  ASSUME ReceiverIsServer = FALSE, SendErrors = FALSE
  PROVE  Spec => []NothingLost
<1>1. TypeInv /\ VectorInv /\ DeliveryInv /\ KeyOrder /\ NothingLost
        /\ [Next]_vars => NothingLost'
  <2> SUFFICES ASSUME TypeInv, VectorInv, DeliveryInv, KeyOrder, NothingLost,
                      [Next]_vars, NEW k \in Keys, NEW v \in 1..MaxVer,
                      v <= pushed'[k]
               PROVE  Kept([key |-> k, ver |-> v])'
    BY DEF NothingLost, Kept
  <2> DEFINE c == [key |-> k, ver |-> v]
  <2>1. c \in Command /\ c.key = k /\ c.ver = v
    BY DEF Command
  <2>2. v <= pushed[k] => Kept(c)
    BY DEF NothingLost, Kept
  <2> HIDE DEF c
  <2>3. Settled(c) => Kept(c)'
    BY <2>1, SettledStays DEF Kept
  <2>4. ASSUME NEW j \in Keys, PushCmd(j) PROVE Kept(c)'
    <3> DEFINE cmd == [key |-> j, ver |-> pushed[j] + 1]
    <3>1. /\ out_queue' = {d \in out_queue : ~Obsolete(d, {cmd})} \union {cmd}
          /\ pushed' = [pushed EXCEPT ![j] = @ + 1]
          /\ packet_history' = packet_history /\ pushed \in [Keys -> 0..MaxVer]
      BY <2>4 DEF PushCmd, TypeInv, TypeOK
    <3>2. CASE v <= pushed[k]
      <4>1. CASE c \in out_queue /\ Obsolete(c, {cmd})
        <5>1. c.key \in ReplaceKeys /\ k = j
          BY <4>1, <2>1 DEF Obsolete
        <5>2. pushed'[k] = pushed[k] + 1 /\ pushed[k] \in Nat
          BY <5>1, <3>1, Parts
        <5> QED BY <2>1, <3>2, <5>1, <5>2 DEF Kept, Settled
      <4>2. CASE c \in out_queue /\ ~Obsolete(c, {cmd})
        BY <4>2, <3>1 DEF Kept
      <4> QED BY <2>2, <2>3, <3>1, <3>2, <4>1, <4>2 DEF Kept
    <3>3. CASE ~(v <= pushed[k])
      <4>1. k = j /\ v = pushed[j] + 1
        <5>1. pushed[k] \in Nat /\ pushed[j] \in Nat /\ v \in Nat
          BY Parts, <2>1
        <5> QED BY <3>1, <3>3, <5>1
      <4> QED BY <3>1, <4>1 DEF Kept, c
    <3> QED BY <3>2, <3>3
  <2>5. ASSUME pushed' = pushed PROVE Kept(c)
    BY <2>2, <2>5
  <2>6. ASSUME NEW cmds \in SUBSET out_queue, SendPacket(cmds) PROVE Kept(c)'
    <3>1. /\ out_queue' = out_queue \ cmds
          /\ packet_history' = {s \in packet_history : ~Obsolete(s.cmd, cmds)}
                \union {[pkt |-> count_s_pay, cmd |-> d] : d \in cmds}
          /\ pushed' = pushed
      BY <2>6 DEF SendPacket, AddToHistory
    <3>2. CASE c \in cmds
      <4>1. [pkt |-> count_s_pay, cmd |-> c] \in packet_history'
        BY <3>1, <3>2
      <4> QED BY <4>1 DEF Kept
    <3>3. CASE c \in out_queue \ cmds
      BY <3>1, <3>3 DEF Kept
    <3>4. ASSUME NEW s \in packet_history, s.cmd = c PROVE Kept(c)'
      <4>1. CASE Obsolete(s.cmd, cmds)
        <5>1. PICK d \in cmds : SameKey(s.cmd, d)
          BY <4>1 DEF Obsolete, SameKey
        <5>2. d.ver <= pushed[k] /\ c.ver < d.ver /\ k \in ReplaceKeys
          BY <5>1, <3>4, <2>1 DEF KeyOrder, DeliveryInv, OnlyIssued, SameKey
        <5>3. d.ver \in Nat /\ c.ver \in Nat /\ pushed[k] \in Nat
          BY <5>1, <2>1, Parts
        <5>4. Settled(c)
          BY <5>2, <5>3, <2>1 DEF Settled
        <5> QED BY <5>4, <2>3
      <4>2. CASE ~Obsolete(s.cmd, cmds)
        BY <4>2, <3>1, <3>4 DEF Kept
      <4> QED BY <4>1, <4>2
    <3> QED BY <2>3, <2>5, <3>1, <3>2, <3>3, <3>4 DEF Kept
  <2>7. ASSUME NEW h \in ack_wire, ReceiveAck(h) PROVE Kept(c)'
    <3>1. out_queue \subseteq out_queue' /\ pushed' = pushed
      BY <2>7 DEF ReceiveAck, HandleAckNak
    <3>2. ASSUME NEW s \in packet_history, s.cmd = c, s \notin packet_history',
                 c \notin out_queue'
          PROVE  Settled(c)
      <4>1. CASE got[c] = 1
        BY <4>1 DEF Settled
      <4>2. ASSUME NEW d \in out_queue, SameKey(c, d), c.ver < d.ver
            PROVE  Settled(c)
        <5>1. d.ver <= pushed[c.key] /\ c.key \in ReplaceKeys
          BY <4>2 DEF DeliveryInv, OnlyIssued, SameKey
        <5>2. d.ver \in Nat /\ c.ver \in Nat /\ pushed[c.key] \in Nat
          BY <2>1, Parts
        <5> QED BY <4>2, <5>1, <5>2 DEF Settled
      <4> QED BY <2>7, <3>2, <4>1, <4>2, RemovedEntries
    <3> QED BY <2>3, <2>5, <3>1, <3>2 DEF Kept
  <2>8. ASSUME UNCHANGED <<pushed, out_queue, packet_history>> PROVE Kept(c)'
    BY <2>3, <2>5, <2>8 DEF Kept
  <2>9. Kept(c)'
    BY <2>4, <2>6, <2>7, <2>8
       DEF Next, SendSome, SendPacketError, ReceiveAcks,
           SendAnk, ReceiveSome, ReceivePacket, ReceiveUnordered, ReceiveAnk,
           SendAck, LosePacket, LoseAck, LoseAnk, vars, senderVars
  <2> QED BY <2>9 DEF c
<1>2. Init => NothingLost
  BY DEF Init, NothingLost
<1> QED BY TypeInvariant, VectorInvariant, DeliveryInvariant, OrderInvariant,
           <1>1, <1>2, PTL DEF Spec

-----------------------------------------------------------------------------
(***************************************************************************)
(* What waits, and what may be sent again, is at least as new as what the  *)
(* receiver has and as everything of the key that is on its way; packets   *)
(* carry the commands of a key in the order of their ids.                  *)
(***************************************************************************)
NewestLast ==
  /\ \A k \in Keys : value[k] <= pushed[k]
  /\ \A d \in out_queue : d.key \in ReplaceKeys =>
       /\ value[d.key] <= d.ver
       /\ \A p \in wire : \A c \in p.cmds : c.key = d.key => c.ver <= d.ver
  /\ \A s \in packet_history : s.cmd.key \in ReplaceKeys =>
       /\ value[s.cmd.key] <= s.cmd.ver
       /\ \A p \in wire : \A c \in p.cmds : c.key = s.cmd.key => c.ver <= s.cmd.ver
  /\ \A p, q \in wire : p.id < q.id =>
       \A c \in p.cmds, d \in q.cmds : SameKey(c, d) => c.ver <= d.ver
  /\ \A p \in wire : \A c, d \in p.cmds : SameKey(c, d) => c = d
  /\ \A p \in wire : p.id > last_r_pay =>
       \A c \in p.cmds : c.key \in ReplaceKeys => value[c.key] <= c.ver

(* The initial state.                                                      *)
LEMMA InitNewest == Init => NewestLast
BY DEF Init, NewestLast

(* A step that only removes from the queue and the history.                *)
LEMMA ShrinkNewest ==
  ASSUME NewestLast, out_queue' \subseteq out_queue,
         packet_history' \subseteq packet_history,
         UNCHANGED <<pushed, value, wire, last_r_pay>>
  PROVE  NewestLast'
BY DEF NewestLast

(* PushCmd: the new command is the newest of its key.                      *)
LEMMA PushCmdNewest ==
  ASSUME TypeInv, DeliveryInv, NewestLast, NEW k \in Keys, PushCmd(k)
  PROVE  NewestLast'
<1> DEFINE cmd == [key |-> k, ver |-> pushed[k] + 1]
<1>1. /\ \A d \in out_queue' : d \in out_queue \/ d = cmd
      /\ pushed' = [pushed EXCEPT ![k] = @ + 1]
      /\ UNCHANGED <<packet_history, value, wire, last_r_pay>>
  BY DEF PushCmd, receiverVars, networkVars
<1>2. cmd.key = k /\ cmd.ver = pushed[k] + 1
  OBVIOUS
<1> HIDE DEF cmd
<1>3. \A j \in Keys : /\ pushed[j] \in Nat /\ value[j] \in Nat
                      /\ pushed'[j] = IF j = k THEN pushed[j] + 1 ELSE pushed[j]
  BY <1>1, Parts DEF TypeInv, TypeOK
<1>4. \A j \in Keys : value[j] <= pushed'[j]
  BY <1>3 DEF NewestLast
<1>5. value[k] <= cmd.ver
  BY <1>2, <1>3 DEF NewestLast
<1>6. \A p \in wire : \A c \in p.cmds : c.key = k => c.ver <= cmd.ver
  <2> SUFFICES ASSUME NEW p \in wire, NEW c \in p.cmds, c.key = k
               PROVE  c.ver <= cmd.ver
    OBVIOUS
  <2>1. c.ver \in Nat /\ c.ver <= pushed[k]
    BY Parts DEF DeliveryInv, OnlyIssued
  <2> QED BY <2>1, <1>2, <1>3
<1> QED BY <1>1, <1>2, <1>4, <1>5, <1>6 DEF NewestLast

(* SendPacket: the commands of the queue are the newest of their keys.     *)
LEMMA SendPacketNewest ==
  ASSUME TypeInv, DeliveryInv, KeyOrder, NewestLast, NEW cmds \in SUBSET out_queue,
         SendPacket(cmds)
  PROVE  NewestLast'
<1> DEFINE id == count_s_pay
           new == [id |-> id, cmds |-> cmds, ank |-> ank_id]
           sent == {[pkt |-> id, cmd |-> c] : c \in cmds}
<1>1. /\ out_queue' = out_queue \ cmds
      /\ packet_history' = {s \in packet_history : ~Obsolete(s.cmd, cmds)} \union sent
      /\ wire' = wire \union {new}
      /\ UNCHANGED <<pushed, value, last_r_pay>>
  BY DEF SendPacket, AddToHistory, receiverVars
<1>2. /\ \A s \in sent : s.cmd \in cmds
      /\ new.id = id /\ new.cmds = cmds
      /\ \A p \in wire' : p \in wire \/ (p.id = id /\ p.cmds = cmds)
  BY <1>1
<1> HIDE DEF new, sent
<1>3. \A s \in packet_history' :
        \/ s.cmd \in cmds
        \/ s \in packet_history /\ \A c \in cmds : ~SameKey(s.cmd, c)
  BY <1>1, <1>2 DEF Obsolete, SameKey
<1>4. \A c, d \in out_queue : SameKey(c, d) => c = d /\ c.ver <= d.ver
  BY Parts DEF KeyOrder
<1>5. \A d \in out_queue' : d.key \in ReplaceKeys =>
        /\ value'[d.key] <= d.ver
        /\ \A p \in wire' : \A c \in p.cmds : c.key = d.key => c.ver <= d.ver
  BY <1>1, <1>2, <1>4 DEF NewestLast, SameKey
<1>6. \A s \in packet_history' : s.cmd.key \in ReplaceKeys =>
        /\ value'[s.cmd.key] <= s.cmd.ver
        /\ \A p \in wire' : \A c \in p.cmds : c.key = s.cmd.key => c.ver <= s.cmd.ver
  <2> SUFFICES ASSUME NEW s \in packet_history', s.cmd.key \in ReplaceKeys
               PROVE  /\ value[s.cmd.key] <= s.cmd.ver
                      /\ \A p \in wire' : \A c \in p.cmds :
                           c.key = s.cmd.key => c.ver <= s.cmd.ver
    BY <1>1
  <2>1. CASE s.cmd \in cmds
    BY <2>1, <1>2, <1>4 DEF NewestLast, SameKey
  <2>2. CASE s \in packet_history /\ \A c \in cmds : ~SameKey(s.cmd, c)
    BY <2>2, <1>2 DEF NewestLast, SameKey
  <2> QED BY <2>1, <2>2, <1>3
<1>7. ASSUME NEW p \in wire', NEW q \in wire', p.id < q.id,
             NEW c \in p.cmds, NEW d \in q.cmds, SameKey(c, d)
      PROVE  c.ver <= d.ver
  <2>1. CASE p \in wire /\ q \in wire
    BY <2>1, <1>7 DEF NewestLast
  <2>2. CASE p \in wire /\ q.cmds = cmds
    BY <2>2, <1>7 DEF NewestLast, SameKey
  <2>3. CASE p.id = id
    <3>1. q.id <= id
      BY <1>2, Parts DEF DeliveryInv, IdsInOrder
    <3> QED BY <3>1, <2>3, <1>2, <1>7, Parts
  <2> QED BY <2>1, <2>2, <2>3, <1>2
<1>8. \A p \in wire' : \A c, d \in p.cmds : SameKey(c, d) => c = d
  BY <1>2, <1>4 DEF NewestLast
<1>9. \A p \in wire' : p.id > last_r_pay' =>
        \A c \in p.cmds : c.key \in ReplaceKeys => value'[c.key] <= c.ver
  BY <1>1, <1>2 DEF NewestLast
<1> QED BY <1>1, <1>5, <1>6, <1>7, <1>8, <1>9 DEF NewestLast

(* ReceiveAck: what goes back to the queue was in the history.             *)
LEMMA ReceiveAckNewest ==
  ASSUME NewestLast, NEW h \in ack_wire, ReceiveAck(h)
  PROVE  NewestLast'
<1>1. /\ \A d \in out_queue' : d \in out_queue \/ \E s \in packet_history : d = s.cmd
      /\ packet_history' \subseteq packet_history
      /\ UNCHANGED <<pushed, value, wire, last_r_pay>>
  BY DEF ReceiveAck, HandleAckNak, receiverVars
<1> QED BY <1>1 DEF NewestLast

(* ReceivePacket: nothing older than the new values is left to come.       *)
LEMMA ReceivePacketNewest ==
  ASSUME TypeInv, DeliveryInv, NewestLast, NEW p \in wire, ReceivePacket(p)
  PROVE  /\ NewestLast'
         /\ \A k \in ReplaceKeys : value'[k] >= value[k]
<1>1. /\ p.id > last_r_pay /\ last_r_pay' = p.id
      /\ Apply(p.cmds)
      /\ UNCHANGED <<pushed, out_queue, packet_history, wire>>
  BY DEF ReceivePacket, senderVars
<1>2. \A k \in Keys :
        \/ value'[k] = value[k]
        \/ \E c \in p.cmds : c.key = k /\ value'[k] = c.ver
  BY <1>1 DEF Apply
<1>3. /\ \A k \in Keys : value[k] \in Nat /\ value'[k] \in Nat
      /\ p.id \in Nat /\ last_r_pay \in Nat
  BY <1>1, Parts DEF Apply, TypeInv, TypeOK
<1>4. \A k \in Keys : value'[k] <= pushed[k]
  BY <1>2 DEF NewestLast, DeliveryInv, OnlyIssued
<1>5. ASSUME NEW d \in out_queue, d.key \in ReplaceKeys
      PROVE  value'[d.key] <= d.ver
  BY <1>2, <1>5, Parts DEF NewestLast
<1>6. ASSUME NEW s \in packet_history, s.cmd.key \in ReplaceKeys
      PROVE  value'[s.cmd.key] <= s.cmd.ver
  BY <1>2, <1>6, Parts DEF NewestLast
<1>7. ASSUME NEW q \in wire, q.id > p.id, NEW d \in q.cmds, d.key \in ReplaceKeys
      PROVE  value'[d.key] <= d.ver
  <2>1. d.key \in Keys /\ q.id \in Nat
    BY Parts
  <2>2. CASE value'[d.key] = value[d.key]
    BY <2>1, <2>2, <1>1, <1>3, <1>7 DEF NewestLast
  <2>3. ASSUME NEW c \in p.cmds, c.key = d.key, value'[d.key] = c.ver
        PROVE  value'[d.key] <= d.ver
    BY <2>1, <2>3, <1>3, <1>7 DEF NewestLast, SameKey
  <2> QED BY <1>2, <2>1, <2>2, <2>3
<1>8. ASSUME NEW k \in ReplaceKeys PROVE value'[k] >= value[k]
  <2>1. k \in Keys
    OBVIOUS
  <2>2. ASSUME NEW c \in p.cmds, c.key = k, value'[k] = c.ver
        PROVE  value'[k] >= value[k]
    <3>1. value[k] <= c.ver
      BY <2>2, <1>1 DEF NewestLast
    <3> QED BY <3>1, <2>1, <2>2, <1>3
  <2> QED BY <2>1, <2>2, <1>2, <1>3
<1> QED BY <1>1, <1>4, <1>5, <1>6, <1>7, <1>8 DEF NewestLast

(* One step keeps NewestLast and takes no value back.                      *)
LEMMA NewestStep ==
  ASSUME ReceiverIsServer = FALSE, TypeInv, DeliveryInv, KeyOrder, NewestLast,
         [Next]_vars
  PROVE  /\ NewestLast'
         /\ \A k \in ReplaceKeys : value'[k] >= value[k]
<1> USE DEF senderVars, receiverVars, networkVars
<1>1. CASE value' = value
  <2>1. \A k \in ReplaceKeys : value'[k] >= value[k]
    <3>1. \A k \in ReplaceKeys : value[k] \in 0..MaxVer
      BY DEF TypeInv, TypeOK
    <3> QED BY <1>1, <3>1
  <2>2. ASSUME NEW p \in wire, ReceivePacket(p) PROVE NewestLast'
    BY <2>2, ReceivePacketNewest
  <2>3. ASSUME NEW p \in wire, ReceiveUnordered(p) PROVE NewestLast'
    BY <2>3, ShrinkNewest DEF ReceiveUnordered
  <2>4. ASSUME \E k \in Keys : PushCmd(k) PROVE NewestLast'
    BY <2>4, PushCmdNewest
  <2>5. ASSUME SendSome PROVE NewestLast'
    BY <2>5, SendPacketNewest DEF SendSome
  <2>6. ASSUME \E cmds \in SUBSET out_queue : SendPacketError(cmds)
        PROVE  NewestLast'
    BY <2>6, ShrinkNewest DEF SendPacketError
  <2>7. ASSUME ReceiveAcks PROVE NewestLast'
    BY <2>7, ReceiveAckNewest DEF ReceiveAcks
  <2>8. ASSUME UNCHANGED <<senderVars, value, wire, last_r_pay>>
        PROVE  NewestLast'
    BY <2>8, ShrinkNewest
  <2>9. NewestLast'
    BY <2>2, <2>3, <2>4, <2>5, <2>6, <2>7, <2>8
       DEF Next, ReceiveSome, SendAnk, ReceiveAnk, SendAck, LosePacket, LoseAck,
           LoseAnk, vars
  <2> QED BY <2>1, <2>9
<1>2. CASE value' # value
  <2>1. \E p \in wire : ReceivePacket(p)
    BY <1>2 DEF Next, PushCmd, SendSome, SendPacket, SendPacketError, ReceiveAcks,
                ReceiveAck, ReceiveSome, ReceiveUnordered, SendAnk, ReceiveAnk,
                SendAck, LosePacket, LoseAck, LoseAnk, vars
  <2> QED BY <2>1, ReceivePacketNewest
<1> QED BY <1>1, <1>2

(***************************************************************************)
(* At a client that receives, a value that cmd_struct marks with REM_DUP   *)
(* never goes back to an older one, whatever is lost, duplicated,          *)
(* reordered or resent, and even when sending fails.                       *)
(***************************************************************************)
THEOREM ValuesNeverGoBack ==
  ASSUME ReceiverIsServer = FALSE
  PROVE  Spec => NoStaleOverwrite
<1>1. TypeInv /\ DeliveryInv /\ KeyOrder /\ NewestLast /\ [Next]_vars
        => NewestLast'
  BY NewestStep
<1>2. TypeInv /\ DeliveryInv /\ KeyOrder /\ NewestLast /\ [Next]_vars
        => [\A k \in ReplaceKeys : value'[k] >= value[k]]_vars
  BY NewestStep
<1> QED BY InitNewest, TypeInvariant, DeliveryInvariant, OrderInvariant,
           <1>1, <1>2, PTL DEF Spec, NoStaleOverwrite

=============================================================================
