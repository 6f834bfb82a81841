-------------------------- MODULE TagGroups_proofs --------------------------
(***************************************************************************)
(* Proofs about module TagGroups: no pointer to a freed subscriber is left *)
(* over, the server implements Replication, and clients and server agree.  *)
(***************************************************************************)
EXTENDS TagGroups, SequenceLemmas

-----------------------------------------------------------------------------
(* The state of the data thread: a tag with the subscribers S of its tag   *)
(* group, and a tag group with the subscribers N of the node.              *)

TagSound(tag, S) ==
  /\ tag \in TagType
  /\ \A c \in Clients : tag.folls[c] # NONE => c \in S /\ tag.state # NONE

TgSound(tg, N) ==
  /\ tg \in TgType
  /\ tg.subs \subseteq N
  /\ \A c \in Clients : tg.folls[c] # NONE => c \in N /\ tg.state # NONE
  /\ \A t \in TagIds : TagSound(tg.tags[t], tg.subs)

(* A datagram session has nothing in its stream, and the other way round.  *)
Channels ==
  \A c \in Clients :
    /\ c \in streams => net[c] = {}
    /\ c \notin streams => out_queue[c] = <<>> /\ wire[c] = <<>>

ServerInv ==
  /\ TypeOK /\ Channels
  /\ \A i \in TgIds : TgSound(tgs[i], node_subs)

LEMMA ServerInvPointers == ServerInv => PointersAlive
<1> SUFFICES ASSUME ServerInv PROVE NodeSubAlive
  BY DEF ServerInv, PointersAlive
<1> SUFFICES ASSUME NEW i \in TgIds
             PROVE  /\ tgs[i].subs \subseteq node_subs
                    /\ Followers(tgs[i]) \subseteq node_subs
                    /\ \A t \in TagIds : Followers(tgs[i].tags[t]) \subseteq tgs[i].subs
  BY DEF NodeSubAlive
<1>1. TgSound(tgs[i], node_subs)
  BY DEF ServerInv
<1> QED BY <1>1 DEF TgSound, TagSound, Followers

-----------------------------------------------------------------------------
(* What the operators on tags and tag groups do, field by field.           *)

LEMMA FreeTypes ==
  /\ NoFolls \in [Clients -> States]
  /\ FreeTag \in TagType /\ FreeTg \in TgType
  /\ \A S : TagSound(FreeTag, S)
  /\ \A N : TgSound(FreeTg, N)
<1>1. NoFolls \in [Clients -> States]
  BY DEF NoFolls, States
<1>2. FreeTag \in TagType
  BY <1>1 DEF FreeTag, TagType, States
<1>3. 0 \in TagIds
  BY TagGroupsAssumption DEF TagIds
<1>4. FreeTg \in TgType
  BY <1>1, <1>2, <1>3 DEF FreeTg, TgType, States
<1>5. ASSUME NEW S PROVE TagSound(FreeTag, S)
  BY <1>2 DEF TagSound, FreeTag, NoFolls
<1>6. ASSUME NEW N PROVE TgSound(FreeTg, N)
  <2>1. \A t \in TagIds : FreeTg.tags[t] = FreeTag
    BY DEF FreeTg
  <2> QED BY <1>4, <1>5, <2>1 DEF TgSound, FreeTg, NoFolls
<1> QED BY <1>1, <1>2, <1>4, <1>5, <1>6

LEMMA TagSendCreate ==
  ASSUME NEW S, NEW C, C \subseteq S, NEW tag, TagSound(tag, S),
         NEW r, r = vs_tag_send_create(tag, C)
  PROVE  /\ TagSound(r, S)
         /\ r.state = tag.state /\ r.type = tag.type /\ r.value = tag.value
         /\ \A c \in Clients : r.folls[c] = IF c \in Untold(tag, C) THEN CREATING ELSE tag.folls[c]
<1>1. tag \in TagType /\ \A c \in Clients : tag.folls[c] # NONE => c \in S /\ tag.state # NONE
  BY DEF TagSound
<1>2. /\ r.state = tag.state /\ r.type = tag.type /\ r.value = tag.value
      /\ r.folls = [c \in Clients |-> IF c \in Untold(tag, C) THEN CREATING ELSE tag.folls[c]]
      /\ r = [state |-> r.state, type |-> r.type, folls |-> r.folls, value |-> r.value]
  BY <1>1 DEF vs_tag_send_create, TagType
<1>3. r.folls \in [Clients -> States]
  BY <1>1, <1>2 DEF TagType, States
<1>4. r \in TagType
  BY <1>1, <1>2, <1>3 DEF TagType
<1> QED BY <1>1, <1>2, <1>4 DEF TagSound, Untold, NONE, CREATING, CREATED

LEMMA TagSendDestroy ==
  ASSUME NEW S, NEW tag, TagSound(tag, S), NEW r, r = vs_tag_send_destroy(tag)
  PROVE  /\ TagSound(r, S)
         /\ r.state = DELETING /\ r.type = tag.type /\ r.value = tag.value
         /\ \A c \in Clients : r.folls[c] = IF tag.folls[c] = CREATED THEN DELETING ELSE tag.folls[c]
<1>1. tag \in TagType /\ \A c \in Clients : tag.folls[c] # NONE => c \in S /\ tag.state # NONE
  BY DEF TagSound
<1>2. /\ r.state = DELETING /\ r.type = tag.type /\ r.value = tag.value
      /\ r.folls = [c \in Clients |-> IF c \in Destroyable(tag) THEN DELETING ELSE tag.folls[c]]
      /\ r = [state |-> r.state, type |-> r.type, folls |-> r.folls, value |-> r.value]
  BY <1>1 DEF vs_tag_send_destroy, TagType
<1>3. r.folls \in [Clients -> States]
  BY <1>1, <1>2 DEF TagType, States
<1>4. r \in TagType
  BY <1>1, <1>2, <1>3 DEF TagType, States
<1> QED BY <1>1, <1>2, <1>4 DEF TagSound, Destroyable, NONE, CREATED, DELETING

LEMMA TagAcknowledged ==
  ASSUME NEW S, NEW tag, TagSound(tag, S), tag.state # NONE, NEW c \in Clients,
         NEW own \in States, NEW r, r = Acknowledged(tag, c, own)
  PROVE  /\ TagSound(r, S)
         /\ r.state \in {tag.state, CREATED} /\ r.type = tag.type /\ r.value = tag.value
         /\ \A d \in Clients : r.folls[d] =
              IF d # c \/ tag.folls[c] = NONE THEN tag.folls[d]
              ELSE IF tag.state = DELETING THEN DELETING ELSE own
<1>1. tag \in TagType /\ \A d \in Clients : tag.folls[d] # NONE => d \in S /\ tag.state # NONE
  BY DEF TagSound
<1> DEFINE f == IF tag.folls[c] = NONE THEN NONE
                ELSE IF DestroyNow(tag, c) THEN DELETING ELSE own
<1>2. f \in States /\ tag.folls \in [Clients -> States]
  BY <1>1 DEF States, TagType
<1>3. /\ r.state \in {tag.state, CREATED} /\ r.type = tag.type /\ r.value = tag.value
      /\ r.folls = [tag.folls EXCEPT ![c] = f]
      /\ r = [state |-> r.state, type |-> r.type, folls |-> r.folls, value |-> r.value]
  BY <1>1 DEF Acknowledged, TagType
<1>4. r.folls \in [Clients -> States] /\ r.state \in States
  BY <1>1, <1>2, <1>3 DEF TagType, States
<1>5. r \in TagType
  BY <1>1, <1>3, <1>4 DEF TagType
<1>6. \A d \in Clients : r.folls[d] =
              IF d # c \/ tag.folls[c] = NONE THEN tag.folls[d]
              ELSE IF tag.state = DELETING THEN DELETING ELSE own
  BY <1>2, <1>3 DEF DestroyNow
<1> QED BY <1>1, <1>3, <1>5, <1>6 DEF TagSound, NONE, CREATED

(* Client c no longer follows e.                                           *)
Forgotten(e, c) == [e EXCEPT !.folls[c] = NONE]

NoLonger(r, tag, c) ==
  /\ r.state = tag.state /\ r.type = tag.type /\ r.value = tag.value
  /\ \A d \in Clients : r.folls[d] = IF d = c THEN NONE ELSE tag.folls[d]

LEMMA TagForgotten ==
  ASSUME NEW S, NEW tag, TagSound(tag, S), NEW c \in Clients, NEW r, r = Forgotten(tag, c)
  PROVE  TagSound(r, S \ {c}) /\ TagSound(r, S) /\ NoLonger(r, tag, c)
<1>1. tag \in TagType /\ \A d \in Clients : tag.folls[d] # NONE => d \in S /\ tag.state # NONE
  BY DEF TagSound
<1>2. /\ r.state = tag.state /\ r.type = tag.type /\ r.value = tag.value
      /\ r.folls = [tag.folls EXCEPT ![c] = NONE]
      /\ r = [state |-> r.state, type |-> r.type, folls |-> r.folls, value |-> r.value]
  BY <1>1 DEF TagType, Forgotten
<1>3. /\ r.folls \in [Clients -> States]
      /\ \A d \in Clients : r.folls[d] = IF d = c THEN NONE ELSE tag.folls[d]
  BY <1>1, <1>2 DEF TagType, States
<1>4. r \in TagType
  BY <1>1, <1>2, <1>3 DEF TagType
<1>5. NoLonger(r, tag, c)
  BY <1>2, <1>3 DEF NoLonger
<1>6. TagSound(r, S \ {c}) /\ TagSound(r, S)
  BY <1>1, <1>2, <1>3, <1>4 DEF TagSound
<1> QED BY <1>5, <1>6

LEMMA TagCreated ==
  ASSUME NEW type \in Types, NEW r, r = vs_tag_create(type)
  PROVE  /\ \A S : TagSound(r, S)
         /\ r.state = CREATING /\ r.value = UNSET
         /\ \A c \in Clients : r.folls[c] = NONE
BY FreeTypes DEF vs_tag_create, FreeTag, NoFolls, TagSound, TagType, States

(* The same for tag groups.                                                *)

TgParts(r) ==
  r = [state |-> r.state, type |-> r.type, folls |-> r.folls, subs |-> r.subs,
       last_tag_id |-> r.last_tag_id, tags |-> r.tags]

LEMMA TgSendCreate ==
  ASSUME NEW N, NEW C, C \subseteq N, NEW tg, TgSound(tg, N),
         NEW r, r = vs_taggroup_send_create(tg, C)
  PROVE  /\ TgSound(r, N)
         /\ r.state = tg.state /\ r.subs = tg.subs /\ r.tags = tg.tags
         /\ \A c \in Clients : r.folls[c] = IF c \in Untold(tg, C) THEN CREATING ELSE tg.folls[c]
<1>1. /\ tg \in TgType /\ tg.subs \subseteq N /\ \A t \in TagIds : TagSound(tg.tags[t], tg.subs)
      /\ \A c \in Clients : tg.folls[c] # NONE => c \in N /\ tg.state # NONE
  BY DEF TgSound
<1>2. /\ r.state = tg.state /\ r.type = tg.type /\ r.subs = tg.subs /\ r.tags = tg.tags
      /\ r.last_tag_id = tg.last_tag_id
      /\ r.folls = [c \in Clients |-> IF c \in Untold(tg, C) THEN CREATING ELSE tg.folls[c]]
      /\ TgParts(r)
  BY <1>1 DEF vs_taggroup_send_create, TgType, TgParts
<1>3. r.folls \in [Clients -> States]
  BY <1>1, <1>2 DEF TgType, States
<1>4. r \in TgType
  BY <1>1, <1>2, <1>3 DEF TgType, TgParts
<1> QED BY <1>1, <1>2, <1>4 DEF TgSound, Untold, NONE, CREATING, CREATED

LEMMA TgSendDestroy ==
  ASSUME NEW N, NEW tg, TgSound(tg, N), tg.state # NONE, NEW r, r = vs_taggroup_send_destroy(tg)
  PROVE  /\ TgSound(r, N)
         /\ r.state = DELETING /\ r.subs = tg.subs /\ r.tags = tg.tags
         /\ \A c \in Clients : r.folls[c] = IF tg.folls[c] = CREATED THEN DELETING ELSE tg.folls[c]
<1>1. /\ tg \in TgType /\ tg.subs \subseteq N /\ \A t \in TagIds : TagSound(tg.tags[t], tg.subs)
      /\ \A c \in Clients : tg.folls[c] # NONE => c \in N /\ tg.state # NONE
  BY DEF TgSound
<1>2. /\ r.state = DELETING /\ r.type = tg.type /\ r.subs = tg.subs /\ r.tags = tg.tags
      /\ r.last_tag_id = tg.last_tag_id
      /\ r.folls = [c \in Clients |-> IF c \in Destroyable(tg) THEN DELETING ELSE tg.folls[c]]
      /\ TgParts(r)
  BY <1>1 DEF vs_taggroup_send_destroy, TgType, TgParts
<1>3. r.folls \in [Clients -> States]
  BY <1>1, <1>2 DEF TgType, States
<1>4. r \in TgType
  BY <1>1, <1>2, <1>3 DEF TgType, TgParts, States
<1> QED BY <1>1, <1>2, <1>4 DEF TgSound, Destroyable, NONE, CREATED, DELETING

LEMMA TgAcknowledged ==
  ASSUME NEW N, NEW tg, TgSound(tg, N), tg.state # NONE, NEW c \in Clients,
         NEW own \in States, NEW r, r = Acknowledged(tg, c, own)
  PROVE  /\ TgSound(r, N)
         /\ r.state \in {tg.state, CREATED} /\ r.subs = tg.subs /\ r.tags = tg.tags
         /\ \A d \in Clients : r.folls[d] =
              IF d # c \/ tg.folls[c] = NONE THEN tg.folls[d]
              ELSE IF tg.state = DELETING THEN DELETING ELSE own
<1>1. /\ tg \in TgType /\ tg.subs \subseteq N /\ \A t \in TagIds : TagSound(tg.tags[t], tg.subs)
      /\ \A d \in Clients : tg.folls[d] # NONE => d \in N /\ tg.state # NONE
  BY DEF TgSound
<1> DEFINE f == IF tg.folls[c] = NONE THEN NONE
                ELSE IF DestroyNow(tg, c) THEN DELETING ELSE own
<1>2. f \in States /\ tg.folls \in [Clients -> States]
  BY <1>1 DEF States, TgType
<1>3. /\ r.state \in {tg.state, CREATED} /\ r.type = tg.type /\ r.subs = tg.subs
      /\ r.tags = tg.tags /\ r.last_tag_id = tg.last_tag_id
      /\ r.folls = [tg.folls EXCEPT ![c] = f]
      /\ TgParts(r)
  BY <1>1 DEF Acknowledged, TgType, TgParts
<1>4. r.folls \in [Clients -> States] /\ r.state \in States
  BY <1>1, <1>2, <1>3 DEF TgType, States
<1>5. r \in TgType
  BY <1>1, <1>3, <1>4 DEF TgType, TgParts
<1>6. \A d \in Clients : r.folls[d] =
              IF d # c \/ tg.folls[c] = NONE THEN tg.folls[d]
              ELSE IF tg.state = DELETING THEN DELETING ELSE own
  BY <1>2, <1>3 DEF DestroyNow
<1> QED BY <1>1, <1>3, <1>5, <1>6 DEF TgSound, NONE, CREATED

LEMMA TgForgotten ==
  ASSUME NEW N, NEW tg, TgSound(tg, N), NEW c \in Clients, NEW r, r = Forgotten(tg, c)
  PROVE  /\ TgSound(r, N)
         /\ r.state = tg.state /\ r.subs = tg.subs /\ r.tags = tg.tags
         /\ \A d \in Clients : r.folls[d] = IF d = c THEN NONE ELSE tg.folls[d]
<1>1. /\ tg \in TgType /\ tg.subs \subseteq N /\ \A t \in TagIds : TagSound(tg.tags[t], tg.subs)
      /\ \A d \in Clients : tg.folls[d] # NONE => d \in N /\ tg.state # NONE
  BY DEF TgSound
<1>2. /\ r.state = tg.state /\ r.type = tg.type /\ r.subs = tg.subs
      /\ r.tags = tg.tags /\ r.last_tag_id = tg.last_tag_id
      /\ r.folls = [tg.folls EXCEPT ![c] = NONE]
      /\ TgParts(r)
  BY <1>1 DEF TgType, TgParts, Forgotten
<1>3. /\ r.folls \in [Clients -> States]
      /\ \A d \in Clients : r.folls[d] = IF d = c THEN NONE ELSE tg.folls[d]
  BY <1>1, <1>2 DEF TgType, States
<1>4. r \in TgType
  BY <1>1, <1>2, <1>3 DEF TgType, TgParts
<1> QED BY <1>1, <1>2, <1>3, <1>4 DEF TgSound

LEMMA TgCreated ==
  ASSUME NEW type \in Types, NEW r, r = vs_taggroup_create(type)
  PROVE  /\ \A N : TgSound(r, N)
         /\ r.state = CREATING /\ r.subs = {} /\ r.tags = FreeTg.tags
         /\ \A c \in Clients : r.folls[c] = NONE
<1>1. /\ r.state = CREATING /\ r.subs = {} /\ r.tags = FreeTg.tags /\ r.type = type
      /\ r.last_tag_id = FreeTg.last_tag_id /\ r.folls = NoFolls /\ TgParts(r)
  BY DEF vs_taggroup_create, FreeTg, TgParts
<1>2. r \in TgType
  BY <1>1, FreeTypes DEF TgParts, TgType, States
<1>3. \A c \in Clients : r.folls[c] = NONE
  BY <1>1 DEF NoFolls
<1>4. \A t \in TagIds : r.tags[t] = FreeTag
  BY <1>1 DEF FreeTg
<1> QED BY <1>1, <1>2, <1>3, <1>4, FreeTypes DEF TgSound

(* A client that leaves the node: in both ways the followers go.           *)
TagsLeft(r, tg, c) ==
  \A t \in TagIds :
    /\ r.tags[t].state = tg.tags[t].state /\ r.tags[t].value = tg.tags[t].value
    /\ \A d \in Clients : r.tags[t].folls[d] = IF d = c THEN NONE ELSE tg.tags[t].folls[d]

LEMMA TgUnsubscribed ==
  ASSUME NEW N, NEW tg, TgSound(tg, N), NEW c \in Clients, NEW r,
         r = vs_taggroup_unsubscribe(tg, c)
  PROVE  /\ TgSound(r, N)
         /\ r.subs = tg.subs \ {c} /\ r.state = tg.state /\ r.folls = tg.folls
         /\ TagsLeft(r, tg, c)
<1>1. /\ tg \in TgType /\ tg.subs \subseteq N /\ \A t \in TagIds : TagSound(tg.tags[t], tg.subs)
      /\ \A d \in Clients : tg.folls[d] # NONE => d \in N /\ tg.state # NONE
  BY DEF TgSound
<1>2. CASE c \in tg.subs
  <2> DEFINE T(t) == Forgotten(tg.tags[t], c)
  <2>1. /\ r.state = tg.state /\ r.type = tg.type /\ r.subs = tg.subs \ {c}
        /\ r.tags = [t \in TagIds |-> T(t)]
        /\ r.last_tag_id = tg.last_tag_id /\ r.folls = tg.folls
        /\ TgParts(r)
    BY <1>1, <1>2 DEF vs_taggroup_unsubscribe, TgType, TgParts, Forgotten
  <2>2. ASSUME NEW t \in TagIds
        PROVE  /\ TagSound(T(t), tg.subs \ {c})
               /\ T(t).state = tg.tags[t].state /\ T(t).value = tg.tags[t].value
               /\ \A d \in Clients : T(t).folls[d] = IF d = c THEN NONE ELSE tg.tags[t].folls[d]
    <3>1. PICK r1 : r1 = T(t)
      OBVIOUS
    <3>2. TagSound(tg.tags[t], tg.subs) /\ r1 = Forgotten(tg.tags[t], c)
      BY <1>1, <3>1
    <3> HIDE DEF T
    <3>3. TagSound(r1, tg.subs \ {c}) /\ NoLonger(r1, tg.tags[t], c)
      BY <3>2, TagForgotten
    <3> QED BY <3>1, <3>3 DEF NoLonger
  <2> HIDE DEF T
  <2>3. r.tags \in [TagIds -> TagType]
    BY <2>1, <2>2 DEF TagSound
  <2>4. r \in TgType
    BY <1>1, <2>1, <2>3 DEF TgType, TgParts
  <2>5. TagsLeft(r, tg, c)
    BY <2>1, <2>2 DEF TagsLeft
  <2> QED BY <1>1, <2>1, <2>2, <2>4, <2>5 DEF TgSound
<1>3. CASE c \notin tg.subs
  <2>1. r = tg
    BY <1>3 DEF vs_taggroup_unsubscribe
  <2> QED BY <1>1, <1>3, <2>1 DEF TgSound, TagSound, TagsLeft
<1> QED BY <1>2, <1>3

LEMMA TgLeft ==
  ASSUME NEW N, NEW tg, TgSound(tg, N), NEW c \in Clients, NEW r,
         r = Unsubscribed(tg, c) \/ r = vs_tg_free_avatar_reference(tg, c)
  PROVE  /\ TgSound(r, N \ {c})
         /\ r.subs = tg.subs \ {c} /\ r.state = tg.state
         /\ \A d \in Clients : r.folls[d] = IF d = c THEN NONE ELSE tg.folls[d]
         /\ TagsLeft(r, tg, c)
<1>0. PICK u : u = vs_taggroup_unsubscribe(tg, c)
  OBVIOUS
<1>1. /\ TgSound(u, N)
      /\ u.subs = tg.subs \ {c} /\ u.state = tg.state /\ u.folls = tg.folls
      /\ TagsLeft(u, tg, c)
  BY <1>0, TgUnsubscribed
<1>2. r = Forgotten(u, c)
  <2>1. CASE r = Unsubscribed(tg, c)
    BY <1>0, <2>1 DEF Unsubscribed, Forgotten
  <2>2. CASE r = vs_tg_free_avatar_reference(tg, c)
    <3>1. tg \in TgType
      BY DEF TgSound
    <3>2. CASE c \in tg.subs
      BY <1>0, <2>2, <3>1, <3>2 DEF Forgotten, vs_taggroup_unsubscribe, vs_tg_free_avatar_reference, TgType
    <3>3. CASE c \notin tg.subs
      <4>1. tg.subs \ {c} = tg.subs
        BY <3>3
      <4> QED BY <1>0, <2>2, <3>1, <3>3, <4>1
              DEF Forgotten, vs_taggroup_unsubscribe, vs_tg_free_avatar_reference, TgType
    <3> QED BY <3>2, <3>3
  <2> QED BY <2>1, <2>2
<1>3. /\ TgSound(r, N)
      /\ r.state = u.state /\ r.subs = u.subs /\ r.tags = u.tags
      /\ \A d \in Clients : r.folls[d] = IF d = c THEN NONE ELSE u.folls[d]
  BY <1>1, <1>2, TgForgotten
<1>4. TgSound(r, N \ {c})
  BY <1>1, <1>3 DEF TgSound
<1>5. TagsLeft(r, tg, c)
  BY <1>1, <1>3 DEF TagsLeft
<1> QED BY <1>1, <1>3, <1>4, <1>5

(* Tag t of a tag group is replaced.                                       *)
Replaced(r, tg, t, tag) ==
  /\ r.state = tg.state /\ r.type = tg.type /\ r.subs = tg.subs /\ r.folls = tg.folls
  /\ r.tags = [tg.tags EXCEPT ![t] = tag] /\ r.last_tag_id \in TagIds
  /\ TgParts(r)

LEMMA TgWithTag ==
  ASSUME NEW N, NEW tg, TgSound(tg, N), NEW t \in TagIds, NEW tag, TagSound(tag, tg.subs),
         NEW r, Replaced(r, tg, t, tag)
  PROVE  TgSound(r, N) /\ \A x \in TagIds : r.tags[x] = IF x = t THEN tag ELSE tg.tags[x]
<1>1. /\ tg \in TgType /\ tg.subs \subseteq N /\ \A x \in TagIds : TagSound(tg.tags[x], tg.subs)
      /\ \A d \in Clients : tg.folls[d] # NONE => d \in N /\ tg.state # NONE
  BY DEF TgSound
<1>2. /\ r.tags \in [TagIds -> TagType]
      /\ \A x \in TagIds : r.tags[x] = IF x = t THEN tag ELSE tg.tags[x]
  BY <1>1 DEF TgType, TagSound, Replaced
<1>3. r \in TgType
  BY <1>1, <1>2 DEF TgType, TgParts, Replaced
<1> QED BY <1>1, <1>2, <1>3 DEF TgSound, Replaced

(* Client c subscribes to a tag group.                                     *)
Subscribed(tg, c) ==
  [tg EXCEPT !.subs = @ \union {c},
             !.tags = [t \in TagIds |-> vs_tag_send_create(@[t], {c})]]

TagsTold(r, tg, c) ==
  \A t \in TagIds :
    /\ r.tags[t].state = tg.tags[t].state /\ r.tags[t].value = tg.tags[t].value
    /\ \A d \in Clients : r.tags[t].folls[d] =
         IF d \in Untold(tg.tags[t], {c}) THEN CREATING ELSE tg.tags[t].folls[d]

LEMMA TgSubscribed ==
  ASSUME NEW N, NEW tg, TgSound(tg, N), NEW c \in Clients, c \in N, NEW r,
         r = Subscribed(tg, c)
  PROVE  /\ TgSound(r, N)
         /\ r.state = tg.state /\ r.folls = tg.folls /\ r.subs = tg.subs \union {c}
         /\ TagsTold(r, tg, c)
<1>1. /\ tg \in TgType /\ tg.subs \subseteq N /\ \A t \in TagIds : TagSound(tg.tags[t], tg.subs)
      /\ \A d \in Clients : tg.folls[d] # NONE => d \in N /\ tg.state # NONE
  BY DEF TgSound
<1> DEFINE T(t) == vs_tag_send_create(tg.tags[t], {c})
           S == tg.subs \union {c}
<1>2. /\ r.state = tg.state /\ r.type = tg.type /\ r.subs = S
      /\ r.tags = [t \in TagIds |-> T(t)]
      /\ r.last_tag_id = tg.last_tag_id /\ r.folls = tg.folls
      /\ TgParts(r)
  BY <1>1 DEF TgType, TgParts, Subscribed
<1>3. ASSUME NEW t \in TagIds
      PROVE  /\ TagSound(T(t), S)
             /\ T(t).state = tg.tags[t].state /\ T(t).value = tg.tags[t].value
             /\ \A d \in Clients : T(t).folls[d] =
                  IF d \in Untold(tg.tags[t], {c}) THEN CREATING ELSE tg.tags[t].folls[d]
  <2>1. TagSound(tg.tags[t], S) /\ {c} \subseteq S
    BY <1>1 DEF TagSound, TgType
  <2>2. PICK r1 : r1 = vs_tag_send_create(tg.tags[t], {c})
    OBVIOUS
  <2> HIDE DEF T, S
  <2>3. /\ TagSound(r1, S)
        /\ r1.state = tg.tags[t].state /\ r1.value = tg.tags[t].value
        /\ \A d \in Clients : r1.folls[d] =
             IF d \in Untold(tg.tags[t], {c}) THEN CREATING ELSE tg.tags[t].folls[d]
    BY <2>1, <2>2, TagSendCreate
  <2> QED BY <2>2, <2>3 DEF T
<1>4. S \in SUBSET N /\ S \in SUBSET Clients /\ \A t \in TagIds : T(t) \in TagType
  BY <1>1, <1>3 DEF TagSound, TgType
<1>5. r.subs = tg.subs \union {c}
  BY <1>2
<1> HIDE DEF T, S
<1>6. r.tags \in [TagIds -> TagType]
  BY <1>2, <1>4
<1>7. r \in TgType
  BY <1>1, <1>2, <1>4, <1>6 DEF TgType, TgParts
<1>8. TgSound(r, N)
  BY <1>1, <1>2, <1>3, <1>4, <1>7 DEF TgSound
<1>9. TagsTold(r, tg, c)
  BY ZenonT(60), <1>2, <1>3 DEF TagsTold
<1> QED BY <1>2, <1>5, <1>8, <1>9

-----------------------------------------------------------------------------
(* Commands, queues and views.                                             *)

LEMMA FirstFreeIsFree ==
  ASSUME NEW max \in Nat, NEW last \in 0 .. max, NEW used, used # 0 .. max,
         used \subseteq 0 .. max
  PROVE  FirstFree(last, used, max) \in (0 .. max) \ used
<1> DEFINE A == (0 .. max) \ used
           Distance(i) == (i - last) % (max + 1)
           D == {Distance(i) : i \in A}
<1>1. A # {}
  OBVIOUS
<1>2. ASSUME NEW i \in A PROVE Distance(i) \in Nat
  <2>1. i - last \in Int /\ max + 1 \in Nat \ {0}
    OBVIOUS
  <2>2. \A a \in Int, b \in Nat \ {0} : a % b \in Nat
    OBVIOUS
  <2> QED BY <2>1, <2>2
<1> HIDE DEF A, Distance
<1>3. D \subseteq Nat /\ D # {}
  BY <1>1, <1>2
<1>4. PICK d \in D : \A e \in D : ~(<<e, d>> \in OpToRel(<, Nat))
  <2> HIDE DEF D
  <2> QED BY <1>3, NatLessThanWellFounded, WFMin
<1>5. \A e \in D : d <= e
  <2> HIDE DEF D
  <2>1. \A e \in D : ~(e < d)
    BY <1>3, <1>4 DEF OpToRel
  <2>2. d \in Nat /\ \A e \in D : e \in Nat
    BY <1>3
  <2> QED BY <2>1, <2>2
<1>6. PICK i \in A : d = Distance(i)
  BY <1>4
<1>7. \A j \in A : Distance(i) <= Distance(j)
  BY <1>5, <1>6
<1> QED BY <1>7 DEF FirstFree, A, Distance

LEMMA CmdFields ==
  \A i, t, v :
    /\ TgCreate(i).op = "TAGGROUP_CREATE" /\ TgCreate(i).tg = i /\ TgCreate(i).tag = NoTag
    /\ TgDestroy(i).op = "TAGGROUP_DESTROY" /\ TgDestroy(i).tg = i /\ TgDestroy(i).tag = NoTag
    /\ TagCreate(i, t).op = "TAG_CREATE" /\ TagCreate(i, t).tg = i /\ TagCreate(i, t).tag = t
    /\ TagDestroy(i, t).op = "TAG_DESTROY" /\ TagDestroy(i, t).tg = i /\ TagDestroy(i, t).tag = t
    /\ TagSet(i, t, v).op = "TAG_SET" /\ TagSet(i, t, v).tg = i /\ TagSet(i, t, v).tag = t
    /\ TagSet(i, t, v).value = v
BY DEF Cmd, TgCreate, TgDestroy, TagCreate, TagDestroy, TagSet

LEMMA FakeCmdFields ==
  \A i, t :
    /\ TgCreateAck(i).op = "TAGGROUP_CREATE_ACK" /\ TgCreateAck(i).tg = i
    /\ TgDestroyAck(i).op = "TAGGROUP_DESTROY_ACK" /\ TgDestroyAck(i).tg = i
    /\ TagCreateAck(i, t).op = "TAG_CREATE_ACK" /\ TagCreateAck(i, t).tg = i
    /\ TagDestroyAck(i, t).op = "TAG_DESTROY_ACK" /\ TagDestroyAck(i, t).tg = i
    /\ TagCreateAck(i, t).tag = t /\ TagDestroyAck(i, t).tag = t
BY DEF Cmd, TgCreateAck, TgDestroyAck, TagCreateAck, TagDestroyAck

LEMMA CmdsHold ==
  \A i \in TgIds :
    /\ TgCreate(i) \in Cmds /\ TgDestroy(i) \in Cmds
    /\ \A t \in TagIds :
         /\ TagCreate(i, t) \in Cmds /\ TagDestroy(i, t) \in Cmds
         /\ \A v \in Values : TagSet(i, t, v) \in Cmds
BY DEF Cmds

LEMMA CmdCases ==
  ASSUME NEW m \in Cmds
  PROVE  /\ m.tg \in TgIds
         /\ \/ m = TgCreate(m.tg) /\ m.op = "TAGGROUP_CREATE"
            \/ m = TgDestroy(m.tg) /\ m.op = "TAGGROUP_DESTROY"
            \/ m = TagCreate(m.tg, m.tag) /\ m.op = "TAG_CREATE" /\ m.tag \in TagIds
            \/ m = TagDestroy(m.tg, m.tag) /\ m.op = "TAG_DESTROY" /\ m.tag \in TagIds
            \/ /\ m = TagSet(m.tg, m.tag, m.value) /\ m.op = "TAG_SET"
               /\ m.tag \in TagIds /\ m.value \in Values
<1>1. CASE m \in {TgCreate(i) : i \in TgIds}
  BY <1>1, CmdFields
<1>2. CASE m \in {TgDestroy(i) : i \in TgIds}
  BY <1>2, CmdFields
<1>3. CASE m \in {TagCreate(i, t) : i \in TgIds, t \in TagIds}
  BY <1>3, CmdFields
<1>4. CASE m \in {TagDestroy(i, t) : i \in TgIds, t \in TagIds}
  BY <1>4, CmdFields
<1>5. CASE m \in {TagSet(i, t, v) : i \in TgIds, t \in TagIds, v \in Values}
  BY <1>5, CmdFields
<1> QED BY <1>1, <1>2, <1>3, <1>4, <1>5 DEF Cmds

LEMMA FakeCmdCases ==
  ASSUME NEW m \in FakeCmds
  PROVE  /\ m.tg \in TgIds
         /\ \/ m = TgCreateAck(m.tg) /\ m.op = "TAGGROUP_CREATE_ACK"
            \/ m = TgDestroyAck(m.tg) /\ m.op = "TAGGROUP_DESTROY_ACK"
            \/ m = TagCreateAck(m.tg, m.tag) /\ m.op = "TAG_CREATE_ACK" /\ m.tag \in TagIds
            \/ m = TagDestroyAck(m.tg, m.tag) /\ m.op = "TAG_DESTROY_ACK" /\ m.tag \in TagIds
<1>1. CASE m \in {TgCreateAck(i) : i \in TgIds}
  BY <1>1, FakeCmdFields
<1>2. CASE m \in {TgDestroyAck(i) : i \in TgIds}
  BY <1>2, FakeCmdFields
<1>3. CASE m \in {TagCreateAck(i, t) : i \in TgIds, t \in TagIds}
  BY <1>3, FakeCmdFields
<1>4. CASE m \in {TagDestroyAck(i, t) : i \in TgIds, t \in TagIds}
  BY <1>4, FakeCmdFields
<1> QED BY <1>1, <1>2, <1>3, <1>4 DEF FakeCmds

LEMMA FakeAcks ==
  ASSUME NEW m \in Cmds
  PROVE  /\ v_cmd_fake_ack(m) \subseteq FakeCmds
         /\ m.op = "TAGGROUP_CREATE" => v_cmd_fake_ack(m) = {TgCreateAck(m.tg)}
         /\ m.op = "TAGGROUP_DESTROY" => v_cmd_fake_ack(m) = {TgDestroyAck(m.tg)}
         /\ m.op = "TAG_CREATE" => v_cmd_fake_ack(m) = {TagCreateAck(m.tg, m.tag)}
         /\ m.op = "TAG_DESTROY" => v_cmd_fake_ack(m) = {TagDestroyAck(m.tg, m.tag)}
         /\ m.op = "TAG_SET" => v_cmd_fake_ack(m) = {}
<1>1. /\ m.op = "TAGGROUP_CREATE" => v_cmd_fake_ack(m) = {TgCreateAck(m.tg)}
      /\ m.op = "TAGGROUP_DESTROY" => v_cmd_fake_ack(m) = {TgDestroyAck(m.tg)}
      /\ m.op = "TAG_CREATE" => v_cmd_fake_ack(m) = {TagCreateAck(m.tg, m.tag)}
      /\ m.op = "TAG_DESTROY" => v_cmd_fake_ack(m) = {TagDestroyAck(m.tg, m.tag)}
      /\ m.op = "TAG_SET" => v_cmd_fake_ack(m) = {}
  BY DEF v_cmd_fake_ack
<1> QED BY <1>1, CmdCases DEF FakeCmds

(* What a client can know.                                                 *)
ViewType == [tgs : SUBSET TgIds, tags : [TgIds -> [TagIds -> Values \union {UNSET, UNKNOWN}]]]

LEMMA EmptyViewType == EmptyView \in ViewType
BY DEF EmptyView, ViewType

(* What a client with view w makes of command m: view r.                   *)
LearnedTgs(r, w, m) ==
  r.tgs = IF m.op = "TAGGROUP_CREATE" THEN w.tgs \union {m.tg}
          ELSE IF m.op = "TAGGROUP_DESTROY" THEN w.tgs \ {m.tg} ELSE w.tgs

LearnedTags(r, w, m) ==
  \A i \in TgIds, t \in TagIds : r.tags[i][t] =
    IF m.op = "TAGGROUP_DESTROY" /\ m.tg = i THEN UNKNOWN
    ELSE IF m.tg # i \/ m.tag # t THEN w.tags[i][t]
    ELSE IF m.op = "TAG_CREATE" /\ i \in w.tgs /\ w.tags[i][t] = UNKNOWN THEN UNSET
    ELSE IF m.op = "TAG_DESTROY" THEN UNKNOWN
    ELSE IF m.op = "TAG_SET" /\ w.tags[i][t] # UNKNOWN THEN m.value
    ELSE w.tags[i][t]

LEMMA LearnedFields ==
  ASSUME NEW w \in ViewType, NEW m \in Cmds, NEW r, r = Learned(w, m)
  PROVE  r \in ViewType /\ LearnedTgs(r, w, m) /\ LearnedTags(r, w, m)
<1> USE DEF LearnedTgs, LearnedTags
<1>0. m.tg \in TgIds /\ NoTag \notin TagIds
  BY CmdCases DEF NoTag, TagIds
<1>1. CASE m.op = "TAGGROUP_CREATE"
  <2>1. m.tag = NoTag
    BY <1>1, CmdCases, CmdFields
  <2>2. r = [w EXCEPT !.tgs = @ \union {m.tg}]
    BY <1>1 DEF Learned
  <2> QED BY <1>0, <1>1, <2>1, <2>2 DEF ViewType
<1>2. CASE m.op = "TAGGROUP_DESTROY"
  <2>1. r = [w EXCEPT !.tgs = @ \ {m.tg}, !.tags[m.tg] = EmptyView.tags[m.tg]]
    BY <1>2 DEF Learned
  <2>2. EmptyView.tags[m.tg] = [t \in TagIds |-> UNKNOWN]
    BY <1>0 DEF EmptyView
  <2>3. m.tag = NoTag
    BY <1>2, CmdCases, CmdFields
  <2>4. /\ r.tgs = w.tgs \ {m.tg} /\ r.tags = [w.tags EXCEPT ![m.tg] = [t \in TagIds |-> UNKNOWN]]
        /\ r = [tgs |-> r.tgs, tags |-> r.tags]
    BY <2>1, <2>2 DEF ViewType
  <2>5. r \in ViewType
    BY <1>0, <2>4 DEF ViewType
  <2> QED BY <1>0, <1>2, <2>3, <2>4, <2>5 DEF ViewType
<1>3. ASSUME m.op \in {"TAG_CREATE", "TAG_DESTROY", "TAG_SET"}
      PROVE  m.tag \in TagIds /\ (m.op = "TAG_SET" => m.value \in Values)
  BY <1>3, CmdCases
<1>4. ASSUME m.tag \in TagIds, NEW x \in Values \union {UNSET, UNKNOWN},
             r = [w EXCEPT !.tags[m.tg][m.tag] = x]
      PROVE  /\ r \in ViewType /\ r.tgs = w.tgs
             /\ \A i \in TgIds, t \in TagIds :
                  r.tags[i][t] = IF i = m.tg /\ t = m.tag THEN x ELSE w.tags[i][t]
  <2>1. /\ r.tgs = w.tgs
        /\ r.tags = [w.tags EXCEPT ![m.tg] = [w.tags[m.tg] EXCEPT ![m.tag] = x]]
        /\ r = [tgs |-> r.tgs, tags |-> r.tags]
    BY <1>4 DEF ViewType
  <2>2. r.tags \in [TgIds -> [TagIds -> Values \union {UNSET, UNKNOWN}]]
    BY <1>0, <1>4, <2>1 DEF ViewType
  <2>3. r \in ViewType
    BY <2>1, <2>2 DEF ViewType
  <2>4. w.tags \in [TgIds -> [TagIds -> Values \union {UNSET, UNKNOWN}]]
    BY DEF ViewType
  <2>5. ASSUME NEW i \in TgIds, NEW t \in TagIds
        PROVE  r.tags[i][t] = IF i = m.tg /\ t = m.tag THEN x ELSE w.tags[i][t]
    <3>1. CASE i = m.tg
      <4>1. r.tags[i] = [w.tags[i] EXCEPT ![m.tag] = x] /\ w.tags[i] \in [TagIds -> Values \union {UNSET, UNKNOWN}]
        BY <1>0, <2>1, <2>4, <3>1
      <4> QED BY <1>4, <3>1, <4>1
    <3>2. CASE i # m.tg
      BY <2>1, <2>4, <3>2
    <3> QED BY <3>1, <3>2
  <2> QED BY <2>1, <2>3, <2>5
<1>5. CASE m.op = "TAG_CREATE"
  <2>1. m.tag \in TagIds
    BY <1>3, <1>5
  <2>2. CASE m.tg \in w.tgs /\ w.tags[m.tg][m.tag] = UNKNOWN
    <3>1. r = [w EXCEPT !.tags[m.tg][m.tag] = UNSET]
      BY <1>5, <2>2 DEF Learned
    <3> QED BY <1>4, <1>5, <2>1, <2>2, <3>1
  <2>3. CASE ~(m.tg \in w.tgs /\ w.tags[m.tg][m.tag] = UNKNOWN)
    <3>1. r = w
      BY <1>5, <2>3 DEF Learned
    <3> QED BY <1>5, <2>3, <3>1
  <2> QED BY <2>2, <2>3
<1>6. CASE m.op = "TAG_DESTROY"
  <2>1. r = [w EXCEPT !.tags[m.tg][m.tag] = UNKNOWN]
    BY <1>6 DEF Learned
  <2> QED BY <1>3, <1>4, <1>6, <2>1
<1>7. CASE m.op = "TAG_SET"
  <2>1. m.tag \in TagIds /\ m.value \in Values
    BY <1>3, <1>7
  <2>2. CASE w.tags[m.tg][m.tag] # UNKNOWN
    <3>1. r = [w EXCEPT !.tags[m.tg][m.tag] = m.value]
      BY <1>7, <2>2 DEF Learned
    <3> QED BY <1>4, <1>7, <2>1, <2>2, <3>1
  <2>3. CASE ~(w.tags[m.tg][m.tag] # UNKNOWN)
    <3>1. r = w
      BY <1>7, <2>3 DEF Learned
    <3> QED BY <1>7, <2>3, <3>1
  <2> QED BY <2>2, <2>3
<1> QED BY <1>1, <1>2, <1>5, <1>6, <1>7, CmdCases

(* The commands that wait to be sent or delivered to a client.             *)
Held(c) == net[c] \union ToSet(out_queue[c])

LEMMA PushEffect ==
  ASSUME TypeOK, Channels, NEW out \in [Clients -> Seq(Cmds)], Push(out)
  PROVE  /\ net' \in [Clients -> SUBSET Cmds] /\ out_queue' \in [Clients -> Seq(Cmds)]
         /\ \A c \in Clients :
              /\ c \in streams => net'[c] = {} /\ out_queue'[c] = out_queue[c] \o out[c]
              /\ c \notin streams => out_queue'[c] = <<>>
              /\ \A m \in Held(c)' : m \in Held(c) \/ m \in ToSet(out[c])
              /\ \A m \in ToSet(out[c]) : m \in Held(c)'
              /\ \A m \in Held(c) : m.op # "TAG_SET" => m \in Held(c)'
              /\ \A m : /\ Once(out_queue[c], m) /\ Once(out[c], m)
                        /\ ~(m \in Held(c) /\ m \in ToSet(out[c]))
                        => Once(out_queue'[c], m)
<1>0. /\ net \in [Clients -> SUBSET Cmds] /\ out_queue \in [Clients -> Seq(Cmds)]
  BY DEF TypeOK
<1> SUFFICES ASSUME NEW c \in Clients
             PROVE  /\ net'[c] \subseteq Cmds /\ out_queue'[c] \in Seq(Cmds)
                    /\ c \in streams => net'[c] = {} /\ out_queue'[c] = out_queue[c] \o out[c]
                    /\ c \notin streams => out_queue'[c] = <<>>
                    /\ \A m \in Held(c)' : m \in Held(c) \/ m \in ToSet(out[c])
                    /\ \A m \in ToSet(out[c]) : m \in Held(c)'
                    /\ \A m \in Held(c) : m.op # "TAG_SET" => m \in Held(c)'
                    /\ \A m : /\ Once(out_queue[c], m) /\ Once(out[c], m)
                              /\ ~(m \in Held(c) /\ m \in ToSet(out[c]))
                              => Once(out_queue'[c], m)
  <2>1. /\ net' = [c \in Clients |-> net'[c]] /\ out_queue' = [c \in Clients |-> out_queue'[c]]
    BY DEF Push
  <2>2. net' \in [Clients -> SUBSET Cmds] /\ out_queue' \in [Clients -> Seq(Cmds)]
    BY <2>1, Zenon
  <2> QED BY <2>2, Zenon
<1>1. out[c] \in Seq(Cmds) /\ out_queue[c] \in Seq(Cmds) /\ net[c] \subseteq Cmds
  BY <1>0
<1>2. CASE c \in streams
  <2>1. net'[c] = {} /\ net[c] = {} /\ out_queue'[c] = out_queue[c] \o out[c]
    BY <1>2 DEF Push, Channels
  <2>2. out_queue'[c] \in Seq(Cmds) /\ ToSet(out_queue'[c]) = ToSet(out_queue[c]) \union ToSet(out[c])
    BY <1>1, <2>1, ConcatElements
  <2>3. Held(c) = ToSet(out_queue[c]) /\ Held(c)' = ToSet(out_queue[c]) \union ToSet(out[c])
    BY <2>1, <2>2 DEF Held
  <2>4. ASSUME NEW m, Once(out_queue[c], m), Once(out[c], m),
               ~(m \in Held(c) /\ m \in ToSet(out[c]))
        PROVE  Once(out_queue'[c], m)
    BY <1>1, <2>1, <2>3, <2>4, ConcatOnce
  <2> QED BY <1>2, <2>1, <2>2, <2>3, <2>4
<1>3. CASE c \notin streams
  <2> DEFINE kept == {m \in net[c] : \A k \in DOMAIN out[c] : ~SameTag(m, out[c][k])}
  <2>1. /\ out_queue'[c] = <<>> /\ out_queue[c] = <<>>
        /\ net'[c] = kept \union ToSet(out[c])
    BY <1>3 DEF Push, Channels
  <2>2. /\ kept \subseteq net[c]
        /\ \A m \in net[c] : m.op # "TAG_SET" => m \in kept
    BY DEF SameTag
  <2> HIDE DEF kept
  <2>3. ToSet(<<>>) = {}
    BY DEF ToSet
  <2>4. /\ Held(c) = net[c] /\ Held(c)' = kept \union ToSet(out[c])
    BY <2>1, <2>3 DEF Held
  <2>5. ToSet(out[c]) \subseteq Cmds
    BY <1>1 DEF ToSet
  <2> QED BY <1>1, <1>3, <2>1, <2>2, <2>4, <2>5
<1> QED BY <1>2, <1>3

(* One command for the clients C.                                          *)
OneFor(C, m) == [c \in Clients |-> IF c \in C THEN <<m>> ELSE <<>>]

LEMMA OneForType ==
  ASSUME NEW C, NEW m \in Cmds
  PROVE  /\ OneFor(C, m) \in [Clients -> Seq(Cmds)]
         /\ \A c \in Clients : ToSet(OneFor(C, m)[c]) = IF c \in C THEN {m} ELSE {}
         /\ \A c \in Clients : \A x : Once(OneFor(C, m)[c], x)
<1>1. <<m>> \in Seq(Cmds) /\ <<>> \in Seq(Cmds)
  OBVIOUS
<1>2. ToSet(<<m>>) = {m} /\ ToSet(<<>>) = {}
  BY DEF ToSet
<1>3. \A x : Once(<<m>>, x) /\ Once(<<>>, x)
  BY DEF Once
<1> QED BY <1>1, <1>2, <1>3 DEF OneFor

-----------------------------------------------------------------------------
(* What the handlers of the data thread do: the state stays sound, and     *)
(* which commands are queued for whom.                                     *)

NoCmds == [c \in Clients |-> <<>>]

LEMMA NoCmdsType ==
  /\ NoCmds \in [Clients -> Seq(Cmds)]
  /\ \A c \in Clients : NoCmds[c] = <<>> /\ ToSet(NoCmds[c]) = {} /\ \A m : Once(NoCmds[c], m)
BY DEF NoCmds, ToSet, Once

LEMMA PushNoCmds == TypeOK /\ PushNothing => Push(NoCmds)
<1> SUFFICES ASSUME TypeOK, PushNothing PROVE Push(NoCmds)
  OBVIOUS
<1>1. /\ net \in [Clients -> SUBSET Cmds] /\ out_queue \in [Clients -> Seq(Cmds)]
      /\ net' = net /\ out_queue' = out_queue
  BY DEF TypeOK, PushNothing
<1>2. ASSUME NEW c \in Clients
      PROVE  /\ net[c] = {m \in net[c] : \A k \in DOMAIN NoCmds[c] : ~SameTag(m, NoCmds[c][k])}
                           \union ToSet(NoCmds[c])
             /\ out_queue[c] = out_queue[c] \o NoCmds[c]
  <2>1. NoCmds[c] = <<>> /\ DOMAIN NoCmds[c] = {} /\ ToSet(NoCmds[c]) = {}
    BY NoCmdsType
  <2>2. out_queue[c] \in Seq(Cmds)
    BY <1>1
  <2>3. out_queue[c] \o <<>> = out_queue[c]
    BY <2>2
  <2> QED BY <2>1, <2>3
<1>3. net = [c \in Clients |-> net[c]] /\ out_queue = [c \in Clients |-> out_queue[c]]
  BY <1>1
<1>4. net = [c \in Clients |->
       IF c \in streams THEN net[c]
       ELSE {m \in net[c] : \A k \in DOMAIN NoCmds[c] : ~SameTag(m, NoCmds[c][k])}
              \union ToSet(NoCmds[c])]
  BY <1>2, <1>3
<1>5. out_queue = [c \in Clients |->
       IF c \in streams THEN out_queue[c] \o NoCmds[c] ELSE out_queue[c]]
  BY <1>2, <1>3
<1> QED BY <1>1, <1>4, <1>5 DEF Push

(* What all variables but the queues must satisfy after a handler.         *)
LEMMA HandlerStep ==
  ASSUME ServerInv, NEW out \in [Clients -> Seq(Cmds)], Push(out), UNCHANGED <<streams, wire>>,
         tgs' \in [TgIds -> TgType], \A i \in TgIds : TgSound(tgs'[i], node_subs'),
         last_tg_id' \in TgIds, node_subs' \subseteq Clients,
         acks' \in [Clients -> SUBSET FakeCmds], view' \in [Clients -> ViewType],
         online' \subseteq Clients, uses' \in [TgIds -> 0 .. 2], ops' \in 0 .. MaxOps
  PROVE  ServerInv'
<1>1. /\ net' \in [Clients -> SUBSET Cmds] /\ out_queue' \in [Clients -> Seq(Cmds)]
      /\ \A c \in Clients : /\ c \in streams => net'[c] = {}
                            /\ c \notin streams => out_queue'[c] = <<>>
  BY PushEffect DEF ServerInv
<1>2. Channels'
  BY <1>1 DEF ServerInv, Channels
<1>3. TypeOK'
  BY <1>1 DEF ServerInv, TypeOK, ViewType
<1> QED BY <1>2, <1>3 DEF ServerInv

LEMMA CommandTypes ==
  ASSUME ServerInv, NEW c \in Clients, Command(c)
  PROVE  /\ acks' \in [Clients -> SUBSET FakeCmds] /\ acks' = acks /\ online' = online
         /\ online' \subseteq Clients
         /\ ops' \in 0 .. MaxOps /\ UNCHANGED <<streams, wire>>
         /\ view \in [Clients -> ViewType] /\ last_tg_id \in TgIds /\ node_subs \subseteq Clients
         /\ uses \in [TgIds -> 0 .. 2] /\ tgs \in [TgIds -> TgType]
BY TagGroupsAssumption DEF ServerInv, TypeOK, Command, ViewType

LEMMA AckedTypes ==
  ASSUME ServerInv, NEW c \in Clients, NEW m, Acked(c, m)
  PROVE  /\ m \in FakeCmds /\ m \in acks[c]
         /\ acks' \in [Clients -> SUBSET FakeCmds]
         /\ \A d \in Clients : acks'[d] = IF d = c THEN acks[c] \ {m} ELSE acks[d]
         /\ UNCHANGED <<last_tg_id, uses, node_subs, streams, wire, view, online, ops>>
         /\ online \subseteq Clients /\ ops \in 0 .. MaxOps
         /\ view \in [Clients -> ViewType] /\ last_tg_id \in TgIds /\ node_subs \subseteq Clients
         /\ uses \in [TgIds -> 0 .. 2] /\ tgs \in [TgIds -> TgType]
BY DEF ServerInv, TypeOK, Acked, ViewType

(* Is client c told of tag group i when it subscribes to the node?         *)
ToTell(c, i) == c \in Readers /\ tgs[i].state \in {CREATING, CREATED} /\ tgs[i].folls[c] = NONE

NodeSubscribeOut(c) ==
  [d \in Clients |->
     IF d = c THEN SetToSeq({TgCreate(i) : i \in
                               {i \in TgIds : Untold(tgs[i], {c} \intersect Readers) # {}}})
     ELSE <<>>]

LEMMA TgCreatesFinite ==
  ASSUME NEW I, I \subseteq TgIds
  PROVE  IsFiniteSet({TgCreate(i) : i \in I})
<1> DEFINE S == {TgCreate(i) : i \in I}
           f == [i \in I |-> TgCreate(i)]
<1>1. IsFiniteSet(TgIds)
  BY TagGroupsAssumption, FS_Interval DEF TgIds
<1>2. IsFiniteSet(I)
  BY <1>1, FS_Subset
<1>3. f \in Surjection(I, S)
  BY DEF Surjection
<1> QED BY <1>2, <1>3, FS_Surjection

LEMMA NodeSubscribeOutIs ==
  ASSUME ServerInv, NEW c \in Clients
  PROVE  /\ NodeSubscribeOut(c) \in [Clients -> Seq(Cmds)]
         /\ \A d \in Clients : d # c => ToSet(NodeSubscribeOut(c)[d]) = {}
         /\ \A i \in TgIds : TgCreate(i) \in ToSet(NodeSubscribeOut(c)[c]) <=> ToTell(c, i)
         /\ \A m \in ToSet(NodeSubscribeOut(c)[c]) : \E i \in TgIds : m = TgCreate(i) /\ ToTell(c, i)
         /\ \A d \in Clients : \A m : Once(NodeSubscribeOut(c)[d], m)
<1> DEFINE I == {i \in TgIds : Untold(tgs[i], {c} \intersect Readers) # {}}
           S == {TgCreate(i) : i \in I}
           q == SetToSeq(S)
<1>1. \A i \in TgIds : i \in I <=> ToTell(c, i)
  BY DEF Untold, ToTell
<1>2. NodeSubscribeOut(c) = [d \in Clients |-> IF d = c THEN q ELSE <<>>]
  BY DEF NodeSubscribeOut
<1>3. I \subseteq TgIds
  OBVIOUS
<1> HIDE DEF I
<1>4. IsFiniteSet(S)
  BY <1>3, TgCreatesFinite
<1>5. S \subseteq Cmds
  BY <1>3, CmdsHold
<1>6. \A i \in TgIds : TgCreate(i) \in S <=> i \in I
  BY CmdFields
<1>7. \A m \in S : \E i \in TgIds : m = TgCreate(i) /\ i \in I
  BY <1>3
<1> HIDE DEF S
<1>8. q \in Seq(S) /\ ToSet(q) = S /\ \A m : Once(q, m)
  BY <1>4, SetToSeqElements
<1> HIDE DEF q
<1>9. q \in Seq(Cmds)
  BY <1>5, <1>8
<1>10. ToSet(<<>>) = {} /\ <<>> \in Seq(Cmds) /\ \A m : Once(<<>>, m)
  BY DEF ToSet, Once
<1> QED BY <1>1, <1>2, <1>6, <1>7, <1>8, <1>9, <1>10

LEMMA NodeSubscribeStep ==
  ASSUME ServerInv, NEW c \in Clients, NodeSubscribe(c)
  PROVE  /\ ServerInv' /\ Push(NodeSubscribeOut(c))
         /\ node_subs' = node_subs \union {c} /\ c \notin node_subs
         /\ UNCHANGED <<streams, wire, acks, view, uses>>
         /\ \A i \in TgIds :
              /\ tgs'[i].state = tgs[i].state /\ tgs'[i].subs = tgs[i].subs
              /\ tgs'[i].tags = tgs[i].tags
              /\ \A d \in Clients :
                   tgs'[i].folls[d] = IF d = c /\ ToTell(c, i) THEN CREATING ELSE tgs[i].folls[d]
<1> DEFINE C == {c} \intersect Readers
<1>1. /\ Command(c) /\ c \notin node_subs /\ node_subs' = node_subs \union {c}
      /\ tgs' = [i \in TgIds |-> vs_taggroup_send_create(tgs[i], C)]
      /\ Push(NodeSubscribeOut(c)) /\ UNCHANGED <<last_tg_id, uses, view>>
  BY DEF NodeSubscribe, NodeSubscribeOut
<1>2. /\ acks' \in [Clients -> SUBSET FakeCmds] /\ acks' = acks /\ online' \subseteq Clients
      /\ ops' \in 0 .. MaxOps /\ UNCHANGED <<streams, wire>>
      /\ view \in [Clients -> ViewType] /\ last_tg_id \in TgIds /\ node_subs \subseteq Clients
      /\ uses \in [TgIds -> 0 .. 2]
  BY <1>1, CommandTypes
<1>3. ASSUME NEW i \in TgIds
      PROVE  /\ TgSound(tgs'[i], node_subs')
             /\ tgs'[i].state = tgs[i].state /\ tgs'[i].subs = tgs[i].subs
             /\ tgs'[i].tags = tgs[i].tags
             /\ \A d \in Clients :
                  tgs'[i].folls[d] = IF d = c /\ ToTell(c, i) THEN CREATING ELSE tgs[i].folls[d]
  <2>1. TgSound(tgs[i], node_subs') /\ C \subseteq node_subs'
    BY <1>1 DEF ServerInv, TgSound
  <2>2. tgs'[i] = vs_taggroup_send_create(tgs[i], C)
    BY <1>1
  <2>3. /\ TgSound(tgs'[i], node_subs')
        /\ tgs'[i].state = tgs[i].state /\ tgs'[i].subs = tgs[i].subs /\ tgs'[i].tags = tgs[i].tags
        /\ \A d \in Clients : tgs'[i].folls[d] = IF d \in Untold(tgs[i], C) THEN CREATING ELSE tgs[i].folls[d]
    <3>1. PICK N, r, C1 : N = node_subs' /\ r = tgs'[i] /\ C1 = C
      OBVIOUS
    <3>2. /\ TgSound(r, N)
          /\ r.state = tgs[i].state /\ r.subs = tgs[i].subs /\ r.tags = tgs[i].tags
          /\ \A d \in Clients : r.folls[d] = IF d \in Untold(tgs[i], C1) THEN CREATING ELSE tgs[i].folls[d]
      <4>1. TgSound(tgs[i], N) /\ C1 \subseteq N /\ r = vs_taggroup_send_create(tgs[i], C1)
        BY <2>1, <2>2, <3>1
      <4> QED BY <4>1, TgSendCreate
    <3> QED BY <3>1, <3>2
  <2>4. \A d \in Clients : d \in Untold(tgs[i], C) <=> d = c /\ ToTell(c, i)
    BY DEF Untold, ToTell
  <2> QED BY <2>3, <2>4
<1>4. tgs' \in [TgIds -> TgType]
  <2>1. \A i \in TgIds : tgs'[i] \in TgType
    BY <1>3 DEF TgSound
  <2> QED BY <1>1, <2>1
<1>5. NodeSubscribeOut(c) \in [Clients -> Seq(Cmds)]
  BY NodeSubscribeOutIs
<1>6. ServerInv'
  <2>1. \A i \in TgIds : TgSound(tgs'[i], node_subs')
    BY <1>3
  <2>2. node_subs' \subseteq Clients /\ last_tg_id' \in TgIds /\ view' \in [Clients -> ViewType] /\ uses' \in [TgIds -> 0 .. 2]
    BY <1>1, <1>2
  <2> QED BY <1>1, <1>2, <1>4, <1>5, <2>1, <2>2, HandlerStep
<1> QED BY <1>1, <1>2, <1>3, <1>6

(* A client leaves: it unsubscribes from the node or its session ends.     *)
LeaveStep(c) ==
  /\ node_subs' = node_subs \ {c}
  /\ UNCHANGED <<streams, uses>>
  /\ \A i \in TgIds :
       /\ tgs'[i].state = tgs[i].state /\ tgs'[i].subs = tgs[i].subs \ {c}
       /\ TagsLeft(tgs'[i], tgs[i], c)
       /\ \A d \in Clients : tgs'[i].folls[d] = IF d = c THEN NONE ELSE tgs[i].folls[d]
  /\ \A d \in Clients \ {c} :
       /\ net'[d] = net[d] /\ out_queue'[d] = out_queue[d] /\ wire'[d] = wire[d]
       /\ acks'[d] = acks[d] /\ view'[d] = view[d]

LEMMA LeaveTgs ==
  ASSUME ServerInv, NEW c \in Clients, node_subs' = node_subs \ {c},
         \/ tgs' = [i \in TgIds |-> Unsubscribed(tgs[i], c)]
         \/ tgs' = [i \in TgIds |-> vs_tg_free_avatar_reference(tgs[i], c)]
  PROVE  /\ tgs' \in [TgIds -> TgType] /\ \A i \in TgIds : TgSound(tgs'[i], node_subs')
         /\ \A i \in TgIds :
              /\ tgs'[i].state = tgs[i].state /\ tgs'[i].subs = tgs[i].subs \ {c}
              /\ TagsLeft(tgs'[i], tgs[i], c)
              /\ \A d \in Clients : tgs'[i].folls[d] = IF d = c THEN NONE ELSE tgs[i].folls[d]
<1>1. ASSUME NEW i \in TgIds
      PROVE  /\ TgSound(tgs'[i], node_subs')
             /\ tgs'[i].state = tgs[i].state /\ tgs'[i].subs = tgs[i].subs \ {c}
             /\ TagsLeft(tgs'[i], tgs[i], c)
             /\ \A d \in Clients : tgs'[i].folls[d] = IF d = c THEN NONE ELSE tgs[i].folls[d]
  <2>1. PICK N, r : N = node_subs /\ r = tgs'[i]
    OBVIOUS
  <2>2. /\ TgSound(tgs[i], N)
        /\ r = Unsubscribed(tgs[i], c) \/ r = vs_tg_free_avatar_reference(tgs[i], c)
    BY <2>1 DEF ServerInv
  <2>3. /\ TgSound(r, N \ {c})
        /\ r.subs = tgs[i].subs \ {c} /\ r.state = tgs[i].state
        /\ \A d \in Clients : r.folls[d] = IF d = c THEN NONE ELSE tgs[i].folls[d]
        /\ TagsLeft(r, tgs[i], c)
    BY <2>2, TgLeft
  <2> QED BY <2>1, <2>3
<1>2. \A i \in TgIds : tgs'[i] \in TgType
  BY <1>1 DEF TgSound
<1> QED BY <1>1, <1>2

LEMMA NodeUnsubscribeStep ==
  ASSUME ServerInv, NEW c \in Clients, NodeUnsubscribe(c)
  PROVE  ServerInv' /\ LeaveStep(c) /\ c \in Leavers
<1>1. /\ Command(c) /\ c \in Leavers /\ node_subs' = node_subs \ {c}
      /\ tgs' = [i \in TgIds |-> Unsubscribed(tgs[i], c)]
      /\ view' = [view EXCEPT ![c] = EmptyView]
      /\ UNCHANGED <<last_tg_id, uses, net, out_queue>>
  BY DEF NodeUnsubscribe
<1>2. /\ acks' \in [Clients -> SUBSET FakeCmds] /\ acks' = acks /\ online' \subseteq Clients
      /\ ops' \in 0 .. MaxOps /\ UNCHANGED <<streams, wire>>
      /\ view \in [Clients -> ViewType] /\ last_tg_id \in TgIds /\ node_subs \subseteq Clients
      /\ uses \in [TgIds -> 0 .. 2]
  BY <1>1, CommandTypes
<1>3. /\ tgs' \in [TgIds -> TgType] /\ \A i \in TgIds : TgSound(tgs'[i], node_subs')
      /\ \A i \in TgIds :
           /\ tgs'[i].state = tgs[i].state /\ tgs'[i].subs = tgs[i].subs \ {c}
           /\ TagsLeft(tgs'[i], tgs[i], c)
           /\ \A d \in Clients : tgs'[i].folls[d] = IF d = c THEN NONE ELSE tgs[i].folls[d]
  BY <1>1, LeaveTgs
<1>4. view' \in [Clients -> ViewType] /\ \A d \in Clients \ {c} : view'[d] = view[d]
  BY <1>1, <1>2, EmptyViewType
<1>5. Push(NoCmds) /\ NoCmds \in [Clients -> Seq(Cmds)]
  BY <1>1, PushNoCmds, NoCmdsType DEF PushNothing, ServerInv
<1>6. node_subs' \subseteq Clients /\ last_tg_id' \in TgIds /\ uses' \in [TgIds -> 0 .. 2]
  BY <1>1, <1>2
<1>7. ServerInv'
  BY <1>2, <1>3, <1>4, <1>5, <1>6, HandlerStep
<1> QED BY <1>1, <1>2, <1>3, <1>4, <1>7 DEF LeaveStep

LEMMA DisconnectStep ==
  ASSUME ServerInv, NEW c \in Clients, Disconnect(c)
  PROVE  ServerInv' /\ LeaveStep(c) /\ c \in Leavers
<1>1. /\ c \in Leavers /\ online' = online \ {c} /\ node_subs' = node_subs \ {c}
      /\ tgs' = [i \in TgIds |-> vs_tg_free_avatar_reference(tgs[i], c)]
      /\ net' = [net EXCEPT ![c] = {}] /\ out_queue' = [out_queue EXCEPT ![c] = <<>>]
      /\ wire' = [wire EXCEPT ![c] = <<>>] /\ acks' = [acks EXCEPT ![c] = {}]
      /\ view' = [view EXCEPT ![c] = EmptyView]
      /\ UNCHANGED <<last_tg_id, uses, streams, ops>>
  BY DEF Disconnect
<1>2. /\ tgs' \in [TgIds -> TgType] /\ \A i \in TgIds : TgSound(tgs'[i], node_subs')
      /\ \A i \in TgIds :
           /\ tgs'[i].state = tgs[i].state /\ tgs'[i].subs = tgs[i].subs \ {c}
           /\ TagsLeft(tgs'[i], tgs[i], c)
           /\ \A d \in Clients : tgs'[i].folls[d] = IF d = c THEN NONE ELSE tgs[i].folls[d]
  BY <1>1, LeaveTgs
<1>3. /\ net \in [Clients -> SUBSET Cmds] /\ out_queue \in [Clients -> Seq(Cmds)]
      /\ wire \in [Clients -> Seq(Cmds)] /\ acks \in [Clients -> SUBSET FakeCmds]
      /\ view \in [Clients -> ViewType]
  BY DEF ServerInv, TypeOK, ViewType
<1>4. /\ net' \in [Clients -> SUBSET Cmds] /\ out_queue' \in [Clients -> Seq(Cmds)]
      /\ wire' \in [Clients -> Seq(Cmds)] /\ acks' \in [Clients -> SUBSET FakeCmds]
  BY <1>1, <1>3
<1>5. view' \in [Clients -> ViewType]
  BY <1>1, <1>3, EmptyViewType
<1>6. \A d \in Clients :
        /\ net'[d] = IF d = c THEN {} ELSE net[d]
        /\ out_queue'[d] = IF d = c THEN <<>> ELSE out_queue[d]
        /\ wire'[d] = IF d = c THEN <<>> ELSE wire[d]
        /\ d # c => acks'[d] = acks[d] /\ view'[d] = view[d]
  BY <1>1, <1>3
<1>7. TypeOK'
  BY <1>1, <1>2, <1>4, <1>5 DEF ServerInv, TypeOK, ViewType
<1>8. Channels'
  BY <1>1, <1>6 DEF ServerInv, Channels
<1> QED BY <1>1, <1>2, <1>6, <1>7, <1>8 DEF LeaveStep, ServerInv

(* A handler that changes the tag group i to X.                            *)
LEMMA OneTgStep ==
  ASSUME ServerInv, NEW i \in TgIds, NEW X, TgSound(X, node_subs), tgs' = [tgs EXCEPT ![i] = X]
  PROVE  /\ tgs' \in [TgIds -> TgType] /\ \A j \in TgIds : TgSound(tgs'[j], node_subs)
         /\ \A j \in TgIds : tgs'[j] = IF j = i THEN X ELSE tgs[j]
<1>1. tgs \in [TgIds -> TgType] /\ \A j \in TgIds : TgSound(tgs[j], node_subs)
  BY DEF ServerInv, TypeOK
<1>2. X \in TgType
  BY DEF TgSound
<1>3. /\ tgs' \in [TgIds -> TgType]
      /\ \A j \in TgIds : tgs'[j] = IF j = i THEN X ELSE tgs[j]
  BY <1>1, <1>2
<1> QED BY <1>1, <1>3

LEMMA OneTgCommand ==
  ASSUME ServerInv, NEW c \in Clients, Command(c), NEW i \in TgIds, NEW X, TgSound(X, node_subs),
         tgs' = [tgs EXCEPT ![i] = X], NEW out \in [Clients -> Seq(Cmds)], Push(out),
         last_tg_id' \in TgIds, uses' \in [TgIds -> 0 .. 2], view' \in [Clients -> ViewType],
         UNCHANGED node_subs
  PROVE  /\ ServerInv' /\ UNCHANGED <<streams, wire, acks, node_subs>>
         /\ \A j \in TgIds : tgs'[j] = IF j = i THEN X ELSE tgs[j]
<1>1. /\ acks' \in [Clients -> SUBSET FakeCmds] /\ acks' = acks /\ online' \subseteq Clients
      /\ ops' \in 0 .. MaxOps /\ UNCHANGED <<streams, wire>> /\ node_subs \subseteq Clients
  BY CommandTypes
<1>2. /\ tgs' \in [TgIds -> TgType] /\ \A j \in TgIds : TgSound(tgs'[j], node_subs)
      /\ \A j \in TgIds : tgs'[j] = IF j = i THEN X ELSE tgs[j]
  BY OneTgStep
<1>3. (\A j \in TgIds : TgSound(tgs'[j], node_subs')) /\ node_subs' \subseteq Clients
  BY <1>1, <1>2
<1>4. ServerInv'
  BY <1>1, <1>2, <1>3, HandlerStep
<1> QED BY <1>1, <1>2, <1>4

(* Client c has acknowledged m.                                            *)
AckEffect(c, m) ==
  /\ m \in acks[c]
  /\ \A d \in Clients : acks'[d] = IF d = c THEN acks[c] \ {m} ELSE acks[d]
  /\ UNCHANGED <<streams, wire, view, uses, node_subs>>

LEMMA OneTgAcked ==
  ASSUME ServerInv, NEW c \in Clients, NEW m, Acked(c, m), NEW i \in TgIds, NEW X,
         TgSound(X, node_subs), tgs' = [tgs EXCEPT ![i] = X],
         NEW out \in [Clients -> Seq(Cmds)], Push(out)
  PROVE  /\ ServerInv' /\ AckEffect(c, m)
         /\ \A j \in TgIds : tgs'[j] = IF j = i THEN X ELSE tgs[j]
<1>1. /\ m \in FakeCmds /\ m \in acks[c]
      /\ acks' \in [Clients -> SUBSET FakeCmds]
      /\ \A d \in Clients : acks'[d] = IF d = c THEN acks[c] \ {m} ELSE acks[d]
      /\ UNCHANGED <<last_tg_id, uses, node_subs, streams, wire, view, online, ops>>
      /\ online \subseteq Clients /\ ops \in 0 .. MaxOps
      /\ view \in [Clients -> ViewType] /\ last_tg_id \in TgIds /\ node_subs \subseteq Clients
      /\ uses \in [TgIds -> 0 .. 2]
  BY AckedTypes
<1>2. /\ tgs' \in [TgIds -> TgType] /\ \A j \in TgIds : TgSound(tgs'[j], node_subs)
      /\ \A j \in TgIds : tgs'[j] = IF j = i THEN X ELSE tgs[j]
  BY OneTgStep
<1>3. /\ \A j \in TgIds : TgSound(tgs'[j], node_subs')
      /\ node_subs' \subseteq Clients /\ last_tg_id' \in TgIds /\ uses' \in [TgIds -> 0 .. 2]
      /\ view' \in [Clients -> ViewType] /\ online' \subseteq Clients /\ ops' \in 0 .. MaxOps
  BY <1>1, <1>2
<1>4. ServerInv'
  BY <1>1, <1>2, <1>3, HandlerStep
<1> QED BY <1>1, <1>2, <1>4 DEF AckEffect

(* vs_handle_taggroup_create takes a free id.                              *)
TgCreateEffect(id) ==
  /\ tgs[id].state = NONE
  /\ Push(OneFor(node_subs \intersect Readers, TgCreate(id)))
  /\ UNCHANGED <<streams, wire, acks, node_subs, view>>
  /\ uses' = [uses EXCEPT ![id] = IF @ < 2 THEN @ + 1 ELSE @]
  /\ \A j \in TgIds \ {id} : tgs'[j] = tgs[j]
  /\ tgs'[id].state = CREATING /\ tgs'[id].subs = {}
  /\ \A d \in Clients :
       tgs'[id].folls[d] = IF d \in node_subs \intersect Readers THEN CREATING ELSE NONE

LEMMA HandleTaggroupCreateStep ==
  ASSUME ServerInv, NEW c \in Clients, NEW type \in Types, HandleTaggroupCreate(c, type)
  PROVE  ServerInv' /\ \E id \in TgIds : TgCreateEffect(id)
<1> DEFINE used == {i \in TgIds : tgs[i].state # NONE}
           C == node_subs \intersect Readers
<1>1. PICK id : id = FirstFree(last_tg_id, used, LastTgId)
  OBVIOUS
<1>2. /\ Command(c) /\ used # TgIds
      /\ tgs' = [tgs EXCEPT ![id] = vs_taggroup_send_create(vs_taggroup_create(type), C)]
      /\ last_tg_id' = id /\ uses' = [uses EXCEPT ![id] = IF @ < 2 THEN @ + 1 ELSE @]
      /\ PushTo(C, TgCreate(id)) /\ UNCHANGED <<node_subs, view>>
  BY <1>1 DEF HandleTaggroupCreate
<1>3. view \in [Clients -> ViewType] /\ last_tg_id \in TgIds /\ uses \in [TgIds -> 0 .. 2]
  BY <1>2, CommandTypes
<1>4. id \in TgIds /\ tgs[id].state = NONE
  <2>1. used \subseteq TgIds
    OBVIOUS
  <2>2. id \in TgIds \ used
    <3> HIDE DEF used
    <3> QED BY <1>1, <1>2, <1>3, <2>1, TagGroupsAssumption, FirstFreeIsFree DEF TgIds
  <2> QED BY <2>2
<1>5. PICK n : n = vs_taggroup_create(type)
  OBVIOUS
<1>6. /\ TgSound(n, node_subs) /\ n.state = CREATING /\ n.subs = {}
      /\ \A d \in Clients : n.folls[d] = NONE
  BY <1>5, TgCreated
<1>7. PICK X, C1 : C1 = C /\ X = vs_taggroup_send_create(n, C1)
  OBVIOUS
<1>8. /\ TgSound(X, node_subs) /\ X.state = CREATING /\ X.subs = {}
      /\ \A d \in Clients : X.folls[d] = IF d \in Untold(n, C1) THEN CREATING ELSE n.folls[d]
  <2>1. C1 \subseteq node_subs
    BY <1>7
  <2> QED BY <1>6, <1>7, <2>1, TgSendCreate
<1>9. \A d \in Clients : X.folls[d] = IF d \in C THEN CREATING ELSE NONE
  BY <1>6, <1>7, <1>8 DEF Untold
<1>10. /\ Push(OneFor(C, TgCreate(id))) /\ OneFor(C, TgCreate(id)) \in [Clients -> Seq(Cmds)]
  BY <1>2, <1>4, CmdsHold, OneForType DEF PushTo, OneFor
<1>11. tgs' = [tgs EXCEPT ![id] = X]
  BY <1>2, <1>5, <1>7
<1>12. uses' \in [TgIds -> 0 .. 2] /\ view' \in [Clients -> ViewType] /\ last_tg_id' \in TgIds
  BY <1>2, <1>3, <1>4
<1>13. /\ ServerInv' /\ UNCHANGED <<streams, wire, acks, node_subs>>
       /\ \A j \in TgIds : tgs'[j] = IF j = id THEN X ELSE tgs[j]
  <2>1. UNCHANGED node_subs
    BY <1>2
  <2> HIDE DEF C
  <2> QED BY ZenonT(60), <1>2, <1>4, <1>8, <1>10, <1>11, <1>12, <2>1, OneTgCommand
<1>14. tgs'[id] = X /\ \A j \in TgIds \ {id} : tgs'[j] = tgs[j]
  BY <1>4, <1>13
<1>15. TgCreateEffect(id)
  <2>1. C = node_subs \intersect Readers
    OBVIOUS
  <2> HIDE DEF C, used
  <2>2. Push(OneFor(node_subs \intersect Readers, TgCreate(id)))
    BY <1>10, <2>1
  <2>3. UNCHANGED <<streams, wire, acks, node_subs, view>>
    BY <1>2, <1>13
  <2>4. /\ tgs'[id].state = CREATING /\ tgs'[id].subs = {}
        /\ \A d \in Clients :
             tgs'[id].folls[d] = IF d \in node_subs \intersect Readers THEN CREATING ELSE NONE
    BY <1>8, <1>9, <1>14, <2>1
  <2>5. uses' = [uses EXCEPT ![id] = IF @ < 2 THEN @ + 1 ELSE @]
    BY <1>2
  <2> QED BY <1>4, <1>14, <2>2, <2>3, <2>4, <2>5, Zenon DEF TgCreateEffect
<1> QED BY <1>4, <1>13, <1>15

(* vs_handle_taggroup_destroy.                                             *)
TgDestroyEffect(i) ==
  /\ tgs[i].state # NONE
  /\ Push(OneFor(Destroyable(tgs[i]), TgDestroy(i)))
  /\ UNCHANGED <<streams, wire, acks, node_subs, view, uses>>
  /\ \A j \in TgIds \ {i} : tgs'[j] = tgs[j]
  /\ tgs'[i].state = DELETING /\ tgs'[i].subs = tgs[i].subs /\ tgs'[i].tags = tgs[i].tags
  /\ \A d \in Clients :
       tgs'[i].folls[d] = IF tgs[i].folls[d] = CREATED THEN DELETING ELSE tgs[i].folls[d]

LEMMA HandleTaggroupDestroyStep ==
  ASSUME ServerInv, NEW c \in Clients, NEW i \in TgIds, HandleTaggroupDestroy(c, i)
  PROVE  ServerInv' /\ TgDestroyEffect(i)
<1>1. /\ Command(c) /\ tgs[i].state # NONE
      /\ tgs' = [tgs EXCEPT ![i] = vs_taggroup_send_destroy(tgs[i])]
      /\ PushTo(Destroyable(tgs[i]), TgDestroy(i))
      /\ UNCHANGED <<last_tg_id, uses, node_subs, view>>
  BY DEF HandleTaggroupDestroy
<1>2. view \in [Clients -> ViewType] /\ last_tg_id \in TgIds /\ uses \in [TgIds -> 0 .. 2]
  BY <1>1, CommandTypes
<1>3. PICK X : X = vs_taggroup_send_destroy(tgs[i])
  OBVIOUS
<1>4. /\ TgSound(X, node_subs)
      /\ X.state = DELETING /\ X.subs = tgs[i].subs /\ X.tags = tgs[i].tags
      /\ \A d \in Clients : X.folls[d] = IF tgs[i].folls[d] = CREATED THEN DELETING ELSE tgs[i].folls[d]
  <2>1. TgSound(tgs[i], node_subs)
    BY DEF ServerInv
  <2> QED BY <1>1, <1>3, <2>1, TgSendDestroy
<1>5. PICK out : out = OneFor(Destroyable(tgs[i]), TgDestroy(i))
  OBVIOUS
<1>6. Push(out) /\ out \in [Clients -> Seq(Cmds)]
  BY <1>1, <1>5, CmdsHold, OneForType DEF PushTo, OneFor
<1>7. /\ ServerInv' /\ UNCHANGED <<streams, wire, acks, node_subs>>
      /\ \A j \in TgIds : tgs'[j] = IF j = i THEN X ELSE tgs[j]
  <2>1. /\ uses' \in [TgIds -> 0 .. 2] /\ view' \in [Clients -> ViewType]
        /\ last_tg_id' \in TgIds /\ UNCHANGED node_subs /\ tgs' = [tgs EXCEPT ![i] = X]
    BY <1>1, <1>2, <1>3
  <2> QED BY ZenonT(60), <1>1, <1>4, <1>6, <2>1, OneTgCommand
<1> QED BY <1>1, <1>4, <1>5, <1>6, <1>7 DEF TgDestroyEffect

(* vs_handle_taggroup_unsubscribe.                                         *)
TgUnsubscribeEffect(c, i) ==
  /\ UNCHANGED <<streams, wire, acks, node_subs, uses, net, out_queue>>
  /\ \A d \in Clients \ {c} : view'[d] = view[d]
  /\ \A j \in TgIds \ {i} : tgs'[j] = tgs[j]
  /\ tgs'[i].state = tgs[i].state /\ tgs'[i].folls = tgs[i].folls
  /\ tgs'[i].subs = tgs[i].subs \ {c} /\ TagsLeft(tgs'[i], tgs[i], c)

LEMMA HandleTaggroupUnsubscribeStep ==
  ASSUME ServerInv, NEW c \in Clients, NEW i \in TgIds, HandleTaggroupUnsubscribe(c, i)
  PROVE  ServerInv' /\ TgUnsubscribeEffect(c, i) /\ c \in Leavers
<1>1. /\ Command(c) /\ c \in Leavers
      /\ tgs' = [tgs EXCEPT ![i] = vs_taggroup_unsubscribe(tgs[i], c)]
      /\ view' = [view EXCEPT ![c].tags[i] = [t \in TagIds |-> UNKNOWN]]
      /\ UNCHANGED <<last_tg_id, uses, node_subs, net, out_queue>>
  BY DEF HandleTaggroupUnsubscribe
<1>2. view \in [Clients -> ViewType] /\ last_tg_id \in TgIds /\ uses \in [TgIds -> 0 .. 2]
  BY <1>1, CommandTypes
<1>3. PICK X : X = vs_taggroup_unsubscribe(tgs[i], c)
  OBVIOUS
<1>4. /\ TgSound(X, node_subs)
      /\ X.subs = tgs[i].subs \ {c} /\ X.state = tgs[i].state /\ X.folls = tgs[i].folls
      /\ TagsLeft(X, tgs[i], c)
  <2>1. TgSound(tgs[i], node_subs)
    BY DEF ServerInv
  <2> QED BY <1>3, <2>1, TgUnsubscribed
<1>5. Push(NoCmds) /\ NoCmds \in [Clients -> Seq(Cmds)]
  BY <1>1, PushNoCmds, NoCmdsType DEF PushNothing, ServerInv
<1>6. view' \in [Clients -> ViewType] /\ \A d \in Clients \ {c} : view'[d] = view[d]
  <2>1. PICK w : w = [view[c] EXCEPT !.tags[i] = [t \in TagIds |-> UNKNOWN]]
    OBVIOUS
  <2>2. view[c] \in ViewType
    BY <1>2
  <2>3. /\ w.tgs = view[c].tgs /\ w.tags = [view[c].tags EXCEPT ![i] = [t \in TagIds |-> UNKNOWN]]
        /\ w = [tgs |-> w.tgs, tags |-> w.tags]
    BY <2>1, <2>2 DEF ViewType
  <2>4. w \in ViewType
    BY <2>2, <2>3 DEF ViewType
  <2>5. view' = [view EXCEPT ![c] = w]
    BY <1>1, <2>1
  <2> QED BY <1>2, <2>4, <2>5
<1>7. /\ ServerInv' /\ UNCHANGED <<streams, wire, acks, node_subs>>
      /\ \A j \in TgIds : tgs'[j] = IF j = i THEN X ELSE tgs[j]
  <2>1. /\ uses' \in [TgIds -> 0 .. 2]
        /\ last_tg_id' \in TgIds /\ UNCHANGED node_subs /\ tgs' = [tgs EXCEPT ![i] = X]
    BY <1>1, <1>2, <1>3
  <2> QED BY ZenonT(60), <1>1, <1>4, <1>5, <1>6, <2>1, OneTgCommand
<1> QED BY <1>1, <1>4, <1>6, <1>7 DEF TgUnsubscribeEffect

(* A handler that changes tag t of tag group i to T.                       *)
TagChange(i, t, T) ==
  /\ \A j \in TgIds \ {i} : tgs'[j] = tgs[j]
  /\ tgs'[i].state = tgs[i].state /\ tgs'[i].folls = tgs[i].folls /\ tgs'[i].subs = tgs[i].subs
  /\ \A x \in TagIds : tgs'[i].tags[x] = IF x = t THEN T ELSE tgs[i].tags[x]

TagAssigned(i, t, T, l) ==
  \/ tgs' = [tgs EXCEPT ![i].tags[t] = T]
  \/ tgs' = [tgs EXCEPT ![i].tags[t] = T, ![i].last_tag_id = l]

LEMMA OneTag ==
  ASSUME ServerInv, NEW i \in TgIds, NEW t \in TagIds, NEW T, TagSound(T, tgs[i].subs),
         NEW l \in TagIds, TagAssigned(i, t, T, l)
  PROVE  \E X : /\ TgSound(X, node_subs) /\ tgs' = [tgs EXCEPT ![i] = X]
                /\ TagChange(i, t, T)
<1>1. tgs \in [TgIds -> TgType] /\ TgSound(tgs[i], node_subs)
  BY DEF ServerInv, TypeOK
<1>2. PICK X : /\ tgs' = [tgs EXCEPT ![i] = X]
               /\ Replaced(X, tgs[i], t, T)
  <2>1. CASE tgs' = [tgs EXCEPT ![i].tags[t] = T]
    <3>1. PICK X : X = [tgs[i] EXCEPT !.tags[t] = T]
      OBVIOUS
    <3>2. tgs' = [tgs EXCEPT ![i] = X]
      BY <1>1, <2>1, <3>1
    <3>3. Replaced(X, tgs[i], t, T)
      BY <1>1, <3>1 DEF Replaced, TgParts, TgType
    <3> QED BY <3>2, <3>3
  <2>2. CASE tgs' = [tgs EXCEPT ![i].tags[t] = T, ![i].last_tag_id = l]
    <3>1. PICK X : X = [tgs[i] EXCEPT !.tags[t] = T, !.last_tag_id = l]
      OBVIOUS
    <3>2. tgs' = [tgs EXCEPT ![i] = X]
      BY <1>1, <2>2, <3>1
    <3>3. Replaced(X, tgs[i], t, T)
      BY <1>1, <3>1 DEF Replaced, TgParts, TgType
    <3> QED BY <3>2, <3>3
  <2> QED BY <2>1, <2>2 DEF TagAssigned
<1>3. TgSound(X, node_subs) /\ \A x \in TagIds : X.tags[x] = IF x = t THEN T ELSE tgs[i].tags[x]
  BY <1>1, <1>2, TgWithTag
<1>4. tgs'[i] = X /\ \A j \in TgIds \ {i} : tgs'[j] = tgs[j]
  BY <1>1, <1>2
<1> QED BY <1>2, <1>3, <1>4 DEF TagChange, Replaced

(* vs_handle_tag_create takes a free id.                                   *)
TagCreateEffect(i, id) ==
  /\ tgs[i].tags[id].state = NONE /\ tgs[i].state # NONE
  /\ Push(OneFor(tgs[i].subs, TagCreate(i, id)))
  /\ UNCHANGED <<streams, wire, acks, node_subs, view, uses>>
  /\ \E T : /\ TagChange(i, id, T) /\ T.value = UNSET
            /\ \A d \in Clients : T.folls[d] = IF d \in tgs[i].subs THEN CREATING ELSE NONE

LEMMA HandleTagCreateStep ==
  ASSUME ServerInv, NEW c \in Clients, NEW i \in TgIds, NEW type \in Types,
         HandleTagCreate(c, i, type)
  PROVE  ServerInv' /\ \E id \in TagIds : TagCreateEffect(i, id)
<1> DEFINE used == {t \in TagIds : tgs[i].tags[t].state # NONE}
<1>1. PICK id : id = FirstFree(tgs[i].last_tag_id, used, LastTagId)
  OBVIOUS
<1>2. /\ Command(c) /\ tgs[i].state \in {CREATING, CREATED} /\ used # TagIds
      /\ tgs' = [tgs EXCEPT
          ![i].tags[id] = vs_tag_send_create(vs_tag_create(type), tgs[i].subs),
          ![i].last_tag_id = id]
      /\ PushTo(tgs[i].subs, TagCreate(i, id)) /\ UNCHANGED <<last_tg_id, uses, node_subs, view>>
  BY <1>1 DEF HandleTagCreate
<1>3. /\ view \in [Clients -> ViewType] /\ last_tg_id \in TgIds /\ uses \in [TgIds -> 0 .. 2]
      /\ tgs[i].last_tag_id \in TagIds /\ tgs[i].state # NONE
  <2>1. tgs \in [TgIds -> TgType]
    BY <1>2, CommandTypes
  <2> QED BY <1>2, <2>1, CommandTypes DEF TgType, NONE, CREATING, CREATED
<1>4. id \in TagIds /\ tgs[i].tags[id].state = NONE
  <2>1. used \subseteq TagIds
    OBVIOUS
  <2>2. id \in TagIds \ used
    <3> HIDE DEF used
    <3> QED BY <1>1, <1>2, <1>3, <2>1, TagGroupsAssumption, FirstFreeIsFree DEF TagIds
  <2> QED BY <2>2
<1> HIDE DEF used
<1>5. PICK n, S : n = vs_tag_create(type) /\ S = tgs[i].subs
  OBVIOUS
<1>6. /\ TagSound(n, S) /\ n.state = CREATING /\ n.value = UNSET
      /\ \A d \in Clients : n.folls[d] = NONE
  BY <1>5, TagCreated
<1>7. PICK T : T = vs_tag_send_create(n, S)
  OBVIOUS
<1>8. /\ TagSound(T, S) /\ T.value = UNSET
      /\ \A d \in Clients : T.folls[d] = IF d \in Untold(n, S) THEN CREATING ELSE n.folls[d]
  <2>1. S \subseteq S
    OBVIOUS
  <2> QED BY <1>6, <1>7, <2>1, TagSendCreate
<1>9. \A d \in Clients : T.folls[d] = IF d \in tgs[i].subs THEN CREATING ELSE NONE
  BY <1>5, <1>6, <1>8 DEF Untold
<1>10. tgs' = [tgs EXCEPT ![i].tags[id] = T, ![i].last_tag_id = id]
  BY <1>2, <1>5, <1>7
<1>11. PICK X : /\ TgSound(X, node_subs) /\ tgs' = [tgs EXCEPT ![i] = X]
                /\ TagChange(i, id, T)
  BY <1>4, <1>5, <1>8, <1>10, OneTag DEF TagAssigned
<1>12. PICK out : out = OneFor(tgs[i].subs, TagCreate(i, id))
  OBVIOUS
<1>13. Push(out) /\ out \in [Clients -> Seq(Cmds)]
  BY <1>2, <1>4, <1>12, CmdsHold, OneForType DEF PushTo, OneFor
<1>14. ServerInv' /\ UNCHANGED <<streams, wire, acks, node_subs>>
  <2>1. /\ uses' \in [TgIds -> 0 .. 2] /\ view' \in [Clients -> ViewType]
        /\ last_tg_id' \in TgIds /\ UNCHANGED node_subs
    BY <1>2, <1>3
  <2> QED BY <1>2, <1>11, <1>13, <2>1, OneTgCommand
<1>15. TagCreateEffect(i, id)
  <2>1. UNCHANGED <<streams, wire, acks, node_subs, view, uses>>
    BY <1>2, <1>14
  <2>2. Push(OneFor(tgs[i].subs, TagCreate(i, id)))
    BY <1>12, <1>13
  <2> QED BY <1>3, <1>4, <1>8, <1>9, <1>11, <2>1, <2>2, Zenon DEF TagCreateEffect
<1> QED BY <1>4, <1>14, <1>15

(* vs_handle_tag_destroy.                                                  *)
TagDestroyEffect(i, t) ==
  /\ Push(OneFor(Destroyable(tgs[i].tags[t]), TagDestroy(i, t)))
  /\ UNCHANGED <<streams, wire, acks, node_subs, view, uses>>
  /\ \E T : /\ TagChange(i, t, T) /\ T.value = tgs[i].tags[t].value
            /\ \A d \in Clients : T.folls[d] =
                 IF tgs[i].tags[t].folls[d] = CREATED THEN DELETING ELSE tgs[i].tags[t].folls[d]

LEMMA HandleTagDestroyStep ==
  ASSUME ServerInv, NEW c \in Clients, NEW i \in TgIds, NEW t \in TagIds,
         HandleTagDestroy(c, i, t)
  PROVE  ServerInv' /\ TagDestroyEffect(i, t)
<1>1. /\ Command(c) /\ tgs[i].tags[t].state # NONE
      /\ tgs' = [tgs EXCEPT ![i].tags[t] = vs_tag_send_destroy(tgs[i].tags[t])]
      /\ PushTo(Destroyable(tgs[i].tags[t]), TagDestroy(i, t))
      /\ UNCHANGED <<last_tg_id, uses, node_subs, view>>
  BY DEF HandleTagDestroy
<1>2. /\ view \in [Clients -> ViewType] /\ last_tg_id \in TgIds /\ uses \in [TgIds -> 0 .. 2]
      /\ TagSound(tgs[i].tags[t], tgs[i].subs)
  BY <1>1, CommandTypes DEF ServerInv, TgSound
<1>3. PICK T, S, tag : T = vs_tag_send_destroy(tag) /\ S = tgs[i].subs /\ tag = tgs[i].tags[t]
  OBVIOUS
<1>4. /\ TagSound(T, S) /\ T.value = tag.value
      /\ \A d \in Clients : T.folls[d] = IF tag.folls[d] = CREATED THEN DELETING ELSE tag.folls[d]
  BY <1>2, <1>3, TagSendDestroy
<1>5. PICK X : /\ TgSound(X, node_subs) /\ tgs' = [tgs EXCEPT ![i] = X]
               /\ TagChange(i, t, T)
  BY <1>1, <1>3, <1>4, OneTag DEF TagAssigned
<1>6. PICK out : out = OneFor(Destroyable(tgs[i].tags[t]), TagDestroy(i, t))
  OBVIOUS
<1>7. Push(out) /\ out \in [Clients -> Seq(Cmds)]
  BY <1>1, <1>6, CmdsHold, OneForType DEF PushTo, OneFor
<1>8. ServerInv' /\ UNCHANGED <<streams, wire, acks, node_subs>>
  <2>1. /\ uses' \in [TgIds -> 0 .. 2] /\ view' \in [Clients -> ViewType]
        /\ last_tg_id' \in TgIds /\ UNCHANGED node_subs
    BY <1>1, <1>2
  <2> QED BY <1>1, <1>5, <1>7, <2>1, OneTgCommand
<1>9. TagDestroyEffect(i, t)
  <2>1. UNCHANGED <<streams, wire, acks, node_subs, view, uses>>
    BY <1>1, <1>8
  <2>2. Push(OneFor(Destroyable(tgs[i].tags[t]), TagDestroy(i, t)))
    BY <1>6, <1>7
  <2> QED BY <1>3, <1>4, <1>5, <2>1, <2>2, Zenon DEF TagDestroyEffect
<1> QED BY <1>8, <1>9

(* vs_handle_tag_set.                                                      *)
TagSetEffect(i, t, v) ==
  /\ Push(OneFor(tgs[i].subs, TagSet(i, t, v)))
  /\ UNCHANGED <<streams, wire, acks, node_subs, view, uses>>
  /\ \E T : /\ TagChange(i, t, T) /\ T.value = v
            /\ \A d \in Clients : T.folls[d] = tgs[i].tags[t].folls[d]

LEMMA HandleTagSetStep ==
  ASSUME ServerInv, NEW c \in Clients, NEW i \in TgIds, NEW t \in TagIds, NEW v \in Values,
         HandleTagSet(c, i, t, v)
  PROVE  ServerInv' /\ TagSetEffect(i, t, v)
<1>1. /\ Command(c) /\ tgs[i].tags[t].state # NONE
      /\ tgs' = [tgs EXCEPT ![i].tags[t].value = v]
      /\ PushTo(tgs[i].subs, TagSet(i, t, v))
      /\ UNCHANGED <<last_tg_id, uses, node_subs, view>>
  BY DEF HandleTagSet
<1>2. /\ view \in [Clients -> ViewType] /\ last_tg_id \in TgIds /\ uses \in [TgIds -> 0 .. 2]
      /\ TagSound(tgs[i].tags[t], tgs[i].subs)
  BY <1>1, CommandTypes DEF ServerInv, TgSound
<1>3. PICK T, S, tag : T = [tag EXCEPT !.value = v] /\ S = tgs[i].subs /\ tag = tgs[i].tags[t]
  OBVIOUS
<1>4. /\ TagSound(T, S) /\ T.value = v /\ T.folls = tag.folls
  <2>1. /\ tag \in TagType /\ \A d \in Clients : tag.folls[d] # NONE => d \in S /\ tag.state # NONE
    BY <1>2, <1>3 DEF TagSound
  <2>2. T \in TagType /\ T.value = v /\ T.folls = tag.folls /\ T.state = tag.state
    BY <1>3, <2>1 DEF TagType
  <2> QED BY <2>1, <2>2 DEF TagSound
<1>5. PICK X : /\ TgSound(X, node_subs) /\ tgs' = [tgs EXCEPT ![i] = X]
               /\ TagChange(i, t, T)
  <2>1. tgs' = [tgs EXCEPT ![i].tags[t] = T]
    BY <1>1, <1>3
  <2> QED BY <1>3, <1>4, <2>1, OneTag DEF TagAssigned
<1>6. PICK out : out = OneFor(tgs[i].subs, TagSet(i, t, v))
  OBVIOUS
<1>7. Push(out) /\ out \in [Clients -> Seq(Cmds)]
  BY <1>1, <1>6, CmdsHold, OneForType DEF PushTo, OneFor
<1>8. ServerInv' /\ UNCHANGED <<streams, wire, acks, node_subs>>
  <2>1. /\ uses' \in [TgIds -> 0 .. 2] /\ view' \in [Clients -> ViewType]
        /\ last_tg_id' \in TgIds /\ UNCHANGED node_subs
    BY <1>1, <1>2
  <2> QED BY <1>1, <1>5, <1>7, <2>1, OneTgCommand
<1>9. TagSetEffect(i, t, v)
  <2>1. UNCHANGED <<streams, wire, acks, node_subs, view, uses>>
    BY <1>1, <1>8
  <2>2. Push(OneFor(tgs[i].subs, TagSet(i, t, v)))
    BY <1>6, <1>7
  <2> QED BY <1>3, <1>4, <1>5, <2>1, <2>2, Zenon DEF TagSetEffect
<1> QED BY <1>8, <1>9

(* vs_handle_taggroup_subscribe: what is sent of tag t, and of all tags.   *)
NewTag(c, i, t) == tgs[i].tags[t].state \in {CREATING, CREATED} /\ tgs[i].tags[t].folls[c] = NONE

TgSubscribeOut(c, i) ==
  LET tg   == tgs[i]
      new  == {t \in TagIds : Untold(tg.tags[t], {c}) # {}}
      set  == {t \in TagIds : tg.tags[t].value # UNSET}
      Sent(t) == (IF t \in new THEN <<TagCreate(i, t)>> ELSE <<>>) \o
                 (IF t \in set /\ c \in streams THEN <<TagSet(i, t, tg.tags[t].value)>>
                                                ELSE <<>>)
  IN [d \in Clients |->
        IF d = c THEN FlattenSeq([k \in 1 .. LastTagId + 1 |-> Sent(k - 1)]) ELSE <<>>]

TgSubscribeSends(out, c, i) ==
  /\ out \in [Clients -> Seq(Cmds)]
  /\ \A d \in Clients : d # c => ToSet(out[d]) = {}
  /\ \A t \in TagIds : TagCreate(i, t) \in ToSet(out[c]) <=> NewTag(c, i, t)
  /\ \A m \in ToSet(out[c]) :
       /\ m.tg = i /\ m.op \in {"TAG_CREATE", "TAG_SET"}
       /\ m.op = "TAG_SET" => c \in streams /\ m.value = tgs[i].tags[m.tag].value
  /\ \A d \in Clients : \A m : Once(out[d], m)

LEMMA TgSubscribeOutIs ==
  ASSUME ServerInv, NEW c \in Clients, NEW i \in TgIds
  PROVE  TgSubscribeSends(TgSubscribeOut(c, i), c, i)
<1> DEFINE new == {t \in TagIds : Untold(tgs[i].tags[t], {c}) # {}}
           set == {t \in TagIds : tgs[i].tags[t].value # UNSET}
           p(t) == IF t \in new THEN <<TagCreate(i, t)>> ELSE <<>>
           q(t) == IF t \in set /\ c \in streams THEN <<TagSet(i, t, tgs[i].tags[t].value)>>
                                                 ELSE <<>>
           n == LastTagId + 1
           s == [k \in 1 .. n |-> p(k - 1) \o q(k - 1)]
<1>1. TgSubscribeOut(c, i) = [d \in Clients |-> IF d = c THEN FlattenSeq(s) ELSE <<>>]
  BY DEF TgSubscribeOut
<1>2. /\ \A t \in TagIds : t \in new <=> NewTag(c, i, t)
      /\ \A t \in TagIds : t \in set => tgs[i].tags[t].value \in Values
  <2>1. \A t \in TagIds : tgs[i].tags[t].value \in Values \union {UNSET}
    BY DEF ServerInv, TypeOK, TgType, TagType
  <2> QED BY <2>1 DEF Untold, NewTag
<1> HIDE DEF new, set
<1>3. n \in Nat /\ n # 0 /\ \A k \in 1 .. n : k - 1 \in TagIds
  BY TagGroupsAssumption DEF TagIds
<1>4. ASSUME NEW t \in TagIds
      PROVE  /\ p(t) \in Seq(Cmds) /\ ToSet(p(t)) = IF t \in new THEN {TagCreate(i, t)} ELSE {}
             /\ \A m : Once(p(t), m)
  <2>1. TagCreate(i, t) \in Cmds
    BY CmdsHold
  <2> QED BY <2>1 DEF ToSet, Once
<1>5. ASSUME NEW t \in TagIds
      PROVE  /\ q(t) \in Seq(Cmds)
             /\ ToSet(q(t)) = IF t \in set /\ c \in streams THEN {TagSet(i, t, tgs[i].tags[t].value)} ELSE {}
             /\ \A m : Once(q(t), m)
  <2>1. t \in set => TagSet(i, t, tgs[i].tags[t].value) \in Cmds
    BY <1>2, CmdsHold
  <2> QED BY <2>1 DEF ToSet, Once
<1> HIDE DEF p, q
<1>6. ASSUME NEW k \in 1 .. n
      PROVE  /\ s[k] \in Seq(Cmds)
             /\ TagCreate(i, k - 1) \in ToSet(s[k]) <=> NewTag(c, i, k - 1)
             /\ \A m \in ToSet(s[k]) :
                  /\ m.tg = i /\ m.tag = k - 1 /\ m.op \in {"TAG_CREATE", "TAG_SET"}
                  /\ m.op = "TAG_SET" => c \in streams /\ m.value = tgs[i].tags[m.tag].value
             /\ \A m : Once(s[k], m)
  <2>1. PICK t : t = k - 1
    OBVIOUS
  <2>2. t \in TagIds /\ s[k] = p(t) \o q(t)
    BY <1>3, <2>1
  <2>3. /\ p(t) \in Seq(Cmds) /\ ToSet(p(t)) = (IF t \in new THEN {TagCreate(i, t)} ELSE {})
        /\ \A m : Once(p(t), m)
    BY <1>4, <2>2
  <2>4. /\ q(t) \in Seq(Cmds) /\ \A m : Once(q(t), m)
        /\ ToSet(q(t)) = IF t \in set /\ c \in streams THEN {TagSet(i, t, tgs[i].tags[t].value)} ELSE {}
    BY <1>5, <2>2
  <2> HIDE DEF s
  <2>5. s[k] \in Seq(Cmds) /\ ToSet(s[k]) = ToSet(p(t)) \union ToSet(q(t))
    BY <2>2, <2>3, <2>4, ConcatElements
  <2>6. \A m \in ToSet(p(t)) : m.tg = i /\ m.tag = t /\ m.op = "TAG_CREATE"
    BY <2>3, CmdFields
  <2>7. \A m \in ToSet(q(t)) : /\ m.tg = i /\ m.tag = t /\ m.op = "TAG_SET" /\ c \in streams
                               /\ m.value = tgs[i].tags[m.tag].value
    BY <2>4, CmdFields
  <2>8. TagCreate(i, t) \in ToSet(s[k]) <=> NewTag(c, i, t)
    BY <1>2, <2>2, <2>3, <2>5, <2>7, CmdFields
  <2>9. ASSUME NEW m PROVE Once(s[k], m)
    <3>1. ~(m \in ToSet(p(t)) /\ m \in ToSet(q(t)))
      BY <2>6, <2>7
    <3> QED BY <2>2, <2>3, <2>4, <3>1, ConcatOnce
  <2> QED BY <2>1, <2>5, <2>6, <2>7, <2>8, <2>9
<1>7. s \in [1 .. n -> Seq(Cmds)]
  BY <1>6
<1> HIDE DEF s, n
<1>8. /\ FlattenSeq(s) \in Seq(Cmds)
      /\ ToSet(FlattenSeq(s)) = UNION {ToSet(s[k]) : k \in 1 .. n}
      /\ \A m : /\ \A k \in 1 .. n : Once(s[k], m)
                /\ \A j, k \in 1 .. n : m \in ToSet(s[j]) /\ m \in ToSet(s[k]) => j = k
                => Once(FlattenSeq(s), m)
  BY SMTT(60), <1>3, <1>7, FlattenElements
<1>9. ASSUME NEW t \in TagIds
      PROVE  TagCreate(i, t) \in ToSet(FlattenSeq(s)) <=> NewTag(c, i, t)
  <2>1. t + 1 \in 1 .. n /\ (t + 1) - 1 = t
    BY TagGroupsAssumption DEF TagIds, n
  <2>2. TagCreate(i, t) \in ToSet(s[t + 1]) <=> NewTag(c, i, t)
    BY <1>6, <2>1
  <2>3. ASSUME NEW k \in 1 .. n, TagCreate(i, t) \in ToSet(s[k]) PROVE k = t + 1
    <3>0. \A m \in ToSet(s[k]) : m.tag = k - 1
      BY <1>6
    <3>1. t = k - 1 /\ k \in Int
      BY <2>3, <3>0, CmdFields
    <3>2. t \in Int
      BY TagGroupsAssumption DEF TagIds
    <3> QED BY <3>1, <3>2
  <2> QED BY <1>8, <2>1, <2>2, <2>3
<1>10. \A m \in ToSet(FlattenSeq(s)) :
         /\ m.tg = i /\ m.op \in {"TAG_CREATE", "TAG_SET"}
         /\ m.op = "TAG_SET" => c \in streams /\ m.value = tgs[i].tags[m.tag].value
  BY <1>6, <1>8
<1>11. ASSUME NEW m PROVE Once(FlattenSeq(s), m)
  <2>1. ASSUME NEW j \in 1 .. n, NEW k \in 1 .. n, m \in ToSet(s[j]), m \in ToSet(s[k])
        PROVE  j = k
    <3>0. m.tag = k - 1 /\ m.tag = j - 1
      BY <1>6, <2>1
    <3>1. j - 1 = k - 1 /\ j \in Int /\ k \in Int
      BY <3>0
    <3> QED BY <3>1
  <2> QED BY <1>6, <1>8, <2>1
<1>12. ToSet(<<>>) = {} /\ <<>> \in Seq(Cmds) /\ \A m : Once(<<>>, m)
  BY DEF ToSet, Once
<1>13. PICK out : out = TgSubscribeOut(c, i)
  OBVIOUS
<1>14. /\ out \in [Clients -> Seq(Cmds)] /\ out[c] = FlattenSeq(s)
       /\ \A d \in Clients : d # c => ToSet(out[d]) = {}
       /\ \A d \in Clients : \A m : Once(out[d], m)
  BY <1>1, <1>8, <1>11, <1>12, <1>13
<1> QED BY <1>9, <1>10, <1>13, <1>14 DEF TgSubscribeSends

TgSubscribeEffect(c, i) ==
  /\ i \in view[c].tgs /\ c \notin tgs[i].subs /\ c \in node_subs /\ tgs[i].state # NONE
  /\ Push(TgSubscribeOut(c, i))
  /\ UNCHANGED <<streams, wire, acks, node_subs, view, uses>>
  /\ \A j \in TgIds \ {i} : tgs'[j] = tgs[j]
  /\ tgs'[i].state = tgs[i].state /\ tgs'[i].folls = tgs[i].folls
  /\ tgs'[i].subs = tgs[i].subs \union {c}
  /\ \A t \in TagIds :
       /\ tgs'[i].tags[t].value = tgs[i].tags[t].value
       /\ \A d \in Clients : tgs'[i].tags[t].folls[d] =
            IF d = c /\ NewTag(c, i, t) THEN CREATING ELSE tgs[i].tags[t].folls[d]

LEMMA HandleTaggroupSubscribeStep ==
  ASSUME ServerInv, NEW c \in Clients, NEW i \in TgIds, HandleTaggroupSubscribe(c, i)
  PROVE  ServerInv' /\ TgSubscribeEffect(c, i)
<1>1. /\ Command(c) /\ i \in view[c].tgs /\ c \in node_subs /\ c \notin tgs[i].subs
      /\ tgs[i].state # NONE
      /\ tgs' = [tgs EXCEPT ![i].subs = @ \union {c},
                            ![i].tags = [t \in TagIds |-> vs_tag_send_create(@[t], {c})]]
      /\ Push(TgSubscribeOut(c, i))
      /\ UNCHANGED <<last_tg_id, uses, node_subs, view>>
  BY DEF HandleTaggroupSubscribe, TgSubscribeOut
<1>2. /\ view \in [Clients -> ViewType] /\ last_tg_id \in TgIds /\ uses \in [TgIds -> 0 .. 2]
      /\ TgSound(tgs[i], node_subs) /\ tgs \in [TgIds -> TgType]
  BY <1>1, CommandTypes DEF ServerInv
<1>3. PICK X, g, N : X = Subscribed(g, c) /\ g = tgs[i] /\ N = node_subs
  OBVIOUS
<1>4. tgs' = [tgs EXCEPT ![i] = X]
  BY <1>1, <1>2, <1>3 DEF Subscribed
<1>5. /\ TgSound(X, N)
      /\ X.state = g.state /\ X.folls = g.folls /\ X.subs = g.subs \union {c}
      /\ TagsTold(X, g, c)
  <2>1. TgSound(g, N) /\ c \in N
    BY <1>1, <1>2, <1>3
  <2> QED BY <1>3, <2>1, TgSubscribed
<1>6. \A t \in TagIds, d \in Clients : d \in Untold(g.tags[t], {c}) <=> d = c /\ NewTag(c, i, t)
  BY <1>3 DEF Untold, NewTag
<1>7. PICK out : out = TgSubscribeOut(c, i) /\ out \in [Clients -> Seq(Cmds)] /\ Push(out)
  BY <1>1, TgSubscribeOutIs DEF TgSubscribeSends
<1>8. /\ ServerInv' /\ UNCHANGED <<streams, wire, acks, node_subs>>
      /\ \A j \in TgIds : tgs'[j] = IF j = i THEN X ELSE tgs[j]
  <2>1. /\ uses' \in [TgIds -> 0 .. 2] /\ view' \in [Clients -> ViewType]
        /\ last_tg_id' \in TgIds /\ UNCHANGED node_subs /\ Command(c) /\ TgSound(X, node_subs)
    BY <1>1, <1>2, <1>3, <1>5
  <2> QED BY <1>4, <1>7, <2>1, OneTgCommand
<1>9. tgs'[i] = X /\ \A j \in TgIds \ {i} : tgs'[j] = tgs[j]
  BY <1>8
<1>10. TgSubscribeEffect(c, i)
  <2>1. UNCHANGED <<streams, wire, acks, node_subs, view, uses>>
    BY <1>1, <1>8
  <2>2. /\ tgs'[i].state = tgs[i].state /\ tgs'[i].folls = tgs[i].folls
        /\ tgs'[i].subs = tgs[i].subs \union {c}
    BY <1>3, <1>5, <1>9
  <2>3. \A t \in TagIds :
          /\ tgs'[i].tags[t].value = tgs[i].tags[t].value
          /\ \A d \in Clients : tgs'[i].tags[t].folls[d] =
               IF d = c /\ NewTag(c, i, t) THEN CREATING ELSE tgs[i].tags[t].folls[d]
    <3> SUFFICES ASSUME NEW t \in TagIds, NEW d \in Clients
                 PROVE  /\ X.tags[t].value = g.tags[t].value
                        /\ X.tags[t].folls[d] =
                             IF d = c /\ NewTag(c, i, t) THEN CREATING ELSE g.tags[t].folls[d]
      BY <1>3, <1>9
    <3>1. /\ X.tags[t].value = g.tags[t].value
          /\ X.tags[t].folls[d] = IF d \in Untold(g.tags[t], {c}) THEN CREATING ELSE g.tags[t].folls[d]
      BY <1>5 DEF TagsTold
    <3>2. d \in Untold(g.tags[t], {c}) <=> d = c /\ NewTag(c, i, t)
      BY <1>6
    <3> QED BY <3>1, <3>2
  <2>4. /\ i \in view[c].tgs /\ c \notin tgs[i].subs /\ c \in node_subs /\ tgs[i].state # NONE
        /\ Push(TgSubscribeOut(c, i))
    BY <1>1
  <2> QED BY <1>9, <2>1, <2>2, <2>3, <2>4, Zenon DEF TgSubscribeEffect
<1> QED BY <1>8, <1>10

(* vs_handle_taggroup_create_ack.                                          *)
TgCreateAckEffect(c, i) ==
  /\ AckEffect(c, TgCreateAck(i))
  /\ Push(OneFor(IF DestroyNow(tgs[i], c) THEN {c} ELSE {}, TgDestroy(i)))
  /\ \A j \in TgIds \ {i} : tgs'[j] = tgs[j]
  /\ tgs'[i].subs = tgs[i].subs /\ tgs'[i].tags = tgs[i].tags
  /\ tgs'[i].state = NONE <=> tgs[i].state = NONE
  /\ \A d \in Clients : tgs'[i].folls[d] =
       IF d # c \/ tgs[i].folls[c] = NONE THEN tgs[i].folls[d]
       ELSE IF tgs[i].state = DELETING THEN DELETING
       ELSE IF tgs[i].folls[c] = CREATING THEN CREATED ELSE tgs[i].folls[c]

LEMMA HandleTaggroupCreateAckStep ==
  ASSUME ServerInv, NEW c \in Clients, NEW m, HandleTaggroupCreateAck(c, m)
  PROVE  ServerInv' /\ m.tg \in TgIds /\ TgCreateAckEffect(c, m.tg)
<1>1. PICK i : i = m.tg
  OBVIOUS
<1>2. Acked(c, m) /\ m.op = "TAGGROUP_CREATE_ACK"
  BY DEF HandleTaggroupCreateAck
<1>3. m \in FakeCmds /\ tgs \in [TgIds -> TgType]
  BY <1>2, AckedTypes
<1>4. i \in TgIds /\ m = TgCreateAck(i)
  BY <1>1, <1>2, <1>3, FakeCmdCases
<1>5. TgSound(tgs[i], node_subs) /\ tgs[i].folls \in [Clients -> States]
  BY <1>3, <1>4 DEF ServerInv, TgType
<1> DEFINE own == IF tgs[i].folls[c] = CREATING THEN CREATED ELSE tgs[i].folls[c]
<1>6. PICK out : out = OneFor(IF DestroyNow(tgs[i], c) THEN {c} ELSE {}, TgDestroy(i))
  OBVIOUS
<1>7. out \in [Clients -> Seq(Cmds)]
  BY <1>4, <1>6, CmdsHold, OneForType
<1>8. PICK X : /\ TgSound(X, node_subs) /\ tgs' = [tgs EXCEPT ![i] = X] /\ Push(out)
               /\ X.subs = tgs[i].subs /\ X.tags = tgs[i].tags
               /\ X.state = NONE <=> tgs[i].state = NONE
               /\ \A d \in Clients : X.folls[d] =
                    IF d # c \/ tgs[i].folls[c] = NONE THEN tgs[i].folls[d]
                    ELSE IF tgs[i].state = DELETING THEN DELETING ELSE own
  <2>1. CASE tgs[i].state # NONE
    <3>1. /\ tgs' = [tgs EXCEPT ![i] = Acknowledged(tgs[i], c, own)]
          /\ Push(out)
      BY <1>1, <1>6, <2>1 DEF HandleTaggroupCreateAck, PushTo, OneFor
    <3>2. PICK X, o : X = Acknowledged(tgs[i], c, o) /\ o = own
      OBVIOUS
    <3>3. own \in States
      BY <1>5 DEF States
    <3>4. /\ TgSound(X, node_subs)
          /\ X.state \in {tgs[i].state, CREATED} /\ X.subs = tgs[i].subs /\ X.tags = tgs[i].tags
          /\ \A d \in Clients : X.folls[d] =
               IF d # c \/ tgs[i].folls[c] = NONE THEN tgs[i].folls[d]
               ELSE IF tgs[i].state = DELETING THEN DELETING ELSE o
      <4> HIDE DEF own
      <4> QED BY <1>5, <2>1, <3>2, <3>3, TgAcknowledged
    <3>5. X.state = NONE <=> tgs[i].state = NONE
      BY <2>1, <3>4 DEF NONE, CREATED
    <3> HIDE DEF own
    <3>6. tgs' = [tgs EXCEPT ![i] = X]
      BY <3>1, <3>2
    <3>7. \A d \in Clients : X.folls[d] =
               IF d # c \/ tgs[i].folls[c] = NONE THEN tgs[i].folls[d]
               ELSE IF tgs[i].state = DELETING THEN DELETING ELSE own
      BY <3>2, <3>4
    <3> WITNESS X
    <3> QED BY <3>1, <3>4, <3>5, <3>6, <3>7
  <2>2. CASE tgs[i].state = NONE
    <3>1. tgs' = tgs /\ PushNothing
      BY <1>1, <2>2 DEF HandleTaggroupCreateAck
    <3>2. tgs' = [tgs EXCEPT ![i] = tgs[i]]
      BY <1>3, <1>4, <3>1
    <3>3. tgs[i].folls[c] = NONE
      BY <1>5, <2>2 DEF TgSound
    <3>4. ~DestroyNow(tgs[i], c)
      BY <3>3 DEF DestroyNow
    <3>5. out = NoCmds
      BY <1>6, <3>4 DEF OneFor, NoCmds
    <3>6. Push(out)
      BY <3>1, <3>5, PushNoCmds DEF ServerInv
    <3> HIDE DEF own
    <3> QED BY <1>5, <3>2, <3>3, <3>6
  <2> QED BY <2>1, <2>2
<1>9. /\ ServerInv' /\ AckEffect(c, m)
      /\ \A j \in TgIds : tgs'[j] = IF j = i THEN X ELSE tgs[j]
  <2> HIDE DEF own
  <2>1. TgSound(X, node_subs) /\ tgs' = [tgs EXCEPT ![i] = X] /\ Acked(c, m) /\ Push(out)
    BY <1>2, <1>8
  <2> QED BY <1>4, <1>7, <2>1, OneTgAcked
<1>10. tgs'[i] = X /\ \A j \in TgIds \ {i} : tgs'[j] = tgs[j]
  BY <1>4, <1>9
<1>11. AckEffect(c, TgCreateAck(i))
  BY <1>4, <1>9
<1>12. TgCreateAckEffect(c, i)
  <2>1. Push(OneFor(IF DestroyNow(tgs[i], c) THEN {c} ELSE {}, TgDestroy(i)))
    BY <1>6, <1>8
  <2>2. /\ tgs'[i].subs = tgs[i].subs /\ tgs'[i].tags = tgs[i].tags
        /\ tgs'[i].state = NONE <=> tgs[i].state = NONE
    BY <1>8, <1>10
  <2>3. \A d \in Clients : tgs'[i].folls[d] =
          IF d # c \/ tgs[i].folls[c] = NONE THEN tgs[i].folls[d]
          ELSE IF tgs[i].state = DELETING THEN DELETING
          ELSE IF tgs[i].folls[c] = CREATING THEN CREATED ELSE tgs[i].folls[c]
    BY <1>8, <1>10
  <2> QED BY <1>10, <1>11, <2>1, <2>2, <2>3, Zenon DEF TgCreateAckEffect
<1> QED BY <1>1, <1>4, <1>9, <1>12

(* vs_handle_taggroup_destroy_ack.                                         *)
TgDestroyAckEffect(c, i) ==
  /\ AckEffect(c, TgDestroyAck(i))
  /\ Push(NoCmds)
  /\ \A j \in TgIds \ {i} : tgs'[j] = tgs[j]
  /\ \/ Followers(tgs[i]) \subseteq {c} /\ tgs'[i] = FreeTg
     \/ /\ tgs'[i].state = tgs[i].state /\ tgs'[i].subs = tgs[i].subs
        /\ tgs'[i].tags = tgs[i].tags
        /\ \A d \in Clients : tgs'[i].folls[d] = IF d = c THEN NONE ELSE tgs[i].folls[d]

LEMMA HandleTaggroupDestroyAckStep ==
  ASSUME ServerInv, NEW c \in Clients, NEW m, HandleTaggroupDestroyAck(c, m)
  PROVE  ServerInv' /\ m.tg \in TgIds /\ TgDestroyAckEffect(c, m.tg)
<1>1. PICK i : i = m.tg
  OBVIOUS
<1>2. /\ Acked(c, m) /\ m.op = "TAGGROUP_DESTROY_ACK" /\ PushNothing
      /\ tgs' = [tgs EXCEPT ![i] =
           IF tgs[i].state = NONE THEN tgs[i] ELSE vs_taggroup_destroyed(tgs[i], c)]
  BY <1>1 DEF HandleTaggroupDestroyAck
<1>3. m \in FakeCmds /\ tgs \in [TgIds -> TgType]
  BY <1>2, AckedTypes
<1>4. i \in TgIds /\ m = TgDestroyAck(i)
  BY <1>1, <1>2, <1>3, FakeCmdCases
<1>5. TgSound(tgs[i], node_subs)
  BY <1>4 DEF ServerInv
<1>6. Push(NoCmds) /\ NoCmds \in [Clients -> Seq(Cmds)]
  BY <1>2, PushNoCmds, NoCmdsType DEF ServerInv
<1>7. PICK X : /\ TgSound(X, node_subs) /\ tgs' = [tgs EXCEPT ![i] = X]
               /\ \/ Followers(tgs[i]) \subseteq {c} /\ X = FreeTg
                  \/ /\ X.state = tgs[i].state /\ X.subs = tgs[i].subs /\ X.tags = tgs[i].tags
                     /\ \A d \in Clients : X.folls[d] = IF d = c THEN NONE ELSE tgs[i].folls[d]
  <2>1. CASE tgs[i].state = NONE
    <3>1. tgs' = [tgs EXCEPT ![i] = tgs[i]]
      BY <1>2, <2>1
    <3>2. \A d \in Clients : tgs[i].folls[d] = IF d = c THEN NONE ELSE tgs[i].folls[d]
      BY <1>5, <2>1 DEF TgSound
    <3> QED BY <1>5, <3>1, <3>2
  <2>2. CASE tgs[i].state # NONE /\ Followers(tgs[i]) \subseteq {c}
    <3>1. tgs' = [tgs EXCEPT ![i] = FreeTg]
      BY <1>2, <2>2 DEF vs_taggroup_destroyed
    <3> QED BY <2>2, <3>1, FreeTypes
  <2>3. CASE tgs[i].state # NONE /\ ~(Followers(tgs[i]) \subseteq {c})
    <3>1. PICK X : X = Forgotten(tgs[i], c)
      OBVIOUS
    <3>2. tgs' = [tgs EXCEPT ![i] = X]
      BY <1>2, <2>3, <3>1 DEF vs_taggroup_destroyed, Forgotten
    <3>3. /\ TgSound(X, node_subs)
          /\ X.state = tgs[i].state /\ X.subs = tgs[i].subs /\ X.tags = tgs[i].tags
          /\ \A d \in Clients : X.folls[d] = IF d = c THEN NONE ELSE tgs[i].folls[d]
      BY <1>5, <3>1, TgForgotten
    <3> QED BY <3>2, <3>3
  <2> QED BY <2>1, <2>2, <2>3
<1>8. /\ ServerInv' /\ AckEffect(c, m)
      /\ \A j \in TgIds : tgs'[j] = IF j = i THEN X ELSE tgs[j]
  <2>1. TgSound(X, node_subs) /\ tgs' = [tgs EXCEPT ![i] = X] /\ Acked(c, m)
    BY <1>2, <1>7
  <2>2. PICK out : out = NoCmds
    OBVIOUS
  <2> QED BY <1>4, <1>6, <2>1, <2>2, OneTgAcked
<1>9. tgs'[i] = X /\ \A j \in TgIds \ {i} : tgs'[j] = tgs[j]
  BY <1>4, <1>8
<1>10. AckEffect(c, TgDestroyAck(i))
  BY <1>4, <1>8
<1>11. TgDestroyAckEffect(c, i)
  BY <1>6, <1>7, <1>9, <1>10 DEF TgDestroyAckEffect
<1> QED BY <1>1, <1>4, <1>8, <1>11

(* vs_handle_tag_create_ack: the value of the tag, and its end.            *)
TagAckOut(c, i, t) ==
  LET tag   == tgs[i].tags[t]
      value == IF ValueFor(tag, c) THEN <<TagSet(i, t, tag.value)>> ELSE <<>>
      end   == IF DestroyNow(tag, c) THEN <<TagDestroy(i, t)>> ELSE <<>>
  IN [d \in Clients |-> IF d = c THEN value \o end ELSE <<>>]

TagAckSends(out, c, i, t, tag) ==
  /\ out \in [Clients -> Seq(Cmds)]
  /\ \A d \in Clients : d # c => ToSet(out[d]) = {}
  /\ TagDestroy(i, t) \in ToSet(out[c]) <=> DestroyNow(tag, c)
  /\ \A m \in ToSet(out[c]) :
       \/ m = TagDestroy(i, t)
       \/ m = TagSet(i, t, tag.value) /\ tag.value \in Values
  /\ \A d \in Clients : \A m : Once(out[d], m)
  /\ ValueFor(tag, c) /\ ~DestroyNow(tag, c) => out[c] = <<TagSet(i, t, tag.value)>>
  /\ ~ValueFor(tag, c) /\ ~DestroyNow(tag, c) => out = NoCmds

LEMMA TagAckOutIs ==
  ASSUME ServerInv, NEW c \in Clients, NEW i \in TgIds, NEW t \in TagIds
  PROVE  TagAckSends(TagAckOut(c, i, t), c, i, t, tgs[i].tags[t])
<1>0. PICK tag : tag = tgs[i].tags[t]
  OBVIOUS
<1> DEFINE p == IF ValueFor(tag, c) THEN <<TagSet(i, t, tag.value)>> ELSE <<>>
           q == IF DestroyNow(tag, c) THEN <<TagDestroy(i, t)>> ELSE <<>>
<1>1. TagAckOut(c, i, t) = [d \in Clients |-> IF d = c THEN p \o q ELSE <<>>]
  BY <1>0 DEF TagAckOut
<1>2. tag.value \in Values \union {UNSET}
  BY <1>0 DEF ServerInv, TypeOK, TgType, TagType
<1>3. ValueFor(tag, c) => TagSet(i, t, tag.value) \in Cmds /\ tag.value \in Values
  BY <1>2, CmdsHold DEF ValueFor
<1>4. TagDestroy(i, t) \in Cmds
  BY CmdsHold
<1>5. /\ p \in Seq(Cmds) /\ ToSet(p) = IF ValueFor(tag, c) THEN {TagSet(i, t, tag.value)} ELSE {}
      /\ \A m : Once(p, m)
  BY <1>3 DEF ToSet, Once
<1>6. /\ q \in Seq(Cmds) /\ ToSet(q) = IF DestroyNow(tag, c) THEN {TagDestroy(i, t)} ELSE {}
      /\ \A m : Once(q, m)
  BY <1>4 DEF ToSet, Once
<1>7. /\ ValueFor(tag, c) /\ ~DestroyNow(tag, c) => p \o q = <<TagSet(i, t, tag.value)>>
      /\ ~ValueFor(tag, c) /\ ~DestroyNow(tag, c) => p \o q = <<>>
  <2>1. \A x : <<x>> \o <<>> = <<x>> /\ <<>> \o <<>> = <<>>
    OBVIOUS
  <2> QED BY <2>1
<1> HIDE DEF p, q
<1>8. p \o q \in Seq(Cmds) /\ ToSet(p \o q) = ToSet(p) \union ToSet(q)
  BY <1>5, <1>6, ConcatElements
<1>9. ASSUME NEW m PROVE Once(p \o q, m)
  <2>1. ~(m \in ToSet(p) /\ m \in ToSet(q))
    BY <1>5, <1>6, CmdFields
  <2> QED BY <1>5, <1>6, <2>1, ConcatOnce
<1>10. TagDestroy(i, t) \in ToSet(p \o q) <=> DestroyNow(tag, c)
  <2>1. TagDestroy(i, t) \notin ToSet(p)
    BY <1>5, CmdFields
  <2> QED BY <1>6, <1>8, <2>1
<1>11. \A m \in ToSet(p \o q) : \/ m = TagDestroy(i, t)
                                \/ m = TagSet(i, t, tag.value) /\ tag.value \in Values
  BY <1>3, <1>5, <1>6, <1>8
<1>12. ToSet(<<>>) = {} /\ <<>> \in Seq(Cmds) /\ \A m : Once(<<>>, m)
  BY DEF ToSet, Once
<1>13. p \o q = <<>> => TagAckOut(c, i, t) = NoCmds
  BY <1>1 DEF NoCmds
<1>14. /\ TagAckOut(c, i, t) \in [Clients -> Seq(Cmds)] /\ TagAckOut(c, i, t)[c] = p \o q
       /\ \A d \in Clients : d # c => ToSet(TagAckOut(c, i, t)[d]) = {}
       /\ \A d \in Clients : \A m : Once(TagAckOut(c, i, t)[d], m)
  BY <1>1, <1>8, <1>9, <1>12
<1> QED BY <1>0, <1>7, <1>10, <1>11, <1>13, <1>14 DEF TagAckSends

TagCreateAckEffect(c, i, t) ==
  /\ AckEffect(c, TagCreateAck(i, t))
  /\ Push(TagAckOut(c, i, t))
  /\ \E T : /\ TagChange(i, t, T) /\ T.value = tgs[i].tags[t].value
            /\ \A d \in Clients : T.folls[d] =
                 IF d # c \/ tgs[i].tags[t].folls[c] = NONE THEN tgs[i].tags[t].folls[d]
                 ELSE IF tgs[i].tags[t].state = DELETING THEN DELETING ELSE CREATED

LEMMA HandleTagCreateAckStep ==
  ASSUME ServerInv, NEW c \in Clients, NEW m, HandleTagCreateAck(c, m)
  PROVE  ServerInv' /\ m.tg \in TgIds /\ m.tag \in TagIds /\ TagCreateAckEffect(c, m.tg, m.tag)
<1>1. PICK i, t, tag : i = m.tg /\ t = m.tag /\ tag = tgs[i].tags[t]
  OBVIOUS
<1>2. Acked(c, m) /\ m.op = "TAG_CREATE_ACK"
  BY DEF HandleTagCreateAck
<1>3. m \in FakeCmds /\ tgs \in [TgIds -> TgType]
  BY <1>2, AckedTypes
<1>4. i \in TgIds /\ t \in TagIds /\ m = TagCreateAck(i, t)
  BY <1>1, <1>2, <1>3, FakeCmdCases
<1>5. TagSound(tag, tgs[i].subs)
  BY <1>1, <1>4 DEF ServerInv, TgSound
<1>6. PICK out : out = TagAckOut(c, i, t)
  OBVIOUS
<1>7. TagAckSends(out, c, i, t, tag) /\ out \in [Clients -> Seq(Cmds)]
  <2>1. TagAckSends(out, c, i, t, tag)
    BY <1>1, <1>4, <1>6, TagAckOutIs
  <2> QED BY <2>1 DEF TagAckSends
<1>8. PICK T : /\ TagSound(T, tgs[i].subs) /\ tgs' = [tgs EXCEPT ![i].tags[t] = T] /\ Push(out)
               /\ T.value = tag.value
               /\ \A d \in Clients : T.folls[d] =
                    IF d # c \/ tag.folls[c] = NONE THEN tag.folls[d]
                    ELSE IF tag.state = DELETING THEN DELETING ELSE CREATED
  <2>1. CASE tag.state # NONE
    <3>1. PICK T : T = Acknowledged(tag, c, CREATED)
      OBVIOUS
    <3>2. tgs' = [tgs EXCEPT ![i].tags[t] = T] /\ Push(out)
      BY <1>1, <1>6, <2>1, <3>1 DEF HandleTagCreateAck, TagAckOut
    <3>3. CREATED \in States
      BY DEF States
    <3>4. /\ TagSound(T, tgs[i].subs) /\ T.value = tag.value
          /\ \A d \in Clients : T.folls[d] =
               IF d # c \/ tag.folls[c] = NONE THEN tag.folls[d]
               ELSE IF tag.state = DELETING THEN DELETING ELSE CREATED
      BY <1>5, <2>1, <3>1, <3>3, TagAcknowledged
    <3> WITNESS T
    <3> QED BY <3>2, <3>4
  <2>2. CASE tag.state = NONE
    <3>1. tgs' = tgs /\ PushNothing
      BY <1>1, <2>2 DEF HandleTagCreateAck
    <3>2. tgs' = [tgs EXCEPT ![i].tags[t] = tag]
      BY <1>1, <1>3, <1>4, <3>1 DEF TgType
    <3>3. \A d \in Clients : tag.folls[d] = NONE
      BY <1>5, <2>2 DEF TagSound
    <3>4. ~ValueFor(tag, c) /\ ~DestroyNow(tag, c)
      BY <3>3 DEF ValueFor, DestroyNow
    <3>5. out = NoCmds
      BY <1>7, <3>4 DEF TagAckSends
    <3>6. Push(out)
      BY <3>1, <3>5, PushNoCmds DEF ServerInv
    <3> WITNESS tag
    <3> QED BY <1>5, <3>2, <3>3, <3>6
  <2> QED BY <2>1, <2>2
<1>9. PICK X : /\ TgSound(X, node_subs) /\ tgs' = [tgs EXCEPT ![i] = X]
               /\ TagChange(i, t, T)
  <2>1. TagAssigned(i, t, T, t)
    BY <1>8 DEF TagAssigned
  <2>2. TagSound(T, tgs[i].subs)
    BY <1>8
  <2> QED BY <1>4, <2>1, <2>2, OneTag
<1>10. ServerInv' /\ AckEffect(c, m)
  <2>1. Push(out)
    BY <1>8
  <2> QED BY <1>2, <1>4, <1>7, <1>9, <2>1, OneTgAcked
<1>11. TagCreateAckEffect(c, i, t)
  <2>1. AckEffect(c, TagCreateAck(i, t)) /\ Push(TagAckOut(c, i, t))
    BY <1>4, <1>6, <1>8, <1>10
  <2>2. /\ TagChange(i, t, T) /\ T.value = tgs[i].tags[t].value
        /\ \A d \in Clients : T.folls[d] =
                 IF d # c \/ tgs[i].tags[t].folls[c] = NONE THEN tgs[i].tags[t].folls[d]
                 ELSE IF tgs[i].tags[t].state = DELETING THEN DELETING ELSE CREATED
    BY <1>1, <1>8, <1>9
  <2> QED BY <2>1, <2>2, Zenon DEF TagCreateAckEffect
<1> QED BY <1>1, <1>4, <1>10, <1>11

(* vs_handle_tag_destroy_ack.                                              *)
TagDestroyAckEffect(c, i, t) ==
  /\ AckEffect(c, TagDestroyAck(i, t))
  /\ Push(NoCmds)
  /\ \E T : /\ TagChange(i, t, T)
            /\ T.value \in {UNSET, tgs[i].tags[t].value}
            /\ \A d \in Clients : T.folls[d] = IF d = c THEN NONE ELSE tgs[i].tags[t].folls[d]

LEMMA HandleTagDestroyAckStep ==
  ASSUME ServerInv, NEW c \in Clients, NEW m, HandleTagDestroyAck(c, m)
  PROVE  ServerInv' /\ m.tg \in TgIds /\ m.tag \in TagIds /\ TagDestroyAckEffect(c, m.tg, m.tag)
<1>1. PICK i, t, tag : i = m.tg /\ t = m.tag /\ tag = tgs[i].tags[t]
  OBVIOUS
<1>2. /\ Acked(c, m) /\ m.op = "TAG_DESTROY_ACK" /\ PushNothing
      /\ tgs' = [tgs EXCEPT ![i].tags[t] =
           IF tag.state = NONE \/ Followers(tag) \subseteq {c} THEN FreeTag ELSE Forgotten(tag, c)]
  BY <1>1 DEF HandleTagDestroyAck, Forgotten
<1>3. m \in FakeCmds
  BY <1>2, AckedTypes
<1>4. i \in TgIds /\ t \in TagIds /\ m = TagDestroyAck(i, t)
  BY <1>1, <1>2, <1>3, FakeCmdCases
<1>5. TagSound(tag, tgs[i].subs)
  BY <1>1, <1>4 DEF ServerInv, TgSound
<1>6. Push(NoCmds) /\ NoCmds \in [Clients -> Seq(Cmds)]
  BY <1>2, PushNoCmds, NoCmdsType DEF ServerInv
<1>7. PICK T : /\ TagSound(T, tgs[i].subs) /\ tgs' = [tgs EXCEPT ![i].tags[t] = T]
               /\ T.value \in {UNSET, tag.value}
               /\ \A d \in Clients : T.folls[d] = IF d = c THEN NONE ELSE tag.folls[d]
  <2>1. CASE tag.state = NONE \/ Followers(tag) \subseteq {c}
    <3>1. tgs' = [tgs EXCEPT ![i].tags[t] = FreeTag]
      BY <1>2, <2>1
    <3>2. \A d \in Clients : d # c => tag.folls[d] = NONE
      BY <1>5, <2>1 DEF TagSound, Followers
    <3>3. FreeTag.value = UNSET /\ \A d \in Clients : FreeTag.folls[d] = NONE
      BY DEF FreeTag, NoFolls
    <3>4. TagSound(FreeTag, tgs[i].subs)
      BY FreeTypes
    <3> WITNESS FreeTag
    <3> QED BY <3>1, <3>2, <3>3, <3>4
  <2>2. CASE ~(tag.state = NONE \/ Followers(tag) \subseteq {c})
    <3>1. PICK T : T = Forgotten(tag, c)
      OBVIOUS
    <3>2. tgs' = [tgs EXCEPT ![i].tags[t] = T]
      BY <1>2, <2>2, <3>1
    <3>3. /\ TagSound(T, tgs[i].subs) /\ T.value = tag.value
          /\ \A d \in Clients : T.folls[d] = IF d = c THEN NONE ELSE tag.folls[d]
      <4>1. TagSound(T, tgs[i].subs) /\ NoLonger(T, tag, c)
        BY <1>5, <3>1, TagForgotten
      <4> QED BY <4>1 DEF NoLonger
    <3> WITNESS T
    <3> QED BY <3>2, <3>3
  <2> QED BY <2>1, <2>2
<1>8. PICK X : /\ TgSound(X, node_subs) /\ tgs' = [tgs EXCEPT ![i] = X]
               /\ TagChange(i, t, T)
  <2>1. TagAssigned(i, t, T, t)
    BY <1>7 DEF TagAssigned
  <2>2. TagSound(T, tgs[i].subs)
    BY <1>7
  <2> QED BY <1>4, <2>1, <2>2, OneTag
<1>9. ServerInv' /\ AckEffect(c, m)
  <2>1. PICK out : out = NoCmds
    OBVIOUS
  <2> QED BY <1>2, <1>4, <1>6, <1>8, <2>1, OneTgAcked
<1>10. TagDestroyAckEffect(c, i, t)
  <2>1. AckEffect(c, TagDestroyAck(i, t)) /\ Push(NoCmds)
    BY <1>4, <1>6, <1>9
  <2>2. /\ TagChange(i, t, T) /\ T.value \in {UNSET, tgs[i].tags[t].value}
        /\ \A d \in Clients : T.folls[d] = IF d = c THEN NONE ELSE tgs[i].tags[t].folls[d]
    BY <1>1, <1>7, <1>8
  <2> QED BY <2>1, <2>2, Zenon DEF TagDestroyAckEffect
<1> QED BY <1>1, <1>4, <1>9, <1>10

-----------------------------------------------------------------------------
(* What the network and the connections do.                                *)

(* A datagram with command m arrives at client c.                          *)
DatagramEffect(c, m) ==
  /\ m \in net[c] /\ m \in Cmds /\ c \notin streams
  /\ UNCHANGED <<tgs, uses, node_subs, streams, out_queue, wire>>
  /\ \A d \in Clients :
       /\ net'[d] = IF d = c THEN net[c] \ {m} ELSE net[d]
       /\ acks'[d] = IF d = c THEN acks[c] \union v_cmd_fake_ack(m) ELSE acks[d]
       /\ view'[d] = IF d = c THEN Learned(view[c], m) ELSE view[d]

(* The stream of client c sends m, the head of its queue.                  *)
SendEffect(c, m) ==
  /\ out_queue[c] # <<>> /\ m = Head(out_queue[c]) /\ m \in Cmds /\ c \in streams
  /\ UNCHANGED <<tgs, uses, node_subs, streams, net, view>>
  /\ \A d \in Clients :
       /\ out_queue'[d] = IF d = c THEN Tail(out_queue[c]) ELSE out_queue[d]
       /\ wire'[d] = IF d = c THEN Append(wire[c], m) ELSE wire[d]
       /\ acks'[d] = IF d = c THEN acks[c] \union v_cmd_fake_ack(m) ELSE acks[d]

(* Command m arrives at client c over its stream.                          *)
StreamEffect(c, m) ==
  /\ wire[c] # <<>> /\ m = Head(wire[c]) /\ m \in Cmds /\ c \in streams
  /\ UNCHANGED <<tgs, uses, node_subs, streams, net, out_queue, acks>>
  /\ \A d \in Clients :
       /\ wire'[d] = IF d = c THEN Tail(wire[c]) ELSE wire[d]
       /\ view'[d] = IF d = c THEN Learned(view[c], m) ELSE view[d]

LEMMA DeliverDatagramStep ==
  ASSUME ServerInv, NEW c \in Clients, NEW m \in net[c], DeliverDatagram(c, m)
  PROVE  ServerInv' /\ DatagramEffect(c, m)
<1>1. /\ net \in [Clients -> SUBSET Cmds] /\ acks \in [Clients -> SUBSET FakeCmds]
      /\ view \in [Clients -> ViewType] /\ m \in Cmds
  BY DEF ServerInv, TypeOK, ViewType
<1>2. v_cmd_fake_ack(m) \subseteq FakeCmds
  BY <1>1, FakeAcks
<1>3. PICK w : w = Learned(view[c], m)
  OBVIOUS
<1>4. view[c] \in ViewType
  BY <1>1
<1>5. w \in ViewType
  BY <1>1, <1>3, <1>4, LearnedFields
<1>6. /\ net' = [net EXCEPT ![c] = net[c] \ {m}]
      /\ acks' = [acks EXCEPT ![c] = acks[c] \union v_cmd_fake_ack(m)]
      /\ view' = [view EXCEPT ![c] = w]
      /\ UNCHANGED <<tgs, last_tg_id, uses, node_subs, streams, out_queue, wire, online, ops>>
  BY <1>3 DEF DeliverDatagram
<1>7. /\ net' \in [Clients -> SUBSET Cmds] /\ acks' \in [Clients -> SUBSET FakeCmds]
      /\ view' \in [Clients -> ViewType]
  BY <1>1, <1>2, <1>5, <1>6
<1>8. \A d \in Clients :
       /\ net'[d] = IF d = c THEN net[c] \ {m} ELSE net[d]
       /\ acks'[d] = IF d = c THEN acks[c] \union v_cmd_fake_ack(m) ELSE acks[d]
       /\ view'[d] = IF d = c THEN w ELSE view[d]
  BY <1>1, <1>6
<1>9. c \notin streams
  BY DEF ServerInv, Channels
<1>10. TypeOK'
  BY <1>6, <1>7 DEF ServerInv, TypeOK, ViewType
<1>11. Channels'
  BY <1>6, <1>8 DEF ServerInv, Channels
<1>12. ServerInv'
  BY <1>6, <1>10, <1>11 DEF ServerInv
<1> QED BY <1>1, <1>3, <1>6, <1>8, <1>9, <1>12 DEF DatagramEffect

LEMMA SendStreamStep ==
  ASSUME ServerInv, NEW c \in Clients, SendStream(c)
  PROVE  ServerInv' /\ SendEffect(c, Head(out_queue[c]))
<1>1. /\ out_queue \in [Clients -> Seq(Cmds)] /\ wire \in [Clients -> Seq(Cmds)]
      /\ acks \in [Clients -> SUBSET FakeCmds]
  BY DEF ServerInv, TypeOK
<1>2. PICK m, a : m = Head(out_queue[c]) /\ a = v_cmd_fake_ack(m)
  OBVIOUS
<1>3. out_queue[c] # <<>> /\ out_queue[c] \in Seq(Cmds) /\ wire[c] \in Seq(Cmds)
  BY <1>1 DEF SendStream
<1>4. m \in Cmds /\ Tail(out_queue[c]) \in Seq(Cmds)
  BY <1>2, <1>3, TailElements
<1>5. a \subseteq FakeCmds
  BY <1>2, <1>4, FakeAcks
<1>6. Append(wire[c], m) \in Seq(Cmds)
  BY <1>3, <1>4
<1>7. /\ wire' = [wire EXCEPT ![c] = Append(wire[c], m)]
      /\ acks' = [acks EXCEPT ![c] = acks[c] \union a]
      /\ out_queue' = [out_queue EXCEPT ![c] = Tail(out_queue[c])]
      /\ UNCHANGED <<tgs, last_tg_id, uses, node_subs, streams, net, view, online, ops>>
  BY <1>2 DEF SendStream
<1>8. /\ wire' \in [Clients -> Seq(Cmds)] /\ acks' \in [Clients -> SUBSET FakeCmds]
      /\ out_queue' \in [Clients -> Seq(Cmds)]
  BY <1>1, <1>4, <1>5, <1>6, <1>7
<1>9. \A d \in Clients :
       /\ out_queue'[d] = IF d = c THEN Tail(out_queue[c]) ELSE out_queue[d]
       /\ wire'[d] = IF d = c THEN Append(wire[c], m) ELSE wire[d]
       /\ acks'[d] = IF d = c THEN acks[c] \union a ELSE acks[d]
  BY <1>1, <1>7
<1>10. c \in streams
  BY <1>3 DEF ServerInv, Channels
<1>11. TypeOK'
  BY <1>7, <1>8 DEF ServerInv, TypeOK
<1>12. Channels'
  BY <1>7, <1>9, <1>10 DEF ServerInv, Channels
<1>13. ServerInv'
  BY <1>7, <1>11, <1>12 DEF ServerInv
<1>14. SendEffect(c, m)
  BY <1>2, <1>3, <1>4, <1>7, <1>9, <1>10 DEF SendEffect
<1> QED BY <1>2, <1>13, <1>14

LEMMA DeliverStreamStep ==
  ASSUME ServerInv, NEW c \in Clients, DeliverStream(c)
  PROVE  ServerInv' /\ StreamEffect(c, Head(wire[c]))
<1>1. wire \in [Clients -> Seq(Cmds)] /\ view \in [Clients -> ViewType]
  BY DEF ServerInv, TypeOK, ViewType
<1>2. PICK m, w : m = Head(wire[c]) /\ w = Learned(view[c], m)
  OBVIOUS
<1>3. wire[c] # <<>> /\ wire[c] \in Seq(Cmds) /\ view[c] \in ViewType
  BY <1>1 DEF DeliverStream
<1>4. m \in Cmds /\ Tail(wire[c]) \in Seq(Cmds)
  BY <1>2, <1>3, TailElements
<1>5. w \in ViewType
  BY <1>2, <1>3, <1>4, LearnedFields
<1>6. /\ wire' = [wire EXCEPT ![c] = Tail(wire[c])]
      /\ view' = [view EXCEPT ![c] = w]
      /\ UNCHANGED <<tgs, last_tg_id, uses, node_subs, streams, net, out_queue, acks, online, ops>>
  BY <1>2 DEF DeliverStream
<1>7. wire' \in [Clients -> Seq(Cmds)] /\ view' \in [Clients -> ViewType]
  BY <1>1, <1>4, <1>5, <1>6
<1>8. \A d \in Clients :
       /\ wire'[d] = IF d = c THEN Tail(wire[c]) ELSE wire[d]
       /\ view'[d] = IF d = c THEN w ELSE view[d]
  BY <1>1, <1>6
<1>9. c \in streams
  BY <1>3 DEF ServerInv, Channels
<1>10. TypeOK'
  BY <1>6, <1>7 DEF ServerInv, TypeOK, ViewType
<1>11. Channels'
  BY <1>6, <1>8, <1>9 DEF ServerInv, Channels
<1>12. ServerInv'
  BY <1>6, <1>10, <1>11 DEF ServerInv
<1>13. StreamEffect(c, m)
  BY <1>2, <1>3, <1>4, <1>6, <1>8, <1>9 DEF StreamEffect
<1> QED BY <1>2, <1>12, <1>13

-----------------------------------------------------------------------------
(* Every step is one of these.                                             *)
StepCases ==
  \/ \E c \in Clients :
       \/ /\ c \in Leavers /\ LeaveStep(c)
       \/ NodeSubscribe(c)
       \/ \E i \in TgIds :
            \/ c \in Leavers /\ TgUnsubscribeEffect(c, i)
            \/ TgSubscribeEffect(c, i)
            \/ TgCreateAckEffect(c, i) \/ TgDestroyAckEffect(c, i)
            \/ \E t \in TagIds : TagCreateAckEffect(c, i, t) \/ TagDestroyAckEffect(c, i, t)
       \/ \E m \in Cmds : DatagramEffect(c, m) \/ SendEffect(c, m) \/ StreamEffect(c, m)
  \/ \E i \in TgIds :
       \/ TgCreateEffect(i) \/ TgDestroyEffect(i)
       \/ \E t \in TagIds :
            \/ TagCreateEffect(i, t) \/ TagDestroyEffect(i, t)
            \/ \E v \in Values : TagSetEffect(i, t, v)
  \/ UNCHANGED vars

LEMMA EveryStep ==
  ASSUME ServerInv, [Next]_vars
  PROVE  ServerInv' /\ StepCases
<1>1. CASE UNCHANGED vars
  <2>1. ServerInv'
    BY <1>1 DEF ServerInv, TypeOK, Channels, vars
  <2> QED BY <1>1, <2>1 DEF StepCases
<1>2. ASSUME NEW c \in Clients, ClientCommand(c) PROVE ServerInv' /\ StepCases
  <2>1. CASE NodeSubscribe(c)
    BY <2>1, NodeSubscribeStep DEF StepCases
  <2>2. CASE NodeUnsubscribe(c)
    BY <2>2, NodeUnsubscribeStep DEF StepCases
  <2>3. ASSUME NEW type \in Types, HandleTaggroupCreate(c, type) PROVE ServerInv' /\ StepCases
    BY <2>3, HandleTaggroupCreateStep DEF StepCases
  <2>4. ASSUME NEW i \in TgIds, HandleTaggroupDestroy(c, i) PROVE ServerInv' /\ StepCases
    BY <2>4, HandleTaggroupDestroyStep DEF StepCases
  <2>5. ASSUME NEW i \in TgIds, HandleTaggroupSubscribe(c, i) PROVE ServerInv' /\ StepCases
    BY <2>5, HandleTaggroupSubscribeStep DEF StepCases
  <2>6. ASSUME NEW i \in TgIds, HandleTaggroupUnsubscribe(c, i) PROVE ServerInv' /\ StepCases
    BY <2>6, HandleTaggroupUnsubscribeStep DEF StepCases
  <2>7. ASSUME NEW i \in TgIds, NEW type \in Types, HandleTagCreate(c, i, type)
        PROVE  ServerInv' /\ StepCases
    BY <2>7, HandleTagCreateStep DEF StepCases
  <2>8. ASSUME NEW i \in TgIds, NEW t \in TagIds, HandleTagDestroy(c, i, t)
        PROVE  ServerInv' /\ StepCases
    BY <2>8, HandleTagDestroyStep DEF StepCases
  <2>9. ASSUME NEW i \in TgIds, NEW t \in TagIds, NEW v \in Values, HandleTagSet(c, i, t, v)
        PROVE  ServerInv' /\ StepCases
    BY <2>9, HandleTagSetStep DEF StepCases
  <2> QED BY <1>2, <2>1, <2>2, <2>3, <2>4, <2>5, <2>6, <2>7, <2>8, <2>9 DEF ClientCommand
<1>3. ASSUME NEW c \in Clients, Disconnect(c) PROVE ServerInv' /\ StepCases
  BY <1>3, DisconnectStep DEF StepCases
<1>4. ASSUME NEW c \in Clients, FakeCommand(c) PROVE ServerInv' /\ StepCases
  <2>1. PICK m \in acks[c] :
          \/ HandleTaggroupCreateAck(c, m) \/ HandleTaggroupDestroyAck(c, m)
          \/ HandleTagCreateAck(c, m) \/ HandleTagDestroyAck(c, m)
    BY <1>4 DEF FakeCommand
  <2>2. CASE HandleTaggroupCreateAck(c, m)
    BY <2>2, HandleTaggroupCreateAckStep DEF StepCases
  <2>3. CASE HandleTaggroupDestroyAck(c, m)
    BY <2>3, HandleTaggroupDestroyAckStep DEF StepCases
  <2>4. CASE HandleTagCreateAck(c, m)
    BY <2>4, HandleTagCreateAckStep DEF StepCases
  <2>5. CASE HandleTagDestroyAck(c, m)
    BY <2>5, HandleTagDestroyAckStep DEF StepCases
  <2> QED BY <2>1, <2>2, <2>3, <2>4, <2>5
<1>5. ASSUME NEW c \in Clients, Deliver(c) PROVE ServerInv' /\ StepCases
  <2>1. ASSUME NEW m \in net[c], DeliverDatagram(c, m) PROVE ServerInv' /\ StepCases
    <3>1. ServerInv' /\ DatagramEffect(c, m)
      BY <2>1, DeliverDatagramStep
    <3> QED BY <3>1 DEF StepCases, DatagramEffect
  <2>2. CASE SendStream(c)
    <3>1. PICK m : m = Head(out_queue[c])
      OBVIOUS
    <3>2. ServerInv' /\ SendEffect(c, m) /\ m \in Cmds
      BY <2>2, <3>1, SendStreamStep DEF SendEffect
    <3> QED BY <3>2 DEF StepCases
  <2>3. CASE DeliverStream(c)
    <3>1. PICK m : m = Head(wire[c])
      OBVIOUS
    <3>2. ServerInv' /\ StreamEffect(c, m) /\ m \in Cmds
      BY <2>3, <3>1, DeliverStreamStep DEF StreamEffect
    <3> QED BY <3>2 DEF StepCases
  <2> QED BY <1>5, <2>1, <2>2, <2>3 DEF Deliver
<1> QED BY <1>1, <1>2, <1>3, <1>4, <1>5 DEF Next

LEMMA InitServer == Init => ServerInv
<1> SUFFICES ASSUME Init PROVE ServerInv
  OBVIOUS
<1>1. FreeTg \in TgType /\ TgSound(FreeTg, node_subs)
  BY FreeTypes
<1>2. 0 \in TgIds /\ 0 \in 0 .. MaxOps /\ 0 \in 0 .. 2
  BY TagGroupsAssumption DEF TgIds
<1>3. EmptyView \in ViewType
  BY EmptyViewType
<1>4. TypeOK
  BY <1>1, <1>2, <1>3, TagGroupsAssumption DEF Init, TypeOK, ViewType
<1>5. Channels
  BY DEF Init, Channels
<1>6. \A i \in TgIds : TgSound(tgs[i], node_subs)
  BY <1>1 DEF Init
<1> QED BY <1>4, <1>5, <1>6 DEF ServerInv

LEMMA ServerAlways == Spec => []ServerInv
<1>1. ServerInv /\ [Next]_vars => ServerInv'
  BY EveryStep
<1> QED BY <1>1, InitServer, PTL DEF Spec

(* No pointer to a freed subscriber of the node is left over: for any      *)
(* clients, ids, types and values, in every order in which clients         *)
(* subscribe, unsubscribe, disconnect and acknowledge, the followers and   *)
(* subscribers that tag groups and tags keep (vs_taggroup_unsubscribe,     *)
(* vs_tg_free_avatar_reference) are subscribers of the node, and only      *)
(* subscribers of a tag group follow its tags.                             *)
THEOREM NodeSubsAlive == Spec => []PointersAlive
BY ServerAlways, ServerInvPointers, PTL

-----------------------------------------------------------------------------
(* What a client that stays and the server know of a tag group.            *)

TgPhase(c, i) ==
  Tracked(Held(c), out_queue[c], wire[c], acks[c], tgs[i].folls[c], TgCreate(i), TgDestroy(i),
          TgCreateAck(i), TgDestroyAck(i), i, view[c].tgs)

ReplicaInv ==
  /\ ServerInv
  /\ \A c \in Stayers, i \in TgIds : TgPhase(c, i)

(* Queueing commands out, as seen from one create or destroy command.      *)
LEMMA PushQueued ==
  ASSUME ServerInv, NEW out \in [Clients -> Seq(Cmds)], Push(out), NEW c \in Clients,
         NEW m, m.op # "TAG_SET", Once(out[c], m)
  PROVE  Queued(Held(c), Held(c)', out_queue[c], out_queue'[c], ToSet(out[c]), m)
<1>1. /\ \A x \in Held(c)' : x \in Held(c) \/ x \in ToSet(out[c])
      /\ \A x \in ToSet(out[c]) : x \in Held(c)'
      /\ \A x \in Held(c) : x.op # "TAG_SET" => x \in Held(c)'
      /\ /\ Once(out_queue[c], m) /\ Once(out[c], m)
         /\ ~(m \in Held(c) /\ m \in ToSet(out[c]))
         => Once(out_queue'[c], m)
  BY PushEffect DEF ServerInv
<1> QED BY <1>1 DEF Queued

(* A handler and what client c knows of tag group i.                       *)
TgTransition(c, i, out) ==
  /\ wire'[c] = wire[c] /\ view'[c] = view[c]
  /\ Transition(tgs[i].folls[c], tgs'[i].folls[c], ToSet(out[c]), acks[c], acks'[c],
                TgCreate(i), TgDestroy(i), TgCreateAck(i), TgDestroyAck(i))

LEMMA TgPhasePushed ==
  ASSUME ServerInv, NEW out \in [Clients -> Seq(Cmds)], Push(out), NEW c \in Clients,
         NEW i \in TgIds, TgPhase(c, i), TgTransition(c, i, out),
         Once(out[c], TgCreate(i)), Once(out[c], TgDestroy(i))
  PROVE  TgPhase(c, i)'
<1>1. PICK H, I, q, r, w, A, B, f, g, o, V :
        /\ H = Held(c) /\ I = Held(c)' /\ q = out_queue[c] /\ r = out_queue'[c] /\ w = wire[c]
        /\ A = acks[c] /\ B = acks'[c] /\ f = tgs[i].folls[c] /\ g = tgs'[i].folls[c]
        /\ o = ToSet(out[c]) /\ V = view[c].tgs
  OBVIOUS
<1>2. PICK create, destroy, created, destroyed :
        /\ create = TgCreate(i) /\ destroy = TgDestroy(i)
        /\ created = TgCreateAck(i) /\ destroyed = TgDestroyAck(i)
  OBVIOUS
<1>3. create.op # "TAG_SET" /\ destroy.op # "TAG_SET"
  BY <1>2, CmdFields
<1>4. Queued(H, I, q, r, o, create) /\ Queued(H, I, q, r, o, destroy)
  BY <1>1, <1>2, <1>3, PushQueued
<1>5. Tracked(H, q, w, A, f, create, destroy, created, destroyed, i, V)
  BY <1>1, <1>2 DEF TgPhase
<1>6. Transition(f, g, o, A, B, create, destroy, created, destroyed)
  BY <1>1, <1>2 DEF TgTransition
<1>7. Tracked(I, r, w, B, g, create, destroy, created, destroyed, i, V)
  BY <1>4, <1>5, <1>6, TrackedQueued
<1>8. w = wire'[c] /\ V = view'[c].tgs
  BY <1>1 DEF TgTransition
<1> QED BY <1>1, <1>2, <1>7, <1>8 DEF TgPhase

(* A handler that does not concern client c and tag group i.               *)
TgFrame(c, i, out) ==
  /\ wire'[c] = wire[c] /\ view'[c] = view[c] /\ tgs'[i].folls[c] = tgs[i].folls[c]
  /\ TgCreate(i) \notin ToSet(out[c]) /\ TgDestroy(i) \notin ToSet(out[c])
  /\ TgCreateAck(i) \in acks'[c] <=> TgCreateAck(i) \in acks[c]
  /\ TgDestroyAck(i) \in acks'[c] <=> TgDestroyAck(i) \in acks[c]

LEMMA TgFrameTransition ==
  ASSUME NEW out, NEW c, NEW i, TgFrame(c, i, out)
  PROVE  TgTransition(c, i, out)
BY DEF TgFrame, TgTransition, Transition

(* Nothing about client c has changed.                                     *)
LEMMA TgPhaseSame ==
  ASSUME NEW c, NEW i, TgPhase(c, i), net'[c] = net[c], out_queue'[c] = out_queue[c],
         wire'[c] = wire[c], acks'[c] = acks[c], view'[c] = view[c],
         tgs'[i].folls[c] = tgs[i].folls[c]
  PROVE  TgPhase(c, i)'
BY DEF TgPhase, Held

(* The acknowledgements of commands, and of which.                         *)
LEMMA FakeAckOf ==
  ASSUME NEW m \in Cmds, NEW i
  PROVE  /\ TgCreateAck(i) \in v_cmd_fake_ack(m) <=> m = TgCreate(i)
         /\ TgDestroyAck(i) \in v_cmd_fake_ack(m) <=> m = TgDestroy(i)
         /\ \A t : /\ TagCreateAck(i, t) \in v_cmd_fake_ack(m) <=> m = TagCreate(i, t)
                   /\ TagDestroyAck(i, t) \in v_cmd_fake_ack(m) <=> m = TagDestroy(i, t)
<1>1. /\ m.op = "TAGGROUP_CREATE" => v_cmd_fake_ack(m) = {TgCreateAck(m.tg)}
      /\ m.op = "TAGGROUP_DESTROY" => v_cmd_fake_ack(m) = {TgDestroyAck(m.tg)}
      /\ m.op = "TAG_CREATE" => v_cmd_fake_ack(m) = {TagCreateAck(m.tg, m.tag)}
      /\ m.op = "TAG_DESTROY" => v_cmd_fake_ack(m) = {TagDestroyAck(m.tg, m.tag)}
      /\ m.op = "TAG_SET" => v_cmd_fake_ack(m) = {}
  BY FakeAcks
<1>2. \/ m = TgCreate(m.tg) /\ m.op = "TAGGROUP_CREATE"
      \/ m = TgDestroy(m.tg) /\ m.op = "TAGGROUP_DESTROY"
      \/ m = TagCreate(m.tg, m.tag) /\ m.op = "TAG_CREATE"
      \/ m = TagDestroy(m.tg, m.tag) /\ m.op = "TAG_DESTROY"
      \/ m.op = "TAG_SET"
  BY CmdCases
<1> QED BY <1>1, <1>2, CmdFields, FakeCmdFields

(* A command leaves for client c: as a datagram or from the queue.         *)
LEMMA HeldDeparted ==
  ASSUME ServerInv, NEW c \in Clients, NEW m, DatagramEffect(c, m) \/ SendEffect(c, m),
         NEW x, NEW ack, Once(out_queue[c], x), ack \in v_cmd_fake_ack(m) <=> m = x
  PROVE  Departed(Held(c), Held(c)', out_queue'[c], acks[c], acks'[c], m, x, ack)
<1>1. CASE DatagramEffect(c, m)
  <2>1. /\ m \in net[c] /\ net'[c] = net[c] \ {m} /\ out_queue[c] = <<>> /\ out_queue'[c] = <<>>
        /\ acks'[c] = acks[c] \union v_cmd_fake_ack(m)
    BY <1>1 DEF DatagramEffect, ServerInv, Channels
  <2>2. Held(c) = net[c] /\ Held(c)' = net[c] \ {m}
    BY <2>1 DEF Held, ToSet
  <2> QED BY <2>1, <2>2 DEF Departed
<1>2. CASE SendEffect(c, m)
  <2>1. /\ out_queue[c] # <<>> /\ m = Head(out_queue[c]) /\ out_queue'[c] = Tail(out_queue[c])
        /\ net[c] = {} /\ net'[c] = {} /\ out_queue[c] \in Seq(Cmds)
        /\ acks'[c] = acks[c] \union v_cmd_fake_ack(m)
    BY <1>2 DEF SendEffect, ServerInv, Channels, TypeOK
  <2>2. /\ m \in ToSet(out_queue[c])
        /\ ToSet(out_queue[c]) = {m} \union ToSet(Tail(out_queue[c]))
        /\ Once(Tail(out_queue[c]), x) /\ (x = m => x \notin ToSet(Tail(out_queue[c])))
    BY <2>1, TailElements
  <2>3. Held(c) = ToSet(out_queue[c]) /\ Held(c)' = ToSet(Tail(out_queue[c]))
    BY <2>1 DEF Held
  <2> QED BY <2>1, <2>2, <2>3 DEF Departed
<1> QED BY <1>1, <1>2

(* What the client makes of a command about a tag group.                   *)
LEMMA LearnsTg ==
  ASSUME ServerInv, NEW c \in Clients, NEW m, DatagramEffect(c, m) \/ StreamEffect(c, m),
         NEW i \in TgIds
  PROVE  /\ m = TgCreate(i) => i \in view'[c].tgs
         /\ m = TgDestroy(i) => i \notin view'[c].tgs
         /\ m # TgCreate(i) /\ m # TgDestroy(i) => (i \in view'[c].tgs <=> i \in view[c].tgs)
<1>1. PICK w, r : w = view[c] /\ r = view'[c]
  OBVIOUS
<1>2. w \in ViewType /\ m \in Cmds /\ r = Learned(w, m)
  BY <1>1 DEF ServerInv, TypeOK, ViewType, DatagramEffect, StreamEffect
<1>3. LearnedTgs(r, w, m)
  BY <1>2, LearnedFields
<1>4. /\ m.op = "TAGGROUP_CREATE" => m = TgCreate(m.tg)
      /\ m.op = "TAGGROUP_DESTROY" => m = TgDestroy(m.tg)
  BY <1>2, CmdCases
<1>5. /\ m = TgCreate(i) <=> m.op = "TAGGROUP_CREATE" /\ m.tg = i
      /\ m = TgDestroy(i) <=> m.op = "TAGGROUP_DESTROY" /\ m.tg = i
  BY <1>4, CmdFields
<1> QED BY <1>1, <1>3, <1>5 DEF LearnedTgs

LEMMA OutcomeNetwork ==
  ASSUME ServerInv, NEW c \in Clients, NEW m,
         DatagramEffect(c, m) \/ SendEffect(c, m) \/ StreamEffect(c, m),
         NEW create, NEW destroy, create # destroy, NEW e, NEW V, NEW W,
         SendEffect(c, m) => V = W,
         DatagramEffect(c, m) \/ StreamEffect(c, m) => Tells(m, create, destroy, e, V, W)
  PROVE  /\ ~StreamEffect(c, m) =>
              /\ m = create => Outcome(wire'[c], create, destroy, e, W)
              /\ m = destroy => ~Outcome(wire'[c], create, destroy, e, W)
         /\ StreamEffect(c, m) \/ (m # create /\ m # destroy) =>
              (Outcome(wire'[c], create, destroy, e, W) <=> Outcome(wire[c], create, destroy, e, V))
<1>1. PICK w, u : w = wire[c] /\ u = wire'[c]
  OBVIOUS
<1>2. w \in Seq(Cmds) /\ m \in Cmds
  BY <1>1 DEF ServerInv, TypeOK, DatagramEffect, SendEffect, StreamEffect
<1>3. CASE DatagramEffect(c, m)
  <2>1. w = <<>> /\ u = <<>>
    BY <1>1, <1>3 DEF DatagramEffect, ServerInv, Channels
  <2>2. /\ Outcome(w, create, destroy, e, V) <=> e \in V
        /\ Outcome(u, create, destroy, e, W) <=> e \in W
    BY <2>1, OutcomeEmpty
  <2>3. Tells(m, create, destroy, e, V, W) /\ ~StreamEffect(c, m)
    BY <1>3 DEF DatagramEffect, StreamEffect
  <2> QED BY <1>1, <2>2, <2>3 DEF Tells
<1>4. CASE SendEffect(c, m)
  <2>1. u = Append(w, m) /\ V = W
    BY <1>1, <1>4 DEF SendEffect
  <2>2. /\ m = create => Outcome(u, create, destroy, e, W)
        /\ m = destroy => ~Outcome(u, create, destroy, e, W)
        /\ m # create /\ m # destroy =>
             (Outcome(u, create, destroy, e, W) <=> Outcome(w, create, destroy, e, V))
    BY <1>2, <2>1, OutcomeAppend
  <2>3. ASSUME StreamEffect(c, m) PROVE FALSE
    <3>1. Len(u) = Len(w) + 1
      BY <1>2, <2>1
    <3>2. Len(u) = Len(w) - 1
      BY <1>1, <1>2, <2>3, HeadTailProperties DEF StreamEffect
    <3> QED BY <1>2, <3>1, <3>2
  <2> QED BY <1>1, <2>2, <2>3
<1>5. CASE StreamEffect(c, m)
  <2>1. w # <<>> /\ m = Head(w) /\ u = Tail(w)
    BY <1>1, <1>5 DEF StreamEffect
  <2>2. Outcome(w, create, destroy, e, V) <=> Outcome(u, create, destroy, e, W)
    BY <1>2, <1>5, <2>1, OutcomeTail DEF Tells
  <2> QED BY <1>1, <1>5, <2>2
<1> QED BY <1>3, <1>4, <1>5

LEMMA TrackedNetwork ==
  ASSUME ServerInv, NEW c \in Clients, NEW m,
         DatagramEffect(c, m) \/ SendEffect(c, m) \/ StreamEffect(c, m), NEW f,
         NEW create, NEW destroy, NEW created, NEW destroyed, NEW e, NEW V, NEW W,
         create # destroy, created \in v_cmd_fake_ack(m) <=> m = create,
         destroyed \in v_cmd_fake_ack(m) <=> m = destroy,
         SendEffect(c, m) => V = W,
         DatagramEffect(c, m) \/ StreamEffect(c, m) => Tells(m, create, destroy, e, V, W),
         Tracked(Held(c), out_queue[c], wire[c], acks[c], f, create, destroy, created, destroyed, e, V)
  PROVE  Tracked(Held(c)', out_queue'[c], wire'[c], acks'[c], f, create, destroy, created, destroyed,
                 e, W)
<1>1. PICK H, I, q, r, w, u, A, B :
        /\ H = Held(c) /\ I = Held(c)' /\ q = out_queue[c] /\ r = out_queue'[c]
        /\ w = wire[c] /\ u = wire'[c] /\ A = acks[c] /\ B = acks'[c]
  OBVIOUS
<1>2. Tracked(H, q, w, A, f, create, destroy, created, destroyed, e, V)
  BY <1>1
<1>3. /\ ~StreamEffect(c, m) =>
           /\ m = create => Outcome(u, create, destroy, e, W)
           /\ m = destroy => ~Outcome(u, create, destroy, e, W)
      /\ StreamEffect(c, m) \/ (m # create /\ m # destroy) =>
           (Outcome(u, create, destroy, e, W) <=> Outcome(w, create, destroy, e, V))
  BY <1>1, OutcomeNetwork
<1>4. CASE StreamEffect(c, m)
  <2>1. H = I /\ q = r /\ A = B
    BY <1>1, <1>4 DEF StreamEffect, Held
  <2>2. Tracked(I, r, u, B, f, create, destroy, created, destroyed, e, W)
    BY <1>2, <1>3, <1>4, <2>1 DEF Tracked
  <2> QED BY <1>1, <2>2
<1>5. CASE ~StreamEffect(c, m)
  <2>1. Once(q, create) /\ Once(q, destroy)
    BY <1>2 DEF Tracked
  <2>2. /\ Departed(H, I, r, A, B, m, create, created)
        /\ Departed(H, I, r, A, B, m, destroy, destroyed)
    BY <1>1, <1>5, <2>1, HeldDeparted
  <2>3. Tracked(I, r, u, B, f, create, destroy, created, destroyed, e, W)
    BY <1>2, <1>3, <1>5, <2>2, TrackedSent
  <2> QED BY <1>1, <2>3
<1> QED BY <1>4, <1>5

LEMMA TgTells ==
  ASSUME ServerInv, NEW c \in Clients, NEW m, NEW i \in TgIds
  PROVE  /\ SendEffect(c, m) => view[c] = view'[c]
         /\ DatagramEffect(c, m) \/ StreamEffect(c, m) =>
              Tells(m, TgCreate(i), TgDestroy(i), i, view[c].tgs, view'[c].tgs)
<1>1. SendEffect(c, m) => view[c] = view'[c]
  BY DEF SendEffect
<1> QED BY <1>1, LearnsTg DEF Tells

LEMMA TgPhaseNetwork ==
  ASSUME ServerInv, NEW c \in Clients, NEW m,
         DatagramEffect(c, m) \/ SendEffect(c, m) \/ StreamEffect(c, m),
         NEW i \in TgIds, TgPhase(c, i)
  PROVE  TgPhase(c, i)'
<1>1. PICK f, V, W : f = tgs[i].folls[c] /\ V = view[c].tgs /\ W = view'[c].tgs
  OBVIOUS
<1>2. PICK create, destroy, created, destroyed :
        /\ create = TgCreate(i) /\ destroy = TgDestroy(i)
        /\ created = TgCreateAck(i) /\ destroyed = TgDestroyAck(i)
  OBVIOUS
<1>3. create # destroy /\ m \in Cmds
  BY <1>2, CmdFields DEF DatagramEffect, SendEffect, StreamEffect
<1>4. Tracked(Held(c), out_queue[c], wire[c], acks[c], f, create, destroy, created, destroyed, i, V)
  BY <1>1, <1>2 DEF TgPhase
<1>5. /\ created \in v_cmd_fake_ack(m) <=> m = create
      /\ destroyed \in v_cmd_fake_ack(m) <=> m = destroy
  BY <1>2, <1>3, FakeAckOf
<1>6. /\ SendEffect(c, m) => V = W
      /\ DatagramEffect(c, m) \/ StreamEffect(c, m) => Tells(m, create, destroy, i, V, W)
  BY <1>1, <1>2, TgTells
<1>7. Tracked(Held(c)', out_queue'[c], wire'[c], acks'[c], f, create, destroy, created, destroyed, i, W)
  BY <1>3, <1>4, <1>5, <1>6, TrackedNetwork
<1>8. f = tgs'[i].folls[c]
  BY <1>1 DEF DatagramEffect, SendEffect, StreamEffect
<1> QED BY <1>1, <1>2, <1>7, <1>8 DEF TgPhase

(* Which commands the handlers queue, as seen by tag group i.              *)
GetsOne(out, c, C, m) ==
  /\ out \in [Clients -> Seq(Cmds)] /\ \A x : Once(out[c], x)
  /\ \A x : x \in ToSet(out[c]) <=> x = m /\ c \in C

LEMMA OneForFields ==
  ASSUME NEW C, NEW m \in Cmds, NEW c \in Clients, NEW out, out = OneFor(C, m)
  PROVE  GetsOne(out, c, C, m)
<1>1. /\ OneFor(C, m) \in [Clients -> Seq(Cmds)]
      /\ ToSet(OneFor(C, m)[c]) = IF c \in C THEN {m} ELSE {}
      /\ \A x : Once(OneFor(C, m)[c], x)
  BY OneForType
<1> QED BY <1>1 DEF GetsOne

LEMMA StayersAre == \A c \in Stayers : c \in Clients /\ c \notin Leavers
BY DEF Stayers

LEMMA ReplicaStep ==
  ASSUME ReplicaInv, [Next]_vars
  PROVE  ReplicaInv'
<1>1. ServerInv /\ ServerInv' /\ StepCases
  BY EveryStep DEF ReplicaInv
<1>2. TypeOK /\ \A i \in TgIds : TgSound(tgs[i], node_subs)
  BY <1>1 DEF ServerInv
<1> SUFFICES ASSUME NEW d \in Stayers, NEW i \in TgIds PROVE TgPhase(d, i)'
  BY <1>1 DEF ReplicaInv, Stayers
<1>3. d \in Clients /\ d \notin Leavers /\ TgPhase(d, i)
  BY StayersAre DEF ReplicaInv
<1>4. TgCreate(i) \in Cmds /\ TgDestroy(i) \in Cmds /\ TgCreate(i) # TgDestroy(i)
  BY CmdsHold, CmdFields
<1>5. ASSUME NEW out \in [Clients -> Seq(Cmds)], Push(out), \A m : Once(out[d], m),
             TgTransition(d, i, out)
      PROVE  TgPhase(d, i)'
  BY <1>1, <1>3, <1>5, TgPhasePushed
<1>6. ASSUME NEW out \in [Clients -> Seq(Cmds)], Push(out), \A m : Once(out[d], m),
             TgFrame(d, i, out)
      PROVE  TgPhase(d, i)'
  BY <1>5, <1>6, TgFrameTransition
<1>7. ASSUME NEW c \in Clients, c \in Leavers, LeaveStep(c) PROVE TgPhase(d, i)'
  BY <1>3, <1>7, TgPhaseSame DEF LeaveStep
<1>8. ASSUME NEW c \in Clients, NodeSubscribe(c) PROVE TgPhase(d, i)'
  <2>1. /\ Push(NodeSubscribeOut(c)) /\ UNCHANGED <<wire, acks, view>>
        /\ tgs'[i].folls[d] = IF d = c /\ ToTell(c, i) THEN CREATING ELSE tgs[i].folls[d]
    BY <1>1, <1>3, <1>8, NodeSubscribeStep
  <2>2. PICK out : out = NodeSubscribeOut(c)
    OBVIOUS
  <2>3. /\ out \in [Clients -> Seq(Cmds)] /\ \A m : Once(out[d], m)
        /\ d # c => ToSet(out[d]) = {}
        /\ TgCreate(i) \in ToSet(out[c]) <=> ToTell(c, i)
        /\ \A m \in ToSet(out[c]) : \E j \in TgIds : m = TgCreate(j)
    BY <1>1, <1>3, <2>2, NodeSubscribeOutIs
  <2>4. TgDestroy(i) \notin ToSet(out[d])
    BY <2>3, CmdFields
  <2>5. CASE d = c /\ ToTell(c, i)
    <3>1. tgs[i].folls[d] = "NONE" /\ tgs'[i].folls[d] = "CREATING"
      BY <2>1, <2>5 DEF ToTell, NONE, CREATING
    <3>2. TgTransition(d, i, out)
      BY <2>1, <2>3, <2>4, <2>5, <3>1 DEF TgTransition, Transition
    <3> QED BY <1>5, <2>1, <2>2, <2>3, <3>2
  <2>6. CASE ~(d = c /\ ToTell(c, i))
    <3>1. TgFrame(d, i, out)
      BY <2>1, <2>3, <2>4, <2>6 DEF TgFrame
    <3> QED BY <1>6, <2>1, <2>2, <2>3, <3>1
  <2> QED BY <2>5, <2>6
<1>9. ASSUME NEW c \in Clients, NEW j \in TgIds, c \in Leavers, TgUnsubscribeEffect(c, j)
      PROVE  TgPhase(d, i)'
  <2>1. tgs'[i].folls[d] = tgs[i].folls[d]
    BY <1>9 DEF TgUnsubscribeEffect
  <2> QED BY <1>3, <1>9, <2>1, TgPhaseSame DEF TgUnsubscribeEffect
<1>10. ASSUME NEW c \in Clients, NEW j \in TgIds, TgSubscribeEffect(c, j) PROVE TgPhase(d, i)'
  <2>1. PICK out : out = TgSubscribeOut(c, j)
    OBVIOUS
  <2>2. /\ out \in [Clients -> Seq(Cmds)] /\ \A m : Once(out[d], m)
        /\ d # c => ToSet(out[d]) = {}
        /\ \A m \in ToSet(out[c]) : m.op \in {"TAG_CREATE", "TAG_SET"}
    BY <1>1, <1>3, <2>1, TgSubscribeOutIs DEF TgSubscribeSends
  <2>3. TgCreate(i) \notin ToSet(out[d]) /\ TgDestroy(i) \notin ToSet(out[d])
    BY <2>2, CmdFields
  <2>4. Push(out) /\ UNCHANGED <<wire, acks, view>> /\ tgs'[i].folls = tgs[i].folls
    BY <1>10, <2>1 DEF TgSubscribeEffect
  <2>5. TgFrame(d, i, out)
    BY <2>3, <2>4 DEF TgFrame
  <2> QED BY <1>6, <2>2, <2>4, <2>5
<1>11. ASSUME NEW c \in Clients, NEW j \in TgIds, TgCreateAckEffect(c, j) PROVE TgPhase(d, i)'
  <2>1. PICK out, C : out = OneFor(C, TgDestroy(j)) /\ C = IF DestroyNow(tgs[j], c) THEN {c} ELSE {}
    OBVIOUS
  <2>2. /\ out \in [Clients -> Seq(Cmds)] /\ \A x : Once(out[d], x)
        /\ \A x : x \in ToSet(out[d]) <=> x = TgDestroy(j) /\ d \in C
    <3>1. GetsOne(out, d, C, TgDestroy(j))
      BY <1>3, <2>1, CmdsHold, OneForFields
    <3> QED BY <3>1 DEF GetsOne
  <2>3. Push(out) /\ AckEffect(c, TgCreateAck(j)) /\ UNCHANGED <<wire, view>>
    BY <1>11, <2>1 DEF TgCreateAckEffect, AckEffect
  <2>4. TgCreate(i) \notin ToSet(out[d]) /\ (TgDestroy(i) \in ToSet(out[d]) <=> i = j /\ d \in C)
    BY <2>2, CmdFields
  <2>5. CASE d = c /\ i = j
    <3>1. TgCreateAck(i) \in acks[d] /\ TgCreateAck(i) \notin acks'[d]
      BY <1>3, <2>3, <2>5 DEF AckEffect
    <3>2. TgDestroyAck(i) \in acks'[d] <=> TgDestroyAck(i) \in acks[d]
      BY <1>3, <2>3, <2>5, FakeCmdFields DEF AckEffect
    <3>3. tgs[i].folls[d] = CREATING
      BY <1>3, <3>1 DEF TgPhase, Tracked, CREATING
    <3>4. /\ d \in C <=> tgs[i].state = DELETING
          /\ tgs'[i].folls[d] = IF tgs[i].state = DELETING THEN DELETING ELSE CREATED
      BY <1>11, <2>1, <2>5, <3>3 DEF TgCreateAckEffect, DestroyNow, NONE, CREATING
    <3>5. TgTransition(d, i, out)
      BY <2>3, <2>4, <2>5, <3>1, <3>2, <3>4 DEF TgTransition, Transition, DELETING, CREATED
    <3> QED BY <1>5, <2>2, <2>3, <3>5
  <2>6. CASE ~(d = c /\ i = j)
    <3>1. tgs'[i].folls[d] = tgs[i].folls[d]
      BY <1>3, <1>11, <2>6 DEF TgCreateAckEffect
    <3>2. /\ TgCreateAck(i) \in acks'[d] <=> TgCreateAck(i) \in acks[d]
          /\ TgDestroyAck(i) \in acks'[d] <=> TgDestroyAck(i) \in acks[d]
      BY <1>3, <2>3, <2>6, FakeCmdFields DEF AckEffect
    <3>3. TgFrame(d, i, out)
      BY <2>1, <2>3, <2>4, <2>6, <3>1, <3>2 DEF TgFrame
    <3> QED BY <1>6, <2>2, <2>3, <3>3
  <2> QED BY <2>5, <2>6
<1>12. ASSUME NEW c \in Clients, NEW j \in TgIds, TgDestroyAckEffect(c, j) PROVE TgPhase(d, i)'
  <2>1. PICK out : out = NoCmds
    OBVIOUS
  <2>2. /\ out \in [Clients -> Seq(Cmds)] /\ \A x : Once(out[d], x) /\ x \notin ToSet(out[d])
    BY <1>3, <2>1, NoCmdsType
  <2>3. Push(out) /\ AckEffect(c, TgDestroyAck(j)) /\ UNCHANGED <<wire, view>>
    BY <1>12, <2>1 DEF TgDestroyAckEffect, AckEffect
  <2>4. tgs'[i].folls[d] = IF d = c /\ i = j THEN NONE ELSE tgs[i].folls[d]
    <3>1. CASE i = j /\ Followers(tgs[i]) \subseteq {c} /\ tgs'[i] = FreeTg
      <4>1. tgs'[i].folls[d] = NONE
        BY <1>3, <3>1 DEF FreeTg, NoFolls
      <4>2. d # c => tgs[i].folls[d] = NONE
        BY <1>3, <3>1 DEF Followers
      <4> QED BY <3>1, <4>1, <4>2
    <3>2. CASE i # j
      BY <1>12, <3>2 DEF TgDestroyAckEffect
    <3>3. CASE i = j /\ \A x \in Clients : tgs'[i].folls[x] = IF x = c THEN NONE ELSE tgs[i].folls[x]
      BY <1>3, <3>3
    <3> QED BY <1>12, <3>1, <3>2, <3>3 DEF TgDestroyAckEffect
  <2>5. CASE d = c /\ i = j
    <3>1. TgDestroyAck(i) \in acks[d] /\ TgDestroyAck(i) \notin acks'[d]
      BY <1>3, <2>3, <2>5 DEF AckEffect
    <3>2. TgCreateAck(i) \in acks'[d] <=> TgCreateAck(i) \in acks[d]
      BY <1>3, <2>3, <2>5, FakeCmdFields DEF AckEffect
    <3>3. TgTransition(d, i, out)
      BY <2>2, <2>3, <2>4, <2>5, <3>1, <3>2 DEF TgTransition, Transition, NONE
    <3> QED BY <1>5, <2>2, <2>3, <3>3
  <2>6. CASE ~(d = c /\ i = j)
    <3>1. /\ TgCreateAck(i) \in acks'[d] <=> TgCreateAck(i) \in acks[d]
          /\ TgDestroyAck(i) \in acks'[d] <=> TgDestroyAck(i) \in acks[d]
      BY <1>3, <2>3, <2>6, FakeCmdFields DEF AckEffect
    <3>2. TgFrame(d, i, out)
      BY <2>2, <2>3, <2>4, <2>6, <3>1 DEF TgFrame
    <3> QED BY <1>6, <2>2, <2>3, <3>2
  <2> QED BY <2>5, <2>6
<1>13. ASSUME NEW j \in TgIds, NEW t \in TagIds, NEW T, TagChange(j, t, T)
       PROVE  tgs'[i].folls = tgs[i].folls
  BY <1>13 DEF TagChange
<1>14. ASSUME NEW c \in Clients, NEW j \in TgIds, NEW t \in TagIds, TagCreateAckEffect(c, j, t)
       PROVE  TgPhase(d, i)'
  <2>1. PICK out, tag : out = TagAckOut(c, j, t) /\ tag = tgs[j].tags[t]
    OBVIOUS
  <2>2. TagAckSends(out, c, j, t, tag)
    BY <1>1, <2>1, TagAckOutIs
  <2>3. /\ out \in [Clients -> Seq(Cmds)] /\ \A x : Once(out[d], x)
        /\ TgCreate(i) \notin ToSet(out[d]) /\ TgDestroy(i) \notin ToSet(out[d])
    BY <1>3, <2>2, CmdFields DEF TagAckSends
  <2>4. Push(out) /\ AckEffect(c, TagCreateAck(j, t)) /\ tgs'[i].folls = tgs[i].folls
    BY <1>13, <1>14, <2>1 DEF TagCreateAckEffect
  <2>5. /\ TgCreateAck(i) \in acks'[d] <=> TgCreateAck(i) \in acks[d]
        /\ TgDestroyAck(i) \in acks'[d] <=> TgDestroyAck(i) \in acks[d]
    BY <1>3, <2>4, FakeCmdFields DEF AckEffect
  <2>6. TgFrame(d, i, out)
    BY <2>3, <2>4, <2>5 DEF TgFrame, AckEffect
  <2> QED BY <1>6, <2>3, <2>4, <2>6
<1>15. ASSUME NEW c \in Clients, NEW j \in TgIds, NEW t \in TagIds, TagDestroyAckEffect(c, j, t)
       PROVE  TgPhase(d, i)'
  <2>1. PICK out : out = NoCmds
    OBVIOUS
  <2>2. /\ out \in [Clients -> Seq(Cmds)] /\ \A x : Once(out[d], x) /\ x \notin ToSet(out[d])
    BY <1>3, <2>1, NoCmdsType
  <2>3. Push(out) /\ AckEffect(c, TagDestroyAck(j, t)) /\ tgs'[i].folls = tgs[i].folls
    BY <1>13, <1>15, <2>1 DEF TagDestroyAckEffect
  <2>4. /\ TgCreateAck(i) \in acks'[d] <=> TgCreateAck(i) \in acks[d]
        /\ TgDestroyAck(i) \in acks'[d] <=> TgDestroyAck(i) \in acks[d]
    BY <1>3, <2>3, FakeCmdFields DEF AckEffect
  <2>5. TgFrame(d, i, out)
    BY <2>2, <2>3, <2>4 DEF TgFrame, AckEffect
  <2> QED BY <1>6, <2>2, <2>3, <2>5
<1>16. ASSUME NEW c \in Clients, NEW m \in Cmds,
              DatagramEffect(c, m) \/ SendEffect(c, m) \/ StreamEffect(c, m)
       PROVE  TgPhase(d, i)'
  <2>1. CASE d = c
    BY <1>1, <1>3, <1>16, <2>1, TgPhaseNetwork
  <2>2. CASE d # c
    <3>1. /\ net'[d] = net[d] /\ out_queue'[d] = out_queue[d] /\ wire'[d] = wire[d]
          /\ acks'[d] = acks[d] /\ view'[d] = view[d] /\ tgs'[i].folls[d] = tgs[i].folls[d]
      BY <1>3, <1>16, <2>2 DEF DatagramEffect, SendEffect, StreamEffect
    <3> QED BY <1>3, <3>1, TgPhaseSame
  <2> QED BY <2>1, <2>2
<1>17. ASSUME NEW j \in TgIds, TgCreateEffect(j) PROVE TgPhase(d, i)'
  <2>1. PICK out, C : out = OneFor(C, TgCreate(j)) /\ C = node_subs \intersect Readers
    OBVIOUS
  <2>2. /\ out \in [Clients -> Seq(Cmds)] /\ \A x : Once(out[d], x)
        /\ \A x : x \in ToSet(out[d]) <=> x = TgCreate(j) /\ d \in C
    <3>1. GetsOne(out, d, C, TgCreate(j))
      BY <1>3, <2>1, CmdsHold, OneForFields
    <3> QED BY <3>1 DEF GetsOne
  <2>3. Push(out) /\ UNCHANGED <<wire, acks, view>>
    BY <1>17, <2>1 DEF TgCreateEffect
  <2>4. TgDestroy(i) \notin ToSet(out[d]) /\ (TgCreate(i) \in ToSet(out[d]) <=> i = j /\ d \in C)
    BY <2>2, CmdFields
  <2>5. CASE i = j
    <3>1. tgs[i].folls[d] = NONE /\ tgs'[i].folls[d] = IF d \in C THEN CREATING ELSE NONE
      BY <1>2, <1>3, <1>17, <2>1, <2>5 DEF TgCreateEffect, TgSound
    <3>2. CASE d \in C
      <4>1. TgTransition(d, i, out)
        BY <2>3, <2>4, <2>5, <3>1, <3>2 DEF TgTransition, Transition, NONE, CREATING
      <4> QED BY <1>5, <2>2, <2>3, <4>1
    <3>3. CASE d \notin C
      <4>1. TgFrame(d, i, out)
        BY <2>3, <2>4, <3>1, <3>3 DEF TgFrame
      <4> QED BY <1>6, <2>2, <2>3, <4>1
    <3> QED BY <3>2, <3>3
  <2>6. CASE i # j
    <3>1. TgFrame(d, i, out)
      BY <1>17, <2>3, <2>4, <2>6 DEF TgFrame, TgCreateEffect
    <3> QED BY <1>6, <2>2, <2>3, <3>1
  <2> QED BY <2>5, <2>6
<1>18. ASSUME NEW j \in TgIds, TgDestroyEffect(j) PROVE TgPhase(d, i)'
  <2>1. PICK out, C : out = OneFor(C, TgDestroy(j)) /\ C = Destroyable(tgs[j])
    OBVIOUS
  <2>2. /\ out \in [Clients -> Seq(Cmds)] /\ \A x : Once(out[d], x)
        /\ \A x : x \in ToSet(out[d]) <=> x = TgDestroy(j) /\ d \in C
    <3>1. GetsOne(out, d, C, TgDestroy(j))
      BY <1>3, <2>1, CmdsHold, OneForFields
    <3> QED BY <3>1 DEF GetsOne
  <2>3. Push(out) /\ UNCHANGED <<wire, acks, view>>
    BY <1>18, <2>1 DEF TgDestroyEffect
  <2>4. TgCreate(i) \notin ToSet(out[d]) /\ (TgDestroy(i) \in ToSet(out[d]) <=> i = j /\ d \in C)
    BY <2>2, CmdFields
  <2>5. CASE i = j /\ d \in C
    <3>1. tgs[i].folls[d] = CREATED /\ tgs'[i].folls[d] = DELETING
      BY <1>3, <1>18, <2>1, <2>5 DEF TgDestroyEffect, Destroyable
    <3>2. TgTransition(d, i, out)
      BY <2>3, <2>4, <2>5, <3>1 DEF TgTransition, Transition, CREATED, DELETING
    <3> QED BY <1>5, <2>2, <2>3, <3>2
  <2>6. CASE ~(i = j /\ d \in C)
    <3>1. tgs'[i].folls[d] = tgs[i].folls[d]
      BY <1>3, <1>18, <2>1, <2>6 DEF TgDestroyEffect, Destroyable
    <3>2. TgFrame(d, i, out)
      BY <2>3, <2>4, <2>6, <3>1 DEF TgFrame
    <3> QED BY <1>6, <2>2, <2>3, <3>2
  <2> QED BY <2>5, <2>6
<1>19. ASSUME NEW j \in TgIds, NEW t \in TagIds, NEW C, NEW m \in Cmds, m.tag # NoTag,
              Push(OneFor(C, m)), UNCHANGED <<wire, acks, view>>, NEW T, TagChange(j, t, T)
       PROVE  TgPhase(d, i)'
  <2>1. PICK out : out = OneFor(C, m)
    OBVIOUS
  <2>2. /\ out \in [Clients -> Seq(Cmds)] /\ \A x : Once(out[d], x)
        /\ \A x : x \in ToSet(out[d]) <=> x = m /\ d \in C
    <3>1. GetsOne(out, d, C, m)
      BY <1>3, <2>1, OneForFields
    <3> QED BY <3>1 DEF GetsOne
  <2>3. TgFrame(d, i, out)
    BY <1>13, <1>19, <2>2, CmdFields DEF TgFrame
  <2> QED BY <1>6, <1>19, <2>1, <2>2, <2>3
<1>20. ASSUME NEW j \in TgIds, NEW t \in TagIds,
              \/ TagCreateEffect(j, t) \/ TagDestroyEffect(j, t)
              \/ \E v \in Values : TagSetEffect(j, t, v)
       PROVE  TgPhase(d, i)'
  <2>0. NoTag \notin TagIds
    BY DEF NoTag, TagIds
  <2>1. CASE TagCreateEffect(j, t)
    <3>1. PICK T, C : TagChange(j, t, T) /\ C = tgs[j].subs
      BY <2>1 DEF TagCreateEffect
    <3> QED BY <1>19, <2>0, <2>1, <3>1, CmdsHold, CmdFields DEF TagCreateEffect
  <2>2. CASE TagDestroyEffect(j, t)
    <3>1. PICK T, C : TagChange(j, t, T) /\ C = Destroyable(tgs[j].tags[t])
      BY <2>2 DEF TagDestroyEffect
    <3> QED BY <1>19, <2>0, <2>2, <3>1, CmdsHold, CmdFields DEF TagDestroyEffect
  <2>3. ASSUME NEW v \in Values, TagSetEffect(j, t, v) PROVE TgPhase(d, i)'
    <3>1. PICK T, C : TagChange(j, t, T) /\ C = tgs[j].subs
      BY <2>3 DEF TagSetEffect
    <3> QED BY <1>19, <2>0, <2>3, <3>1, CmdsHold, CmdFields DEF TagSetEffect
  <2> QED BY <1>20, <2>1, <2>2, <2>3
<1>21. CASE UNCHANGED vars
  BY <1>3, <1>21, TgPhaseSame DEF vars
<1> QED BY <1>1, <1>7, <1>8, <1>9, <1>10, <1>11, <1>12, <1>14, <1>15, <1>16, <1>17, <1>18, <1>20, <1>21
        DEF StepCases

LEMMA InitReplica == Init => ReplicaInv
<1> SUFFICES ASSUME Init PROVE ReplicaInv
  OBVIOUS
<1>1. ServerInv
  BY InitServer
<1> SUFFICES ASSUME NEW c \in Stayers, NEW i \in TgIds PROVE TgPhase(c, i)
  BY <1>1 DEF ReplicaInv
<1>2. c \in Clients
  BY StayersAre
<1>3. /\ net[c] = {} /\ out_queue[c] = <<>> /\ wire[c] = <<>> /\ acks[c] = {}
      /\ view[c].tgs = {} /\ tgs[i].folls[c] = "NONE"
  BY <1>2 DEF Init, EmptyView, FreeTg, NoFolls, NONE
<1>4. Held(c) = {}
  BY <1>3 DEF Held, ToSet
<1>5. \A m : Once(<<>>, m)
  BY DEF Once
<1>6. ~Outcome(<<>>, TgCreate(i), TgDestroy(i), i, {})
  BY OutcomeEmpty
<1> QED BY <1>3, <1>4, <1>5, <1>6 DEF TgPhase, Tracked

LEMMA ReplicaAlways == Spec => []ReplicaInv
BY InitReplica, ReplicaStep, PTL DEF Spec

-----------------------------------------------------------------------------
(* The server implements module Replication.                               *)

(* The refinement mapping: the tag groups the server holds, and those the  *)
(* clients that use datagrams know.                                        *)
HeldTgs  == {i \in TgIds : tgs[i].state # NONE}
KnownTgs == [c \in Stayers |-> IF c \in streams THEN {} ELSE view[c].tgs]

LEMMA PhaseOfDatagrams ==
  ASSUME ReplicaInv, NEW c \in Stayers, NEW i \in TgIds, c \notin streams
  PROVE  /\ TgCreate(i) \in net[c] => tgs[i].state # NONE
         /\ tgs[i].folls[c] = NONE \/ TgDestroyAck(i) \in acks[c] => i \notin view[c].tgs
<1>1. /\ c \in Clients /\ TgPhase(c, i) /\ TgSound(tgs[i], node_subs)
      /\ wire[c] = <<>> /\ net[c] \subseteq Held(c)
  BY StayersAre DEF ReplicaInv, ServerInv, Channels, Held
<1>2. PICK f, create, destroy, created, destroyed, V :
        /\ f = tgs[i].folls[c] /\ create = TgCreate(i) /\ destroy = TgDestroy(i)
        /\ created = TgCreateAck(i) /\ destroyed = TgDestroyAck(i) /\ V = view[c].tgs
  OBVIOUS
<1>3. Outcome(wire[c], create, destroy, i, V) <=> i \in V
  BY <1>1, OutcomeEmpty
<1>4. Tracked(Held(c), out_queue[c], wire[c], acks[c], f, create, destroy, created, destroyed, i, V)
  BY <1>1, <1>2 DEF TgPhase
<1>5. create \in Held(c) => f # "NONE"
  BY <1>4 DEF Tracked
<1>6. f = "NONE" \/ destroyed \in acks[c] => i \notin V
  BY <1>3, <1>4 DEF Tracked
<1>7. TgCreate(i) \in net[c] => tgs[i].state # NONE
  BY <1>1, <1>2, <1>5 DEF TgSound, NONE
<1> QED BY <1>2, <1>6, <1>7 DEF NONE

(* Steps that change neither the tag groups nor what is known of them.     *)
LEMMA SameReplicas ==
  ASSUME \A i \in TgIds : tgs'[i].state = NONE <=> tgs[i].state = NONE,
         streams' = streams, \A c \in Stayers : view'[c].tgs = view[c].tgs
  PROVE  HeldTgs' = HeldTgs /\ KnownTgs' = KnownTgs
<1>1. KnownTgs' = [c \in Stayers |-> IF c \in streams THEN {} ELSE view'[c].tgs]
  BY DEF KnownTgs, Stayers
<1> QED BY <1>1 DEF HeldTgs, KnownTgs

(* The steps of Replication.                                               *)
ReplicaNext ==
  \/ HeldTgs' = HeldTgs /\ KnownTgs' = KnownTgs
  \/ \E i \in TgIds :
       /\ KnownTgs' = KnownTgs
       /\ \A c \in Stayers : i \notin KnownTgs[c]
       /\ \/ i \notin HeldTgs /\ HeldTgs' = HeldTgs \union {i}
          \/ i \in HeldTgs /\ HeldTgs' = HeldTgs \ {i}
  \/ \E c \in Stayers, i \in TgIds :
       /\ HeldTgs' = HeldTgs
       /\ \/ i \in HeldTgs /\ KnownTgs' = [KnownTgs EXCEPT ![c] = KnownTgs[c] \union {i}]
          \/ KnownTgs' = [KnownTgs EXCEPT ![c] = KnownTgs[c] \ {i}]

LEMMA ReplicaNextStep ==
  ASSUME ReplicaInv, [Next]_vars
  PROVE  ReplicaNext
<1>1. ServerInv /\ ServerInv' /\ StepCases
  BY EveryStep DEF ReplicaInv
<1>2. \A i \in TgIds : TgSound(tgs[i], node_subs)
  BY <1>1 DEF ServerInv
<1>3. \A c \in Stayers : c \in Clients /\ c \notin Leavers
  BY StayersAre
<1>4. ASSUME \A i \in TgIds : tgs'[i].state = NONE <=> tgs[i].state = NONE,
             streams' = streams, \A c \in Stayers : view'[c].tgs = view[c].tgs
      PROVE  ReplicaNext
  BY <1>4, SameReplicas DEF ReplicaNext
<1>5. ASSUME NEW c \in Clients, c \in Leavers, LeaveStep(c) PROVE ReplicaNext
  BY <1>3, <1>4, <1>5 DEF LeaveStep
<1>6. ASSUME NEW c \in Clients, NodeSubscribe(c) PROVE ReplicaNext
  <2>1. UNCHANGED <<streams, view>> /\ \A i \in TgIds : tgs'[i].state = tgs[i].state
    BY <1>1, <1>6, NodeSubscribeStep
  <2> QED BY <1>4, <2>1
<1>7. ASSUME NEW c \in Clients, NEW j \in TgIds, c \in Leavers, TgUnsubscribeEffect(c, j)
      PROVE  ReplicaNext
  BY <1>3, <1>4, <1>7 DEF TgUnsubscribeEffect
<1>8. ASSUME NEW c \in Clients, NEW j \in TgIds, TgSubscribeEffect(c, j) PROVE ReplicaNext
  BY <1>4, <1>8 DEF TgSubscribeEffect
<1>9. ASSUME NEW c \in Clients, NEW j \in TgIds, TgCreateAckEffect(c, j) PROVE ReplicaNext
  BY <1>4, <1>9 DEF TgCreateAckEffect, AckEffect
<1>10. ASSUME NEW c \in Clients, NEW j \in TgIds, TgDestroyAckEffect(c, j) PROVE ReplicaNext
  <2>1. /\ UNCHANGED <<streams, view>> /\ TgDestroyAck(j) \in acks[c]
        /\ \A i \in TgIds \ {j} : tgs'[i] = tgs[i]
    BY <1>10 DEF TgDestroyAckEffect, AckEffect
  <2>2. CASE tgs'[j].state = tgs[j].state
    BY <1>4, <2>1, <2>2
  <2>3. CASE Followers(tgs[j]) \subseteq {c} /\ tgs'[j] = FreeTg /\ tgs[j].state # NONE
    <3>1. tgs'[j].state = NONE
      BY <2>3 DEF FreeTg
    <3>2. HeldTgs' = HeldTgs \ {j} /\ j \in HeldTgs
      BY <2>1, <2>3, <3>1 DEF HeldTgs
    <3>3. KnownTgs' = KnownTgs
      BY <2>1 DEF KnownTgs, Stayers
    <3>4. ASSUME NEW d \in Stayers PROVE j \notin KnownTgs[d]
      <4>1. CASE d \in streams
        BY <4>1 DEF KnownTgs
      <4>2. CASE d \notin streams
        <5>1. tgs[j].folls[d] = NONE \/ TgDestroyAck(j) \in acks[d]
          BY <1>3, <2>1, <2>3 DEF Followers
        <5>2. j \notin view[d].tgs
          BY <4>2, <5>1, PhaseOfDatagrams
        <5> QED BY <4>2, <5>2 DEF KnownTgs
      <4> QED BY <4>1, <4>2
    <3> QED BY <3>2, <3>3, <3>4 DEF ReplicaNext
  <2>4. \/ tgs'[j].state = NONE /\ tgs[j].state = NONE
        \/ tgs'[j].state = tgs[j].state
        \/ Followers(tgs[j]) \subseteq {c} /\ tgs'[j] = FreeTg /\ tgs[j].state # NONE
    BY <1>10 DEF TgDestroyAckEffect, FreeTg
  <2> QED BY <2>2, <2>3, <2>4
<1>11. ASSUME NEW j \in TgIds, NEW t \in TagIds, NEW T, TagChange(j, t, T),
              UNCHANGED <<streams, view>>
       PROVE  ReplicaNext
  BY <1>4, <1>11 DEF TagChange
<1>12. ASSUME NEW c \in Clients, NEW j \in TgIds, NEW t \in TagIds,
              TagCreateAckEffect(c, j, t) \/ TagDestroyAckEffect(c, j, t)
       PROVE  ReplicaNext
  BY <1>11, <1>12 DEF TagCreateAckEffect, TagDestroyAckEffect, AckEffect
<1>13. ASSUME NEW c \in Clients, NEW m \in Cmds, DatagramEffect(c, m) PROVE ReplicaNext
  <2>1. /\ m \in net[c] /\ c \notin streams /\ UNCHANGED <<tgs, streams>>
        /\ \A d \in Clients \ {c} : view'[d] = view[d]
    BY <1>13 DEF DatagramEffect
  <2>2. CASE c \notin Stayers
    BY <1>3, <1>4, <2>1, <2>2
  <2>3. CASE c \in Stayers
    <3>1. \A i \in TgIds :
            /\ m = TgCreate(i) => i \in view'[c].tgs
            /\ m = TgDestroy(i) => i \notin view'[c].tgs
            /\ m # TgCreate(i) /\ m # TgDestroy(i) => (i \in view'[c].tgs <=> i \in view[c].tgs)
      BY <1>1, <1>13, LearnsTg
    <3>2. view[c].tgs \subseteq TgIds /\ view'[c].tgs \subseteq TgIds
      BY <1>1, <1>3, <2>3 DEF ServerInv, TypeOK
    <3>3. HeldTgs' = HeldTgs
      BY <2>1 DEF HeldTgs
    <3>4. KnownTgs' = [KnownTgs EXCEPT ![c] = view'[c].tgs] /\ KnownTgs[c] = view[c].tgs
      <4>1. KnownTgs' = [d \in Stayers |-> IF d \in streams THEN {} ELSE view'[d].tgs]
        BY <2>1 DEF KnownTgs, Stayers
      <4>2. ASSUME NEW d \in Stayers
            PROVE  (IF d \in streams THEN {} ELSE view'[d].tgs) =
                     [KnownTgs EXCEPT ![c] = view'[c].tgs][d]
        BY <1>3, <2>1, <2>3 DEF KnownTgs
      <4>3. [KnownTgs EXCEPT ![c] = view'[c].tgs] =
              [d \in Stayers |-> [KnownTgs EXCEPT ![c] = view'[c].tgs][d]]
        BY DEF KnownTgs
      <4> QED BY <2>1, <2>3, <4>1, <4>2, <4>3 DEF KnownTgs
    <3>5. CASE m.op = "TAGGROUP_CREATE"
      <4>1. PICK i \in TgIds : m = TgCreate(i)
        BY <3>5, CmdCases
      <4>2. view'[c].tgs = view[c].tgs \union {i}
        BY <3>1, <3>2, <4>1, CmdFields
      <4>3. i \in HeldTgs
        BY <2>1, <2>3, <4>1, PhaseOfDatagrams DEF HeldTgs
      <4> QED BY <2>3, <3>3, <3>4, <4>2, <4>3 DEF ReplicaNext
    <3>6. CASE m.op = "TAGGROUP_DESTROY"
      <4>1. PICK i \in TgIds : m = TgDestroy(i)
        BY <3>6, CmdCases
      <4>2. view'[c].tgs = view[c].tgs \ {i}
        BY <3>1, <3>2, <4>1, CmdFields
      <4> QED BY <2>3, <3>3, <3>4, <4>2 DEF ReplicaNext
    <3>7. CASE m.op # "TAGGROUP_CREATE" /\ m.op # "TAGGROUP_DESTROY"
      <4>1. \A i \in TgIds : m # TgCreate(i) /\ m # TgDestroy(i)
        BY <3>7, CmdFields
      <4>2. view'[c].tgs = view[c].tgs
        BY <3>1, <3>2, <4>1
      <4> QED BY <1>3, <1>4, <2>1, <4>2
    <3> QED BY <3>5, <3>6, <3>7
  <2> QED BY <2>2, <2>3
<1>14. ASSUME NEW c \in Clients, NEW m \in Cmds, SendEffect(c, m) PROVE ReplicaNext
  BY <1>4, <1>14 DEF SendEffect
<1>15. ASSUME NEW c \in Clients, NEW m \in Cmds, StreamEffect(c, m) PROVE ReplicaNext
  <2>1. /\ c \in streams /\ UNCHANGED <<tgs, streams>>
        /\ \A d \in Clients \ {c} : view'[d] = view[d]
    BY <1>15 DEF StreamEffect
  <2>2. KnownTgs' = [d \in Stayers |-> IF d \in streams THEN {} ELSE view'[d].tgs]
    BY <2>1 DEF KnownTgs, Stayers
  <2>3. HeldTgs' = HeldTgs /\ KnownTgs' = KnownTgs
    BY <1>3, <2>1, <2>2 DEF HeldTgs, KnownTgs
  <2> QED BY <2>3 DEF ReplicaNext
<1>16. ASSUME NEW j \in TgIds, TgCreateEffect(j) PROVE ReplicaNext
  <2>1. /\ UNCHANGED <<streams, view>> /\ tgs[j].state = NONE /\ tgs'[j].state # NONE
        /\ \A i \in TgIds \ {j} : tgs'[i] = tgs[i]
    BY <1>16 DEF TgCreateEffect, NONE, CREATING
  <2>2. HeldTgs' = HeldTgs \union {j} /\ j \notin HeldTgs
    BY <2>1 DEF HeldTgs
  <2>3. KnownTgs' = KnownTgs
    BY <2>1 DEF KnownTgs, Stayers
  <2>4. ASSUME NEW d \in Stayers PROVE j \notin KnownTgs[d]
    <3>1. CASE d \in streams
      BY <3>1 DEF KnownTgs
    <3>2. CASE d \notin streams
      <4>1. tgs[j].folls[d] = NONE
        BY <1>2, <1>3, <2>1 DEF TgSound
      <4>2. j \notin view[d].tgs
        BY <3>2, <4>1, PhaseOfDatagrams
      <4> QED BY <3>2, <4>2 DEF KnownTgs
    <3> QED BY <3>1, <3>2
  <2> QED BY <2>2, <2>3, <2>4 DEF ReplicaNext
<1>17. ASSUME NEW j \in TgIds, TgDestroyEffect(j) PROVE ReplicaNext
  BY <1>4, <1>17 DEF TgDestroyEffect, NONE, DELETING
<1>18. ASSUME NEW j \in TgIds, NEW t \in TagIds,
              \/ TagCreateEffect(j, t) \/ TagDestroyEffect(j, t)
              \/ \E v \in Values : TagSetEffect(j, t, v)
       PROVE  ReplicaNext
  BY <1>11, <1>18 DEF TagCreateEffect, TagDestroyEffect, TagSetEffect
<1>19. CASE UNCHANGED vars
  BY <1>4, <1>19 DEF vars
<1> QED BY <1>1, <1>5, <1>6, <1>7, <1>8, <1>9, <1>10, <1>12, <1>13, <1>14, <1>15, <1>16, <1>17, <1>18, <1>19
        DEF StepCases

(* The handlers of tag groups implement the promise of module Replication: *)
(* vs_handle_taggroup_create takes an id that no client that stays and     *)
(* uses datagrams takes for an older tag group, and                        *)
(* vs_handle_taggroup_destroy_ack frees a tag group only when none of them *)
(* knows it, in whatever order datagrams and acknowledgements arrive.      *)
THEOREM TagGroupsReplicate == Spec => ImplementsReplication
<1>1. Init => R!Init
  <2> SUFFICES ASSUME Init PROVE HeldTgs = {} /\ KnownTgs = [c \in Stayers |-> {}]
    BY DEF R!Init, HeldTgs, KnownTgs
  <2>1. HeldTgs = {}
    BY DEF Init, HeldTgs, FreeTg
  <2>2. \A c \in Stayers : view[c].tgs = {}
    BY StayersAre DEF Init, EmptyView
  <2> QED BY <2>1, <2>2 DEF KnownTgs
<1>2. ReplicaInv /\ [Next]_vars => [R!Next]_<<HeldTgs, KnownTgs>>
  <2> SUFFICES ASSUME ReplicaNext PROVE [R!Next]_<<HeldTgs, KnownTgs>>
    BY ReplicaNextStep
  <2>0. KnownTgs = [c \in Stayers |-> KnownTgs[c]]
    BY DEF KnownTgs
  <2>1. CASE HeldTgs' = HeldTgs /\ KnownTgs' = KnownTgs
    BY <2>1
  <2>2. ASSUME NEW i \in TgIds, KnownTgs' = KnownTgs, \A c \in Stayers : i \notin KnownTgs[c],
               i \notin HeldTgs, HeldTgs' = HeldTgs \union {i}
        PROVE  R!Next
    <3>1. HeldTgs' \ HeldTgs = {i}
      BY <2>2
    <3>2. R!Create(HeldTgs' \ HeldTgs)
      BY <2>2, <3>1 DEF R!Create, HeldTgs, KnownTgs
    <3> QED BY <3>2 DEF R!Next, HeldTgs
  <2>3. ASSUME NEW i \in TgIds, KnownTgs' = KnownTgs, \A c \in Stayers : i \notin KnownTgs[c],
               i \in HeldTgs, HeldTgs' = HeldTgs \ {i}
        PROVE  R!Next
    <3>1. HeldTgs \ HeldTgs' = {i}
      BY <2>3
    <3>2. R!Free(HeldTgs \ HeldTgs')
      BY <2>3, <3>1 DEF R!Free, HeldTgs, KnownTgs
    <3> QED BY <3>2 DEF R!Next, HeldTgs
  <2>4. ASSUME NEW c \in Stayers, NEW i \in TgIds, HeldTgs' = HeldTgs, i \in HeldTgs,
               KnownTgs' = [KnownTgs EXCEPT ![c] = KnownTgs[c] \union {i}]
        PROVE  R!Next
    <3>1. R!Learn(c, i)
      BY <2>4 DEF R!Learn, HeldTgs, KnownTgs
    <3> QED BY <3>1 DEF R!Next
  <2>5. ASSUME NEW c \in Stayers, NEW i \in TgIds, HeldTgs' = HeldTgs,
               KnownTgs' = [KnownTgs EXCEPT ![c] = KnownTgs[c] \ {i}]
        PROVE  R!Next
    <3>1. KnownTgs'[c] = KnownTgs[c] \ {i}
      BY <2>0, <2>5
    <3>2. KnownTgs[c] \ (KnownTgs[c] \ KnownTgs'[c]) = KnownTgs[c] \ {i}
      BY <3>1
    <3>3. KnownTgs' = [KnownTgs EXCEPT ![c] = KnownTgs[c] \ (KnownTgs[c] \ KnownTgs'[c])]
      BY <2>5, <3>2
    <3>4. R!Forget(c, KnownTgs[c] \ KnownTgs'[c])
      BY <2>5, <3>3 DEF R!Forget, HeldTgs, KnownTgs
    <3> QED BY <3>4 DEF R!Next, KnownTgs
  <2> QED BY <2>1, <2>2, <2>3, <2>4, <2>5 DEF ReplicaNext
<1> QED BY <1>1, <1>2, ReplicaAlways, PTL DEF Spec, ImplementsReplication, R!Spec, HeldTgs, KnownTgs

-----------------------------------------------------------------------------
(* The clients and the server agree on tag groups, tags and their values.  *)

(* What a client that stays knows of the tags of the first tag group with  *)
(* an id.                                                                  *)

(* The tags that client c knows.                                           *)
KnownTags(c, i) == {t \in TagIds : view[c].tags[i][t] # UNKNOWN}

(* Does client c know tag group i when the commands sent have arrived, and *)
(* is it the first one with the id?                                        *)
WillKnow(c, i) == Outcome(wire[c], TgCreate(i), TgDestroy(i), i, view[c].tgs)
Current(c, i)  == uses[i] = 1 /\ WillKnow(c, i)

(* Client c has heard nothing of tag group i: at most the create command   *)
(* is on its way.                                                          *)
Unheard(c, i) ==
  /\ \A m \in Held(c) : m.tg = i => m = TgCreate(i)
  /\ \A m \in ToSet(wire[c]) : m.tg # i
  /\ \A a \in acks[c] : a.tg # i
  /\ i \notin view[c].tgs /\ c \notin tgs[i].subs

NotTold(c, i) ==
  uses[i] = 0 \/ c \notin node_subs \/ (uses[i] = 1 /\ TgCreate(i) \in Held(c))

FirstUse(c, i) ==
  /\ uses[i] = 0 => tgs[i].state = NONE /\ tgs[i].subs = {}
  /\ NotTold(c, i) => Unheard(c, i)
  /\ Current(c, i) => TgDestroy(i) \notin ToSet(wire[c])
  /\ Current(c, i) /\ c \in tgs[i].subs => i \in view[c].tgs
  /\ i \notin view[c].tgs => KnownTags(c, i) = {}

(* A client that has not subscribed to tag group i gets nothing about its  *)
(* tags.                                                                   *)
NoTagNews(c, i) ==
  c \notin tgs[i].subs => \A m \in Held(c) \union ToSet(wire[c]) : m.tg = i => m.tag = NoTag

TagPhase(c, i, t) ==
  Tracked(Held(c), out_queue[c], wire[c], acks[c], tgs[i].tags[t].folls[c], TagCreate(i, t),
          TagDestroy(i, t), TagCreateAck(i, t), TagDestroyAck(i, t), t, KnownTags(c, i))

(* The commands about tag t.                                               *)
NewsOf(i, t) == {m \in Cmds : m.tg = i /\ m.tag = t}

(* The value of a tag that is set reaches the clients that know the tag.   *)
ValueSound(c, i, t) ==
  LET tag == tgs[i].tags[t]
      now == view[c].tags[i][t]
  IN tag.value # UNSET =>
       /\ c \notin streams =>
            /\ \A m \in net[c] : m \in NewsOf(i, t) /\ m.op = "TAG_SET" => m.value = tag.value
            /\ tag.folls[c] = CREATED => TagSet(i, t, tag.value) \in net[c] \/ now = tag.value
       /\ c \in streams /\ tag.folls[c] = CREATED =>
            Settles(wire[c] \o out_queue[c], TagSet(i, t, tag.value), NewsOf(i, t), tag.value, now)

TagsInv(c, i) ==
  /\ FirstUse(c, i)
  /\ Current(c, i) =>
       NoTagNews(c, i) /\ \A t \in TagIds : TagPhase(c, i, t) /\ ValueSound(c, i, t)

AgreeInv == ReplicaInv /\ \A c \in Stayers, i \in TgIds : TagsInv(c, i)

LEMMA UnheardUnknown ==
  ASSUME NEW c, NEW i, Unheard(c, i)
  PROVE  ~WillKnow(c, i)
<1>1. \A k \in DOMAIN wire[c] : wire[c][k].tg # i
  BY DEF Unheard, ToSet
<1> QED BY <1>1, CmdFields DEF WillKnow, Outcome, Unheard

-----------------------------------------------------------------------------
(* Handlers and the tags of one tag group.                                 *)

TagTransition(c, i, t, out) ==
  Transition(tgs[i].tags[t].folls[c], tgs'[i].tags[t].folls[c], ToSet(out[c]), acks[c], acks'[c],
             TagCreate(i, t), TagDestroy(i, t), TagCreateAck(i, t), TagDestroyAck(i, t))

LEMMA TagPhasePushed ==
  ASSUME ServerInv, NEW out \in [Clients -> Seq(Cmds)], Push(out), NEW c \in Clients,
         NEW i \in TgIds, NEW t \in TagIds, TagPhase(c, i, t), TagTransition(c, i, t, out),
         wire'[c] = wire[c], view'[c] = view[c],
         Once(out[c], TagCreate(i, t)), Once(out[c], TagDestroy(i, t))
  PROVE  TagPhase(c, i, t)'
<1>1. PICK H, I, q, r, w, A, B, f, g, o, V :
        /\ H = Held(c) /\ I = Held(c)' /\ q = out_queue[c] /\ r = out_queue'[c] /\ w = wire[c]
        /\ A = acks[c] /\ B = acks'[c] /\ f = tgs[i].tags[t].folls[c] /\ g = tgs'[i].tags[t].folls[c]
        /\ o = ToSet(out[c]) /\ V = KnownTags(c, i)
  OBVIOUS
<1>2. PICK create, destroy, created, destroyed :
        /\ create = TagCreate(i, t) /\ destroy = TagDestroy(i, t)
        /\ created = TagCreateAck(i, t) /\ destroyed = TagDestroyAck(i, t)
  OBVIOUS
<1>3. create.op # "TAG_SET" /\ destroy.op # "TAG_SET"
  BY <1>2, CmdFields
<1>4. Queued(H, I, q, r, o, create) /\ Queued(H, I, q, r, o, destroy)
  BY <1>1, <1>2, <1>3, PushQueued
<1>5. Tracked(H, q, w, A, f, create, destroy, created, destroyed, t, V)
  BY <1>1, <1>2 DEF TagPhase
<1>6. Transition(f, g, o, A, B, create, destroy, created, destroyed)
  BY <1>1, <1>2 DEF TagTransition
<1>7. Tracked(I, r, w, B, g, create, destroy, created, destroyed, t, V)
  BY <1>4, <1>5, <1>6, TrackedQueued
<1>8. w = wire'[c] /\ V = KnownTags(c, i)'
  BY <1>1 DEF KnownTags
<1> QED BY <1>1, <1>2, <1>7, <1>8 DEF TagPhase

(* A newer value of a tag replaces the older one on its way.               *)
LEMMA PushNet ==
  ASSUME ServerInv, NEW out \in [Clients -> Seq(Cmds)], Push(out), NEW c \in Clients,
         c \notin streams
  PROVE  \A m : m \in net'[c] <=>
           m \in ToSet(out[c]) \/ (m \in net[c] /\ \A x \in ToSet(out[c]) : ~SameTag(m, x))
<1>1. net'[c] = {m \in net[c] : \A k \in DOMAIN out[c] : ~SameTag(m, out[c][k])}
                  \union ToSet(out[c])
  BY DEF Push
<1> QED BY <1>1 DEF ToSet

(* What a handler may do to the value of tag t as seen by client c.        *)
ValueStep(c, i, t, out) ==
  LET tag == tgs[i].tags[t]
      new == tgs'[i].tags[t]
  IN \/ new.value = UNSET
     \/ c \notin tgs'[i].subs
     \/ out[c] = <<TagSet(i, t, new.value)>> /\ new.value \in Values
     \/ /\ new.value = tag.value
        /\ new.folls[c] = CREATED =>
             tag.folls[c] = CREATED /\ \A m \in ToSet(out[c]) : m \notin NewsOf(i, t)
        /\ \A m \in ToSet(out[c]) :
             m \in NewsOf(i, t) /\ m.op = "TAG_SET" => m.value = tag.value

LEMMA ValuePushed ==
  ASSUME ServerInv, ServerInv', NEW out \in [Clients -> Seq(Cmds)], Push(out), NEW c \in Clients,
         NEW i \in TgIds, NEW t \in TagIds, wire'[c] = wire[c], view'[c] = view[c],
         streams' = streams, ValueSound(c, i, t), ValueStep(c, i, t, out), NoTagNews(c, i)'
  PROVE  ValueSound(c, i, t)'
<1>1. PICK f, g, val, new, now, X :
        /\ f = tgs[i].tags[t].folls[c] /\ g = tgs'[i].tags[t].folls[c]
        /\ val = tgs[i].tags[t].value /\ new = tgs'[i].tags[t].value
        /\ now = view[c].tags[i][t] /\ X = NewsOf(i, t)
  OBVIOUS
<1>2. /\ val \in Values \union {UNSET} /\ new \in Values \union {UNSET}
      /\ g # NONE => c \in tgs'[i].subs
      /\ out_queue[c] \in Seq(Cmds) /\ wire[c] \in Seq(Cmds) /\ out[c] \in Seq(Cmds)
      /\ net'[c] \subseteq Cmds
  <2>1. TgSound(tgs[i], node_subs) /\ TgSound(tgs[i], node_subs)'
    BY DEF ServerInv
  <2>2. TagSound(tgs[i].tags[t], tgs[i].subs) /\ TagSound(tgs'[i].tags[t], tgs'[i].subs)
    BY <2>1 DEF TgSound
  <2>3. /\ out_queue[c] \in Seq(Cmds) /\ wire[c] \in Seq(Cmds) /\ out[c] \in Seq(Cmds)
        /\ net'[c] \subseteq Cmds
    BY DEF ServerInv, TypeOK
  <2> QED BY <1>1, <2>2, <2>3 DEF TagSound, TagType
<1> DEFINE Datagram == /\ \A m \in net'[c] : m \in X /\ m.op = "TAG_SET" => m.value = new
                       /\ g = CREATED => TagSet(i, t, new) \in net'[c] \/ now = new
           Stream == g = CREATED => Settles(wire[c] \o out_queue'[c], TagSet(i, t, new), X, new, now)
<1>3. SUFFICES ASSUME new # UNSET
               PROVE  (c \notin streams => Datagram) /\ (c \in streams => Stream)
  BY <1>1 DEF ValueSound, NewsOf, Cmds
<1>4. ASSUME c \notin streams
      PROVE  \A m : m \in net'[c] <=>
               m \in ToSet(out[c]) \/ (m \in net[c] /\ \A x \in ToSet(out[c]) : ~SameTag(m, x))
  BY <1>4, PushNet
<1>5. ASSUME c \in streams PROVE out_queue'[c] = out_queue[c] \o out[c]
  BY <1>5, PushEffect DEF ServerInv
<1>6. CASE c \notin tgs'[i].subs
  <2>1. g # CREATED
    BY <1>2, <1>6 DEF NONE, CREATED
  <2>2. \A m \in net'[c] : m \notin X
    <3>1. NoTag \notin TagIds
      BY DEF NoTag, TagIds
    <3>2. \A m \in net'[c] : m.tg = i => m.tag = NoTag
      BY <1>6 DEF NoTagNews, Held
    <3> QED BY <1>1, <3>1, <3>2 DEF NewsOf
  <2> QED BY <2>1, <2>2
<1>7. CASE out[c] = <<TagSet(i, t, new)>> /\ new \in Values
  <2>1. PICK x : x = TagSet(i, t, new)
    OBVIOUS
  <2>2. /\ x \in Cmds /\ x.op = "TAG_SET" /\ x.tg = i /\ x.tag = t /\ x.value = new
        /\ ToSet(out[c]) = {x} /\ out[c] = <<x>>
    BY <1>7, <2>1, CmdsHold, CmdFields DEF ToSet
  <2>3. ASSUME c \notin streams PROVE Datagram
    <3>1. x \in net'[c]
      BY <1>4, <2>2, <2>3
    <3>2. ASSUME NEW m \in net'[c], m \in X, m.op = "TAG_SET" PROVE m.value = new
      <4>1. SameTag(m, x)
        BY <1>1, <2>2, <3>2 DEF SameTag, NewsOf
      <4>2. m = x
        BY <1>4, <2>2, <2>3, <3>2, <4>1
      <4> QED BY <2>2, <4>2
    <3> QED BY <2>1, <3>1, <3>2
  <2>4. ASSUME c \in streams PROVE Stream
    <3>1. wire[c] \o (out_queue[c] \o <<x>>) = (wire[c] \o out_queue[c]) \o <<x>>
      <4>1. PICK w, q, o : w = wire[c] /\ q = out_queue[c] /\ o = <<x>>
        OBVIOUS
      <4>2. w \in Seq(Cmds) /\ q \in Seq(Cmds) /\ o \in Seq(Cmds)
        BY <1>2, <2>2, <4>1
      <4>3. w \o (q \o o) = (w \o q) \o o
        BY <4>2, ConcatAssociative
      <4> QED BY <4>1, <4>3
    <3>2. PICK s : s = wire[c] \o out_queue[c]
      OBVIOUS
    <3>3. s \in Seq(Cmds)
      BY <1>2, <3>2, ConcatProperties
    <3>4. Settles(s \o <<x>>, x, X, new, now)
      BY <2>2, <3>3, SettlesLast
    <3> QED BY <1>5, <2>1, <2>2, <2>4, <3>1, <3>2, <3>4
  <2> QED BY <2>3, <2>4
<1>8. ASSUME new = val,
             g = CREATED => f = CREATED /\ \A m \in ToSet(out[c]) : m \notin X,
             \A m \in ToSet(out[c]) : m \in X /\ m.op = "TAG_SET" => m.value = val
      PROVE  (c \notin streams => Datagram) /\ (c \in streams => Stream)
  <2>1. ASSUME c \notin streams PROVE Datagram
    <3>1. /\ \A m \in net[c] : m \in X /\ m.op = "TAG_SET" => m.value = val
          /\ f = CREATED => TagSet(i, t, val) \in net[c] \/ now = val
      BY <1>1, <1>3, <1>8, <2>1 DEF ValueSound
    <3>2. \A m \in net'[c] : m \in X /\ m.op = "TAG_SET" => m.value = new
      BY <1>4, <1>8, <2>1, <3>1
    <3>3. ASSUME g = CREATED, TagSet(i, t, val) \in net[c] PROVE TagSet(i, t, val) \in net'[c]
      <4>1. ASSUME NEW x \in ToSet(out[c]), SameTag(TagSet(i, t, val), x) PROVE FALSE
        <5>1. x \in Cmds
          BY <1>2 DEF ToSet
        <5>2. x \in X
          BY <1>1, <4>1, <5>1, CmdFields DEF SameTag, NewsOf
        <5> QED BY <1>8, <3>3, <4>1, <5>2
      <4> QED BY <1>4, <2>1, <3>3, <4>1
    <3> QED BY <1>8, <3>1, <3>2, <3>3
  <2>2. ASSUME c \in streams, g = CREATED
        PROVE  Settles(wire[c] \o out_queue'[c], TagSet(i, t, new), X, new, now)
    <3>1. PICK s, x : s = wire[c] \o out_queue[c] /\ x = TagSet(i, t, new)
      OBVIOUS
    <3>2. Settles(s, x, X, new, now)
      BY <1>1, <1>3, <1>8, <2>2, <3>1 DEF ValueSound
    <3>3. s \in Seq(Cmds)
      BY <1>2, <3>1, ConcatProperties
    <3>4. wire[c] \o (out_queue[c] \o out[c]) = s \o out[c]
      <4>1. PICK w, q, o : w = wire[c] /\ q = out_queue[c] /\ o = out[c]
        OBVIOUS
      <4>2. w \in Seq(Cmds) /\ q \in Seq(Cmds) /\ o \in Seq(Cmds)
        BY <1>2, <4>1
      <4>3. w \o (q \o o) = (w \o q) \o o
        BY <4>2, ConcatAssociative
      <4> QED BY <3>1, <4>1, <4>3
    <3>5. Settles(s \o out[c], x, X, new, now)
      BY <1>2, <1>8, <2>2, <3>2, <3>3, SettlesFrame
    <3> QED BY <1>5, <2>2, <3>1, <3>4, <3>5
  <2> QED BY <2>1, <2>2
<1> QED BY <1>1, <1>3, <1>6, <1>7, <1>8 DEF ValueStep

(* What a handler that queues out may do to client c and tag group i.      *)
HandlerKept(c, i, out) ==
  /\ out \in [Clients -> Seq(Cmds)] /\ Push(out) /\ \A m : Once(out[c], m)
  /\ wire'[c] = wire[c] /\ view'[c] = view[c] /\ streams' = streams
  /\ acks'[c] \subseteq acks[c]
  /\ c \in node_subs => c \in node_subs'
  /\ uses'[i] = uses[i] \/ uses'[i] = 2 \/ uses[i] = 0
  /\ uses'[i] = 0 => uses[i] = 0 /\ tgs'[i].state = NONE /\ tgs'[i].subs = {}
  /\ TgCreate(i) \in ToSet(out[c]) => c \notin node_subs \/ uses[i] = 0 \/ uses'[i] = 2
  /\ c \in tgs'[i].subs => c \in tgs[i].subs \/ i \in view[c].tgs
  /\ Unheard(c, i) => \A m \in ToSet(out[c]) : m.tg = i => m = TgCreate(i)
  /\ Current(c, i) /\ uses'[i] = 1 =>
       /\ c \in tgs[i].subs => c \in tgs'[i].subs
       /\ \A m \in ToSet(out[c]) : m.tg = i /\ m.tag # NoTag => c \in tgs'[i].subs
       /\ \A t \in TagIds : TagTransition(c, i, t, out) /\ ValueStep(c, i, t, out)

LEMMA HandlerKeeps ==
  ASSUME ReplicaInv, ReplicaInv', NEW c \in Stayers, NEW i \in TgIds, TagsInv(c, i),
         NEW out, HandlerKept(c, i, out)
  PROVE  TagsInv(c, i)'
<1>1. ServerInv /\ ServerInv' /\ c \in Clients
  BY StayersAre DEF ReplicaInv
<1>2. /\ out \in [Clients -> Seq(Cmds)] /\ Push(out) /\ \A m : Once(out[c], m)
      /\ wire'[c] = wire[c] /\ view'[c] = view[c] /\ streams' = streams
      /\ acks'[c] \subseteq acks[c]
  BY DEF HandlerKept
<1>3. /\ \A m \in Held(c)' : m \in Held(c) \/ m \in ToSet(out[c])
  BY <1>1, <1>2, PushEffect DEF ServerInv
<1>4. FirstUse(c, i)
  BY DEF TagsInv
<1>5. WillKnow(c, i)' <=> WillKnow(c, i)
  BY <1>2 DEF WillKnow
<1>6. KnownTags(c, i)' = KnownTags(c, i)
  BY <1>2 DEF KnownTags
<1>7. NotTold(c, i)' => NotTold(c, i)
  BY <1>3 DEF NotTold, HandlerKept
<1>8. ASSUME NotTold(c, i)' PROVE Unheard(c, i)'
  <2>1. Unheard(c, i)
    BY <1>4, <1>7, <1>8 DEF FirstUse
  <2>2. \A m \in ToSet(out[c]) : m.tg = i => m = TgCreate(i)
    BY <2>1 DEF HandlerKept
  <2>3. c \notin tgs'[i].subs
    BY <2>1 DEF HandlerKept, Unheard
  <2> QED BY <1>2, <1>3, <2>1, <2>2, <2>3 DEF Unheard
<1>9. ASSUME Current(c, i)' PROVE Current(c, i) /\ uses'[i] = 1
  <2>1. uses'[i] = 1 /\ WillKnow(c, i)
    BY <1>5, <1>9 DEF Current
  <2>2. uses[i] # 0
    BY <1>4, <2>1, UnheardUnknown DEF FirstUse, NotTold
  <2>3. uses[i] = 1
    BY <2>1, <2>2 DEF HandlerKept
  <2> QED BY <2>1, <2>3 DEF Current
<1>10. FirstUse(c, i)'
  <2>1. uses'[i] = 0 => tgs'[i].state = NONE /\ tgs'[i].subs = {}
    BY DEF HandlerKept
  <2>2. Current(c, i)' => TgDestroy(i) \notin ToSet(wire'[c])
    BY <1>2, <1>4, <1>9 DEF FirstUse
  <2>3. Current(c, i)' /\ c \in tgs'[i].subs => i \in view'[c].tgs
    BY <1>2, <1>4, <1>9 DEF FirstUse, HandlerKept
  <2>4. i \notin view'[c].tgs => KnownTags(c, i)' = {}
    BY <1>2, <1>4, <1>6 DEF FirstUse
  <2> QED BY <1>8, <2>1, <2>2, <2>3, <2>4 DEF FirstUse
<1>11. ASSUME Current(c, i)'
       PROVE  NoTagNews(c, i)' /\ \A t \in TagIds : TagPhase(c, i, t)' /\ ValueSound(c, i, t)'
  <2>1. /\ NoTagNews(c, i) /\ \A t \in TagIds : TagPhase(c, i, t) /\ ValueSound(c, i, t)
        /\ c \in tgs[i].subs => c \in tgs'[i].subs
        /\ \A m \in ToSet(out[c]) : m.tg = i /\ m.tag # NoTag => c \in tgs'[i].subs
        /\ \A t \in TagIds : TagTransition(c, i, t, out) /\ ValueStep(c, i, t, out)
    BY <1>9, <1>11 DEF TagsInv, HandlerKept
  <2>2. NoTagNews(c, i)'
    BY <1>2, <1>3, <2>1 DEF NoTagNews
  <2>3. ASSUME NEW t \in TagIds PROVE TagPhase(c, i, t)'
    BY <1>1, <1>2, <2>1, TagPhasePushed
  <2>4. ASSUME NEW t \in TagIds PROVE ValueSound(c, i, t)'
    BY <1>1, <1>2, <2>1, <2>2, ValuePushed
  <2> QED BY <2>2, <2>3, <2>4
<1>12. TagIds = TagIds'
  BY DEF TagIds
<1> QED BY <1>10, <1>11, <1>12 DEF TagsInv

(* A handler that does not concern tag t, and one that does not concern    *)
(* tag group i, as seen by client c.                                       *)
TagFrame(c, i, t, out) ==
  /\ tgs'[i].tags[t].folls[c] = tgs[i].tags[t].folls[c]
  /\ tgs'[i].tags[t].value = tgs[i].tags[t].value
  /\ \A m \in ToSet(out[c]) : m.tg = i => m.tag # t
  /\ TagCreateAck(i, t) \in acks'[c] <=> TagCreateAck(i, t) \in acks[c]
  /\ TagDestroyAck(i, t) \in acks'[c] <=> TagDestroyAck(i, t) \in acks[c]

LEMMA TagFrameKept ==
  ASSUME NEW c, NEW i, NEW t, NEW out, TagFrame(c, i, t, out)
  PROVE  TagTransition(c, i, t, out) /\ ValueStep(c, i, t, out)
<1>1. TagCreate(i, t) \notin ToSet(out[c]) /\ TagDestroy(i, t) \notin ToSet(out[c])
  BY CmdFields DEF TagFrame
<1>2. \A m \in ToSet(out[c]) : m \notin NewsOf(i, t)
  BY DEF TagFrame, NewsOf
<1>3. ValueStep(c, i, t, out)
  BY <1>2 DEF ValueStep, TagFrame
<1>4. TagTransition(c, i, t, out)
  BY <1>1 DEF TagTransition, Transition, TagFrame
<1> QED BY <1>3, <1>4

TgUntouched(c, i, out) ==
  /\ out \in [Clients -> Seq(Cmds)] /\ Push(out) /\ \A m : Once(out[c], m)
  /\ wire'[c] = wire[c] /\ view'[c] = view[c] /\ streams' = streams
  /\ acks'[c] \subseteq acks[c] /\ \A a \in acks[c] : a.tg = i => a \in acks'[c]
  /\ node_subs' = node_subs /\ uses'[i] = uses[i] /\ tgs'[i] = tgs[i]
  /\ \A m \in ToSet(out[c]) : m.tg # i

LEMMA TgUntouchedKept ==
  ASSUME NEW c \in Clients, NEW i \in TgIds, NEW out, TgUntouched(c, i, out), FirstUse(c, i)
  PROVE  HandlerKept(c, i, out)
<1>1. ASSUME NEW t \in TagIds PROVE TagFrame(c, i, t, out)
  BY FakeCmdFields DEF TgUntouched, TagFrame
<1>2. \A t \in TagIds : TagTransition(c, i, t, out) /\ ValueStep(c, i, t, out)
  BY <1>1, TagFrameKept
<1>3. TgCreate(i) \notin ToSet(out[c])
  BY CmdFields DEF TgUntouched
<1>4. uses'[i] = 0 => uses[i] = 0 /\ tgs'[i].state = NONE /\ tgs'[i].subs = {}
  BY DEF TgUntouched, FirstUse
<1> QED BY <1>2, <1>3, <1>4 DEF HandlerKept, TgUntouched

(* A handler that leaves the tags of tag group i alone, as seen by d.      *)
TagsSame(d, i, out) ==
  /\ out \in [Clients -> Seq(Cmds)] /\ Push(out) /\ \A m : Once(out[d], m)
  /\ wire'[d] = wire[d] /\ view'[d] = view[d] /\ streams' = streams
  /\ d \in node_subs => d \in node_subs'
  /\ uses'[i] = uses[i] /\ (tgs'[i].state = NONE <=> tgs[i].state = NONE)
  /\ tgs[i].subs = {} /\ tgs[i].state = NONE => tgs'[i].subs = {}
  /\ d \in tgs'[i].subs <=> d \in tgs[i].subs
  /\ acks'[d] \subseteq acks[d]
  /\ \A t \in TagIds :
       /\ tgs'[i].tags[t].folls[d] = tgs[i].tags[t].folls[d]
       /\ tgs'[i].tags[t].value = tgs[i].tags[t].value
       /\ TagCreateAck(i, t) \in acks[d] => TagCreateAck(i, t) \in acks'[d]
       /\ TagDestroyAck(i, t) \in acks[d] => TagDestroyAck(i, t) \in acks'[d]
  /\ \A m \in ToSet(out[d]) : m.tg = i => m.tag = NoTag
  /\ Unheard(d, i) => \A m \in ToSet(out[d]) : m.tg = i => m = TgCreate(i)
  /\ TgCreate(i) \in ToSet(out[d]) => d \notin node_subs

LEMMA TagsSameKept ==
  ASSUME NEW d \in Clients, NEW i \in TgIds, NEW out, TagsSame(d, i, out), FirstUse(d, i)
  PROVE  HandlerKept(d, i, out)
<1>0. NoTag \notin TagIds
  BY DEF NoTag, TagIds
<1>1. ASSUME NEW t \in TagIds PROVE TagFrame(d, i, t, out)
  BY <1>0 DEF TagsSame, TagFrame
<1>2. \A t \in TagIds : TagTransition(d, i, t, out) /\ ValueStep(d, i, t, out)
  BY <1>1, TagFrameKept
<1>3. uses'[i] = 0 => uses[i] = 0 /\ tgs'[i].state = NONE /\ tgs'[i].subs = {}
  BY DEF TagsSame, FirstUse
<1> QED BY <1>2, <1>3 DEF HandlerKept, TagsSame

(* A handler that concerns tag t of tag group j, as seen by client d.      *)
TagTouched(d, j, t, out) ==
  /\ out \in [Clients -> Seq(Cmds)] /\ Push(out) /\ \A m : Once(out[d], m)
  /\ UNCHANGED <<streams, wire, view, uses, node_subs>>
  /\ acks'[d] \subseteq acks[d]
  /\ \A a \in acks[d] : a.tg # j \/ a.tag # t => a \in acks'[d]
  /\ \E T : TagChange(j, t, T)
  /\ \A m \in ToSet(out[d]) : m.tg = j /\ m.tag = t /\ d \in tgs[j].subs

LEMMA TagTouchedKept ==
  ASSUME NEW d \in Clients, NEW i \in TgIds, NEW j \in TgIds, NEW t \in TagIds, NEW out,
         TagTouched(d, j, t, out), FirstUse(d, i),
         i = j /\ Current(d, i) => TagTransition(d, i, t, out) /\ ValueStep(d, i, t, out)
  PROVE  HandlerKept(d, i, out)
<1>0. t # NoTag
  BY DEF NoTag, TagIds
<1>1. PICK T : TagChange(j, t, T)
  BY DEF TagTouched
<1>2. CASE i # j
  <2>1. tgs'[i] = tgs[i]
    BY <1>1, <1>2 DEF TagChange
  <2>2. TgUntouched(d, i, out)
    BY <1>2, <2>1 DEF TgUntouched, TagTouched
  <2> QED BY <2>2, TgUntouchedKept
<1>3. CASE i = j
  <2>1. tgs'[i].state = tgs[i].state /\ tgs'[i].subs = tgs[i].subs
    BY <1>1, <1>3 DEF TagChange
  <2>2. ASSUME NEW x \in TagIds, x # t PROVE TagTransition(d, i, x, out) /\ ValueStep(d, i, x, out)
    <3>1. tgs'[i].tags[x] = tgs[i].tags[x]
      BY <1>1, <1>3, <2>2 DEF TagChange
    <3>2. TagFrame(d, i, x, out)
      BY <1>3, <2>2, <3>1, FakeCmdFields DEF TagTouched, TagFrame
    <3> QED BY <3>2, TagFrameKept
  <2>3. Current(d, i) => \A x \in TagIds : TagTransition(d, i, x, out) /\ ValueStep(d, i, x, out)
    BY <1>3, <2>2
  <2>4. TgCreate(i) \notin ToSet(out[d])
    BY <1>0, CmdFields DEF TagTouched
  <2>5. uses'[i] = 0 => uses[i] = 0 /\ tgs'[i].state = NONE /\ tgs'[i].subs = {}
    BY <2>1 DEF TagTouched, FirstUse
  <2>6. Unheard(d, i) => \A m \in ToSet(out[d]) : m.tg = i => m = TgCreate(i)
    BY <1>3 DEF Unheard, TagTouched
  <2>7. \A m \in ToSet(out[d]) : d \in tgs'[i].subs
    BY <1>3, <2>1 DEF TagTouched
  <2> QED BY <2>1, <2>3, <2>4, <2>5, <2>6, <2>7 DEF HandlerKept, TagTouched
<1> QED BY <1>2, <1>3

-----------------------------------------------------------------------------
(* Every handler keeps what a client that stays knows.                     *)

LEMMA TagSoundAt ==
  ASSUME ServerInv, NEW d \in Clients, NEW i \in TgIds, NEW t \in TagIds
  PROVE  /\ tgs[i].tags[t].folls[d] # NONE =>
              d \in tgs[i].subs /\ tgs[i].tags[t].state # NONE
         /\ tgs[i].tags[t].value \in Values \union {UNSET}
         /\ tgs[i].folls[d] # NONE => tgs[i].state # NONE
<1>1. TgSound(tgs[i], node_subs)
  BY DEF ServerInv
<1>2. TagSound(tgs[i].tags[t], tgs[i].subs)
  BY <1>1 DEF TgSound
<1> QED BY <1>1, <1>2 DEF TgSound, TagSound, TagType

LEMMA TagCreateKept ==
  ASSUME ServerInv, NEW d \in Clients, NEW i \in TgIds, FirstUse(d, i),
         NEW j \in TgIds, NEW t \in TagIds, TagCreateEffect(j, t)
  PROVE  \E out : HandlerKept(d, i, out)
<1>1. PICK T : /\ TagChange(j, t, T) /\ T.value = UNSET
               /\ \A x \in Clients : T.folls[x] = IF x \in tgs[j].subs THEN CREATING ELSE NONE
  BY DEF TagCreateEffect
<1>2. PICK out, C : out = OneFor(C, TagCreate(j, t)) /\ C = tgs[j].subs
  OBVIOUS
<1>3. GetsOne(out, d, C, TagCreate(j, t))
  BY <1>2, CmdsHold, OneForFields
<1>4. /\ out \in [Clients -> Seq(Cmds)] /\ \A x : Once(out[d], x)
      /\ \A x : x \in ToSet(out[d]) <=> x = TagCreate(j, t) /\ d \in tgs[j].subs
      /\ Push(out) /\ UNCHANGED <<streams, wire, acks, node_subs, view, uses>>
      /\ tgs[j].tags[t].state = NONE
  BY <1>2, <1>3 DEF GetsOne, TagCreateEffect
<1>5. TagTouched(d, j, t, out)
  BY <1>1, <1>4, CmdFields DEF TagTouched
<1>6. tgs[j].tags[t].folls[d] = NONE
  BY <1>4, TagSoundAt
<1>7. tgs'[j].tags[t] = T
  BY <1>1 DEF TagChange
<1>8. TagTransition(d, j, t, out)
  <2>1. TagDestroy(j, t) \notin ToSet(out[d])
    BY <1>4, CmdFields
  <2> QED BY <1>1, <1>4, <1>6, <1>7, <2>1 DEF TagTransition, Transition, NONE, CREATING
<1>9. ValueStep(d, j, t, out)
  BY <1>1, <1>7 DEF ValueStep
<1> QED BY <1>5, <1>8, <1>9, TagTouchedKept

LEMMA TagDestroyKept ==
  ASSUME ServerInv, NEW d \in Clients, NEW i \in TgIds, FirstUse(d, i),
         NEW j \in TgIds, NEW t \in TagIds, TagDestroyEffect(j, t)
  PROVE  \E out : HandlerKept(d, i, out)
<1>1. PICK T : /\ TagChange(j, t, T) /\ T.value = tgs[j].tags[t].value
               /\ \A x \in Clients : T.folls[x] =
                    IF tgs[j].tags[t].folls[x] = CREATED THEN DELETING ELSE tgs[j].tags[t].folls[x]
  BY DEF TagDestroyEffect
<1>2. PICK out, C : out = OneFor(C, TagDestroy(j, t)) /\ C = Destroyable(tgs[j].tags[t])
  OBVIOUS
<1>3. GetsOne(out, d, C, TagDestroy(j, t))
  BY <1>2, CmdsHold, OneForFields
<1>4. /\ out \in [Clients -> Seq(Cmds)] /\ \A x : Once(out[d], x)
      /\ \A x : x \in ToSet(out[d]) <=> x = TagDestroy(j, t) /\ tgs[j].tags[t].folls[d] = CREATED
      /\ Push(out) /\ UNCHANGED <<streams, wire, acks, node_subs, view, uses>>
  BY <1>2, <1>3 DEF GetsOne, TagDestroyEffect, Destroyable
<1>5. tgs[j].tags[t].folls[d] = CREATED => d \in tgs[j].subs
  BY TagSoundAt DEF NONE, CREATED
<1>6. TagTouched(d, j, t, out)
  BY <1>1, <1>4, <1>5, CmdFields DEF TagTouched
<1>7. tgs'[j].tags[t] = T
  BY <1>1 DEF TagChange
<1>8. TagTransition(d, j, t, out)
  <2>1. TagCreate(j, t) \notin ToSet(out[d])
    BY <1>4, CmdFields
  <2> QED BY <1>1, <1>4, <1>7, <2>1 DEF TagTransition, Transition, CREATED, DELETING
<1>9. ValueStep(d, j, t, out)
  <2>1. T.folls[d] # CREATED
    BY <1>1 DEF CREATED, DELETING
  <2>2. \A m \in ToSet(out[d]) : m.op # "TAG_SET"
    BY <1>4, CmdFields
  <2> QED BY <1>1, <1>7, <2>1, <2>2 DEF ValueStep
<1> QED BY <1>6, <1>8, <1>9, TagTouchedKept

LEMMA TagSetKept ==
  ASSUME ServerInv, NEW d \in Clients, NEW i \in TgIds, FirstUse(d, i),
         NEW j \in TgIds, NEW t \in TagIds, NEW v \in Values, TagSetEffect(j, t, v)
  PROVE  \E out : HandlerKept(d, i, out)
<1>1. PICK T : /\ TagChange(j, t, T) /\ T.value = v
               /\ \A x \in Clients : T.folls[x] = tgs[j].tags[t].folls[x]
  BY DEF TagSetEffect
<1>2. PICK out, C : out = OneFor(C, TagSet(j, t, v)) /\ C = tgs[j].subs
  OBVIOUS
<1>3. GetsOne(out, d, C, TagSet(j, t, v))
  BY <1>2, CmdsHold, OneForFields
<1>4. /\ out \in [Clients -> Seq(Cmds)] /\ \A x : Once(out[d], x)
      /\ \A x : x \in ToSet(out[d]) <=> x = TagSet(j, t, v) /\ d \in tgs[j].subs
      /\ Push(out) /\ UNCHANGED <<streams, wire, acks, node_subs, view, uses>>
  BY <1>2, <1>3 DEF GetsOne, TagSetEffect
<1>5. TagTouched(d, j, t, out)
  BY <1>1, <1>4, CmdFields DEF TagTouched
<1>6. tgs'[j].tags[t] = T /\ tgs'[j].subs = tgs[j].subs
  BY <1>1 DEF TagChange
<1>7. TagTransition(d, j, t, out)
  <2>1. TagCreate(j, t) \notin ToSet(out[d]) /\ TagDestroy(j, t) \notin ToSet(out[d])
    BY <1>4, CmdFields
  <2> QED BY <1>1, <1>4, <1>6, <2>1 DEF TagTransition, Transition
<1>8. ValueStep(d, j, t, out)
  <2>1. d \in tgs[j].subs => out[d] = <<TagSet(j, t, v)>>
    BY <1>2 DEF OneFor
  <2> QED BY <1>1, <1>6, <2>1 DEF ValueStep
<1> QED BY <1>5, <1>7, <1>8, TagTouchedKept

LEMMA TagCreateAckKept ==
  ASSUME ServerInv, NEW d \in Clients, NEW i \in TgIds, TagsInv(d, i),
         NEW c \in Clients, NEW j \in TgIds, NEW t \in TagIds, TagCreateAckEffect(c, j, t)
  PROVE  \E out : HandlerKept(d, i, out)
<1>1. PICK tag : tag = tgs[j].tags[t]
  OBVIOUS
<1>2. PICK T : /\ TagChange(j, t, T) /\ T.value = tag.value
               /\ \A x \in Clients : T.folls[x] =
                    IF x # c \/ tag.folls[c] = NONE THEN tag.folls[x]
                    ELSE IF tag.state = DELETING THEN DELETING ELSE CREATED
  BY <1>1 DEF TagCreateAckEffect
<1>3. PICK out : out = TagAckOut(c, j, t)
  OBVIOUS
<1>4. TagAckSends(out, c, j, t, tag)
  BY <1>1, <1>3, TagAckOutIs
<1>5. /\ out \in [Clients -> Seq(Cmds)] /\ \A x : Once(out[d], x)
      /\ Push(out) /\ AckEffect(c, TagCreateAck(j, t))
  BY <1>3, <1>4 DEF TagAckSends, TagCreateAckEffect
<1>6. tag.folls[d] # NONE => d \in tgs[j].subs /\ tag.state # NONE
  BY <1>1, TagSoundAt
<1>7. \A m \in ToSet(out[d]) : m.tg = j /\ m.tag = t /\ d = c /\ tag.folls[d] # NONE
  <2>1. \A m \in ToSet(out[d]) : d = c
    BY <1>4 DEF TagAckSends
  <2>2. ~ValueFor(tag, c) /\ ~DestroyNow(tag, c) => \A m : m \notin ToSet(out[c])
    BY <1>4, NoCmdsType DEF TagAckSends
  <2>3. ValueFor(tag, c) \/ DestroyNow(tag, c) => tag.folls[c] # NONE
    BY DEF ValueFor, DestroyNow
  <2>4. \A m \in ToSet(out[c]) : m.tg = j /\ m.tag = t
    BY <1>4, CmdFields DEF TagAckSends
  <2> QED BY <2>1, <2>2, <2>3, <2>4
<1>8. TagTouched(d, j, t, out)
  <2>1. UNCHANGED <<streams, wire, view, uses, node_subs>> /\ acks'[d] \subseteq acks[d]
    BY <1>5 DEF AckEffect
  <2>2. \A a \in acks[d] : a.tg # j \/ a.tag # t => a \in acks'[d]
    BY <1>5, FakeCmdFields DEF AckEffect
  <2> QED BY <1>2, <1>5, <1>6, <1>7, <2>1, <2>2 DEF TagTouched
<1>9. tgs'[j].tags[t] = T
  BY <1>2 DEF TagChange
<1>10. CASE d # c
  <2>1. /\ tgs'[j].tags[t].folls[d] = tgs[j].tags[t].folls[d] /\ ToSet(out[d]) = {}
        /\ tgs'[j].tags[t].value = tgs[j].tags[t].value /\ acks'[d] = acks[d]
    BY <1>1, <1>2, <1>4, <1>5, <1>9, <1>10 DEF TagAckSends, AckEffect
  <2>2. TagFrame(d, j, t, out)
    BY <2>1 DEF TagFrame
  <2>3. TagTransition(d, j, t, out) /\ ValueStep(d, j, t, out)
    BY <2>2, TagFrameKept
  <2> QED BY <1>8, <2>3, TagTouchedKept DEF TagsInv
<1>11. CASE d = c
  <2>1. SUFFICES ASSUME i = j, Current(d, i)
                 PROVE  TagTransition(d, j, t, out) /\ ValueStep(d, j, t, out)
    BY <1>8, TagTouchedKept DEF TagsInv
  <2>2. TagPhase(d, j, t)
    BY <2>1 DEF TagsInv
  <2>3. TagCreateAck(j, t) \in acks[d] /\ TagCreateAck(j, t) \notin acks'[d]
    BY <1>5, <1>11 DEF AckEffect
  <2>4. tag.folls[d] = CREATING
    BY <1>1, <2>2, <2>3 DEF TagPhase, Tracked, CREATING
  <2>5. TagDestroyAck(j, t) \in acks'[d] <=> TagDestroyAck(j, t) \in acks[d]
    BY <1>5, <1>11, FakeCmdFields DEF AckEffect
  <2>6. /\ DestroyNow(tag, c) <=> tag.state = DELETING
        /\ T.folls[d] = IF tag.state = DELETING THEN DELETING ELSE CREATED
        /\ ValueFor(tag, c) <=> tag.value # UNSET
    BY <1>2, <1>11, <2>4 DEF DestroyNow, ValueFor, NONE, CREATING, CREATED
  <2>7. TagCreate(j, t) \notin ToSet(out[d])
    BY <1>4, <1>11, CmdFields DEF TagAckSends
  <2>8. TagDestroy(j, t) \in ToSet(out[d]) <=> tag.state = DELETING
    BY <1>4, <1>11, <2>6 DEF TagAckSends
  <2>9. TagTransition(d, j, t, out)
    BY <1>9, <2>3, <2>5, <2>6, <2>7, <2>8 DEF TagTransition, Transition, CREATED, DELETING
  <2>10. ValueStep(d, j, t, out)
    <3>1. CASE tag.value = UNSET
      BY <1>2, <1>9, <3>1 DEF ValueStep
    <3>2. CASE tag.value # UNSET /\ tag.state # DELETING
      <4>1. out[d] = <<TagSet(j, t, tag.value)>> /\ tag.value \in Values
        BY <1>1, <1>4, <1>11, <2>6, <3>2, TagSoundAt DEF TagAckSends
      <4> QED BY <1>2, <1>9, <4>1 DEF ValueStep
    <3>3. CASE tag.state = DELETING
      <4>1. T.folls[d] # CREATED
        BY <2>6, <3>3 DEF CREATED, DELETING
      <4>2. \A m \in ToSet(out[d]) : m.op = "TAG_SET" => m.value = tag.value
        BY <1>4, <1>11, CmdFields DEF TagAckSends
      <4> QED BY <1>1, <1>2, <1>9, <4>1, <4>2 DEF ValueStep
    <3> QED BY <3>1, <3>2, <3>3
  <2> QED BY <2>9, <2>10
<1> QED BY <1>10, <1>11

LEMMA TagDestroyAckKept ==
  ASSUME ServerInv, NEW d \in Clients, NEW i \in TgIds, FirstUse(d, i),
         NEW c \in Clients, NEW j \in TgIds, NEW t \in TagIds, TagDestroyAckEffect(c, j, t)
  PROVE  \E out : HandlerKept(d, i, out)
<1>1. PICK T : /\ TagChange(j, t, T) /\ T.value \in {UNSET, tgs[j].tags[t].value}
               /\ \A x \in Clients : T.folls[x] = IF x = c THEN NONE ELSE tgs[j].tags[t].folls[x]
  BY DEF TagDestroyAckEffect
<1>2. PICK out : out = NoCmds
  OBVIOUS
<1>3. out \in [Clients -> Seq(Cmds)] /\ \A x : Once(out[d], x) /\ x \notin ToSet(out[d])
  BY <1>2, NoCmdsType
<1>4. Push(out) /\ AckEffect(c, TagDestroyAck(j, t))
  BY <1>2 DEF TagDestroyAckEffect
<1>5. TagTouched(d, j, t, out)
  <2>1. UNCHANGED <<streams, wire, view, uses, node_subs>> /\ acks'[d] \subseteq acks[d]
    BY <1>4 DEF AckEffect
  <2>2. \A a \in acks[d] : a.tg # j \/ a.tag # t => a \in acks'[d]
    BY <1>4, FakeCmdFields DEF AckEffect
  <2> QED BY <1>1, <1>3, <1>4, <2>1, <2>2 DEF TagTouched
<1>6. tgs'[j].tags[t] = T
  BY <1>1 DEF TagChange
<1>7. TagTransition(d, j, t, out)
  <2>1. TagCreateAck(j, t) \in acks'[d] <=> TagCreateAck(j, t) \in acks[d]
    BY <1>4, FakeCmdFields DEF AckEffect
  <2>2. CASE d = c
    <3>1. TagDestroyAck(j, t) \in acks[d] /\ TagDestroyAck(j, t) \notin acks'[d]
      BY <1>4, <2>2 DEF AckEffect
    <3> QED BY <1>1, <1>3, <1>6, <2>1, <2>2, <3>1 DEF TagTransition, Transition, NONE
  <2>3. CASE d # c
    <3>1. acks'[d] = acks[d]
      BY <1>4, <2>3 DEF AckEffect
    <3> QED BY <1>1, <1>3, <1>6, <2>3, <3>1 DEF TagTransition, Transition
  <2> QED BY <2>2, <2>3
<1>8. ValueStep(d, j, t, out)
  BY <1>1, <1>3, <1>6 DEF ValueStep, NONE, CREATED
<1> QED BY <1>5, <1>7, <1>8, TagTouchedKept

LEMMA TgCreateKept ==
  ASSUME ServerInv, NEW d \in Clients, NEW i \in TgIds, FirstUse(d, i),
         NEW j \in TgIds, TgCreateEffect(j)
  PROVE  \E out : HandlerKept(d, i, out)
<1>1. PICK out, C : out = OneFor(C, TgCreate(j)) /\ C = node_subs \intersect Readers
  OBVIOUS
<1>2. GetsOne(out, d, C, TgCreate(j))
  BY <1>1, CmdsHold, OneForFields
<1>3. /\ out \in [Clients -> Seq(Cmds)] /\ \A x : Once(out[d], x)
      /\ \A x : x \in ToSet(out[d]) => x = TgCreate(j)
      /\ Push(out) /\ UNCHANGED <<streams, wire, acks, node_subs, view>>
  BY <1>1, <1>2 DEF GetsOne, TgCreateEffect
<1>4. uses \in [TgIds -> 0 .. 2]
  BY DEF ServerInv, TypeOK
<1>5. uses' = [uses EXCEPT ![j] = IF uses[j] < 2 THEN uses[j] + 1 ELSE uses[j]]
  BY DEF TgCreateEffect
<1>6. CASE i # j
  <2>1. tgs'[i] = tgs[i] /\ uses'[i] = uses[i]
    BY <1>4, <1>5, <1>6 DEF TgCreateEffect
  <2>2. \A m \in ToSet(out[d]) : m.tg # i
    BY <1>3, <1>6, CmdFields
  <2>3. TgUntouched(d, i, out)
    BY <1>3, <2>1, <2>2 DEF TgUntouched
  <2> QED BY <2>3, TgUntouchedKept
<1>7. CASE i = j
  <2>1. uses'[i] # 0 /\ (uses'[i] = 2 \/ uses[i] = 0)
    BY <1>4, <1>5, <1>7
  <2>2. uses'[i] = 1 => ~Current(d, i)
    BY <2>1 DEF Current
  <2>3. tgs'[i].subs = {}
    BY <1>7 DEF TgCreateEffect
  <2> QED BY <1>3, <1>7, <2>1, <2>2, <2>3 DEF HandlerKept
<1> QED BY <1>6, <1>7

LEMMA TgDestroyKept ==
  ASSUME ServerInv, NEW d \in Clients, NEW i \in TgIds, FirstUse(d, i), TgPhase(d, i),
         NEW j \in TgIds, TgDestroyEffect(j)
  PROVE  \E out : HandlerKept(d, i, out)
<1>1. PICK out, C : out = OneFor(C, TgDestroy(j)) /\ C = Destroyable(tgs[j])
  OBVIOUS
<1>2. GetsOne(out, d, C, TgDestroy(j))
  BY <1>1, CmdsHold, OneForFields
<1>3. /\ out \in [Clients -> Seq(Cmds)] /\ \A x : Once(out[d], x)
      /\ \A x : x \in ToSet(out[d]) => x = TgDestroy(j) /\ tgs[j].folls[d] = CREATED
      /\ Push(out) /\ UNCHANGED <<streams, wire, acks, node_subs, view, uses>>
  BY <1>1, <1>2 DEF GetsOne, TgDestroyEffect, Destroyable
<1>4. CASE i # j
  <2>1. tgs'[i] = tgs[i]
    BY <1>4 DEF TgDestroyEffect
  <2>2. \A m \in ToSet(out[d]) : m.tg # i
    BY <1>3, <1>4, CmdFields
  <2>3. TgUntouched(d, i, out)
    BY <1>3, <2>1, <2>2 DEF TgUntouched
  <2> QED BY <2>3, TgUntouchedKept
<1>5. CASE i = j
  <2>1. /\ tgs'[i].state # NONE /\ tgs[i].state # NONE /\ tgs'[i].subs = tgs[i].subs
        /\ tgs'[i].tags = tgs[i].tags
    BY <1>5 DEF TgDestroyEffect, DELETING, NONE
  <2>2. Unheard(d, i) => tgs[i].folls[d] # CREATED
    <3>1. Unheard(d, i) => ~WillKnow(d, i)
      BY UnheardUnknown
    <3>2. tgs[i].folls[d] = CREATED => WillKnow(d, i)
      BY DEF TgPhase, Tracked, WillKnow, CREATED
    <3> QED BY <3>1, <3>2
  <2>3. \A m \in ToSet(out[d]) : m.tag = NoTag /\ m # TgCreate(i)
    BY <1>3, CmdFields
  <2>4. TagsSame(d, i, out)
    BY <1>3, <1>5, <2>1, <2>2, <2>3 DEF TagsSame
  <2> QED BY <2>4, TagsSameKept
<1> QED BY <1>4, <1>5

LEMMA TgCreateAckKept ==
  ASSUME ServerInv, NEW d \in Clients, NEW i \in TgIds, FirstUse(d, i),
         NEW c \in Clients, NEW j \in TgIds, TgCreateAckEffect(c, j)
  PROVE  \E out : HandlerKept(d, i, out)
<1>1. PICK out, C : out = OneFor(C, TgDestroy(j)) /\ C = IF DestroyNow(tgs[j], c) THEN {c} ELSE {}
  OBVIOUS
<1>2. GetsOne(out, d, C, TgDestroy(j))
  BY <1>1, CmdsHold, OneForFields
<1>3. /\ out \in [Clients -> Seq(Cmds)] /\ \A x : Once(out[d], x)
      /\ \A x : x \in ToSet(out[d]) => x = TgDestroy(j) /\ d = c
      /\ Push(out) /\ AckEffect(c, TgCreateAck(j))
  BY <1>1, <1>2 DEF GetsOne, TgCreateAckEffect
<1>4. /\ UNCHANGED <<streams, wire, node_subs, view, uses>> /\ acks'[d] \subseteq acks[d]
      /\ \A a \in acks[d] : a # TgCreateAck(j) => a \in acks'[d]
      /\ d = c => TgCreateAck(j) \in acks[d]
  BY <1>3 DEF AckEffect
<1>5. CASE i # j
  <2>1. tgs'[i] = tgs[i]
    BY <1>5 DEF TgCreateAckEffect
  <2>2. \A m \in ToSet(out[d]) : m.tg # i
    BY <1>3, <1>5, CmdFields
  <2>3. TgUntouched(d, i, out)
    BY <1>3, <1>4, <1>5, <2>1, <2>2, FakeCmdFields DEF TgUntouched
  <2> QED BY <2>3, TgUntouchedKept
<1>6. CASE i = j
  <2>1. /\ tgs'[i].state = NONE <=> tgs[i].state = NONE
        /\ tgs'[i].subs = tgs[i].subs /\ tgs'[i].tags = tgs[i].tags
    BY <1>6 DEF TgCreateAckEffect
  <2>2. Unheard(d, i) => ToSet(out[d]) = {}
    BY <1>3, <1>4, <1>6, FakeCmdFields DEF Unheard
  <2>3. \A m \in ToSet(out[d]) : m.tag = NoTag /\ m # TgCreate(i)
    BY <1>3, CmdFields
  <2>4. \A t \in TagIds : /\ TagCreateAck(i, t) \in acks[d] => TagCreateAck(i, t) \in acks'[d]
                          /\ TagDestroyAck(i, t) \in acks[d] => TagDestroyAck(i, t) \in acks'[d]
    BY <1>4, FakeCmdFields
  <2>5. TagsSame(d, i, out)
    BY <1>3, <1>4, <1>6, <2>1, <2>2, <2>3, <2>4 DEF TagsSame
  <2> QED BY <2>5, TagsSameKept
<1> QED BY <1>5, <1>6

LEMMA TgDestroyAckKept ==
  ASSUME ServerInv, NEW d \in Clients, NEW i \in TgIds, FirstUse(d, i), TgPhase(d, i),
         NEW c \in Clients, NEW j \in TgIds, TgDestroyAckEffect(c, j)
  PROVE  \E out : HandlerKept(d, i, out)
<1>1. PICK out : out = NoCmds
  OBVIOUS
<1>2. /\ out \in [Clients -> Seq(Cmds)] /\ \A x : Once(out[d], x) /\ x \notin ToSet(out[d])
      /\ Push(out) /\ AckEffect(c, TgDestroyAck(j))
  BY <1>1, NoCmdsType DEF TgDestroyAckEffect
<1>3. /\ UNCHANGED <<streams, wire, node_subs, view, uses>> /\ acks'[d] \subseteq acks[d]
      /\ \A a \in acks[d] : a # TgDestroyAck(j) => a \in acks'[d]
      /\ d = c => TgDestroyAck(j) \in acks[d]
  BY <1>2 DEF AckEffect
<1>4. CASE i # j
  <2>1. tgs'[i] = tgs[i]
    BY <1>4 DEF TgDestroyAckEffect
  <2>2. TgUntouched(d, i, out)
    BY <1>2, <1>3, <1>4, <2>1, FakeCmdFields DEF TgUntouched
  <2> QED BY <2>2, TgUntouchedKept
<1>5. CASE i = j /\ Followers(tgs[i]) \subseteq {c} /\ tgs'[i] = FreeTg
  <2>1. tgs'[i].state = NONE /\ tgs'[i].subs = {}
    BY <1>5 DEF FreeTg
  <2>2. ~WillKnow(d, i)
    <3>1. CASE d = c
      BY <1>3, <1>5, <3>1 DEF TgPhase, Tracked, WillKnow
    <3>2. CASE d # c
      <4>1. tgs[i].folls[d] = "NONE"
        BY <1>5, <3>2 DEF Followers, NONE
      <4> QED BY <4>1 DEF TgPhase, Tracked, WillKnow
    <3> QED BY <3>1, <3>2
  <2>3. ~Current(d, i)
    BY <2>2 DEF Current
  <2> QED BY <1>2, <1>3, <2>1, <2>3 DEF HandlerKept
<1>6. CASE i = j /\ tgs'[i].state = tgs[i].state /\ tgs'[i].subs = tgs[i].subs
             /\ tgs'[i].tags = tgs[i].tags
  <2>1. \A t \in TagIds : /\ TagCreateAck(i, t) \in acks[d] => TagCreateAck(i, t) \in acks'[d]
                          /\ TagDestroyAck(i, t) \in acks[d] => TagDestroyAck(i, t) \in acks'[d]
    BY <1>3, FakeCmdFields
  <2>2. TagsSame(d, i, out)
    BY <1>2, <1>3, <1>6, <2>1 DEF TagsSame
  <2> QED BY <2>2, TagsSameKept
<1> QED BY <1>4, <1>5, <1>6 DEF TgDestroyAckEffect

LEMMA NodeSubscribeKept ==
  ASSUME ServerInv, NEW d \in Clients, NEW i \in TgIds, FirstUse(d, i),
         NEW c \in Clients, NodeSubscribe(c)
  PROVE  \E out : HandlerKept(d, i, out)
<1>1. PICK out : out = NodeSubscribeOut(c)
  OBVIOUS
<1>2. /\ Push(out) /\ node_subs' = node_subs \union {c} /\ c \notin node_subs
      /\ UNCHANGED <<streams, wire, acks, view, uses>>
      /\ tgs'[i].state = tgs[i].state /\ tgs'[i].subs = tgs[i].subs
      /\ tgs'[i].tags = tgs[i].tags
  BY <1>1, NodeSubscribeStep
<1>3. /\ out \in [Clients -> Seq(Cmds)] /\ \A m : Once(out[d], m)
      /\ d # c => ToSet(out[d]) = {}
      /\ \A m \in ToSet(out[c]) : \E k \in TgIds : m = TgCreate(k)
  BY <1>1, NodeSubscribeOutIs
<1>4. \A m \in ToSet(out[d]) : m.tag = NoTag /\ d \notin node_subs /\ (m.tg = i => m = TgCreate(i))
  BY <1>2, <1>3, CmdFields
<1>5. TagsSame(d, i, out)
  BY <1>2, <1>3, <1>4 DEF TagsSame
<1> QED BY <1>5, TagsSameKept

LEMMA TgSubscribeKept ==
  ASSUME ServerInv, NEW d \in Clients, NEW i \in TgIds, FirstUse(d, i),
         NEW c \in Clients, NEW j \in TgIds, TgSubscribeEffect(c, j)
  PROVE  \E out : HandlerKept(d, i, out)
<1>1. PICK out : out = TgSubscribeOut(c, j)
  OBVIOUS
<1>2. /\ out \in [Clients -> Seq(Cmds)] /\ \A m : Once(out[d], m)
      /\ d # c => ToSet(out[d]) = {}
      /\ \A t \in TagIds : TagCreate(j, t) \in ToSet(out[c]) <=> NewTag(c, j, t)
      /\ \A m \in ToSet(out[c]) :
           /\ m.tg = j /\ m.op \in {"TAG_CREATE", "TAG_SET"}
           /\ m.op = "TAG_SET" => m.value = tgs[j].tags[m.tag].value
  <2>1. TgSubscribeSends(out, c, j)
    BY <1>1, TgSubscribeOutIs
  <2> QED BY <2>1 DEF TgSubscribeSends
<1>3. /\ Push(out) /\ UNCHANGED <<streams, wire, acks, node_subs, view, uses>>
      /\ j \in view[c].tgs /\ c \notin tgs[j].subs /\ tgs[j].state # NONE
      /\ tgs'[j].state = tgs[j].state /\ tgs'[j].subs = tgs[j].subs \union {c}
      /\ \A t \in TagIds :
           /\ tgs'[j].tags[t].value = tgs[j].tags[t].value
           /\ tgs'[j].tags[t].folls[d] =
                IF d = c /\ NewTag(c, j, t) THEN CREATING ELSE tgs[j].tags[t].folls[d]
  BY <1>1 DEF TgSubscribeEffect
<1>4. CASE i # j
  <2>1. tgs'[i] = tgs[i]
    BY <1>4 DEF TgSubscribeEffect
  <2>2. TgUntouched(d, i, out)
    BY <1>2, <1>3, <1>4, <2>1 DEF TgUntouched
  <2> QED BY <2>2, TgUntouchedKept
<1>5. CASE i = j /\ d # c
  <2>1. TagsSame(d, i, out)
    BY <1>2, <1>3, <1>5 DEF TagsSame
  <2> QED BY <2>1, TagsSameKept
<1>6. CASE i = j /\ d = c
  <2>1. ~Unheard(d, i) /\ uses[i] # 0
    BY <1>3, <1>6 DEF Unheard, FirstUse
  <2>2. ASSUME NEW t \in TagIds PROVE TagTransition(d, i, t, out) /\ ValueStep(d, i, t, out)
    <3>1. tgs[i].tags[t].folls[d] = NONE
      BY <1>3, <1>6, TagSoundAt
    <3>2. TagDestroy(i, t) \notin ToSet(out[d])
      BY <1>2, <1>6, CmdFields
    <3>3. TagTransition(d, i, t, out)
      BY <1>2, <1>3, <1>6, <3>1, <3>2 DEF TagTransition, Transition, NONE, CREATING
    <3>4. tgs'[i].tags[t].folls[d] # CREATED
      BY <1>3, <1>6, <3>1 DEF NONE, CREATING, CREATED
    <3>5. \A m \in ToSet(out[d]) :
            m \in NewsOf(i, t) /\ m.op = "TAG_SET" => m.value = tgs[i].tags[t].value
      BY <1>2, <1>6 DEF NewsOf
    <3>6. ValueStep(d, i, t, out)
      BY <1>3, <1>6, <3>4, <3>5 DEF ValueStep
    <3> QED BY <3>3, <3>6
  <2>3. TgCreate(i) \notin ToSet(out[d])
    BY <1>2, <1>6, CmdFields
  <2> QED BY <1>2, <1>3, <1>6, <2>1, <2>2, <2>3 DEF HandlerKept
<1> QED BY <1>4, <1>5, <1>6

-----------------------------------------------------------------------------
(* Nothing about client d has changed.                                     *)
LEMMA TagsInvSame ==
  ASSUME NEW d \in Clients, NEW i \in TgIds, TagsInv(d, i), net'[d] = net[d],
         out_queue'[d] = out_queue[d], wire'[d] = wire[d], acks'[d] = acks[d], view'[d] = view[d],
         streams' = streams, uses'[i] = uses[i], d \in node_subs' <=> d \in node_subs,
         tgs'[i].state = tgs[i].state, tgs[i].subs = {} => tgs'[i].subs = {},
         d \in tgs'[i].subs <=> d \in tgs[i].subs,
         \A t \in TagIds : /\ tgs'[i].tags[t].folls[d] = tgs[i].tags[t].folls[d]
                           /\ tgs'[i].tags[t].value = tgs[i].tags[t].value
  PROVE  TagsInv(d, i)'
<1>1. Held(d)' = Held(d)
  BY DEF Held
<1>2. KnownTags(d, i)' = KnownTags(d, i) /\ (Current(d, i)' <=> Current(d, i))
  BY DEF KnownTags, Current, WillKnow
<1>3. Unheard(d, i) => Unheard(d, i)'
  BY <1>1 DEF Unheard
<1>4. NotTold(d, i)' => NotTold(d, i)
  BY <1>1 DEF NotTold
<1>5. FirstUse(d, i)
  BY DEF TagsInv
<1>6. FirstUse(d, i)'
  BY <1>2, <1>3, <1>4, <1>5 DEF FirstUse
<1>7. NoTagNews(d, i) => NoTagNews(d, i)'
  BY <1>1 DEF NoTagNews
<1>8. \A t \in TagIds : TagPhase(d, i, t) => TagPhase(d, i, t)'
  BY <1>1, <1>2 DEF TagPhase
<1>9. \A t \in TagIds : ValueSound(d, i, t) => ValueSound(d, i, t)'
  BY DEF ValueSound, NewsOf
<1> QED BY <1>2, <1>6, <1>7, <1>8, <1>9 DEF TagsInv

-----------------------------------------------------------------------------
(* The network and what a client knows.                                    *)

(* Which commands are on their way and acknowledged after a step.          *)
LEMMA NetworkHeld ==
  ASSUME ServerInv, NEW c \in Clients, NEW m,
         DatagramEffect(c, m) \/ SendEffect(c, m) \/ StreamEffect(c, m)
  PROVE  /\ m \in Cmds /\ m \in Held(c) \union ToSet(wire[c])
         /\ ~StreamEffect(c, m) => m \in Held(c)
         /\ StreamEffect(c, m) => m \in ToSet(wire[c])
         /\ \A x \in Held(c)' : x \in Held(c)
         /\ \A x \in ToSet(out_queue'[c]) : x \in Held(c)'
         /\ \A x \in ToSet(wire'[c]) : x \in ToSet(wire[c]) \/ (x = m /\ SendEffect(c, m))
         /\ \A a \in acks'[c] : a \in acks[c] \/ (a \in v_cmd_fake_ack(m) /\ ~StreamEffect(c, m))
         /\ ~StreamEffect(c, m) => \A a \in v_cmd_fake_ack(m) : a \in acks'[c]
         /\ UNCHANGED <<tgs, uses, node_subs, streams>>
<1>1. \A x \in ToSet(out_queue'[c]) : x \in Held(c)'
  BY DEF Held
<1>2. CASE DatagramEffect(c, m)
  <2>1. /\ m \in net[c] /\ m \in Cmds /\ net'[c] = net[c] \ {m} /\ c \notin streams
        /\ UNCHANGED <<tgs, uses, node_subs, streams, out_queue, wire>>
        /\ acks'[c] = acks[c] \union v_cmd_fake_ack(m)
    BY <1>2 DEF DatagramEffect
  <2>2. ~StreamEffect(c, m)
    BY <2>1 DEF StreamEffect
  <2> QED BY <1>1, <2>1, <2>2 DEF Held
<1>3. CASE SendEffect(c, m)
  <2>1. PICK q, w : q = out_queue[c] /\ w = wire[c]
    OBVIOUS
  <2>2. /\ q \in Seq(Cmds) /\ w \in Seq(Cmds) /\ q # <<>> /\ m = Head(q) /\ m \in Cmds
        /\ UNCHANGED <<tgs, uses, node_subs, streams, net, view>>
        /\ out_queue'[c] = Tail(q) /\ wire'[c] = Append(w, m)
        /\ acks'[c] = acks[c] \union v_cmd_fake_ack(m)
    BY <1>3, <2>1 DEF SendEffect, ServerInv, TypeOK
  <2>3. m \in ToSet(q) /\ \A x \in ToSet(Tail(q)) : x \in ToSet(q)
    BY <2>2, TailElements
  <2>4. \A x \in ToSet(Append(w, m)) : x \in ToSet(w) \/ x = m
    <3>1. PICK o : o = <<m>>
      OBVIOUS
    <3>2. o \in Seq(Cmds) /\ ToSet(o) = {m}
      BY <2>2, <3>1 DEF ToSet
    <3>3. Append(w, m) = w \o o
      BY <2>2, <3>1, AppendIsConcat
    <3>4. ToSet(w \o o) = ToSet(w) \union ToSet(o)
      BY <2>2, <3>2, ConcatElements
    <3> QED BY <3>2, <3>3, <3>4
  <2>5. ASSUME StreamEffect(c, m) PROVE FALSE
    <3>1. Len(Append(w, m)) = Len(w) + 1 /\ Len(w) \in Nat
      BY <2>2
    <3>2. Len(Append(w, m)) = Len(w) - 1
      BY <2>1, <2>2, <2>5, HeadTailProperties DEF StreamEffect
    <3> QED BY <3>1, <3>2
  <2> QED BY <1>1, <1>3, <2>1, <2>2, <2>3, <2>4, <2>5 DEF Held
<1>4. CASE StreamEffect(c, m)
  <2>1. PICK w : w = wire[c]
    OBVIOUS
  <2>2. /\ w \in Seq(Cmds) /\ w # <<>> /\ m = Head(w) /\ m \in Cmds
        /\ UNCHANGED <<tgs, uses, node_subs, streams, net, out_queue, acks>>
        /\ wire'[c] = Tail(w)
    BY <1>4, <2>1 DEF StreamEffect, ServerInv, TypeOK
  <2>3. m \in ToSet(w) /\ \A x \in ToSet(Tail(w)) : x \in ToSet(w)
    BY <2>2, TailElements
  <2> QED BY <1>1, <1>4, <2>1, <2>2, <2>3 DEF Held
<1> QED BY <1>2, <1>3, <1>4

(* Acknowledgements are about the tag group and tag of the command.        *)
LEMMA FakeAckAbout ==
  ASSUME NEW m \in Cmds, NEW a \in v_cmd_fake_ack(m)
  PROVE  a.tg = m.tg
BY FakeAcks, FakeCmdFields, CmdCases

(* What the client makes of a command about a tag.                         *)
LEMMA LearnsTags ==
  ASSUME ServerInv, NEW c \in Clients, NEW m, DatagramEffect(c, m) \/ StreamEffect(c, m)
  PROVE  LearnedTags(view'[c], view[c], m) /\ LearnedTgs(view'[c], view[c], m)
<1>1. PICK w, r : w = view[c] /\ r = view'[c]
  OBVIOUS
<1>2. w \in ViewType /\ m \in Cmds /\ r = Learned(w, m)
  BY <1>1 DEF ServerInv, TypeOK, ViewType, DatagramEffect, StreamEffect
<1> QED BY <1>1, <1>2, LearnedFields

(* A step of the network of client c.                                      *)
Network(c, m) == DatagramEffect(c, m) \/ SendEffect(c, m) \/ StreamEffect(c, m)

LEMMA WillKnowNetwork ==
  ASSUME ServerInv, NEW c \in Clients, NEW m, Network(c, m), NEW i \in TgIds
  PROVE  /\ ~StreamEffect(c, m) =>
              /\ m = TgCreate(i) => WillKnow(c, i)'
              /\ m = TgDestroy(i) => ~WillKnow(c, i)'
         /\ StreamEffect(c, m) \/ (m # TgCreate(i) /\ m # TgDestroy(i)) =>
              (WillKnow(c, i)' <=> WillKnow(c, i))
<1>1. PICK create, destroy, V, W :
        /\ create = TgCreate(i) /\ destroy = TgDestroy(i) /\ V = view[c].tgs /\ W = view'[c].tgs
  OBVIOUS
<1>2. create # destroy
  BY <1>1, CmdFields
<1>3. /\ SendEffect(c, m) => V = W
      /\ DatagramEffect(c, m) \/ StreamEffect(c, m) => Tells(m, create, destroy, i, V, W)
  BY <1>1, TgTells
<1>4. DatagramEffect(c, m) \/ SendEffect(c, m) \/ StreamEffect(c, m)
  BY DEF Network
<1>5. /\ ~StreamEffect(c, m) =>
           /\ m = create => Outcome(wire'[c], create, destroy, i, W)
           /\ m = destroy => ~Outcome(wire'[c], create, destroy, i, W)
      /\ StreamEffect(c, m) \/ (m # create /\ m # destroy) =>
           (Outcome(wire'[c], create, destroy, i, W) <=> Outcome(wire[c], create, destroy, i, V))
  BY <1>2, <1>3, <1>4, OutcomeNetwork
<1> QED BY <1>1, <1>5 DEF WillKnow

(* While the create command of tag group i is on its way, the server waits *)
(* for its acknowledgement.                                                *)
LEMMA CreateOnItsWay ==
  ASSUME ReplicaInv, NEW c \in Stayers, NEW i \in TgIds, TgCreate(i) \in Held(c)
  PROVE  c \in node_subs /\ tgs[i].state # NONE
<1>1. ServerInv /\ c \in Clients /\ TgPhase(c, i)
  BY StayersAre DEF ReplicaInv
<1>2. tgs[i].folls[c] # NONE
  BY <1>1 DEF TgPhase, Tracked, NONE
<1>3. TgSound(tgs[i], node_subs)
  BY <1>1 DEF ServerInv
<1> QED BY <1>1, <1>2, <1>3 DEF TgSound

(* A client hears of a tag group for the first time.                       *)
LEMMA HeardNetwork ==
  ASSUME ReplicaInv, ReplicaInv', NEW c \in Stayers, NEW i \in TgIds, FirstUse(c, i),
         NEW m, Network(c, m), NotTold(c, i)'
  PROVE  Unheard(c, i)'
<1>1. /\ ServerInv /\ c \in Clients
      /\ DatagramEffect(c, m) \/ SendEffect(c, m) \/ StreamEffect(c, m)
  BY StayersAre DEF ReplicaInv, Network
<1>2. /\ m \in Cmds /\ m \in Held(c) \union ToSet(wire[c])
      /\ ~StreamEffect(c, m) => m \in Held(c)
      /\ StreamEffect(c, m) => m \in ToSet(wire[c])
      /\ \A x \in Held(c)' : x \in Held(c)
      /\ \A x \in ToSet(wire'[c]) : x \in ToSet(wire[c]) \/ (x = m /\ SendEffect(c, m))
      /\ \A a \in acks'[c] : a \in acks[c] \/ (a \in v_cmd_fake_ack(m) /\ ~StreamEffect(c, m))
      /\ ~StreamEffect(c, m) => \A a \in v_cmd_fake_ack(m) : a \in acks'[c]
      /\ UNCHANGED <<tgs, uses, node_subs, streams>>
  BY <1>1, NetworkHeld
<1>3. Unheard(c, i)
  BY <1>2 DEF NotTold, FirstUse
<1>4. ASSUME m.tg = i PROVE FALSE
  <2>1. m = TgCreate(i) /\ ~StreamEffect(c, m) /\ TgCreate(i) \in Held(c)
    BY <1>2, <1>3, <1>4 DEF Unheard
  <2>2. c \in node_subs /\ uses[i] # 0
    BY <2>1, CreateOnItsWay DEF FirstUse
  <2>3. TgCreate(i) \in Held(c)'
    BY <1>2, <2>2 DEF NotTold
  <2>4. TgCreateAck(i) \in acks'[c]
    BY <1>2, <2>1, FakeAckOf
  <2>5. TgPhase(c, i)'
    BY DEF ReplicaInv, Stayers, TgIds
  <2> QED BY <2>3, <2>4, <2>5 DEF TgPhase, Tracked
<1>5. m # TgCreate(i) /\ m # TgDestroy(i)
  BY <1>4, CmdFields
<1>6. i \notin view'[c].tgs
  <2>1. CASE SendEffect(c, m)
    BY <1>3, <2>1 DEF SendEffect, Unheard
  <2>2. CASE DatagramEffect(c, m) \/ StreamEffect(c, m)
    BY <1>1, <1>3, <1>5, <2>2, LearnsTg DEF Unheard
  <2> QED BY <1>1, <2>1, <2>2
<1>7. \A a \in acks'[c] : a.tg # i
  BY <1>2, <1>3, <1>4, FakeAckAbout DEF Unheard
<1> QED BY <1>2, <1>3, <1>4, <1>6, <1>7 DEF Unheard

(* Either client c knew tag group i, and that lasts, or it is told now.    *)
LEMMA CurrentNetwork ==
  ASSUME ReplicaInv, NEW c \in Stayers, NEW i \in TgIds, FirstUse(c, i),
         NEW m, Network(c, m), Current(c, i)'
  PROVE  \/ Current(c, i) /\ m # TgDestroy(i)
         \/ ~Current(c, i) /\ m = TgCreate(i) /\ Unheard(c, i)
<1>1. /\ ServerInv /\ c \in Clients
      /\ DatagramEffect(c, m) \/ SendEffect(c, m) \/ StreamEffect(c, m)
  BY StayersAre DEF ReplicaInv, Network
<1>2. /\ ~StreamEffect(c, m) => m \in Held(c)
      /\ StreamEffect(c, m) => m \in ToSet(wire[c])
      /\ UNCHANGED <<tgs, uses, node_subs, streams>>
  BY <1>1, NetworkHeld
<1>3. /\ ~StreamEffect(c, m) => (m = TgDestroy(i) => ~WillKnow(c, i)')
      /\ StreamEffect(c, m) \/ (m # TgCreate(i) /\ m # TgDestroy(i)) =>
           (WillKnow(c, i)' <=> WillKnow(c, i))
  BY <1>1, WillKnowNetwork
<1>4. uses[i] = 1 /\ WillKnow(c, i)'
  BY <1>2 DEF Current
<1>5. CASE Current(c, i)
  BY <1>2, <1>3, <1>4, <1>5 DEF FirstUse
<1>6. CASE ~Current(c, i)
  <2>1. ~WillKnow(c, i)
    BY <1>4, <1>6 DEF Current
  <2>2. m = TgCreate(i) /\ ~StreamEffect(c, m)
    BY <1>3, <1>4, <2>1
  <2>3. NotTold(c, i)
    BY <1>2, <1>4, <2>2 DEF NotTold
  <2> QED BY <1>6, <2>2, <2>3 DEF FirstUse
<1> QED BY <1>5, <1>6

LEMMA FirstUseNetwork ==
  ASSUME ReplicaInv, ReplicaInv', NEW c \in Stayers, NEW i \in TgIds, FirstUse(c, i),
         NEW m, Network(c, m)
  PROVE  FirstUse(c, i)'
<1>1. /\ ServerInv /\ c \in Clients
      /\ DatagramEffect(c, m) \/ SendEffect(c, m) \/ StreamEffect(c, m)
  BY StayersAre DEF ReplicaInv, Network
<1>2. /\ m \in Cmds
      /\ \A x \in ToSet(wire'[c]) : x \in ToSet(wire[c]) \/ (x = m /\ SendEffect(c, m))
      /\ UNCHANGED <<tgs, uses, node_subs, streams>>
  BY <1>1, NetworkHeld
<1>3. ASSUME Current(c, i)'
      PROVE  /\ TgDestroy(i) \notin ToSet(wire'[c])
             /\ c \in tgs'[i].subs => i \in view'[c].tgs
  <2>1. CASE Current(c, i) /\ m # TgDestroy(i)
    <3>1. i \in view[c].tgs => i \in view'[c].tgs
      <4>1. CASE SendEffect(c, m)
        BY <4>1 DEF SendEffect
      <4>2. CASE DatagramEffect(c, m) \/ StreamEffect(c, m)
        BY <1>1, <2>1, <4>2, LearnsTg
      <4> QED BY <1>1, <4>1, <4>2
    <3> QED BY <1>2, <2>1, <3>1 DEF FirstUse
  <2>2. CASE m = TgCreate(i) /\ Unheard(c, i)
    BY <1>2, <2>2, CmdFields DEF Unheard
  <2> QED BY <1>3, <2>1, <2>2, CurrentNetwork
<1>4. ASSUME i \notin view'[c].tgs PROVE KnownTags(c, i)' = {}
  <2>1. CASE SendEffect(c, m)
    BY <1>4, <2>1 DEF SendEffect, FirstUse, KnownTags
  <2>2. CASE DatagramEffect(c, m) \/ StreamEffect(c, m)
    <3>1. PICK w, r : w = view[c] /\ r = view'[c]
      OBVIOUS
    <3>2. LearnedTags(r, w, m) /\ LearnedTgs(r, w, m)
      BY <1>1, <2>2, <3>1, LearnsTags
    <3>3. CASE m.op = "TAGGROUP_DESTROY" /\ m.tg = i
      <4>1. \A t \in TagIds : r.tags[i][t] = UNKNOWN
        BY <3>2, <3>3 DEF LearnedTags
      <4> QED BY <3>1, <4>1 DEF KnownTags
    <3>4. CASE ~(m.op = "TAGGROUP_DESTROY" /\ m.tg = i)
      <4>1. i \notin w.tgs
        BY <1>4, <3>1, <3>2, <3>4 DEF LearnedTgs
      <4>2. \A t \in TagIds : w.tags[i][t] = UNKNOWN
        BY <3>1, <4>1 DEF FirstUse, KnownTags
      <4>3. \A t \in TagIds : r.tags[i][t] = UNKNOWN
        BY <3>2, <4>1, <4>2 DEF LearnedTags
      <4> QED BY <3>1, <4>3 DEF KnownTags
    <3> QED BY <3>3, <3>4
  <2> QED BY <1>1, <2>1, <2>2
<1>5. NotTold(c, i)' => Unheard(c, i)'
  BY HeardNetwork
<1>6. uses'[i] = 0 => tgs'[i].state = NONE /\ tgs'[i].subs = {}
  BY <1>2 DEF FirstUse
<1> QED BY <1>3, <1>4, <1>5, <1>6 DEF FirstUse

(* The client is told of tag group i now: it knows nothing of its tags.    *)
LEMMA ToldNetwork ==
  ASSUME ReplicaInv, ReplicaInv', NEW c \in Stayers, NEW i \in TgIds, FirstUse(c, i),
         NEW m, Network(c, m), m = TgCreate(i), Unheard(c, i)
  PROVE  NoTagNews(c, i)' /\ \A t \in TagIds : TagPhase(c, i, t)' /\ ValueSound(c, i, t)'
<1>1. /\ ServerInv /\ ServerInv' /\ c \in Clients
      /\ DatagramEffect(c, m) \/ SendEffect(c, m) \/ StreamEffect(c, m)
  BY StayersAre DEF ReplicaInv, Network
<1>2. /\ m \in Cmds /\ \A x \in Held(c)' : x \in Held(c)
      /\ \A x \in ToSet(out_queue'[c]) : x \in Held(c)'
      /\ \A x \in ToSet(wire'[c]) : x \in ToSet(wire[c]) \/ (x = m /\ SendEffect(c, m))
      /\ \A a \in acks'[c] : a \in acks[c] \/ (a \in v_cmd_fake_ack(m) /\ ~StreamEffect(c, m))
      /\ UNCHANGED <<tgs, uses, node_subs, streams>>
  BY <1>1, NetworkHeld
<1>3. NoTag \notin TagIds
  BY DEF NoTag, TagIds
<1>4. \A x \in Held(c)' \union ToSet(wire'[c]) : x.tg = i => x.tag = NoTag
  BY <1>2, CmdFields DEF Unheard
<1>5. KnownTags(c, i)' = {}
  <2>1. \A t \in TagIds : view[c].tags[i][t] = UNKNOWN
    BY DEF Unheard, FirstUse, KnownTags
  <2>2. CASE SendEffect(c, m)
    BY <2>1, <2>2 DEF SendEffect, KnownTags
  <2>3. CASE DatagramEffect(c, m) \/ StreamEffect(c, m)
    <3>1. PICK w, r : w = view[c] /\ r = view'[c]
      OBVIOUS
    <3>2. LearnedTags(r, w, m)
      BY <1>1, <2>3, <3>1, LearnsTags
    <3>3. m.op = "TAGGROUP_CREATE" /\ m.tag = NoTag
      BY CmdFields
    <3>4. \A t \in TagIds : r.tags[i][t] = UNKNOWN
      BY <1>3, <2>1, <3>1, <3>2, <3>3 DEF LearnedTags
    <3> QED BY <3>1, <3>4 DEF KnownTags
  <2> QED BY <1>1, <2>2, <2>3
<1>6. ASSUME NEW t \in TagIds PROVE TagPhase(c, i, t)' /\ ValueSound(c, i, t)'
  <2>1. tgs'[i].tags[t].folls[c] = NONE
    <3>1. c \notin tgs[i].subs
      BY DEF Unheard
    <3> QED BY <1>1, <1>2, <3>1, TagSoundAt
  <2>2. /\ TagCreate(i, t) \notin Held(c)' /\ TagDestroy(i, t) \notin Held(c)'
        /\ TagCreate(i, t) \notin ToSet(wire'[c])
    BY <1>3, <1>4, CmdFields
  <2>3. Once(out_queue'[c], TagCreate(i, t)) /\ Once(out_queue'[c], TagDestroy(i, t))
    <3>1. TagCreate(i, t) \notin ToSet(out_queue'[c]) /\ TagDestroy(i, t) \notin ToSet(out_queue'[c])
      BY <1>2, <2>2
    <3> QED BY <3>1 DEF Once, ToSet
  <2>4. TagCreateAck(i, t) \notin acks'[c] /\ TagDestroyAck(i, t) \notin acks'[c]
    <3>1. TagCreateAck(i, t) \notin acks[c] /\ TagDestroyAck(i, t) \notin acks[c]
      BY FakeCmdFields DEF Unheard
    <3>2. m # TagCreate(i, t) /\ m # TagDestroy(i, t)
      BY CmdFields
    <3> QED BY <1>2, <3>1, <3>2, FakeAckOf
  <2>5. ~Outcome(wire'[c], TagCreate(i, t), TagDestroy(i, t), t, KnownTags(c, i)')
    BY <1>5, <2>2 DEF Outcome, ToSet
  <2>6. TagPhase(c, i, t)'
    BY <2>1, <2>2, <2>3, <2>4, <2>5 DEF TagPhase, Tracked, NONE
  <2>7. \A x \in net'[c] : x \notin NewsOf(i, t)'
    BY <1>3, <1>4 DEF NewsOf, Held
  <2>8. ValueSound(c, i, t)'
    BY <2>1, <2>7 DEF ValueSound, NONE, CREATED
  <2> QED BY <2>6, <2>8
<1>7. NoTagNews(c, i)'
  BY <1>4 DEF NoTagNews
<1> QED BY <1>6, <1>7

(* A client that has asked for tag group i learns of its tags.             *)
LEMMA TagTells ==
  ASSUME ServerInv, NEW c \in Clients, NEW i \in TgIds, NEW t \in TagIds, FirstUse(c, i),
         Current(c, i), NoTagNews(c, i), NEW m, Network(c, m), m # TgDestroy(i)
  PROVE  /\ SendEffect(c, m) => KnownTags(c, i) = KnownTags(c, i)'
         /\ DatagramEffect(c, m) \/ StreamEffect(c, m) =>
              Tells(m, TagCreate(i, t), TagDestroy(i, t), t, KnownTags(c, i), KnownTags(c, i)')
<1>1. SendEffect(c, m) => KnownTags(c, i) = KnownTags(c, i)'
  BY DEF SendEffect, KnownTags
<1>2. ASSUME DatagramEffect(c, m) \/ StreamEffect(c, m)
      PROVE  Tells(m, TagCreate(i, t), TagDestroy(i, t), t, KnownTags(c, i), KnownTags(c, i)')
  <2>1. PICK w, r : w = view[c] /\ r = view'[c]
    OBVIOUS
  <2>2. LearnedTags(r, w, m)
    BY <1>2, <2>1, LearnsTags
  <2>3. /\ t \in KnownTags(c, i) <=> w.tags[i][t] # UNKNOWN
        /\ t \in KnownTags(c, i)' <=> r.tags[i][t] # UNKNOWN
    BY <2>1 DEF KnownTags, TagIds
  <2>4. m \in Cmds /\ m \in Held(c) \union ToSet(wire[c])
    BY NetworkHeld DEF Network
  <2>5. t # NoTag
    BY DEF NoTag, TagIds
  <2>6. CASE m = TagCreate(i, t)
    <3>1. m.op = "TAG_CREATE" /\ m.tg = i /\ m.tag = t
      BY <2>6, CmdFields
    <3>2. i \in w.tgs
      BY <2>1, <2>4, <2>5, <3>1 DEF NoTagNews, FirstUse
    <3>3. r.tags[i][t] = IF w.tags[i][t] = UNKNOWN THEN UNSET ELSE w.tags[i][t]
      BY <2>2, <3>1, <3>2 DEF LearnedTags
    <3>4. r.tags[i][t] # UNKNOWN
      BY <3>3 DEF UNKNOWN, UNSET
    <3>5. m # TagDestroy(i, t)
      BY <3>1, CmdFields
    <3> QED BY <2>3, <2>6, <3>4, <3>5 DEF Tells
  <2>7. CASE m = TagDestroy(i, t)
    <3>1. m.op = "TAG_DESTROY" /\ m.tg = i /\ m.tag = t
      BY <2>7, CmdFields
    <3>2. r.tags[i][t] = UNKNOWN
      BY <2>2, <3>1 DEF LearnedTags
    <3>3. m # TagCreate(i, t)
      BY <3>1, CmdFields
    <3> QED BY <2>3, <2>7, <3>2, <3>3 DEF Tells
  <2>8. CASE m # TagCreate(i, t) /\ m # TagDestroy(i, t)
    <3>1. r.tags[i][t] # UNKNOWN <=> w.tags[i][t] # UNKNOWN
      <4>1. CASE m.tg = i /\ m.tag = t
        <5>1. m = TagSet(i, t, m.value) /\ m.op = "TAG_SET" /\ m.value \in Values
          BY <2>4, <2>5, <2>8, <4>1, CmdCases, CmdFields
        <5>2. r.tags[i][t] = IF w.tags[i][t] # UNKNOWN THEN m.value ELSE w.tags[i][t]
          BY <2>2, <4>1, <5>1 DEF LearnedTags
        <5> QED BY <5>1, <5>2, TagGroupsAssumption
      <4>2. CASE ~(m.tg = i /\ m.tag = t)
        <5>1. ~(m.op = "TAGGROUP_DESTROY" /\ m.tg = i)
          BY <2>4, CmdCases, CmdFields
        <5>2. r.tags[i][t] = w.tags[i][t]
          BY <2>2, <4>2, <5>1 DEF LearnedTags
        <5> QED BY <5>2
      <4> QED BY <4>1, <4>2
    <3> QED BY <2>3, <2>8, <3>1 DEF Tells
  <2> QED BY <2>6, <2>7, <2>8
<1> QED BY <1>1, <1>2

LEMMA TagPhaseNetwork ==
  ASSUME ServerInv, NEW c \in Clients, NEW i \in TgIds, NEW t \in TagIds, FirstUse(c, i),
         Current(c, i), NoTagNews(c, i), NEW m, Network(c, m), m # TgDestroy(i), TagPhase(c, i, t)
  PROVE  TagPhase(c, i, t)'
<1>1. PICK f, V, W :
        f = tgs[i].tags[t].folls[c] /\ V = KnownTags(c, i) /\ W = KnownTags(c, i)'
  OBVIOUS
<1>2. PICK create, destroy, created, destroyed :
        /\ create = TagCreate(i, t) /\ destroy = TagDestroy(i, t)
        /\ created = TagCreateAck(i, t) /\ destroyed = TagDestroyAck(i, t)
  OBVIOUS
<1>3. /\ create # destroy /\ m \in Cmds
      /\ DatagramEffect(c, m) \/ SendEffect(c, m) \/ StreamEffect(c, m)
  BY <1>2, CmdFields, NetworkHeld DEF Network
<1>4. Tracked(Held(c), out_queue[c], wire[c], acks[c], f, create, destroy, created, destroyed, t, V)
  BY <1>1, <1>2 DEF TagPhase
<1>5. /\ created \in v_cmd_fake_ack(m) <=> m = create
      /\ destroyed \in v_cmd_fake_ack(m) <=> m = destroy
  BY <1>2, <1>3, FakeAckOf
<1>6. /\ SendEffect(c, m) => V = W
      /\ DatagramEffect(c, m) \/ StreamEffect(c, m) => Tells(m, create, destroy, t, V, W)
  BY <1>1, <1>2, TagTells
<1>7. Tracked(Held(c)', out_queue'[c], wire'[c], acks'[c], f, create, destroy, created, destroyed, t, W)
  BY <1>3, <1>4, <1>5, <1>6, TrackedNetwork
<1>8. f = tgs'[i].tags[t].folls[c]
  BY <1>1, <1>3 DEF DatagramEffect, SendEffect, StreamEffect
<1> QED BY <1>1, <1>2, <1>7, <1>8 DEF TagPhase

(* The value of a tag that a client knows and that command m is about.     *)
LEMMA ValueLearned ==
  ASSUME ServerInv, NEW c \in Clients, NEW i \in TgIds, NEW t \in TagIds,
         NEW m, DatagramEffect(c, m) \/ StreamEffect(c, m), m # TgDestroy(i)
  PROVE  /\ m \notin NewsOf(i, t) => view'[c].tags[i][t] = view[c].tags[i][t]
         /\ \A v : m = TagSet(i, t, v) /\ view[c].tags[i][t] # UNKNOWN => view'[c].tags[i][t] = v
         /\ m = TagCreate(i, t) /\ view[c].tags[i][t] # UNKNOWN =>
              view'[c].tags[i][t] = view[c].tags[i][t]
<1>1. PICK w, r : w = view[c] /\ r = view'[c]
  OBVIOUS
<1>2. LearnedTags(r, w, m)
  BY <1>1, LearnsTags
<1>3. m \in Cmds
  BY NetworkHeld
<1>4. ~(m.op = "TAGGROUP_DESTROY" /\ m.tg = i)
  BY <1>3, CmdCases, CmdFields
<1>5. ASSUME m \notin NewsOf(i, t) PROVE r.tags[i][t] = w.tags[i][t]
  <2>1. m.tg # i \/ m.tag # t
    BY <1>3, <1>5 DEF NewsOf
  <2> QED BY <1>2, <1>4, <2>1 DEF LearnedTags
<1>6. ASSUME NEW v, m = TagSet(i, t, v), w.tags[i][t] # UNKNOWN PROVE r.tags[i][t] = v
  <2>1. m.op = "TAG_SET" /\ m.tg = i /\ m.tag = t /\ m.value = v
    BY <1>6, CmdFields
  <2> QED BY <1>2, <1>6, <2>1 DEF LearnedTags
<1>7. ASSUME m = TagCreate(i, t), w.tags[i][t] # UNKNOWN PROVE r.tags[i][t] = w.tags[i][t]
  <2>1. m.op = "TAG_CREATE" /\ m.tg = i /\ m.tag = t
    BY <1>7, CmdFields
  <2> QED BY <1>2, <1>7, <2>1 DEF LearnedTags
<1> QED BY <1>1, <1>5, <1>6, <1>7

(* The create command of a tag that is still on its way comes after the    *)
(* first command of the stream, unless it is that one.                     *)
LEMMA OnTheWire ==
  ASSUME NEW w \in Seq(Cmds), w # <<>>, NEW q \in Seq(Cmds), NEW on, NEW off, NEW e, NEW V,
         Outcome(w, on, off, e, V), e \notin V, Head(w) # on
  PROVE  on \in ToSet(Tail(w \o q))
<1>1. PICK n \in DOMAIN w : w[n] = on
  BY DEF Outcome
<1>2. on \in ToSet(w)
  BY <1>1 DEF ToSet
<1>3. on \in ToSet(Tail(w)) /\ Tail(w) \in Seq(Cmds)
  BY <1>2, TailElements
<1>4. PICK u : u = Tail(w)
  OBVIOUS
<1>5. ToSet(u \o q) = ToSet(u) \union ToSet(q)
  BY <1>3, <1>4, ConcatElements
<1> QED BY <1>3, <1>4, <1>5, StreamArrived

LEMMA ValueNetwork ==
  ASSUME ServerInv, NEW c \in Clients, NEW i \in TgIds, NEW t \in TagIds,
         NEW m, Network(c, m), m # TgDestroy(i), TagPhase(c, i, t), ValueSound(c, i, t)
  PROVE  ValueSound(c, i, t)'
<1>1. PICK tag, val, now, new, X :
        /\ tag = tgs[i].tags[t] /\ val = tag.value /\ now = view[c].tags[i][t]
        /\ new = view'[c].tags[i][t] /\ X = NewsOf(i, t)
  OBVIOUS
<1>2. m \in Cmds /\ UNCHANGED <<tgs, uses, node_subs, streams>>
  BY NetworkHeld DEF Network
<1>3. X = NewsOf(i, t)'
  BY <1>1 DEF NewsOf, Cmds
<1>4. SUFFICES ASSUME val # UNSET
               PROVE  /\ c \notin streams =>
                           /\ \A x \in net'[c] : x \in X /\ x.op = "TAG_SET" => x.value = val
                           /\ tag.folls[c] = CREATED => TagSet(i, t, val) \in net'[c] \/ new = val
                      /\ c \in streams /\ tag.folls[c] = CREATED =>
                           Settles(wire'[c] \o out_queue'[c], TagSet(i, t, val), X, val, new)
  BY <1>1, <1>2, <1>3 DEF ValueSound
<1>5. /\ c \notin streams =>
           /\ \A x \in net[c] : x \in X /\ x.op = "TAG_SET" => x.value = val
           /\ tag.folls[c] = CREATED => TagSet(i, t, val) \in net[c] \/ now = val
      /\ c \in streams /\ tag.folls[c] = CREATED =>
           Settles(wire[c] \o out_queue[c], TagSet(i, t, val), X, val, now)
  BY <1>1, <1>4 DEF ValueSound
<1>6. val \in Values /\ val # UNKNOWN
  BY <1>1, <1>4, TagSoundAt, TagGroupsAssumption
<1>7. tag.folls[c] = CREATED =>
        /\ Outcome(wire[c], TagCreate(i, t), TagDestroy(i, t), t, KnownTags(c, i))
        /\ TagDestroy(i, t) \notin Held(c) /\ TagCreate(i, t) \notin Held(c)
  BY <1>1 DEF TagPhase, Tracked, CREATED
<1>8. t \in KnownTags(c, i) <=> now # UNKNOWN
  BY <1>1 DEF KnownTags
<1>9. DatagramEffect(c, m) \/ StreamEffect(c, m) =>
        /\ m \notin X => new = now
        /\ m = TagSet(i, t, val) /\ now # UNKNOWN => new = val
  BY <1>1, ValueLearned
<1>10. TagSet(i, t, val) \in X
  BY <1>1, <1>6, CmdsHold, CmdFields DEF NewsOf
<1>11. CASE DatagramEffect(c, m)
  <2>1. /\ m \in net[c] /\ net'[c] = net[c] \ {m} /\ c \notin streams /\ wire[c] = <<>>
        /\ m \in Held(c)
    BY <1>11 DEF DatagramEffect, ServerInv, Channels, Held
  <2>2. ASSUME tag.folls[c] = CREATED PROVE TagSet(i, t, val) \in net'[c] \/ new = val
    <3>1. now # UNKNOWN
      BY <1>7, <1>8, <2>1, <2>2, OutcomeEmpty
    <3>2. CASE m = TagSet(i, t, val)
      BY <1>9, <1>11, <3>1, <3>2
    <3>3. CASE m # TagSet(i, t, val)
      <4>1. m \notin X
        <5>1. SUFFICES ASSUME m \in X PROVE FALSE
          OBVIOUS
        <5>2. m.tg = i /\ m.tag = t /\ t # NoTag
          BY <1>1, <5>1 DEF NewsOf, NoTag, TagIds
        <5>3. m # TagCreate(i, t) /\ m # TagDestroy(i, t)
          BY <1>7, <2>1, <2>2
        <5>4. m = TagSet(i, t, m.value) /\ m.op = "TAG_SET"
          BY <1>2, <5>2, <5>3, CmdCases, CmdFields
        <5> QED BY <1>5, <2>1, <3>3, <5>1, <5>4
      <4> QED BY <1>5, <1>9, <1>11, <2>1, <2>2, <3>3, <4>1
    <3> QED BY <3>2, <3>3
  <2> QED BY <1>5, <2>1, <2>2
<1>12. CASE SendEffect(c, m)
  <2>1. PICK q, w : q = out_queue[c] /\ w = wire[c]
    OBVIOUS
  <2>2. /\ q \in Seq(Cmds) /\ w \in Seq(Cmds) /\ q # <<>> /\ m = Head(q) /\ c \in streams
        /\ out_queue'[c] = Tail(q) /\ wire'[c] = Append(w, m) /\ view'[c] = view[c]
    BY <1>12, <2>1 DEF SendEffect, ServerInv, TypeOK
  <2>3. wire'[c] \o out_queue'[c] = wire[c] \o out_queue[c]
    BY <2>1, <2>2, StreamSent
  <2> QED BY <1>1, <1>5, <2>2, <2>3
<1>13. CASE StreamEffect(c, m)
  <2>1. PICK q, w, s, last :
          q = out_queue[c] /\ w = wire[c] /\ s = w \o q /\ last = TagSet(i, t, val)
    OBVIOUS
  <2>2. /\ q \in Seq(Cmds) /\ w \in Seq(Cmds) /\ w # <<>> /\ m = Head(w) /\ c \in streams
        /\ out_queue'[c] = q /\ wire'[c] = Tail(w)
    BY <1>13, <2>1 DEF StreamEffect, ServerInv, TypeOK
  <2>3. /\ s \in Seq(Cmds) /\ s # <<>> /\ Head(s) = m /\ Tail(s) = wire'[c] \o out_queue'[c]
    BY ZenonT(60), <2>1, <2>2, StreamArrived
  <2>4. SUFFICES ASSUME tag.folls[c] = CREATED
                 PROVE  Settles(Tail(s), last, X, val, new)
    BY <2>1, <2>2, <2>3
  <2>5. Settles(s, last, X, val, now)
    BY <1>5, <2>1, <2>2, <2>4
  <2>6. m \notin X => new = now
    BY <1>9, <1>13
  <2>7. ASSUME m = last, \A x \in ToSet(Tail(s)) : x \notin X PROVE new = val
    <3>1. SUFFICES ASSUME now = UNKNOWN PROVE FALSE
      BY <1>9, <1>13, <2>1, <2>7
    <3>2. PICK on, off, V : on = TagCreate(i, t) /\ off = TagDestroy(i, t) /\ V = KnownTags(c, i)
      OBVIOUS
    <3>3. Outcome(w, on, off, t, V) /\ t \notin V /\ Head(w) # on
      BY <1>7, <1>8, <2>1, <2>2, <2>4, <2>7, <3>1, <3>2, CmdFields
    <3>4. on \in ToSet(Tail(w \o q))
      BY <2>2, <3>3, OnTheWire
    <3>5. on \in X
      BY <1>1, <3>2, CmdsHold, CmdFields DEF NewsOf
    <3> QED BY <2>1, <2>7, <3>4, <3>5
  <2> QED BY <1>10, <2>1, <2>3, <2>5, <2>6, <2>7, SettlesTail
<1> QED BY <1>11, <1>12, <1>13 DEF Network

LEMMA NetworkKeeps ==
  ASSUME ReplicaInv, ReplicaInv', NEW c \in Stayers, NEW i \in TgIds, TagsInv(c, i),
         NEW m, Network(c, m)
  PROVE  TagsInv(c, i)'
<1>1. ServerInv /\ c \in Clients /\ FirstUse(c, i)
  BY StayersAre DEF ReplicaInv, TagsInv
<1>2. FirstUse(c, i)'
  BY <1>1, FirstUseNetwork
<1>3. ASSUME Current(c, i)'
      PROVE  NoTagNews(c, i)' /\ \A t \in TagIds : TagPhase(c, i, t)' /\ ValueSound(c, i, t)'
  <2>1. CASE Current(c, i) /\ m # TgDestroy(i)
    <3>1. NoTagNews(c, i) /\ \A t \in TagIds : TagPhase(c, i, t) /\ ValueSound(c, i, t)
      BY <2>1 DEF TagsInv
    <3>2. /\ m \in Held(c) \union ToSet(wire[c]) /\ \A x \in Held(c)' : x \in Held(c)
          /\ \A x \in ToSet(wire'[c]) : x \in ToSet(wire[c]) \/ x = m
          /\ UNCHANGED <<tgs, uses, node_subs, streams>>
      BY <1>1, NetworkHeld DEF Network
    <3>3. NoTagNews(c, i)'
      BY <3>1, <3>2 DEF NoTagNews
    <3>4. ASSUME NEW t \in TagIds PROVE TagPhase(c, i, t)'
      BY <1>1, <2>1, <3>1, TagPhaseNetwork
    <3>5. ASSUME NEW t \in TagIds PROVE ValueSound(c, i, t)'
      BY <1>1, <2>1, <3>1, ValueNetwork
    <3> QED BY <3>3, <3>4, <3>5
  <2>2. CASE m = TgCreate(i) /\ Unheard(c, i)
    BY <1>1, <2>2, ToldNetwork
  <2> QED BY <1>1, <1>3, <2>1, <2>2, CurrentNetwork
<1>4. TagIds = TagIds'
  BY DEF TagIds
<1> QED BY <1>2, <1>3, <1>4 DEF TagsInv

-----------------------------------------------------------------------------
LEMMA AgreeStep ==
  ASSUME AgreeInv, [Next]_vars
  PROVE  AgreeInv'
<1>1. ReplicaInv /\ ReplicaInv' /\ ServerInv /\ ServerInv' /\ StepCases
  BY ReplicaStep, EveryStep DEF AgreeInv, ReplicaInv
<1> SUFFICES ASSUME NEW d \in Stayers, NEW i \in TgIds PROVE TagsInv(d, i)'
  BY <1>1 DEF AgreeInv, Stayers
<1>2. d \in Clients /\ d \notin Leavers /\ TagsInv(d, i) /\ FirstUse(d, i) /\ TgPhase(d, i)
  BY <1>1, StayersAre DEF AgreeInv, TagsInv, ReplicaInv
<1>3. ASSUME \E out : HandlerKept(d, i, out) PROVE TagsInv(d, i)'
  BY <1>1, <1>2, <1>3, HandlerKeeps
<1>4. ASSUME NEW c \in Clients, c \in Leavers, LeaveStep(c) PROVE TagsInv(d, i)'
  <2>1. d # c
    BY <1>2, <1>4
  <2>2. /\ net'[d] = net[d] /\ out_queue'[d] = out_queue[d] /\ wire'[d] = wire[d]
        /\ acks'[d] = acks[d] /\ view'[d] = view[d] /\ streams' = streams /\ uses' = uses
        /\ d \in node_subs' <=> d \in node_subs
        /\ tgs'[i].state = tgs[i].state /\ tgs'[i].subs = tgs[i].subs \ {c}
        /\ TagsLeft(tgs'[i], tgs[i], c)
    BY <1>2, <1>4, <2>1 DEF LeaveStep
  <2>3. \A t \in TagIds : /\ tgs'[i].tags[t].folls[d] = tgs[i].tags[t].folls[d]
                          /\ tgs'[i].tags[t].value = tgs[i].tags[t].value
    BY <1>2, <2>1, <2>2 DEF TagsLeft
  <2> QED BY <1>2, <2>1, <2>2, <2>3, TagsInvSame
<1>5. ASSUME NEW c \in Clients, NEW j \in TgIds, c \in Leavers, TgUnsubscribeEffect(c, j)
      PROVE  TagsInv(d, i)'
  <2>1. d # c
    BY <1>2, <1>5
  <2>2. /\ net'[d] = net[d] /\ out_queue'[d] = out_queue[d] /\ wire'[d] = wire[d]
        /\ acks'[d] = acks[d] /\ view'[d] = view[d] /\ streams' = streams /\ uses' = uses
        /\ node_subs' = node_subs
    BY <1>2, <1>5, <2>1 DEF TgUnsubscribeEffect
  <2>3. CASE i # j
    <3>1. tgs'[i] = tgs[i]
      BY <1>5, <2>3 DEF TgUnsubscribeEffect
    <3> QED BY <1>2, <2>2, <3>1, TagsInvSame
  <2>4. CASE i = j
    <3>1. /\ tgs'[i].state = tgs[i].state /\ tgs'[i].subs = tgs[i].subs \ {c}
          /\ TagsLeft(tgs'[i], tgs[i], c)
      BY <1>5, <2>4 DEF TgUnsubscribeEffect
    <3>2. \A t \in TagIds : /\ tgs'[i].tags[t].folls[d] = tgs[i].tags[t].folls[d]
                            /\ tgs'[i].tags[t].value = tgs[i].tags[t].value
      BY <1>2, <2>1, <3>1 DEF TagsLeft
    <3> QED BY <1>2, <2>1, <2>2, <3>1, <3>2, TagsInvSame
  <2> QED BY <2>3, <2>4
<1>6. ASSUME NEW c \in Clients, NEW m \in Cmds,
             DatagramEffect(c, m) \/ SendEffect(c, m) \/ StreamEffect(c, m)
      PROVE  TagsInv(d, i)'
  <2>1. CASE d = c
    BY <1>1, <1>2, <1>6, <2>1, NetworkKeeps DEF Network
  <2>2. CASE d # c
    <3>1. /\ net'[d] = net[d] /\ out_queue'[d] = out_queue[d] /\ wire'[d] = wire[d]
          /\ acks'[d] = acks[d] /\ view'[d] = view[d]
          /\ UNCHANGED <<tgs, uses, node_subs, streams>>
      BY <1>2, <1>6, <2>2 DEF DatagramEffect, SendEffect, StreamEffect
    <3> QED BY <1>2, <3>1, TagsInvSame
  <2> QED BY <2>1, <2>2
<1>7. CASE UNCHANGED vars
  BY <1>2, <1>7, TagsInvSame DEF vars
<1>8. ASSUME NEW c \in Clients, NodeSubscribe(c) PROVE TagsInv(d, i)'
  BY <1>1, <1>2, <1>3, <1>8, NodeSubscribeKept
<1>9. ASSUME NEW c \in Clients, NEW j \in TgIds, TgSubscribeEffect(c, j) PROVE TagsInv(d, i)'
  BY <1>1, <1>2, <1>3, <1>9, TgSubscribeKept
<1>10. ASSUME NEW c \in Clients, NEW j \in TgIds, TgCreateAckEffect(c, j) PROVE TagsInv(d, i)'
  BY <1>1, <1>2, <1>3, <1>10, TgCreateAckKept
<1>11. ASSUME NEW c \in Clients, NEW j \in TgIds, TgDestroyAckEffect(c, j) PROVE TagsInv(d, i)'
  BY <1>1, <1>2, <1>3, <1>11, TgDestroyAckKept
<1>12. ASSUME NEW c \in Clients, NEW j \in TgIds, NEW t \in TagIds, TagCreateAckEffect(c, j, t)
       PROVE  TagsInv(d, i)'
  BY <1>1, <1>2, <1>3, <1>12, TagCreateAckKept
<1>13. ASSUME NEW c \in Clients, NEW j \in TgIds, NEW t \in TagIds, TagDestroyAckEffect(c, j, t)
       PROVE  TagsInv(d, i)'
  BY <1>1, <1>2, <1>3, <1>13, TagDestroyAckKept
<1>14. ASSUME NEW j \in TgIds, TgCreateEffect(j) PROVE TagsInv(d, i)'
  BY <1>1, <1>2, <1>3, <1>14, TgCreateKept
<1>15. ASSUME NEW j \in TgIds, TgDestroyEffect(j) PROVE TagsInv(d, i)'
  BY <1>1, <1>2, <1>3, <1>15, TgDestroyKept
<1>16. ASSUME NEW j \in TgIds, NEW t \in TagIds, TagCreateEffect(j, t) PROVE TagsInv(d, i)'
  BY <1>1, <1>2, <1>3, <1>16, TagCreateKept
<1>17. ASSUME NEW j \in TgIds, NEW t \in TagIds, TagDestroyEffect(j, t) PROVE TagsInv(d, i)'
  BY <1>1, <1>2, <1>3, <1>17, TagDestroyKept
<1>18. ASSUME NEW j \in TgIds, NEW t \in TagIds, NEW v \in Values, TagSetEffect(j, t, v)
       PROVE  TagsInv(d, i)'
  BY <1>1, <1>2, <1>3, <1>18, TagSetKept
<1> QED BY <1>1, <1>4, <1>5, <1>6, <1>7, <1>8, <1>9, <1>10, <1>11, <1>12, <1>13, <1>14, <1>15, <1>16,
           <1>17, <1>18 DEF StepCases

LEMMA InitAgree == Init => AgreeInv
<1> SUFFICES ASSUME Init PROVE AgreeInv
  OBVIOUS
<1>1. ReplicaInv
  BY InitReplica
<1> SUFFICES ASSUME NEW c \in Stayers, NEW i \in TgIds PROVE TagsInv(c, i)
  BY <1>1 DEF AgreeInv
<1>2. c \in Clients
  BY StayersAre
<1>3. /\ net[c] = {} /\ out_queue[c] = <<>> /\ wire[c] = <<>> /\ acks[c] = {}
      /\ view[c].tgs = {} /\ tgs[i].state = NONE /\ tgs[i].subs = {} /\ uses[i] = 0
      /\ \A t \in TagIds : view[c].tags[i][t] = UNKNOWN
  BY <1>2 DEF Init, EmptyView, FreeTg
<1>4. Held(c) = {} /\ ToSet(wire[c]) = {} /\ KnownTags(c, i) = {}
  BY <1>3 DEF Held, ToSet, KnownTags
<1>5. ~Current(c, i)
  BY <1>3 DEF Current
<1>6. Unheard(c, i)
  BY <1>3, <1>4 DEF Unheard
<1> QED BY <1>3, <1>4, <1>5, <1>6 DEF TagsInv, FirstUse

LEMMA AgreeAlways == Spec => []AgreeInv
BY InitAgree, AgreeStep, PTL DEF Spec

(* A tag group or tag that is to be destroyed is known to the client.      *)
LEMMA AgreeKnows ==
  ASSUME AgreeInv, NEW c \in Stayers, NEW m \in net[c],
         m.op \in {"TAGGROUP_DESTROY", "TAG_DESTROY"}
  PROVE  Knows(c, m)
<1>1. PICK i : i = m.tg
  OBVIOUS
<1>2. ServerInv /\ c \in Clients
  BY StayersAre DEF AgreeInv, ReplicaInv
<1>3. m \in Cmds /\ c \notin streams /\ wire[c] = <<>> /\ m \in Held(c) /\ uses \in [TgIds -> 0 .. 2]
  BY <1>2 DEF ServerInv, TypeOK, Channels, Held
<1>4. i \in TgIds
  BY <1>1, <1>3, CmdCases
<1>5. TgPhase(c, i) /\ TagsInv(c, i)
  BY <1>4 DEF AgreeInv, ReplicaInv
<1>6. CASE m.op = "TAGGROUP_DESTROY"
  <2>1. m = TgDestroy(i) /\ m.tag = NoTag
    BY <1>1, <1>3, <1>6, CmdCases, CmdFields
  <2>2. Outcome(wire[c], TgCreate(i), TgDestroy(i), i, view[c].tgs)
    BY <1>3, <1>5, <2>1 DEF TgPhase, Tracked
  <2>3. i \in view[c].tgs
    BY <1>3, <2>2, OutcomeEmpty
  <2> QED BY <1>1, <2>1, <2>3 DEF Knows
<1>7. CASE m.op = "TAG_DESTROY"
  <2>1. PICK t : t = m.tag
    OBVIOUS
  <2>2. t \in TagIds /\ m = TagDestroy(i, t) /\ t # NoTag
    <3>1. NoTag \notin TagIds
      BY DEF NoTag, TagIds
    <3> QED BY <1>1, <1>3, <1>7, <2>1, <3>1, CmdCases
  <2>3. SUFFICES ASSUME i \in view[c].tgs, ~(uses[i] > 1) PROVE view[c].tags[i][t] # UNKNOWN
    BY <1>1, <2>1, <2>2 DEF Knows
  <2>4. uses[i] = 1
    <3>1. uses[i] # 0
      BY <1>5, <2>3 DEF TagsInv, FirstUse, NotTold, Unheard
    <3>2. uses[i] \in 0 .. 2
      BY <1>3, <1>4
    <3> QED BY <2>3, <3>1, <3>2
  <2>5. Current(c, i)
    BY <1>3, <2>3, <2>4, OutcomeEmpty DEF Current, WillKnow
  <2>6. TagPhase(c, i, t)
    BY <1>5, <2>2, <2>5 DEF TagsInv
  <2>7. Outcome(wire[c], TagCreate(i, t), TagDestroy(i, t), t, KnownTags(c, i))
    BY <1>3, <2>2, <2>6 DEF TagPhase, Tracked
  <2>8. t \in KnownTags(c, i)
    BY <1>3, <2>7, OutcomeEmpty
  <2> QED BY <2>8 DEF KnownTags
<1> QED BY <1>6, <1>7

(* With nothing on its way, both sides hold the same.                      *)
LEMMA AgreeQuiet ==
  ASSUME AgreeInv, NEW c \in Stayers, Quiet(c), NEW i \in TgIds
  PROVE  /\ i \in view[c].tgs <=> tgs[i].folls[c] = CREATED
         /\ i \in view[c].tgs /\ uses[i] = 1 =>
              \A t \in TagIds :
                /\ view[c].tags[i][t] # UNKNOWN <=> tgs[i].tags[t].folls[c] = CREATED
                /\ view[c].tags[i][t] # UNKNOWN /\ tgs[i].tags[t].value # UNSET =>
                     view[c].tags[i][t] = tgs[i].tags[t].value
<1>1. /\ net[c] = {} /\ acks[c] = {} /\ out_queue[c] = <<>> /\ wire[c] = <<>>
  BY DEF Quiet
<1>2. Held(c) = {}
  BY <1>1 DEF Held, ToSet
<1>3. TgPhase(c, i) /\ TagsInv(c, i)
  BY DEF AgreeInv, ReplicaInv
<1>4. Outcome(wire[c], TgCreate(i), TgDestroy(i), i, view[c].tgs) <=> i \in view[c].tgs
  BY <1>1, OutcomeEmpty
<1>5. i \in view[c].tgs <=> tgs[i].folls[c] = CREATED
  BY <1>1, <1>2, <1>3, <1>4 DEF TgPhase, Tracked, CREATED
<1>6. ASSUME i \in view[c].tgs, uses[i] = 1, NEW t \in TagIds
      PROVE  /\ view[c].tags[i][t] # UNKNOWN <=> tgs[i].tags[t].folls[c] = CREATED
             /\ view[c].tags[i][t] # UNKNOWN /\ tgs[i].tags[t].value # UNSET =>
                  view[c].tags[i][t] = tgs[i].tags[t].value
  <2>1. Current(c, i)
    BY <1>4, <1>6 DEF Current, WillKnow
  <2>2. TagPhase(c, i, t) /\ ValueSound(c, i, t)
    BY <1>3, <1>6, <2>1 DEF TagsInv
  <2>3. Outcome(wire[c], TagCreate(i, t), TagDestroy(i, t), t, KnownTags(c, i)) <=>
          t \in KnownTags(c, i)
    BY <1>1, OutcomeEmpty
  <2>4. t \in KnownTags(c, i) <=> tgs[i].tags[t].folls[c] = CREATED
    BY <1>1, <1>2, <2>2, <2>3 DEF TagPhase, Tracked, CREATED
  <2>5. t \in KnownTags(c, i) <=> view[c].tags[i][t] # UNKNOWN
    BY <1>6 DEF KnownTags
  <2>6. ASSUME tgs[i].tags[t].folls[c] = CREATED, tgs[i].tags[t].value # UNSET
        PROVE  view[c].tags[i][t] = tgs[i].tags[t].value
    <3>1. CASE c \notin streams
      BY <1>1, <2>2, <2>6, <3>1 DEF ValueSound
    <3>2. CASE c \in streams
      <4>1. wire[c] \o out_queue[c] = <<>>
        BY <1>1
      <4>2. PICK v, now, X, last :
              /\ v = tgs[i].tags[t].value /\ now = view[c].tags[i][t]
              /\ X = NewsOf(i, t) /\ last = TagSet(i, t, v)
        OBVIOUS
      <4>3. Settles(<<>>, last, X, v, now)
        BY <2>2, <2>6, <3>2, <4>1, <4>2 DEF ValueSound
      <4>4. now = v
        BY <4>3 DEF Settles
      <4> QED BY <4>2, <4>4
    <3> QED BY <3>1, <3>2
  <2> QED BY <2>4, <2>5, <2>6
<1> QED BY <1>5, <1>6

(* Clients and server agree: for any clients, ids and values, and whatever *)
(* order datagrams and acknowledgements come in, a client that stays is    *)
(* sent the destroy command of a tag group or tag only when it has         *)
(* received the create command (what vs_tag.c says of vs_tag_send_destroy  *)
(* and vs_handle_tag_create_ack), and when nothing is on its way, client   *)
(* and server have the same tag groups, and of the first tag group with an *)
(* id the same tags and values.                                            *)
THEOREM TagsAgree == Spec => []ClientsAgree
<1>1. AgreeInv => ClientsAgree
  <2> SUFFICES ASSUME AgreeInv PROVE DestroyAfterCreate /\ AgreeWhenQuiet
    BY DEF ClientsAgree
  <2>1. DestroyAfterCreate
    BY AgreeKnows DEF DestroyAfterCreate
  <2>2. AgreeWhenQuiet
    BY AgreeQuiet DEF AgreeWhenQuiet
  <2> QED BY <2>1, <2>2
<1> QED BY <1>1, AgreeAlways, PTL
=============================================================================
