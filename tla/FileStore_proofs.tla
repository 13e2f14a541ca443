--------------------------- MODULE FileStore_proofs ---------------------------
(***************************************************************************)
(* FilesInv is an inductive invariant of FileStore, for every number of    *)
(* ids and publications and however often the process crashes; with it a   *)
(* message goes on after a restart where its flow had got to, and none is  *)
(* forgotten.                                                              *)
(***************************************************************************)
EXTENDS FileStore, SequenceTheorems, TLAPS

\* A key is that of the PUBLISH record or of the PUBREL record of its id.
LEMMA KeyCases ==
  ASSUME NEW key \in Keys
  PROVE  /\ key.id \in MsgIds
         /\ \/ key.stem = "s-" /\ key = Sent(key.id)
            \/ key.stem = "sc-" /\ key = Pubrel(key.id)
BY DEF Keys, Sent, Pubrel

LEMMA KeysDiffer ==
  /\ \A id \in MsgIds : /\ Sent(id) \in Keys /\ Sent(id).id = id /\ Sent(id).stem = "s-"
                        /\ Pubrel(id) \in Keys /\ Pubrel(id).id = id /\ Pubrel(id).stem = "sc-"
  /\ \A id, other \in MsgIds : /\ Sent(id) # Pubrel(other)
                               /\ Sent(id) = Sent(other) => id = other
                               /\ Pubrel(id) = Pubrel(other) => id = other
BY DEF Keys, Sent, Pubrel

\* MQTTPersistence_restorePacket takes a file for a packet only if it is whole,
\* whatever lies behind the buffer it is read into.
LEMMA OnlyWholeIsRestored ==
  ASSUME NEW n \in 0..Whole
  PROVE  restorePacket(n) <=> n = Whole
<1>1. CASE n >= Header
  <2>1. Decoded(n) = {<<2, 1>>}
    BY <1>1 DEF Decoded, Header, Whole
  <2> QED BY <2>1, <1>1 DEF restorePacket, Whole, Header
<1>2. CASE n < Header
  <2>1. Decoded(n) = (2..5) \X (0..3)
    BY <1>2 DEF Decoded, Header, Whole
  <2>2. \A d \in Decoded(n) : d[1] \in 2..5 /\ d[2] \in 0..3
    BY <2>1
  <2> QED BY <2>2, <1>2 DEF restorePacket, Whole, Header
<1> QED BY <1>1, <1>2 DEF Header, Whole

LEMMA InitFiles == Init => FilesInv
<1> SUFFICES ASSUME Init PROVE FilesInv
  OBVIOUS
<1>1. TypeOK
  BY ConstantsAssumption, BoundsAssumption, KeysDiffer
  DEF Init, TypeOK, File, NoFile, Slot, Free, Steps, MsgIds, Flow, Kinds
<1>2. Consistent
  BY BoundsAssumption, ConstantsAssumption, KeysDiffer
  DEF Init, Consistent, Exists, MsgIds
<1>3. Kept
  BY KeysDiffer DEF Init, Kept
<1>4. Resumable
  BY KeysDiffer DEF Init, Resumable, AtWork, Agree, Exists
<1> QED BY <1>1, <1>2, <1>3, <1>4 DEF FilesInv

-----------------------------------------------------------------------------
(* What an operation does to far *)

\* A flow that gets on keeps its id and its quality of service.
LEMMA FlowGetsOn ==
  ASSUME far \in Seq(Flow), NEW p \in DOMAIN far, NEW stage \in Stages, Reaches(p, stage)
  PROVE  /\ far' \in Seq(Flow) /\ Len(far') = Len(far) /\ DOMAIN far' = DOMAIN far
         /\ \A q \in DOMAIN far : /\ far'[q].id = far[q].id /\ far'[q].qos = far[q].qos
                                  /\ q # p => far'[q].stage = far[q].stage
         /\ far'[p].stage = IF far[p].stage = "dropped" THEN "dropped" ELSE stage
<1>1. CASE far[p].stage = "dropped"
  BY <1>1 DEF Reaches
<1>2. CASE far[p].stage # "dropped"
  <2>1. far' = [far EXCEPT ![p].stage = stage]
    BY <1>2 DEF Reaches
  <2>2. far[p] \in Flow
    OBVIOUS
  <2>3. [far[p] EXCEPT !.stage = stage] \in Flow
    BY <2>2 DEF Flow
  <2> QED BY <2>1, <2>2, <2>3, <1>2 DEF Flow
<1> QED BY <1>1, <1>2

\* A new publication is the last of far; the others stay.
LEMMA FlowBegins ==
  ASSUME far \in Seq(Flow), NEW f \in Flow, far' = Append(far, f)
  PROVE  /\ far' \in Seq(Flow) /\ Len(far') = Len(far) + 1
         /\ DOMAIN far' = DOMAIN far \cup {Len(far) + 1} /\ Len(far) + 1 \notin DOMAIN far
         /\ \A q \in DOMAIN far : far'[q] = far[q]
         /\ far'[Len(far) + 1] = f
OBVIOUS

\* A clean session drops what is not completed.
LEMMA FlowsDropped ==
  ASSUME far \in Seq(Flow),
         far' = [p \in DOMAIN far |-> IF far[p].stage = "completed" THEN far[p]
                                     ELSE [far[p] EXCEPT !.stage = "dropped"]]
  PROVE  /\ far' \in Seq(Flow) /\ Len(far') = Len(far) /\ DOMAIN far' = DOMAIN far
         /\ \A q \in DOMAIN far : /\ far'[q].id = far[q].id /\ far'[q].qos = far[q].qos
                                  /\ far'[q].stage \in {"completed", "dropped"}
<1>1. DOMAIN far = 1..Len(far) /\ Len(far) \in Nat
  OBVIOUS
<1>2. \A q \in DOMAIN far : /\ far'[q] \in Flow
                            /\ far'[q].id = far[q].id /\ far'[q].qos = far[q].qos
                            /\ far'[q].stage \in {"completed", "dropped"}
  <2> TAKE q \in DOMAIN far
  <2>1. far[q] \in Flow
    OBVIOUS
  <2>2. [far[q] EXCEPT !.stage = "dropped"] \in Flow
    BY <2>1 DEF Flow, Stages
  <2> QED BY <2>1, <2>2 DEF Flow
<1>3. far' \in Seq(Flow) /\ Len(far') = Len(far)
  BY <1>1, <1>2
<1> QED BY <1>1, <1>2, <1>3

\* The restored message is one a message in memory may be.
LEMMA RestoredIsSlot ==
  ASSUME TypeOK, Consistent, NEW id \in MsgIds, Exists(Sent(id))
  PROVE  /\ Restored(id) \in Slot /\ Restored(id) # Free
         /\ Restored(id).pub = files[Sent(id)].pub
         /\ files[Sent(id)].pub \in DOMAIN far
<1>1. files[Sent(id)] \in File /\ files[Sent(id)] # NoFile
  BY KeysDiffer DEF TypeOK, Exists
<1>2. files[Sent(id)].pub \in 1..MaxPublish
  BY <1>1 DEF File
<1> QED BY <1>1, <1>2 DEF Restored, pstget, Slot, Free, Consistent, FirstReply

-----------------------------------------------------------------------------
(* Types *)

\* Opening a file to write a record of publication pub.
LEMMA Opened ==
  ASSUME TypeOK, NEW key \in Keys, NEW pub \in 1..MaxPublish, fopen(key, pub)
  PROVE  files' \in [Keys -> File] /\ step' \in Steps /\ cur' \in Keys
BY DEF fopen, TypeOK, File, Steps, Whole

LEMMA TypeStep == TypeOK /\ Consistent /\ [Next]_vars => TypeOK'
<1> SUFFICES ASSUME TypeOK, Consistent, [Next]_vars PROVE TypeOK'
  OBVIOUS
<1> USE KeysDiffer
<1>p. \A id \in MsgIds : mem[id] # Free =>
        mem[id].pub \in DOMAIN far /\ mem[id].pub \in 1..MaxPublish
  BY DEF Consistent, TypeOK, Slot
<1>u. ASSUME NEW kind \in Kinds, Disturb(kind) PROVE used' \in [Kinds -> Nat]
  BY <1>u DEF Disturb, TypeOK
<1>w. ASSUME step \in {"put", "replace"}, NEW n \in 0..Whole
      PROVE  [files EXCEPT ![cur].size = n] \in [Keys -> File]
  <2>1. files[cur].pub \in 1..MaxPublish
    BY <1>w, <1>p, KeyCases DEF Consistent, TypeOK
  <2>2. files[cur] \in File
    BY DEF TypeOK
  <2>3. [files[cur] EXCEPT !.size = n] \in File
    BY <2>1, <2>2 DEF File, NoFile
  <2> QED BY <2>3 DEF TypeOK
<1>1. ASSUME NEW qos \in Qoss, publish(qos) PROVE TypeOK'
  <2>1. PICK id \in MsgIds :
          /\ far' = Append(far, [id |-> id, qos |-> qos, stage |-> "begun"])
          /\ mem' = [mem EXCEPT ![id] = [pub |-> Len(far) + 1, next |-> FirstReply(qos)]]
          /\ fopen(Sent(id), Len(far) + 1)
    BY <1>1 DEF publish
  <2>2. [id |-> id, qos |-> qos, stage |-> "begun"] \in Flow /\ Len(far) + 1 \in 1..MaxPublish
    BY <1>1, ConstantsAssumption, BoundsAssumption DEF Flow, Stages, publish, TypeOK
  <2>3. far' \in Seq(Flow)
    BY <2>1, <2>2, FlowBegins DEF TypeOK
  <2>4. mem' \in [MsgIds -> Slot]
    BY <2>1, <2>2 DEF TypeOK, Slot, FirstReply
  <2> QED BY <1>1, <2>1, <2>2, <2>3, <2>4, Opened DEF TypeOK, publish
<1>2. CASE pstput
  <2>1. files' \in [Keys -> File]
    <3>1. [files EXCEPT ![cur] = NoFile] \in [Keys -> File]
      BY DEF TypeOK, File
    <3>2. 0..(Whole - 1) \subseteq 0..Whole /\ Whole \in 0..Whole
      BY DEF Whole
    <3> QED BY <1>2, <1>w, <3>1, <3>2 DEF pstput
  <2> QED BY <1>2, <2>1, <1>u DEF pstput, TypeOK, Steps, Kinds
<1>3. CASE send
  <2>1. mem[cur.id].pub \in DOMAIN far
    BY <1>3, <1>p, KeyCases DEF send, Consistent, TypeOK
  <2>2. PICK stage \in Stages : Reaches(mem[cur.id].pub, stage)
    <3>1. far[mem[cur.id].pub] \in Flow
      BY <2>1, ElementOfSeq DEF TypeOK
    <3> QED BY <1>3, <3>1 DEF send, Flow, Stages
  <2>3. far' \in Seq(Flow)
    BY <2>1, <2>2, FlowGetsOn DEF TypeOK
  <2> QED BY <1>3, <2>3 DEF send, TypeOK, Steps
<1>4. CASE remove
  BY <1>4, KeyCases DEF remove, pstremove, TypeOK, Steps, File
<1>5. ASSUME NEW id \in MsgIds, pubrec(id) PROVE TypeOK'
  <2>1. mem[id] # Free
    BY <1>5 DEF pubrec, Free
  <2>2. far' \in Seq(Flow)
    BY <1>5, <2>1, <1>p, FlowGetsOn DEF pubrec, TypeOK, Stages
  <2>3. mem' \in [MsgIds -> Slot]
    BY <1>5, <2>1 DEF pubrec, TypeOK, Slot, Free
  <2> QED BY <1>5, <2>1, <2>2, <2>3, <1>p, Opened DEF pubrec, TypeOK
<1>6. ASSUME NEW id \in MsgIds, retry(id) PROVE TypeOK'
  BY <1>6, <1>p, Opened DEF retry, TypeOK
<1>7. ASSUME NEW id \in MsgIds, complete(id) PROVE TypeOK'
  <2>1. far' \in Seq(Flow)
    BY <1>7, <1>p, FlowGetsOn DEF complete, TypeOK, Stages
  <2> QED BY <1>7, <2>1 DEF complete, TypeOK, Slot, Steps
<1>8. ASSUME NEW rc \in {0, -2}, cleanSession(rc) PROVE TypeOK'
  BY <1>8, <1>u, FlowsDropped DEF cleanSession, clearUnix, TypeOK, Slot, Kinds
<1>9. CASE crash
  <2>1. files' \in [Keys -> File]
    BY <1>9, <1>w DEF crash, TypeOK
  <2> QED BY <1>9, <2>1, <1>u DEF crash, TypeOK, Slot, Steps, Kinds
<1>10. CASE restart
  BY <1>10 DEF restart, TypeOK, Steps, pstkeys
<1>11. CASE restored
  BY <1>11 DEF restored, TypeOK, Steps
<1>12. ASSUME NEW key \in Keys, restore(key) PROVE TypeOK'
  <2>1. files' \in [Keys -> File]
    BY <1>12 DEF restore, pstremove, TypeOK, File
  <2>2. mem' \in [MsgIds -> Slot]
    <3>1. CASE mem' = mem
      BY <3>1 DEF TypeOK
    <3>2. CASE mem' # mem
      <4>1. /\ key.id \in MsgIds /\ key = Sent(key.id)
            /\ mem' = [mem EXCEPT ![key.id] = Restored(key.id)]
            /\ restorePacket(files[key].size)
        BY <1>12, <3>2, KeyCases DEF restore, pstget
      <4>2. Exists(Sent(key.id))
        BY <4>1, OnlyWholeIsRestored DEF Exists, NoFile, Whole
      <4> QED BY <4>1, <4>2, RestoredIsSlot DEF TypeOK
    <3> QED BY <3>1, <3>2
  <2> QED BY <1>12, <2>1, <2>2 DEF restore, TypeOK
<1>13. CASE UNCHANGED vars
  BY <1>13 DEF vars, TypeOK
<1> QED BY <1>1, <1>2, <1>3, <1>4, <1>5, <1>6, <1>7, <1>8, <1>9, <1>10, <1>11, <1>12, <1>13 DEF Next

-----------------------------------------------------------------------------
(* Which publication each file and each message in memory is of *)

\* fopen, as what it does to each key.
LEMMA OpenedKeys ==
  ASSUME TypeOK, NEW key \in Keys, NEW pub \in 1..MaxPublish, fopen(key, pub)
  PROVE  /\ \A k \in Keys : k # key => files'[k] = files[k]
         /\ files'[key].pub = pub /\ files'[key].size = 0 /\ files'[key] # NoFile
         /\ cur' = key
         /\ step' \in {"put", "replace"} /\ (step' = "put" <=> files[key] = NoFile)
BY DEF fopen, TypeOK, NoFile

\* A file whose size changes keeps its publication; the others stay.
LEMMA Resized ==
  ASSUME TypeOK, NEW key \in Keys, NEW n \in 0..Whole, files' = [files EXCEPT ![key].size = n]
  PROVE  /\ \A k \in Keys : k # key => files'[k] = files[k]
         /\ files'[key].pub = files[key].pub /\ files'[key].size = n
<1>1. files[key] \in File
  BY DEF TypeOK
<1>2. /\ [files[key] EXCEPT !.size = n].pub = files[key].pub
      /\ [files[key] EXCEPT !.size = n].size = n
  BY <1>1 DEF File, NoFile
<1>3. files' = [files EXCEPT ![key] = [files[key] EXCEPT !.size = n]]
  OBVIOUS
<1>4. files'[key] = [files[key] EXCEPT !.size = n] /\ \A k \in Keys : k # key => files'[k] = files[k]
  BY <1>3 DEF TypeOK
<1> QED BY <1>2, <1>4

\* Who is in memory has a publication, and so far a flow.
LEMMA InMemory ==
  ASSUME TypeOK, Consistent, NEW id \in MsgIds, mem[id] # Free
  PROVE  /\ mem[id].pub \in DOMAIN far /\ mem[id].pub \in 1..MaxPublish
         /\ far[mem[id].pub] \in Flow /\ far[mem[id].pub].id = id
         /\ mem[id].next \in {"PUBACK", "PUBREC", "PUBCOMP"}
<1>1. mem[id] \in Slot
  BY DEF TypeOK
<1>2. mem[id].pub \in DOMAIN far /\ far[mem[id].pub].id = id
  BY DEF Consistent
<1> QED BY <1>1, <1>2, ElementOfSeq DEF Slot, TypeOK

LEMMA ConsistentStep == TypeOK /\ Consistent /\ [Next]_vars => Consistent'
<1> SUFFICES ASSUME TypeOK, Consistent, [Next]_vars PROVE Consistent'
  OBVIOUS
<1> USE KeysDiffer
<1>c. cur \in Keys /\ cur.id \in MsgIds
  BY KeyCases DEF TypeOK
<1>s. \A id \in MsgIds : /\ Sent(id).id = id /\ Sent(id).stem = "s-" /\ Sent(id) \in Keys
                         /\ Pubrel(id) # Sent(id) /\ Pubrel(id) \in Keys /\ Pubrel(id).id = id
  BY DEF Sent, Pubrel
<1>1. ASSUME NEW qos \in Qoss, publish(qos) PROVE Consistent'
  <2> DEFINE f(id) == [id |-> id, qos |-> qos, stage |-> "begun"]
  <2>1. PICK id \in MsgIds :
          /\ mem[id] = Free
          /\ far' = Append(far, f(id))
          /\ mem' = [mem EXCEPT ![id] = [pub |-> Len(far) + 1, next |-> FirstReply(qos)]]
          /\ fopen(Sent(id), Len(far) + 1)
    BY <1>1 DEF publish
  <2>2. f(id) \in Flow /\ Len(far) + 1 \in 1..MaxPublish /\ step = "idle"
    BY <1>1, ConstantsAssumption, BoundsAssumption DEF Flow, Stages, publish, TypeOK
  <2>3. /\ Len(far') = Len(far) + 1
        /\ DOMAIN far' = DOMAIN far \cup {Len(far) + 1}
        /\ \A q \in DOMAIN far : far'[q] = far[q]
        /\ far'[Len(far) + 1].id = id
    BY <2>1, <2>2, FlowBegins DEF TypeOK
  <2>4. /\ mem'[id] # Free /\ mem'[id].pub = Len(far) + 1
        /\ \A other \in MsgIds : other # id => mem'[other] = mem[other]
    BY <2>1, <2>2 DEF TypeOK, Free
  <2>5. /\ \A k \in Keys : k # Sent(id) => files'[k] = files[k]
        /\ files'[Sent(id)].pub = Len(far) + 1 /\ cur' = Sent(id) /\ step' \in {"put", "replace"}
    BY <2>1, <2>2, OpenedKeys, <1>s
  <2> QED BY <2>1, <2>2, <2>3, <2>4, <2>5, <1>s DEF Consistent, Exists
<1>2. CASE pstput
  <2>1. /\ \A k \in Keys : k # cur => files'[k] = files[k]
        /\ files'[cur] = NoFile \/ files'[cur].pub = files[cur].pub
    <3>1. CASE files' = [files EXCEPT ![cur] = NoFile]
      BY <3>1 DEF TypeOK
    <3>2. ASSUME NEW n \in 0..Whole, files' = [files EXCEPT ![cur].size = n]
          PROVE  /\ \A k \in Keys : k # cur => files'[k] = files[k]
                 /\ files'[cur].pub = files[cur].pub
      BY <3>2, <1>c, Resized
    <3>3. 0..(Whole - 1) \subseteq 0..Whole /\ Whole \in 0..Whole
      BY DEF Whole
    <3> QED BY <1>2, <3>1, <3>2, <3>3 DEF pstput
  <2>2. step \in {"put", "replace"} /\ step' = "send" /\ UNCHANGED <<mem, cur, far>>
    BY <1>2 DEF pstput
  <2> QED BY <2>1, <2>2, <1>c, <1>s DEF Consistent, Exists
<1>3. CASE send
  <2>1. mem[cur.id] # Free /\ step' = "idle" /\ UNCHANGED <<files, mem, cur>>
    BY <1>3 DEF send, Consistent
  <2>2. PICK stage \in Stages : Reaches(mem[cur.id].pub, stage)
    BY <1>3, <2>1, <1>c, InMemory DEF send, Flow, Stages
  <2>3. Len(far') = Len(far) /\ DOMAIN far' = DOMAIN far /\ \A q \in DOMAIN far : far'[q].id = far[q].id
    BY <2>1, <2>2, <1>c, InMemory, FlowGetsOn DEF TypeOK
  <2> QED BY <2>1, <2>3 DEF Consistent, Exists
<1>4. CASE remove
  <2>1. /\ \A k \in Keys : files'[k] = files[k] \/ files'[k] = NoFile
        /\ step \in {"remove", "removeBoth", "removePubrel"} /\ step' \in {"idle", "removePubrel"}
        /\ UNCHANGED <<mem, cur, far>>
    BY <1>4, <1>c, <1>s DEF remove, pstremove, TypeOK
  <2> QED BY <2>1, <1>s DEF Consistent, Exists
<1>5. ASSUME NEW id \in MsgIds, pubrec(id) PROVE Consistent'
  <2>1. mem[id] # Free /\ step = "idle"
    BY <1>5 DEF pubrec, Free
  <2>2. Len(far') = Len(far) /\ DOMAIN far' = DOMAIN far /\ \A q \in DOMAIN far : far'[q].id = far[q].id
    BY <1>5, <2>1, InMemory, FlowGetsOn DEF pubrec, TypeOK, Stages
  <2>3. /\ \A other \in MsgIds : mem'[other].pub = mem[other].pub /\ (mem'[other] # Free => mem[other] # Free)
        /\ mem'[id] # Free
    BY <1>5, <2>1 DEF pubrec, TypeOK, Free
  <2>4. /\ \A k \in Keys : k # Pubrel(id) => files'[k] = files[k]
        /\ files'[Pubrel(id)].pub = mem[id].pub /\ cur' = Pubrel(id) /\ step' \in {"put", "replace"}
    BY <1>5, <2>1, <1>s, InMemory, OpenedKeys DEF pubrec
  <2> QED BY <2>1, <2>2, <2>3, <2>4, <1>s DEF Consistent, Exists
<1>6. ASSUME NEW id \in MsgIds, retry(id) PROVE Consistent'
  <2>1. mem[id] # Free /\ step = "idle" /\ UNCHANGED <<mem, far>>
    BY <1>6 DEF retry
  <2>2. PICK key \in {Pubrel(id), Sent(id)} : fopen(key, mem[id].pub)
    BY <1>6 DEF retry
  <2>3. /\ key \in Keys /\ key.id = id
        /\ \A k \in Keys : k # key => files'[k] = files[k]
        /\ files'[key].pub = mem[id].pub /\ cur' = key /\ step' \in {"put", "replace"}
    BY <2>1, <2>2, <1>s, InMemory, OpenedKeys
  <2> QED BY <2>1, <2>3, <1>s DEF Consistent, Exists
<1>7. ASSUME NEW id \in MsgIds, complete(id) PROVE Consistent'
  <2>1. /\ mem[id] # Free /\ UNCHANGED files /\ cur' = Sent(id)
        /\ step = "idle" /\ step' \in {"remove", "removeBoth"}
    BY <1>7 DEF complete
  <2>2. Len(far') = Len(far) /\ DOMAIN far' = DOMAIN far /\ \A q \in DOMAIN far : far'[q].id = far[q].id
    BY <1>7, <2>1, InMemory, FlowGetsOn DEF complete, TypeOK, Stages
  <2>3. mem'[id] = Free /\ \A other \in MsgIds : mem'[other] \in {mem[other], Free}
    BY <1>7 DEF complete, TypeOK
  <2> QED BY <2>1, <2>2, <2>3, <1>s DEF Consistent, Exists
<1>8. ASSUME NEW rc \in {0, -2}, cleanSession(rc) PROVE Consistent'
  <2>1. /\ UNCHANGED <<files, step, cur>> /\ step = "idle"
        /\ \A id \in MsgIds : mem'[id] = Free
    BY <1>8 DEF cleanSession, clearUnix
  <2>2. Len(far') = Len(far) /\ DOMAIN far' = DOMAIN far /\ \A q \in DOMAIN far : far'[q].id = far[q].id
    BY <1>8, FlowsDropped DEF cleanSession, TypeOK
  <2> QED BY <2>1, <2>2 DEF Consistent, Exists
<1>9. CASE crash
  <2>1. /\ UNCHANGED <<cur, far>> /\ step' = "down"
        /\ \A id \in MsgIds : mem'[id] = Free
    BY <1>9 DEF crash
  <2>2. \A k \in Keys : \/ files'[k] = files[k]
                        \/ /\ step \in {"put", "replace"} /\ k = cur
                           /\ files'[k].pub = files[k].pub
    BY <1>9, <1>c, Resized DEF crash
  <2>3. step \in {"put", "replace"} =>
          /\ files[cur].pub \in DOMAIN far /\ far[files[cur].pub].id = cur.id
    BY <1>c DEF Consistent
  <2> QED BY <2>1, <2>2, <2>3, <1>s DEF Consistent, Exists
<1>10. CASE restart
  BY <1>10 DEF restart, Consistent, Exists
<1>11. CASE restored
  BY <1>11 DEF restored, Consistent, Exists
<1>12. ASSUME NEW key \in Keys, restore(key) PROVE Consistent'
  <2>1. /\ \A k \in Keys : files'[k] = files[k] \/ files'[k] = NoFile
        /\ step = "restore" /\ UNCHANGED <<step, cur, far>>
    BY <1>12 DEF restore, pstremove, TypeOK
  <2>2. \A id \in MsgIds : \/ mem'[id] = mem[id]
                           \/ /\ Exists(Sent(id)) /\ mem'[id].pub = files[Sent(id)].pub
    <3> SUFFICES ASSUME NEW id \in MsgIds, mem'[id] # mem[id]
                 PROVE  Exists(Sent(id)) /\ mem'[id].pub = files[Sent(id)].pub
      OBVIOUS
    <3>1. /\ key.id = id /\ key = Sent(id) /\ mem'[id] = Restored(id)
          /\ restorePacket(files[key].size)
      BY <1>12, KeyCases DEF restore, pstget, TypeOK
    <3>2. Exists(Sent(id))
      BY <3>1, OnlyWholeIsRestored DEF Exists, NoFile, Whole
    <3> QED BY <3>1, <3>2, RestoredIsSlot
  <2> QED BY <2>1, <2>2, <1>s DEF Consistent, Exists
<1>13. CASE UNCHANGED vars
  BY <1>13 DEF vars, Consistent, Exists
<1> QED BY <1>1, <1>2, <1>3, <1>4, <1>5, <1>6, <1>7, <1>8, <1>9, <1>10, <1>11, <1>12, <1>13 DEF Next

-----------------------------------------------------------------------------
(* Nothing is forgotten *)

LEMMA UndisturbedBefore ==
  ASSUME TypeOK, [Next]_vars, NEW kinds \in SUBSET Kinds, Undisturbed(kinds)'
  PROVE  Undisturbed(kinds)
<1>1. CASE UNCHANGED used
  BY <1>1 DEF Undisturbed
<1>2. ASSUME NEW kind \in Kinds, Disturb(kind) PROVE Undisturbed(kinds)
  <2>1. \A k \in Kinds : used[k] \in Nat /\ used'[k] \in {used[k], used[k] + 1}
    BY <1>2 DEF Disturb, TypeOK
  <2> QED BY <2>1 DEF Undisturbed
<1>3. "crash" \in Kinds /\ "torn" \in Kinds /\ "full" \in Kinds /\ "clean" \in Kinds
  BY DEF Kinds
<1> QED BY <1>1, <1>2, <1>3 DEF Next, vars, publish, pstput, send, remove, pubrec, retry, complete,
             cleanSession, crash, restart, restored, restore

\* A disturbance of these kinds does not leave them undisturbed.
LEMMA DisturbedAfter ==
  ASSUME TypeOK, NEW kinds \in SUBSET Kinds, NEW kind \in kinds, Disturb(kind)
  PROVE  ~Undisturbed(kinds)'
BY DEF Disturb, TypeOK, Undisturbed

LEMMA KeptStep ==
  ASSUME TypeOK, Consistent, Undisturbed({"torn", "full"}) => Kept,
         [Next]_vars, Undisturbed({"torn", "full"})'
  PROVE  Kept'
<1> USE KeysDiffer
<1>k. {"torn", "full"} \in SUBSET Kinds
  BY DEF Kinds
<1>i. Kept
  BY <1>k, UndisturbedBefore
<1>c. cur \in Keys /\ cur.id \in MsgIds /\ (cur.stem = "s-" => cur = Sent(cur.id))
  BY KeyCases DEF TypeOK
<1>s. \A id \in MsgIds : /\ Sent(id).id = id /\ Sent(id).stem = "s-" /\ Sent(id) \in Keys
                         /\ Pubrel(id) # Sent(id) /\ Pubrel(id) \in Keys /\ Pubrel(id).stem = "sc-"
                         /\ Pubrel(id).id = id
  BY DEF Sent, Pubrel
<1>f. \A p \in DOMAIN far : far[p].id \in MsgIds /\ far[p].stage \in Stages
  <2>1. \A p \in DOMAIN far : far[p] \in Flow
    BY ElementOfSeq DEF TypeOK
  <2> QED BY <2>1 DEF Flow
<1>n. NoFile.pub = 0 /\ Free.pub = 0 /\ \A p \in DOMAIN far : p # 0
  BY DEF NoFile, Free, TypeOK
<1>1. ASSUME NEW qos \in Qoss, publish(qos) PROVE Kept'
  <2> DEFINE f(id) == [id |-> id, qos |-> qos, stage |-> "begun"]
  <2>1. PICK id \in MsgIds :
          /\ mem[id] = Free
          /\ far' = Append(far, f(id))
          /\ mem' = [mem EXCEPT ![id] = [pub |-> Len(far) + 1, next |-> FirstReply(qos)]]
          /\ fopen(Sent(id), Len(far) + 1)
    BY <1>1 DEF publish
  <2>2. f(id) \in Flow /\ Len(far) + 1 \in 1..MaxPublish /\ step = "idle"
    BY <1>1, ConstantsAssumption, BoundsAssumption DEF Flow, Stages, publish, TypeOK
  <2>3. /\ DOMAIN far' = DOMAIN far \cup {Len(far) + 1}
        /\ \A q \in DOMAIN far : far'[q] = far[q]
        /\ far'[Len(far) + 1].stage = "begun"
    BY <2>1, <2>2, FlowBegins DEF TypeOK
  <2>4. /\ mem'[id].pub = Len(far) + 1
        /\ \A other \in MsgIds : other # id => mem'[other] = mem[other]
    BY <2>1, <2>2 DEF TypeOK
  <2>5. /\ \A k \in Keys : k # Sent(id) => files'[k] = files[k]
        /\ files'[Sent(id)].pub = Len(far) + 1 /\ cur' = Sent(id) /\ step' \in {"put", "replace"}
    BY <2>1, <2>2, OpenedKeys, <1>s
  <2>6. \A p \in DOMAIN far : Live(p) => far[p].id # id
    BY <2>1, <2>2, <1>i, <1>n DEF Kept
  <2> QED BY <2>1, <2>2, <2>3, <2>4, <2>5, <2>6, <1>i, <1>s, <1>f DEF Kept, Live, IsWhole, Writing
<1>2. CASE pstput
  <2>1. files' = [files EXCEPT ![cur].size = Whole]
    BY <1>2, <1>k, DisturbedAfter DEF pstput
  <2>2. /\ \A k \in Keys : k # cur => files'[k] = files[k]
        /\ files'[cur].pub = files[cur].pub /\ files'[cur].size = Whole
    <3>1. Whole \in 0..Whole
      BY DEF Whole
    <3> QED BY <2>1, <3>1, <1>c, Resized
  <2>3. step \in {"put", "replace"} /\ step' = "send" /\ UNCHANGED <<mem, cur, far>>
    BY <1>2 DEF pstput
  <2> QED BY <2>2, <2>3, <1>i, <1>s, <1>c, <1>f DEF Kept, Live, IsWhole, Writing
<1>3. CASE send
  <2>1. mem[cur.id] # Free /\ step = "send" /\ step' = "idle" /\ UNCHANGED <<files, mem, cur>>
    BY <1>3 DEF send, Consistent
  <2>2. PICK stage \in Stages : Reaches(mem[cur.id].pub, stage)
    BY <1>3, <2>1, <1>c, InMemory DEF send, Flow, Stages
  <2>3. /\ DOMAIN far' = DOMAIN far
        /\ \A q \in DOMAIN far : /\ far'[q].id = far[q].id
                                 /\ q # mem[cur.id].pub => far'[q].stage = far[q].stage
    BY <2>1, <2>2, <1>c, InMemory, FlowGetsOn DEF TypeOK
  <2>4. far[mem[cur.id].pub].id = cur.id
    BY <2>1, <1>c, InMemory
  <2> QED BY <2>1, <2>3, <2>4, <1>i, <1>s, <1>c, <1>f DEF Kept, Live, IsWhole, Writing
<1>4. CASE remove
  <2>1. /\ \A k \in Keys : k.id # cur.id => files'[k] = files[k]
        /\ step \in {"remove", "removeBoth", "removePubrel"} /\ step' \in {"idle", "removePubrel"}
        /\ UNCHANGED <<mem, cur, far>>
    BY <1>4, <1>c, <1>s DEF remove, pstremove, TypeOK
  <2>2. mem[cur.id] = Free
    BY <2>1 DEF Consistent
  <2>3. \A p \in DOMAIN far : Live(p) => far[p].id # cur.id
    BY <2>1, <2>2, <1>i, <1>n DEF Kept
  <2> QED BY <2>1, <2>2, <2>3, <1>i, <1>s, <1>f DEF Kept, Live, IsWhole, Writing
<1>5. ASSUME NEW id \in MsgIds, pubrec(id) PROVE Kept'
  <2>1. mem[id] # Free /\ step = "idle"
    BY <1>5 DEF pubrec, Free
  <2>2. /\ DOMAIN far' = DOMAIN far
        /\ \A q \in DOMAIN far : /\ far'[q].id = far[q].id
                                 /\ q # mem[id].pub => far'[q].stage = far[q].stage
    BY <1>5, <2>1, InMemory, FlowGetsOn DEF pubrec, TypeOK, Stages
  <2>3. /\ \A other \in MsgIds : mem'[other].pub = mem[other].pub /\ (mem'[other] # Free => mem[other] # Free)
    BY <1>5, <2>1 DEF pubrec, TypeOK, Free
  <2>4. /\ \A k \in Keys : k # Pubrel(id) => files'[k] = files[k]
        /\ cur' = Pubrel(id) /\ step' \in {"put", "replace"}
    BY <1>5, <2>1, <1>s, InMemory, OpenedKeys DEF pubrec
  <2>5. far[mem[id].pub].id = id
    BY <2>1, InMemory
  <2> QED BY <2>1, <2>2, <2>3, <2>4, <2>5, <1>i, <1>s, <1>f DEF Kept, Live, IsWhole, Writing
<1>6. ASSUME NEW id \in MsgIds, retry(id) PROVE Kept'
  <2>1. mem[id] # Free /\ step = "idle" /\ UNCHANGED <<mem, far>>
    BY <1>6 DEF retry
  <2>2. PICK key \in {Pubrel(id), Sent(id)} : fopen(key, mem[id].pub)
    BY <1>6 DEF retry
  <2>3. /\ key \in Keys /\ key.id = id
        /\ \A k \in Keys : k # key => files'[k] = files[k]
        /\ files'[key].pub = mem[id].pub /\ cur' = key
        /\ step' \in {"put", "replace"} /\ (step' = "put" <=> files[key] = NoFile)
    BY <2>1, <2>2, <1>s, InMemory, OpenedKeys
  <2>4. files[Sent(id)] # NoFile
    BY <2>1, <1>i, <1>n, InMemory DEF Kept
  <2>5. key = Sent(id) => step' = "replace"
    BY <2>3, <2>4
  <2> QED BY <2>1, <2>2, <2>3, <2>5, <1>i, <1>s, <1>f DEF Kept, Live, IsWhole, Writing
<1>7. ASSUME NEW id \in MsgIds, complete(id) PROVE Kept'
  <2>1. /\ mem[id] # Free /\ UNCHANGED files
        /\ step = "idle" /\ step' \in {"remove", "removeBoth"}
        /\ mem' = [mem EXCEPT ![id] = Free] /\ Reaches(mem[id].pub, "completed")
    BY <1>7 DEF complete
  <2>2. /\ DOMAIN far' = DOMAIN far
        /\ \A q \in DOMAIN far : /\ far'[q].id = far[q].id
                                 /\ q # mem[id].pub => far'[q].stage = far[q].stage
        /\ far'[mem[id].pub].stage \in {"completed", "dropped"}
    BY <2>1, InMemory, FlowGetsOn DEF TypeOK, Stages
  <2>3. \A other \in MsgIds : mem'[other] = IF other = id THEN Free ELSE mem[other]
    BY <2>1 DEF TypeOK
  <2> QED BY <2>1, <2>2, <2>3, <1>i, <1>s, <1>f DEF Kept, Live, IsWhole, Writing
<1>8. ASSUME NEW rc \in {0, -2}, cleanSession(rc) PROVE Kept'
  <2>1. /\ step = "idle" /\ step' = "idle"
        /\ \A id \in MsgIds : mem'[id] = Free
    BY <1>8 DEF cleanSession, clearUnix
  <2>2. DOMAIN far' = DOMAIN far /\ \A q \in DOMAIN far : far'[q].stage \in {"completed", "dropped"}
    BY <1>8, FlowsDropped DEF cleanSession, TypeOK
  <2> QED BY <2>1, <2>2 DEF Kept, Live
<1>9. CASE crash
  <2>1. /\ UNCHANGED <<cur, far>> /\ step' = "down" /\ step # "replace"
        /\ \A id \in MsgIds : mem'[id] = Free
    BY <1>9, <1>k, DisturbedAfter DEF crash
  <2>2. \A k \in Keys : files'[k] = files[k] \/ (step = "put" /\ k = cur)
    BY <1>9, <2>1, <1>c, Resized DEF crash
  <2>3. ASSUME NEW p \in DOMAIN far, Live(p), step = "put", cur = Sent(far[p].id) PROVE FALSE
    BY <2>3, <1>i, <1>s, <1>f DEF Kept, Live, Consistent, Writing, IsWhole
  <2> QED BY <2>1, <2>2, <2>3, <1>i, <1>s, <1>f DEF Kept, Live, IsWhole, Writing
<1>10. CASE restart
  <2>1. \A p \in DOMAIN far : Live(p) => files[Sent(far[p].id)] # NoFile
    BY <1>i, <1>n, <1>f DEF Kept
  <2> QED BY <1>10, <2>1, <1>i, <1>s, <1>f DEF restart, Kept, Live, IsWhole, Writing, pstkeys
<1>11. CASE restored
  BY <1>11, <1>i DEF restored, Kept, Live, IsWhole, Writing
<1>12. ASSUME NEW key \in Keys, restore(key) PROVE Kept'
  <2>1. /\ \A k \in Keys : k # key => files'[k] = files[k]
        /\ step = "restore" /\ UNCHANGED <<step, cur, far>> /\ todo' = todo \ {key}
    BY <1>12 DEF restore, pstremove, TypeOK
  <2>2. files[key] \in File /\ files[key].size \in 0..Whole
    BY DEF TypeOK, File, NoFile, Whole
  <2>3. CASE key.stem = "sc-"
    <3>1. UNCHANGED mem /\ \A id \in MsgIds : key # Sent(id)
      BY <1>12, <2>3, <1>s DEF restore
    <3> QED BY <2>1, <3>1, <1>i, <1>s, <1>f DEF Kept, Live, IsWhole, Writing
  <2>4. CASE key.stem = "s-"
    <3>1. key.id \in MsgIds /\ key = Sent(key.id)
      BY <2>4, KeyCases
    <3>2. CASE IsWhole(key)
      <4>1. mem' = [mem EXCEPT ![key.id] = Restored(key.id)] /\ UNCHANGED files
        BY <1>12, <2>2, <2>4, <3>2, OnlyWholeIsRestored DEF restore, pstget, IsWhole
      <4>2. \A id \in MsgIds : mem'[id] = IF id = key.id THEN Restored(id) ELSE mem[id]
        BY <4>1, <3>1 DEF TypeOK
      <4>3. Restored(key.id).pub = files[key].pub
        BY <3>1 DEF Restored, pstget
      <4> QED BY <2>1, <3>1, <3>2, <4>1, <4>2, <4>3, <1>i, <1>s, <1>f DEF Kept, Live, IsWhole, Writing
    <3>3. CASE ~IsWhole(key)
      <4>1. UNCHANGED mem
        BY <1>12, <2>2, <3>3, OnlyWholeIsRestored DEF restore, pstget, IsWhole
      <4>2. \A p \in DOMAIN far : Live(p) => Sent(far[p].id) # key
        BY <2>1, <3>3, <1>i, <1>f DEF Kept, Writing
      <4>3. \A id \in MsgIds : mem[id] # Free => Sent(id) # key
        BY <2>1, <3>3, <1>i DEF Kept
      <4> QED BY <2>1, <4>1, <4>2, <4>3, <1>i, <1>s, <1>f DEF Kept, Live, IsWhole, Writing
    <3> QED BY <3>2, <3>3
  <2> QED BY <2>3, <2>4, KeyCases
<1>13. CASE UNCHANGED vars
  BY <1>13, <1>i DEF vars, Kept, Live, IsWhole, Writing
<1> QED BY <1>1, <1>2, <1>3, <1>4, <1>5, <1>6, <1>7, <1>8, <1>9, <1>10, <1>11, <1>12, <1>13 DEF Next

-----------------------------------------------------------------------------
(* Every message resumes where it was *)

\* What an operation on the message with one id leaves alone.
LEMMA OthersAgree ==
  ASSUME TypeOK, Consistent, NEW id \in MsgIds, NEW other \in MsgIds \ {id}, Agree(other),
         step = "idle" \/ (cur.id = id /\ step \notin {"down", "restore"}),
         files'[Sent(other)] = files[Sent(other)], files'[Pubrel(other)] = files[Pubrel(other)],
         mem'[other] = mem[other],
         \A q \in DOMAIN far : far'[q].qos = far[q].qos /\ (far[q].id # id => far'[q].stage = far[q].stage)
  PROVE  Agree(other)'
<1>1. Sent(other).id = other /\ Pubrel(other).id = other
  BY DEF Sent, Pubrel
<1>2. /\ Exists(Sent(other)) => files[Sent(other)].pub \in DOMAIN far /\ far[files[Sent(other)].pub].id = other
      /\ mem[other] # Free => mem[other].pub \in DOMAIN far /\ far[mem[other].pub].id = other
  BY DEF Consistent
<1>3. ~Writing(Sent(other)) /\ ~Writing(Pubrel(other)) /\ ~Removing(other)
  BY <1>1 DEF Writing, Removing
<1>4. Exists(Sent(other)) => Told(other)'
  BY <1>2, <1>3 DEF Agree, Told, Exists, IsWhole
<1>5. mem[other] # Free => Remembered(other)'
  BY <1>2 DEF Agree, Remembered, Exists
<1>6. Exists(Pubrel(other)) => Exists(Sent(other))
  BY DEF Agree
<1> QED BY <1>4, <1>5, <1>6 DEF Agree, Exists

LEMMA ResumableStep ==
  ASSUME TypeOK, Consistent, Undisturbed({"torn", "full"}) => Kept,
         Undisturbed({"torn", "full", "clean"}) => Resumable,
         [Next]_vars, Undisturbed({"torn", "full", "clean"})'
  PROVE  Resumable'
<1> USE KeysDiffer
<1>k. {"torn", "full", "clean"} \in SUBSET Kinds
  BY DEF Kinds
<1>i. Resumable /\ Kept
  <2>1. Undisturbed({"torn", "full", "clean"})
    BY <1>k, UndisturbedBefore, Zenon
  <2>2. Undisturbed({"torn", "full"})
    BY <2>1 DEF Undisturbed
  <2> QED BY <2>1, <2>2
<1>c. /\ cur \in Keys /\ cur.id \in MsgIds
      /\ \/ cur.stem = "s-" /\ cur = Sent(cur.id)
         \/ cur.stem = "sc-" /\ cur = Pubrel(cur.id)
  BY KeyCases DEF TypeOK
<1>s. \A id \in MsgIds : /\ Sent(id).id = id /\ Sent(id).stem = "s-" /\ Sent(id) \in Keys
                         /\ Pubrel(id) # Sent(id) /\ Pubrel(id) \in Keys /\ Pubrel(id).stem = "sc-"
                         /\ Pubrel(id).id = id
  BY DEF Sent, Pubrel
<1>f. \A p \in DOMAIN far : far[p].id \in MsgIds /\ far[p].stage \in Stages /\ far[p].qos \in 1..2
  <2>1. \A p \in DOMAIN far : far[p] \in Flow
    BY ElementOfSeq DEF TypeOK
  <2> QED BY <2>1 DEF Flow
<1>n. NoFile.pub = 0 /\ NoFile.size = 0 /\ Free.pub = 0 /\ \A p \in DOMAIN far : p # 0
  BY DEF NoFile, Free, TypeOK
<1>w. \A key \in Keys : IsWhole(key) => Exists(key)
  BY <1>n DEF IsWhole, Exists, Whole
<1>p. \A id \in MsgIds : mem[id] # Free => Exists(Sent(id)) /\ files[Sent(id)].pub = mem[id].pub
  BY <1>i, <1>n, InMemory DEF Kept, Exists
<1>1. ASSUME NEW qos \in Qoss, publish(qos) PROVE Resumable'
  <2> DEFINE f(id) == [id |-> id, qos |-> qos, stage |-> "begun"]
  <2>1. PICK id \in MsgIds :
          /\ mem[id] = Free
          /\ far' = Append(far, f(id))
          /\ mem' = [mem EXCEPT ![id] = [pub |-> Len(far) + 1, next |-> FirstReply(qos)]]
          /\ fopen(Sent(id), Len(far) + 1)
    BY <1>1 DEF publish
  <2>2. f(id) \in Flow /\ Len(far) + 1 \in 1..MaxPublish /\ step = "idle"
    BY <1>1, ConstantsAssumption, BoundsAssumption DEF Flow, Stages, publish, TypeOK
  <2>3. /\ DOMAIN far' = DOMAIN far \cup {Len(far) + 1}
        /\ \A q \in DOMAIN far : far'[q] = far[q]
        /\ far'[Len(far) + 1].stage = "begun"
    BY <2>1, <2>2, FlowBegins DEF TypeOK
  <2>4. /\ mem'[id].pub = Len(far) + 1 /\ mem'[id].next = FirstReply(qos) /\ FirstReply(qos) # "PUBCOMP"
        /\ \A other \in MsgIds : other # id => mem'[other] = mem[other]
    BY <2>1, <2>2 DEF TypeOK, FirstReply
  <2>5. /\ \A k \in Keys : k # Sent(id) => files'[k] = files[k]
        /\ files'[Sent(id)].pub = Len(far) + 1 /\ cur' = Sent(id) /\ step' \in {"put", "replace"}
        /\ step' = "put" <=> ~Exists(Sent(id))
    BY <2>1, <2>2, OpenedKeys, <1>s DEF Exists
  <2>6. ~Exists(Sent(id)) /\ ~Exists(Pubrel(id))
    BY <2>1, <2>2, <1>i DEF Resumable, Agree, Told, Removing
  <2>7. \A other \in MsgIds : Exists(Sent(other)) => files[Sent(other)].pub \in DOMAIN far
    BY DEF Consistent
  <2>8. \A other \in MsgIds : mem[other] # Free => mem[other].pub \in DOMAIN far
    BY DEF Consistent
  <2>9. far'[files'[Sent(id)].pub] = f(id) /\ far'[mem'[id].pub] = f(id)
    BY <2>1, <2>2, <2>4, <2>5, FlowBegins DEF TypeOK
  <2>10. ~Exists(Pubrel(id))' /\ mem'[id] # Free
    BY <2>4, <2>5, <2>6, <1>s, <1>n DEF Exists
  <2>11. Agree(id)'
    BY <2>4, <2>9, <2>10 DEF Agree, Told, Remembered
  <2>12. ASSUME NEW other \in MsgIds \ {id} PROVE Agree(other)'
    BY <2>2, <2>3, <2>4, <2>5, <1>i, <1>s, OthersAgree DEF Resumable
  <2> QED BY <2>3, <2>5, <2>11, <2>12, <1>i, <1>s DEF Resumable, AtWork
<1>2. CASE pstput
  <2>1. files' = [files EXCEPT ![cur].size = Whole]
    <3>1. {"torn", "full", "clean"} \in SUBSET Kinds /\ "full" \in {"torn", "full", "clean"}
      BY <1>k
    <3> QED BY <1>2, <3>1, DisturbedAfter DEF pstput
  <2>2. /\ \A k \in Keys : k # cur => files'[k] = files[k]
        /\ files'[cur].pub = files[cur].pub /\ files'[cur].size = Whole
    <3>1. Whole \in 0..Whole
      BY DEF Whole
    <3> QED BY <2>1, <3>1, <1>c, Resized
  <2>3. step \in {"put", "replace"} /\ step' = "send" /\ UNCHANGED <<mem, cur, far, todo>>
    BY <1>2 DEF pstput
  <2>4. mem[cur.id] # Free /\ files[cur].pub = mem[cur.id].pub
    BY <2>3 DEF Consistent
  <2>5. files[cur] # NoFile /\ files'[cur] # NoFile
    BY <2>2, <2>4, <1>c, <1>n, InMemory
  <2>6. ASSUME NEW other \in MsgIds \ {cur.id} PROVE Agree(other)'
    BY <2>2, <2>3, <1>i, <1>c, <1>s, OthersAgree DEF Resumable
  <2>7. Agree(cur.id)'
    <3>1. Agree(cur.id) /\ Exists(Sent(cur.id))
      BY <2>4, <1>c, <1>i, <1>p DEF Resumable
    <3>2. /\ Exists(Sent(cur.id))' /\ files'[Sent(cur.id)].pub = files[Sent(cur.id)].pub
          /\ Exists(Pubrel(cur.id))' <=> Exists(Pubrel(cur.id))
          /\ IsWhole(Sent(cur.id))' <=> IsWhole(Sent(cur.id)) \/ cur = Sent(cur.id)
          /\ IsWhole(Pubrel(cur.id))' <=> IsWhole(Pubrel(cur.id)) \/ cur = Pubrel(cur.id)
      <4>1. Sent(cur.id) # Pubrel(cur.id) /\ Sent(cur.id) \in Keys /\ Pubrel(cur.id) \in Keys
        BY <1>c, <1>s
      <4>2. CASE cur = Sent(cur.id)
        <5>1. files'[Pubrel(cur.id)] = files[Pubrel(cur.id)] /\ cur # Pubrel(cur.id)
          BY <2>2, <4>1, <4>2
        <5>2. /\ files'[Sent(cur.id)] # NoFile /\ files'[Sent(cur.id)].size = Whole
              /\ files'[Sent(cur.id)].pub = files[Sent(cur.id)].pub
          BY <2>2, <2>5, <4>2
        <5> QED BY <2>3, <4>2, <5>1, <5>2 DEF Exists, IsWhole
      <4>3. CASE cur = Pubrel(cur.id)
        <5>1. files'[Sent(cur.id)] = files[Sent(cur.id)] /\ cur # Sent(cur.id)
          BY <2>2, <4>1, <4>3
        <5>2. /\ files'[Pubrel(cur.id)] # NoFile /\ files[Pubrel(cur.id)] # NoFile
              /\ files'[Pubrel(cur.id)].size = Whole
          BY <2>2, <2>5, <4>3
        <5> QED BY <2>3, <3>1, <4>3, <5>1, <5>2 DEF Exists, IsWhole
      <4> QED BY <4>2, <4>3, <1>c
    <3> QED BY <2>3, <2>4, <3>1, <3>2 DEF Agree, Told, Remembered, Writing, Removing, Exists
  <2>8. IsWhole(cur)'
    BY <2>2, <2>3 DEF IsWhole
  <2> QED BY <2>3, <2>6, <2>7, <2>8, <1>i, <1>c DEF Resumable, AtWork
<1>3. CASE send
  <2>1. mem[cur.id] # Free /\ step = "send" /\ step' = "idle" /\ UNCHANGED <<files, mem, cur, todo>>
    BY <1>3 DEF send, Consistent
  <2> DEFINE p == mem[cur.id].pub
             stage == IF cur.stem = "sc-" THEN "released"
                      ELSE IF far[p].stage = "begun" THEN "published" ELSE far[p].stage
  <2>2. p \in DOMAIN far /\ far[p] \in Flow /\ far[p].id = cur.id
    BY <2>1, <1>c, InMemory
  <2>3. stage \in Stages /\ Reaches(p, stage)
    BY <1>3, <2>2 DEF send, Flow, Stages
  <2>4. far[p].stage # "dropped"
    BY <2>2, <1>i DEF Resumable
  <2> HIDE DEF stage, p
  <2>5. /\ DOMAIN far' = DOMAIN far
        /\ \A q \in DOMAIN far : /\ far'[q].id = far[q].id /\ far'[q].qos = far[q].qos
                                 /\ q # p => far'[q].stage = far[q].stage
        /\ far'[p].stage = stage
    BY <2>2, <2>3, <2>4, FlowGetsOn DEF TypeOK
  <2>6. Exists(Sent(cur.id)) /\ files[Sent(cur.id)].pub = p
    BY <2>1, <1>c, <1>p DEF p
  <2>7. ASSUME NEW other \in MsgIds \ {cur.id} PROVE Agree(other)'
    BY <2>1, <2>2, <2>5, <1>i, <1>c, OthersAgree DEF Resumable
  <2>8. Agree(cur.id)'
    <3>1. Agree(cur.id) /\ IsWhole(cur) /\ (cur.stem = "sc-" => mem[cur.id].next = "PUBCOMP")
      BY <2>1, <1>c, <1>i DEF Resumable, AtWork
    <3>2. far'[p].qos = far[p].qos
      BY <2>2, <2>5
    <3>3. CASE cur.stem = "sc-"
      <4>1. stage = "released" /\ IsWhole(Pubrel(cur.id))
        BY <3>1, <3>3, <1>c DEF stage
      <4> QED BY <2>1, <2>5, <2>6, <3>1, <3>2, <3>3, <4>1
              DEF Agree, Told, Remembered, Exists, IsWhole, Writing, Removing, p
    <3>4. CASE cur.stem # "sc-"
      <4>1. /\ stage = IF far[p].stage = "begun" THEN "published" ELSE far[p].stage
            /\ IsWhole(Sent(cur.id))
        BY <3>1, <3>4, <1>c DEF stage
      <4>2. Told(cur.id)'
        <5>1. Told(cur.id) /\ mem'[cur.id] # Free
          BY <2>1, <2>6, <3>1 DEF Agree
        <5>2. ~Writing(Pubrel(cur.id))
          BY <2>1 DEF Writing
        <5> QED BY <2>1, <2>5, <2>6, <3>2, <4>1, <5>1, <5>2 DEF Told, Exists, IsWhole
      <4>3. Remembered(cur.id)'
        <5>1. Remembered(cur.id)
          BY <2>1, <3>1 DEF Agree
        <5> QED BY <2>1, <2>5, <3>2, <4>1, <5>1 DEF Remembered, Exists, p
      <4> QED BY <2>1, <2>6, <4>2, <4>3 DEF Agree, Exists
    <3> QED BY <3>3, <3>4
  <2>9. stage # "dropped"
    BY <2>4 DEF stage
  <2> QED BY <2>1, <2>5, <2>7, <2>8, <2>9, <1>i, <1>c DEF Resumable, AtWork
<1>4. CASE remove
  <2>1. /\ mem[cur.id] = Free /\ UNCHANGED <<mem, cur, far, todo>>
        /\ step \in {"remove", "removeBoth", "removePubrel"} /\ step' \in {"idle", "removePubrel"}
        /\ step' = "removePubrel" => step = "removeBoth"
    BY <1>4 DEF remove, Consistent
  <2> DEFINE key == IF step = "removePubrel" THEN Pubrel(cur.id) ELSE Sent(cur.id)
  <2>2. \A k \in Keys : files'[k] = IF k = key THEN NoFile ELSE files[k]
    BY <1>4, <1>c, <1>s DEF remove, pstremove, TypeOK
  <2>3. ASSUME NEW other \in MsgIds \ {cur.id} PROVE Agree(other)'
    BY <2>1, <2>2, <1>i, <1>c, <1>s, OthersAgree DEF Resumable
  <2>4. Agree(cur.id)'
    <3>1. Agree(cur.id) /\ (step = "remove" => ~Exists(Pubrel(cur.id)))
      BY <1>c, <1>i DEF Resumable, AtWork
    <3>2. CASE step = "removePubrel"
      <4>1. ~Exists(Sent(cur.id))
        BY <2>1, <3>1, <3>2 DEF Agree, Told, Removing
      <4>2. files'[Sent(cur.id)] = files[Sent(cur.id)] /\ files'[Pubrel(cur.id)] = NoFile
        BY <2>2, <3>2, <1>c, <1>s
      <4> QED BY <2>1, <4>1, <4>2 DEF Agree, Exists
    <3>3. CASE step # "removePubrel"
      <4>1. files'[Sent(cur.id)] = NoFile /\ files'[Pubrel(cur.id)] = files[Pubrel(cur.id)]
        BY <2>2, <3>3, <1>c, <1>s
      <4>2. step' = IF step = "remove" THEN "idle" ELSE "removePubrel"
        BY <1>4, <3>3 DEF remove
      <4> QED BY <2>1, <3>1, <3>3, <4>1, <4>2 DEF Agree, Exists
    <3> QED BY <3>2, <3>3
  <2> QED BY <2>1, <2>3, <2>4, <1>i DEF Resumable, AtWork
<1>5. ASSUME NEW id \in MsgIds, pubrec(id) PROVE Resumable'
  <2>1. mem[id] # Free /\ step = "idle" /\ mem[id].next = "PUBREC" /\ UNCHANGED todo
    BY <1>5 DEF pubrec, Free
  <2>2. /\ DOMAIN far' = DOMAIN far
        /\ \A q \in DOMAIN far : /\ far'[q].id = far[q].id /\ far'[q].qos = far[q].qos
                                 /\ q # mem[id].pub => far'[q].stage = far[q].stage
        /\ far'[mem[id].pub].stage = "received"
    BY <1>5, <2>1, <1>i, InMemory, FlowGetsOn DEF pubrec, TypeOK, Stages, Resumable
  <2>3. /\ \A other \in MsgIds : other # id => mem'[other] = mem[other]
        /\ mem'[id].pub = mem[id].pub /\ mem'[id].next = "PUBCOMP" /\ mem'[id] # Free
    BY <1>5, <2>1 DEF pubrec, TypeOK, Slot, Free
  <2>4. /\ \A k \in Keys : k # Pubrel(id) => files'[k] = files[k]
        /\ files'[Pubrel(id)] # NoFile
        /\ cur' = Pubrel(id) /\ step' \in {"put", "replace"}
    BY <1>5, <2>1, <1>s, InMemory, OpenedKeys DEF pubrec
  <2>5. far[mem[id].pub].id = id /\ Exists(Sent(id)) /\ files[Sent(id)].pub = mem[id].pub
    BY <2>1, InMemory, <1>p
  <2>6. \A other \in MsgIds : /\ Exists(Sent(other)) => files[Sent(other)].pub \in DOMAIN far /\ far[files[Sent(other)].pub].id = other
                              /\ mem[other] # Free => mem[other].pub \in DOMAIN far /\ far[mem[other].pub].id = other
    BY DEF Consistent
  <2>7. ASSUME NEW other \in MsgIds \ {id} PROVE Agree(other)'
    BY <2>1, <2>2, <2>3, <2>4, <2>5, <1>i, <1>s, OthersAgree DEF Resumable
  <2>8. Agree(id)'
    <3>1. Agree(id) /\ far[mem[id].pub].qos = 2
      <4>1. far[mem[id].pub].qos = 1 \/ far[mem[id].pub].qos = 2
        BY <2>1, <2>6, <1>f
      <4>2. Agree(id)
        BY <1>i DEF Resumable
      <4> QED BY <2>1, <4>1, <4>2 DEF Agree, Remembered, FirstReply
    <3>2. far[mem[id].pub].stage \in {"published", "received"}
      BY <1>5, <2>1, <2>5, <2>6, <1>i DEF pubrec, At, Resumable
    <3> QED BY <2>1, <2>2, <2>3, <2>4, <2>5, <2>6, <3>1, <3>2, <1>s
            DEF Agree, Told, Remembered, Exists, IsWhole, Writing, Removing
  <2> QED BY <2>1, <2>2, <2>3, <2>4, <2>7, <2>8, <1>i, <1>s DEF Resumable, AtWork
<1>6. ASSUME NEW id \in MsgIds, retry(id) PROVE Resumable'
  <2>1. mem[id] # Free /\ step = "idle" /\ UNCHANGED <<mem, far, todo>>
    BY <1>6 DEF retry
  <2>2. /\ mem[id].pub \in DOMAIN far /\ far[mem[id].pub].id = id
        /\ Exists(Sent(id)) /\ files[Sent(id)].pub = mem[id].pub /\ Agree(id)
    BY <2>1, InMemory, <1>p, <1>i DEF Resumable
  <2> DEFINE key == IF mem[id].next = "PUBCOMP" THEN Pubrel(id) ELSE Sent(id)
  <2>3. /\ \A k \in Keys : k # key => files'[k] = files[k]
        /\ files'[key] # NoFile /\ files'[key].pub = mem[id].pub /\ cur' = key
        /\ step' \in {"put", "replace"} /\ (step' = "put" <=> ~Exists(key))
    BY <1>6, <2>1, <1>s, InMemory, OpenedKeys DEF retry, Exists
  <2>4. ASSUME NEW other \in MsgIds \ {id} PROVE Agree(other)'
    BY <2>1, <2>2, <2>3, <1>i, <1>s, OthersAgree DEF Resumable
  <2>5. CASE mem[id].next = "PUBCOMP"
    <3>1. key = Pubrel(id)
      BY <2>5
    <3>2. ~Exists(key) => far[mem[id].pub].stage = "received"
      <4>1. far[mem[id].pub].qos = 2 /\ far[mem[id].pub].stage \in {"received", "released", "completed"}
        BY <2>1, <2>2, <2>5 DEF Agree, Remembered
      <4>2. ~Exists(key) => ~IsWhole(key) /\ ~Writing(key)
        BY <2>1, <1>n DEF Exists, IsWhole, Writing, Whole
      <4> QED BY <2>2, <3>1, <4>1, <4>2 DEF Agree, Told
    <3> HIDE DEF key
    <3>3. Agree(id)'
      BY <2>1, <2>2, <2>3, <2>5, <3>1, <3>2, <1>s
      DEF Agree, Told, Remembered, Exists, IsWhole, Writing, Removing
    <3> QED BY <2>1, <2>3, <2>4, <2>5, <3>1, <3>2, <3>3, <1>i, <1>s DEF Resumable, AtWork
  <2>6. CASE mem[id].next # "PUBCOMP"
    <3>1. key = Sent(id)
      BY <2>6
    <3> HIDE DEF key
    <3>2. step' = "replace"
      BY <2>2, <2>3, <3>1
    <3>3. Agree(id)'
      BY <2>1, <2>2, <2>3, <2>6, <3>1, <3>2, <1>s
      DEF Agree, Told, Remembered, Exists, IsWhole, Writing, Removing
    <3> QED BY <2>1, <2>3, <2>4, <3>1, <3>2, <3>3, <1>i, <1>s DEF Resumable, AtWork
  <2> QED BY <2>5, <2>6
<1>7. ASSUME NEW id \in MsgIds, complete(id) PROVE Resumable'
  <2>1. /\ mem[id] # Free /\ UNCHANGED <<files, todo>> /\ cur' = Sent(id)
        /\ step = "idle" /\ step' = IF far[mem[id].pub].qos = 1 THEN "remove" ELSE "removeBoth"
        /\ mem' = [mem EXCEPT ![id] = Free] /\ Reaches(mem[id].pub, "completed")
        /\ \/ far[mem[id].pub].qos = 1 /\ At(mem[id].pub, {"published", "completed"})
           \/ mem[id].next = "PUBCOMP" /\ At(mem[id].pub, {"released", "completed"})
    BY <1>7 DEF complete
  <2>2. /\ DOMAIN far' = DOMAIN far
        /\ \A q \in DOMAIN far : /\ far'[q].id = far[q].id /\ far'[q].qos = far[q].qos
                                 /\ q # mem[id].pub => far'[q].stage = far[q].stage
        /\ far'[mem[id].pub].stage = "completed"
    BY <2>1, <1>i, InMemory, FlowGetsOn DEF TypeOK, Stages, Resumable
  <2>3. \A other \in MsgIds : mem'[other] = IF other = id THEN Free ELSE mem[other]
    BY <2>1 DEF TypeOK
  <2>4. far[mem[id].pub].id = id /\ Exists(Sent(id)) /\ files[Sent(id)].pub = mem[id].pub
        /\ mem[id].pub \in DOMAIN far
    BY <2>1, InMemory, <1>p
  <2>5. \A other \in MsgIds : /\ Exists(Sent(other)) => files[Sent(other)].pub \in DOMAIN far /\ far[files[Sent(other)].pub].id = other
                              /\ mem[other] # Free => mem[other].pub \in DOMAIN far /\ far[mem[other].pub].id = other
    BY DEF Consistent
  <2>6. far[mem[id].pub].stage # "dropped"
    BY <2>4, <1>i DEF Resumable
  <2>7. Agree(id) /\ far[mem[id].pub].qos \in 1..2
    BY <2>4, <1>i, <1>f DEF Resumable
  <2>8. /\ far[mem[id].pub].qos = 1 => ~Exists(Pubrel(id))
        /\ far[mem[id].pub].qos = 2 => IsWhole(Pubrel(id))
    BY <2>1, <2>4, <2>6, <2>7 DEF Agree, Told, Remembered, At, Writing
  <2>9. far[mem[id].pub].stage # "begun"
    BY <2>1, <2>6 DEF At
  <2>10. ASSUME NEW other \in MsgIds \ {id} PROVE Agree(other)'
    BY <2>1, <2>2, <2>3, <2>4, <2>5, <1>i, <1>s, OthersAgree DEF Resumable
  <2>11. Agree(id)'
    BY <2>1, <2>2, <2>3, <2>4, <2>6, <2>7, <2>8, <2>9, <1>s
    DEF Agree, Told, Exists, IsWhole, Writing, Removing
  <2> QED BY <2>1, <2>2, <2>7, <2>8, <2>10, <2>11, <1>i, <1>s DEF Resumable, AtWork, Exists
<1>8. ASSUME NEW rc \in {0, -2}, cleanSession(rc) PROVE Resumable'
  <2>1. Disturb("clean") /\ "clean" \in {"torn", "full", "clean"}
    BY <1>8 DEF cleanSession
  <2> QED BY <2>1, <1>k, DisturbedAfter
<1>9. CASE crash
  <2>1. /\ UNCHANGED <<cur, far>> /\ step' = "down" /\ step # "replace"
        /\ \A id \in MsgIds : mem'[id] = Free
    <3>1. "torn" \in {"torn", "full", "clean"}
      OBVIOUS
    <3> QED BY <1>9, <3>1, <1>k, DisturbedAfter DEF crash
  <2>2. \/ \A k \in Keys : files'[k] = files[k]
        \/ /\ step = "put" /\ files'[cur].pub = files[cur].pub
           /\ \A k \in Keys : k # cur => files'[k] = files[k]
    <3>1. CASE UNCHANGED files
      BY <3>1
    <3>2. CASE step = "put" /\ \E n \in 0..Whole : files' = [files EXCEPT ![cur].size = n]
      BY <3>2, <1>c, Resized
    <3> QED BY <1>9, <2>1, <3>1, <3>2 DEF crash
  <2>3. step = "put" => /\ mem[cur.id] # Free /\ files[cur].pub = mem[cur.id].pub
                        /\ files[cur] # NoFile /\ files[cur].pub # 0
                        /\ Exists(Sent(cur.id)) /\ files[Sent(cur.id)].pub = mem[cur.id].pub
    <3> SUFFICES ASSUME step = "put"
                 PROVE  /\ mem[cur.id] # Free /\ files[cur].pub = mem[cur.id].pub
                        /\ files[cur] # NoFile /\ files[cur].pub # 0
                        /\ Exists(Sent(cur.id)) /\ files[Sent(cur.id)].pub = mem[cur.id].pub
      OBVIOUS
    <3>1. mem[cur.id] # Free /\ files[cur].pub = mem[cur.id].pub
      BY DEF Consistent
    <3>2. files[cur].pub # 0
      BY <3>1, <1>c, <1>n, InMemory
    <3> QED BY <3>1, <3>2, <1>c, <1>n, <1>p
  <2>4. step = "put" /\ cur.stem = "s-" => far[mem[cur.id].pub].stage = "begun"
    BY <1>i DEF Kept
  <2>5. step = "put" /\ cur.stem = "sc-" =>
          far[mem[cur.id].pub].stage = "received" /\ mem[cur.id].next = "PUBCOMP"
    BY <1>i DEF Resumable, AtWork
  <2>6. ASSUME NEW id \in MsgIds PROVE Agree(id)'
    <3>1. Agree(id) /\ ~Writing(Sent(id)) /\ ~Writing(Pubrel(id))
      BY <2>1, <1>i DEF Resumable, Writing
    <3>2. CASE \A k \in Keys : files'[k] = files[k]
      BY <2>1, <3>1, <3>2, <1>s DEF Agree, Told, Exists, IsWhole
    <3>3. CASE step = "put" /\ cur = Sent(id)
      <4>1. /\ cur.id = id /\ cur.stem = "s-"
            /\ files'[Pubrel(id)] = files[Pubrel(id)] /\ files'[Sent(id)].pub = files[Sent(id)].pub
        BY <2>2, <3>3, <1>s
      <4> QED BY <2>1, <2>3, <2>4, <3>1, <3>3, <4>1 DEF Agree, Told, Exists, IsWhole
    <3>4. CASE step = "put" /\ cur = Pubrel(id)
      <4>1. /\ cur.id = id /\ cur.stem = "sc-"
            /\ files'[Sent(id)] = files[Sent(id)] /\ files'[Pubrel(id)].pub = files[Pubrel(id)].pub
        BY <2>2, <3>4, <1>s
      <4> QED BY <2>1, <2>3, <2>5, <3>1, <3>4, <4>1 DEF Agree, Told, Remembered, Exists, IsWhole
    <3>5. CASE step = "put" /\ cur # Sent(id) /\ cur # Pubrel(id)
      <4>1. files'[Sent(id)] = files[Sent(id)] /\ files'[Pubrel(id)] = files[Pubrel(id)]
        BY <2>2, <3>5, <1>s
      <4> QED BY <2>1, <3>1, <3>5, <4>1 DEF Agree, Told, Exists, IsWhole
    <3> QED BY <2>2, <3>2, <3>3, <3>4, <3>5
  <2> QED BY <2>1, <2>6, <1>i DEF Resumable, AtWork
<1>10. CASE restart
  <2>1. /\ UNCHANGED <<files, mem, cur, far>> /\ step = "down" /\ step' = "restore"
        /\ \A id \in MsgIds : /\ Exists(Sent(id)) => Sent(id) \in todo'
                              /\ Exists(Pubrel(id)) => Pubrel(id) \in todo'
    BY <1>10, <1>s DEF restart, pstkeys, Exists
  <2> QED BY <2>1, <1>i, <1>s, <1>f
          DEF Resumable, AtWork, Agree, Told, Remembered, Exists, IsWhole, Writing, Removing
<1>11. CASE restored
  BY <1>11, <1>i DEF restored, Resumable, AtWork, Agree, Told, Remembered, Exists, IsWhole, Writing, Removing
<1>12. ASSUME NEW key \in Keys, restore(key) PROVE Resumable'
  <2>1. step = "restore" /\ UNCHANGED <<step, cur, far>> /\ todo' = todo \ {key}
    BY <1>12 DEF restore
  <2>2. files[key] \in File /\ files[key].size \in 0..Whole
    BY DEF TypeOK, File, NoFile, Whole
  <2>3. CASE key.stem = "s-" /\ IsWhole(key)
    <3>1. key.id \in MsgIds /\ key = Sent(key.id)
      BY <2>3, KeyCases
    <3>2. mem' = [mem EXCEPT ![key.id] = Restored(key.id)] /\ UNCHANGED files
      BY <1>12, <2>2, <2>3, OnlyWholeIsRestored DEF restore, pstget, IsWhole
    <3>3. \A id \in MsgIds : mem'[id] = IF id = key.id THEN Restored(id) ELSE mem[id]
      BY <3>1, <3>2 DEF TypeOK
    <3>4. Exists(Sent(key.id))
      BY <2>3, <3>1, <1>n DEF Exists, IsWhole, Whole
    <3>5. /\ Restored(key.id).pub = files[Sent(key.id)].pub /\ Restored(key.id) # Free
          /\ Restored(key.id).next = IF Exists(Pubrel(key.id)) THEN "PUBCOMP"
                                     ELSE FirstReply(far[files[Sent(key.id)].pub].qos)
          /\ \A qos \in 1..2 : FirstReply(qos) # "PUBCOMP"
      BY <3>1, <3>4, RestoredIsSlot DEF Restored, pstcontainskey, Exists, FirstReply
    <3>6. files[Sent(key.id)].pub \in DOMAIN far
      BY <3>1, <3>4 DEF Consistent
    <3>7. Told(key.id) /\ ~Writing(Pubrel(key.id)) /\ ~Removing(key.id)
      BY <2>1, <3>1, <3>4, <1>i DEF Resumable, Agree, Writing, Removing
    <3>8. /\ mem'[key.id].pub = files[Sent(key.id)].pub /\ mem'[key.id] # Free
          /\ mem'[key.id].next = IF Exists(Pubrel(key.id)) THEN "PUBCOMP"
                                 ELSE FirstReply(far[files[Sent(key.id)].pub].qos)
      BY <3>1, <3>3, <3>5
    <3>9. Remembered(key.id)'
      <4> DEFINE f == far[files[Sent(key.id)].pub]
      <4>1. f.stage \in Stages /\ f.qos \in 1..2 /\ f.stage # "dropped"
        BY <3>6, <1>i, <1>f DEF Resumable
      <4>2. far' = far /\ files' = files
        BY <2>1, <3>2
      <4>3. CASE Exists(Pubrel(key.id))
        BY <3>7, <3>8, <4>2, <4>3 DEF Told, Remembered
      <4>4. CASE ~Exists(Pubrel(key.id))
        <5>1. f.qos = 2 => f.stage \in {"begun", "published", "received"}
          BY <3>1, <3>7, <4>1, <4>4, <1>s, <1>w DEF Told, Stages
        <5>2. FirstReply(f.qos) # "PUBCOMP"
          BY <3>5, <4>1
        <5> QED BY <3>8, <4>2, <4>4, <5>1, <5>2 DEF Remembered, Exists
      <4> QED BY <4>3, <4>4
    <3>10. ASSUME NEW id \in MsgIds PROVE Agree(id)'
      <4>1. CASE id = key.id
        <5>1. Told(id)'
          BY <2>1, <3>2, <3>7, <3>8, <4>1 DEF Told, Exists, IsWhole, Writing
        <5>2. Exists(Sent(id))'
          BY <3>2, <3>4, <4>1 DEF Exists
        <5> QED BY <3>9, <4>1, <5>1, <5>2 DEF Agree
      <4>2. CASE id # key.id
        <5>1. /\ mem'[id] = mem[id] /\ Sent(id) # key /\ Pubrel(id) # key /\ Agree(id)
              /\ far' = far /\ files' = files
          BY <2>1, <3>1, <3>2, <3>3, <4>2, <1>i, <1>s DEF Resumable
        <5>2. (Exists(Sent(id)) => Told(id)) => (Exists(Sent(id)) => Told(id))'
          BY <2>1, <5>1 DEF Told, Exists, IsWhole, Writing, Removing
        <5>3. (mem[id] # Free => Remembered(id)) => (mem[id] # Free => Remembered(id))'
          BY <5>1 DEF Remembered, Exists
        <5> QED BY <2>1, <5>1, <5>2, <5>3 DEF Agree, Exists
      <4> QED BY <4>1, <4>2
    <3> QED BY <2>1, <3>10, <1>i DEF Resumable, AtWork
  <2>4. CASE key.stem = "s-" /\ ~IsWhole(key)
    <3>1. key.id \in MsgIds /\ key = Sent(key.id)
      BY <2>4, KeyCases
    <3>2. UNCHANGED mem /\ \A k \in Keys : files'[k] = IF k = key THEN NoFile ELSE files[k]
      BY <1>12, <2>2, <2>4, OnlyWholeIsRestored DEF restore, pstget, pstremove, IsWhole, TypeOK
    <3>3. mem[key.id] = Free
      BY <2>1, <2>4, <3>1, <1>i DEF Kept
    <3>4. Exists(Sent(key.id)) => ~Exists(Pubrel(key.id))
      BY <2>1, <2>4, <3>1, <1>i DEF Resumable, Agree, Told, Writing
    <3> QED BY <2>1, <3>1, <3>2, <3>3, <3>4, <1>i, <1>s, <1>f
            DEF Resumable, AtWork, Agree, Told, Remembered, Exists, IsWhole, Writing, Removing
  <2>5. CASE key.stem = "sc-"
    <3>1. key.id \in MsgIds /\ key = Pubrel(key.id) /\ key # Sent(key.id) /\ UNCHANGED mem
      BY <1>12, <2>5, KeyCases, <1>s DEF restore
    <3>2. CASE IsWhole(key) /\ Exists(Sent(key.id))
      <4>1. UNCHANGED files
        BY <1>12, <2>2, <2>5, <3>2, OnlyWholeIsRestored DEF restore, pstget, pstcontainskey, IsWhole, Exists
      <4> QED BY <2>1, <3>1, <3>2, <4>1, <1>i, <1>s, <1>f
              DEF Resumable, AtWork, Agree, Told, Remembered, Exists, IsWhole, Writing, Removing
    <3>3. CASE ~(IsWhole(key) /\ Exists(Sent(key.id)))
      <4>1. \A k \in Keys : files'[k] = IF k = key THEN NoFile ELSE files[k]
        BY <1>12, <2>2, <2>5, <3>3, OnlyWholeIsRestored
        DEF restore, pstget, pstremove, pstcontainskey, IsWhole, Exists, TypeOK
      <4>2. Exists(Sent(key.id)) =>
              LET f == far[files[Sent(key.id)].pub] IN ~(f.qos = 2 /\ f.stage \in {"released", "completed"})
        BY <2>1, <3>1, <3>3, <1>i DEF Resumable, Agree, Told, Writing
      <4> QED BY <2>1, <3>1, <4>1, <4>2, <1>i, <1>s, <1>f
              DEF Resumable, AtWork, Agree, Told, Remembered, Exists, IsWhole, Writing, Removing
    <3> QED BY <3>2, <3>3
  <2> QED BY <2>3, <2>4, <2>5, KeyCases
<1>13. CASE UNCHANGED vars
  BY <1>13, <1>i DEF vars, Resumable, AtWork, Agree, Told, Remembered, Exists, IsWhole, Writing, Removing
<1> QED BY <1>1, <1>2, <1>3, <1>4, <1>5, <1>6, <1>7, <1>8, <1>9, <1>10, <1>11, <1>12, <1>13 DEF Next

-----------------------------------------------------------------------------
(* The theorems *)

\* FilesInv holds in every behaviour: of every record it is known which message
\* it is of and how far it says that its flow has got.
THEOREM FilesSafe == Spec => []FilesInv
<1>1. FilesInv /\ [Next]_vars => FilesInv'
  BY TypeStep, ConsistentStep, KeptStep, ResumableStep, UndisturbedBefore DEF FilesInv
<1> QED BY <1>1, InitFiles, PTL DEF Spec

\* However often the process crashes, in the middle of whatever it writes, a
\* message goes on where its flow had got to (MQTTPersistence_restore).
THEOREM Resumes == Spec => []ResumesWhereItWas
<1>1. FilesInv => ResumesWhereItWas
  BY InMemory DEF FilesInv, Resumable, Agree, Remembered, Undisturbed, ResumesWhereItWas, Consistent
<1> QED BY <1>1, FilesSafe, PTL

\* However often the process crashes, no message under way is forgotten.
THEOREM NeverForgotten == Spec => []NothingForgotten
<1>1. FilesInv => NothingForgotten
  BY DEF FilesInv, Kept, Live, NothingForgotten
<1> QED BY <1>1, FilesSafe, PTL
=============================================================================
