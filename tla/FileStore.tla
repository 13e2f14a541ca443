------------------------------ MODULE FileStore ------------------------------
(***************************************************************************)
(* The default persistent store: one file per record in a directory of the *)
(* client's own.  The client half is what a session does to the records of *)
(* the messages it sends; a crash may come between any two system calls,   *)
(* in the middle of a file and while a crash before it is being recovered. *)
(*                                                                         *)
(* OutboundSession takes each of these operations as one step; here is     *)
(* what the files, the order of the operations and MQTTPersistence_restore *)
(* make of that.  A crash is one of the process: what it wrote is kept.    *)
(***************************************************************************)
EXTENDS Integers, Sequences

CONSTANTS MaxMsgId,    \* MAX_MSG_ID
          Qoss,        \* the qualities of service published with
          MaxPublish,  \* bound: messages published
          Limit        \* bound: disturbances of each kind

Kinds == {"crash",  \* the process ends, but not
          "torn",   \* ... in the middle of a record that replaces one
          "full",   \* a write is short
          "clean"}  \* a clean session starts or ends

ASSUME ConstantsAssumption == MaxMsgId \in Nat \ {0} /\ Qoss \subseteq 1..2
ASSUME BoundsAssumption == MaxPublish \in Nat /\ Limit \in [Kinds -> Nat]

VARIABLES
  files,      \* the directory: per key what its file holds
  mem,        \* per message id: the message in flight, or Free
  step, cur,  \* the operation under way and the key it works on
  todo,       \* the keys MQTTPersistence_restore has still to look at
  far,        \* history: how far the flow of each publication has got
  used        \* bound: how much of each Limit is used

vars == <<files, mem, step, cur, todo, far, used>>

MsgIds == 1..MaxMsgId
Keys   == [stem : {"s-", "sc-"}, id : MsgIds]
Sent(id)   == [stem |-> "s-", id |-> id]
Pubrel(id) == [stem |-> "sc-", id |-> id]

\* A record is a header byte, a length byte and a body, here of one byte; a
\* file may hold less of it.
Header == 2
Whole  == 3
NoFile == [pub |-> 0, size |-> 0]
File   == {NoFile} \cup [pub : 1..MaxPublish, size : 0..Whole]
Free   == [pub |-> 0, next |-> "free"]
Slot   == {Free} \cup [pub : 1..MaxPublish, next : {"PUBACK", "PUBREC", "PUBCOMP"}]
Stages == {"begun",      \* MQTTClient_publish has not sent it yet
           "published",  \* its PUBLISH is sent
           "received",   \* its PUBREC has come
           "released",   \* its PUBREL is sent
           "completed", "dropped"}
Flow   == [id : MsgIds, qos : 1..2, stage : Stages]
Steps  == {"idle", "put", "replace", "send",  \* a new record, or one in the place of another
           "remove", "removeBoth", "removePubrel",  \* in MQTTPersistence_remove
           "down", "restore"}

FirstReply(qos) == IF qos = 1 THEN "PUBACK" ELSE "PUBREC"

\* The flow of a publication gets to a stage; one that was dropped, and whose
\* record clearUnix left, goes on without being counted again.
Reaches(pub, stage) == far' = IF far[pub].stage = "dropped" THEN far
                              ELSE [far EXCEPT ![pub].stage = stage]
\* An acknowledgement comes when the flow has got to one of the stages.
At(pub, stages) == far[pub].stage \in stages \cup {"dropped"}

Disturb(kind) == used[kind] < Limit[kind] /\ used' = [used EXCEPT ![kind] = @ + 1]

-----------------------------------------------------------------------------
(* The operations on files *)

\* pstput opens the file for writing, which empties it ...
fopen(key, pub) == /\ files' = [files EXCEPT ![key] = [pub |-> pub, size |-> 0]]
                   /\ step' = IF files[key] = NoFile THEN "put" ELSE "replace"
                   /\ cur' = key

\* ... writes the buffers and closes it.  A write that is short removes the
\* file; one that fits into the buffer of stdio fails, unnoticed, in fclose.
\* The callers send the packet whether the record was written or not.
pstput ==
  /\ step \in {"put", "replace"}
  /\ \/ files' = [files EXCEPT ![cur].size = Whole] /\ UNCHANGED used
     \/ files' = [files EXCEPT ![cur] = NoFile] /\ Disturb("full")
     \/ /\ \E n \in 0..(Whole - 1) : files' = [files EXCEPT ![cur].size = n]
        /\ Disturb("full")
  /\ step' = "send"
  /\ UNCHANGED <<mem, cur, todo, far>>

pstremove(key) == files' = [files EXCEPT ![key] = NoFile]
pstget(key) == files[key]
pstcontainskey(key) == files[key] # NoFile
pstkeys == {key \in Keys : files[key] # NoFile}

\* clearUnix looks the names up in the working directory, where they are not
\* found: what lstat left in stat_info is that of "." or "..", or, when a
\* record is read first, undefined; then remove may fail.  (0 is success.)
clearUnix(rc) == /\ rc \in IF pstkeys # {} THEN {0, -2} ELSE {0}
                 /\ UNCHANGED files

-----------------------------------------------------------------------------
(* What a session does *)

\* MQTTProtocol_startPublish: an id that is free, the list, the record.
publish(qos) ==
  /\ step = "idle" /\ Len(far) < MaxPublish
  /\ \E id \in MsgIds :
       /\ mem[id] = Free
       /\ far' = Append(far, [id |-> id, qos |-> qos, stage |-> "begun"])
       /\ mem' = [mem EXCEPT ![id] = [pub |-> Len(far) + 1, next |-> FirstReply(qos)]]
       /\ fopen(Sent(id), Len(far) + 1)
  /\ UNCHANGED <<todo, used>>

\* The packet goes out after its record is written.
send ==
  /\ step = "send"
  /\ LET p == mem[cur.id].pub
     IN Reaches(p, IF cur.stem = "sc-" THEN "released"
                   ELSE IF far[p].stage = "begun" THEN "published" ELSE far[p].stage)
  /\ step' = "idle"
  /\ UNCHANGED <<files, mem, cur, todo, used>>

\* MQTTProtocol_handlePubrecs.
pubrec(id) ==
  /\ step = "idle"
  /\ mem[id].next = "PUBREC" /\ At(mem[id].pub, {"published", "received"})
  /\ Reaches(mem[id].pub, "received")
  /\ mem' = [mem EXCEPT ![id].next = "PUBCOMP"]
  /\ fopen(Pubrel(id), mem[id].pub)
  /\ UNCHANGED <<todo, used>>

\* MQTTProtocol_retries writes the record of what it resends again.
retry(id) ==
  /\ step = "idle" /\ mem[id] # Free
  /\ fopen(IF mem[id].next = "PUBCOMP" THEN Pubrel(id) ELSE Sent(id), mem[id].pub)
  /\ UNCHANGED <<mem, todo, far, used>>

\* PUBACK or PUBCOMP: the message is forgotten, then its records are removed.
complete(id) ==
  /\ step = "idle" /\ mem[id] # Free
  /\ LET p == mem[id].pub
     IN /\ \/ far[p].qos = 1 /\ At(p, {"published", "completed"})
           \/ mem[id].next = "PUBCOMP" /\ At(p, {"released", "completed"})
        /\ Reaches(p, "completed")
        /\ step' = IF far[p].qos = 1 THEN "remove" ELSE "removeBoth"
        /\ cur' = Sent(id)
  /\ mem' = [mem EXCEPT ![id] = Free]
  /\ UNCHANGED <<files, todo, used>>

\* Mutant: the PUBREL record goes first.
removePubrelFirst ==
  /\ \/ step = "remove"       /\ pstremove(Sent(cur.id))   /\ step' = "idle"
     \/ step = "removeBoth"   /\ pstremove(Pubrel(cur.id)) /\ step' = "removePubrel"
     \/ step = "removePubrel" /\ pstremove(Sent(cur.id))   /\ step' = "idle"
  /\ UNCHANGED <<mem, cur, todo, far, used>>

\* MQTTPersistence_remove: for QoS 2 the PUBLISH record, then the PUBREL record.
remove ==
  /\ \/ step = "remove"       /\ pstremove(Sent(cur.id))   /\ step' = "idle"
     \/ step = "removeBoth"   /\ pstremove(Sent(cur.id))   /\ step' = "removePubrel"
     \/ step = "removePubrel" /\ pstremove(Pubrel(cur.id)) /\ step' = "idle"
  /\ UNCHANGED <<mem, cur, todo, far, used>>

\* MQTTClient_cleanSession goes on whatever the store answers.
cleanSession(rc) ==
  /\ step = "idle"
  /\ Disturb("clean")
  /\ clearUnix(rc)
  /\ mem' = [id \in MsgIds |-> Free]
  /\ far' = [p \in DOMAIN far |-> IF far[p].stage = "completed" THEN far[p]
                                  ELSE [far[p] EXCEPT !.stage = "dropped"]]
  /\ UNCHANGED <<step, cur, todo>>

-----------------------------------------------------------------------------
(* Crash and restart *)

\* A file being written may have got any of its bytes.
crash ==
  /\ step # "down"
  /\ Disturb(IF step = "replace" THEN "torn" ELSE "crash")
  /\ IF step \in {"put", "replace"}
       THEN \E n \in 0..Whole : files' = [files EXCEPT ![cur].size = n]
       ELSE UNCHANGED files
  /\ mem' = [id \in MsgIds |-> Free]
  /\ step' = "down" /\ todo' = {}
  /\ UNCHANGED <<cur, far>>

\* MQTTPersistence_initialize: the keys, in any order.
restart ==
  /\ step = "down"
  /\ todo' = pstkeys
  /\ step' = "restore"
  /\ UNCHANGED <<files, mem, cur, far, used>>

\* The lengths of header and body that MQTTPersistence_restorePacket may read
\* from a file of n bytes: those written, or, when they are not all there,
\* what lies behind the buffer.
Decoded(n) == IF n >= Header THEN {<<Header, Whole - Header>>} ELSE (2..5) \X (0..Whole)

\* Mutant: the length of the fixed header is forgotten.
restorePacketBodyOnly(n) == \E d \in Decoded(n) : d[2] = n

\* It takes a file for a packet only if the lengths add up to its size.
restorePacket(n) == \E d \in Decoded(n) : d[1] + d[2] = n

\* A PUBREL record, whole or not, says that the PUBREC has come.
Restored(id) ==
  LET p == pstget(Sent(id)).pub
  IN [pub |-> p, next |-> IF pstcontainskey(Pubrel(id)) THEN "PUBCOMP" ELSE FirstReply(far[p].qos)]

\* Mutant: PUBREL records are kept.
restoreKeepsOrphans(key) ==
  /\ step = "restore" /\ key \in todo
  /\ todo' = todo \ {key}
  /\ IF restorePacket(pstget(key).size)
       THEN /\ mem' = IF key.stem = "s-" THEN [mem EXCEPT ![key.id] = Restored(key.id)] ELSE mem
            /\ UNCHANGED files
       ELSE pstremove(key) /\ UNCHANGED mem
  /\ UNCHANGED <<step, cur, far, used>>

\* One key of MQTTPersistence_restore: a PUBLISH joins the list, a PUBREL
\* without its PUBLISH and a bad record are removed.
restore(key) ==
  /\ step = "restore" /\ key \in todo
  /\ todo' = todo \ {key}
  /\ IF restorePacket(pstget(key).size)
       THEN IF key.stem = "s-"
              THEN mem' = [mem EXCEPT ![key.id] = Restored(key.id)] /\ UNCHANGED files
              ELSE /\ IF pstcontainskey(Sent(key.id)) THEN UNCHANGED files ELSE pstremove(key)
                   /\ UNCHANGED mem
       ELSE pstremove(key) /\ UNCHANGED mem
  /\ UNCHANGED <<step, cur, far, used>>

restored ==
  /\ step = "restore" /\ todo = {}
  /\ step' = "idle"
  /\ UNCHANGED <<files, mem, cur, todo, far, used>>

-----------------------------------------------------------------------------
Init ==
  /\ files = [k \in Keys |-> NoFile]
  /\ mem = [id \in MsgIds |-> Free]
  /\ step = "idle" /\ cur = Sent(1) /\ todo = {}
  /\ far = <<>> /\ used = [kind \in Kinds |-> 0]

Next == \/ \E qos \in Qoss : publish(qos)
        \/ pstput \/ send \/ remove
        \/ \E id \in MsgIds : pubrec(id) \/ retry(id) \/ complete(id)
        \/ \E rc \in {0, -2} : cleanSession(rc)
        \/ crash \/ restart \/ restored
        \/ \E key \in Keys : restore(key)

Spec == Init /\ [][Next]_vars

-----------------------------------------------------------------------------
(* Properties *)

TypeOK ==
  /\ files \in [Keys -> File] /\ mem \in [MsgIds -> Slot]
  /\ step \in Steps /\ cur \in Keys /\ todo \in SUBSET Keys
  /\ far \in Seq(Flow) /\ used \in [Kinds -> Nat]

Undisturbed(kinds) == \A kind \in kinds : used[kind] = 0

\* A message goes on after a restart where its flow had got to: its PUBREL is
\* not sent before the broker has answered its PUBLISH, and a PUBLISH is not
\* sent again after its PUBREL, when the broker would take it for a new message.
\* (Not so once a record was torn or not written, or left by clearUnix.)
ResumesWhereItWas ==
  Undisturbed({"torn", "full", "clean"}) =>
    \A id \in MsgIds : mem[id] # Free =>
      LET f == far[mem[id].pub]
      IN /\ f.id = id
         /\ f.qos = 2 => IF mem[id].next = "PUBCOMP"
                           THEN f.stage \in {"received", "released", "completed"}
                           ELSE f.stage \in {"begun", "published", "received"}

\* No message that was sent is forgotten before its flow ends, whatever
\* operation the crash came into.  (Unless its record was torn or not written.)
NothingForgotten ==
  Undisturbed({"torn", "full"}) /\ step \notin {"down", "restore"} =>
    \A p \in DOMAIN far : far[p].stage \in {"published", "received", "released"} =>
      mem[far[p].id].pub = p

-----------------------------------------------------------------------------
(* The inductive invariant behind the two *)

Exists(key) == files[key] # NoFile
IsWhole(key)  == files[key].size = Whole

\* What step is at work on.
Writing(key) == step = "replace" /\ cur = key
Removing(id) == step \in {"remove", "removeBoth"} /\ cur.id = id

\* Of every file and every message in memory it is known which publication it
\* is of, and every step finds what it is at work on.
Consistent ==
  /\ Len(far) <= MaxPublish
  /\ \A id \in MsgIds :
       /\ mem[id] # Free => mem[id].pub \in DOMAIN far /\ far[mem[id].pub].id = id
       /\ Exists(Sent(id)) => files[Sent(id)].pub \in DOMAIN far /\ far[files[Sent(id)].pub].id = id
       /\ step = "down" => mem[id] = Free
  /\ step \in {"put", "replace", "send"} => mem[cur.id] # Free
  /\ step \in {"put", "replace"} => files[cur].pub = mem[cur.id].pub
  /\ step \in {"remove", "removeBoth", "removePubrel"} => mem[cur.id] = Free
  /\ step \in {"remove", "removeBoth"} => cur.stem = "s-"

Live(p) == far[p].stage \in {"published", "received", "released"}

\* Without torn records and a full disk: a message in memory has its record,
\* one under way has its record and is in memory, or will be.
Kept ==
  /\ step = "put" /\ cur.stem = "s-" => far[mem[cur.id].pub].stage = "begun"
  /\ \A id \in MsgIds :
       mem[id] # Free =>
         /\ files[Sent(id)].pub = mem[id].pub
         /\ IsWhole(Sent(id)) \/ (step \in {"put", "replace"} /\ cur = Sent(id))
  /\ \A p \in DOMAIN far :
       Live(p) => LET id == far[p].id
                  IN /\ files[Sent(id)].pub = p
                     /\ IsWhole(Sent(id)) \/ Writing(Sent(id))
                     /\ \/ step = "down"
                        \/ mem[id].pub = p
                        \/ step = "restore" /\ Sent(id) \in todo

\* Without a clean session either: what the records say of a message, alone and
\* together, is where its flow has got to.
Told(id) ==
  LET f == far[files[Sent(id)].pub]
  IN /\ Exists(Pubrel(id)) => f.qos = 2 /\ f.stage \in {"received", "released", "completed"}
     /\ f.qos = 2 /\ f.stage \in {"released", "completed"} => IsWhole(Pubrel(id)) \/ Writing(Pubrel(id))
     /\ IsWhole(Sent(id)) \/ Writing(Sent(id)) \/ f.stage = "begun"
     /\ \/ mem[id] # Free \/ step = "down" \/ Removing(id)
        \/ step = "restore" /\ Sent(id) \in todo

Remembered(id) ==
  LET f == far[mem[id].pub]
  IN IF mem[id].next = "PUBCOMP"
       THEN f.qos = 2 /\ f.stage \in {"received", "released", "completed"}
       ELSE /\ mem[id].next = FirstReply(f.qos)
            /\ ~Exists(Pubrel(id))
            /\ f.qos = 2 => f.stage \in {"begun", "published", "received"}

Agree(id) ==
  /\ Exists(Sent(id)) => Told(id)
  /\ mem[id] # Free => Remembered(id)
  /\ Exists(Pubrel(id)) => \/ Exists(Sent(id))
                           \/ step = "down"
                           \/ step = "removePubrel" /\ cur.id = id
                           \/ step = "restore" /\ Pubrel(id) \in todo

AtWork ==
  /\ step = "put" /\ cur.stem = "sc-" => far[mem[cur.id].pub].stage = "received"
  /\ step = "send" => IsWhole(cur)
  /\ step \in {"put", "replace", "send"} /\ cur.stem = "sc-" => mem[cur.id].next = "PUBCOMP"
  /\ step = "remove" => ~Exists(Pubrel(cur.id))

Resumable == /\ \A p \in DOMAIN far : far[p].stage # "dropped"
             /\ AtWork
             /\ \A id \in MsgIds : Agree(id)

FilesInv == /\ TypeOK
            /\ Consistent
            /\ Undisturbed({"torn", "full"}) => Kept
            /\ Undisturbed({"torn", "full", "clean"}) => Resumable

\* A clear that succeeds leaves no record (MQTTClientPersistence.h:185).
ClearEmpties == [][cleanSession(0) => pstkeys' = {}]_vars
=============================================================================
