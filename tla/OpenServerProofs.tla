-------------------------- MODULE OpenServerProofs --------------------------
(***************************************************************************)
(* What holds of the servers whatever clients send, for every number of    *)
(* clients, files and messages, every way streams are cut, and without a   *)
(* bound on what clients write or on kills.                                *)
(***************************************************************************)
EXTENDS OpenServer, DfsServerProofs

(* What can be on its way to client k, or waits for it in a server.        *)
Refusal == {Invalid, Newline}
Heard(k) == IF k \in Stranger THEN Refusal ELSE Token
Segs(c) == IF c[1] \in Stranger THEN TextSegs(Refusal) ELSE TextSegs(Token) \cup FileSegs(c[2])

MemberSaid == UNION { Said(k) : k \in Client \ Stranger }

(* A connection holds what its client said and what its client may hear,   *)
(* and no stranger ever gets as far as an upload.                          *)
ConnOK(c) ==
  /\ c2s[c] \in Pipe(Said(c[1]))
  /\ s2c[c] \in Pipe(Heard(c[1]))
  /\ srv[c] \in Connection(Said(c[1]), Segs(c)) /\ UploadOK(srv[c])
  /\ c[1] \in Stranger => srv[c].cb = "read"

Shape ==
  /\ DOMAIN c2s = Conn /\ DOMAIN s2c = Conn /\ DOMAIN srv = Conn
  /\ net \in [Conn -> NetState]
  /\ fate \in [Server -> {"up", "killed", "aborted"}]

DiskOK ==
  /\ disk \in [Server -> Files(MemberSaid)]
  /\ folder \in [Server -> BOOLEAN]
  /\ PartsNeedTheFolder

IInv == Shape /\ DiskOK /\ \A c \in Conn : ConnOK(c)

LEMMA SaidType ==
  /\ \A k \in Client : Said(k) \subseteq Token
  /\ \A k \in Client \ Stranger : Said(k) \subseteq MemberSaid
  /\ MemberSaid \subseteq Token
  /\ NoPart \notin Seq(MemberSaid)
  /\ \A k \in Stranger : Auth("good") \notin Readings(Said(k))
<1>1. ASSUME NEW k \in Client, NEW t \in Said(k) PROVE t \in Token
  <2>1. PICK d \in Messages(k) : \E n \in DOMAIN d : t = d[n]
    BY <1>1, Zenon DEF Said, Tokens
  <2>2. d \in Seq(Token)
    BY <1>1, OpenAssumption
  <2>3. PICK n \in 1..Len(d) : t = d[n]
    BY <2>1, <2>2
  <2>. QED BY <2>2, <2>3, ElementOfSeq
<1>2. \A k \in Client \ Stranger : Said(k) \subseteq MemberSaid
  BY Zenon DEF MemberSaid
<1>3. MemberSaid \subseteq Token
  BY <1>1, Zenon DEF MemberSaid
<1>4. NoPart \notin Seq(MemberSaid)
  BY <1>3, SeqMonotonic, OpenAssumption
<1>5. ASSUME NEW k \in Stranger PROVE Auth("good") \notin Readings(Said(k))
  <2>1. ASSUME NEW line \in DOMAIN Spelled, line \in Seq(Said(k))
        PROVE  Spelled[line] # Auth("good")
    <3>1. Tokens(line) \subseteq Said(k)
      <4>1. ASSUME NEW n \in DOMAIN line PROVE line[n] \in Said(k)
        BY <2>1, <4>1, ElementOfSeq, LenProperties
      <4>. QED BY <4>1, Zenon DEF Tokens
    <3>. QED BY <3>1, OpenAssumption, Zenon
  <2>2. Auth("good") \notin Said(k)
    BY OpenAssumption
  <2>. QED BY <2>1, <2>2, Zenon DEF Readings
<1>. QED BY <1>1, <1>2, <1>3, <1>4, <1>5, Zenon

-----------------------------------------------------------------------------
(* What a step of the servers can do to disks and folders.                 *)
EntersFolder(c) ==
  disk' = disk /\ folder' = [folder EXCEPT ![c[2]] = CanCreate(c[2])]

StoresUpload(c) ==
  /\ folder' = folder
  /\ srv[c].cb = "put" /\ c2s'[c] # c2s[c]
  /\ \E files \in Files(MemberSaid) :
       /\ disk' = [disk EXCEPT ![c[2]] = files]
       /\ Adds(c, srv[c].filename, MemberSaid, disk[c[2]], files)

DiskStep == \/ UNCHANGED <<disk, folder>>
            \/ \E c \in Conn : EntersFolder(c) \/ StoresUpload(c)

(* What is read joins the input of the connection.                         *)
LEMMA JoinedInput ==
  ASSUME IInv, NEW c \in Conn, NEW n \in c2s[c].cuts,
         NEW q, q = [srv[c] EXCEPT !.inp = @ \o Take(c2s[c].data, n)]
  PROVE  /\ q \in Connection(Said(c[1]), Segs(c)) /\ UploadOK(q)
         /\ q.cb = srv[c].cb /\ q.filename = srv[c].filename
<1>1. ConnOK(c)
  BY Zenon DEF IInv
<1>2. Take(c2s[c].data, n) \in Seq(Said(c[1]))
  BY <1>1, ReceivedType DEF ConnOK
<1>3. srv[c].inp \in Seq(Said(c[1]))
  BY <1>1 DEF ConnOK, Connection
<1>4. srv[c].inp \o Take(c2s[c].data, n) \in Seq(Said(c[1]))
  BY <1>2, <1>3, ConcatProperties
<1>5. q \in Connection(Said(c[1]), Segs(c)) /\ UploadOK(q)
  BY <1>1, <1>4, ConnectionFields DEF ConnOK
<1>6. q.cb = srv[c].cb /\ q.filename = srv[c].filename
  BY <1>1 DEF ConnOK, Connection
<1>. QED BY <1>5, <1>6

LEMMA ReadType ==
  ASSUME IInv, NEW c \in Conn, NEW n \in c2s[c].cuts,
         NEW q, q = [srv[c] EXCEPT !.inp = @ \o Take(c2s[c].data, n)],
         q.cb = "read", callback_read(c, q)
  PROVE  \E r \in Connection(Said(c[1]), Segs(c)) :
           /\ UploadOK(r) /\ (c[1] \in Stranger => r.cb = "read")
           /\ Becomes(c, r) \/ EnterFolder(c, r)
<1>1. q \in Connection(Said(c[1]), Segs(c)) /\ UploadOK(q)
  BY JoinedInput, Zenon
<1>2. CASE c[1] \in Stranger
  <2>1. Auth("good") \notin Readings(Said(c[1]))
    BY <1>2, SaidType
  <2>2. Invalid \in Refusal /\ Newline \in Refusal
    BY DEF Refusal
  <2>3. q \in Connection(Said(c[1]), TextSegs(Refusal))
    BY <1>1, <1>2, Zenon DEF Segs
  <2>4. PICK r \in Connection(Said(c[1]), TextSegs(Refusal)) :
          UploadOK(r) /\ r.cb = q.cb /\ Becomes(c, r)
    <3>. DEFINE In == Said(c[1])
    <3>1. Auth("good") \notin Readings(In) /\ q \in Connection(In, TextSegs(Refusal))
      BY <2>1, <2>3
    <3>2. UploadOK(q) /\ callback_read(c, q)
      BY <1>1
    <3>. HIDE DEF In
    <3>3. \E r \in Connection(In, TextSegs(Refusal)) :
            UploadOK(r) /\ r.cb = q.cb /\ Becomes(c, r)
      BY <2>2, <3>1, <3>2, Refused
    <3>. QED BY <3>3 DEF In
  <2>. QED BY <1>2, <2>4, Zenon DEF Segs
<1>3. CASE c[1] \notin Stranger
  <2>1. c[1] \in Client /\ c[2] \in Server
    BY DEF Conn
  <2>2. Said(c[1]) \subseteq Token
    BY <2>1, SaidType
  <2>3. disk[c[2]] \in Files(MemberSaid)
    BY <2>1 DEF IInv, DiskOK
  <2>4. q \in Connection(Said(c[1]), TextSegs(Token) \cup FileSegs(c[2]))
    BY <1>1, <1>3, Zenon DEF Segs
  <2>5. PICK r \in Connection(Said(c[1]), TextSegs(Token) \cup FileSegs(c[2])) :
          UploadOK(r) /\ (Becomes(c, r) \/ EnterFolder(c, r))
    BY <1>1, <2>2, <2>3, <2>4, Served, AnswersType
  <2>. QED BY <1>3, <2>5, Zenon DEF Segs
<1>. QED BY <1>2, <1>3

LEMMA PutType ==
  ASSUME IInv, NEW c \in Conn, NEW n \in c2s[c].cuts,
         NEW q, q = [srv[c] EXCEPT !.inp = @ \o Take(c2s[c].data, n)],
         q.cb = "put", NEW h \in PutLoop(c, q)
  PROVE  /\ h.q \in Connection(Said(c[1]), Segs(c)) /\ UploadOK(h.q)
         /\ c[1] \notin Stranger
         /\ h.files \in Files(MemberSaid)
         /\ Adds(c, srv[c].filename, MemberSaid, disk[c[2]], h.files)
<1>1. /\ q \in Connection(Said(c[1]), Segs(c)) /\ UploadOK(q)
      /\ srv[c].cb = "put" /\ q.filename = srv[c].filename
  BY JoinedInput, Zenon
<1>2. c[1] \in Client \ Stranger /\ c[2] \in Server
  BY <1>1 DEF Conn, IInv, ConnOK
<1>3. Said(c[1]) \subseteq Token /\ Said(c[1]) \subseteq MemberSaid
  BY <1>2, SaidType
<1>4. q.filename \in File
  BY <1>1 DEF Connection, UploadOK
<1>5. disk[c[2]] \in Files(MemberSaid)
  BY <1>2 DEF IInv, DiskOK
<1>6. /\ h.q \in Connection(Said(c[1]), Segs(c)) /\ UploadOK(h.q)
      /\ h.files \in Files(MemberSaid)
      /\ Adds(c, q.filename, Said(c[1]), disk[c[2]], h.files)
  BY <1>1, <1>3, <1>4, <1>5, LoopType
<1>7. Adds(c, q.filename, MemberSaid, disk[c[2]], h.files)
  BY <1>3, <1>6, SeqMonotonic DEF Adds
<1>. QED BY <1>1, <1>2, <1>6, <1>7

LEMMA ReadChangesInput ==
  ASSUME IInv, NEW c \in Conn, NEW n \in c2s[c].cuts,
         c2s' = [c2s EXCEPT ![c] = Received(@, n)] \/ c2s'[c] = Empty
  PROVE  c2s'[c] # c2s[c]
<1>1. c2s[c] \in Pipe(Said(c[1])) /\ c \in DOMAIN c2s
  BY Zenon DEF IInv, ConnOK, Shape
<1>2. Received(c2s[c], n) # c2s[c]
  BY <1>1, ReceivedType
<1>3. c2s[c] # Empty
  BY DEF Empty
<1>. QED BY <1>1, <1>2, <1>3
LEMMA ServerStepDisk ==
  ASSUME IInv, NEW c \in Conn, ServerStep(c)
  PROVE  DiskStep
<1>1. ASSUME NEW r, Becomes(c, r) PROVE DiskStep
  BY <1>1, Zenon DEF Becomes, DiskStep
<1>2. ASSUME NEW r, EnterFolder(c, r) PROVE DiskStep
  BY <1>2, Zenon DEF EnterFolder, EntersFolder, DiskStep
<1>4. CASE Accept(c)
  BY <1>4, Zenon DEF Accept, DiskStep
<1>5. CASE ServerRead(c)
  <2>1. CASE EntersFolder(c)
    BY <2>1, Zenon DEF DiskStep
  <2>2. CASE \E n \in c2s[c].cuts :
               \E q \in {[srv[c] EXCEPT !.inp = @ \o Take(c2s[c].data, n)]} :
                 q.cb = "read" /\ callback_read(c, q)
    <3>1. PICK n \in c2s[c].cuts :
            \E q \in {[srv[c] EXCEPT !.inp = @ \o Take(c2s[c].data, n)]} :
              q.cb = "read" /\ callback_read(c, q)
      BY <2>2
    <3>2. PICK q : /\ q = [srv[c] EXCEPT !.inp = @ \o Take(c2s[c].data, n)]
                   /\ q.cb = "read" /\ callback_read(c, q)
      BY <3>1, Zenon
    <3>. QED BY <1>1, <1>2, <3>2, ReadType, Zenon
  <2>3. CASE \E n \in c2s[c].cuts :
               \E q \in {[srv[c] EXCEPT !.inp = @ \o Take(c2s[c].data, n)]} :
                 /\ q.cb = "put" /\ folder' = folder
                 /\ \E h \in PutLoop(c, q) : disk' = [disk EXCEPT ![c[2]] = h.files]
                 /\ c2s' = [c2s EXCEPT ![c] = Received(@, n)] \/ c2s'[c] = Empty
    <3>0. PICK n \in c2s[c].cuts :
            \E q \in {[srv[c] EXCEPT !.inp = @ \o Take(c2s[c].data, n)]} :
              /\ q.cb = "put" /\ folder' = folder
              /\ \E h \in PutLoop(c, q) : disk' = [disk EXCEPT ![c[2]] = h.files]
              /\ c2s' = [c2s EXCEPT ![c] = Received(@, n)] \/ c2s'[c] = Empty
      BY <2>3
    <3>1. PICK q : /\ q = [srv[c] EXCEPT !.inp = @ \o Take(c2s[c].data, n)]
                   /\ q.cb = "put" /\ folder' = folder
                   /\ \E h \in PutLoop(c, q) : disk' = [disk EXCEPT ![c[2]] = h.files]
                   /\ c2s' = [c2s EXCEPT ![c] = Received(@, n)] \/ c2s'[c] = Empty
      BY <3>0, Zenon
    <3>2. PICK h \in PutLoop(c, q) :
            disk' = [disk EXCEPT ![c[2]] = h.files] /\ folder' = folder
      BY <3>1, Zenon
    <3>3. /\ h.files \in Files(MemberSaid)
          /\ Adds(c, srv[c].filename, MemberSaid, disk[c[2]], h.files)
      BY <3>1, PutType, Zenon
    <3>4. c2s'[c] # c2s[c] /\ srv[c].cb = "put"
      BY <3>1, ReadChangesInput, JoinedInput, Zenon
    <3>. QED BY <3>2, <3>3, <3>4, Zenon DEF StoresUpload, DiskStep
  <2>4. \A left : Die(c[2], "aborted", left) => c2s'[c] = Empty
    BY DEF Die, Conn
  <2>. QED BY <1>5, <2>1, <2>2, <2>3, <2>4, Zenon DEF ServerRead, callback_put, EntersFolder
<1>6. CASE ServerWrite(c)
  <2>1. disk' = disk /\ folder' = folder
    BY <1>6, Zenon DEF ServerWrite
  <2>. QED BY <2>1, Zenon DEF DiskStep
<1>. QED BY <1>4, <1>5, <1>6, Zenon DEF ServerStep

(* A kill while a part is written.                                         *)
LEMMA KilledWritingDisk ==
  ASSUME IInv, NEW c \in Conn, KilledWriting(c)
  PROVE  DiskStep /\ \E left : Die(c[2], "killed", left)
<1>1. PICK n \in c2s[c].cuts :
        \E q \in {[srv[c] EXCEPT !.inp = @ \o Take(c2s[c].data, n)]} :
          /\ q.cb = "put"
          /\ \E g \in Writes(c, q) : \E m \in 0..g.q.wantedSize :
               disk' = [disk EXCEPT ![c[2]] = StoringFirst(g.files, g.q, m)]
          /\ Die(c[2], "killed", [c2s EXCEPT ![c] = Received(@, n)])
  BY DEF KilledWriting
<1>2. PICK q : /\ q = [srv[c] EXCEPT !.inp = @ \o Take(c2s[c].data, n)]
               /\ q.cb = "put"
               /\ \E g \in Writes(c, q) : \E m \in 0..g.q.wantedSize :
                    disk' = [disk EXCEPT ![c[2]] = StoringFirst(g.files, g.q, m)]
               /\ Die(c[2], "killed", [c2s EXCEPT ![c] = Received(@, n)])
  BY <1>1, Zenon
<1>3. PICK g \in Writes(c, q) : \E m \in 0..g.q.wantedSize :
             disk' = [disk EXCEPT ![c[2]] = StoringFirst(g.files, g.q, m)]
  BY <1>2
<1>a. PICK m \in 0..g.q.wantedSize : disk' = [disk EXCEPT ![c[2]] = StoringFirst(g.files, g.q, m)]
  BY <1>3
<1>4. m \in Nat
  OBVIOUS
<1>5. /\ q \in Connection(Said(c[1]), Segs(c)) /\ UploadOK(q)
      /\ srv[c].cb = "put" /\ q.filename = srv[c].filename
  BY <1>2, JoinedInput, Zenon
<1>6. c[1] \in Client \ Stranger /\ c[2] \in Server
  BY <1>5 DEF Conn, IInv, ConnOK
<1>7. Said(c[1]) \subseteq Token /\ Said(c[1]) \subseteq MemberSaid
  BY <1>6, SaidType
<1>8. q.filename \in File
  BY <1>2, <1>5 DEF Connection, UploadOK
<1>9. disk[c[2]] \in Files(MemberSaid)
  BY <1>6 DEF IInv, DiskOK
<1>10. PICK files : files = StoringFirst(g.files, g.q, m)
  OBVIOUS
<1>11. files \in Files(MemberSaid) /\ Adds(c, q.filename, Said(c[1]), disk[c[2]], files)
  BY <1>4, <1>5, <1>7, <1>8, <1>9, <1>10, WritesType
<1>12. Adds(c, srv[c].filename, MemberSaid, disk[c[2]], files)
  BY <1>5, <1>7, <1>11, SeqMonotonic DEF Adds
<1>13. c2s'[c] = Empty
  BY <1>2 DEF Die, Conn
<1>14. c2s'[c] # c2s[c] /\ folder' = folder
  BY <1>13, ReadChangesInput DEF KilledWriting
<1>. QED BY <1>2, <1>4, <1>5, <1>10, <1>11, <1>12, <1>14, <1>a, Zenon DEF StoresUpload, DiskStep

(* Every step of clients, servers and those who kill them is a DiskStep.   *)
LEMMA NextDisk ==
  ASSUME IInv, [Next]_vars
  PROVE  DiskStep
<1>1. CASE UNCHANGED vars
  BY <1>1 DEF vars, DiskStep
<1>2. ASSUME NEW c \in Conn, ServerStep(c) PROVE DiskStep
  BY <1>2, ServerStepDisk, Zenon
<1>3. ASSUME NEW c \in Conn, Connect(c) \/ Send(c) \/ Leave(c) PROVE DiskStep
  BY <1>3 DEF Connect, Send, Leave, serverVars, DiskStep
<1>4. ASSUME NEW s \in Server, KillOne(s) PROVE DiskStep
  <2>1. ASSUME NEW k \in Client, KilledWriting(<<k, s>>) PROVE DiskStep
    BY <2>1, KilledWritingDisk DEF Conn
  <2>2. CASE UNCHANGED <<disk, folder>>
    BY <2>2 DEF DiskStep
  <2>. QED BY <1>4, <2>1, <2>2, Zenon DEF KillOne, Kill
<1>5. ASSUME NEW s \in Server, Restart(s) PROVE DiskStep
  BY <1>5 DEF Restart, DiskStep
<1>. QED BY <1>1, <1>2, <1>3, <1>4, <1>5, Zenon DEF Next

(* No part is taken away, and parts stay where they can be.                *)
NoneTaken == \A s \in Server, f \in File, p \in Number :
               disk[s][f][p] # NoPart => disk'[s][f][p] # NoPart

LEMMA StoresUploadKeepsDisk ==
  ASSUME DiskOK, NEW c \in Conn, StoresUpload(c)
  PROVE  DiskOK' /\ NoneTaken
<1>1. PICK files \in Files(MemberSaid) :
        /\ disk' = [disk EXCEPT ![c[2]] = files]
        /\ Adds(c, srv[c].filename, MemberSaid, disk[c[2]], files)
  BY Zenon DEF StoresUpload
<1>2. c[2] \in Server /\ folder' = folder
  BY DEF Conn, StoresUpload
<1>3. disk' \in [Server -> Files(MemberSaid)] /\ folder' \in [Server -> BOOLEAN]
  BY <1>1, <1>2 DEF DiskOK
<1>4. ASSUME NEW s \in Server, NEW f \in File, NEW p \in Number
      PROVE  \/ disk'[s][f][p] = disk[s][f][p]
             \/ folder[s] /\ f \notin Missing /\ disk'[s][f][p] # NoPart
  <2>1. CASE s = c[2]
    <3>1. disk'[s] = files
      BY <1>1, <1>2, <2>1 DEF DiskOK
    <3>2. \/ files[f][p] = disk[s][f][p]
          \/ f = srv[c].filename /\ Opens(s, f) /\ files[f][p] \in Seq(MemberSaid)
      BY <1>1, <2>1, Zenon DEF Adds
    <3>. QED BY <3>1, <3>2, SaidType, Zenon DEF Opens
  <2>2. CASE s # c[2]
    BY <1>1, <2>2 DEF DiskOK
  <2>. QED BY <2>1, <2>2
<1>5. NoneTaken
  BY <1>4, Zenon DEF NoneTaken
<1>6. PartsNeedTheFolder'
  <2>1. ASSUME NEW s \in Server, NEW f \in File, NEW p \in Number, disk'[s][f][p] # NoPart
        PROVE  folder'[s] /\ f \notin Missing
    <3>1. CASE disk[s][f][p] # NoPart
      BY <1>2, <3>1, Zenon DEF DiskOK, PartsNeedTheFolder, PartsIn
    <3>2. CASE disk[s][f][p] = NoPart
      BY <1>2, <1>4, <2>1, <3>2, Zenon
    <3>. QED BY <3>1, <3>2, Zenon
  <2>. QED BY <2>1, Zenon DEF PartsNeedTheFolder, PartsIn
<1>. QED BY <1>3, <1>5, <1>6, Zenon DEF DiskOK

LEMMA DiskStepKeepsDisk ==
  ASSUME DiskOK, DiskStep
  PROVE  DiskOK' /\ NoneTaken
<1>1. CASE UNCHANGED <<disk, folder>>
  <2>1. disk' = disk /\ folder' = folder
    BY <1>1
  <2>. QED BY <2>1, Zenon DEF DiskOK, PartsNeedTheFolder, PartsIn, NoneTaken
<1>2. ASSUME NEW c \in Conn, EntersFolder(c)
      PROVE  DiskOK' /\ NoneTaken
  <2>1. disk' = disk /\ folder' = [folder EXCEPT ![c[2]] = CanCreate(c[2])] /\ c[2] \in Server
    BY <1>2 DEF EntersFolder, Conn
  <2>2. CanCreate(c[2]) \in BOOLEAN
    BY Zenon DEF CanCreate
  <2>3. folder' \in [Server -> BOOLEAN]
    BY <2>1, <2>2, Zenon DEF DiskOK
  <2>4. ASSUME NEW s \in Server, folder[s] PROVE folder'[s]
    <3>1. CASE s = c[2]
      <4>1. CanCreate(s) /\ folder'[s] = CanCreate(s)
        BY <2>1, <2>4, <3>1, Zenon DEF CanCreate, DiskOK
      <4>. QED BY <4>1, Zenon
    <3>2. CASE s # c[2]
      <4>1. folder'[s] = folder[s]
        BY <2>1, <3>2, Zenon DEF DiskOK
      <4>. QED BY <4>1, <2>4, Zenon
    <3>. QED BY <3>1, <3>2, Zenon
  <2>5. PartsNeedTheFolder'
    BY <2>1, <2>4, Zenon DEF DiskOK, PartsNeedTheFolder, PartsIn
  <2>. QED BY <2>1, <2>3, <2>5, Zenon DEF DiskOK, NoneTaken
<1>. QED BY <1>1, <1>2, StoresUploadKeepsDisk, Zenon DEF DiskStep
-----------------------------------------------------------------------------
(* The connections.  Parts that stay where they are can still be sent.     *)
LEMMA SegsGrow ==
  ASSUME NoneTaken, NEW c \in Conn, NEW In
  PROVE  \A q \in Connection(In, Segs(c)) : q \in Connection(In, Segs(c)')
<1>1. FileSegs(c[2]) \subseteq FileSegs(c[2])'
  BY ChannelAssumption DEF FileSegs, NoneTaken, Conn
<1>2. Segs(c) \subseteq Segs(c)'
  BY <1>1, Zenon DEF Segs
<1>3. Seq(Segs(c)) \subseteq Seq(Segs(c)')
  BY <1>2, SeqMonotonic
<1>. HIDE DEF Segs
<1>. QED BY <1>3 DEF Connection

LEMMA ConnKept ==
  ASSUME NoneTaken, NEW c \in Conn,
         c2s'[c] \in Pipe(Said(c[1])),
         s2c'[c] \in Pipe(Heard(c[1])),
         srv'[c] \in Connection(Said(c[1]), Segs(c)), UploadOK(srv'[c]),
         c[1] \in Stranger => srv'[c].cb = "read"
  PROVE  ConnOK(c)'
<1>1. srv'[c] \in Connection(Said(c[1]), Segs(c)')
  BY SegsGrow, Zenon
<1>. QED BY <1>1, Zenon DEF ConnOK

(* A step on one connection, which leaves the others alone.                *)
LEMMA OneConn ==
  ASSUME IInv, NoneTaken, NEW c \in Conn, ConnOK(c)',
         \A d \in Conn : d # c => c2s'[d] = c2s[d] /\ s2c'[d] = s2c[d] /\ srv'[d] = srv[d]
  PROVE  \A d \in Conn : ConnOK(d)'
<1>. SUFFICES ASSUME NEW d \in Conn, d # c PROVE ConnOK(d)'
  OBVIOUS
<1>1. ConnOK(d)
  BY Zenon DEF IInv
<1>2. c2s'[d] = c2s[d] /\ s2c'[d] = s2c[d] /\ srv'[d] = srv[d]
  OBVIOUS
<1>. QED BY <1>1, <1>2, ConnKept, Zenon DEF ConnOK

LEMMA FreshConnection ==
  ASSUME NEW In, NEW Out
  PROVE  /\ Accepted \in Connection(In, Out) /\ UploadOK(Accepted) /\ Accepted.cb = "read"
         /\ Absent \in Connection(In, Out) /\ UploadOK(Absent) /\ Absent.cb = "read"
<1>1. PICK zero : zero = 0 /\ zero \in Nat /\ zero \in 0..3 /\ zero \in Number \cup {0}
  OBVIOUS
<1>2. <<>> \in Seq(In) /\ <<>> \in Seq(Out)
  BY EmptySeq
<1>3. Accepted \in Connection(In, Out)
  BY <1>1, <1>2 DEF Accepted, Connection
<1>4. Accepted.cb = "read" /\ Accepted.putState = 0
  BY DEF Accepted
<1>5. Absent \in Connection(In, Out)
  BY <1>3 DEF Absent, Connection
<1>6. Absent.cb = "read" /\ Absent.putState = 0
  BY <1>3, <1>4 DEF Absent, Connection
<1>7. UploadOK(Accepted) /\ UploadOK(Absent)
  BY <1>4, <1>6 DEF UploadOK
<1>. QED BY <1>3, <1>4, <1>5, <1>6, <1>7

(* A process that dies leaves its pipes empty, or ended.                   *)
LEMMA DieKeepsConn ==
  ASSUME IInv, NoneTaken, NEW s \in Server, NEW how \in {"killed", "aborted"}, NEW unread,
         Die(s, how, unread)
  PROVE  Shape' /\ \A c \in Conn : ConnOK(c)'
<1> DEFINE C == Client \X {s}
<1>1. C \subseteq Conn
  BY DEF Conn
<1>2. ASSUME NEW c \in Conn PROVE ConnOK(c)'
  <2>1. ConnOK(c)
    BY Zenon DEF IInv
  <2>2. c2s'[c] \in Pipe(Said(c[1]))
    <3>1. c2s'[c] = IF c \in C THEN Empty ELSE c2s[c]
      BY Zenon DEF Die
    <3>. QED BY <2>1, <3>1, EmptyType, Zenon DEF ConnOK
  <2>3. s2c'[c] \in Pipe(Heard(c[1]))
    <3>1. s2c'[c] \in {Empty, Ended(s2c[c]), s2c[c]}
      BY DEF Die
    <3>2. Ended(s2c[c]) \in Pipe(Heard(c[1])) /\ Empty \in Pipe(Heard(c[1]))
      BY <2>1, EndedType, EmptyType DEF ConnOK
    <3>. QED BY <2>1, <3>1, <3>2 DEF ConnOK
  <2>4. srv'[c] = Absent \/ srv'[c] = srv[c]
    BY DEF Die
  <2>5. CASE srv'[c] = Absent
    BY <2>2, <2>3, <2>5, FreshConnection, ConnKept, Zenon
  <2>6. CASE srv'[c] = srv[c]
    BY <2>1, <2>2, <2>3, <2>6, ConnKept, Zenon DEF ConnOK
  <2>. QED BY <2>4, <2>5, <2>6
<1>3. DOMAIN c2s' = Conn /\ DOMAIN s2c' = Conn /\ DOMAIN srv' = Conn
  BY DEF Die
<1>4. net' \in [Conn -> NetState]
  BY DEF IInv, Shape, Die, NetAfterDeath, NetState
<1>5. fate' \in [Server -> {"up", "killed", "aborted"}]
  BY DEF IInv, Shape, Die
<1>. QED BY <1>2, <1>3, <1>4, <1>5 DEF Shape
LEMMA AcceptKeepsConn ==
  ASSUME IInv, NoneTaken, NEW c \in Conn, Accept(c)
  PROVE  Shape' /\ \A d \in Conn : ConnOK(d)'
<1>1. /\ srv' = [srv EXCEPT ![c] = Accepted]
      /\ c2s' = c2s /\ s2c' = s2c /\ net' = net /\ fate' = fate
  BY DEF Accept, netVars
<1>2. srv'[c] = Accepted /\ ConnOK(c)
  BY <1>1, Zenon DEF IInv, Shape
<1>3. ConnOK(c)'
  BY <1>1, <1>2, FreshConnection, ConnKept, Zenon DEF ConnOK
<1>4. \A d \in Conn : d # c => c2s'[d] = c2s[d] /\ s2c'[d] = s2c[d] /\ srv'[d] = srv[d]
  BY <1>1, Zenon DEF IInv, Shape
<1>5. Shape'
  BY <1>1, Zenon DEF IInv, Shape
<1>. QED BY <1>3, <1>4, <1>5, OneConn, Zenon

(* A read leaves a shorter pipe and the connection its callback made.      *)
LEMMA ReadKeepsConn ==
  ASSUME IInv, NoneTaken, NEW c \in Conn, ServerRead(c)
  PROVE  Shape' /\ \A d \in Conn : ConnOK(d)'
<1> DEFINE Joined(n) == [srv[c] EXCEPT !.inp = @ \o Take(c2s[c].data, n)]
<1>a. PICK n \in c2s[c].cuts : \E q \in {Joined(n)} :
        LET left == [c2s EXCEPT ![c] = Received(@, n)] IN
        \/ q.cb = "read" /\ callback_read(c, q) /\ c2s' = left /\ UNCHANGED <<s2c, net>>
        \/ q.cb = "put" /\ callback_put(c, q) /\ c2s' = left /\ UNCHANGED <<s2c, net>>
        \/ Die(c[2], "aborted", left)
  <2>. HIDE DEF Joined
  <2>. QED BY Zenon DEF ServerRead, Joined
<1>b. PICK q :
       /\ q = [srv[c] EXCEPT !.inp = @ \o Take(c2s[c].data, n)]
       /\ \/ /\ (q.cb = "read" /\ callback_read(c, q)) \/ (q.cb = "put" /\ callback_put(c, q))
             /\ c2s' = [c2s EXCEPT ![c] = Received(@, n)] /\ UNCHANGED <<s2c, net>>
          \/ \E left : Die(c[2], "aborted", left)
  BY <1>a, Zenon
<1>1. CASE \E left : Die(c[2], "aborted", left)
  BY <1>1, DieKeepsConn DEF Conn
<1>2. CASE /\ (q.cb = "read" /\ callback_read(c, q)) \/ (q.cb = "put" /\ callback_put(c, q))
           /\ c2s' = [c2s EXCEPT ![c] = Received(@, n)] /\ UNCHANGED <<s2c, net>>
  <2>1. s2c' = s2c /\ net' = net
    BY <1>2
  <2>2. \E r \in Connection(Said(c[1]), Segs(c)) :
          /\ UploadOK(r) /\ (c[1] \in Stranger => r.cb = "read")
          /\ srv' = [srv EXCEPT ![c] = r] /\ fate' = fate
    <3>1. CASE q.cb = "read" /\ callback_read(c, q)
      <4>1. PICK r \in Connection(Said(c[1]), Segs(c)) :
              /\ UploadOK(r) /\ (c[1] \in Stranger => r.cb = "read")
              /\ Becomes(c, r) \/ EnterFolder(c, r)
        BY <1>b, <3>1, ReadType, Zenon
      <4>. QED BY <4>1, Zenon DEF Becomes, EnterFolder
    <3>2. CASE q.cb = "put" /\ callback_put(c, q)
      <4>1. PICK h \in PutLoop(c, q) : srv' = [srv EXCEPT ![c] = h.q] /\ fate' = fate
        BY <3>2, Zenon DEF callback_put
      <4>2. /\ h.q \in Connection(Said(c[1]), Segs(c)) /\ UploadOK(h.q)
            /\ c[1] \notin Stranger
        BY <1>b, <3>2, PutType, Zenon
      <4>. QED BY <4>1, <4>2, Zenon
    <3>. QED BY <1>2, <3>1, <3>2, Zenon
  <2>3. PICK r \in Connection(Said(c[1]), Segs(c)) :
          /\ UploadOK(r) /\ (c[1] \in Stranger => r.cb = "read")
          /\ srv' = [srv EXCEPT ![c] = r] /\ fate' = fate
    BY <2>2
  <2>4. srv'[c] = r /\ c2s'[c] = Received(c2s[c], n) /\ ConnOK(c)
    BY <1>2, <2>1, <2>3, Zenon DEF IInv, Shape
  <2>5. c2s'[c] \in Pipe(Said(c[1]))
    BY <2>4, ReceivedType DEF ConnOK
  <2>6. ConnOK(c)'
    BY <2>1, <2>3, <2>4, <2>5, ConnKept, Zenon DEF ConnOK
  <2>7. \A d \in Conn : d # c => c2s'[d] = c2s[d] /\ s2c'[d] = s2c[d] /\ srv'[d] = srv[d]
    BY <1>2, <2>1, <2>3, Zenon DEF IInv, Shape
  <2>8. Shape'
    BY <1>2, <2>1, <2>3, Zenon DEF IInv, Shape
  <2>. QED BY <2>6, <2>7, <2>8, OneConn, Zenon
<1>. QED BY <1>b, <1>1, <1>2, Zenon

(* What leaves a connection is text of its client's, or a stored part.     *)
LEMMA ContentType ==
  ASSUME IInv, NEW c \in Conn, NEW seg \in Segs(c)
  PROVE  Content(c[2], seg) \in Seq(Heard(c[1]))
<1>1. CASE seg.file = NoFile
  <2>1. Content(c[2], seg) = seg.data
    BY <1>1 DEF Content
  <2>2. seg.data \in Seq(Heard(c[1]))
    BY <1>1, ChannelAssumption DEF Segs, TextSegs, FileSegs, Heard
  <2>. QED BY <2>1, <2>2
<1>2. CASE seg.file # NoFile
  <2>1. c[1] \notin Stranger /\ seg \in FileSegs(c[2]) /\ c[2] \in Server
    BY <1>2 DEF Segs, TextSegs, Conn
  <2>. DEFINE part == disk[c[2]][seg.file][seg.part]
  <2>a. /\ seg.file \in File /\ seg.part \in Number /\ part # NoPart /\ seg.len \in Nat
    BY <2>1, ChannelAssumption DEF FileSegs
  <2>2. part \in Seq(MemberSaid) /\ seg.len \in Nat
    BY <2>1, <2>a DEF IInv, DiskOK, Files
  <2>3. part \in Seq(Token)
    BY <2>2, SaidType, SeqMonotonic
  <2>4. Content(c[2], seg) = Take(part, seg.len)
    BY <1>2 DEF Content
  <2>. HIDE DEF part
  <2>. QED BY <2>1, <2>2, <2>3, <2>4, TakeDropType DEF Heard
<1>. QED BY <1>1, <1>2

LEMMA WriteKeepsConn ==
  ASSUME IInv, NoneTaken, NEW c \in Conn, ServerWrite(c)
  PROVE  Shape' /\ \A d \in Conn : ConnOK(d)'
<1> DEFINE out  == srv[c].out
           d    == Content(c[2], out[1])
           rest == IF Len(d) < out[1].len THEN out ELSE Tail(out)
           wr   == Len(d) = out[1].len
<1>1. /\ ConnOK(c)
      /\ DOMAIN c2s = Conn /\ DOMAIN s2c = Conn /\ DOMAIN srv = Conn
  BY Zenon DEF IInv, Shape
<1>2. CASE Die(c[2], "aborted", c2s)
  BY <1>2, DieKeepsConn DEF Conn
<1>3. CASE ~Die(c[2], "aborted", c2s)
  <2>1. out # <<>> /\ out \in Seq(Segs(c))
    BY <1>1, <1>3, Zenon DEF ServerWrite, ConnOK, Connection
  <2>2. out[1] \in Segs(c)
    BY <2>1, ElementOfSeq, EmptySeq, LenProperties
  <2>3. d \in Seq(Heard(c[1]))
    BY <2>2, ContentType
  <2>4. rest \in Seq(Segs(c)) /\ wr \in BOOLEAN
    BY <2>1, HeadTailProperties
  <2>5. /\ \/ srv' = [srv EXCEPT ![c].out = rest, ![c].wr = wr]
           \/ srv' = [srv EXCEPT ![c].wr = FALSE]
        /\ \/ s2c' = s2c
           \/ \E last : s2c' = [s2c EXCEPT ![c] = Sent(@, d, last)]
        /\ c2s' = c2s /\ fate' = fate
        /\ net' = net \/ Swallowed(c)
    BY <1>3, Zenon DEF ServerWrite, netVars
  <2>. HIDE DEF rest, wr, d
  <2>6. PICK r \in Connection(Said(c[1]), Segs(c)) :
          UploadOK(r) /\ r.cb = srv[c].cb /\ srv' = [srv EXCEPT ![c] = r]
    <3>1. \E o \in Seq(Segs(c)), w \in BOOLEAN : srv' = [srv EXCEPT ![c] = [@ EXCEPT !.out = o, !.wr = w]]
      <4>1. CASE srv' = [srv EXCEPT ![c].out = rest, ![c].wr = wr]
        BY <1>1, <2>4, <4>1
      <4>2. CASE srv' = [srv EXCEPT ![c].wr = FALSE]
        <5>1. srv[c] = [srv[c] EXCEPT !.out = out]
          BY <1>1 DEF ConnOK, Connection
        <5>. QED BY <1>1, <2>1, <4>2, <5>1
      <4>. QED BY <2>5, <4>1, <4>2
    <3>2. PICK o \in Seq(Segs(c)), w \in BOOLEAN : srv' = [srv EXCEPT ![c] = [@ EXCEPT !.out = o, !.wr = w]]
      BY <3>1
    <3>. DEFINE r == [srv[c] EXCEPT !.out = o, !.wr = w]
    <3>3. r \in Connection(Said(c[1]), Segs(c)) /\ UploadOK(r) /\ r.cb = srv[c].cb
      BY <1>1 DEF ConnOK, Connection, UploadOK
    <3>. QED BY <3>2, <3>3, Zenon
  <2>7. s2c'[c] \in Pipe(Heard(c[1]))
    <3>1. s2c'[c] = s2c[c] \/ \E last : s2c'[c] = Sent(s2c[c], d, last)
      BY <1>1, <2>5, Zenon
    <3>. QED BY <1>1, <2>3, <3>1, SentType DEF ConnOK
  <2>8. ConnOK(c)'
    <3>1. srv'[c] = r
      BY <1>1, <2>6, Zenon
    <3>. QED BY <1>1, <2>5, <2>6, <2>7, <3>1, ConnKept, Zenon DEF ConnOK
  <2>9. \A e \in Conn : e # c => c2s'[e] = c2s[e] /\ s2c'[e] = s2c[e] /\ srv'[e] = srv[e]
    BY <1>1, <2>5, <2>6, Zenon
  <2>10. net' \in [Conn -> NetState]
    BY <2>5 DEF IInv, Shape, Swallowed, NetState
  <2>11. DOMAIN c2s' = Conn /\ DOMAIN s2c' = Conn /\ DOMAIN srv' = Conn
    BY <1>1, <2>5, <2>6, Zenon
  <2>12. Shape'
    BY <2>5, <2>10, <2>11, Zenon DEF IInv, Shape
  <2>. QED BY <2>8, <2>9, <2>12, OneConn, Zenon
<1>. QED BY <1>2, <1>3
(* The clients write, come and go.                                         *)
LEMMA ClientKeepsConn ==
  ASSUME IInv, NoneTaken, NEW c \in Conn, Connect(c) \/ Send(c) \/ Leave(c)
  PROVE  Shape' /\ \A d \in Conn : ConnOK(d)'
<1>1. /\ srv' = srv /\ fate' = fate
      /\ ConnOK(c) /\ c[1] \in Client
  BY DEF IInv, Conn, Connect, Send, Leave, serverVars
<1>2. \/ c2s' = c2s
      \/ \E d \in Seq(Said(c[1])) : c2s' = [c2s EXCEPT ![c] = Sent(@, d, TRUE)]
      \/ c2s' = [c2s EXCEPT ![c] = Ended(@)]
  <2>1. ASSUME NEW d \in Messages(c[1]) PROVE d \in Seq(Said(c[1]))
    <3>1. d \in Seq(Token)
      BY <1>1, <2>1, OpenAssumption
    <3>2. \A n \in 1..Len(d) : d[n] \in Said(c[1])
      BY <3>1 DEF Said, Tokens
    <3>3. d \in [1..Len(d) -> Said(c[1])] /\ Len(d) \in Nat
      BY <3>1, <3>2, LenProperties
    <3>. QED BY <3>3, FunctionIsSeq
  <2>. QED BY <2>1, Zenon DEF Connect, Send, Leave
<1>3. s2c' = s2c \/ s2c' = [s2c EXCEPT ![c] = Empty]
  BY Zenon DEF Connect, Send, Leave
<1>4. net' \in [Conn -> NetState]
  BY DEF IInv, Shape, Connect, Send, Leave, NetState
<1>5. DOMAIN c2s = Conn /\ DOMAIN s2c = Conn /\ DOMAIN srv = Conn
  BY Zenon DEF IInv, Shape
<1>6. c2s'[c] \in Pipe(Said(c[1]))
  <2>1. CASE c2s' = c2s
    BY <1>1, <2>1, Zenon DEF ConnOK
  <2>2. ASSUME NEW d \in Seq(Said(c[1])), c2s' = [c2s EXCEPT ![c] = Sent(@, d, TRUE)]
        PROVE  c2s'[c] \in Pipe(Said(c[1]))
    <3>1. c2s'[c] = Sent(c2s[c], d, TRUE)
      BY <1>5, <2>2, Zenon
    <3>. QED BY <1>1, <3>1, SentType, Zenon DEF ConnOK
  <2>3. CASE c2s' = [c2s EXCEPT ![c] = Ended(@)]
    <3>1. c2s'[c] = Ended(c2s[c])
      BY <1>5, <2>3, Zenon
    <3>. QED BY <1>1, <3>1, EndedType, Zenon DEF ConnOK
  <2>. QED BY <1>2, <2>1, <2>2, <2>3, Zenon
<1>7. s2c'[c] \in Pipe(Heard(c[1]))
  <2>1. s2c'[c] = s2c[c] \/ s2c'[c] = Empty
    BY <1>3, <1>5, Zenon
  <2>. QED BY <1>1, <2>1, EmptyType, Zenon DEF ConnOK
<1>8. ConnOK(c)'
  BY <1>1, <1>6, <1>7, ConnKept, Zenon DEF ConnOK
<1>9. \A d \in Conn : d # c => c2s'[d] = c2s[d] /\ s2c'[d] = s2c[d] /\ srv'[d] = srv[d]
  BY <1>1, <1>2, <1>3, <1>5, Zenon
<1>10. Shape'
  <2>1. DOMAIN c2s' = Conn /\ DOMAIN s2c' = Conn /\ DOMAIN srv' = Conn
    BY <1>1, <1>2, <1>3, <1>5, Zenon
  <2>. QED BY <1>1, <1>4, <2>1, Zenon DEF IInv, Shape
<1>. QED BY <1>8, <1>9, <1>10, OneConn, Zenon

LEMMA StillConn ==
  ASSUME IInv, NoneTaken, c2s' = c2s, s2c' = s2c, srv' = srv
  PROVE  \A d \in Conn : ConnOK(d)'
BY ConnKept, Zenon DEF IInv, ConnOK

-----------------------------------------------------------------------------
LEMMA InitIInv == Init => IInv
<1>. SUFFICES ASSUME Init PROVE IInv
  OBVIOUS
<1> DEFINE none == [f \in File |-> [p \in Number |-> NoPart]]
<1>1. /\ c2s = [c \in Conn |-> Empty] /\ s2c = [c \in Conn |-> Empty]
      /\ srv = [c \in Conn |-> Absent]
      /\ net = [c \in Conn |-> "none"]
      /\ fate = [s \in Server |-> IF s \in Live THEN "up" ELSE "killed"]
      /\ disk = [s \in Server |-> none] /\ folder = [s \in Server |-> FALSE]
  BY DEF Init, NetInit, ServerInit
<1>2. none \in Files(MemberSaid) /\ \A f \in File, p \in Number : none[f][p] = NoPart
  BY DEF Files
<1>. HIDE DEF none
<1>3. DiskOK
  BY <1>1, <1>2 DEF DiskOK, PartsNeedTheFolder, PartsIn
<1>4. Shape
  BY <1>1 DEF Shape, NetState
<1>5. ASSUME NEW c \in Conn PROVE ConnOK(c)
  <2>1. c2s[c] = Empty /\ s2c[c] = Empty /\ srv[c] = Absent
    BY <1>1
  <2>. QED BY <2>1, EmptyType, FreshConnection, Zenon DEF ConnOK
<1>. QED BY <1>3, <1>4, <1>5 DEF IInv

LEMMA NextIInv == IInv /\ [Next]_vars => IInv'
<1>. SUFFICES ASSUME IInv, [Next]_vars PROVE IInv'
  OBVIOUS
<1>1. DiskOK' /\ NoneTaken
  BY NextDisk, DiskStepKeepsDisk DEF IInv
<1>2. CASE UNCHANGED vars
  BY <1>1, <1>2, StillConn DEF vars, IInv, Shape
<1>3. ASSUME NEW c \in Conn, ServerStep(c) PROVE IInv'
  BY <1>1, <1>3, AcceptKeepsConn, ReadKeepsConn, WriteKeepsConn, Zenon DEF ServerStep, IInv
<1>4. ASSUME NEW c \in Conn, Connect(c) \/ Send(c) \/ Leave(c) PROVE IInv'
  BY <1>1, <1>4, ClientKeepsConn, Zenon DEF IInv
<1>5. ASSUME NEW s \in Server, KillOne(s) PROVE IInv'
  <2>1. \E left : Die(s, "killed", left)
    <3>1. ASSUME NEW k \in Client, KilledWriting(<<k, s>>) PROVE \E left : Die(s, "killed", left)
      <4>1. <<k, s>> \in Conn /\ <<k, s>>[2] = s
        BY DEF Conn
      <4>. QED BY <3>1, <4>1, KilledWritingDisk
    <3>. QED BY <1>5, <3>1, Zenon DEF KillOne, Kill
  <2>. QED BY <1>1, <2>1, DieKeepsConn, Zenon DEF IInv
<1>6. ASSUME NEW s \in Server, Restart(s) PROVE IInv'
  <2>1. c2s' = c2s /\ s2c' = s2c /\ net' = net /\ srv' = srv
    BY <1>6 DEF Restart, netVars
  <2>2. Shape'
    BY <1>6, <2>1 DEF Restart, IInv, Shape
  <2>. QED BY <1>1, <2>1, <2>2, StillConn, Zenon DEF IInv
<1>. QED BY <1>2, <1>3, <1>4, <1>5, <1>6, Zenon DEF Next

LEMMA Invariance == Spec => []IInv
BY InitIInv, NextIInv, PTL DEF Spec
-----------------------------------------------------------------------------
LEMMA StreamsOfTokens ==
  ASSUME NEW S, S \subseteq Token, NEW b \in Seq(S)
  PROVE  IsStream(b) /\ Tokens(b) \subseteq S
<1>1. ASSUME NEW n \in DOMAIN b PROVE b[n] \in S
  BY <1>1, ElementOfSeq, LenProperties
<1>. QED BY <1>1 DEF IsStream, Tokens

(* What the callbacks rely on holds between any two of them, whatever
   tokens clients send and whatever part numbers are in them: an upload has
   a name and is in a state callback_put knows, a state that waits for
   bytes has the part number that a line named, and whatever is read,
   written or stored is made of whole tokens (Server.cpp 373-459).         *)
THEOREM ServersAreTyped == Spec => []TypeOK
<1>1. ASSUME IInv PROVE TypeOK
  <2>1. ASSUME NEW c \in Conn
        PROVE  ConnectionOK(srv[c]) /\ IsStream(c2s[c].data) /\ IsStream(s2c[c].data)
    <3>1. ConnOK(c) /\ c[1] \in Client
      BY <1>1 DEF IInv, Conn
    <3>2. Said(c[1]) \subseteq Token /\ Heard(c[1]) \subseteq Token
      BY <3>1, SaidType, TokensOfLines DEF Heard, Refusal
    <3>3. c2s[c].data \in Seq(Said(c[1])) /\ s2c[c].data \in Seq(Heard(c[1]))
      BY <3>1 DEF ConnOK, Pipe
    <3>4. srv[c] \in Connection(Said(c[1]), Segs(c)) /\ UploadOK(srv[c])
      BY <3>1, Zenon DEF ConnOK
    <3>5. srv[c].inp \in Seq(Said(c[1]))
      BY <3>4 DEF Connection
    <3>6. IsStream(srv[c].inp)
      BY <3>2, <3>5, StreamsOfTokens
    <3>7. ConnectionOK(srv[c])
      <4>. HIDE DEF Segs
      <4>1. /\ srv[c].open \in BOOLEAN /\ srv[c].wr \in BOOLEAN /\ srv[c].cb \in {"read", "put"}
            /\ srv[c].filename \in File \cup {NoFile}
            /\ srv[c].putState \in 0..3 /\ srv[c].wantedSize \in Nat
            /\ srv[c].partnum \in Number \cup {0}
        BY <3>4 DEF Connection
      <4>. QED BY <3>4, <3>6, <4>1, Zenon DEF ConnectionOK, UploadOK
    <3>. QED BY <3>2, <3>3, <3>7, StreamsOfTokens
  <2>2. ASSUME NEW s \in Server, NEW f \in File, NEW p \in Number
        PROVE  disk[s][f][p] = NoPart \/ IsStream(disk[s][f][p])
    <3>1. disk[s][f][p] = NoPart \/ disk[s][f][p] \in Seq(MemberSaid)
      BY <1>1 DEF IInv, DiskOK, Files
    <3>. QED BY <3>1, SaidType, StreamsOfTokens
  <2>. QED BY <1>1, <2>1, <2>2, Zenon DEF TypeOK, IInv, Shape, DiskOK
<1>. QED BY <1>1, Invariance, PTL

(* A part is only ever stored through a folder that exists, and nothing in
   a directory that nobody made: the ofstream of callback_put creates
   neither, and no code takes a folder away.  Names that lead out of the
   folder are no exception and no error (Server.cpp 344, 413-422).         *)
THEOREM NoFolderNoPart == Spec => []PartsNeedTheFolder
<1>1. IInv => PartsNeedTheFolder
  BY Zenon DEF IInv, DiskOK
<1>. QED BY <1>1, Invariance, PTL

(* Whoever never writes the user's name with the right password is only
   ever told INVALID_CREDENTIALS: neither what waits in the server for it
   nor what is on its way holds anything else (Server.cpp 197-262).        *)
THEOREM NothingForStrangers == Spec => []StrangersReadNothing
<1>1. ASSUME IInv PROVE StrangersReadNothing
  <2>. SUFFICES ASSUME NEW c \in Conn, c[1] \in Stranger
                PROVE  /\ Tokens(s2c[c].data) \cup Outgoing(c) \subseteq Refusal
                       /\ \A n \in DOMAIN srv[c].out : srv[c].out[n].file = NoFile
    BY Zenon DEF StrangersReadNothing, Refusal
  <2>1. ConnOK(c)
    BY <1>1, Zenon DEF IInv
  <2>2. Refusal \subseteq Token
    BY TokensOfLines DEF Refusal
  <2>3. Tokens(s2c[c].data) \subseteq Refusal
    <3>1. s2c[c].data \in Seq(Refusal)
      BY <2>1 DEF ConnOK, Pipe, Heard
    <3>. QED BY <2>2, <3>1, StreamsOfTokens
  <2>4. srv[c].out \in Seq(TextSegs(Refusal))
    BY <2>1 DEF ConnOK, Connection, Segs
  <2>5. ASSUME NEW n \in DOMAIN srv[c].out PROVE srv[c].out[n] \in TextSegs(Refusal)
    BY <2>4, <2>5, ElementOfSeq, LenProperties
  <2>6. \A n \in DOMAIN srv[c].out : srv[c].out[n].file = NoFile
    BY <2>5 DEF TextSegs
  <2>7. Outgoing(c) \subseteq Refusal
    <3>1. ASSUME NEW n \in DOMAIN srv[c].out PROVE Tokens(srv[c].out[n].data) \subseteq Refusal
      <4>1. srv[c].out[n].data \in Seq(Refusal)
        BY <2>5, <3>1 DEF TextSegs
      <4>. QED BY <2>2, <4>1, StreamsOfTokens
    <3>. QED BY <3>1, Zenon DEF Outgoing
  <2>. QED BY <2>3, <2>6, <2>7
<1>. QED BY <1>1, Invariance, PTL

(* Nothing is ever stored but what clients with the password wrote
   (Server.cpp 197-262, 413-445).                                          *)
THEOREM NothingFromStrangers == Spec => []StrangersStoreNothing
<1>1. ASSUME IInv PROVE StrangersStoreNothing
  <2>. SUFFICES ASSUME NEW t \in Stored PROVE t \in MemberSaid
    BY Zenon DEF StrangersStoreNothing, MemberSaid
  <2>1. PICK s \in Server, f \in File, p \in Number :
          disk[s][f][p] # NoPart /\ t \in Tokens(disk[s][f][p])
    BY DEF Stored
  <2>2. disk[s][f][p] \in Seq(MemberSaid)
    BY <1>1, <2>1 DEF IInv, DiskOK, Files
  <2>. QED BY <2>1, <2>2, SaidType, StreamsOfTokens
<1>. QED BY <1>1, Invariance, PTL

-----------------------------------------------------------------------------
(* The file of a part is never removed, and its content only replaced while
   its server takes bytes of an upload of that file.  A kill may come in the
   middle of that and leave any beginning of the new content; in every other
   step, kills and restarts included, all parts stay as they are
   (Server.cpp 413-459).                                                   *)
THEOREM FilesAreKept == Spec => PartsAreKept
<1>1. ASSUME IInv, [Next]_vars, NEW s \in Server, NEW f \in File, NEW p \in Number,
             disk[s][f][p] # NoPart, disk'[s][f][p] # disk[s][f][p]
      PROVE  /\ disk'[s][f][p] # NoPart
             /\ \E c \in Conn : /\ c[2] = s /\ srv[c].cb = "put" /\ srv[c].filename = f
                                /\ c2s'[c] # c2s[c]
  <2>1. DiskStep /\ NoneTaken
    BY <1>1, NextDisk, DiskStepKeepsDisk DEF IInv
  <2>2. PICK c \in Conn : StoresUpload(c)
    BY <1>1, <2>1 DEF DiskStep, EntersFolder
  <2>3. PICK files \in Files(MemberSaid) :
          /\ disk' = [disk EXCEPT ![c[2]] = files]
          /\ Adds(c, srv[c].filename, MemberSaid, disk[c[2]], files)
    BY <2>2, Zenon DEF StoresUpload
  <2>4. DOMAIN disk = Server /\ c[2] \in Server
    BY <1>1 DEF IInv, DiskOK, Conn
  <2>5. c[2] = s /\ disk'[s] = files
    BY <1>1, <2>3, <2>4, Zenon
  <2>6. srv[c].filename = f
    BY <1>1, <2>3, <2>5, Zenon DEF Adds
  <2>7. disk'[s][f][p] # NoPart
    BY <1>1, <2>1, Zenon DEF NoneTaken
  <2>. QED BY <2>2, <2>5, <2>6, <2>7, Zenon DEF StoresUpload
<1> DEFINE Kept == \A s \in Server, f \in File, p \in Number :
                     disk[s][f][p] # NoPart /\ disk'[s][f][p] # disk[s][f][p] =>
                       /\ disk'[s][f][p] # NoPart
                       /\ \E c \in Conn : /\ c[2] = s /\ srv[c].cb = "put" /\ srv[c].filename = f
                                          /\ c2s'[c] # c2s[c]
<1>2. ASSUME IInv, [Next]_vars PROVE Kept
  <2>. TAKE s \in Server, f \in File, p \in Number
  <2>. HAVE disk[s][f][p] # NoPart /\ disk'[s][f][p] # disk[s][f][p]
  <2>. QED BY <1>1, <1>2
<1>3. IInv /\ [Next]_vars => [Kept]_vars
  BY <1>2
<1>. QED BY <1>3, Invariance, PTL DEF Spec, PartsAreKept

(* The servers implement PartStore: callbacks, connections, restarts and
   kills, those in the middle of a write too, amount to creating folders
   that stay and to writing parts of one file of one server at a time, whole
   or cut short, where they can be (Server.cpp 197-262, 373-459).          *)
THEOREM ImplementsPartStore == Spec => StoresParts
<1>1. Init => Disks!Init
  BY Zenon DEF Init, ServerInit, Disks!Init
<1>2. ASSUME IInv, [Next]_vars PROVE [Disks!Next]_Disks!vars
  <2>1. DiskStep /\ NoneTaken
    BY <1>2, NextDisk, DiskStepKeepsDisk DEF IInv
  <2>2. CASE UNCHANGED <<disk, folder>>
    BY <2>2 DEF Disks!vars
  <2>3. ASSUME NEW c \in Conn, EntersFolder(c)
        PROVE  [Disks!Next]_Disks!vars
    <3>1. disk' = disk /\ folder' = [folder EXCEPT ![c[2]] = CanCreate(c[2])] /\ c[2] \in Server
      BY <2>3 DEF EntersFolder, Conn
    <3>2. CASE CanCreate(c[2])
      <4>1. CanCreate(c[2]) = TRUE
        BY <3>2, Zenon DEF CanCreate
      <4>2. Disks!Create(c[2])
        BY <3>1, <4>1 DEF Disks!Create
      <4>. QED BY <3>1, <4>2, Zenon DEF Disks!Next
    <3>3. CASE ~CanCreate(c[2])
      <4>1. CanCreate(c[2]) = FALSE /\ folder[c[2]] = FALSE
        BY <1>2, <3>1, <3>3 DEF CanCreate, IInv, DiskOK
      <4>2. folder' = folder
        BY <1>2, <3>1, <4>1 DEF IInv, DiskOK
      <4>. QED BY <3>1, <4>2 DEF Disks!vars
    <3>. QED BY <3>2, <3>3
  <2>4. ASSUME NEW c \in Conn, StoresUpload(c)
        PROVE  [Disks!Next]_Disks!vars
    <3>. DEFINE s == c[2]
                f == srv[c].filename
    <3>1. PICK files \in Files(MemberSaid) :
            disk' = [disk EXCEPT ![s] = files] /\ Adds(c, f, MemberSaid, disk[s], files)
      BY <2>4, Zenon DEF StoresUpload
    <3>2. s \in Server /\ folder' = folder /\ disk \in [Server -> Files(MemberSaid)]
      BY <1>2, <2>4 DEF Conn, StoresUpload, IInv, DiskOK
    <3>3. disk'[s] = files /\ disk[s] \in Files(MemberSaid)
      BY <3>1, <3>2
    <3>4. CASE \E g \in File, p \in Number : files[g][p] # disk[s][g][p]
      <4>1. f \in File /\ (\E p \in Number : files[f][p] # disk[s][f][p]) /\ Opens(s, f)
        BY <3>1, <3>4, Zenon DEF Adds
      <4>2. \A p \in Number : disk'[s][f][p] # NoPart \/ disk[s][f][p] = NoPart
        BY <2>1, <3>2, <4>1, Zenon DEF NoneTaken
      <4>3. ASSUME NEW t \in Server, NEW g \in File, <<t, g>> # <<s, f>>
            PROVE  disk'[t][g] = disk[t][g]
        <5>1. CASE t # s
          BY <3>1, <3>2, <5>1
        <5>2. CASE t = s
          <6>1. g # f /\ disk'[t][g] = files[g]
            BY <3>3, <4>3, <5>2
          <6>2. \A p \in Number : files[g][p] = disk[s][g][p]
            BY <3>1, <6>1, Zenon DEF Adds
          <6>3. files[g] \in [Number -> Seq(MemberSaid) \cup {NoPart}]
                /\ disk[s][g] \in [Number -> Seq(MemberSaid) \cup {NoPart}]
            BY <3>3 DEF Files
          <6>4. files[g] = disk[s][g]
            BY <6>2, <6>3
          <6>. QED BY <5>2, <6>1, <6>4
        <5>. QED BY <5>1, <5>2
      <4>4. Disks!Store(s, f)
        BY <3>2, <3>3, <4>1, <4>2, <4>3, Zenon DEF Disks!Store, Opens
      <4>. QED BY <3>2, <4>1, <4>4, Zenon DEF Disks!Next
    <3>5. CASE \A g \in File, p \in Number : files[g][p] = disk[s][g][p]
      <4>1. files = disk[s]
        BY <3>3, <3>5 DEF Files
      <4>2. disk' = disk
        BY <3>1, <3>2, <4>1
      <4>. QED BY <3>2, <4>2 DEF Disks!vars
    <3>. QED BY <3>4, <3>5, Zenon
  <2>. QED BY <2>1, <2>2, <2>3, <2>4, Zenon DEF DiskStep
<1>. QED BY <1>1, <1>2, Invariance, PTL DEF Spec, StoresParts, Disks!Spec
=============================================================================
