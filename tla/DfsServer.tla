----------------------------- MODULE DfsServer -----------------------------
(***************************************************************************)
(* The file servers (src/src/Server.cpp, DFS_Server.cpp): four processes,  *)
(* each a single libevent loop whose callbacks run to completion, so every *)
(* callback is one step.  A read callback runs once for every read from    *)
(* the socket, whatever is left in the input buffer afterwards.            *)
(***************************************************************************)
EXTENDS Channel, SequencesExt

CONSTANTS
  Live,          \* the servers that were started
  Unwritable,    \* servers that cannot create the user's folder
  TornWrites,    \* BOOLEAN: a kill may come while a part is written
  ShortNames     \* names short enough for the string's inline storage

ASSUME ServerAssumption ==
  /\ Live \subseteq Server /\ Unwritable \subseteq Server /\ TornWrites \in BOOLEAN
  /\ ShortNames \subseteq File

VARIABLES
  srv,           \* srv[c]: the ServerConnection of connection c
  disk,          \* disk[s][f][p]: the file f.p of server s
  folder,        \* folder[s]: the user's folder exists
  fate           \* fate[s]: what became of the process

serverVars == <<srv, disk, folder, fate>>

(* A freshly constructed ServerConnection, and none at all.                *)
Accepted == [ open |-> TRUE, wr |-> TRUE, cb |-> "read", inp |-> <<>>, out |-> <<>>,
              filename |-> NoFile, putState |-> 0, wantedSize |-> 0, partnum |-> 0 ]
Absent == [Accepted EXCEPT !.open = FALSE]

ServerInit ==
  /\ srv = [c \in Conn |-> Absent]
  /\ disk = [s \in Server |-> [f \in File |-> [p \in Number |-> NoPart]]]
  /\ folder = [s \in Server |-> FALSE]
  /\ fate = [s \in Server |-> IF s \in Live THEN "up" ELSE "killed"]

Up(c) == fate[c[2]] = "up" /\ srv[c].open

-----------------------------------------------------------------------------
(* The process ends: its connections are closed.  unread is what its       *)
(* sockets still held.                                                     *)
Die(s, how, unread) ==
  LET C == Client \X {s} IN
  /\ fate' = [fate EXCEPT ![s] = how]
  /\ srv' = [c \in Conn |-> IF c \in C THEN Absent ELSE srv[c]]
  /\ net' = NetAfterDeath(C, unread)
  /\ c2s' = [c \in Conn |-> IF c \in C THEN Empty ELSE c2s[c]]
  /\ \E lost \in SUBSET { c \in C : net'[c] = "reset" /\ s2c[c] # Empty } :
       s2c' = [c \in Conn |-> IF c \in lost \/ (c \in C /\ net'[c] = "none") THEN Empty
                              ELSE IF c \in C THEN Ended(s2c[c]) ELSE s2c[c]]

(* The program is started again on the same folder.                        *)
Restart(s) == /\ fate[s] # "up" /\ s \in Live
              /\ fate' = [fate EXCEPT ![s] = "up"]
              /\ UNCHANGED <<srv, disk, folder, netVars>>

(* callback_accept_connection.                                             *)
Accept(c) ==
  /\ fate[c[2]] = "up" /\ ~srv[c].open /\ net[c] \notin {"none", "refused"}
  /\ srv' = [srv EXCEPT ![c] = Accepted]
  /\ UNCHANGED <<disk, folder, fate, netVars>>

-----------------------------------------------------------------------------
(* The output buffer: text, and stored files that are read when they are   *)
(* sent.  Neighbouring texts leave in one write; an empty file leaves no   *)
(* trace.                                                                  *)
TextSeg(d) == [data |-> d, file |-> NoFile, part |-> 0, len |-> Len(d)]
FileSeg(f, p, n) == [data |-> <<>>, file |-> f, part |-> p, len |-> n]

AddText(out, d) ==
  IF out # <<>> /\ out[Len(out)].file = NoFile
  THEN [out EXCEPT ![Len(out)] = TextSeg(@.data \o d)]
  ELSE Append(out, TextSeg(d))
AddFile(out, f, p, n) == IF n = 0 THEN out ELSE Append(out, FileSeg(f, p, n))

Reply(q, text) == [q EXCEPT !.out = AddText(@, TextLine(text))]

Content(s, seg) == IF seg.file = NoFile THEN seg.data
                   ELSE Take(disk[s][seg.file][seg.part], seg.len)

(* One write of the output buffer.  A file that has become shorter than    *)
(* announced ends the writing on this connection for good.                 *)
ServerWrite(c) ==
  LET seg  == srv[c].out[1]
      d    == Content(c[2], seg)
      rest == IF Len(d) < seg.len THEN srv[c].out ELSE Tail(srv[c].out)
      wr   == Len(d) = seg.len
  IN
  /\ Up(c) /\ srv[c].wr /\ srv[c].out # <<>>
  /\ \/ /\ net[c] = "open"
        /\ s2c' = [s2c EXCEPT ![c] = Sent(@, d, ~wr \/ rest = <<>>)]
        /\ srv' = [srv EXCEPT ![c].out = rest, ![c].wr = wr]
        /\ UNCHANGED <<disk, folder, fate, c2s, net>>
     \/ /\ net[c] = "closed"
        /\ Swallowed(c)
        /\ srv' = [srv EXCEPT ![c].out = rest, ![c].wr = wr]
        /\ UNCHANGED <<disk, folder, fate, c2s, s2c>>
     \/ /\ net[c] = "reset"              \* ECONNRESET: callback_event logs it
        /\ srv' = [srv EXCEPT ![c].wr = FALSE]
        /\ UNCHANGED <<disk, folder, fate, netVars>>
     \/ /\ net[c] = "reset"              \* EPIPE: nobody handles SIGPIPE
        /\ Die(c[2], "aborted", c2s) /\ UNCHANGED <<disk, folder>>

-----------------------------------------------------------------------------
(* ServerInstance::ParseCommand and ServerConnection::Authenticate on a    *)
(* line.  A line that is not one text (it starts with stray file bytes)    *)
(* is no command, and its first word is nobody's name.                     *)
Unparsed == [k |-> "none"]
Command(line) ==
  IF Len(line) = 1 /\ line[1].k \in {"LIST", "GET", "PUT"} THEN line[1] ELSE Unparsed

TwoWords(t) == \/ t.k = "header"
               \/ t.k \in {"GET", "PUT"} /\ t.f # NoFile
               \/ t.k = "auth" /\ t.a # "short"

CredentialsByNameOnly(line) ==
  IF \E n \in 1..Len(line) : TwoWords(line[n]) THEN "good" ELSE "short"

Credentials(line) ==
  IF line = <<Auth("good")>> THEN "good"
  ELSE IF \E n \in 1..Len(line) : TwoWords(line[n]) THEN "bad" ELSE "short"

CanCreate(s) == folder[s] \/ s \notin Unwritable

PartsIn(s, f) == { p \in Number : disk[s][f][p] # NoPart }
EntryLineOfNext(f, p) == TextLine(Entry(f, (p % 4) + 1))
EntryLine(f, p) == TextLine(Entry(f, p))
(* The folder is read in some order that the file system keeps; what was   *)
(* stored outside of it is not listed.                                     *)
Listing(s) ==
  LET entries == SetToSeq({ e \in (File \ Elsewhere) \X Number : disk[s][e[1]][e[2]] # NoPart })
      LineAt(n) == EntryLine(entries[(n + 1) \div 2][1], entries[(n + 1) \div 2][2])
  IN [n \in 1..(2 * Len(entries)) |-> LineAt(n)[IF n % 2 = 1 THEN 1 ELSE 2]]

(* "GOOD p size" and the file, for a part that exists.                     *)
AddPartMisnumbered(out, s, f, p) ==
  IF p \notin PartsIn(s, f) THEN out
  ELSE LET n == Len(disk[s][f][p])
       IN AddFile(AddText(out, TextLine(Good((p % 4) + 1, n))), f, p, n)

AddPart(out, s, f, p) ==
  IF p \notin PartsIn(s, f) THEN out
  ELSE LET n == Len(disk[s][f][p])
       IN AddFile(AddText(out, TextLine(Good(p, n))), f, p, n)

(* Parts are looked for under the numbers 1 to 4 and no other.             *)
AddParts(out, s, f) == AddPart(AddPart(AddPart(AddPart(out, s, f, 1), s, f, 2), s, f, 3), s, f, 4)

(* Where the callbacks leave a connection; nothing else changes.           *)
Becomes(c, q) == srv' = [srv EXCEPT ![c] = q] /\ UNCHANGED <<disk, folder, fate>>

(* The three commands, from a user who gave the right password: Authenticate
   creates the folder (or only logs that it cannot) before the switch.     *)
EnterFolder(c, q) ==
  /\ folder' = [folder EXCEPT ![c[2]] = CanCreate(c[2])]
  /\ srv' = [srv EXCEPT ![c] = q]
  /\ UNCHANGED <<disk, fate>>

(* A part asked for by number is looked up in the working directory of the *)
(* server, where the program keeps no parts.                               *)
ServeGet(c, q, cmd) ==
  LET s == c[2] IN
  /\ cmd.k = "GET"
  /\ \/ cmd.f = NoFile /\ EnterFolder(c, q)
     \/ /\ cmd.f # NoFile /\ cmd.p = 0
        /\ EnterFolder(c, [q EXCEPT !.out = AddParts(@, s, Path(cmd.f))])
     \/ cmd.f # NoFile /\ cmd.p \in 1..4 /\ EnterFolder(c, Reply(q, Bad))
     \/ cmd.f # NoFile /\ cmd.p \notin 0..4 /\ EnterFolder(c, q)

ServeList(c, q, cmd) ==
  /\ cmd.k = "LIST" /\ CanCreate(c[2])
  /\ EnterFolder(c, [q EXCEPT !.out = AddText(@, Listing(c[2]) \o TextLine(Terminal))])

BeginPutWithoutName(q, f) == [Reply(q, Ready) EXCEPT !.cb = "put"]
BeginPut(q, f) == [Reply(q, Ready) EXCEPT !.filename = Path(f), !.cb = "put"]

ServePut(c, q, cmd) ==
  /\ cmd.k = "PUT"
  /\ \/ cmd.f = NoFile /\ EnterFolder(c, q)
     \/ cmd.f # NoFile /\ EnterFolder(c, BeginPut(q, cmd.f))

(* callback_read: q is the connection with what was read in its input.  A  *)
(* command line that arrives without its credentials is taken out of the   *)
(* buffer and forgotten.                                                   *)
callback_read(c, q) ==
  LET l2  == AfterLine(q.inp)
      cmd == Command(LineOf(q.inp))
      who == Credentials(LineOf(l2))
      r   == [q EXCEPT !.inp = AfterLine(l2)]
  IN
  \/ ~HasLine(q.inp) /\ Becomes(c, q)
  \/ HasLine(q.inp) /\ ~HasLine(l2) /\ Becomes(c, [q EXCEPT !.inp = l2])
  \/ /\ HasLine(q.inp) /\ HasLine(l2)
     /\ \/ cmd = Unparsed /\ Becomes(c, r)
        \/ cmd # Unparsed /\ who = "short" /\ Becomes(c, r)
        \/ cmd # Unparsed /\ who = "bad" /\ Becomes(c, Reply(r, Invalid))
        \/ /\ cmd # Unparsed /\ who = "good"
           /\ ServeGet(c, r, cmd) \/ ServeList(c, r, cmd) \/ ServePut(c, r, cmd)

(* Where callback_read ends the process, after Authenticate: readdir of a  *)
(* folder that is not there, or the assignment of a short name to a string *)
(* the constructor has set to zero bytes (undefined: the other outcome is  *)
(* that it works).                                                         *)
ReadCrashes(c, q) ==
  LET l2  == AfterLine(q.inp)
      cmd == Command(LineOf(q.inp))
  IN /\ HasLine(q.inp) /\ HasLine(l2) /\ Credentials(LineOf(l2)) = "good"
     /\ \/ cmd.k = "LIST" /\ ~CanCreate(c[2])
        \/ cmd.k = "PUT" /\ cmd.f \in ShortNames

-----------------------------------------------------------------------------
(* callback_put.  The loop runs at most twice through both halves of its   *)
(* body, because the state reaches 4 or the callback returns; h is the     *)
(* connection, the user's folder it writes to, and how the loop goes on.   *)
(* (Loops map sets of such h, with one element, so that TLC evaluates each *)
(* round once.)                                                            *)
At(q, files, go) == [q |-> q, files |-> files, go |-> go]
Loop(c, q) == At(q, disk[c[2]], "on")

PutHeader(h) ==
  LET line == LineOf(h.q.inp)
      rest == AfterLine(h.q.inp)
  IN
  IF h.go # "on" \/ h.q.putState \notin {0, 2} THEN h
  ELSE IF ~HasLine(h.q.inp) THEN At(h.q, h.files, "crash")     \* istringstream(NULL)
  ELSE IF Len(line) # 1 \/ line[1].k # "header"
       THEN At([h.q EXCEPT !.inp = rest, !.cb = "read"], h.files, "return")
  ELSE At([h.q EXCEPT !.inp = rest, !.partnum = line[1].p, !.wantedSize = line[1].l,
                      !.putState = @ + 1],
          h.files, IF rest = <<>> THEN "return" ELSE "on")

EnoughButOne(q) == Len(q.inp) > q.wantedSize
EnoughAlways(q) == TRUE
Enough(q) == Len(q.inp) >= q.wantedSize

(* Every path goes through the user's folder, also one that leaves it.     *)
OpensAlways(s, f) == TRUE
Opens(s, f) == folder[s] /\ f \notin Missing

StoringOnly(files, q) ==
  [files EXCEPT ![q.filename] = [p \in Number |-> IF p = q.partnum THEN Take(q.inp, q.wantedSize) ELSE NoPart]]
StoringFirst(files, q, n) == [files EXCEPT ![q.filename][q.partnum] = Take(q.inp, n)]
Storing(files, q) == StoringFirst(files, q, q.wantedSize)

NotFinished(q) == [q EXCEPT !.cb = "read", !.filename = NoFile, !.putState = @ + 1]
Finished(q) == [q EXCEPT !.cb = "read", !.filename = NoFile,
                         !.putState = 0, !.wantedSize = 0, !.partnum = 0]

(* Too few bytes: nothing is read or written, and the state moves on.      *)
PutData(c, h) ==
  LET q     == h.q
      inp   == IF Enough(q) THEN Drop(q.inp, q.wantedSize) ELSE q.inp
      files == IF Enough(q) THEN Storing(h.files, q) ELSE h.files
  IN
  IF h.go # "on" THEN h
  ELSE IF Enough(q) /\ ~Opens(c[2], q.filename)
       THEN At([q EXCEPT !.inp = inp, !.cb = "read"], h.files, "return")
  ELSE IF q.putState = 3 THEN At(Finished([q EXCEPT !.inp = inp]), files, "return")
  ELSE At([q EXCEPT !.inp = inp, !.putState = 2], files, IF inp = <<>> THEN "return" ELSE "on")

Headers(H)     == { PutHeader(h) : h \in H }
PutRound(c, H) == { PutData(c, g) : g \in Headers(H) }
PutLoop(c, q)  == PutRound(c, PutRound(c, {Loop(c, q)}))

callback_put(c, q) == \E h \in PutLoop(c, q) :
  /\ h.go = "return"
  /\ srv' = [srv EXCEPT ![c] = h.q]
  /\ disk' = [disk EXCEPT ![c[2]] = h.files]
  /\ UNCHANGED <<folder, fate>>

-----------------------------------------------------------------------------
(* A read from the socket and the callback that is set at that moment.  A  *)
(* callback that ends the process has done its work up to there.           *)
ServerRead(c) ==
  /\ Up(c)
  /\ \E n \in c2s[c].cuts : \E q \in {[srv[c] EXCEPT !.inp = @ \o Take(c2s[c].data, n)]} :
       LET left == [c2s EXCEPT ![c] = Received(@, n)] IN
       \/ q.cb = "read" /\ callback_read(c, q) /\ c2s' = left /\ UNCHANGED <<s2c, net>>
       \/ q.cb = "put" /\ callback_put(c, q) /\ c2s' = left /\ UNCHANGED <<s2c, net>>
       \/ /\ q.cb = "read" /\ ReadCrashes(c, q) /\ Die(c[2], "aborted", left)
          /\ folder' = [folder EXCEPT ![c[2]] = CanCreate(c[2])] /\ UNCHANGED disk
       \/ /\ q.cb = "put"
          /\ \E h \in PutLoop(c, q) : h.go = "crash" /\ disk' = [disk EXCEPT ![c[2]] = h.files]
          /\ Die(c[2], "aborted", left) /\ UNCHANGED folder

(* A kill while callback_put runs: the file of a part was opened, which    *)
(* empties it, and some bytes of the part have been written.               *)
Writes(c, q) == { g \in Headers({Loop(c, q)}) \cup Headers(PutRound(c, {Loop(c, q)})) :
                    g.go = "on" /\ Enough(g.q) /\ Opens(c[2], g.q.filename) }

KilledWriting(c) ==
  /\ TornWrites /\ Up(c)
  /\ \E n \in c2s[c].cuts : \E q \in {[srv[c] EXCEPT !.inp = @ \o Take(c2s[c].data, n)]} :
       /\ q.cb = "put"
       /\ \E g \in Writes(c, q) : \E m \in 0..g.q.wantedSize :
            disk' = [disk EXCEPT ![c[2]] = StoringFirst(g.files, g.q, m)]
       /\ Die(c[2], "killed", [c2s EXCEPT ![c] = Received(@, n)])
  /\ UNCHANGED folder

(* The user kills the program, between two callbacks or in one.            *)
Kill(s) ==
  \/ fate[s] = "up" /\ Die(s, "killed", c2s) /\ UNCHANGED <<disk, folder>>
  \/ \E k \in Client : KilledWriting(<<k, s>>)

ServerStep(c) == Accept(c) \/ ServerRead(c) \/ ServerWrite(c)

=============================================================================
