----------------------------- MODULE DfsClient -----------------------------
(***************************************************************************)
(* The client program (src/src/Client.cpp, Connection.cpp, DFS_Client.cpp).*)
(* It has one connection to each of the four servers, each with an event   *)
(* loop of its own.  PUT and LIST run the four loops in four threads and   *)
(* join them; GET runs them one after the other.  A loop runs until a      *)
(* callback breaks it or until it has no event left to wait for; while it  *)
(* does not run, nothing is read or written.                               *)
(***************************************************************************)
EXTENDS Channel, FiniteSetsExt

CONSTANTS
  Password(_),   \* what the dfc.conf of a client may hold: "good", "bad", "short"
  NoVersion      \* no upload yet

VARIABLES
  prog,          \* prog[k]: the main program
  con,           \* con[c]: the Connection to a server
  m_files,       \* m_files[k]: the lines LIST has collected, as a set
  shown,         \* shown[k][f]: what the last LIST printed of f
  tmp,           \* tmp[k][f][p]: the file tmp/f.p of client k
  got            \* got[k][f]: the file RetrievedFiles/f

clientVars == <<prog, con, m_files, shown, tmp, got>>

(* resp, partnum and size are static in callback_get: one for all          *)
(* connections.                                                            *)
IdleProgram == [ life |-> "new", auth |-> "short", cmd |-> "none", file |-> NoFile, at |-> 0,
                 partnum |-> 0, size |-> 0 ]

NewConnection == [ m_connected |-> FALSE, rd |-> TRUE, wr |-> TRUE, loop |-> FALSE,
                   cb |-> "none", wcb |-> FALSE, inp |-> <<>>, out |-> <<>>,
                   m_get_state |-> 0, version |-> NoVersion ]

ClientInit ==
  /\ prog = [k \in Client |-> IdleProgram]
  /\ con = [c \in Conn |-> NewConnection]
  /\ m_files = [k \in Client |-> {}]
  /\ shown = [k \in Client |-> [f \in File |-> "nothing"]]
  /\ tmp = [k \in Client |-> [f \in File |-> [p \in Number |-> NoPart]]]
  /\ got = [k \in Client |-> [f \in File |-> NoPart]]

clientFiles == <<m_files, shown, tmp, got>>
Idle(k) == prog[k].life = "up" /\ prog[k].cmd = "none"
InLoop(k) == \E s \in Server : con[<<k, s>>].loop

-----------------------------------------------------------------------------
(* The end of a client process.                                            *)
ClientDies(k, how, unread) ==
  LET C == {k} \X Server IN
  /\ prog' = [prog EXCEPT ![k] = [IdleProgram EXCEPT !.life = how]]
  /\ con' = [c \in Conn |-> IF c \in C THEN NewConnection ELSE con[c]]
  /\ net' = NetAfterDeath(C, unread)
  /\ s2c' = [c \in Conn |-> IF c \in C THEN Empty ELSE s2c[c]]
  /\ \E lost \in SUBSET { c \in C : net'[c] = "reset" /\ c2s[c] # Empty } :
       c2s' = [c \in Conn |-> IF c \in lost \/ (c \in C /\ net'[c] = "none") THEN Empty
                              ELSE IF c \in C THEN Ended(c2s[c]) ELSE c2s[c]]
  /\ UNCHANGED clientFiles

(* The input ends or the user ends the program between two commands.       *)
Quit(k) == Idle(k) /\ ClientDies(k, "gone", s2c)

(* main: ParseConfFile reads user and servers, Initialize connects them;   *)
(* Connect succeeds at once whether or not the server answers.  The runs   *)
(* with fewer than four servers start where the other servers have been    *)
(* lost since, and the connections to them have seen the EOF (noticed).    *)
StartClient(k, up, noticed) ==
  /\ prog[k].life = "new"
  /\ \E a \in Password(k) : prog' = [prog EXCEPT ![k].life = "up", ![k].auth = a]
  /\ con' = [c \in Conn |-> IF c[1] = k THEN [con[c] EXCEPT !.m_connected = c[2] \notin noticed] ELSE con[c]]
  /\ net' = [c \in Conn |-> IF c[1] = k /\ c[2] \in up THEN "open" ELSE net[c]]
  /\ UNCHANGED <<clientFiles, c2s, s2c>>

-----------------------------------------------------------------------------
(* A command on one connection: the request is put into the output buffer, *)
(* the callbacks are set, the loop starts.  A connection that has seen the *)
(* server's EOF does nothing; one whose connect was refused tries to write *)
(* again.                                                                  *)
Requested(c, request, cb) ==
  IF ~con[c].m_connected THEN con[c]
  ELSE [con[c] EXCEPT !.out = Append(@, TextLine(request) \o TextLine(Auth(prog[c[1]].auth))),
                      !.cb = cb, !.wcb = FALSE, !.loop = TRUE,
                      !.wr = @ \/ net[c] = "refused"]

(* Client::Put: the four threads are started.                              *)
StartPut(k, v) ==
  /\ Idle(k)
  /\ prog' = [prog EXCEPT ![k].cmd = "put"]
  /\ con' = [c \in Conn |->
               IF c[1] = k THEN [Requested(c, Put(FileOf(v)), "put") EXCEPT
                                   !.version = IF con[c].m_connected THEN v ELSE @]
               ELSE con[c]]
  /\ UNCHANGED <<clientFiles, netVars>>

StartList(k) ==
  /\ Idle(k)
  /\ prog' = [prog EXCEPT ![k].cmd = "list"]
  /\ con' = [c \in Conn |-> IF c[1] = k THEN Requested(c, List, "list") ELSE con[c]]
  /\ UNCHANGED <<clientFiles, netVars>>

(* Client::Get asks server 1; GetNext asks the others.                     *)
GetFrom(k, s, f) ==
  LET c == <<k, s>> IN
  /\ con' = [con EXCEPT ![c] = IF @.m_connected
                               THEN [Requested(c, Get(f, 0), "get") EXCEPT !.m_get_state = 1]
                               ELSE @]
  /\ prog' = [prog EXCEPT ![k].cmd = "get", ![k].file = f, ![k].at = s]
  /\ UNCHANGED <<clientFiles, netVars>>

StartGet(k, f) == Idle(k) /\ GetFrom(k, 1, f)

GetNext(k) ==
  /\ prog[k].cmd = "get" /\ ~InLoop(k) /\ prog[k].at < 4
  /\ GetFrom(k, prog[k].at + 1, prog[k].file)

-----------------------------------------------------------------------------
(* The event loop of a connection.                                         *)

(* The connect that was refused is noticed: no event is left to wait for.  *)
ConnectError(c) ==
  /\ con[c].loop /\ net[c] = "none"
  /\ net' = [net EXCEPT ![c] = "refused"]
  /\ con' = [con EXCEPT ![c].rd = FALSE, ![c].wr = FALSE]
  /\ UNCHANGED <<prog, clientFiles, c2s, s2c>>

(* One write; callback_data_written breaks the loop when all is written.   *)
ClientWrite(c) ==
  LET rest  == Tail(con[c].out)
      wrote == [con EXCEPT ![c].out = rest, ![c].loop = ~(con[c].wcb /\ rest = <<>>)]
  IN
  /\ con[c].loop /\ con[c].wr /\ con[c].out # <<>>
  /\ \/ /\ net[c] = "open"
        /\ c2s' = [c2s EXCEPT ![c] = Sent(@, Head(con[c].out), rest = <<>>)]
        /\ con' = wrote
        /\ UNCHANGED <<prog, clientFiles, s2c, net>>
     \/ /\ net[c] = "closed"
        /\ Swallowed(c)
        /\ con' = wrote
        /\ UNCHANGED <<prog, clientFiles, c2s, s2c>>
     \/ /\ net[c] = "reset"                   \* ECONNRESET: logged, nothing else
        /\ con' = [con EXCEPT ![c].wr = FALSE]
        /\ UNCHANGED <<prog, clientFiles, netVars>>
     \/ /\ net[c] \in {"reset", "refused"}    \* EPIPE: nobody handles SIGPIPE
        /\ ClientDies(c[1], "killed", s2c)

(* callback_event: the end of the stream, or a RST.                        *)
ClientEof(c) ==
  /\ con[c].loop /\ con[c].rd
  /\ net[c] \in {"closed", "reset"} /\ s2c[c].data = <<>>
  /\ con' = [con EXCEPT ![c].rd = FALSE, ![c].m_connected = FALSE]
  /\ UNCHANGED <<prog, clientFiles, netVars>>

(* event_base_dispatch returns when there is nothing to wait for.          *)
LoopExit(c) ==
  /\ con[c].loop /\ ~con[c].rd /\ (con[c].out = <<>> \/ ~con[c].wr)
  /\ con' = [con EXCEPT ![c].loop = FALSE]
  /\ UNCHANGED <<prog, clientFiles, netVars>>

-----------------------------------------------------------------------------
(* callback_put.  After READY the two headers and the two slices of the    *)
(* file go into the output buffer; texts with nothing between them leave   *)
(* in one write.                                                           *)
HeaderWithoutNewline(p, l) == <<Header(p, l)>>
HeaderLine(p, l) == TextLine(Header(p, l))

Upload(c) ==
  LET v  == con[c].version
      pi == PutInfo(FilePieces(c[2], HashMod(v)), Size(v))
      h1 == HeaderLine(pi.part1_number, pi.length1)
      s1 == Slice(v, pi.offset1, pi.length1)
      h2 == HeaderLine(pi.part2_number, pi.length2)
      s2 == Slice(v, pi.offset2, pi.length2)
  IN IF Splits = "burst" THEN << h1 \o s1 \o h2 \o s2 >>
     ELSE (IF s1 = <<>> THEN << h1 \o h2 >> ELSE << h1, s1, h2 >>)
          \o (IF s2 = <<>> THEN <<>> ELSE << s2 >>)

UploadingForever(c, q) == [q EXCEPT !.inp = AfterLine(@), !.cb = "none", !.out = @ \o Upload(c)]
Uploading(c, q) == [q EXCEPT !.inp = AfterLine(@), !.cb = "none", !.wcb = TRUE, !.out = @ \o Upload(c)]

Connection_callback_put(c, q) ==
  /\ con' = [con EXCEPT ![c] =
       IF ~HasLine(q.inp) THEN q
       ELSE IF LineOf(q.inp) # <<Ready>> THEN [q EXCEPT !.inp = AfterLine(@), !.cb = "none"]
       ELSE Uploading(c, q)]
  /\ UNCHANGED <<prog, clientFiles>>

(* callback_list: lines are collected up to the terminal or as far as they *)
(* have come; AddFiles keeps those that matter to List: the entries, and a *)
(* line that ends in a dot.                                                *)
LineBefore(b, e) ==
  LET earlier == { m \in LineEnds(b) : m < e }
  IN Reads(SubSeq(b, (IF earlier = {} THEN 0 ELSE Max(earlier)) + 1, e - 1))

Connection_callback_list(c, q) ==
  LET ends  == LineEnds(q.inp)
      dones == { e \in ends : LineBefore(q.inp, e) = <<Terminal>> }
      upto  == IF dones # {} THEN Min(dones) ELSE IF ends # {} THEN Max(ends) ELSE 0
      lines == { LineBefore(q.inp, e) : e \in { m \in ends : m <= upto } }
  IN
  /\ con' = [con EXCEPT ![c] = [q EXCEPT !.inp = Drop(@, upto), !.loop = (dones = {})]]
  /\ m_files' = [m_files EXCEPT ![c[1]] = @ \cup
                   { t \in { l[1] : l \in { m \in lines : Len(m) = 1 } } : t.k \in {"entry", "INVALID_CREDENTIALS"} }]
  /\ UNCHANGED <<prog, shown, tmp, got>>

AssembledOutOfOrder(t) == t[1] \o t[2] \o t[4] \o t[3]
Assembled(t) == t[1] \o t[2] \o t[3] \o t[4]

(* Client::FileBuilder: a part that is in tmp/ already is not replaced;    *)
(* when the fourth part has come the file is put together.  f is a path.   *)
FileBuilder(h, f, p, data) ==
  LET t == [h.tmp EXCEPT ![p] = data] IN
  IF h.tmp[p] # NoPart \/ f \in Missing THEN h
  ELSE [h EXCEPT !.tmp = t,
                 !.got = IF \E i \in Part : t[i] = NoPart THEN @ ELSE Assembled(t)]

(* No line has come where one is due: before the first part the callback   *)
(* waits, after a part it takes the server for done and breaks the loop.   *)
WaitsWithoutLine(state) == "return"
WithoutLine(state) == IF state = 3 THEN "break" ELSE "return"

(* One round of the loop of callback_get on h: the connection, the statics *)
(* and the files of the name that was asked for.  (As in the server, the   *)
(* rounds map sets with one element.)                                      *)
GetRound(h, f) ==
  LET q    == h.q
      line == LineOf(q.inp)
      have == Take(q.inp, h.size)
      data == [n \in 1..h.size |-> IF n <= Len(have) THEN have[n] ELSE Garbage]
  IN
  IF h.go # "on" THEN h
  ELSE IF q.m_get_state \in {1, 3} /\ ~HasLine(q.inp)
       THEN [h EXCEPT !.go = WithoutLine(q.m_get_state)]
  ELSE IF q.m_get_state \in {1, 3} /\ (line = <<>> \/ line[Len(line)].k # "GOOD")
       THEN [h EXCEPT !.q.inp = AfterLine(q.inp), !.go = "break"]
  ELSE IF q.m_get_state \in {1, 3}
       THEN [h EXCEPT !.q.inp = AfterLine(q.inp), !.q.m_get_state = 2,
                      !.partnum = line[Len(line)].p, !.size = line[Len(line)].l]
  ELSE IF q.inp = <<>> THEN [h EXCEPT !.go = "return"]
  ELSE FileBuilder([h EXCEPT !.q.inp = Drop(q.inp, h.size), !.q.m_get_state = 3],
                   f, h.partnum, data)

(* The connection after any number of rounds.                              *)
Rounds(start, f) ==
  LET round[n \in Nat] == IF n = 0 THEN {start} ELSE { GetRound(h, f) : h \in round[n - 1] }
  IN round

Connection_callback_get(c, q) ==
  LET k == c[1]
      f == Path(prog[k].file)
      start == [ q |-> q, partnum |-> prog[k].partnum, size |-> prog[k].size,
                 tmp |-> tmp[k][f], got |-> got[k][f], go |-> "on" ]
  IN
  \E h \in Rounds(start, f)[2 * Len(q.inp) + 2] :
    /\ con' = [con EXCEPT ![c] = [h.q EXCEPT !.loop = (h.go # "break")]]
    /\ prog' = [prog EXCEPT ![k].partnum = h.partnum, ![k].size = h.size]
    /\ tmp' = [tmp EXCEPT ![k][f] = h.tmp]
    /\ got' = [got EXCEPT ![k][f] = h.got]
    /\ UNCHANGED <<m_files, shown>>

(* A read from the socket and the callback set at that moment.             *)
ClientRead(c) ==
  /\ con[c].loop /\ con[c].rd
  /\ \E n \in s2c[c].cuts : \E q \in {[con[c] EXCEPT !.inp = @ \o Take(s2c[c].data, n)]} :
       /\ s2c' = [s2c EXCEPT ![c] = Received(@, n)]
       /\ UNCHANGED <<c2s, net>>
       /\ \/ q.cb = "none" /\ con' = [con EXCEPT ![c] = q] /\ UNCHANGED <<prog, clientFiles>>
          \/ q.cb = "put" /\ Connection_callback_put(c, q)
          \/ q.cb = "list" /\ Connection_callback_list(c, q)
          \/ q.cb = "get" /\ Connection_callback_get(c, q)

-----------------------------------------------------------------------------
(* The threads are joined, or the last server was asked.                   *)
Done(k) == prog' = [prog EXCEPT ![k].cmd = "none", ![k].file = NoFile, ![k].at = 0]

PutDone(k) ==
  /\ prog[k].cmd = "put" /\ ~InLoop(k) /\ Done(k)
  /\ UNCHANGED <<con, clientFiles, netVars>>

GetDone(k) ==
  /\ prog[k].cmd = "get" /\ ~InLoop(k) /\ prog[k].at = 4 /\ Done(k)
  /\ UNCHANGED <<con, clientFiles, netVars>>

IsNearlyComplete(parts) == Cardinality(parts) >= 2
IsComplete(parts) == Part \subseteq parts

(* What List prints of file f, from everything m_files holds.              *)
Printed(k, f) ==
  LET parts == { p \in Number : Entry(f, p) \in m_files[k] }
  IN IF parts = {} THEN "nothing" ELSE IF IsComplete(parts) THEN "complete" ELSE "incomplete"

(* HavePart of a number other than 1 to 4 writes outside of its array,     *)
(* which may end the program or change what is printed.                    *)
ListedWild(k) == \E f \in File, p \in Number \ Part : Entry(f, p) \in m_files[k]

Prints(k) == IF ListedWild(k) THEN [File -> {"nothing", "incomplete", "complete"}]
             ELSE { [f \in File |-> Printed(k, f)] }

(* std::stoi throws on the line of the wrong password, and nobody catches. *)
ListDone(k) ==
  /\ prog[k].cmd = "list" /\ ~InLoop(k)
  /\ \/ /\ Invalid \notin m_files[k]
        /\ \E r \in Prints(k) : shown' = [shown EXCEPT ![k] = r]
        /\ Done(k)
        /\ UNCHANGED <<con, m_files, tmp, got, netVars>>
     \/ /\ Invalid \in m_files[k] \/ ListedWild(k)
        /\ ClientDies(k, "killed", s2c)

LoopStep(c) == ConnectError(c) \/ ClientWrite(c) \/ ClientRead(c) \/ ClientEof(c) \/ LoopExit(c)
CommandStep(k) == GetNext(k) \/ PutDone(k) \/ GetDone(k) \/ ListDone(k)

=============================================================================
