--------------------------- MODULE ClientProgram ---------------------------
(***************************************************************************)
(* The client program around its uploads: main and ParseCommand            *)
(* (src/src/DFS_Client.cpp), Client::ParseConfFile (src/src/Client.cpp)    *)
(* and the ConnectionManager it fills.  The upload itself is the loop of   *)
(* PutPlan; what travels on the connections is the subject of DfsClient.   *)
(***************************************************************************)
EXTENDS PutPlan, Sequences, FiniteSets

CONSTANTS
  ConfLine,      \* the lines a configuration file may have
  EmptyLine,     \* a line without any character
  CommentLine,   \* a line whose first character is '#'
  PortOf,        \* PortOf[w]: the number at the start of word w, if any
  Input,         \* the lines a user may type, as sequences of words
  Readable,      \* the file names the user can open
  NoWord,        \* the empty string
  MaxLines       \* bound: lines of the configuration file

(* Apart from the two special ones a line is the sequence of its words,    *)
(* which blanks and colons separate; a blank line is <<>>.                 *)
ASSUME ProgramAssumption ==
  /\ EmptyLine # CommentLine
  /\ \A l \in ConfLine \ {EmptyLine, CommentLine} : Len(l) \in Nat
  /\ \A w \in DOMAIN PortOf : PortOf[w] \in Int
  /\ MaxLines \in Nat

VARIABLES
  phase,         \* where main is
  lines,         \* the lines of the configuration file that were read
  foundServers,  \* the counter of ParseConfFile
  manager,       \* m_connections: from ids to connections
  user, password \* m_auth_user, m_auth_password

confVars    == <<lines, foundServers, manager, user, password>>
programVars == <<phase, confVars, vars>>

Phase == {"opening", "parsing", "prompt", "put", "working", "leaving", "returned", "aborted"}

(* No connection is made before a Server line was read; size and x are     *)
(* those of the first file that will be uploaded.                          *)
ProgramInit ==
  /\ Init
  /\ phase = "opening"
  /\ lines = <<>> /\ foundServers = 0 /\ manager = <<>>
  /\ user = NoWord /\ password = NoWord

-----------------------------------------------------------------------------
(* ss >> port, for a short: a word that does not start with a number, or   *)
(* with one that does not fit, fails.                                      *)
Short == -32768..32767
ReadsAnyPort(w) == w \in DOMAIN PortOf
ReadsPort(w) == w \in DOMAIN PortOf /\ PortOf[w] \in Short

Has(l, directive) == l \notin {EmptyLine, CommentLine, <<>>} /\ l[1] = directive

IsServer(l) == Has(l, "Server") /\ Len(l) >= 4 /\ ReadsPort(l[4])
IsUser(l)   == Has(l, "Username") /\ Len(l) >= 2
IsPass(l)   == Has(l, "Password") /\ Len(l) >= 2

(* Lines that make ParseConfFile return false.                             *)
Malformed(l) ==
  \/ l = <<>>
  \/ Has(l, "Server") /\ ~IsServer(l)
  \/ Has(l, "Username") /\ ~IsUser(l)
  \/ Has(l, "Password") /\ ~IsPass(l)

(* Connection::Connection; an address that inet_pton refuses is only       *)
(* logged.  Initialize fails when libevent cannot allocate.                *)
NewConnection(l, ok) == [ip |-> l[3], port |-> PortOf[l[4]], initialized |-> ok]

OpenConf ==
  /\ phase = "opening"
  /\ phase' \in {"parsing", "leaving"}
  /\ UNCHANGED <<confVars, vars>>

Reading(l) ==
  /\ phase = "parsing" /\ Len(lines) < MaxLines
  /\ lines' = Append(lines, l)
  /\ UNCHANGED vars

(* '#' lines, and directives nobody knows, which are logged.               *)
SkipLine(l) ==
  /\ Reading(l)
  /\ l # EmptyLine /\ ~Malformed(l) /\ ~IsServer(l) /\ ~IsUser(l) /\ ~IsPass(l)
  /\ UNCHANGED <<phase, foundServers, manager, user, password>>

(* line.at(0) of a line without characters throws, and nothing catches.    *)
ThrowOnEmptyLine(l) ==
  /\ Reading(l) /\ l = EmptyLine
  /\ phase' = "aborted"
  /\ UNCHANGED <<foundServers, manager, user, password>>

RefuseLine(l) ==
  /\ Reading(l) /\ Malformed(l)
  /\ phase' = "leaving"
  /\ UNCHANGED <<foundServers, manager, user, password>>

NextIdFromZero == foundServers
NextId == foundServers + 1

CreateNewConnection(l) ==
  /\ Reading(l) /\ IsServer(l)
  /\ foundServers' = foundServers + 1
  /\ \E ok \in BOOLEAN :
       /\ manager' = [id \in (DOMAIN manager) \cup {NextId} |->
                        IF id \in DOMAIN manager THEN manager[id] ELSE NewConnection(l, ok)]
       /\ phase' = IF ok THEN "parsing" ELSE "leaving"
  /\ UNCHANGED <<user, password>>

SetUser(l) ==
  /\ Reading(l) /\ IsUser(l)
  /\ user' = l[2]
  /\ UNCHANGED <<phase, foundServers, manager, password>>

SetPassword(l) ==
  /\ Reading(l) /\ IsPass(l)
  /\ password' = l[2]
  /\ UNCHANGED <<phase, foundServers, manager, user>>

(* The file is at its end; main then connects, and ignores the result.     *)
ThreeAreEnough == foundServers >= 3
AllFound == foundServers = 4
EndOfConf ==
  /\ phase = "parsing"
  /\ phase' = IF AllFound THEN "prompt" ELSE "leaving"
  /\ UNCHANGED <<confVars, vars>>

-----------------------------------------------------------------------------
(* ParseCommand: NULL for an empty line or a word it does not know.  A     *)
(* command without a file name is not valid, but nobody looks.             *)
NoCommand == [type |-> "none", filename |-> NoWord]
ParseCommand(words) ==
  IF words = <<>> \/ words[1] \notin {"LIST", "GET", "PUT"} THEN NoCommand
  ELSE [ type     |-> words[1],
         filename |-> IF words[1] = "LIST" \/ Len(words) < 2 THEN NoWord ELSE words[2] ]

(* PUT of a file that cannot be opened returns at once, as an unknown      *)
(* command does; otherwise the four connections are asked for by number.   *)
Dispatch(words) ==
  LET c == ParseCommand(words) IN
  /\ phase = "prompt" /\ ~ended
  /\ \/ c.type \in {"LIST", "GET"} /\ phase' = "working"
     \/ c.type = "PUT" /\ c.filename \in Readable /\ phase' = "put"
  /\ UNCHANGED <<confVars, vars>>

Upload ==
  /\ phase = "put" /\ ~ended
  /\ \/ StartThread /\ phase' = "put"
     \/ JoinThreads /\ phase' = "prompt"
  /\ UNCHANGED confVars

ListOrGetReturns ==
  /\ phase = "working" /\ phase' = "prompt"
  /\ UNCHANGED <<confVars, vars>>

EndOfInput ==
  /\ phase = "prompt" /\ ~ended /\ phase' = "leaving"
  /\ UNCHANGED <<confVars, vars>>

(* main returns, and with it goes the client: ~Connection frees a          *)
(* bufferevent that may never have been made (undefined).                  *)
Return ==
  /\ phase = "leaving"
  /\ \/ phase' = "returned"
     \/ (\E id \in DOMAIN manager : ~manager[id].initialized) /\ phase' = "aborted"
  /\ UNCHANGED <<confVars, vars>>

ParseConfFile ==
  \/ OpenConf \/ EndOfConf
  \/ \E l \in ConfLine : \/ SkipLine(l) \/ ThrowOnEmptyLine(l) \/ RefuseLine(l)
                         \/ CreateNewConnection(l) \/ SetUser(l) \/ SetPassword(l)

CommandLoop ==
  \/ \E words \in Input : Dispatch(words)
  \/ Upload \/ ListOrGetReturns \/ EndOfInput

ProgramNext == ParseConfFile \/ CommandLoop \/ Return

ProgramSpec == ProgramInit /\ [][ProgramNext]_programVars

-----------------------------------------------------------------------------
(* The counter, the ids and the phases stay in step: connections are       *)
(* numbered from 1 without gaps, and each has a port that is a short.      *)
ProgramTypeOK ==
  /\ phase \in Phase
  /\ foundServers \in 0..MaxLines
  /\ DOMAIN manager = 1..foundServers
  /\ \A id \in DOMAIN manager : /\ manager[id].port \in Short
                                /\ manager[id].initialized \in BOOLEAN

Running == phase \in {"prompt", "put", "working"}

(* What a configuration file must be, said without the parser's order: no  *)
(* empty line, no line that starts a directive and does not finish it, and *)
(* four servers.                                                           *)
WellFormed(l) ==
  /\ l \notin {EmptyLine, <<>>}
  /\ Has(l, "Server") => Len(l) >= 4 /\ PortOf[l[4]] \in Short
  /\ Has(l, "Username") \/ Has(l, "Password") => Len(l) >= 2

(* The Server lines among the first n; and whether word w is the second    *)
(* word of the last line of a kind, or the empty string if there is none.  *)
ServersUpTo(n) == { m \in 1..n : IsServer(lines[m]) }
IsLastOf(w, Test(_)) ==
  \/ w = NoWord /\ \A n \in DOMAIN lines : ~Test(lines[n])
  \/ \E n \in DOMAIN lines : /\ Test(lines[n]) /\ w = lines[n][2]
                            /\ \A m \in n + 1..Len(lines) : ~Test(lines[m])

(* A program that takes commands has read a good file to its end, and      *)
(* server i of the upload loop is the i-th Server line, whatever else was  *)
(* written in between; a user or password that is given twice is the last  *)
(* one (Client.cpp 312-406, Connection.cpp 340-346).                       *)
ConfiguredAsWritten ==
  Running =>
    /\ \A n \in DOMAIN lines : WellFormed(lines[n])
    /\ Cardinality(ServersUpTo(Len(lines))) = 4
    /\ \A id \in Server : \E n \in DOMAIN lines :
         /\ IsServer(lines[n]) /\ Cardinality(ServersUpTo(n)) = id
         /\ manager[id].ip = lines[n][3] /\ manager[id].port = PortOf[lines[n][4]]
    /\ IsLastOf(user, IsUser) /\ IsLastOf(password, IsPass)

(* m_manager.Get(i) is called without a look at its result: whenever a     *)
(* command runs, each of the four exists and has its bufferevent           *)
(* (Client.cpp 61-77, 133-142, 256-268).                                   *)
CommandsFindConnections ==
  phase \in {"put", "working"} =>
    \A id \in Server : id \in DOMAIN manager /\ manager[id].initialized

=============================================================================
