-------------------------------- MODULE DFS --------------------------------
(***************************************************************************)
(* The distributed file system: client programs and servers, the commands  *)
(* users type, and the servers they kill and restart.                      *)
(***************************************************************************)
EXTENDS DfsServer, DfsClient

CONSTANTS
  MaxCommands(_), \* bound: commands of a user
  MaxKills,      \* bound: kills
  KillsBetween,  \* BOOLEAN: servers are only killed while no command runs
  Restarts,      \* BOOLEAN: killed servers may be started again
  Quits,         \* BOOLEAN: users may end their program
  Patient        \* BOOLEAN: users wait until the network is quiet

ASSUME DfsAssumption ==
  /\ MaxKills \in Nat /\ \A k \in Client : MaxCommands(k) \in Nat
  /\ KillsBetween \in BOOLEAN /\ Restarts \in BOOLEAN /\ Quits \in BOOLEAN /\ Patient \in BOOLEAN
  /\ \A k \in Client : Password(k) \subseteq {"good", "bad", "short"}
  /\ NoVersion \notin Version /\ NoPart \notin Seq(Token)

VARIABLES
  typed,         \* typed[k]: how many commands user k has typed
  kills,         \* how often a server was killed
  put            \* put[k]: the versions user k has uploaded, the last one last

userVars == <<typed, kills, put>>
vars == <<serverVars, clientVars, netVars, userVars>>

Init ==
  /\ NetInit /\ net = [c \in Conn |-> "none"]
  /\ ServerInit /\ ClientInit
  /\ typed = [k \in Client |-> 0]
  /\ kills = 0
  /\ put = [k \in Client |-> <<>>]

-----------------------------------------------------------------------------
(* Nothing is under way between client k and a server that is up.          *)
Quiet(k) == \A c \in {k} \X Server : net[c] = "open" =>
  /\ c2s[c] = Empty /\ s2c[c] = Empty
  /\ srv[c].wr => srv[c].out = <<>>

Types(k) ==
  /\ Idle(k) /\ typed[k] < MaxCommands(k)
  /\ Patient => Quiet(k)
  /\ typed' = [typed EXCEPT ![k] = @ + 1]

UserPut(k, v) == /\ Types(k) /\ StartPut(k, v)
                 /\ put' = [put EXCEPT ![k] = Append(@, v)]
                 /\ UNCHANGED <<serverVars, kills>>
UserList(k)   == Types(k) /\ StartList(k) /\ UNCHANGED <<serverVars, kills, put>>
UserGet(k, f) == Types(k) /\ StartGet(k, f) /\ UNCHANGED <<serverVars, kills, put>>

UserStarts(k) == /\ StartClient(k, { s \in Server : fate[s] = "up" }, Server \ Live)
                 /\ UNCHANGED <<serverVars, userVars>>
UserQuits(k)  == Quits /\ Quit(k) /\ UNCHANGED <<serverVars, userVars>>

UserKills(s)    == /\ KillsBetween => \A k \in Client : prog[k].cmd = "none"
                   /\ kills < MaxKills /\ kills' = kills + 1
                   /\ Kill(s) /\ UNCHANGED <<clientVars, typed, put>>
UserRestarts(s) == Restarts /\ Restart(s) /\ UNCHANGED <<clientVars, userVars>>

User(k) == \/ UserStarts(k) \/ UserList(k) \/ UserQuits(k)
           \/ \E v \in Version : UserPut(k, v)
           \/ \E f \in File : UserGet(k, f)

Serve(c)   == ServerStep(c) /\ UNCHANGED <<clientVars, userVars>>
Dispatch(c) == LoopStep(c) /\ UNCHANGED <<serverVars, userVars>>
Proceed(k) == CommandStep(k) /\ UNCHANGED <<serverVars, userVars>>

Next ==
  \/ \E k \in Client : User(k) \/ Proceed(k)
  \/ \E c \in Conn : Serve(c) \/ Dispatch(c)
  \/ \E s \in Server : UserKills(s) \/ UserRestarts(s)

Spec == Init /\ [][Next]_vars

(* Some process that can run is scheduled and the network delivers; what   *)
(* users do they may leave undone.  Nothing is assumed about which process *)
(* runs: within the bounds nobody can run for ever, so none is starved.    *)
Scheduled == \/ \E k \in Client : Proceed(k)
             \/ \E c \in Conn : Serve(c) \/ Dispatch(c)

FairSpec == Spec /\ WF_vars(Scheduled)

-----------------------------------------------------------------------------
VersionOf(f) == { v \in Version : PathOf(v) = f }
WholeFile(v) == Slice(v, 0, Size(v))
Uploaded(v) == \E k \in Client : \E n \in DOMAIN put[k] : put[k][n] = v

(* The states of the programs that the code distinguishes.                 *)
TypeOK ==
  /\ \A c \in Conn :
       /\ srv[c].cb \in {"read", "put"} /\ srv[c].putState \in 0..3
       /\ srv[c].cb = "put" => srv[c].filename \in File
       /\ con[c].cb \in {"none", "put", "list", "get"} /\ con[c].m_get_state \in 0..3
       /\ con[c].cb = "put" => con[c].version \in Version
       /\ net[c] \in NetState
       /\ c2s[c].cuts \subseteq 1..Len(c2s[c].data) /\ s2c[c].cuts \subseteq 1..Len(s2c[c].data)
  /\ \A k \in Client : /\ prog[k].life \in {"new", "up", "gone", "killed"}
                       /\ prog[k].cmd \in {"none", "put", "list", "get"}
                       /\ prog[k].cmd = "get" => prog[k].file \in File /\ prog[k].at \in Server
  /\ fate \in [Server -> {"up", "killed", "aborted"}]

(* A server that was killed may have been writing a part, and what it left *)
(* is served if it is started again.                                       *)
MayBeTorn(s) == TornWrites /\ kills > 0 /\ (Restarts \/ fate[s] # "up")
Begins(x, y) == \E n \in 0..Len(y) : x = Take(y, n)

(* However the streams are cut and whoever dies, what lies under a part's  *)
(* name is the very part of an uploaded version that this server was to    *)
(* get, or the beginning of it that a killed server had written            *)
(* (Server.cpp 354-450).  Lines of a file that read as headers break this: *)
(* see the run cut_upload.                                                 *)
StoredPartsAreSlices ==
  \A s \in Server, f \in File, p \in Number : disk[s][f][p] # NoPart =>
    \E v \in VersionOf(f) :
      /\ Uploaded(v) /\ p \in PartsOf(s, HashMod(v))
      /\ \/ disk[s][f][p] = PartOf(v, p)
         \/ MayBeTorn(s) /\ Begins(disk[s][f][p], PartOf(v, p))

(* Every part LIST has collected, however its lines were cut and whatever  *)
(* died, is on the disk of some server, so that what it calls complete has *)
(* been stored completely - unless a part number outside of 1 to 4 made    *)
(* HavePart write where it should not (Client.cpp 127-186, Client.h 71).   *)
ListedIsStored ==
  \A k \in Client, f \in File :
    /\ \A p \in Number : Entry(f, p) \in m_files[k] => \E s \in Server : disk[s][f][p] # NoPart
    /\ shown[k][f] = "complete" /\ ~ListedWild(k) =>
         \A p \in Part : \E s \in Server : disk[s][f][p] # NoPart

(* A file GET has put together is, byte for byte, a version a user         *)
(* uploaded under that name.                                               *)
RetrievedIsUploaded ==
  \A k \in Client, f \in File : got[k][f] # NoPart =>
    \E v \in VersionOf(f) : Uploaded(v) /\ got[k][f] = WholeFile(v)

(* Where reads only end where writes do, a part GET has put into tmp/ is   *)
(* that part of a version a user uploaded under that name.                 *)
FetchedPartsAreSlices ==
  \A k \in Client, f \in File, p \in Part : tmp[k][f][p] # NoPart =>
    \E v \in VersionOf(f) : Uploaded(v) /\ tmp[k][f][p] = PartOf(v, p)

(* Where reads end anywhere this is not so: bytes that had not come are    *)
(* garbage, and a server that is started again serves what it had written  *)
(* of a part when it was killed.  But all other bytes are those of that    *)
(* part of one upload, each in its place (Connection.cpp 177-190): what    *)
(* comes late is neither a part of its own nor the rest of another.        *)
ComesFrom(x, y) == Len(x) <= Len(y) /\ \A n \in DOMAIN x : x[n] \in {y[n], Garbage}
FetchedFromUploads ==
  \A k \in Client, f \in File, p \in Part : tmp[k][f][p] # NoPart =>
    \E v \in Version : Uploaded(v) /\ ComesFrom(tmp[k][f][p], PartOf(v, p))

(* It has the length that was announced where no server has served such a  *)
(* rest.                                                                   *)
RightOrGarbage(x, y) == Len(x) = Len(y) /\ ComesFrom(x, y)
FetchedBytesAreInPlace ==
  \A k \in Client, f \in File, p \in Part : tmp[k][f][p] # NoPart =>
    \E v \in VersionOf(f) : Uploaded(v) /\ RightOrGarbage(tmp[k][f][p], PartOf(v, p))

(* The servers survive what a client of the repository sends that stays at *)
(* its prompt or is killed by a SIGPIPE, if every burst of it arrives in   *)
(* one piece; headers that are cut and users who leave do end them (see    *)
(* ServersOutlastClients of FetchProofs).                                  *)
NoServerAborts == \A s \in Server : fate[s] # "aborted"

(* The client survives the loss of servers.                                *)
NoClientKilled == \A k \in Client : prog[k].life # "killed"

(* LIST calls a file complete only if every part is on a server that is up *)
(* when the listing is printed.                                            *)
ListedIsAvailable ==
  [][ \A k \in Client, f \in File :
        prog[k].cmd = "list" /\ prog'[k].cmd = "none" /\ shown'[k][f] = "complete" =>
          \A p \in Part : \E s \in Server : fate[s] = "up" /\ disk[s][f][p] # NoPart ]_vars

(* Every PUT and LIST with the right password returns to the prompt, even  *)
(* when a server is killed while it runs, unless the client itself is      *)
(* killed by a SIGPIPE (Client.cpp 118-122, 144-148).                      *)
Returned(k) == prog[k].life = "up" /\ prog[k].cmd = "none"
PutAndListReturn ==
  \A k \in Client :
    prog[k].cmd \in {"put", "list"} ~> Returned(k) \/ prog[k].life = "killed"

(* A command returns, whatever the servers answer or fail to answer.       *)
CommandsReturn == \A k \in Client : prog[k].cmd # "none" ~> Returned(k)

(* An upload reaches every server that stays up, unless the client itself  *)
(* is killed; nothing tells the client whether it did.                     *)
StoredOn(s, v) == \A p \in PartsOf(s, HashMod(v)) : disk[s][PathOf(v)][p] = PartOf(v, p)
SomeClientKilled == \E k \in Client : prog[k].life = "killed"
UploadIsStored ==
  \A v \in Version :
    Uploaded(v) ~> \/ SomeClientKilled
                   \/ \A s \in Server : fate[s] = "up" => StoredOn(s, v)

(* GET brings the file back if every server that is up has stored its two  *)
(* parts of it, although one server is lost before or meanwhile, unless    *)
(* the client itself is killed by a SIGPIPE.                               *)
RetrievedDespiteLoss ==
  \A k \in Client, v \in Version :
    (/\ prog[k].cmd = "get" /\ Path(prog[k].file) = PathOf(v)
     /\ \A s \in Server : fate[s] = "up" => StoredOn(s, v))
    ~> (SomeClientKilled \/ (Returned(k) /\ got[k][PathOf(v)] = WholeFile(v)))

=============================================================================
