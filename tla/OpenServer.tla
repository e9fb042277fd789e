----------------------------- MODULE OpenServer -----------------------------
(***************************************************************************)
(* The servers alone, with clients that send whatever they like: the       *)
(* repository's client is one of them.  A client is either a member, who   *)
(* has the password of the user, or a stranger, who has not.               *)
(***************************************************************************)
EXTENDS DfsServer

CONSTANTS
  Stranger,      \* the clients without the password
  Messages(_),   \* what a client may write, as sequences of tokens
  MaxSends(_),   \* bound: writes of a client
  MaxKills       \* bound: kills

Tokens(b) == { b[n] : n \in DOMAIN b }

(* Everything client k may ever write.                                     *)
Said(k) == UNION { Tokens(d) : d \in Messages(k) }

(* A stranger is a client that never writes the user's name together with  *)
(* the right password, nor a line that reads as if.  A missing file is     *)
(* none that could be stored.                                              *)
ASSUME OpenAssumption ==
  /\ Stranger \subseteq Client
  /\ MaxKills \in Nat /\ \A k \in Client : MaxSends(k) \in Nat
  /\ \A k \in Client : Messages(k) \subseteq Seq(Token)
  /\ \A k \in Stranger :
       /\ Auth("good") \notin Said(k)
       /\ \A line \in DOMAIN Spelled : Tokens(line) \subseteq Said(k) => Spelled[line] # Auth("good")
  /\ NoPart \notin Seq(Token)

VARIABLES
  sends,         \* sends[k]: how often client k wrote
  kills          \* how often a server was killed

vars == <<srv, disk, folder, fate, c2s, s2c, net, sends, kills>>

Init ==
  /\ NetInit /\ net = [c \in Conn |-> "none"]
  /\ ServerInit
  /\ sends = [k \in Client |-> 0]
  /\ kills = 0

Connect(c) ==
  /\ fate[c[2]] = "up" /\ net[c] = "none" /\ ~srv[c].open
  /\ net' = [net EXCEPT ![c] = "open"]
  /\ UNCHANGED <<serverVars, c2s, s2c, sends, kills>>

Send(c) ==
  /\ net[c] = "open" /\ sends[c[1]] < MaxSends(c[1])
  /\ \E d \in Messages(c[1]) : c2s' = [c2s EXCEPT ![c] = Sent(@, d, TRUE)]
  /\ sends' = [sends EXCEPT ![c[1]] = @ + 1]
  /\ UNCHANGED <<serverVars, s2c, net, kills>>

(* The client goes away; what it did not read is gone with it.             *)
Leave(c) ==
  /\ net[c] = "open"
  /\ net' = [net EXCEPT ![c] = IF s2c[c] = Empty THEN "closed" ELSE "reset"]
  /\ s2c' = [s2c EXCEPT ![c] = Empty]
  /\ c2s' = [c2s EXCEPT ![c] = Ended(@)]
  /\ UNCHANGED <<serverVars, sends, kills>>

KillOne(s) == kills < MaxKills /\ Kill(s) /\ kills' = kills + 1 /\ UNCHANGED sends

Next ==
  \/ \E c \in Conn : ServerStep(c) /\ UNCHANGED <<sends, kills>>
  \/ \E c \in Conn : Connect(c) \/ Send(c) \/ Leave(c)
  \/ \E s \in Server : KillOne(s)
  \/ \E s \in Server : Restart(s) /\ UNCHANGED <<sends, kills>>

Spec == Init /\ [][Next]_vars

-----------------------------------------------------------------------------
IsStream(b) == \A n \in DOMAIN b : b[n] \in Token

ConnectionOK(q) ==
  /\ q.open \in BOOLEAN /\ q.wr \in BOOLEAN
  /\ q.cb \in {"read", "put"}
  /\ IsStream(q.inp)
  /\ q.filename \in File \cup {NoFile}
  /\ q.putState \in 0..3 /\ q.wantedSize \in Nat
  /\ q.partnum \in Number \cup {0}
  /\ q.cb = "put" => q.filename # NoFile
  /\ q.putState \in {1, 3} => q.partnum \in Number

(* What the handlers rely on: the state of an upload is one the loop of    *)
(* callback_put knows, an upload has a file name, a state that waits for   *)
(* bytes has the part number of its header, which may be any int, and a    *)
(* stored part is a sequence of bytes.                                     *)
TypeOK ==
  /\ \A c \in Conn : ConnectionOK(srv[c]) /\ IsStream(c2s[c].data) /\ IsStream(s2c[c].data)
  /\ \A s \in Server, f \in File, p \in Number :
       disk[s][f][p] = NoPart \/ IsStream(disk[s][f][p])
  /\ folder \in [Server -> BOOLEAN]
  /\ fate \in [Server -> {"up", "killed", "aborted"}]
  /\ net \in [Conn -> NetState]

Outgoing(c) == UNION { Tokens(srv[c].out[n].data) : n \in DOMAIN srv[c].out }
Stored == UNION { Tokens(disk[e[1]][e[2]][e[3]]) :
                    e \in { d \in Server \X File \X Number : disk[d[1]][d[2]][d[3]] # NoPart } }

(* A client without the password is told so and nothing else: no listing,  *)
(* no part, no permission to upload ever leaves on its connection, however *)
(* its bytes are cut and whatever members do at the same time (Server.cpp  *)
(* 197-262; src/spec.pdf page 4).                                          *)
StrangersReadNothing ==
  \A c \in Conn : c[1] \in Stranger =>
    /\ Tokens(s2c[c].data) \cup Outgoing(c) \subseteq {Invalid, Newline}
    /\ \A n \in DOMAIN srv[c].out : srv[c].out[n].file = NoFile

(* A member only sends its own versions, a stranger only its own; nothing  *)
(* a stranger sends is ever stored.                                        *)
StrangersStoreNothing ==
  \A t \in Stored : \E k \in Client \ Stranger : t \in Said(k)

(* A part is only stored in a directory that exists: nothing on a server   *)
(* that could not make the user's folder, though its PUT is accepted, not  *)
(* even by a name that leads out of the folder ("../x" is stored where it  *)
(* leads), and nothing in a directory that nobody made (Server.cpp         *)
(* 148-161, 226, 344, 413-422).                                            *)
PartsNeedTheFolder ==
  \A s \in Server, f \in File : PartsIn(s, f) # {} => folder[s] /\ f \notin Missing

(* The file of a part is never removed, by a later upload, a failed one, a *)
(* kill or a restart.  Its content is only replaced in a step in which its *)
(* server takes bytes of an upload to that file; a kill in that step may   *)
(* leave any beginning of the new content, also none (Server.cpp 413-426). *)
PartsAreKept ==
  [][ \A s \in Server, f \in File, p \in Number :
        disk[s][f][p] # NoPart /\ disk'[s][f][p] # disk[s][f][p] =>
          /\ disk'[s][f][p] # NoPart
          /\ \E c \in Conn : /\ c[2] = s /\ srv[c].cb = "put" /\ srv[c].filename = f
                             /\ c2s'[c] # c2s[c] ]_vars

(* The servers implement PartStore: an upload is a step of one server on   *)
(* one of its files, however its bytes arrive, also if it is killed in the *)
(* middle of it (callback_put, Authenticate).                              *)
Disks == INSTANCE PartStore WITH store <- disk, folders <- folder
StoresParts == Disks!Spec

=============================================================================
