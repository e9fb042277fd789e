----------------------------- MODULE PartStore -----------------------------
(***************************************************************************)
(* What the disks of the servers promise, without connections, buffers,    *)
(* callbacks and kills: each server has a folder for the user, which is    *)
(* created once and stays, and parts of files in it or reached through it. *)
(* Parts of one file of one server are written at a time, with any content *)
(* (a kill may cut it short), only while the folder exists, only in        *)
(* directories that exist, and the file of a part is never removed.        *)
(***************************************************************************)
CONSTANTS Server, File, Number, Missing, NoPart

VARIABLES
  store,     \* store[s][f][p]: the content of part p of f on server s, or NoPart
  folders    \* folders[s]: server s has the user's folder

vars == <<store, folders>>

Init ==
  /\ store = [s \in Server |-> [f \in File |-> [p \in Number |-> NoPart]]]
  /\ folders = [s \in Server |-> FALSE]

Create(s) == folders' = [folders EXCEPT ![s] = TRUE] /\ UNCHANGED store

Store(s, f) ==
  /\ folders[s] /\ f \notin Missing
  /\ \E p \in Number : store'[s][f][p] # store[s][f][p]
  /\ \A p \in Number : store'[s][f][p] # NoPart \/ store[s][f][p] = NoPart
  /\ \A t \in Server, g \in File : <<t, g>> # <<s, f>> => store'[t][g] = store[t][g]
  /\ UNCHANGED folders

Next == \E s \in Server : Create(s) \/ \E f \in File : Store(s, f)

Spec == Init /\ [][Next]_vars
=============================================================================
