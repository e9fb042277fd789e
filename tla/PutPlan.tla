------------------------------ MODULE PutPlan ------------------------------
(***************************************************************************)
(* The loop of Client::Put (src/src/Client.cpp) that hands the four pairs  *)
(* of parts to four threads, one per server, and the joins that follow it. *)
(* A thread object that is assigned twice while it is joinable, or joined  *)
(* without having been assigned, ends the program, so the loop is correct  *)
(* only if the placement table is a permutation for every hash value.      *)
(***************************************************************************)
EXTENDS Layout

CONSTANT FileSizes          \* the file sizes a user may upload

ASSUME FileSizesAssumption == FileSizes \subseteq Nat

VARIABLES
  size,     \* file_size
  x,        \* the hash value
  i,        \* the loop counter, the server being served
  thread,   \* thread[k]: the server t_k uploads to, 0 while t_k is not started
  sent,     \* sent[s]: the PutInfo bound to server s, NoPlan before
  ended     \* the program was ended by a misuse of a std::thread

vars == <<size, x, i, thread, sent, ended>>

(* memset(&pi, 0, sizeof pi): the PutInfo before the switch fills it.      *)
NoPlan == [ part1_number |-> 0, length1 |-> 0, offset1 |-> 0,
            part2_number |-> 0, length2 |-> 0, offset2 |-> 0 ]

Init ==
  /\ size \in FileSizes
  /\ x \in HashValue
  /\ i = 1
  /\ thread = [k \in PairNumber |-> 0]
  /\ sent = [s \in Server |-> NoPlan]
  /\ ended = FALSE

(* One iteration: server i gets the pair the table names, thread t_pair    *)
(* is started for it.  Assigning a joinable std::thread terminates.        *)
StartThread ==
  LET k == FilePieces(i, x) IN
  /\ ~ended /\ i \in Server
  /\ ended' = (thread[k] # 0)
  /\ thread' = [thread EXCEPT ![k] = i]
  /\ sent' = [sent EXCEPT ![i] = PutInfo(k, size)]
  /\ i' = i + 1
  /\ UNCHANGED <<size, x>>

(* t1.join() .. t4.join(), then the user uploads the next file.            *)
JoinThreads ==
  /\ ~ended /\ i = 5
  /\ ended' = (\E k \in PairNumber : thread[k] = 0)
  /\ thread' = [k \in PairNumber |-> 0]
  /\ sent' = [s \in Server |-> NoPlan]
  /\ i' = 1
  /\ size' \in FileSizes
  /\ x' \in HashValue

Next == StartThread \/ JoinThreads

Spec == Init /\ [][Next]_vars

-----------------------------------------------------------------------------
PlanInfo == [ part1_number : 0..4, length1 : Nat, offset1 : Nat,
              part2_number : 0..4, length2 : Nat, offset2 : Nat ]

(* Every variable of the loop stays in its range: the counter in 1..5, the *)
(* part numbers in 0..4, lengths and offsets non-negative (they are        *)
(* unsigned in the code, so a negative one would be a huge upload).        *)
TypeOK ==
  /\ size \in FileSizes
  /\ x \in HashValue
  /\ i \in 1..5
  /\ thread \in [PairNumber -> 0..4]
  /\ sent \in [Server -> PlanInfo]
  /\ ended \in BOOLEAN

(* The four threads are started exactly once each before they are joined,  *)
(* for every hash value (Client.cpp 58-122): the program is never ended by *)
(* the thread bookkeeping.                                                 *)
ThreadsUsedOnce == ~ended

Planned == i = 5

(* The two slices of the file that server s is sent.                       *)
SentTo(s) ==
  { [part |-> sent[s].part1_number, off |-> sent[s].offset1, len |-> sent[s].length1],
    [part |-> sent[s].part2_number, off |-> sent[s].offset2, len |-> sent[s].length2] }

(* Byte b of the file is in a slice that server s is sent.                 *)
Holds(s, b) == \E a \in SentTo(s) : a.off <= b /\ b < a.off + a.len

(* Redundancy (the aim of the pairing, src/spec.pdf page 1): after the     *)
(* loop every byte of the file is sent to at least two servers, so it is   *)
(* still held whichever single server is lost, for every size and hash.    *)
EveryByteSurvivesOneServer ==
  Planned => \A b \in 0..(size - 1), lost \in Server :
               \E s \in Server \ {lost} : Holds(s, b)

(* Two servers that are sent the same part number are sent the same slice, *)
(* so a GET may keep whichever copy of a part arrives first.               *)
CopiesAgree ==
  Planned => \A s, t \in Server : \A a \in SentTo(s), b \in SentTo(t) :
               a.part = b.part => a = b

(* Concatenating the parts 1, 2, 3, 4 in order, as FileBuilder does, gives *)
(* back the file: part 1 starts at 0, each part starts where the previous  *)
(* one ends, part 4 ends at the end of the file, and every part is sent.   *)
PartsTileTheFile ==
  Planned => \A p \in Part : \E s \in Server : \E a \in SentTo(s) :
               /\ a.part = p
               /\ p = 1 => a.off = 0
               /\ p = 4 => a.off + a.len = size
               /\ p < 4 => \E t \in Server : \E b \in SentTo(t) :
                              b.part = p + 1 /\ b.off = a.off + a.len

=============================================================================
