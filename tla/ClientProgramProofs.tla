------------------------ MODULE ClientProgramProofs ------------------------
(***************************************************************************)
(* PutPlan for every file size: the loop of Client::Put uses each thread   *)
(* once and sends every byte of the file to two different servers.  Then   *)
(* the client program for every set of configuration lines, inputs and     *)
(* files: it inherits what is proved of the loop, it is configured as its  *)
(* file says, and its commands find the connections they ask for.          *)
(***************************************************************************)
EXTENDS ClientProgram, LayoutProofs, FiniteSetTheorems

-----------------------------------------------------------------------------
(* The upload loop.                                                        *)

(* What the loop has done after i - 1 iterations.                          *)
ThreadsStarted ==
  \A k \in PairNumber :
    thread[k] # 0 <=> \E s \in 1..(i - 1) : FilePieces(s, x) = k

PlansSent == \A s \in 1..(i - 1) : sent[s] = PutInfo(FilePieces(s, x), size)

IInv == TypeOK /\ ThreadsUsedOnce /\ ThreadsStarted /\ PlansSent

(* PutInfo is well formed for every pair and size.                         *)
LEMMA PutInfoType ==
  ASSUME NEW k \in PairNumber, NEW n \in Nat
  PROVE  PutInfo(k, n) \in PlanInfo
<1>1. Pair(k)[1] \in Part /\ Pair(k)[2] \in Part
  BY DEF Pair, PairNumber, Part
<1>2. /\ PartLength(n, Pair(k)[1]) \in Nat /\ PartOffset(n, Pair(k)[1]) \in Nat
      /\ PartLength(n, Pair(k)[2]) \in Nat /\ PartOffset(n, Pair(k)[2]) \in Nat
  BY <1>1, PartSliceType
<1>3. Pair(k)[1] \in 0..4 /\ Pair(k)[2] \in 0..4
  BY <1>1 DEF Part
<1> QED
  BY <1>2, <1>3 DEF PutInfo, PlanInfo

LEMMA SizeIsNat == TypeOK => size \in Nat
BY FileSizesAssumption DEF TypeOK

LEMMA InitIInv == Init => IInv
<1> SUFFICES ASSUME Init PROVE IInv
  OBVIOUS
<1>1. NoPlan \in PlanInfo
  BY DEF NoPlan, PlanInfo
<1>2. TypeOK
  <2>1. ended \in BOOLEAN
    BY DEF Init
  <2>2. i \in 1..5 /\ thread \in [PairNumber -> 0..4] /\ sent \in [Server -> PlanInfo]
    BY <1>1 DEF Init
  <2> QED
    BY <2>1, <2>2 DEF Init, TypeOK
<1>3. ThreadsUsedOnce /\ ThreadsStarted /\ PlansSent
  BY DEF Init, ThreadsUsedOnce, ThreadsStarted, PlansSent
<1> QED
  BY <1>2, <1>3 DEF IInv

(* One iteration starts the thread of a pair no earlier server was given.  *)
LEMMA StartThreadIInv == IInv /\ StartThread => IInv'
<1> SUFFICES ASSUME IInv, StartThread PROVE IInv'
  OBVIOUS
<1> DEFINE k == FilePieces(i, x)
<1>1. /\ TypeOK /\ ~ended /\ i \in 1..4 /\ x \in HashValue /\ size \in Nat
      /\ k \in PairNumber /\ thread \in [PairNumber -> 0..4]
      /\ sent \in [Server -> PlanInfo]
  BY SizeIsNat, TableIsPermutation DEF IInv, StartThread, TypeOK, Server
<1>2. /\ i' = i + 1 /\ x' = x /\ size' = size
      /\ thread' = [thread EXCEPT ![k] = i]
      /\ sent' = [sent EXCEPT ![i] = PutInfo(k, size)]
      /\ ended' = (thread[k] # 0)
  BY DEF StartThread
<1>3. \A s \in 1..(i - 1) : FilePieces(s, x) # k
  <2> SUFFICES ASSUME NEW s \in 1..(i - 1), FilePieces(s, x) = k PROVE FALSE
    OBVIOUS
  <2>1. s \in Server /\ i \in Server /\ s # i
    BY <1>1 DEF Server
  <2> QED
    BY <1>1, <2>1, TableIsPermutation
<1>4. ended' = FALSE
  BY <1>1, <1>2, <1>3 DEF IInv, ThreadsStarted
<1>5. TypeOK'
  <2>1. PutInfo(k, size) \in PlanInfo
    BY <1>1, PutInfoType
  <2>2. thread' \in [PairNumber -> 0..4] /\ i' \in 1..5
    BY <1>1, <1>2
  <2>3. sent' \in [Server -> PlanInfo]
    BY <1>1, <1>2, <2>1 DEF Server
  <2> QED
    BY <1>1, <1>2, <1>4, <2>2, <2>3 DEF TypeOK
<1>6. ThreadsStarted'
  <2> SUFFICES ASSUME NEW j \in PairNumber
               PROVE  thread'[j] # 0 <=> \E s \in 1..(i' - 1) : FilePieces(s, x') = j
    BY DEF ThreadsStarted
  <2>1. CASE j = k
    BY <1>1, <1>2, <2>1
  <2>2. CASE j # k
    <3>1. thread'[j] = thread[j]
      BY <1>1, <1>2, <2>2
    <3>2. (\E s \in 1..(i' - 1) : FilePieces(s, x') = j)
             <=> (\E s \in 1..(i - 1) : FilePieces(s, x) = j)
      BY <1>1, <1>2, <2>2
    <3> QED
      BY <3>1, <3>2 DEF IInv, ThreadsStarted
  <2> QED
    BY <2>1, <2>2
<1>7. PlansSent'
  <2> SUFFICES ASSUME NEW s \in 1..(i' - 1)
               PROVE  sent'[s] = PutInfo(FilePieces(s, x'), size')
    BY DEF PlansSent
  <2>1. CASE s = i
    BY <1>1, <1>2, <2>1 DEF Server
  <2>2. CASE s # i
    <3>1. s \in 1..(i - 1) /\ sent'[s] = sent[s]
      BY <1>1, <1>2, <2>2 DEF Server
    <3> QED
      BY <1>2, <3>1 DEF IInv, PlansSent
  <2> QED
    BY <2>1, <2>2
<1> QED
  BY <1>4, <1>5, <1>6, <1>7 DEF IInv, ThreadsUsedOnce

(* After four iterations all four threads are there to be joined.          *)
LEMMA JoinThreadsIInv == IInv /\ JoinThreads => IInv'
<1> SUFFICES ASSUME IInv, JoinThreads PROVE IInv'
  OBVIOUS
<1>1. x \in HashValue /\ i = 5 /\ ~ended
  BY DEF IInv, TypeOK, JoinThreads
<1>2. \A k \in PairNumber : thread[k] # 0
  BY <1>1, TableIsPermutation DEF IInv, ThreadsStarted, Server
<1>3. ended' = FALSE /\ i' = 1
  BY <1>2 DEF JoinThreads
<1>4. NoPlan \in PlanInfo
  BY DEF NoPlan, PlanInfo
<1>5. TypeOK'
  BY <1>3, <1>4 DEF JoinThreads, TypeOK
<1>6. ThreadsStarted' /\ PlansSent'
  BY <1>3 DEF JoinThreads, ThreadsStarted, PlansSent
<1> QED
  BY <1>3, <1>5, <1>6 DEF IInv, ThreadsUsedOnce

LEMMA StutterIInv == IInv /\ UNCHANGED vars => IInv'
BY DEF IInv, vars, TypeOK, ThreadsUsedOnce, ThreadsStarted, PlansSent

THEOREM PutPlanInvariant == Spec => []IInv
<1>1. IInv /\ [Next]_vars => IInv'
  BY StartThreadIInv, JoinThreadsIInv, StutterIInv DEF Next
<1> QED
  BY InitIInv, <1>1, PTL DEF Spec

(* The variables of the loop stay in their ranges for every file size: no  *)
(* length or offset is ever negative, no part number leaves 1..4.          *)
THEOREM TypeCorrect == Spec => []TypeOK
BY PutPlanInvariant, PTL DEF IInv

(* No std::thread of Client::Put is assigned twice or joined unassigned.   *)
THEOREM NoThreadMisuse == Spec => []ThreadsUsedOnce
BY PutPlanInvariant, PTL DEF IInv

-----------------------------------------------------------------------------
(* Once all four plans are sent, a server is sent slice p of the file      *)
(* exactly if the table gives it part p.                                   *)
Slice(p) == [part |-> p, off |-> PartOffset(size, p), len |-> PartLength(size, p)]

LEMMA SlicesSent ==
  ASSUME IInv, Planned, NEW s \in Server
  PROVE  SentTo(s) = {Slice(p) : p \in PartsOf(s, x)}
<1>1. sent[s] = PutInfo(FilePieces(s, x), size)
  BY DEF IInv, PlansSent, Planned, Server
<1> QED
  BY <1>1 DEF SentTo, PutInfo, Slice, PartsOf

LEMMA PartsOfType ==
  ASSUME NEW h \in HashValue, NEW s \in Server
  PROVE  PartsOf(s, h) \subseteq Part
<1>1. FilePieces(s, h) \in PairNumber
  BY TableIsPermutation
<1> QED
  BY <1>1 DEF PartsOf, Pair, PairNumber, Part

LEMMA RedundancyFromPlans == IInv => EveryByteSurvivesOneServer
<1> SUFFICES ASSUME IInv, Planned, NEW b \in 0..(size - 1), NEW lost \in Server
             PROVE  \E s \in Server \ {lost} : Holds(s, b)
  BY DEF EveryByteSurvivesOneServer
<1>1. size \in Nat /\ x \in HashValue
  BY SizeIsNat DEF IInv, TypeOK
<1>2. PICK p \in Part : /\ PartOffset(size, p) <= b
                        /\ b < PartOffset(size, p) + PartLength(size, p)
  BY <1>1, EveryByteInAPart
<1>3. PICK s \in Server \ {lost} : p \in PartsOf(s, x)
  BY <1>1, EveryPartTwice
<1>4. Slice(p) \in SentTo(s)
  BY <1>3, SlicesSent
<1>5. Slice(p).off <= b /\ b < Slice(p).off + Slice(p).len
  BY <1>2 DEF Slice
<1> QED
  BY <1>3, <1>4, <1>5 DEF Holds

(* Every byte of a file of any size is sent to at least two servers.       *)
THEOREM Redundancy == Spec => []EveryByteSurvivesOneServer
BY PutPlanInvariant, RedundancyFromPlans, PTL

LEMMA AgreementFromPlans == IInv => CopiesAgree
<1> SUFFICES ASSUME IInv, Planned, NEW s \in Server, NEW t \in Server,
                    NEW a \in SentTo(s), NEW b \in SentTo(t), a.part = b.part
             PROVE  a = b
  BY DEF CopiesAgree
<1>1. PICK p \in PartsOf(s, x) : a = Slice(p)
  BY SlicesSent
<1>2. PICK q \in PartsOf(t, x) : b = Slice(q)
  BY SlicesSent
<1> QED
  BY <1>1, <1>2 DEF Slice

(* The two copies of a part are the same slice of the file.                *)
THEOREM Agreement == Spec => []CopiesAgree
BY PutPlanInvariant, AgreementFromPlans, PTL

LEMMA TilingFromPlans == IInv => PartsTileTheFile
<1> SUFFICES ASSUME IInv, Planned, NEW p \in Part
             PROVE  \E s \in Server : \E a \in SentTo(s) :
                      /\ a.part = p
                      /\ p = 1 => a.off = 0
                      /\ p = 4 => a.off + a.len = size
                      /\ p < 4 => \E t \in Server : \E b \in SentTo(t) :
                                    b.part = p + 1 /\ b.off = a.off + a.len
  BY DEF PartsTileTheFile
<1>1. size \in Nat /\ x \in HashValue
  BY SizeIsNat DEF IInv, TypeOK
<1>2. \A q \in Part : \E s \in Server : Slice(q) \in SentTo(s)
  <2> SUFFICES ASSUME NEW q \in Part PROVE \E s \in Server : Slice(q) \in SentTo(s)
    OBVIOUS
  <2>1. PICK s \in Server : q \in PartsOf(s, x)
    <3>1. 1 \in Server
      BY DEF Server
    <3> QED
      BY <1>1, <3>1, EveryPartTwice
  <2> QED
    BY <2>1, SlicesSent
<1>3. PICK s \in Server : Slice(p) \in SentTo(s)
  BY <1>2
<1>4. /\ p = 1 => Slice(p).off = 0
      /\ p = 4 => Slice(p).off + Slice(p).len = size
  BY <1>1, PartsTile DEF Slice
<1>5. p < 4 => \E t \in Server : \E b \in SentTo(t) :
                 b.part = p + 1 /\ b.off = Slice(p).off + Slice(p).len
  <2> SUFFICES ASSUME p < 4
               PROVE  \E t \in Server : \E b \in SentTo(t) :
                        b.part = p + 1 /\ b.off = Slice(p).off + Slice(p).len
    OBVIOUS
  <2>1. p + 1 \in Part /\ p \in 1..3
    BY DEF Part
  <2>2. PICK t \in Server : Slice(p + 1) \in SentTo(t)
    BY <1>2, <2>1
  <2>3. Slice(p + 1).part = p + 1 /\ Slice(p + 1).off = Slice(p).off + Slice(p).len
    BY <1>1, <2>1, PartsTile DEF Slice
  <2> QED
    BY <2>2, <2>3
<1>6. Slice(p).part = p
  BY DEF Slice
<1> QED
  BY <1>3, <1>4, <1>5, <1>6

(* Concatenating parts 1 to 4 gives back the file, whatever its size.      *)
THEOREM Tiling == Spec => []PartsTileTheFile
BY PutPlanInvariant, TilingFromPlans, PTL

-----------------------------------------------------------------------------
(* The program.                                                            *)

(* A step of the program is a step of the upload loop or leaves its        *)
(* variables alone.                                                        *)
LEMMA StepRefines == [ProgramNext]_programVars => [Next]_vars
<1>. SUFFICES ASSUME [ProgramNext]_programVars PROVE [Next]_vars
  OBVIOUS
<1>1. CASE UNCHANGED programVars
  BY <1>1 DEF programVars
<1>2. CASE ParseConfFile
  BY <1>2 DEF ParseConfFile, OpenConf, EndOfConf, SkipLine, ThrowOnEmptyLine, RefuseLine,
              CreateNewConnection, SetUser, SetPassword, Reading
<1>3. CASE CommandLoop
  BY <1>3 DEF CommandLoop, Dispatch, Upload, ListOrGetReturns, EndOfInput, Next
<1>4. CASE Return
  BY <1>4 DEF Return
<1>. QED BY <1>1, <1>2, <1>3, <1>4 DEF ProgramNext

LEMMA ProgramRunsTheLoop == ProgramSpec => Spec
<1>1. ProgramInit => Init
  BY DEF ProgramInit
<1>. QED BY <1>1, StepRefines, PTL DEF ProgramSpec, Spec

(* No sequence of commands ends the program by misusing a std::thread,     *)
(* whatever the configuration file holds and the user types (Client.cpp    *)
(* 58-122, DFS_Client.cpp 90-114).                                         *)
THEOREM ProgramUsesThreadsOnce == ProgramSpec => []ThreadsUsedOnce
BY ProgramRunsTheLoop, NoThreadMisuse, PTL

-----------------------------------------------------------------------------
AllInitialized == \A id \in DOMAIN manager : manager[id].initialized

(* Connection id was made from Server line number id.                      *)
MadeFromLine(id) ==
  \E n \in DOMAIN lines : /\ IsServer(lines[n]) /\ Cardinality(ServersUpTo(n)) = id
                          /\ manager[id].ip = lines[n][3] /\ manager[id].port = PortOf[lines[n][4]]

Lines == lines \in Seq(ConfLine) /\ Len(lines) <= MaxLines

Connections ==
  /\ foundServers = Cardinality(ServersUpTo(Len(lines)))
  /\ DOMAIN manager = 1..foundServers
  /\ \A id \in 1..foundServers : MadeFromLine(id) /\ manager[id].initialized \in BOOLEAN

Credentials == IsLastOf(user, IsUser) /\ IsLastOf(password, IsPass)

(* What main knows where it is.                                            *)
Phases ==
  /\ phase \in Phase
  /\ phase \in {"opening", "parsing", "prompt", "put", "working"} =>
       AllInitialized /\ \A n \in DOMAIN lines : WellFormed(lines[n])
  /\ Running => foundServers = 4

ProgramInv == Lines /\ Connections /\ Credentials /\ Phases

LEMMA InitProgramInv == ProgramInit => ProgramInv
<1>. SUFFICES ASSUME ProgramInit PROVE ProgramInv
  OBVIOUS
<1>1. lines = <<>> /\ Len(lines) = 0 /\ foundServers = 0 /\ manager = <<>> /\ phase = "opening"
  BY DEF ProgramInit
<1>2. ServersUpTo(Len(lines)) = {}
  BY <1>1 DEF ServersUpTo
<1>3. Connections
  BY <1>1, <1>2, FS_EmptySet DEF Connections
<1>4. Lines /\ Phases
  BY <1>1, ProgramAssumption DEF Lines, Phases, Phase, AllInitialized, Running
<1>5. Credentials
  BY <1>1 DEF ProgramInit, Credentials, IsLastOf
<1>. QED BY <1>3, <1>4, <1>5 DEF ProgramInv

-----------------------------------------------------------------------------
(* Reading one more line.                                                  *)
LEMMA ServersAreFinite ==
  ASSUME NEW n \in Nat
  PROVE  /\ IsFiniteSet(ServersUpTo(n)) /\ Cardinality(ServersUpTo(n)) \in Nat
         /\ Cardinality(ServersUpTo(n)) <= n
<1>1. IsFiniteSet(1..n) /\ Cardinality(1..n) = n
  BY FS_Interval
<1>2. ServersUpTo(n) \subseteq 1..n
  BY DEF ServersUpTo
<1>. QED BY <1>1, <1>2, FS_Subset, FS_CardinalityType

LEMMA OneMoreConfLine ==
  ASSUME Lines, NEW l \in ConfLine, Reading(l)
  PROVE  /\ Len(lines) \in Nat /\ Len(lines') = Len(lines) + 1 /\ Lines'
         /\ DOMAIN lines = 1..Len(lines) /\ DOMAIN lines' = 1..(Len(lines) + 1)
         /\ \A m \in 1..Len(lines) : lines'[m] = lines[m]
         /\ lines'[Len(lines) + 1] = l
BY ProgramAssumption DEF Lines, Reading

LEMMA OneMoreServer ==
  ASSUME Lines, NEW l \in ConfLine, Reading(l)
  PROVE  /\ \A n \in 1..Len(lines) : ServersUpTo(n)' = ServersUpTo(n)
         /\ Cardinality(ServersUpTo(Len(lines))) \in Nat
         /\ Cardinality(ServersUpTo(Len(lines)))'
              = Cardinality(ServersUpTo(Len(lines))) + IF IsServer(l) THEN 1 ELSE 0
<1>. USE OneMoreConfLine
<1>. DEFINE n == Len(lines)
<1>1. \A m \in 1..n : ServersUpTo(m)' = ServersUpTo(m)
  BY DEF ServersUpTo
<1>2. /\ IsFiniteSet(ServersUpTo(Len(lines))) /\ Len(lines) + 1 \notin ServersUpTo(Len(lines))
      /\ Cardinality(ServersUpTo(Len(lines))) \in Nat
  BY ServersAreFinite DEF ServersUpTo
<1>3. ServersUpTo(Len(lines))'
        = ServersUpTo(Len(lines)) \cup IF IsServer(l) THEN {Len(lines) + 1} ELSE {}
  <2>1. ASSUME NEW m
        PROVE  m \in ServersUpTo(Len(lines))'
                 <=> m \in ServersUpTo(Len(lines)) \/ (IsServer(l) /\ m = Len(lines) + 1)
    BY DEF ServersUpTo
  <2>. QED BY <2>1
<1>4. CASE IsServer(l)
  BY <1>1, <1>2, <1>3, <1>4, FS_AddElement
<1>5. CASE ~IsServer(l)
  BY <1>1, <1>2, <1>3, <1>5
<1>. QED BY <1>4, <1>5

(* The connections that were there are still those of their lines.         *)
LEMMA LinesStay ==
  ASSUME Lines, NEW l \in ConfLine, Reading(l), NEW id, MadeFromLine(id), manager'[id] = manager[id]
  PROVE  MadeFromLine(id)'
<1>1. PICK n \in DOMAIN lines :
        /\ IsServer(lines[n]) /\ Cardinality(ServersUpTo(n)) = id
        /\ manager[id].ip = lines[n][3] /\ manager[id].port = PortOf[lines[n][4]]
  BY DEF MadeFromLine
<1>2. n \in DOMAIN lines' /\ lines'[n] = lines[n] /\ ServersUpTo(n)' = ServersUpTo(n)
  BY OneMoreConfLine, OneMoreServer
<1>. QED BY <1>1, <1>2 DEF MadeFromLine

(* A line that is no Server line leaves the connections alone.             *)
LEMMA NoServerLine ==
  ASSUME ProgramInv, NEW l \in ConfLine, Reading(l), ~IsServer(l), UNCHANGED <<foundServers, manager>>
  PROVE  Lines' /\ Connections'
<1>1. Lines /\ Connections
  BY DEF ProgramInv
<1>2. foundServers' = Cardinality(ServersUpTo(Len(lines)))'
  BY <1>1, OneMoreServer DEF Connections
<1>3. \A id \in 1..foundServers : MadeFromLine(id)'
  BY <1>1, LinesStay DEF Connections
<1>. QED BY <1>1, <1>2, <1>3, OneMoreConfLine DEF Connections

(* The last line of a kind, after one more line that is of the kind or not.*)
LEMMA LastStays ==
  ASSUME ProgramInv, NEW l \in ConfLine, Reading(l)
  PROVE  /\ ~IsUser(l) => \A w : IsLastOf(w, IsUser) => IsLastOf(w, IsUser)'
         /\ ~IsPass(l) => \A w : IsLastOf(w, IsPass) => IsLastOf(w, IsPass)'
         /\ IsUser(l) => IsLastOf(l[2], IsUser)'
         /\ IsPass(l) => IsLastOf(l[2], IsPass)'
<1>1. /\ Len(lines) \in Nat /\ Len(lines') = Len(lines) + 1
      /\ DOMAIN lines = 1..Len(lines) /\ DOMAIN lines' = 1..(Len(lines) + 1)
      /\ \A m \in 1..Len(lines) : lines'[m] = lines[m]
      /\ lines'[Len(lines) + 1] = l
  BY OneMoreConfLine DEF ProgramInv
<1>2. ASSUME ~IsUser(l), NEW w, IsLastOf(w, IsUser) PROVE IsLastOf(w, IsUser)'
  BY <1>1, <1>2 DEF IsLastOf
<1>3. ASSUME ~IsPass(l), NEW w, IsLastOf(w, IsPass) PROVE IsLastOf(w, IsPass)'
  BY <1>1, <1>3 DEF IsLastOf
<1>4. IsUser(l) => IsLastOf(l[2], IsUser)'
  BY <1>1 DEF IsLastOf
<1>5. IsPass(l) => IsLastOf(l[2], IsPass)'
  BY <1>1 DEF IsLastOf
<1>. QED BY <1>2, <1>3, <1>4, <1>5

(* Each line is of one kind.                                               *)
LEMMA KindsOfLines ==
  ASSUME NEW l
  PROVE  /\ IsServer(l) => ~IsUser(l) /\ ~IsPass(l)
         /\ IsUser(l) => ~IsPass(l)
         /\ Malformed(l) \/ l = EmptyLine => ~IsServer(l) /\ ~IsUser(l) /\ ~IsPass(l)
         /\ l # EmptyLine /\ ~Malformed(l) => WellFormed(l)
<1>1. /\ IsServer(l) => ~IsUser(l) /\ ~IsPass(l)
      /\ IsUser(l) => ~IsPass(l)
  BY DEF IsServer, IsUser, IsPass, Has
<1>2. Malformed(l) \/ l = EmptyLine => ~IsServer(l) /\ ~IsUser(l) /\ ~IsPass(l)
  BY DEF IsServer, IsUser, IsPass, Malformed, Has
<1>3. l # EmptyLine /\ ~Malformed(l) => WellFormed(l)
  BY DEF IsServer, IsUser, IsPass, Malformed, WellFormed, ReadsPort
<1>. QED BY <1>1, <1>2, <1>3

(* A well-formed line keeps all of them well formed.                       *)
LEMMA StillWellFormed ==
  ASSUME ProgramInv, NEW l \in ConfLine, Reading(l), l # EmptyLine, ~Malformed(l)
  PROVE  \A n \in DOMAIN lines' : WellFormed(lines'[n])
<1>1. phase = "parsing" /\ \A n \in DOMAIN lines : WellFormed(lines[n])
  BY DEF ProgramInv, Phases, Reading
<1>2. WellFormed(l)
  BY KindsOfLines
<1>3. Lines
  BY DEF ProgramInv
<1>. QED BY <1>1, <1>2, <1>3, OneMoreConfLine

(* CreateNewConnection: the next id is that of the line just read.         *)
LEMMA OneMoreConnection ==
  ASSUME ProgramInv, NEW l \in ConfLine, CreateNewConnection(l)
  PROVE  ProgramInv'
<1>1. /\ Reading(l) /\ IsServer(l) /\ foundServers' = foundServers + 1
      /\ phase = "parsing" /\ UNCHANGED <<user, password>>
  BY DEF CreateNewConnection, Reading
<1>2. PICK ok \in BOOLEAN :
        /\ manager' = [id \in (DOMAIN manager) \cup {NextId} |->
                         IF id \in DOMAIN manager THEN manager[id] ELSE NewConnection(l, ok)]
        /\ phase' = IF ok THEN "parsing" ELSE "leaving"
  BY DEF CreateNewConnection
<1>3. Lines /\ Connections /\ Credentials /\ Phases
  BY DEF ProgramInv
<1>4. /\ foundServers \in Nat /\ foundServers' = Cardinality(ServersUpTo(Len(lines)))'
      /\ DOMAIN manager = 1..foundServers
  BY <1>1, <1>3, OneMoreServer DEF Connections
<1>5. /\ DOMAIN manager' = 1..foundServers'
      /\ \A id \in 1..foundServers : manager'[id] = manager[id]
      /\ manager'[foundServers + 1] = NewConnection(l, ok)
  BY <1>1, <1>2, <1>4 DEF NextId
<1>6. ASSUME NEW id, id = foundServers + 1, NEW n, n = Len(lines) + 1 PROVE MadeFromLine(id)'
  <2>1. n \in DOMAIN lines' /\ lines'[n] = l
    BY <1>1, <1>3, <1>6, OneMoreConfLine
  <2>2. /\ NewConnection(l, ok).ip = l[3] /\ NewConnection(l, ok).port = PortOf[l[4]]
    BY DEF NewConnection
  <2>3. Cardinality(ServersUpTo(n)') = id
    <3>1. ServersUpTo(n)' = ServersUpTo(Len(lines))'
      <4>1. n = Len(lines')
        BY <1>1, <1>3, <1>6, OneMoreConfLine
      <4>. QED BY <4>1 DEF ServersUpTo
    <3>. QED BY <1>1, <1>4, <1>6, <3>1
  <2>4. manager'[id] = NewConnection(l, ok)
    BY <1>5, <1>6
  <2>. QED BY <1>1, <2>1, <2>2, <2>3, <2>4 DEF MadeFromLine
<1>7. Connections'
  <2>1. ASSUME NEW id \in 1..foundServers'
        PROVE  MadeFromLine(id)' /\ manager'[id].initialized \in BOOLEAN
    <3>1. CASE id \in 1..foundServers
      <4>1. MadeFromLine(id) /\ manager[id].initialized \in BOOLEAN /\ manager'[id] = manager[id]
        BY <1>3, <1>5, <3>1 DEF Connections
      <4>. QED BY <1>1, <1>3, <4>1, LinesStay
    <3>2. CASE id = foundServers + 1
      <4>1. manager'[id].initialized \in BOOLEAN
        BY <1>5, <3>2 DEF NewConnection
      <4>2. MadeFromLine(id)'
        BY <1>1, <1>6, <3>2
      <4>. QED BY <4>1, <4>2
    <3>. QED BY <1>1, <1>4, <3>1, <3>2
  <2>. QED BY <1>4, <1>5, <2>1 DEF Connections
<1>8. Credentials'
  BY <1>1, <1>3, LastStays, KindsOfLines DEF Credentials
<1>9. Phases'
  <2>1. phase' = "parsing" => AllInitialized'
    BY <1>1, <1>2, <1>3, <1>4, <1>5 DEF Phases, AllInitialized, NewConnection
  <2>2. \A n \in DOMAIN lines' : WellFormed(lines'[n])
    BY <1>1, StillWellFormed DEF IsServer, Has, Malformed
  <2>. QED BY <1>2, <2>1, <2>2 DEF Phases, Phase, Running
<1>10. Lines'
  BY <1>1, <1>3, OneMoreConfLine
<1>. QED BY <1>7, <1>8, <1>9, <1>10 DEF ProgramInv

-----------------------------------------------------------------------------
LEMMA ConfUnchanged ==
  ASSUME Lines, Connections, Credentials,
         UNCHANGED <<lines, foundServers, manager, user, password>>
  PROVE  Lines' /\ Connections' /\ Credentials'
<1>1. \A n : ServersUpTo(n)' = ServersUpTo(n)
  BY DEF ServersUpTo
<1>2. \A id : MadeFromLine(id) => MadeFromLine(id)'
  BY <1>1 DEF MadeFromLine
<1>3. Lines'
  BY DEF Lines
<1>4. Cardinality(ServersUpTo(Len(lines)))' = Cardinality(ServersUpTo(Len(lines)))
  BY DEF ServersUpTo
<1>5. Connections'
  BY <1>2, <1>4 DEF Connections
<1>6. Credentials'
  BY DEF Credentials, IsLastOf
<1>. QED BY <1>3, <1>5, <1>6

(* main moves, and the configuration stays as it is.                       *)
LEMMA MainMoves ==
  ASSUME ProgramInv, UNCHANGED confVars, phase' \in Phase,
         \/ phase' \notin {"opening", "parsing", "prompt", "put", "working"}
         \/ Running
         \/ phase = "opening" /\ phase' = "parsing"
         \/ phase = "parsing" /\ phase' = "prompt" /\ foundServers = 4
  PROVE  ProgramInv'
<1>1. UNCHANGED <<lines, foundServers, manager, user, password>>
  BY DEF confVars
<1>2. Lines' /\ Connections' /\ Credentials'
  BY <1>1, ConfUnchanged DEF ProgramInv
<1>3. Phases'
  BY <1>1 DEF ProgramInv, Phases, AllInitialized, Running
<1>. QED BY <1>2, <1>3 DEF ProgramInv

LEMMA NextProgramInv == ProgramInv /\ [ProgramNext]_programVars => ProgramInv'
<1>. SUFFICES ASSUME ProgramInv, [ProgramNext]_programVars PROVE ProgramInv'
  OBVIOUS
<1>0. phase \in Phase
  BY DEF ProgramInv, Phases
<1>1. CASE UNCHANGED programVars
  <2>1. UNCHANGED <<phase, lines, foundServers, manager, user, password>>
    BY <1>1 DEF programVars, confVars
  <2>2. Phases'
    BY <2>1 DEF ProgramInv, Phases, AllInitialized, Running
  <2>. QED BY <2>1, <2>2, ConfUnchanged DEF ProgramInv
<1>2. CASE OpenConf
  BY <1>2, MainMoves DEF OpenConf, Phase
<1>3. CASE EndOfConf
  BY <1>3, MainMoves DEF EndOfConf, AllFound, Phase
<1>4. ASSUME NEW l \in ConfLine, SkipLine(l) PROVE ProgramInv'
  <2>1. /\ Reading(l) /\ l # EmptyLine /\ ~Malformed(l) /\ ~IsServer(l) /\ ~IsUser(l) /\ ~IsPass(l)
        /\ UNCHANGED <<phase, foundServers, manager, user, password>> /\ phase = "parsing"
    BY <1>4 DEF SkipLine, Reading
  <2>2. Credentials'
    BY <2>1, LastStays DEF ProgramInv, Credentials
  <2>3. Phases'
    BY <2>1, StillWellFormed DEF ProgramInv, Phases, AllInitialized, Running
  <2>. QED BY <2>1, <2>2, <2>3, NoServerLine DEF ProgramInv
<1>5. ASSUME NEW l \in ConfLine, ThrowOnEmptyLine(l) \/ RefuseLine(l) PROVE ProgramInv'
  <2>1. /\ Reading(l) /\ phase' \in {"aborted", "leaving"} /\ (Malformed(l) \/ l = EmptyLine)
        /\ UNCHANGED <<foundServers, manager, user, password>>
    BY <1>5 DEF ThrowOnEmptyLine, RefuseLine
  <2>2. ~IsServer(l) /\ ~IsUser(l) /\ ~IsPass(l)
    BY <2>1, KindsOfLines
  <2>3. Credentials'
    BY <2>1, <2>2, LastStays DEF ProgramInv, Credentials
  <2>4. Phases'
    BY <2>1 DEF Phases, Phase, Running
  <2>. QED BY <2>1, <2>2, <2>3, <2>4, NoServerLine DEF ProgramInv
<1>6. ASSUME NEW l \in ConfLine, SetUser(l) \/ SetPassword(l) PROVE ProgramInv'
  <2>1. /\ Reading(l) /\ (IsUser(l) \/ IsPass(l)) /\ phase = "parsing"
        /\ UNCHANGED <<phase, foundServers, manager>>
    BY <1>6 DEF SetUser, SetPassword, Reading
  <2>2. /\ ~IsServer(l) /\ l # EmptyLine /\ ~Malformed(l)
        /\ user' = IF IsUser(l) THEN l[2] ELSE user
        /\ password' = IF IsPass(l) THEN l[2] ELSE password
    BY <1>6, <2>1, KindsOfLines DEF SetUser, SetPassword
  <2>3. Credentials'
    BY <2>1, <2>2, LastStays DEF ProgramInv, Credentials
  <2>4. Phases'
    BY <2>1, <2>2, StillWellFormed DEF ProgramInv, Phases, AllInitialized, Running
  <2>. QED BY <2>1, <2>2, <2>3, <2>4, NoServerLine DEF ProgramInv
<1>7. ASSUME NEW l \in ConfLine, CreateNewConnection(l) PROVE ProgramInv'
  BY <1>7, OneMoreConnection
<1>8. CASE CommandLoop
  <2>1. Running /\ phase' \in Phase /\ UNCHANGED confVars
    BY <1>8 DEF CommandLoop, Dispatch, Upload, ListOrGetReturns, EndOfInput, Running, Phase
  <2>. QED BY <2>1, MainMoves
<1>9. CASE Return
  <2>1. phase' \in {"returned", "aborted"} /\ UNCHANGED confVars
    BY <1>9 DEF Return
  <2>. QED BY <2>1, MainMoves DEF Phase
<1>. QED BY <1>1, <1>2, <1>3, <1>4, <1>5, <1>6, <1>7, <1>8, <1>9 DEF ProgramNext, ParseConfFile

LEMMA ProgramInvHolds == ProgramSpec => []ProgramInv
BY InitProgramInv, NextProgramInv, PTL DEF ProgramSpec

(* Whatever the configuration file holds and the user types, connections
   are numbered from 1 without gaps and each has a port that is a short
   (Client.cpp 312-406, Connection.cpp 340-346).                           *)
THEOREM ProgramIsTyped == ProgramSpec => []ProgramTypeOK
<1>1. ProgramInv => ProgramTypeOK
  <2>. SUFFICES ASSUME ProgramInv PROVE ProgramTypeOK
    OBVIOUS
  <2>1. Lines /\ Connections /\ phase \in Phase
    BY DEF ProgramInv, Phases
  <2>2. foundServers \in 0..MaxLines
    <3>1. Len(lines) \in Nat /\ Len(lines) <= MaxLines /\ MaxLines \in Nat
      BY <2>1, ProgramAssumption DEF Lines
    <3>. QED BY <2>1, <3>1, ServersAreFinite DEF Connections
  <2>3. ASSUME NEW id \in 1..foundServers PROVE manager[id].port \in Short
    <3>1. PICK n \in DOMAIN lines : IsServer(lines[n]) /\ manager[id].port = PortOf[lines[n][4]]
      BY <2>1 DEF Connections, MadeFromLine
    <3>. QED BY <3>1 DEF IsServer, ReadsPort
  <2>. QED BY <2>1, <2>2, <2>3 DEF Connections, ProgramTypeOK
<1>. QED BY <1>1, ProgramInvHolds, PTL

(* A program that takes commands is configured as its file says: nothing
   malformed was read, server i of the upload loop is the i-th of four
   Server lines, and user and password are the last that were given
   (Client.cpp 312-406, Connection.cpp 340-346).                           *)
THEOREM FileConfigures == ProgramSpec => []ConfiguredAsWritten
<1>1. ProgramInv => ConfiguredAsWritten
  <2>. SUFFICES ASSUME ProgramInv, Running PROVE ConfiguredAsWritten
    BY DEF ConfiguredAsWritten
  <2>1. foundServers = 4 /\ Connections /\ \A n \in DOMAIN lines : WellFormed(lines[n])
    BY DEF ProgramInv, Phases, Running
  <2>2. \A id \in Server : MadeFromLine(id)
    BY <2>1 DEF Connections, Server
  <2>. QED BY <2>1, <2>2 DEF ConfiguredAsWritten, Connections, MadeFromLine, ProgramInv, Credentials
<1>. QED BY <1>1, ProgramInvHolds, PTL

(* Whatever the configuration file holds and the user types, a command     *)
(* that asks for connection 1, 2, 3 or 4 gets one that was initialized:    *)
(* m_manager.Get never returns NULL to Put, List or Get.                   *)
THEOREM NoNullConnection == ProgramSpec => []CommandsFindConnections
<1>1. ProgramInv => CommandsFindConnections
  BY DEF ProgramInv, Phases, Connections, CommandsFindConnections, AllInitialized, Running, Server
<1>. QED BY <1>1, ProgramInvHolds, PTL
=============================================================================
