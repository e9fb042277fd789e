--------------------------- MODULE LoggingProofs ---------------------------
(***************************************************************************)
(* Logging for any number of threads, levels and pieces: at most one       *)
(* thread holds a lock, lines are never mixed or cut short, the log file   *)
(* follows the terminal, and a thread's lines are there in their order.    *)
(***************************************************************************)
EXTENDS Logging, TLAPS, FiniteSetTheorems

PieceRec == [thread : Thread, number : Nat, piece : Nat]
LineRec  == [level : Level, pieces : Seq(PieceRec)]

(* The first m pieces of a statement.                                      *)
FirstPieces(t, n, m) == [k \in 1..m |-> Piece(t, n, k)]

VarTypes ==
  /\ pc \in [Thread -> Pc]
  /\ number \in [Thread -> Nat]
  /\ level \in [Thread -> Level]
  /\ proceed \in [Thread -> BOOLEAN]
  /\ count \in [Level -> Nat]
  /\ broken \in BOOLEAN /\ alive \in BOOLEAN
  /\ interrupted \in Pc \cup {"no"}
  /\ owner \in [Lock -> Thread \cup {Nobody}]

(* A lock has at most one holder, and Main does not take it a second time. *)
Locked ==
  \A k \in Lock : /\ \A t \in Thread : owner[k] = t <=> Holds(t, k)
                  /\ ~(pc[Main] \in Within[k] /\ interrupted \in Within[k])

OutTypes ==
  /\ stream \in Seq(PieceRec)
  /\ message \in [Thread -> Seq(PieceRec)]
  /\ terminal \in Seq(LineRec)
  /\ ~broken => buffer \in Seq(LineRec) /\ disk \in Seq(LineRec)

(* What is in the stream belongs to the holder of the logger.              *)
StreamOfHolder ==
  /\ owner["logger"] = Nobody => stream = <<>>
  /\ \A t \in Thread :
       pc[t] = "building" => /\ Len(stream) <= Pieces
                             /\ stream = FirstPieces(t, number[t], Len(stream))

Dispatching == {"dispatch", "callback", "write", "print", "leave"}
MessagesWhole ==
  \A t \in Thread : pc[t] \in Dispatching => message[t] = Whole(t, number[t])

WholeLine(line) == \E t \in Thread : \E n \in 1..number[t] : line.pieces = Whole(t, n)
AllWhole(out) == \A j \in DOMAIN out : WholeLine(out[j])

Begun == \A t \in Thread : pc[t] \notin {"idle"} => number[t] >= 1

OutputWhole ==
  /\ AllWhole(terminal)
  /\ ~broken => AllWhole(buffer) /\ AllWhole(disk)

LockInv == VarTypes /\ Locked
LogInv  == LockInv /\ OutTypes /\ Begun /\ StreamOfHolder /\ MessagesWhole /\ OutputWhole

-----------------------------------------------------------------------------
(* A step of thread t that neither takes nor gives back a lock.            *)
LEMMA MoveInside ==
  ASSUME LockInv, NEW t \in Thread, NEW to \in Pc,
         pc' = [pc EXCEPT ![t] = to], UNCHANGED <<owner, interrupted>>,
         \A k \in Lock : pc[t] \in Within[k] <=> to \in Within[k]
  PROVE  Locked'
<1>1. pc \in [Thread -> Pc] /\ Main \in Thread
  BY LoggingAssumption DEF LockInv, VarTypes
<1>2. ASSUME NEW k \in Lock, NEW u \in Thread
      PROVE  /\ Holds(u, k)' <=> Holds(u, k)
             /\ pc'[u] \in Within[k] <=> pc[u] \in Within[k]
  BY <1>1 DEF Holds
<1>3. QED
  BY <1>1, <1>2 DEF LockInv, Locked

(* A step of thread t that takes the free lock a.                          *)
LEMMA MoveAcquire ==
  ASSUME LockInv, NEW t \in Thread, NEW to \in Pc, NEW a \in Lock,
         pc' = [pc EXCEPT ![t] = to], UNCHANGED interrupted, Acquire(t, a),
         to \in Within[a],
         \A k \in Lock \ {a} : pc[t] \in Within[k] <=> to \in Within[k]
  PROVE  Locked'
<1>1. /\ pc \in [Thread -> Pc] /\ owner \in [Lock -> Thread \cup {Nobody}]
      /\ Main \in Thread /\ Nobody \notin Thread
  BY LoggingAssumption DEF LockInv, VarTypes
<1>2. \A u \in Thread : ~Holds(u, a)
  BY <1>1 DEF LockInv, Locked, Acquire
<1>3. ASSUME NEW k \in Lock, NEW u \in Thread
      PROVE  owner'[k] = u <=> Holds(u, k)'
  <2>1. CASE k = a
    BY <1>1, <1>2, <2>1 DEF Holds, Acquire
  <2>2. CASE k # a
    BY <1>1, <2>2 DEF Holds, Acquire, LockInv, Locked
  <2> QED BY <2>1, <2>2
<1>4. ASSUME NEW k \in Lock
      PROVE  ~(pc'[Main] \in Within[k] /\ interrupted' \in Within[k])
  <2>1. CASE k = a
    BY <1>1, <1>2, <2>1 DEF Holds
  <2>2. CASE k # a
    BY <1>1, <2>2 DEF LockInv, Locked
  <2> QED BY <2>1, <2>2
<1>5. QED
  BY <1>3, <1>4 DEF Locked

(* A step of thread t that gives back the locks K.                         *)
LEMMA MoveRelease ==
  ASSUME LockInv, NEW t \in Thread, NEW to \in Pc, NEW K \in SUBSET Lock,
         pc' = [pc EXCEPT ![t] = to], UNCHANGED interrupted, Release(K),
         \A k \in K : pc[t] \in Within[k] /\ to \notin Within[k],
         \A k \in Lock \ K : pc[t] \in Within[k] <=> to \in Within[k]
  PROVE  Locked'
<1>1. /\ pc \in [Thread -> Pc] /\ owner \in [Lock -> Thread \cup {Nobody}]
      /\ Main \in Thread /\ Nobody \notin Thread
  BY LoggingAssumption DEF LockInv, VarTypes
<1>2. ASSUME NEW k \in Lock, NEW u \in Thread
      PROVE  owner'[k] = u <=> Holds(u, k)'
  <2>1. CASE k \in K
    <3>1. owner[k] = t /\ owner'[k] = Nobody
      BY <1>1, <2>1 DEF LockInv, Locked, Holds, Release
    <3>2. CASE u = t
      BY <1>1, <2>1, <3>1, <3>2 DEF LockInv, Locked, Holds
    <3>3. CASE u # t
      BY <1>1, <2>1, <3>1, <3>3 DEF LockInv, Locked, Holds
    <3> QED BY <3>2, <3>3
  <2>2. CASE k \notin K
    BY <1>1, <2>2 DEF Holds, Release, LockInv, Locked
  <2> QED BY <2>1, <2>2
<1>3. ASSUME NEW k \in Lock
      PROVE  ~(pc'[Main] \in Within[k] /\ interrupted' \in Within[k])
  BY <1>1 DEF LockInv, Locked
<1>4. QED
  BY <1>2, <1>3 DEF Locked

-----------------------------------------------------------------------------
(* Where the locks are, place by place.                                    *)
LEMMA WithinTable ==
  /\ \A p \in {"no", "idle", "lookup", "construct"} : \A k \in Lock : p \notin Within[k]
  /\ \A k \in Lock : /\ "found" \in Within[k] <=> k = "registry"
                     /\ "building" \in Within[k] <=> k = "logger"
                     /\ "dispatch" \in Within[k] <=> k = "logger"
                     /\ "release" \in Within[k] <=> k = "logger"
                     /\ "callback" \in Within[k] <=> k \in {"logger", "storage"}
                     /\ "write" \in Within[k] <=> k \in {"logger", "storage", "callback"}
                     /\ "print" \in Within[k] <=> k \in {"logger", "storage", "callback"}
                     /\ "leave" \in Within[k] <=> k \in {"logger", "storage", "callback"}
<1>1. /\ Within["registry"] = {"found"}
      /\ Within["logger"] = {"building", "dispatch", "callback", "write", "print", "leave",
                             "release"}
      /\ Within["storage"] = {"callback", "write", "print", "leave"}
      /\ Within["callback"] = {"write", "print", "leave"}
  BY DEF Within
<1>2. QED
  BY <1>1 DEF Lock

LEMMA InitLogInv == Init => LogInv
<1>. SUFFICES ASSUME Init PROVE LogInv
  OBVIOUS
<1>1. VarTypes
  BY LoggingAssumption DEF Init, VarTypes, Pc
<1>2. Locked
  BY LoggingAssumption, WithinTable DEF Init, Locked, Holds
<1>3. OutTypes /\ Begun /\ StreamOfHolder /\ MessagesWhole /\ OutputWhole
  BY DEF Init, OutTypes, Begun, StreamOfHolder, MessagesWhole, Dispatching, OutputWhole, AllWhole
<1>. QED BY <1>1, <1>2, <1>3 DEF LogInv, LockInv

(* The statement of a thread leaves the types and the locks in order.      *)
LEMMA NextLockInv == LockInv /\ [Next]_vars => LockInv'
<1>. SUFFICES ASSUME LockInv, [Next]_vars PROVE LockInv'
  OBVIOUS
<1>0. VarTypes /\ Main \in Thread /\ Nobody \notin Thread
  BY LoggingAssumption DEF LockInv
<1>t. CASE UNCHANGED vars
  BY <1>t DEF LockInv, VarTypes, Locked, Holds, vars, threadVars, outputVars, signalVars
<1>1. ASSUME NEW t \in Thread, NEW l \in Level, Begin(t, l) PROVE LockInv'
  <2>1. VarTypes'
    BY <1>0, <1>1 DEF Begin, Starts, VarTypes, Goes, Pc, threadVars, outputVars, signalVars
  <2>2. /\ pc[t] = "idle" /\ pc' = [pc EXCEPT ![t] = "lookup"]
        /\ UNCHANGED <<owner, interrupted>>
    BY <1>1 DEF Begin, Starts, Goes, signalVars
  <2>3. "lookup" \in Pc /\ \A k \in Lock : "idle" \in Within[k] <=> "lookup" \in Within[k]
    BY WithinTable DEF Pc
  <2>4. Locked'
    BY <2>2, <2>3, MoveInside
  <2>. QED BY <2>1, <2>4 DEF LockInv
<1>2. ASSUME NEW t \in Thread, Lookup(t) PROVE LockInv'
  <2>1. VarTypes'
    BY <1>0, <1>2 DEF Lookup, VarTypes, Goes, Pc, threadVars, outputVars, signalVars, Acquire
  <2>2. /\ pc[t] = "lookup" /\ pc' = [pc EXCEPT ![t] = "found"]
        /\ Acquire(t, "registry") /\ UNCHANGED interrupted
    BY <1>2 DEF Lookup, Goes, signalVars
  <2>3. /\ "found" \in Pc /\ "registry" \in Lock /\ "found" \in Within["registry"]
        /\ \A k \in Lock \ {"registry"} : "lookup" \in Within[k] <=> "found" \in Within[k]
    BY WithinTable DEF Pc, Lock
  <2>4. Locked'
    BY <2>2, <2>3, MoveAcquire
  <2>. QED BY <2>1, <2>4 DEF LockInv
<1>3. ASSUME NEW t \in Thread, Found(t) PROVE LockInv'
  <2>1. VarTypes'
    BY <1>0, <1>3 DEF Found, VarTypes, Goes, Pc, threadVars, outputVars, signalVars, Release
  <2>2. /\ pc[t] = "found" /\ pc' = [pc EXCEPT ![t] = "construct"]
        /\ Release({"registry"}) /\ UNCHANGED interrupted
    BY <1>3 DEF Found, Goes, signalVars
  <2>3. /\ "construct" \in Pc /\ {"registry"} \in SUBSET Lock
        /\ \A k \in {"registry"} : "found" \in Within[k] /\ "construct" \notin Within[k]
        /\ \A k \in Lock \ {"registry"} : "found" \in Within[k] <=> "construct" \in Within[k]
    BY WithinTable DEF Pc, Lock
  <2>4. Locked'
    BY <2>2, <2>3, MoveRelease, ZenonT(40)
  <2>. QED BY <2>1, <2>4 DEF LockInv
<1>4. ASSUME NEW t \in Thread, initializeLogger(t) PROVE LockInv'
  <2>1. VarTypes'
    <3>1. proceed' \in [Thread -> BOOLEAN]
      <4>. DEFINE b == level[t] \in Enabled
      <4>1. b \in BOOLEAN /\ proceed' = [proceed EXCEPT ![t] = b]
        BY <1>4 DEF initializeLogger
      <4>. HIDE DEF b
      <4>. QED BY <1>0, <4>1 DEF VarTypes
    <3>2. pc' \in [Thread -> Pc] /\ owner' \in [Lock -> Thread \cup {Nobody}]
      BY <1>0, <1>4 DEF initializeLogger, VarTypes, Goes, Pc, Acquire
    <3>. QED BY <1>0, <1>4, <3>1, <3>2 DEF initializeLogger, VarTypes, outputVars, signalVars
  <2>2. /\ pc[t] = "construct" /\ pc' = [pc EXCEPT ![t] = "building"]
        /\ Acquire(t, "logger") /\ UNCHANGED interrupted
    BY <1>4 DEF initializeLogger, Goes, signalVars
  <2>3. /\ "building" \in Pc /\ "logger" \in Lock /\ "building" \in Within["logger"]
        /\ \A k \in Lock \ {"logger"} : "construct" \in Within[k] <=> "building" \in Within[k]
    BY WithinTable DEF Pc, Lock
  <2>4. Locked'
    BY <2>2, <2>3, MoveAcquire
  <2>. QED BY <2>1, <2>4 DEF LockInv
<1>5. ASSUME NEW t \in Thread, Insert(t) PROVE LockInv'
  <2>1. VarTypes'
    BY <1>0, <1>5 DEF Insert, VarTypes, Goes, Pc, threadVars, outputVars, signalVars
  <2>2. /\ pc[t] = "building" /\ pc' = [pc EXCEPT ![t] = "building"]
        /\ UNCHANGED <<owner, interrupted>>
    BY <1>5 DEF Insert, Goes, signalVars
  <2>3. "building" \in Pc /\ \A k \in Lock : "building" \in Within[k] <=> "building" \in Within[k]
    BY WithinTable DEF Pc
  <2>4. Locked'
    BY <2>2, <2>3, MoveInside
  <2>. QED BY <2>1, <2>4 DEF LockInv
<1>6. ASSUME NEW t \in Thread, DropMessage(t) PROVE LockInv'
  <2>1. VarTypes'
    BY <1>0, <1>6 DEF DropMessage, VarTypes, Goes, Pc, threadVars, outputVars, signalVars, Release
  <2>2. /\ pc[t] = "building" /\ pc' = [pc EXCEPT ![t] = "idle"]
        /\ Release({"logger"}) /\ UNCHANGED interrupted
    BY <1>6 DEF DropMessage, Goes, signalVars
  <2>3. /\ "idle" \in Pc /\ {"logger"} \in SUBSET Lock
        /\ \A k \in {"logger"} : "building" \in Within[k] /\ "idle" \notin Within[k]
        /\ \A k \in Lock \ {"logger"} : "building" \in Within[k] <=> "idle" \in Within[k]
    BY WithinTable DEF Pc, Lock
  <2>4. Locked'
    BY <2>2, <2>3, MoveRelease, ZenonT(40)
  <2>. QED BY <2>1, <2>4 DEF LockInv
<1>7. ASSUME NEW t \in Thread, triggerDispatch(t) PROVE LockInv'
  <2>1. VarTypes'
    BY <1>0, <1>7 DEF triggerDispatch, VarTypes, Goes, Pc, threadVars, outputVars, signalVars
  <2>2. /\ pc[t] = "building" /\ pc' = [pc EXCEPT ![t] = "dispatch"]
        /\ UNCHANGED <<owner, interrupted>>
    BY <1>7 DEF triggerDispatch, Goes, signalVars
  <2>3. "dispatch" \in Pc /\ \A k \in Lock : "building" \in Within[k] <=> "dispatch" \in Within[k]
    BY WithinTable DEF Pc
  <2>4. Locked'
    BY <2>2, <2>3, MoveInside
  <2>. QED BY <2>1, <2>4 DEF LockInv
<1>8. ASSUME NEW t \in Thread, dispatch(t) PROVE LockInv'
  <2>1. VarTypes'
    BY <1>0, <1>8 DEF dispatch, VarTypes, Goes, Pc, threadVars, outputVars, signalVars, Acquire
  <2>2. /\ pc[t] = "dispatch" /\ pc' = [pc EXCEPT ![t] = "callback"]
        /\ Acquire(t, "storage") /\ UNCHANGED interrupted
    BY <1>8 DEF dispatch, Goes, signalVars
  <2>3. /\ "callback" \in Pc /\ "storage" \in Lock /\ "callback" \in Within["storage"]
        /\ \A k \in Lock \ {"storage"} : "dispatch" \in Within[k] <=> "callback" \in Within[k]
    BY WithinTable DEF Pc, Lock
  <2>4. Locked'
    BY <2>2, <2>3, MoveAcquire
  <2>. QED BY <2>1, <2>4 DEF LockInv
<1>9. ASSUME NEW t \in Thread, acquireCallback(t) PROVE LockInv'
  <2>1. VarTypes'
    BY <1>0, <1>9 DEF acquireCallback, VarTypes, Goes, Pc, threadVars, outputVars, signalVars, Acquire
  <2>2. /\ pc[t] = "callback" /\ pc' = [pc EXCEPT ![t] = "write"]
        /\ Acquire(t, "callback") /\ UNCHANGED interrupted
    BY <1>9 DEF acquireCallback, Goes, signalVars
  <2>3. /\ "write" \in Pc /\ "callback" \in Lock /\ "write" \in Within["callback"]
        /\ \A k \in Lock \ {"callback"} : "callback" \in Within[k] <=> "write" \in Within[k]
    BY WithinTable DEF Pc, Lock
  <2>4. Locked'
    BY <2>2, <2>3, MoveAcquire
  <2>. QED BY <2>1, <2>4 DEF LockInv
<1>10. ASSUME NEW t \in Thread, WriteLine(t) PROVE LockInv'
  <2>1. VarTypes'
    <3>1. pc' \in [Thread -> Pc]
      BY <1>0, <1>10 DEF WriteLine, VarTypes, Goes, Pc
    <3>2. count' \in [Level -> Nat]
      <4>1. \/ count' = count
            \/ count' = [count EXCEPT ![level[t]] = 0]
            \/ count' = [count EXCEPT ![level[t]] = @ + 1]
        BY <1>10 DEF WriteLine
      <4>. QED BY <1>0, <4>1 DEF VarTypes
    <3>3. broken' \in BOOLEAN
      BY <1>0, <1>10 DEF WriteLine, FlushOf, VarTypes
    <3>. QED BY <1>0, <1>10, <3>1, <3>2, <3>3 DEF WriteLine, VarTypes, signalVars
  <2>2. /\ pc[t] = "write" /\ pc' = [pc EXCEPT ![t] = "print"]
        /\ UNCHANGED <<owner, interrupted>>
    BY <1>10 DEF WriteLine, Goes, signalVars
  <2>3. "print" \in Pc /\ \A k \in Lock : "write" \in Within[k] <=> "print" \in Within[k]
    BY WithinTable DEF Pc
  <2>4. Locked'
    BY <2>2, <2>3, MoveInside
  <2>. QED BY <2>1, <2>4 DEF LockInv
<1>11. ASSUME NEW t \in Thread, PrintLine(t) PROVE LockInv'
  <2>1. VarTypes'
    BY <1>0, <1>11 DEF PrintLine, VarTypes, Goes, Pc, threadVars, outputVars, signalVars
  <2>2. /\ pc[t] = "print" /\ pc' = [pc EXCEPT ![t] = "leave"]
        /\ UNCHANGED <<owner, interrupted>>
    BY <1>11 DEF PrintLine, Goes, signalVars
  <2>3. "leave" \in Pc /\ \A k \in Lock : "print" \in Within[k] <=> "leave" \in Within[k]
    BY WithinTable DEF Pc
  <2>4. Locked'
    BY <2>2, <2>3, MoveInside
  <2>. QED BY <2>1, <2>4 DEF LockInv
<1>12. ASSUME NEW t \in Thread, leaveDispatch(t) PROVE LockInv'
  <2>1. VarTypes'
    BY <1>0, <1>12 DEF leaveDispatch, VarTypes, Goes, Pc, threadVars, outputVars, signalVars, Release
  <2>2. /\ pc[t] = "leave" /\ pc' = [pc EXCEPT ![t] = "release"]
        /\ Release({"callback", "storage"}) /\ UNCHANGED interrupted
    BY <1>12 DEF leaveDispatch, Goes, signalVars
  <2>3. /\ "release" \in Pc /\ {"callback", "storage"} \in SUBSET Lock
        /\ \A k \in {"callback", "storage"} : "leave" \in Within[k] /\ "release" \notin Within[k]
        /\ \A k \in Lock \ {"callback", "storage"} : "leave" \in Within[k] <=> "release" \in Within[k]
    BY WithinTable DEF Pc, Lock
  <2>4. Locked'
    BY <2>2, <2>3, MoveRelease, ZenonT(40)
  <2>. QED BY <2>1, <2>4 DEF LockInv
<1>13. ASSUME NEW t \in Thread, ReleaseLogger(t) PROVE LockInv'
  <2>1. VarTypes'
    BY <1>0, <1>13 DEF ReleaseLogger, VarTypes, Goes, Pc, threadVars, outputVars, signalVars, Release
  <2>2. /\ pc[t] = "release" /\ pc' = [pc EXCEPT ![t] = "idle"]
        /\ Release({"logger"}) /\ UNCHANGED interrupted
    BY <1>13 DEF ReleaseLogger, Goes, signalVars
  <2>3. /\ "idle" \in Pc /\ {"logger"} \in SUBSET Lock
        /\ \A k \in {"logger"} : "release" \in Within[k] /\ "idle" \notin Within[k]
        /\ \A k \in Lock \ {"logger"} : "release" \in Within[k] <=> "idle" \in Within[k]
    BY WithinTable DEF Pc, Lock
  <2>4. Locked'
    BY <2>2, <2>3, MoveRelease, ZenonT(40)
  <2>. QED BY <2>1, <2>4 DEF LockInv
<1>14. CASE Interrupt
  <2>1. VarTypes'
    BY <1>0, <1>14, LoggingAssumption DEF Interrupt, Starts, VarTypes, Pc, outputVars
  <2>2. Locked'
    BY <1>0, <1>14, WithinTable DEF Interrupt, Starts, VarTypes, LockInv, Locked, Holds
  <2>. QED BY <2>1, <2>2 DEF LockInv
<1>15. CASE crashAbort
  BY <1>0, <1>15
     DEF crashAbort, LockInv, VarTypes, Locked, Holds, threadVars, outputVars
<1>. QED
  BY <1>t, <1>1, <1>2, <1>3, <1>4, <1>5, <1>6, <1>7, <1>8, <1>9, <1>10, <1>11, <1>12, <1>13,
     <1>14, <1>15 DEF Next, Statement

-----------------------------------------------------------------------------
(* The output of the library, given that the locks are in order.           *)
LEMMA Monotone ==
  ASSUME number \in [Thread -> Nat], number' \in [Thread -> Nat],
         \A t \in Thread : number[t] <= number'[t]
  PROVE  \A line : WholeLine(line) => WholeLine(line)'
BY DEF WholeLine, Whole

(* The next piece goes behind the ones that are there.                     *)
LEMMA NextPiece ==
  ASSUME NEW t, NEW n, NEW m \in Nat
  PROVE  Append(FirstPieces(t, n, m), Piece(t, n, m + 1)) = FirstPieces(t, n, m + 1)
<1>1. /\ Len(FirstPieces(t, n, m)) = m
      /\ FirstPieces(t, n, m) \in Seq({Piece(t, n, k) : k \in 1..m})
  BY DEF FirstPieces
<1>. QED BY <1>1 DEF FirstPieces

OutInv == OutTypes /\ Begun /\ StreamOfHolder /\ MessagesWhole /\ OutputWhole

LEMMA OutputUnchanged ==
  ASSUME OutTypes, OutputWhole, UNCHANGED <<number, stream, message, buffer, disk, broken, terminal>>
  PROVE  OutTypes' /\ OutputWhole'
BY DEF OutTypes, OutputWhole, AllWhole, WholeLine

(* A step of thread t that only moves it, and does not give the logger     *)
(* away or to it.                                                          *)
LEMMA QuietStep ==
  ASSUME LogInv, NEW t \in Thread, NEW to \in Pc, pc[t] # "idle", to # "building",
         to \in Dispatching => pc[t] \in Dispatching,
         pc' = [pc EXCEPT ![t] = to],
         owner'["logger"] = owner["logger"],
         UNCHANGED <<number, stream, message, buffer, disk, broken, terminal>>
  PROVE  OutInv'
<1>1. pc \in [Thread -> Pc]
  BY DEF LogInv, LockInv, VarTypes
<1>2. OutTypes' /\ OutputWhole'
  BY OutputUnchanged DEF LogInv
<1>3. Begun' /\ StreamOfHolder' /\ MessagesWhole'
  BY <1>1 DEF LogInv, Begun, StreamOfHolder, MessagesWhole
<1>. QED BY <1>2, <1>3 DEF OutInv

(* While t is at a place where it holds the logger, nobody else builds.    *)
LEMMA OnlyHolderBuilds ==
  ASSUME LogInv, NEW t \in Thread, NEW u \in Thread, pc[t] \in Within["logger"],
         pc[u] \in Within["logger"]
  PROVE  u = t
BY DEF LogInv, LockInv, Locked, Holds, Lock

(* A flush after which the stream still works has written everything.      *)
LEMMA FlushSucceeds ==
  ASSUME NEW out, FlushOf(out), ~broken'
  PROVE  buffer' = <<>> /\ disk' = disk \o out
BY Zenon DEF FlushOf

LEMMA NextOutInv == LogInv /\ LockInv' /\ [Next]_vars => OutInv'
<1>. SUFFICES ASSUME LogInv, LockInv', [Next]_vars PROVE OutInv'
  OBVIOUS
<1>0. /\ VarTypes /\ VarTypes' /\ OutTypes /\ Begun /\ StreamOfHolder /\ MessagesWhole
      /\ OutputWhole /\ Main \in Thread
  BY LoggingAssumption DEF LogInv, LockInv
<1>t. CASE UNCHANGED vars
  <2>1. UNCHANGED <<pc, owner, number, stream, message, buffer, disk, broken, terminal>>
    BY <1>t DEF vars, threadVars, outputVars
  <2>2. OutTypes' /\ OutputWhole'
    BY <1>0, <2>1, OutputUnchanged
  <2>3. Begun' /\ StreamOfHolder' /\ MessagesWhole'
    BY <1>0, <2>1 DEF Begun, StreamOfHolder, MessagesWhole
  <2>. QED BY <2>2, <2>3 DEF OutInv
<1>1. ASSUME NEW t \in Thread, NEW l \in Level, Begin(t, l) PROVE OutInv'
  <2>1. /\ pc' = [pc EXCEPT ![t] = "lookup"] /\ number' = [number EXCEPT ![t] = @ + 1]
        /\ UNCHANGED <<owner, stream, message, buffer, disk, broken, terminal>>
    BY <1>1 DEF Begin, Starts, Goes, outputVars
  <2>2. /\ number \in [Thread -> Nat] /\ number' \in [Thread -> Nat] /\ pc \in [Thread -> Pc]
        /\ \A u \in Thread : number[u] <= number'[u]
    BY <1>0, <2>1 DEF VarTypes
  <2>3. OutTypes'
    BY <1>0, <2>1 DEF OutTypes
  <2>4. OutputWhole'
    <3>1. \A line : WholeLine(line) => WholeLine(line)'
      BY <2>2, Monotone
    <3>. QED BY <1>0, <2>1, <3>1 DEF OutputWhole, AllWhole
  <2>5. Begun' /\ StreamOfHolder' /\ MessagesWhole'
    BY <1>0, <2>1, <2>2 DEF Begun, StreamOfHolder, MessagesWhole, Dispatching
  <2>. QED BY <2>3, <2>4, <2>5 DEF OutInv
<1>2. ASSUME NEW t \in Thread, Lookup(t) PROVE OutInv'
  <2>1. /\ pc' = [pc EXCEPT ![t] = "found"] /\ "found" \in Pc /\ pc[t] # "idle"
        /\ "found" \in Dispatching => pc[t] \in Dispatching
        /\ UNCHANGED <<number, stream, message, buffer, disk, broken, terminal>>
    BY <1>2 DEF Lookup, Goes, Pc, Dispatching, outputVars
  <2>2. owner'["logger"] = owner["logger"]
    BY <1>0, <1>2 DEF Lookup, Acquire, VarTypes, Lock
  <2>. QED BY <2>1, <2>2, QuietStep
<1>3. ASSUME NEW t \in Thread, Found(t) PROVE OutInv'
  <2>1. /\ pc' = [pc EXCEPT ![t] = "construct"] /\ "construct" \in Pc /\ pc[t] # "idle"
        /\ "construct" \in Dispatching => pc[t] \in Dispatching
        /\ UNCHANGED <<number, stream, message, buffer, disk, broken, terminal>>
    BY <1>3 DEF Found, Goes, Pc, Dispatching, outputVars
  <2>2. owner'["logger"] = owner["logger"]
    BY <1>0, <1>3 DEF Found, Release, VarTypes, Lock
  <2>. QED BY <2>1, <2>2, QuietStep
<1>4. ASSUME NEW t \in Thread, dispatch(t) PROVE OutInv'
  <2>1. /\ pc' = [pc EXCEPT ![t] = "callback"] /\ "callback" \in Pc /\ pc[t] # "idle"
        /\ "callback" \in Dispatching => pc[t] \in Dispatching
        /\ UNCHANGED <<number, stream, message, buffer, disk, broken, terminal>>
    BY <1>4 DEF dispatch, Goes, Pc, Dispatching, outputVars
  <2>2. owner'["logger"] = owner["logger"]
    BY <1>0, <1>4 DEF dispatch, Acquire, VarTypes, Lock
  <2>. QED BY <2>1, <2>2, QuietStep
<1>5. ASSUME NEW t \in Thread, acquireCallback(t) PROVE OutInv'
  <2>1. /\ pc' = [pc EXCEPT ![t] = "write"] /\ "write" \in Pc /\ pc[t] # "idle"
        /\ "write" \in Dispatching => pc[t] \in Dispatching
        /\ UNCHANGED <<number, stream, message, buffer, disk, broken, terminal>>
    BY <1>5 DEF acquireCallback, Goes, Pc, Dispatching, outputVars
  <2>2. owner'["logger"] = owner["logger"]
    BY <1>0, <1>5 DEF acquireCallback, Acquire, VarTypes, Lock
  <2>. QED BY <2>1, <2>2, QuietStep
<1>6. ASSUME NEW t \in Thread, leaveDispatch(t) PROVE OutInv'
  <2>1. /\ pc' = [pc EXCEPT ![t] = "release"] /\ "release" \in Pc /\ pc[t] # "idle"
        /\ "release" \in Dispatching => pc[t] \in Dispatching
        /\ UNCHANGED <<number, stream, message, buffer, disk, broken, terminal>>
    BY <1>6 DEF leaveDispatch, Goes, Pc, Dispatching, outputVars
  <2>2. owner'["logger"] = owner["logger"]
    BY <1>0, <1>6 DEF leaveDispatch, Release, VarTypes, Lock
  <2>. QED BY <2>1, <2>2, QuietStep
<1>7. ASSUME NEW t \in Thread, initializeLogger(t) PROVE OutInv'
  <2>1. /\ pc' = [pc EXCEPT ![t] = "building"] /\ pc[t] = "construct"
        /\ UNCHANGED <<number, stream, message, buffer, disk, broken, terminal>>
        /\ Acquire(t, "logger")
    BY <1>7 DEF initializeLogger, Goes, outputVars
  <2>2. OutTypes' /\ OutputWhole'
    BY <1>0, <2>1, OutputUnchanged
  <2>3. Begun' /\ MessagesWhole'
    BY <1>0, <2>1 DEF Begun, MessagesWhole, Dispatching, VarTypes
  <2>4. stream = <<>> /\ owner'["logger"] = t /\ t # Nobody
    BY <1>0, <2>1, LoggingAssumption DEF Acquire, StreamOfHolder, VarTypes, Lock
  <2>5. \A u \in Thread : pc'[u] = "building" => u = t
    <3>1. "logger" \in Lock /\ "building" \in Within["logger"]
      BY WithinTable DEF Lock
    <3>. QED BY <2>4, <3>1 DEF LockInv, Locked, Holds
  <2>6. StreamOfHolder'
    BY <2>1, <2>4, <2>5, LoggingAssumption DEF StreamOfHolder, FirstPieces
  <2>. QED BY <2>2, <2>3, <2>6 DEF OutInv
<1>8. ASSUME NEW t \in Thread, Insert(t) PROVE OutInv'
  <2>1. /\ pc' = pc /\ pc[t] = "building" /\ Len(stream) < Pieces
        /\ stream' = Append(stream, Piece(t, number[t], Len(stream) + 1))
        /\ UNCHANGED <<number, owner, message, buffer, disk, broken, terminal>>
    BY <1>0, <1>8 DEF Insert, Goes, outputVars, VarTypes
  <2>2. /\ Len(stream) \in Nat /\ stream = FirstPieces(t, number[t], Len(stream))
        /\ stream \in Seq(PieceRec) /\ number[t] \in Nat
    BY <1>0, <2>1 DEF StreamOfHolder, OutTypes, VarTypes
  <2>3. stream' \in Seq(PieceRec) /\ Len(stream') = Len(stream) + 1
    BY <2>1, <2>2 DEF Piece, PieceRec
  <2>4. stream' = FirstPieces(t, number[t], Len(stream'))
    BY <2>1, <2>2, <2>3, NextPiece
  <2>5. "building" \in Within["logger"] /\ "logger" \in Lock
    BY WithinTable DEF Lock
  <2>6. \A u \in Thread : pc[u] = "building" => u = t
    BY <2>1, <2>5, OnlyHolderBuilds
  <2>7. owner["logger"] = t /\ t # Nobody
    BY <2>1, <2>5, LoggingAssumption DEF LogInv, LockInv, Locked, Holds
  <2>8. StreamOfHolder'
    BY <2>1, <2>2, <2>3, <2>4, <2>6, <2>7, LoggingAssumption DEF StreamOfHolder
  <2>9. OutTypes' /\ OutputWhole' /\ Begun' /\ MessagesWhole'
    BY <1>0, <2>1, <2>3
       DEF OutTypes, OutputWhole, AllWhole, WholeLine, Begun, MessagesWhole
  <2>. QED BY <2>8, <2>9 DEF OutInv
<1>9. ASSUME NEW t \in Thread, DropMessage(t) PROVE OutInv'
  <2>1. /\ pc' = [pc EXCEPT ![t] = "idle"] /\ pc[t] = "building" /\ stream' = <<>>
        /\ UNCHANGED <<number, message, buffer, disk, broken, terminal>>
    BY <1>9 DEF DropMessage, Goes, outputVars
  <2>2. "building" \in Within["logger"] /\ "building" \in Within["logger"]
    BY WithinTable DEF Lock
  <2>3. \A u \in Thread : pc'[u] # "building"
    BY <1>0, <2>1, <2>2, OnlyHolderBuilds DEF VarTypes
  <2>4. OutTypes' /\ OutputWhole'
    BY <1>0, <2>1 DEF OutTypes, OutputWhole, AllWhole, WholeLine
  <2>5. Begun' /\ StreamOfHolder' /\ MessagesWhole'
    BY <1>0, <2>1, <2>3 DEF Begun, StreamOfHolder, MessagesWhole, Dispatching, VarTypes
  <2>. QED BY <2>4, <2>5 DEF OutInv
<1>10. ASSUME NEW t \in Thread, ReleaseLogger(t) PROVE OutInv'
  <2>1. /\ pc' = [pc EXCEPT ![t] = "idle"] /\ pc[t] = "release" /\ stream' = <<>>
        /\ UNCHANGED <<number, message, buffer, disk, broken, terminal>>
    BY <1>10 DEF ReleaseLogger, Goes, outputVars
  <2>2. "release" \in Within["logger"] /\ "building" \in Within["logger"]
    BY WithinTable DEF Lock
  <2>3. \A u \in Thread : pc'[u] # "building"
    BY <1>0, <2>1, <2>2, OnlyHolderBuilds DEF VarTypes
  <2>4. OutTypes' /\ OutputWhole'
    BY <1>0, <2>1 DEF OutTypes, OutputWhole, AllWhole, WholeLine
  <2>5. Begun' /\ StreamOfHolder' /\ MessagesWhole'
    BY <1>0, <2>1, <2>3 DEF Begun, StreamOfHolder, MessagesWhole, Dispatching, VarTypes
  <2>. QED BY <2>4, <2>5 DEF OutInv
<1>11. ASSUME NEW t \in Thread, triggerDispatch(t) PROVE OutInv'
  <2>1. /\ pc' = [pc EXCEPT ![t] = "dispatch"] /\ pc[t] = "building" /\ Len(stream) = Pieces
        /\ message' = [message EXCEPT ![t] = stream]
        /\ UNCHANGED <<number, owner, stream, buffer, disk, broken, terminal>>
    BY <1>11 DEF triggerDispatch, Goes, outputVars
  <2>2. stream = Whole(t, number[t])
    BY <1>0, <2>1 DEF StreamOfHolder, FirstPieces, Whole
  <2>3. OutTypes'
    BY <1>0, <2>1 DEF OutTypes
  <2>4. MessagesWhole'
    BY <1>0, <2>1, <2>2 DEF MessagesWhole, OutTypes, VarTypes
  <2>5. OutputWhole' /\ Begun' /\ StreamOfHolder'
    BY <1>0, <2>1
       DEF OutputWhole, AllWhole, WholeLine, Begun, StreamOfHolder, VarTypes
  <2>. QED BY <2>3, <2>4, <2>5 DEF OutInv
<1>12. ASSUME NEW t \in Thread, WriteLine(t) PROVE OutInv'
  <2>1. /\ pc' = [pc EXCEPT ![t] = "print"] /\ pc[t] = "write"
        /\ UNCHANGED <<number, owner, message, stream, terminal>>
    BY <1>12 DEF WriteLine, Goes
  <2>2. Line(t) \in LineRec /\ WholeLine(Line(t))
    <3>1. number[t] \in 1..number[t] /\ message[t] = Whole(t, number[t])
      BY <1>0, <2>1 DEF Begun, MessagesWhole, Dispatching, VarTypes
    <3>. QED BY <1>0, <3>1 DEF Line, LineRec, WholeLine, OutTypes, VarTypes
  <2>3. Begun' /\ StreamOfHolder' /\ MessagesWhole'
    BY <1>0, <2>1 DEF Begun, StreamOfHolder, MessagesWhole, Dispatching, VarTypes
  <2>4. ~broken' =>
          /\ ~broken
          /\ \/ buffer' = <<>> /\ disk' = disk \o Append(buffer, Line(t))
             \/ buffer' = Append(buffer, Line(t)) /\ disk' = disk
    <3>1. \/ broken /\ UNCHANGED broken
          \/ ~broken /\ FlushOf(Append(buffer, Line(t)))
          \/ ~broken /\ buffer' = Append(buffer, Line(t)) /\ UNCHANGED <<disk, broken>>
      BY <1>12, Zenon DEF WriteLine
    <3>2. CASE broken /\ UNCHANGED broken
      BY <3>2
    <3>3. CASE ~broken /\ FlushOf(Append(buffer, Line(t)))
      BY <3>3, FlushSucceeds, Zenon
    <3>4. CASE ~broken /\ buffer' = Append(buffer, Line(t)) /\ UNCHANGED <<disk, broken>>
      BY <3>4
    <3>. QED BY <3>1, <3>2, <3>3, <3>4, Zenon
  <2>5. ASSUME ~broken'
        PROVE  /\ buffer' \in Seq(LineRec) /\ disk' \in Seq(LineRec)
               /\ AllWhole(buffer') /\ AllWhole(disk')
    <3>1. /\ buffer \in Seq(LineRec) /\ disk \in Seq(LineRec)
          /\ AllWhole(buffer) /\ AllWhole(disk)
      BY <1>0, <2>4, <2>5 DEF OutTypes, OutputWhole
    <3>2. Append(buffer, Line(t)) \in Seq(LineRec) /\ AllWhole(Append(buffer, Line(t)))
      BY <2>2, <3>1 DEF AllWhole
    <3>3. AllWhole(disk \o Append(buffer, Line(t)))
      BY <3>1, <3>2 DEF AllWhole
    <3>4. <<>> \in Seq(LineRec) /\ AllWhole(<<>>)
      BY DEF AllWhole
    <3>5. disk \o Append(buffer, Line(t)) \in Seq(LineRec)
      BY <3>1, <3>2
    <3>6. CASE buffer' = <<>> /\ disk' = disk \o Append(buffer, Line(t))
      BY <3>3, <3>4, <3>5, <3>6 DEF AllWhole
    <3>7. CASE buffer' = Append(buffer, Line(t)) /\ disk' = disk
      BY <3>1, <3>2, <3>7 DEF AllWhole
    <3>. QED BY <2>4, <2>5, <3>6, <3>7
  <2>6. OutTypes' /\ OutputWhole'
    BY <1>0, <2>1, <2>5 DEF OutTypes, OutputWhole, AllWhole, WholeLine
  <2>. QED BY <2>3, <2>6 DEF OutInv
<1>13. ASSUME NEW t \in Thread, PrintLine(t) PROVE OutInv'
  <2>1. /\ pc' = [pc EXCEPT ![t] = "leave"] /\ pc[t] = "print"
        /\ terminal' = Append(terminal, Line(t))
        /\ UNCHANGED <<number, owner, message, stream, buffer, disk, broken>>
    BY <1>13 DEF PrintLine, Goes
  <2>2. Line(t) \in LineRec /\ WholeLine(Line(t))
    <3>1. number[t] \in 1..number[t] /\ message[t] = Whole(t, number[t])
      BY <1>0, <2>1 DEF Begun, MessagesWhole, Dispatching, VarTypes
    <3>. QED BY <1>0, <3>1 DEF Line, LineRec, WholeLine, OutTypes, VarTypes
  <2>3. Begun' /\ StreamOfHolder' /\ MessagesWhole'
    BY <1>0, <2>1 DEF Begun, StreamOfHolder, MessagesWhole, Dispatching, VarTypes
  <2>4. terminal' \in Seq(LineRec) /\ AllWhole(terminal')
    BY <1>0, <2>1, <2>2 DEF OutTypes, OutputWhole, AllWhole
  <2>5. OutTypes' /\ OutputWhole'
    BY <1>0, <2>1, <2>4 DEF OutTypes, OutputWhole, AllWhole, WholeLine
  <2>. QED BY <2>3, <2>5 DEF OutInv
<1>14. CASE Interrupt
  <2>1. /\ pc' = [pc EXCEPT ![Main] = "lookup"] /\ number' = [number EXCEPT ![Main] = @ + 1]
        /\ UNCHANGED <<owner, stream, message, buffer, disk, broken, terminal>>
    BY <1>14 DEF Interrupt, Starts, Goes, outputVars
  <2>2. /\ number \in [Thread -> Nat] /\ number' \in [Thread -> Nat] /\ pc \in [Thread -> Pc]
        /\ \A u \in Thread : number[u] <= number'[u]
    BY <1>0, <2>1 DEF VarTypes
  <2>3. OutTypes'
    BY <1>0, <2>1 DEF OutTypes
  <2>4. OutputWhole'
    <3>1. \A line : WholeLine(line) => WholeLine(line)'
      BY <2>2, Monotone
    <3>. QED BY <1>0, <2>1, <3>1 DEF OutputWhole, AllWhole
  <2>5. Begun' /\ StreamOfHolder' /\ MessagesWhole'
    BY <1>0, <2>1, <2>2 DEF Begun, StreamOfHolder, MessagesWhole, Dispatching
  <2>. QED BY <2>3, <2>4, <2>5 DEF OutInv
<1>15. CASE crashAbort
  <2>1. UNCHANGED <<pc, owner, number, stream, message, buffer, disk, broken, terminal>>
    BY <1>15 DEF crashAbort, threadVars, outputVars
  <2>2. OutTypes' /\ OutputWhole'
    BY <1>0, <2>1, OutputUnchanged
  <2>3. Begun' /\ StreamOfHolder' /\ MessagesWhole'
    BY <1>0, <2>1 DEF Begun, StreamOfHolder, MessagesWhole
  <2>. QED BY <2>2, <2>3 DEF OutInv
<1>. QED
  BY <1>t, <1>1, <1>2, <1>3, <1>4, <1>5, <1>6, <1>7, <1>8, <1>9, <1>10, <1>11, <1>12, <1>13,
     <1>14, <1>15 DEF Next, Statement

-----------------------------------------------------------------------------
LEMMA LogInvHolds == Spec => []LogInv
<1>1. LogInv /\ [Next]_vars => LogInv'
  BY NextLockInv, NextOutInv DEF LogInv, OutInv
<1>. QED BY InitLogInv, <1>1, PTL DEF Spec

(* The locks of the library are held by one thread each, exactly where the
   code is between acquireLock and releaseLock, for any number of threads
   and with a signal at any moment (easylogging++.h 4458-4486, 4985-5066). *)
THEOREM LocksExclude == Spec => []LogTypeOK
<1>1. LogInv => LogTypeOK
  BY DEF LogInv, LockInv, VarTypes, Locked, LogTypeOK
<1>. QED BY LogInvHolds, <1>1, PTL

(* For any number of threads, statements and pieces, no line on the
   terminal mixes two statements or is cut short, and none in the log file
   does until a flush fails (easylogging++.h 4907-5066).                   *)
THEOREM WholeLines == Spec => []LinesAreWhole
<1>1. LogInv => LinesAreWhole
  <2>. SUFFICES ASSUME LogInv PROVE LinesAreWhole
    OBVIOUS
  <2>1. OutTypes /\ OutputWhole
    BY DEF LogInv
  <2>2. \A line \in Lines(terminal) : WholeLine(line)
    BY <2>1 DEF OutputWhole, AllWhole, Lines
  <2>3. ASSUME ~broken PROVE \A line \in Lines(buffer \o disk) : WholeLine(line)
    BY <2>1, <2>3 DEF OutTypes, OutputWhole, AllWhole, Lines
  <2>. QED BY <2>2, <2>3 DEF LinesAreWhole, WholeLine
<1>. QED BY LogInvHolds, <1>1, PTL


-----------------------------------------------------------------------------
(* The output for any disk: the log file follows the terminal, few lines   *)
(* of a level are in its buffer, and the terminal has the lines of a       *)
(* thread in their order.                                                  *)

(* A line is in the file and not yet on the terminal.                      *)
InPrint == interrupted = "print" \/ \E t \in Thread : pc[t] = "print"

FileFollows ==
  ~broken =>
    /\ ~InPrint => disk \o buffer = terminal
    /\ \A t \in Thread : pc[t] = "print" => disk \o buffer = Append(terminal, Line(t))
    /\ interrupted = "print" => \E line \in LineRec : disk \o buffer = Append(terminal, line)

(* The count of a level may be more than its lines in the buffer, because  *)
(* a flush for another level does not reset it; it is never less.          *)
CountsCover ==
  ~broken => \A l \in Level : /\ Cardinality(Buffered(l)) <= count[l]
                              /\ count[l] = 0 \/ count[l] < Threshold[l]

FileInv == FileFollows /\ CountsCover

(* At the start the file, its buffer and the terminal are empty.           *)
LEMMA InitFileInv == Init => FileInv
<1>. SUFFICES ASSUME Init PROVE FileInv
  OBVIOUS
<1>1. FileFollows
  BY DEF Init, FileFollows, InPrint
<1>2. \A l \in Level : Buffered(l) = {}
  BY DEF Init, Buffered
<1>3. \A l \in Level : Cardinality(Buffered(l)) = 0 /\ count[l] = 0
  BY <1>2, FS_EmptySet DEF Init
<1>4. CountsCover
  BY <1>3 DEF CountsCover
<1>. QED BY <1>1, <1>4 DEF FileInv

(* While t is at the log file nobody else is.                              *)
LEMMA OneWriter ==
  ASSUME LockInv, NEW t \in Thread, pc[t] \in {"write", "print"}
  PROVE  interrupted # "print" /\ \A u \in Thread : pc[u] = "print" => u = t
<1>1. Holds(t, "callback") /\ "callback" \in Lock /\ Main \in Thread
  BY LoggingAssumption DEF Holds, Within, Lock
<1>2. ASSUME NEW u \in Thread, Holds(u, "callback") PROVE u = t
  BY <1>1, <1>2 DEF LockInv, Locked
<1>3. \A u \in Thread : pc[u] = "print" => Holds(u, "callback")
  BY DEF Holds, Within
<1>4. interrupted = "print" => Holds(Main, "callback") /\ interrupted \in Within["callback"]
  BY DEF Holds, Within
<1>5. pc[t] \in Within["callback"]
  BY DEF Within
<1>6. ~(pc[Main] \in Within["callback"] /\ interrupted \in Within["callback"])
  BY <1>1 DEF LockInv, Locked
<1>. QED BY <1>1, <1>2, <1>3, <1>4, <1>5, <1>6

-----------------------------------------------------------------------------
(* A step of thread t that moves it between other places, and touches no   *)
(* output.                                                                 *)
LEMMA QuietForFile ==
  ASSUME LogInv, FileInv, NEW t \in Thread, NEW to, to # "print", pc[t] # "print",
         pc' = [pc EXCEPT ![t] = to],
         \A u \in Thread : u # t => level'[u] = level[u] /\ message'[u] = message[u],
         UNCHANGED <<count, buffer, disk, broken, terminal, interrupted>>
  PROVE  FileInv'
<1>1. pc \in [Thread -> Pc]
  BY DEF LogInv, LockInv, VarTypes
<1>2. \A u \in Thread : /\ pc'[u] = "print" <=> pc[u] = "print"
                        /\ pc[u] = "print" => Line(u)' = Line(u)
  BY <1>1 DEF Line
<1>3. FileFollows'
  BY <1>2 DEF FileInv, FileFollows, InPrint
<1>4. CountsCover'
  BY DEF FileInv, CountsCover, Buffered
<1>. QED BY <1>3, <1>4 DEF FileInv

(* The lines of level l in a buffer b, and with one more line.             *)
LinesOf(b, l) == {j \in DOMAIN b : b[j].level = l}

LEMMA OneMoreLine ==
  ASSUME NEW b \in Seq(LineRec), NEW line \in LineRec, NEW l
  PROVE  /\ LinesOf(Append(b, line), l)
              = IF line.level = l THEN LinesOf(b, l) \cup {Len(b) + 1} ELSE LinesOf(b, l)
         /\ IsFiniteSet(LinesOf(b, l)) /\ Len(b) + 1 \notin LinesOf(b, l)
<1>1. DOMAIN b = 1..Len(b) /\ Len(b) \in Nat
  OBVIOUS
<1>2. IsFiniteSet(LinesOf(b, l))
  <2>1. IsFiniteSet(1..Len(b))
    BY <1>1, FS_Interval
  <2>2. LinesOf(b, l) \subseteq 1..Len(b)
    BY <1>1 DEF LinesOf
  <2>. QED BY <2>1, <2>2, FS_Subset
<1>3. /\ DOMAIN Append(b, line) = 1..Len(b) + 1
      /\ \A j \in 1..Len(b) : Append(b, line)[j] = b[j]
      /\ Append(b, line)[Len(b) + 1] = line
  BY <1>1
<1>4. LinesOf(Append(b, line), l)
        = IF line.level = l THEN LinesOf(b, l) \cup {Len(b) + 1} ELSE LinesOf(b, l)
  <2>1. ASSUME NEW j
        PROVE  j \in LinesOf(Append(b, line), l)
                 <=> j \in LinesOf(b, l) \/ (line.level = l /\ j = Len(b) + 1)
    BY <1>1, <1>3 DEF LinesOf
  <2>. QED BY <2>1
<1>5. Len(b) + 1 \notin LinesOf(b, l)
  BY <1>1 DEF LinesOf
<1>. QED BY <1>2, <1>4, <1>5
-----------------------------------------------------------------------------
(* The step that changes the file is WriteLine; PrintLine catches up.      *)
LEMMA NextFileInv == LogInv /\ FileInv /\ [Next]_vars => FileInv'
<1>. SUFFICES ASSUME LogInv, FileInv, [Next]_vars PROVE FileInv'
  OBVIOUS
<1>0. VarTypes /\ OutTypes /\ Main \in Thread /\ LockInv
  BY LoggingAssumption DEF LogInv, LockInv
<1>t. CASE UNCHANGED vars
  BY <1>t DEF vars, threadVars, outputVars, signalVars, FileInv, FileFollows, InPrint, Line,
              CountsCover, Buffered
<1>1. ASSUME NEW t \in Thread, NEW l \in Level, Begin(t, l) PROVE FileInv'
  BY <1>0, <1>1, QuietForFile DEF Begin, Starts, Goes, outputVars, signalVars, VarTypes
<1>2. ASSUME NEW t \in Thread, Lookup(t) PROVE FileInv'
  BY <1>2, QuietForFile DEF Lookup, Goes, outputVars, signalVars
<1>3. ASSUME NEW t \in Thread, Found(t) PROVE FileInv'
  BY <1>3, QuietForFile DEF Found, Goes, outputVars, signalVars
<1>4. ASSUME NEW t \in Thread, initializeLogger(t) PROVE FileInv'
  BY <1>4, QuietForFile DEF initializeLogger, Goes, outputVars, signalVars
<1>5. ASSUME NEW t \in Thread, Insert(t) PROVE FileInv'
  BY <1>5, QuietForFile DEF Insert, Goes, outputVars, signalVars
<1>6. ASSUME NEW t \in Thread, DropMessage(t) PROVE FileInv'
  BY <1>6, QuietForFile DEF DropMessage, Goes, outputVars, signalVars
<1>7. ASSUME NEW t \in Thread, triggerDispatch(t) PROVE FileInv'
  BY <1>0, <1>7, QuietForFile DEF triggerDispatch, Goes, outputVars, signalVars, OutTypes
<1>8. ASSUME NEW t \in Thread, dispatch(t) PROVE FileInv'
  BY <1>8, QuietForFile DEF dispatch, Goes, outputVars, signalVars
<1>9. ASSUME NEW t \in Thread, acquireCallback(t) PROVE FileInv'
  BY <1>9, QuietForFile DEF acquireCallback, Goes, outputVars, signalVars
<1>10. ASSUME NEW t \in Thread, leaveDispatch(t) PROVE FileInv'
  BY <1>10, QuietForFile DEF leaveDispatch, Goes, outputVars, signalVars
<1>11. ASSUME NEW t \in Thread, ReleaseLogger(t) PROVE FileInv'
  BY <1>11, QuietForFile DEF ReleaseLogger, Goes, outputVars, signalVars
<1>12. ASSUME NEW t \in Thread, WriteLine(t) PROVE FileInv'
  <2>1. /\ pc' = [pc EXCEPT ![t] = "print"] /\ pc[t] = "write"
        /\ UNCHANGED <<level, message, terminal, interrupted>>
    BY <1>12 DEF WriteLine, Goes, signalVars
  <2>2. ~InPrint /\ pc \in [Thread -> Pc]
    BY <1>0, <2>1, OneWriter DEF InPrint, VarTypes
  <2>3. Line(t) \in LineRec /\ level[t] \in Level
    BY <1>0 DEF Line, LineRec, OutTypes, VarTypes
  <2>4. SUFFICES ASSUME ~broken' PROVE FileInv'
    BY DEF FileInv, FileFollows, CountsCover
  <2>5. \/ /\ ~broken /\ FlushOf(Append(buffer, Line(t)))
           /\ count' = [count EXCEPT ![level[t]] = 0]
        \/ /\ ~broken /\ ~Needed(level[t], count[level[t]] + 1)
           /\ buffer' = Append(buffer, Line(t)) /\ disk' = disk
           /\ count' = [count EXCEPT ![level[t]] = @ + 1]
    <3>1. \/ broken /\ UNCHANGED broken
          \/ /\ ~broken /\ FlushOf(Append(buffer, Line(t)))
             /\ count' = [count EXCEPT ![level[t]] = 0]
          \/ /\ ~broken /\ ~Needed(level[t], count[level[t]] + 1)
             /\ buffer' = Append(buffer, Line(t)) /\ UNCHANGED disk
             /\ count' = [count EXCEPT ![level[t]] = @ + 1]
      BY <1>12 DEF WriteLine
    <3>. QED BY <2>4, <3>1
  <2>6. /\ ~broken /\ buffer \in Seq(LineRec) /\ disk \in Seq(LineRec)
        /\ disk \o buffer = terminal /\ terminal \in Seq(LineRec)
    BY <1>0, <2>2, <2>5 DEF OutTypes, FileInv, FileFollows
  <2>7. disk' \o buffer' = Append(terminal, Line(t))
    <3>1. CASE FlushOf(Append(buffer, Line(t)))
      <4>1. buffer' = <<>> /\ disk' = disk \o Append(buffer, Line(t))
        BY <2>4, <3>1, FlushSucceeds
      <4>. QED BY <2>3, <2>6, <4>1
    <3>2. CASE buffer' = Append(buffer, Line(t)) /\ disk' = disk
      BY <2>3, <2>6, <3>2
    <3>. QED BY <2>5, <3>1, <3>2
  <2>8. FileFollows'
    <3>1. pc'[t] = "print" /\ \A u \in Thread : pc'[u] = "print" => u = t
      BY <2>1, <2>2 DEF InPrint
    <3>2. Line(t)' = Line(t) /\ terminal' = terminal /\ interrupted' # "print"
      BY <2>1, <2>2 DEF Line, InPrint
    <3>. QED BY <2>7, <3>1, <3>2 DEF FileFollows, InPrint
  <2>9. CountsCover'
    <3>1. ASSUME NEW l \in Level
          PROVE  /\ Cardinality(Buffered(l)) \in Nat /\ Cardinality(Buffered(l)) <= count[l]
                 /\ count[l] \in Nat /\ Threshold[l] \in Nat
                 /\ count[l] = 0 \/ count[l] < Threshold[l]
      <4>1. IsFiniteSet(Buffered(l))
        <5>1. Buffered(l) = LinesOf(buffer, l)
          BY DEF Buffered, LinesOf
        <5>. QED BY <2>3, <2>6, <5>1, OneMoreLine
      <4>. QED BY <1>0, <2>6, <4>1, FS_CardinalityType, LoggingAssumption
               DEF FileInv, CountsCover, VarTypes
    <3>2. CASE FlushOf(Append(buffer, Line(t))) /\ count' = [count EXCEPT ![level[t]] = 0]
      <4>1. buffer' = <<>>
        BY <2>4, <3>2, FlushSucceeds
      <4>2. \A l \in Level : Buffered(l)' = {}
        BY <4>1 DEF Buffered
      <4>3. \A l \in Level : Cardinality(Buffered(l)') = 0
        BY <4>2, FS_EmptySet
      <4>4. \A l \in Level : count'[l] \in {0, count[l]}
        BY <1>0, <3>2 DEF VarTypes
      <4>. QED BY <3>1, <4>3, <4>4 DEF CountsCover
    <3>3. CASE /\ ~Needed(level[t], count[level[t]] + 1)
               /\ buffer' = Append(buffer, Line(t))
               /\ count' = [count EXCEPT ![level[t]] = @ + 1]
      <4>. SUFFICES ASSUME NEW l \in Level
                    PROVE  /\ Cardinality(Buffered(l))' <= count'[l]
                           /\ count'[l] = 0 \/ count'[l] < Threshold[l]
        BY DEF CountsCover
      <4>1. Line(t).level = level[t]
        BY DEF Line
      <4>2. /\ Buffered(l)' = IF level[t] = l THEN Buffered(l) \cup {Len(buffer) + 1} ELSE Buffered(l)
            /\ IsFiniteSet(Buffered(l)) /\ Len(buffer) + 1 \notin Buffered(l)
        <5>1. Buffered(l) = LinesOf(buffer, l) /\ Buffered(l)' = LinesOf(Append(buffer, Line(t)), l)
          BY <3>3 DEF Buffered, LinesOf
        <5>. QED BY <2>3, <2>6, <4>1, <5>1, OneMoreLine
      <4>3. CASE l = level[t]
        <5>1. Cardinality(Buffered(l)') = Cardinality(Buffered(l)) + 1
          BY <4>2, <4>3, FS_AddElement
        <5>2. count'[l] = count[l] + 1 /\ count[l] + 1 < Threshold[l]
          BY <1>0, <3>1, <3>3, <4>3 DEF VarTypes, Needed
        <5>. QED BY <3>1, <5>1, <5>2
      <4>4. CASE l # level[t]
        <5>1. Buffered(l)' = Buffered(l) /\ count'[l] = count[l]
          BY <1>0, <3>3, <4>2, <4>4 DEF VarTypes
        <5>. QED BY <3>1, <5>1
      <4>. QED BY <4>3, <4>4
    <3>. QED BY <2>5, <3>2, <3>3
  <2>. QED BY <2>8, <2>9 DEF FileInv
<1>13. ASSUME NEW t \in Thread, PrintLine(t) PROVE FileInv'
  <2>1. /\ pc' = [pc EXCEPT ![t] = "leave"] /\ pc[t] = "print"
        /\ terminal' = Append(terminal, Line(t))
        /\ UNCHANGED <<count, buffer, disk, broken, interrupted>>
    BY <1>13 DEF PrintLine, Goes, signalVars
  <2>2. ~InPrint'
    BY <1>0, <2>1, OneWriter DEF InPrint, VarTypes
  <2>3. FileFollows'
    BY <2>1, <2>2 DEF FileInv, FileFollows, InPrint
  <2>4. CountsCover'
    BY <2>1 DEF FileInv, CountsCover, Buffered
  <2>. QED BY <2>3, <2>4 DEF FileInv
<1>14. CASE Interrupt
  <2>1. /\ pc' = [pc EXCEPT ![Main] = "lookup"] /\ interrupted' = pc[Main]
        /\ level' = [level EXCEPT ![Main] = Fatal] /\ interrupted = "no"
        /\ UNCHANGED <<message, count, buffer, disk, broken, terminal>>
    BY <1>14 DEF Interrupt, Starts, outputVars
  <2>2. pc \in [Thread -> Pc] /\ level \in [Thread -> Level] /\ (InPrint' <=> InPrint)
    BY <1>0, <2>1 DEF VarTypes, InPrint
  <2>3. Line(Main) \in LineRec
    BY <1>0 DEF Line, LineRec, OutTypes, VarTypes
  <2>4. ASSUME NEW u \in Thread, pc'[u] = "print" PROVE pc[u] = "print" /\ Line(u)' = Line(u)
    <3>1. u # Main
      BY <1>0, <2>1, <2>2, <2>4
    <3>2. pc'[u] = pc[u] /\ level'[u] = level[u] /\ message' = message
      BY <2>1, <2>2, <3>1
    <3>. QED BY <2>4, <3>2 DEF Line
  <2>5. FileFollows'
    BY <1>0, <2>1, <2>2, <2>3, <2>4 DEF FileInv, FileFollows
  <2>6. CountsCover'
    BY <2>1 DEF FileInv, CountsCover, Buffered
  <2>. QED BY <2>5, <2>6 DEF FileInv
<1>15. CASE crashAbort
  BY <1>15 DEF crashAbort, threadVars, outputVars, FileInv, FileFollows, InPrint, Line,
               CountsCover, Buffered
<1>. QED
  BY <1>t, <1>1, <1>2, <1>3, <1>4, <1>5, <1>6, <1>7, <1>8, <1>9, <1>10, <1>11, <1>12, <1>13,
     <1>14, <1>15 DEF Next, Statement

(* For any number of threads, any thresholds and a signal at any moment:
   until a flush fails the log file has the terminal's lines in the
   terminal's order, and its buffer has fewer lines of each level than the
   flush threshold of the level, or none (easylogging++.h 3492-3504,
   4181-4203).                                                             *)
THEOREM LittleIsLost == Spec => []KillTakesFew
<1>1. LogInv /\ FileInv => KillTakesFew
  <2>. SUFFICES ASSUME LogInv, FileInv, ~broken PROVE KillTakesFew
    BY DEF KillTakesFew
  <2>1. VarTypes /\ OutTypes /\ Main \in Thread
    BY LoggingAssumption DEF LogInv, LockInv
  <2>2. buffer \in Seq(LineRec) /\ disk \in Seq(LineRec) /\ terminal \in Seq(LineRec)
    BY <2>1 DEF OutTypes
  <2>3. ASSUME NEW l \in Level
        PROVE  Buffered(l) = {} \/ Cardinality(Buffered(l)) < Threshold[l]
    <3>1. IsFiniteSet(Buffered(l))
      <4>1. IsFiniteSet(1..Len(buffer)) /\ Buffered(l) \subseteq 1..Len(buffer)
        BY <2>2, FS_Interval DEF Buffered
      <4>. QED BY <4>1, FS_Subset
    <3>2. /\ Cardinality(Buffered(l)) <= count[l]
          /\ count[l] = 0 \/ count[l] < Threshold[l]
          /\ count[l] \in Nat /\ Threshold[l] \in Nat
      BY <2>1, LoggingAssumption DEF FileInv, CountsCover, VarTypes
    <3>3. Cardinality(Buffered(l)) \in Nat
      BY <3>1, FS_CardinalityType
    <3>4. Cardinality(Buffered(l)) = 0 => Buffered(l) = {}
      BY <3>1, FS_EmptySet
    <3>. QED BY <3>2, <3>3, <3>4
  <2>4. ASSUME InPrint
        PROVE  InWrite /\ \E line \in Lines(disk \o buffer) : disk \o buffer = Append(terminal, line)
    <3>1. InWrite
      BY <2>1, <2>4 DEF InPrint, InWrite
    <3>2. PICK line \in LineRec : disk \o buffer = Append(terminal, line)
      <4>1. \A t \in Thread : Line(t) \in LineRec
        BY <2>1 DEF Line, LineRec, OutTypes, VarTypes
      <4>. QED BY <2>4, <4>1 DEF FileInv, FileFollows, InPrint
    <3>3. line \in Lines(disk \o buffer)
      BY <2>2, <3>2 DEF Lines
    <3>. QED BY <3>1, <3>2, <3>3
  <2>5. ~InPrint => disk \o buffer = terminal
    BY DEF FileInv, FileFollows
  <2>. QED BY <2>3, <2>4, <2>5 DEF KillTakesFew
<1>2. Init => LogInv /\ FileInv
  BY InitLogInv, InitFileInv
<1>3. LogInv /\ FileInv /\ [Next]_vars => FileInv'
  BY NextFileInv
<1>. QED BY LogInvHolds, <1>1, <1>2, <1>3, PTL DEF Spec

-----------------------------------------------------------------------------
(* The order of a thread's lines.  A statement whose level is enabled is   *)
(* due from its beginning, and is on the terminal from PrintLine on.       *)
Pending == { "lookup", "found", "construct", "building", "dispatch", "callback", "write", "print" }
Decided == { "building", "dispatch", "callback", "write", "print" }
Printed(t) == { StatementAt(j) : j \in LinesBy(t) }

LinesRise(t) ==
  /\ \A j, k \in LinesBy(t) : j < k => StatementAt(j) < StatementAt(k)
  /\ \A j \in LinesBy(t) : /\ StatementAt(j) \in 1..number[t]
                           /\ pc[t] \in Pending => StatementAt(j) # number[t]

DueIsPrinted(t) ==
  /\ due[t] \subseteq 1..number[t]
  /\ pc[t] \in Pending => (number[t] \in due[t] <=> level[t] \in Enabled)
  /\ pc[t] \in Decided => (proceed[t] <=> level[t] \in Enabled)
  /\ pc[t] \in Decided \ {"building"} => proceed[t]
  /\ (t = Main => interrupted \in {"no", "idle"}) =>
       Printed(t) = IF pc[t] \in Pending THEN due[t] \ {number[t]} ELSE due[t]

InOrder(t) == LinesRise(t) /\ DueIsPrinted(t)
OrderInv == due \in [Thread -> SUBSET Nat] /\ \A t \in Thread : InOrder(t)

LEMMA InitOrderInv == Init => OrderInv
<1>. SUFFICES ASSUME Init PROVE OrderInv
  OBVIOUS
<1>1. \A t \in Thread : LinesBy(t) = {}
  BY DEF Init, LinesBy
<1>2. ASSUME NEW t \in Thread PROVE InOrder(t)
  <2>1. LinesBy(t) = {} /\ Printed(t) = {} /\ due[t] = {} /\ pc[t] = "idle"
    BY <1>1 DEF Init, Printed
  <2>. QED BY <2>1 DEF InOrder, LinesRise, DueIsPrinted, Pending, Decided
<1>. QED BY <1>2 DEF OrderInv, Init

(* A thread the step is not about keeps its lines and what is due.         *)
LEMMA OthersInOrder ==
  ASSUME NEW u \in Thread, InOrder(u), UNCHANGED interrupted,
         LinesBy(u)' = LinesBy(u), \A j \in LinesBy(u) : StatementAt(j)' = StatementAt(j),
         pc'[u] = pc[u], number'[u] = number[u], due'[u] = due[u], level'[u] = level[u],
         proceed'[u] = proceed[u]
  PROVE  InOrder(u)'
<1>1. Printed(u)' = Printed(u)
  BY DEF Printed
<1>2. LinesRise(u)'
  BY DEF InOrder, LinesRise
<1>3. DueIsPrinted(u)'
  BY <1>1 DEF InOrder, DueIsPrinted
<1>. QED BY <1>2, <1>3 DEF InOrder

(* A step of thread t that prints nothing and begins no statement.         *)
LEMMA QuietForOrder ==
  ASSUME LogInv, OrderInv, NEW t \in Thread, NEW to \in Pc, pc' = [pc EXCEPT ![t] = to],
         UNCHANGED <<number, due, level, terminal, interrupted>>,
         \A u \in Thread : u # t => proceed'[u] = proceed[u],
         \/ to \in Pending /\ pc[t] \in Pending
         \/ to \notin Pending /\ pc[t] \notin Pending
         \/ to \notin Pending /\ number[t] \notin due[t],
         to \in Decided => (proceed'[t] <=> level[t] \in Enabled),
         to \in Decided \ {"building"} => proceed'[t]
  PROVE  OrderInv'
<1>1. pc \in [Thread -> Pc] /\ number \in [Thread -> Nat] /\ due \in [Thread -> SUBSET Nat]
  BY DEF LogInv, LockInv, VarTypes, OrderInv
<1>2. ASSUME NEW u \in Thread
      PROVE  LinesBy(u)' = LinesBy(u) /\ \A j \in LinesBy(u) : StatementAt(j)' = StatementAt(j)
  BY DEF LinesBy, StatementAt
<1>3. ASSUME NEW u \in Thread, u # t PROVE InOrder(u)'
  <2>1. pc'[u] = pc[u] /\ proceed'[u] = proceed[u] /\ InOrder(u)
    BY <1>1, <1>3 DEF OrderInv
  <2>. QED BY <1>2, <2>1, OthersInOrder
<1>4. InOrder(t)'
  <2>1. InOrder(t) /\ pc'[t] = to /\ Printed(t)' = Printed(t)
    BY <1>1, <1>2 DEF OrderInv, Printed
  <2>2. LinesRise(t)'
    <3>1. \A j \in LinesBy(t) : StatementAt(j) \in due[t] \/ to \notin Pending \/ pc[t] \in Pending
      OBVIOUS
    <3>. QED BY <1>1, <1>2, <2>1, <3>1 DEF InOrder, LinesRise
  <2>3. DueIsPrinted(t)'
    <3>1. pc'[t] \in Decided => pc'[t] \in Pending
      BY DEF Pending, Decided
    <3>. QED BY <1>1, <2>1, <3>1 DEF InOrder, DueIsPrinted
  <2>. QED BY <2>2, <2>3 DEF InOrder
<1>. QED BY <1>1, <1>3, <1>4 DEF OrderInv

(* Thread t begins a statement; Main may do so in the middle of another.   *)
LEMMA BeginsInOrder ==
  ASSUME LogInv, OrderInv, NEW t \in Thread, NEW l \in Level, Starts(t, l),
         pc' = [pc EXCEPT ![t] = "lookup"], UNCHANGED <<proceed, terminal>>,
         \/ pc[t] = "idle" /\ UNCHANGED interrupted
         \/ t = Main /\ interrupted = "no" /\ interrupted' = pc[Main]
  PROVE  OrderInv'
<1>1. /\ pc \in [Thread -> Pc] /\ number \in [Thread -> Nat] /\ due \in [Thread -> SUBSET Nat]
      /\ level \in [Thread -> Level] /\ Main \in Thread
  BY LoggingAssumption DEF LogInv, LockInv, VarTypes, OrderInv
<1>2. ASSUME NEW u \in Thread
      PROVE  LinesBy(u)' = LinesBy(u) /\ \A j \in LinesBy(u) : StatementAt(j)' = StatementAt(j)
  BY DEF LinesBy, StatementAt
<1>3. /\ number'[t] = number[t] + 1 /\ level'[t] = l /\ pc'[t] = "lookup"
      /\ due'[t] = IF l \in Enabled THEN due[t] \cup {number[t] + 1} ELSE due[t]
      /\ due' \in [Thread -> SUBSET Nat]
  BY <1>1 DEF Starts
<1>4. ASSUME NEW u \in Thread, u # t PROVE InOrder(u)'
  <2>1. /\ pc'[u] = pc[u] /\ number'[u] = number[u] /\ due'[u] = due[u] /\ level'[u] = level[u]
        /\ InOrder(u)
    BY <1>1, <1>4 DEF Starts, OrderInv
  <2>2. CASE UNCHANGED interrupted
    BY <1>2, <2>1, <2>2, OthersInOrder
  <2>3. CASE t = Main
    <3>1. Printed(u)' = Printed(u)
      BY <1>2 DEF Printed
    <3>2. LinesRise(u)'
      BY <1>2, <2>1 DEF InOrder, LinesRise
    <3>3. DueIsPrinted(u)'
      BY <1>4, <2>1, <2>3, <3>1 DEF InOrder, DueIsPrinted
    <3>. QED BY <3>2, <3>3 DEF InOrder
  <2>. QED BY <2>2, <2>3
<1>5. InOrder(t)'
  <2>1. InOrder(t) /\ Printed(t)' = Printed(t) /\ number[t] \in Nat
    BY <1>1, <1>2 DEF OrderInv, Printed
  <2>2. LinesRise(t)'
    <3>1. \A j \in LinesBy(t) : StatementAt(j) \in 1..number[t]
      BY <2>1 DEF InOrder, LinesRise
    <3>2. \A j \in LinesBy(t) : StatementAt(j) \in 1..(number[t] + 1) /\ StatementAt(j) # number[t] + 1
      BY <2>1, <3>1
    <3>3. \A j, k \in LinesBy(t) : j < k => StatementAt(j) < StatementAt(k)
      BY <2>1 DEF InOrder, LinesRise
    <3>. QED BY <1>2, <1>3, <3>2, <3>3 DEF LinesRise
  <2>3. DueIsPrinted(t)'
    <3>1. due[t] \subseteq 1..number[t] /\ number[t] + 1 \notin due[t]
      <4>1. due[t] \subseteq 1..number[t]
        BY <2>1 DEF InOrder, DueIsPrinted
      <4>. QED BY <2>1, <4>1
    <3>2. due'[t] \subseteq 1..number'[t] /\ (number'[t] \in due'[t] <=> level'[t] \in Enabled)
      BY <1>3, <2>1, <3>1
    <3>3. "lookup" \in Pending /\ "lookup" \notin Decided /\ "idle" \notin Pending
      BY DEF Pending, Decided
    <3>4. ASSUME t = Main => interrupted' \in {"no", "idle"}
          PROVE  Printed(t)' = due'[t] \ {number'[t]}
      <4>1. pc[t] = "idle" /\ (t = Main => interrupted \in {"no", "idle"})
        <5>1. "no" \notin Pc
          BY DEF Pc
        <5>. QED BY <1>1, <3>4, <5>1
      <4>2. Printed(t) = due[t]
        BY <2>1, <3>3, <4>1 DEF InOrder, DueIsPrinted
      <4>. QED BY <1>3, <2>1, <3>1, <4>2
    <3>. QED BY <1>3, <3>2, <3>3, <3>4 DEF DueIsPrinted
  <2>. QED BY <2>2, <2>3 DEF InOrder
<1>. QED BY <1>3, <1>4, <1>5 DEF OrderInv

(* PrintLine puts the statement that t is in behind all its others.        *)
LEMMA PrintsInOrder ==
  ASSUME LogInv, OrderInv, NEW t \in Thread, PrintLine(t)
  PROVE  OrderInv'
<1>1. /\ pc' = [pc EXCEPT ![t] = "leave"] /\ pc[t] = "print"
      /\ terminal' = Append(terminal, Line(t))
      /\ UNCHANGED <<number, due, level, proceed, interrupted>>
  BY DEF PrintLine, Goes, signalVars
<1>2. /\ pc \in [Thread -> Pc] /\ number \in [Thread -> Nat] /\ due \in [Thread -> SUBSET Nat]
      /\ terminal \in Seq(LineRec) /\ MessagesWhole /\ OutTypes /\ Pieces \in Nat \ {0}
  BY LoggingAssumption DEF LogInv, LockInv, VarTypes, OutTypes, OrderInv
<1>3. Line(t).pieces[1] = Piece(t, number[t], 1) /\ Line(t) \in LineRec
  <2>1. message[t] = Whole(t, number[t]) /\ Line(t).pieces = message[t]
    BY <1>1, <1>2 DEF MessagesWhole, Dispatching, Line
  <2>2. Line(t) \in LineRec
    BY DEF Line, LineRec, OutTypes, VarTypes, LogInv, LockInv
  <2>. QED BY <1>2, <2>1, <2>2 DEF Whole
<1>4. /\ DOMAIN terminal = 1..Len(terminal) /\ Len(terminal) \in Nat
      /\ DOMAIN terminal' = 1..(Len(terminal) + 1)
      /\ \A j \in 1..Len(terminal) : terminal'[j] = terminal[j]
      /\ terminal'[Len(terminal) + 1] = Line(t)
  BY <1>1, <1>2, <1>3
<1>5. ASSUME NEW u \in Thread
      PROVE  /\ LinesBy(u)' = IF u = t THEN LinesBy(u) \cup {Len(terminal) + 1} ELSE LinesBy(u)
             /\ \A j \in LinesBy(u) : StatementAt(j)' = StatementAt(j) /\ j \in 1..Len(terminal)
             /\ \A j : j = Len(terminal) + 1 => StatementAt(j)' = number[t]
  <2>1. terminal'[Len(terminal) + 1].pieces[1].thread = t
    BY <1>3, <1>4 DEF Piece
  <2>2. terminal'[Len(terminal) + 1].pieces[1].number = number[t]
    BY <1>3, <1>4 DEF Piece
  <2>3. ASSUME NEW j
        PROVE  j \in LinesBy(u)' <=> j \in LinesBy(u) \/ (u = t /\ j = Len(terminal) + 1)
    BY <1>4, <2>1 DEF LinesBy
  <2>4. \A j \in LinesBy(u) : StatementAt(j)' = StatementAt(j) /\ j \in 1..Len(terminal)
    BY <1>4 DEF LinesBy, StatementAt
  <2>. QED BY <2>2, <2>3, <2>4 DEF StatementAt
<1>6. ASSUME NEW u \in Thread, u # t PROVE InOrder(u)'
  <2>1. pc'[u] = pc[u] /\ InOrder(u)
    BY <1>1, <1>2, <1>6 DEF OrderInv
  <2>2. LinesBy(u)' = LinesBy(u) /\ \A j \in LinesBy(u) : StatementAt(j)' = StatementAt(j)
    BY <1>5, <1>6
  <2>. QED BY <1>1, <2>1, <2>2, OthersInOrder
<1>7. InOrder(t)'
  <2>1. /\ InOrder(t) /\ number[t] \in Nat /\ pc'[t] = "leave"
        /\ "leave" \notin Pending \cup Decided /\ "print" \in Pending /\ "print" \in Decided \ {"building"}
    BY <1>1, <1>2 DEF OrderInv, Pending, Decided
  <2>2. LinesBy(t)' = LinesBy(t) \cup {Len(terminal) + 1}
    BY <1>5
  <2>3. \A j \in LinesBy(t) : /\ StatementAt(j)' = StatementAt(j) /\ j \in 1..Len(terminal)
                              /\ StatementAt(j) \in 1..number[t] /\ StatementAt(j) # number[t]
    BY <1>1, <1>5, <2>1 DEF InOrder, LinesRise
  <2>4. number[t] \in due[t] /\ due[t] \subseteq 1..number[t]
    BY <1>1, <2>1 DEF InOrder, DueIsPrinted
  <2>5. LinesRise(t)'
    <3>1. ASSUME NEW j \in LinesBy(t)', NEW k \in LinesBy(t)', j < k
          PROVE  StatementAt(j)' < StatementAt(k)'
      <4>1. j \in LinesBy(t)
        BY <1>4, <2>2, <2>3, <3>1
      <4>2. CASE k \in LinesBy(t)
        BY <2>1, <2>3, <3>1, <4>1, <4>2 DEF InOrder, LinesRise
      <4>3. CASE k = Len(terminal) + 1
        BY <1>5, <2>1, <2>3, <4>1, <4>3
      <4>. QED BY <2>2, <4>2, <4>3
    <3>2. ASSUME NEW j \in LinesBy(t)' PROVE StatementAt(j)' \in 1..number[t]
      <4>1. 1 <= number[t]
        BY <2>1, <2>4
      <4>. QED BY <1>5, <2>1, <2>2, <2>3, <4>1
    <3>. QED BY <1>1, <2>1, <3>1, <3>2 DEF LinesRise
  <2>6. DueIsPrinted(t)'
    <3>1. Printed(t)' = Printed(t) \cup {number[t]}
      BY <1>5, <2>2, <2>3 DEF Printed
    <3>2. ASSUME t = Main => interrupted \in {"no", "idle"} PROVE Printed(t)' = due[t]
      <4>1. Printed(t) = due[t] \ {number[t]}
        BY <1>1, <2>1, <3>2 DEF InOrder, DueIsPrinted
      <4>. QED BY <2>4, <3>1, <4>1
    <3>. QED BY <1>1, <2>1, <2>4, <3>2 DEF DueIsPrinted
  <2>. QED BY <2>5, <2>6 DEF InOrder
<1>. QED BY <1>1, <1>2, <1>6, <1>7 DEF OrderInv

-----------------------------------------------------------------------------
LEMMA NextOrderInv == LogInv /\ OrderInv /\ [Next]_vars => OrderInv'
<1>. SUFFICES ASSUME LogInv, OrderInv, [Next]_vars PROVE OrderInv'
  OBVIOUS
<1>0. /\ Main \in Thread /\ pc \in [Thread -> Pc] /\ proceed \in [Thread -> BOOLEAN]
      /\ \A t \in Thread : InOrder(t)
  BY LoggingAssumption DEF LogInv, LockInv, VarTypes, OrderInv
<1>p. ASSUME NEW t \in Thread
      PROVE  /\ pc[t] \in Decided => (proceed[t] <=> level[t] \in Enabled)
             /\ pc[t] \in Decided \ {"building"} => proceed[t]
             /\ pc[t] \in Pending => (number[t] \in due[t] <=> level[t] \in Enabled)
  BY <1>0 DEF InOrder, DueIsPrinted
<1>s. UNCHANGED <<pc, number, due, level, proceed, terminal, interrupted>> => OrderInv'
  BY DEF OrderInv, InOrder, LinesRise, DueIsPrinted, Printed, LinesBy, StatementAt
<1>t. CASE UNCHANGED vars
  BY <1>t, <1>s DEF vars, threadVars, outputVars, signalVars
<1>1. ASSUME NEW t \in Thread, NEW l \in Level, Begin(t, l) PROVE OrderInv'
  BY <1>1, BeginsInOrder DEF Begin, Goes, outputVars, signalVars
<1>2. ASSUME NEW t \in Thread, Lookup(t) PROVE OrderInv'
  <2>1. /\ pc' = [pc EXCEPT ![t] = "found"] /\ pc[t] = "lookup"
        /\ UNCHANGED <<number, due, level, proceed, terminal, interrupted>>
    BY <1>2 DEF Lookup, Goes, outputVars, signalVars
  <2>. QED BY <2>1, QuietForOrder DEF Pc, Pending, Decided
<1>3. ASSUME NEW t \in Thread, Found(t) PROVE OrderInv'
  <2>1. /\ pc' = [pc EXCEPT ![t] = "construct"] /\ pc[t] = "found"
        /\ UNCHANGED <<number, due, level, proceed, terminal, interrupted>>
    BY <1>3 DEF Found, Goes, outputVars, signalVars
  <2>. QED BY <2>1, QuietForOrder DEF Pc, Pending, Decided
<1>4. ASSUME NEW t \in Thread, initializeLogger(t) PROVE OrderInv'
  <2>1. /\ pc' = [pc EXCEPT ![t] = "building"] /\ pc[t] = "construct"
        /\ UNCHANGED <<number, due, level, terminal, interrupted>>
        /\ proceed' = [proceed EXCEPT ![t] = level[t] \in Enabled]
    BY <1>4 DEF initializeLogger, Goes, outputVars, signalVars
  <2>2. /\ proceed'[t] <=> level[t] \in Enabled
        /\ \A u \in Thread : u # t => proceed'[u] = proceed[u]
    BY <1>0, <2>1, Zenon
  <2>. QED BY <2>1, <2>2, QuietForOrder DEF Pc, Pending, Decided
<1>5. ASSUME NEW t \in Thread, Insert(t) PROVE OrderInv'
  BY <1>0, <1>5, <1>s DEF Insert, Goes, outputVars, signalVars
<1>6. ASSUME NEW t \in Thread, DropMessage(t) PROVE OrderInv'
  <2>1. /\ pc' = [pc EXCEPT ![t] = "idle"] /\ pc[t] = "building" /\ ~proceed[t]
        /\ UNCHANGED <<number, due, level, proceed, terminal, interrupted>>
    BY <1>6 DEF DropMessage, Goes, outputVars, signalVars
  <2>2. number[t] \notin due[t]
    BY <1>p, <2>1 DEF Pending, Decided
  <2>. QED BY <2>1, <2>2, QuietForOrder DEF Pc, Pending, Decided
<1>7. ASSUME NEW t \in Thread, triggerDispatch(t) PROVE OrderInv'
  <2>1. /\ pc' = [pc EXCEPT ![t] = "dispatch"] /\ pc[t] = "building" /\ proceed[t]
        /\ UNCHANGED <<number, due, level, proceed, terminal, interrupted>>
    BY <1>7 DEF triggerDispatch, Goes, outputVars, signalVars
  <2>. QED BY <1>p, <2>1, QuietForOrder DEF Pc, Pending, Decided
<1>8. ASSUME NEW t \in Thread, dispatch(t) PROVE OrderInv'
  <2>1. /\ pc' = [pc EXCEPT ![t] = "callback"] /\ pc[t] = "dispatch"
        /\ UNCHANGED <<number, due, level, proceed, terminal, interrupted>>
    BY <1>8 DEF dispatch, Goes, outputVars, signalVars
  <2>. QED BY <1>p, <2>1, QuietForOrder DEF Pc, Pending, Decided
<1>9. ASSUME NEW t \in Thread, acquireCallback(t) PROVE OrderInv'
  <2>1. /\ pc' = [pc EXCEPT ![t] = "write"] /\ pc[t] = "callback"
        /\ UNCHANGED <<number, due, level, proceed, terminal, interrupted>>
    BY <1>9 DEF acquireCallback, Goes, outputVars, signalVars
  <2>. QED BY <1>p, <2>1, QuietForOrder DEF Pc, Pending, Decided
<1>10. ASSUME NEW t \in Thread, WriteLine(t) PROVE OrderInv'
  <2>1. /\ pc' = [pc EXCEPT ![t] = "print"] /\ pc[t] = "write"
        /\ UNCHANGED <<number, due, level, proceed, terminal, interrupted>>
    BY <1>10 DEF WriteLine, Goes, signalVars
  <2>. QED BY <1>p, <2>1, QuietForOrder DEF Pc, Pending, Decided
<1>11. ASSUME NEW t \in Thread, leaveDispatch(t) PROVE OrderInv'
  <2>1. /\ pc' = [pc EXCEPT ![t] = "release"] /\ pc[t] = "leave"
        /\ UNCHANGED <<number, due, level, proceed, terminal, interrupted>>
    BY <1>11 DEF leaveDispatch, Goes, outputVars, signalVars
  <2>. QED BY <2>1, QuietForOrder DEF Pc, Pending, Decided
<1>12. ASSUME NEW t \in Thread, ReleaseLogger(t) PROVE OrderInv'
  <2>1. /\ pc' = [pc EXCEPT ![t] = "idle"] /\ pc[t] = "release"
        /\ UNCHANGED <<number, due, level, terminal, interrupted>>
        /\ \A u \in Thread : u # t => proceed'[u] = proceed[u]
    BY <1>0, <1>12 DEF ReleaseLogger, Goes, outputVars, signalVars
  <2>. QED BY <2>1, QuietForOrder DEF Pc, Pending, Decided
<1>13. ASSUME NEW t \in Thread, PrintLine(t) PROVE OrderInv'
  BY <1>13, PrintsInOrder
<1>14. CASE Interrupt
  <2>1. /\ pc' = [pc EXCEPT ![Main] = "lookup"] /\ Starts(Main, Fatal) /\ interrupted = "no"
        /\ interrupted' = pc[Main] /\ UNCHANGED <<proceed, terminal>>
    BY <1>14 DEF Interrupt, outputVars
  <2>. QED BY <1>0, <2>1, BeginsInOrder, LoggingAssumption
<1>15. CASE crashAbort
  BY <1>15, <1>s DEF crashAbort, threadVars, outputVars
<1>. QED
  BY <1>t, <1>1, <1>2, <1>3, <1>4, <1>5, <1>6, <1>7, <1>8, <1>9, <1>10, <1>11, <1>12, <1>13,
     <1>14, <1>15 DEF Next, Statement

(* For any number of threads and levels and a signal at any moment: a
   thread's lines are on the terminal in the order of its statements, none
   twice, and a thread between two statements has there exactly those
   whose level is enabled, unless the signal came within one of them
   (easylogging++.h 4458-4486, 5047-5065).                                 *)
THEOREM LinesInOrder == Spec => []StatementsInOrder
<1>1. OrderInv => StatementsInOrder
  <2>. SUFFICES ASSUME OrderInv, NEW t \in Thread
                PROVE  /\ \A j, k \in LinesBy(t) : j < k => StatementAt(j) < StatementAt(k)
                       /\ pc[t] = "idle" /\ (t = Main => interrupted \in {"no", "idle"}) =>
                            { StatementAt(j) : j \in LinesBy(t) } = due[t]
    BY DEF StatementsInOrder
  <2>1. LinesRise(t) /\ DueIsPrinted(t) /\ "idle" \notin Pending
    BY DEF OrderInv, InOrder, Pending
  <2>. QED BY <2>1 DEF LinesRise, DueIsPrinted, Printed
<1>2. LogInv /\ OrderInv /\ [Next]_vars => OrderInv'
  BY NextOrderInv
<1>. QED BY LogInvHolds, InitOrderInv, <1>1, <1>2, PTL DEF Spec
=============================================================================
