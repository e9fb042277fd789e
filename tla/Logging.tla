------------------------------ MODULE Logging ------------------------------
(***************************************************************************)
(* One process that logs (src/include/easylogging++.h, built with          *)
(* ELPP_THREAD_SAFE): the client's main thread and the threads of a PUT or *)
(* a LIST write with LOG and VLOG to the one logger "default".  A Writer   *)
(* is constructed, is given the pieces of its message with <<, which go    *)
(* into a stream the logger shares between all threads, and dispatches the *)
(* message when it is destroyed.  Locks are not recursive.                 *)
(***************************************************************************)
EXTENDS Integers, SequencesExt

CONSTANTS
  Thread,        \* the threads
  Main,          \* the thread that gets the signal, if one comes
  Nobody,        \* the owner of a free lock
  Level,         \* the levels of log statements
  Fatal,         \* the level of the crash handler's message
  Enabled,       \* the levels the configuration enables
  Threshold,     \* Threshold[l]: LogFlushThreshold of level l
  Pieces,        \* the operands of << in one statement
  Signals,       \* whether SIGINT or a fault may come
  DiskMayFill,   \* whether a flush may fail
  MaxStatements  \* bound: log statements of a thread

ASSUME LoggingAssumption ==
  /\ Main \in Thread /\ Nobody \notin Thread
  /\ Fatal \in Level /\ Enabled \subseteq Level
  /\ Threshold \in [Level -> Nat] /\ Pieces \in Nat \ {0} /\ MaxStatements \in Nat
  /\ Signals \in BOOLEAN /\ DiskMayFill \in BOOLEAN

VARIABLES
  pc,            \* pc[t]: where thread t is in its log statement
  number,        \* number[t]: how many statements thread t has begun
  due,           \* due[t]: which of them had an enabled level (no code keeps it)
  level,         \* level[t]: m_level of the Writer of t
  proceed,       \* proceed[t]: its m_proceed
  message,       \* message[t]: m_message of its LogMessage
  owner,         \* owner[k]: the thread that holds lock k
  stream,        \* m_stream of the logger, as a sequence of pieces
  count,         \* m_unflushedCount of the logger
  buffer, disk,  \* lines in the buffer of the log file, and in the file
  broken,        \* the stream of the log file has failed: it stays failed
  terminal,      \* lines on standard output
  interrupted,   \* where Main was when a signal came, "no" before
  alive          \* the process has not been aborted

threadVars == <<pc, number, due, level, proceed, message>>
outputVars == <<count, buffer, disk, broken, terminal>>
signalVars == <<interrupted, alive>>
vars == <<threadVars, owner, stream, outputVars, signalVars>>

Lock == {"registry", "logger", "storage", "callback"}

(* Piece k of the statement n of thread t.                                 *)
Piece(t, n, k) == [thread |-> t, number |-> n, piece |-> k]

Init ==
  /\ pc = [t \in Thread |-> "idle"]
  /\ number = [t \in Thread |-> 0]
  /\ due = [t \in Thread |-> {}]
  /\ level = [t \in Thread |-> Fatal]
  /\ proceed = [t \in Thread |-> FALSE]
  /\ message = [t \in Thread |-> <<>>]
  /\ owner = [k \in Lock |-> Nobody]
  /\ stream = <<>>
  /\ count = [l \in Level |-> 0]
  /\ buffer = <<>> /\ disk = <<>> /\ broken = FALSE /\ terminal = <<>>
  /\ interrupted = "no" /\ alive = TRUE

Acquire(t, k) == owner[k] = Nobody /\ owner' = [owner EXCEPT ![k] = t]
Release(K) == owner' = [k \in Lock |-> IF k \in K THEN Nobody ELSE owner[k]]

Goes(t, from, to) == alive /\ pc[t] = from /\ pc' = [pc EXCEPT ![t] = to]

(* Thread t begins a statement of level l.                                 *)
Starts(t, l) ==
  /\ number' = [number EXCEPT ![t] = @ + 1]
  /\ level' = [level EXCEPT ![t] = l]
  /\ due' = IF l \in Enabled THEN [due EXCEPT ![t] = @ \cup {number[t] + 1}] ELSE due

-----------------------------------------------------------------------------
(* LOG(l): Writer(l, ...).construct(1, "default").                         *)
Begin(t, l) ==
  /\ number[t] < MaxStatements /\ (t = Main => interrupted = "no")
  /\ Goes(t, "idle", "lookup")
  /\ Starts(t, l)
  /\ UNCHANGED <<proceed, message, owner, stream, outputVars, signalVars>>

(* RegisteredLoggers::get, under the lock of the registry.                 *)
Lookup(t) ==
  /\ Goes(t, "lookup", "found") /\ Acquire(t, "registry")
  /\ UNCHANGED <<number, due, level, proceed, message, stream, outputVars, signalVars>>

Found(t) ==
  /\ Goes(t, "found", "construct") /\ Release({"registry"})
  /\ UNCHANGED <<number, due, level, proceed, message, stream, outputVars, signalVars>>

(* initializeLogger: the lock of the logger is taken here and held to the  *)
(* end of the statement, whatever m_proceed is.                            *)
LogsWithoutLock(t) ==
  /\ Goes(t, "construct", "building") /\ UNCHANGED owner
  /\ proceed' = [proceed EXCEPT ![t] = level[t] \in Enabled]
  /\ UNCHANGED <<number, due, level, message, stream, outputVars, signalVars>>

initializeLogger(t) ==
  /\ Goes(t, "construct", "building") /\ Acquire(t, "logger")
  /\ proceed' = [proceed EXCEPT ![t] = level[t] \in Enabled]
  /\ UNCHANGED <<number, due, level, message, stream, outputVars, signalVars>>

(* One operand of <<: MessageBuilder puts it into the logger's stream.     *)
Insert(t) ==
  /\ proceed[t] /\ Len(stream) < Pieces
  /\ Goes(t, "building", "building")
  /\ stream' = Append(stream, Piece(t, number[t], Len(stream) + 1))
  /\ UNCHANGED <<number, due, level, proceed, message, owner, outputVars, signalVars>>

(* The Writer of a disabled level is destroyed.                            *)
DropKeepsLock(t) ==
  /\ ~proceed[t]
  /\ Goes(t, "building", "idle")
  /\ stream' = <<>> /\ UNCHANGED owner
  /\ UNCHANGED <<number, due, level, proceed, message, outputVars, signalVars>>

DropMessage(t) ==
  /\ ~proceed[t]
  /\ Goes(t, "building", "idle")
  /\ stream' = <<>> /\ Release({"logger"})
  /\ UNCHANGED <<number, due, level, proceed, message, outputVars, signalVars>>

(* processDispatch: the LogMessage takes a copy of the stream.             *)
triggerDispatch(t) ==
  /\ proceed[t] /\ Len(stream) = Pieces
  /\ Goes(t, "building", "dispatch")
  /\ message' = [message EXCEPT ![t] = stream]
  /\ UNCHANGED <<number, due, level, proceed, owner, stream, outputVars, signalVars>>

-----------------------------------------------------------------------------
(* LogDispatcher::dispatch takes the lock of the storage, then that of the *)
(* one callback that is installed.                                         *)
dispatch(t) ==
  /\ Goes(t, "dispatch", "callback") /\ Acquire(t, "storage")
  /\ UNCHANGED <<number, due, level, proceed, message, stream, outputVars, signalVars>>

acquireCallback(t) ==
  /\ Goes(t, "callback", "write") /\ Acquire(t, "callback")
  /\ UNCHANGED <<number, due, level, proceed, message, stream, outputVars, signalVars>>

(* isFlushNeeded and Logger::flush of one level: the whole file is         *)
(* flushed, the count of this level only is reset.  A flush that fails may *)
(* have written some lines and a part of the next one; the stream has      *)
(* failed from then on and writes nothing more.                            *)
LaterThanNeeded(l, n) == n > Threshold[l]
Needed(l, n) == n >= Threshold[l]

Cut(line) == [line EXCEPT !.pieces = Front(@)]

FlushOf(out) ==
  /\ buffer' = <<>>
  /\ \/ disk' = disk \o out /\ broken' = FALSE
     \/ /\ DiskMayFill /\ broken' = TRUE
        /\ \E n \in 1..Len(out) : \E rest \in {<<>>, <<Cut(out[n])>>} :
             disk' = disk \o SubSeq(out, 1, n - 1) \o rest

(* The LogBuilder's line.                                                  *)
Line(t) == [level |-> level[t], pieces |-> message[t]]

(* DefaultLogDispatchCallback::dispatch, the log file.                     *)
WriteLine(t) ==
  LET l == level[t] IN
  /\ Goes(t, "write", "print")
  /\ \/ broken /\ UNCHANGED <<count, buffer, disk, broken>>
     \/ /\ ~broken /\ Needed(l, count[l] + 1)
        /\ FlushOf(Append(buffer, Line(t)))
        /\ count' = [count EXCEPT ![l] = 0]
     \/ /\ ~broken /\ ~Needed(l, count[l] + 1)
        /\ buffer' = Append(buffer, Line(t))
        /\ count' = [count EXCEPT ![l] = @ + 1]
        /\ UNCHANGED <<disk, broken>>
  /\ UNCHANGED <<number, due, level, proceed, message, owner, stream, terminal, signalVars>>

PrintLine(t) ==
  /\ Goes(t, "print", "leave")
  /\ terminal' = Append(terminal, Line(t))
  /\ UNCHANGED <<number, due, level, proceed, message, owner, stream, count, buffer, disk, broken,
                 signalVars>>

leaveWithCallback(t) ==
  /\ Goes(t, "leave", "release") /\ Release({"storage"})
  /\ UNCHANGED <<number, due, level, proceed, message, stream, outputVars, signalVars>>

leaveDispatch(t) ==
  /\ Goes(t, "leave", "release") /\ Release({"callback", "storage"})
  /\ UNCHANGED <<number, due, level, proceed, message, stream, outputVars, signalVars>>

(* The stream is emptied before the logger is given to the next thread.    *)
ReleaseWithStream(t) ==
  /\ Goes(t, "release", "idle") /\ Release({"logger"})
  /\ proceed' = [proceed EXCEPT ![t] = FALSE]
  /\ UNCHANGED <<number, due, level, message, stream, outputVars, signalVars>>

ReleaseLogger(t) ==
  /\ Goes(t, "release", "idle") /\ Release({"logger"})
  /\ stream' = <<>>
  /\ proceed' = [proceed EXCEPT ![t] = FALSE]
  /\ UNCHANGED <<number, due, level, message, outputVars, signalVars>>

-----------------------------------------------------------------------------
(* A signal: defaultCrashHandler runs on top of whatever Main was doing,   *)
(* logs the reason as a statement of its own, and aborts.  (A fatal        *)
(* statement of the programs does not: both set the flag                   *)
(* DisableApplicationAbortOnFatalLog.)                                     *)
Interrupt ==
  /\ Signals /\ alive /\ interrupted = "no"
  /\ interrupted' = pc[Main]
  /\ pc' = [pc EXCEPT ![Main] = "lookup"]
  /\ Starts(Main, Fatal)
  /\ UNCHANGED <<proceed, message, owner, stream, outputVars, alive>>

crashAbort ==
  /\ alive /\ interrupted # "no" /\ pc[Main] = "idle"
  /\ alive' = FALSE
  /\ UNCHANGED <<threadVars, owner, stream, outputVars, interrupted>>

Statement(t) ==
  \/ Lookup(t) \/ Found(t) \/ initializeLogger(t) \/ Insert(t) \/ DropMessage(t)
  \/ triggerDispatch(t) \/ dispatch(t) \/ acquireCallback(t) \/ WriteLine(t)
  \/ PrintLine(t) \/ leaveDispatch(t) \/ ReleaseLogger(t)

Next ==
  \/ \E t \in Thread : (\E l \in Level : Begin(t, l)) \/ Statement(t)
  \/ Interrupt \/ crashAbort

Spec == Init /\ [][Next]_vars

(* The scheduler runs every thread that can go on; nobody has to log.      *)
Fairness == (\A t \in Thread : WF_vars(Statement(t))) /\ WF_vars(crashAbort)
FairSpec == Spec /\ Fairness

-----------------------------------------------------------------------------
(* Where lock k is held.  A thread that was interrupted there holds it for *)
(* ever.                                                                   *)
Within == [ registry |-> {"found"},
            logger   |-> {"building", "dispatch", "callback", "write", "print", "leave", "release"},
            storage  |-> {"callback", "write", "print", "leave"},
            callback |-> {"write", "print", "leave"} ]

Holds(t, k) == pc[t] \in Within[k] \/ (t = Main /\ interrupted \in Within[k])

Pc == { "idle", "lookup", "found", "construct", "building", "dispatch", "callback", "write",
        "print", "leave", "release" }

(* The locks are held exactly where the code holds them, by one thread.    *)
LogTypeOK ==
  /\ pc \in [Thread -> Pc]
  /\ number \in [Thread -> Nat]
  /\ level \in [Thread -> Level]
  /\ proceed \in [Thread -> BOOLEAN]
  /\ count \in [Level -> Nat]
  /\ broken \in BOOLEAN /\ alive \in BOOLEAN
  /\ interrupted \in Pc \cup {"no"}
  /\ owner \in [Lock -> Thread \cup {Nobody}]
  /\ \A t \in Thread, k \in Lock : owner[k] = t <=> Holds(t, k)

Whole(t, n) == [k \in 1..Pieces |-> Piece(t, n, k)]
Lines(out) == { out[j] : j \in DOMAIN out }

(* The pieces of two statements never end up in one line, and no line is   *)
(* cut short, on the terminal or, until a flush fails, in the file,        *)
(* although all threads build their messages in the one stream of the      *)
(* logger (easylogging++.h 4907-5066).                                     *)
LinesAreWhole ==
  \A line \in Lines(terminal) \cup (IF broken THEN {} ELSE Lines(buffer \o disk)) :
    \E t \in Thread : \E n \in 1..number[t] : line.pieces = Whole(t, n)

(* The lines of thread t on the terminal, and the statements they are of.  *)
LinesBy(t) == { j \in DOMAIN terminal : terminal[j].pieces[1].thread = t }
StatementAt(j) == terminal[j].pieces[1].number

(* The statements of a thread come out in the order in which it made them, *)
(* none twice; and once a thread is done with its statements, those whose  *)
(* level is enabled, and no others, have come out, unless a signal came    *)
(* within one of them (4458-4486, 5047-5065).                              *)
StatementsInOrder ==
  \A t \in Thread :
    /\ \A j, k \in LinesBy(t) : j < k => StatementAt(j) < StatementAt(k)
    /\ pc[t] = "idle" /\ (t = Main => interrupted \in {"no", "idle"}) =>
         { StatementAt(j) : j \in LinesBy(t) } = due[t]

(* A line is in the file or its buffer and not yet printed only in between *)
(* WriteLine and leaveDispatch; a thread interrupted there never goes on.  *)
InWrite == \E t \in Thread :
  (IF t = Main THEN {pc[t], interrupted} ELSE {pc[t]}) \cap {"print", "leave"} # {}

Buffered(l) == { j \in DOMAIN buffer : buffer[j].level = l }

(* Unless a flush has failed, the log file has the lines of the terminal   *)
(* in the terminal's order, and what a kill can take from it is, for each  *)
(* level, fewer lines than the flush threshold of that level, although a   *)
(* flush writes the lines of all levels and resets the count of one: with  *)
(* the threshold 0 of the programs, nothing (3492-3504, 4181-4203).        *)
KillTakesFew ==
  ~broken =>
    /\ \A l \in Level : Buffered(l) = {} \/ Cardinality(Buffered(l)) < Threshold[l]
    /\ \/ disk \o buffer = terminal
       \/ InWrite /\ \E line \in Lines(disk \o buffer) :
                       disk \o buffer = Append(terminal, line)

(* A signal that comes while Main holds a lock of the logging library      *)
(* leaves the handler waiting for that lock for ever.  Any other signal    *)
(* does end the program, after the reason was logged (5560-5595).          *)
Hung == interrupted # "no" /\ \E k \in Lock : interrupted \in Within[k]
InterruptEnds == (interrupted # "no" /\ ~Hung) ~> ~alive

(* Without such a signal no thread is held up for ever by the locks.       *)
StatementsReturn ==
  \A t \in Thread : pc[t] # "idle" ~> (pc[t] = "idle" \/ ~alive \/ Hung)

=============================================================================
