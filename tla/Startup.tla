------------------------------ MODULE Startup ------------------------------
(***************************************************************************)
(* The start of the two programs, up to the prompt of the client           *)
(* (src/src/DFS_Client.cpp) and to the event loop of the server            *)
(* (src/src/DFS_Server.cpp, ServerInstance): what the command line says,   *)
(* how the loggers are configured, and what the server listens on.  Nothing*)
(* else runs yet, so every call is one step.  A third program only sets a  *)
(* format as the two do, any format: that is the promise of the library.   *)
(***************************************************************************)
EXTENDS LogConfig, LogArgs

CONSTANTS
  Launch,        \* launches: [program, args, format, openable]
  PortNumber,    \* PortNumber[w]: the number that the word w starts with
  Folder,        \* the words that name a folder that exists
  Text,          \* what a message may say
  SourceFile,    \* source files, as sequences of symbols
  EntryLists     \* module lists, as sequences of entries

NoPort == -1

VARIABLES
  launch,        \* how the program was started
  phase,         \* the next call of main
  elconf,        \* the Configurations of main
  logs,          \* the loggers and the streams they share
  defaults,      \* m_defaultConfigurations
  flags,         \* m_flags
  vregistry,     \* m_vRegistry
  port,          \* the port that main read
  listener       \* what m_listener is bound to, NoPort without a listener

logVars == <<elconf, logs, defaults, flags, vregistry>>
startVars == <<launch, phase, logVars, port, listener>>

Phase == {"args", "defaults", "format", "reconfigure", "clear", "flags", "arguments",
          "initialize", "running", "serving", "returned"}

ClientFormat == << "<", "%levshort", ">: ", "%msg" >>
ServerFormat(n) == << "<", "%levshort", ">:[", ToString(n), "] ", "%msg" >>
FormatOf(n) == CASE launch.program = "client" -> ClientFormat
                 [] launch.program = "server" -> ServerFormat(n)
                 [] OTHER -> launch.format

(* The constructors that run before main.                                  *)
StartInit ==
  /\ launch \in Launch
  /\ phase = "args"
  /\ elconf = NoConfigurations
  /\ logs = Storage(launch.openable)
  /\ defaults = setToDefault(NoConfigurations)
  /\ flags = {"AllowVerboseIfModuleNotSpecified"}
  /\ vregistry = VRegistry
  /\ port = -1 /\ listener = NoPort

-----------------------------------------------------------------------------
Goto(p) == phase' = p

(* START_EASYLOGGINGPP: a default log file is given to the loggers that    *)
(* exist, through a list that has no entry for Global.                     *)
FileGiven == hasParamWithValue(launch.args, "--default-log-file")
FileConf(name) == setGlobally(NoConfigurations, "Filename", name, FALSE)

setApplicationArguments ==
  /\ phase = "args"
  /\ vregistry' = setFromArgs(vregistry, launch.args, "DisableVModules" \notin flags)
  /\ IF FileGiven
     THEN LET c == FileConf(getParamValue(launch.args, "--default-log-file"))
          IN  /\ defaults' = setFromBase(defaults, c)
              /\ logs' = configureAll(logs, c, launch.openable)
     ELSE UNCHANGED <<defaults, logs>>
  /\ Goto(IF launch.program = "server" THEN "flags" ELSE "defaults")
  /\ UNCHANGED <<launch, elconf, flags, port, listener>>

SetToDefault ==
  /\ phase = "defaults"
  /\ elconf' = setToDefault(elconf)
  /\ Goto("format")
  /\ UNCHANGED <<launch, logs, defaults, flags, vregistry, port, listener>>

SetFormat ==
  /\ phase = "format"
  /\ elconf' = setGlobally(elconf, "Format", FormatOf(port), FALSE)
  /\ Goto("reconfigure")
  /\ UNCHANGED <<launch, logs, defaults, flags, vregistry, port, listener>>

ReconfigureAllLoggers ==
  /\ phase = "reconfigure"
  /\ logs' = configureAll(logs, elconf, launch.openable)
  /\ Goto("clear")
  /\ UNCHANGED <<launch, elconf, defaults, flags, vregistry, port, listener>>

ClearConf ==
  /\ phase = "clear"
  /\ elconf' = NoConfigurations
  /\ Goto(IF launch.program = "server" THEN "initialize" ELSE "flags")
  /\ UNCHANGED <<launch, logs, defaults, flags, vregistry, port, listener>>

AddFlags ==
  /\ phase = "flags"
  /\ flags' = flags \cup {"ColoredTerminalOutput", "DisableApplicationAbortOnFatalLog"}
  /\ Goto(IF launch.program = "server" THEN "arguments" ELSE "running")
  /\ UNCHANGED <<launch, elconf, logs, defaults, vregistry, port, listener>>

-----------------------------------------------------------------------------
(* The server reads a folder and a port from its first two arguments,      *)
(* whatever these are.  A word that does not start with a number reads as  *)
(* 0, so only -1 and the empty word are refused; "8080=x" is 8080.         *)
DirectoryExists(a) == ~a.has /\ a.key \in Folder
EmptyWord == [key |-> "", has |-> FALSE, value |-> ""]
ReadPort(a) ==
  IF a.key \in DOMAIN PortNumber /\ (a.key = "" => a = EmptyWord) THEN PortNumber[a.key] ELSE 0

CheckArguments ==
  /\ phase = "arguments"
  /\ IF Len(launch.args) < 2 \/ ~DirectoryExists(launch.args[1])
     THEN Goto("returned") /\ UNCHANGED port
     ELSE /\ port' = ReadPort(launch.args[2])
          /\ Goto(IF port' = -1 THEN "returned" ELSE "format")
  /\ UNCHANGED <<launch, logVars, listener>>

(* ServerInstance::Initialize: the port is cut to 16 bits.                 *)
htons(n) == n % 65536

Initialize ==
  /\ phase = "initialize"
  /\ \/ listener' = htons(port) /\ Goto("serving")
     \/ UNCHANGED listener /\ Goto("returned")
  /\ UNCHANGED <<launch, logVars, port>>

(* callback_accept_error leaves the loop that Start is in.                 *)
AcceptError ==
  /\ phase = "serving"
  /\ Goto("returned")
  /\ UNCHANGED <<launch, logVars, port, listener>>

StartNext ==
  \/ setApplicationArguments \/ SetToDefault \/ SetFormat \/ ReconfigureAllLoggers
  \/ ClearConf \/ AddFlags \/ CheckArguments \/ Initialize \/ AcceptError

StartSpec == StartInit /\ [][StartNext]_startVars

-----------------------------------------------------------------------------
Logger == {"default", "performance"}

(* Every variable holds values of its kind: the lists name each of their   *)
(* entries once and have a value for it (Registry::get, unsafeSet), and    *)
(* the verbose level is one that setLevel accepts.                         *)
ListOK(c) ==
  DOMAIN c = Type /\ \A t \in Type :
    /\ DOMAIN c[t].value \subseteq Level \cup {Global}
    /\ ToSet(c[t].order) = DOMAIN c[t].value /\ Len(c[t].order) = Cardinality(DOMAIN c[t].value)
StartTypeOK ==
  /\ launch \in Launch /\ phase \in Phase
  /\ ListOK(elconf) /\ ListOK(defaults)
  /\ DOMAIN logs.loggers = Logger /\ \A g \in Logger : ListOK(logs.loggers[g].conf)
  /\ vregistry.level \in 0 .. MaxVerboseLevel
  /\ port \in Int /\ listener \in {NoPort} \cup 0 .. 65535

(* What a value of the list means once it is read.                         *)
Meaning(t, v) ==
  CASE t \in {"Format", "Filename"} -> v
    [] t \in {"Enabled", "ToFile", "ToStandardOutput", "PerformanceTracking"} -> getBool(v)
    [] OTHER -> getULong(v)

(* What logger g answers for a level.                                      *)
Answer(g, l, t) ==
  LET r == logs.loggers[g]
  IN  CASE t = "Format" -> Lookup(r.typed[t], l).userFormat
        [] t = "Filename" -> Lookup(r.names, l)
        [] OTHER -> Lookup(r.typed[t], l)

(* The maps that writers consult answer for every level, Global itself     *)
(* too, what the list of the logger says, though equal values share the    *)
(* entry of Global and the first value that is met becomes that entry      *)
(* (TypedConfigurations::build, setValue).                                 *)
AnswersFollowTheList ==
  \A g \in Logger, t \in Type \ {"ToFile"} :
    /\ Answers(IF t = "Filename" THEN logs.loggers[g].names ELSE logs.loggers[g].typed[t])
    /\ \A l \in Level \cup {Global} : Answer(g, l, t) = Meaning(t, logs.loggers[g].conf[t].value[l])

(* Configuring is what LogTable promises: applying a list gives every      *)
(* logger the last value of each of its settings and nothing else          *)
(* (Configurations::setFromBase, reconfigureAllLoggers, and setArgs with a *)
(* default log file).  ToFile depends on the files as well.                *)
Settings == Level \X (Type \ {"ToFile"})
Read(c) == [e \in {s \in Settings : s[1] \in DOMAIN c[s[2]].value} |-> Meaning(e[2], c[e[2]].value[e[1]])]
Files == {a.value : a \in {b \in UNION {ToSet(x.args) : x \in Launch} : b.key = "--default-log-file"}}

Reconfigured == \/ phase \in {"clear", "initialize", "running", "serving"}
                \/ phase = "flags" /\ launch.program # "server"
                \/ phase = "returned" /\ port # -1

Table == INSTANCE LogTable WITH
  Given <- {Read(FileConf(name)) : name \in Files},
  draft <- Read(elconf),
  applied <- (IF FileGiven /\ phase # "args" THEN 1 ELSE 0) + (IF Reconfigured THEN 1 ELSE 0),
  table <- [g \in Logger |-> [e \in Settings |-> Answer(g, e[1], e[2])]]
ConfiguredByLastWrite == Table!Spec

(* A level that logs to a file has an open one: a null stream, also one    *)
(* that another level or logger met first, turns ToFile off (insertFile).  *)
NoWriteToAbsentFile ==
  \A g \in Logger, l \in Level :
    Lookup(logs.loggers[g].typed["ToFile"], l) => Lookup(logs.loggers[g].files, l) # NullStream

(* The line of a message is its format with every specifier replaced at    *)
(* once, with the logger's and the level's own names; specifiers and       *)
(* escapes in the text of the message stay as they are (build,             *)
(* parseFromFormat, updateFormatSpec, resolveLoggerFormatSpec).            *)
LinesAsFormatted ==
  \A g \in Logger, l \in Level, text \in Text :
    build(Lookup(logs.loggers[g].typed["Format"], l), l, text)
      = LineAsked(logs.loggers[g].conf["Format"].value[l], l, g, text)

(* Verbose messages are shown as the command line asks.  Without a module  *)
(* list the level counts.  With one, a file that no entry names shows all; *)
(* otherwise the shown levels lie between those of the entries that name   *)
(* it (setModules, setFromArgs, allowed).                                  *)
Shown(v, file) == allowed(vregistry, v, file, "AllowVerboseIfModuleNotSpecified" \in flags)
LevelAsked ==
  LET Given(k) == hasParamWithValue(launch.args, k)
      Number(k) == NumberOf[getParamValue(launch.args, k)]
      n == IF Given("--v") THEN Number("--v") ELSE IF Given("--V") THEN Number("--V") ELSE 0
  IN  IF \E k \in {"-v", "-V", "--verbose", "--VERBOSE"} : hasParam(launch.args, k) THEN 9
      ELSE Min({9, Max({0, n})})
ListCounts(k) ==
  /\ hasParamWithValue(launch.args, k)
  /\ \A i \in DOMAIN launch.args : launch.args[i].key \notin
       {"-v", "-V", "--verbose", "--VERBOSE", "--v", "--V"} \cup IF k = "-VMODULE" THEN {"-vmodule"} ELSE {}
VerboseAsAsked ==
  phase # "args" => \A v \in 0 .. 9, file \in SourceFile :
    /\ (\A k \in {"-vmodule", "-VMODULE"} : ~hasParamWithValue(launch.args, k))
         => (Shown(v, file) <=> v <= LevelAsked)
    /\ \A k \in {"-vmodule", "-VMODULE"}, entries \in EntryLists :
         ListCounts(k) /\ getParamValue(launch.args, k) = Spelled(entries) =>
           LET levels == {DigitOf[e.digit] : e \in Naming(entries, file)}
           IN  IF levels = {} THEN Shown(v, file)
               ELSE /\ v <= Min(levels) => Shown(v, file)
                    /\ Shown(v, file) => v <= Max(levels)

(* A program that is under way logs every level of every logger to the     *)
(* terminal, each line in the program's format, and flushes none late; the *)
(* server listens on the port it was told, and says so in each line        *)
(* (main, ServerInstance::Initialize).                                     *)
UnderWay == phase \in {"running", "serving"} /\ launch.program # "sample"
PortTold == launch.args[2].key
StartsAsTold ==
  UnderWay =>
    /\ \A g \in Logger, l \in Level :
         /\ Answer(g, l, "Enabled") /\ Answer(g, l, "ToStandardOutput")
         /\ Answer(g, l, "LogFlushThreshold") = 0
         /\ \A text \in Text :
              LET line == build(Lookup(logs.loggers[g].typed["Format"], l), l, text)
              IN  line = IF phase = "running" THEN << "<", LevelShortValue[l], ">: ", text >>
                         ELSE << "<", LevelShortValue[l], ">:[", ToString(port), "] ", text >>
    /\ phase = "serving" /\ PortTold \in DOMAIN PortNumber /\ PortNumber[PortTold] \in 1 .. 65535
         => listener = PortNumber[PortTold] /\ port = listener
=============================================================================
