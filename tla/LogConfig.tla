----------------------------- MODULE LogConfig -----------------------------
(***************************************************************************)
(* Configurations and loggers (src/include/easylogging++.h).  A            *)
(* Configurations is a list of entries, in the order in which they were    *)
(* first set, each for a level and a type.  A logger replays such a list   *)
(* into a list of its own and builds its typed configurations from that:   *)
(* a map from levels to values for every type, in which Level::Global      *)
(* answers for the levels without an entry, and a stream for every log     *)
(* file, which all the loggers share.  Nothing depends on how the entries  *)
(* of two types interleave, so there is a list for each type here.         *)
(***************************************************************************)
EXTENDS LogFormat, TLC

CONSTANTS
  DefaultFile,   \* logs/myeasylog.log
  NullStream     \* the null pointer, for a file that cannot be opened

Global == "GLOBAL"
LevelOrder == << "TRACE", "DEBUG", "FATAL", "ERROR", "WARNING", "VERBOSE", "INFO" >>
Level == ToSet(LevelOrder)

Typed == {"Enabled", "ToFile", "ToStandardOutput", "Format", "MillisecondsWidth",
          "PerformanceTracking", "MaxLogFileSize", "LogFlushThreshold"}
Type == Typed \cup {"Filename"}

DefaultFormat == << "%datetime", " ", "%level", " [", "%logger", "] ", "%msg" >>
PerformanceFormat == << "%datetime", " ", "%level", " ", "%msg" >>
DefaultFormats ==
  << <<"DEBUG", << "%datetime", " ", "%level", " [", "%logger", "] [", "%user", "@", "%host", "] [",
                   "%func", "] [", "%loc", "] ", "%msg" >> >>,
     <<"ERROR", DefaultFormat>>, <<"FATAL", DefaultFormat>>,
     <<"VERBOSE", << "%datetime", " ", "%level", "-", "%vlevel", " [", "%logger", "] ", "%msg" >> >>,
     <<"TRACE", << "%datetime", " ", "%level", " [", "%logger", "] [", "%func", "] [", "%loc", "] ", "%msg" >> >> >>

-----------------------------------------------------------------------------
(* Configurations: for every type the levels, in order, and their values.  *)
NoConfigurations == [t \in Type |-> [order |-> <<>>, value |-> <<>>]]

(* The levels of ls get the value v; those that are not there yet are      *)
(* appended (unsafeSet).                                                   *)
Put(list, ls, v) ==
  [ order |-> list.order \o SelectSeq(ls, LAMBDA l : l \notin DOMAIN list.value),
    value |-> [l \in ToSet(ls) |-> v] @@ list.value ]

(* A bug for AnswersFollowTheList: the levels go into the list first.      *)
LevelsFirst(l) == IF l = Global THEN Append(LevelOrder, Global) ELSE <<l>>

(* set: the value of Global is that of every level.                        *)
Reached(l) == IF l = Global THEN <<Global>> \o LevelOrder ELSE <<l>>
set(c, l, t, v) == [c EXCEPT ![t] = Put(@, Reached(l), v)]

(* setGlobally: every level, and Global as well if it is included.         *)
setGlobally(c, t, v, includeGlobalLevel) ==
  [c EXCEPT ![t] = Put(@, IF includeGlobalLevel THEN Reached(Global) ELSE LevelOrder, v)]

Defaults == [ Enabled |-> "true", Filename |-> DefaultFile, ToFile |-> "true",
              ToStandardOutput |-> "true", MillisecondsWidth |-> "3", PerformanceTracking |-> "true",
              MaxLogFileSize |-> "0", LogFlushThreshold |-> "0", Format |-> DefaultFormat ]

setToDefault(c) ==
  FoldLeft(LAMBDA d, f : set(d, f[1], "Format", f[2]),
           [t \in Type |-> Put(c[t], Reached(Global), Defaults[t])],
           DefaultFormats)

(* A bug for ConfiguredByLastWrite: what is set already is kept.           *)
setIfNotExist(c, base) ==
  [t \in Type |-> FoldLeft(LAMBDA list, l : IF l \in DOMAIN list.value THEN list
                                           ELSE Put(list, Reached(l), base[t].value[l]),
                          c[t], base[t].order)]

(* setFromBase: the entries of the other list are set, in its order.       *)
setFromBase(c, base) ==
  [t \in Type |-> FoldLeft(LAMBDA list, l : Put(list, Reached(l), base[t].value[l]),
                          c[t], base[t].order)]

-----------------------------------------------------------------------------
(* Typed configurations.                                                   *)
getBool(v) == v \in {"TRUE", "true", "1"}
getULong(v) == CASE v = "3" -> 3 [] OTHER -> 0

(* setValue: the first value is that of Global, and a level with the value *)
(* of Global needs no entry.                                               *)
setValue(map, l, v) ==
  IF map = <<>> THEN Global :> v
  ELSE IF Global \in DOMAIN map /\ map[Global] = v THEN map
  ELSE (l :> v) @@ map

setFormat(map, l, f) ==
  IF l \in DOMAIN map /\ map[Global] # f THEN setValue(map, l, AssignFormat(map[l], f))
  ELSE setValue(map, l, f)

(* What a map answers for a level; it has no answer without Global.        *)
Answers(map) == Global \in DOMAIN map
Lookup(map, l) == IF l \in DOMAIN map THEN map[l] ELSE map[Global]

(* The first loop of build.  Two of the types are always those of Global.  *)
BuildType(c, t) ==
  LET Add(map, l) ==
        LET v == c[t].value[l]
        IN  CASE t = "Format" -> setFormat(map, l, LogFormat(l, v))
              [] t \in {"Enabled", "ToFile", "ToStandardOutput"} -> setValue(map, l, getBool(v))
              [] t = "PerformanceTracking" -> setValue(map, Global, getBool(v))
              [] t = "MillisecondsWidth" -> setValue(map, Global, getULong(v))
              [] OTHER -> setValue(map, l, getULong(v))
  IN  FoldLeft(Add, <<>>, c[t].order)

(* A bug for NoWriteToAbsentFile: only who fails to open the file cares.   *)
insertFileSharingNull(b, l, name, openable) ==
  LET level == IF b.names = <<>> /\ b.files = <<>> THEN Global ELSE l
      opened == IF name \in openable THEN name ELSE NullStream
      streams == b.streams @@ (name :> opened)
  IN  [ names |-> b.names @@ (level :> name),
        files |-> b.files @@ (level :> streams[name]),
        typed |-> IF name \notin DOMAIN b.streams /\ opened = NullStream
                  THEN [b.typed EXCEPT !["ToFile"] = setValue(@, level, FALSE)] ELSE b.typed,
        streams |-> streams ]

(* insertFile: the first file is that of Global.  A name that was seen     *)
(* before shares its stream, a null pointer too; without a stream the      *)
(* level does not log to a file.                                           *)
insertFile(b, l, name, openable) ==
  LET level == IF b.names = <<>> /\ b.files = <<>> THEN Global ELSE l
      opened == IF name \in openable THEN name ELSE NullStream
      streams == b.streams @@ (name :> opened)
  IN  [ names |-> b.names @@ (level :> name),
        files |-> b.files @@ (level :> streams[name]),
        typed |-> IF streams[name] = NullStream
                  THEN [b.typed EXCEPT !["ToFile"] = setValue(@, level, FALSE)] ELSE b.typed,
        streams |-> streams ]

(* build: the files come last.                                             *)
BuildTyped(c, streams, openable) ==
  FoldLeft(LAMBDA b, l : insertFile(b, l, c["Filename"].value[l], openable),
           [ names |-> <<>>, files |-> <<>>, typed |-> [t \in Typed |-> BuildType(c, t)],
             streams |-> streams ],
           c["Filename"].order)

-----------------------------------------------------------------------------
(* Loggers.  st is the loggers and the streams they share.                 *)
resolveLoggerFormatSpec(map, id) ==
  LET Resolve(m, l) == LET k == IF l \in DOMAIN m THEN l ELSE Global
                       IN  [m EXCEPT ![k] = ResolveLogger(m[k], id)]
  IN  FoldLeft(Resolve, map, LevelOrder)

reconfigure(st, id, c, openable) ==
  LET Built(b) ==
        [ loggers |-> (id :> [ conf |-> c, names |-> b.names, files |-> b.files,
                               typed |-> [b.typed EXCEPT !["Format"] = resolveLoggerFormatSpec(@, id)] ])
                        @@ st.loggers,
          streams |-> b.streams ]
  IN  Built(BuildTyped(c, st.streams, openable))

(* configure: a logger's list keeps what the other list does not set.      *)
configure(st, id, c, openable) == reconfigure(st, id, setFromBase(st.loggers[id].conf, c), openable)

(* A bug for StartsAsTold: the other logger is forgotten.                  *)
configureDefault(st, c, openable) == configure(st, "default", c, openable)

configureAll(st, c, openable) ==
  FoldLeft(LAMBDA s, id : configure(s, id, c, openable), st, << "default", "performance" >>)

(* RegisteredLoggers::get of a logger that is not there yet.               *)
newLogger(st, id, c, openable) ==
  reconfigure(st, id, setFromBase(NoConfigurations, c), openable)

(* The constructor of Storage: two loggers, one with a format of its own.  *)
Storage(openable) ==
  LET Add(st, id) == newLogger(st, id, setToDefault(NoConfigurations), openable)
      WithFormat(st) ==
        reconfigure(st, "performance",
                    setGlobally(st.loggers["performance"].conf, "Format", PerformanceFormat, FALSE), openable)
  IN  WithFormat(FoldLeft(Add, [loggers |-> <<>>, streams |-> <<>>], << "default", "performance" >>))
=============================================================================
