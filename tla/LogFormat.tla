----------------------------- MODULE LogFormat -----------------------------
(***************************************************************************)
(* From a format to a log line (src/include/easylogging++.h, LogFormat and *)
(* DefaultLogBuilder).  A format is a sequence of tokens: the escape       *)
(* character, the specifiers, date formats in braces, and pieces of text   *)
(* without '%'.  A specifier just after an escape is not a specifier.      *)
(* The format is read once, when a logger is configured, and the line is   *)
(* built by one replacement after the other in what the earlier ones left. *)
(***************************************************************************)
EXTENDS Integers, Sequences, SequencesExt

CONSTANTS
  DateFormat,   \* date formats in braces, as tokens
  ValueOf       \* what the program, the place and the user put for a specifier

Escape == "%"
Unknown == "UNKNOWN"          \* stands for every level without a name of its own
DefaultDate == "%Y-%M-%d %H:%m:%s,%g"

FlagOrder == << "%app", "%level", "%levshort", "%logger", "%thread", "%file", "%fbase", "%line",
                "%loc", "%func", "%user", "%host", "%msg", "%vlevel" >>
BuildOrder == << "%app", "%thread", "%datetime", "%func", "%file", "%fbase", "%line", "%loc" >>

(* What a level is called in the long and in the short form.               *)
LevelValue == [ TRACE |-> "TRACE", DEBUG |-> "DEBUG", FATAL |-> "FATAL", ERROR |-> "ERROR",
                WARNING |-> "WARN ", VERBOSE |-> "VER", INFO |-> "INFO " ]
LevelShortValue == [ TRACE |-> "T", DEBUG |-> "D", FATAL |-> "F", ERROR |-> "E",
                     WARNING |-> "W", VERBOSE |-> "V", INFO |-> "I" ]

-----------------------------------------------------------------------------
Occurrences(s, w) == {i \in DOMAIN s : s[i] = w}
Escaped(s, w) == {i \in Occurrences(s, w) : i > 1 /\ s[i - 1] = Escape}
Plain(s, w)   == Occurrences(s, w) \ Escaped(s, w)

(* s without the escapes in front of the positions in W.                   *)
Unescape(s, W) ==
  LET kept == SelectSeq([i \in DOMAIN s |-> i], LAMBDA i : i + 1 \notin W)
  IN  [k \in DOMAIN kept |-> s[kept[k]]]

(* conditionalAddFlag: once a specifier was met, later ones lose their     *)
(* escape, for only the first is ever replaced.                            *)
conditionalAddFlag(s, w) ==
  IF Plain(s, w) = {} THEN s
  ELSE Unescape(s, {i \in Escaped(s, w) : i > Min(Plain(s, w))})

(* replaceFirstWithEscape: the escapes met before the first specifier go   *)
(* as well, all of them if there is none to replace.                       *)
replaceFirstWithEscape(s, w, v) ==
  LET plain == Plain(s, w)
  IN  IF plain = {} THEN Unescape(s, Escaped(s, w))
      ELSE Unescape([s EXCEPT ![Min(plain)] = v], {i \in Escaped(s, w) : i < Min(plain)})

(* updateDateFormat: braces after the first date specifier hold its format.*)
DateBraces(s) ==
  {i + 1 : i \in {j \in DOMAIN s : /\ Plain(s, "%datetime") # {} /\ j = Min(Plain(s, "%datetime"))
                                   /\ j < Len(s) /\ s[j + 1] \in DateFormat}}

(* updateFormatSpec: what is known when the logger is configured.          *)
updateFormatSpec(s, level, flags) ==
  LET named == IF level \notin DOMAIN LevelValue THEN s
               ELSE replaceFirstWithEscape(
                      replaceFirstWithEscape(s, "%level", LevelValue[level]),
                      "%levshort", LevelShortValue[level])
      Known(t, w) == IF w \in flags THEN replaceFirstWithEscape(t, w, ValueOf[w]) ELSE t
  IN  Known(Known(named, "%user"), "%host")

(* LogFormat(level, format): parseFromFormat.                              *)
LogFormat(level, user) ==
  LET flagged == FoldLeft(conditionalAddFlag, user, FlagOrder)
      flags == {w \in ToSet(FlagOrder) \cup {"%datetime"} : Plain(user, w) # {}}
      braces == DateBraces(flagged)
      dateless == [k \in 1 .. Len(flagged) - (IF braces = {} THEN 0 ELSE 1)
                     |-> IF \E b \in braces : k >= b THEN flagged[k + 1] ELSE flagged[k]]
  IN  [ level |-> level, userFormat |-> user, flags |-> flags,
        format |-> updateFormatSpec(dateless, level, flags),
        dateTimeFormat |-> IF "%datetime" \notin flags THEN ""
                           ELSE IF braces = {} THEN DefaultDate
                           ELSE flagged[CHOOSE b \in braces : TRUE] ]

(* resolveLoggerFormatSpec, for the format of one level.                   *)
ResolveLogger(f, id) == [f EXCEPT !.format = replaceFirstWithEscape(@, "%logger", id)]

(* LogFormat's assignment forgets m_format: the text stays the old one.    *)
AssignFormat(old, new) == [new EXCEPT !.format = old.format]

(* A bug for LinesAsFormatted: the text goes in before its place and time. *)
buildMessageFirst(f, level, text) ==
  LET Fill(s, w) == IF w \in f.flags THEN replaceFirstWithEscape(s, w, ValueOf[w]) ELSE s
      first == IF "%msg" \in f.flags THEN replaceFirstWithEscape(f.format, "%msg", text) ELSE f.format
      line == FoldLeft(Fill, first, BuildOrder)
  IN  IF level = "VERBOSE" THEN Fill(line, "%vlevel") ELSE line

(* DefaultLogBuilder::build for a message with this level and text.        *)
build(f, level, text) ==
  LET Fill(s, w) == IF w \in f.flags THEN replaceFirstWithEscape(s, w, ValueOf[w]) ELSE s
      line == FoldLeft(Fill, f.format, BuildOrder)
      verbose == IF level = "VERBOSE" THEN Fill(line, "%vlevel") ELSE line
  IN  IF "%msg" \in f.flags THEN replaceFirstWithEscape(verbose, "%msg", text) ELSE verbose

-----------------------------------------------------------------------------
(* The line that a format asks for, position by position and at once: the  *)
(* first of the specifiers of a kind stands for its value, an escape in    *)
(* front of a specifier is dropped, and everything else is text.  Only a   *)
(* specifier that is written with the escape alone may keep it, if it is   *)
(* not one that every format resolves.                                     *)
Resolved == {"%level", "%levshort", "%logger"}

LineAsked(s, level, id, text) ==
  LET Given == [w \in ToSet(FlagOrder) \cup {"%datetime"} |->
                  CASE w = "%level" -> LevelValue[level]
                    [] w = "%levshort" -> LevelShortValue[level]
                    [] w = "%logger" -> id
                    [] w = "%msg" -> text
                    [] OTHER -> ValueOf[w]]
      active == DOMAIN Given \ (IF level = "VERBOSE" THEN {} ELSE {"%vlevel"})
      dropped == {i - 1 : i \in UNION {Escaped(s, w) : w \in {v \in active : v \in Resolved \/ Plain(s, v) # {}}}}
                   \cup DateBraces(s)
      kept == SelectSeq([i \in DOMAIN s |-> i], LAMBDA i : i \notin dropped)
      At(i) == IF s[i] \in active /\ i \in Plain(s, s[i]) /\ i = Min(Plain(s, s[i])) THEN Given[s[i]]
               ELSE s[i]
  IN  [k \in DOMAIN kept |-> At(kept[k])]
=============================================================================
