----------------------------- MODULE MCStartup -----------------------------
EXTENDS Startup

MCValueOf == [w \in {"%app", "%thread", "%datetime", "%func", "%file", "%fbase", "%line", "%loc",
                     "%user", "%host", "%vlevel"} |-> "<" \o w \o ">"]
MCNumberOf == ("3" :> 3) @@ ("12" :> 12) @@ ("-1" :> -1) @@ ("x" :> 0)
MCDigitOf == ("0" :> 0) @@ ("2" :> 2) @@ ("5" :> 5)

(* Symbols in the order of their first characters, then of the rest.       *)
Symbols == << "*", ".-inl.h", ".c", ".cc", ".cpp", ".cxx", ".h", ".hh", ".hpp", ".hxx", "/", "?",
              "C", "D", "s" >>
MCRank == [x \in ToSet(Symbols) |-> CHOOSE i \in DOMAIN Symbols : Symbols[i] = x]

MCSourceFile == {<<"s", "/", "C", ".cpp">>, <<"D", ".cpp">>}
Entry(name, digit) == [name |-> name, digit |-> digit]
OneEntry == {<<Entry(n, "2")>> : n \in {<<"*", "C">>, <<"D">>, <<"D", ".cpp">>, <<"D", ".h">>, <<"?">>, <<"*">>}}
TwoEntries == {<<Entry(<<"D">>, "5"), Entry(n, "2")>> : n \in {<<"*">>, <<"D">>, <<"*", "C">>, <<"*", "D">>}}
MCEntryLists == OneEntry \cup TwoEntries

Word(w) == [key |-> w, has |-> FALSE, value |-> ""]
With(k, v) == [key |-> k, has |-> TRUE, value |-> v]
Levels == {<<With("--v", n)>> : n \in DOMAIN MCNumberOf}
            \cup {<<Word("-v")>>, <<With("--V", "3")>>, <<With("--V", "3"), With("--v", "x")>>,
                  <<With("--v", "3"), With("--v", "12")>>, <<With("--v", "3"), Word("--VERBOSE")>>}
Lists == {<<With("-vmodule", Spelled(e))>> : e \in MCEntryLists}
           \cup {<<With("-VMODULE", Spelled(e)), With("-vmodule", Spelled(<<Entry(<<"*">>, "0")>>))>> : e \in OneEntry}
           \cup {<<With("-VMODULE", Spelled(e))>> : e \in OneEntry}
           \cup {<<With("-vmodule", l)>> : l \in {<<>>, <<",">>, <<"D", ",", "C", "=", "2">>, <<"D", "=", "s">>, <<"=", "2">>}}
Options == {<<>>} \cup Levels \cup Lists
LogFiles == {<<With("--default-log-file", n)>> : n \in {"other.log", "no/such.log"}}
ServerWords == {<<>>, <<Word("DFS1")>>} \cup
  {<<Word(f), Word(p)>> : f \in {"DFS1", "none"}, p \in {"8080", "70000", "0", "-1", "abc", ""}}
  \cup {<<Word("DFS1"), With("8080", "x")>>, <<Word("DFS1"), With("", "5")>>}

Openable == SUBSET {"logs/myeasylog.log", "other.log"}
AnyLaunch(program, args, format, openable) ==
  [program |-> program, args |-> args, format |-> format, openable |-> openable]

(* All short formats of six tokens, and some with the date, which must not *)
(* be escaped after its first occurrence nor everywhere.                   *)
Formats ==
  BoundedSeq({"%", "%msg", "%level", "%logger", "%line", "-"}, 3)
    \cup {<<"%datetime", "{date}", "%msg">>, <<"%", "%datetime", "%datetime", "{date}">>,
          <<"%datetime", "-", "{date}">>, <<"%msg", "{date}", "%datetime", "%", "%levshort">>,
          <<"%vlevel", "%levshort", "%msg", "%", "%user", "%user">>}

MCLaunch ==
  {AnyLaunch("client", a, <<>>, {"logs/myeasylog.log"}) : a \in Options}
    \cup {AnyLaunch("client", a, <<>>, o) : a \in LogFiles, o \in Openable}
    \cup {AnyLaunch("server", w \o a, <<>>, o) :
            w \in ServerWords, a \in LogFiles \cup {<<>>, <<Word("-v")>>}, o \in Openable}
    \cup {AnyLaunch("sample", <<>>, f, {"logs/myeasylog.log"}) : f \in Formats}

MCPortNumber == ("8080" :> 8080) @@ ("70000" :> 70000) @@ ("0" :> 0) @@ ("-1" :> -1) @@ ("" :> -1)
=============================================================================
