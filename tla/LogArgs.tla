------------------------------ MODULE LogArgs ------------------------------
(***************************************************************************)
(* What the command line tells the log (src/include/easylogging++.h,       *)
(* CommandLineArgs and VRegistry): the verbose level, and the levels of    *)
(* single source files.  An argument is a record of its key, whether a '=' *)
(* follows, and its value.  A module list, a file name and a pattern are   *)
(* sequences of symbols: characters, and an extension as one symbol.       *)
(***************************************************************************)
EXTENDS Integers, Sequences, SequencesExt

CONSTANTS
  NumberOf,     \* NumberOf[w]: what atoi makes of the word w
  DigitOf,      \* DigitOf[x]: the value of the symbol x, if it is a digit
  Rank          \* Rank[x]: the place of the symbol x in the order of characters

MaxVerboseLevel == 9

ExtensionOrder == << ".h", ".c", ".cpp", ".cc", ".cxx", ".-inl.h", ".hxx", ".hpp", ".hh" >>

-----------------------------------------------------------------------------
(* CommandLineArgs: the first value of a key is the one that counts.       *)
hasParam(argv, k) == \E i \in DOMAIN argv : argv[i].key = k /\ ~argv[i].has
WithValue(argv, k) == {i \in DOMAIN argv : argv[i].key = k /\ argv[i].has}
hasParamWithValue(argv, k) == WithValue(argv, k) # {}
getParamValue(argv, k) == argv[Min(WithValue(argv, k))].value

-----------------------------------------------------------------------------
(* The registry: a level for every file, and patterns with their own.      *)
VRegistry == [level |-> 0, modules |-> <<>>]

(* A bug for StartTypeOK: any number is taken.                             *)
setAnyLevel(reg, n) == [reg EXCEPT !.level = n]

setLevel(reg, n) ==
  [reg EXCEPT !.level = IF n < 0 THEN 0 ELSE IF n > 9 THEN MaxVerboseLevel ELSE n]

Without(name, ext) == IF name # <<>> /\ Last(name) = ext THEN Front(name) ELSE name

(* addSuffix: the extension before it and its own go first.                *)
addSuffix(name, k) ==
  LET bare == IF k = 1 THEN name ELSE Without(name, ExtensionOrder[k - 1])
  IN  Append(Without(bare, ExtensionOrder[k]), ExtensionOrder[k])

(* insert: the name with each extension in turn; a map's insert keeps the  *)
(* entry that is there.                                                    *)
InsertModule(modules, name, level) ==
  FoldLeft(LAMBDA s, k : LET n == addSuffix(s.name, k)
                         IN  [name |-> n, modules |-> s.modules @@ (n :> level)],
           [name |-> name, modules |-> modules],
           [k \in DOMAIN ExtensionOrder |-> k]).modules

(* A bug for VerboseAsAsked: the name of the entry stays in the stream.    *)
EndEntryKeepsName(p) ==
  IF p.name # <<>> /\ p.level # -1
  THEN [p EXCEPT !.modules = InsertModule(p.modules, p.name, p.level), !.level = -1]
  ELSE p

(* The end of an entry: one that has no name or no digit yet is kept, and  *)
(* what follows is added to it.                                            *)
EndEntry(p) ==
  IF p.name # <<>> /\ p.level # -1
  THEN [p EXCEPT !.modules = InsertModule(p.modules, p.name, p.level), !.name = <<>>, !.level = -1]
  ELSE p

Symbol(p, x) ==
  CASE x = "=" -> [p EXCEPT !.isMod = FALSE]
    [] x = "," -> [EndEntry(p) EXCEPT !.isMod = TRUE]
    [] OTHER -> IF p.isMod THEN [p EXCEPT !.name = Append(@, x)]
                ELSE IF x \in DOMAIN DigitOf THEN [p EXCEPT !.level = DigitOf[x]] ELSE p

setModules(reg, list) ==
  LET start == [isMod |-> TRUE, name |-> <<>>, level |-> -1, modules |-> reg.modules]
  IN  [reg EXCEPT !.modules = EndEntry(FoldLeft(Symbol, start, list)).modules]

(* setFromArgs: the first of these arguments that is given, alone.         *)
setFromArgs(reg, argv, vModulesEnabled) ==
  LET Given(k) == hasParamWithValue(argv, k)
      Value(k) == getParamValue(argv, k)
  IN  IF \E k \in {"-v", "--verbose", "-V", "--VERBOSE"} : hasParam(argv, k)
      THEN setLevel(reg, MaxVerboseLevel)
      ELSE IF Given("--v") THEN setLevel(reg, NumberOf[Value("--v")])
      ELSE IF Given("--V") THEN setLevel(reg, NumberOf[Value("--V")])
      ELSE IF ~vModulesEnabled THEN reg
      ELSE IF Given("-vmodule") THEN setModules(reg, Value("-vmodule"))
      ELSE IF Given("-VMODULE") THEN setModules(reg, Value("-VMODULE"))
      ELSE reg

-----------------------------------------------------------------------------
(* wildCardMatch of a file name and a pattern, from any place of both.     *)
wildCardMatch(file, pattern) ==
  LET m[i \in 1 .. Len(file) + 1, j \in 1 .. Len(pattern) + 1] ==
        IF j > Len(pattern) THEN i > Len(file)
        ELSE IF pattern[j] = "*" THEN m[i, j + 1] \/ (i <= Len(file) /\ m[i + 1, j])
        ELSE i <= Len(file) /\ pattern[j] \in {"?", file[i]} /\ m[i + 1, j + 1]
  IN  m[1, 1]

(* The order of the patterns in a std::map.                                *)
Before(p, q) ==
  \E i \in 1 .. Min({Len(p), Len(q)}) + 1 :
    /\ \A j \in 1 .. i - 1 : p[j] = q[j]
    /\ \/ i > Len(p) /\ i <= Len(q)
       \/ i <= Len(p) /\ i <= Len(q) /\ Rank[p[i]] < Rank[q[i]]

(* allowed, VLOG_IS_ON: the first pattern that matches the file decides.   *)
allowed(reg, vlevel, file, allowUnspecified) ==
  LET matching == {p \in DOMAIN reg.modules : wildCardMatch(file, p)}
  IN  IF reg.modules = <<>> THEN vlevel <= reg.level
      ELSE IF matching = {} THEN allowUnspecified
      ELSE \A p \in matching : (\A q \in matching \ {p} : Before(p, q)) => vlevel <= reg.modules[p]

-----------------------------------------------------------------------------
(* A list of modules as one writes it: entries of a name and a level.      *)
Spelled(entries) ==
  FlattenSeq([k \in DOMAIN entries |->
    (IF k = 1 THEN <<>> ELSE <<",">>) \o entries[k].name \o <<"=", entries[k].digit>>])

(* The entries that name a file, under any of the extensions.              *)
Base(name) == IF name # <<>> /\ Last(name) \in ToSet(ExtensionOrder) THEN Front(name) ELSE name
Naming(entries, file) ==
  {e \in ToSet(entries) : \E ext \in ToSet(ExtensionOrder) :
                            wildCardMatch(file, Append(Base(e.name), ext))}
=============================================================================
