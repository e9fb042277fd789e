---------------------------- MODULE MCOpenServer ----------------------------
(***************************************************************************)
(* Small instances of OpenServer.  Version 1 is the member's, version 2    *)
(* the stranger's; the first byte of version 1 is a newline, the second    *)
(* alone on a line reads as "7 1".  g1 is another way to write f1, f2 lies *)
(* outside of the user's folder, f3 in a directory that is not there.      *)
(***************************************************************************)
EXTENDS OpenServer

CONSTANTS member, stranger, f1, f2, f3, g1

MCFileOf(v)  == f1
MCSize(v)    == 2
MCHashMod(v) == 0
MCEolBytes   == {<<1, 1>>}
MCPath(f)    == IF f = g1 THEN f1 ELSE f
MCNumber     == {1, 2, 3, 4, 7}
MCSpelled    == [line \in {<<Byte(1, 2)>>} |-> Header(7, 1)]

Asked(cmd, a) == TextLine(cmd) \o TextLine(Auth(a))
Part1 == TextLine(Header(1, 2)) \o Slice(1, 0, 2)
Part2 == TextLine(Header(2, 1)) \o Slice(1, 0, 1)

(* A member uses the protocol, a stranger tries to.                        *)
PoliteMessages(k) ==
  IF k = stranger
  THEN { Asked(List, "bad"), Asked(Get(f1, 0), "short"), Asked(Put(f1), "bad"),
         TextLine(Header(1, 2)) \o Slice(2, 0, 2) }
  ELSE { Asked(cmd, "good") : cmd \in {List, Get(f1, 0), Put(f1)} } \cup { Part1, Part2 }

PoliteSends(k) == IF k = stranger THEN 2 ELSE 3
RudeSends(k)   == 3

(* A member sends requests of every form, uploads that fail, part numbers  *)
(* that no file has, lines cut short, and text that is no request.         *)
RudeMessages(k) ==
  { Asked(cmd, "good") : cmd \in { List, Get(f1, 0), Get(f1, 1), Get(f1, 9), Get(NoFile, 0),
                                   Put(g1), Put(f2), Put(f3), Put(NoFile) } }
  \cup { Part1, TextLine(Header(7, 1)) \o Slice(1, 0, 1), Slice(1, 0, 2), TextLine(Header(2, 0)),
         <<Header(1, 2)>> }
=============================================================================
