------------------------------- MODULE MCDfs -------------------------------
(***************************************************************************)
(* Small instances of DFS.  Versions 1 and 2 are two contents of file f1,  *)
(* version 3 is file f2; a length of 5 gives parts of 1, 1, 1 and 2 bytes, *)
(* a length of 3 parts of 0, 0, 0 and 3 bytes.  Where texts are spelled,   *)
(* the first three bytes of version 1 are the line "1 1" or "7 1".         *)
(***************************************************************************)
EXTENDS DFS

CONSTANTS alice, bob, f1, f2, Length

MCFileOf(v)     == IF v = 3 THEN f2 ELSE f1
MCSize(v)       == Length
MCHashMod(v)    == (v - 1) % 4
NoEol           == {}
PartsStartWithEol == {<<1, 1>>, <<2, 4>>}
MCPath(f)       == f
NoWild          == 1..4
OneWild         == {1, 2, 3, 4, 7}
Plain           == <<>>
FirstLine       == Slice(1, 0, 3)
SpelledOne      == FirstLine :> Header(1, 1)
SpelledSeven    == FirstLine :> Header(7, 1)
LinesOfText     == {1} \X {4, 6, 12}
One(k)          == 1
Two(k)          == 2
Three(k)        == 3
RightPassword(k) == {"good"}
AnyPassword(k)  == {"good", "bad", "short"}
=============================================================================
