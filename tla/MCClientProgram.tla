-------------------------- MODULE MCClientProgram --------------------------
(***************************************************************************)
(* ClientProgram over configuration files of up to six lines, which is     *)
(* what conf/dfc.conf has: two servers to tell the order apart, each kind  *)
(* of line that is refused, ports at the limits of a short.  And over      *)
(* every file size from 0 to 6 bytes: all four remainders modulo 4, the    *)
(* empty file, files with empty parts.                                     *)
(***************************************************************************)
EXTENDS ClientProgram

MCFileSizes == 0..6

MCPortOf == [ w \in {"10001", "32767", "40000"} |->
                CASE w = "10001" -> 10001 [] w = "32767" -> 32767 [] w = "40000" -> 40000 ]

MCConfLine ==
  { EmptyLine, CommentLine, <<>>,
    <<"Server", "DFS1", "127.0.0.1", "10001">>, <<"Server", "DFS2", "127.0.0.2", "32767">>,
    <<"Server", "DFS3", "127.0.0.3", "40000">>, <<"Server", "DFS3", "127.0.0.3", "port">>,
    <<"Server", "DFS3", "127.0.0.3">>,
    <<"Username", "Alice">>, <<"Username", "Bob">>, <<"Username">>,
    <<"Password", "SimplePassword">>, <<"Password">> }

MCInput == { <<>>, <<"QUIT">>, <<"LIST">>, <<"GET", "f">>, <<"GET">>,
             <<"PUT", "f">>, <<"PUT", "missing">>, <<"PUT">> }
=============================================================================
