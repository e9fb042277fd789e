------------------------------ MODULE Channel ------------------------------
(***************************************************************************)
(* What lies between a client program and a server program: the bytes of   *)
(* the protocol, the buffers of libevent and the TCP connections.  None of *)
(* this is code of the repository; it is modelled from how src/ uses it.   *)
(*                                                                         *)
(* A stream is a sequence of tokens: a file byte, the text of one protocol *)
(* line, or the newline that ends it, so that a line may arrive without    *)
(* its newline.  Abstractions: the text of a line counts as one byte where *)
(* the code compares lengths; file bytes may be newlines (EolBytes), and a *)
(* line with file bytes in it may read as a text of the protocol, if it is *)
(* in the domain of Spelled.                                               *)
(***************************************************************************)
EXTENDS Layout, Sequences, FiniteSets

CONSTANTS
  Client,        \* the client programs
  File,          \* file names
  Version,       \* contents a user may upload
  FileOf(_),     \* the name a version is uploaded under
  Size(_),       \* the size of a version
  HashMod(_),    \* the last byte of its MD5 digest modulo 4
  EolBytes,      \* the <<version, index>> of the bytes that are newlines
  Spelled,       \* Spelled[line]: what a line with file bytes in it reads as
  NoFile,        \* no file name: a missing argument
  NoPart,        \* no such file in a folder
  Path(_),       \* the file a name leads to: "./x" is x
  Elsewhere,     \* files outside of the folder: "../x"
  Missing,       \* files in a directory that nobody makes: "d/x"
  Number,        \* the part numbers a text may hold: ints
  Splits         \* where a read may end: see Cuts

ASSUME ChannelAssumption ==
  /\ IsFiniteSet(File) /\ NoFile \notin File
  /\ Elsewhere \subseteq File /\ Missing \subseteq File
  /\ \A f \in File : Path(f) \in File /\ Path(Path(f)) = Path(f)
  /\ IsFiniteSet(Number) /\ Number \subseteq Int /\ Part \subseteq Number
  /\ \A v \in Version : FileOf(v) \in File /\ Size(v) \in Nat /\ HashMod(v) \in HashValue
  /\ Splits \in {"byte", "write", "burst"}

VARIABLES
  c2s,           \* c2s[c]: bytes on their way from client to server
  s2c,           \* s2c[c]: bytes on their way from server to client
  net            \* net[c]: the state of the TCP connection

netVars == <<c2s, s2c, net>>

Conn == Client \X Server

(* "none": not connected.  "refused": the client knows that connecting has *)
(* failed.  "closed": one end is gone and the other got its FIN.  "reset": *)
(* the end that is left got a RST.                                         *)
NetState == {"none", "refused", "open", "closed", "reset"}

-----------------------------------------------------------------------------
(* Tokens.                                                                 *)

Byte(v, n) == [k |-> "byte", v |-> v, n |-> n]
Newline == [k |-> "newline"]
Garbage == [k |-> "garbage"]      \* a byte nobody initialised

Ready    == [k |-> "PUT_READY"]
Invalid  == [k |-> "INVALID_CREDENTIALS"]
Bad      == [k |-> "BAD"]
Terminal == [k |-> "LIST_TERMINAL"]

List         == [k |-> "LIST"]
Put(f)       == [k |-> "PUT", f |-> f]
Get(f, p)    == [k |-> "GET", f |-> f, p |-> p]
Auth(a)      == [k |-> "auth", a |-> a]      \* "good", "bad", or "short": no password
Header(p, l) == [k |-> "header", p |-> p, l |-> l]
Good(p, l)   == [k |-> "GOOD", p |-> p, l |-> l]
Entry(f, p)  == [k |-> "entry", f |-> f, p |-> p]

(* All tokens there are: what lines and files are made of.                 *)
Token ==
  [k : {"byte"}, v : Version, n : Nat] \cup
  [k : {"newline", "garbage", "PUT_READY", "INVALID_CREDENTIALS", "BAD", "LIST_TERMINAL", "LIST"}] \cup
  [k : {"PUT"}, f : File \cup {NoFile}] \cup
  [k : {"GET"}, f : File \cup {NoFile}, p : Nat] \cup
  [k : {"auth"}, a : {"good", "bad", "short"}] \cup
  [k : {"header", "GOOD"}, p : Number, l : Nat] \cup
  [k : {"entry"}, f : File, p : Number]

(* Only a line with a file byte in it is spelled.                          *)
ASSUME SpelledAssumption ==
  \A line \in DOMAIN Spelled :
    line \in Seq(Token) /\ Spelled[line] \in Token /\ \E n \in DOMAIN line : line[n].k = "byte"

(* Bytes off+1 .. off+len of version v.                                    *)
Slice(v, off, len) == [n \in 1..len |-> Byte(v, off + n)]

(* The file a version is uploaded to.                                      *)
PathOf(v) == Path(FileOf(v))

(* The part p of version v, as Client::Put cuts it.                        *)
PartOf(v, p) == Slice(v, PartOffset(Size(v), p), PartLength(Size(v), p))

TextLine(text) == <<text, Newline>>

-----------------------------------------------------------------------------
(* evbuffer_readln with EVBUFFER_EOL_CRLF.                                 *)

EndsLine(t) == t = Newline \/ (t.k = "byte" /\ <<t.v, t.n>> \in EolBytes)

LineEnds(b) == { n \in 1..Len(b) : EndsLine(b[n]) }
HasLine(b)  == LineEnds(b) # {}
LineEnd(b)  == CHOOSE n \in LineEnds(b) : \A m \in LineEnds(b) : n <= m

Reads(line)  == IF line \in DOMAIN Spelled THEN <<Spelled[line]>> ELSE line
LineOf(b)    == Reads(SubSeq(b, 1, LineEnd(b) - 1))
AfterLine(b) == SubSeq(b, LineEnd(b) + 1, Len(b))

(* evbuffer_remove of n bytes.                                             *)
Take(b, n) == SubSeq(b, 1, IF n < Len(b) THEN n ELSE Len(b))
Drop(b, n) == SubSeq(b, n + 1, Len(b))

-----------------------------------------------------------------------------
(* A pipe is a stream with the positions at which the reader may stop: the *)
(* kernel cuts a stream anywhere ("byte"), or only where a write ended     *)
(* ("write"), or only where the writer had nothing left to write, so that  *)
(* every burst arrives in one piece ("burst").                             *)
Empty == [data |-> <<>>, cuts |-> {}]

Cuts(from, to, last) ==
  CASE Splits = "byte"  -> (from + 1)..to
    [] Splits = "write" -> {to} \ {from}
    [] Splits = "burst" -> IF last THEN {to} \ {0} ELSE {}

(* d is written; last: the writer's buffer is empty after it.              *)
Sent(pipe, d, last) ==
  LET from == Len(pipe.data)
      to   == from + Len(d)
  IN [data |-> pipe.data \o d, cuts |-> pipe.cuts \cup Cuts(from, to, last)]

(* The first n bytes are taken out.                                        *)
Received(pipe, n) ==
  [data |-> Drop(pipe.data, n), cuts |-> { m - n : m \in {j \in pipe.cuts : j > n} }]

-----------------------------------------------------------------------------
(* The writer is gone: what it wrote last can be read to its end.          *)
Ended(pipe) == [pipe EXCEPT !.cuts = @ \cup ({Len(pipe.data)} \ {0})]

(* The process at one end of the connections in C dies: the kernel closes  *)
(* them, with a RST where the process left bytes unread.  A RST may also   *)
(* destroy what the process had sent and the other end has not received.   *)
NetAfterDeath(C, unread) ==
  [c \in Conn |-> IF c \notin C THEN net[c]
                  ELSE IF net[c] # "open" THEN "none"
                  ELSE IF unread[c].data = <<>> THEN "closed" ELSE "reset"]

(* A write to a peer that is gone: the kernel takes the bytes, the RST     *)
(* that answers them comes at once or later.                               *)
Swallowed(c) == net' \in { [net EXCEPT ![c] = n] : n \in {"closed", "reset"} }

NetInit ==
  /\ c2s = [c \in Conn |-> Empty]
  /\ s2c = [c \in Conn |-> Empty]

=============================================================================
