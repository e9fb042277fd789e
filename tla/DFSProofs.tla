----------------------------- MODULE DFSProofs -----------------------------
(***************************************************************************)
(* What holds of clients, servers and network together, for every number   *)
(* of clients, files, versions, commands, kills and restarts, and every    *)
(* way streams are cut.                                                    *)
(***************************************************************************)
EXTENDS DFS, DfsServerProofs, LayoutProofs

-----------------------------------------------------------------------------
(* The rounds of callback_get.  What one round keeps, all of them keep: R  *)
(* is a set of what a round may start from, and so end in.                 *)
Stepped(f, A) == { GetRound(h, f) : h \in A }
FirstRounds(start, f, R, n) ==
  { a \in [0..n -> SUBSET R] : a[0] = {start} /\ \A i \in 1..n : a[i] = Stepped(f, a[i - 1]) }
RoundsFrom(start, f, g) == [n \in Nat |-> IF n = 0 THEN {start} ELSE Stepped(f, g[n - 1])]

LEMMA RoundsExist ==
  ASSUME NEW R, NEW start \in R, NEW f, \A h \in R : GetRound(h, f) \in R
  PROVE  \A n \in Nat : FirstRounds(start, f, R, n) # {}
<1> DEFINE T == { n \in Nat : FirstRounds(start, f, R, n) = {} }
<1>1. ASSUME NEW A \in SUBSET R PROVE Stepped(f, A) \in SUBSET R
  BY <1>1 DEF Stepped
<1>2. FirstRounds(start, f, R, 0) # {}
  <2>. DEFINE a == [i \in 0..0 |-> {start}]
  <2>1. a \in FirstRounds(start, f, R, 0)
    BY DEF FirstRounds
  <2>. QED BY <2>1
<1>3. ASSUME NEW n \in Nat, FirstRounds(start, f, R, n) # {}
      PROVE  FirstRounds(start, f, R, n + 1) # {}
  <2>1. PICK a : a \in FirstRounds(start, f, R, n)
    BY <1>3
  <2>2. /\ a \in [0..n -> SUBSET R] /\ a[0] = {start}
        /\ \A i \in 1..n : a[i] = Stepped(f, a[i - 1])
    BY <2>1 DEF FirstRounds
  <2>. DEFINE b == [i \in 0..(n + 1) |-> IF i = n + 1 THEN Stepped(f, a[n]) ELSE a[i]]
  <2>3. b \in [0..(n + 1) -> SUBSET R]
    BY <1>1, <2>2
  <2>4. b[0] = {start}
    BY <2>2
  <2>5. \A i \in 1..(n + 1) : b[i] = Stepped(f, b[i - 1])
    BY <2>2
  <2>. HIDE DEF b
  <2>6. b \in FirstRounds(start, f, R, n + 1)
    BY <2>3, <2>4, <2>5, Zenon DEF FirstRounds
  <2>. QED BY <2>6
<1>4. T = {}
  <2>. SUFFICES ASSUME T # {} PROVE FALSE
    OBVIOUS
  <2>1. T \subseteq Nat
    OBVIOUS
  <2>. HIDE DEF T
  <2>2. PICK n \in T : \A m \in T : n <= m
    BY <2>1, Least
  <2>3. n \in Nat /\ n # 0 /\ FirstRounds(start, f, R, n) = {}
    BY <1>2, <2>2 DEF T
  <2>4. n - 1 \in Nat /\ n - 1 \notin T /\ (n - 1) + 1 = n
    BY <2>1, <2>2, <2>3
  <2>. QED BY <1>3, <2>3, <2>4 DEF T
<1>. QED BY <1>4

LEMMA RoundsAgree ==
  ASSUME NEW R, NEW start, NEW f, NEW n \in Nat, NEW m \in Nat, n <= m,
         NEW a \in FirstRounds(start, f, R, n), NEW b \in FirstRounds(start, f, R, m)
  PROVE  \A i \in 0..n : a[i] = b[i]
<1> DEFINE T == { i \in 0..n : a[i] # b[i] }
<1>1. /\ a[0] = {start} /\ \A i \in 1..n : a[i] = Stepped(f, a[i - 1])
      /\ b[0] = {start} /\ \A i \in 1..m : b[i] = Stepped(f, b[i - 1])
  BY DEF FirstRounds
<1>2. T = {}
  <2>. SUFFICES ASSUME T # {} PROVE FALSE
    OBVIOUS
  <2>1. T \subseteq Nat
    OBVIOUS
  <2>. HIDE DEF T
  <2>2. PICK i \in T : \A j \in T : i <= j
    BY <2>1, Least
  <2>3. i \in 0..n /\ a[i] # b[i] /\ i # 0
    BY <1>1, <2>2 DEF T
  <2>4. i \in 1..n /\ i \in 1..m /\ i - 1 \in 0..n /\ i - 1 \notin T
    BY <2>1, <2>2, <2>3
  <2>5. a[i - 1] = b[i - 1]
    BY <2>4 DEF T
  <2>. QED BY <1>1, <2>3, <2>4, <2>5, Zenon
<1>. QED BY <1>2

LEMMA RoundsStay ==
  ASSUME NEW R, NEW start \in R, NEW f, \A h \in R : GetRound(h, f) \in R
  PROVE  \A n \in Nat : Rounds(start, f)[n] \subseteq R
<1> DEFINE run(n) == CHOOSE a : a \in FirstRounds(start, f, R, n)
           g == [n \in Nat |-> run(n)[n]]
           T == { n \in Nat : ~(Rounds(start, f)[n] \subseteq R) }
<1>1. ASSUME NEW n \in Nat PROVE run(n) \in FirstRounds(start, f, R, n)
  BY RoundsExist
<1>2. g = RoundsFrom(start, f, g)
  <2>1. ASSUME NEW n \in Nat PROVE g[n] = IF n = 0 THEN {start} ELSE Stepped(f, g[n - 1])
    <3>1. g[n] = run(n)[n]
      OBVIOUS
    <3>. HIDE DEF run
    <3>2. CASE n = 0
      BY <1>1, <3>1, <3>2 DEF FirstRounds
    <3>3. CASE n # 0
      <4>1. n - 1 \in Nat /\ n - 1 <= n /\ n - 1 \in 0..(n - 1) /\ n \in 1..n
        BY <3>3
      <4>2. run(n - 1)[n - 1] = run(n)[n - 1]
        BY <1>1, <4>1, RoundsAgree
      <4>3. run(n)[n] = Stepped(f, run(n)[n - 1])
        BY <1>1, <4>1 DEF FirstRounds
      <4>4. g[n - 1] = run(n - 1)[n - 1]
        BY <4>1
      <4>. QED BY <3>1, <3>3, <4>2, <4>3, <4>4, Zenon
    <3>. QED BY <3>2, <3>3
  <2>2. g = [n \in Nat |-> g[n]]
    OBVIOUS
  <2>. HIDE DEF g
  <2>. QED BY <2>1, <2>2, Zenon DEF RoundsFrom
<1>3. Rounds(start, f) = CHOOSE h : h = RoundsFrom(start, f, h)
  BY DEF Rounds, RoundsFrom, Stepped
<1>4. Rounds(start, f) = RoundsFrom(start, f, Rounds(start, f))
  <2>. HIDE DEF g
  <2>. QED BY <1>2, <1>3, Zenon
<1>5. T = {}
  <2>. SUFFICES ASSUME T # {} PROVE FALSE
    OBVIOUS
  <2>1. T \subseteq Nat
    OBVIOUS
  <2>. HIDE DEF T
  <2>2. PICK n \in T : \A m \in T : n <= m
    BY <2>1, Least
  <2>3. n \in Nat /\ ~(Rounds(start, f)[n] \subseteq R)
    BY <2>2 DEF T
  <2>4. Rounds(start, f)[n] = IF n = 0 THEN {start} ELSE Stepped(f, Rounds(start, f)[n - 1])
    BY <1>4, <2>3, Zenon DEF RoundsFrom
  <2>5. n # 0
    BY <2>3, <2>4
  <2>6. n - 1 \in Nat /\ n - 1 \notin T
    BY <2>1, <2>2, <2>3, <2>5
  <2>7. Rounds(start, f)[n - 1] \subseteq R
    BY <2>6 DEF T
  <2>. QED BY <2>3, <2>4, <2>5, <2>7 DEF Stepped
<1>. QED BY <1>5 DEF T

-----------------------------------------------------------------------------
(* What is on its way.  A client of the repository writes the tokens of    *)
(* Written; a server tells it no entry of a part that is not stored, and   *)
(* what it reads as one is one if no line of a file does.                  *)
PlainEntries == \A line \in DOMAIN Spelled : Spelled[line].k # "entry"

Written == { t \in Token : t.k \in {"byte", "newline", "PUT", "LIST", "GET", "auth", "header"} }
IsStored(f, p) == \E s \in Server : disk[s][f][p] # NoPart
Told == { t \in Token : PlainEntries /\ t.k = "entry" => IsStored(t.f, t.p) }

ClientConnection ==
  [ m_connected : BOOLEAN, rd : BOOLEAN, wr : BOOLEAN, loop : BOOLEAN,
    cb : {"none", "put", "list", "get"}, wcb : BOOLEAN, inp : Seq(Told), out : Seq(Seq(Written)),
    m_get_state : 0..3, version : Version \cup {NoVersion} ]

Program == [ life : {"new", "up", "gone", "killed"}, auth : {"good", "bad", "short"},
             cmd : {"none", "put", "list", "get"}, file : File \cup {NoFile}, at : 0..4,
             partnum : Number \cup {0}, size : Nat ]

PartFile  == Seq(Token) \cup {NoPart}
PartFiles == [Number -> PartFile]

FlowOK(c) ==
  /\ c2s[c] \in Pipe(Written)
  /\ s2c[c] \in Pipe(Told)
  /\ srv[c] \in Connection(Written, TextSegs(Told) \cup FileSegs(c[2])) /\ UploadOK(srv[c])
  /\ con[c] \in ClientConnection
  /\ con[c].cb = "put" => con[c].version \in Version

(* What LIST has called complete, of numbers it could keep apart.           *)
CompleteOK(k) ==
  \A f \in File : PlainEntries /\ shown[k][f] = "complete" =>
                    ListedWild(k) \/ \A p \in Part : IsStored(f, p)

ProgramOK(k) ==
  /\ prog[k] \in Program
  /\ prog[k].cmd = "get" => prog[k].file \in File /\ prog[k].at \in Server
  /\ m_files[k] \subseteq Told
  /\ CompleteOK(k)
  /\ DOMAIN tmp[k] = File /\ DOMAIN got[k] = File
  /\ \A f \in File : tmp[k][f] \in PartFiles /\ got[k][f] \in PartFile

DfsShape ==
  /\ DOMAIN c2s = Conn /\ DOMAIN s2c = Conn /\ DOMAIN srv = Conn /\ DOMAIN con = Conn
  /\ net \in [Conn -> NetState]
  /\ fate \in [Server -> {"up", "killed", "aborted"}]
  /\ DOMAIN prog = Client /\ DOMAIN m_files = Client /\ DOMAIN shown = Client
  /\ DOMAIN tmp = Client /\ DOMAIN got = Client
  /\ disk \in [Server -> Files(Written)]
  /\ DOMAIN folder = Server

(* A loop only runs in a command, with the callback of that command.       *)
Linked ==
  \A c \in Conn : con[c].loop => /\ prog[c[1]].cmd # "none"
                                 /\ con[c].cb \in {"none", prog[c[1]].cmd}

TypeInv == /\ DfsShape /\ Linked
           /\ \A c \in Conn : FlowOK(c)
           /\ \A k \in Client : ProgramOK(k)

-----------------------------------------------------------------------------
(* Tokens of the two directions.                                           *)
LEMMA TokensWritten ==
  /\ Newline \in Written /\ List \in Written
  /\ \A f \in File : Put(f) \in Written /\ Get(f, 0) \in Written
  /\ \A a \in {"good", "bad", "short"} : Auth(a) \in Written
  /\ \A p \in Part, n \in Nat : Header(p, n) \in Written
  /\ \A v \in Version, n \in Nat : Byte(v, n) \in Written
<1>1. Newline \in Written /\ List \in Written
  BY DEF Newline, List, Token, Written
<1>2. ASSUME NEW f \in File PROVE Put(f) \in Written /\ Get(f, 0) \in Written
  BY DEF Put, Get, Token, Written
<1>3. ASSUME NEW a \in {"good", "bad", "short"} PROVE Auth(a) \in Written
  BY DEF Auth, Token, Written
<1>4. ASSUME NEW p \in Part, NEW n \in Nat PROVE Header(p, n) \in Written
  <2>1. p \in Number
    BY ChannelAssumption
  <2>. QED BY <2>1 DEF Header, Token, Written
<1>5. ASSUME NEW v \in Version, NEW n \in Nat PROVE Byte(v, n) \in Written
  BY DEF Byte, Token, Written
<1>. QED BY <1>1, <1>2, <1>3, <1>4, <1>5, Zenon

LEMMA Directions ==
  /\ Written \subseteq Told /\ Told \subseteq Token /\ Written \subseteq Token
  /\ \A s \in Server : Answers(s) \subseteq Told
  /\ NoPart \notin Seq(Written)
<1>1. Written \subseteq Told /\ Told \subseteq Token /\ Written \subseteq Token
  BY DEF Written, Told
<1>2. ASSUME NEW s \in Server, NEW t \in Answers(s) PROVE t \in Told
  <2>1. t \in Token
    BY AnswersType
  <2>2. CASE \E e \in { d \in File \X Number : disk[s][d[1]][d[2]] # NoPart } : t = Entry(e[1], e[2])
    <3>1. PICK f \in File, p \in Number : disk[s][f][p] # NoPart /\ t = Entry(f, p)
      BY <2>2
    <3>2. t.f = f /\ t.p = p
      BY <3>1 DEF Entry
    <3>. QED BY <2>1, <3>1, <3>2 DEF Told, IsStored
  <2>3. CASE t \in {Newline, Ready, Invalid, Bad, Terminal}
    BY <2>1, <2>3 DEF Told, Newline, Ready, Invalid, Bad, Terminal
  <2>4. CASE \E p \in Part, n \in Nat : t = Good(p, n)
    <3>1. t.k = "GOOD"
      BY <2>4 DEF Good
    <3>. QED BY <2>1, <3>1 DEF Told
  <2>5. \/ \E e \in { d \in File \X Number : disk[s][d[1]][d[2]] # NoPart } : t = Entry(e[1], e[2])
        \/ t \in {Newline, Ready, Invalid, Bad, Terminal}
        \/ \E p \in Part, n \in Nat : t = Good(p, n)
    BY <1>2 DEF Answers
  <2>. QED BY <2>2, <2>3, <2>4, <2>5
<1>3. NoPart \notin Seq(Written)
  BY <1>1, SeqMonotonic, DfsAssumption
<1>. QED BY <1>1, <1>2, <1>3, Zenon

(* A line with file bytes in it tells no entry that is not stored.         *)
LEMMA ToldReadings == Readings(Told) \subseteq Told
<1>1. ASSUME NEW t \in Readings(Told), t \notin Told PROVE t \in Told
  <2>1. PICK line \in DOMAIN Spelled : t = Spelled[line]
    BY <1>1, Zenon DEF Readings
  <2>2. t \in Token
    BY <2>1, SpelledAssumption, Zenon
  <2>. QED BY <2>1, <2>2, Zenon DEF Told, PlainEntries
<1>. QED BY <1>1, Zenon

(* What a client puts into its output buffer.                              *)
LEMMA SliceType ==
  ASSUME NEW v \in Version, NEW off \in Nat, NEW len \in Nat
  PROVE  Slice(v, off, len) \in Seq(Written) /\ Len(Slice(v, off, len)) = len
<1>1. \A n \in 1..len : Byte(v, off + n) \in Written
  BY TokensWritten
<1>2. Slice(v, off, len) \in [1..len -> Written]
  BY <1>1 DEF Slice
<1>. QED BY <1>2, FunctionIsSeq

LEMMA PartNumbers ==
  ASSUME NEW v \in Version, NEW s \in Server
  PROVE  LET k == FilePieces(s, HashMod(v)) IN
         /\ k \in PairNumber /\ Pair(k)[1] \in Part /\ Pair(k)[2] \in Part /\ Pair(k)[1] # Pair(k)[2]
<1> DEFINE k == FilePieces(s, HashMod(v))
<1>1. k \in PairNumber
  BY ChannelAssumption, TableIsPermutation
<1>. HIDE DEF k
<1>2. Pair(k)[1] \in Part /\ Pair(k)[2] \in Part /\ Pair(k)[1] # Pair(k)[2]
  BY <1>1 DEF Pair, PairNumber, Part
<1>. QED BY <1>1, <1>2 DEF k

LEMMA UploadType ==
  ASSUME NEW c \in Conn, con[c].version \in Version
  PROVE  Upload(c) \in Seq(Seq(Written))
<1> DEFINE v  == con[c].version
           pi == PutInfo(FilePieces(c[2], HashMod(v)), Size(v))
           h1 == HeaderLine(pi.part1_number, pi.length1)
           s1 == Slice(v, pi.offset1, pi.length1)
           h2 == HeaderLine(pi.part2_number, pi.length2)
           s2 == Slice(v, pi.offset2, pi.length2)
<1>1. c[2] \in Server /\ Size(v) \in Nat
  BY ChannelAssumption DEF Conn
<1>2. /\ pi.part1_number \in Part /\ pi.part2_number \in Part
      /\ pi.length1 \in Nat /\ pi.length2 \in Nat /\ pi.offset1 \in Nat /\ pi.offset2 \in Nat
  <2>. DEFINE k == FilePieces(c[2], HashMod(v))
  <2>1. Pair(k)[1] \in Part /\ Pair(k)[2] \in Part
    BY <1>1, PartNumbers
  <2>. HIDE DEF k
  <2>. QED BY <1>1, <2>1, PartSliceType DEF PutInfo, k
<1>. HIDE DEF pi
<1>3. h1 \in Seq(Written) /\ h2 \in Seq(Written)
  BY <1>2, TokensWritten, TextLineType, Zenon DEF HeaderLine
<1>4. s1 \in Seq(Written) /\ s2 \in Seq(Written)
  BY <1>2, SliceType
<1>5. Upload(c) = IF Splits = "burst" THEN << h1 \o s1 \o h2 \o s2 >>
                  ELSE (IF s1 = <<>> THEN << h1 \o h2 >> ELSE << h1, s1, h2 >>)
                       \o (IF s2 = <<>> THEN <<>> ELSE << s2 >>)
  BY Zenon DEF Upload, pi
<1>. HIDE DEF h1, h2, s1, s2, v
<1>6. h1 \o s1 \o h2 \o s2 \in Seq(Written) /\ h1 \o h2 \in Seq(Written)
  BY <1>3, <1>4, ConcatProperties
<1>7. (IF s1 = <<>> THEN << h1 \o h2 >> ELSE << h1, s1, h2 >>) \in Seq(Seq(Written))
  BY <1>3, <1>4, <1>6
<1>8. (IF s2 = <<>> THEN <<>> ELSE << s2 >>) \in Seq(Seq(Written))
  BY <1>4
<1>9. (IF s1 = <<>> THEN << h1 \o h2 >> ELSE << h1, s1, h2 >>)
        \o (IF s2 = <<>> THEN <<>> ELSE << s2 >>) \in Seq(Seq(Written))
  BY <1>7, <1>8, ConcatProperties
<1>10. << h1 \o s1 \o h2 \o s2 >> \in Seq(Seq(Written))
  BY <1>6
<1>. QED BY <1>5, <1>9, <1>10
-----------------------------------------------------------------------------
(* Taking and dropping, element by element.                                *)
LEMMA DropElements ==
  ASSUME NEW S, NEW b \in Seq(S), NEW n \in Nat
  PROVE  /\ Drop(b, n) \in Seq(S)
         /\ Len(Drop(b, n)) = IF n < Len(b) THEN Len(b) - n ELSE 0
         /\ \A i \in 1..Len(Drop(b, n)) : n + i \in 1..Len(b) /\ Drop(b, n)[i] = b[n + i]
<1>1. Len(b) \in Nat /\ \A i \in (n + 1)..Len(b) : b[i] \in S
  BY LenProperties, ElementOfSeq
<1>2. /\ Drop(b, n) \in Seq(S)
      /\ Len(Drop(b, n)) = IF n + 1 <= Len(b) THEN Len(b) - (n + 1) + 1 ELSE 0
      /\ \A i \in 1..(Len(b) - (n + 1) + 1) : Drop(b, n)[i] = b[(n + 1) + i - 1]
  BY <1>1, SubSeqProperties DEF Drop
<1>3. \A i \in 1..(Len(b) - (n + 1) + 1) : (n + 1) + i - 1 = n + i
  BY <1>1
<1>. HIDE DEF Drop
<1>. QED BY <1>1, <1>2, <1>3

LEMMA TakeElements ==
  ASSUME NEW S, NEW b \in Seq(S), NEW n \in Nat
  PROVE  /\ Take(b, n) \in Seq(S)
         /\ Len(Take(b, n)) = IF n < Len(b) THEN n ELSE Len(b)
         /\ \A i \in 1..Len(Take(b, n)) : i \in 1..Len(b) /\ Take(b, n)[i] = b[i]
<1> DEFINE m == IF n < Len(b) THEN n ELSE Len(b)
<1>1. Len(b) \in Nat /\ m \in 0..Len(b) /\ \A i \in 1..m : b[i] \in S
  BY LenProperties, ElementOfSeq
<1>2. Take(b, n) = SubSeq(b, 1, m)
  BY DEF Take
<1>. HIDE DEF m
<1>3. /\ SubSeq(b, 1, m) \in Seq(S)
      /\ Len(SubSeq(b, 1, m)) = IF 1 <= m THEN m - 1 + 1 ELSE 0
      /\ \A i \in 1..(m - 1 + 1) : SubSeq(b, 1, m)[i] = b[1 + i - 1]
  BY <1>1, SubSeqProperties
<1>4. Len(SubSeq(b, 1, m)) = m /\ \A i \in 1..m : SubSeq(b, 1, m)[i] = b[i]
  BY <1>1, <1>3
<1>. QED BY <1>1, <1>2, <1>3, <1>4 DEF m

LEMMA DropDrop ==
  ASSUME NEW S, NEW b \in Seq(S), NEW d \in 0..Len(b), NEW n \in Nat
  PROVE  \E e \in 0..Len(b) : Drop(Drop(b, d), n) = Drop(b, e)
<1>1. Len(b) \in Nat /\ d \in Nat
  BY LenProperties
<1>2. /\ Drop(b, d) \in Seq(S) /\ Len(Drop(b, d)) = Len(b) - d
      /\ \A i \in 1..Len(Drop(b, d)) : Drop(b, d)[i] = b[d + i]
  BY <1>1, DropElements
<1> DEFINE e == IF d + n < Len(b) THEN d + n ELSE Len(b)
           x == Drop(Drop(b, d), n)
           y == Drop(b, e)
<1>3. e \in 0..Len(b) /\ e \in Nat
  BY <1>1
<1>4. /\ x \in Seq(S)
      /\ Len(x) = IF n < Len(b) - d THEN (Len(b) - d) - n ELSE 0
      /\ \A i \in 1..Len(x) : n + i \in 1..Len(Drop(b, d)) /\ x[i] = Drop(b, d)[n + i]
  BY <1>2, DropElements
<1>5. /\ y \in Seq(S)
      /\ Len(y) = IF e < Len(b) THEN Len(b) - e ELSE 0
      /\ \A i \in 1..Len(y) : y[i] = b[e + i]
  BY <1>3, DropElements
<1>. HIDE DEF x, y
<1>6. Len(x) = Len(y)
  BY <1>1, <1>4, <1>5
<1>7. ASSUME NEW i \in 1..Len(x) PROVE x[i] = y[i]
  <2>1. n + i \in 1..Len(Drop(b, d)) /\ x[i] = Drop(b, d)[n + i]
    BY <1>4
  <2>2. x[i] = b[d + (n + i)]
    BY <1>2, <2>1
  <2>3. e = d + n /\ i \in Nat
    BY <1>1, <1>4
  <2>4. y[i] = b[e + i]
    BY <1>5, <1>6
  <2>. QED BY <1>1, <2>2, <2>3, <2>4
<1>8. x = y
  BY <1>4, <1>5, <1>6, <1>7, SeqEqual
<1>. QED BY <1>3, <1>8 DEF x, y

(* A set of numbers up to n that is not empty has a greatest one.          *)
LEMMA Greatest ==
  ASSUME NEW n \in Nat, NEW T, T \subseteq 0..n, T # {}
  PROVE  \E x \in T : \A y \in T : x >= y
<1> DEFINE U == { n - y : y \in T }
<1>1. U \subseteq Nat /\ U # {}
  <2>1. ASSUME NEW y \in T PROVE n - y \in Nat
    OBVIOUS
  <2>. QED BY <2>1
<1>. HIDE DEF U
<1>2. PICK u \in U : \A w \in U : u <= w
  BY <1>1, Least
<1>3. PICK x \in T : u = n - x
  BY <1>2 DEF U
<1>4. ASSUME NEW y \in T PROVE x >= y
  <2>1. n - y \in U
    BY DEF U
  <2>2. n - x <= n - y
    BY <1>2, <1>3, <2>1
  <2>. QED BY <2>2
<1>. QED BY <1>4

LEMMA MaxMin ==
  ASSUME NEW n \in Nat, NEW T, T \subseteq 0..n, T # {}
  PROVE  /\ Max(T) \in T /\ \A y \in T : Max(T) >= y
         /\ Min(T) \in T /\ \A y \in T : Min(T) <= y
<1>1. \E x \in T : \A y \in T : x >= y
  BY Greatest
<1>2. \E x \in T : \A y \in T : x <= y
  <2>1. T \subseteq Nat
    OBVIOUS
  <2>. QED BY <2>1, Least
<1>. QED BY <1>1, <1>2, Zenon DEF Max, Min

(* What a line reads as.                                                   *)
LEMMA ReadsType ==
  ASSUME NEW S, NEW line \in Seq(S)
  PROVE  Reads(line) \in Seq(Readings(S))
<1>1. CASE line \in DOMAIN Spelled
  <2>1. Spelled[line] \in Readings(S) /\ Reads(line) = <<Spelled[line]>>
    BY <1>1, Zenon DEF Readings, Reads
  <2>. HIDE DEF Readings
  <2>2. <<Spelled[line]>> \in Seq(Readings(S))
    BY <2>1
  <2>. QED BY <2>1, <2>2, Zenon
<1>2. CASE line \notin DOMAIN Spelled
  <2>1. S \subseteq Readings(S) /\ Reads(line) = line
    BY <1>2, Zenon DEF Readings, Reads
  <2>. QED BY <2>1, SeqMonotonic
<1>. QED BY <1>1, <1>2

(* The line before a line end.                                             *)
LEMMA LineBeforeType ==
  ASSUME NEW S, NEW b \in Seq(S), NEW e \in LineEnds(b)
  PROVE  LineBefore(b, e) \in Seq(Readings(S))
<1> DEFINE earlier == { m \in LineEnds(b) : m < e }
           from == IF earlier = {} THEN 0 ELSE Max(earlier)
<1>1. Len(b) \in Nat /\ e \in 1..Len(b) /\ earlier \subseteq 0..Len(b)
  BY LenProperties DEF LineEnds
<1>2. from \in Nat
  <2>. HIDE DEF earlier
  <2>1. CASE earlier = {}
    BY <2>1
  <2>2. CASE earlier # {}
    <3>1. Max(earlier) \in earlier
      BY <1>1, <2>2, MaxMin, Zenon
    <3>2. Max(earlier) \in 0..Len(b)
      BY <1>1, <3>1, Zenon
    <3>3. from = Max(earlier)
      BY <2>2, Zenon
    <3>. HIDE DEF from
    <3>. QED BY <1>1, <3>2, <3>3
  <2>. QED BY <2>1, <2>2
<1>3. LineBefore(b, e) = Reads(SubSeq(b, from + 1, e - 1))
  BY DEF LineBefore
<1>. HIDE DEF from
<1>4. from + 1 \in Nat \ {0} /\ e - 1 \in Int /\ e - 1 <= Len(b)
  BY <1>1, <1>2
<1>5. SubSeq(b, from + 1, e - 1) \in Seq(S)
  BY <1>4, SubSeqType
<1>. QED BY <1>3, <1>5, ReadsType
-----------------------------------------------------------------------------
(* No part is taken away: what can be told and sent can still be.          *)
PartsStay == \A s \in Server, f \in File, p \in Number :
               disk[s][f][p] # NoPart => disk'[s][f][p] # NoPart

LEMMA StoredStays ==
  ASSUME PartsStay
  PROVE  \A f \in File, p \in Number : IsStored(f, p) => IsStored(f, p)'
BY Zenon DEF PartsStay, IsStored

LEMMA ToldGrows ==
  ASSUME PartsStay
  PROVE  Told \subseteq Told'
<1>1. ASSUME NEW t \in Told PROVE t \in Told'
  <2>1. t \in Token /\ (PlainEntries /\ t.k = "entry" => IsStored(t.f, t.p))
    BY Zenon DEF Told
  <2>2. CASE t.k = "entry"
    <3>1. t.f \in File /\ t.p \in Number
      BY <2>1, <2>2 DEF Token
    <3>2. PlainEntries => IsStored(t.f, t.p)'
      BY <2>1, <2>2, <3>1, StoredStays, Zenon
    <3>. QED BY <2>1, <3>2, Zenon DEF Told, PlainEntries
  <2>3. CASE t.k # "entry"
    BY <2>1, <2>3, Zenon DEF Told
  <2>. QED BY <2>2, <2>3
<1>. QED BY <1>1, Zenon

LEMMA PipeGrows ==
  ASSUME NEW S, NEW T, S \subseteq T
  PROVE  Pipe(S) \subseteq Pipe(T)
<1>1. Seq(S) \subseteq Seq(T)
  BY SeqMonotonic
<1>. QED BY <1>1 DEF Pipe

LEMMA OutGrows ==
  ASSUME PartsStay, NEW c \in Conn, NEW In
  PROVE  \A q \in Connection(In, TextSegs(Told) \cup FileSegs(c[2])) :
           q \in Connection(In, (TextSegs(Told) \cup FileSegs(c[2]))')
<1> DEFINE Out == TextSegs(Told) \cup FileSegs(c[2])
<1>1. FileSegs(c[2]) \subseteq FileSegs(c[2])'
  BY ChannelAssumption DEF FileSegs, PartsStay, Conn
<1>2. TextSegs(Told) \subseteq TextSegs(Told)'
  <2>1. Seq(Told) \subseteq Seq(Told')
    BY ToldGrows, SeqMonotonic
  <2>. QED BY <2>1 DEF TextSegs
<1>3. Seq(Out) \subseteq Seq(Out')
  BY <1>1, <1>2, SeqMonotonic
<1>. HIDE DEF Out
<1>4. \A q \in Connection(In, Out) : q \in Connection(In, Out')
  BY <1>3 DEF Connection
<1>. QED BY <1>4 DEF Out

LEMMA ConGrows ==
  ASSUME PartsStay
  PROVE  ClientConnection \subseteq ClientConnection'
<1>1. Seq(Told) \subseteq Seq(Told)'
  BY ToldGrows, SeqMonotonic
<1>. QED BY <1>1 DEF ClientConnection

(* A connection whose two ends and streams are in order stays so.          *)
LEMMA FlowKept ==
  ASSUME PartsStay, NEW c \in Conn,
         c2s'[c] \in Pipe(Written), s2c'[c] \in Pipe(Told),
         srv'[c] \in Connection(Written, TextSegs(Told) \cup FileSegs(c[2])), UploadOK(srv'[c]),
         con'[c] \in ClientConnection, con'[c].cb = "put" => con'[c].version \in Version
  PROVE  FlowOK(c)'
<1>1. s2c'[c] \in Pipe(Told')
  BY ToldGrows, PipeGrows, Zenon
<1>2. srv'[c] \in Connection(Written, (TextSegs(Told) \cup FileSegs(c[2]))')
  BY OutGrows, Zenon
<1>3. con'[c] \in ClientConnection'
  BY ConGrows, Zenon
<1>. QED BY <1>1, <1>2, <1>3, Zenon DEF FlowOK

(* A step on one connection, which leaves the others alone.                *)
LEMMA OneFlow ==
  ASSUME TypeInv, PartsStay, NEW c \in Conn, FlowOK(c)',
         \A d \in Conn : d # c => /\ c2s'[d] = c2s[d] /\ s2c'[d] = s2c[d]
                                  /\ srv'[d] = srv[d] /\ con'[d] = con[d]
  PROVE  \A d \in Conn : FlowOK(d)'
<1>. SUFFICES ASSUME NEW d \in Conn, d # c PROVE FlowOK(d)'
  OBVIOUS
<1>1. FlowOK(d)
  BY Zenon DEF TypeInv
<1>2. c2s'[d] = c2s[d] /\ s2c'[d] = s2c[d] /\ srv'[d] = srv[d] /\ con'[d] = con[d]
  OBVIOUS
<1>. QED BY <1>1, <1>2, FlowKept, Zenon DEF FlowOK

(* What the programs know stays true when no part is taken away.           *)
LEMMA CompleteKept ==
  ASSUME PartsStay, NEW k \in Client, CompleteOK(k),
         shown'[k] = shown[k], m_files[k] \subseteq m_files'[k]
  PROVE  CompleteOK(k)'
<1>1. ListedWild(k) => ListedWild(k)'
  BY Zenon DEF ListedWild
<1>2. \A f \in File, p \in Part : IsStored(f, p) => IsStored(f, p)'
  BY StoredStays, ChannelAssumption, Zenon
<1>. QED BY <1>1, <1>2, Zenon DEF CompleteOK, PlainEntries

LEMMA ProgramKept ==
  ASSUME PartsStay, NEW k \in Client, ProgramOK(k),
         prog'[k] = prog[k], m_files'[k] = m_files[k], shown'[k] = shown[k],
         tmp'[k] = tmp[k], got'[k] = got[k]
  PROVE  ProgramOK(k)'
<1>1. m_files'[k] \subseteq Told'
  BY ToldGrows, Zenon DEF ProgramOK
<1>2. CompleteOK(k)'
  BY CompleteKept, Zenon DEF ProgramOK
<1>. QED BY <1>1, <1>2, Zenon DEF ProgramOK, PartFiles, PartFile, Program

LEMMA ProgramsKept ==
  ASSUME TypeInv, PartsStay, UNCHANGED <<prog, m_files, shown, tmp, got>>
  PROVE  \A k \in Client : ProgramOK(k)'
<1>1. UNCHANGED prog /\ UNCHANGED m_files /\ UNCHANGED shown /\ UNCHANGED tmp /\ UNCHANGED got
  OBVIOUS
<1>2. \A k \in Client : ProgramOK(k)
  BY Zenon DEF TypeInv
<1>. QED BY <1>1, <1>2, ProgramKept, Zenon
LEMMA LinksKept ==
  ASSUME TypeInv, con' = con, prog' = prog
  PROVE  Linked'
BY Zenon DEF TypeInv, Linked

-----------------------------------------------------------------------------
(* The servers.                                                            *)
LEMMA FreshConnection ==
  ASSUME NEW In, NEW Out
  PROVE  /\ Accepted \in Connection(In, Out) /\ UploadOK(Accepted)
         /\ Absent \in Connection(In, Out) /\ UploadOK(Absent)
<1>1. PICK zero : zero = 0 /\ zero \in Nat /\ zero \in 0..3 /\ zero \in Number \cup {0}
  OBVIOUS
<1>2. <<>> \in Seq(In) /\ <<>> \in Seq(Out)
  BY EmptySeq
<1>3. Accepted \in Connection(In, Out)
  BY <1>1, <1>2 DEF Accepted, Connection
<1>4. Accepted.cb = "read" /\ Accepted.putState = 0
  BY DEF Accepted
<1>5. Absent \in Connection(In, Out)
  BY <1>3 DEF Absent, Connection
<1>6. Absent.cb = "read" /\ Absent.putState = 0
  BY <1>3, <1>4 DEF Absent, Connection
<1>7. UploadOK(Accepted) /\ UploadOK(Absent)
  BY <1>4, <1>6 DEF UploadOK
<1>. QED BY <1>3, <1>5, <1>7

(* A step that leaves the disks alone takes no part away.                  *)
LEMMA DisksKept ==
  ASSUME disk' = disk
  PROVE  PartsStay
BY Zenon DEF PartsStay

(* What a read makes of the disk, and of the connection.                   *)
Wrote(c, files) ==
  /\ files \in Files(Written)
  /\ Adds(c, srv[c].filename, Written, disk[c[2]], files)
  /\ disk' = [disk EXCEPT ![c[2]] = files]
  /\ DOMAIN folder' = Server

Served1(c, n, r) ==
  /\ r \in Connection(Written, TextSegs(Told) \cup FileSegs(c[2])) /\ UploadOK(r)
  /\ srv' = [srv EXCEPT ![c] = r]
  /\ c2s' = [c2s EXCEPT ![c] = Received(@, n)]
  /\ UNCHANGED <<s2c, net, fate>>

LEMMA WroteStays ==
  ASSUME TypeInv, NEW c \in Conn, NEW files, Wrote(c, files)
  PROVE  PartsStay /\ disk' \in [Server -> Files(Written)]
<1>1. DfsShape /\ c[2] \in Server
  BY DEF TypeInv, Conn
<1>2. ASSUME NEW s \in Server, NEW f \in File, NEW p \in Number, disk[s][f][p] # NoPart
      PROVE  disk'[s][f][p] # NoPart
  <2>1. disk'[s] = IF s = c[2] THEN files ELSE disk[s]
    BY <1>1, Zenon DEF Wrote, DfsShape
  <2>2. files[f][p] # disk[c[2]][f][p] => files[f][p] \in Seq(Written)
    BY Zenon DEF Wrote, Adds
  <2>. QED BY <1>2, <2>1, <2>2, Directions, Zenon
<1>3. disk' \in [Server -> Files(Written)]
  <2>. HIDE DEF Files
  <2>. QED BY <1>1 DEF Wrote, DfsShape
<1>. QED BY <1>2, <1>3, Zenon DEF PartsStay

LEMMA ServerReads ==
  ASSUME TypeInv, NEW c \in Conn, ServerRead(c)
  PROVE  \E files : /\ Wrote(c, files)
                    /\ \/ \E unread : Die(c[2], "aborted", unread)
                       \/ \E n \in c2s[c].cuts : \E r : Served1(c, n, r)
<1> DEFINE Out == TextSegs(Told) \cup FileSegs(c[2])
           Joined(n) == [srv[c] EXCEPT !.inp = @ \o Take(c2s[c].data, n)]
<1>0. /\ FlowOK(c) /\ c[2] \in Server
      /\ disk \in [Server -> Files(Written)] /\ DOMAIN folder = Server
      /\ Answers(c[2]) \subseteq Told /\ Written \subseteq Token
  <2>1. c[2] \in Server
    BY DEF Conn
  <2>. QED BY <2>1, Directions, Zenon DEF TypeInv, DfsShape
<1>a. PICK n \in c2s[c].cuts : \E q \in {Joined(n)} :
        LET left == [c2s EXCEPT ![c] = Received(@, n)] IN
        \/ q.cb = "read" /\ callback_read(c, q) /\ c2s' = left /\ UNCHANGED <<s2c, net>>
        \/ q.cb = "put" /\ callback_put(c, q) /\ c2s' = left /\ UNCHANGED <<s2c, net>>
        \/ /\ Die(c[2], "aborted", left)
           /\ folder' = [folder EXCEPT ![c[2]] = CanCreate(c[2])] /\ UNCHANGED disk
        \/ /\ q.cb = "put" /\ Die(c[2], "aborted", left) /\ UNCHANGED folder
           /\ \E h \in PutLoop(c, q) : disk' = [disk EXCEPT ![c[2]] = h.files]
  <2>. HIDE DEF Joined
  <2>. QED BY Zenon DEF ServerRead, Joined
<1>b. PICK q :
       /\ q = [srv[c] EXCEPT !.inp = srv[c].inp \o Take(c2s[c].data, n)]
       /\ \/ /\ (q.cb = "read" /\ callback_read(c, q)) \/ (q.cb = "put" /\ callback_put(c, q))
             /\ c2s' = [c2s EXCEPT ![c] = Received(@, n)] /\ s2c' = s2c /\ net' = net
          \/ /\ \E unread : Die(c[2], "aborted", unread)
             /\ folder' = [folder EXCEPT ![c[2]] = CanCreate(c[2])] /\ disk' = disk
          \/ /\ q.cb = "put" /\ (\E unread : Die(c[2], "aborted", unread)) /\ folder' = folder
             /\ \E h \in PutLoop(c, q) : disk' = [disk EXCEPT ![c[2]] = h.files]
  BY <1>a, Zenon
<1>. HIDE DEF Joined, Out
<1>c. q \in Connection(Written, Out) /\ UploadOK(q) /\ q.filename = srv[c].filename
  <2>1. Take(c2s[c].data, n) \in Seq(Written)
    BY <1>0, ReceivedType DEF FlowOK
  <2>2. srv[c] \in Connection(Written, Out) /\ UploadOK(srv[c]) /\ srv[c].inp \in Seq(Written)
    BY <1>0 DEF FlowOK, Connection, Out
  <2>3. srv[c].inp \o Take(c2s[c].data, n) \in Seq(Written)
    BY <2>1, <2>2, ConcatProperties
  <2>4. q \in Connection(Written, Out) /\ UploadOK(q)
    BY <1>b, <2>2, <2>3, ConnectionFields
  <2>. QED BY <1>b, <2>2, <2>4 DEF Connection
<1>d. disk[c[2]] \in Files(Written) /\ Adds(c, srv[c].filename, Written, disk[c[2]], disk[c[2]])
      /\ disk = [disk EXCEPT ![c[2]] = disk[c[2]]]
  BY <1>0, Zenon DEF Adds
<1>e. ASSUME NEW h \in PutLoop(c, q), q.cb = "put",
             disk' = [disk EXCEPT ![c[2]] = h.files], folder' = folder
      PROVE  Wrote(c, h.files) /\ h.q \in Connection(Written, Out) /\ UploadOK(h.q)
  <2>1. q.filename \in File
    BY <1>c, <1>e DEF Connection, UploadOK
  <2>2. /\ h.q \in Connection(Written, Out) /\ UploadOK(h.q)
        /\ h.files \in Files(Written)
        /\ Adds(c, q.filename, Written, disk[c[2]], h.files)
    BY <1>0, <1>c, <1>d, <2>1, LoopType
  <2>. QED BY <1>0, <1>c, <1>e, <2>2, Zenon DEF Wrote
<1>1. CASE /\ \E unread : Die(c[2], "aborted", unread)
           /\ folder' = [folder EXCEPT ![c[2]] = CanCreate(c[2])] /\ disk' = disk
  <2>1. DOMAIN folder' = Server
    BY <1>0, <1>1
  <2>2. Wrote(c, disk[c[2]])
    BY <1>1, <1>d, <2>1, Zenon DEF Wrote
  <2>. QED BY <1>1, <2>2, Zenon
<1>2. CASE /\ q.cb = "read" /\ callback_read(c, q)
           /\ c2s' = [c2s EXCEPT ![c] = Received(@, n)] /\ s2c' = s2c /\ net' = net
  <2>1. PICK r \in Connection(Written, Out) : UploadOK(r) /\ (Becomes(c, r) \/ EnterFolder(c, r))
    BY <1>0, <1>2, <1>c, <1>d, Served DEF Out
  <2>2. srv' = [srv EXCEPT ![c] = r] /\ disk' = disk /\ fate' = fate /\ DOMAIN folder' = Server
    BY <1>0, <2>1 DEF Becomes, EnterFolder
  <2>3. Served1(c, n, r)
    BY <1>2, <2>1, <2>2, Zenon DEF Served1, Out
  <2>4. Wrote(c, disk[c[2]])
    BY <1>d, <2>2, Zenon DEF Wrote
  <2>. QED BY <2>3, <2>4
<1>3. CASE /\ q.cb = "put" /\ callback_put(c, q)
           /\ c2s' = [c2s EXCEPT ![c] = Received(@, n)] /\ s2c' = s2c /\ net' = net
  <2>1. PICK h \in PutLoop(c, q) : /\ srv' = [srv EXCEPT ![c] = h.q]
                                   /\ disk' = [disk EXCEPT ![c[2]] = h.files]
                                   /\ folder' = folder /\ fate' = fate
    BY <1>3, Zenon DEF callback_put
  <2>2. Wrote(c, h.files) /\ h.q \in Connection(Written, Out) /\ UploadOK(h.q)
    BY <1>3, <1>e, <2>1, Zenon
  <2>3. Served1(c, n, h.q)
    BY <1>3, <2>1, <2>2, Zenon DEF Served1, Out
  <2>. QED BY <2>2, <2>3
<1>4. CASE /\ q.cb = "put" /\ (\E unread : Die(c[2], "aborted", unread)) /\ folder' = folder
           /\ \E h \in PutLoop(c, q) : disk' = [disk EXCEPT ![c[2]] = h.files]
  BY <1>4, <1>e, Zenon
<1>. QED BY <1>1, <1>2, <1>3, <1>4, <1>b, Zenon

(* A kill while a part is written leaves some of it.                       *)
LEMMA KilledWrites ==
  ASSUME TypeInv, NEW c \in Conn, KilledWriting(c)
  PROVE  \E files, unread : Wrote(c, files) /\ Die(c[2], "killed", unread)
<1> DEFINE Out == TextSegs(Told) \cup FileSegs(c[2])
           Joined(n) == [srv[c] EXCEPT !.inp = @ \o Take(c2s[c].data, n)]
<1>0. /\ FlowOK(c) /\ c[2] \in Server
      /\ disk \in [Server -> Files(Written)] /\ DOMAIN folder' = Server
      /\ Written \subseteq Token
  <2>1. c[2] \in Server /\ folder' = folder
    BY DEF Conn, KilledWriting
  <2>. QED BY <2>1, Directions, Zenon DEF TypeInv, DfsShape
<1>1. PICK n \in c2s[c].cuts : \E q \in {Joined(n)} :
        /\ q.cb = "put"
        /\ \E g \in Writes(c, q) : \E m \in 0..g.q.wantedSize :
             disk' = [disk EXCEPT ![c[2]] = StoringFirst(g.files, g.q, m)]
        /\ Die(c[2], "killed", [c2s EXCEPT ![c] = Received(@, n)])
  <2>. HIDE DEF Joined
  <2>. QED BY Zenon DEF KilledWriting, Joined
<1>2. PICK q :
        /\ q = [srv[c] EXCEPT !.inp = srv[c].inp \o Take(c2s[c].data, n)] /\ q.cb = "put"
        /\ \E g \in Writes(c, q) : \E m \in Nat :
             disk' = [disk EXCEPT ![c[2]] = StoringFirst(g.files, g.q, m)]
        /\ \E unread : Die(c[2], "killed", unread)
  <2>1. \A x : \A m \in 0..x : m \in Nat
    OBVIOUS
  <2>. QED BY <1>1, <2>1, Zenon
<1>. HIDE DEF Joined, Out
<1>3. q \in Connection(Written, Out) /\ UploadOK(q) /\ q.filename = srv[c].filename
  <2>1. Take(c2s[c].data, n) \in Seq(Written)
    BY <1>0, ReceivedType DEF FlowOK
  <2>2. srv[c] \in Connection(Written, Out) /\ UploadOK(srv[c]) /\ srv[c].inp \in Seq(Written)
    BY <1>0 DEF FlowOK, Connection, Out
  <2>3. srv[c].inp \o Take(c2s[c].data, n) \in Seq(Written)
    BY <2>1, <2>2, ConcatProperties
  <2>4. q \in Connection(Written, Out) /\ UploadOK(q)
    BY <1>2, <2>2, <2>3, ConnectionFields
  <2>. QED BY <1>2, <2>2, <2>4 DEF Connection
<1>4. q.filename \in File
  BY <1>2, <1>3 DEF Connection, UploadOK
<1>5. PICK g \in Writes(c, q), m \in Nat : disk' = [disk EXCEPT ![c[2]] = StoringFirst(g.files, g.q, m)]
  BY <1>2, Zenon
<1>6. /\ StoringFirst(g.files, g.q, m) \in Files(Written)
      /\ Adds(c, q.filename, Written, disk[c[2]], StoringFirst(g.files, g.q, m))
  <2>1. disk[c[2]] \in Files(Written)
    BY <1>0, Zenon
  <2>. QED BY <1>0, <1>3, <1>4, <2>1, WritesType
<1>7. Wrote(c, StoringFirst(g.files, g.q, m))
  BY <1>0, <1>3, <1>5, <1>6, Zenon DEF Wrote
<1>. QED BY <1>2, <1>7, Zenon

LEMMA DieType ==
  ASSUME TypeInv, NEW s \in Server, NEW how \in {"killed", "aborted"}, NEW unread,
         Die(s, how, unread), UNCHANGED clientVars,
         PartsStay, disk' \in [Server -> Files(Written)], DOMAIN folder' = Server
  PROVE  TypeInv'
<1> DEFINE C == Client \X {s}
<1>0. con' = con /\ prog' = prog /\ m_files' = m_files
      /\ shown' = shown /\ tmp' = tmp /\ got' = got
  BY DEF clientVars
<1>1. PartsStay
  OBVIOUS
<1>2. ASSUME NEW c \in Conn PROVE FlowOK(c)'
  <2>1. FlowOK(c)
    BY Zenon DEF TypeInv
  <2>2. c2s'[c] \in Pipe(Written)
    <3>1. c2s'[c] = IF c \in C THEN Empty ELSE c2s[c]
      BY Zenon DEF Die
    <3>. QED BY <2>1, <3>1, EmptyType, Zenon DEF FlowOK
  <2>3. s2c'[c] \in Pipe(Told)
    <3>1. s2c'[c] \in {Empty, Ended(s2c[c]), s2c[c]}
      BY DEF Die
    <3>2. Ended(s2c[c]) \in Pipe(Told) /\ Empty \in Pipe(Told)
      BY <2>1, EndedType, EmptyType, Zenon DEF FlowOK
    <3>. QED BY <2>1, <3>1, <3>2 DEF FlowOK
  <2>4. srv'[c] = Absent \/ srv'[c] = srv[c]
    BY DEF Die
  <2>5. srv'[c] \in Connection(Written, TextSegs(Told) \cup FileSegs(c[2])) /\ UploadOK(srv'[c])
    BY <2>1, <2>4, FreshConnection, Zenon DEF FlowOK
  <2>. QED BY <1>0, <1>1, <2>1, <2>2, <2>3, <2>5, FlowKept, Zenon DEF FlowOK
<1>3. \A k \in Client : ProgramOK(k)'
  BY <1>0, <1>1, ProgramsKept
<1>4. DOMAIN c2s' = Conn /\ DOMAIN s2c' = Conn /\ DOMAIN srv' = Conn
  BY DEF Die
<1>5. net' \in [Conn -> NetState]
  BY DEF TypeInv, DfsShape, Die, NetAfterDeath, NetState
<1>6. fate' \in [Server -> {"up", "killed", "aborted"}]
  BY DEF TypeInv, DfsShape, Die
<1>7. DfsShape'
  BY <1>0, <1>4, <1>5, <1>6, Zenon DEF TypeInv, DfsShape
<1>. QED BY <1>0, <1>2, <1>3, <1>7, LinksKept, Zenon DEF TypeInv

LEMMA ServerReadType ==
  ASSUME TypeInv, NEW c \in Conn, ServerRead(c), UNCHANGED clientVars
  PROVE  TypeInv'
<1>0. PICK files : /\ Wrote(c, files)
                   /\ \/ \E unread : Die(c[2], "aborted", unread)
                      \/ \E n \in c2s[c].cuts : \E r : Served1(c, n, r)
  BY ServerReads, Zenon
<1>a. PartsStay /\ disk' \in [Server -> Files(Written)] /\ DOMAIN folder' = Server
  BY <1>0, WroteStays, Zenon DEF Wrote
<1>1. CASE \E unread : Die(c[2], "aborted", unread)
  BY <1>1, <1>a, DieType DEF Conn
<1>2. CASE \E n \in c2s[c].cuts : \E r : Served1(c, n, r)
  <2>a. PICK n \in c2s[c].cuts : \E r : Served1(c, n, r)
    BY <1>2
  <2>1. PICK r : Served1(c, n, r)
    BY <2>a
  <2>2. /\ con' = con /\ prog' = prog /\ m_files' = m_files
        /\ shown' = shown /\ tmp' = tmp /\ got' = got /\ s2c' = s2c /\ net' = net /\ fate' = fate
    BY <2>1 DEF Served1, clientVars
  <2>3. FlowOK(c) /\ DfsShape /\ c[2] \in Server
    BY DEF TypeInv, Conn
  <2>4. PartsStay
    BY <1>a
  <2>5. srv'[c] = r /\ c2s'[c] = Received(c2s[c], n)
    BY <2>1, <2>3, Zenon DEF Served1, DfsShape
  <2>6. c2s'[c] \in Pipe(Written)
    BY <2>3, <2>5, ReceivedType DEF FlowOK
  <2>7. FlowOK(c)'
    BY <2>1, <2>2, <2>3, <2>4, <2>5, <2>6, FlowKept, Zenon DEF FlowOK, Served1
  <2>8. \A d \in Conn : d # c => /\ c2s'[d] = c2s[d] /\ s2c'[d] = s2c[d]
                                 /\ srv'[d] = srv[d] /\ con'[d] = con[d]
    BY <2>1, <2>2, <2>3, Zenon DEF Served1, DfsShape
  <2>9. \A d \in Conn : FlowOK(d)'
    BY <2>4, <2>7, <2>8, OneFlow, Zenon
  <2>10. \A k \in Client : ProgramOK(k)'
    BY <2>2, <2>4, ProgramsKept
  <2>11. DOMAIN c2s' = Conn /\ DOMAIN srv' = Conn
    BY <2>1, <2>3 DEF Served1, DfsShape
  <2>12. DfsShape'
    BY <1>a, <2>1, <2>2, <2>3, <2>11, Zenon DEF Served1, DfsShape
  <2>. QED BY <2>2, <2>9, <2>10, <2>12, LinksKept, Zenon DEF TypeInv
<1>. QED BY <1>0, <1>1, <1>2, Zenon

(* What leaves a server is text, or a part that a client once wrote.       *)
LEMMA ContentType ==
  ASSUME TypeInv, NEW c \in Conn, NEW seg \in TextSegs(Told) \cup FileSegs(c[2])
  PROVE  Content(c[2], seg) \in Seq(Told)
<1>1. CASE seg.file = NoFile
  <2>1. Content(c[2], seg) = seg.data
    BY <1>1 DEF Content
  <2>2. seg.data \in Seq(Told)
    BY <1>1, ChannelAssumption DEF TextSegs, FileSegs
  <2>. QED BY <2>1, <2>2
<1>2. CASE seg.file # NoFile
  <2>1. seg \in FileSegs(c[2]) /\ c[2] \in Server
    BY <1>2 DEF TextSegs, Conn
  <2>. DEFINE part == disk[c[2]][seg.file][seg.part]
  <2>2. part \in Seq(Written) /\ seg.len \in Nat
    <3>1. /\ seg.file \in File /\ seg.part \in Number /\ seg.len \in Nat
          /\ disk[c[2]][seg.file][seg.part] # NoPart
      BY <2>1, ChannelAssumption DEF FileSegs
    <3>2. disk[c[2]] \in Files(Written)
      BY <2>1 DEF TypeInv, DfsShape
    <3>. QED BY <3>1, <3>2 DEF Files
  <2>3. part \in Seq(Told)
    BY <2>2, Directions, SeqMonotonic
  <2>4. Content(c[2], seg) = Take(part, seg.len)
    BY <1>2 DEF Content
  <2>. HIDE DEF part
  <2>. QED BY <2>2, <2>3, <2>4, TakeDropType
<1>. QED BY <1>1, <1>2

LEMMA ServerWriteType ==
  ASSUME TypeInv, NEW c \in Conn, ServerWrite(c), UNCHANGED clientVars
  PROVE  TypeInv'
<1> DEFINE out  == srv[c].out
           Out  == TextSegs(Told) \cup FileSegs(c[2])
           d    == Content(c[2], out[1])
           rest == IF Len(d) < out[1].len THEN out ELSE Tail(out)
           wr   == Len(d) = out[1].len
<1>1. FlowOK(c) /\ DfsShape
  BY Zenon DEF TypeInv
<1>2. CASE Die(c[2], "aborted", c2s) /\ UNCHANGED <<disk, folder>>
  <2>1. disk' = disk /\ folder' = folder /\ c[2] \in Server
    BY <1>2 DEF Conn
  <2>. QED BY <1>1, <1>2, <2>1, DisksKept, DieType, Zenon DEF DfsShape
<1>3. CASE ~(Die(c[2], "aborted", c2s) /\ UNCHANGED <<disk, folder>>)
  <2>1. out # <<>> /\ out \in Seq(Out)
    BY <1>1, <1>3, Zenon DEF ServerWrite, FlowOK, Connection
  <2>2. out[1] \in Out
    BY <2>1, ElementOfSeq, EmptySeq, LenProperties
  <2>3. d \in Seq(Told)
    BY <2>2, ContentType
  <2>4. rest \in Seq(Out) /\ wr \in BOOLEAN
    BY <2>1, HeadTailProperties
  <2>5. /\ \/ srv' = [srv EXCEPT ![c].out = rest, ![c].wr = wr]
           \/ srv' = [srv EXCEPT ![c].wr = FALSE]
        /\ \/ s2c' = s2c
           \/ \E last : s2c' = [s2c EXCEPT ![c] = Sent(@, d, last)]
        /\ c2s' = c2s /\ fate' = fate /\ disk' = disk /\ folder' = folder
        /\ net' = net \/ Swallowed(c)
    BY <1>3, Zenon DEF ServerWrite, netVars
  <2>. HIDE DEF rest, wr, d, Out
  <2>6. PICK r \in Connection(Written, Out) : UploadOK(r) /\ srv' = [srv EXCEPT ![c] = r]
    <3>0. srv[c] \in Connection(Written, Out) /\ UploadOK(srv[c]) /\ DOMAIN srv = Conn
      BY <1>1, Zenon DEF FlowOK, Out, DfsShape
    <3>1. \E o \in Seq(Out), w \in BOOLEAN : srv' = [srv EXCEPT ![c] = [@ EXCEPT !.out = o, !.wr = w]]
      <4>1. CASE srv' = [srv EXCEPT ![c].out = rest, ![c].wr = wr]
        BY <3>0, <2>4, <4>1
      <4>2. CASE srv' = [srv EXCEPT ![c].wr = FALSE]
        <5>1. srv[c] = [srv[c] EXCEPT !.out = out]
          BY <3>0 DEF Connection
        <5>. QED BY <3>0, <2>1, <4>2, <5>1
      <4>. QED BY <2>5, <4>1, <4>2
    <3>2. PICK o \in Seq(Out), w \in BOOLEAN : srv' = [srv EXCEPT ![c] = [@ EXCEPT !.out = o, !.wr = w]]
      BY <3>1
    <3>. DEFINE r == [srv[c] EXCEPT !.out = o, !.wr = w]
    <3>3. r \in Connection(Written, Out) /\ UploadOK(r)
      BY <3>0 DEF Connection, UploadOK
    <3>. QED BY <3>2, <3>3, Zenon
  <2>7. s2c'[c] \in Pipe(Told)
    <3>1. s2c'[c] = s2c[c] \/ \E last : s2c'[c] = Sent(s2c[c], d, last)
      BY <1>1, <2>5, Zenon DEF DfsShape
    <3>. QED BY <1>1, <2>3, <3>1, SentType DEF FlowOK
  <2>8. /\ con' = con /\ prog' = prog /\ m_files' = m_files
        /\ shown' = shown /\ tmp' = tmp /\ got' = got
    BY DEF clientVars
  <2>9. PartsStay
    BY <2>5, DisksKept
  <2>10. FlowOK(c)'
    <3>1. srv'[c] = r
      BY <1>1, <2>6, Zenon DEF DfsShape
    <3>2. c2s'[c] = c2s[c] /\ con'[c] = con[c]
      BY <2>5, <2>8
    <3>. QED BY <1>1, <2>6, <2>7, <2>9, <3>1, <3>2, FlowKept, Zenon DEF FlowOK, Out
  <2>11. \A e \in Conn : e # c => /\ c2s'[e] = c2s[e] /\ s2c'[e] = s2c[e]
                                  /\ srv'[e] = srv[e] /\ con'[e] = con[e]
    BY <1>1, <2>5, <2>6, <2>8, Zenon DEF DfsShape
  <2>12. net' \in [Conn -> NetState]
    BY <1>1, <2>5 DEF DfsShape, Swallowed, NetState
  <2>13. DOMAIN s2c' = Conn /\ DOMAIN srv' = Conn
    BY <1>1, <2>5, <2>6, Zenon DEF DfsShape
  <2>14. DfsShape'
    BY <1>1, <2>5, <2>8, <2>12, <2>13, Zenon DEF DfsShape
  <2>15. \A k \in Client : ProgramOK(k)'
    BY <2>8, <2>9, ProgramsKept
  <2>16. \A e \in Conn : FlowOK(e)'
    BY <2>9, <2>10, <2>11, OneFlow, Zenon
  <2>. QED BY <2>8, <2>14, <2>15, <2>16, LinksKept, Zenon DEF TypeInv
<1>. QED BY <1>2, <1>3

LEMMA ServeType ==
  ASSUME TypeInv, NEW c \in Conn, ServerStep(c), UNCHANGED clientVars
  PROVE  TypeInv'
<1>1. CASE Accept(c)
  <2>1. /\ srv' = [srv EXCEPT ![c] = Accepted]
        /\ c2s' = c2s /\ s2c' = s2c /\ net' = net /\ fate' = fate /\ disk' = disk /\ folder' = folder
        /\ con' = con /\ prog' = prog /\ m_files' = m_files
        /\ shown' = shown /\ tmp' = tmp /\ got' = got
    BY <1>1 DEF Accept, netVars, clientVars
  <2>2. FlowOK(c) /\ DfsShape /\ PartsStay
    BY <2>1, DisksKept, Zenon DEF TypeInv
  <2>3. srv'[c] = Accepted /\ c2s'[c] = c2s[c] /\ s2c'[c] = s2c[c] /\ con'[c] = con[c]
    BY <2>1, <2>2, Zenon DEF DfsShape
  <2>4. FlowOK(c)'
    BY <2>2, <2>3, FreshConnection, FlowKept, Zenon DEF FlowOK
  <2>5. \A e \in Conn : e # c => /\ c2s'[e] = c2s[e] /\ s2c'[e] = s2c[e]
                                 /\ srv'[e] = srv[e] /\ con'[e] = con[e]
    BY <2>1, <2>2, Zenon DEF DfsShape
  <2>6. \A e \in Conn : FlowOK(e)'
    BY <2>2, <2>4, <2>5, OneFlow, Zenon
  <2>7. \A k \in Client : ProgramOK(k)'
    BY <2>1, <2>2, ProgramsKept
  <2>8. DfsShape'
    BY <2>1, <2>2, Zenon DEF DfsShape
  <2>. QED BY <2>1, <2>6, <2>7, <2>8, LinksKept, Zenon DEF TypeInv
<1>. QED BY <1>1, ServerReadType, ServerWriteType, Zenon DEF ServerStep
-----------------------------------------------------------------------------
(* callback_get: a connection with less in its input, and the files.       *)
Rest(q) == { r \in ClientConnection :
               /\ r = [q EXCEPT !.inp = r.inp, !.m_get_state = r.m_get_state]
               /\ \E d \in 0..Len(q.inp) : r.inp = Drop(q.inp, d) }

GetRun(q) == [ q : Rest(q), partnum : Number \cup {0}, size : Nat, tmp : PartFiles, got : PartFile,
               go : {"on", "return", "break"} ]

LEMMA RestDrops ==
  ASSUME NEW q \in ClientConnection, NEW r \in Rest(q), NEW n \in Nat, NEW st \in 0..3
  PROVE  [r EXCEPT !.inp = Drop(r.inp, n), !.m_get_state = st] \in Rest(q)
<1>1. PICK d \in 0..Len(q.inp) : r.inp = Drop(q.inp, d)
  BY DEF Rest
<1>2. /\ q.inp \in Seq(Told) /\ r \in ClientConnection /\ r.inp \in Seq(Told)
      /\ r = [q EXCEPT !.inp = r.inp, !.m_get_state = r.m_get_state]
  BY DEF Rest, ClientConnection
<1>3. PICK e \in 0..Len(q.inp) : Drop(Drop(q.inp, d), n) = Drop(q.inp, e)
  BY <1>2, DropDrop
<1> DEFINE b == Drop(r.inp, n)
           x == r.inp
           y == r.m_get_state
           r2 == [r EXCEPT !.inp = b, !.m_get_state = st]
<1>4. b = Drop(q.inp, e) /\ b \in Seq(Told) /\ r = [q EXCEPT !.inp = x, !.m_get_state = y]
  BY <1>1, <1>2, <1>3, TakeDropType
<1>. HIDE DEF b, x, y
<1>5. r2 \in ClientConnection /\ r2.inp = b /\ r2.m_get_state = st
  BY <1>2, <1>4 DEF ClientConnection
<1>6. r2 = [q EXCEPT !.inp = b, !.m_get_state = st]
  BY <1>4 DEF ClientConnection
<1>. HIDE DEF r2
<1>7. r2 = [q EXCEPT !.inp = r2.inp, !.m_get_state = r2.m_get_state]
  BY <1>5, <1>6
<1>8. r2 \in Rest(q)
  BY <1>4, <1>5, <1>7 DEF Rest
<1>. QED BY <1>8 DEF r2, b

LEMMA RestStarts ==
  ASSUME NEW q \in ClientConnection
  PROVE  q \in Rest(q)
<1>1. q.inp \in Seq(Told) /\ Len(q.inp) \in Nat
  BY LenProperties DEF ClientConnection
<1>. DEFINE b == Drop(q.inp, 0)
<1>2. b = q.inp
  <2>1. /\ b \in Seq(Told) /\ Len(b) = Len(q.inp)
        /\ \A i \in 1..Len(b) : b[i] = q.inp[0 + i]
    BY <1>1, DropElements
  <2>2. \A i \in 1..Len(b) : b[i] = q.inp[i]
    BY <2>1
  <2>. HIDE DEF b
  <2>. QED BY <1>1, <2>1, <2>2, SeqEqual
<1>3. q = [q EXCEPT !.inp = q.inp, !.m_get_state = q.m_get_state]
  BY DEF ClientConnection
<1>. QED BY <1>1, <1>2, <1>3 DEF Rest

(* The parts that have come, and the file they make up.                    *)
LEMMA FileBuilderType ==
  ASSUME NEW q, NEW h \in GetRun(q), NEW f, NEW p, NEW data \in Seq(Token)
  PROVE  FileBuilder(h, f, p, data) \in GetRun(q)
<1> DEFINE t == [h.tmp EXCEPT ![p] = data]
<1>1. h.tmp \in PartFiles /\ h.got \in PartFile
  BY DEF GetRun
<1>2. t \in PartFiles
  BY <1>1 DEF PartFiles, PartFile
<1>3. ASSUME \A i \in Part : t[i] # NoPart PROVE Assembled(t) \in PartFile
  <2>1. \A i \in Part : t[i] \in Seq(Token)
    BY <1>2, <1>3, ChannelAssumption DEF PartFiles, PartFile
  <2>. HIDE DEF t
  <2>2. t[1] \in Seq(Token) /\ t[2] \in Seq(Token) /\ t[3] \in Seq(Token) /\ t[4] \in Seq(Token)
    BY <2>1 DEF Part
  <2>3. t[1] \o t[2] \o t[3] \o t[4] \in Seq(Token)
    BY <2>2, ConcatProperties
  <2>. QED BY <2>3 DEF Assembled, PartFile
<1>. DEFINE g == IF \E i \in Part : t[i] = NoPart THEN h.got ELSE Assembled(t)
<1>4. g \in PartFile
  BY <1>1, <1>3
<1>5. FileBuilder(h, f, p, data) = h \/ FileBuilder(h, f, p, data) = [h EXCEPT !.tmp = t, !.got = g]
  BY Zenon DEF FileBuilder
<1>. HIDE DEF t, g
<1>6. [h EXCEPT !.tmp = t, !.got = g] \in GetRun(q)
  BY <1>2, <1>4 DEF GetRun
<1>. QED BY <1>5, <1>6

LEMMA GetRoundType ==
  ASSUME NEW q \in ClientConnection, NEW h \in GetRun(q), NEW f
  PROVE  GetRound(h, f) \in GetRun(q)
<1> DEFINE r    == h.q
           line == LineOf(r.inp)
           have == Take(r.inp, h.size)
           data == [n \in 1..h.size |-> IF n <= Len(have) THEN have[n] ELSE Garbage]
<1>1. r \in Rest(q) /\ h.size \in Nat
  BY DEF GetRun
<1>2. r \in ClientConnection
  BY <1>1 DEF Rest
<1>3. r.inp \in Seq(Told) /\ r.m_get_state \in 0..3
  BY <1>2 DEF ClientConnection
<1>4. ASSUME NEW go \in {"return", "break"} PROVE [h EXCEPT !.go = go] \in GetRun(q)
  BY <1>4 DEF GetRun
<1>5. ASSUME NEW n \in Nat, NEW st \in 0..3
      PROVE  [h EXCEPT !.q.inp = Drop(r.inp, n), !.q.m_get_state = st] \in GetRun(q)
  <2>. DEFINE r2 == [r EXCEPT !.inp = Drop(r.inp, n), !.m_get_state = st]
  <2>1. r2 \in Rest(q)
    BY <1>1, RestDrops
  <2>2. [h EXCEPT !.q.inp = Drop(r.inp, n), !.q.m_get_state = st] = [h EXCEPT !.q = r2]
    BY DEF GetRun
  <2>. HIDE DEF r2
  <2>. QED BY <2>1, <2>2 DEF GetRun
<1>6. CASE h.go # "on"
  BY <1>6, Zenon DEF GetRound
<1>7. CASE h.go = "on" /\ r.m_get_state \in {1, 3} /\ ~HasLine(r.inp)
  <2>1. GetRound(h, f) = [h EXCEPT !.go = WithoutLine(r.m_get_state)]
    BY <1>7, Zenon DEF GetRound
  <2>. QED BY <1>4, <2>1 DEF WithoutLine
<1>8. CASE h.go = "on" /\ r.m_get_state \in {1, 3} /\ HasLine(r.inp)
  <2>1. LineEnd(r.inp) \in 1..Len(r.inp) /\ Len(r.inp) \in Nat /\ line \in Seq(Told)
    <3>1. line \in Seq(Readings(Told))
      BY <1>3, <1>8, LineType
    <3>2. line \in Seq(Told)
      BY <3>1, ToldReadings, SeqMonotonic
    <3>. QED BY <1>3, <1>8, <3>2, LineEndInside, LenProperties
  <2>. DEFINE n == LineEnd(r.inp)
              rest == AfterLine(r.inp)
              st == r.m_get_state
  <2>2. n \in Nat /\ rest = Drop(r.inp, n)
    BY <2>1 DEF AfterLine, Drop
  <2>3. CASE line = <<>> \/ line[Len(line)].k # "GOOD"
    <3>1. GetRound(h, f) = [h EXCEPT !.q.inp = rest, !.go = "break"]
      BY <1>8, <2>3, Zenon DEF GetRound
    <3>. HIDE DEF n, rest
    <3>2. [h EXCEPT !.q.inp = rest, !.q.m_get_state = st] \in GetRun(q)
      BY <1>3, <1>5, <2>2
    <3>. DEFINE r2 == [r EXCEPT !.inp = rest, !.m_get_state = st]
    <3>3. [h EXCEPT !.q.inp = rest, !.go = "break"] = [h EXCEPT !.q = r2, !.go = "break"]
      BY <1>2 DEF GetRun, ClientConnection
    <3>4. r2 \in Rest(q)
      BY <1>1, <1>3, <2>2, RestDrops
    <3>. HIDE DEF r2
    <3>. QED BY <3>1, <3>3, <3>4, ZenonT(40) DEF GetRun
  <2>4. CASE ~(line = <<>> \/ line[Len(line)].k # "GOOD")
    <3>. DEFINE t == line[Len(line)]
    <3>1. t \in Told /\ t.k = "GOOD"
      BY <2>1, <2>4, ElementOfSeq, EmptySeq, LenProperties
    <3>2. t.p \in Number /\ t.l \in Nat
      BY <3>1, Directions DEF Token
    <3>. DEFINE p == t.p
                l == t.l
                r2 == [r EXCEPT !.inp = rest, !.m_get_state = 2]
    <3>3. GetRound(h, f) = [h EXCEPT !.q.inp = rest, !.q.m_get_state = 2, !.partnum = p, !.size = l]
      BY <1>8, <2>4, Zenon DEF GetRound
    <3>4. r2 \in Rest(q) /\ p \in Number \cup {0} /\ l \in Nat
      <4>1. [r EXCEPT !.inp = Drop(r.inp, n), !.m_get_state = 2] \in Rest(q)
        <5>1. 2 \in 0..3
          OBVIOUS
        <5>. QED BY <1>1, <2>2, <5>1, RestDrops, Zenon
      <4>2. r2 \in Rest(q)
        BY <2>2, <4>1, Zenon
      <4>. QED BY <3>2, <4>2
    <3>. HIDE DEF rest, p, l
    <3>5. GetRound(h, f) = [h EXCEPT !.q = r2, !.partnum = p, !.size = l]
      BY <3>3 DEF GetRun
    <3>. HIDE DEF r2
    <3>. QED BY <3>4, <3>5 DEF GetRun
  <2>. QED BY <2>3, <2>4
<1>9. CASE h.go = "on" /\ r.m_get_state \notin {1, 3} /\ r.inp = <<>>
  <2>1. GetRound(h, f) = [h EXCEPT !.go = "return"]
    BY <1>9, Zenon DEF GetRound
  <2>. QED BY <1>4, <2>1
<1>10. CASE h.go = "on" /\ r.m_get_state \notin {1, 3} /\ r.inp # <<>>
  <2>1. GetRound(h, f) = FileBuilder([h EXCEPT !.q.inp = Drop(r.inp, h.size), !.q.m_get_state = 3],
                                     f, h.partnum, data)
    BY <1>10, Zenon DEF GetRound
  <2>2. [h EXCEPT !.q.inp = Drop(r.inp, h.size), !.q.m_get_state = 3] \in GetRun(q)
    <3>1. 3 \in 0..3
      OBVIOUS
    <3>. QED BY <1>1, <1>5, <3>1, Zenon
  <2>3. data \in Seq(Token)
    <3>1. Garbage \in Token
      BY DEF Garbage, Token
    <3>2. have \in Seq(Told) /\ Len(have) \in Nat
      BY <1>1, <1>3, TakeDropType, LenProperties
    <3>. HIDE DEF have
    <3>3. \A n \in 1..h.size : n <= Len(have) => have[n] \in Token
      BY <1>1, <3>2, ElementOfSeq, Directions
    <3>4. data \in [1..h.size -> Token]
      BY <3>1, <3>3
    <3>. QED BY <1>1, <3>4, FunctionIsSeq
  <2>. HIDE DEF data
  <2>. QED BY <2>1, <2>2, <2>3, FileBuilderType, ZenonT(40)
<1>. QED BY <1>6, <1>7, <1>8, <1>9, <1>10, Zenon
-----------------------------------------------------------------------------
(* The clients.  A step of client c[1] on the connection c.                *)
LEMMA ClientStepType ==
  ASSUME TypeInv, NEW c \in Conn, UNCHANGED serverVars,
         DOMAIN c2s' = Conn, DOMAIN s2c' = Conn, DOMAIN con' = Conn, net' \in [Conn -> NetState],
         c2s'[c] \in Pipe(Written), s2c'[c] \in Pipe(Told),
         con'[c] \in ClientConnection, con'[c].cb = "put" => con'[c].version \in Version,
         \A d \in Conn : d # c => c2s'[d] = c2s[d] /\ s2c'[d] = s2c[d] /\ con'[d] = con[d],
         DOMAIN prog' = Client /\ DOMAIN m_files' = Client /\ DOMAIN shown' = Client,
         DOMAIN tmp' = Client /\ DOMAIN got' = Client,
         Linked', \A k \in Client : ProgramOK(k)'
  PROVE  TypeInv'
<1>1. srv' = srv /\ disk' = disk /\ folder' = folder /\ fate' = fate
  BY DEF serverVars
<1>2. FlowOK(c) /\ DfsShape /\ PartsStay
  BY <1>1, DisksKept, Zenon DEF TypeInv
<1>3. FlowOK(c)'
  BY <1>1, <1>2, FlowKept, Zenon DEF FlowOK
<1>4. \A d \in Conn : FlowOK(d)'
  BY <1>1, <1>2, <1>3, OneFlow, Zenon
<1>5. DfsShape'
  BY <1>1, <1>2, Zenon DEF DfsShape
<1>. QED BY <1>4, <1>5, Zenon DEF TypeInv

(* The same, when the programs and their files stay as they are.           *)
LEMMA ConnectionStepType ==
  ASSUME TypeInv, NEW c \in Conn, UNCHANGED serverVars, UNCHANGED <<prog, clientFiles>>,
         DOMAIN c2s' = Conn, DOMAIN s2c' = Conn, net' \in [Conn -> NetState],
         c2s'[c] \in Pipe(Written), s2c'[c] \in Pipe(Told),
         con[c].loop,
         NEW q \in ClientConnection, q.cb \in {"none", con[c].cb}, q.cb = "put" => q.version \in Version,
         con' = [con EXCEPT ![c] = q],
         \A d \in Conn : d # c => c2s'[d] = c2s[d] /\ s2c'[d] = s2c[d]
  PROVE  TypeInv'
<1>1. prog' = prog /\ m_files' = m_files /\ shown' = shown /\ tmp' = tmp /\ got' = got /\ disk' = disk
  BY DEF clientFiles, serverVars
<1>2. \A k \in Client : ProgramOK(k)'
  BY <1>1, DisksKept, ProgramsKept
<1>3. DOMAIN con' = Conn /\ con'[c] = q /\ \A d \in Conn : d # c => con'[d] = con[d]
  BY DEF TypeInv, DfsShape
<1>4. DOMAIN prog' = Client /\ DOMAIN m_files' = Client /\ DOMAIN shown' = Client
      /\ DOMAIN tmp' = Client /\ DOMAIN got' = Client
  BY <1>1, Zenon DEF TypeInv, DfsShape
<1>5. Linked'
  BY <1>1, <1>3, Zenon DEF TypeInv, Linked
<1>. QED BY <1>2, <1>3, <1>4, <1>5, ClientStepType

(* The end of a client process: everything it held is fresh again.         *)
LEMMA FreshCon ==
  NewConnection \in ClientConnection /\ NewConnection.cb = "none" /\ ~NewConnection.loop
<1>1. PICK zero : zero = 0 /\ zero \in 0..3
  OBVIOUS
<1>2. <<>> \in Seq(Told) /\ <<>> \in Seq(Seq(Written))
  BY EmptySeq
<1>. QED BY <1>1, <1>2 DEF NewConnection, ClientConnection

LEMMA ProgramType ==
  ASSUME NEW life \in {"new", "up", "gone", "killed"}
  PROVE  /\ [IdleProgram EXCEPT !.life = life] \in Program
         /\ [IdleProgram EXCEPT !.life = life].cmd = "none"
<1>1. PICK zero : zero = 0 /\ zero \in 0..4 /\ zero \in Number \cup {0} /\ zero \in Nat
  OBVIOUS
<1>. QED BY <1>1 DEF IdleProgram, Program

LEMMA ClientDiesType ==
  ASSUME TypeInv, NEW k \in Client, NEW how \in {"gone", "killed"}, NEW unread,
         ClientDies(k, how, unread), UNCHANGED serverVars
  PROVE  TypeInv'
<1> DEFINE C == {k} \X Server
           P == [IdleProgram EXCEPT !.life = how]
<1>0. disk' = disk /\ srv' = srv /\ folder' = folder /\ fate' = fate /\ m_files' = m_files
      /\ shown' = shown /\ tmp' = tmp /\ got' = got
  BY DEF ClientDies, clientFiles, serverVars
<1>1. PartsStay /\ DfsShape
  BY <1>0, DisksKept, Zenon DEF TypeInv
<1>2. ASSUME NEW c \in Conn PROVE FlowOK(c)'
  <2>1. FlowOK(c)
    BY Zenon DEF TypeInv
  <2>2. s2c'[c] \in Pipe(Told)
    <3>1. s2c'[c] = IF c \in C THEN Empty ELSE s2c[c]
      BY Zenon DEF ClientDies
    <3>. QED BY <2>1, <3>1, EmptyType, Zenon DEF FlowOK
  <2>3. c2s'[c] \in Pipe(Written)
    <3>1. c2s'[c] \in {Empty, Ended(c2s[c]), c2s[c]}
      BY DEF ClientDies
    <3>2. Ended(c2s[c]) \in Pipe(Written) /\ Empty \in Pipe(Written)
      BY <2>1, EndedType, EmptyType, Zenon DEF FlowOK
    <3>. QED BY <2>1, <3>1, <3>2 DEF FlowOK
  <2>4. con'[c] = NewConnection \/ con'[c] = con[c]
    BY DEF ClientDies
  <2>5. con'[c] \in ClientConnection /\ (con'[c].cb = "put" => con'[c].version \in Version)
    <3>1. "none" # "put"
      OBVIOUS
    <3>. QED BY <2>1, <2>4, <3>1, FreshCon, Zenon DEF FlowOK
  <2>6. srv'[c] = srv[c]
    BY <1>0
  <2>. QED BY <1>1, <2>1, <2>2, <2>3, <2>5, <2>6, FlowKept, Zenon DEF FlowOK
<1>3. ASSUME NEW j \in Client PROVE ProgramOK(j)'
  <2>1. ProgramOK(j)
    BY Zenon DEF TypeInv
  <2>2. CASE j # k
    <3>1. prog'[j] = prog[j]
      BY <1>1, <2>2, Zenon DEF ClientDies, DfsShape
    <3>. QED BY <1>0, <1>1, <2>1, <3>1, ProgramKept, Zenon
  <2>3. CASE j = k
    <3>1. prog'[j] = P
      BY <1>1, <2>3, Zenon DEF ClientDies, DfsShape
    <3>2. P \in Program /\ P.cmd # "get"
      BY ProgramType
    <3>. HIDE DEF P
    <3>3. m_files'[j] \subseteq Told'
      BY <1>0, <1>1, <2>1, ToldGrows, Zenon DEF ProgramOK
    <3>4. CompleteOK(j)'
      BY <1>0, <1>1, <2>1, CompleteKept, Zenon DEF ProgramOK
    <3>. QED BY <1>0, <2>1, <3>1, <3>2, <3>3, <3>4, Zenon DEF ProgramOK, PartFiles, PartFile, Program
  <2>. QED BY <2>2, <2>3
<1>4. DOMAIN c2s' = Conn /\ DOMAIN s2c' = Conn /\ DOMAIN con' = Conn /\ DOMAIN prog' = Client
  BY <1>1 DEF ClientDies, DfsShape
<1>5. net' \in [Conn -> NetState]
  BY <1>1 DEF DfsShape, ClientDies, NetAfterDeath, NetState
<1>6. DfsShape'
  BY <1>0, <1>1, <1>4, <1>5, Zenon DEF DfsShape
<1>7. Linked'
  <2>1. ASSUME NEW c \in Conn, con'[c].loop PROVE con'[c] = con[c] /\ prog'[c[1]] = prog[c[1]]
    <3>1. c \notin C /\ con'[c] = con[c]
      BY <2>1, FreshCon DEF ClientDies
    <3>2. c[1] # k /\ c[1] \in Client
      BY <3>1 DEF Conn
    <3>3. prog' = [prog EXCEPT ![k] = P] /\ DOMAIN prog = Client
      BY <1>1, Zenon DEF ClientDies, DfsShape
    <3>. QED BY <3>1, <3>2, <3>3, Zenon
  <2>. QED BY <2>1, Zenon DEF TypeInv, Linked
<1>. QED BY <1>2, <1>3, <1>6, <1>7, Zenon DEF TypeInv

-----------------------------------------------------------------------------
(* The event loop, but for the callbacks of a read.                        *)
LEMMA LoopStillType ==
  ASSUME TypeInv, NEW c \in Conn, UNCHANGED serverVars, ConnectError(c) \/ ClientEof(c) \/ LoopExit(c)
  PROVE  TypeInv'
<1>1. FlowOK(c) /\ DfsShape
  BY Zenon DEF TypeInv
<1>2. PICK q \in ClientConnection :
        /\ con' = [con EXCEPT ![c] = q] /\ q.cb = con[c].cb
        /\ q.cb = "put" => q.version \in Version
  <2>1. CASE ConnectError(c)
    <3>. DEFINE q == [con[c] EXCEPT !.rd = FALSE, !.wr = FALSE]
    <3>1. con' = [con EXCEPT ![c].rd = FALSE, ![c].wr = FALSE]
      BY <2>1 DEF ConnectError
    <3>2. con' = [con EXCEPT ![c] = q]
      BY <1>1, <3>1 DEF DfsShape
    <3>3. q \in ClientConnection /\ q.cb = con[c].cb /\ (q.cb = "put" => q.version \in Version)
      BY <1>1 DEF FlowOK, ClientConnection
    <3>. QED BY <3>2, <3>3, Zenon
  <2>2. CASE ClientEof(c)
    <3>. DEFINE q == [con[c] EXCEPT !.rd = FALSE, !.m_connected = FALSE]
    <3>1. con' = [con EXCEPT ![c].rd = FALSE, ![c].m_connected = FALSE]
      BY <2>2 DEF ClientEof
    <3>2. con' = [con EXCEPT ![c] = q]
      BY <1>1, <3>1 DEF DfsShape
    <3>3. q \in ClientConnection /\ q.cb = con[c].cb /\ (q.cb = "put" => q.version \in Version)
      BY <1>1 DEF FlowOK, ClientConnection
    <3>. QED BY <3>2, <3>3, Zenon
  <2>3. CASE LoopExit(c)
    <3>. DEFINE q == [con[c] EXCEPT !.loop = FALSE]
    <3>1. con' = [con EXCEPT ![c].loop = FALSE]
      BY <2>3 DEF LoopExit
    <3>2. con' = [con EXCEPT ![c] = q]
      BY <1>1, <3>1 DEF DfsShape
    <3>3. q \in ClientConnection /\ q.cb = con[c].cb /\ (q.cb = "put" => q.version \in Version)
      BY <1>1 DEF FlowOK, ClientConnection
    <3>. QED BY <3>2, <3>3, Zenon
  <2>. QED BY <2>1, <2>2, <2>3, Zenon
<1>3. net' \in [Conn -> NetState]
  BY <1>1 DEF ConnectError, ClientEof, LoopExit, netVars, DfsShape, NetState
<1>4. c2s' = c2s /\ s2c' = s2c /\ con[c].loop /\ UNCHANGED <<prog, clientFiles>>
  BY DEF ConnectError, ClientEof, LoopExit, netVars
<1>5. c2s'[c] \in Pipe(Written) /\ s2c'[c] \in Pipe(Told) /\ DOMAIN c2s' = Conn /\ DOMAIN s2c' = Conn
  BY <1>1, <1>4, Zenon DEF FlowOK, DfsShape
<1>6. q.cb \in {"none", con[c].cb}
  BY <1>2
<1>7. \A d \in Conn : d # c => c2s'[d] = c2s[d] /\ s2c'[d] = s2c[d]
  BY <1>4, Zenon
<1>. QED BY <1>2, <1>3, <1>4, <1>5, <1>6, <1>7, ConnectionStepType
LEMMA ClientWriteType ==
  ASSUME TypeInv, NEW c \in Conn, ClientWrite(c), UNCHANGED serverVars
  PROVE  TypeInv'
<1> DEFINE out  == con[c].out
           rest == Tail(out)
           on   == ~(con[c].wcb /\ rest = <<>>)
           q    == [con[c] EXCEPT !.out = rest, !.loop = on]
           qR   == [con[c] EXCEPT !.wr = FALSE]
<1>0. FlowOK(c) /\ DfsShape
  BY Zenon DEF TypeInv
<1>1. out # <<>> /\ out \in Seq(Seq(Written))
  BY <1>0 DEF ClientWrite, FlowOK, ClientConnection
<1>2. rest \in Seq(Seq(Written)) /\ Head(out) \in Seq(Written)
  BY <1>1, HeadTailProperties
<1>3. CASE ClientDies(c[1], "killed", s2c)
  BY <1>3, ClientDiesType DEF Conn
<1>4. CASE ~ClientDies(c[1], "killed", s2c)
  <2>. DEFINE wrote == con' = [con EXCEPT ![c].out = rest, ![c].loop = on]
  <2>1. /\ wrote \/ con' = [con EXCEPT ![c].wr = FALSE]
        /\ \/ c2s' = c2s
           \/ \E last : c2s' = [c2s EXCEPT ![c] = Sent(@, Head(out), last)]
        /\ s2c' = s2c /\ con[c].loop /\ UNCHANGED <<prog, clientFiles>>
        /\ net' = net \/ Swallowed(c)
    BY <1>4, Zenon DEF ClientWrite, netVars
  <2>2. \/ con' = [con EXCEPT ![c] = q]
        \/ con' = [con EXCEPT ![c] = qR]
    <3>. HIDE DEF rest, on
    <3>. QED BY <1>0, <2>1 DEF DfsShape
  <2>3. q \in ClientConnection /\ q.cb = con[c].cb /\ (q.cb = "put" => q.version \in Version)
    <3>1. on \in BOOLEAN
      OBVIOUS
    <3>. HIDE DEF rest, on
    <3>. QED BY <1>0, <1>2, <3>1 DEF FlowOK, ClientConnection
  <2>4. qR \in ClientConnection /\ qR.cb = con[c].cb /\ (qR.cb = "put" => qR.version \in Version)
    BY <1>0 DEF FlowOK, ClientConnection
  <2>. HIDE DEF q, qR, out, rest
  <2>5. c2s'[c] \in Pipe(Written) /\ s2c'[c] \in Pipe(Told)
    <3>1. c2s'[c] = c2s[c] \/ \E last : c2s'[c] = Sent(c2s[c], Head(out), last)
      BY <1>0, <2>1, Zenon DEF DfsShape
    <3>. QED BY <1>0, <1>2, <2>1, <3>1, SentType DEF FlowOK
  <2>6. DOMAIN c2s' = Conn /\ DOMAIN s2c' = Conn /\ \A d \in Conn : d # c => c2s'[d] = c2s[d] /\ s2c'[d] = s2c[d]
    BY <1>0, <2>1, Zenon DEF DfsShape
  <2>7. net' \in [Conn -> NetState]
    BY <1>0, <2>1 DEF DfsShape, Swallowed, NetState
  <2>8. CASE con' = [con EXCEPT ![c] = q]
    BY <2>1, <2>3, <2>5, <2>6, <2>7, <2>8, ConnectionStepType
  <2>9. CASE con' = [con EXCEPT ![c] = qR]
    BY <2>1, <2>4, <2>5, <2>6, <2>7, <2>9, ConnectionStepType
  <2>. QED BY <2>2, <2>8, <2>9
<1>. QED BY <1>3, <1>4

-----------------------------------------------------------------------------
(* The callbacks of a read, on a connection with what was read.            *)
LEMMA JoinedCon ==
  ASSUME TypeInv, NEW c \in Conn, NEW n \in s2c[c].cuts,
         NEW q, q = [con[c] EXCEPT !.inp = con[c].inp \o Take(s2c[c].data, n)]
  PROVE  /\ q \in ClientConnection
         /\ q.cb = con[c].cb /\ q.version = con[c].version /\ q.out = con[c].out
         /\ q.inp = con[c].inp \o Take(s2c[c].data, n)
         /\ q.cb = "put" => q.version \in Version
<1>1. FlowOK(c)
  BY Zenon DEF TypeInv
<1>2. Take(s2c[c].data, n) \in Seq(Told)
  BY <1>1, ReceivedType DEF FlowOK
<1>. DEFINE b == con[c].inp \o Take(s2c[c].data, n)
<1>3. b \in Seq(Told)
  BY <1>1, <1>2, ConcatProperties DEF FlowOK, ClientConnection
<1>. HIDE DEF b
<1>4. q = [con[c] EXCEPT !.inp = b]
  BY DEF b
<1>5. /\ q \in ClientConnection
      /\ q.cb = con[c].cb /\ q.version = con[c].version /\ q.out = con[c].out /\ q.inp = b
  BY <1>1, <1>3, <1>4 DEF FlowOK, ClientConnection
<1>. QED BY <1>1, <1>5, Zenon DEF FlowOK, b

LEMMA PutCallbackType ==
  ASSUME TypeInv, NEW c \in Conn, NEW q \in ClientConnection, q.cb = "put",
         q.version \in Version, q.version = con[c].version, Connection_callback_put(c, q)
  PROVE  \E r \in ClientConnection :
           /\ con' = [con EXCEPT ![c] = r] /\ r.cb \in {"none", "put"}
           /\ r.cb = "put" => r.version \in Version
<1>1. q.inp \in Seq(Told) /\ q.out \in Seq(Seq(Written))
  BY DEF ClientConnection
<1>2. CASE ~HasLine(q.inp)
  <2>1. con' = [con EXCEPT ![c] = q]
    BY <1>2, Zenon DEF Connection_callback_put
  <2>. QED BY <2>1
<1>3. CASE HasLine(q.inp)
  <2>. DEFINE rest == AfterLine(q.inp)
  <2>1. rest \in Seq(Told)
    BY <1>1, <1>3, LineType
  <2>2. CASE LineOf(q.inp) # <<Ready>>
    <3>. DEFINE r == [q EXCEPT !.inp = rest, !.cb = "none"]
    <3>1. con' = [con EXCEPT ![c] = r]
      BY <1>3, <2>2, Zenon DEF Connection_callback_put
    <3>. HIDE DEF rest
    <3>2. r \in ClientConnection /\ r.cb = "none"
      BY <2>1 DEF ClientConnection
    <3>. QED BY <3>1, <3>2, Zenon
  <2>3. CASE LineOf(q.inp) = <<Ready>>
    <3>. DEFINE out == q.out \o Upload(c)
                r == [q EXCEPT !.inp = rest, !.cb = "none", !.wcb = TRUE, !.out = out]
    <3>1. con' = [con EXCEPT ![c] = r]
      BY <1>3, <2>3, Zenon DEF Connection_callback_put, Uploading
    <3>2. Upload(c) \in Seq(Seq(Written))
      BY UploadType
    <3>3. out \in Seq(Seq(Written))
      BY <1>1, <3>2, ConcatProperties
    <3>. HIDE DEF rest, out
    <3>4. r \in ClientConnection /\ r.cb = "none"
      BY <2>1, <3>3 DEF ClientConnection
    <3>. QED BY <3>1, <3>4, Zenon
  <2>. QED BY <2>2, <2>3
<1>. QED BY <1>2, <1>3

(* What LIST collects is an entry of a stored part, or the refusal.        *)
ListTakes(c, q) ==
  \E r \in ClientConnection :
    /\ con' = [con EXCEPT ![c] = r] /\ r.cb = "list"
    /\ \E n \in Nat, b \in BOOLEAN : r = [q EXCEPT !.inp = Drop(q.inp, n), !.loop = b]

LEMMA ListCallbackType ==
  ASSUME TypeInv, NEW c \in Conn, NEW q \in ClientConnection, q.cb = "list",
         Connection_callback_list(c, q)
  PROVE  /\ ListTakes(c, q)
         /\ \E l : m_files' = [m_files EXCEPT ![c[1]] = @ \cup l] /\ l \subseteq Told
<1> DEFINE ends  == LineEnds(q.inp)
           dones == { e \in ends : LineBefore(q.inp, e) = <<Terminal>> }
           upto  == IF dones # {} THEN Min(dones) ELSE IF ends # {} THEN Max(ends) ELSE 0
           lines == { LineBefore(q.inp, e) : e \in { m \in ends : m <= upto } }
           l     == { t \in { x[1] : x \in { m \in lines : Len(m) = 1 } } :
                        t.k \in {"entry", "INVALID_CREDENTIALS"} }
           on    == dones = {}
           rest  == Drop(q.inp, upto)
           r     == [q EXCEPT !.inp = rest, !.loop = on]
<1>1. q.inp \in Seq(Told) /\ Len(q.inp) \in Nat
  BY LenProperties DEF ClientConnection
<1>2. upto \in Nat
  <2>1. ends \subseteq 0..Len(q.inp) /\ dones \subseteq 0..Len(q.inp)
    BY <1>1 DEF LineEnds
  <2>. HIDE DEF ends, dones
  <2>2. dones # {} => Min(dones) \in dones
    BY <1>1, <2>1, MaxMin, Zenon
  <2>3. ends # {} => Max(ends) \in ends
    BY <1>1, <2>1, MaxMin, Zenon
  <2>4. CASE dones # {}
    <3>1. upto = Min(dones) /\ Min(dones) \in 0..Len(q.inp)
      BY <2>1, <2>2, <2>4, Zenon
    <3>. HIDE DEF upto
    <3>. QED BY <1>1, <3>1
  <2>5. CASE dones = {} /\ ends # {}
    <3>1. upto = Max(ends) /\ Max(ends) \in 0..Len(q.inp)
      BY <2>1, <2>3, <2>5, Zenon
    <3>. HIDE DEF upto
    <3>. QED BY <1>1, <3>1
  <2>6. CASE dones = {} /\ ends = {}
    BY <2>6
  <2>. QED BY <2>4, <2>5, <2>6
<1>3. con' = [con EXCEPT ![c] = r] /\ m_files' = [m_files EXCEPT ![c[1]] = @ \cup l]
  BY Zenon DEF Connection_callback_list
<1>4. l \subseteq Told
  <2>1. ASSUME NEW x \in lines, Len(x) = 1 PROVE x[1] \in Told
    <3>1. PICK e \in ends : x = LineBefore(q.inp, e)
      BY <2>1, Zenon
    <3>2. x \in Seq(Told)
      <4>1. x \in Seq(Readings(Told))
        BY <1>1, <3>1, LineBeforeType
      <4>. QED BY <4>1, ToldReadings, SeqMonotonic
    <3>3. 1 \in 1..Len(x)
      BY <2>1
    <3>. QED BY <3>2, <3>3, ElementOfSeq, Zenon
  <2>. HIDE DEF lines
  <2>. QED BY <2>1
<1>5. r \in ClientConnection /\ r.cb = "list"
  <2>1. rest \in Seq(Told) /\ on \in BOOLEAN
    BY <1>1, <1>2, TakeDropType
  <2>. HIDE DEF rest, on
  <2>. QED BY <2>1 DEF ClientConnection
<1>6. \E n \in Nat, b \in BOOLEAN : r = [q EXCEPT !.inp = Drop(q.inp, n), !.loop = b]
  <2>1. on \in BOOLEAN
    OBVIOUS
  <2>. HIDE DEF on, upto
  <2>. QED BY <1>2, <2>1
<1>. HIDE DEF l, r
<1>7. con' = [con EXCEPT ![c] = r]
  BY <1>3
<1>8. ListTakes(c, q)
  BY <1>5, <1>6, <1>7, Zenon DEF ListTakes
<1>. QED BY <1>3, <1>4, <1>8, Zenon

(* GET ends its rounds with part of the input read, and the files it has.  *)
LEMMA GetCallbackType ==
  ASSUME TypeInv, NEW c \in Conn, NEW q \in ClientConnection, prog[c[1]].cmd = "get",
         Connection_callback_get(c, q)
  PROVE  LET k == c[1]
             f == Path(prog[k].file)
         IN \E h \in GetRun(q) :
              /\ con' = [con EXCEPT ![c] = [h.q EXCEPT !.loop = (h.go # "break")]]
              /\ prog' = [prog EXCEPT ![k].partnum = h.partnum, ![k].size = h.size]
              /\ tmp' = [tmp EXCEPT ![k][f] = h.tmp]
              /\ got' = [got EXCEPT ![k][f] = h.got]
              /\ UNCHANGED <<m_files, shown>>
<1> DEFINE k == c[1]
           f == Path(prog[k].file)
           start == [ q |-> q, partnum |-> prog[k].partnum, size |-> prog[k].size,
                      tmp |-> tmp[k][f], got |-> got[k][f], go |-> "on" ]
<1>1. ProgramOK(k) /\ f \in File
  <2>1. k \in Client
    BY DEF Conn
  <2>. QED BY <2>1, ChannelAssumption, Zenon DEF TypeInv, ProgramOK
<1>2. start \in GetRun(q)
  <2>1. /\ prog[k].partnum \in Number \cup {0} /\ prog[k].size \in Nat
        /\ tmp[k][f] \in PartFiles /\ got[k][f] \in PartFile
    BY <1>1 DEF ProgramOK, Program
  <2>2. q \in Rest(q)
    BY RestStarts
  <2>. DEFINE a == prog[k].partnum
              b == prog[k].size
              t == tmp[k][f]
              g == got[k][f]
  <2>. HIDE DEF a, b, t, g
  <2>3. [q |-> q, partnum |-> a, size |-> b, tmp |-> t, got |-> g, go |-> "on"] \in GetRun(q)
    BY <2>1, <2>2 DEF GetRun, a, b, t, g
  <2>. QED BY <2>3 DEF a, b, t, g
<1>3. 2 * Len(q.inp) + 2 \in Nat
  BY LenProperties DEF ClientConnection
<1>. HIDE DEF start
<1>4. \A h \in GetRun(q) : GetRound(h, f) \in GetRun(q)
  BY GetRoundType
<1>5. Rounds(start, f)[2 * Len(q.inp) + 2] \subseteq GetRun(q)
  <2>. DEFINE R == GetRun(q)
  <2>1. start \in R /\ \A h \in R : GetRound(h, f) \in R
    BY <1>2, <1>4
  <2>. HIDE DEF R, f
  <2>2. \A n \in Nat : Rounds(start, f)[n] \subseteq R
    BY <2>1, RoundsStay
  <2>. QED BY <1>3, <2>2, Zenon DEF R
<1>6. \E h \in Rounds(start, f)[2 * Len(q.inp) + 2] :
        /\ con' = [con EXCEPT ![c] = [h.q EXCEPT !.loop = (h.go # "break")]]
        /\ prog' = [prog EXCEPT ![k].partnum = h.partnum, ![k].size = h.size]
        /\ tmp' = [tmp EXCEPT ![k][f] = h.tmp]
        /\ got' = [got EXCEPT ![k][f] = h.got]
        /\ UNCHANGED <<m_files, shown>>
  BY Zenon DEF Connection_callback_get, start
<1>. QED BY <1>5, <1>6, Zenon

LEMMA GetStepType ==
  ASSUME TypeInv, NEW c \in Conn, UNCHANGED serverVars, NEW q \in ClientConnection,
         q.cb = "get", con[c].cb = "get", con[c].loop, Connection_callback_get(c, q),
         DOMAIN c2s' = Conn, DOMAIN s2c' = Conn, net' \in [Conn -> NetState],
         c2s'[c] \in Pipe(Written), s2c'[c] \in Pipe(Told),
         \A d \in Conn : d # c => c2s'[d] = c2s[d] /\ s2c'[d] = s2c[d]
  PROVE  TypeInv'
<1> DEFINE k == c[1]
           f == Path(prog[k].file)
<1>0. DfsShape /\ Linked /\ k \in Client /\ prog[k].cmd = "get" /\ ProgramOK(k) /\ f \in File
  <2>1. k \in Client /\ prog[k].cmd = "get"
    BY DEF Conn, TypeInv, Linked
  <2>. QED BY <2>1, ChannelAssumption, Zenon DEF TypeInv, ProgramOK
<1>1. PICK h \in GetRun(q) :
        /\ con' = [con EXCEPT ![c] = [h.q EXCEPT !.loop = (h.go # "break")]]
        /\ prog' = [prog EXCEPT ![k].partnum = h.partnum, ![k].size = h.size]
        /\ tmp' = [tmp EXCEPT ![k][f] = h.tmp]
        /\ got' = [got EXCEPT ![k][f] = h.got]
        /\ m_files' = m_files /\ shown' = shown
  BY <1>0, GetCallbackType
<1>2. /\ h.q \in ClientConnection /\ h.q.cb = "get"
      /\ h.partnum \in Number \cup {0} /\ h.size \in Nat /\ h.tmp \in PartFiles /\ h.got \in PartFile
  <2>1. h.q \in Rest(q)
    BY DEF GetRun
  <2>. DEFINE b == h.q.inp
              st == h.q.m_get_state
  <2>2. h.q \in ClientConnection /\ h.q = [q EXCEPT !.inp = b, !.m_get_state = st]
    BY <2>1 DEF Rest
  <2>. HIDE DEF b, st
  <2>3. h.q.cb = q.cb
    BY <2>2 DEF ClientConnection
  <2>. QED BY <2>2, <2>3 DEF GetRun
<1>. DEFINE r == [h.q EXCEPT !.loop = (h.go # "break")]
            P == [prog[k] EXCEPT !.partnum = h.partnum, !.size = h.size]
<1>3. r \in ClientConnection /\ r.cb = "get"
  BY <1>2 DEF ClientConnection
<1>4. P \in Program /\ P.cmd = prog[k].cmd /\ P.file = prog[k].file /\ P.at = prog[k].at
  BY <1>0, <1>2 DEF ProgramOK, Program
<1>5. prog' = [prog EXCEPT ![k] = P]
  BY <1>0, <1>1 DEF DfsShape
<1>. HIDE DEF r, P, f, k
<1>6. PartsStay
  <2>1. disk' = disk
    BY DEF serverVars
  <2>. QED BY <2>1, DisksKept
<1>7. ASSUME NEW j \in Client PROVE ProgramOK(j)'
  <2>0. ProgramOK(j) /\ m_files'[j] = m_files[j] /\ shown'[j] = shown[j]
    BY <1>1, Zenon DEF TypeInv
  <2>1. CASE j # k
    <3>1. prog'[j] = prog[j] /\ tmp'[j] = tmp[j] /\ got'[j] = got[j]
      BY <1>0, <1>1, <1>5, <2>1, Zenon DEF DfsShape
    <3>. QED BY <1>6, <2>0, <3>1, ProgramKept, Zenon
  <2>2. CASE j = k
    <3>1. /\ DOMAIN tmp'[j] = File /\ DOMAIN got'[j] = File
          /\ \A g \in File : tmp'[j][g] \in PartFiles /\ got'[j][g] \in PartFile
      <4>. HIDE DEF PartFiles, PartFile
      <4>. QED BY <1>0, <1>1, <1>2, <2>0, <2>2 DEF DfsShape, ProgramOK
    <3>2. prog'[j] = P
      BY <1>0, <1>5, <2>2, Zenon DEF DfsShape
    <3>3. m_files'[j] \subseteq Told'
      BY <1>6, <2>0, ToldGrows, Zenon DEF ProgramOK
    <3>4. CompleteOK(j)'
      BY <1>6, <2>0, CompleteKept, Zenon DEF ProgramOK
    <3>5. prog'[j] \in Program /\ (prog'[j].cmd = "get" => prog'[j].file \in File /\ prog'[j].at \in Server)
      BY <1>0, <1>4, <2>0, <2>2, <3>2, Zenon DEF ProgramOK
    <3>. QED BY <3>1, <3>3, <3>4, <3>5, Zenon DEF ProgramOK, PartFiles, PartFile, Program
  <2>. QED BY <2>1, <2>2
<1>8. Linked'
  <2>1. con' = [con EXCEPT ![c] = r]
    BY <1>1 DEF r
  <2>2. \A j \in Client : prog'[j].cmd = prog[j].cmd
    BY <1>0, <1>4, <1>5, Zenon DEF DfsShape
  <2>3. ASSUME NEW d \in Conn, con'[d].loop
        PROVE  prog'[d[1]].cmd # "none" /\ con'[d].cb \in {"none", prog'[d[1]].cmd}
    <3>1. d[1] \in Client /\ prog'[d[1]].cmd = prog[d[1]].cmd
      BY <2>2 DEF Conn
    <3>2. CASE d = c
      <4>1. con'[d].cb = "get" /\ prog[d[1]].cmd = "get"
        BY <1>0, <1>3, <2>1, <3>2 DEF DfsShape, k
      <4>. QED BY <3>1, <4>1
    <3>3. CASE d # c
      <4>1. con'[d] = con[d]
        BY <1>0, <2>1, <3>3 DEF DfsShape
      <4>. QED BY <1>0, <2>3, <3>1, <4>1, Zenon DEF Linked
    <3>. QED BY <3>2, <3>3
  <2>. QED BY <2>3, Zenon DEF Linked
<1>9. /\ DOMAIN con' = Conn /\ con'[c] = r /\ \A d \in Conn : d # c => con'[d] = con[d]
      /\ DOMAIN prog' = Client /\ DOMAIN m_files' = Client /\ DOMAIN shown' = Client
      /\ DOMAIN tmp' = Client /\ DOMAIN got' = Client
  BY <1>0, <1>1 DEF DfsShape, r
<1>. QED BY <1>3, <1>7, <1>8, <1>9, ClientStepType
LEMMA ListStepType ==
  ASSUME TypeInv, NEW c \in Conn, UNCHANGED serverVars, NEW q \in ClientConnection,
         q.cb = "list", con[c].cb = "list", con[c].loop, Connection_callback_list(c, q),
         DOMAIN c2s' = Conn, DOMAIN s2c' = Conn, net' \in [Conn -> NetState],
         c2s'[c] \in Pipe(Written), s2c'[c] \in Pipe(Told),
         \A d \in Conn : d # c => c2s'[d] = c2s[d] /\ s2c'[d] = s2c[d]
  PROVE  TypeInv'
<1> DEFINE k == c[1]
<1>0. DfsShape /\ Linked /\ k \in Client
  BY DEF TypeInv, Conn
<1>1. PICK r \in ClientConnection : con' = [con EXCEPT ![c] = r] /\ r.cb = "list"
  BY ListCallbackType, Zenon DEF ListTakes
<1>2. PICK l : m_files' = [m_files EXCEPT ![k] = @ \cup l] /\ l \subseteq Told
  BY ListCallbackType, Zenon
<1>3. prog' = prog /\ shown' = shown /\ tmp' = tmp /\ got' = got
  BY DEF Connection_callback_list
<1>4. PartsStay
  <2>1. disk' = disk
    BY DEF serverVars
  <2>. QED BY <2>1, DisksKept
<1>. HIDE DEF k
<1>5. ASSUME NEW j \in Client PROVE ProgramOK(j)'
  <2>1. ProgramOK(j)
    BY Zenon DEF TypeInv
  <2>2. m_files'[j] \subseteq Told
    <3>1. m_files'[j] = m_files[j] \/ m_files'[j] = m_files[j] \cup l
      BY <1>0, <1>2, Zenon DEF DfsShape
    <3>. QED BY <1>2, <2>1, <3>1, Zenon DEF ProgramOK
  <2>3. m_files'[j] \subseteq Told'
    BY <1>4, <2>2, ToldGrows, Zenon
  <2>4. CompleteOK(j)'
    <3>1. m_files[j] \subseteq m_files'[j]
      BY <1>0, <1>2, Zenon DEF DfsShape
    <3>. QED BY <1>3, <1>4, <2>1, <3>1, CompleteKept, Zenon DEF ProgramOK
  <2>. QED BY <1>3, <2>1, <2>3, <2>4, Zenon DEF ProgramOK, PartFiles, PartFile, Program
<1>6. /\ DOMAIN con' = Conn /\ con'[c] = r /\ (\A d \in Conn : d # c => con'[d] = con[d])
      /\ DOMAIN prog' = Client /\ DOMAIN m_files' = Client /\ DOMAIN shown' = Client
      /\ DOMAIN tmp' = Client /\ DOMAIN got' = Client
  BY <1>0, <1>1, <1>2, <1>3 DEF DfsShape
<1>7. Linked'
  <2>1. ASSUME NEW d \in Conn, con'[d].loop
        PROVE  prog'[d[1]].cmd # "none" /\ con'[d].cb \in {"none", prog'[d[1]].cmd}
    <3>1. con[d].loop /\ con'[d].cb = con[d].cb
      BY <1>1, <1>6, <2>1, Zenon
    <3>. QED BY <1>0, <1>3, <3>1, Zenon DEF Linked
  <2>. QED BY <2>1, Zenon DEF Linked
<1>. QED BY <1>1, <1>5, <1>6, <1>7, ClientStepType

LEMMA ClientReadType ==
  ASSUME TypeInv, NEW c \in Conn, ClientRead(c), UNCHANGED serverVars
  PROVE  TypeInv'
<1> DEFINE Joined(n) == [con[c] EXCEPT !.inp = @ \o Take(s2c[c].data, n)]
<1>0. FlowOK(c) /\ DfsShape /\ con[c].loop
  BY Zenon DEF TypeInv, ClientRead
<1>1. PICK n \in s2c[c].cuts : \E q \in {Joined(n)} :
        /\ s2c' = [s2c EXCEPT ![c] = Received(@, n)]
        /\ UNCHANGED <<c2s, net>>
        /\ \/ q.cb = "none" /\ con' = [con EXCEPT ![c] = q] /\ UNCHANGED <<prog, clientFiles>>
           \/ q.cb = "put" /\ Connection_callback_put(c, q)
           \/ q.cb = "list" /\ Connection_callback_list(c, q)
           \/ q.cb = "get" /\ Connection_callback_get(c, q)
  <2>. HIDE DEF Joined
  <2>. QED BY Zenon DEF ClientRead, Joined
<1>2. PICK q : 
        /\ q = [con[c] EXCEPT !.inp = con[c].inp \o Take(s2c[c].data, n)]
        /\ s2c' = [s2c EXCEPT ![c] = Received(@, n)]
        /\ c2s' = c2s /\ net' = net
        /\ \/ q.cb = "none" /\ con' = [con EXCEPT ![c] = q] /\ UNCHANGED <<prog, clientFiles>>
           \/ q.cb = "put" /\ Connection_callback_put(c, q)
           \/ q.cb = "list" /\ Connection_callback_list(c, q)
           \/ q.cb = "get" /\ Connection_callback_get(c, q)
  BY <1>1
<1>. HIDE DEF Joined
<1>3. /\ q \in ClientConnection /\ q.cb = con[c].cb /\ q.version = con[c].version
      /\ q.cb = "put" => q.version \in Version
  BY <1>2, JoinedCon
<1>4. /\ c2s'[c] \in Pipe(Written) /\ s2c'[c] \in Pipe(Told)
      /\ DOMAIN c2s' = Conn /\ DOMAIN s2c' = Conn /\ net' \in [Conn -> NetState]
  <2>1. s2c'[c] = Received(s2c[c], n) /\ DOMAIN s2c' = Conn
    BY <1>0, <1>2, Zenon DEF DfsShape
  <2>2. s2c'[c] \in Pipe(Told)
    BY <1>0, <2>1, ReceivedType DEF FlowOK
  <2>. QED BY <1>0, <1>2, <2>1, <2>2, Zenon DEF FlowOK, DfsShape
<1>5. \A d \in Conn : d # c => c2s'[d] = c2s[d] /\ s2c'[d] = s2c[d]
  BY <1>0, <1>2, Zenon DEF DfsShape
<1>6. CASE q.cb = "none" /\ con' = [con EXCEPT ![c] = q] /\ UNCHANGED <<prog, clientFiles>>
  <2>1. q.cb \in {"none", con[c].cb}
    BY <1>6
  <2>. QED BY <1>0, <1>3, <1>4, <1>5, <1>6, <2>1, ConnectionStepType
<1>7. CASE q.cb = "put" /\ Connection_callback_put(c, q)
  <2>1. PICK r \in ClientConnection :
          /\ con' = [con EXCEPT ![c] = r] /\ r.cb \in {"none", "put"}
          /\ r.cb = "put" => r.version \in Version
    BY <1>3, <1>7, PutCallbackType
  <2>2. UNCHANGED <<prog, clientFiles>> /\ r.cb \in {"none", con[c].cb}
    BY <1>3, <1>7, <2>1 DEF Connection_callback_put
  <2>. QED BY <1>0, <1>4, <1>5, <2>1, <2>2, ConnectionStepType
<1>8. CASE q.cb = "list" /\ Connection_callback_list(c, q)
  <2>1. con[c].cb = "list"
    BY <1>3, <1>8
  <2>. QED BY <1>0, <1>3, <1>4, <1>5, <1>8, <2>1, ListStepType
<1>9. CASE q.cb = "get" /\ Connection_callback_get(c, q)
  <2>1. con[c].cb = "get"
    BY <1>3, <1>9
  <2>. QED BY <1>0, <1>3, <1>4, <1>5, <1>9, <2>1, GetStepType
<1>. QED BY <1>2, <1>6, <1>7, <1>8, <1>9, Zenon

LEMMA DispatchType ==
  ASSUME TypeInv, NEW c \in Conn, LoopStep(c), UNCHANGED serverVars
  PROVE  TypeInv'
BY LoopStillType, ClientWriteType, ClientReadType, Zenon DEF LoopStep
-----------------------------------------------------------------------------
(* The main program.                                                       *)
LEMMA MainStepType ==
  ASSUME TypeInv, NEW k \in Client, UNCHANGED serverVars, UNCHANGED <<c2s, s2c>>,
         net' \in [Conn -> NetState],
         DOMAIN con' = Conn, Linked',
         \A c \in Conn : /\ con'[c] \in ClientConnection
                         /\ con'[c].cb = "put" => con'[c].version \in Version,
         NEW P \in Program, P.cmd = "get" => P.file \in File /\ P.at \in Server,
         prog' = [prog EXCEPT ![k] = P],
         UNCHANGED <<m_files, tmp, got>>, DOMAIN shown' = Client,
         \A j \in Client : CompleteOK(j)'
  PROVE  TypeInv'
<1>0. /\ srv' = srv /\ disk' = disk /\ folder' = folder /\ fate' = fate /\ c2s' = c2s /\ s2c' = s2c
      /\ m_files' = m_files /\ tmp' = tmp /\ got' = got
  BY DEF serverVars
<1>1. DfsShape /\ PartsStay
  BY <1>0, DisksKept, Zenon DEF TypeInv
<1>2. ASSUME NEW c \in Conn PROVE FlowOK(c)'
  <2>1. FlowOK(c)
    BY Zenon DEF TypeInv
  <2>. QED BY <1>0, <1>1, <2>1, FlowKept, Zenon DEF FlowOK
<1>3. ASSUME NEW j \in Client PROVE ProgramOK(j)'
  <2>1. ProgramOK(j)
    BY Zenon DEF TypeInv
  <2>2. m_files'[j] \subseteq Told'
    BY <1>0, <1>1, <2>1, ToldGrows, Zenon DEF ProgramOK
  <2>3. CompleteOK(j)'
    OBVIOUS
  <2>4. /\ prog'[j] \in Program
        /\ prog'[j].cmd = "get" => prog'[j].file \in File /\ prog'[j].at \in Server
    <3>1. prog'[j] = IF j = k THEN P ELSE prog[j]
      BY <1>1, Zenon DEF DfsShape
    <3>. QED BY <2>1, <3>1, Zenon DEF ProgramOK
  <2>. QED BY <1>0, <2>1, <2>2, <2>3, <2>4, Zenon DEF ProgramOK, PartFiles, PartFile, Program
<1>4. DOMAIN prog' = Client
  BY <1>1, Zenon DEF DfsShape
<1>5. DfsShape'
  BY <1>0, <1>1, <1>4, Zenon DEF DfsShape
<1>. QED BY <1>2, <1>3, <1>5, Zenon DEF TypeInv

(* What LIST has shown stays true when neither disks nor listings change.  *)
LEMMA AllComplete ==
  ASSUME TypeInv, UNCHANGED serverVars, m_files' = m_files, shown' = shown
  PROVE  \A j \in Client : CompleteOK(j)'
<1>1. PartsStay
  BY DisksKept, Zenon DEF serverVars
<1>. QED BY <1>1, CompleteKept, Zenon DEF TypeInv, ProgramOK

(* A request on a connection.                                              *)
LEMMA RequestedType ==
  ASSUME TypeInv, NEW c \in Conn, NEW request \in Written, NEW cb \in {"put", "list", "get"}
  PROVE  LET q == Requested(c, request, cb) IN
         /\ q \in ClientConnection /\ q.version = con[c].version
         /\ ~con[c].m_connected => q = con[c]
         /\ con[c].m_connected => q.cb = cb /\ q.loop
<1> DEFINE out == Append(con[c].out, TextLine(request) \o TextLine(Auth(prog[c[1]].auth)))
           w   == con[c].wr \/ net[c] = "refused"
           q   == [con[c] EXCEPT !.out = out, !.cb = cb, !.wcb = FALSE, !.loop = TRUE, !.wr = w]
<1>0. con[c] \in ClientConnection
  BY Zenon DEF TypeInv, FlowOK
<1>1. CASE ~con[c].m_connected
  <2>1. Requested(c, request, cb) = con[c]
    BY <1>1, Zenon DEF Requested
  <2>. QED BY <1>0, <1>1, <2>1
<1>2. CASE con[c].m_connected
  <2>1. Requested(c, request, cb) = q
    BY <1>2, Zenon DEF Requested
  <2>2. Auth(prog[c[1]].auth) \in Written
    <3>1. c[1] \in Client
      BY DEF Conn
    <3>2. prog[c[1]].auth \in {"good", "bad", "short"}
      BY <3>1 DEF TypeInv, ProgramOK, Program
    <3>. QED BY <3>2, TokensWritten
  <2>3. TextLine(request) \o TextLine(Auth(prog[c[1]].auth)) \in Seq(Written)
    <3>1. TextLine(request) \in Seq(Written) /\ TextLine(Auth(prog[c[1]].auth)) \in Seq(Written)
      BY <2>2, TokensWritten, TextLineType, Zenon
    <3>. QED BY <3>1, ConcatProperties
  <2>4. out \in Seq(Seq(Written))
    <3>1. con[c].out \in Seq(Seq(Written))
      BY <1>0 DEF ClientConnection
    <3>. QED BY <2>3, <3>1, AppendProperties
  <2>5. w \in BOOLEAN
    OBVIOUS
  <2>. HIDE DEF out, w
  <2>6. q \in ClientConnection /\ q.version = con[c].version /\ q.cb = cb /\ q.loop
    BY <1>0, <2>4, <2>5 DEF ClientConnection
  <2>. HIDE DEF q
  <2>. QED BY <1>2, <2>1, <2>6
<1>. QED BY <1>1, <1>2

(* No loop runs between commands.                                          *)
LEMMA NoLoopIdle ==
  ASSUME TypeInv, NEW k \in Client, prog[k].cmd = "none"
  PROVE  \A c \in Conn : c[1] = k => ~con[c].loop
BY Zenon DEF TypeInv, Linked

(* A command starts: some connections of k get the callback cb.            *)
LEMMA LinkedStart ==
  ASSUME TypeInv, NEW k \in Client, NEW cb \in {"put", "list", "get"},
         DOMAIN prog' = Client, prog'[k].cmd = cb, \A j \in Client : j # k => prog'[j] = prog[j],
         \A c \in Conn : c[1] # k => con'[c] = con[c],
         \A c \in Conn : c[1] = k => ~con'[c].loop \/ con'[c].cb = cb
  PROVE  Linked'
<1>1. ASSUME NEW c \in Conn, con'[c].loop
      PROVE  prog'[c[1]].cmd # "none" /\ con'[c].cb \in {"none", prog'[c[1]].cmd}
  <2>1. c[1] \in Client
    BY DEF Conn
  <2>2. CASE c[1] = k
    BY <1>1, <2>2
  <2>3. CASE c[1] # k
    <3>1. prog'[c[1]] = prog[c[1]] /\ con'[c] = con[c]
      BY <2>1, <2>3
    <3>. QED BY <1>1, <3>1, Zenon DEF TypeInv, Linked
  <2>. QED BY <2>2, <2>3
<1>. QED BY <1>1, Zenon DEF Linked

LEMMA CmdType ==
  ASSUME NEW P \in Program, NEW cmd \in {"none", "put", "list", "get"},
         NEW f \in File \cup {NoFile}, NEW s \in 0..4
  PROVE  /\ [P EXCEPT !.cmd = cmd] \in Program /\ [P EXCEPT !.cmd = cmd].cmd = cmd
         /\ [P EXCEPT !.cmd = cmd, !.file = f, !.at = s] \in Program
         /\ [P EXCEPT !.cmd = cmd, !.file = f, !.at = s].cmd = cmd
         /\ [P EXCEPT !.cmd = cmd, !.file = f, !.at = s].file = f
         /\ [P EXCEPT !.cmd = cmd, !.file = f, !.at = s].at = s
BY DEF Program

LEMMA StartPutType ==
  ASSUME TypeInv, NEW k \in Client, NEW v \in Version, StartPut(k, v), UNCHANGED serverVars
  PROVE  TypeInv'
<1> DEFINE Q(c) == Requested(c, Put(FileOf(v)), "put")
           P    == [prog[k] EXCEPT !.cmd = "put"]
<1>0. /\ DfsShape /\ prog[k].cmd = "none" /\ prog[k] \in Program
      /\ c2s' = c2s /\ s2c' = s2c /\ net' = net /\ m_files' = m_files /\ tmp' = tmp /\ got' = got
      /\ shown' = shown
  BY DEF TypeInv, ProgramOK, StartPut, Idle, netVars, clientFiles
<1>1. prog' = [prog EXCEPT ![k] = P] /\ P \in Program /\ P.cmd = "put"
  <2>1. prog' = [prog EXCEPT ![k] = P]
    BY <1>0 DEF StartPut, DfsShape
  <2>. QED BY <1>0, <2>1 DEF Program
<1>. HIDE DEF P
<1>2. ASSUME NEW c \in Conn, c[1] = k
      PROVE  /\ con'[c] \in ClientConnection
             /\ con'[c].cb = "put" => con'[c].version \in Version
             /\ ~con'[c].loop \/ con'[c].cb = "put"
  <2>1. FileOf(v) \in File /\ FlowOK(c) /\ ~con[c].loop
    BY <1>0, <1>2, ChannelAssumption, NoLoopIdle, Zenon DEF TypeInv
  <2>2. /\ Q(c) \in ClientConnection /\ Q(c).version = con[c].version
        /\ ~con[c].m_connected => Q(c) = con[c]
        /\ con[c].m_connected => Q(c).cb = "put" /\ Q(c).loop
    <3>1. Put(FileOf(v)) \in Written
      BY <2>1, TokensWritten
    <3>. QED BY <3>1, RequestedType
  <2>3. con'[c] = [Q(c) EXCEPT !.version = IF con[c].m_connected THEN v ELSE @]
    BY <1>2, Zenon DEF StartPut
  <2>. HIDE DEF Q
  <2>4. CASE con[c].m_connected
    <3>1. con'[c] = [Q(c) EXCEPT !.version = v]
      BY <2>3, <2>4
    <3>. QED BY <2>2, <2>4, <3>1 DEF ClientConnection
  <2>5. CASE ~con[c].m_connected
    <3>1. con'[c] = [Q(c) EXCEPT !.version = Q(c).version]
      BY <2>3, <2>5
    <3>2. con'[c] = con[c]
      BY <2>2, <2>5, <3>1 DEF ClientConnection
    <3>. QED BY <2>1, <3>2 DEF FlowOK
  <2>. QED BY <2>4, <2>5
<1>3. ASSUME NEW c \in Conn, c[1] # k
      PROVE  con'[c] = con[c] /\ con[c] \in ClientConnection /\ (con[c].cb = "put" => con[c].version \in Version)
  BY <1>3, Zenon DEF StartPut, TypeInv, FlowOK
<1>4. DOMAIN con' = Conn
  BY DEF StartPut
<1>5. Linked'
  <2>1. DOMAIN prog' = Client /\ prog'[k].cmd = "put" /\ \A j \in Client : j # k => prog'[j] = prog[j]
    BY <1>0, <1>1, Zenon DEF DfsShape
  <2>. QED BY <1>2, <1>3, <2>1, LinkedStart
<1>6. \A j \in Client : CompleteOK(j)'
  BY <1>0, AllComplete, Zenon
<1>7. \A c \in Conn : con'[c] \in ClientConnection /\ (con'[c].cb = "put" => con'[c].version \in Version)
  BY <1>2, <1>3, Zenon
<1>8. net' \in [Conn -> NetState] /\ DOMAIN shown' = Client
  BY <1>0, Zenon DEF DfsShape
<1>. QED BY <1>0, <1>1, <1>4, <1>5, <1>6, <1>7, <1>8, MainStepType
LEMMA StartListType ==
  ASSUME TypeInv, NEW k \in Client, StartList(k), UNCHANGED serverVars
  PROVE  TypeInv'
<1> DEFINE Q(c) == Requested(c, List, "list")
           P    == [prog[k] EXCEPT !.cmd = "list"]
<1>0. /\ DfsShape /\ prog[k].cmd = "none" /\ prog[k] \in Program
      /\ c2s' = c2s /\ s2c' = s2c /\ net' = net /\ m_files' = m_files /\ tmp' = tmp /\ got' = got
      /\ shown' = shown
  BY DEF TypeInv, ProgramOK, StartList, Idle, netVars, clientFiles
<1>1. prog' = [prog EXCEPT ![k] = P] /\ P \in Program /\ P.cmd = "list"
  <2>1. prog' = [prog EXCEPT ![k] = P]
    BY <1>0 DEF StartList, DfsShape
  <2>. QED BY <1>0, <2>1 DEF Program
<1>. HIDE DEF P
<1>2. ASSUME NEW c \in Conn, c[1] = k
      PROVE  /\ con'[c] \in ClientConnection
             /\ con'[c].cb = "put" => con'[c].version \in Version
             /\ ~con'[c].loop \/ con'[c].cb = "list"
  <2>1. FlowOK(c) /\ ~con[c].loop
    BY <1>0, <1>2, NoLoopIdle, Zenon DEF TypeInv
  <2>2. /\ Q(c) \in ClientConnection
        /\ ~con[c].m_connected => Q(c) = con[c]
        /\ con[c].m_connected => Q(c).cb = "list" /\ Q(c).loop
    BY TokensWritten, RequestedType
  <2>3. con'[c] = Q(c)
    BY <1>2, Zenon DEF StartList
  <2>. HIDE DEF Q
  <2>. QED BY <2>1, <2>2, <2>3 DEF FlowOK
<1>3. ASSUME NEW c \in Conn, c[1] # k
      PROVE  con'[c] = con[c] /\ con[c] \in ClientConnection /\ (con[c].cb = "put" => con[c].version \in Version)
  BY <1>3, Zenon DEF StartList, TypeInv, FlowOK
<1>4. DOMAIN con' = Conn
  BY DEF StartList
<1>5. Linked'
  <2>1. DOMAIN prog' = Client /\ prog'[k].cmd = "list" /\ \A j \in Client : j # k => prog'[j] = prog[j]
    BY <1>0, <1>1, Zenon DEF DfsShape
  <2>. QED BY <1>2, <1>3, <2>1, LinkedStart
<1>6. \A j \in Client : CompleteOK(j)'
  BY <1>0, AllComplete, Zenon
<1>7. \A c \in Conn : con'[c] \in ClientConnection /\ (con'[c].cb = "put" => con'[c].version \in Version)
  BY <1>2, <1>3, Zenon
<1>8. net' \in [Conn -> NetState] /\ DOMAIN shown' = Client
  BY <1>0, Zenon DEF DfsShape
<1>. QED BY <1>0, <1>1, <1>4, <1>5, <1>6, <1>7, <1>8, MainStepType

(* Three fields of one program, assigned one after the other.              *)
LEMMA FieldsAssigned ==
  ASSUME NEW k \in DOMAIN prog, NEW a, NEW f, NEW s
  PROVE  [prog EXCEPT ![k].cmd = a, ![k].file = f, ![k].at = s]
         = [prog EXCEPT ![k] = [prog[k] EXCEPT !.cmd = a, !.file = f, !.at = s]]
<1> DEFINE Q == [prog[k] EXCEPT !.cmd = a, !.file = f]
           G == [prog EXCEPT ![k] = Q]
<1>1. [prog EXCEPT ![k].cmd = a, ![k].file = f] = G
  OBVIOUS
<1>2. [G EXCEPT ![k].at = s] = [prog EXCEPT ![k] = [Q EXCEPT !.at = s]]
  <2>. HIDE DEF Q
  <2>. QED OBVIOUS
<1>3. [prog EXCEPT ![k].cmd = a, ![k].file = f, ![k].at = s] = [G EXCEPT ![k].at = s]
  BY <1>1
<1>4. [Q EXCEPT !.at = s] = [prog[k] EXCEPT !.cmd = a, !.file = f, !.at = s]
  OBVIOUS
<1>. QED BY <1>2, <1>3, <1>4, Zenon

(* The next server is asked when no loop of the client runs.               *)
LEMMA GetFromType ==
  ASSUME TypeInv, NEW k \in Client, NEW s \in Server, NEW f \in File,
         \A c \in Conn : c[1] = k => ~con[c].loop, GetFrom(k, s, f), UNCHANGED serverVars
  PROVE  TypeInv'
<1> DEFINE d == <<k, s>>
           Q == Requested(d, Get(f, 0), "get")
           r == [Q EXCEPT !.m_get_state = 1]
           P == [prog[k] EXCEPT !.cmd = "get", !.file = f, !.at = s]
<1>0. /\ DfsShape /\ prog[k] \in Program /\ d \in Conn
      /\ c2s' = c2s /\ s2c' = s2c /\ net' = net /\ m_files' = m_files /\ tmp' = tmp /\ got' = got
      /\ shown' = shown
  BY DEF TypeInv, ProgramOK, GetFrom, netVars, clientFiles, Conn
<1>1. prog' = [prog EXCEPT ![k] = P] /\ P \in Program /\ P.cmd = "get" /\ P.file = f /\ P.at = s
  <2>1. prog' = [prog EXCEPT ![k] = P]
    BY <1>0, FieldsAssigned, Zenon DEF GetFrom, DfsShape
  <2>2. f \in File \cup {NoFile} /\ s \in 0..4
    BY DEF Server
  <2>3. "get" \in {"none", "put", "list", "get"}
    OBVIOUS
  <2>4. P \in Program /\ P.cmd = "get" /\ P.file = f /\ P.at = s
    BY <1>0, <2>2, <2>3 DEF Program
  <2>. QED BY <2>1, <2>4, Zenon
<1>. HIDE DEF P
<1>2. /\ con' = [con EXCEPT ![d] = IF con[d].m_connected THEN r ELSE con[d]]
      /\ con[d] \in ClientConnection /\ (con[d].cb = "put" => con[d].version \in Version)
  BY <1>0, Zenon DEF GetFrom, TypeInv, FlowOK
<1>3. con[d].m_connected => r \in ClientConnection /\ r.cb = "get"
  <2>. SUFFICES ASSUME con[d].m_connected PROVE r \in ClientConnection /\ r.cb = "get"
    OBVIOUS
  <2>1. Q \in ClientConnection /\ Q.cb = "get"
    BY <1>0, TokensWritten, RequestedType
  <2>. HIDE DEF Q
  <2>2. PICK one : one = 1 /\ one \in 0..3
    OBVIOUS
  <2>. QED BY <2>1, <2>2 DEF ClientConnection
<1>. HIDE DEF r
<1>4. ASSUME NEW c \in Conn
      PROVE  /\ con'[c] \in ClientConnection
             /\ con'[c].cb = "put" => con'[c].version \in Version
             /\ c[1] = k => ~con'[c].loop \/ con'[c].cb = "get"
             /\ c[1] # k => con'[c] = con[c]
  <2>1. FlowOK(c)
    BY Zenon DEF TypeInv
  <2>2. CASE con'[c] = con[c]
    BY <2>1, <2>2, Zenon DEF FlowOK
  <2>3. CASE con'[c] # con[c]
    <3>1. c = d /\ con[d].m_connected /\ con'[c] = r
      BY <1>0, <1>2, <2>3, Zenon DEF DfsShape
    <3>2. c[1] = k
      BY <3>1
    <3>. QED BY <1>3, <3>1, <3>2
  <2>. QED BY <2>2, <2>3
<1>5. DOMAIN con' = Conn
  BY <1>0, <1>2, Zenon DEF DfsShape
<1>6. Linked'
  <2>1. DOMAIN prog' = Client /\ prog'[k].cmd = "get" /\ \A j \in Client : j # k => prog'[j] = prog[j]
    BY <1>0, <1>1, Zenon DEF DfsShape
  <2>. QED BY <1>4, <2>1, LinkedStart
<1>7. \A j \in Client : CompleteOK(j)'
  BY <1>0, AllComplete, Zenon
<1>8. net' \in [Conn -> NetState] /\ DOMAIN shown' = Client
  BY <1>0, Zenon DEF DfsShape
<1>. QED BY <1>0, <1>1, <1>4, <1>5, <1>6, <1>7, <1>8, MainStepType

(* A command that has returned left no loop running.                       *)
LEMMA DoneType ==
  ASSUME TypeInv, NEW k \in Client, ~InLoop(k), Done(k), con' = con,
         UNCHANGED serverVars, UNCHANGED netVars, UNCHANGED <<m_files, tmp, got>>,
         DOMAIN shown' = Client,
         \A j \in Client : CompleteOK(j)'
  PROVE  TypeInv'
<1> DEFINE P == [prog[k] EXCEPT !.cmd = "none", !.file = NoFile, !.at = 0]
<1>0. DfsShape /\ prog[k] \in Program /\ c2s' = c2s /\ s2c' = s2c /\ net' = net
  BY DEF TypeInv, ProgramOK, netVars
<1>1. prog' = [prog EXCEPT ![k] = P] /\ P \in Program /\ P.cmd = "none"
  <2>1. prog' = [prog EXCEPT ![k] = P]
    BY <1>0, FieldsAssigned, Zenon DEF Done, DfsShape
  <2>2. NoFile \in File \cup {NoFile} /\ 0 \in 0..4 /\ "none" \in {"none", "put", "list", "get"}
    OBVIOUS
  <2>3. P \in Program /\ P.cmd = "none"
    <3>1. PICK zero : zero = 0 /\ zero \in 0..4
      OBVIOUS
    <3>. QED BY <1>0, <2>2, <3>1 DEF Program
  <2>. QED BY <2>1, <2>3, Zenon
<1>. HIDE DEF P
<1>2. Linked'
  <2>1. ASSUME NEW c \in Conn, con'[c].loop
        PROVE  prog'[c[1]].cmd # "none" /\ con'[c].cb \in {"none", prog'[c[1]].cmd}
    <3>1. c[1] # k /\ c[1] \in Client
      BY <2>1 DEF InLoop, Conn
    <3>2. prog'[c[1]] = prog[c[1]]
      BY <1>0, <1>1, <3>1, Zenon DEF DfsShape
    <3>. QED BY <2>1, <3>2, Zenon DEF TypeInv, Linked
  <2>. QED BY <2>1, Zenon DEF Linked
<1>3. \A c \in Conn : con'[c] \in ClientConnection /\ (con'[c].cb = "put" => con'[c].version \in Version)
  BY Zenon DEF TypeInv, FlowOK
<1>4. net' \in [Conn -> NetState] /\ DOMAIN con' = Conn
  BY <1>0, Zenon DEF DfsShape
<1>5. P.cmd = "get" => P.file \in File /\ P.at \in Server
  BY <1>1
<1>. QED BY <1>0, <1>1, <1>2, <1>3, <1>4, <1>5, MainStepType

LEMMA ProceedType ==
  ASSUME TypeInv, NEW k \in Client, CommandStep(k), UNCHANGED serverVars
  PROVE  TypeInv'
<1>0. ProgramOK(k) /\ DfsShape
  BY Zenon DEF TypeInv, ProgramOK
<1>1. CASE GetNext(k)
  <2>1. prog[k].at + 1 \in Server /\ prog[k].file \in File
    BY <1>0, <1>1 DEF GetNext, ProgramOK, Server
  <2>2. \A c \in Conn : c[1] = k => ~con[c].loop
    BY <1>1 DEF GetNext, InLoop, Conn
  <2>. QED BY <1>1, <2>1, <2>2, GetFromType, Zenon DEF GetNext
<1>2. CASE PutDone(k) \/ GetDone(k)
  <2>1. ~InLoop(k) /\ Done(k) /\ UNCHANGED <<con, clientFiles, netVars>>
    BY <1>2, Zenon DEF PutDone, GetDone
  <2>2. /\ con' = con /\ UNCHANGED netVars /\ UNCHANGED <<m_files, tmp, got>> /\ shown' = shown
    BY <2>1 DEF clientFiles
  <2>3. \A j \in Client : CompleteOK(j)'
    BY <2>2, AllComplete
  <2>. QED BY <1>0, <2>1, <2>2, <2>3, DoneType, Zenon DEF DfsShape
<1>3. CASE ListDone(k)
  <2>1. CASE ClientDies(k, "killed", s2c)
    BY <2>1, ClientDiesType
  <2>2. CASE ~ClientDies(k, "killed", s2c)
    <3>1. PICK r \in Prints(k) :
            /\ shown' = [shown EXCEPT ![k] = r]
            /\ ~InLoop(k) /\ Done(k) /\ con' = con /\ UNCHANGED netVars /\ UNCHANGED <<m_files, tmp, got>>
      BY <1>3, <2>2 DEF ListDone
    <3>a. PartsStay /\ m_files' = m_files
      BY <3>1, DisksKept, Zenon DEF serverVars
    <3>2. ASSUME NEW j \in Client PROVE CompleteOK(j)'
      <4>1. CASE j # k
        <5>1. shown'[j] = shown[j] /\ CompleteOK(j)
          BY <1>0, <3>1, <4>1, Zenon DEF DfsShape, TypeInv, ProgramOK
        <5>. QED BY <3>a, <5>1, CompleteKept, Zenon
      <4>2. CASE j = k
        <5>1. shown'[k] = r /\ (ListedWild(k) => ListedWild(k)')
          BY <1>0, <3>1, <3>a, Zenon DEF DfsShape, ListedWild
        <5>2. ASSUME NEW f \in File, r[f] = "complete", ~ListedWild(k), PlainEntries, NEW p \in Part
              PROVE  IsStored(f, p)'
          <6>1. r = [g \in File |-> Printed(k, g)]
            BY <5>2, Zenon DEF Prints
          <6>2. Printed(k, f) = "complete"
            BY <5>2, <6>1
          <6>3. Entry(f, p) \in m_files[k]
            BY <6>2 DEF Printed, IsComplete
          <6>4. Entry(f, p) \in Told
            BY <1>0, <6>3, Zenon DEF ProgramOK
          <6>5. Entry(f, p).k = "entry" /\ Entry(f, p).f = f /\ Entry(f, p).p = p
            BY DEF Entry
          <6>6. IsStored(f, p) /\ p \in Number
            BY <5>2, <6>4, <6>5, ChannelAssumption, Zenon DEF Told
          <6>. QED BY <3>a, <6>6, StoredStays, Zenon
        <5>. QED BY <4>2, <5>1, <5>2, Zenon DEF CompleteOK, PlainEntries
      <4>. QED BY <4>1, <4>2
    <3>3. DOMAIN shown' = Client
      BY <1>0, <3>1, Zenon DEF DfsShape
    <3>. QED BY <3>1, <3>2, <3>3, DoneType, Zenon
  <2>. QED BY <2>1, <2>2
<1>. QED BY <1>1, <1>2, <1>3, Zenon DEF CommandStep

LEMMA UserType ==
  ASSUME TypeInv, NEW k \in Client, User(k)
  PROVE  TypeInv'
<1>0. ProgramOK(k) /\ DfsShape
  BY Zenon DEF TypeInv
<1>1. CASE UserStarts(k)
  <2>. DEFINE noticed == Server \ Live
              up == { s \in Server : fate[s] = "up" }
  <2>1. StartClient(k, up, noticed) /\ UNCHANGED serverVars
    BY <1>1, Zenon DEF UserStarts
  <2>2. PICK a \in {"good", "bad", "short"} : prog' = [prog EXCEPT ![k].life = "up", ![k].auth = a]
    BY <2>1, DfsAssumption, Zenon DEF StartClient
  <2>. DEFINE P == [prog[k] EXCEPT !.life = "up", !.auth = a]
  <2>3. /\ prog' = [prog EXCEPT ![k] = P] /\ P \in Program
        /\ P.cmd = prog[k].cmd /\ P.file = prog[k].file /\ P.at = prog[k].at
    BY <1>0, <2>2 DEF DfsShape, ProgramOK, Program
  <2>. HIDE DEF P, noticed, up
  <2>4. ASSUME NEW c \in Conn
        PROVE  /\ con'[c] \in ClientConnection
               /\ con'[c].loop = con[c].loop /\ con'[c].cb = con[c].cb
               /\ con'[c].cb = "put" => con'[c].version \in Version
    <3>1. FlowOK(c)
      BY Zenon DEF TypeInv
    <3>2. con'[c] = con[c] \/ \E m \in BOOLEAN : con'[c] = [con[c] EXCEPT !.m_connected = m]
      BY <2>1, Zenon DEF StartClient
    <3>. QED BY <3>1, <3>2 DEF FlowOK, ClientConnection
  <2>5. net' \in [Conn -> NetState] /\ DOMAIN con' = Conn
    BY <1>0, <2>1 DEF StartClient, DfsShape, NetState
  <2>6. Linked'
    <3>1. \A j \in Client : prog'[j].cmd = prog[j].cmd
      BY <1>0, <2>3, Zenon DEF DfsShape
    <3>2. \A c \in Conn : c[1] \in Client
      BY DEF Conn
    <3>. QED BY <2>4, <3>1, <3>2, Zenon DEF TypeInv, Linked
  <2>7. UNCHANGED <<c2s, s2c>> /\ UNCHANGED <<m_files, tmp, got>> /\ shown' = shown
    BY <2>1 DEF StartClient, clientFiles
  <2>8. P.cmd = "get" => P.file \in File /\ P.at \in Server
    BY <1>0, <2>3, Zenon DEF ProgramOK
  <2>9. /\ DOMAIN shown' = Client
        /\ \A j \in Client : CompleteOK(j)'
    BY <1>0, <2>1, <2>7, AllComplete, Zenon DEF DfsShape
  <2>. QED BY <2>1, <2>3, <2>4, <2>5, <2>6, <2>7, <2>8, <2>9, MainStepType
<1>2. CASE UserQuits(k)
  BY <1>2, ClientDiesType DEF UserQuits, Quit
<1>3. CASE UserList(k)
  BY <1>3, StartListType DEF UserList, serverVars
<1>4. ASSUME NEW v \in Version, UserPut(k, v) PROVE TypeInv'
  BY <1>4, StartPutType, Zenon DEF UserPut
<1>5. ASSUME NEW f \in File, UserGet(k, f) PROVE TypeInv'
  <2>1. GetFrom(k, 1, f) /\ prog[k].cmd = "none" /\ UNCHANGED serverVars /\ 1 \in Server
    BY <1>5 DEF UserGet, StartGet, Idle, Server, serverVars
  <2>. QED BY <2>1, NoLoopIdle, GetFromType, Zenon
<1>. QED BY <1>1, <1>2, <1>3, <1>4, <1>5, Zenon DEF User

-----------------------------------------------------------------------------
(* The invariant.                                                          *)
LEMMA InitType ==
  ASSUME Init
  PROVE  TypeInv
<1>0. /\ c2s = [c \in Conn |-> Empty] /\ s2c = [c \in Conn |-> Empty]
      /\ net = [c \in Conn |-> "none"] /\ srv = [c \in Conn |-> Absent]
      /\ con = [c \in Conn |-> NewConnection]
      /\ disk = [s \in Server |-> [f \in File |-> [p \in Number |-> NoPart]]]
      /\ folder = [s \in Server |-> FALSE]
      /\ fate = [s \in Server |-> IF s \in Live THEN "up" ELSE "killed"]
      /\ prog = [k \in Client |-> IdleProgram] /\ m_files = [k \in Client |-> {}]
      /\ shown = [k \in Client |-> [f \in File |-> "nothing"]]
      /\ tmp = [k \in Client |-> [f \in File |-> [p \in Number |-> NoPart]]]
      /\ got = [k \in Client |-> [f \in File |-> NoPart]]
  BY DEF Init, NetInit, ServerInit, ClientInit
<1>1. DfsShape
  <2>1. disk \in [Server -> Files(Written)]
    <3>1. [f \in File |-> [p \in Number |-> NoPart]] \in Files(Written)
      BY DEF Files
    <3>. QED BY <1>0, <3>1
  <2>2. net \in [Conn -> NetState]
    BY <1>0 DEF NetState
  <2>3. fate \in [Server -> {"up", "killed", "aborted"}]
    BY <1>0
  <2>. QED BY <1>0, <2>1, <2>2, <2>3, Zenon DEF DfsShape
<1>2. Linked
  BY <1>0, FreshCon, Zenon DEF Linked
<1>3. ASSUME NEW c \in Conn PROVE FlowOK(c)
  <2>1. c2s[c] = Empty /\ s2c[c] = Empty /\ srv[c] = Absent /\ con[c] = NewConnection
    BY <1>0
  <2>2. NewConnection.cb # "put"
    BY FreshCon
  <2>. QED BY <2>1, <2>2, EmptyType, FreshConnection, FreshCon, Zenon DEF FlowOK
<1>4. ASSUME NEW k \in Client PROVE ProgramOK(k)
  <2>1. IdleProgram \in Program /\ IdleProgram.cmd = "none"
    <3>1. PICK zero : zero = 0 /\ zero \in 0..4 /\ zero \in Number \cup {0} /\ zero \in Nat
      OBVIOUS
    <3>. QED BY <3>1 DEF IdleProgram, Program
  <2>2. prog[k] = IdleProgram /\ m_files[k] = {} /\ shown[k] = [f \in File |-> "nothing"]
    BY <1>0
  <2>3. tmp[k] = [f \in File |-> [p \in Number |-> NoPart]] /\ got[k] = [f \in File |-> NoPart]
    BY <1>0
  <2>4. \A f \in File : shown[k][f] # "complete"
    BY <2>2
  <2>5. /\ DOMAIN tmp[k] = File /\ DOMAIN got[k] = File
        /\ \A f \in File : tmp[k][f] \in PartFiles /\ got[k][f] \in PartFile
    BY <2>3 DEF PartFiles, PartFile
  <2>6. prog[k].cmd # "get"
    BY <2>1, <2>2
  <2>7. CompleteOK(k) /\ m_files[k] \subseteq Told
    BY <2>2, <2>4, Zenon DEF CompleteOK
  <2>. QED BY <2>1, <2>2, <2>5, <2>6, <2>7, Zenon DEF ProgramOK
<1>. QED BY <1>1, <1>2, <1>3, <1>4, Zenon DEF TypeInv

LEMMA RestartType ==
  ASSUME TypeInv, NEW s \in Server, Restart(s), UNCHANGED clientVars
  PROVE  TypeInv'
<1>1. /\ disk' = disk /\ folder' = folder /\ con' = con /\ prog' = prog /\ m_files' = m_files
      /\ shown' = shown /\ tmp' = tmp /\ got' = got /\ srv' = srv
      /\ c2s' = c2s /\ s2c' = s2c /\ net' = net /\ fate' = [fate EXCEPT ![s] = "up"]
  BY DEF Restart, clientVars, netVars
<1>2. PartsStay
  BY <1>1, DisksKept
<1>3. ASSUME NEW c \in Conn PROVE FlowOK(c)'
  BY <1>1, <1>2, FlowKept, Zenon DEF TypeInv, FlowOK
<1>4. \A k \in Client : ProgramOK(k)'
  BY <1>1, <1>2, ProgramsKept, Zenon
<1>5. DfsShape'
  BY <1>1 DEF TypeInv, DfsShape, Files
<1>6. Linked'
  BY <1>1, LinksKept
<1>. QED BY <1>3, <1>4, <1>5, <1>6, Zenon DEF TypeInv

LEMMA NextType ==
  ASSUME TypeInv, [Next]_vars
  PROVE  TypeInv'
<1>1. ASSUME NEW k \in Client, User(k) PROVE TypeInv'
  BY <1>1, UserType
<1>2. ASSUME NEW k \in Client, Proceed(k) PROVE TypeInv'
  BY <1>2, ProceedType, Zenon DEF Proceed
<1>3. ASSUME NEW c \in Conn, Serve(c) PROVE TypeInv'
  BY <1>3, ServeType, Zenon DEF Serve
<1>4. ASSUME NEW c \in Conn, Dispatch(c) PROVE TypeInv'
  BY <1>4, DispatchType, Zenon DEF Dispatch
<1>5. ASSUME NEW s \in Server, UserKills(s) PROVE TypeInv'
  <2>0. UNCHANGED clientVars /\ Kill(s)
    BY <1>5, Zenon DEF UserKills
  <2>1. CASE Die(s, "killed", c2s) /\ disk' = disk /\ folder' = folder
    BY <2>0, <2>1, DisksKept, DieType, Zenon DEF TypeInv, DfsShape
  <2>2. ASSUME NEW k \in Client, KilledWriting(<<k, s>>) PROVE TypeInv'
    <3>1. PICK c \in Conn : c = <<k, s>>
      BY DEF Conn
    <3>2. KilledWriting(c) /\ c[2] = s
      BY <2>2, <3>1
    <3>3. PICK files, unread : Wrote(c, files) /\ Die(s, "killed", unread)
      BY <3>2, KilledWrites, Zenon
    <3>4. PartsStay /\ disk' \in [Server -> Files(Written)] /\ DOMAIN folder' = Server
      BY <3>3, WroteStays, Zenon DEF Wrote
    <3>. QED BY <2>0, <3>3, <3>4, DieType, Zenon
  <2>3. \/ Die(s, "killed", c2s) /\ disk' = disk /\ folder' = folder
        \/ \E k \in Client : KilledWriting(<<k, s>>)
    BY <2>0 DEF Kill
  <2>. QED BY <2>1, <2>2, <2>3, Zenon
<1>6. ASSUME NEW s \in Server, UserRestarts(s) PROVE TypeInv'
  BY <1>6, RestartType, Zenon DEF UserRestarts
<1>7. CASE UNCHANGED vars
  <2>1. /\ disk' = disk /\ folder' = folder /\ con' = con /\ prog' = prog /\ m_files' = m_files
        /\ shown' = shown /\ tmp' = tmp /\ got' = got /\ srv' = srv
        /\ c2s' = c2s /\ s2c' = s2c /\ net' = net /\ fate' = fate
    BY <1>7 DEF vars, serverVars, clientVars, netVars
  <2>2. PartsStay
    BY <2>1, DisksKept
  <2>3. ASSUME NEW c \in Conn PROVE FlowOK(c)'
    BY <2>1, <2>2, FlowKept, Zenon DEF TypeInv, FlowOK
  <2>4. \A k \in Client : ProgramOK(k)'
    BY <2>1, <2>2, ProgramsKept, Zenon
  <2>5. DfsShape'
    BY <2>1 DEF TypeInv, DfsShape, Files
  <2>6. Linked'
    BY <2>1, LinksKept
  <2>. QED BY <2>3, <2>4, <2>5, <2>6, Zenon DEF TypeInv
<1>. QED BY <1>1, <1>2, <1>3, <1>4, <1>5, <1>6, <1>7, Zenon DEF Next

-----------------------------------------------------------------------------
(* However streams are cut, clients end and servers are killed, every      *)
(* program and connection is in a state its code distinguishes: the        *)
(* callbacks of put and get run with a version or a file to work on, and   *)
(* no end of a stream sees a cut where there is no byte.                   *)
THEOREM ProgramsAreTyped == Spec => []TypeOK
<1>1. ASSUME TypeInv PROVE TypeOK
  <2>1. ASSUME NEW c \in Conn
        PROVE  /\ srv[c].cb \in {"read", "put"} /\ srv[c].putState \in 0..3
               /\ srv[c].cb = "put" => srv[c].filename \in File
               /\ con[c].cb \in {"none", "put", "list", "get"} /\ con[c].m_get_state \in 0..3
               /\ con[c].cb = "put" => con[c].version \in Version
               /\ net[c] \in NetState
               /\ c2s[c].cuts \subseteq 1..Len(c2s[c].data)
               /\ s2c[c].cuts \subseteq 1..Len(s2c[c].data)
    <3>1. FlowOK(c) /\ DfsShape
      BY <1>1, Zenon DEF TypeInv
    <3>2. /\ srv[c].cb \in {"read", "put"} /\ srv[c].putState \in 0..3
          /\ srv[c].cb = "put" => srv[c].filename \in File
      BY <3>1 DEF FlowOK, Connection, UploadOK
    <3>3. con[c].cb \in {"none", "put", "list", "get"} /\ con[c].m_get_state \in 0..3
      BY <3>1 DEF FlowOK, ClientConnection
    <3>4. /\ c2s[c].cuts \subseteq 1..Len(c2s[c].data)
          /\ s2c[c].cuts \subseteq 1..Len(s2c[c].data)
      BY <3>1, Zenon DEF FlowOK, Pipe
    <3>5. net[c] \in NetState
      BY <3>1 DEF DfsShape
    <3>. QED BY <3>1, <3>2, <3>3, <3>4, <3>5, Zenon DEF FlowOK
  <2>2. ASSUME NEW k \in Client
        PROVE  /\ prog[k].life \in {"new", "up", "gone", "killed"}
               /\ prog[k].cmd \in {"none", "put", "list", "get"}
               /\ prog[k].cmd = "get" => prog[k].file \in File /\ prog[k].at \in Server
    <3>1. ProgramOK(k)
      BY <1>1, Zenon DEF TypeInv
    <3>2. prog[k] \in Program /\ (prog[k].cmd = "get" => prog[k].file \in File /\ prog[k].at \in Server)
      BY <3>1, Zenon DEF ProgramOK
    <3>. QED BY <3>2 DEF Program
  <2>3. fate \in [Server -> {"up", "killed", "aborted"}]
    BY <1>1, Zenon DEF TypeInv, DfsShape
  <2>. QED BY <2>1, <2>2, <2>3, Zenon DEF TypeOK
<1>. QED BY <1>1, InitType, NextType, PTL DEF Spec

(* If no line of a file reads as an entry, LIST tells the truth about what *)
(* is stored: a part callback_list has collected lies on the disk of some  *)
(* server, and of a file it has called complete every part does, unless it *)
(* was sent a part number that HavePart has no place for.                  *)
THEOREM ListingIsTrue == PlainEntries => (Spec => []ListedIsStored)
<1>1. ASSUME PlainEntries, TypeInv PROVE ListedIsStored
  <2>1. ASSUME NEW k \in Client, NEW f \in File
        PROVE  /\ \A p \in Number : Entry(f, p) \in m_files[k] => IsStored(f, p)
               /\ shown[k][f] = "complete" /\ ~ListedWild(k) => \A p \in Part : IsStored(f, p)
    <3>1. ProgramOK(k)
      BY <1>1, Zenon DEF TypeInv
    <3>2. ASSUME NEW p \in Number, Entry(f, p) \in m_files[k] PROVE IsStored(f, p)
      <4>1. Entry(f, p) \in Told
        BY <3>1, <3>2, Zenon DEF ProgramOK
      <4>2. Entry(f, p).k = "entry" /\ Entry(f, p).f = f /\ Entry(f, p).p = p
        BY DEF Entry
      <4>. QED BY <1>1, <4>1, <4>2, Zenon DEF Told
    <3>. QED BY <1>1, <3>1, <3>2, Zenon DEF ProgramOK, CompleteOK
  <2>. QED BY <2>1, Zenon DEF ListedIsStored, IsStored
<1>2. PlainEntries /\ TypeInv => ListedIsStored
  BY <1>1
<1>. HIDE DEF PlainEntries
<1>3. ASSUME PlainEntries PROVE TypeInv => ListedIsStored
  BY <1>2, <1>3
<1>4. SUFFICES ASSUME PlainEntries PROVE Spec => []ListedIsStored
  OBVIOUS
<1>5. TypeInv => ListedIsStored
  BY <1>3, <1>4
<1>. QED BY <1>5, InitType, NextType, PTL DEF Spec
=============================================================================
