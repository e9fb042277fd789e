-------------------------- MODULE DfsServerProofs --------------------------
(***************************************************************************)
(* What the callbacks of a server do to its connection and its disk: facts *)
(* about the operators of Channel and DfsServer, for every set of files,   *)
(* every stream and every way it is cut.  OpenServerProofs rests on them.  *)
(* S, In and Out stand for the tokens that may occur at a place.           *)
(***************************************************************************)
EXTENDS DfsServer, SequenceTheorems, FiniteSetTheorems, TLAPS

(* A pipe that carries tokens of S and can be cut inside what it carries.  *)
Pipe(S) == { p \in [data : Seq(S), cuts : SUBSET Nat] : p.cuts \subseteq 1..Len(p.data) }

(* What an output buffer holds: text made of tokens of S, and parts that   *)
(* are on the disk of server s.                                            *)
TextSegs(S) == { g \in [data : Seq(S), file : {NoFile}, part : {0}, len : Nat] :
                   g.len = Len(g.data) }
FileSegs(s) == { g \in [data : {<<>>}, file : File, part : Part, len : Nat] :
                   disk[s][g.file][g.part] # NoPart }

(* The lines server s writes: an entry names a part on its disk.           *)
Answers(s) ==
  {Newline, Ready, Invalid, Bad, Terminal} \cup { Good(p, n) : p \in Part, n \in Nat } \cup
  { Entry(e[1], e[2]) : e \in { d \in File \X Number : disk[s][d[1]][d[2]] # NoPart } }

(* A connection that has read tokens of In and may write what Out holds.   *)
Connection(In, Out) ==
  [ open : BOOLEAN, wr : BOOLEAN, cb : {"read", "put"}, inp : Seq(In), out : Seq(Out),
    filename : File \cup {NoFile}, putState : 0..3, wantedSize : Nat,
    partnum : Number \cup {0} ]

(* An upload has a file name, and a state that waits for bytes a part.     *)
UploadOK(q) == /\ q.cb = "put" => q.filename # NoFile
               /\ q.putState \in {1, 3} => q.partnum \in Number

(* The user's folder on one server, its files made of tokens of S.         *)
Files(S) == [File -> [Number -> Seq(S) \cup {NoPart}]]

(* What a line of such tokens can hold once it is read.                    *)
Readings(S) == S \cup { Spelled[l] : l \in { m \in DOMAIN Spelled : m \in Seq(S) } }

-----------------------------------------------------------------------------
(* A set of natural numbers that is not empty has a least element.         *)
LEMMA Least ==
  ASSUME NEW T, T \subseteq Nat, T # {}
  PROVE  \E x \in T : \A y \in T : x <= y
<1> DEFINE R == { ss \in Nat \X Nat : ss[1] < ss[2] }
<1>1. IsWellFoundedOn(R, Nat)
  BY NatLessThanWellFounded DEF OpToRel
<1>2. \A m, n \in Nat : m < n => <<m, n>> \in R
  OBVIOUS
<1>. HIDE DEF R
<1>3. PICK x \in T : \A y \in T : ~(<<y, x>> \in R)
  BY <1>1, WFMin
<1>4. ASSUME NEW y \in T PROVE x <= y
  <2>1. x \in Nat /\ y \in Nat
    OBVIOUS
  <2>2. ~(y < x)
    BY <1>2, <1>3, <2>1
  <2>. QED BY <2>1, <2>2
<1>. QED BY <1>4

(* The line that evbuffer_readln takes out ends inside the buffer.         *)
LEMMA LineEndInside ==
  ASSUME NEW S, NEW b \in Seq(S), HasLine(b)
  PROVE  LineEnd(b) \in 1..Len(b)
<1>1. LineEnds(b) \subseteq Nat /\ LineEnds(b) \subseteq 1..Len(b)
  BY DEF LineEnds
<1>2. \E n \in LineEnds(b) : \A m \in LineEnds(b) : n <= m
  BY <1>1, Least, Zenon DEF HasLine
<1>3. LineEnd(b) \in LineEnds(b)
  BY <1>2, Zenon DEF LineEnd
<1>. QED BY <1>1, <1>3

(* A function on 1..n is a sequence of length n.                           *)
LEMMA FunctionIsSeq ==
  ASSUME NEW S, NEW n \in Nat, NEW f \in [1..n -> S]
  PROVE  f \in Seq(S) /\ Len(f) = n
<1>1. f \in Seq(S)
  BY SeqDef
<1>. QED BY <1>1, LenProperties

(* What is taken out of a buffer, and what stays, is made of its tokens.   *)
LEMMA SubSeqType ==
  ASSUME NEW S, NEW b \in Seq(S), NEW m \in Nat \ {0}, NEW n \in Int, n <= Len(b)
  PROVE  /\ SubSeq(b, m, n) \in Seq(S)
         /\ Len(SubSeq(b, m, n)) = IF m <= n THEN n - m + 1 ELSE 0
<1>1. \A i \in m..n : b[i] \in S
  BY LenProperties, ElementOfSeq
<1>. QED BY <1>1, SubSeqProperties

LEMMA TakeDropType ==
  ASSUME NEW S, NEW b \in Seq(S), NEW n \in Nat
  PROVE  /\ Take(b, n) \in Seq(S)
         /\ Drop(b, n) \in Seq(S)
         /\ Len(Drop(b, n)) = IF n < Len(b) THEN Len(b) - n ELSE 0
<1>1. Len(b) \in Nat
  BY LenProperties
<1>2. Take(b, n) \in Seq(S)
  BY <1>1, SubSeqType DEF Take
<1>3. Drop(b, n) \in Seq(S) /\ Len(Drop(b, n)) = IF n < Len(b) THEN Len(b) - n ELSE 0
  BY <1>1, SubSeqType DEF Drop
<1>. QED BY <1>2, <1>3

LEMMA LineType ==
  ASSUME NEW S, NEW b \in Seq(S), HasLine(b)
  PROVE  LineOf(b) \in Seq(Readings(S)) /\ AfterLine(b) \in Seq(S)
<1> DEFINE line == SubSeq(b, 1, LineEnd(b) - 1)
<1>1. LineEnd(b) \in 1..Len(b) /\ Len(b) \in Nat
  BY LineEndInside, LenProperties
<1>2. line \in Seq(S) /\ AfterLine(b) \in Seq(S)
  BY <1>1, SubSeqType DEF AfterLine
<1>3. LineOf(b) = IF line \in DOMAIN Spelled THEN <<Spelled[line]>> ELSE line
  BY Zenon DEF LineOf, Reads
<1>. HIDE DEF line
<1>4. CASE line \in DOMAIN Spelled
  <2>1. Spelled[line] \in Readings(S)
    BY <1>2, <1>4, Zenon DEF Readings
  <2>. HIDE DEF Readings
  <2>2. <<Spelled[line]>> \in Seq(Readings(S))
    BY <2>1
  <2>. QED BY <1>2, <1>3, <1>4, <2>2, Zenon
<1>5. CASE line \notin DOMAIN Spelled
  <2>1. S \subseteq Readings(S)
    BY Zenon DEF Readings
  <2>2. line \in Seq(Readings(S))
    BY <1>2, <2>1, SeqMonotonic
  <2>. QED BY <1>2, <1>3, <1>5, <2>2, Zenon
<1>. QED BY <1>4, <1>5

LEMMA ReadingsType ==
  ASSUME NEW S, S \subseteq Token
  PROVE  Readings(S) \subseteq Token
BY SpelledAssumption DEF Readings

-----------------------------------------------------------------------------
(* Pipes stay pipes.                                                       *)
LEMMA PipeType ==
  ASSUME NEW S, NEW d \in Seq(S), NEW k, k \subseteq 1..Len(d)
  PROVE  [data |-> d, cuts |-> k] \in Pipe(S)
<1>1. k \in SUBSET Nat
  OBVIOUS
<1>. QED BY <1>1 DEF Pipe

LEMMA EmptyType ==
  ASSUME NEW S
  PROVE  Empty \in Pipe(S)
<1>1. Len(Empty.data) = 0 /\ Empty.data \in Seq(S) /\ Empty.cuts = {}
  BY DEF Empty
<1>. QED BY <1>1 DEF Empty, Pipe

LEMMA SentType ==
  ASSUME NEW S, NEW p \in Pipe(S), NEW d \in Seq(S), NEW last
  PROVE  Sent(p, d, last) \in Pipe(S)
<1> DEFINE from == Len(p.data)
           to   == from + Len(d)
<1>1. p.data \in Seq(S) /\ p.cuts \subseteq 1..from /\ from \in Nat /\ Len(d) \in Nat
  BY LenProperties DEF Pipe
<1>2. p.data \o d \in Seq(S) /\ Len(p.data \o d) = to
  BY <1>1, ConcatProperties
<1>3. Cuts(from, to, last) \subseteq 1..to
  BY <1>1, ChannelAssumption DEF Cuts
<1>4. p.cuts \cup Cuts(from, to, last) \subseteq 1..to
  BY <1>1, <1>3
<1>5. Sent(p, d, last) = [data |-> p.data \o d, cuts |-> p.cuts \cup Cuts(from, to, last)]
  BY DEF Sent
<1>. HIDE DEF from, to
<1>. QED BY <1>2, <1>4, <1>5, PipeType

LEMMA ReceivedType ==
  ASSUME NEW S, NEW p \in Pipe(S), NEW n \in p.cuts
  PROVE  /\ n \in Nat
         /\ Take(p.data, n) \in Seq(S)
         /\ Received(p, n) \in Pipe(S)
         /\ Received(p, n) # p
<1> DEFINE rest == { m - n : m \in {j \in p.cuts : j > n} }
<1>1. p.data \in Seq(S) /\ p.cuts \subseteq 1..Len(p.data) /\ Len(p.data) \in Nat
  BY LenProperties DEF Pipe
<1>2. n \in 1..Len(p.data) /\ n \in Nat
  BY <1>1
<1>3. /\ Take(p.data, n) \in Seq(S)
      /\ Drop(p.data, n) \in Seq(S)
      /\ Len(Drop(p.data, n)) = Len(p.data) - n
  <2>. DEFINE b == p.data
  <2>1. b \in Seq(S) /\ n \in Nat /\ n <= Len(b) /\ Len(b) \in Nat
    BY <1>1, <1>2
  <2>. HIDE DEF b
  <2>2. /\ Take(b, n) \in Seq(S)
        /\ Drop(b, n) \in Seq(S)
        /\ Len(Drop(b, n)) = IF n < Len(b) THEN Len(b) - n ELSE 0
    BY <2>1, TakeDropType, Zenon
  <2>. QED BY <2>1, <2>2 DEF b
<1>4. rest \subseteq 1..(Len(p.data) - n)
  BY <1>1, <1>2
<1>5. Received(p, n) = [data |-> Drop(p.data, n), cuts |-> rest]
  BY DEF Received
<1>. HIDE DEF rest
<1>6. Received(p, n) \in Pipe(S)
  BY <1>3, <1>4, <1>5, PipeType
<1>7. Received(p, n).data # p.data
  BY <1>1, <1>2, <1>3, <1>5
<1>. QED BY <1>2, <1>3, <1>6, <1>7

LEMMA EndedType ==
  ASSUME NEW S, NEW p \in Pipe(S)
  PROVE  Ended(p) \in Pipe(S)
<1>1. p.data \in Seq(S) /\ p.cuts \subseteq 1..Len(p.data) /\ Len(p.data) \in Nat
  BY LenProperties DEF Pipe
<1>2. Ended(p) = [data |-> p.data, cuts |-> p.cuts \cup ({Len(p.data)} \ {0})]
  <2>1. p \in [data : Seq(S), cuts : SUBSET Nat]
    BY DEF Pipe
  <2>2. p = [data |-> p.data, cuts |-> p.cuts]
    BY <2>1
  <2>. DEFINE k == p.cuts \cup ({Len(p.data)} \ {0})
  <2>3. Ended(p) = [p EXCEPT !.cuts = k]
    BY Zenon DEF Ended
  <2>. HIDE DEF k
  <2>4. Ended(p) = [data |-> p.data, cuts |-> k]
    BY <2>1, <2>2, <2>3
  <2>. QED BY <2>4 DEF k
<1>3. p.cuts \cup ({Len(p.data)} \ {0}) \subseteq 1..Len(p.data)
  BY <1>1
<1>. QED BY <1>1, <1>2, <1>3, PipeType, Zenon

-----------------------------------------------------------------------------
(* Tokens.                                                                 *)
LEMMA TokensOfLines ==
  /\ Newline \in Token /\ Ready \in Token /\ Invalid \in Token
  /\ Bad \in Token /\ Terminal \in Token
  /\ \A p \in Part, n \in Nat : Good(p, n) \in Token
  /\ \A f \in File, p \in Number : Entry(f, p) \in Token
<1>1. Newline \in Token /\ Ready \in Token /\ Invalid \in Token
  BY DEF Newline, Ready, Invalid, Token
<1>2. Bad \in Token /\ Terminal \in Token
  BY DEF Bad, Terminal, Token
<1>3. ASSUME NEW p \in Part, NEW n \in Nat PROVE Good(p, n) \in Token
  <2>1. p \in Number
    BY ChannelAssumption
  <2>. QED BY <2>1 DEF Good, Token
<1>4. ASSUME NEW f \in File, NEW p \in Number PROVE Entry(f, p) \in Token
  BY DEF Entry, Token
<1>. QED BY <1>1, <1>2, <1>3, <1>4, Zenon

LEMMA TokenFields ==
  ASSUME NEW t \in Token
  PROVE  /\ t.k = "header" => t.p \in Number /\ t.l \in Nat
         /\ t.k \in {"GET", "PUT"} => t.f \in File \cup {NoFile}
         /\ t.k = "GET" => t.p \in Nat
BY DEF Token

LEMMA AnswersType ==
  ASSUME NEW s
  PROVE  Answers(s) \subseteq Token
BY TokensOfLines DEF Answers

(* A line of the protocol.                                                 *)
LEMMA TextLineType ==
  ASSUME NEW S, NEW t \in S, Newline \in S
  PROVE  TextLine(t) \in Seq(S)
BY DEF TextLine

(* Text added to an output buffer is text of its tokens.                   *)
LEMMA AddTextType ==
  ASSUME NEW S, NEW F, \A g \in F : g.file # NoFile,
         NEW out \in Seq(TextSegs(S) \cup F), NEW d \in Seq(S)
  PROVE  AddText(out, d) \in Seq(TextSegs(S) \cup F)
<1> DEFINE U == TextSegs(S) \cup F
<1>1. ASSUME NEW e \in Seq(S) PROVE TextSeg(e) \in U
  BY <1>1, LenProperties DEF TextSeg, TextSegs
<1>2. ASSUME NEW g \in U, g.file = NoFile PROVE g.data \in Seq(S)
  BY <1>2 DEF TextSegs
<1>3. out \in Seq(U)
  OBVIOUS
<1>. HIDE DEF U
<1>4. CASE out # <<>> /\ out[Len(out)].file = NoFile
  <2>. DEFINE n == Len(out)
              g == TextSeg(out[n].data \o d)
  <2>1. n \in 1..Len(out)
    BY <1>3, <1>4, LenProperties, EmptySeq
  <2>2. out[n] \in U
    BY <1>3, <2>1, ElementOfSeq
  <2>3. out[n].data \o d \in Seq(S)
    BY <1>2, <1>4, <2>2, ConcatProperties
  <2>4. g \in U
    BY <1>1, <2>3
  <2>5. AddText(out, d) = [out EXCEPT ![n] = g]
    BY <1>4, Zenon DEF AddText
  <2>. HIDE DEF n, g
  <2>6. [out EXCEPT ![n] = g] \in Seq(U)
    BY <1>3, <2>1, <2>4, ExceptSeq
  <2>. QED BY <2>5, <2>6 DEF U
<1>5. CASE ~(out # <<>> /\ out[Len(out)].file = NoFile)
  <2>1. AddText(out, d) = Append(out, TextSeg(d))
    BY <1>5, Zenon DEF AddText
  <2>2. Append(out, TextSeg(d)) \in Seq(U)
    BY <1>1, <1>3, AppendProperties
  <2>. QED BY <2>1, <2>2 DEF U
<1>. QED BY <1>4, <1>5, Zenon

(* A folder is listed by the entries of its parts.                         *)
LEMMA ListingType ==
  ASSUME NEW s \in Server
  PROVE  Listing(s) \in Seq(Answers(s) \ {Ready})
<1> DEFINE E == { e \in (File \ Elsewhere) \X Number : disk[s][e[1]][e[2]] # NoPart }
           entries == SetToSeq(E)
           LineAt(n) == EntryLine(entries[(n + 1) \div 2][1], entries[(n + 1) \div 2][2])
<1>1. IsFiniteSet(E)
  <2>1. IsFiniteSet(File \ Elsewhere)
    BY ChannelAssumption, FS_Subset
  <2>2. IsFiniteSet(Number)
    BY ChannelAssumption
  <2>3. IsFiniteSet((File \ Elsewhere) \X Number)
    BY <2>1, <2>2, FS_Product
  <2>. QED BY <2>3, FS_Subset
<1>2. Cardinality(E) \in Nat /\ \E f \in [1..Cardinality(E) -> E] : IsInjective(f)
  <2>. HIDE DEF E
  <2>1. Cardinality(E) \in Nat /\ ExistsBijection(1..Cardinality(E), E)
    BY <1>1, FS_CardinalityType
  <2>. QED BY <2>1 DEF ExistsBijection, Bijection, Injection, IsInjective
<1>3. entries \in [1..Cardinality(E) -> E]
  BY <1>2, Zenon DEF SetToSeq
<1>4. entries \in Seq(E) /\ Len(entries) = Cardinality(E)
  BY <1>2, <1>3, FunctionIsSeq, Zenon
<1>5. ASSUME NEW n \in 1..(2 * Len(entries))
      PROVE  LineAt(n)[IF n % 2 = 1 THEN 1 ELSE 2] \in Answers(s) \ {Ready}
  <2>1. (n + 1) \div 2 \in 1..Cardinality(E)
    BY <1>2, <1>4
  <2>2. entries[(n + 1) \div 2] \in E
    BY <1>3, <2>1
  <2>. DEFINE e == entries[(n + 1) \div 2]
  <2>3. e \in { d \in File \X Number : disk[s][d[1]][d[2]] # NoPart }
    BY <2>2
  <2>. HIDE DEF e
  <2>4. LineAt(n) = <<Entry(e[1], e[2]), Newline>>
    BY DEF e, EntryLine, TextLine
  <2>5. Entry(e[1], e[2]) \in Answers(s) \ {Ready} /\ Newline \in Answers(s) \ {Ready}
    <3>1. Entry(e[1], e[2]) \in Answers(s) /\ Newline \in Answers(s)
      BY <2>3 DEF Answers
    <3>2. Entry(e[1], e[2]).k # Ready.k /\ Newline.k # Ready.k
      BY DEF Entry, Newline, Ready
    <3>. QED BY <3>1, <3>2
  <2>. HIDE DEF LineAt
  <2>. QED BY <2>4, <2>5
<1>6. Listing(s) = [n \in 1..(2 * Len(entries)) |-> LineAt(n)[IF n % 2 = 1 THEN 1 ELSE 2]]
  BY DEF Listing
<1>. HIDE DEF E, entries, LineAt
<1>7. Listing(s) \in [1..(2 * Len(entries)) -> Answers(s) \ {Ready}]
  BY <1>5, <1>6
<1>8. 2 * Len(entries) \in Nat
  BY <1>2, <1>4
<1>9. PICK A : A = Answers(s) \ {Ready}
  OBVIOUS
<1>10. Listing(s) \in [1..(2 * Len(entries)) -> A]
  BY <1>7, <1>9
<1>. QED BY <1>8, <1>9, <1>10, FunctionIsSeq

(* A stored part is announced and added to the output, whole.              *)
LEMMA AddPartType ==
  ASSUME NEW s \in Server, NEW D, disk[s] \in Files(D), NEW S, Answers(s) \ {Ready} \subseteq S,
         NEW f \in File, NEW p \in Part,
         NEW out \in Seq(TextSegs(S) \cup FileSegs(s))
  PROVE  AddPart(out, s, f, p) \in Seq(TextSegs(S) \cup FileSegs(s))
<1> DEFINE n == Len(disk[s][f][p])
           text == AddText(out, TextLine(Good(p, n)))
<1>1. CASE p \notin PartsIn(s, f)
  BY <1>1, Zenon DEF AddPart
<1>2. CASE p \in PartsIn(s, f)
  <2>1. disk[s][f][p] # NoPart
    BY <1>2 DEF PartsIn
  <2>2. n \in Nat
    BY <2>1, LenProperties DEF Files
  <2>3. TextLine(Good(p, n)) \in Seq(S)
    <3>1. Good(p, n) \in Answers(s) /\ Newline \in Answers(s)
      BY <2>2 DEF Answers
    <3>2. Good(p, n).k # Ready.k /\ Newline.k # Ready.k
      BY DEF Good, Newline, Ready
    <3>3. Good(p, n) \in S /\ Newline \in S
      BY <3>1, <3>2
    <3>. QED BY <3>3, TextLineType
  <2>4. \A g \in FileSegs(s) : g.file # NoFile
    BY ChannelAssumption DEF FileSegs
  <2>5. text \in Seq(TextSegs(S) \cup FileSegs(s))
    BY <2>3, <2>4, AddTextType
  <2>6. FileSeg(f, p, n) \in TextSegs(S) \cup FileSegs(s)
    BY <2>1, <2>2 DEF FileSeg, FileSegs
  <2>7. AddPart(out, s, f, p) = AddFile(text, f, p, n)
    BY <1>2, Zenon DEF AddPart
  <2>. HIDE DEF n, text
  <2>8. Append(text, FileSeg(f, p, n)) \in Seq(TextSegs(S) \cup FileSegs(s))
    BY <2>5, <2>6, AppendProperties
  <2>. QED BY <2>5, <2>7, <2>8 DEF AddFile
<1>. QED BY <1>1, <1>2

(* A command is one token of the line.                                     *)
LEMMA CommandType ==
  ASSUME NEW line \in Seq(Token)
  PROVE  /\ Command(line) # Unparsed => Command(line) \in Token
         /\ Command(line).k \in {"LIST", "GET", "PUT", "none"}
<1>1. CASE Len(line) = 1 /\ line[1].k \in {"LIST", "GET", "PUT"}
  <2>1. line[1] \in Token
    BY <1>1, ElementOfSeq
  <2>. QED BY <1>1, <2>1 DEF Command
<1>2. CASE ~(Len(line) = 1 /\ line[1].k \in {"LIST", "GET", "PUT"})
  BY <1>2 DEF Command, Unparsed
<1>. QED BY <1>1, <1>2

(* Who never wrote the password never passes for the user.                 *)
LEMMA NoCredentials ==
  ASSUME NEW In, Auth("good") \notin In, NEW line \in Seq(In)
  PROVE  Credentials(line) # "good"
<1>1. line # <<Auth("good")>>
  <2>. SUFFICES ASSUME line = <<Auth("good")>> PROVE FALSE
    OBVIOUS
  <2>1. Len(line) = 1 /\ line[1] = Auth("good")
    OBVIOUS
  <2>. QED BY <2>1, ElementOfSeq
<1>. QED BY <1>1 DEF Credentials

-----------------------------------------------------------------------------
(* callback_read.  A connection with what it read stays one.               *)
LEMMA ConnectionFields ==
  ASSUME NEW In, NEW Out, NEW q \in Connection(In, Out), UploadOK(q)
  PROVE  /\ \A inp \in Seq(In) : [q EXCEPT !.inp = inp] \in Connection(In, Out)
                                 /\ UploadOK([q EXCEPT !.inp = inp])
         /\ \A out \in Seq(Out) : [q EXCEPT !.out = out] \in Connection(In, Out)
                                  /\ UploadOK([q EXCEPT !.out = out])
         /\ q.out \in Seq(Out) /\ q.inp \in Seq(In)
BY DEF Connection, UploadOK

LEMMA ReplyType ==
  ASSUME NEW In, NEW S, NEW F, \A g \in F : g.file # NoFile,
         NEW q \in Connection(In, TextSegs(S) \cup F), UploadOK(q),
         NEW t \in S, Newline \in S
  PROVE  /\ Reply(q, t) \in Connection(In, TextSegs(S) \cup F)
         /\ UploadOK(Reply(q, t))
<1>1. TextLine(t) \in Seq(S)
  BY TextLineType
<1>2. AddText(q.out, TextLine(t)) \in Seq(TextSegs(S) \cup F)
  BY <1>1, AddTextType, ConnectionFields
<1>3. Reply(q, t) = [q EXCEPT !.out = AddText(q.out, TextLine(t))]
  BY DEF Reply
<1>. QED BY <1>2, <1>3, ConnectionFields

(* What remains of the input after the lines that were read.               *)
LEMMA InputType ==
  ASSUME NEW In, NEW b \in Seq(In), HasLine(b)
  PROVE  /\ LineOf(b) \in Seq(Readings(In))
         /\ AfterLine(b) \in Seq(In)
         /\ HasLine(AfterLine(b)) => /\ LineOf(AfterLine(b)) \in Seq(Readings(In))
                                     /\ AfterLine(AfterLine(b)) \in Seq(In)
BY LineType, Zenon

(* Without the password: the connection stays as it is, but for what was   *)
(* read and the refusal that may be added to its output.                   *)
LEMMA Refused ==
  ASSUME NEW In, Auth("good") \notin Readings(In), NEW S, Invalid \in S, Newline \in S,
         NEW c, NEW q \in Connection(In, TextSegs(S)), UploadOK(q),
         callback_read(c, q)
  PROVE  \E r \in Connection(In, TextSegs(S)) :
           UploadOK(r) /\ r.cb = q.cb /\ Becomes(c, r)
<1> DEFINE l2 == AfterLine(q.inp)
           r  == [q EXCEPT !.inp = AfterLine(l2)]
<1>1. q.inp \in Seq(In)
  BY DEF Connection
<1>2. CASE ~HasLine(q.inp)
  BY <1>2, Zenon DEF callback_read
<1>3. CASE HasLine(q.inp) /\ ~HasLine(l2)
  <2>1. Becomes(c, [q EXCEPT !.inp = l2])
    BY <1>3, Zenon DEF callback_read
  <2>2. l2 \in Seq(In)
    BY <1>1, <1>3, InputType
  <2>3. [q EXCEPT !.inp = l2].cb = q.cb
    BY DEF Connection
  <2>. QED BY <2>1, <2>2, <2>3, ConnectionFields, Zenon
<1>4. CASE HasLine(q.inp) /\ HasLine(l2)
  <2>1. LineOf(l2) \in Seq(Readings(In)) /\ AfterLine(l2) \in Seq(In)
    BY <1>1, <1>4, InputType
  <2>2. Credentials(LineOf(l2)) # "good"
    BY <2>1, NoCredentials
  <2>3. Becomes(c, r) \/ Becomes(c, Reply(r, Invalid))
    BY <1>4, <2>2, Zenon DEF callback_read
  <2>4. r \in Connection(In, TextSegs(S)) /\ UploadOK(r)
    BY <2>1, ConnectionFields
  <2>5. r.cb = q.cb
    BY DEF Connection
  <2>. HIDE DEF r
  <2>6. /\ Reply(r, Invalid) \in Connection(In, TextSegs(S) \cup {})
        /\ UploadOK(Reply(r, Invalid))
    <3>1. r \in Connection(In, TextSegs(S) \cup {})
      BY <2>4
    <3>. QED BY <2>4, <3>1, ReplyType
  <2>7. Reply(r, Invalid).cb = r.cb
    BY <2>4 DEF Reply, Connection
  <2>. QED BY <2>3, <2>4, <2>5, <2>6, <2>7
<1>. QED BY <1>2, <1>3, <1>4
(* A command in the name of the user leaves the connection in order.       *)
LEMMA ServedCommand ==
  ASSUME NEW In, NEW D, NEW c \in Conn, disk[c[2]] \in Files(D),
         NEW S, Answers(c[2]) \subseteq S,
         NEW q \in Connection(In, TextSegs(S) \cup FileSegs(c[2])), UploadOK(q),
         NEW cmd \in Token,
         ServeGet(c, q, cmd) \/ ServeList(c, q, cmd) \/ ServePut(c, q, cmd)
  PROVE  \E r \in Connection(In, TextSegs(S) \cup FileSegs(c[2])) :
           UploadOK(r) /\ EnterFolder(c, r)
<1> DEFINE s == c[2]
           Out == TextSegs(S) \cup FileSegs(s)
<1>1. s \in Server /\ Answers(s) \ {Ready} \subseteq S
  BY DEF Conn
<1>2. \A g \in FileSegs(s) : g.file # NoFile
  BY ChannelAssumption DEF FileSegs
<1>3. q.out \in Seq(Out)
  BY DEF Connection
<1>4. CASE ServeGet(c, q, cmd)
  <2>1. cmd.k = "GET" /\ cmd.f \in File \cup {NoFile} /\ cmd.p \in Nat
    BY <1>4, TokenFields, Zenon DEF ServeGet
  <2>2. CASE EnterFolder(c, q)
    BY <2>2
  <2>3. CASE EnterFolder(c, Reply(q, Bad))
    <3>1. Bad \in S /\ Newline \in S
      BY DEF Answers
    <3>2. Reply(q, Bad) \in Connection(In, Out) /\ UploadOK(Reply(q, Bad))
      BY <1>2, <3>1, ReplyType
    <3>. QED BY <2>3, <3>2
  <2>4. CASE cmd.f # NoFile /\ cmd.p = 0
    <3>. DEFINE Added(out, p) == AddPart(out, s, Path(cmd.f), p)
                out4 == Added(Added(Added(Added(q.out, 1), 2), 3), 4)
    <3>1. Path(cmd.f) \in File
      BY <2>1, <2>4, ChannelAssumption
    <3>2. ASSUME NEW out \in Seq(Out), NEW p \in Part PROVE Added(out, p) \in Seq(Out)
      BY <1>1, <3>1, AddPartType, Zenon
    <3>3. 1 \in Part /\ 2 \in Part /\ 3 \in Part /\ 4 \in Part
      BY DEF Part
    <3>. HIDE DEF Added, Out
    <3>4. out4 \in Seq(Out)
      BY <1>3, <3>2, <3>3, Zenon
    <3>5. EnterFolder(c, [q EXCEPT !.out = out4]) \/ EnterFolder(c, Reply(q, Bad)) \/ EnterFolder(c, q)
      BY <1>4, <2>4, Zenon DEF ServeGet, AddParts, Added, s
    <3>6. [q EXCEPT !.out = out4] \in Connection(In, Out) /\ UploadOK([q EXCEPT !.out = out4])
      BY <3>4, ConnectionFields, Zenon DEF Out
    <3>. HIDE DEF out4
    <3>. QED BY <2>2, <2>3, <3>5, <3>6, Zenon DEF Out
  <2>. QED BY <1>4, <2>2, <2>3, <2>4, Zenon DEF ServeGet
<1>5. CASE ServeList(c, q, cmd)
  <2>. DEFINE d == Listing(s) \o TextLine(Terminal)
  <2>1. TextLine(Terminal) \in Seq(S)
    <3>1. Terminal \in S /\ Newline \in S
      BY DEF Answers
    <3>. QED BY <3>1, TextLineType
  <2>2. d \in Seq(S)
    <3>1. Listing(s) \in Seq(S)
      BY <1>1, ListingType, SeqMonotonic
    <3>. QED BY <2>1, <3>1, ConcatProperties
  <2>3. EnterFolder(c, [q EXCEPT !.out = AddText(q.out, d)])
    BY <1>5, Zenon DEF ServeList
  <2>. HIDE DEF d
  <2>4. AddText(q.out, d) \in Seq(Out)
    BY <1>2, <1>3, <2>2, AddTextType
  <2>. QED BY <2>3, <2>4, ConnectionFields
<1>6. CASE ServePut(c, q, cmd)
  <2>1. CASE EnterFolder(c, q)
    BY <2>1
  <2>2. CASE cmd.f # NoFile /\ EnterFolder(c, BeginPut(q, cmd.f))
    <3>1. Path(cmd.f) \in File
      BY <1>6, <2>2, TokenFields, ChannelAssumption DEF ServePut
    <3>2. Ready \in S /\ Newline \in S
      BY DEF Answers
    <3>3. Reply(q, Ready) \in Connection(In, Out) /\ UploadOK(Reply(q, Ready))
      BY <1>2, <3>2, ReplyType
    <3>. HIDE DEF Out
    <3>a. PICK path : path = Path(cmd.f)
      OBVIOUS
    <3>b. path \in File /\ path # NoFile
      BY <3>1, <3>a, ChannelAssumption
    <3>c. BeginPut(q, cmd.f) = [Reply(q, Ready) EXCEPT !.filename = path, !.cb = "put"]
      BY <3>a DEF BeginPut
    <3>4. BeginPut(q, cmd.f) \in Connection(In, Out) /\ UploadOK(BeginPut(q, cmd.f))
      BY <3>b, <3>c, <3>3 DEF Connection, UploadOK
    <3>. QED BY <2>2, <3>4 DEF Out
  <2>. QED BY <1>6, <2>1, <2>2, Zenon DEF ServePut
<1>. QED BY <1>4, <1>5, <1>6

(* callback_read, whoever is at the other end.                             *)
LEMMA Served ==
  ASSUME NEW In, In \subseteq Token, NEW D, NEW c \in Conn, disk[c[2]] \in Files(D),
         NEW S, Answers(c[2]) \subseteq S,
         NEW q \in Connection(In, TextSegs(S) \cup FileSegs(c[2])), UploadOK(q),
         callback_read(c, q)
  PROVE  \E r \in Connection(In, TextSegs(S) \cup FileSegs(c[2])) :
           UploadOK(r) /\ (Becomes(c, r) \/ EnterFolder(c, r))
<1> DEFINE l2  == AfterLine(q.inp)
           r   == [q EXCEPT !.inp = AfterLine(l2)]
           cmd == Command(LineOf(q.inp))
<1>1. q.inp \in Seq(In)
  BY DEF Connection
<1>2. CASE ~HasLine(q.inp)
  BY <1>2, Zenon DEF callback_read
<1>3. CASE HasLine(q.inp) /\ ~HasLine(l2)
  <2>1. Becomes(c, [q EXCEPT !.inp = l2])
    BY <1>3, Zenon DEF callback_read
  <2>2. l2 \in Seq(In)
    BY <1>1, <1>3, InputType
  <2>. QED BY <2>1, <2>2, ConnectionFields, Zenon
<1>4. CASE HasLine(q.inp) /\ HasLine(l2)
  <2>1. LineOf(q.inp) \in Seq(Readings(In)) /\ AfterLine(l2) \in Seq(In)
    BY <1>1, <1>4, InputType
  <2>2. LineOf(q.inp) \in Seq(Token)
    BY <2>1, ReadingsType, SeqMonotonic
  <2>3. cmd # Unparsed => cmd \in Token
    BY <2>2, CommandType
  <2>4. r \in Connection(In, TextSegs(S) \cup FileSegs(c[2])) /\ UploadOK(r)
    BY <2>1, ConnectionFields
  <2>5. \/ Becomes(c, r) \/ Becomes(c, Reply(r, Invalid))
        \/ cmd # Unparsed /\ (ServeGet(c, r, cmd) \/ ServeList(c, r, cmd) \/ ServePut(c, r, cmd))
    BY <1>4, Zenon DEF callback_read
  <2>. HIDE DEF r, cmd
  <2>6. /\ Reply(r, Invalid) \in Connection(In, TextSegs(S) \cup FileSegs(c[2]))
        /\ UploadOK(Reply(r, Invalid))
    <3>1. \A g \in FileSegs(c[2]) : g.file # NoFile
      BY ChannelAssumption DEF FileSegs
    <3>2. Invalid \in S /\ Newline \in S
      BY DEF Answers
    <3>. QED BY <2>4, <3>1, <3>2, ReplyType
  <2>7. CASE cmd # Unparsed /\ (ServeGet(c, r, cmd) \/ ServeList(c, r, cmd) \/ ServePut(c, r, cmd))
    BY <2>3, <2>4, <2>7, ServedCommand, Zenon
  <2>. QED BY <2>4, <2>5, <2>6, <2>7, Zenon
<1>. QED BY <1>2, <1>3, <1>4
-----------------------------------------------------------------------------
(* callback_put.  files2 is files with new contents, made of tokens of S,  *)
(* for parts of f, where these can be created.                             *)
Adds(c, f, S, files, files2) ==
  \A g \in File, p \in Number :
    files2[g][p] # files[g][p] => g = f /\ Opens(c[2], f) /\ files2[g][p] \in Seq(S)

LEMMA AddsTwice ==
  ASSUME NEW c, NEW f, NEW S, NEW a, NEW b, NEW d,
         Adds(c, f, S, a, b), Adds(c, f, S, b, d)
  PROVE  Adds(c, f, S, a, d)
<1>. SUFFICES ASSUME NEW g \in File, NEW p \in Number, d[g][p] # a[g][p]
              PROVE  g = f /\ Opens(c[2], f) /\ d[g][p] \in Seq(S)
  BY Zenon DEF Adds
<1>1. CASE d[g][p] = b[g][p]
  BY <1>1, Zenon DEF Adds
<1>2. CASE d[g][p] # b[g][p]
  BY <1>2, Zenon DEF Adds
<1>. QED BY <1>1, <1>2, Zenon

(* Storing writes the bytes that were announced to the part that was, or,  *)
(* cut short, the first n of them.                                         *)
LEMMA StoringType ==
  ASSUME NEW In, NEW D, In \subseteq D, NEW files \in Files(D), NEW c, NEW n \in Nat,
         NEW q, q.inp \in Seq(In), q.filename \in File,
         q.partnum \in Number, Opens(c[2], q.filename)
  PROVE  /\ StoringFirst(files, q, n) \in Files(D)
         /\ Adds(c, q.filename, In, files, StoringFirst(files, q, n))
<1> DEFINE v == Take(q.inp, n)
           f == q.filename
           m == q.partnum
           t == [files EXCEPT ![f][m] = v]
<1>1. v \in Seq(In) /\ v \in Seq(D)
  BY TakeDropType, SeqMonotonic
<1>2. f \in File /\ m \in Number
  OBVIOUS
<1>. HIDE DEF v, f, m
<1>3. t \in Files(D)
  BY <1>1, <1>2 DEF Files
<1>4. ASSUME NEW g \in File, NEW p \in Number, t[g][p] # files[g][p]
      PROVE  g = f /\ t[g][p] = v
  BY <1>2, <1>4 DEF Files
<1>5. StoringFirst(files, q, n) = t
  BY Zenon DEF StoringFirst, v, f, m
<1>. HIDE DEF t
<1>6. Adds(c, f, In, files, t)
  BY <1>1, <1>4 DEF Adds, f
<1>. QED BY <1>3, <1>5, <1>6 DEF f

(* How the loop goes on: the connection and the folder it works on.        *)
LEMMA AtFields ==
  ASSUME NEW q, NEW files, NEW go
  PROVE  At(q, files, go).q = q /\ At(q, files, go).files = files /\ At(q, files, go).go = go
BY DEF At

(* The header half of the loop body: when the loop goes on, the upload     *)
(* waits for the bytes of a part that the header named.                    *)
LEMMA HeaderType ==
  ASSUME NEW In, In \subseteq Token, NEW Out, NEW h,
         h.q \in Connection(In, Out), UploadOK(h.q)
  PROVE  /\ PutHeader(h).q \in Connection(In, Out) /\ UploadOK(PutHeader(h).q)
         /\ PutHeader(h).files = h.files
         /\ PutHeader(h).go = "on" => /\ h.go = "on"
                                      /\ PutHeader(h).q.filename = h.q.filename
                                      /\ PutHeader(h).q.putState \in {1, 3}
<1> DEFINE q    == h.q
           line == LineOf(q.inp)
           rest == AfterLine(q.inp)
           qR   == [q EXCEPT !.inp = rest, !.cb = "read"]
           qH   == [q EXCEPT !.inp = rest, !.partnum = line[1].p, !.wantedSize = line[1].l,
                             !.putState = q.putState + 1]
<1>1. CASE h.go # "on" \/ q.putState \notin {0, 2}
  <2>1. PutHeader(h) = h
    BY <1>1, Zenon DEF PutHeader
  <2>2. h.go = "on" => q.putState \in {1, 3}
    BY <1>1 DEF Connection
  <2>. QED BY <2>1, <2>2, Zenon
<1>2. CASE h.go = "on" /\ q.putState \in {0, 2} /\ ~HasLine(q.inp)
  <2>1. PutHeader(h) = At(q, h.files, "crash")
    BY <1>2, Zenon DEF PutHeader
  <2>. QED BY <2>1, AtFields
<1>3. CASE h.go = "on" /\ q.putState \in {0, 2} /\ HasLine(q.inp)
  <2>1. line \in Seq(Token) /\ rest \in Seq(In)
    <3>1. q.inp \in Seq(In)
      BY DEF Connection
    <3>2. LineOf(q.inp) \in Seq(Readings(In)) /\ AfterLine(q.inp) \in Seq(In)
      BY <1>3, <3>1, LineType
    <3>. QED BY <3>2, ReadingsType, SeqMonotonic
  <2>2. CASE Len(line) # 1 \/ line[1].k # "header"
    <3>1. PutHeader(h) = At(qR, h.files, "return")
      BY <1>3, <2>2, Zenon DEF PutHeader
    <3>. HIDE DEF rest
    <3>2. qR \in Connection(In, Out) /\ UploadOK(qR)
      BY <2>1 DEF Connection, UploadOK
    <3>. HIDE DEF qR
    <3>. QED BY <3>1, <3>2, AtFields
  <2>3. CASE ~(Len(line) # 1 \/ line[1].k # "header")
    <3>1. PutHeader(h) = At(qH, h.files, IF rest = <<>> THEN "return" ELSE "on")
      BY <1>3, <2>3, Zenon DEF PutHeader
    <3>2. line[1] \in Token /\ line[1].k = "header"
      BY <2>1, <2>3, ElementOfSeq
    <3>3. line[1].p \in Number /\ line[1].l \in Nat
      BY <3>2, TokenFields
    <3>4. line[1].p \in Number \cup {0} /\ q.putState + 1 \in 0..3 /\ q.putState + 1 \in {1, 3}
      BY <1>3, <3>3
    <3>. DEFINE st == q.putState + 1
                pn == line[1].p
                ws == line[1].l
    <3>5. qH = [q EXCEPT !.inp = rest, !.partnum = pn, !.wantedSize = ws, !.putState = st]
      OBVIOUS
    <3>. HIDE DEF qH, rest, line, st, pn, ws
    <3>6. qH \in Connection(In, Out)
      BY <2>1, <3>3, <3>4, <3>5 DEF Connection, st, pn, ws
    <3>7. /\ qH.putState \in {1, 3} /\ qH.partnum \in Number
          /\ qH.filename = q.filename /\ qH.cb = q.cb
      BY <3>3, <3>4, <3>5 DEF Connection, st, pn
    <3>8. UploadOK(qH)
      BY <3>7, Zenon DEF UploadOK
    <3>9. PutHeader(h).q = qH /\ PutHeader(h).files = h.files
      <4>1. PICK go2 : PutHeader(h) = At(qH, h.files, go2)
        BY <3>1, Zenon
      <4>. QED BY <4>1, AtFields
    <3>. QED BY <1>3, <3>6, <3>7, <3>8, <3>9, Zenon
  <2>. QED BY <2>2, <2>3, Zenon
<1>. QED BY <1>1, <1>2, <1>3, Zenon

(* The data half stores one part of the file, where it can be created.     *)
LEMMA DataType ==
  ASSUME NEW In, NEW D, In \subseteq D, NEW Out, NEW c, NEW f \in File, NEW h,
         h.q \in Connection(In, Out), UploadOK(h.q), h.files \in Files(D),
         h.go = "on" => h.q.filename = f /\ h.q.putState \in {1, 3}
  PROVE  /\ PutData(c, h).q \in Connection(In, Out) /\ UploadOK(PutData(c, h).q)
         /\ PutData(c, h).files \in Files(D)
         /\ Adds(c, f, In, h.files, PutData(c, h).files)
         /\ PutData(c, h).go = "on" => PutData(c, h).q.filename = f
<1> DEFINE q    == h.q
           inp  == IF Enough(q) THEN Drop(q.inp, q.wantedSize) ELSE q.inp
           files2 == IF Enough(q) THEN Storing(h.files, q) ELSE h.files
           qA == [q EXCEPT !.inp = inp, !.cb = "read"]
           qB == Finished([q EXCEPT !.inp = inp])
           qC == [q EXCEPT !.inp = inp, !.putState = 2]
<1>1. Adds(c, f, In, h.files, h.files)
  BY Zenon DEF Adds
<1>2. CASE h.go # "on"
  <2>1. PutData(c, h) = h
    BY <1>2, Zenon DEF PutData
  <2>. QED BY <1>1, <1>2, <2>1
<1>3. CASE h.go = "on"
  <2>1. q.inp \in Seq(In) /\ q.wantedSize \in Nat /\ q.partnum \in Number /\ q.filename = f
    BY <1>3 DEF Connection, UploadOK
  <2>2. inp \in Seq(In)
    BY <2>1, TakeDropType
  <2>. HIDE DEF inp
  <2>3. CASE Enough(q) /\ ~Opens(c[2], q.filename)
    <3>1. PutData(c, h) = At(qA, h.files, "return")
      BY <1>3, <2>3, Zenon DEF PutData, inp
    <3>2. qA \in Connection(In, Out) /\ UploadOK(qA)
      BY <2>2 DEF Connection, UploadOK
    <3>. HIDE DEF qA
    <3>. QED BY <1>1, <3>1, <3>2, AtFields
  <2>4. CASE ~(Enough(q) /\ ~Opens(c[2], q.filename))
    <3>1. files2 \in Files(D) /\ Adds(c, f, In, h.files, files2)
      BY <1>1, <2>1, <2>4, StoringType DEF Storing
    <3>. HIDE DEF files2
    <3>2. CASE q.putState = 3
      <4>1. PutData(c, h) = At(qB, files2, "return")
        BY <1>3, <2>4, <3>2, Zenon DEF PutData, inp, files2
      <4>2. [q EXCEPT !.inp = inp] \in Connection(In, Out)
        BY <2>2 DEF Connection
      <4>. DEFINE qI == [q EXCEPT !.inp = inp]
      <4>. HIDE DEF qI
      <4>zero. PICK zero : zero = 0 /\ zero \in 0..3 /\ zero \in Nat /\ zero \in Number \cup {0}
        OBVIOUS
      <4>3. qB \in Connection(In, Out)
        BY <4>2, <4>zero DEF Connection, Finished, qI
      <4>4. qB.cb = "read" /\ qB.putState = 0
        BY <4>2 DEF Connection, Finished
      <4>5. UploadOK(qB)
        BY <4>4 DEF UploadOK
      <4>. HIDE DEF qB
      <4>. QED BY <3>1, <4>1, <4>3, <4>5, AtFields
    <3>3. CASE q.putState # 3
      <4>1. PutData(c, h) = At(qC, files2, IF inp = <<>> THEN "return" ELSE "on")
        BY <1>3, <2>4, <3>3, Zenon DEF PutData, inp, files2
      <4>two. PICK two : two = 2 /\ two \in 0..3
        OBVIOUS
      <4>2. qC \in Connection(In, Out)
        <5>1. [q EXCEPT !.inp = inp, !.putState = two] \in Connection(In, Out)
          BY <2>2, <4>two DEF Connection
        <5>. QED BY <4>two, <5>1
      <4>3. qC.putState = 2 /\ qC.filename = q.filename /\ qC.cb = q.cb
        BY DEF Connection
      <4>4. UploadOK(qC)
        BY <4>3 DEF UploadOK
      <4>. HIDE DEF qC
      <4>5. PutData(c, h).q = qC /\ PutData(c, h).files = files2
        <5>1. PICK go2 : PutData(c, h) = At(qC, files2, go2)
          BY <4>1, Zenon
        <5>. QED BY <5>1, AtFields
      <4>. QED BY <2>1, <3>1, <4>2, <4>3, <4>4, <4>5, Zenon
    <3>. QED BY <3>2, <3>3
  <2>. QED BY <2>3, <2>4
<1>. QED BY <1>2, <1>3

(* Both halves, once.                                                      *)
LEMMA RoundType ==
  ASSUME NEW In, NEW D, In \subseteq D, In \subseteq Token, NEW Out, NEW c, NEW f \in File,
         NEW h, h.q \in Connection(In, Out), UploadOK(h.q), h.files \in Files(D),
         h.go = "on" => h.q.filename = f,
         NEW h2, h2 = PutData(c, PutHeader(h))
  PROVE  /\ h2.q \in Connection(In, Out) /\ UploadOK(h2.q)
         /\ h2.files \in Files(D)
         /\ Adds(c, f, In, h.files, h2.files)
         /\ h2.go = "on" => h2.q.filename = f
<1>1. PICK h1 : h1 = PutHeader(h)
  OBVIOUS
<1>2. /\ h1.q \in Connection(In, Out) /\ UploadOK(h1.q)
      /\ h1.files = h.files
      /\ h1.go = "on" => h.go = "on" /\ h1.q.filename = h.q.filename /\ h1.q.putState \in {1, 3}
  BY <1>1, HeaderType, Zenon
<1>3. /\ h1.files \in Files(D)
      /\ h1.go = "on" => h1.q.filename = f /\ h1.q.putState \in {1, 3}
  BY <1>2, Zenon
<1>4. /\ PutData(c, h1).q \in Connection(In, Out) /\ UploadOK(PutData(c, h1).q)
      /\ PutData(c, h1).files \in Files(D)
      /\ Adds(c, f, In, h1.files, PutData(c, h1).files)
      /\ PutData(c, h1).go = "on" => PutData(c, h1).q.filename = f
  BY <1>2, <1>3, DataType
<1>5. h2 = PutData(c, h1)
  BY <1>1
<1>. QED BY <1>2, <1>4, <1>5, Zenon

(* The whole loop: what callback_put makes of an upload of f.              *)
LEMMA LoopType ==
  ASSUME NEW In, NEW D, In \subseteq D, In \subseteq Token, NEW Out, NEW c,
         NEW q \in Connection(In, Out), UploadOK(q), q.filename \in File,
         disk[c[2]] \in Files(D), NEW h \in PutLoop(c, q)
  PROVE  /\ h.q \in Connection(In, Out) /\ UploadOK(h.q)
         /\ h.files \in Files(D)
         /\ Adds(c, q.filename, In, disk[c[2]], h.files)
<1> DEFINE f == q.filename
<1>1. PICK h0, h1 : /\ h0 = Loop(c, q)
                    /\ h1 = PutData(c, PutHeader(h0))
                    /\ h = PutData(c, PutHeader(h1))
  BY Zenon DEF PutLoop, PutRound, Headers
<1>2. h0.q = q /\ h0.files = disk[c[2]]
  BY <1>1, AtFields DEF Loop
<1>3. /\ h1.q \in Connection(In, Out) /\ UploadOK(h1.q)
      /\ h1.files \in Files(D)
      /\ Adds(c, f, In, h0.files, h1.files)
      /\ h1.go = "on" => h1.q.filename = f
  <2>1. /\ h0.q \in Connection(In, Out) /\ UploadOK(h0.q) /\ h0.files \in Files(D)
        /\ h0.q.filename = f /\ f \in File
    BY <1>2, Zenon
  <2>2. h1 = PutData(c, PutHeader(h0)) /\ (h0.go = "on" => h0.q.filename = f)
    BY <1>1, <2>1
  <2>. HIDE DEF f
  <2>. QED BY <2>1, <2>2, RoundType
<1>4. /\ h.q \in Connection(In, Out) /\ UploadOK(h.q)
      /\ h.files \in Files(D)
      /\ Adds(c, f, In, h1.files, h.files)
  BY <1>1, <1>3, RoundType, Zenon
<1>5. Adds(c, f, In, disk[c[2]], h.files)
  BY <1>2, <1>3, <1>4, AddsTwice, Zenon
<1>. QED BY <1>4, <1>5, Zenon

(* What a kill in the middle of the loop leaves of a part.                 *)
LEMMA WritesType ==
  ASSUME NEW In, NEW D, In \subseteq D, In \subseteq Token, NEW Out, NEW c,
         NEW q \in Connection(In, Out), UploadOK(q), q.filename \in File,
         disk[c[2]] \in Files(D), NEW g \in Writes(c, q), NEW m \in Nat
  PROVE  /\ StoringFirst(g.files, g.q, m) \in Files(D)
         /\ Adds(c, q.filename, In, disk[c[2]], StoringFirst(g.files, g.q, m))
<1> DEFINE f  == q.filename
           h0 == Loop(c, q)
<1>1. h0.q = q /\ h0.files = disk[c[2]]
  BY AtFields DEF Loop
<1>2. PICK h : /\ h = h0 \/ h = PutData(c, PutHeader(h0))
               /\ g = PutHeader(h) /\ g.go = "on" /\ Opens(c[2], g.q.filename)
  BY Zenon DEF Writes, Headers, PutRound
<1>. HIDE DEF h0
<1>3. /\ h.q \in Connection(In, Out) /\ UploadOK(h.q) /\ h.files \in Files(D)
      /\ Adds(c, f, In, disk[c[2]], h.files)
      /\ h.go = "on" => h.q.filename = f
  <2>1. CASE h = h0
    BY <1>1, <2>1, Zenon DEF Adds
  <2>2. CASE h = PutData(c, PutHeader(h0))
    <3>1. /\ h0.q \in Connection(In, Out) /\ UploadOK(h0.q) /\ h0.files \in Files(D)
          /\ h0.go = "on" => h0.q.filename = f
      BY <1>1
    <3>. HIDE DEF f
    <3>2. f \in File
      BY DEF f
    <3>3. /\ h.q \in Connection(In, Out) /\ UploadOK(h.q) /\ h.files \in Files(D)
          /\ Adds(c, f, In, h0.files, h.files)
          /\ h.go = "on" => h.q.filename = f
      BY <2>2, <3>1, <3>2, RoundType
    <3>. QED BY <1>1, <3>3
  <2>. QED BY <1>2, <2>1, <2>2
<1>4. /\ g.q \in Connection(In, Out) /\ UploadOK(g.q)
      /\ g.files = h.files
      /\ g.q.filename = f /\ g.q.putState \in {1, 3}
  BY <1>2, <1>3, HeaderType, Zenon
<1>5. g.q.inp \in Seq(In) /\ g.q.partnum \in Number /\ g.files \in Files(D)
  BY <1>3, <1>4 DEF Connection, UploadOK
<1>6. Opens(c[2], g.q.filename) /\ g.q.filename \in File
  BY <1>2, <1>4
<1>7. /\ StoringFirst(g.files, g.q, m) \in Files(D)
      /\ Adds(c, g.q.filename, In, g.files, StoringFirst(g.files, g.q, m))
  BY <1>5, <1>6, StoringType
<1>. QED BY <1>3, <1>4, <1>7, AddsTwice, Zenon
=============================================================================
