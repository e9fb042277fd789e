---------------------------- MODULE UploadProofs ----------------------------
(***************************************************************************)
(* No torn part: every part on the disk of a server is the very part of an *)
(* uploaded version that the server was to get, or the beginning of it     *)
(* that a kill has left, however the streams are cut and whoever dies.     *)
(* The inductive invariant says what one connection of the upload protocol *)
(* may hold, as a relation between the state of the server's callback, the *)
(* client's output buffer and what lies between.  The operators up to      *)
(* Protocol are of constant level: q is the server's end, k the client's   *)
(* end, w and b are the bytes on their way to the server and to the        *)
(* client, U are the versions that users have uploaded.                    *)
(***************************************************************************)
EXTENDS DFSProofs

(* The text of part p of version v, as it leaves the client.               *)
PartText(v, p) == HeaderLine(p, PartLength(Size(v), p)) \o PartOf(v, p)
First(v, s)    == Pair(FilePieces(s, HashMod(v)))[1]
Second(v, s)   == Pair(FilePieces(s, HashMod(v)))[2]
Request(v, a)  == TextLine(Put(FileOf(v))) \o TextLine(Auth(a))

Nth(b, n)     == IF n \in 1..Len(b) THEN b[n] ELSE <<>>
Buffered(out) == Nth(out, 1) \o (Nth(out, 2) \o (Nth(out, 3) \o Nth(out, 4)))

-----------------------------------------------------------------------------
(* Tokens that are not the request of an upload; tokens that are not its   *)
(* answer; tokens that follow a request in the same write.                 *)
NotPut   == { t \in Written : t.k # "PUT" }
NotReady == Token \ {Ready}
Closing  == {Newline} \cup { Auth(a) : a \in {"good", "bad", "short"} }

(* r is what the server has sent and the client has not looked at.         *)
Silent(out) == \A n \in 1..Len(out) : out[n].data \in Seq(NotReady)
NoReady(q, r) == r \in Seq(NotReady) /\ Silent(q.out)

EndsReady(out) ==
  \A n \in 1..Len(out) : \A i \in 1..Len(out[n].data) :
    out[n].data[i] = Ready => n = Len(out) /\ i = Len(out[n].data) - 1
ReadyLast(q, r) == /\ \A i \in 1..Len(r) : r[i] = Ready => i = Len(r) - 1 /\ q.out = <<>>
                   /\ EndsReady(q.out)

(* t is what the client has sent and the server has not looked at: nothing *)
(* follows the request of an upload before it is answered.                 *)
PutLast(t) == \A i \in 1..Len(t) : t[i].k = "PUT" =>
                Len(t) <= i + 3 /\ \A j \in (i + 1)..Len(t) : t[j] \in Closing

(* The client waits for the answer; it sends the file.                     *)
InPut(k) == k.loop /\ ~k.wcb /\ k.cb \in {"put", "none"}
Sends(k) == k.loop /\ k.wcb /\ k.cb = "none" /\ Len(k.out) <= 4

(* The server has answered and nothing has come since.                     *)
Waits(q, k, w, open) ==
  /\ q.putState \in {0, 2} /\ w = <<>>
  /\ open => k.out = <<>> /\ InPut(k) /\ k.version \in Version /\ PathOf(k.version) = q.filename

(* The upload waits for the header of part p or for its bytes, and then    *)
(* for more: this is still due.                                            *)
More(v, s) == {<<>>} \cup { PartText(v, p) : p \in PartsOf(s, HashMod(v)) }
Awaits(q, v, p, more) ==
  /\ q.putState \in {0, 1} => more # <<>>
  /\ q.putState \in {1, 3} => q.partnum = p /\ q.wantedSize = PartLength(Size(v), p)
Due(q, v, p, more) == (IF q.putState \in {0, 2} THEN PartText(v, p) ELSE PartOf(v, p)) \o more

Agrees(t, e) == \A i \in 1..Len(t) : i <= Len(e) => t[i] = e[i]
OnItsWay(k, t, open, e) ==
  /\ Agrees(t, e)
  /\ open => Len(t) >= Len(e) \/ (Sends(k) /\ t \o Buffered(k.out) = e)

Receives(s, q, k, t, open, U) ==
  \E v \in U : \E p \in PartsOf(s, HashMod(v)), more \in More(v, s) :
    /\ PathOf(v) = q.filename /\ Awaits(q, v, p, more)
    /\ OnItsWay(k, t, open, Due(q, v, p, more))

ServerPhase(s, q, k, w, open, U) ==
  /\ q.cb = "read" => q.putState \in {0, 2}
  /\ q.cb = "put" => q.inp = <<>> /\ (Waits(q, k, w, open) \/ Receives(s, q, k, w, open, U))

(* An open connection carries no request of an upload and no answer to     *)
(* one; or a request that is not answered; or the answer.                  *)
Talks(q, k, t, r) == t \in Seq(NotPut) /\ k.out \in Seq(Seq(NotPut)) /\ NoReady(q, r)

Asking(k, t) ==
  /\ t \in Seq(NotPut) /\ k.out # <<>>
  /\ \A n \in 1..(Len(k.out) - 1) : k.out[n] \in Seq(NotPut)
  /\ \E a \in {"good", "bad", "short"} : k.out[Len(k.out)] = Request(k.version, a)
Asked(k, t) == k.out = <<>> /\ \A i \in 1..Len(t) : t[i].k = "PUT" => t[i].f = FileOf(k.version)
Asks(q, k, t, r) == InPut(k) /\ k.version \in Version /\ NoReady(q, r) /\ (Asking(k, t) \/ Asked(k, t))

Answered(q, k, w, r) == q.cb = "put" /\ q.inp = <<>> /\ Waits(q, k, w, TRUE) /\ ReadyLast(q, r)

ClientPhase(q, k, w, b, open) == open =>
  \/ Talks(q, k, q.inp \o w, k.inp \o b)
  \/ Asks(q, k, q.inp \o w, k.inp \o b)
  \/ Answered(q, k, w, k.inp \o b)

Protocol(s, q, k, w, b, open, U) ==
  /\ ServerPhase(s, q, k, w, open, U)
  /\ ClientPhase(q, k, w, b, open)
  /\ PutLast(q.inp \o w)
  /\ k.cb = "put" => k.version \in U

-----------------------------------------------------------------------------
Ups == { v \in Version : Uploaded(v) }

Links(c) ==
  /\ net[c] = "open" => con[c].rd
  /\ prog[c[1]].life = "new" => /\ net[c] = "none" /\ con[c] = NewConnection /\ srv[c] = Absent
                                /\ c2s[c] = Empty /\ s2c[c] = Empty
  /\ ~srv[c].open => srv[c] = Absent

Usable(s) == s \notin Unwritable
UploadOn(c) ==
  Usable(c[2]) => /\ srv[c].cb = "put" => folder[c[2]]
                  /\ Protocol(c[2], srv[c], con[c], c2s[c].data, s2c[c].data, net[c] = "open", Ups)

(* A part that was stored, or what a server that was killed meanwhile has  *)
(* written of it.                                                          *)
IsPart(d, s, v, p) == d = PartOf(v, p) \/ (MayBeTorn(s) /\ Begins(d, PartOf(v, p)))
PartsRight(files, s, U) ==
  \A f \in File, p \in Number : files[f][p] # NoPart =>
    \E v \in U : PathOf(v) = f /\ p \in PartsOf(s, HashMod(v)) /\ IsPart(files[f][p], s, v, p)
PartsAreRight == \A s \in Server : PartsRight(disk[s], s, Ups)

UploadsInv ==
  /\ \A c \in Conn : Links(c) /\ UploadOn(c)
  /\ \A s \in Unwritable : ~folder[s]
  /\ PartsAreRight
-----------------------------------------------------------------------------
(* Streams: what is taken off the front, and what is left.                 *)
LEMMA TokensJoined ==
  ASSUME NEW x \in Seq(Token), NEW y \in Seq(Token), NEW z \in Seq(Token)
  PROVE  (x \o y) \o z = x \o (y \o z)
BY ConcatAssociative

LEMMA WrittenJoined ==
  ASSUME NEW x \in Seq(Written), NEW y \in Seq(Written), NEW z \in Seq(Written)
  PROVE  (x \o y) \o z = x \o (y \o z)
BY ConcatAssociative

LEMMA NotPutJoined ==
  ASSUME NEW x \in Seq(NotPut), NEW y \in Seq(NotPut), NEW z \in Seq(NotPut)
  PROVE  (x \o y) \o z = x \o (y \o z)
BY ConcatAssociative

LEMMA Split ==
  ASSUME NEW S, NEW b \in Seq(S), NEW n \in Nat
  PROVE  Take(b, n) \o Drop(b, n) = b
<1>1. /\ Take(b, n) \in Seq(S) /\ Len(Take(b, n)) = IF n < Len(b) THEN n ELSE Len(b)
      /\ \A i \in 1..Len(Take(b, n)) : Take(b, n)[i] = b[i]
  BY TakeElements
<1>2. /\ Drop(b, n) \in Seq(S) /\ Len(Drop(b, n)) = IF n < Len(b) THEN Len(b) - n ELSE 0
      /\ \A i \in 1..Len(Drop(b, n)) : Drop(b, n)[i] = b[n + i]
  BY DropElements
<1> DEFINE x == Take(b, n)
           y == Drop(b, n)
<1>. HIDE DEF x, y
<1>3. Len(b) \in Nat /\ Len(x) \in Nat /\ Len(y) \in Nat
  BY <1>1, <1>2, LenProperties DEF x, y
<1>4. /\ x \o y \in Seq(S) /\ Len(x \o y) = Len(x) + Len(y)
      /\ \A i \in 1..(Len(x) + Len(y)) : (x \o y)[i] = IF i <= Len(x) THEN x[i] ELSE y[i - Len(x)]
  BY <1>1, <1>2, ConcatProperties DEF x, y
<1>5. Len(x \o y) = Len(b)
  BY <1>1, <1>2, <1>3, <1>4 DEF x, y
<1>6. ASSUME NEW i \in 1..Len(b) PROVE (x \o y)[i] = b[i]
  <2>1. CASE i <= Len(x)
    BY <1>1, <1>3, <1>4, <1>5, <2>1 DEF x
  <2>2. CASE ~(i <= Len(x))
    <3>1. Len(x) = n /\ i - n \in 1..Len(y) /\ n + (i - n) = i
      BY <1>1, <1>3, <1>4, <1>5, <2>2 DEF x
    <3>2. y[i - n] = b[n + (i - n)]
      BY <1>2, <3>1 DEF y
    <3>. QED BY <1>3, <1>4, <1>5, <2>2, <3>1, <3>2
  <2>. QED BY <2>1, <2>2
<1>7. x \o y = b
  BY <1>4, <1>5, <1>6, SeqEqual
<1>. QED BY <1>7 DEF x, y

LEMMA DropFront ==
  ASSUME NEW S, NEW a \in Seq(S), NEW b \in Seq(S)
  PROVE  Drop(a \o b, Len(a)) = b /\ Take(a \o b, Len(a)) = a
<1>1. /\ a \o b \in Seq(S) /\ Len(a \o b) = Len(a) + Len(b)
      /\ \A i \in 1..(Len(a) + Len(b)) : (a \o b)[i] = IF i <= Len(a) THEN a[i] ELSE b[i - Len(a)]
      /\ Len(a) \in Nat /\ Len(b) \in Nat
  BY ConcatProperties, LenProperties
<1> DEFINE ab == a \o b
           x == Drop(ab, Len(a))
           y == Take(ab, Len(a))
<1>. ab \in Seq(S)
  BY <1>1
<1>. HIDE DEF ab
<1>2. /\ x \in Seq(S) /\ Len(x) = IF Len(a) < Len(ab) THEN Len(ab) - Len(a) ELSE 0
      /\ \A i \in 1..Len(x) : x[i] = ab[Len(a) + i]
  BY <1>1, DropElements
<1>3. /\ y \in Seq(S) /\ Len(y) = IF Len(a) < Len(ab) THEN Len(a) ELSE Len(ab)
      /\ \A i \in 1..Len(y) : y[i] = ab[i]
  BY <1>1, TakeElements
<1>. HIDE DEF x, y
<1>4. Len(x) = Len(b) /\ Len(y) = Len(a)
  BY <1>1, <1>2, <1>3 DEF ab
<1>5. ASSUME NEW i \in 1..Len(b) PROVE x[i] = b[i]
  <2>1. Len(a) + i \in 1..(Len(a) + Len(b)) /\ ~(Len(a) + i <= Len(a)) /\ (Len(a) + i) - Len(a) = i
    BY <1>1
  <2>. QED BY <1>1, <1>2, <1>4, <2>1 DEF ab
<1>6. ASSUME NEW i \in 1..Len(a) PROVE y[i] = a[i]
  <2>1. i \in 1..(Len(a) + Len(b)) /\ i <= Len(a)
    BY <1>1
  <2>. QED BY <1>1, <1>3, <1>4, <2>1 DEF ab
<1>7. x = b /\ y = a
  BY <1>2, <1>3, <1>4, <1>5, <1>6, SeqEqual
<1>. QED BY <1>7 DEF x, y, ab

LEMMA TakenFirst ==
  ASSUME NEW S, NEW b \in Seq(S), NEW n \in Nat, NEW m \in 0..n
  PROVE  Take(Take(b, n), m) = Take(b, m)
<1> DEFINE x == Take(b, n)
<1>1. /\ x \in Seq(S) /\ Len(x) = (IF n < Len(b) THEN n ELSE Len(b))
      /\ \A i \in 1..Len(x) : x[i] = b[i]
  BY TakeElements
<1>. HIDE DEF x
<1>2. m \in Nat /\ Len(b) \in Nat
  BY LenProperties
<1> DEFINE y == Take(x, m)
           z == Take(b, m)
<1>3. /\ y \in Seq(S) /\ Len(y) = (IF m < Len(x) THEN m ELSE Len(x))
      /\ \A i \in 1..Len(y) : y[i] = x[i]
  BY <1>1, <1>2, TakeElements
<1>4. /\ z \in Seq(S) /\ Len(z) = (IF m < Len(b) THEN m ELSE Len(b))
      /\ \A i \in 1..Len(z) : z[i] = b[i]
  BY <1>2, TakeElements
<1>. HIDE DEF y, z
<1>5. Len(y) = Len(z) /\ \A i \in 1..Len(y) : i \in 1..Len(x) /\ i \in 1..Len(z)
  BY <1>1, <1>2, <1>3, <1>4
<1>6. \A i \in 1..Len(y) : y[i] = z[i]
  BY <1>1, <1>3, <1>4, <1>5
<1>7. y = z
  BY <1>3, <1>4, <1>5, <1>6, SeqEqual
<1>. QED BY <1>7 DEF x, y, z

(* What agrees with a \o e and reaches behind a starts with a, and the     *)
(* rest agrees with e.                                                     *)
LEMMA Agreed ==
  ASSUME NEW S, NEW i \in Seq(S), NEW r \in Seq(S), NEW a \in Seq(S), NEW e \in Seq(S),
         Agrees(i \o r, a \o e), Len(a) <= Len(i)
  PROVE  Take(i, Len(a)) = a /\ Agrees(Drop(i, Len(a)) \o r, e)
<1>1. /\ Len(i) \in Nat /\ Len(r) \in Nat /\ Len(a) \in Nat /\ Len(e) \in Nat
  BY LenProperties
<1> DEFINE y == Take(i, Len(a))
           x == Drop(i, Len(a))
<1>2. /\ i \o r \in Seq(S) /\ Len(i \o r) = Len(i) + Len(r)
      /\ \A n \in 1..(Len(i) + Len(r)) : (i \o r)[n] = IF n <= Len(i) THEN i[n] ELSE r[n - Len(i)]
  BY ConcatProperties
<1>3. /\ Len(a \o e) = Len(a) + Len(e)
      /\ \A n \in 1..(Len(a) + Len(e)) : (a \o e)[n] = IF n <= Len(a) THEN a[n] ELSE e[n - Len(a)]
  BY ConcatProperties
<1>4. /\ y \in Seq(S) /\ Len(y) = Len(a)
      /\ \A n \in 1..Len(y) : y[n] = i[n]
  <2>. /\ y \in Seq(S) /\ Len(y) = IF Len(a) < Len(i) THEN Len(a) ELSE Len(i)
       /\ \A n \in 1..Len(y) : y[n] = i[n]
    BY <1>1, TakeElements
  <2>. HIDE DEF y
  <2>. QED BY <1>1
<1>5. x \in Seq(S)
  BY <1>1, DropElements
<1>6. i = y \o x
  BY <1>1, Split
<1>. HIDE DEF x, y
<1>7. ASSUME NEW n \in 1..Len(a) PROVE y[n] = a[n]
  <2>1. n \in 1..(Len(i) + Len(r)) /\ n <= Len(i) /\ n \in 1..(Len(a) + Len(e)) /\ n <= Len(a)
    BY <1>1
  <2>2. (i \o r)[n] = (a \o e)[n]
    BY <1>1, <1>2, <1>3, <2>1 DEF Agrees
  <2>. QED BY <1>2, <1>3, <1>4, <2>1, <2>2
<1>8. y = a
  BY <1>4, <1>7, SeqEqual
<1>9. i \o r = a \o (x \o r)
  BY <1>5, <1>6, <1>8, ConcatAssociative
<1>10. /\ x \o r \in Seq(S) /\ Len(x \o r) \in Nat
       /\ Len(a \o (x \o r)) = Len(a) + Len(x \o r)
       /\ \A n \in 1..(Len(a) + Len(x \o r)) :
            (a \o (x \o r))[n] = IF n <= Len(a) THEN a[n] ELSE (x \o r)[n - Len(a)]
  BY <1>5, ConcatProperties, LenProperties
<1>11. ASSUME NEW n \in 1..Len(x \o r), n <= Len(e) PROVE (x \o r)[n] = e[n]
  <2>1. /\ Len(a) + n \in 1..(Len(a) + Len(x \o r)) /\ Len(a) + n \in 1..(Len(a) + Len(e))
        /\ ~(Len(a) + n <= Len(a)) /\ (Len(a) + n) - Len(a) = n
    BY <1>1, <1>10, <1>11
  <2>2. Len(a) + n \in 1..Len(i \o r) /\ Len(a) + n <= Len(a \o e)
    <3>1. Len(i \o r) = Len(a) + Len(x \o r)
      BY <1>9, <1>10
    <3>. QED BY <1>1, <1>3, <2>1, <3>1
  <2>3. (i \o r)[Len(a) + n] = (a \o e)[Len(a) + n]
    BY <2>2, Zenon DEF Agrees
  <2>4. (a \o (x \o r))[Len(a) + n] = (x \o r)[n]
    BY <1>10, <2>1
  <2>5. (a \o e)[Len(a) + n] = e[n]
    BY <1>3, <2>1
  <2>. QED BY <1>9, <2>3, <2>4, <2>5
<1>12. Agrees(x \o r, e)
  BY <1>11 DEF Agrees
<1>. QED BY <1>8, <1>12 DEF x, y
-----------------------------------------------------------------------------
(* The text of a part.                                                     *)
LEMMA PartTextType ==
  ASSUME NEW v \in Version, NEW p \in Part
  PROVE  LET h == HeaderLine(p, PartLength(Size(v), p)) IN
         /\ PartLength(Size(v), p) \in Nat
         /\ h = <<Header(p, PartLength(Size(v), p)), Newline>> /\ h \in Seq(NotPut)
         /\ PartOf(v, p) \in Seq(NotPut) /\ Len(PartOf(v, p)) = PartLength(Size(v), p)
         /\ \A i \in 1..Len(PartOf(v, p)) : PartOf(v, p)[i].k = "byte"
         /\ PartText(v, p) = h \o PartOf(v, p) /\ PartText(v, p) \in Seq(NotPut)
<1> DEFINE l == PartLength(Size(v), p)
           o == PartOffset(Size(v), p)
           h == HeaderLine(p, l)
<1>1. Size(v) \in Nat
  BY ChannelAssumption
<1>2. l \in Nat /\ o \in Nat
  BY <1>1 DEF PartLength, PartOffset, PartSizeLast, PartSizeFirst, Part
<1>3. PartOf(v, p) = Slice(v, o, l)
  BY DEF PartOf
<1>4. h = <<Header(p, l), Newline>>
  BY DEF HeaderLine, TextLine
<1>. HIDE DEF l, o
<1>5. Header(p, l) \in NotPut /\ Newline \in NotPut
  <2>1. Header(p, l) \in Written /\ Newline \in Written
    BY <1>2, TokensWritten
  <2>2. Header(p, l).k = "header" /\ Newline.k = "newline"
    BY DEF Header, Newline
  <2>. QED BY <2>1, <2>2 DEF NotPut
<1>6. h \in Seq(NotPut)
  <2>. HIDE DEF h
  <2>. QED BY <1>4, <1>5
<1>7. ASSUME NEW i \in 1..l PROVE Byte(v, o + i) \in NotPut /\ Byte(v, o + i).k = "byte"
  <2>1. o + i \in Nat
    BY <1>2
  <2>2. Byte(v, o + i) \in Written
    BY <2>1, TokensWritten
  <2>3. Byte(v, o + i).k = "byte"
    BY DEF Byte
  <2>. QED BY <2>2, <2>3 DEF NotPut
<1>8. Slice(v, o, l) \in [1..l -> NotPut]
  BY <1>7 DEF Slice
<1>9. PartOf(v, p) \in Seq(NotPut) /\ Len(PartOf(v, p)) = l
  BY <1>2, <1>3, <1>8, FunctionIsSeq
<1>10. ASSUME NEW i \in 1..Len(PartOf(v, p)) PROVE PartOf(v, p)[i].k = "byte"
  <2>1. i \in 1..l /\ PartOf(v, p)[i] = Byte(v, o + i)
    BY <1>3, <1>9 DEF Slice
  <2>. QED BY <1>7, <2>1
<1>11. PartText(v, p) = h \o PartOf(v, p)
  BY DEF PartText, l
<1>12. PartText(v, p) \in Seq(NotPut)
  <2>. HIDE DEF h
  <2>. QED BY <1>6, <1>9, <1>11, ConcatProperties
<1>. QED BY <1>2, <1>4, <1>6, <1>9, <1>10, <1>11, <1>12 DEF l

LEMMA NotPutWritten ==
  NotPut \subseteq Written /\ Seq(NotPut) \subseteq Seq(Written) /\ Seq(Written) \subseteq Seq(Token)
<1>1. NotPut \subseteq Written /\ Written \subseteq Token
  BY Directions DEF NotPut
<1>. QED BY <1>1, SeqMonotonic

(* The parts of a server, and what may still be due to it.                 *)
LEMMA PartsOfServer ==
  ASSUME NEW v \in Version, NEW s \in Server
  PROVE  /\ PartsOf(s, HashMod(v)) \subseteq Part
         /\ First(v, s) \in PartsOf(s, HashMod(v)) /\ Second(v, s) \in PartsOf(s, HashMod(v))
<1> DEFINE k == FilePieces(s, HashMod(v))
<1>1. Pair(k)[1] \in Part /\ Pair(k)[2] \in Part
  BY PartNumbers
<1>2. PartsOf(s, HashMod(v)) = {Pair(k)[1], Pair(k)[2]} /\ First(v, s) = Pair(k)[1] /\ Second(v, s) = Pair(k)[2]
  BY DEF PartsOf, First, Second
<1>. HIDE DEF k
<1>. QED BY <1>1, <1>2

LEMMA MoreType ==
  ASSUME NEW v \in Version, NEW s \in Server, NEW more \in More(v, s)
  PROVE  more \in Seq(NotPut)
<1>1. CASE more = <<>>
  BY <1>1, EmptySeq
<1>2. CASE more # <<>>
  <2>1. PICK p \in PartsOf(s, HashMod(v)) : more = PartText(v, p)
    BY <1>2, Zenon DEF More
  <2>2. p \in Part
    BY <2>1, PartsOfServer
  <2>. QED BY <2>1, <2>2, PartTextType
<1>. QED BY <1>1, <1>2

LEMMA DueType ==
  ASSUME NEW v \in Version, NEW s \in Server, NEW p \in PartsOf(s, HashMod(v)),
         NEW more \in More(v, s), NEW q
  PROVE  Due(q, v, p, more) \in Seq(NotPut)
<1>1. p \in Part /\ more \in Seq(NotPut)
  BY PartsOfServer, MoreType
<1>2. PartText(v, p) \in Seq(NotPut) /\ PartOf(v, p) \in Seq(NotPut)
  BY <1>1, PartTextType
<1>. QED BY <1>1, <1>2, ConcatProperties DEF Due

-----------------------------------------------------------------------------
(* The client's output buffer, as one stream.                              *)
LEMMA BufferedLengths ==
  ASSUME NEW S, NEW out \in Seq(Seq(S))
  PROVE  /\ Buffered(out) \in Seq(S)
         /\ Len(out) = 0 => Buffered(out) = <<>>
         /\ Len(out) = 1 => Buffered(out) = out[1]
         /\ Len(out) = 2 => Buffered(out) = out[1] \o out[2]
         /\ Len(out) = 3 => Buffered(out) = out[1] \o (out[2] \o out[3])
         /\ Len(out) = 4 => Buffered(out) = out[1] \o (out[2] \o (out[3] \o out[4]))
<1> DEFINE l == Len(out)
           a == Nth(out, 1)
           b == Nth(out, 2)
           d == Nth(out, 3)
           e == Nth(out, 4)
<1>1. l \in Nat /\ \A n \in 1..l : out[n] \in Seq(S)
  BY LenProperties, ElementOfSeq
<1>2. <<>> \in Seq(S)
  BY EmptySeq
<1>3. ASSUME NEW n \in Nat \ {0}
      PROVE  /\ Nth(out, n) \in Seq(S)
             /\ n <= l => Nth(out, n) = out[n]
             /\ n > l => Nth(out, n) = <<>>
  <2>1. CASE n \in 1..l
    BY <1>1, <2>1 DEF Nth
  <2>2. CASE n \notin 1..l
    BY <1>1, <1>2, <2>2 DEF Nth
  <2>. QED BY <2>1, <2>2
<1>4. Buffered(out) = a \o (b \o (d \o e))
  BY DEF Buffered
<1>. 1 \in Nat \ {0} /\ 2 \in Nat \ {0} /\ 3 \in Nat \ {0} /\ 4 \in Nat \ {0}
  OBVIOUS
<1>5. a \in Seq(S) /\ b \in Seq(S) /\ d \in Seq(S) /\ e \in Seq(S)
  BY <1>3, Zenon
<1>6. /\ l = 0 => a = <<>> /\ b = <<>> /\ d = <<>> /\ e = <<>>
      /\ l = 1 => a = out[1] /\ b = <<>> /\ d = <<>> /\ e = <<>>
      /\ l = 2 => a = out[1] /\ b = out[2] /\ d = <<>> /\ e = <<>>
      /\ l = 3 => a = out[1] /\ b = out[2] /\ d = out[3] /\ e = <<>>
      /\ l = 4 => a = out[1] /\ b = out[2] /\ d = out[3] /\ e = out[4]
  <2>1. /\ 1 <= l => a = out[1]
        /\ 1 > l => a = <<>>
    BY <1>3, Zenon
  <2>2. /\ 2 <= l => b = out[2]
        /\ 2 > l => b = <<>>
    BY <1>3, Zenon
  <2>3. /\ 3 <= l => d = out[3]
        /\ 3 > l => d = <<>>
    BY <1>3, Zenon
  <2>4. /\ 4 <= l => e = out[4]
        /\ 4 > l => e = <<>>
    BY <1>3, Zenon
  <2>5. /\ l = 0 => 1 > l /\ 2 > l /\ 3 > l /\ 4 > l
        /\ l = 1 => 1 <= l /\ 2 > l /\ 3 > l /\ 4 > l
        /\ l = 2 => 1 <= l /\ 2 <= l /\ 3 > l /\ 4 > l
        /\ l = 3 => 1 <= l /\ 2 <= l /\ 3 <= l /\ 4 > l
        /\ l = 4 => 1 <= l /\ 2 <= l /\ 3 <= l /\ 4 <= l
    <3>. HIDE DEF l
    <3>. QED OBVIOUS
  <2>. HIDE DEF a, b, d, e, l
  <2>. QED BY <2>1, <2>2, <2>3, <2>4, <2>5, Zenon
<1>. HIDE DEF l, a, b, d, e
<1>7. d \o e \in Seq(S) /\ b \o (d \o e) \in Seq(S) /\ a \o (b \o (d \o e)) \in Seq(S)
  BY <1>5, ConcatProperties
<1>8. e = <<>> => d \o e = d
  BY <1>5, ConcatEmptySeq
<1>9. d \o e = <<>> => b \o (d \o e) = b
  BY <1>5, ConcatEmptySeq
<1>10. b \o (d \o e) = <<>> => a \o (b \o (d \o e)) = a
  BY <1>5, ConcatEmptySeq
<1>11. l = 0 => Buffered(out) = <<>>
  BY <1>4, <1>6, <1>8, <1>9, <1>10, Zenon
<1>12. l = 1 => Buffered(out) = out[1]
  BY <1>4, <1>6, <1>8, <1>9, <1>10, Zenon
<1>13. l = 2 => Buffered(out) = out[1] \o out[2]
  BY <1>4, <1>6, <1>8, <1>9, Zenon
<1>14. l = 3 => Buffered(out) = out[1] \o (out[2] \o out[3])
  BY <1>4, <1>6, <1>8, Zenon
<1>15. l = 4 => Buffered(out) = out[1] \o (out[2] \o (out[3] \o out[4]))
  BY <1>4, <1>6, Zenon
<1>. QED BY <1>4, <1>7, <1>11, <1>12, <1>13, <1>14, <1>15, Zenon DEF l

LEMMA BufferedTail ==
  ASSUME NEW S, NEW out \in Seq(Seq(S)), out # <<>>, Len(out) <= 4
  PROVE  Buffered(out) = Head(out) \o Buffered(Tail(out))
<1> DEFINE l == Len(out)
           t == Tail(out)
<1>1. l \in Nat \ {0} /\ l <= 4
  BY EmptySeq
<1>2. t \in Seq(Seq(S)) /\ Len(t) = l - 1 /\ \A i \in 1..(l - 1) : t[i] = out[i + 1]
  BY HeadTailProperties
<1>3. Head(out) = out[1] /\ out[1] \in Seq(S) /\ out[1] \o <<>> = out[1]
  <2>1. Head(out) = out[1] /\ Head(out) \in Seq(S)
    BY HeadTailProperties
  <2>. QED BY <2>1, ConcatEmptySeq
<1>. HIDE DEF l, t
<1>4. /\ l = 1 => Len(t) = 0
      /\ l = 2 => Len(t) = 1 /\ t[1] = out[2]
      /\ l = 3 => Len(t) = 2 /\ t[1] = out[2] /\ t[2] = out[3]
      /\ l = 4 => Len(t) = 3 /\ t[1] = out[2] /\ t[2] = out[3] /\ t[3] = out[4]
  BY <1>1, <1>2
<1>5. /\ l = 1 => Buffered(out) = out[1]
      /\ l = 2 => Buffered(out) = out[1] \o out[2]
      /\ l = 3 => Buffered(out) = out[1] \o (out[2] \o out[3])
      /\ l = 4 => Buffered(out) = out[1] \o (out[2] \o (out[3] \o out[4]))
  BY BufferedLengths, Zenon DEF l
<1>6. /\ Len(t) = 0 => Buffered(t) = <<>>
      /\ Len(t) = 1 => Buffered(t) = t[1]
      /\ Len(t) = 2 => Buffered(t) = t[1] \o t[2]
      /\ Len(t) = 3 => Buffered(t) = t[1] \o (t[2] \o t[3])
  BY <1>2, BufferedLengths, Zenon
<1>7. l = 1 \/ l = 2 \/ l = 3 \/ l = 4
  BY <1>1
<1>8. Buffered(out) = out[1] \o Buffered(t)
  BY <1>3, <1>4, <1>5, <1>6, <1>7, Zenon
<1>. QED BY <1>3, <1>8 DEF t

(* What the client puts into its output buffer when the server is ready.   *)
LEMMA UploadBuffered ==
  ASSUME NEW c \in Conn, con[c].version \in Version
  PROVE  LET v == con[c].version IN
         /\ Upload(c) \in Seq(Seq(NotPut)) /\ Len(Upload(c)) <= 4
         /\ Buffered(Upload(c)) = PartText(v, First(v, c[2])) \o PartText(v, Second(v, c[2]))
<1> DEFINE v  == con[c].version
           p1 == First(v, c[2])
           p2 == Second(v, c[2])
           h1 == HeaderLine(p1, PartLength(Size(v), p1))
           s1 == PartOf(v, p1)
           h2 == HeaderLine(p2, PartLength(Size(v), p2))
           s2 == PartOf(v, p2)
<1>1. c[2] \in Server
  BY DEF Conn
<1>2. p1 \in Part /\ p2 \in Part
  BY <1>1, PartsOfServer
<1>3. Upload(c) = IF Splits = "burst" THEN << h1 \o s1 \o h2 \o s2 >>
                  ELSE (IF s1 = <<>> THEN << h1 \o h2 >> ELSE << h1, s1, h2 >>)
                       \o (IF s2 = <<>> THEN <<>> ELSE << s2 >>)
  BY DEF Upload, PutInfo, First, Second, PartOf
<1>. HIDE DEF v, p1, p2
<1>4. /\ h1 \in Seq(NotPut) /\ s1 \in Seq(NotPut) /\ h2 \in Seq(NotPut) /\ s2 \in Seq(NotPut)
      /\ PartText(v, p1) = h1 \o s1 /\ PartText(v, p2) = h2 \o s2
  BY <1>2, PartTextType DEF v
<1>. HIDE DEF h1, h2, s1, s2
<1>5. /\ h1 \o s1 \in Seq(NotPut) /\ h2 \o s2 \in Seq(NotPut) /\ h1 \o h2 \in Seq(NotPut)
      /\ h1 \o s1 \o h2 \o s2 \in Seq(NotPut)
      /\ h1 \o s1 \o h2 \o s2 = (h1 \o s1) \o (h2 \o s2)
      /\ (h1 \o s1) \o (h2 \o s2) = h1 \o (s1 \o (h2 \o s2))
  <2>1. /\ h1 \o s1 \in Seq(NotPut) /\ h2 \o s2 \in Seq(NotPut) /\ h1 \o h2 \in Seq(NotPut)
        /\ (h1 \o s1) \o h2 \in Seq(NotPut)
    BY <1>4, ConcatProperties
  <2>2. ((h1 \o s1) \o h2) \o s2 \in Seq(NotPut)
    BY <1>4, <2>1, ConcatProperties
  <2>3. ((h1 \o s1) \o h2) \o s2 = (h1 \o s1) \o (h2 \o s2)
    <3>. DEFINE z == h1 \o s1
    <3>1. z \in Seq(NotPut)
      BY <2>1
    <3>. HIDE DEF z
    <3>2. (z \o h2) \o s2 = z \o (h2 \o s2)
      BY <1>4, <3>1, NotPutJoined, Zenon
    <3>. QED BY <3>2 DEF z
  <2>4. (h1 \o s1) \o (h2 \o s2) = h1 \o (s1 \o (h2 \o s2))
    <3>. DEFINE z == h2 \o s2
    <3>1. z \in Seq(NotPut)
      BY <2>1
    <3>. HIDE DEF z
    <3>2. (h1 \o s1) \o z = h1 \o (s1 \o z)
      BY <1>4, <3>1, NotPutJoined, Zenon
    <3>. QED BY <3>2 DEF z
  <2>. QED BY <2>1, <2>2, <2>3, <2>4
<1> DEFINE o == Upload(c)
           e == (h1 \o s1) \o (h2 \o s2)
           t == IF s1 = <<>> THEN << h1 \o h2 >> ELSE << h1, s1, h2 >>
           u == IF s2 = <<>> THEN <<>> ELSE << s2 >>
<1>6. /\ t \in Seq(Seq(NotPut)) /\ Len(t) = IF s1 = <<>> THEN 1 ELSE 3
      /\ s1 = <<>> => t[1] = h1 \o h2
      /\ s1 # <<>> => t[1] = h1 /\ t[2] = s1 /\ t[3] = h2
  BY <1>4, <1>5
<1>7. /\ u \in Seq(Seq(NotPut)) /\ Len(u) = IF s2 = <<>> THEN 0 ELSE 1
      /\ s2 # <<>> => u[1] = s2
  BY <1>4
<1>8. Splits # "burst" => o = t \o u
  BY <1>3
<1>9. Splits = "burst" => o \in Seq(Seq(NotPut)) /\ Len(o) = 1 /\ o[1] = e
  <2>1. Splits = "burst" => o = << e >>
    BY <1>3, <1>5
  <2>2. e \in Seq(NotPut)
    BY <1>5
  <2>3. << e >> \in Seq(Seq(NotPut)) /\ Len(<< e >>) = 1 /\ << e >>[1] = e
    <3>. HIDE DEF e
    <3>. QED BY <2>2
  <2>. HIDE DEF o, e
  <2>. QED BY <2>1, <2>3
<1>. HIDE DEF o, t, u
<1>10. /\ t \o u \in Seq(Seq(NotPut)) /\ Len(t \o u) = Len(t) + Len(u)
       /\ \A i \in 1..(Len(t) + Len(u)) : (t \o u)[i] = IF i <= Len(t) THEN t[i] ELSE u[i - Len(t)]
  BY <1>6, <1>7, ConcatProperties
<1>11. s1 = <<>> => h1 \o s1 = h1
  BY <1>4, ConcatEmptySeq
<1>12. s2 = <<>> => h2 \o s2 = h2
  BY <1>4, ConcatEmptySeq
<1>13. (h1 \o h2) \o s2 = h1 \o (h2 \o s2)
  BY <1>4, NotPutJoined, Zenon
<1>14. e \in Seq(NotPut)
  BY <1>5
<1>15. ASSUME Splits # "burst"
       PROVE  /\ o \in Seq(Seq(NotPut))
              /\ s1 = <<>> => o[1] = h1 \o h2
              /\ s1 # <<>> => o[1] = h1 /\ o[2] = s1 /\ o[3] = h2
              /\ Len(o) = (IF s1 = <<>> THEN 1 ELSE 3) + (IF s2 = <<>> THEN 0 ELSE 1)
              /\ s1 = <<>> /\ s2 # <<>> => o[2] = s2
              /\ s1 # <<>> /\ s2 # <<>> => o[4] = s2
  <2>1. o = t \o u
    BY <1>8, <1>15
  <2>2. Len(o) = Len(t) + Len(u) /\ o \in Seq(Seq(NotPut))
    BY <1>10, <2>1
  <2>3. Len(t) \in Nat /\ Len(u) \in Nat
    BY <1>6, <1>7
  <2>4. \A i \in 1..Len(t) : o[i] = t[i]
    BY <1>10, <2>1, <2>3
  <2>5. \A i \in 1..Len(u) : o[Len(t) + i] = u[i]
    <3>. SUFFICES ASSUME NEW i \in 1..Len(u) PROVE o[Len(t) + i] = u[i]
      OBVIOUS
    <3>1. Len(t) + i \in 1..(Len(t) + Len(u)) /\ ~(Len(t) + i <= Len(t)) /\ (Len(t) + i) - Len(t) = i
      BY <2>3
    <3>. QED BY <1>10, <2>1, <3>1
  <2>6. s1 = <<>> => o[1] = h1 \o h2 /\ (s2 # <<>> => o[2] = s2)
    BY <1>6, <1>7, <2>4, <2>5
  <2>7. s1 # <<>> => o[1] = h1 /\ o[2] = s1 /\ o[3] = h2 /\ (s2 # <<>> => o[4] = s2)
    BY <1>6, <1>7, <2>4, <2>5
  <2>. QED BY <1>6, <1>7, <2>2, <2>6, <2>7
<1>16. o \in Seq(Seq(NotPut)) /\ Len(o) <= 4 /\ Buffered(o) = e
  <2>1. CASE Splits = "burst"
    <3>1. Len(o) = 1 => Buffered(o) = o[1]
      BY <1>9, <2>1, BufferedLengths, Zenon
    <3>2. Len(o) <= 4
      <4>1. Len(o) = 1
        BY <1>9, <2>1, Zenon
      <4>. QED BY <4>1
    <3>. QED BY <1>9, <2>1, <3>1, <3>2, Zenon
  <2>2. CASE Splits # "burst" /\ s1 = <<>> /\ s2 = <<>>
    <3>1. o \in Seq(Seq(NotPut)) /\ Len(o) = 1 /\ o[1] = h1 \o h2
      BY <1>15, <2>2
    <3>2. Buffered(o) = h1 \o h2
      BY <3>1, BufferedLengths, Zenon
    <3>. QED BY <1>11, <1>12, <2>2, <3>1, <3>2
  <2>3. CASE Splits # "burst" /\ s1 = <<>> /\ s2 # <<>>
    <3>1. o \in Seq(Seq(NotPut)) /\ Len(o) = 2 /\ o[1] = h1 \o h2 /\ o[2] = s2
      BY <1>15, <2>3
    <3>2. Buffered(o) = (h1 \o h2) \o s2
      BY <3>1, BufferedLengths, Zenon
    <3>. QED BY <1>11, <1>13, <2>3, <3>1, <3>2
  <2>4. CASE Splits # "burst" /\ s1 # <<>> /\ s2 = <<>>
    <3>1. o \in Seq(Seq(NotPut)) /\ Len(o) = 3 /\ o[1] = h1 /\ o[2] = s1 /\ o[3] = h2
      BY <1>15, <2>4
    <3>2. Buffered(o) = h1 \o (s1 \o h2)
      BY <3>1, BufferedLengths, Zenon
    <3>. QED BY <1>5, <1>12, <2>4, <3>1, <3>2
  <2>5. CASE Splits # "burst" /\ s1 # <<>> /\ s2 # <<>>
    <3>1. o \in Seq(Seq(NotPut)) /\ Len(o) = 4 /\ o[1] = h1 /\ o[2] = s1 /\ o[3] = h2 /\ o[4] = s2
      BY <1>15, <2>5
    <3>2. Buffered(o) = h1 \o (s1 \o (h2 \o s2))
      BY <3>1, BufferedLengths, Zenon
    <3>. QED BY <1>5, <3>1, <3>2
  <2>. QED BY <2>1, <2>2, <2>3, <2>4, <2>5
<1>. QED BY <1>4, <1>16 DEF o, v, p1, p2
-----------------------------------------------------------------------------
(* What is on its way stays so when its front is taken off.                *)
LEMMA Advance ==
  ASSUME NEW k, k.out \in Seq(Seq(Written)), NEW open,
         NEW i \in Seq(Written), NEW r \in Seq(Written), NEW a \in Seq(Written), NEW e \in Seq(Written),
         OnItsWay(k, i \o r, open, a \o e), Len(a) <= Len(i)
  PROVE  /\ Take(i, Len(a)) = a /\ i = a \o Drop(i, Len(a))
         /\ OnItsWay(k, Drop(i, Len(a)) \o r, open, e)
<1> DEFINE x == Drop(i, Len(a))
           B == Buffered(k.out)
           t == x \o r
<1>1. Take(i, Len(a)) = a /\ Agrees(x \o r, e)
  BY Agreed DEF OnItsWay
<1>2. Len(a) \in Nat /\ Len(e) \in Nat
  BY LenProperties
<1>3. x \in Seq(Written) /\ i = a \o x
  <2>1. x \in Seq(Written)
    BY <1>2, TakeDropType
  <2>2. Take(i, Len(a)) \o x = i
    BY <1>2, Split
  <2>. QED BY <1>1, <2>1, <2>2
<1>4. B \in Seq(Written)
  BY BufferedLengths, Zenon
<1>. HIDE DEF x, B
<1>5. t \in Seq(Written) /\ i \o r = a \o t
  BY <1>3, ConcatProperties, ConcatAssociative
<1>. HIDE DEF t
<1>6. Len(t) \in Nat /\ Len(a \o t) = Len(a) + Len(t) /\ Len(a \o e) = Len(a) + Len(e)
  BY <1>5, ConcatProperties, LenProperties
<1>7. ASSUME open PROVE Len(t) >= Len(e) \/ (Sends(k) /\ t \o B = e)
  <2>1. CASE Len(a \o t) >= Len(a \o e)
    BY <1>2, <1>6, <2>1
  <2>2. CASE Sends(k) /\ (a \o t) \o B = a \o e
    <3>1. (a \o t) \o B = a \o (t \o B) /\ t \o B \in Seq(Written)
      BY <1>4, <1>5, ConcatAssociative, ConcatProperties
    <3>2. Drop(a \o (t \o B), Len(a)) = t \o B /\ Drop(a \o e, Len(a)) = e
      BY <3>1, DropFront, Zenon
    <3>. QED BY <2>2, <3>1, <3>2, Zenon
  <2>3. Len(a \o t) >= Len(a \o e) \/ (Sends(k) /\ (a \o t) \o B = a \o e)
    BY <1>5, <1>7, Zenon DEF OnItsWay, B
  <2>. QED BY <2>1, <2>2, <2>3, Zenon
<1>8. OnItsWay(k, t, open, e)
  BY <1>1, <1>7, Zenon DEF OnItsWay, t, B
<1>. QED BY <1>1, <1>3, <1>8 DEF x, t

(* b ends with r.                                                          *)
EndsWith(b, r) == \E a \in Seq(Written) : b = a \o r

LEMMA EndsLater ==
  ASSUME NEW b \in Seq(Written), NEW d \in Seq(Written), NEW e \in Seq(Written)
  PROVE  /\ EndsWith(b, b)
         /\ EndsWith(b, d) /\ EndsWith(d, e) => EndsWith(b, e)
         /\ EndsWith(b, d) => EndsWith(b \o e, d \o e)
<1>1. b = <<>> \o b /\ <<>> \in Seq(Written)
  BY ConcatEmptySeq, EmptySeq
<1>2. ASSUME NEW x \in Seq(Written), b = x \o d, NEW y \in Seq(Written), d = y \o e
      PROVE  EndsWith(b, e)
  <2>1. b = (x \o y) \o e /\ x \o y \in Seq(Written)
    BY <1>2, ConcatAssociative, ConcatProperties
  <2>. QED BY <2>1, Zenon DEF EndsWith
<1>3. ASSUME NEW x \in Seq(Written), b = x \o d
      PROVE  EndsWith(b \o e, d \o e)
  <2>1. b \o e = x \o (d \o e)
    BY <1>3, ConcatAssociative
  <2>. QED BY <2>1, Zenon DEF EndsWith
<1>. QED BY <1>1, <1>2, <1>3, Zenon DEF EndsWith

LEMMA DropEnds ==
  ASSUME NEW b \in Seq(Written), NEW n \in Nat
  PROVE  EndsWith(b, Drop(b, n))
<1>1. Take(b, n) \in Seq(Written) /\ Take(b, n) \o Drop(b, n) = b
  BY TakeDropType, Split
<1>. QED BY <1>1, Zenon DEF EndsWith

LEMMA LineEndsWith ==
  ASSUME NEW b \in Seq(Written), HasLine(b)
  PROVE  AfterLine(b) = Drop(b, LineEnd(b)) /\ LineEnd(b) \in Nat /\ EndsWith(b, AfterLine(b))
<1>1. LineEnd(b) \in 1..Len(b) /\ Len(b) \in Nat
  BY LineEndInside, LenProperties
<1>2. LineEnd(b) \in Nat /\ AfterLine(b) = Drop(b, LineEnd(b))
  BY <1>1 DEF AfterLine, Drop
<1>. QED BY <1>2, DropEnds

(* PlainFiles: no line with bytes of a file in it reads as a text of the   *)
(* protocol.                                                               *)
PlainFiles == DOMAIN Spelled = {}

LEMMA PlainLines ==
  ASSUME PlainFiles
  PROVE  /\ \A b : LineOf(b) = SubSeq(b, 1, LineEnd(b) - 1)
         /\ \A S, b : b \in Seq(S) /\ HasLine(b) => LineOf(b) \in Seq(S) /\ AfterLine(b) \in Seq(S)
<1>1. ASSUME NEW b PROVE LineOf(b) = SubSeq(b, 1, LineEnd(b) - 1)
  BY Zenon DEF PlainFiles, LineOf, Reads
<1>2. ASSUME NEW S, NEW b \in Seq(S), HasLine(b) PROVE LineOf(b) \in Seq(S) /\ AfterLine(b) \in Seq(S)
  <2>1. LineOf(b) \in Seq(Readings(S)) /\ AfterLine(b) \in Seq(S)
    BY <1>2, LineType
  <2>2. Readings(S) = S
    BY Zenon DEF PlainFiles, Readings
  <2>. QED BY <2>1, <2>2
<1>. QED BY <1>1, <1>2, Zenon

(* Where the first token that ends a line stands.                          *)
LEMMA LineEndIs ==
  ASSUME NEW S, NEW b \in Seq(S), NEW n \in 1..Len(b), EndsLine(b[n]), \A m \in 1..(n - 1) : ~EndsLine(b[m])
  PROVE  HasLine(b) /\ LineEnd(b) = n
<1>1. Len(b) \in Nat
  BY LenProperties
<1>2. n \in LineEnds(b) /\ LineEnds(b) \subseteq 1..Len(b)
  BY DEF LineEnds
<1>3. HasLine(b)
  BY <1>2 DEF HasLine
<1>4. ASSUME NEW m \in LineEnds(b) PROVE n <= m
  <2>1. m \in 1..Len(b) /\ EndsLine(b[m])
    BY DEF LineEnds
  <2>. QED BY <1>1, <2>1
<1>5. ASSUME NEW x \in LineEnds(b), \A m \in LineEnds(b) : x <= m PROVE x = n
  <2>1. x <= n /\ n <= x /\ x \in Nat
    BY <1>1, <1>2, <1>4, <1>5
  <2>. QED BY <2>1
<1>6. LineEnd(b) \in LineEnds(b) /\ \A m \in LineEnds(b) : LineEnd(b) <= m
  BY <1>2, <1>4, Zenon DEF LineEnd
<1>. QED BY <1>3, <1>5, <1>6

LEMMA TokenKinds ==
  /\ \A p, l : EndsLine(Header(p, l)) = FALSE
  /\ \A a : EndsLine(Auth(a)) = FALSE
  /\ EndsLine(Ready) = FALSE /\ EndsLine(Newline) = TRUE
<1>1. ASSUME NEW p, NEW l PROVE ~EndsLine(Header(p, l))
  BY DEF EndsLine, Header, Newline
<1>2. ASSUME NEW a PROVE ~EndsLine(Auth(a))
  BY DEF EndsLine, Auth, Newline
<1>3. ~EndsLine(Ready) /\ EndsLine(Newline)
  BY DEF EndsLine, Ready, Newline
<1>. QED BY <1>1, <1>2, <1>3 DEF EndsLine
-----------------------------------------------------------------------------
(* callback_put.  The header that is due comes out as it was written.      *)
LEMMA HeaderDue ==
  ASSUME PlainFiles, NEW v \in Version, NEW p \in Part, NEW more \in Seq(NotPut),
         NEW k, k.out \in Seq(Seq(Written)), NEW open,
         NEW i \in Seq(Written), NEW r \in Seq(Written),
         OnItsWay(k, i \o r, open, PartText(v, p) \o more), HasLine(i)
  PROVE  /\ Len(LineOf(i)) = 1 /\ LineOf(i)[1] = Header(p, PartLength(Size(v), p))
         /\ OnItsWay(k, AfterLine(i) \o r, open, PartOf(v, p) \o more)
<1> DEFINE l == PartLength(Size(v), p)
           h == HeaderLine(p, l)
           d == PartOf(v, p) \o more
<1>1. /\ h = <<Header(p, l), Newline>> /\ h \in Seq(Written) /\ PartOf(v, p) \in Seq(Written)
      /\ PartText(v, p) = h \o PartOf(v, p) /\ more \in Seq(Written)
  <2>1. /\ h = <<Header(p, l), Newline>> /\ h \in Seq(NotPut) /\ PartOf(v, p) \in Seq(NotPut)
        /\ PartText(v, p) = h \o PartOf(v, p)
    BY PartTextType
  <2>. QED BY <2>1, NotPutWritten
<1>. HIDE DEF h
<1>2. /\ Len(h) = 2 /\ h[1] = Header(p, l) /\ h[2] = Newline
  BY <1>1
<1>3. d \in Seq(Written) /\ PartText(v, p) \o more = h \o d
  BY <1>1, ConcatProperties, ConcatAssociative
<1>. HIDE DEF d
<1>4. /\ i \o r \in Seq(Written) /\ Len(i \o r) = Len(i) + Len(r)
      /\ \A n \in 1..(Len(i) + Len(r)) : (i \o r)[n] = IF n <= Len(i) THEN i[n] ELSE r[n - Len(i)]
      /\ Len(i) \in Nat /\ Len(r) \in Nat
  BY ConcatProperties, LenProperties
<1>5. /\ Len(h \o d) = Len(h) + Len(d) /\ Len(d) \in Nat
      /\ \A n \in 1..(Len(h) + Len(d)) : (h \o d)[n] = IF n <= Len(h) THEN h[n] ELSE d[n - Len(h)]
  BY <1>1, <1>3, ConcatProperties, LenProperties
<1>6. ASSUME NEW n \in 1..Len(i), n <= 2 PROVE i[n] = h[n]
  <2>1. n \in 1..Len(i \o r) /\ n <= Len(h \o d)
    BY <1>2, <1>4, <1>5, <1>6
  <2>2. (i \o r)[n] = (h \o d)[n]
    BY <1>3, <2>1, Zenon DEF OnItsWay, Agrees
  <2>3. (i \o r)[n] = i[n]
    BY <1>4
  <2>4. (h \o d)[n] = h[n]
    BY <1>2, <1>5, <1>6
  <2>. QED BY <2>2, <2>3, <2>4
<1>7. LineEnd(i) \in 1..Len(i) /\ LineEnd(i) \in LineEnds(i)
  <2>1. LineEnd(i) \in 1..Len(i)
    BY LineEndInside
  <2>2. PICK n \in LineEnds(i) : \A m \in LineEnds(i) : n <= m
    <3>1. LineEnds(i) \subseteq Nat /\ LineEnds(i) # {}
      BY DEF LineEnds, HasLine
    <3>. QED BY <3>1, Least, Zenon
  <2>3. LineEnd(i) \in LineEnds(i)
    BY <2>2, Zenon DEF LineEnd
  <2>. QED BY <2>1, <2>3
<1>8. EndsLine(i[LineEnd(i)])
  BY <1>7, Zenon DEF LineEnds
<1>9. ~EndsLine(Header(p, l)) /\ EndsLine(Newline)
  BY TokenKinds
<1>10. LineEnd(i) # 1
  <2>1. ASSUME LineEnd(i) = 1 PROVE FALSE
    <3>1. 1 \in 1..Len(i) /\ 1 <= 2
      BY <1>7, <2>1
    <3>2. i[1] = Header(p, l)
      BY <1>2, <1>6, <3>1
    <3>. QED BY <1>8, <1>9, <2>1, <3>2
  <2>. QED BY <2>1
<1>11. Len(i) >= 2 /\ 1 \in 1..Len(i) /\ 2 \in 1..Len(i)
  BY <1>4, <1>7, <1>10
<1>12. i[1] = Header(p, l) /\ i[2] = Newline
  BY <1>2, <1>6, <1>11
<1>13. LineEnd(i) = 2
  <2>1. EndsLine(i[2]) /\ ~EndsLine(i[1])
    BY <1>9, <1>12
  <2>two. PICK two : two = 2 /\ two \in 1..Len(i)
    BY <1>11
  <2>2. \A m \in 1..(two - 1) : ~EndsLine(i[m])
    BY <2>1, <2>two
  <2>3. EndsLine(i[two])
    BY <2>1, <2>two
  <2>4. LineEnd(i) = two
    BY <2>two, <2>2, <2>3, LineEndIs, Zenon
  <2>. QED BY <2>two, <2>4
<1>14. Len(LineOf(i)) = 1 /\ LineOf(i)[1] = Header(p, l)
  <2>1. LineOf(i) = SubSeq(i, 1, 1)
    <3>1. LineEnd(i) - 1 = 1
      BY <1>13
    <3>. QED BY <3>1, PlainLines
  <2>2. \A n \in 1..1 : i[n] \in Written
    BY <1>11, ElementOfSeq
  <2>3. Len(SubSeq(i, 1, 1)) = 1 /\ SubSeq(i, 1, 1)[1] = i[1]
    BY <2>2, SubSeqProperties
  <2>. QED BY <1>12, <2>1, <2>3
<1>15. AfterLine(i) = Drop(i, Len(h))
  BY <1>2, <1>13 DEF AfterLine, Drop
<1>16. Len(h) <= Len(i)
  BY <1>2, <1>11
<1>17. OnItsWay(k, Drop(i, Len(h)) \o r, open, d)
  BY <1>1, <1>3, <1>16, Advance
<1>. QED BY <1>14, <1>15, <1>17 DEF d

(* The bytes that are due come out as they were written; as long as they   *)
(* have not all come, what has come is bytes.                              *)
LEMMA DataDue ==
  ASSUME NEW v \in Version, NEW p \in Part, NEW more \in Seq(NotPut),
         NEW k, k.out \in Seq(Seq(Written)), NEW open,
         NEW i \in Seq(Written), NEW r \in Seq(Written),
         OnItsWay(k, i \o r, open, PartOf(v, p) \o more)
  PROVE  LET l == PartLength(Size(v), p) IN
         /\ l \in Nat
         /\ Len(i) >= l => /\ Take(i, l) = PartOf(v, p)
                           /\ OnItsWay(k, Drop(i, l) \o r, open, more)
         /\ ~(Len(i) >= l) => \A n \in 1..Len(i) : i[n].k = "byte"
<1> DEFINE l == PartLength(Size(v), p)
           a == PartOf(v, p)
<1>1. /\ l \in Nat /\ a \in Seq(Written) /\ Len(a) = l /\ more \in Seq(Written)
      /\ \A n \in 1..l : a[n].k = "byte"
  <2>1. /\ l \in Nat /\ a \in Seq(NotPut) /\ Len(a) = l
        /\ \A n \in 1..Len(a) : a[n].k = "byte"
    BY PartTextType
  <2>. HIDE DEF a, l
  <2>. QED BY <2>1, NotPutWritten
<1>. HIDE DEF a, l
<1>2. Len(i) \in Nat
  BY LenProperties
<1>3. ASSUME Len(i) >= l PROVE Take(i, l) = a /\ OnItsWay(k, Drop(i, l) \o r, open, more)
  <2>1. OnItsWay(k, i \o r, open, a \o more) /\ Len(a) <= Len(i)
    BY <1>1, <1>2, <1>3 DEF a
  <2>2. Take(i, Len(a)) = a /\ OnItsWay(k, Drop(i, Len(a)) \o r, open, more)
    <3>1. a \in Seq(Written) /\ more \in Seq(Written)
      BY <1>1
    <3>2. /\ Take(i, Len(a)) = a /\ i = a \o Drop(i, Len(a))
          /\ OnItsWay(k, Drop(i, Len(a)) \o r, open, more)
      BY <2>1, <3>1, Advance, Zenon
    <3>. QED BY <3>2
  <2>. QED BY <1>1, <2>2
<1>4. ASSUME ~(Len(i) >= l), NEW n \in 1..Len(i) PROVE i[n].k = "byte"
  <2>1. /\ Len(i \o r) = Len(i) + Len(r) /\ Len(r) \in Nat
        /\ \A m \in 1..(Len(i) + Len(r)) : (i \o r)[m] = IF m <= Len(i) THEN i[m] ELSE r[m - Len(i)]
    BY ConcatProperties, LenProperties
  <2>2. /\ Len(a \o more) = Len(a) + Len(more) /\ Len(more) \in Nat
        /\ \A m \in 1..(Len(a) + Len(more)) : (a \o more)[m] = IF m <= Len(a) THEN a[m] ELSE more[m - Len(a)]
    BY <1>1, ConcatProperties, LenProperties
  <2>3. n \in 1..Len(i \o r) /\ n <= Len(a \o more) /\ n \in 1..l
    BY <1>1, <1>2, <1>4, <2>1, <2>2
  <2>4. (i \o r)[n] = (a \o more)[n]
    BY <2>3, Zenon DEF OnItsWay, Agrees, a
  <2>5. (i \o r)[n] = i[n]
    BY <1>2, <2>1
  <2>6. (a \o more)[n] = a[n]
    BY <1>1, <2>2, <2>3
  <2>. QED BY <1>1, <2>3, <2>4, <2>5, <2>6
<1>. QED BY <1>1, <1>3, <1>4 DEF a, l
-----------------------------------------------------------------------------
(* callback_put, round by round.  A part that did not come whole leaves    *)
(* its bytes in the input, and the loop takes them for a header.           *)
Strays(q) == q.putState = 2 /\ \A n \in 1..Len(q.inp) : q.inp[n].k = "byte"

Rests(s, q, k, r, open, U) ==
  \/ q.cb = "read" /\ q.putState \in {0, 2}
  \/ q.cb = "put" /\ q.inp = <<>> /\ Receives(s, q, k, r, open, U)

LoopHolds(s, q0, h, k, r, open, U) ==
  /\ EndsWith(q0.inp, h.q.inp) /\ h.q.out = q0.out /\ h.q.open = q0.open
  /\ h.go = "on" => /\ h.q.cb = "put" /\ h.q.inp # <<>>
                    /\ Receives(s, h.q, k, h.q.inp \o r, open, U) \/ Strays(h.q)
  /\ h.go = "return" => Rests(s, h.q, k, r, open, U)
  /\ PartsRight(h.files, s, U)

LEMMA HeaderStep ==
  ASSUME PlainFiles, NEW Out, NEW s \in Server, NEW k, k.out \in Seq(Seq(Written)), NEW open,
         NEW U, U \subseteq Version, NEW r \in Seq(Written), NEW q0, q0.inp \in Seq(Written),
         NEW h, h.q \in Connection(Written, Out), LoopHolds(s, q0, h, k, r, open, U)
  PROVE  LoopHolds(s, q0, PutHeader(h), k, r, open, U)
<1> DEFINE q    == h.q
           line == LineOf(q.inp)
           rest == AfterLine(q.inp)
           qR   == [q EXCEPT !.inp = rest, !.cb = "read"]
           qH   == [q EXCEPT !.inp = rest, !.partnum = line[1].p, !.wantedSize = line[1].l,
                             !.putState = q.putState + 1]
<1>1. CASE h.go # "on" \/ q.putState \notin {0, 2}
  BY <1>1, Zenon DEF PutHeader
<1>2. CASE h.go = "on" /\ q.putState \in {0, 2} /\ ~HasLine(q.inp)
  <2>1. PutHeader(h) = At(q, h.files, "crash")
    BY <1>2, Zenon DEF PutHeader
  <2>2. At(q, h.files, "crash").go = "crash"
    BY AtFields
  <2>. QED BY <2>1, <2>2, AtFields DEF LoopHolds
<1>3. CASE h.go = "on" /\ q.putState \in {0, 2} /\ HasLine(q.inp)
  <2>1. /\ line \in Seq(Written) /\ rest \in Seq(Written) /\ q.inp \in Seq(Written)
        /\ EndsWith(q.inp, rest)
    <3>1. q.inp \in Seq(Written)
      BY DEF Connection
    <3>. QED BY <1>3, <3>1, PlainLines, LineEndsWith, Zenon
  <2>2. EndsWith(q0.inp, rest)
    <3>1. EndsWith(q0.inp, q.inp)
      BY Zenon DEF LoopHolds
    <3>. HIDE DEF rest, q
    <3>. QED BY <2>1, <3>1, EndsLater, Zenon
  <2>3. q.cb = "put" /\ (Receives(s, q, k, q.inp \o r, open, U) \/ Strays(q)) /\ PartsRight(h.files, s, U)
        /\ q.out = q0.out /\ q.open = q0.open
    BY <1>3, Zenon DEF LoopHolds
  <2>4. CASE Len(line) # 1 \/ line[1].k # "header"
    <3>1. PutHeader(h) = At(qR, h.files, "return")
      BY <1>3, <2>4, Zenon DEF PutHeader
    <3>. HIDE DEF rest
    <3>2. qR.inp = rest /\ qR.cb = "read" /\ qR.putState \in {0, 2} /\ qR.out = q.out /\ qR.open = q.open
      BY <1>3 DEF Connection
    <3>. HIDE DEF qR
    <3>3. Rests(s, qR, k, r, open, U)
      BY <3>2 DEF Rests
    <3>. DEFINE g == At(qR, h.files, "return")
    <3>4. g.q = qR /\ g.files = h.files /\ g.go = "return"
      BY AtFields
    <3>. HIDE DEF g, q
    <3>5. g.go # "on"
      BY <3>4
    <3>6. LoopHolds(s, q0, g, k, r, open, U)
      BY <2>2, <2>3, <3>2, <3>3, <3>4, <3>5, Zenon DEF LoopHolds
    <3>. QED BY <3>1, <3>6 DEF g
  <2>5. CASE ~(Len(line) # 1 \/ line[1].k # "header")
    <3>1. PutHeader(h) = At(qH, h.files, IF rest = <<>> THEN "return" ELSE "on")
      BY <1>3, <2>5, Zenon DEF PutHeader
    <3>2. ~Strays(q)
      <4>1. line[1] = q.inp[1] /\ 1 \in 1..Len(q.inp)
        <5>1. LineEnd(q.inp) \in 1..Len(q.inp) /\ Len(q.inp) \in Nat
          BY <1>3, <2>1, LineEndInside, LenProperties
        <5>2. /\ Len(line) = IF 1 <= LineEnd(q.inp) - 1 THEN LineEnd(q.inp) - 1 ELSE 0
              /\ \A n \in 1..(LineEnd(q.inp) - 1) : line[n] = q.inp[n]
          <6>1. \A n \in 1..(LineEnd(q.inp) - 1) : q.inp[n] \in Written
            BY <2>1, <5>1, ElementOfSeq
          <6>2. LineEnd(q.inp) - 1 \in Int
            BY <5>1
          <6>3. 1 \in Int
            OBVIOUS
          <6>. DEFINE e == LineEnd(q.inp) - 1
          <6>4. /\ Len(SubSeq(q.inp, 1, e)) = IF 1 <= e THEN e - 1 + 1 ELSE 0
                /\ \A n \in 1..(e - 1 + 1) : SubSeq(q.inp, 1, e)[n] = q.inp[1 + n - 1]
            <7>. HIDE DEF e
            <7>. QED BY <6>1, <6>2, <6>3, SubSeqProperties DEF e
          <6>5. line = SubSeq(q.inp, 1, e)
            BY PlainLines
          <6>. QED BY <5>1, <6>4, <6>5
        <5>3. 1 \in 1..(LineEnd(q.inp) - 1)
          BY <2>5, <5>1, <5>2
        <5>. QED BY <5>1, <5>2, <5>3
      <4>2. Strays(q) => q.inp[1].k = "byte"
        BY <4>1 DEF Strays
      <4>. QED BY <2>5, <4>1, <4>2
    <3>3. Receives(s, q, k, q.inp \o r, open, U)
      BY <2>3, <3>2
    <3>4. PICK v \in U : \E p \in PartsOf(s, HashMod(v)), more \in More(v, s) :
             /\ PathOf(v) = q.filename /\ Awaits(q, v, p, more)
             /\ OnItsWay(k, q.inp \o r, open, Due(q, v, p, more))
      BY <3>3, Zenon DEF Receives
    <3>5. PICK p \in PartsOf(s, HashMod(v)), more \in More(v, s) :
             /\ PathOf(v) = q.filename /\ Awaits(q, v, p, more)
             /\ OnItsWay(k, q.inp \o r, open, Due(q, v, p, more))
      BY <3>4
    <3>6. v \in Version /\ p \in Part /\ more \in Seq(NotPut)
      BY PartsOfServer, MoreType
    <3>. DEFINE l == PartLength(Size(v), p)
    <3>7. /\ line[1] = Header(p, l) /\ OnItsWay(k, rest \o r, open, PartOf(v, p) \o more)
      <4>1. OnItsWay(k, q.inp \o r, open, PartText(v, p) \o more)
        BY <1>3, <3>5, Zenon DEF Due
      <4>2. v \in Version /\ p \in Part /\ more \in Seq(NotPut)
        BY <3>6
      <4>. HIDE DEF q
      <4>. QED BY <1>3, <2>1, <4>1, <4>2, HeaderDue, ZenonT(40)
    <3>8. line[1].p = p /\ line[1].l = l
      BY <3>7 DEF Header
    <3>. DEFINE st == q.putState + 1
                pn == line[1].p
                ws == line[1].l
    <3>9. qH = [q EXCEPT !.inp = rest, !.partnum = pn, !.wantedSize = ws, !.putState = st]
      OBVIOUS
    <3>. HIDE DEF qH, rest, line, pn, ws, l
    <3>10. /\ qH.inp = rest /\ qH.partnum = p /\ qH.wantedSize = l
           /\ qH.filename = q.filename /\ qH.cb = q.cb /\ qH.out = q.out /\ qH.open = q.open
      BY <3>8, <3>9 DEF Connection, pn, ws
    <3>11. /\ qH.putState \in {1, 3} /\ qH.putState \notin {0, 2}
           /\ qH.putState \in {0, 1} => q.putState \in {0, 1}
      BY <1>3, <3>9 DEF Connection
    <3>. HIDE DEF st, q
    <3>12. Awaits(qH, v, p, more)
      BY <3>5, <3>10, <3>11, Zenon DEF Awaits, l
    <3>13. Due(qH, v, p, more) = PartOf(v, p) \o more
      BY <3>11, Zenon DEF Due
    <3>14. Receives(s, qH, k, rest \o r, open, U)
      BY <3>5, <3>7, <3>10, <3>12, <3>13, Zenon DEF Receives
    <3>15. CASE rest = <<>>
      <4>. DEFINE g == At(qH, h.files, "return")
      <4>1. g.q = qH /\ g.files = h.files /\ g.go = "return" /\ PutHeader(h) = g
        BY <3>1, <3>15, AtFields
      <4>2. rest \o r = r
        BY <3>15, ConcatEmptySeq
      <4>3. Rests(s, qH, k, r, open, U)
        BY <2>3, <3>10, <3>14, <3>15, <4>2, Zenon DEF Rests
      <4>. HIDE DEF g
      <4>4. g.go # "on"
        BY <4>1
      <4>. QED BY <2>2, <2>3, <3>10, <4>1, <4>3, <4>4, Zenon DEF LoopHolds
    <3>16. CASE rest # <<>>
      <4>. DEFINE g == At(qH, h.files, "on")
      <4>1. g.q = qH /\ g.files = h.files /\ g.go = "on" /\ PutHeader(h) = g
        BY <3>1, <3>16, AtFields
      <4>. HIDE DEF g
      <4>2. g.go # "return"
        BY <4>1
      <4>. QED BY <2>2, <2>3, <3>10, <3>14, <3>16, <4>1, <4>2, Zenon DEF LoopHolds
    <3>. QED BY <3>15, <3>16
  <2>. QED BY <2>4, <2>5
<1>. QED BY <1>1, <1>2, <1>3, Zenon

(* Where a part has come whole it is stored as it was cut; FlatNames says  *)
(* that no upload has a '/' in its name.                                   *)
FlatNames == \A v \in Version : PathOf(v) \notin Missing

LEMMA StoredRight ==
  ASSUME NEW U, NEW s, NEW files \in Files(Written), PartsRight(files, s, U), NEW q,
         NEW v \in U, NEW p \in PartsOf(s, HashMod(v)),
         PathOf(v) = q.filename, q.partnum = p, Take(q.inp, q.wantedSize) = PartOf(v, p)
  PROVE  PartsRight(Storing(files, q), s, U)
<1>. SUFFICES ASSUME NEW f \in File, NEW n \in Number, Storing(files, q)[f][n] # NoPart
              PROVE  \E u \in U : /\ PathOf(u) = f /\ n \in PartsOf(s, HashMod(u))
                                  /\ IsPart(Storing(files, q)[f][n], s, u, n)
  BY Zenon DEF PartsRight
<1> DEFINE d == Take(q.inp, q.wantedSize)
<1>1. Storing(files, q) = [files EXCEPT ![q.filename][q.partnum] = d]
  BY DEF Storing, StoringFirst
<1>. HIDE DEF d
<1>2. CASE f = q.filename /\ n = q.partnum
  <2>1. Storing(files, q)[f][n] = d
    BY <1>1, <1>2 DEF Files
  <2>. QED BY <1>2, <2>1, Zenon DEF d, IsPart
<1>3. CASE ~(f = q.filename /\ n = q.partnum)
  <2>1. Storing(files, q)[f][n] = files[f][n]
    BY <1>1, <1>3 DEF Files
  <2>. QED BY <2>1, Zenon DEF PartsRight
<1>. QED BY <1>2, <1>3

(* The bytes of a part that has come are the part.                         *)
PartIn(q, s, v, p) ==
  /\ PathOf(v) = q.filename /\ q.partnum = p /\ q.wantedSize = PartLength(Size(v), p)
  /\ Take(q.inp, q.wantedSize) = PartOf(v, p)

LEMMA PartComes ==
  ASSUME NEW Out, NEW s \in Server, NEW k, k.out \in Seq(Seq(Written)), NEW open,
         NEW U, U \subseteq Version, NEW r \in Seq(Written), NEW q0, q0.inp \in Seq(Written),
         NEW h, h.q \in Connection(Written, Out),
         LoopHolds(s, q0, h, k, r, open, U),
         h.go = "on", h.q.putState \in {1, 3}, Enough(h.q)
  PROVE  \E v \in U : \E p \in PartsOf(s, HashMod(v)) : PartIn(h.q, s, v, p)
<1> DEFINE q == h.q
<1>1. /\ q.inp \in Seq(Written) /\ q.putState \notin {0, 2} /\ ~Strays(q)
  BY DEF Connection, Strays
<1>2. Receives(s, q, k, q.inp \o r, open, U)
  BY <1>1, Zenon DEF LoopHolds
<1>3. PICK v \in U : \E p \in PartsOf(s, HashMod(v)), more \in More(v, s) :
         /\ PathOf(v) = q.filename /\ Awaits(q, v, p, more)
         /\ OnItsWay(k, q.inp \o r, open, Due(q, v, p, more))
  BY <1>2, Zenon DEF Receives
<1>4. PICK p \in PartsOf(s, HashMod(v)), more \in More(v, s) :
         /\ PathOf(v) = q.filename /\ Awaits(q, v, p, more)
         /\ OnItsWay(k, q.inp \o r, open, Due(q, v, p, more))
  BY <1>3
<1>5. v \in Version /\ p \in Part /\ more \in Seq(NotPut)
  BY PartsOfServer, MoreType
<1>. DEFINE l == PartLength(Size(v), p)
<1>6. q.partnum = p /\ q.wantedSize = l
  BY <1>1, <1>4, Zenon DEF Awaits
<1>7. Len(q.inp) >= l => Take(q.inp, l) = PartOf(v, p)
  <2>1. OnItsWay(k, q.inp \o r, open, PartOf(v, p) \o more)
    BY <1>1, <1>4, Zenon DEF Due
  <2>2. q.inp \in Seq(Written) /\ v \in Version /\ p \in Part /\ more \in Seq(NotPut)
    BY <1>1, <1>5
  <2>. HIDE DEF q
  <2>. QED BY <2>1, <2>2, DataDue
<1>8. Take(q.inp, l) = PartOf(v, p)
  BY <1>6, <1>7 DEF Enough
<1>. HIDE DEF q
<1>9. PartIn(q, s, v, p)
  BY <1>4, <1>6, <1>8, Zenon DEF PartIn
<1>. QED BY <1>9, Zenon DEF q

LEMMA DataStep ==
  ASSUME FlatNames, PlainFiles,
         NEW Out, NEW c \in Conn, folder[c[2]], NEW k, k.out \in Seq(Seq(Written)), NEW open,
         NEW U, U \subseteq Version, NEW r \in Seq(Written), NEW q0, q0.inp \in Seq(Written),
         NEW h, h.q \in Connection(Written, Out), h.files \in Files(Written),
         LoopHolds(c[2], q0, h, k, r, open, U),
         h.go = "on" => h.q.putState \in {1, 3}
  PROVE  LoopHolds(c[2], q0, PutData(c, h), k, r, open, U)
<1> DEFINE s    == c[2]
           q    == h.q
           inp  == IF Enough(q) THEN Drop(q.inp, q.wantedSize) ELSE q.inp
           files2 == IF Enough(q) THEN Storing(h.files, q) ELSE h.files
           qB == Finished([q EXCEPT !.inp = inp])
           qC == [q EXCEPT !.inp = inp, !.putState = 2]
<1>1. CASE h.go # "on"
  BY <1>1, Zenon DEF PutData
<1>2. CASE h.go = "on"
  <2>1. /\ q.inp \in Seq(Written) /\ q.putState \in {1, 3} /\ q.putState \notin {0, 2} /\ ~Strays(q)
    BY <1>2 DEF Connection, Strays
  <2>2. /\ q.cb = "put" /\ q.inp # <<>> /\ Receives(s, q, k, q.inp \o r, open, U)
        /\ EndsWith(q0.inp, q.inp) /\ q.out = q0.out /\ q.open = q0.open
        /\ PartsRight(h.files, s, U)
    BY <1>2, <2>1, Zenon DEF LoopHolds
  <2>3. PICK v \in U : \E p \in PartsOf(s, HashMod(v)), more \in More(v, s) :
           /\ PathOf(v) = q.filename /\ Awaits(q, v, p, more)
           /\ OnItsWay(k, q.inp \o r, open, Due(q, v, p, more))
    BY <2>2, Zenon DEF Receives
  <2>4. PICK p \in PartsOf(s, HashMod(v)), more \in More(v, s) :
           /\ PathOf(v) = q.filename /\ Awaits(q, v, p, more)
           /\ OnItsWay(k, q.inp \o r, open, Due(q, v, p, more))
    BY <2>3
  <2>. s \in Server
    BY DEF Conn
  <2>5. v \in Version /\ p \in Part /\ more \in Seq(NotPut)
    BY PartsOfServer, MoreType
  <2>. DEFINE l == PartLength(Size(v), p)
  <2>6. q.partnum = p /\ q.wantedSize = l
    BY <2>1, <2>4, Zenon DEF Awaits
  <2>7. /\ l \in Nat
        /\ Len(q.inp) >= l => /\ Take(q.inp, l) = PartOf(v, p)
                              /\ OnItsWay(k, Drop(q.inp, l) \o r, open, more)
        /\ ~(Len(q.inp) >= l) => \A n \in 1..Len(q.inp) : q.inp[n].k = "byte"
    <3>1. OnItsWay(k, q.inp \o r, open, PartOf(v, p) \o more)
      BY <2>1, <2>4, Zenon DEF Due
    <3>2. q.inp \in Seq(Written) /\ v \in Version /\ p \in Part /\ more \in Seq(NotPut)
      BY <2>1, <2>5
    <3>. HIDE DEF q
    <3>. QED BY <3>1, <3>2, DataDue
  <2>8. Opens(c[2], q.filename)
    <3>1. PathOf(v) \notin Missing
      BY <2>5, Zenon DEF FlatNames
    <3>. QED BY <2>4, <3>1, Zenon DEF Opens
  <2>9. inp \in Seq(Written) /\ EndsWith(q0.inp, inp)
    <3>1. CASE Enough(q)
      <4>1. inp = Drop(q.inp, l)
        BY <2>6, <3>1
      <4>. HIDE DEF inp, l, q
      <4>2. Drop(q.inp, l) \in Seq(Written) /\ EndsWith(q.inp, Drop(q.inp, l))
        BY <2>1, <2>7, TakeDropType, DropEnds
      <4>3. q.inp \in Seq(Written) /\ EndsWith(q0.inp, q.inp)
        BY <2>1, <2>2
      <4>4. EndsWith(q0.inp, Drop(q.inp, l))
        BY <4>2, <4>3, EndsLater
      <4>. QED BY <4>1, <4>2, <4>4, Zenon
    <3>2. CASE ~Enough(q)
      BY <2>1, <2>2, <3>2
    <3>. QED BY <3>1, <3>2
  <2>10. PartsRight(files2, s, U)
    <3>1. CASE Enough(q)
      <4>1. Take(q.inp, q.wantedSize) = PartOf(v, p)
        BY <2>6, <2>7, <3>1 DEF Enough
      <4>2. PartsRight(Storing(h.files, q), s, U)
        <5>. HIDE DEF q
        <5>. QED BY <2>2, <2>4, <2>6, <4>1, StoredRight, Zenon
      <4>. QED BY <3>1, <4>2
    <3>2. CASE ~Enough(q)
      BY <2>2, <3>2
    <3>. QED BY <3>1, <3>2
  <2>11. Enough(q) => inp = Drop(q.inp, l) /\ OnItsWay(k, inp \o r, open, more)
    BY <2>6, <2>7 DEF Enough
  <2>12. ~Enough(q) => inp = q.inp /\ \A n \in 1..Len(inp) : inp[n].k = "byte"
    BY <2>6, <2>7 DEF Enough
  <2>. HIDE DEF files2
  <2>13. CASE q.putState = 3
    <3>1. PutData(c, h) = At(qB, files2, "return")
      BY <1>2, <2>8, <2>13, Zenon DEF PutData, inp, files2
    <3>. HIDE DEF inp
    <3>2. qB.cb = "read" /\ qB.putState = 0 /\ qB.inp = inp /\ qB.out = q.out /\ qB.open = q.open
      BY DEF Finished, Connection
    <3>3. Rests(s, qB, k, r, open, U)
      BY <3>2 DEF Rests
    <3>. HIDE DEF qB
    <3>. DEFINE g == At(qB, files2, "return")
    <3>4. g.q = qB /\ g.files = files2 /\ g.go = "return" /\ PutData(c, h) = g
      BY <3>1, AtFields
    <3>. HIDE DEF g
    <3>5. g.go # "on"
      BY <3>4
    <3>. HIDE DEF q
    <3>. QED BY <2>2, <2>9, <2>10, <3>2, <3>3, <3>4, <3>5, Zenon DEF LoopHolds
  <2>14. CASE q.putState = 1
    <3>1. PutData(c, h) = At(qC, files2, IF inp = <<>> THEN "return" ELSE "on")
      <4>1. q.putState # 3
        BY <2>14
      <4>. QED BY <1>2, <2>8, <4>1, Zenon DEF PutData, inp, files2
    <3>. HIDE DEF inp
    <3>2. /\ qC.cb = "put" /\ qC.putState = 2 /\ qC.inp = inp /\ qC.out = q.out /\ qC.open = q.open
          /\ qC.filename = q.filename
      BY <2>2 DEF Connection
    <3>. HIDE DEF qC, l
    <3>3. Enough(q) => Receives(s, qC, k, inp \o r, open, U)
      <4>. SUFFICES ASSUME Enough(q) PROVE Receives(s, qC, k, inp \o r, open, U)
        OBVIOUS
      <4>1. more # <<>>
        BY <2>4, <2>14 DEF Awaits
      <4>2. PICK p2 \in PartsOf(s, HashMod(v)) : more = PartText(v, p2)
        BY <4>1, Zenon DEF More
      <4>3. <<>> \in More(v, s)
        BY DEF More
      <4>4. Awaits(qC, v, p2, <<>>)
        BY <3>2 DEF Awaits
      <4>5. Due(qC, v, p2, <<>>) = more
        <5>1. more \o <<>> = more
          BY <2>5, ConcatEmptySeq
        <5>2. qC.putState \in {0, 2}
          BY <3>2
        <5>. QED BY <4>2, <5>1, <5>2, Zenon DEF Due
      <4>6. PathOf(v) = qC.filename /\ OnItsWay(k, inp \o r, open, Due(qC, v, p2, <<>>))
        BY <2>4, <2>11, <3>2, <4>5
      <4>. QED BY <4>3, <4>4, <4>6, Zenon DEF Receives
    <3>4. ~Enough(q) => Strays(qC) /\ inp # <<>>
      BY <2>2, <2>12, <3>2 DEF Strays
    <3>5. CASE inp = <<>>
      <4>. DEFINE g == At(qC, files2, "return")
      <4>1. g.q = qC /\ g.files = files2 /\ g.go = "return" /\ PutData(c, h) = g
        BY <3>1, <3>5, AtFields
      <4>2. inp \o r = r
        BY <3>5, ConcatEmptySeq
      <4>3. Rests(s, qC, k, r, open, U)
        BY <3>2, <3>3, <3>4, <3>5, <4>2, Zenon DEF Rests
      <4>. HIDE DEF g
      <4>4. g.go # "on"
        BY <4>1
      <4>. HIDE DEF q
      <4>. QED BY <2>2, <2>9, <2>10, <3>2, <4>1, <4>3, <4>4, Zenon DEF LoopHolds
    <3>6. CASE inp # <<>>
      <4>. DEFINE g == At(qC, files2, "on")
      <4>1. g.q = qC /\ g.files = files2 /\ g.go = "on" /\ PutData(c, h) = g
        BY <3>1, <3>6, AtFields
      <4>2. Receives(s, qC, k, qC.inp \o r, open, U) \/ Strays(qC)
        BY <3>2, <3>3, <3>4, Zenon
      <4>. HIDE DEF g
      <4>3. g.go # "return"
        BY <4>1
      <4>. HIDE DEF q
      <4>. QED BY <2>2, <2>9, <2>10, <3>2, <3>6, <4>1, <4>2, <4>3, Zenon DEF LoopHolds
    <3>. QED BY <3>5, <3>6
  <2>. QED BY <2>1, <2>13, <2>14
<1>. QED BY <1>1, <1>2

LEMMA RoundStep ==
  ASSUME FlatNames, PlainFiles,
         NEW Out, NEW c \in Conn, folder[c[2]], NEW k, k.out \in Seq(Seq(Written)), NEW open,
         NEW U, U \subseteq Version, NEW r \in Seq(Written), NEW q0, q0.inp \in Seq(Written),
         NEW h, h.q \in Connection(Written, Out), UploadOK(h.q), h.files \in Files(Written),
         LoopHolds(c[2], q0, h, k, r, open, U),
         NEW h2, h2 = PutData(c, PutHeader(h))
  PROVE  LoopHolds(c[2], q0, h2, k, r, open, U)
<1>1. PICK h1 : h1 = PutHeader(h)
  OBVIOUS
<1>2. c[2] \in Server /\ Written \subseteq Token
  BY Directions DEF Conn
<1>3. /\ h1.q \in Connection(Written, Out) /\ h1.files = h.files
      /\ h1.go = "on" => h1.q.putState \in {1, 3}
  BY <1>1, <1>2, HeaderType, Zenon
<1>4. LoopHolds(c[2], q0, h1, k, r, open, U)
  BY <1>1, <1>2, HeaderStep
<1>5. h1.files \in Files(Written)
  BY <1>3
<1>6. LoopHolds(c[2], q0, PutData(c, h1), k, r, open, U)
  BY <1>3, <1>4, <1>5, DataStep
<1>. QED BY <1>1, <1>6, Zenon

LEMMA LoopKeeps ==
  ASSUME FlatNames, PlainFiles,
         NEW Out, NEW c \in Conn, folder[c[2]], NEW k, k.out \in Seq(Seq(Written)), NEW open,
         NEW U, U \subseteq Version, NEW r \in Seq(Written),
         NEW q \in Connection(Written, Out), UploadOK(q), q.filename \in File,
         disk[c[2]] \in Files(Written), PartsRight(disk[c[2]], c[2], U),
         q.cb = "put", q.inp # <<>>, Receives(c[2], q, k, q.inp \o r, open, U),
         NEW h \in PutLoop(c, q)
  PROVE  LoopHolds(c[2], q, h, k, r, open, U)
<1> DEFINE f == q.filename
<1>1. PICK h0, h1 : /\ h0 = Loop(c, q)
                    /\ h1 = PutData(c, PutHeader(h0))
                    /\ h = PutData(c, PutHeader(h1))
  BY Zenon DEF PutLoop, PutRound, Headers
<1>2. h0.q = q /\ h0.files = disk[c[2]] /\ h0.go = "on"
  BY <1>1, AtFields DEF Loop
<1>3. q.inp \in Seq(Written)
  BY DEF Connection
<1>4. EndsWith(q.inp, q.inp) /\ h0.go # "return"
  BY <1>2, <1>3, EndsLater
<1>5. LoopHolds(c[2], q, h0, k, r, open, U)
  BY <1>2, <1>4, Zenon DEF LoopHolds
<1>6. /\ h0.q \in Connection(Written, Out) /\ UploadOK(h0.q) /\ h0.files \in Files(Written)
      /\ h0.q.filename = f /\ f \in File
  BY <1>2, Zenon
<1>7. Written \subseteq Token
  BY Directions
<1>8. h1.q \in Connection(Written, Out) /\ UploadOK(h1.q) /\ h1.files \in Files(Written)
  <2>1. h1 = PutData(c, PutHeader(h0)) /\ (h0.go = "on" => h0.q.filename = f)
    BY <1>1, <1>6
  <2>. HIDE DEF f
  <2>. QED BY <1>6, <1>7, <2>1, RoundType, ZenonT(60)
<1>9. LoopHolds(c[2], q, h1, k, r, open, U)
  BY <1>1, <1>3, <1>5, <1>6, RoundStep, Zenon
<1>. QED BY <1>1, <1>3, <1>8, <1>9, RoundStep, Zenon

(* A kill comes while a part is written: it is the part that is due.       *)
LEMMA WritesRight ==
  ASSUME FlatNames, PlainFiles,
         NEW Out, NEW c \in Conn, folder[c[2]], NEW k, k.out \in Seq(Seq(Written)), NEW open,
         NEW U, U \subseteq Version, NEW r \in Seq(Written),
         NEW q \in Connection(Written, Out), UploadOK(q), q.filename \in File,
         disk[c[2]] \in Files(Written), PartsRight(disk[c[2]], c[2], U),
         q.cb = "put", q.inp # <<>>, Receives(c[2], q, k, q.inp \o r, open, U),
         NEW g \in Writes(c, q)
  PROVE  /\ g.files \in Files(Written) /\ PartsRight(g.files, c[2], U)
         /\ g.q.inp \in Seq(Written) /\ Enough(g.q)
         /\ \E v \in U : \E p \in PartsOf(c[2], HashMod(v)) : PartIn(g.q, c[2], v, p)
<1> DEFINE f == q.filename
<1>1. PICK h0, h1 : h0 = Loop(c, q) /\ h1 = PutData(c, PutHeader(h0))
  OBVIOUS
<1>2. h0.q = q /\ h0.files = disk[c[2]] /\ h0.go = "on"
  BY <1>1, AtFields DEF Loop
<1>3. q.inp \in Seq(Written) /\ Written \subseteq Token /\ c[2] \in Server
  BY Directions DEF Connection, Conn
<1>4. EndsWith(q.inp, q.inp) /\ h0.go # "return"
  BY <1>2, <1>3, EndsLater
<1>5. LoopHolds(c[2], q, h0, k, r, open, U)
  BY <1>2, <1>4, Zenon DEF LoopHolds
<1>6. /\ h0.q \in Connection(Written, Out) /\ UploadOK(h0.q) /\ h0.files \in Files(Written)
      /\ h0.q.filename = f /\ f \in File
  BY <1>2, Zenon
<1>7. h1.q \in Connection(Written, Out) /\ UploadOK(h1.q) /\ h1.files \in Files(Written)
  <2>1. h1 = PutData(c, PutHeader(h0)) /\ (h0.go = "on" => h0.q.filename = f)
    BY <1>1, <1>6
  <2>. HIDE DEF f
  <2>. QED BY <1>3, <1>6, <2>1, RoundType, ZenonT(60)
<1>8. LoopHolds(c[2], q, h1, k, r, open, U)
  BY <1>1, <1>3, <1>5, <1>6, RoundStep, Zenon
<1>9. g.go = "on" /\ Enough(g.q) /\ \E h \in {h0, h1} : g = PutHeader(h)
  BY <1>1, Zenon DEF Writes, Headers, PutRound
<1>10. PICK h \in {h0, h1} : g = PutHeader(h)
  BY <1>9
<1>11. /\ LoopHolds(c[2], q, h, k, r, open, U)
       /\ h.q \in Connection(Written, Out) /\ UploadOK(h.q) /\ h.files \in Files(Written)
  BY <1>5, <1>6, <1>7, <1>8
<1>12. LoopHolds(c[2], q, g, k, r, open, U)
  BY <1>3, <1>10, <1>11, HeaderStep
<1>13. g.q \in Connection(Written, Out) /\ g.files = h.files /\ g.q.putState \in {1, 3}
  BY <1>3, <1>9, <1>10, <1>11, HeaderType, Zenon
<1>14. g.q.inp \in Seq(Written)
  BY <1>13 DEF Connection
<1>15. PartsRight(g.files, c[2], U)
  BY <1>12, Zenon DEF LoopHolds
<1>16. \E v \in U : \E p \in PartsOf(c[2], HashMod(v)) : PartIn(g.q, c[2], v, p)
  BY <1>3, <1>9, <1>12, <1>13, PartComes
<1>. QED BY <1>9, <1>11, <1>13, <1>14, <1>15, <1>16
-----------------------------------------------------------------------------
(* What other steps leave of the protocol.                                 *)
SameUpload(q, q2) ==
  q2.putState = q.putState /\ q2.partnum = q.partnum /\ q2.wantedSize = q.wantedSize /\ q2.filename = q.filename

LEMMA ReceivesKept ==
  ASSUME NEW s \in Server, NEW U, U \subseteq Version, NEW U2, U \subseteq U2,
         NEW q, NEW q2, SameUpload(q, q2), NEW k, NEW k2, NEW t, NEW t2, NEW open, NEW open2,
         Receives(s, q, k, t, open, U),
         \A e \in Seq(Written) : OnItsWay(k, t, open, e) => OnItsWay(k2, t2, open2, e)
  PROVE  Receives(s, q2, k2, t2, open2, U2)
<1>1. PICK v \in U : \E p \in PartsOf(s, HashMod(v)), more \in More(v, s) :
         /\ PathOf(v) = q.filename /\ Awaits(q, v, p, more)
         /\ OnItsWay(k, t, open, Due(q, v, p, more))
  BY Zenon DEF Receives
<1>2. PICK p \in PartsOf(s, HashMod(v)), more \in More(v, s) :
         /\ PathOf(v) = q.filename /\ Awaits(q, v, p, more)
         /\ OnItsWay(k, t, open, Due(q, v, p, more))
  BY <1>1
<1>3. Due(q, v, p, more) \in Seq(Written)
  <2>1. v \in Version
    OBVIOUS
  <2>2. Due(q, v, p, more) \in Seq(NotPut)
    BY <2>1, DueType
  <2>. QED BY <2>2, NotPutWritten
<1>4. Due(q2, v, p, more) = Due(q, v, p, more)
  BY DEF Due, SameUpload
<1>5. Awaits(q2, v, p, more) /\ PathOf(v) = q2.filename
  BY <1>2 DEF Awaits, SameUpload
<1>6. OnItsWay(k2, t2, open2, Due(q2, v, p, more)) /\ v \in U2
  BY <1>2, <1>3, <1>4
<1>. QED BY <1>5, <1>6, Zenon DEF Receives

LEMMA SameSelf ==
  ASSUME NEW q
  PROVE  SameUpload(q, q)
BY DEF SameUpload

(* A connection that is closed: nothing is sent any more, and what is on   *)
(* its way may be lost.                                                    *)
LEMMA ClosedKept ==
  ASSUME NEW s \in Server, NEW U, U \subseteq Version, NEW U2, U \subseteq U2,
         NEW q, q.inp \in Seq(Written), NEW k, NEW k2, NEW w \in Seq(Written), NEW w2, w2 \in {w, <<>>},
         NEW b, NEW b2, NEW open, NEW open2, ~open2, Protocol(s, q, k, w, b, open, U),
         k2.cb = "put" => k2.version \in U2
  PROVE  Protocol(s, q, k2, w2, b2, open2, U2)
<1>1. /\ ServerPhase(s, q, k, w, open, U)
      /\ PutLast(q.inp \o w)
  BY Zenon DEF Protocol
<1>2. ASSUME NEW e, OnItsWay(k, w, open, e) PROVE OnItsWay(k2, w2, open2, e)
  <2>1. Agrees(w, e)
    BY <1>2, Zenon DEF OnItsWay
  <2>2. Agrees(<<>>, e)
    BY DEF Agrees
  <2>. QED BY <2>1, <2>2, Zenon DEF OnItsWay
<1>3. Receives(s, q, k, w, open, U) => Receives(s, q, k2, w2, open2, U2)
  <2>1. SameUpload(q, q) /\ \A e \in Seq(Written) : OnItsWay(k, w, open, e) => OnItsWay(k2, w2, open2, e)
    BY <1>2, SameSelf
  <2>. QED BY <2>1, ReceivesKept
<1>4. Waits(q, k, w, open) => Waits(q, k2, w2, open2)
  BY DEF Waits
<1>5. ServerPhase(s, q, k2, w2, open2, U2)
  BY <1>1, <1>3, <1>4, Zenon DEF ServerPhase
<1>6. PutLast(q.inp \o w2)
  <2>1. CASE w2 = w
    BY <1>1, <2>1
  <2>2. CASE w2 = <<>>
    <3>1. q.inp \o w2 = q.inp
      BY <2>2, ConcatEmptySeq
    <3>2. /\ q.inp \o w \in Seq(Written) /\ Len(q.inp \o w) = Len(q.inp) + Len(w)
          /\ \A i \in 1..(Len(q.inp) + Len(w)) : (q.inp \o w)[i] = IF i <= Len(q.inp) THEN q.inp[i] ELSE w[i - Len(q.inp)]
          /\ Len(q.inp) \in Nat /\ Len(w) \in Nat
      BY ConcatProperties, LenProperties
    <3>. DEFINE x == q.inp
                y == q.inp \o w
    <3>3. /\ Len(x) \in Nat /\ Len(y) \in Nat /\ Len(x) <= Len(y)
          /\ \A i \in 1..Len(x) : y[i] = x[i]
      BY <3>2
    <3>4. PutLast(y)
      BY <1>1
    <3>. HIDE DEF x, y
    <3>5. PutLast(x)
      <4>1. ASSUME NEW i \in 1..Len(x), x[i].k = "PUT"
            PROVE  Len(x) <= i + 3 /\ \A j \in (i + 1)..Len(x) : x[j] \in Closing
        <5>1. i \in 1..Len(y) /\ y[i].k = "PUT"
          BY <3>3, <4>1
        <5>2. Len(y) <= i + 3 /\ \A j \in (i + 1)..Len(y) : y[j] \in Closing
          BY <3>4, <5>1, Zenon DEF PutLast
        <5>3. ASSUME NEW j \in (i + 1)..Len(x) PROVE x[j] \in Closing
          <6>1. j \in (i + 1)..Len(y) /\ j \in 1..Len(x)
            BY <3>3
          <6>. QED BY <3>3, <5>2, <6>1
        <5>4. Len(x) <= i + 3
          BY <3>3, <5>2
        <5>. QED BY <5>3, <5>4
      <4>. QED BY <4>1, Zenon DEF PutLast
    <3>. QED BY <3>1, <3>5 DEF x
  <2>. QED BY <2>1, <2>2
<1>. QED BY <1>5, <1>6, Zenon DEF Protocol, ClientPhase

(* A connection that nothing has been sent on.                             *)
LEMMA EmptyPutLast ==
  PutLast(<<>>)
BY DEF PutLast

LEMMA FreshProtocol ==
  ASSUME NEW s, NEW U, NEW q, q \in {Absent, Accepted}, NEW k, k.cb = "put" => k.version \in U,
         NEW b, NEW open, open => k.out = <<>> /\ k.inp = <<>> /\ b = <<>>
  PROVE  Protocol(s, q, k, <<>>, b, open, U)
<1>1. q.cb = "read" /\ q.putState = 0 /\ q.inp = <<>> /\ q.out = <<>>
  BY DEF Absent, Accepted
<1>2. ServerPhase(s, q, k, <<>>, open, U)
  BY <1>1 DEF ServerPhase
<1>3. <<>> \o <<>> = <<>>
  OBVIOUS
<1>4. ClientPhase(q, k, <<>>, b, open)
  <2>. SUFFICES ASSUME open PROVE Talks(q, k, q.inp \o <<>>, k.inp \o b)
    BY Zenon DEF ClientPhase
  <2>1. NoReady(q, <<>>)
    BY <1>1 DEF NoReady, Silent
  <2>2. <<>> \in Seq(NotPut) /\ <<>> \in Seq(Seq(NotPut))
    OBVIOUS
  <2>. QED BY <1>1, <1>3, <2>1, <2>2 DEF Talks
<1>. QED BY <1>1, <1>2, <1>3, <1>4, EmptyPutLast DEF Protocol

LEMMA Shorter ==
  ASSUME NEW x \in Seq(Written), NEW y \in Seq(Written), EndsWith(x, y), NEW k
  PROVE  /\ PutLast(x) => PutLast(y)
         /\ x \in Seq(NotPut) => y \in Seq(NotPut)
         /\ Asking(k, x) => Asking(k, y)
         /\ Asked(k, x) => Asked(k, y)
<1>1. PICK a \in Seq(Written) : x = a \o y
  BY DEF EndsWith
<1> DEFINE n == Len(a)
<1>2. /\ n \in Nat /\ Len(y) \in Nat /\ Len(x) = n + Len(y)
      /\ \A i \in 1..Len(y) : n + i \in 1..Len(x) /\ x[n + i] = y[i]
  <2>1. /\ Len(a) \in Nat /\ Len(y) \in Nat /\ Len(x) = Len(a) + Len(y)
        /\ \A i \in 1..(Len(a) + Len(y)) : x[i] = IF i <= Len(a) THEN a[i] ELSE y[i - Len(a)]
    BY <1>1, ConcatProperties, LenProperties
  <2>2. ASSUME NEW i \in 1..Len(y) PROVE n + i \in 1..Len(x) /\ x[n + i] = y[i]
    <3>1. n + i \in 1..(Len(a) + Len(y)) /\ ~(n + i <= Len(a)) /\ (n + i) - Len(a) = i
      BY <2>1
    <3>2. x[n + i] = IF n + i <= Len(a) THEN a[n + i] ELSE y[(n + i) - Len(a)]
      BY <2>1, <3>1
    <3>3. x[n + i] = y[i]
      BY <3>1, <3>2
    <3>. QED BY <2>1, <3>1, <3>3
  <2>. QED BY <2>1, <2>2
<1>. HIDE DEF n
<1>3. ASSUME PutLast(x) PROVE PutLast(y)
  <2>1. ASSUME NEW i \in 1..Len(y), y[i].k = "PUT"
        PROVE  Len(y) <= i + 3 /\ \A j \in (i + 1)..Len(y) : y[j] \in Closing
    <3>1. n + i \in 1..Len(x) /\ x[n + i].k = "PUT"
      BY <1>2, <2>1
    <3>2. Len(x) <= (n + i) + 3 /\ \A j \in ((n + i) + 1)..Len(x) : x[j] \in Closing
      BY <1>3, <3>1, Zenon DEF PutLast
    <3>3. ASSUME NEW j \in (i + 1)..Len(y) PROVE y[j] \in Closing
      <4>1. j \in 1..Len(y) /\ n + j \in ((n + i) + 1)..Len(x)
        BY <1>2
      <4>. QED BY <1>2, <3>2, <4>1
    <3>4. Len(y) <= i + 3
      BY <1>2, <3>2
    <3>. QED BY <3>3, <3>4
  <2>. QED BY <2>1, Zenon DEF PutLast
<1>4. ASSUME x \in Seq(NotPut) PROVE y \in Seq(NotPut)
  <2>1. ASSUME NEW i \in 1..Len(y) PROVE y[i] \in NotPut
    <3>1. x[n + i] \in NotPut
      BY <1>2, <1>4, ElementOfSeq
    <3>. QED BY <1>2, <3>1
  <2>2. y \in [1..Len(y) -> NotPut]
    <3>1. y \in [1..Len(y) -> Written]
      BY LenProperties
    <3>. QED BY <2>1, <3>1
  <2>. QED BY <1>2, <2>2, FunctionIsSeq
<1>5. ASSUME Asking(k, x) PROVE Asking(k, y)
  BY <1>4, <1>5 DEF Asking
<1>6. ASSUME Asked(k, x) PROVE Asked(k, y)
  BY <1>2, <1>6 DEF Asked
<1>. QED BY <1>3, <1>4, <1>5, <1>6

(* The server reads a command that is no upload.                           *)
LEMMA ReadKept ==
  ASSUME NEW s, NEW U, NEW q, NEW q2, NEW k, NEW w, NEW w2, NEW b, NEW open,
         Protocol(s, q, k, w, b, open, U), q.cb = "read", q2.cb = "read", q2.putState = q.putState,
         q.inp \o w \in Seq(Written), q2.inp \o w2 \in Seq(Written), EndsWith(q.inp \o w, q2.inp \o w2),
         \A r : NoReady(q, r) => NoReady(q2, r)
  PROVE  Protocol(s, q2, k, w2, b, open, U)
<1> DEFINE x == q.inp \o w
           y == q2.inp \o w2
<1>. x \in Seq(Written) /\ y \in Seq(Written) /\ EndsWith(x, y)
  OBVIOUS
<1>1. ServerPhase(s, q, k, w, open, U) /\ ClientPhase(q, k, w, b, open) /\ PutLast(x)
      /\ (k.cb = "put" => k.version \in U)
  BY Zenon DEF Protocol
<1>2. ServerPhase(s, q2, k, w2, open, U)
  <2>1. q2.cb # "put"
    OBVIOUS
  <2>. QED BY <1>1, <2>1, Zenon DEF ServerPhase
<1>3. ~Answered(q, k, w, k.inp \o b)
  BY DEF Answered
<1>4. open => Talks(q, k, x, k.inp \o b) \/ Asks(q, k, x, k.inp \o b)
  BY <1>1, <1>3, Zenon DEF ClientPhase
<1>. HIDE DEF x, y
<1>5. /\ PutLast(x) => PutLast(y)
      /\ x \in Seq(NotPut) => y \in Seq(NotPut)
      /\ Asking(k, x) => Asking(k, y)
      /\ Asked(k, x) => Asked(k, y)
  BY Shorter, Zenon
<1>6. Talks(q, k, x, k.inp \o b) => Talks(q2, k, y, k.inp \o b)
  BY <1>5, Zenon DEF Talks
<1>7. Asks(q, k, x, k.inp \o b) => Asks(q2, k, y, k.inp \o b)
  BY <1>5, Zenon DEF Asks
<1>8. ClientPhase(q2, k, w2, b, open)
  BY <1>4, <1>6, <1>7, Zenon DEF ClientPhase, y
<1>. QED BY <1>1, <1>2, <1>5, <1>8, Zenon DEF Protocol, y

(* The server reads what an upload has sent it.                            *)
LEMMA PutKept ==
  ASSUME NEW s, NEW U, NEW q, NEW q2, NEW k, NEW w, w # <<>>, NEW w2, NEW b, NEW open,
         Protocol(s, q, k, w, b, open, U), Rests(s, q2, k, w2, open, U), q2.out = q.out,
         q.inp \o w \in Seq(Written), q2.inp \o w2 \in Seq(Written), EndsWith(q.inp \o w, q2.inp \o w2)
  PROVE  Protocol(s, q2, k, w2, b, open, U)
<1> DEFINE x == q.inp \o w
           y == q2.inp \o w2
<1>. x \in Seq(Written) /\ y \in Seq(Written) /\ EndsWith(x, y)
  OBVIOUS
<1>1. ClientPhase(q, k, w, b, open) /\ PutLast(x) /\ (k.cb = "put" => k.version \in U)
  BY Zenon DEF Protocol
<1>2. ServerPhase(s, q2, k, w2, open, U)
  <2>1. CASE q2.cb = "read" /\ q2.putState \in {0, 2}
    <3>1. q2.cb # "put"
      BY <2>1
    <3>. QED BY <2>1, <3>1, Zenon DEF ServerPhase
  <2>2. CASE q2.cb = "put" /\ q2.inp = <<>> /\ Receives(s, q2, k, w2, open, U)
    <3>1. q2.cb # "read"
      BY <2>2
    <3>. QED BY <2>2, <3>1, Zenon DEF ServerPhase
  <2>. QED BY <2>1, <2>2, Zenon DEF Rests
<1>3. ~Answered(q, k, w, k.inp \o b)
  BY DEF Answered, Waits
<1>4. open => Talks(q, k, x, k.inp \o b) \/ Asks(q, k, x, k.inp \o b)
  BY <1>1, <1>3, Zenon DEF ClientPhase
<1>. HIDE DEF x, y
<1>5. /\ PutLast(x) => PutLast(y)
      /\ x \in Seq(NotPut) => y \in Seq(NotPut)
      /\ Asking(k, x) => Asking(k, y)
      /\ Asked(k, x) => Asked(k, y)
  BY Shorter, Zenon
<1>6. \A r : NoReady(q, r) => NoReady(q2, r)
  BY DEF NoReady
<1>7. Talks(q, k, x, k.inp \o b) => Talks(q2, k, y, k.inp \o b)
  BY <1>5, <1>6, Zenon DEF Talks
<1>8. Asks(q, k, x, k.inp \o b) => Asks(q2, k, y, k.inp \o b)
  BY <1>5, <1>6, Zenon DEF Asks
<1>9. ClientPhase(q2, k, w2, b, open)
  BY <1>4, <1>7, <1>8, Zenon DEF ClientPhase, y
<1>. QED BY <1>1, <1>2, <1>5, <1>9, Zenon DEF Protocol, y
-----------------------------------------------------------------------------
(* What the server adds to its output.                                     *)
Calm(s) == TextSegs(NotReady) \cup FileSegs(s)
Outputs(s) == TextSegs(Told) \cup FileSegs(s)

LEMMA NotReadyTokens ==
  /\ NotReady \subseteq Token /\ Written \subseteq NotReady
  /\ Newline \in NotReady /\ Invalid \in NotReady /\ Bad \in NotReady /\ Terminal \in NotReady
  /\ \A s \in Server : Answers(s) \ {Ready} \subseteq NotReady
  /\ <<>> \in Seq(NotReady) /\ Seq(Written) \subseteq Seq(NotReady)
<1>1. NotReady \subseteq Token
  BY DEF NotReady
<1>2. ASSUME NEW t \in Written PROVE t \in NotReady
  BY DEF Written, NotReady, Ready
<1>3. ASSUME NEW s \in Server, NEW t \in Answers(s) \ {Ready} PROVE t \in NotReady
  BY AnswersType DEF NotReady
<1>4. Newline \in NotReady /\ Invalid \in NotReady /\ Bad \in NotReady /\ Terminal \in NotReady
  <2>1. Newline \in Token /\ Invalid \in Token /\ Bad \in Token /\ Terminal \in Token
    BY DEF Token, Newline, Invalid, Bad, Terminal
  <2>2. Newline # Ready /\ Invalid # Ready /\ Bad # Ready /\ Terminal # Ready
    <3>1. Ready.k = "PUT_READY" /\ Newline.k # "PUT_READY" /\ Invalid.k # "PUT_READY"
          /\ Bad.k # "PUT_READY" /\ Terminal.k # "PUT_READY"
      BY DEF Newline, Invalid, Bad, Terminal, Ready
    <3>. QED BY <3>1
  <2>. QED BY <2>1, <2>2 DEF NotReady
<1>5. <<>> \in Seq(NotReady)
  BY EmptySeq
<1>6. Seq(Written) \subseteq Seq(NotReady)
  BY <1>2, SeqMonotonic
<1>. QED BY <1>1, <1>2, <1>3, <1>4, <1>5, <1>6

LEMMA CalmOutput ==
  ASSUME NEW s, NEW out \in Seq(Outputs(s))
  PROVE  Silent(out) <=> out \in Seq(Calm(s))
<1>1. ASSUME NEW g \in Outputs(s) PROVE g.data \in Seq(NotReady) <=> g \in Calm(s)
  BY NotReadyTokens DEF Outputs, Calm, TextSegs, FileSegs
<1>2. Len(out) \in Nat /\ out \in [1..Len(out) -> Outputs(s)]
  BY LenProperties
<1>3. ASSUME Silent(out) PROVE out \in Seq(Calm(s))
  <2>1. \A n \in 1..Len(out) : out[n] \in Calm(s)
    BY <1>1, <1>2, <1>3 DEF Silent
  <2>2. out \in [1..Len(out) -> Calm(s)]
    BY <1>2, <2>1
  <2>. QED BY <1>2, <2>2, FunctionIsSeq
<1>4. ASSUME out \in Seq(Calm(s)), NEW n \in 1..Len(out) PROVE out[n].data \in Seq(NotReady)
  BY <1>1, <1>2, <1>4, ElementOfSeq
<1>. QED BY <1>3, <1>4 DEF Silent

(* A connection that answers nothing to uploads goes on so: what callback_ *)
(* read makes of it but for an upload.                                     *)
Spoken(s, q, r) ==
  /\ r.cb = q.cb /\ r.putState = q.putState /\ r.inp = q.inp /\ r.open = q.open
  /\ q.out \in Seq(Calm(s)) => r.out \in Seq(Calm(s))

LEMMA SpokenOut ==
  ASSUME NEW s, NEW In, NEW Out, NEW q \in Connection(In, Out), NEW out,
         q.out \in Seq(Calm(s)) => out \in Seq(Calm(s))
  PROVE  Spoken(s, q, [q EXCEPT !.out = out])
BY DEF Spoken, Connection

LEMMA SpokenText ==
  ASSUME NEW s, NEW In, NEW Out, NEW q \in Connection(In, Out), NEW d \in Seq(NotReady)
  PROVE  Spoken(s, q, [q EXCEPT !.out = AddText(q.out, d)])
<1>1. \A g \in FileSegs(s) : g.file # NoFile
  BY ChannelAssumption DEF FileSegs
<1>2. ASSUME q.out \in Seq(Calm(s)) PROVE AddText(q.out, d) \in Seq(Calm(s))
  BY <1>1, <1>2, AddTextType DEF Calm
<1>. QED BY <1>2, SpokenOut

LEMMA SpokenReply ==
  ASSUME NEW s, NEW In, NEW Out, NEW q \in Connection(In, Out), NEW t \in NotReady
  PROVE  Spoken(s, q, Reply(q, t))
<1>1. TextLine(t) \in Seq(NotReady)
  BY NotReadyTokens, TextLineType
<1>2. Reply(q, t) = [q EXCEPT !.out = AddText(q.out, TextLine(t))]
  BY DEF Reply
<1>. QED BY <1>1, <1>2, SpokenText

LEMMA SpokenCommand ==
  ASSUME NEW c \in Conn, NEW D, disk[c[2]] \in Files(D), NEW In, NEW Out, NEW q \in Connection(In, Out),
         NEW cmd \in Token, ServeGet(c, q, cmd) \/ ServeList(c, q, cmd)
  PROVE  \E r : EnterFolder(c, r) /\ Spoken(c[2], q, r)
<1> DEFINE s == c[2]
<1>1. s \in Server /\ Answers(s) \ {Ready} \subseteq NotReady
  BY NotReadyTokens DEF Conn
<1>2. Spoken(s, q, q)
  BY Zenon DEF Spoken
<1>3. CASE ServeGet(c, q, cmd)
  <2>1. cmd.k = "GET" /\ cmd.f \in File \cup {NoFile} /\ cmd.p \in Nat
    BY <1>3, TokenFields, Zenon DEF ServeGet
  <2>2. CASE EnterFolder(c, q)
    BY <1>2, <2>2
  <2>3. CASE EnterFolder(c, Reply(q, Bad))
    <3>1. Spoken(s, q, Reply(q, Bad))
      BY NotReadyTokens, SpokenReply
    <3>. QED BY <2>3, <3>1
  <2>4. CASE cmd.f # NoFile /\ cmd.p = 0
    <3>. DEFINE Added(out, p) == AddPart(out, s, Path(cmd.f), p)
                out4 == Added(Added(Added(Added(q.out, 1), 2), 3), 4)
    <3>1. Path(cmd.f) \in File
      BY <2>1, <2>4, ChannelAssumption
    <3>2. ASSUME NEW out \in Seq(Calm(s)), NEW p \in Part PROVE Added(out, p) \in Seq(Calm(s))
      BY <1>1, <3>1, AddPartType, Zenon DEF Calm
    <3>3. 1 \in Part /\ 2 \in Part /\ 3 \in Part /\ 4 \in Part
      BY DEF Part
    <3>. HIDE DEF Added
    <3>4. q.out \in Seq(Calm(s)) => out4 \in Seq(Calm(s))
      BY <3>2, <3>3, Zenon
    <3>5. EnterFolder(c, [q EXCEPT !.out = out4]) \/ EnterFolder(c, Reply(q, Bad)) \/ EnterFolder(c, q)
      BY <1>3, <2>4, Zenon DEF ServeGet, AddParts, Added, s
    <3>. HIDE DEF out4
    <3>6. Spoken(s, q, [q EXCEPT !.out = out4])
      BY <3>4, SpokenOut
    <3>. QED BY <2>2, <2>3, <3>5, <3>6, Zenon
  <2>. QED BY <1>3, <2>2, <2>3, <2>4, Zenon DEF ServeGet
<1>4. CASE ServeList(c, q, cmd)
  <2>. DEFINE d == Listing(s) \o TextLine(Terminal)
  <2>1. TextLine(Terminal) \in Seq(NotReady)
    BY NotReadyTokens, TextLineType
  <2>2. d \in Seq(NotReady)
    <3>1. Listing(s) \in Seq(NotReady)
      BY <1>1, ListingType, SeqMonotonic
    <3>. QED BY <2>1, <3>1, ConcatProperties
  <2>3. EnterFolder(c, [q EXCEPT !.out = AddText(q.out, d)])
    BY <1>4, Zenon DEF ServeList
  <2>. HIDE DEF d
  <2>. QED BY <2>2, <2>3, SpokenText
<1>. QED BY <1>3, <1>4

(* READY goes to the end of an output that has none.                       *)
LEMMA AddReady ==
  ASSUME NEW s, NEW out \in Seq(Outputs(s)), Silent(out), NEW o, o = AddText(out, TextLine(Ready))
  PROVE  EndsReady(o)
<1> DEFINE d == TextLine(Ready)
<1>0. o = AddText(out, d)
  OBVIOUS
<1>1. d \in Seq(Token) /\ Len(d) = 2 /\ d[1] = Ready /\ d[2] # Ready
  <2>1. Ready \in Token /\ Newline \in Token
    BY DEF Token, Ready, Newline
  <2>2. Newline.k # Ready.k
    BY DEF Ready, Newline
  <2>. QED BY <2>1, <2>2 DEF TextLine
<1>2. Len(out) \in Nat /\ \A n \in 1..Len(out) : out[n].data \in Seq(NotReady)
  BY LenProperties DEF Silent
<1>3. ASSUME NEW x \in Seq(NotReady), NEW i \in 1..Len(x \o d), (x \o d)[i] = Ready
      PROVE  i = Len(x \o d) - 1
  <2>0. x \in Seq(Token)
    BY NotReadyTokens, SeqMonotonic
  <2>1. /\ Len(x \o d) = Len(x) + Len(d) /\ Len(x) \in Nat
        /\ \A j \in 1..(Len(x) + Len(d)) : (x \o d)[j] = IF j <= Len(x) THEN x[j] ELSE d[j - Len(x)]
    BY <1>1, <2>0, ConcatProperties, LenProperties
  <2>2. ASSUME i <= Len(x) PROVE FALSE
    <3>1. i \in 1..Len(x) /\ x[i] = Ready
      BY <1>1, <1>3, <2>1, <2>2
    <3>2. x[i] \in NotReady
      BY <3>1, ElementOfSeq
    <3>. QED BY <3>1, <3>2 DEF NotReady
  <2>3. i - Len(x) \in 1..2 /\ d[i - Len(x)] = Ready
    BY <1>1, <1>3, <2>1, <2>2
  <2>4. i - Len(x) = 1
    BY <1>1, <2>3
  <2>. QED BY <1>1, <2>1, <2>4
<1>. HIDE DEF d
<1>4. CASE out # <<>> /\ out[Len(out)].file = NoFile
  <2>. DEFINE m == Len(out)
              g == TextSeg(out[m].data \o d)
  <2>1. o = [out EXCEPT ![m] = g] /\ m \in 1..Len(out)
    <3>1. o = [out EXCEPT ![m] = g]
      BY <1>0, <1>4, Zenon DEF AddText
    <3>2. m \in 1..Len(out)
      BY <1>2, <1>4, EmptySeq
    <3>. QED BY <3>1, <3>2
  <2>2. g.data = out[m].data \o d /\ out[m].data \in Seq(NotReady)
    <3>1. out[m].data \in Seq(NotReady)
      BY <1>2, <2>1
    <3>. QED BY <3>1 DEF TextSeg
  <2>. HIDE DEF g
  <2>3. Len(o) = m /\ o[m] = g /\ \A n \in 1..Len(out) : n # m => o[n] = out[n]
    <3>1. out \in [1..Len(out) -> Outputs(s)]
      BY LenProperties
    <3>2. o \in [1..Len(out) -> Outputs(s) \cup {g}] /\ o[m] = g /\ \A n \in 1..Len(out) : n # m => o[n] = out[n]
      BY <2>1, <3>1
    <3>3. Len(o) = Len(out)
      BY <1>2, <3>2, FunctionIsSeq
    <3>. QED BY <3>2, <3>3
  <2>4. ASSUME NEW n \in 1..Len(o), NEW i \in 1..Len(o[n].data), o[n].data[i] = Ready
        PROVE  n = Len(o) /\ i = Len(o[n].data) - 1
    <3>1. CASE n = m
      BY <1>3, <2>2, <2>3, <2>4, <3>1
    <3>2. CASE n # m
      <4>1. o[n] = out[n] /\ out[n].data \in Seq(NotReady) /\ i \in 1..Len(out[n].data)
        BY <1>2, <2>3, <2>4, <3>2
      <4>2. out[n].data[i] \in NotReady
        BY <4>1, ElementOfSeq
      <4>. QED BY <2>4, <4>1, <4>2 DEF NotReady
    <3>. QED BY <3>1, <3>2
  <2>. QED BY <2>4 DEF EndsReady
<1>5. CASE ~(out # <<>> /\ out[Len(out)].file = NoFile)
  <2>. DEFINE g == TextSeg(d)
  <2>1. o = Append(out, g)
    BY <1>0, <1>5, Zenon DEF AddText
  <2>2. g.data = <<>> \o d /\ <<>> \in Seq(NotReady)
    <3>1. <<>> \o d = d
      BY <1>1, ConcatEmptySeq
    <3>. QED BY <3>1, NotReadyTokens DEF TextSeg
  <2>. HIDE DEF g
  <2>3. Len(o) = Len(out) + 1 /\ o[Len(out) + 1] = g /\ \A n \in 1..Len(out) : o[n] = out[n]
    <3>. DEFINE T == Outputs(s) \cup {g}
    <3>1. out \in Seq(T) /\ g \in T
      BY SeqMonotonic
    <3>. HIDE DEF T
    <3>. QED BY <2>1, <3>1, AppendProperties
  <2>4. ASSUME NEW n \in 1..Len(o), NEW i \in 1..Len(o[n].data), o[n].data[i] = Ready
        PROVE  n = Len(o) /\ i = Len(o[n].data) - 1
    <3>1. CASE n = Len(out) + 1
      BY <1>3, <2>2, <2>3, <2>4, <3>1
    <3>2. CASE n # Len(out) + 1
      <4>1. n \in 1..Len(out)
        BY <1>2, <2>3, <3>2
      <4>2. o[n] = out[n] /\ out[n].data \in Seq(NotReady) /\ i \in 1..Len(out[n].data)
        BY <1>2, <2>3, <2>4, <4>1
      <4>3. out[n].data[i] \in NotReady
        BY <4>2, ElementOfSeq
      <4>. QED BY <2>4, <4>2, <4>3 DEF NotReady
    <3>. QED BY <3>1, <3>2
  <2>. QED BY <2>4 DEF EndsReady
<1>. QED BY <1>4, <1>5

(* A line, token by token.                                                 *)
LEMMA LineElements ==
  ASSUME PlainFiles, NEW S, NEW b \in Seq(S), HasLine(b)
  PROVE  /\ LineEnd(b) \in 1..Len(b) /\ Len(LineOf(b)) = LineEnd(b) - 1
         /\ \A n \in 1..(LineEnd(b) - 1) : LineOf(b)[n] = b[n]
<1> DEFINE e == LineEnd(b) - 1
<1>1. LineEnd(b) \in 1..Len(b) /\ Len(b) \in Nat
  BY LineEndInside, LenProperties
<1>2. e \in Nat /\ \A n \in 1..e : b[n] \in S
  BY <1>1, ElementOfSeq
<1>3. LineOf(b) = SubSeq(b, 1, e)
  BY PlainLines
<1>4. 1 \in Int
  OBVIOUS
<1>5. /\ Len(SubSeq(b, 1, e)) = IF 1 <= e THEN e - 1 + 1 ELSE 0
      /\ \A n \in 1..(e - 1 + 1) : SubSeq(b, 1, e)[n] = b[1 + n - 1]
  <2>. HIDE DEF e
  <2>. QED BY <1>2, <1>4, SubSeqProperties
<1>. QED BY <1>1, <1>2, <1>3, <1>5

(* The request of an upload arrives alone: nothing comes after it.         *)
LEMMA RequestAlone ==
  ASSUME PlainFiles, NEW i \in Seq(Written), NEW w \in Seq(Written), PutLast(i \o w), HasLine(i), HasLine(AfterLine(i)),
         Len(LineOf(i)) = 1, LineOf(i)[1].k = "PUT", Len(LineOf(AfterLine(i))) = 1
  PROVE  /\ AfterLine(AfterLine(i)) = <<>> /\ w = <<>>
         /\ 1 \in 1..Len(i \o w) /\ (i \o w)[1] = LineOf(i)[1]
<1> DEFINE j == AfterLine(i)
<1>1. /\ Len(i \o w) = Len(i) + Len(w) /\ Len(i) \in Nat /\ Len(w) \in Nat
      /\ \A n \in 1..(Len(i) + Len(w)) : (i \o w)[n] = IF n <= Len(i) THEN i[n] ELSE w[n - Len(i)]
  BY ConcatProperties, LenProperties
<1>2. LineEnd(i) = 2 /\ 2 \in 1..Len(i) /\ i[1] = LineOf(i)[1]
  <2>1. /\ LineEnd(i) \in 1..Len(i) /\ Len(LineOf(i)) = LineEnd(i) - 1
        /\ \A n \in 1..(LineEnd(i) - 1) : LineOf(i)[n] = i[n]
    BY LineElements
  <2>. QED BY <1>1, <2>1
<1>3. /\ 1 \in 1..Len(i \o w) /\ (i \o w)[1] = LineOf(i)[1]
  BY <1>1, <1>2
<1>4. Len(i \o w) <= 1 + 3
  <2>1. (i \o w)[1].k = "PUT"
    BY <1>3
  <2>one. PICK one : one = 1 /\ one \in 1..Len(i \o w)
    BY <1>3
  <2>2. Len(i \o w) <= one + 3
    BY <2>1, <2>one, Zenon DEF PutLast
  <2>. QED BY <2>2, <2>one
<1>5. j = Drop(i, 2)
  BY <1>2 DEF AfterLine, Drop
<1>6. j \in Seq(Written) /\ Len(j) = IF 2 < Len(i) THEN Len(i) - 2 ELSE 0
  BY <1>5, TakeDropType
<1>. HIDE DEF j
<1>7. LineEnd(j) \in 1..Len(j) /\ LineEnd(j) = 2
  <2>1. HasLine(j) /\ Len(LineOf(j)) = 1
    BY DEF j
  <2>2. LineEnd(j) \in 1..Len(j) /\ Len(LineOf(j)) = LineEnd(j) - 1
    BY <1>6, <2>1, LineElements
  <2>3. Len(j) \in Nat
    BY <1>1, <1>6
  <2>. QED BY <2>1, <2>2, <2>3
<1>8. Len(i) = 4 /\ Len(w) = 0 /\ Len(j) = 2
  <2>1. Len(j) \in Nat /\ 2 <= Len(j)
    BY <1>1, <1>6, <1>7
  <2>2. Len(i) + Len(w) <= 4 /\ 2 < Len(i) /\ Len(j) = Len(i) - 2
    BY <1>1, <1>4, <1>6, <2>1
  <2>. QED BY <1>1, <2>1, <2>2
<1>9. AfterLine(j) = <<>>
  <2>1. AfterLine(j) = Drop(j, 2)
    BY <1>7 DEF AfterLine, Drop
  <2>two. PICK two : two = 2 /\ two \in Nat
    OBVIOUS
  <2>2. Drop(j, two) \in Seq(Written) /\ Len(Drop(j, two)) = IF two < Len(j) THEN Len(j) - two ELSE 0
    BY <1>6, <2>two, TakeDropType
  <2>. QED BY <1>8, <2>two, <2>1, <2>2, EmptySeq
<1>10. w = <<>>
  BY <1>8, EmptySeq
<1>. QED BY <1>3, <1>9, <1>10 DEF j

LEMMA PutAnswered ==
  ASSUME PlainFiles, NEW s, NEW U, NEW q, NEW k, NEW w, NEW b, NEW open, Protocol(s, q, k, w, b, open, U),
         q.cb = "read", q.out \in Seq(Outputs(s)),
         NEW i \in Seq(Written), NEW w2 \in Seq(Written), i \o w2 = q.inp \o w,
         HasLine(i), HasLine(AfterLine(i)),
         Len(LineOf(i)) = 1, LineOf(i)[1].k = "PUT", Len(LineOf(AfterLine(i))) = 1,
         NEW q2, q2.cb = "put", q2.inp = AfterLine(AfterLine(i)), q2.putState = q.putState,
         q2.filename = Path(LineOf(i)[1].f), q2.out = AddText(q.out, TextLine(Ready))
  PROVE  Protocol(s, q2, k, w2, b, open, U)
<1> DEFINE x == q.inp \o w
           r == k.inp \o b
<1>1. /\ ServerPhase(s, q, k, w, open, U) /\ ClientPhase(q, k, w, b, open) /\ PutLast(x)
      /\ (k.cb = "put" => k.version \in U)
  BY Zenon DEF Protocol
<1>2. /\ q2.inp = <<>> /\ w2 = <<>>
      /\ 1 \in 1..Len(x) /\ x[1] = LineOf(i)[1] /\ x[1].k = "PUT"
  <2>1. PutLast(i \o w2)
    BY <1>1
  <2>2. /\ AfterLine(AfterLine(i)) = <<>> /\ w2 = <<>>
        /\ 1 \in 1..Len(i \o w2) /\ (i \o w2)[1] = LineOf(i)[1]
    BY <2>1, RequestAlone, Zenon
  <2>. QED BY <2>2
<1>3. ~Answered(q, k, w, r)
  BY DEF Answered
<1>4. x \notin Seq(NotPut)
  <2>. SUFFICES ASSUME x \in Seq(NotPut) PROVE FALSE
    OBVIOUS
  <2>1. x[1] \in NotPut
    BY <1>2, ElementOfSeq
  <2>. QED BY <1>2, <2>1 DEF NotPut
<1>. HIDE DEF x, r
<1>5. open => Asks(q, k, x, r) /\ Asked(k, x)
  <2>1. open => Talks(q, k, x, r) \/ Asks(q, k, x, r)
    BY <1>1, <1>3, Zenon DEF ClientPhase, x, r
  <2>. QED BY <1>4, <2>1, Zenon DEF Talks, Asks, Asking
<1>6. q2.putState \in {0, 2}
  BY <1>1, Zenon DEF ServerPhase
<1>7. open => /\ k.out = <<>> /\ InPut(k) /\ k.version \in Version /\ PathOf(k.version) = q2.filename
              /\ NoReady(q, r)
  <2>1. open => PathOf(k.version) = q2.filename
    <3>1. Asked(k, x) => x[1].f = FileOf(k.version)
      BY <1>2 DEF Asked
    <3>. QED BY <1>2, <1>5, <3>1 DEF PathOf
  <2>. QED BY <1>5, <2>1, Zenon DEF Asks, Asked
<1>8. ServerPhase(s, q2, k, w2, open, U)
  <2>1. Waits(q2, k, w2, open)
    BY <1>2, <1>6, <1>7, Zenon DEF Waits
  <2>2. q2.cb # "read"
    OBVIOUS
  <2>. QED BY <1>2, <2>1, <2>2, Zenon DEF ServerPhase
<1>9. ClientPhase(q2, k, w2, b, open)
  <2>. SUFFICES ASSUME open PROVE Answered(q2, k, w2, r)
    BY Zenon DEF ClientPhase, r
  <2>1. ASSUME NEW n \in 1..Len(r), r[n] = Ready PROVE FALSE
    <3>1. r[n] \in NotReady
      BY <1>7, ElementOfSeq DEF NoReady
    <3>. QED BY <2>1, <3>1 DEF NotReady
  <2>2. Silent(q.out)
    BY <1>7, Zenon DEF NoReady
  <2>3. EndsReady(q2.out)
    BY <2>2, AddReady, Zenon
  <2>4. ReadyLast(q2, r)
    BY <2>1, <2>3, Zenon DEF ReadyLast
  <2>5. Waits(q2, k, w2, TRUE)
    BY <1>2, <1>6, <1>7 DEF Waits
  <2>. QED BY <1>2, <2>4, <2>5, Zenon DEF Answered
<1>10. q2.inp \o w2 = <<>>
  BY <1>2
<1>. QED BY <1>1, <1>8, <1>9, <1>10, EmptyPutLast, Zenon DEF Protocol
-----------------------------------------------------------------------------
(* callback_read: the connection answers as before, or it waits for the    *)
(* file that it was asked to store.                                        *)
Understands(s, q, r) ==
  /\ r.cb = q.cb /\ r.putState = q.putState /\ r.open = q.open /\ EndsWith(q.inp, r.inp)
  /\ q.out \in Seq(Calm(s)) => r.out \in Seq(Calm(s))

TakesUpload(q, r) ==
  /\ HasLine(q.inp) /\ HasLine(AfterLine(q.inp))
  /\ Len(LineOf(q.inp)) = 1 /\ LineOf(q.inp)[1].k = "PUT" /\ Len(LineOf(AfterLine(q.inp))) = 1
  /\ r.cb = "put" /\ r.inp = AfterLine(AfterLine(q.inp)) /\ r.putState = q.putState /\ r.open = q.open
  /\ r.filename = Path(LineOf(q.inp)[1].f) /\ r.out = AddText(q.out, TextLine(Ready))

LEMMA ReadsRest ==
  ASSUME NEW s, NEW Out, NEW q \in Connection(Written, Out), NEW b \in Seq(Written), EndsWith(q.inp, b),
         NEW r, Spoken(s, [q EXCEPT !.inp = b], r)
  PROVE  Understands(s, q, r)
<1> DEFINE q1 == [q EXCEPT !.inp = b]
<1>1. q1.inp = b /\ q1.cb = q.cb /\ q1.putState = q.putState /\ q1.out = q.out /\ q1.open = q.open
  BY DEF Connection
<1>2. Spoken(s, q1, r)
  OBVIOUS
<1>. HIDE DEF q1
<1>. QED BY <1>1, <1>2 DEF Spoken, Understands

LEMMA SpokenSelf ==
  ASSUME NEW s, NEW q
  PROVE  Spoken(s, q, q)
BY Zenon DEF Spoken

LEMMA CallbackRead ==
  ASSUME PlainFiles, NEW c \in Conn, NEW D, disk[c[2]] \in Files(D), NEW Out, NEW q \in Connection(Written, Out),
         UploadOK(q), callback_read(c, q)
  PROVE  \E r : /\ srv' = [srv EXCEPT ![c] = r] /\ disk' = disk /\ fate' = fate
                /\ \/ /\ Understands(c[2], q, r)
                      /\ folder' = folder \/ folder' = [folder EXCEPT ![c[2]] = CanCreate(c[2])]
                   \/ TakesUpload(q, r) /\ folder' = [folder EXCEPT ![c[2]] = CanCreate(c[2])]
<1> DEFINE s   == c[2]
           l2  == AfterLine(q.inp)
           r   == [q EXCEPT !.inp = AfterLine(l2)]
           cmd == Command(LineOf(q.inp))
<1>1. q.inp \in Seq(Written) /\ Written \subseteq Token
  BY Directions DEF Connection
<1>2. CASE ~HasLine(q.inp)
  <2>1. Becomes(c, q)
    BY <1>2, Zenon DEF callback_read
  <2>2. EndsWith(q.inp, q.inp)
    BY <1>1, EndsLater
  <2>3. Understands(s, q, q)
    BY <2>2, Zenon DEF Understands
  <2>. QED BY <2>1, <2>3, Zenon DEF Becomes
<1>3. CASE HasLine(q.inp) /\ ~HasLine(l2)
  <2>1. Becomes(c, [q EXCEPT !.inp = l2])
    BY <1>3, Zenon DEF callback_read
  <2>2. l2 \in Seq(Written) /\ EndsWith(q.inp, l2)
    BY <1>1, <1>3, InputType, LineEndsWith, Zenon
  <2>3. Understands(s, q, [q EXCEPT !.inp = l2])
    BY <2>2, ReadsRest, SpokenSelf, Zenon
  <2>. QED BY <2>1, <2>3, Zenon DEF Becomes
<1>4. CASE HasLine(q.inp) /\ HasLine(l2)
  <2>1. /\ l2 \in Seq(Written) /\ AfterLine(l2) \in Seq(Written) /\ LineOf(q.inp) \in Seq(Written)
        /\ EndsWith(q.inp, AfterLine(l2))
    <3>1. /\ l2 \in Seq(Written) /\ AfterLine(l2) \in Seq(Written) /\ LineOf(q.inp) \in Seq(Written)
      BY <1>1, <1>4, PlainLines, Zenon
    <3>2. EndsWith(q.inp, l2) /\ EndsWith(l2, AfterLine(l2))
      BY <1>1, <1>4, <3>1, LineEndsWith, Zenon
    <3>. QED BY <1>1, <3>1, <3>2, EndsLater, Zenon
  <2>2. r \in Connection(Written, Out) /\ UploadOK(r)
    BY <2>1, ConnectionFields
  <2>3. ASSUME NEW r2, Spoken(s, r, r2) PROVE Understands(s, q, r2)
    BY <2>1, <2>3, ReadsRest, Zenon
  <2>4. CASE Becomes(c, r)
    BY <2>3, <2>4, SpokenSelf, Zenon DEF Becomes
  <2>5. CASE Becomes(c, Reply(r, Invalid))
    <3>1. Invalid \in NotReady
      BY NotReadyTokens
    <3>. HIDE DEF r
    <3>2. Spoken(s, r, Reply(r, Invalid))
      BY <2>2, <3>1, SpokenReply, Zenon
    <3>. QED BY <2>3, <2>5, <3>2, Zenon DEF Becomes
  <2>6. CASE /\ cmd # Unparsed /\ Credentials(LineOf(l2)) = "good"
             /\ ServeGet(c, r, cmd) \/ ServeList(c, r, cmd) \/ ServePut(c, r, cmd)
    <3>1. LineOf(l2) = <<Auth("good")>>
      BY <2>6 DEF Credentials
    <3>2. Len(LineOf(l2)) = 1
      BY <3>1
    <3>3. cmd \in Token /\ Len(LineOf(q.inp)) = 1 /\ cmd = LineOf(q.inp)[1]
      <4>1. LineOf(q.inp) \in Seq(Token)
        BY <1>1, <2>1, SeqMonotonic
      <4>. QED BY <2>6, <4>1, CommandType DEF Command
    <3>. HIDE DEF r, cmd
    <3>4. CASE ServeGet(c, r, cmd) \/ ServeList(c, r, cmd)
      <4>1. \E r2 : EnterFolder(c, r2) /\ Spoken(s, r, r2)
        BY <2>2, <3>3, <3>4, SpokenCommand, Zenon
      <4>. QED BY <2>3, <4>1, Zenon DEF EnterFolder
    <3>5. CASE ServePut(c, r, cmd)
      <4>1. CASE EnterFolder(c, r)
        BY <2>3, <4>1, SpokenSelf, Zenon DEF EnterFolder
      <4>2. CASE cmd.k = "PUT" /\ cmd.f # NoFile /\ EnterFolder(c, BeginPut(r, cmd.f))
        <5>. DEFINE o == AddText(r.out, TextLine(Ready))
                    a == [r EXCEPT !.out = o]
                    b == [a EXCEPT !.filename = Path(cmd.f), !.cb = "put"]
        <5>1. BeginPut(r, cmd.f) = b
          BY DEF BeginPut, Reply
        <5>2. /\ r.out = q.out /\ r.inp = AfterLine(l2) /\ r.putState = q.putState /\ r.open = q.open
          BY DEF Connection, r
        <5>3. /\ b.cb = "put" /\ b.inp = AfterLine(l2) /\ b.putState = q.putState /\ b.open = q.open
              /\ b.filename = Path(cmd.f) /\ b.out = o
          <6>. HIDE DEF o
          <6>. QED BY <2>2, <5>2 DEF Connection
        <5>4. o = AddText(q.out, TextLine(Ready))
          BY <5>2
        <5>. HIDE DEF b, o
        <5>5. TakesUpload(q, b)
          BY <1>4, <3>2, <3>3, <4>2, <5>3, <5>4, Zenon DEF TakesUpload
        <5>. QED BY <4>2, <5>1, <5>5, Zenon DEF EnterFolder
      <4>. QED BY <3>5, <4>1, <4>2, Zenon DEF ServePut
    <3>. QED BY <2>6, <3>4, <3>5
  <2>. QED BY <1>4, <2>4, <2>5, <2>6, Zenon DEF callback_read
<1>. QED BY <1>2, <1>3, <1>4

(* A read from the socket and callback_read.                               *)
Joins(q, q1, d) ==
  q1.inp = q.inp \o d /\ q1.cb = q.cb /\ q1.out = q.out /\ q1.open = q.open /\ SameUpload(q, q1)

LEMMA ReadProtocol ==
  ASSUME PlainFiles, NEW s, NEW U, NEW q, q.cb = "read", q.inp \in Seq(Written), q.out \in Seq(Outputs(s)),
         NEW k, NEW w \in Seq(Written), NEW n \in Nat, NEW b, NEW open,
         Protocol(s, q, k, w, b, open, U), NEW q1, Joins(q, q1, Take(w, n)),
         NEW r, r.inp \in Seq(Written), r.out \in Seq(Outputs(s)),
         Understands(s, q1, r) \/ TakesUpload(q1, r)
  PROVE  Protocol(s, r, k, Drop(w, n), b, open, U)
<1> DEFINE t  == Take(w, n)
           w2 == Drop(w, n)
<1>1. t \in Seq(Written) /\ w2 \in Seq(Written) /\ t \o w2 = w
  BY TakeDropType, Split
<1>2. Joins(q, q1, t)
  OBVIOUS
<1>. HIDE DEF t, w2
<1>3. /\ q1.inp = q.inp \o t /\ q1.cb = "read" /\ q1.out = q.out /\ q1.putState = q.putState
  BY <1>2 DEF Joins, SameUpload
<1>4. q1.inp \in Seq(Written) /\ q1.inp \o w2 = q.inp \o w
  <2>1. q.inp \o t \in Seq(Written)
    BY <1>1, ConcatProperties
  <2>2. (q.inp \o t) \o w2 = q.inp \o (t \o w2)
    <3>. DEFINE i == q.inp
    <3>1. i \in Seq(Written) /\ t \in Seq(Written) /\ w2 \in Seq(Written)
      BY <1>1
    <3>. HIDE DEF i
    <3>2. (i \o t) \o w2 = i \o (t \o w2)
      BY <3>1, WrittenJoined, ZenonT(40)
    <3>. QED BY <3>2 DEF i
  <2>. QED BY <1>1, <1>3, <2>1, <2>2
<1>5. q.inp \o w \in Seq(Written) /\ r.inp \o w2 \in Seq(Written)
  BY <1>1, ConcatProperties
<1>6. CASE Understands(s, q1, r)
  <2>1. r.cb = "read" /\ r.putState = q.putState /\ EndsWith(q1.inp, r.inp)
    BY <1>3, <1>6, Zenon DEF Understands
  <2>2. EndsWith(q.inp \o w, r.inp \o w2)
    <3>1. EndsWith(q1.inp \o w2, r.inp \o w2)
      BY <1>1, <1>4, <2>1, EndsLater
    <3>. QED BY <1>4, <3>1
  <2>3. Silent(q.out) => Silent(r.out)
    <3>1. Silent(q.out) <=> q.out \in Seq(Calm(s))
      BY CalmOutput
    <3>2. Silent(r.out) <=> r.out \in Seq(Calm(s))
      BY CalmOutput
    <3>. QED BY <1>3, <1>6, <3>1, <3>2, Zenon DEF Understands
  <2>4. \A x : NoReady(q, x) => NoReady(r, x)
    BY <2>3, Zenon DEF NoReady
  <2>. QED BY <1>5, <2>1, <2>2, <2>4, ReadKept, Zenon DEF w2
<1>7. CASE TakesUpload(q1, r)
  <2>1. /\ HasLine(q1.inp) /\ HasLine(AfterLine(q1.inp))
        /\ Len(LineOf(q1.inp)) = 1 /\ LineOf(q1.inp)[1].k = "PUT" /\ Len(LineOf(AfterLine(q1.inp))) = 1
        /\ r.cb = "put" /\ r.inp = AfterLine(AfterLine(q1.inp)) /\ r.putState = q.putState
        /\ r.filename = Path(LineOf(q1.inp)[1].f) /\ r.out = AddText(q.out, TextLine(Ready))
    BY <1>3, <1>7 DEF TakesUpload
  <2>. DEFINE i == q1.inp
  <2>2. /\ i \in Seq(Written) /\ i \o w2 = q.inp \o w
    BY <1>4
  <2>. HIDE DEF i
  <2>. QED BY <1>1, <2>1, <2>2, PutAnswered, Zenon DEF w2, i
<1>. QED BY <1>6, <1>7

(* A read from the socket and callback_put.                                *)
PutHolds(s, q, k, w, b, open, U, h) ==
  /\ PartsRight(h.files, s, U)
  /\ h.go = "return" => Protocol(s, h.q, k, w, b, open, U)
  /\ h.q.open = q.open

(* A read from the socket brings more of what is due.                      *)
PutComes(s, q, k, w, n, open, U, q1) ==
  /\ Drop(w, n) \in Seq(Written) /\ q1.inp \o Drop(w, n) = w
  /\ q1.inp # <<>> /\ q1.cb = "put" /\ q1.filename \in File /\ w # <<>> /\ q.inp = <<>>
  /\ q1.inp = Take(w, n) /\ Take(w, n) \in Seq(Written)
  /\ q1.out = q.out /\ q1.open = q.open
  /\ Receives(s, q1, k, q1.inp \o Drop(w, n), open, U)

LEMMA PutReceives ==
  ASSUME NEW Out, NEW c \in Conn, NEW U, U \subseteq Version,
         NEW q, q.cb = "put", q.inp \in Seq(Written),
         NEW k, k.out \in Seq(Seq(Written)), NEW w \in Seq(Written), NEW n \in 1..Len(w), NEW b, NEW open,
         Protocol(c[2], q, k, w, b, open, U),
         NEW q1 \in Connection(Written, Out), UploadOK(q1), Joins(q, q1, Take(w, n))
  PROVE  PutComes(c[2], q, k, w, n, open, U, q1)
<1> DEFINE s  == c[2]
           t  == Take(w, n)
           w2 == Drop(w, n)
<1>0. n \in Nat /\ n <= Len(w) /\ n >= 1 /\ Len(w) \in Nat /\ s \in Server
  BY LenProperties DEF Conn
<1>1. t \in Seq(Written) /\ w2 \in Seq(Written) /\ t \o w2 = w
  BY <1>0, TakeDropType, Split
<1>2. Len(t) = n
  <2>1. Len(t) = IF n < Len(w) THEN n ELSE Len(w)
    BY <1>0, TakeElements
  <2>. QED BY <1>0, <2>1
<1>3. Joins(q, q1, t)
  OBVIOUS
<1>. HIDE DEF t, w2
<1>4. /\ q1.inp = q.inp \o t /\ q1.cb = "put" /\ q1.out = q.out /\ q1.open = q.open /\ SameUpload(q, q1)
  BY <1>3 DEF Joins
<1>5. t # <<>> /\ w # <<>>
  BY <1>0, <1>2, EmptySeq
<1>6. q.inp = <<>> /\ (Waits(q, k, w, open) \/ Receives(s, q, k, w, open, U))
  BY Zenon DEF Protocol, ServerPhase
<1>7. Receives(s, q, k, w, open, U)
  BY <1>5, <1>6, Zenon DEF Waits
<1>8. q1.inp = t /\ q.inp \o w = w
  BY <1>1, <1>4, <1>6, ConcatEmptySeq
<1>9. Receives(s, q1, k, q1.inp \o w2, open, U)
  <2>1. q1.inp \o w2 = w
    BY <1>1, <1>8
  <2>2. SameUpload(q, q1)
    BY <1>4
  <2>3. \A e \in Seq(Written) : OnItsWay(k, w, open, e) => OnItsWay(k, w, open, e)
    OBVIOUS
  <2>4. Receives(s, q1, k, w, open, U)
    <3>. HIDE DEF s
    <3>. QED BY <1>0, <1>7, <2>2, <2>3, ReceivesKept
  <2>. QED BY <2>1, <2>4
<1>10. q1.filename \in File
  BY <1>4 DEF Connection, UploadOK
<1>. QED BY <1>1, <1>4, <1>5, <1>6, <1>8, <1>9, <1>10 DEF t, w2, PutComes

LEMMA PutProtocol ==
  ASSUME FlatNames, PlainFiles, NEW Out, NEW c \in Conn, folder[c[2]], NEW U, U \subseteq Version,
         NEW q, q.cb = "put", q.inp \in Seq(Written),
         NEW k, k.out \in Seq(Seq(Written)), NEW w \in Seq(Written), NEW n \in 1..Len(w), NEW b, NEW open,
         Protocol(c[2], q, k, w, b, open, U),
         NEW q1 \in Connection(Written, Out), UploadOK(q1), Joins(q, q1, Take(w, n)),
         disk[c[2]] \in Files(Written), PartsRight(disk[c[2]], c[2], U),
         NEW h \in PutLoop(c, q1)
  PROVE  PutHolds(c[2], q, k, Drop(w, n), b, open, U, h)
<1> DEFINE s  == c[2]
           t  == Take(w, n)
           w2 == Drop(w, n)
<1>0. PICK t0, w0 : t0 = t /\ w0 = w2
  OBVIOUS
<1>a. PutComes(s, q, k, w, n, open, U, q1)
  BY PutReceives, Zenon
<1>2. /\ w0 \in Seq(Written) /\ q1.inp \o w0 = w
      /\ q1.inp # <<>> /\ q1.cb = "put" /\ q1.filename \in File /\ w # <<>> /\ q.inp = <<>>
      /\ q1.inp = t0 /\ t0 \in Seq(Written)
      /\ q1.out = q.out /\ q1.open = q.open
      /\ Receives(s, q1, k, q1.inp \o w0, open, U)
  BY <1>0, <1>a, Zenon DEF PutComes
<1>. HIDE DEF t, w2
<1>1. t \in Seq(Written) /\ w2 \in Seq(Written) /\ t \o w2 = w
  BY <1>0, <1>2
<1>4. /\ q1.cb = "put" /\ q1.out = q.out /\ q1.open = q.open
  BY <1>2
<1>5. q1.inp # <<>> /\ w # <<>>
  BY <1>2
<1>8. q1.inp = t /\ q.inp \o w = w
  BY <1>0, <1>2, ConcatEmptySeq
<1>9. Receives(s, q1, k, q1.inp \o w2, open, U)
  BY <1>0, <1>2
<1>10. q1.filename \in File
  BY <1>2
<1>11. LoopHolds(s, q1, h, k, w2, open, U)
  BY <1>1, <1>4, <1>5, <1>8, <1>9, <1>10, LoopKeeps, Zenon
<1>12. h.q.inp \in Seq(Written)
  <2>1. Written \subseteq Token
    BY Directions
  <2>2. h.q \in Connection(Written, Out)
    <3>1. Written \subseteq Written
      OBVIOUS
    <3>. QED BY <1>10, <2>1, <3>1, LoopType
  <2>. QED BY <2>2 DEF Connection
<1>13. /\ EndsWith(q1.inp, h.q.inp) /\ h.q.out = q.out /\ h.q.open = q.open /\ PartsRight(h.files, s, U)
       /\ h.go = "return" => Rests(s, h.q, k, w2, open, U)
  BY <1>4, <1>11 DEF LoopHolds
<1>14. ASSUME h.go = "return" PROVE Protocol(s, h.q, k, w2, b, open, U)
  <2>1. EndsWith(t \o w2, h.q.inp \o w2) /\ h.q.inp \o w2 \in Seq(Written)
    <3>1. EndsWith(t, h.q.inp)
      BY <1>8, <1>13
    <3>2. EndsWith(t \o w2, h.q.inp \o w2)
      <4>. DEFINE i == h.q.inp
      <4>1. i \in Seq(Written) /\ EndsWith(t, i)
        BY <1>12, <3>1
      <4>. HIDE DEF i
      <4>2. EndsWith(t \o w2, i \o w2)
        BY <1>1, <4>1, EndsLater
      <4>. QED BY <4>2 DEF i
    <3>. QED BY <1>1, <1>12, <3>2, ConcatProperties
  <2>2. EndsWith(q.inp \o w, h.q.inp \o w2) /\ q.inp \o w \in Seq(Written)
    BY <1>1, <1>8, <2>1
  <2>3. Protocol(s, q, k, w, b, open, U)
    OBVIOUS
  <2>. HIDE DEF s
  <2>. QED BY <1>5, <1>13, <1>14, <2>1, <2>2, <2>3, PutKept, Zenon
<1>. QED BY <1>13, <1>14 DEF w2, PutHolds
-----------------------------------------------------------------------------
(* The steps of the servers.  What a step leaves alone stays in order.     *)
Aside(d) == /\ c2s'[d] = c2s[d] /\ s2c'[d] = s2c[d] /\ net'[d] = net[d]
            /\ srv'[d] = srv[d] /\ con'[d] = con[d]
FoldersStay == \A s \in Server : (folder[s] => folder'[s]) /\ (s \in Unwritable => ~folder'[s])

LEMMA UpsKept ==
  ASSUME put' = put
  PROVE  Ups' = Ups
BY DEF Ups, Uploaded

(* What may be torn stays so: nobody counts kills down, and a server that  *)
(* is not started again stays away.                                        *)
TornStays == \A s \in Server : MayBeTorn(s) => MayBeTorn(s)'

LEMMA PartsStayRight ==
  ASSUME TornStays, NEW s \in Server, NEW files, PartsRight(files, s, Ups), Ups \subseteq Ups',
         disk'[s] = files
  PROVE  PartsRight(disk[s], s, Ups)'
<1>1. MayBeTorn(s) => MayBeTorn(s)'
  BY Zenon DEF TornStays
<1>2. ASSUME NEW d, NEW v, NEW p, IsPart(d, s, v, p) PROVE IsPart(d, s, v, p)'
  BY <1>1, <1>2, Zenon DEF IsPart
<1>3. ASSUME NEW f \in File, NEW p \in Number, disk'[s][f][p] # NoPart
      PROVE  \E v \in Ups' : PathOf(v) = f /\ p \in PartsOf(s, HashMod(v)) /\ IsPart(disk[s][f][p], s, v, p)'
  <2>1. PICK v \in Ups : PathOf(v) = f /\ p \in PartsOf(s, HashMod(v)) /\ IsPart(files[f][p], s, v, p)
    BY <1>3, Zenon DEF PartsRight
  <2>2. IsPart(disk[s][f][p], s, v, p)'
    BY <1>1, <2>1, Zenon DEF IsPart
  <2>. QED BY <2>1, <2>2, Zenon
<1>. QED BY <1>3, Zenon DEF PartsRight

LEMMA DisksStayRight ==
  ASSUME TornStays, PartsAreRight, disk' = disk, Ups \subseteq Ups'
  PROVE  PartsAreRight'
<1>1. ASSUME NEW s \in Server PROVE PartsRight(disk[s], s, Ups)'
  BY PartsStayRight, Zenon DEF PartsAreRight
<1>. QED BY <1>1, Zenon DEF PartsAreRight

LEMMA AsideKept ==
  ASSUME NEW d \in Conn, Links(d), UploadOn(d), Aside(d), FoldersStay, Ups' = Ups,
         prog'[d[1]].life = prog[d[1]].life
  PROVE  Links(d)' /\ UploadOn(d)'
<1>1. Links(d)'
  BY Zenon DEF Links, Aside
<1>2. d[2] \in Server
  BY DEF Conn
<1>3. UploadOn(d)'
  BY <1>2, Zenon DEF UploadOn, Usable, Aside, FoldersStay
<1>. QED BY <1>1, <1>3

(* A step of one connection of a server.                                   *)
LEMMA OneUpload ==
  ASSUME UploadsInv, TornStays, NEW c \in Conn, prog' = prog, put' = put, FoldersStay, PartsAreRight',
         \A d \in Conn : d # c => Aside(d), Links(c)', UploadOn(c)'
  PROVE  UploadsInv'
<1>1. Ups' = Ups
  BY UpsKept
<1>2. ASSUME NEW d \in Conn, d # c PROVE Links(d)' /\ UploadOn(d)'
  BY <1>1, <1>2, AsideKept, Zenon DEF UploadsInv
<1>3. \A s \in Unwritable : ~folder'[s]
  BY ServerAssumption, Zenon DEF FoldersStay
<1>. QED BY <1>2, <1>3, Zenon DEF UploadsInv

LEMMA EnteredStay ==
  ASSUME TypeInv, UploadsInv, NEW c \in Conn,
         folder' = folder \/ folder' = [folder EXCEPT ![c[2]] = CanCreate(c[2])]
  PROVE  FoldersStay
<1>1. ASSUME NEW s \in Server PROVE (folder[s] => folder'[s]) /\ (s \in Unwritable => ~folder'[s])
  <2>1. folder'[s] = folder[s] \/ folder'[s] = CanCreate(s)
    BY Zenon DEF TypeInv, DfsShape
  <2>2. s \in Unwritable => ~folder[s]
    BY Zenon DEF UploadsInv
  <2>. QED BY <2>1, <2>2 DEF CanCreate
<1>. QED BY <1>1, Zenon DEF FoldersStay

LEMMA StoredParts ==
  ASSUME TypeInv, TornStays, PartsAreRight, NEW s \in Server, NEW files, PartsRight(files, s, Ups), put' = put,
         disk' = [disk EXCEPT ![s] = files]
  PROVE  PartsAreRight'
<1>1. Ups' = Ups
  BY UpsKept
<1>2. ASSUME NEW t \in Server PROVE PartsRight(disk[t], t, Ups)'
  <2>1. disk'[t] = IF t = s THEN files ELSE disk[t]
    BY Zenon DEF TypeInv, DfsShape
  <2>2. PICK d : d = disk'[t]
    OBVIOUS
  <2>3. PartsRight(d, t, Ups)
    BY <2>1, <2>2, Zenon DEF PartsAreRight
  <2>. QED BY <1>1, <2>2, <2>3, PartsStayRight, Zenon
<1>. QED BY <1>2, Zenon DEF PartsAreRight

(* A server dies.                                                          *)
LEMMA DieUploads ==
  ASSUME TypeInv, UploadsInv, TornStays, NEW s \in Server, NEW how, NEW unread, Die(s, how, unread),
         con' = con, prog' = prog, put' = put, FoldersStay, PartsAreRight'
  PROVE  UploadsInv'
<1> DEFINE C == Client \X {s}
<1>1. Ups' = Ups
  BY UpsKept
<1>2. ASSUME NEW c \in Conn, c \in C PROVE Links(c)' /\ UploadOn(c)'
  <2>1. /\ srv'[c] = Absent /\ c2s'[c] = Empty
        /\ net'[c] = "none" \/ net'[c] = "closed" \/ net'[c] = "reset"
        /\ net[c] = "none" => net'[c] = "none"
        /\ net'[c] = "none" => s2c'[c] = Empty
    BY <1>2 DEF Die, NetAfterDeath
  <2>2. Links(c) /\ UploadOn(c) /\ con'[c] = con[c] /\ Empty.data = <<>>
    BY DEF UploadsInv, Empty
  <2>3. ~(net'[c] = "open")
    BY <2>1
  <2>4. Links(c)'
    BY <2>1, <2>2, <2>3, Zenon DEF Links
  <2>5. ASSUME Usable(c[2])
        PROVE  Protocol(c[2], srv'[c], con'[c], c2s'[c].data, s2c'[c].data, net'[c] = "open", Ups')
    <3>1. con'[c].cb = "put" => con'[c].version \in Ups'
      BY <1>1, <2>2, <2>5, Zenon DEF UploadOn, Protocol
    <3>2. srv'[c] \in {Absent, Accepted} /\ c2s'[c].data = <<>>
      BY <2>1, <2>2
    <3>3. PICK open : open = (net'[c] = "open")
      OBVIOUS
    <3>4. ~open
      BY <2>3, <3>3
    <3>5. Protocol(c[2], srv'[c], con'[c], <<>>, s2c'[c].data, open, Ups')
      BY <3>1, <3>2, <3>4, FreshProtocol, Zenon
    <3>. QED BY <3>2, <3>3, <3>5
  <2>6. srv'[c].cb # "put"
    BY <2>1 DEF Absent, Accepted
  <2>. QED BY <2>4, <2>5, <2>6, Zenon DEF UploadOn, Usable
<1>3. ASSUME NEW c \in Conn, c \notin C PROVE Links(c)' /\ UploadOn(c)'
  <2>1. Aside(c)
    BY <1>3 DEF Die, NetAfterDeath, Aside
  <2>. QED BY <1>1, <2>1, AsideKept, Zenon DEF UploadsInv
<1>4. \A t \in Unwritable : ~folder'[t]
  BY ServerAssumption, Zenon DEF FoldersStay
<1>. QED BY <1>2, <1>3, <1>4, Zenon DEF UploadsInv

(* callback_put does not close the connection, and answers nothing.        *)
LEMMA HalvesOpen ==
  ASSUME NEW In, NEW Out, NEW c, NEW h, h.q \in Connection(In, Out)
  PROVE  /\ PutHeader(h).q.open = h.q.open /\ PutHeader(h).q.out = h.q.out
         /\ PutData(c, h).q.open = h.q.open /\ PutData(c, h).q.out = h.q.out
<1> DEFINE q  == h.q
           i  == AfterLine(q.inp)
           qR == [q EXCEPT !.inp = i, !.cb = "read"]
           qH == [q EXCEPT !.inp = i, !.partnum = LineOf(q.inp)[1].p, !.wantedSize = LineOf(q.inp)[1].l,
                           !.putState = @ + 1]
           j  == IF Enough(q) THEN Drop(q.inp, q.wantedSize) ELSE q.inp
           qA == [q EXCEPT !.inp = j, !.cb = "read"]
           qB == Finished([q EXCEPT !.inp = j])
           qC == [q EXCEPT !.inp = j, !.putState = 2]
<1>. q \in Connection(In, Out)
  OBVIOUS
<1>1. /\ qR.open = q.open /\ qH.open = q.open /\ qA.open = q.open /\ qB.open = q.open /\ qC.open = q.open
      /\ qR.out = q.out /\ qH.out = q.out /\ qA.out = q.out /\ qB.out = q.out /\ qC.out = q.out
  <2>. HIDE DEF q, i, j
  <2>. QED BY DEF Connection, Finished
<1>2. \/ PutHeader(h) = h
      \/ \E x \in {q, qR, qH} : \E files, go : PutHeader(h) = At(x, files, go)
  BY DEF PutHeader
<1>3. \/ PutData(c, h) = h
      \/ \E x \in {qA, qB, qC} : \E files, go : PutData(c, h) = At(x, files, go)
  BY DEF PutData
<1>. HIDE DEF qR, qH, qA, qB, qC
<1>4. PutHeader(h).q.open = q.open /\ PutHeader(h).q.out = q.out
  BY <1>1, <1>2, AtFields
<1>5. PutData(c, h).q.open = q.open /\ PutData(c, h).q.out = q.out
  BY <1>1, <1>3, AtFields
<1>. QED BY <1>4, <1>5

LEMMA LoopOpen ==
  ASSUME NEW Out, NEW c \in Conn, NEW q \in Connection(Written, Out), UploadOK(q), q.filename \in File,
         disk[c[2]] \in Files(Written), NEW h \in PutLoop(c, q)
  PROVE  h.q.open = q.open /\ h.q.out = q.out
<1>1. PICK h0, h1 : /\ h0 = Loop(c, q)
                    /\ h1 = PutData(c, PutHeader(h0))
                    /\ h = PutData(c, PutHeader(h1))
  BY Zenon DEF PutLoop, PutRound, Headers
<1>2. h0.q = q /\ h0.files = disk[c[2]]
  BY <1>1, AtFields DEF Loop
<1>3. PICK g0, g1 : g0 = PutHeader(h0) /\ g1 = PutHeader(h1)
  OBVIOUS
<1>4. Written \subseteq Token /\ h0.q \in Connection(Written, Out)
  BY <1>2, Directions
<1>5. g0.q \in Connection(Written, Out)
  BY <1>3, <1>4, HeaderType, <1>2, Zenon
<1>6. h1.q \in Connection(Written, Out) /\ UploadOK(h1.q)
  <2>. DEFINE f == q.filename
  <2>1. h1 = PutData(c, PutHeader(h0)) /\ (h0.go = "on" => h0.q.filename = f) /\ f \in File
        /\ h0.q \in Connection(Written, Out) /\ UploadOK(h0.q) /\ h0.files \in Files(Written)
    BY <1>1, <1>2
  <2>. HIDE DEF f
  <2>2. Written \subseteq Written
    OBVIOUS
  <2>. QED BY <1>4, <2>1, <2>2, RoundType, Zenon
<1>7. g1.q \in Connection(Written, Out)
  BY <1>3, <1>4, <1>6, HeaderType, Zenon
<1>8. g0.q.open = q.open /\ h1.q.open = g0.q.open /\ g0.q.out = q.out /\ h1.q.out = g0.q.out
  BY <1>1, <1>2, <1>3, <1>4, <1>5, HalvesOpen
<1>9. g1.q.open = h1.q.open /\ h.q.open = g1.q.open /\ g1.q.out = h1.q.out /\ h.q.out = g1.q.out
  BY <1>1, <1>3, <1>6, <1>7, HalvesOpen
<1>. QED BY <1>8, <1>9, Zenon

(* A server reads.                                                         *)
LEMMA ServerReadUploads ==
  ASSUME FlatNames, PlainFiles, TypeInv, TypeInv', UploadsInv, TornStays, NEW c \in Conn, ServerRead(c),
         con' = con, prog' = prog, put' = put
  PROVE  UploadsInv'
<1> DEFINE s   == c[2]
           Out == Outputs(s)
<1>0. /\ s \in Server /\ FlowOK(c) /\ FlowOK(c)' /\ DfsShape /\ Links(c) /\ UploadOn(c) /\ PartsAreRight
      /\ disk[s] \in Files(Written)
  <2>1. s \in Server
    BY DEF Conn
  <2>2. FlowOK(c)'
    BY Zenon DEF TypeInv
  <2>. QED BY <2>1, <2>2, Zenon DEF TypeInv, DfsShape, UploadsInv
<1>1. PICK n \in c2s[c].cuts : \E q \in {[srv[c] EXCEPT !.inp = @ \o Take(c2s[c].data, n)]} :
        LET left == [c2s EXCEPT ![c] = Received(@, n)] IN
        \/ q.cb = "read" /\ callback_read(c, q) /\ c2s' = left /\ UNCHANGED <<s2c, net>>
        \/ q.cb = "put" /\ callback_put(c, q) /\ c2s' = left /\ UNCHANGED <<s2c, net>>
        \/ /\ Die(c[2], "aborted", left)
           /\ folder' = [folder EXCEPT ![c[2]] = CanCreate(c[2])] /\ UNCHANGED disk
        \/ /\ q.cb = "put" /\ Die(c[2], "aborted", left) /\ UNCHANGED folder
           /\ \E h \in PutLoop(c, q) : disk' = [disk EXCEPT ![c[2]] = h.files]
  BY Zenon DEF ServerRead
<1>2. PICK q1 :
        /\ q1 = [srv[c] EXCEPT !.inp = srv[c].inp \o Take(c2s[c].data, n)]
        /\ \/ /\ (q1.cb = "read" /\ callback_read(c, q1)) \/ (q1.cb = "put" /\ callback_put(c, q1))
              /\ c2s' = [c2s EXCEPT ![c] = Received(@, n)] /\ s2c' = s2c /\ net' = net
           \/ /\ \E unread : Die(s, "aborted", unread)
              /\ folder' = [folder EXCEPT ![s] = CanCreate(s)] /\ disk' = disk
           \/ /\ q1.cb = "put" /\ (\E unread : Die(s, "aborted", unread)) /\ folder' = folder
              /\ \E h \in PutLoop(c, q1) : disk' = [disk EXCEPT ![s] = h.files]
  BY <1>1, Zenon
<1> DEFINE q == srv[c]
           k == con[c]
           w == c2s[c].data
           b == s2c[c].data
<1>3. /\ w \in Seq(Written) /\ n \in 1..Len(w) /\ n \in Nat /\ q \in Connection(Written, Out) /\ UploadOK(q)
      /\ q.inp \in Seq(Written) /\ q.out \in Seq(Out) /\ k.out \in Seq(Seq(Written))
  <2>1. w \in Seq(Written) /\ n \in 1..Len(w) /\ n \in Nat
    BY <1>0 DEF FlowOK, Pipe
  <2>2. q \in Connection(Written, Out) /\ UploadOK(q)
    BY <1>0, Zenon DEF FlowOK, Outputs
  <2>3. k.out \in Seq(Seq(Written))
    BY <1>0 DEF FlowOK, ClientConnection
  <2>. QED BY <2>1, <2>2, <2>3, ConnectionFields
<1>4. Joins(q, q1, Take(w, n)) /\ q1 \in Connection(Written, Out) /\ UploadOK(q1)
  <2>1. Take(w, n) \in Seq(Written)
    BY <1>3, TakeDropType
  <2>2. q.inp \o Take(w, n) \in Seq(Written)
    BY <1>3, <2>1, ConcatProperties
  <2>3. q1 = [q EXCEPT !.inp = q.inp \o Take(w, n)]
    BY <1>2
  <2>4. q1 \in Connection(Written, Out) /\ UploadOK(q1)
    <3>. HIDE DEF q, w, Out
    <3>. QED BY <1>3, <2>2, <2>3, ConnectionFields
  <2>5. Joins(q, q1, Take(w, n))
    <3>. HIDE DEF q, w, Out
    <3>. QED BY <1>3, <2>3 DEF Connection, Joins, SameUpload
  <2>. QED BY <2>4, <2>5
<1>5. Received(c2s[c], n).data = Drop(w, n)
  BY DEF Received
<1>6. PartsRight(disk[s], s, Ups)
  BY <1>0, Zenon DEF PartsAreRight
<1>7. ASSUME NEW h \in PutLoop(c, q1), q1.cb = "put"
      PROVE  /\ PartsRight(h.files, s, Ups)
             /\ h.q.open = q.open
             /\ Usable(s) /\ h.go = "return" =>
                  folder[s] /\ Protocol(s, h.q, k, Drop(w, n), b, net[c] = "open", Ups)
  <2>1. q.cb = "put" /\ q1.open = q.open
    BY <1>4, <1>7 DEF Joins
  <2>2. CASE Usable(s)
    <3>1. folder[s] /\ Protocol(s, q, k, w, b, net[c] = "open", Ups)
      BY <1>0, <2>1, <2>2, Zenon DEF UploadOn
    <3>2. PICK open : open = (net[c] = "open")
      OBVIOUS
    <3>3. Ups \subseteq Version
      BY DEF Ups
    <3>4. Protocol(s, q, k, w, b, open, Ups)
      BY <3>1, <3>2
    <3>. HIDE DEF q, k, w, b, Out
    <3>6. q.cb = "put" /\ q.inp \in Seq(Written) /\ k.out \in Seq(Seq(Written)) /\ w \in Seq(Written) /\ n \in 1..Len(w)
      BY <1>3, <2>1
    <3>7. /\ q1 \in Connection(Written, Out) /\ UploadOK(q1) /\ Joins(q, q1, Take(w, n))
          /\ disk[c[2]] \in Files(Written) /\ PartsRight(disk[c[2]], c[2], Ups) /\ folder[c[2]]
          /\ Protocol(c[2], q, k, w, b, open, Ups)
      BY <1>0, <1>4, <1>6, <3>1, <3>4
    <3>5. /\ PartsRight(h.files, s, Ups)
          /\ h.go = "return" => Protocol(s, h.q, k, Drop(w, n), b, open, Ups)
          /\ h.q.open = q.open
      <4>1. PutHolds(c[2], q, k, Drop(w, n), b, open, Ups, h)
        BY <3>3, <3>6, <3>7, PutProtocol, Zenon
      <4>. QED BY <4>1, Zenon DEF PutHolds
    <3>. QED BY <3>1, <3>2, <3>5
  <2>3. CASE ~Usable(s)
    <3>1. ~folder[s]
      BY <1>0, <2>3, Zenon DEF Usable, UploadsInv
    <3>2. q1.filename \in File /\ Written \subseteq Token /\ Written \subseteq Written
      BY <1>4, <1>7, Directions DEF Connection, UploadOK
    <3>3. Adds(c, q1.filename, Written, disk[c[2]], h.files)
      BY <1>0, <1>4, <3>2, LoopType, Zenon
    <3>4. PartsRight(h.files, s, Ups)
      <4>1. ASSUME NEW f \in File, NEW p \in Number PROVE h.files[f][p] = disk[s][f][p]
        BY <3>1, <3>3, Zenon DEF Adds, Opens
      <4>. QED BY <1>6, <4>1, Zenon DEF PartsRight
    <3>5. h.q.open = q.open
      BY <1>0, <1>4, <2>1, <3>2, LoopOpen, Zenon
    <3>. QED BY <2>3, <3>4, <3>5
  <2>. QED BY <2>2, <2>3
<1>8. CASE /\ \E unread : Die(s, "aborted", unread)
           /\ folder' = [folder EXCEPT ![s] = CanCreate(s)] /\ disk' = disk
  <2>1. FoldersStay
    BY <1>8, EnteredStay
  <2>2. PartsAreRight'
    BY <1>0, <1>8, UpsKept, DisksStayRight, Zenon
  <2>. QED BY <1>0, <1>8, <2>1, <2>2, DieUploads, Zenon
<1>9. CASE /\ q1.cb = "put" /\ (\E unread : Die(s, "aborted", unread)) /\ folder' = folder
           /\ \E h \in PutLoop(c, q1) : disk' = [disk EXCEPT ![s] = h.files]
  <2>1. FoldersStay
    BY <1>9, EnteredStay
  <2>2. PartsAreRight'
    BY <1>0, <1>7, <1>9, StoredParts, Zenon
  <2>. QED BY <1>0, <1>9, <2>1, <2>2, DieUploads, Zenon
<1>10. CASE /\ (q1.cb = "read" /\ callback_read(c, q1)) \/ (q1.cb = "put" /\ callback_put(c, q1))
            /\ c2s' = [c2s EXCEPT ![c] = Received(@, n)] /\ s2c' = s2c /\ net' = net
  <2>1. /\ c2s'[c].data = Drop(w, n) /\ \A d \in Conn : d # c => c2s'[d] = c2s[d]
        /\ con'[c] = k /\ s2c'[c].data = b /\ net'[c] = net[c] /\ Ups' = Ups
    <3>1. c2s'[c] = Received(c2s[c], n) /\ \A d \in Conn : d # c => c2s'[d] = c2s[d]
      BY <1>0, <1>10, Zenon DEF DfsShape
    <3>. QED BY <1>5, <1>10, <3>1, UpsKept
  <2>2. ASSUME NEW r, srv' = [srv EXCEPT ![c] = r], r.open = q.open, FoldersStay, PartsAreRight',
               r.cb = "put" /\ Usable(s) => folder'[s],
               Usable(s) => Protocol(s, r, k, Drop(w, n), b, net[c] = "open", Ups)
        PROVE  UploadsInv'
    <3>1. srv'[c] = r /\ \A d \in Conn : d # c => srv'[d] = srv[d]
      BY <1>0, <2>2, Zenon DEF DfsShape
    <3>2. \A d \in Conn : d # c => Aside(d)
      BY <1>10, <2>1, <3>1, Zenon DEF Aside
    <3>3. UploadOn(c)'
      BY <2>1, <2>2, <3>1, Zenon DEF UploadOn, Usable
    <3>4. Links(c)'
      <4>1. srv[c].open
        BY <1>1, Zenon DEF ServerRead, Up
      <4>2. srv[c] # Absent
        BY <4>1 DEF Absent, Accepted
      <4>3. prog[c[1]].life # "new"
        BY <1>0, <4>2, Zenon DEF Links
      <4>. QED BY <1>0, <1>10, <2>1, <2>2, <3>1, <4>1, <4>3, Zenon DEF Links
    <3>. QED BY <2>2, <3>2, <3>3, <3>4, OneUpload, Zenon
  <2>3. CASE q1.cb = "put" /\ callback_put(c, q1)
    <3>1. PICK h \in PutLoop(c, q1) : h.go = "return" /\ srv' = [srv EXCEPT ![c] = h.q]
                                      /\ disk' = [disk EXCEPT ![s] = h.files] /\ folder' = folder
      BY <2>3, Zenon DEF callback_put
    <3>2. FoldersStay
      BY <3>1, EnteredStay
    <3>3. PartsAreRight'
      BY <1>0, <1>7, <2>3, <3>1, StoredParts, Zenon
    <3>4. /\ h.q.open = q.open
          /\ Usable(s) => folder[s] /\ Protocol(s, h.q, k, Drop(w, n), b, net[c] = "open", Ups)
      BY <1>7, <2>3, <3>1, Zenon
    <3>. QED BY <2>2, <3>1, <3>2, <3>3, <3>4, Zenon
  <2>4. CASE q1.cb = "read" /\ callback_read(c, q1)
    <3>1. PICK r : /\ srv' = [srv EXCEPT ![c] = r] /\ disk' = disk /\ fate' = fate
                   /\ \/ /\ Understands(s, q1, r)
                         /\ folder' = folder \/ folder' = [folder EXCEPT ![s] = CanCreate(s)]
                      \/ TakesUpload(q1, r) /\ folder' = [folder EXCEPT ![s] = CanCreate(s)]
      BY <1>0, <1>4, <2>4, CallbackRead, Zenon
    <3>2. FoldersStay
      BY <3>1, EnteredStay
    <3>3. PartsAreRight'
      <4>1. disk' = disk /\ Ups' = Ups
        BY <3>1, UpsKept
      <4>. QED BY <1>0, <4>1, DisksStayRight, Zenon
    <3>4. r.open = q.open /\ q.cb = "read" /\ q1.cb = "read"
      BY <1>4, <2>4, <3>1 DEF Understands, TakesUpload, Joins
    <3>5. r.cb = "put" /\ Usable(s) => folder'[s]
      <4>1. TakesUpload(q1, r) \/ r.cb # "put"
        BY <3>1, <3>4 DEF Understands
      <4>2. folder' = [folder EXCEPT ![s] = CanCreate(s)] => folder'[s] = CanCreate(s)
        BY <1>0, Zenon DEF DfsShape
      <4>3. Usable(s) => CanCreate(s)
        BY DEF Usable, CanCreate
      <4>4. Understands(s, q1, r) => r.cb # "put"
        BY <3>4 DEF Understands
      <4>. QED BY <3>1, <4>2, <4>3, <4>4, Zenon
    <3>6. r.inp \in Seq(Written) /\ r.out \in Seq(Out)
      <4>1. srv'[c] = r
        BY <1>0, <3>1, Zenon DEF DfsShape
      <4>2. r \in Connection(Written, (TextSegs(Told) \cup FileSegs(c[2]))')
        BY <1>0, <4>1, Zenon DEF FlowOK
      <4>3. (TextSegs(Told) \cup FileSegs(c[2]))' = Out
        BY <3>1 DEF Outputs, TextSegs, FileSegs, Told, IsStored
      <4>4. r \in Connection(Written, Out)
        BY <4>2, <4>3
      <4>. HIDE DEF Out
      <4>. QED BY <4>4 DEF Connection
    <3>7. ASSUME Usable(s) PROVE Protocol(s, r, k, Drop(w, n), b, net[c] = "open", Ups)
      <4>1. Protocol(s, q, k, w, b, net[c] = "open", Ups)
        BY <1>0, <3>7, Zenon DEF UploadOn
      <4>2. PICK open : open = (net[c] = "open")
        OBVIOUS
      <4>3. Protocol(s, q, k, w, b, open, Ups)
        BY <4>1, <4>2
      <4>. HIDE DEF q, k, w, b
      <4>4. Protocol(s, r, k, Drop(w, n), b, open, Ups)
        BY <1>3, <1>4, <3>1, <3>4, <3>6, <4>3, ReadProtocol, Zenon
      <4>. QED BY <4>2, <4>4
    <3>. QED BY <2>2, <3>1, <3>2, <3>3, <3>4, <3>5, <3>7, Zenon
  <2>. QED BY <1>10, <2>3, <2>4
<1>. QED BY <1>2, <1>8, <1>9, <1>10, Zenon
-----------------------------------------------------------------------------
(* A server writes.  What it writes of a file is nobody's answer.          *)
LEMMA ContentSpoken ==
  ASSUME NEW s \in Server, disk[s] \in Files(Written), NEW seg \in Outputs(s)
  PROVE  LET d == Content(s, seg) IN
         /\ d \in Seq(Token)
         /\ \/ d = seg.data /\ Len(d) = seg.len
            \/ d \in Seq(NotReady) /\ seg.data = <<>>
<1>1. CASE seg.file = NoFile
  <2>1. Content(s, seg) = seg.data
    BY <1>1 DEF Content
  <2>2. seg \in TextSegs(Told)
    BY <1>1, ChannelAssumption DEF Outputs, FileSegs
  <2>3. seg.data \in Seq(Told) /\ Len(seg.data) = seg.len
    BY <2>2 DEF TextSegs
  <2>4. Told \subseteq Token
    BY DEF Told
  <2>5. seg.data \in Seq(Token)
    BY <2>3, <2>4, SeqMonotonic
  <2>. QED BY <2>1, <2>3, <2>5
<1>2. CASE seg.file # NoFile
  <2>1. seg \in FileSegs(s)
    BY <1>2 DEF Outputs, TextSegs
  <2>. DEFINE part == disk[s][seg.file][seg.part]
  <2>2. part \in Seq(Written) /\ seg.len \in Nat /\ seg.data = <<>>
    <3>1. /\ seg.file \in File /\ seg.part \in Part /\ seg.len \in Nat /\ seg.data = <<>>
          /\ part # NoPart
      BY <2>1 DEF FileSegs
    <3>2. seg.part \in Number
      BY <3>1, ChannelAssumption
    <3>3. part \in Seq(Written) \cup {NoPart}
      BY <3>1, <3>2 DEF Files
    <3>. QED BY <3>1, <3>3
  <2>3. Content(s, seg) = Take(part, seg.len)
    BY <1>2 DEF Content
  <2>. HIDE DEF part
  <2>4. Take(part, seg.len) \in Seq(Written)
    BY <2>2, TakeDropType
  <2>5. Seq(Written) \subseteq Seq(NotReady) /\ Seq(NotReady) \subseteq Seq(Token)
    BY NotReadyTokens, SeqMonotonic
  <2>. QED BY <2>2, <2>3, <2>4, <2>5
<1>. QED BY <1>1, <1>2

LEMMA SegmentSent ==
  ASSUME NEW s \in Server, disk[s] \in Files(Written), NEW out \in Seq(Outputs(s)), out # <<>>,
         NEW d, d = Content(s, out[1]),
         NEW rest, rest = IF Len(d) < out[1].len THEN out ELSE Tail(out),
         NEW q, q.out = out, NEW q2, q2.out = rest, NEW r \in Seq(Token)
  PROVE  /\ NoReady(q, r) => NoReady(q2, r \o d)
         /\ ReadyLast(q, r) => ReadyLast(q2, r \o d)
<1>1. /\ Len(out) \in Nat /\ 1 \in 1..Len(out) /\ out[1] \in Outputs(s)
      /\ Len(rest) \in Nat
      /\ \/ rest = out
         \/ /\ rest = Tail(out) /\ Len(rest) = Len(out) - 1
            /\ \A n \in 1..Len(rest) : rest[n] = out[n + 1]
  <2>1. Len(out) \in Nat /\ 1 \in 1..Len(out)
    BY EmptySeq, LenProperties
  <2>2. out[1] \in Outputs(s)
    BY <2>1, ElementOfSeq
  <2>3. /\ Tail(out) \in Seq(Outputs(s)) /\ Len(Tail(out)) = Len(out) - 1
        /\ \A n \in 1..(Len(out) - 1) : Tail(out)[n] = out[n + 1]
    BY HeadTailProperties
  <2>4. CASE rest = out
    BY <2>1, <2>2, <2>4
  <2>5. CASE rest = Tail(out)
    <3>1. Len(rest) = Len(out) - 1 /\ Len(rest) \in Nat
      <4>1. Len(Tail(out)) \in Nat
        BY <2>3, LenProperties
      <4>. QED BY <2>3, <2>5, <4>1, Zenon
    <3>2. \A n \in 1..Len(rest) : rest[n] = out[n + 1]
      BY <2>3, <2>5, <3>1
    <3>. QED BY <2>1, <2>2, <2>5, <3>1, <3>2
  <2>. QED BY <2>4, <2>5
<1>2. /\ d \in Seq(Token)
      /\ \/ d = out[1].data /\ Len(d) = out[1].len
         \/ d \in Seq(NotReady) /\ out[1].data = <<>>
  BY <1>1, ContentSpoken
<1>3. ASSUME NEW n \in 1..Len(rest)
      PROVE  \E m \in 1..Len(out) : /\ rest[n] = out[m]
                                    /\ m = Len(out) => n = Len(rest)
  <2>1. CASE rest = out
    BY <2>1
  <2>2. CASE rest = Tail(out) /\ Len(rest) = Len(out) - 1 /\ rest[n] = out[n + 1]
    <3>1. n + 1 \in 1..Len(out) /\ (n + 1 = Len(out) => n = Len(rest))
      BY <1>1, <2>2
    <3>. QED BY <2>2, <3>1
  <2>. QED BY <1>1, <2>1, <2>2
<1>4. ASSUME NoReady(q, r) PROVE NoReady(q2, r \o d)
  <2>1. r \in Seq(NotReady) /\ \A n \in 1..Len(out) : out[n].data \in Seq(NotReady)
    BY <1>4 DEF NoReady, Silent
  <2>2. d \in Seq(NotReady)
    BY <1>1, <1>2, <2>1
  <2>3. r \o d \in Seq(NotReady)
    BY <2>1, <2>2, ConcatProperties
  <2>4. Silent(rest)
    <3>1. ASSUME NEW n \in 1..Len(rest) PROVE rest[n].data \in Seq(NotReady)
      <4>1. PICK m \in 1..Len(out) : rest[n] = out[m]
        BY <1>3
      <4>. QED BY <2>1, <4>1
    <3>. QED BY <3>1 DEF Silent
  <2>. QED BY <2>3, <2>4 DEF NoReady
<1>5. ASSUME ReadyLast(q, r) PROVE ReadyLast(q2, r \o d)
  <2>1. EndsReady(out) /\ \A i \in 1..Len(r) : r[i] # Ready
    BY <1>5 DEF ReadyLast
  <2>2. EndsReady(rest)
    <3>1. ASSUME NEW n \in 1..Len(rest), NEW i \in 1..Len(rest[n].data), rest[n].data[i] = Ready
          PROVE  n = Len(rest) /\ i = Len(rest[n].data) - 1
      <4>1. PICK m \in 1..Len(out) : rest[n] = out[m] /\ (m = Len(out) => n = Len(rest))
        BY <1>3
      <4>2. i \in 1..Len(out[m].data) /\ out[m].data[i] = Ready
        BY <3>1, <4>1
      <4>3. m = Len(out) /\ i = Len(out[m].data) - 1
        BY <2>1, <4>2, Zenon DEF EndsReady
      <4>. QED BY <4>1, <4>3
    <3>. QED BY <3>1, Zenon DEF EndsReady
  <2>3. ASSUME NEW i \in 1..Len(r \o d), (r \o d)[i] = Ready
        PROVE  i = Len(r \o d) - 1 /\ rest = <<>>
    <3>1. /\ Len(r \o d) = Len(r) + Len(d) /\ Len(r) \in Nat /\ Len(d) \in Nat
          /\ \A j \in 1..(Len(r) + Len(d)) : (r \o d)[j] = IF j <= Len(r) THEN r[j] ELSE d[j - Len(r)]
      BY <1>2, ConcatProperties, LenProperties
    <3>2. ~(i <= Len(r))
      BY <2>1, <2>3, <3>1
    <3>3. PICK j : j = i - Len(r) /\ j \in 1..Len(d) /\ d[j] = Ready
      BY <2>3, <3>1, <3>2
    <3>4. d \notin Seq(NotReady)
      <4>. SUFFICES ASSUME d \in Seq(NotReady) PROVE FALSE
        OBVIOUS
      <4>1. d[j] \in NotReady
        BY <3>3, ElementOfSeq
      <4>. QED BY <3>3, <4>1 DEF NotReady
    <3>5. d = out[1].data /\ Len(d) = out[1].len
      BY <1>2, <3>4
    <3>one. PICK one : one = 1 /\ one \in 1..Len(out)
      BY <1>1
    <3>6. j \in 1..Len(out[one].data) /\ out[one].data[j] = Ready
      BY <3>3, <3>5, <3>one
    <3>7. one = Len(out) /\ j = Len(out[one].data) - 1
      BY <2>1, <3>6, <3>one, Zenon DEF EndsReady
    <3>8. rest = Tail(out)
      BY <3>1, <3>5
    <3>9. rest = <<>>
      <4>1. /\ Tail(out) \in Seq(Outputs(s)) /\ Len(Tail(out)) = Len(out) - 1
        BY HeadTailProperties
      <4>2. Len(Tail(out)) = 0
        BY <1>1, <3>one, <3>7, <4>1
      <4>. QED BY <3>8, <4>1, <4>2, EmptySeq
    <3>. QED BY <3>1, <3>3, <3>5, <3>7, <3>9, <3>one
  <2>. QED BY <2>2, <2>3 DEF ReadyLast
<1>. QED BY <1>4, <1>5

(* A step of the server that takes nothing from its input.                 *)
LEMMA ServerWrites ==
  ASSUME NEW s \in Server, NEW U, U \subseteq Version, NEW q, NEW q2, SameUpload(q, q2), q2.cb = q.cb,
         q2.inp = q.inp, NEW k, NEW w, NEW b, NEW b2, NEW open, NEW open2, open2 => open,
         Protocol(s, q, k, w, b, open, U),
         open2 => /\ NoReady(q, k.inp \o b) => NoReady(q2, k.inp \o b2)
                  /\ ReadyLast(q, k.inp \o b) => ReadyLast(q2, k.inp \o b2)
  PROVE  Protocol(s, q2, k, w, b2, open2, U)
<1>1. /\ ServerPhase(s, q, k, w, open, U) /\ ClientPhase(q, k, w, b, open) /\ PutLast(q.inp \o w)
      /\ (k.cb = "put" => k.version \in U)
  BY Zenon DEF Protocol
<1>2. q2.putState = q.putState /\ q2.filename = q.filename
  BY DEF SameUpload
<1>3. \A e \in Seq(Written) : OnItsWay(k, w, open, e) => OnItsWay(k, w, open2, e)
  BY Zenon DEF OnItsWay
<1>4. Receives(s, q, k, w, open, U) => Receives(s, q2, k, w, open2, U)
  <2>1. U \subseteq U
    OBVIOUS
  <2>. QED BY <1>3, <2>1, ReceivesKept
<1>5. Waits(q, k, w, open) => Waits(q2, k, w, open2)
  BY <1>2, Zenon DEF Waits
<1>6. ServerPhase(s, q2, k, w, open2, U)
  BY <1>1, <1>2, <1>4, <1>5, Zenon DEF ServerPhase
<1>7. ASSUME open2 PROVE ClientPhase(q2, k, w, b2, open2)
  <2>1. \/ Talks(q, k, q.inp \o w, k.inp \o b)
        \/ Asks(q, k, q.inp \o w, k.inp \o b)
        \/ Answered(q, k, w, k.inp \o b)
    BY <1>1, <1>7, Zenon DEF ClientPhase
  <2>2. /\ NoReady(q, k.inp \o b) => NoReady(q2, k.inp \o b2)
        /\ ReadyLast(q, k.inp \o b) => ReadyLast(q2, k.inp \o b2)
    BY <1>7
  <2>3. Talks(q, k, q.inp \o w, k.inp \o b) => Talks(q2, k, q2.inp \o w, k.inp \o b2)
    BY <2>2, Zenon DEF Talks
  <2>4. Asks(q, k, q.inp \o w, k.inp \o b) => Asks(q2, k, q2.inp \o w, k.inp \o b2)
    BY <2>2, Zenon DEF Asks
  <2>5. Answered(q, k, w, k.inp \o b) => Answered(q2, k, w, k.inp \o b2)
    BY <1>2, <2>2, Zenon DEF Answered, Waits
  <2>. QED BY <2>1, <2>3, <2>4, <2>5, Zenon DEF ClientPhase
<1>8. ClientPhase(q2, k, w, b2, open2)
  BY <1>7, Zenon DEF ClientPhase
<1>. QED BY <1>1, <1>6, <1>8, Zenon DEF Protocol

LEMMA SegmentProtocol ==
  ASSUME TypeInv, NEW c \in Conn, NEW U, U \subseteq Version, NEW q, q = srv[c], q.out # <<>>,
         NEW d, d = Content(c[2], q.out[1]),
         NEW rest, rest = IF Len(d) < q.out[1].len THEN q.out ELSE Tail(q.out),
         NEW q2, SameUpload(q, q2), q2.cb = q.cb, q2.inp = q.inp, q2.out = rest,
         NEW open, Protocol(c[2], q, con[c], c2s[c].data, s2c[c].data, open, U)
  PROVE  Protocol(c[2], q2, con[c], c2s[c].data, s2c[c].data \o d, open, U)
<1> DEFINE s == c[2]
           i == con[c].inp
           b == s2c[c].data
<1>1. /\ s \in Server /\ FlowOK(c) /\ disk[s] \in Files(Written)
  BY DEF Conn, TypeInv, DfsShape
<1>2. q.out \in Seq(Outputs(s)) /\ i \in Seq(Token) /\ b \in Seq(Token)
  <2>1. q.out \in Seq(Outputs(s))
    BY <1>1 DEF FlowOK, Connection, Outputs
  <2>2. i \in Seq(Told) /\ b \in Seq(Told)
    BY <1>1 DEF FlowOK, ClientConnection, Pipe
  <2>3. Told \subseteq Token
    BY DEF Told
  <2>. QED BY <2>1, <2>2, <2>3, SeqMonotonic
<1>3. d \in Seq(Token)
  <2>1. q.out[1] \in Outputs(s)
    BY <1>2, ElementOfSeq, EmptySeq, LenProperties
  <2>. QED BY <1>1, <2>1, ContentSpoken
<1>. HIDE DEF i, b
<1>4. i \o b \in Seq(Token) /\ (i \o b) \o d = i \o (b \o d)
  BY <1>2, <1>3, ConcatProperties, ConcatAssociative
<1>. DEFINE out == q.out
<1>5. out \in Seq(Outputs(s)) /\ out # <<>> /\ d = Content(s, out[1])
      /\ rest = IF Len(d) < out[1].len THEN out ELSE Tail(out)
  BY <1>2
<1>6. q.out = out
  OBVIOUS
<1>. HIDE DEF out
<1>7. /\ NoReady(q, i \o b) => NoReady(q2, (i \o b) \o d)
      /\ ReadyLast(q, i \o b) => ReadyLast(q2, (i \o b) \o d)
  BY <1>1, <1>4, <1>5, <1>6, SegmentSent, Zenon
<1>8. /\ NoReady(q, con[c].inp \o s2c[c].data) => NoReady(q2, con[c].inp \o (s2c[c].data \o d))
      /\ ReadyLast(q, con[c].inp \o s2c[c].data) => ReadyLast(q2, con[c].inp \o (s2c[c].data \o d))
  BY <1>4, <1>7 DEF i, b
<1>9. c[2] \in Server /\ (open => open)
  BY <1>1
<1>. HIDE DEF s
<1>. QED BY <1>8, <1>9, ServerWrites

(* A server writes, or finds that nobody reads.                            *)
LEMMA ServerWriteUploads ==
  ASSUME TypeInv, UploadsInv, TornStays, NEW c \in Conn, ServerWrite(c), con' = con, prog' = prog, put' = put
  PROVE  UploadsInv'
<1> DEFINE q    == srv[c]
           d    == Content(c[2], q.out[1])
           rest == IF Len(d) < q.out[1].len THEN q.out ELSE Tail(q.out)
           wr   == Len(d) = q.out[1].len
<1>0. c[2] \in Server /\ FlowOK(c) /\ DfsShape /\ Links(c) /\ UploadOn(c) /\ PartsAreRight
  BY Zenon DEF TypeInv, UploadsInv, Conn
<1>1. q.open /\ q.out # <<>>
  BY Zenon DEF ServerWrite, Up
<1>2. CASE Die(c[2], "aborted", c2s) /\ UNCHANGED <<disk, folder>>
  <2>1. FoldersStay
    BY <1>2, EnteredStay
  <2>2. PartsAreRight'
    BY <1>0, <1>2, UpsKept, DisksStayRight, Zenon
  <2>. QED BY <1>0, <1>2, <2>1, <2>2, DieUploads, Zenon
<1>3. CASE ~(Die(c[2], "aborted", c2s) /\ UNCHANGED <<disk, folder>>)
  <2>1. /\ disk' = disk /\ folder' = folder /\ c2s' = c2s
        /\ \/ /\ net[c] = "open" /\ net' = net
              /\ \E last : s2c' = [s2c EXCEPT ![c] = Sent(@, d, last)]
              /\ srv' = [srv EXCEPT ![c].out = rest, ![c].wr = wr]
           \/ /\ net[c] # "open" /\ s2c' = s2c
              /\ net' = net \/ Swallowed(c)
              /\ \/ srv' = [srv EXCEPT ![c].out = rest, ![c].wr = wr]
                 \/ srv' = [srv EXCEPT ![c].wr = FALSE]
    <3>1. "closed" # "open" /\ "reset" # "open"
      OBVIOUS
    <3>. QED BY <1>3, <3>1, Zenon DEF ServerWrite, netVars
  <2>. DEFINE qW == [q EXCEPT !.out = rest, !.wr = wr]
              qR == [q EXCEPT !.wr = FALSE]
  <2>2. /\ srv' = [srv EXCEPT ![c].out = rest, ![c].wr = wr] => srv' = [srv EXCEPT ![c] = qW]
        /\ srv' = [srv EXCEPT ![c].wr = FALSE] => srv' = [srv EXCEPT ![c] = qR]
    <3>. HIDE DEF rest, wr, d
    <3>. QED BY <1>0 DEF DfsShape
  <2>3. /\ SameUpload(q, qW) /\ qW.cb = q.cb /\ qW.inp = q.inp /\ qW.open = q.open /\ qW.out = rest
        /\ SameUpload(q, qR) /\ qR.cb = q.cb /\ qR.inp = q.inp /\ qR.open = q.open
    <3>1. q \in Connection(Written, TextSegs(Told) \cup FileSegs(c[2]))
      BY <1>0, Zenon DEF FlowOK
    <3>. HIDE DEF q, d, rest, wr
    <3>. QED BY <3>1 DEF Connection, SameUpload
  <2>. HIDE DEF qW, qR
  <2>4. PICK r : /\ srv' = [srv EXCEPT ![c] = r]
                 /\ SameUpload(q, r) /\ r.cb = q.cb /\ r.inp = q.inp /\ r.open = q.open
                 /\ \/ /\ net[c] = "open" /\ net' = net /\ r.out = rest
                       /\ \E last : s2c' = [s2c EXCEPT ![c] = Sent(@, d, last)]
                    \/ net[c] # "open" /\ s2c' = s2c /\ (net' = net \/ Swallowed(c))
    BY <2>1, <2>2, <2>3, Zenon
  <2>5. srv'[c] = r /\ \A e \in Conn : e # c => srv'[e] = srv[e]
    BY <1>0, <2>4, Zenon DEF DfsShape
  <2>6. \A e \in Conn : e # c => s2c'[e] = s2c[e] /\ net'[e] = net[e]
    <3>1. \A e \in Conn : e # c => s2c'[e] = s2c[e]
      BY <1>0, <2>4, Zenon DEF DfsShape
    <3>2. \A e \in Conn : e # c => net'[e] = net[e]
      BY <1>0, <2>4 DEF DfsShape, Swallowed
    <3>. QED BY <3>1, <3>2
  <2>7. \/ net[c] = "open" /\ net'[c] = "open" /\ r.out = rest /\ s2c'[c].data = s2c[c].data \o d
        \/ net[c] # "open" /\ net'[c] # "open"
    <3>1. CASE net[c] = "open"
      <4>1. PICK last : s2c' = [s2c EXCEPT ![c] = Sent(s2c[c], d, last)]
        BY <2>4, <3>1, Zenon
      <4>2. s2c'[c] = Sent(s2c[c], d, last)
        BY <1>0, <4>1, Zenon DEF DfsShape
      <4>3. s2c'[c].data = s2c[c].data \o d
        <5>. HIDE DEF d
        <5>. QED BY <4>2 DEF Sent
      <4>. QED BY <2>4, <3>1, <4>3, Zenon
    <3>2. CASE net[c] # "open"
      <4>1. net' = net \/ Swallowed(c)
        BY <2>4, <3>2
      <4>2. net'[c] # "open"
        BY <1>0, <3>2, <4>1 DEF Swallowed, DfsShape
      <4>. QED BY <3>2, <4>2
    <3>. QED BY <3>1, <3>2
  <2>8. ASSUME Usable(c[2])
        PROVE  Protocol(c[2], r, con[c], c2s[c].data, s2c'[c].data, net'[c] = "open", Ups)
    <3>1. Protocol(c[2], q, con[c], c2s[c].data, s2c[c].data, net[c] = "open", Ups)
      BY <1>0, <2>8, Zenon DEF UploadOn
    <3>2. PICK open : open = (net[c] = "open")
      OBVIOUS
    <3>3. Protocol(c[2], q, con[c], c2s[c].data, s2c[c].data, open, Ups) /\ Ups \subseteq Version
      BY <3>1, <3>2 DEF Ups
    <3>4. CASE net[c] = "open" /\ net'[c] = "open" /\ r.out = rest /\ s2c'[c].data = s2c[c].data \o d
      <4>1. Protocol(c[2], r, con[c], c2s[c].data, s2c[c].data \o d, open, Ups)
        BY <1>1, <2>4, <3>3, <3>4, SegmentProtocol, Zenon
      <4>2. open = (net'[c] = "open")
        BY <3>2, <3>4
      <4>. QED BY <3>4, <4>1, <4>2
    <3>5. CASE net[c] # "open" /\ net'[c] # "open"
      <4>1. PICK open2 : open2 = (net'[c] = "open")
        OBVIOUS
      <4>2. ~open2
        BY <3>5, <4>1
      <4>3. Protocol(c[2], r, con[c], c2s[c].data, s2c'[c].data, open2, Ups)
        BY <1>0, <2>4, <3>3, <4>2, ServerWrites, Zenon
      <4>. QED BY <4>1, <4>3
    <3>. QED BY <2>7, <3>4, <3>5
  <2>9. Ups' = Ups
    BY UpsKept
  <2>10. PartsAreRight'
    <3>1. disk' = disk
      BY <2>1
    <3>. QED BY <1>0, <2>9, <3>1, DisksStayRight, Zenon
  <2>11. FoldersStay
    BY <2>1, EnteredStay
  <2>12. \A e \in Conn : e # c => Aside(e)
    BY <2>1, <2>5, <2>6, Zenon DEF Aside
  <2>13. UploadOn(c)'
    <3>1. srv'[c].cb = "put" /\ Usable(c[2]) => folder'[c[2]]
      BY <1>0, <2>1, <2>4, <2>5, Zenon DEF UploadOn, Usable
    <3>2. con'[c] = con[c] /\ c2s'[c] = c2s[c]
      BY <2>1
    <3>. QED BY <2>5, <2>8, <2>9, <3>1, <3>2, Zenon DEF UploadOn, Usable
  <2>14. Links(c)'
    <3>1. srv[c] # Absent
      BY <1>1 DEF Absent, Accepted
    <3>2. prog[c[1]].life # "new"
      BY <1>0, <3>1, Zenon DEF Links
    <3>3. srv'[c].open /\ con'[c] = con[c] /\ prog' = prog
      BY <1>1, <2>4, <2>5
    <3>. QED BY <1>0, <2>7, <3>2, <3>3, Zenon DEF Links
  <2>. QED BY <2>10, <2>11, <2>12, <2>13, <2>14, OneUpload, Zenon
<1>. QED BY <1>2, <1>3

(* A connection is accepted.                                               *)
LEMMA AcceptUploads ==
  ASSUME TypeInv, UploadsInv, TornStays, NEW c \in Conn, Accept(c), con' = con, prog' = prog, put' = put
  PROVE  UploadsInv'
<1>0. c[2] \in Server /\ DfsShape /\ Links(c) /\ UploadOn(c) /\ PartsAreRight /\ srv[c] = Absent
  BY Zenon DEF TypeInv, UploadsInv, Conn, Accept, Links
<1>1. /\ srv' = [srv EXCEPT ![c] = Accepted] /\ net[c] # "none"
      /\ disk' = disk /\ folder' = folder /\ c2s' = c2s /\ s2c' = s2c /\ net' = net
  BY DEF Accept, netVars
<1>2. srv'[c] = Accepted /\ \A e \in Conn : e # c => srv'[e] = srv[e]
  BY <1>0, <1>1, Zenon DEF DfsShape
<1>3. /\ SameUpload(Absent, Accepted) /\ Accepted.cb = Absent.cb /\ Accepted.inp = Absent.inp
      /\ Accepted.out = Absent.out /\ Accepted.open /\ Accepted.cb # "put"
  BY DEF SameUpload, Absent, Accepted
<1>4. ASSUME Usable(c[2])
      PROVE  Protocol(c[2], Accepted, con[c], c2s[c].data, s2c[c].data, net[c] = "open", Ups)
  <2>1. Protocol(c[2], Absent, con[c], c2s[c].data, s2c[c].data, net[c] = "open", Ups)
    BY <1>0, <1>4, Zenon DEF UploadOn
  <2>2. PICK open : open = (net[c] = "open")
    OBVIOUS
  <2>3. Protocol(c[2], Absent, con[c], c2s[c].data, s2c[c].data, open, Ups) /\ Ups \subseteq Version
    BY <2>1, <2>2 DEF Ups
  <2>. DEFINE r == con[c].inp \o s2c[c].data
  <2>4. /\ NoReady(Absent, r) => NoReady(Accepted, r)
        /\ ReadyLast(Absent, r) => ReadyLast(Accepted, r)
    BY <1>3, Zenon DEF NoReady, ReadyLast
  <2>6. c[2] \in Server /\ (open => open)
    BY <1>0
  <2>7. SameUpload(Absent, Accepted) /\ Accepted.cb = Absent.cb /\ Accepted.inp = Absent.inp
    BY <1>3
  <2>5. Protocol(c[2], Accepted, con[c], c2s[c].data, s2c[c].data, open, Ups)
    BY <2>3, <2>4, <2>6, <2>7, ServerWrites
  <2>. QED BY <2>2, <2>5
<1>5. Ups' = Ups
  BY UpsKept
<1>6. PartsAreRight'
  BY <1>0, <1>1, <1>5, DisksStayRight, Zenon
<1>7. FoldersStay
  BY <1>1, EnteredStay
<1>8. \A e \in Conn : e # c => Aside(e)
  BY <1>1, <1>2, Zenon DEF Aside
<1>9. UploadOn(c)'
  BY <1>1, <1>2, <1>3, <1>4, <1>5, Zenon DEF UploadOn, Usable
<1>10. Links(c)'
  BY <1>0, <1>1, <1>2, <1>3, Zenon DEF Links
<1>. QED BY <1>6, <1>7, <1>8, <1>9, <1>10, OneUpload, Zenon

(* A step of a server.                                                     *)
LEMMA ServeUploads ==
  ASSUME FlatNames, PlainFiles, TypeInv, TypeInv', UploadsInv, TornStays, NEW c \in Conn, Serve(c)
  PROVE  UploadsInv'
<1>1. ServerStep(c) /\ con' = con /\ prog' = prog /\ put' = put
  BY DEF Serve, clientVars, userVars
<1>. QED BY <1>1, AcceptUploads, ServerReadUploads, ServerWriteUploads, Zenon DEF ServerStep

(* A server is killed while it writes a part.                              *)
LEMMA TornRight ==
  ASSUME TornStays, NEW s \in Server, MayBeTorn(s)', NEW files \in Files(Written), PartsRight(files, s, Ups),
         Ups \subseteq Ups', NEW q, q.inp \in Seq(Written), Enough(q),
         NEW v \in Ups, NEW p \in PartsOf(s, HashMod(v)), PartIn(q, s, v, p),
         NEW m \in 0..q.wantedSize, disk'[s] = StoringFirst(files, q, m)
  PROVE  PartsRight(disk[s], s, Ups)'
<1> DEFINE d == Take(q.inp, m)
<1>1. disk'[s] = [files EXCEPT ![q.filename][q.partnum] = d]
  BY DEF StoringFirst
<1>2. /\ PathOf(v) = q.filename /\ q.partnum = p /\ q.wantedSize = PartLength(Size(v), p)
      /\ Take(q.inp, q.wantedSize) = PartOf(v, p)
  BY Zenon DEF PartIn
<1>3. v \in Version /\ p \in Part
  BY PartsOfServer DEF Ups
<1>4. Begins(d, PartOf(v, p))
  <2>1. Len(PartOf(v, p)) = q.wantedSize /\ q.wantedSize \in Nat
    BY <1>2, <1>3, PartTextType
  <2>2. Take(PartOf(v, p), m) = d
    <3>1. Take(Take(q.inp, q.wantedSize), m) = Take(q.inp, m)
      BY <2>1, TakenFirst
    <3>. QED BY <1>2, <3>1
  <2>. QED BY <2>1, <2>2, Zenon DEF Begins
<1>. HIDE DEF d
<1>5. MayBeTorn(s) => MayBeTorn(s)'
  BY Zenon DEF TornStays
<1>6. ASSUME NEW f \in File, NEW n \in Number, disk'[s][f][n] # NoPart
      PROVE  \E u \in Ups' : PathOf(u) = f /\ n \in PartsOf(s, HashMod(u)) /\ IsPart(disk[s][f][n], s, u, n)'
  <2>1. CASE f = q.filename /\ n = q.partnum
    <3>1. disk'[s][f][n] = d
      BY <1>1, <2>1 DEF Files
    <3>2. IsPart(disk[s][f][n], s, v, n)'
      BY <1>2, <1>4, <2>1, <3>1, Zenon DEF IsPart
    <3>. QED BY <1>2, <2>1, <3>2, Zenon
  <2>2. CASE ~(f = q.filename /\ n = q.partnum)
    <3>1. disk'[s][f][n] = files[f][n]
      BY <1>1, <2>2 DEF Files
    <3>2. PICK u \in Ups : PathOf(u) = f /\ n \in PartsOf(s, HashMod(u)) /\ IsPart(files[f][n], s, u, n)
      BY <1>6, <3>1, Zenon DEF PartsRight
    <3>3. IsPart(disk[s][f][n], s, u, n)'
      BY <1>5, <3>1, <3>2, Zenon DEF IsPart
    <3>. QED BY <3>2, <3>3, Zenon
  <2>. QED BY <2>1, <2>2
<1>. QED BY <1>6, Zenon DEF PartsRight

(* What callback_put writes is the part that is due.                       *)
DueWrite(g, s) ==
  /\ g.files \in Files(Written) /\ PartsRight(g.files, s, Ups)
  /\ g.q.inp \in Seq(Written) /\ Enough(g.q)
  /\ \E v \in Ups : \E p \in PartsOf(s, HashMod(v)) : PartIn(g.q, s, v, p)

LEMMA WritesAreDue ==
  ASSUME FlatNames, PlainFiles, TypeInv, UploadsInv, NEW c \in Conn, NEW n \in c2s[c].cuts,
         NEW q1, q1 = [srv[c] EXCEPT !.inp = srv[c].inp \o Take(c2s[c].data, n)], q1.cb = "put",
         NEW g \in Writes(c, q1)
  PROVE  DueWrite(g, c[2])
<1> DEFINE s   == c[2]
           Out == Outputs(s)
           q == srv[c]
           k == con[c]
           w == c2s[c].data
           b == s2c[c].data
<1>0. /\ s \in Server /\ FlowOK(c) /\ DfsShape /\ UploadOn(c) /\ PartsAreRight
      /\ disk[s] \in Files(Written)
  <2>1. s \in Server
    BY DEF Conn
  <2>. QED BY <2>1, Zenon DEF TypeInv, DfsShape, UploadsInv
<1>1. q1 = [srv[c] EXCEPT !.inp = srv[c].inp \o Take(c2s[c].data, n)] /\ q1.cb = "put" /\ g \in Writes(c, q1)
  OBVIOUS
<1>3. /\ w \in Seq(Written) /\ n \in 1..Len(w) /\ n \in Nat /\ q \in Connection(Written, Out) /\ UploadOK(q)
      /\ q.inp \in Seq(Written) /\ k.out \in Seq(Seq(Written))
  <2>1. w \in Seq(Written) /\ n \in 1..Len(w) /\ n \in Nat
    BY <1>0 DEF FlowOK, Pipe
  <2>2. q \in Connection(Written, Out) /\ UploadOK(q)
    BY <1>0, Zenon DEF FlowOK, Outputs
  <2>3. k.out \in Seq(Seq(Written))
    BY <1>0 DEF FlowOK, ClientConnection
  <2>. QED BY <2>1, <2>2, <2>3, ConnectionFields
<1>4. Joins(q, q1, Take(w, n)) /\ q1 \in Connection(Written, Out) /\ UploadOK(q1)
  <2>1. Take(w, n) \in Seq(Written)
    BY <1>3, TakeDropType
  <2>2. q.inp \o Take(w, n) \in Seq(Written)
    BY <1>3, <2>1, ConcatProperties
  <2>3. q1 = [q EXCEPT !.inp = q.inp \o Take(w, n)]
    BY <1>1
  <2>. HIDE DEF q, w, Out
  <2>4. q1 \in Connection(Written, Out) /\ UploadOK(q1)
    <3>1. PICK i \in Seq(Written) : q1 = [q EXCEPT !.inp = i]
      BY <2>2, <2>3
    <3>2. [q EXCEPT !.inp = i] \in Connection(Written, Out) /\ UploadOK([q EXCEPT !.inp = i])
      BY <1>3, ConnectionFields, Zenon
    <3>. QED BY <3>1, <3>2
  <2>5. Joins(q, q1, Take(w, n))
    BY <1>3, <2>3 DEF Connection, Joins, SameUpload
  <2>. QED BY <2>4, <2>5
<1>5. q.cb = "put"
  BY <1>1, <1>4 DEF Joins
<1>6. Usable(s)
  <2>1. Opens(s, g.q.filename)
    BY <1>1, Zenon DEF Writes
  <2>2. folder[s]
    BY <2>1, Zenon DEF Opens
  <2>. QED BY <2>2, Zenon DEF Usable, UploadsInv
<1>7. folder[s] /\ Protocol(s, q, k, w, b, net[c] = "open", Ups)
  BY <1>0, <1>5, <1>6, Zenon DEF UploadOn
<1>8. PICK open : open = (net[c] = "open")
  OBVIOUS
<1>9. Ups \subseteq Version /\ Protocol(c[2], q, k, w, b, open, Ups) /\ PartsRight(disk[c[2]], c[2], Ups)
  BY <1>0, <1>7, <1>8, Zenon DEF Ups, PartsAreRight
<1>. HIDE DEF q, k, w, b, Out
<1>a0. PutComes(c[2], q, k, w, n, open, Ups, q1)
  BY <1>3, <1>4, <1>5, <1>9, PutReceives, ZenonT(40)
<1>10. /\ Drop(w, n) \in Seq(Written) /\ q1.inp # <<>> /\ q1.cb = "put" /\ q1.filename \in File
       /\ Receives(c[2], q1, k, q1.inp \o Drop(w, n), open, Ups)
  BY <1>a0, Zenon DEF PutComes
<1>11. /\ g.files \in Files(Written) /\ PartsRight(g.files, c[2], Ups)
       /\ g.q.inp \in Seq(Written) /\ Enough(g.q)
       /\ \E v \in Ups : \E p \in PartsOf(c[2], HashMod(v)) : PartIn(g.q, c[2], v, p)
  BY <1>0, <1>1, <1>3, <1>4, <1>7, <1>9, <1>10, WritesRight, ZenonT(30)
<1>. QED BY <1>11, Zenon DEF DueWrite

LEMMA TornUploads ==
  ASSUME FlatNames, PlainFiles, TypeInv, UploadsInv, TornStays, NEW c \in Conn, KilledWriting(c),
         MayBeTorn(c[2])', put' = put
  PROVE  PartsAreRight'
<1> DEFINE s == c[2]
<1>0. /\ s \in Server /\ FlowOK(c) /\ DfsShape /\ UploadOn(c) /\ PartsAreRight
      /\ disk[s] \in Files(Written)
  <2>1. s \in Server
    BY DEF Conn
  <2>. QED BY <2>1, Zenon DEF TypeInv, DfsShape, UploadsInv
<1>a. PICK n \in c2s[c].cuts : \E q1 \in {[srv[c] EXCEPT !.inp = @ \o Take(c2s[c].data, n)]} :
        /\ q1.cb = "put"
        /\ \E g \in Writes(c, q1) : \E m \in 0..g.q.wantedSize :
             disk' = [disk EXCEPT ![s] = StoringFirst(g.files, g.q, m)]
  BY Zenon DEF KilledWriting
<1>b. PICK q1 : /\ q1 = [srv[c] EXCEPT !.inp = srv[c].inp \o Take(c2s[c].data, n)] /\ q1.cb = "put"
                /\ \E g \in Writes(c, q1) : \E m \in 0..g.q.wantedSize :
                     disk' = [disk EXCEPT ![s] = StoringFirst(g.files, g.q, m)]
  BY <1>a, Zenon
<1>c. PICK g \in Writes(c, q1) : \E m \in 0..g.q.wantedSize :
                     disk' = [disk EXCEPT ![s] = StoringFirst(g.files, g.q, m)]
  BY <1>b, Zenon
<1>d. PICK m \in 0..g.q.wantedSize : disk' = [disk EXCEPT ![s] = StoringFirst(g.files, g.q, m)]
  BY <1>c, Zenon
<1>1. /\ q1 = [srv[c] EXCEPT !.inp = srv[c].inp \o Take(c2s[c].data, n)]
      /\ q1.cb = "put" /\ g \in Writes(c, q1) /\ m \in 0..g.q.wantedSize
      /\ disk' = [disk EXCEPT ![s] = StoringFirst(g.files, g.q, m)]
  BY <1>b, <1>d, Zenon
<1>11. DueWrite(g, s)
  BY <1>1, WritesAreDue, Zenon
<1>12. PICK v \in Ups : \E p \in PartsOf(c[2], HashMod(v)) : PartIn(g.q, c[2], v, p)
  BY <1>11, Zenon DEF DueWrite
<1>13. PICK p \in PartsOf(c[2], HashMod(v)) : PartIn(g.q, c[2], v, p)
  BY <1>12
<1>14. ASSUME NEW t \in Server PROVE PartsRight(disk[t], t, Ups)'
  <2>1. Ups' = Ups
    BY UpsKept
  <2>2. CASE t = s
    <3>1. disk'[s] = StoringFirst(g.files, g.q, m)
      BY <1>0, <1>1, Zenon DEF DfsShape
    <3>2. PartsRight(disk[s], s, Ups)'
      BY <1>0, <1>1, <1>11, <1>13, <2>1, <3>1, TornRight DEF DueWrite
    <3>. QED BY <2>2, <3>2
  <2>3. CASE t # s
    <3>1. disk'[t] = disk[t]
      BY <1>0, <1>1, <2>3, Zenon DEF DfsShape
    <3>2. PICK d : d = disk[t]
      OBVIOUS
    <3>3. PartsRight(d, t, Ups) /\ disk'[t] = d
      BY <1>0, <3>1, <3>2, Zenon DEF PartsAreRight
    <3>. QED BY <2>1, <3>3, PartsStayRight, Zenon
  <2>. QED BY <2>2, <2>3
<1>. QED BY <1>14, Zenon DEF PartsAreRight

(* A server is killed, or started again.                                   *)
LEMMA KillUploads ==
  ASSUME FlatNames, PlainFiles, TypeInv, UploadsInv, TornStays, kills \in Nat,
         NEW s \in Server, UserKills(s) \/ UserRestarts(s)
  PROVE  UploadsInv'
<1>1. con' = con /\ prog' = prog /\ put' = put /\ folder' = folder
  BY DEF UserKills, UserRestarts, Kill, KilledWriting, Restart, clientVars, userVars
<1>2. FoldersStay
  <2>1. ASSUME NEW t \in Server PROVE (folder[t] => folder'[t]) /\ (t \in Unwritable => ~folder'[t])
    BY <1>1, Zenon DEF UploadsInv
  <2>. QED BY <2>1, Zenon DEF FoldersStay
<1>3. Ups' = Ups
  BY <1>1, UpsKept
<1>4. ASSUME disk' = disk PROVE PartsAreRight'
  BY <1>3, <1>4, DisksStayRight, Zenon DEF UploadsInv
<1>5. CASE UserKills(s)
  <2>1. CASE Die(s, "killed", c2s) /\ disk' = disk
    BY <1>1, <1>2, <1>4, <2>1, DieUploads, Zenon
  <2>2. ASSUME NEW j \in Client, KilledWriting(<<j, s>>) PROVE UploadsInv'
    <3>a. <<j, s>> \in Conn /\ <<j, s>>[2] = s
      BY DEF Conn
    <3>1. PICK c \in Conn : c = <<j, s>> /\ c[2] = s
      BY <3>a, Zenon
    <3>2. KilledWriting(c)
      BY <2>2, <3>1
    <3>3. PartsAreRight'
      <4>1. MayBeTorn(s)'
        <5>1. TornWrites /\ (\E unread : Die(s, "killed", unread))
          BY <3>1, <3>2, Zenon DEF KilledWriting
        <5>2. fate'[s] = "killed"
          BY <5>1 DEF Die, TypeInv, DfsShape
        <5>3. kills' = kills + 1
          BY <1>5, Zenon DEF UserKills
        <5>4. kills' > 0 /\ fate'[s] # "up"
          BY <5>2, <5>3
        <5>. QED BY <5>1, <5>4, Zenon DEF MayBeTorn
      <4>. QED BY <1>1, <3>1, <3>2, <4>1, TornUploads
    <3>4. PICK unread : Die(s, "killed", unread)
      BY <3>1, <3>2, KilledWrites, Zenon
    <3>. QED BY <1>1, <1>2, <3>3, <3>4, DieUploads, Zenon
  <2>. QED BY <1>5, <2>1, <2>2, Zenon DEF UserKills, Kill
<1>6. CASE UserRestarts(s)
  <2>1. srv' = srv /\ c2s' = c2s /\ s2c' = s2c /\ net' = net /\ disk' = disk
    BY <1>6 DEF UserRestarts, Restart, netVars
  <2>2. \A c \in Conn : Aside(c) /\ Links(c) /\ UploadOn(c)
    BY <1>1, <2>1, Zenon DEF Aside, UploadsInv
  <2>3. \A c \in Conn : Links(c)' /\ UploadOn(c)'
    BY <1>1, <1>2, <1>3, <2>2, AsideKept, Zenon
  <2>4. \A t \in Unwritable : ~folder'[t]
    BY <1>1, Zenon DEF UploadsInv
  <2>. QED BY <1>4, <2>1, <2>3, <2>4, Zenon DEF UploadsInv
<1>. QED BY <1>5, <1>6
-----------------------------------------------------------------------------
(* The steps of the clients.  A client that looks at what has come, or at  *)
(* nothing: what it sends stays as it is.                                  *)
SameClient(k, k2) ==
  /\ k2.out = k.out /\ k2.version = k.version
  /\ InPut(k) => InPut(k2)
  /\ Sends(k) => Sends(k2)

LEMMA LooksKept ==
  ASSUME NEW s \in Server, NEW U, U \subseteq Version, NEW U2, U \subseteq U2, NEW q, NEW k, NEW k2,
         NEW w, NEW b, NEW b2, NEW open, Protocol(s, q, k, w, b, open, U), SameClient(k, k2),
         k2.cb = "put" => k2.version \in U2,
         NoReady(q, k.inp \o b) => NoReady(q, k2.inp \o b2),
         ReadyLast(q, k.inp \o b) => ReadyLast(q, k2.inp \o b2)
  PROVE  Protocol(s, q, k2, w, b2, open, U2)
<1>1. /\ ServerPhase(s, q, k, w, open, U) /\ ClientPhase(q, k, w, b, open) /\ PutLast(q.inp \o w)
  BY Zenon DEF Protocol
<1>2. /\ k2.out = k.out /\ k2.version = k.version /\ (InPut(k) => InPut(k2)) /\ (Sends(k) => Sends(k2))
  BY Zenon DEF SameClient
<1>3. \A e \in Seq(Written) : OnItsWay(k, w, open, e) => OnItsWay(k2, w, open, e)
  BY <1>2, Zenon DEF OnItsWay
<1>4. Receives(s, q, k, w, open, U) => Receives(s, q, k2, w, open, U2)
  <2>1. SameUpload(q, q)
    BY SameSelf
  <2>. QED BY <1>3, <2>1, ReceivesKept
<1>5. \A o : Waits(q, k, w, o) => Waits(q, k2, w, o)
  BY <1>2, Zenon DEF Waits
<1>6. ServerPhase(s, q, k2, w, open, U2)
  BY <1>1, <1>4, <1>5, Zenon DEF ServerPhase
<1> DEFINE x == q.inp \o w
           r == k.inp \o b
           r2 == k2.inp \o b2
<1>7. /\ NoReady(q, r) => NoReady(q, r2)
      /\ ReadyLast(q, r) => ReadyLast(q, r2)
  OBVIOUS
<1>8. ClientPhase(q, k2, w, b2, open)
  <2>1. open => Talks(q, k, x, r) \/ Asks(q, k, x, r) \/ Answered(q, k, w, r)
    BY <1>1, Zenon DEF ClientPhase
  <2>. HIDE DEF x, r, r2
  <2>2. Talks(q, k, x, r) => Talks(q, k2, x, r2)
    BY <1>2, <1>7, Zenon DEF Talks
  <2>3. Asks(q, k, x, r) => Asks(q, k2, x, r2)
    BY <1>2, <1>7, Zenon DEF Asks, Asking, Asked
  <2>4. Answered(q, k, w, r) => Answered(q, k2, w, r2)
    BY <1>5, <1>7, Zenon DEF Answered
  <2>. QED BY <2>1, <2>2, <2>3, <2>4, Zenon DEF ClientPhase, x, r2
<1>. QED BY <1>1, <1>6, <1>8, Zenon DEF Protocol

LEMMA MoreUploads ==
  ASSUME NEW s \in Server, NEW U, U \subseteq Version, NEW U2, U \subseteq U2, NEW q, NEW k,
         NEW w, NEW b, NEW open, Protocol(s, q, k, w, b, open, U)
  PROVE  Protocol(s, q, k, w, b, open, U2)
<1>1. k.cb = "put" => k.version \in U2
  BY Zenon DEF Protocol
<1>2. SameClient(k, k)
  BY Zenon DEF SameClient
<1>. QED BY <1>1, <1>2, LooksKept

(* What is left of the answers when the client has looked at some.         *)
LEMMA LookedAt ==
  ASSUME NEW a \in Seq(Token), NEW r \in Seq(Token), NEW x, x = a \o r, NEW q
  PROVE  /\ NoReady(q, x) => NoReady(q, r)
         /\ ReadyLast(q, x) => ReadyLast(q, r)
<1> DEFINE n == Len(a)
<1>1. /\ n \in Nat /\ Len(r) \in Nat /\ Len(x) = n + Len(r)
      /\ \A i \in 1..Len(r) : n + i \in 1..Len(x) /\ x[n + i] = r[i]
  <2>1. /\ Len(a) \in Nat /\ Len(r) \in Nat /\ Len(x) = Len(a) + Len(r)
        /\ \A i \in 1..(Len(a) + Len(r)) : x[i] = IF i <= Len(a) THEN a[i] ELSE r[i - Len(a)]
    BY ConcatProperties, LenProperties
  <2>2. ASSUME NEW i \in 1..Len(r) PROVE n + i \in 1..Len(x) /\ x[n + i] = r[i]
    <3>1. n + i \in 1..(Len(a) + Len(r)) /\ ~(n + i <= Len(a)) /\ (n + i) - Len(a) = i
      BY <2>1
    <3>2. x[n + i] = IF n + i <= Len(a) THEN a[n + i] ELSE r[(n + i) - Len(a)]
      BY <2>1, <3>1
    <3>3. x[n + i] = r[i]
      BY <3>1, <3>2
    <3>. QED BY <2>1, <3>1, <3>3
  <2>. QED BY <2>1, <2>2
<1>. HIDE DEF n
<1>2. ASSUME NoReady(q, x) PROVE NoReady(q, r)
  <2>1. x \in Seq(NotReady) /\ Silent(q.out)
    BY <1>2, Zenon DEF NoReady
  <2>2. ASSUME NEW i \in 1..Len(r) PROVE r[i] \in NotReady
    <3>1. x[n + i] \in NotReady
      BY <1>1, <2>1, ElementOfSeq
    <3>. QED BY <1>1, <3>1
  <2>3. r \in [1..Len(r) -> NotReady]
    <3>1. r \in [1..Len(r) -> Token]
      BY LenProperties
    <3>. QED BY <2>2, <3>1
  <2>4. r \in Seq(NotReady)
    BY <1>1, <2>3, FunctionIsSeq
  <2>. QED BY <2>1, <2>4, Zenon DEF NoReady
<1>3. ASSUME ReadyLast(q, x) PROVE ReadyLast(q, r)
  <2>1. EndsReady(q.out) /\ \A i \in 1..Len(x) : x[i] = Ready => i = Len(x) - 1 /\ q.out = <<>>
    BY <1>3, Zenon DEF ReadyLast
  <2>2. ASSUME NEW i \in 1..Len(r), r[i] = Ready PROVE i = Len(r) - 1 /\ q.out = <<>>
    <3>1. n + i \in 1..Len(x) /\ x[n + i] = Ready
      BY <1>1, <2>2
    <3>2. n + i = Len(x) - 1 /\ q.out = <<>>
      BY <2>1, <3>1
    <3>. QED BY <1>1, <3>2
  <2>. QED BY <2>1, <2>2, Zenon DEF ReadyLast
<1>. QED BY <1>2, <1>3

Passes(q, i, t, y, a, j) ==
  i \o t = a \o j => /\ NoReady(q, i \o (t \o y)) => NoReady(q, j \o y)
                     /\ ReadyLast(q, i \o (t \o y)) => ReadyLast(q, j \o y)

LEMMA LookedPast ==
  ASSUME NEW i \in Seq(Token), NEW t \in Seq(Token), NEW y \in Seq(Token), NEW a \in Seq(Token),
         NEW j \in Seq(Token), NEW q
  PROVE  Passes(q, i, t, y, a, j)
<1>1. (i \o t) \o y = i \o (t \o y)
  BY TokensJoined, Zenon
<1>2. (a \o j) \o y = a \o (j \o y)
  BY TokensJoined, Zenon
<1>3. j \o y \in Seq(Token)
  BY ConcatProperties
<1> DEFINE z == j \o y
           x == i \o (t \o y)
<1>4. z \in Seq(Token) /\ (i \o t = a \o j => x = a \o z)
  BY <1>1, <1>2, <1>3
<1>. HIDE DEF z, x
<1>5. /\ x = a \o z /\ NoReady(q, x) => NoReady(q, z)
      /\ x = a \o z /\ ReadyLast(q, x) => ReadyLast(q, z)
  BY <1>4, LookedAt, Zenon
<1>. QED BY <1>4, <1>5 DEF z, x, Passes

(* A read of the client, by which it sends nothing: j is what it leaves in *)
(* its input.                                                              *)
LEMMA ReadsOnly ==
  ASSUME NEW s \in Server, NEW U, U \subseteq Version, NEW q, NEW k, k.inp \in Seq(Token), NEW k2,
         NEW w, NEW b \in Seq(Token), NEW n \in Nat, NEW open,
         Protocol(s, q, k, w, b, open, U), SameClient(k, k2), k2.cb = "put" => k.cb = "put",
         NEW a \in Seq(Token), k2.inp \in Seq(Token), k.inp \o Take(b, n) = a \o k2.inp
  PROVE  Protocol(s, q, k2, w, Drop(b, n), open, U)
<1>1. /\ NoReady(q, k.inp \o b) => NoReady(q, k2.inp \o Drop(b, n))
      /\ ReadyLast(q, k.inp \o b) => ReadyLast(q, k2.inp \o Drop(b, n))
  <2>. DEFINE i == k.inp
              j == k2.inp
  <2>1. i \in Seq(Token) /\ j \in Seq(Token) /\ i \o Take(b, n) = a \o j
    OBVIOUS
  <2>. HIDE DEF i, j
  <2>2. Take(b, n) \in Seq(Token) /\ Drop(b, n) \in Seq(Token) /\ Take(b, n) \o Drop(b, n) = b
    BY TakeDropType, Split
  <2>3. Passes(q, i, Take(b, n), Drop(b, n), a, j)
    BY <2>1, <2>2, LookedPast, Zenon
  <2>4. /\ NoReady(q, i \o b) => NoReady(q, j \o Drop(b, n))
        /\ ReadyLast(q, i \o b) => ReadyLast(q, j \o Drop(b, n))
    BY <2>1, <2>2, <2>3, Zenon DEF Passes
  <2>. QED BY <2>4 DEF i, j
<1>2. k2.cb = "put" => k2.version \in U
  BY Zenon DEF Protocol, SameClient
<1>3. U \subseteq U
  OBVIOUS
<1>. QED BY <1>1, <1>2, <1>3, LooksKept

LEMMA CalmPutLast ==
  ASSUME NEW x \in Seq(NotPut)
  PROVE  PutLast(x)
<1>1. ASSUME NEW i \in 1..Len(x) PROVE x[i].k # "PUT"
  <2>1. x[i] \in NotPut
    BY ElementOfSeq
  <2>. QED BY <2>1 DEF NotPut
<1>. QED BY <1>1 DEF PutLast

(* The request of an upload goes out.                                      *)
LEMMA RequestType ==
  ASSUME NEW v \in Version, NEW a \in {"good", "bad", "short"}
  PROVE  /\ Request(v, a) \in Seq(Written) /\ Len(Request(v, a)) = 4
         /\ Request(v, a)[1] = Put(FileOf(v))
         /\ \A n \in 2..4 : Request(v, a)[n] \in Closing /\ Request(v, a)[n].k # "PUT"
<1>1. FileOf(v) \in File
  BY ChannelAssumption
<1>2. Put(FileOf(v)) \in Written /\ Newline \in Written /\ Auth(a) \in Written
  BY <1>1, TokensWritten
<1>3. Newline \in Closing /\ Auth(a) \in Closing
  BY DEF Closing
<1>4. Newline.k # "PUT" /\ Auth(a).k # "PUT"
  BY DEF Newline, Auth
<1>. DEFINE p == Put(FileOf(v))
            o == Auth(a)
            l == Newline
<1>. HIDE DEF p, o, l
<1>. DEFINE c == <<p, l>>
            d == <<o, l>>
<1>5. Request(v, a) = c \o d
  BY DEF Request, TextLine, p, o, l
<1>6. /\ c \in Seq(Written) /\ Len(c) = 2 /\ c[1] = p /\ c[2] = l
      /\ d \in Seq(Written) /\ Len(d) = 2 /\ d[1] = o /\ d[2] = l
  BY <1>2 DEF p, o, l
<1>. HIDE DEF c, d
<1>7. /\ c \o d \in Seq(Written) /\ Len(c \o d) = 4
      /\ \A i \in 1..4 : (c \o d)[i] = IF i <= 2 THEN c[i] ELSE d[i - 2]
  <2>1. /\ c \o d \in Seq(Written) /\ Len(c \o d) = Len(c) + Len(d)
        /\ \A i \in 1..(Len(c) + Len(d)) : (c \o d)[i] = IF i <= Len(c) THEN c[i] ELSE d[i - Len(c)]
    BY <1>6, ConcatProperties
  <2>. QED BY <1>6, <2>1
<1>8. /\ (c \o d)[1] = p /\ (c \o d)[2] = l /\ (c \o d)[3] = o /\ (c \o d)[4] = l
  BY <1>6, <1>7
<1>9. \A n \in 2..4 : n = 2 \/ n = 3 \/ n = 4
  OBVIOUS
<1>. QED BY <1>3, <1>4, <1>5, <1>7, <1>8, <1>9 DEF p, o, l

LEMMA RequestSent ==
  ASSUME NEW x \in Seq(NotPut), NEW v \in Version, NEW a \in {"good", "bad", "short"},
         NEW y, y = x \o Request(v, a)
  PROVE  PutLast(y) /\ \A i \in 1..Len(y) : y[i].k = "PUT" => y[i].f = FileOf(v)
<1> DEFINE h == Request(v, a)
           n == Len(x)
<1>1. /\ h \in Seq(Written) /\ Len(h) = 4 /\ h[1] = Put(FileOf(v))
      /\ \A i \in 2..4 : h[i] \in Closing /\ h[i].k # "PUT"
  BY RequestType
<1>2. x \in Seq(Written)
  BY NotPutWritten
<1>. HIDE DEF h
<1>3. /\ n \in Nat /\ Len(y) = n + 4
      /\ \A i \in 1..(n + 4) : y[i] = IF i <= n THEN x[i] ELSE h[i - n]
  <2>1. y = x \o h
    BY DEF h
  <2>. HIDE DEF n
  <2>2. /\ Len(x) \in Nat /\ Len(x \o h) = Len(x) + Len(h)
        /\ \A i \in 1..(Len(x) + Len(h)) : (x \o h)[i] = IF i <= Len(x) THEN x[i] ELSE h[i - Len(x)]
    BY <1>1, <1>2, ConcatProperties, LenProperties
  <2>. QED BY <1>1, <2>1, <2>2 DEF n
<1>4. ASSUME NEW i \in 1..n PROVE x[i].k # "PUT"
  <2>1. x[i] \in NotPut
    BY ElementOfSeq
  <2>. QED BY <2>1 DEF NotPut
<1>. HIDE DEF n
<1>5. ASSUME NEW i \in 1..Len(y), y[i].k = "PUT" PROVE i = n + 1 /\ y[i] = Put(FileOf(v))
  <2>1. ~(i <= n)
    BY <1>3, <1>4, <1>5
  <2>2. i - n \in 1..4 /\ y[i] = h[i - n]
    BY <1>3, <2>1
  <2>3. ~(i - n \in 2..4)
    BY <1>1, <1>5, <2>2
  <2>4. i - n = 1
    BY <1>3, <2>2, <2>3
  <2>. QED BY <1>1, <1>3, <2>2, <2>4
<1>6. ASSUME NEW i \in 1..Len(y), y[i].k = "PUT"
      PROVE  Len(y) <= i + 3 /\ \A j \in (i + 1)..Len(y) : y[j] \in Closing
  <2>1. i = n + 1
    BY <1>5, <1>6
  <2>2. ASSUME NEW j \in (i + 1)..Len(y) PROVE y[j] \in Closing
    <3>1. j \in 1..(n + 4) /\ ~(j <= n) /\ j - n \in 2..4
      BY <1>3, <2>1
    <3>2. y[j] = h[j - n]
      BY <1>3, <3>1
    <3>. QED BY <1>1, <3>1, <3>2
  <2>. QED BY <1>3, <2>1, <2>2
<1>7. ASSUME NEW i \in 1..Len(y), y[i].k = "PUT" PROVE y[i].f = FileOf(v)
  BY <1>5, <1>7 DEF Put
<1>. QED BY <1>6, <1>7, Zenon DEF PutLast

(* What is on its way stays so when more of the buffer is sent.            *)
LEMMA SendsOn ==
  ASSUME NEW out \in Seq(Seq(Written)), out # <<>>, NEW k, k.out = out, k.loop, NEW k2,
         k2.out = Tail(out), k2.cb = k.cb, k2.wcb = k.wcb, k2.loop = ~(k.wcb /\ Tail(out) = <<>>),
         NEW w \in Seq(Written), NEW open \in {TRUE}, NEW e \in Seq(Written), OnItsWay(k, w, open, e)
  PROVE  OnItsWay(k2, w \o Head(out), open, e)
<1> DEFINE h == Head(out)
           B == Buffered(Tail(out))
<1>1. /\ h \in Seq(Written) /\ Tail(out) \in Seq(Seq(Written)) /\ Len(Tail(out)) = Len(out) - 1
      /\ Len(out) \in Nat
  BY HeadTailProperties, LenProperties
<1>2. B \in Seq(Written) /\ (Tail(out) = <<>> => B = <<>>)
  <2>1. Len(Tail(out)) = 0 => B = <<>>
    BY <1>1, BufferedLengths, Zenon
  <2>2. B \in Seq(Written)
    BY <1>1, BufferedLengths, Zenon
  <2>. QED BY <1>1, <2>1, <2>2, EmptySeq
<1>. HIDE DEF h, B
<1>3. /\ Agrees(w, e) /\ (Len(w) >= Len(e) \/ (Sends(k) /\ w \o Buffered(out) = e))
  BY Zenon DEF OnItsWay
<1>4. /\ w \o h \in Seq(Written) /\ Len(w \o h) = Len(w) + Len(h)
      /\ \A i \in 1..(Len(w) + Len(h)) : (w \o h)[i] = IF i <= Len(w) THEN w[i] ELSE h[i - Len(w)]
      /\ Len(w) \in Nat /\ Len(h) \in Nat /\ Len(e) \in Nat
  BY <1>1, ConcatProperties, LenProperties
<1>0. (w \o h) \o B = w \o (h \o B)
  BY <1>1, <1>2, WrittenJoined, Zenon
<1>5. CASE Len(w) >= Len(e)
  <2>1. Len(w \o h) >= Len(e)
    BY <1>4, <1>5
  <2>2. ASSUME NEW i \in 1..Len(w \o h), i <= Len(e) PROVE (w \o h)[i] = e[i]
    <3>1. i \in 1..Len(w) /\ i \in 1..(Len(w) + Len(h)) /\ i <= Len(w)
      BY <1>4, <1>5, <2>2
    <3>2. w[i] = e[i]
      BY <1>3, <2>2, <3>1, Zenon DEF Agrees
    <3>. QED BY <1>4, <3>1, <3>2
  <2>. QED BY <2>1, <2>2, Zenon DEF OnItsWay, Agrees, h
<1>6. CASE Sends(k) /\ w \o Buffered(out) = e
  <2>1. Len(out) <= 4 /\ k.wcb /\ k.cb = "none"
    BY <1>6 DEF Sends
  <2>2. Buffered(out) = h \o B
    BY <2>1, BufferedTail, Zenon DEF h, B
  <2>3. (w \o h) \o B = e
    BY <1>0, <1>6, <2>2
  <2>. DEFINE t == w \o h
  <2>4. t \in Seq(Written) /\ t \o B = e
    BY <1>4, <2>3
  <2>. HIDE DEF t
  <2>5. /\ Len(t) \in Nat /\ Len(B) \in Nat /\ Len(t \o B) = Len(t) + Len(B)
        /\ \A i \in 1..(Len(t) + Len(B)) : (t \o B)[i] = IF i <= Len(t) THEN t[i] ELSE B[i - Len(t)]
    BY <1>2, <2>4, ConcatProperties, LenProperties, SMTT(60)
  <2>6. Agrees(t, e)
    <3>1. ASSUME NEW i \in 1..Len(t) PROVE t[i] = e[i]
      <4>1. i \in 1..(Len(t) + Len(B)) /\ i <= Len(t)
        BY <2>5
      <4>. QED BY <2>4, <2>5, <4>1
    <3>. QED BY <3>1 DEF Agrees
  <2>7. Len(t) >= Len(e) \/ (Sends(k2) /\ t \o B = e)
    <3>1. CASE Tail(out) = <<>>
      <4>1. B = <<>> /\ t \o B = t
        BY <1>2, <2>4, <3>1, ConcatEmptySeq
      <4>2. Len(t) >= Len(e)
        BY <2>4, <2>5, <4>1
      <4>. QED BY <4>2
    <3>2. CASE Tail(out) # <<>>
      <4>1. Len(k2.out) <= 4
        BY <1>1, <2>1
      <4>2. Sends(k2)
        BY <2>1, <3>2, <4>1 DEF Sends
      <4>. QED BY <2>4, <4>2
    <3>. QED BY <3>1, <3>2
  <2>8. OnItsWay(k2, t, open, e)
    BY <2>6, <2>7, Zenon DEF OnItsWay, B
  <2>. QED BY <2>8 DEF t, h
<1>. QED BY <1>3, <1>5, <1>6

(* One write of the client, to a server that is there.                     *)
WritesOut(k, k2) ==
  /\ k.loop /\ k.out # <<>> /\ k2.out = Tail(k.out) /\ k2.loop = ~(k.wcb /\ Tail(k.out) = <<>>)
  /\ k2.cb = k.cb /\ k2.wcb = k.wcb /\ k2.version = k.version /\ k2.inp = k.inp

LEMMA ReceivesOn ==
  ASSUME NEW s \in Server, NEW U, U \subseteq Version, NEW q, NEW k, NEW k2, NEW w, NEW y, NEW open,
         Receives(s, q, k, w, open, U),
         \A e \in Seq(Written) : OnItsWay(k, w, open, e) => OnItsWay(k2, y, open, e)
  PROVE  Receives(s, q, k2, y, open, U)
<1>1. SameUpload(q, q) /\ U \subseteq U
  BY SameSelf
<1>. QED BY <1>1, ReceivesKept

LEMMA WriteReceives ==
  ASSUME NEW s \in Server, NEW U, U \subseteq Version, NEW q, NEW k, k.out \in Seq(Seq(Written)), NEW k2,
         WritesOut(k, k2), NEW w \in Seq(Written), NEW open \in {TRUE}, Receives(s, q, k, w, open, U)
  PROVE  Receives(s, q, k2, w \o Head(k.out), open, U)
<1>. DEFINE y == w \o Head(k.out)
<1>1. ASSUME NEW e \in Seq(Written), OnItsWay(k, w, open, e) PROVE OnItsWay(k2, y, open, e)
  <2>. DEFINE out == k.out
  <2>1. /\ out \in Seq(Seq(Written)) /\ out # <<>> /\ k.out = out /\ k.loop
        /\ k2.out = Tail(out) /\ k2.cb = k.cb /\ k2.wcb = k.wcb /\ k2.loop = ~(k.wcb /\ Tail(out) = <<>>)
    BY Zenon DEF WritesOut
  <2>. HIDE DEF out
  <2>2. OnItsWay(k2, w \o Head(out), open, e)
    BY <1>1, <2>1, SendsOn, Zenon
  <2>. QED BY <2>2 DEF out
<1>. HIDE DEF y
<1>3. \A e \in Seq(Written) : OnItsWay(k, w, open, e) => OnItsWay(k2, y, open, e)
  BY <1>1
<1>5. Receives(s, q, k2, y, open, U)
  BY <1>3, ReceivesOn
<1>. QED BY <1>5 DEF y

LEMMA WriteTalks ==
  ASSUME NEW q, NEW k, NEW k2, WritesOut(k, k2), NEW x, NEW r, Talks(q, k, x, r)
  PROVE  Talks(q, k2, x \o Head(k.out), r) /\ PutLast(x \o Head(k.out))
<1>1. /\ x \in Seq(NotPut) /\ k.out \in Seq(Seq(NotPut)) /\ NoReady(q, r)
  BY Zenon DEF Talks
<1>2. k.out # <<>> /\ k2.out = Tail(k.out)
  BY Zenon DEF WritesOut
<1>3. Head(k.out) \in Seq(NotPut) /\ k2.out \in Seq(Seq(NotPut))
  BY <1>1, <1>2, HeadTailProperties
<1>4. x \o Head(k.out) \in Seq(NotPut)
  BY <1>1, <1>3, ConcatProperties
<1>. QED BY <1>1, <1>3, <1>4, CalmPutLast, Zenon DEF Talks

LEMMA WriteAsks ==
  ASSUME NEW q, NEW k, k.out \in Seq(Seq(Written)), NEW k2, WritesOut(k, k2), NEW x, NEW r, Asks(q, k, x, r)
  PROVE  Asks(q, k2, x \o Head(k.out), r) /\ PutLast(x \o Head(k.out))
<1> DEFINE out == k.out
           v   == k.version
           h   == Head(out)
<1>1. /\ out \in Seq(Seq(Written)) /\ out # <<>> /\ k2.out = Tail(out) /\ k2.version = v /\ k2.cb = k.cb
      /\ k2.wcb = k.wcb /\ k2.loop = ~(k.wcb /\ Tail(out) = <<>>)
  BY Zenon DEF WritesOut
<1>2. InPut(k) /\ v \in Version /\ NoReady(q, r) /\ (Asking(k, x) \/ Asked(k, x))
  BY Zenon DEF Asks
<1>3. InPut(k2)
  BY <1>1, <1>2, Zenon DEF InPut
<1>4. /\ x \in Seq(NotPut) /\ \A n \in 1..(Len(out) - 1) : out[n] \in Seq(NotPut)
      /\ \E a \in {"good", "bad", "short"} : out[Len(out)] = Request(v, a)
  BY <1>1, <1>2, Zenon DEF Asking, Asked
<1>. HIDE DEF out, v, h
<1>5. /\ Len(out) \in Nat \ {0} /\ h = out[1] /\ Tail(out) \in Seq(Seq(Written))
      /\ Len(Tail(out)) = Len(out) - 1 /\ \A i \in 1..(Len(out) - 1) : Tail(out)[i] = out[i + 1]
  <2>1. Len(out) \in Nat /\ Len(out) # 0
    BY <1>1, EmptySeq, LenProperties
  <2>2. h = out[1] /\ Tail(out) \in Seq(Seq(Written))
    BY <1>1, HeadTailProperties DEF h
  <2>3. Len(Tail(out)) = Len(out) - 1 /\ \A i \in 1..(Len(out) - 1) : Tail(out)[i] = out[i + 1]
    BY <1>1, HeadTailProperties
  <2>. QED BY <2>1, <2>2, <2>3
<1>6. CASE Len(out) = 1
  <2>1. PICK a \in {"good", "bad", "short"} : h = Request(v, a)
    BY <1>4, <1>5, <1>6
  <2>2. k2.out = <<>>
    <3>1. Tail(out) \in Seq(Seq(Written)) /\ Len(Tail(out)) = 0
      BY <1>5, <1>6
    <3>2. Tail(out) = <<>>
      BY <3>1, EmptySeq, Zenon
    <3>. QED BY <1>1, <3>2
  <2>. DEFINE y == x \o h
  <2>3. y = x \o Request(v, a)
    BY <2>1
  <2>. HIDE DEF y
  <2>4. PutLast(y) /\ \A i \in 1..Len(y) : y[i].k = "PUT" => y[i].f = FileOf(v)
    BY <1>2, <1>4, <2>3, RequestSent, Zenon
  <2>5. Asked(k2, y)
    BY <1>1, <2>2, <2>4, Zenon DEF Asked
  <2>6. Asks(q, k2, y, r)
    BY <1>1, <1>2, <1>3, <2>5, Zenon DEF Asks
  <2>. QED BY <2>4, <2>6 DEF y, h, out
<1>7. CASE Len(out) # 1
  <2>1. 1 \in 1..(Len(out) - 1)
    BY <1>5, <1>7
  <2>2. h \in Seq(NotPut)
    BY <1>4, <1>5, <2>1
  <2>3. x \o h \in Seq(NotPut)
    BY <1>4, <2>2, ConcatProperties
  <2>. DEFINE t == Tail(out)
  <2>4. /\ Len(t) = Len(out) - 1 /\ t # <<>> /\ t[Len(t)] = out[Len(out)]
        /\ \A n \in 1..(Len(t) - 1) : t[n] \in Seq(NotPut)
    <3>1. Len(t) = Len(out) - 1 /\ t \in Seq(Seq(Written)) /\ \A i \in 1..(Len(out) - 1) : t[i] = out[i + 1]
      BY <1>5
    <3>. HIDE DEF t
    <3>2. t # <<>>
      BY <1>5, <1>7, <3>1, EmptySeq
    <3>3. t[Len(t)] = out[Len(out)]
      <4>1. Len(t) \in 1..(Len(out) - 1) /\ Len(t) + 1 = Len(out)
        BY <1>5, <1>7, <3>1
      <4>2. t[Len(t)] = out[Len(t) + 1]
        BY <3>1, <4>1, Zenon
      <4>. QED BY <4>1, <4>2
    <3>4. ASSUME NEW n \in 1..(Len(t) - 1) PROVE t[n] \in Seq(NotPut)
      <4>1. n + 1 \in 1..(Len(out) - 1) /\ n \in 1..(Len(out) - 1)
        BY <1>5, <3>1
      <4>. QED BY <1>4, <3>1, <4>1
    <3>. QED BY <3>1, <3>2, <3>3, <3>4
  <2>. HIDE DEF t
  <2>5. k2.out = t
    BY <1>1 DEF t
  <2>6. Asking(k2, x \o h)
    BY <1>1, <1>4, <2>3, <2>4, <2>5, Zenon DEF Asking
  <2>7. Asks(q, k2, x \o h, r)
    BY <1>1, <1>2, <1>3, <2>6, Zenon DEF Asks
  <2>. QED BY <2>3, <2>7, CalmPutLast DEF h, out
<1>. QED BY <1>6, <1>7

LEMMA WriteKept ==
  ASSUME NEW s \in Server, NEW U, U \subseteq Version, NEW q, q.inp \in Seq(Written),
         NEW k, k.out \in Seq(Seq(Written)), NEW k2, WritesOut(k, k2), NEW w \in Seq(Written), NEW b,
         NEW open \in {TRUE}, Protocol(s, q, k, w, b, open, U)
  PROVE  Protocol(s, q, k2, w \o Head(k.out), b, open, U)
<1> DEFINE h == Head(k.out)
<1>1. /\ ServerPhase(s, q, k, w, open, U) /\ ClientPhase(q, k, w, b, open)
      /\ k.cb = "put" => k.version \in U
  BY Zenon DEF Protocol
<1>2. k.out # <<>> /\ k2.inp = k.inp /\ (k2.cb = "put" => k2.version \in U)
  BY <1>1, Zenon DEF WritesOut
<1>3. ~Waits(q, k, w, open) /\ ~Answered(q, k, w, k.inp \o b)
  BY <1>2, Zenon DEF Waits, Answered
<1>4. h \in Seq(Written)
  BY <1>2, HeadTailProperties
<1>5. Receives(s, q, k, w, open, U) => Receives(s, q, k2, w \o h, open, U)
  BY WriteReceives
<1>. HIDE DEF h
<1>6. ServerPhase(s, q, k2, w \o h, open, U)
  BY <1>1, <1>3, <1>5, Zenon DEF ServerPhase
<1>. DEFINE i == q.inp
            r == k.inp \o b
<1>7. i \in Seq(Written)
  OBVIOUS
<1>. HIDE DEF i
<1>8. (i \o w) \o h = i \o (w \o h)
  BY <1>4, <1>7, WrittenJoined, Zenon
<1>. DEFINE x == i \o w
<1>9. Talks(q, k, x, r) \/ Asks(q, k, x, r)
  BY <1>1, <1>3, Zenon DEF ClientPhase, i
<1>. HIDE DEF r, x
<1>10. (Talks(q, k2, x \o h, r) \/ Asks(q, k2, x \o h, r)) /\ PutLast(x \o h)
  BY <1>9, WriteTalks, WriteAsks, Zenon DEF h
<1>11. ClientPhase(q, k2, w \o h, b, open) /\ PutLast(i \o (w \o h))
  <2>1. /\ Talks(q, k2, i \o (w \o h), k2.inp \o b) \/ Asks(q, k2, i \o (w \o h), k2.inp \o b)
        /\ PutLast(i \o (w \o h))
    BY <1>2, <1>8, <1>10 DEF r, x
  <2>. QED BY <2>1, Zenon DEF ClientPhase, i
<1>. QED BY <1>2, <1>6, <1>11, Zenon DEF Protocol, i, h

(* A request is put into the output buffer, or the bare answers change     *)
(* nothing: the command before it has left the loop.                       *)
Requests(k2, d) ==
  \/ d \in Seq(NotPut)
  \/ InPut(k2) /\ k2.version \in Version /\ \E a \in {"good", "bad", "short"} : d = Request(k2.version, a)

LEMMA RequestKept ==
  ASSUME NEW s \in Server, NEW U, U \subseteq Version, NEW U2, U \subseteq U2, NEW q,
         NEW k, ~k.loop, NEW k2, NEW d, Requests(k2, d), k2.out = Append(k.out, d), k2.inp = k.inp,
         NEW w, NEW b, NEW open, Protocol(s, q, k, w, b, open, U), k2.cb = "put" => k2.version \in U2
  PROVE  Protocol(s, q, k2, w, b, open, U2)
<1>1. /\ ServerPhase(s, q, k, w, open, U) /\ ClientPhase(q, k, w, b, open) /\ PutLast(q.inp \o w)
  BY Zenon DEF Protocol
<1>2. ~InPut(k) /\ ~Sends(k)
  BY Zenon DEF InPut, Sends
<1>3. \A e \in Seq(Written) : OnItsWay(k, w, open, e) => OnItsWay(k2, w, open, e)
  BY <1>2, Zenon DEF OnItsWay
<1>4. Receives(s, q, k, w, open, U) => Receives(s, q, k2, w, open, U2)
  <2>1. SameUpload(q, q)
    BY SameSelf
  <2>. QED BY <1>3, <2>1, ReceivesKept
<1>5. Waits(q, k, w, open) => Waits(q, k2, w, open)
  BY <1>2, Zenon DEF Waits
<1>6. ServerPhase(s, q, k2, w, open, U2)
  BY <1>1, <1>4, <1>5, Zenon DEF ServerPhase
<1> DEFINE x == q.inp \o w
           r == k.inp \o b
<1>7. ClientPhase(q, k2, w, b, open)
  <2>1. open => Talks(q, k, x, r)
    BY <1>1, <1>2, Zenon DEF ClientPhase, Asks, Answered, Waits
  <2>2. r = k2.inp \o b
    OBVIOUS
  <2>. HIDE DEF x, r
  <2>3. ASSUME Talks(q, k, x, r) PROVE Talks(q, k2, x, r) \/ Asks(q, k2, x, r)
    <3>. DEFINE o == k.out
    <3>1. x \in Seq(NotPut) /\ o \in Seq(Seq(NotPut)) /\ NoReady(q, r) /\ k2.out = Append(o, d)
      BY <2>3, Zenon DEF Talks
    <3>. HIDE DEF o
    <3>2. CASE d \in Seq(NotPut)
      <4>1. Append(o, d) \in Seq(Seq(NotPut))
        BY <3>1, <3>2, AppendProperties
      <4>. QED BY <3>1, <4>1, Zenon DEF Talks
    <3>3. CASE /\ InPut(k2) /\ k2.version \in Version
               /\ \E a \in {"good", "bad", "short"} : d = Request(k2.version, a)
      <4>. DEFINE p == Append(o, d)
      <4>1. /\ p # <<>> /\ p[Len(p)] = d
            /\ \A n \in 1..(Len(p) - 1) : p[n] \in Seq(NotPut)
        <5>1. Len(p) = Len(o) + 1 /\ Len(o) \in Nat /\ p[Len(o) + 1] = d
          BY <3>1, SMT
        <5>2. \A n \in 1..Len(o) : p[n] = o[n] /\ o[n] \in Seq(NotPut)
          BY <3>1, SMT
        <5>3. p # <<>>
          BY <5>1, SMT
        <5>. HIDE DEF p
        <5>. QED BY <5>1, <5>2, <5>3
      <4>. HIDE DEF p
      <4>2. k2.out = p
        BY <3>1 DEF p
      <4>3. Asking(k2, x)
        BY <3>1, <3>3, <4>1, <4>2, Zenon DEF Asking
      <4>. QED BY <3>1, <3>3, <4>3, Zenon DEF Asks
    <3>. QED BY <3>2, <3>3, Zenon DEF Requests
  <2>. QED BY <2>1, <2>2, <2>3, Zenon DEF ClientPhase, x
<1>. QED BY <1>1, <1>6, <1>7, Zenon DEF Protocol

(* The answer the client has waited for: nothing follows it.               *)
LEMMA ReadyAlone ==
  ASSUME PlainFiles, NEW i \in Seq(Token), NEW y \in Seq(Token), HasLine(i), LineOf(i) = <<Ready>>, NEW q
  PROVE  /\ ~NoReady(q, i \o y)
         /\ ReadyLast(q, i \o y) => y = <<>> /\ AfterLine(i) = <<>> /\ q.out = <<>>
<1>1. /\ LineEnd(i) = 2 /\ 2 \in 1..Len(i) /\ i[1] = Ready
  <2>1. /\ LineEnd(i) \in 1..Len(i) /\ Len(LineOf(i)) = LineEnd(i) - 1
        /\ \A n \in 1..(LineEnd(i) - 1) : LineOf(i)[n] = i[n]
    BY LineElements
  <2>. DEFINE l == <<Ready>>
  <2>2. Len(l) = 1 /\ l[1] = Ready
    OBVIOUS
  <2>3. LineOf(i) = l
    OBVIOUS
  <2>. HIDE DEF l
  <2>. QED BY <2>1, <2>2, <2>3
<1> DEFINE x == i \o y
<1>2. /\ Len(i) \in Nat /\ Len(y) \in Nat /\ Len(x) = Len(i) + Len(y) /\ x \in Seq(Token)
      /\ \A n \in 1..(Len(i) + Len(y)) : x[n] = IF n <= Len(i) THEN i[n] ELSE y[n - Len(i)]
  BY ConcatProperties, LenProperties
<1>. HIDE DEF x
<1>3. 1 \in 1..Len(x) /\ x[1] = Ready
  <2>1. 1 \in 1..(Len(i) + Len(y)) /\ 1 <= Len(i) /\ 1 \in 1..Len(x)
    BY <1>1, <1>2
  <2>2. x[1] = IF 1 <= Len(i) THEN i[1] ELSE y[1 - Len(i)]
    BY <1>2, <2>1, Zenon
  <2>. QED BY <1>1, <2>1, <2>2, Zenon
<1>4. ~NoReady(q, x)
  <2>1. ASSUME NoReady(q, x) PROVE FALSE
    <3>1. x \in Seq(NotReady)
      BY <2>1, Zenon DEF NoReady
    <3>2. x[1] \in NotReady
      BY <1>3, <3>1, ElementOfSeq
    <3>. QED BY <1>3, <3>2 DEF NotReady
  <2>. QED BY <2>1
<1>5. ASSUME ReadyLast(q, x) PROVE y = <<>> /\ AfterLine(i) = <<>> /\ q.out = <<>>
  <2>1. 1 = Len(x) - 1 /\ q.out = <<>>
    BY <1>3, <1>5, Zenon DEF ReadyLast
  <2>. DEFINE m == Len(i)
              n == Len(y)
              l == Len(x)
  <2>6. m \in Nat /\ n \in Nat /\ 2 \in 1..m /\ l = m + n /\ 1 = l - 1
    BY <1>1, <1>2, <2>1
  <2>. HIDE DEF m, n, l
  <2>7. n = 0 /\ m = 2
    BY <2>6
  <2>2. Len(y) = 0 /\ Len(i) = 2
    BY <2>7 DEF m, n
  <2>3. y = <<>>
    BY <2>2, EmptySeq
  <2>4. AfterLine(i) = SubSeq(i, 3, 2)
    BY <1>1, <2>2 DEF AfterLine
  <2>5. SubSeq(i, 3, 2) = <<>>
    BY <2>2, SMT
  <2>. QED BY <2>1, <2>3, <2>4, <2>5
<1>. QED BY <1>4, <1>5 DEF x

LEMMA PartTextFull ==
  ASSUME NEW v \in Version, NEW p \in Part
  PROVE  PartText(v, p) \in Seq(NotPut) /\ PartText(v, p) # <<>>
<1> DEFINE h == HeaderLine(p, PartLength(Size(v), p))
           d == PartOf(v, p)
<1>1. PartText(v, p) = h \o d /\ h \in Seq(NotPut) /\ d \in Seq(NotPut) /\ PartText(v, p) \in Seq(NotPut)
  BY PartTextType
<1>2. Len(h) = 2
  BY DEF HeaderLine, TextLine
<1>. HIDE DEF h, d
<1>3. Len(h \o d) = Len(h) + Len(d) /\ Len(d) \in Nat
  <2>1. h \in Seq(NotPut) /\ d \in Seq(NotPut)
    BY <1>1
  <2>2. Len(h \o d) = Len(h) + Len(d)
    BY <2>1, ConcatProperties
  <2>. QED BY <2>1, <2>2, LenProperties
<1>4. Len(h \o d) # 0
  BY <1>2, <1>3
<1>5. h \o d # <<>>
  BY <1>4, EmptySeq
<1>. QED BY <1>1, <1>5

BeginsPut(c, k, k2) ==
  /\ k2.inp = <<>> /\ k2.cb = "none" /\ k2.wcb /\ k2.loop
  /\ k2.out = k.out \o Upload(c) /\ k2.version = k.version /\ k.version = con[c].version

LEMMA ReadyAnswered ==
  ASSUME NEW c \in Conn, NEW U, U \subseteq Version, NEW q, NEW k, k.version \in U, NEW k2, BeginsPut(c, k, k2),
         NEW w, NEW b, ~NoReady(q, k.inp \o b), ReadyLast(q, k.inp \o b) => q.out = <<>>,
         NEW open, Protocol(c[2], q, k, w, b, open, U)
  PROVE  open => Protocol(c[2], q, k2, w, <<>>, open, U)
<1>. SUFFICES ASSUME open PROVE Protocol(c[2], q, k2, w, <<>>, open, U)
  OBVIOUS
<1>0. /\ k2.inp = <<>> /\ k2.cb = "none" /\ k2.wcb /\ k2.loop
      /\ k2.out = k.out \o Upload(c) /\ k2.version = k.version /\ k.version = con[c].version
  BY DEF BeginsPut
<1>1. q.cb = "put" /\ q.inp = <<>> /\ Waits(q, k, w, TRUE) /\ ReadyLast(q, k.inp \o b)
  BY Zenon DEF Protocol, ClientPhase, Talks, Asks, Answered
<1>2. /\ q.putState \in {0, 2} /\ w = <<>> /\ k.out = <<>> /\ PathOf(k.version) = q.filename
  BY <1>1, Zenon DEF Waits
<1> DEFINE v == k.version
           p == First(v, c[2])
           m == PartText(v, Second(v, c[2]))
           d == Upload(c)
<1>3. v \in Version /\ v \in U /\ c[2] \in Server
  BY DEF Conn
<1>4. d \in Seq(Seq(NotPut)) /\ Len(d) <= 4 /\ Buffered(d) = PartText(v, p) \o m
  BY <1>0, <1>3, UploadBuffered
<1>5. p \in PartsOf(c[2], HashMod(v)) /\ m \in More(v, c[2]) /\ m # <<>> /\ PartText(v, p) \o m \in Seq(Written)
  <2>1. /\ First(v, c[2]) \in PartsOf(c[2], HashMod(v)) /\ Second(v, c[2]) \in PartsOf(c[2], HashMod(v))
        /\ First(v, c[2]) \in Part /\ Second(v, c[2]) \in Part
    BY <1>3, PartsOfServer
  <2>2. m \in More(v, c[2])
    BY <2>1 DEF More
  <2>3. PartText(v, p) \in Seq(NotPut) /\ m \in Seq(NotPut) /\ m # <<>>
    BY <1>3, <2>1, PartTextFull
  <2>4. PartText(v, p) \o m \in Seq(NotPut)
    BY <2>3, ConcatProperties
  <2>. QED BY <2>1, <2>2, <2>3, <2>4, NotPutWritten
<1>6. k2.out = d /\ k2.out \in Seq(Seq(NotPut))
  <2>1. <<>> \o d = d
    BY <1>4, ConcatEmptySeq
  <2>. QED BY <1>0, <1>2, <1>4, <2>1
<1>. HIDE DEF v, p, m, d
<1>7. Sends(k2) /\ <<>> \o Buffered(k2.out) = PartText(v, p) \o m
  <2>1. Sends(k2)
    BY <1>0, <1>4, <1>6, Zenon DEF Sends
  <2>2. Buffered(k2.out) = PartText(v, p) \o m
    BY <1>4, <1>6
  <2>3. <<>> \o (PartText(v, p) \o m) = PartText(v, p) \o m
    BY <1>5, ConcatEmptySeq
  <2>. QED BY <2>1, <2>2, <2>3
<1>8. Receives(c[2], q, k2, w, open, U)
  <2>1. Due(q, v, p, m) = PartText(v, p) \o m
    BY <1>2, Zenon DEF Due
  <2>2. Awaits(q, v, p, m)
    <3>1. q.putState \notin {1, 3}
      BY <1>2
    <3>. QED BY <1>5, <3>1, Zenon DEF Awaits
  <2>3. Agrees(<<>>, PartText(v, p) \o m)
    BY DEF Agrees
  <2>4. OnItsWay(k2, w, open, PartText(v, p) \o m)
    BY <1>2, <1>7, <2>3, Zenon DEF OnItsWay
  <2>5. PathOf(v) = q.filename
    BY <1>2 DEF v
  <2>. QED BY <1>3, <1>5, <2>1, <2>2, <2>4, <2>5, Zenon DEF Receives
<1>9. ServerPhase(c[2], q, k2, w, open, U)
  <2>1. q.cb # "read"
    BY <1>1
  <2>. QED BY <1>1, <1>8, <2>1, Zenon DEF ServerPhase
<1>10. q.inp \o w = <<>> /\ k2.inp \o <<>> = <<>>
  <2>1. <<>> \o <<>> = <<>>
    OBVIOUS
  <2>. QED BY <1>0, <1>1, <1>2, <2>1
<1>11. Talks(q, k2, <<>>, <<>>)
  <2>1. q.out = <<>>
    BY <1>1
  <2>2. <<>> \in Seq(NotReady) /\ <<>> \in Seq(NotPut)
    BY NotReadyTokens, EmptySeq
  <2>3. Silent(<<>>)
    BY DEF Silent
  <2>. QED BY <1>6, <2>1, <2>2, <2>3, Zenon DEF Talks, NoReady
<1>12. ClientPhase(q, k2, w, <<>>, open)
  BY <1>10, <1>11, Zenon DEF ClientPhase
<1>13. k2.cb # "put"
  BY <1>0
<1>. QED BY <1>9, <1>10, <1>12, <1>13, EmptyPutLast, Zenon DEF Protocol
-----------------------------------------------------------------------------
(* The steps of the system.  A step of a client's connection: k is what it *)
(* becomes.                                                                *)
Moves(c, k) ==
  /\ con[c].loop /\ con' = [con EXCEPT ![c] = k]
  /\ srv' = srv /\ disk' = disk /\ folder' = folder /\ put' = put
  /\ \A d \in Conn : d # c => c2s'[d] = c2s[d] /\ s2c'[d] = s2c[d] /\ net'[d] = net[d]
  /\ \A j \in Client : prog'[j].life = prog[j].life

LEMMA OneClient ==
  ASSUME TypeInv, UploadsInv, TornStays, NEW c \in Conn, NEW k, Moves(c, k), net'[c] = "open" => k.rd,
         Usable(c[2]) => Protocol(c[2], srv[c], k, c2s'[c].data, s2c'[c].data, net'[c] = "open", Ups)
  PROVE  UploadsInv'
<1>1. /\ con[c].loop /\ con' = [con EXCEPT ![c] = k]
      /\ srv' = srv /\ disk' = disk /\ folder' = folder /\ put' = put
      /\ \A d \in Conn : d # c => c2s'[d] = c2s[d] /\ s2c'[d] = s2c[d] /\ net'[d] = net[d]
      /\ \A j \in Client : prog'[j].life = prog[j].life
  BY Zenon DEF Moves
<1>2. Ups' = Ups
  BY <1>1, UpsKept
<1>3. DfsShape /\ Links(c) /\ UploadOn(c) /\ c[1] \in Client /\ \A d \in Conn : d[1] \in Client
  BY Zenon DEF TypeInv, UploadsInv, Conn
<1>4. con'[c] = k /\ \A d \in Conn : d # c => con'[d] = con[d]
  BY <1>1, <1>3, Zenon DEF DfsShape
<1>5. FoldersStay
  <2>1. ASSUME NEW t \in Server PROVE (folder[t] => folder'[t]) /\ (t \in Unwritable => ~folder'[t])
    BY <1>1, Zenon DEF UploadsInv
  <2>. QED BY <2>1, Zenon DEF FoldersStay
<1>6. ASSUME NEW d \in Conn, d # c PROVE Links(d)' /\ UploadOn(d)'
  <2>1. Aside(d) /\ prog'[d[1]].life = prog[d[1]].life
    BY <1>1, <1>3, <1>4, <1>6, Zenon DEF Aside
  <2>. QED BY <1>2, <1>5, <2>1, AsideKept, Zenon DEF UploadsInv
<1>7. UploadOn(c)'
  BY <1>1, <1>2, <1>3, <1>4, Zenon DEF UploadOn, Usable
<1>8. Links(c)'
  <2>1. prog[c[1]].life # "new"
    <3>1. con[c] # NewConnection
      BY <1>1, FreshCon
    <3>. QED BY <1>3, <3>1, Zenon DEF Links
  <2>2. prog'[c[1]].life # "new" /\ srv'[c] = srv[c]
    BY <1>1, <1>3, <2>1
  <2>. QED BY <1>3, <1>4, <2>2, Zenon DEF Links
<1>9. PartsAreRight'
  BY <1>1, <1>2, DisksStayRight, Zenon DEF UploadsInv
<1>10. \A s \in Unwritable : ~folder'[s]
  BY <1>1, Zenon DEF UploadsInv
<1>. QED BY <1>6, <1>7, <1>8, <1>9, <1>10, Zenon DEF UploadsInv

(* On a connection that is not there.                                      *)
LEMMA ClosedStep ==
  ASSUME TypeInv, UploadsInv, TornStays, NEW c \in Conn, NEW k, Moves(c, k), net'[c] # "open",
         c2s'[c].data = c2s[c].data, k.cb = "put" => con[c].cb = "put", k.version = con[c].version
  PROVE  UploadsInv'
<1>1. c[2] \in Server /\ FlowOK(c) /\ UploadOn(c)
  BY Zenon DEF TypeInv, UploadsInv, Conn
<1>2. Usable(c[2]) => Protocol(c[2], srv[c], k, c2s'[c].data, s2c'[c].data, net'[c] = "open", Ups)
  <2>. SUFFICES ASSUME Usable(c[2])
                PROVE  Protocol(c[2], srv[c], k, c2s'[c].data, s2c'[c].data, net'[c] = "open", Ups)
    OBVIOUS
  <2>. DEFINE q == srv[c]
              w == c2s[c].data
  <2>1. Protocol(c[2], q, con[c], w, s2c[c].data, net[c] = "open", Ups)
    BY <1>1, Zenon DEF UploadOn
  <2>2. q.inp \in Seq(Written) /\ w \in Seq(Written) /\ Ups \subseteq Version
    BY <1>1 DEF FlowOK, Connection, Pipe, Ups
  <2>3. k.cb = "put" => k.version \in Ups
    BY <2>1, Zenon DEF Protocol
  <2>. HIDE DEF q, w
  <2>4. PICK open : open = (net[c] = "open")
    OBVIOUS
  <2>5. PICK open2 : open2 = (net'[c] = "open")
    OBVIOUS
  <2>6. Protocol(c[2], q, con[c], w, s2c[c].data, open, Ups) /\ ~open2
    BY <2>1, <2>4, <2>5
  <2>7. w \in {w, <<>>} /\ Ups \subseteq Ups
    OBVIOUS
  <2>8. Protocol(c[2], q, k, w, s2c'[c].data, open2, Ups)
    BY <1>1, <2>2, <2>3, <2>6, <2>7, ClosedKept
  <2>. QED BY <2>5, <2>8 DEF q, w
<1>. QED BY <1>2, OneClient, Zenon

(* On an open connection.                                                  *)
LEMMA OpenStep ==
  ASSUME TypeInv, UploadsInv, TornStays, NEW c \in Conn, NEW k, Moves(c, k), net[c] = "open", net'[c] = net[c], k.rd,
         \A open \in {TRUE} : Protocol(c[2], srv[c], con[c], c2s[c].data, s2c[c].data, open, Ups)
                              => Protocol(c[2], srv[c], k, c2s'[c].data, s2c'[c].data, open, Ups)
  PROVE  UploadsInv'
<1>1. Usable(c[2]) => Protocol(c[2], srv[c], k, c2s'[c].data, s2c'[c].data, net'[c] = "open", Ups)
  <2>. SUFFICES ASSUME Usable(c[2])
                PROVE  Protocol(c[2], srv[c], k, c2s'[c].data, s2c'[c].data, net'[c] = "open", Ups)
    OBVIOUS
  <2>1. Protocol(c[2], srv[c], con[c], c2s[c].data, s2c[c].data, net[c] = "open", Ups)
    BY Zenon DEF UploadOn, UploadsInv
  <2>2. PICK open : open = (net[c] = "open")
    OBVIOUS
  <2>3. open \in {TRUE} /\ Protocol(c[2], srv[c], con[c], c2s[c].data, s2c[c].data, open, Ups)
    BY <2>1, <2>2
  <2>4. Protocol(c[2], srv[c], k, c2s'[c].data, s2c'[c].data, open, Ups)
    BY <2>3, Zenon
  <2>5. open = (net'[c] = "open")
    BY <2>2
  <2>. QED BY <2>4, <2>5
<1>. QED BY <1>1, OneClient, Zenon

(* What ends a loop or keeps it from sending comes with a lost connection. *)
LEMMA LoopStillUploads ==
  ASSUME TypeInv, UploadsInv, TornStays, NEW c \in Conn, UNCHANGED serverVars, put' = put,
         ConnectError(c) \/ ClientEof(c) \/ LoopExit(c)
  PROVE  UploadsInv'
<1>1. FlowOK(c) /\ DfsShape /\ Links(c)
  BY Zenon DEF TypeInv, UploadsInv
<1>2. PICK k : con' = [con EXCEPT ![c] = k] /\ k.cb = con[c].cb /\ k.version = con[c].version
  <2>1. CASE ConnectError(c)
    <3>. DEFINE k == [con[c] EXCEPT !.rd = FALSE, !.wr = FALSE]
    <3>1. con' = [con EXCEPT ![c].rd = FALSE, ![c].wr = FALSE]
      BY <2>1 DEF ConnectError
    <3>2. con' = [con EXCEPT ![c] = k]
      BY <1>1, <3>1 DEF DfsShape
    <3>3. k.cb = con[c].cb /\ k.version = con[c].version
      BY <1>1 DEF FlowOK, ClientConnection
    <3>. QED BY <3>2, <3>3, Zenon
  <2>2. CASE ClientEof(c)
    <3>. DEFINE k == [con[c] EXCEPT !.rd = FALSE, !.m_connected = FALSE]
    <3>1. con' = [con EXCEPT ![c].rd = FALSE, ![c].m_connected = FALSE]
      BY <2>2 DEF ClientEof
    <3>2. con' = [con EXCEPT ![c] = k]
      BY <1>1, <3>1 DEF DfsShape
    <3>3. k.cb = con[c].cb /\ k.version = con[c].version
      BY <1>1 DEF FlowOK, ClientConnection
    <3>. QED BY <3>2, <3>3, Zenon
  <2>3. CASE LoopExit(c)
    <3>. DEFINE k == [con[c] EXCEPT !.loop = FALSE]
    <3>1. con' = [con EXCEPT ![c].loop = FALSE]
      BY <2>3 DEF LoopExit
    <3>2. con' = [con EXCEPT ![c] = k]
      BY <1>1, <3>1 DEF DfsShape
    <3>3. k.cb = con[c].cb /\ k.version = con[c].version
      BY <1>1 DEF FlowOK, ClientConnection
    <3>. QED BY <3>2, <3>3, Zenon
  <2>. QED BY <2>1, <2>2, <2>3, Zenon
<1>3. /\ con[c].loop /\ c2s' = c2s /\ s2c' = s2c /\ prog' = prog
      /\ net' = [net EXCEPT ![c] = "refused"] \/ (net' = net /\ net[c] # "open")
  <2>1. ~con[c].rd => net[c] # "open"
    BY <1>1, Zenon DEF Links
  <2>. QED BY <2>1 DEF ConnectError, ClientEof, LoopExit, netVars
<1>4. net'[c] # "open" /\ \A d \in Conn : d # c => net'[d] = net[d]
  BY <1>1, <1>3 DEF DfsShape
<1>5. Moves(c, k)
  <2>1. srv' = srv /\ disk' = disk /\ folder' = folder
    BY DEF serverVars
  <2>. QED BY <1>2, <1>3, <1>4, <2>1, Zenon DEF Moves
<1>6. c2s'[c].data = c2s[c].data /\ (k.cb = "put" => con[c].cb = "put") /\ k.version = con[c].version
  BY <1>2, <1>3
<1>. QED BY <1>4, <1>5, <1>6, ClosedStep, Zenon

(* A client ends or is killed.                                             *)
LEMMA ClientDiesUploads ==
  ASSUME TypeInv, UploadsInv, TornStays, NEW k \in Client, NEW how \in {"gone", "killed"}, NEW unread,
         ClientDies(k, how, unread), UNCHANGED serverVars, put' = put
  PROVE  UploadsInv'
<1> DEFINE C == {k} \X Server
<1>1. Ups' = Ups /\ srv' = srv /\ disk' = disk /\ folder' = folder /\ DfsShape
  BY UpsKept DEF serverVars, TypeInv
<1>2. FoldersStay
  <2>1. ASSUME NEW t \in Server PROVE (folder[t] => folder'[t]) /\ (t \in Unwritable => ~folder'[t])
    BY <1>1, Zenon DEF UploadsInv
  <2>. QED BY <2>1, Zenon DEF FoldersStay
<1>3. ASSUME NEW c \in Conn, c \in C PROVE Links(c)' /\ UploadOn(c)'
  <2>1. /\ con'[c] = NewConnection
        /\ net'[c] = "none" \/ net'[c] = "closed" \/ net'[c] = "reset"
        /\ c2s'[c] = Empty \/ c2s'[c] = Ended(c2s[c]) \/ c2s'[c] = c2s[c]
    BY <1>3 DEF ClientDies, NetAfterDeath
  <2>2. Links(c) /\ UploadOn(c) /\ FlowOK(c) /\ srv'[c] = srv[c] /\ c[2] \in Server /\ c[1] = k
    BY <1>1, <1>3 DEF UploadsInv, TypeInv, Conn
  <2>3. net'[c] # "open"
    BY <2>1
  <2>4. c2s'[c].data = c2s[c].data \/ c2s'[c].data = <<>>
    <3>1. Ended(c2s[c]).data = c2s[c].data
      BY <2>2 DEF Ended, FlowOK, Pipe
    <3>2. Empty.data = <<>>
      BY DEF Empty
    <3>. QED BY <2>1, <3>1, <3>2
  <2>5. prog'[c[1]].life # "new"
    <3>1. prog' = [prog EXCEPT ![k] = [IdleProgram EXCEPT !.life = how]]
      BY Zenon DEF ClientDies
    <3>2. prog'[k] = [IdleProgram EXCEPT !.life = how]
      BY <1>1, <3>1, Zenon DEF DfsShape
    <3>3. [IdleProgram EXCEPT !.life = how].life = how
      BY DEF IdleProgram
    <3>4. how # "new"
      OBVIOUS
    <3>. QED BY <2>2, <3>2, <3>3, <3>4
  <2>6. Links(c)'
    BY <2>2, <2>3, <2>5, Zenon DEF Links
  <2>7. ASSUME Usable(c[2])
        PROVE  Protocol(c[2], srv[c], con'[c], c2s'[c].data, s2c'[c].data, net'[c] = "open", Ups)
    <3>. DEFINE q == srv[c]
                w == c2s[c].data
                w2 == c2s'[c].data
    <3>1. Protocol(c[2], q, con[c], w, s2c[c].data, net[c] = "open", Ups)
      BY <2>2, <2>7, Zenon DEF UploadOn
    <3>2. q.inp \in Seq(Written) /\ w \in Seq(Written) /\ Ups \subseteq Version
      BY <2>2 DEF FlowOK, Connection, Pipe, Ups
    <3>3. con'[c].cb # "put" /\ w2 \in {w, <<>>}
      BY <2>1, <2>4, FreshCon
    <3>. HIDE DEF q, w, w2
    <3>4. PICK open : open = (net[c] = "open")
      OBVIOUS
    <3>5. PICK open2 : open2 = (net'[c] = "open")
      OBVIOUS
    <3>6. Protocol(c[2], q, con[c], w, s2c[c].data, open, Ups) /\ ~open2 /\ Ups \subseteq Ups
      BY <2>3, <3>1, <3>4, <3>5
    <3>7. Protocol(c[2], q, con'[c], w2, s2c'[c].data, open2, Ups)
      BY <2>2, <3>2, <3>3, <3>6, ClosedKept
    <3>. QED BY <3>5, <3>7 DEF q, w2
  <2>8. UploadOn(c)'
    BY <1>1, <2>2, <2>7, Zenon DEF UploadOn, Usable
  <2>. QED BY <2>6, <2>8
<1>4. ASSUME NEW c \in Conn, c \notin C PROVE Links(c)' /\ UploadOn(c)'
  <2>1. c[1] # k /\ c[1] \in Client
    BY <1>4 DEF Conn
  <2>2. prog'[c[1]] = prog[c[1]]
    BY <1>1, <2>1, Zenon DEF ClientDies, DfsShape
  <2>3. Aside(c)
    BY <1>1, <1>4 DEF ClientDies, NetAfterDeath, Aside
  <2>. QED BY <1>1, <1>2, <2>2, <2>3, AsideKept, Zenon DEF UploadsInv
<1>5. PartsAreRight' /\ \A t \in Unwritable : ~folder'[t]
  BY <1>1, <1>2, DisksStayRight, Zenon DEF UploadsInv
<1>. QED BY <1>3, <1>4, <1>5, Zenon DEF UploadsInv

(* One write of a client.                                                  *)
LEMMA ClientWriteUploads ==
  ASSUME TypeInv, UploadsInv, TornStays, NEW c \in Conn, ClientWrite(c), UNCHANGED serverVars, put' = put
  PROVE  UploadsInv'
<1> DEFINE out  == con[c].out
           rest == Tail(out)
           on   == ~(con[c].wcb /\ rest = <<>>)
           q    == [con[c] EXCEPT !.out = rest, !.loop = on]
           qR   == [con[c] EXCEPT !.wr = FALSE]
<1>0. FlowOK(c) /\ DfsShape /\ Links(c) /\ c[2] \in Server /\ c[1] \in Client
  BY Zenon DEF TypeInv, UploadsInv, Conn
<1>1. out # <<>> /\ out \in Seq(Seq(Written)) /\ con[c].loop
  BY <1>0 DEF ClientWrite, FlowOK, ClientConnection
<1>2. CASE ClientDies(c[1], "killed", s2c)
  BY <1>0, <1>2, ClientDiesUploads
<1>3. CASE ~ClientDies(c[1], "killed", s2c)
  <2>. DEFINE wrote == con' = [con EXCEPT ![c].out = rest, ![c].loop = on]
  <2>1. /\ s2c' = s2c /\ prog' = prog
        /\ \/ /\ wrote /\ net[c] = "open" /\ net' = net
              /\ \E last : c2s' = [c2s EXCEPT ![c] = Sent(@, Head(out), last)]
           \/ wrote /\ net[c] # "open" /\ Swallowed(c) /\ c2s' = c2s
           \/ con' = [con EXCEPT ![c].wr = FALSE] /\ net[c] # "open" /\ net' = net /\ c2s' = c2s
    <3>1. "closed" # "open" /\ "reset" # "open"
      OBVIOUS
    <3>. QED BY <1>3, <3>1, Zenon DEF ClientWrite, netVars
  <2>2. /\ wrote => con' = [con EXCEPT ![c] = q]
        /\ con' = [con EXCEPT ![c].wr = FALSE] => con' = [con EXCEPT ![c] = qR]
    <3>. HIDE DEF rest, on
    <3>. QED BY <1>0 DEF DfsShape
  <2>3. /\ q.out = rest /\ q.loop = on /\ q.cb = con[c].cb /\ q.version = con[c].version
        /\ q.wcb = con[c].wcb /\ q.inp = con[c].inp /\ q.rd = con[c].rd
        /\ qR.cb = con[c].cb /\ qR.version = con[c].version
    <3>1. on \in BOOLEAN
      OBVIOUS
    <3>. HIDE DEF rest, on
    <3>. QED BY <1>0, <3>1 DEF FlowOK, ClientConnection
  <2>. HIDE DEF q, qR
  <2>4. srv' = srv /\ disk' = disk /\ folder' = folder
    BY DEF serverVars
  <2>5. CASE wrote /\ net[c] = "open" /\ net' = net /\ \E last : c2s' = [c2s EXCEPT ![c] = Sent(@, Head(out), last)]
    <3>1. PICK last : c2s' = [c2s EXCEPT ![c] = Sent(c2s[c], Head(out), last)]
      BY <2>5, Zenon
    <3>2. c2s'[c] = Sent(c2s[c], Head(out), last) /\ \A d \in Conn : d # c => c2s'[d] = c2s[d]
      BY <1>0, <3>1, Zenon DEF DfsShape
    <3>3. c2s'[c].data = c2s[c].data \o Head(out)
      <4>. DEFINE d == Head(out)
      <4>. HIDE DEF d, out
      <4>1. c2s'[c] = Sent(c2s[c], d, last)
        BY <3>2 DEF d
      <4>2. c2s'[c].data = c2s[c].data \o d
        BY <4>1 DEF Sent
      <4>. QED BY <4>2 DEF d
    <3>4. Moves(c, q)
      BY <1>1, <2>1, <2>2, <2>4, <2>5, <3>2, Zenon DEF Moves
    <3>5. q.rd
      BY <1>0, <2>3, <2>5, Zenon DEF Links
    <3>6. WritesOut(con[c], q)
      BY <1>1, <2>3, Zenon DEF WritesOut
    <3>7. ASSUME NEW open \in {TRUE}, Protocol(c[2], srv[c], con[c], c2s[c].data, s2c[c].data, open, Ups)
          PROVE  Protocol(c[2], srv[c], q, c2s'[c].data, s2c'[c].data, open, Ups)
      <4>. DEFINE i == srv[c].inp
                  w == c2s[c].data
      <4>1. i \in Seq(Written) /\ w \in Seq(Written) /\ Ups \subseteq Version /\ con[c].out \in Seq(Seq(Written))
        BY <1>0, <1>1 DEF FlowOK, Connection, Pipe, Ups
      <4>2. Protocol(c[2], srv[c], q, w \o Head(con[c].out), s2c[c].data, open, Ups)
        BY <1>0, <3>6, <3>7, <4>1, WriteKept
      <4>3. s2c'[c].data = s2c[c].data
        BY <2>1
      <4>. QED BY <3>3, <4>2, <4>3
    <3>8. net'[c] = net[c] /\ net[c] = "open"
      BY <2>5
    <3>. QED BY <3>4, <3>5, <3>7, <3>8, OpenStep, Zenon
  <2>6. CASE /\ wrote \/ con' = [con EXCEPT ![c].wr = FALSE]
             /\ net[c] # "open" /\ (net' = net \/ Swallowed(c)) /\ c2s' = c2s
    <3>1. PICK k : con' = [con EXCEPT ![c] = k] /\ k.cb = con[c].cb /\ k.version = con[c].version
      BY <2>2, <2>3, <2>6, Zenon
    <3>2. net'[c] # "open" /\ \A d \in Conn : d # c => net'[d] = net[d]
      BY <1>0, <2>6 DEF DfsShape, Swallowed
    <3>3. Moves(c, k)
      BY <1>1, <2>1, <2>4, <2>6, <3>1, <3>2, Zenon DEF Moves
    <3>4. c2s'[c].data = c2s[c].data /\ (k.cb = "put" => con[c].cb = "put")
      BY <2>6, <3>1
    <3>. QED BY <3>1, <3>2, <3>3, <3>4, ClosedStep, Zenon
  <2>. QED BY <2>1, <2>5, <2>6
<1>. QED BY <1>2, <1>3

(* What a callback leaves that sends nothing: less input, and what the     *)
(* upload is about stays.                                                  *)
Looks(q, k) ==
  /\ SameClient(q, k) /\ k.rd = q.rd /\ (k.cb = "put" => q.cb = "put")
  /\ k.inp \in Seq(Token) /\ \E a \in Seq(Token) : q.inp = a \o k.inp

LEMMA ToldTokens ==
  Told \subseteq Token /\ Seq(Told) \subseteq Seq(Token)
<1>1. Told \subseteq Token
  BY DEF Told
<1>. QED BY <1>1, SeqMonotonic

LEMMA DropLooks ==
  ASSUME NEW q, q.inp \in Seq(Told), NEW k, SameClient(q, k), k.rd = q.rd, k.cb = "put" => q.cb = "put",
         NEW n \in Nat, k.inp = Drop(q.inp, n)
  PROVE  Looks(q, k)
<1>. DEFINE b == q.inp
<1>1. b \in Seq(Token)
  BY ToldTokens
<1>2. k.inp = Drop(b, n)
  OBVIOUS
<1>. HIDE DEF b
<1>3. Take(b, n) \in Seq(Token) /\ Drop(b, n) \in Seq(Token) /\ Take(b, n) \o Drop(b, n) = b
  BY <1>1, TakeDropType, Split
<1>4. k.inp \in Seq(Token) /\ \E a \in Seq(Token) : b = a \o k.inp
  BY <1>2, <1>3
<1>. QED BY <1>4, Zenon DEF Looks, b

LEMMA SelfLooks ==
  ASSUME NEW q, q.inp \in Seq(Told)
  PROVE  Looks(q, q)
<1>. DEFINE b == q.inp
<1>1. b \in Seq(Token) /\ <<>> \in Seq(Token)
  BY ToldTokens, EmptySeq
<1>. HIDE DEF b
<1>2. b = <<>> \o b
  BY <1>1, ConcatEmptySeq
<1>3. SameClient(q, q)
  BY Zenon DEF SameClient
<1>. QED BY <1>1, <1>2, <1>3, Zenon DEF Looks, b

(* callback_list and callback_get send nothing.                            *)
LEMMA ListLooks ==
  ASSUME TypeInv, NEW c \in Conn, NEW q \in ClientConnection, q.cb = "list", Connection_callback_list(c, q)
  PROVE  /\ \E k : con' = [con EXCEPT ![c] = k] /\ k.version = q.version /\ Looks(q, k)
         /\ prog' = prog
<1>1. PICK r \in ClientConnection :
        /\ con' = [con EXCEPT ![c] = r] /\ r.cb = "list"
        /\ \E n \in Nat, b \in BOOLEAN : r = [q EXCEPT !.inp = Drop(q.inp, n), !.loop = b]
  BY ListCallbackType, Zenon DEF ListTakes
<1>2. PICK n \in Nat, b \in BOOLEAN : r = [q EXCEPT !.inp = Drop(q.inp, n), !.loop = b]
  BY <1>1, Zenon
<1>. DEFINE x == Drop(q.inp, n)
<1>3. r = [q EXCEPT !.inp = x, !.loop = b]
  BY <1>2
<1>4. q.inp \in Seq(Told)
  BY DEF ClientConnection
<1>. HIDE DEF x
<1>5. r.inp = x /\ r.out = q.out /\ r.version = q.version /\ r.rd = q.rd
  BY <1>3 DEF ClientConnection
<1>6. SameClient(q, r)
  <2>1. "list" # "put" /\ "list" # "none"
    OBVIOUS
  <2>. QED BY <1>5, <2>1, Zenon DEF SameClient, InPut, Sends
<1>7. r.inp = Drop(q.inp, n) /\ (r.cb = "put" => q.cb = "put")
  BY <1>1, <1>5 DEF x
<1>8. Looks(q, r)
  BY <1>4, <1>5, <1>6, <1>7, DropLooks
<1>9. prog' = prog
  BY DEF Connection_callback_list
<1>. QED BY <1>1, <1>5, <1>8, <1>9, Zenon

LEMMA GetLooks ==
  ASSUME TypeInv, NEW c \in Conn, NEW q \in ClientConnection, q.cb = "get", con[c].loop, con[c].cb = "get",
         Connection_callback_get(c, q)
  PROVE  /\ \E k : con' = [con EXCEPT ![c] = k] /\ k.version = q.version /\ Looks(q, k)
         /\ \A j \in Client : prog'[j].life = prog[j].life
<1>1. prog[c[1]].cmd = "get" /\ DfsShape /\ c[1] \in Client
  <2>1. con[c].cb \in {"none", prog[c[1]].cmd} /\ DfsShape /\ c[1] \in Client
    BY Zenon DEF TypeInv, Linked, Conn
  <2>. QED BY <2>1
<1>2. PICK h \in GetRun(q) :
        /\ con' = [con EXCEPT ![c] = [h.q EXCEPT !.loop = (h.go # "break")]]
        /\ prog' = [prog EXCEPT ![c[1]].partnum = h.partnum, ![c[1]].size = h.size]
        /\ tmp' = [tmp EXCEPT ![c[1]][Path(prog[c[1]].file)] = h.tmp]
        /\ got' = [got EXCEPT ![c[1]][Path(prog[c[1]].file)] = h.got]
        /\ m_files' = m_files /\ shown' = shown
  BY <1>1, GetCallbackType
<1>. DEFINE g == h.q
            on == h.go # "break"
            k == [g EXCEPT !.loop = on]
<1>3. g \in Rest(q)
  BY DEF GetRun
<1>. HIDE DEF g
<1>4. /\ g \in ClientConnection /\ g = [q EXCEPT !.inp = g.inp, !.m_get_state = g.m_get_state]
      /\ \E d \in 0..Len(q.inp) : g.inp = Drop(q.inp, d)
  BY <1>3, Zenon DEF Rest
<1>5. PICK d \in 0..Len(q.inp) : g.inp = Drop(q.inp, d)
  BY <1>4
<1>6. q.inp \in Seq(Told) /\ d \in Nat
  <2>1. q.inp \in Seq(Told)
    BY DEF ClientConnection
  <2>. QED BY <2>1, LenProperties
<1>. DEFINE x == g.inp
            m == g.m_get_state
<1>7. g = [q EXCEPT !.inp = x, !.m_get_state = m]
  BY <1>4
<1>. HIDE DEF x, m
<1>8. g.inp = x /\ g.out = q.out /\ g.version = q.version /\ g.rd = q.rd /\ g.cb = "get"
  BY <1>7 DEF ClientConnection
<1>. HIDE DEF on
<1>9. k.inp = g.inp /\ k.out = q.out /\ k.version = q.version /\ k.rd = q.rd /\ k.cb = "get"
  BY <1>4, <1>8 DEF ClientConnection
<1>10. con' = [con EXCEPT ![c] = k]
  BY <1>2 DEF g, on
<1>. HIDE DEF k
<1>11. SameClient(q, k)
  <2>1. "get" # "put" /\ "get" # "none"
    OBVIOUS
  <2>. QED BY <1>9, <2>1, Zenon DEF SameClient, InPut, Sends
<1>12. k.inp = Drop(q.inp, d) /\ (k.cb = "put" => q.cb = "put")
  BY <1>5, <1>9
<1>13. Looks(q, k)
  BY <1>6, <1>9, <1>11, <1>12, DropLooks
<1>14. ASSUME NEW j \in Client PROVE prog'[j].life = prog[j].life
  <2>1. prog[j] \in Program
    BY Zenon DEF TypeInv, ProgramOK
  <2>. QED BY <1>1, <1>2, <2>1 DEF DfsShape, Program
<1>. QED BY <1>9, <1>10, <1>13, <1>14, Zenon

(* callback_put: the answer that was waited for starts the upload.         *)
Starts(c, q, k) ==
  /\ HasLine(q.inp) /\ LineOf(q.inp) = <<Ready>>
  /\ k.inp = AfterLine(q.inp) /\ k.cb = "none" /\ k.wcb /\ k.loop = q.loop /\ k.rd = q.rd
  /\ k.out = q.out \o Upload(c) /\ k.version = q.version

LEMMA PutStarts ==
  ASSUME PlainFiles, TypeInv, NEW c \in Conn, NEW q \in ClientConnection, q.cb = "put", Connection_callback_put(c, q)
  PROVE  /\ \E k : con' = [con EXCEPT ![c] = k] /\ k.version = q.version /\ (Looks(q, k) \/ Starts(c, q, k))
         /\ prog' = prog
<1>1. q.inp \in Seq(Told) /\ prog' = prog
  BY DEF ClientConnection, Connection_callback_put
<1>2. CASE ~HasLine(q.inp)
  <2>1. con' = [con EXCEPT ![c] = q]
    BY <1>2, Zenon DEF Connection_callback_put
  <2>2. Looks(q, q)
    BY <1>1, SelfLooks
  <2>. QED BY <1>1, <2>1, <2>2, Zenon
<1>3. CASE HasLine(q.inp)
  <2>. DEFINE rest == AfterLine(q.inp)
              n    == LineEnd(q.inp)
  <2>1. rest = Drop(q.inp, n) /\ n \in Nat
    <3>1. LineEnd(q.inp) \in 1..Len(q.inp)
      BY <1>1, <1>3, LineElements
    <3>. QED BY <3>1 DEF AfterLine, Drop
  <2>. HIDE DEF n
  <2>2. CASE LineOf(q.inp) # <<Ready>>
    <3>. DEFINE r == [q EXCEPT !.inp = rest, !.cb = "none"]
    <3>1. con' = [con EXCEPT ![c] = r]
      BY <1>3, <2>2, Zenon DEF Connection_callback_put
    <3>. HIDE DEF rest
    <3>2. /\ r.inp = rest /\ r.cb = "none" /\ r.out = q.out /\ r.version = q.version /\ r.rd = q.rd
          /\ r.loop = q.loop /\ r.wcb = q.wcb
      BY DEF ClientConnection
    <3>. HIDE DEF r
    <3>3. SameClient(q, r) /\ (r.cb = "put" => q.cb = "put")
      <4>1. "put" # "none" /\ r.cb \in {"put", "none"}
        BY <3>2
      <4>. QED BY <3>2, <4>1, Zenon DEF SameClient, InPut, Sends
    <3>4. r.inp = Drop(q.inp, n)
      BY <2>1, <3>2
    <3>5. Looks(q, r)
      BY <1>1, <2>1, <3>2, <3>3, <3>4, DropLooks
    <3>. QED BY <1>1, <3>1, <3>2, <3>5, Zenon
  <2>3. CASE LineOf(q.inp) = <<Ready>>
    <3>. DEFINE out == q.out \o Upload(c)
                r == [q EXCEPT !.inp = rest, !.cb = "none", !.wcb = TRUE, !.out = out]
    <3>1. con' = [con EXCEPT ![c] = r]
      BY <1>3, <2>3, Zenon DEF Connection_callback_put, Uploading
    <3>. HIDE DEF rest, out
    <3>2. /\ r.inp = rest /\ r.cb = "none" /\ r.out = out /\ r.version = q.version /\ r.rd = q.rd
          /\ r.loop = q.loop /\ r.wcb = TRUE
      BY DEF ClientConnection
    <3>. HIDE DEF r
    <3>3. Starts(c, q, r)
      BY <1>3, <2>3, <3>2, Zenon DEF Starts, rest, out
    <3>. QED BY <1>1, <3>1, <3>2, <3>3, Zenon
  <2>. QED BY <2>2, <2>3
<1>. QED BY <1>2, <1>3

LEMMA AnswerHere ==
  ASSUME NEW s, NEW q, NEW k, NEW w, NEW b, NEW open \in {TRUE}, NEW U, Protocol(s, q, k, w, b, open, U),
         ~NoReady(q, k.inp \o b)
  PROVE  ReadyLast(q, k.inp \o b)
BY Zenon DEF Protocol, ClientPhase, Talks, Asks, Answered

(* One read of a client and the callback that is set.                      *)
LEMMA ClientReadUploads ==
  ASSUME PlainFiles, TypeInv, UploadsInv, TornStays, NEW c \in Conn, ClientRead(c), UNCHANGED serverVars, put' = put
  PROVE  UploadsInv'
<1> DEFINE Joined(n) == [con[c] EXCEPT !.inp = @ \o Take(s2c[c].data, n)]
<1>0. FlowOK(c) /\ DfsShape /\ con[c].loop /\ Links(c) /\ c[2] \in Server
  BY Zenon DEF TypeInv, UploadsInv, ClientRead, Conn
<1>1. PICK n \in s2c[c].cuts : \E q \in {Joined(n)} :
        /\ s2c' = [s2c EXCEPT ![c] = Received(@, n)]
        /\ UNCHANGED <<c2s, net>>
        /\ \/ q.cb = "none" /\ con' = [con EXCEPT ![c] = q] /\ UNCHANGED <<prog, clientFiles>>
           \/ q.cb = "put" /\ Connection_callback_put(c, q)
           \/ q.cb = "list" /\ Connection_callback_list(c, q)
           \/ q.cb = "get" /\ Connection_callback_get(c, q)
  <2>. HIDE DEF Joined
  <2>. QED BY Zenon DEF ClientRead, Joined
<1>2. PICK q :
        /\ q = [con[c] EXCEPT !.inp = con[c].inp \o Take(s2c[c].data, n)]
        /\ s2c' = [s2c EXCEPT ![c] = Received(@, n)]
        /\ c2s' = c2s /\ net' = net
        /\ \/ q.cb = "none" /\ con' = [con EXCEPT ![c] = q] /\ UNCHANGED <<prog, clientFiles>>
           \/ q.cb = "put" /\ Connection_callback_put(c, q)
           \/ q.cb = "list" /\ Connection_callback_list(c, q)
           \/ q.cb = "get" /\ Connection_callback_get(c, q)
  BY <1>1
<1>. HIDE DEF Joined
<1>3. /\ q \in ClientConnection /\ q.cb = con[c].cb /\ q.version = con[c].version /\ q.out = con[c].out
      /\ q.inp = con[c].inp \o Take(s2c[c].data, n)
  BY <1>2, JoinedCon
<1>4. q.loop = con[c].loop /\ q.wcb = con[c].wcb /\ q.rd = con[c].rd
  <2>. DEFINE b == con[c].inp \o Take(s2c[c].data, n)
  <2>1. q = [con[c] EXCEPT !.inp = b]
    BY <1>2
  <2>. HIDE DEF b
  <2>. QED BY <1>0, <2>1 DEF FlowOK, ClientConnection
<1>5. PICK k :
        /\ con' = [con EXCEPT ![c] = k] /\ k.version = q.version
        /\ Looks(q, k) \/ (q.cb = "put" /\ Starts(c, q, k))
        /\ \A j \in Client : prog'[j].life = prog[j].life
  <2>1. CASE q.cb = "none" /\ con' = [con EXCEPT ![c] = q] /\ UNCHANGED <<prog, clientFiles>>
    <3>1. q.inp \in Seq(Told)
      BY <1>3 DEF ClientConnection
    <3>2. Looks(q, q)
      BY <3>1, SelfLooks
    <3>. QED BY <2>1, <3>2
  <2>2. CASE q.cb = "put" /\ Connection_callback_put(c, q)
    BY <1>3, <2>2, PutStarts
  <2>3. CASE q.cb = "list" /\ Connection_callback_list(c, q)
    BY <1>3, <2>3, ListLooks
  <2>4. CASE q.cb = "get" /\ Connection_callback_get(c, q)
    <3>1. con[c].cb = "get"
      BY <1>3, <2>4
    <3>. QED BY <1>0, <1>3, <2>4, <3>1, GetLooks
  <2>. QED BY <1>2, <2>1, <2>2, <2>3, <2>4
<1>6. Moves(c, k)
  <2>1. \A d \in Conn : d # c => s2c'[d] = s2c[d]
    BY <1>0, <1>2, Zenon DEF DfsShape
  <2>2. srv' = srv /\ disk' = disk /\ folder' = folder
    BY DEF serverVars
  <2>. QED BY <1>0, <1>2, <1>5, <2>1, <2>2, Zenon DEF Moves
<1>7. s2c'[c].data = Drop(s2c[c].data, n)
  <2>1. s2c'[c] = Received(s2c[c], n)
    BY <1>0, <1>2, Zenon DEF DfsShape
  <2>. QED BY <2>1 DEF Received
<1>8. k.rd = con[c].rd /\ (k.cb = "put" => con[c].cb = "put") /\ k.version = con[c].version
  BY <1>3, <1>4, <1>5 DEF Looks, Starts
<1>9. CASE net[c] # "open"
  <2>1. net'[c] # "open" /\ c2s'[c].data = c2s[c].data
    BY <1>2, <1>9
  <2>. QED BY <1>6, <1>8, <2>1, ClosedStep, Zenon
<1>10. CASE net[c] = "open"
  <2>. DEFINE b == s2c[c].data
              i == con[c].inp
  <2>1. b \in Seq(Token) /\ i \in Seq(Token) /\ n \in Nat /\ Ups \subseteq Version
    <3>1. b \in Seq(Told) /\ i \in Seq(Told) /\ n \in Nat
      BY <1>0 DEF FlowOK, Pipe, ClientConnection
    <3>. QED BY <3>1, ToldTokens DEF Ups
  <2>2. ASSUME NEW open \in {TRUE}, Protocol(c[2], srv[c], con[c], c2s[c].data, b, open, Ups)
        PROVE  Protocol(c[2], srv[c], k, c2s[c].data, Drop(b, n), open, Ups)
    <3>1. CASE Looks(q, k)
      <4>1. SameClient(con[c], k) /\ k.inp \in Seq(Token)
        BY <1>3, <1>4, <3>1, Zenon DEF Looks, SameClient, InPut, Sends
      <4>2. PICK a \in Seq(Token) : q.inp = a \o k.inp
        BY <3>1, Zenon DEF Looks
      <4>3. con[c].inp \o Take(b, n) = a \o k.inp /\ con[c].inp \in Seq(Token)
        BY <1>3, <2>1, <4>2
      <4>. HIDE DEF b, i
      <4>. QED BY <1>0, <1>8, <2>1, <2>2, <4>1, <4>3, ReadsOnly
    <3>2. CASE q.cb = "put" /\ Starts(c, q, k)
      <4>1. con[c].cb = "put" /\ con[c].version \in Ups
        BY <1>3, <2>2, <3>2, Zenon DEF Protocol
      <4>. DEFINE x == q.inp
                  y == Drop(b, n)
      <4>2. /\ x \in Seq(Token) /\ y \in Seq(Token) /\ x \o y = i \o b
        <5>1. Take(b, n) \in Seq(Token) /\ y \in Seq(Token) /\ Take(b, n) \o y = b
          BY <2>1, TakeDropType, Split
        <5>2. x = i \o Take(b, n)
          BY <1>3
        <5>. HIDE DEF x, y, i, b
        <5>3. (i \o Take(b, n)) \o y = i \o (Take(b, n) \o y)
          BY <2>1, <5>1, TokensJoined, Zenon
        <5>4. x \in Seq(Token)
          BY <2>1, <5>1, <5>2, ConcatProperties
        <5>. QED BY <5>1, <5>2, <5>3, <5>4
      <4>3. /\ HasLine(x) /\ LineOf(x) = <<Ready>> /\ k.inp = AfterLine(x) /\ k.cb = "none" /\ k.wcb
            /\ k.loop /\ k.out = con[c].out \o Upload(c) /\ k.version = con[c].version
        BY <1>0, <1>3, <1>4, <3>2, Zenon DEF Starts
      <4>. HIDE DEF x, y
      <4>4. /\ ~NoReady(srv[c], x \o y)
            /\ ReadyLast(srv[c], x \o y) => y = <<>> /\ AfterLine(x) = <<>> /\ srv[c].out = <<>>
        BY <4>2, <4>3, ReadyAlone
      <4>5. ~NoReady(srv[c], con[c].inp \o b)
        BY <4>2, <4>4
      <4>6. ReadyLast(srv[c], con[c].inp \o b)
        BY <2>2, <4>5, AnswerHere
      <4>7. y = <<>> /\ k.inp = <<>> /\ srv[c].out = <<>>
        BY <4>2, <4>3, <4>4, <4>6
      <4>8. Protocol(c[2], srv[c], k, c2s[c].data, <<>>, open, Ups)
        <5>1. ~NoReady(srv[c], con[c].inp \o b) /\ (ReadyLast(srv[c], con[c].inp \o b) => srv[c].out = <<>>)
          BY <4>5, <4>7
        <5>3. BeginsPut(c, con[c], k)
          BY <4>3, <4>7 DEF BeginsPut
        <5>2. open => Protocol(c[2], srv[c], k, c2s[c].data, <<>>, open, Ups)
          BY <2>1, <2>2, <4>1, <5>1, <5>3, ReadyAnswered, Zenon
        <5>. QED BY <5>2
      <4>. QED BY <4>7, <4>8 DEF y
    <3>. QED BY <1>5, <3>1, <3>2
  <2>3. ASSUME NEW open \in {TRUE}, Protocol(c[2], srv[c], con[c], c2s[c].data, s2c[c].data, open, Ups)
        PROVE  Protocol(c[2], srv[c], k, c2s'[c].data, s2c'[c].data, open, Ups)
    <3>1. c2s'[c].data = c2s[c].data
      BY <1>2
    <3>. QED BY <1>7, <2>2, <2>3, <3>1
  <2>4. net'[c] = net[c] /\ k.rd
    BY <1>0, <1>2, <1>8, <1>10, Zenon DEF Links
  <2>. QED BY <1>6, <1>10, <2>3, <2>4, OpenStep, Zenon
<1>. QED BY <1>9, <1>10

(* A step of a client's connection.                                        *)
LEMMA DispatchUploads ==
  ASSUME PlainFiles, TypeInv, UploadsInv, TornStays, NEW c \in Conn, Dispatch(c)
  PROVE  UploadsInv'
<1>1. LoopStep(c) /\ UNCHANGED serverVars /\ put' = put
  BY DEF Dispatch, userVars
<1>. QED BY <1>1, LoopStillUploads, ClientWriteUploads, ClientReadUploads, Zenon DEF LoopStep

-----------------------------------------------------------------------------
(* The commands.  Connection c, whose loop does not run, becomes k: a      *)
(* request is put into its output buffer.                                  *)
Issues(c, k, U) ==
  /\ con[c].m_connected /\ ~con[c].loop
  /\ k.inp = con[c].inp /\ k.rd = con[c].rd
  /\ k.cb = "put" => k.version \in U
  /\ \E d : Requests(k, d) /\ k.out = Append(con[c].out, d)

LEMMA CommandUploads ==
  ASSUME TypeInv, UploadsInv, TornStays, UNCHANGED serverVars, UNCHANGED netVars, Ups \subseteq Ups',
         \A j \in Client : prog'[j].life = prog[j].life,
         \A c \in Conn : con'[c] = con[c] \/ Issues(c, con'[c], Ups')
  PROVE  UploadsInv'
<1>1. /\ srv' = srv /\ disk' = disk /\ folder' = folder /\ DfsShape
      /\ c2s' = c2s /\ s2c' = s2c /\ net' = net
  BY DEF serverVars, netVars, TypeInv
<1>2. ASSUME NEW c \in Conn PROVE Links(c)' /\ UploadOn(c)'
  <2>1. /\ Links(c) /\ UploadOn(c) /\ FlowOK(c) /\ c[1] \in Client /\ c[2] \in Server
        /\ con'[c] = con[c] \/ Issues(c, con'[c], Ups')
    BY Zenon DEF UploadsInv, TypeInv, Conn
  <2>2. con[c] = NewConnection => con'[c] = con[c]
    <3>1. ~NewConnection.m_connected
      BY DEF NewConnection
    <3>. QED BY <2>1, <3>1, Zenon DEF Issues
  <2>3. con'[c].rd = con[c].rd
    BY <2>1, Zenon DEF Issues
  <2>4. Links(c)'
    <3>1. prog'[c[1]].life = prog[c[1]].life
      BY <2>1
    <3>2. /\ srv'[c] = srv[c] /\ net'[c] = net[c] /\ c2s'[c] = c2s[c] /\ s2c'[c] = s2c[c]
      BY <1>1
    <3>. QED BY <2>1, <2>2, <2>3, <3>1, <3>2, Zenon DEF Links
  <2>5. ASSUME Usable(c[2])
        PROVE  Protocol(c[2], srv[c], con'[c], c2s[c].data, s2c[c].data, net[c] = "open", Ups')
    <3>. DEFINE q == srv[c]
                w == c2s[c].data
    <3>1. PICK open : open = (net[c] = "open")
      OBVIOUS
    <3>2. PICK U : U = Ups
      OBVIOUS
    <3>3. PICK U2 : U2 = Ups'
      OBVIOUS
    <3>4. U \subseteq U2 /\ U \subseteq Version
      BY <3>2, <3>3 DEF Ups
    <3>5. Protocol(c[2], q, con[c], w, s2c[c].data, open, U)
      BY <2>1, <2>5, <3>1, <3>2 DEF UploadOn
    <3>. HIDE DEF q, w
    <3>6. Protocol(c[2], q, con'[c], w, s2c[c].data, open, U2)
      <4>1. CASE con'[c] = con[c]
        <5>1. Protocol(c[2], q, con[c], w, s2c[c].data, open, U2)
          BY <2>1, <3>4, <3>5, MoreUploads, Zenon
        <5>. QED BY <4>1, <5>1
      <4>2. CASE Issues(c, con'[c], Ups')
        <5>1. PICK d : Requests(con'[c], d) /\ con'[c].out = Append(con[c].out, d)
          BY <4>2, Zenon DEF Issues
        <5>2. ~con[c].loop /\ con'[c].inp = con[c].inp /\ (con'[c].cb = "put" => con'[c].version \in U2)
          BY <3>3, <4>2, Zenon DEF Issues
        <5>. QED BY <2>1, <3>4, <3>5, <5>1, <5>2, RequestKept, Zenon
      <4>. QED BY <2>1, <4>1, <4>2
    <3>. QED BY <3>1, <3>3, <3>6 DEF q, w
  <2>6. UploadOn(c)'
    BY <1>1, <2>1, <2>5, Zenon DEF UploadOn, Usable
  <2>. QED BY <2>4, <2>6
<1>3. PartsAreRight'
  BY <1>1, DisksStayRight, Zenon DEF UploadsInv
<1>4. \A t \in Unwritable : ~folder'[t]
  BY <1>1, Zenon DEF UploadsInv
<1>. QED BY <1>2, <1>3, <1>4, Zenon DEF UploadsInv

LEMMA RequestedOut ==
  ASSUME TypeInv, NEW c \in Conn, con[c].m_connected, NEW request, NEW cb \in {"put", "list", "get"},
         NEW q, q = Requested(c, request, cb)
  PROVE  /\ q.out = Append(con[c].out, TextLine(request) \o TextLine(Auth(prog[c[1]].auth)))
         /\ q.inp = con[c].inp /\ q.rd = con[c].rd /\ q.loop /\ ~q.wcb /\ q.cb = cb
         /\ prog[c[1]].auth \in {"good", "bad", "short"}
<1> DEFINE out == Append(con[c].out, TextLine(request) \o TextLine(Auth(prog[c[1]].auth)))
           w   == con[c].wr \/ net[c] = "refused"
<1>1. con[c] \in ClientConnection
  BY Zenon DEF TypeInv, FlowOK
<1>2. q = [con[c] EXCEPT !.out = out, !.cb = cb, !.wcb = FALSE, !.loop = TRUE, !.wr = w]
  BY Zenon DEF Requested
<1>. HIDE DEF out, w
<1>3. q.out = out /\ q.inp = con[c].inp /\ q.rd = con[c].rd /\ q.loop /\ ~q.wcb /\ q.cb = cb
  BY <1>1, <1>2 DEF ClientConnection
<1>4. prog[c[1]].auth \in {"good", "bad", "short"}
  <2>1. c[1] \in Client
    BY DEF Conn
  <2>. QED BY <2>1 DEF TypeInv, ProgramOK, Program
<1>. QED BY <1>3, <1>4 DEF out

LEMMA StartPutUploads ==
  ASSUME TypeInv, UploadsInv, TornStays, NEW k \in Client, NEW v \in Version, StartPut(k, v),
         UNCHANGED serverVars, Ups \subseteq Ups', v \in Ups'
  PROVE  UploadsInv'
<1> DEFINE Q(c) == Requested(c, Put(FileOf(v)), "put")
<1>0. DfsShape /\ prog[k].cmd = "none" /\ prog[k] \in Program /\ UNCHANGED netVars
  BY DEF TypeInv, ProgramOK, StartPut, Idle
<1>1. \A j \in Client : prog'[j].life = prog[j].life
  BY <1>0 DEF StartPut, DfsShape, Program
<1>2. ASSUME NEW c \in Conn PROVE con'[c] = con[c] \/ Issues(c, con'[c], Ups')
  <2>1. CASE c[1] # k
    BY <2>1, Zenon DEF StartPut
  <2>2. CASE c[1] = k
    <3>1. con'[c] = [Q(c) EXCEPT !.version = IF con[c].m_connected THEN v ELSE @]
      BY <2>2, Zenon DEF StartPut
    <3>2. FlowOK(c) /\ ~con[c].loop
      BY <1>0, <2>2, NoLoopIdle, Zenon DEF TypeInv
    <3>3. CASE ~con[c].m_connected
      <4>1. Q(c) = con[c]
        BY <3>3, Zenon DEF Requested
      <4>2. con'[c] = [con[c] EXCEPT !.version = con[c].version]
        BY <3>1, <3>3, <4>1
      <4>. QED BY <3>2, <4>2 DEF FlowOK, ClientConnection
    <3>4. CASE con[c].m_connected
      <4>. DEFINE d == TextLine(Put(FileOf(v))) \o TextLine(Auth(prog[c[1]].auth))
      <4>1. PICK q : q = Q(c)
        OBVIOUS
      <4>2. /\ q.out = Append(con[c].out, d)
            /\ q.inp = con[c].inp /\ q.rd = con[c].rd /\ q.loop /\ ~q.wcb /\ q.cb = "put"
            /\ prog[c[1]].auth \in {"good", "bad", "short"}
        BY <3>4, <4>1, RequestedOut, SMTT(60)
      <4>3. q \in ClientConnection
        <5>1. Put(FileOf(v)) \in Written
          BY ChannelAssumption, TokensWritten
        <5>. QED BY <4>1, <5>1, RequestedType
      <4>4. con'[c] = [q EXCEPT !.version = v]
        BY <3>1, <3>4, <4>1
      <4>5. d = Request(v, prog[c[1]].auth)
        BY Zenon DEF Request
      <4>. HIDE DEF d
      <4>6. /\ con'[c].out = q.out /\ con'[c].inp = q.inp /\ con'[c].rd = q.rd /\ con'[c].loop
            /\ ~con'[c].wcb /\ con'[c].cb = "put" /\ con'[c].version = v
        BY <4>2, <4>3, <4>4 DEF ClientConnection
      <4>7. InPut(con'[c])
        BY <4>6, Zenon DEF InPut
      <4>8. Requests(con'[c], d)
        BY <4>2, <4>5, <4>6, <4>7, Zenon DEF Requests
      <4>9. \E e : Requests(con'[c], e) /\ con'[c].out = Append(con[c].out, e)
        BY <4>2, <4>6, <4>8, Zenon
      <4>10. con'[c].inp = con[c].inp /\ con'[c].rd = con[c].rd /\ con'[c].version \in Ups'
        BY <4>2, <4>6
      <4>. QED BY <3>2, <3>4, <4>9, <4>10, Zenon DEF Issues
    <3>. QED BY <3>3, <3>4
  <2>. QED BY <2>1, <2>2
<1>. QED BY <1>0, <1>1, <1>2, CommandUploads, Zenon

(* What the other commands ask is no request of an upload.                 *)
LEMMA OtherRequests ==
  ASSUME NEW t \in Written, t.k # "PUT", NEW a \in {"good", "bad", "short"}
  PROVE  TextLine(t) \o TextLine(Auth(a)) \in Seq(NotPut)
<1>1. t \in NotPut /\ Auth(a) \in NotPut /\ Newline \in NotPut
  <2>1. Auth(a) \in Written /\ Newline \in Written
    BY TokensWritten
  <2>2. Auth(a).k # "PUT" /\ Newline.k # "PUT"
    BY DEF Auth, Newline
  <2>. QED BY <2>1, <2>2, Zenon DEF NotPut
<1>2. \A o \in NotPut : <<o, Newline>> \in Seq(NotPut)
  BY <1>1
<1>3. TextLine(t) \in Seq(NotPut) /\ TextLine(Auth(a)) \in Seq(NotPut)
  BY <1>1, <1>2, Zenon DEF TextLine
<1>. QED BY <1>3, ConcatProperties

LEMMA AsksOther ==
  ASSUME TypeInv, NEW c \in Conn, con[c].m_connected, ~con[c].loop,
         NEW t \in Written, t.k # "PUT", NEW cb \in {"list", "get"}, NEW U, NEW q,
         q.out = Requested(c, t, cb).out, q.inp = Requested(c, t, cb).inp,
         q.rd = Requested(c, t, cb).rd, q.cb = cb
  PROVE  Issues(c, q, U)
<1> DEFINE d == TextLine(t) \o TextLine(Auth(prog[c[1]].auth))
<1>1. PICK r : r = Requested(c, t, cb)
  OBVIOUS
<1>2. /\ r.out = Append(con[c].out, d) /\ r.inp = con[c].inp /\ r.rd = con[c].rd
      /\ prog[c[1]].auth \in {"good", "bad", "short"}
  <2>1. cb \in {"put", "list", "get"}
    OBVIOUS
  <2>. QED BY <1>1, <2>1, RequestedOut, SMTT(60)
<1>3. d \in Seq(NotPut)
  BY <1>2, OtherRequests
<1>. HIDE DEF d
<1>4. Requests(q, d)
  BY <1>3, Zenon DEF Requests
<1>5. q.out = Append(con[c].out, d) /\ q.inp = con[c].inp /\ q.rd = con[c].rd /\ q.cb # "put"
  BY <1>1, <1>2
<1>. QED BY <1>4, <1>5, Zenon DEF Issues

LEMMA StartListUploads ==
  ASSUME TypeInv, UploadsInv, TornStays, NEW k \in Client, StartList(k), UNCHANGED serverVars, put' = put
  PROVE  UploadsInv'
<1>0. DfsShape /\ prog[k].cmd = "none" /\ prog[k] \in Program /\ UNCHANGED netVars
  BY DEF TypeInv, ProgramOK, StartList, Idle
<1>1. \A j \in Client : prog'[j].life = prog[j].life
  BY <1>0 DEF StartList, DfsShape, Program
<1>2. List \in Written /\ List.k # "PUT"
  BY TokensWritten DEF List
<1>3. ASSUME NEW c \in Conn PROVE con'[c] = con[c] \/ Issues(c, con'[c], Ups')
  <2>1. CASE c[1] # k
    BY <2>1, Zenon DEF StartList
  <2>2. CASE c[1] = k
    <3>1. con'[c] = Requested(c, List, "list") /\ ~con[c].loop
      BY <1>0, <2>2, NoLoopIdle, Zenon DEF StartList
    <3>2. CASE ~con[c].m_connected
      BY <3>1, <3>2, Zenon DEF Requested
    <3>3. CASE con[c].m_connected
      <4>1. con'[c].cb = "list"
        BY <1>2, <3>1, <3>3, RequestedType
      <4>2. "list" \in {"list", "get"}
        OBVIOUS
      <4>. QED BY <1>2, <3>1, <3>3, <4>1, <4>2, AsksOther
    <3>. QED BY <3>2, <3>3
  <2>. QED BY <2>1, <2>2
<1>4. Ups \subseteq Ups'
  BY UpsKept
<1>. QED BY <1>0, <1>1, <1>3, <1>4, CommandUploads, Zenon

LEMMA GetFromUploads ==
  ASSUME TypeInv, UploadsInv, TornStays, NEW k \in Client, NEW s \in Server, NEW f \in File,
         \A c \in Conn : c[1] = k => ~con[c].loop, GetFrom(k, s, f), UNCHANGED serverVars, put' = put
  PROVE  UploadsInv'
<1> DEFINE d == <<k, s>>
           Q == Requested(d, Get(f, 0), "get")
           r == [Q EXCEPT !.m_get_state = 1]
           P == [prog[k] EXCEPT !.cmd = "get", !.file = f, !.at = s]
<1>0. DfsShape /\ prog[k] \in Program /\ UNCHANGED netVars /\ d \in Conn
  BY DEF TypeInv, ProgramOK, GetFrom, Conn
<1>1. \A j \in Client : prog'[j].life = prog[j].life
  <2>1. prog' = [prog EXCEPT ![k] = P]
    BY <1>0, FieldsAssigned, Zenon DEF GetFrom, DfsShape
  <2>2. P.life = prog[k].life
    BY <1>0 DEF Program
  <2>. HIDE DEF P
  <2>. QED BY <1>0, <2>1, <2>2 DEF DfsShape
<1>2. Get(f, 0) \in Written /\ Get(f, 0).k # "PUT"
  BY TokensWritten DEF Get
<1>3. con' = [con EXCEPT ![d] = IF con[d].m_connected THEN r ELSE con[d]]
  BY <1>0, Zenon DEF GetFrom
<1>. HIDE DEF r
<1>4. ASSUME NEW c \in Conn PROVE con'[c] = con[c] \/ Issues(c, con'[c], Ups')
  <2>1. CASE con'[c] = con[c]
    BY <2>1
  <2>2. CASE con'[c] # con[c]
    <3>1. c = d /\ con[d].m_connected /\ con'[d] = r
      BY <1>0, <1>3, <2>2, Zenon DEF DfsShape
    <3>2. Q \in ClientConnection /\ Q.cb = "get"
      BY <1>0, <1>2, <3>1, RequestedType
    <3>3. PICK q : q = Q
      OBVIOUS
    <3>4. r.out = q.out /\ r.inp = q.inp /\ r.rd = q.rd /\ r.cb = "get"
      <4>. HIDE DEF Q
      <4>1. r = [q EXCEPT !.m_get_state = 1]
        BY <3>3 DEF r
      <4>. QED BY <3>2, <3>3, <4>1 DEF ClientConnection
    <3>5. "get" \in {"list", "get"} /\ ~con[d].loop
      <4>1. d[1] = k
        OBVIOUS
      <4>. QED BY <1>0, <4>1
    <3>6. Issues(d, r, Ups')
      <4>1. r.out = Q.out /\ r.inp = Q.inp /\ r.rd = Q.rd
        BY <3>3, <3>4
      <4>. QED BY <1>0, <1>2, <3>1, <3>4, <3>5, <4>1, AsksOther
    <3>. QED BY <3>1, <3>6, Zenon
  <2>. QED BY <2>1, <2>2
<1>5. Ups \subseteq Ups'
  BY UpsKept
<1>. QED BY <1>0, <1>1, <1>4, <1>5, CommandUploads, Zenon

(* A command returns.                                                      *)
LEMMA DoneUploads ==
  ASSUME TypeInv, UploadsInv, TornStays, NEW k \in Client, Done(k), con' = con,
         UNCHANGED serverVars, UNCHANGED netVars, put' = put
  PROVE  UploadsInv'
<1> DEFINE P == [prog[k] EXCEPT !.cmd = "none", !.file = NoFile, !.at = 0]
<1>0. DfsShape /\ prog[k] \in Program
  BY DEF TypeInv, ProgramOK
<1>1. \A j \in Client : prog'[j].life = prog[j].life
  <2>1. prog' = [prog EXCEPT ![k] = P]
    BY <1>0, FieldsAssigned, Zenon DEF Done, DfsShape
  <2>2. P.life = prog[k].life
    BY <1>0 DEF Program
  <2>. HIDE DEF P
  <2>. QED BY <1>0, <2>1, <2>2 DEF DfsShape
<1>2. Ups \subseteq Ups'
  BY UpsKept
<1>. QED BY <1>1, <1>2, CommandUploads, Zenon

LEMMA ProceedUploads ==
  ASSUME TypeInv, UploadsInv, TornStays, NEW k \in Client, CommandStep(k), UNCHANGED serverVars, put' = put
  PROVE  UploadsInv'
<1>1. CASE GetNext(k)
  <2>1. prog[k].at + 1 \in Server /\ prog[k].file \in File
    <3>1. ProgramOK(k)
      BY Zenon DEF TypeInv
    <3>. QED BY <1>1, <3>1 DEF GetNext, ProgramOK, Server
  <2>2. \A c \in Conn : c[1] = k => ~con[c].loop
    BY <1>1 DEF GetNext, InLoop, Conn
  <2>. QED BY <1>1, <2>1, <2>2, GetFromUploads, Zenon DEF GetNext
<1>2. CASE ClientDies(k, "killed", s2c)
  BY <1>2, ClientDiesUploads
<1>3. CASE PutDone(k) \/ GetDone(k) \/ (ListDone(k) /\ ~ClientDies(k, "killed", s2c))
  <2>1. Done(k) /\ con' = con /\ UNCHANGED netVars
    BY <1>3 DEF PutDone, GetDone, ListDone
  <2>. QED BY <2>1, DoneUploads, Zenon
<1>. QED BY <1>1, <1>2, <1>3, Zenon DEF CommandStep

(* A client program starts: its connections are there, and nothing has     *)
(* been sent on them.                                                      *)
LEMMA StartsUploads ==
  ASSUME TypeInv, UploadsInv, TornStays, NEW k \in Client, UserStarts(k)
  PROVE  UploadsInv'
<1> DEFINE noticed == Server \ Live
           up == { s \in Server : fate[s] = "up" }
<1>0. /\ DfsShape /\ srv' = srv /\ disk' = disk /\ folder' = folder /\ put' = put
      /\ StartClient(k, up, noticed) /\ c2s' = c2s /\ s2c' = s2c
  BY DEF TypeInv, UserStarts, serverVars, userVars, StartClient
<1>. HIDE DEF noticed, up
<1>1. Ups' = Ups
  BY <1>0, UpsKept
<1>2. FoldersStay
  <2>1. ASSUME NEW t \in Server PROVE (folder[t] => folder'[t]) /\ (t \in Unwritable => ~folder'[t])
    BY <1>0, Zenon DEF UploadsInv
  <2>. QED BY <2>1, Zenon DEF FoldersStay
<1>3. prog'[k].life = "up" /\ prog[k].life = "new" /\ \A j \in Client : j # k => prog'[j] = prog[j]
  <2>1. PICK a : prog' = [prog EXCEPT ![k].life = "up", ![k].auth = a]
    BY <1>0, Zenon DEF StartClient
  <2>2. prog[k] \in Program
    BY Zenon DEF TypeInv, ProgramOK
  <2>3. prog' = [prog EXCEPT ![k] = [prog[k] EXCEPT !.life = "up", !.auth = a]]
    BY <1>0, <2>1 DEF DfsShape
  <2>. QED BY <1>0, <2>2, <2>3 DEF DfsShape, StartClient, Program
<1>4. ASSUME NEW c \in Conn PROVE Links(c)' /\ UploadOn(c)'
  <2>1. Links(c) /\ UploadOn(c) /\ c[1] \in Client /\ c[2] \in Server
    BY Zenon DEF UploadsInv, Conn
  <2>2. CASE c[1] # k
    <3>1. Aside(c)
      BY <1>0, <2>2, Zenon DEF StartClient, Aside
    <3>2. prog'[c[1]].life = prog[c[1]].life
      BY <1>3, <2>1, <2>2
    <3>. QED BY <1>1, <1>2, <2>1, <3>1, <3>2, AsideKept, Zenon
  <2>3. CASE c[1] = k
    <3>1. con[c] = NewConnection /\ srv[c] = Absent /\ c2s[c] = Empty /\ s2c[c] = Empty
      BY <1>3, <2>1, <2>3, Zenon DEF Links
    <3>2. PICK m : con'[c] = [NewConnection EXCEPT !.m_connected = m]
      BY <1>0, <2>3, <3>1, Zenon DEF StartClient
    <3>3. /\ con'[c].rd /\ con'[c].cb = "none" /\ con'[c].inp = <<>> /\ con'[c].out = <<>>
      BY <3>2 DEF NewConnection
    <3>4. prog'[c[1]].life # "new" /\ srv'[c] = Absent
      BY <1>0, <1>3, <2>3, <3>1
    <3>5. Links(c)'
      BY <3>3, <3>4, Zenon DEF Links
    <3>6. srv[c].cb = "read" /\ c2s'[c].data = <<>> /\ s2c'[c].data = <<>>
      BY <1>0, <3>1 DEF Absent, Accepted, Empty
    <3>7. Protocol(c[2], srv[c], con'[c], c2s'[c].data, s2c'[c].data, net'[c] = "open", Ups)
      <4>1. PICK open : open = (net'[c] = "open")
        OBVIOUS
      <4>2. PICK b : b = <<>>
        OBVIOUS
      <4>3. srv[c] \in {Absent, Accepted} /\ con'[c].cb # "put"
        BY <3>1, <3>3
      <4>4. Protocol(c[2], srv[c], con'[c], <<>>, b, open, Ups)
        BY <3>3, <4>2, <4>3, FreshProtocol
      <4>. QED BY <3>6, <4>1, <4>2, <4>4
    <3>8. srv'[c].cb # "put"
      BY <1>0, <3>6
    <3>9. UploadOn(c)'
      BY <1>0, <1>1, <3>7, <3>8, Zenon DEF UploadOn
    <3>. QED BY <3>5, <3>9
  <2>. QED BY <2>2, <2>3
<1>5. PartsAreRight'
  BY <1>0, <1>1, DisksStayRight, Zenon DEF UploadsInv
<1>6. \A t \in Unwritable : ~folder'[t]
  BY <1>0, Zenon DEF UploadsInv
<1>. QED BY <1>4, <1>5, <1>6, Zenon DEF UploadsInv

-----------------------------------------------------------------------------
(* What users have uploaded.                                               *)
PutTyped == put \in [Client -> Seq(Version)]

LEMMA PutsGrow ==
  ASSUME PutTyped, NEW k \in Client, NEW v \in Version, put' = [put EXCEPT ![k] = Append(@, v)]
  PROVE  PutTyped' /\ Ups \subseteq Ups' /\ v \in Ups'
<1>1. put'[k] = Append(put[k], v) /\ put[k] \in Seq(Version) /\ \A j \in Client : j # k => put'[j] = put[j]
  BY DEF PutTyped
<1>2. /\ Append(put[k], v) \in Seq(Version)
      /\ Len(put[k]) + 1 \in DOMAIN put'[k] /\ put'[k][Len(put[k]) + 1] = v
      /\ \A n \in DOMAIN put[k] : n \in DOMAIN put'[k] /\ put'[k][n] = put[k][n]
  BY <1>1, AppendProperties
<1>3. PutTyped'
  BY <1>2 DEF PutTyped
<1>4. v \in Ups'
  BY <1>2, Zenon DEF Ups, Uploaded
<1>5. ASSUME NEW u \in Ups PROVE u \in Ups'
  <2>1. u \in Version /\ \E j \in Client : \E n \in DOMAIN put[j] : put[j][n] = u
    BY Zenon DEF Ups, Uploaded
  <2>2. PICK j \in Client : \E n \in DOMAIN put[j] : put[j][n] = u
    BY <2>1
  <2>3. \E n \in DOMAIN put'[j] : put'[j][n] = u
    <3>1. CASE j = k
      BY <1>2, <2>2, <3>1, Zenon
    <3>2. CASE j # k
      BY <1>1, <2>2, <3>2, Zenon
    <3>. QED BY <3>1, <3>2
  <2>. QED BY <2>1, <2>3, Zenon DEF Ups, Uploaded
<1>. QED BY <1>3, <1>4, <1>5

LEMMA UserUploads ==
  ASSUME TypeInv, UploadsInv, TornStays, PutTyped, NEW k \in Client, User(k)
  PROVE  UploadsInv' /\ PutTyped'
<1>1. CASE UserStarts(k)
  BY <1>1, StartsUploads DEF UserStarts, userVars, PutTyped
<1>2. CASE UserQuits(k)
  <2>1. ClientDies(k, "gone", s2c) /\ UNCHANGED serverVars /\ put' = put
    BY <1>2 DEF UserQuits, Quit, userVars
  <2>2. "gone" \in {"gone", "killed"}
    OBVIOUS
  <2>. QED BY <2>1, <2>2, ClientDiesUploads, Zenon DEF PutTyped
<1>3. CASE UserList(k)
  <2>1. StartList(k) /\ UNCHANGED serverVars /\ put' = put
    BY <1>3 DEF UserList
  <2>. QED BY <2>1, StartListUploads, Zenon DEF PutTyped
<1>4. ASSUME NEW v \in Version, UserPut(k, v) PROVE UploadsInv' /\ PutTyped'
  <2>1. StartPut(k, v) /\ UNCHANGED serverVars /\ put' = [put EXCEPT ![k] = Append(@, v)]
    BY <1>4 DEF UserPut
  <2>. QED BY <2>1, PutsGrow, StartPutUploads, Zenon
<1>5. ASSUME NEW f \in File, UserGet(k, f) PROVE UploadsInv' /\ PutTyped'
  <2>1. GetFrom(k, 1, f) /\ prog[k].cmd = "none" /\ UNCHANGED serverVars /\ put' = put /\ 1 \in Server
    BY <1>5 DEF UserGet, StartGet, Idle, Server
  <2>2. \A c \in Conn : c[1] = k => ~con[c].loop
    BY <2>1, NoLoopIdle, Zenon
  <2>. QED BY <2>1, <2>2, GetFromUploads, Zenon DEF PutTyped
<1>. QED BY <1>1, <1>2, <1>3, <1>4, <1>5, Zenon DEF User

-----------------------------------------------------------------------------
(* The invariant.                                                          *)
LEMMA InitUploads ==
  ASSUME Init
  PROVE  UploadsInv /\ PutTyped
<1>1. /\ c2s = [c \in Conn |-> Empty] /\ s2c = [c \in Conn |-> Empty]
      /\ net = [c \in Conn |-> "none"] /\ srv = [c \in Conn |-> Absent]
      /\ con = [c \in Conn |-> NewConnection]
      /\ disk = [s \in Server |-> [f \in File |-> [p \in Number |-> NoPart]]]
      /\ folder = [s \in Server |-> FALSE]
      /\ put = [k \in Client |-> <<>>]
  BY DEF Init, NetInit, ServerInit, ClientInit
<1>2. ASSUME NEW c \in Conn PROVE Links(c) /\ UploadOn(c)
  <2>1. /\ c2s[c] = Empty /\ s2c[c] = Empty /\ net[c] = "none" /\ srv[c] = Absent /\ con[c] = NewConnection
    BY <1>1
  <2>2. Links(c)
    BY <2>1 DEF Links
  <2>3. srv[c].cb = "read" /\ c2s[c].data = <<>> /\ con[c].cb # "put"
    BY <2>1 DEF Absent, Accepted, Empty, NewConnection
  <2>4. PICK open : open = (net[c] = "open")
    OBVIOUS
  <2>5. PICK b : b = s2c[c].data
    OBVIOUS
  <2>6. ~open /\ srv[c] \in {Absent, Accepted}
    BY <2>1, <2>4
  <2>7. Protocol(c[2], srv[c], con[c], <<>>, b, open, Ups)
    BY <2>3, <2>6, FreshProtocol
  <2>8. UploadOn(c)
    BY <2>3, <2>4, <2>5, <2>7 DEF UploadOn
  <2>. QED BY <2>2, <2>8
<1>3. PartsAreRight
  BY <1>1 DEF PartsAreRight, PartsRight
<1>4. \A s \in Unwritable : ~folder[s]
  <2>1. Unwritable \subseteq Server
    BY ServerAssumption
  <2>. QED BY <1>1, <2>1
<1>5. PutTyped
  BY <1>1 DEF PutTyped
<1>. QED BY <1>2, <1>3, <1>4, <1>5, Zenon DEF UploadsInv

LEMMA TornStaysSo ==
  ASSUME TypeInv, kills \in Nat, [Next]_vars
  PROVE  TornStays /\ kills' \in Nat
<1>1. kills' = kills \/ kills' = kills + 1
  BY DEF Next, vars, userVars, serverVars, clientVars, User, Proceed, Serve, Dispatch, UserStarts, UserList, UserPut,
         UserGet, UserQuits, UserKills, UserRestarts
<1>2. ASSUME ~Restarts, NEW s \in Server, fate[s] # "up" PROVE fate'[s] # "up"
  <2>1. \A t, how, unread : Die(t, how, unread) /\ how # "up" => fate'[s] # "up"
    BY <1>2 DEF Die, TypeInv, DfsShape
  <2>2. CASE fate' = fate
    BY <1>2, <2>2
  <2>3. ASSUME NEW c \in Conn, Serve(c) PROVE fate'[s] # "up"
    <3>1. ASSUME callback_read(c, srv[c]) PROVE TRUE
      OBVIOUS
    <3>2. fate' = fate \/ \E unread : Die(c[2], "aborted", unread)
      BY <2>3, Zenon DEF Serve, ServerStep, Accept, ServerRead, ServerWrite, callback_read, callback_put, Becomes,
         ServeGet, ServeList, ServePut, EnterFolder
    <3>. QED BY <1>2, <2>1, <3>2
  <2>4. ASSUME NEW t \in Server, UserKills(t) \/ UserRestarts(t) PROVE fate'[s] # "up"
    <3>1. \E how, unread : Die(t, how, unread) /\ how = "killed"
      BY <1>2, <2>4, Zenon DEF UserKills, UserRestarts, Kill, KilledWriting
    <3>. QED BY <2>1, <3>1
  <2>. QED BY <2>2, <2>3, <2>4 DEF Next, vars, serverVars, User, Proceed, Dispatch, UserStarts, UserList, UserPut,
         UserGet, UserQuits
<1>3. ASSUME NEW s \in Server, MayBeTorn(s) PROVE MayBeTorn(s)'
  <2>1. TornWrites /\ kills > 0 /\ (Restarts \/ fate[s] # "up")
    BY <1>3, Zenon DEF MayBeTorn
  <2>2. kills' > 0
    BY <1>1, <2>1
  <2>. QED BY <1>2, <2>1, <2>2, Zenon DEF MayBeTorn
<1>4. kills' \in Nat
  BY <1>1
<1>. QED BY <1>3, <1>4, Zenon DEF TornStays

LEMMA NextUploads ==
  ASSUME FlatNames, PlainFiles, TypeInv, TypeInv', UploadsInv, PutTyped, kills \in Nat, [Next]_vars
  PROVE  UploadsInv' /\ PutTyped' /\ kills' \in Nat
<1>0. TornStays /\ kills' \in Nat
  BY TornStaysSo
<1>1. ASSUME NEW k \in Client, User(k) PROVE UploadsInv' /\ PutTyped'
  BY <1>0, <1>1, UserUploads
<1>2. ASSUME NEW k \in Client, Proceed(k) PROVE UploadsInv' /\ PutTyped'
  <2>1. CommandStep(k) /\ UNCHANGED serverVars /\ put' = put
    BY <1>2 DEF Proceed, userVars
  <2>. QED BY <1>0, <2>1, ProceedUploads, Zenon DEF PutTyped
<1>3. ASSUME NEW c \in Conn, Serve(c) PROVE UploadsInv' /\ PutTyped'
  <2>1. put' = put
    BY <1>3 DEF Serve, userVars
  <2>. QED BY <1>0, <1>3, <2>1, ServeUploads, Zenon DEF PutTyped
<1>4. ASSUME NEW c \in Conn, Dispatch(c) PROVE UploadsInv' /\ PutTyped'
  <2>1. put' = put
    BY <1>4 DEF Dispatch, userVars
  <2>. QED BY <1>0, <1>4, <2>1, DispatchUploads, Zenon DEF PutTyped
<1>5. ASSUME NEW s \in Server, UserKills(s) \/ UserRestarts(s) PROVE UploadsInv' /\ PutTyped'
  <2>1. put' = put
    BY <1>5 DEF UserKills, UserRestarts, userVars
  <2>. QED BY <1>0, <1>5, <2>1, KillUploads, Zenon DEF PutTyped
<1>6. CASE UNCHANGED vars
  <2>1. UNCHANGED serverVars /\ UNCHANGED netVars /\ put' = put /\ con' = con /\ prog' = prog
    BY <1>6 DEF vars, userVars, clientVars
  <2>2. Ups \subseteq Ups'
    BY <2>1, UpsKept
  <2>. QED BY <1>0, <2>1, <2>2, CommandUploads, Zenon DEF PutTyped
<1>. QED BY <1>0, <1>1, <1>2, <1>3, <1>4, <1>5, <1>6, Zenon DEF Next

-----------------------------------------------------------------------------
(* Whatever the streams are cut into, however many clients upload, end or  *)
(* are killed and whichever servers die and start again, a part on a disk  *)
(* is the very part of an uploaded version that its server was to get, or  *)
(* what a server that was killed meanwhile had written of it.              *)
(* FlatNames: nobody uploads a name that leads to a directory that is not  *)
(* there, whose part file the server cannot open (PutReadPieces,           *)
(* Server.cpp:416).  PlainFiles: no line of a file reads as a text of the  *)
(* protocol; a file with a line of two numbers is stored torn when a read  *)
(* ends inside a part (the run cut_upload).                                *)
THEOREM PartsAreNeverTorn == FlatNames /\ PlainFiles => (Spec => []StoredPartsAreSlices)
<1>. SUFFICES ASSUME FlatNames, PlainFiles PROVE Spec => []StoredPartsAreSlices
  OBVIOUS
<1> DEFINE I == TypeInv /\ UploadsInv /\ PutTyped /\ kills \in Nat
<1>1. Init => I
  <2>1. Init => kills \in Nat
    BY DEF Init
  <2>. QED BY <2>1, InitType, InitUploads
<1>2. I /\ [Next]_vars => I'
  BY NextType, NextUploads
<1>3. I => StoredPartsAreSlices
  <2>. SUFFICES ASSUME UploadsInv PROVE StoredPartsAreSlices
    OBVIOUS
  <2>1. ASSUME NEW s \in Server, NEW f \in File, NEW p \in Number, disk[s][f][p] # NoPart
        PROVE  \E v \in VersionOf(f) :
                 /\ Uploaded(v) /\ p \in PartsOf(s, HashMod(v))
                 /\ \/ disk[s][f][p] = PartOf(v, p)
                    \/ MayBeTorn(s) /\ Begins(disk[s][f][p], PartOf(v, p))
    <3>1. PICK v \in Ups : PathOf(v) = f /\ p \in PartsOf(s, HashMod(v)) /\ IsPart(disk[s][f][p], s, v, p)
      BY <2>1, Zenon DEF UploadsInv, PartsAreRight, PartsRight
    <3>2. v \in VersionOf(f) /\ Uploaded(v)
      BY <3>1 DEF Ups, VersionOf
    <3>. QED BY <3>1, <3>2, Zenon DEF IsPart
  <2>. QED BY <2>1, Zenon DEF StoredPartsAreSlices
<1>. QED BY <1>1, <1>2, <1>3, PTL DEF Spec
=============================================================================
