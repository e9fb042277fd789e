----------------------------- MODULE FetchProofs -----------------------------
(***************************************************************************)
(* What GET brings back: in every part it puts into tmp/, each byte is the *)
(* byte of an uploaded version in its place, or garbage.  It is the whole  *)
(* part if no server serves what a kill has left of it, and without        *)
(* garbage if no read ends inside of a part.  The inductive invariant says *)
(* that a line "GOOD p l" is followed by its part wherever it is on the    *)
(* way: in the server's output buffer, in the connection, in the client's  *)
(* input buffer, or with its line already taken out.  d is a stream, seg   *)
(* the segment of the output buffer behind it, U are the uploaded versions.*)
(*                                                                         *)
(* The second half is about the other direction: while no client has left, *)
(* none of them brings a server down, because every header and its bytes   *)
(* reach it whole.                                                         *)
(***************************************************************************)
EXTENDS UploadProofs

(* Whatever the name, one file; whatever the version, parts of one length. *)
OneName == \A f, g \in File : f = g
OneVersion == \A v, w \in Version : v = w
OneSize == \A v, w \in Version : Size(v) = Size(w)
InWrites == Splits # "byte"
(* No server serves what it had written of a part when it was killed.      *)
WholeWrites == ~TornWrites \/ ~Restarts

-----------------------------------------------------------------------------
(* l bytes of part p of version v: all of them, or what a kill has left.   *)
Sized(v, p, l) == /\ p \in Part /\ l \in 0..PartLength(Size(v), p)
                  /\ WholeWrites => l = PartLength(Size(v), p)

(* What is behind a stream that nobody writes to any more.                 *)
Lost == FileSeg(NoFile, 0, 1)

(* What follows the first n tokens of a stream: a part; or the stream ends *)
(* there, and the segment behind it is the part.                           *)
Follows(d, n, v, p, l) == n + l <= Len(d) /\ \A j \in 1..l : d[n + j] = PartOf(v, p)[j]
Announced(seg, p, l) == seg = Lost \/ (seg.file # NoFile /\ seg.part = p /\ seg.len = l)
Comes(d, n, p, l, seg, U) ==
  \E v \in U : Sized(v, p, l) /\ (Follows(d, n, v, p, l) \/ (n = Len(d) /\ Announced(seg, p, l)))

(* Every "GOOD p l" of a stream ends a line, and its part comes after it.  *)
Framed(d, seg, U) ==
  \A i \in 1..Len(d) : d[i].k = "GOOD" =>
    i < Len(d) /\ d[i + 1] = Newline /\ Comes(d, i + 1, d[i].p, d[i].l, seg, U)

(* The output buffer of a server: texts, and parts that are on its disk;   *)
(* next is what comes behind it.                                           *)
NoSegment == TextSeg(<<>>)
Segment(out, n, next) == IF n \in 1..Len(out) THEN out[n] ELSE next
Holds(D, f, p, n) == D[f][p] # NoPart /\ n <= Len(D[f][p])
Listed(seg, D, U) == /\ seg.part \in Part /\ Holds(D, seg.file, seg.part, seg.len)
                     /\ \E v \in U : Sized(v, seg.part, seg.len)
OutFramed(out, next, D, U) ==
  \A n \in 1..Len(out) : IF out[n].file = NoFile THEN Framed(out[n].data, Segment(out, n + 1, next), U)
                         ELSE Listed(out[n], D, U)

(* No read can end inside of a part, if it only ends where a write did: e  *)
(* is where the bytes start that have not been read, C are the cuts behind *)
(* it.                                                                     *)
Outside(n, l, e, C) == \A m \in C \cup {0} : ~(n < e + m /\ e + m < n + l)
Spared(n, l, e, C) == InWrites => Outside(n, l, e, C)
Unbroken(d, e, C) == \A i \in 1..Len(d) : d[i].k = "GOOD" => Spared(i + 1, d[i].l, e, C)

(* b is on its way to the client k, with the cuts C; g is its program.     *)
Gets(k) == k.loop /\ k.cb = "get"
PartNext(i, b, C, g, seg, U) ==
  Comes(i \o b, 0, g.partnum, g.size, seg, U) /\ Spared(0, g.size, Len(i), C)
Fetches(k, b, C, g, seg, U) ==
  /\ Framed(k.inp \o b, seg, U) /\ Unbroken(k.inp \o b, Len(k.inp), C)
  /\ Gets(k) /\ k.m_get_state \notin {1, 3} => PartNext(k.inp, b, C, g, seg, U)

Behind(c) == IF net[c] = "open" THEN Segment(srv[c].out, 1, NoSegment) ELSE Lost

OutOn(c)    == OutFramed(srv[c].out, NoSegment, disk[c[2]], Ups)
StreamOn(c) == net[c] = "open" \/ s2c[c].data # <<>> =>
                 Fetches(con[c], s2c[c].data, s2c[c].cuts, prog[c[1]], Behind(c), Ups)
AtGet(c)    == Gets(con[c]) => prog[c[1]].at = c[2]

(* x is what has come of y, and garbage where it had not come in time.     *)
Brought(x, y) ==
  /\ x \in Seq(Token) /\ Len(x) <= Len(y)
  /\ \A n \in 1..Len(x) : x[n] = y[n] \/ (~InWrites /\ x[n] = Garbage)
  /\ WholeWrites => Len(x) = Len(y)
Fetched(x, p, U) == x # NoPart => \E v \in U : Brought(x, PartOf(v, p))
FilesOf(t, x, U) ==
  /\ \A p \in Part : Fetched(t[p], p, U)
  /\ OneVersion /\ WholeWrites /\ x # NoPart => \E v \in U : Brought(x, WholeFile(v))
FilesRight == \A k \in Client, f \in File : FilesOf(tmp[k][f], got[k][f], Ups)

FetchInv == (\A c \in Conn : OutOn(c) /\ StreamOn(c) /\ AtGet(c)) /\ FilesRight
-----------------------------------------------------------------------------
(* Streams that are followed by what they announce.                        *)
LEMMA GoodFields ==
  ASSUME NEW t \in Token, t.k = "GOOD"
  PROVE  t.p \in Number /\ t.l \in Nat
BY DEF Token

LEMMA SizedType ==
  ASSUME NEW v \in Version, NEW p, NEW l, Sized(v, p, l)
  PROVE  /\ p \in Part /\ l \in Nat
         /\ PartOf(v, p) \in Seq(Token) /\ l <= Len(PartOf(v, p))
         /\ WholeWrites => l = Len(PartOf(v, p))
         /\ \A i \in 1..Len(PartOf(v, p)) : PartOf(v, p)[i].k = "byte"
<1>1. p \in Part /\ l \in 0..PartLength(Size(v), p) /\ (WholeWrites => l = PartLength(Size(v), p))
  BY DEF Sized
<1> DEFINE x == PartOf(v, p)
<1>2. /\ PartLength(Size(v), p) \in Nat /\ x \in Seq(NotPut) /\ Len(x) = PartLength(Size(v), p)
      /\ \A i \in 1..Len(x) : x[i].k = "byte"
  BY <1>1, PartTextType
<1>3. x \in Seq(Token)
  BY <1>2, NotPutWritten
<1>. HIDE DEF x
<1>. QED BY <1>1, <1>2, <1>3 DEF x

StillAnnounced(seg, seg2) == \A p \in Part, l \in Nat : Announced(seg, p, l) => Announced(seg2, p, l)

LEMMA ComesMore ==
  ASSUME NEW U, U \subseteq Version, NEW U2, U \subseteq U2, NEW seg, NEW seg2, StillAnnounced(seg, seg2),
         NEW d, NEW n, NEW p, NEW l, Comes(d, n, p, l, seg, U)
  PROVE  Comes(d, n, p, l, seg2, U2)
<1>1. PICK v \in U : Sized(v, p, l) /\ (Follows(d, n, v, p, l) \/ (n = Len(d) /\ Announced(seg, p, l)))
  BY Zenon DEF Comes
<1>2. p \in Part /\ l \in Nat
  BY <1>1, SizedType
<1>3. Announced(seg, p, l) => Announced(seg2, p, l)
  BY <1>2, Zenon DEF StillAnnounced
<1>. QED BY <1>1, <1>3, Zenon DEF Comes

LEMMA FramedMore ==
  ASSUME NEW U, U \subseteq Version, NEW U2, U \subseteq U2, NEW seg, NEW seg2, StillAnnounced(seg, seg2),
         NEW d, Framed(d, seg, U)
  PROVE  Framed(d, seg2, U2)
<1>1. ASSUME NEW i \in 1..Len(d), d[i].k = "GOOD"
      PROVE  i < Len(d) /\ d[i + 1] = Newline /\ Comes(d, i + 1, d[i].p, d[i].l, seg2, U2)
  <2>1. i < Len(d) /\ d[i + 1] = Newline /\ Comes(d, i + 1, d[i].p, d[i].l, seg, U)
    BY <1>1, Zenon DEF Framed
  <2>2. Comes(d, i + 1, d[i].p, d[i].l, seg2, U2)
    BY <2>1, ComesMore, Zenon
  <2>. QED BY <2>1, <2>2
<1>. QED BY <1>1, Zenon DEF Framed

(* Text without announcements.                                             *)
LEMMA FramedText ==
  ASSUME NEW d, \A i \in 1..Len(d) : d[i].k # "GOOD", NEW seg, NEW U
  PROVE  Framed(d, seg, U)
BY Zenon DEF Framed

(* What is left when the front of a stream has been taken.                 *)
LEMMA SuffixComes ==
  ASSUME NEW a \in Seq(Token), NEW e \in Seq(Token), NEW n \in Nat, NEW U, U \subseteq Version,
         NEW p, NEW l, NEW seg, Comes(a \o e, Len(a) + n, p, l, seg, U)
  PROVE  Comes(e, n, p, l, seg, U)
<1> DEFINE d == a \o e
<1>1. /\ Len(a) \in Nat /\ Len(e) \in Nat /\ Len(d) = Len(a) + Len(e)
      /\ \A i \in 1..(Len(a) + Len(e)) : d[i] = IF i <= Len(a) THEN a[i] ELSE e[i - Len(a)]
  BY ConcatProperties, LenProperties
<1>2. PICK v \in U : /\ Sized(v, p, l)
                     /\ Follows(d, Len(a) + n, v, p, l) \/ (Len(a) + n = Len(d) /\ Announced(seg, p, l))
  BY Zenon DEF Comes
<1>3. l \in Nat
  BY <1>2, SizedType
<1>. HIDE DEF d
<1>4. CASE Follows(d, Len(a) + n, v, p, l)
  <2>1. (Len(a) + n) + l <= Len(d) /\ \A j \in 1..l : d[(Len(a) + n) + j] = PartOf(v, p)[j]
    BY <1>4 DEF Follows
  <2>2. ASSUME NEW j \in 1..l PROVE e[n + j] = PartOf(v, p)[j]
    <3>1. /\ (Len(a) + n) + j \in 1..(Len(a) + Len(e)) /\ ~((Len(a) + n) + j <= Len(a))
          /\ ((Len(a) + n) + j) - Len(a) = n + j
      BY <1>1, <1>3, <2>1
    <3>2. d[(Len(a) + n) + j] = e[n + j]
      BY <1>1, <3>1
    <3>. QED BY <2>1, <3>2
  <2>3. n + l <= Len(e)
    BY <1>1, <1>3, <2>1
  <2>. QED BY <1>2, <2>2, <2>3, Zenon DEF Comes, Follows
<1>5. CASE Len(a) + n = Len(d) /\ Announced(seg, p, l)
  <2>1. n = Len(e)
    BY <1>1, <1>5
  <2>. QED BY <1>2, <1>5, <2>1, Zenon DEF Comes
<1>. QED BY <1>2, <1>4, <1>5

LEMMA SuffixFramed ==
  ASSUME NEW a \in Seq(Token), NEW e \in Seq(Token), NEW U, U \subseteq Version, NEW seg, Framed(a \o e, seg, U)
  PROVE  Framed(e, seg, U)
<1> DEFINE d == a \o e
<1>1. /\ Len(a) \in Nat /\ Len(e) \in Nat /\ Len(d) = Len(a) + Len(e)
      /\ \A i \in 1..(Len(a) + Len(e)) : d[i] = IF i <= Len(a) THEN a[i] ELSE e[i - Len(a)]
  BY ConcatProperties, LenProperties
<1>2. ASSUME NEW i \in 1..Len(e), e[i].k = "GOOD"
      PROVE  i < Len(e) /\ e[i + 1] = Newline /\ Comes(e, i + 1, e[i].p, e[i].l, seg, U)
  <2>. DEFINE j == Len(a) + i
  <2>. HIDE DEF d
  <2>1. /\ j \in 1..(Len(a) + Len(e)) /\ ~(j <= Len(a)) /\ j - Len(a) = i /\ j \in 1..Len(d)
        /\ j + 1 = Len(a) + (i + 1) /\ i + 1 \in Nat
    BY <1>1
  <2>2. d[j] = e[i]
    BY <1>1, <2>1
  <2>3. j < Len(d) /\ d[j + 1] = Newline /\ Comes(d, j + 1, e[i].p, e[i].l, seg, U)
    <3>. HIDE DEF j
    <3>. QED BY <1>2, <2>1, <2>2, Zenon DEF Framed, d
  <2>4. i < Len(e)
    BY <1>1, <2>1, <2>3
  <2>5. e[i + 1] = Newline
    <3>1. /\ j + 1 \in 1..(Len(a) + Len(e)) /\ ~(j + 1 <= Len(a)) /\ (j + 1) - Len(a) = i + 1
      BY <1>1, <2>1, <2>4
    <3>. QED BY <1>1, <2>3, <3>1
  <2>6. Comes(e, i + 1, e[i].p, e[i].l, seg, U)
    <3>1. Comes(a \o e, Len(a) + (i + 1), e[i].p, e[i].l, seg, U)
      BY <2>1, <2>3 DEF d
    <3>. QED BY <2>1, <3>1, SuffixComes, Zenon
  <2>. QED BY <2>4, <2>5, <2>6
<1>. QED BY <1>2, Zenon DEF Framed

LEMMA SuffixUnbroken ==
  ASSUME NEW a \in Seq(Token), NEW e \in Seq(Token), NEW C, C \subseteq Nat, NEW x \in Nat,
         Unbroken(a \o e, Len(a) + x, C)
  PROVE  Unbroken(e, x, C)
<1> DEFINE d == a \o e
<1>1. /\ Len(a) \in Nat /\ Len(e) \in Nat /\ Len(d) = Len(a) + Len(e)
      /\ \A i \in 1..(Len(a) + Len(e)) : d[i] = IF i <= Len(a) THEN a[i] ELSE e[i - Len(a)]
  BY ConcatProperties, LenProperties
<1>2. ASSUME InWrites, NEW i \in 1..Len(e), e[i].k = "GOOD", NEW m \in C \cup {0}
      PROVE  ~(i + 1 < x + m /\ x + m < (i + 1) + e[i].l)
  <2>. DEFINE j == Len(a) + i
  <2>0. e[i] \in Token
    BY ElementOfSeq
  <2>1. e[i].l \in Nat /\ m \in Nat
    BY <1>2, <2>0, GoodFields
  <2>. HIDE DEF d
  <2>2. /\ j \in 1..(Len(a) + Len(e)) /\ ~(j <= Len(a)) /\ j - Len(a) = i /\ j \in 1..Len(d)
    BY <1>1
  <2>3. d[j] = e[i]
    BY <1>1, <2>2
  <2>4. Outside(j + 1, e[i].l, Len(a) + x, C)
    <3>. HIDE DEF j
    <3>. QED BY <1>2, <2>2, <2>3, Zenon DEF Unbroken, Spared, d
  <2>5. ~(j + 1 < (Len(a) + x) + m /\ (Len(a) + x) + m < (j + 1) + e[i].l)
    BY <1>2, <2>4 DEF Outside
  <2>. HIDE DEF j
  <2>. DEFINE l == e[i].l
              n == Len(a)
  <2>6. j = n + i /\ n \in Nat /\ i \in Nat /\ l \in Nat /\ m \in Nat
    BY <1>1, <2>1 DEF j
  <2>7. ~(j + 1 < (n + x) + m /\ (n + x) + m < (j + 1) + l)
    BY <2>5
  <2>. HIDE DEF l, n
  <2>8. ~(i + 1 < x + m /\ x + m < (i + 1) + l)
    BY <2>6, <2>7
  <2>. QED BY <2>8 DEF l
<1>3. ASSUME NEW i \in 1..Len(e), e[i].k = "GOOD"
      PROVE  Spared(i + 1, e[i].l, x, C)
  BY <1>2, <1>3, Zenon DEF Spared, Outside
<1>. QED BY <1>3, Zenon DEF Unbroken
-----------------------------------------------------------------------------
(* The segment that leaves the output buffer brings what was announced.    *)
Carries(seg, t, U) ==
  /\ seg # Lost
  /\ seg.file # NoFile =>
       /\ Len(t) = seg.len
       /\ \E v \in U : Sized(v, seg.part, seg.len) /\ \A j \in 1..seg.len : t[j] = PartOf(v, seg.part)[j]

LEMMA ComesOn ==
  ASSUME NEW d \in Seq(Token), NEW t \in Seq(Token), NEW U, U \subseteq Version, NEW seg, Carries(seg, t, U),
         NEW n \in Nat, NEW p, NEW l, Comes(d, n, p, l, seg, U), NEW seg2
  PROVE  Comes(d \o t, n, p, l, seg2, U)
<1> DEFINE e == d \o t
<1>1. /\ Len(d) \in Nat /\ Len(t) \in Nat /\ Len(e) = Len(d) + Len(t)
      /\ \A i \in 1..(Len(d) + Len(t)) : e[i] = IF i <= Len(d) THEN d[i] ELSE t[i - Len(d)]
  BY ConcatProperties, LenProperties
<1>2. PICK v \in U : Sized(v, p, l) /\ (Follows(d, n, v, p, l) \/ (n = Len(d) /\ Announced(seg, p, l)))
  BY Zenon DEF Comes
<1>3. l \in Nat
  BY <1>2, SizedType
<1>. HIDE DEF e
<1>4. CASE Follows(d, n, v, p, l)
  <2>1. n + l <= Len(d) /\ \A j \in 1..l : d[n + j] = PartOf(v, p)[j]
    BY <1>4 DEF Follows
  <2>2. ASSUME NEW j \in 1..l PROVE e[n + j] = PartOf(v, p)[j]
    <3>1. n + j \in 1..(Len(d) + Len(t)) /\ n + j <= Len(d)
      BY <1>1, <1>3, <2>1
    <3>. QED BY <1>1, <2>1, <3>1
  <2>3. n + l <= Len(e)
    BY <1>1, <1>3, <2>1
  <2>. QED BY <1>2, <2>2, <2>3, Zenon DEF Comes, Follows, e
<1>5. CASE n = Len(d) /\ Announced(seg, p, l)
  <2>1. seg.file # NoFile /\ seg.part = p /\ seg.len = l
    BY <1>5 DEF Carries, Announced
  <2>2. PICK w \in U : Sized(w, p, l) /\ \A j \in 1..l : t[j] = PartOf(w, p)[j]
    BY <2>1 DEF Carries
  <2>3. Len(t) = l
    BY <2>1 DEF Carries
  <2>4. ASSUME NEW j \in 1..l PROVE e[n + j] = PartOf(w, p)[j]
    <3>1. n + j \in 1..(Len(d) + Len(t)) /\ ~(n + j <= Len(d)) /\ (n + j) - Len(d) = j
      BY <1>1, <1>3, <1>5, <2>3
    <3>. QED BY <1>1, <2>2, <3>1
  <2>5. n + l <= Len(e)
    BY <1>1, <1>5, <2>3
  <2>. QED BY <2>2, <2>4, <2>5, Zenon DEF Comes, Follows, e
<1>. QED BY <1>2, <1>4, <1>5

LEMMA FramedOn ==
  ASSUME NEW d \in Seq(Token), NEW t \in Seq(Token), NEW U, U \subseteq Version, NEW seg, Carries(seg, t, U),
         Framed(d, seg, U), NEW seg2, Framed(t, seg2, U)
  PROVE  Framed(d \o t, seg2, U)
<1> DEFINE e == d \o t
<1>1. /\ Len(d) \in Nat /\ Len(t) \in Nat /\ Len(e) = Len(d) + Len(t)
      /\ \A i \in 1..(Len(d) + Len(t)) : e[i] = IF i <= Len(d) THEN d[i] ELSE t[i - Len(d)]
  BY ConcatProperties, LenProperties
<1>. HIDE DEF e
<1>2. ASSUME NEW i \in 1..Len(e), e[i].k = "GOOD"
      PROVE  i < Len(e) /\ e[i + 1] = Newline /\ Comes(e, i + 1, e[i].p, e[i].l, seg2, U)
  <2>1. CASE i <= Len(d)
    <3>1. i \in 1..Len(d) /\ e[i] = d[i] /\ i + 1 \in Nat
      BY <1>1, <2>1
    <3>2. i < Len(d) /\ d[i + 1] = Newline /\ Comes(d, i + 1, e[i].p, e[i].l, seg, U)
      BY <1>2, <3>1, Zenon DEF Framed
    <3>3. i < Len(e) /\ e[i + 1] = d[i + 1]
      BY <1>1, <3>1, <3>2
    <3>4. Comes(e, i + 1, e[i].p, e[i].l, seg2, U)
      BY <3>1, <3>2, ComesOn, Zenon DEF e
    <3>. QED BY <3>2, <3>3, <3>4
  <2>2. CASE ~(i <= Len(d))
    <3>. DEFINE j == i - Len(d)
    <3>0. i \in 1..(Len(d) + Len(t))
      BY <1>1
    <3>1. j \in 1..Len(t) /\ e[i] = t[j] /\ i + 1 = Len(d) + (j + 1) /\ j + 1 \in Nat
      <4>1. j \in 1..Len(t) /\ i + 1 = Len(d) + (j + 1) /\ j + 1 \in Nat
        BY <1>1, <2>2, <3>0
      <4>2. e[i] = t[i - Len(d)]
        BY <1>1, <2>2, <3>0, Zenon
      <4>. QED BY <4>1, <4>2
    <3>2. j < Len(t) /\ t[j + 1] = Newline /\ Comes(t, j + 1, e[i].p, e[i].l, seg2, U)
      <4>. HIDE DEF j
      <4>. QED BY <1>2, <3>1, Zenon DEF Framed
    <3>3. i < Len(e) /\ e[i + 1] = t[j + 1]
      <4>1. i + 1 \in 1..(Len(d) + Len(t)) /\ ~(i + 1 <= Len(d)) /\ (i + 1) - Len(d) = j + 1
        BY <1>1, <3>1, <3>2
      <4>. QED BY <1>1, <3>1, <4>1
    <3>4. Comes(e, i + 1, e[i].p, e[i].l, seg2, U)
      <4>1. PICK v \in U : /\ Sized(v, e[i].p, e[i].l)
                           /\ \/ Follows(t, j + 1, v, e[i].p, e[i].l)
                              \/ j + 1 = Len(t) /\ Announced(seg2, e[i].p, e[i].l)
        BY <3>2, Zenon DEF Comes
      <4>2. e[i].l \in Nat
        BY <4>1, SizedType
      <4>. DEFINE l == e[i].l
                  x == PartOf(v, e[i].p)
      <4>. HIDE DEF j, x, l
      <4>3. CASE Follows(t, j + 1, v, e[i].p, e[i].l)
        <5>1. (j + 1) + l <= Len(t) /\ \A m \in 1..l : t[(j + 1) + m] = x[m]
          BY <4>3 DEF Follows, x, l
        <5>2. ASSUME NEW m \in 1..l PROVE e[(i + 1) + m] = x[m]
          <6>1. /\ (i + 1) + m \in 1..(Len(d) + Len(t)) /\ ~((i + 1) + m <= Len(d))
                /\ ((i + 1) + m) - Len(d) = (j + 1) + m
            <7>1. l \in Nat /\ m \in 1..l /\ j \in Nat /\ (j + 1) + m <= Len(t)
              BY <1>1, <3>1, <4>2, <5>1 DEF l
            <7>2. Len(d) \in Nat /\ Len(t) \in Nat /\ i \in Nat /\ i + 1 = Len(d) + (j + 1)
              BY <1>1, <3>1
            <7>. QED BY <7>1, <7>2
          <6>. QED BY <1>1, <5>1, <6>1
        <5>3. (i + 1) + l <= Len(e)
          BY <1>1, <3>1, <4>2, <5>1 DEF l
        <5>. QED BY <4>1, <5>2, <5>3, Zenon DEF Comes, Follows, x, l
      <4>4. CASE j + 1 = Len(t) /\ Announced(seg2, e[i].p, e[i].l)
        <5>1. i + 1 = Len(e)
          BY <1>1, <3>1, <4>4
        <5>. QED BY <4>1, <4>4, <5>1, Zenon DEF Comes
      <4>. QED BY <4>1, <4>3, <4>4
    <3>. QED BY <3>2, <3>3, <3>4
  <2>. QED BY <2>1, <2>2
<1>3. Framed(e, seg2, U)
  BY <1>2, Zenon DEF Framed
<1>. QED BY <1>3 DEF e

(* A write ends where no part is cut.                                      *)
LEMMA EndOutside ==
  ASSUME NEW U, U \subseteq Version, NEW d, Len(d) \in Nat, NEW n \in Nat, NEW p, NEW l, NEW seg, Comes(d, n, p, l, seg, U)
  PROVE  l \in Nat /\ n <= Len(d) /\ ~(n < Len(d) /\ Len(d) < n + l)
<1>1. PICK v \in U : Sized(v, p, l) /\ (Follows(d, n, v, p, l) \/ (n = Len(d) /\ Announced(seg, p, l)))
  BY Zenon DEF Comes
<1>2. l \in Nat
  BY <1>1, SizedType
<1>3. CASE Follows(d, n, v, p, l)
  BY <1>2, <1>3 DEF Follows
<1>4. CASE n = Len(d) /\ Announced(seg, p, l)
  BY <1>2, <1>4
<1>. QED BY <1>1, <1>3, <1>4

(* t is written behind d, and a read may end where the write has ended.    *)
LEMMA UnbrokenOn ==
  ASSUME NEW d \in Seq(Token), NEW t \in Seq(Token), NEW U, U \subseteq Version, NEW seg, Framed(d \o t, seg, U),
         NEW x \in Nat, NEW C, NEW C2, x <= Len(d), \A m \in C : m \in Nat /\ x + m <= Len(d),
         Unbroken(d, x, C), InWrites => C2 \subseteq C \cup {Len(d \o t) - x}
  PROVE  Unbroken(d \o t, x, C2)
<1> DEFINE e == d \o t
<1>1. /\ Len(d) \in Nat /\ Len(t) \in Nat /\ Len(e) = Len(d) + Len(t)
      /\ \A i \in 1..(Len(d) + Len(t)) : e[i] = IF i <= Len(d) THEN d[i] ELSE t[i - Len(d)]
  BY ConcatProperties, LenProperties
<1>. HIDE DEF e
<1>2. ASSUME InWrites, NEW i \in 1..Len(e), e[i].k = "GOOD", NEW m \in C2 \cup {0}
      PROVE  ~(i + 1 < x + m /\ x + m < (i + 1) + e[i].l)
  <2>1. i < Len(e) /\ Comes(e, i + 1, e[i].p, e[i].l, seg, U) /\ i + 1 \in Nat /\ Len(e) \in Nat
    <3>1. i < Len(e) /\ Comes(e, i + 1, e[i].p, e[i].l, seg, U)
      BY <1>2, Zenon DEF Framed, e
    <3>. QED BY <1>1, <3>1
  <2>2. e[i].l \in Nat /\ ~(i + 1 < Len(e) /\ Len(e) < (i + 1) + e[i].l)
    BY <2>1, EndOutside, Zenon
  <2>3. CASE m = Len(e) - x
    <3>1. x + m = Len(e)
      BY <1>1, <2>3
    <3>. QED BY <2>2, <3>1
  <2>4. CASE m \in C \cup {0}
    <3>1. m \in Nat /\ x + m <= Len(d)
      BY <2>4
    <3>2. CASE i <= Len(d)
      <4>1. i \in 1..Len(d) /\ e[i] = d[i]
        BY <1>1, <3>2
      <4>2. Outside(i + 1, e[i].l, x, C)
        BY <1>2, <4>1, Zenon DEF Unbroken, Spared
      <4>. QED BY <2>4, <4>2, Zenon DEF Outside
    <3>3. CASE ~(i <= Len(d))
      BY <1>1, <3>1, <3>3
    <3>. QED BY <3>2, <3>3
  <2>5. m = Len(e) - x \/ m \in C \cup {0}
    BY <1>2 DEF e
  <2>. QED BY <2>3, <2>4, <2>5
<1>3. Unbroken(e, x, C2)
  BY <1>2, Zenon DEF Unbroken, Spared, Outside
<1>. QED BY <1>3 DEF e
-----------------------------------------------------------------------------
(* One connection.  The client's end goes on as it is.                     *)
GoesOn(k, g, k2, g2) ==
  Gets(k2) /\ k2.m_get_state \notin {1, 3} =>
    Gets(k) /\ k.m_get_state \notin {1, 3} /\ g2.partnum = g.partnum /\ g2.size = g.size

LEMMA FetchesMore ==
  ASSUME NEW U, U \subseteq Version, NEW U2, U \subseteq U2, NEW seg, NEW seg2, StillAnnounced(seg, seg2),
         NEW b, NEW C, NEW k, NEW g, NEW k2, NEW g2, k2.inp = k.inp, GoesOn(k, g, k2, g2), Fetches(k, b, C, g, seg, U)
  PROVE  Fetches(k2, b, C, g2, seg2, U2)
<1>1. Framed(k2.inp \o b, seg2, U2) /\ Unbroken(k2.inp \o b, Len(k2.inp), C)
  <2>1. Framed(k2.inp \o b, seg, U) /\ Unbroken(k2.inp \o b, Len(k2.inp), C)
    BY DEF Fetches
  <2>. QED BY <2>1, FramedMore, Zenon
<1>2. ASSUME Gets(k2), k2.m_get_state \notin {1, 3} PROVE PartNext(k2.inp, b, C, g2, seg2, U2)
  <2>1. PartNext(k.inp, b, C, g, seg, U) /\ g2.partnum = g.partnum /\ g2.size = g.size
    BY <1>2, Zenon DEF Fetches, GoesOn
  <2>2. Comes(k2.inp \o b, 0, g2.partnum, g2.size, seg, U) /\ Spared(0, g2.size, Len(k2.inp), C)
    BY <2>1 DEF PartNext
  <2>3. Comes(k2.inp \o b, 0, g2.partnum, g2.size, seg2, U2)
    BY <2>2, ComesMore, Zenon
  <2>. QED BY <2>2, <2>3, Zenon DEF PartNext
<1>. QED BY <1>1, <1>2, Zenon DEF Fetches

(* The server writes t, and a read may end behind it.                      *)
LEMMA FetchesOn ==
  ASSUME NEW U, U \subseteq Version, NEW seg, NEW t \in Seq(Token), Carries(seg, t, U), NEW seg2, Framed(t, seg2, U),
         NEW b \in Seq(Token), NEW C, C \subseteq 1..Len(b),
         NEW C2, InWrites => C2 \subseteq C \cup {Len(b \o t)},
         NEW k, k.inp \in Seq(Token), NEW g, Fetches(k, b, C, g, seg, U)
  PROVE  Fetches(k, b \o t, C2, g, seg2, U)
<1> DEFINE i == k.inp
           d == i \o b
           e == i \o (b \o t)
<1>1. /\ d \in Seq(Token) /\ b \o t \in Seq(Token) /\ e = d \o t
      /\ Len(i) \in Nat /\ Len(b) \in Nat /\ Len(t) \in Nat /\ Len(d) = Len(i) + Len(b)
      /\ Len(b \o t) = Len(b) + Len(t) /\ Len(e) = Len(i) + (Len(b) + Len(t))
  <2>1. d \in Seq(Token) /\ b \o t \in Seq(Token)
    BY ConcatProperties
  <2>2. e = d \o t
    BY TokensJoined, Zenon
  <2>3. Len(i) \in Nat /\ Len(b) \in Nat /\ Len(t) \in Nat
    BY LenProperties
  <2>4. Len(d) = Len(i) + Len(b) /\ Len(b \o t) = Len(b) + Len(t)
    BY ConcatProperties
  <2>5. Len(e) = Len(i) + Len(b \o t)
    BY <2>1, ConcatProperties
  <2>. QED BY <2>1, <2>2, <2>3, <2>4, <2>5
<1>2. Framed(d, seg, U) /\ Unbroken(d, Len(i), C)
  BY Zenon DEF Fetches
<1>. HIDE DEF i, d, e
<1>3. Framed(d \o t, seg2, U)
  BY <1>1, <1>2, FramedOn, Zenon
<1>4. Unbroken(d \o t, Len(i), C2)
  <2>1. Len(i) <= Len(d) /\ \A m \in C : m \in Nat /\ Len(i) + m <= Len(d)
    BY <1>1
  <2>2. Len(d \o t) - Len(i) = Len(b \o t)
    BY <1>1
  <2>3. InWrites => C2 \subseteq C \cup {Len(d \o t) - Len(i)}
    BY <2>2
  <2>. QED BY <1>1, <1>2, <1>3, <2>1, <2>3, UnbrokenOn, Zenon
<1>5. ASSUME Gets(k), k.m_get_state \notin {1, 3} PROVE PartNext(i, b \o t, C2, g, seg2, U)
  <2>1. Comes(d, 0, g.partnum, g.size, seg, U) /\ Spared(0, g.size, Len(i), C)
    BY <1>5, Zenon DEF Fetches, PartNext, d, i
  <2>2. PICK zero : zero = 0 /\ zero \in Nat
    OBVIOUS
  <2>3. Comes(d, zero, g.partnum, g.size, seg, U)
    BY <2>1, <2>2
  <2>4. Comes(e, zero, g.partnum, g.size, seg2, U)
    BY <1>1, <2>2, <2>3, ComesOn, Zenon
  <2>5. g.size \in Nat /\ ~(0 < Len(e) /\ Len(e) < 0 + g.size)
    <3>1. g.size \in Nat /\ ~(zero < Len(e) /\ Len(e) < zero + g.size)
      <4>1. Len(e) \in Nat
        BY <1>1
      <4>. QED BY <2>2, <2>4, <4>1, EndOutside, Zenon
    <3>. QED BY <2>2, <3>1
  <2>6. Spared(0, g.size, Len(i), C2)
    <3>1. ASSUME InWrites, NEW m \in C2 \cup {0} PROVE ~(0 < Len(i) + m /\ Len(i) + m < 0 + g.size)
      <4>1. CASE m = Len(b \o t)
        BY <1>1, <2>5, <4>1
      <4>2. CASE m \in C \cup {0}
        BY <2>1, <3>1, <4>2, Zenon DEF Spared, Outside
      <4>. QED BY <3>1, <4>1, <4>2
    <3>. QED BY <3>1, Zenon DEF Spared, Outside
  <2>. QED BY <2>2, <2>4, <2>6, Zenon DEF PartNext, e
<1>. QED BY <1>1, <1>3, <1>4, <1>5, Zenon DEF Fetches, e, i

(* Nothing more is written, and a read may end where the stream ends.      *)
LEMMA FetchesEnded ==
  ASSUME NEW U, U \subseteq Version, NEW seg, NEW b \in Seq(Token), NEW C, C \subseteq 1..Len(b),
         NEW k, k.inp \in Seq(Token), NEW g, Fetches(k, b, C, g, seg, U), NEW C2, C2 \subseteq C \cup {Len(b)}
  PROVE  Fetches(k, b, C2, g, Lost, U)
<1> DEFINE i == k.inp
           d == i \o b
           none == <<>>
<1>1. /\ d \in Seq(Token) /\ Len(i) \in Nat /\ Len(b) \in Nat /\ Len(d) = Len(i) + Len(b)
      /\ none \in Seq(Token) /\ d \o none = d
  <2>1. d \in Seq(Token) /\ Len(i) \in Nat /\ Len(b) \in Nat /\ Len(d) = Len(i) + Len(b)
    BY ConcatProperties, LenProperties
  <2>. HIDE DEF d
  <2>. QED BY <2>1, ConcatEmptySeq
<1>2. StillAnnounced(seg, Lost)
  BY DEF StillAnnounced, Announced
<1>3. Framed(d, seg, U) /\ Unbroken(d, Len(i), C)
  BY Zenon DEF Fetches
<1>. HIDE DEF i, d, none
<1>4. Framed(d, Lost, U)
  BY <1>2, <1>3, FramedMore, Zenon
<1>5. Unbroken(d \o none, Len(i), C2)
  <2>1. Len(i) <= Len(d) /\ \A m \in C : m \in Nat /\ Len(i) + m <= Len(d)
    BY <1>1
  <2>2. Len(d \o none) - Len(i) = Len(b)
    BY <1>1
  <2>3. C2 \subseteq C \cup {Len(d \o none) - Len(i)} /\ Framed(d \o none, Lost, U)
    BY <1>1, <1>4, <2>2
  <2>. QED BY <1>1, <1>3, <2>1, <2>3, UnbrokenOn, Zenon
<1>6. ASSUME Gets(k), k.m_get_state \notin {1, 3} PROVE PartNext(i, b, C2, g, Lost, U)
  <2>1. Comes(d, 0, g.partnum, g.size, seg, U) /\ Spared(0, g.size, Len(i), C)
    BY <1>6, Zenon DEF Fetches, PartNext, d, i
  <2>2. PICK zero : zero = 0 /\ zero \in Nat
    OBVIOUS
  <2>3. Comes(d, zero, g.partnum, g.size, Lost, U)
    BY <1>2, <2>1, <2>2, ComesMore, Zenon
  <2>4. g.size \in Nat /\ ~(zero < Len(d) /\ Len(d) < zero + g.size)
    <3>1. Len(d) \in Nat
      BY <1>1
    <3>. QED BY <2>2, <2>3, <3>1, EndOutside, Zenon
  <2>5. Spared(0, g.size, Len(i), C2)
    <3>1. ASSUME InWrites, NEW m \in C2 \cup {0} PROVE ~(0 < Len(i) + m /\ Len(i) + m < 0 + g.size)
      <4>1. CASE m = Len(b)
        BY <1>1, <2>2, <2>4, <4>1
      <4>2. CASE m \in C \cup {0}
        BY <2>1, <3>1, <4>2, Zenon DEF Spared, Outside
      <4>. QED BY <3>1, <4>1, <4>2
    <3>. QED BY <3>1, Zenon DEF Spared, Outside
  <2>. QED BY <2>2, <2>3, <2>5, Zenon DEF PartNext, d
<1>7. Unbroken(d, Len(i), C2)
  BY <1>1, <1>5
<1>. QED BY <1>4, <1>6, <1>7, Zenon DEF Fetches, d, i
-----------------------------------------------------------------------------
(* The client reads: what is on its way stays the same stream.             *)
CutsLeft(C, n) == { m - n : m \in {j \in C : j > n} }

LEMMA OutsideStays ==
  ASSUME NEW C, C \subseteq Nat, NEW n \in C, NEW e \in Nat, NEW x, NEW l, Outside(x, l, e, C)
  PROVE  Outside(x, l, e + n, CutsLeft(C, n))
<1>1. ASSUME NEW m \in CutsLeft(C, n) \cup {0}
      PROVE  ~(x < (e + n) + m /\ (e + n) + m < x + l)
  <2>1. PICK j \in C : (e + n) + m = e + j
    <3>1. CASE m = 0
      BY <3>1
    <3>2. CASE m # 0
      <4>1. PICK j \in C : j > n /\ m = j - n
        BY <1>1, <3>2 DEF CutsLeft
      <4>. QED BY <4>1
    <3>. QED BY <3>1, <3>2
  <2>2. ~(x < e + j /\ e + j < x + l)
    BY Zenon DEF Outside
  <2>. QED BY <2>1, <2>2
<1>. QED BY <1>1, Zenon DEF Outside

LEMMA FetchesRead ==
  ASSUME NEW b \in Seq(Token), NEW C, C \subseteq 1..Len(b), NEW n \in C, NEW U, NEW seg,
         NEW k, k.inp \in Seq(Token), NEW g, Fetches(k, b, C, g, seg, U),
         NEW q, q.inp = k.inp \o Take(b, n), GoesOn(k, g, q, g)
  PROVE  /\ q.inp \in Seq(Token) /\ Drop(b, n) \in Seq(Token)
         /\ Fetches(q, Drop(b, n), CutsLeft(C, n), g, seg, U)
<1> DEFINE i == k.inp
           x == Take(b, n)
           y == Drop(b, n)
           L == CutsLeft(C, n)
<1>1. n \in 1..Len(b) /\ n \in Nat /\ Len(b) \in Nat /\ C \subseteq Nat
  BY LenProperties
<1>2. x \in Seq(Token) /\ y \in Seq(Token) /\ Len(x) = n /\ x \o y = b
  <2>1. x \in Seq(Token) /\ Len(x) = IF n < Len(b) THEN n ELSE Len(b)
    BY <1>1, TakeElements
  <2>2. y \in Seq(Token) /\ x \o y = b
    BY <1>1, TakeDropType, Split
  <2>. HIDE DEF x, y
  <2>. QED BY <1>1, <2>1, <2>2
<1>. HIDE DEF x, y
<1>3. q.inp \in Seq(Token) /\ Len(q.inp) = Len(i) + n /\ Len(i) \in Nat /\ q.inp \o y = i \o b
  <2>1. q.inp = i \o x
    BY DEF x
  <2>2. i \o x \in Seq(Token) /\ Len(i \o x) = Len(i) + Len(x) /\ Len(i) \in Nat
    BY <1>2, ConcatProperties, LenProperties
  <2>3. (i \o x) \o y = i \o b
    BY <1>2, TokensJoined
  <2>. QED BY <1>2, <2>1, <2>2, <2>3
<1>. HIDE DEF i, L
<1>4. Framed(q.inp \o y, seg, U)
  BY <1>3, Zenon DEF Fetches, i
<1>5. Unbroken(q.inp \o y, Len(q.inp), L)
  <2>1. Unbroken(i \o b, Len(i), C)
    BY Zenon DEF Fetches, i
  <2>. DEFINE d == i \o b
  <2>. HIDE DEF d
  <2>2. ASSUME NEW j \in 1..Len(d), d[j].k = "GOOD" PROVE Spared(j + 1, d[j].l, Len(i) + n, L)
    <3>1. Spared(j + 1, d[j].l, Len(i), C)
      BY <2>1, <2>2, Zenon DEF Unbroken, d
    <3>. QED BY <1>1, <1>3, <3>1, OutsideStays, Zenon DEF L, Spared
  <2>3. Unbroken(d, Len(i) + n, L)
    BY <2>2, Zenon DEF Unbroken
  <2>. QED BY <1>3, <2>3 DEF d
<1>6. ASSUME Gets(q), q.m_get_state \notin {1, 3} PROVE PartNext(q.inp, y, L, g, seg, U)
  <2>1. Comes(i \o b, 0, g.partnum, g.size, seg, U) /\ Spared(0, g.size, Len(i), C)
    BY <1>6, Zenon DEF Fetches, PartNext, i, GoesOn
  <2>2. Comes(q.inp \o y, 0, g.partnum, g.size, seg, U)
    BY <1>3, <2>1
  <2>3. Spared(0, g.size, Len(i) + n, L)
    BY <1>1, <1>3, <2>1, OutsideStays, Zenon DEF L, Spared
  <2>. QED BY <1>3, <2>2, <2>3 DEF PartNext
<1>7. Fetches(q, y, L, g, seg, U)
  BY <1>4, <1>5, <1>6, Zenon DEF Fetches
<1>. QED BY <1>2, <1>3, <1>7 DEF y, L

(* A callback takes the first n tokens out of the input buffer.            *)
LEMMA StreamDrop ==
  ASSUME NEW i \in Seq(Token), NEW b \in Seq(Token), NEW C, C \subseteq Nat, NEW U, U \subseteq Version, NEW seg,
         Framed(i \o b, seg, U), Unbroken(i \o b, Len(i), C), NEW n \in Nat, NEW j, j = Drop(i, n)
  PROVE  /\ j \in Seq(Token) /\ Framed(j \o b, seg, U) /\ Unbroken(j \o b, Len(j), C)
         /\ n <= Len(i) => /\ Len(j) = Len(i) - n
                           /\ \A p, l : Comes(i \o b, n, p, l, seg, U) => Comes(j \o b, 0, p, l, seg, U)
<1> DEFINE x == Take(i, n)
           e == j \o b
<1>1. /\ x \in Seq(Token) /\ j \in Seq(Token) /\ x \o j = i /\ Len(x) \in Nat /\ Len(j) \in Nat
      /\ Len(i) = Len(x) + Len(j) /\ (n <= Len(i) => Len(x) = n)
  <2>1. /\ x \in Seq(Token) /\ j \in Seq(Token) /\ x \o j = i
        /\ Len(x) = IF n < Len(i) THEN n ELSE Len(i)
    BY TakeElements, TakeDropType, Split
  <2>. HIDE DEF x
  <2>2. Len(x) \in Nat /\ Len(j) \in Nat /\ Len(x \o j) = Len(x) + Len(j)
    BY <2>1, ConcatProperties, LenProperties
  <2>3. n <= Len(i) => Len(x) = n
    BY <2>1, <2>2
  <2>. QED BY <2>1, <2>2, <2>3
<1>. HIDE DEF x
<1>2. e \in Seq(Token) /\ i \o b = x \o e
  <2>1. e \in Seq(Token)
    BY <1>1, ConcatProperties
  <2>2. (x \o j) \o b = x \o (j \o b)
    BY <1>1, TokensJoined
  <2>. QED BY <1>1, <2>1, <2>2
<1>. HIDE DEF e
<1>3. Framed(e, seg, U)
  BY <1>1, <1>2, SuffixFramed, Zenon
<1>4. Unbroken(e, Len(j), C)
  <2>1. Unbroken(x \o e, Len(x) + Len(j), C)
    BY <1>1, <1>2
  <2>. QED BY <1>1, <1>2, <2>1, SuffixUnbroken, Zenon
<1>5. ASSUME n <= Len(i), NEW p, NEW l, Comes(i \o b, n, p, l, seg, U) PROVE Comes(e, 0, p, l, seg, U)
  <2>1. PICK zero : zero = 0 /\ zero \in Nat /\ n = Len(x) + zero
    BY <1>1, <1>5
  <2>2. Comes(x \o e, Len(x) + zero, p, l, seg, U)
    BY <1>2, <1>5, <2>1
  <2>3. Comes(e, zero, p, l, seg, U)
    BY <1>1, <1>2, <2>1, <2>2, SuffixComes, Zenon
  <2>. QED BY <2>1, <2>3
<1>6. n <= Len(i) => Len(j) = Len(i) - n
  BY <1>1
<1>. QED BY <1>1, <1>3, <1>4, <1>5, <1>6 DEF e

LEMMA FetchesSkip ==
  ASSUME NEW b \in Seq(Token), NEW C, C \subseteq Nat, NEW U, U \subseteq Version, NEW seg,
         NEW k, k.inp \in Seq(Token), NEW g, Fetches(k, b, C, g, seg, U),
         NEW n \in Nat, NEW k2, k2.inp = Drop(k.inp, n), ~Gets(k2), NEW g2
  PROVE  Fetches(k2, b, C, g2, seg, U)
<1>1. Framed(k.inp \o b, seg, U) /\ Unbroken(k.inp \o b, Len(k.inp), C)
  BY Zenon DEF Fetches
<1>2. Framed(k2.inp \o b, seg, U) /\ Unbroken(k2.inp \o b, Len(k2.inp), C)
  BY <1>1, StreamDrop, Zenon
<1>. QED BY <1>2, Zenon DEF Fetches
-----------------------------------------------------------------------------
(* The four parts of a version, put together.                              *)
LEMMA SliceJoin ==
  ASSUME NEW v \in Version, NEW off \in Nat, NEW m \in Nat, NEW n \in Nat
  PROVE  Slice(v, off, m) \o Slice(v, off + m, n) = Slice(v, off, m + n)
<1> DEFINE x == Slice(v, off, m)
           y == Slice(v, off + m, n)
           z == Slice(v, off, m + n)
<1>0. off + m \in Nat /\ m + n \in Nat
  OBVIOUS
<1>1. /\ x \in Seq(Written) /\ Len(x) = m /\ y \in Seq(Written) /\ Len(y) = n
      /\ z \in Seq(Written) /\ Len(z) = m + n
  BY <1>0, SliceType, Zenon
<1>2. /\ \A i \in 1..m : x[i] = Byte(v, off + i)
      /\ \A i \in 1..n : y[i] = Byte(v, (off + m) + i)
      /\ \A i \in 1..(m + n) : z[i] = Byte(v, off + i)
  BY Zenon DEF Slice
<1>. HIDE DEF x, y, z
<1>3. x \o y \in Seq(Written) /\ Len(x \o y) = m + n
  BY <1>1, ConcatProperties
<1>4. ASSUME NEW i \in 1..(m + n) PROVE (x \o y)[i] = z[i]
  <2>1. (x \o y)[i] = IF i <= Len(x) THEN x[i] ELSE y[i - Len(x)]
    BY <1>1, ConcatProperties
  <2>2. CASE i <= m
    <3>1. i \in 1..m
      BY <2>2
    <3>. QED BY <1>1, <1>2, <2>1, <2>2, <3>1
  <2>3. CASE ~(i <= m)
    <3>1. i - m \in 1..n /\ (off + m) + (i - m) = off + i
      BY <2>3
    <3>2. y[i - m] = Byte(v, (off + m) + (i - m))
      BY <1>2, <3>1, Zenon
    <3>. QED BY <1>1, <1>2, <2>1, <2>3, <3>1, <3>2
  <2>. QED BY <2>2, <2>3
<1>5. x \o y = z
  BY <1>1, <1>3, <1>4, SeqEqual
<1>. QED BY <1>5 DEF x, y, z

LEMMA WholeFileAssembled ==
  ASSUME NEW v \in Version, NEW t, \A p \in Part : t[p] = PartOf(v, p)
  PROVE  Assembled(t) = WholeFile(v)
<1> DEFINE z == Size(v)
           L(p) == PartLength(z, p)
           O(p) == PartOffset(z, p)
<1>1. z \in Nat
  BY ChannelAssumption
<1>2. \A p \in Part : L(p) \in Nat /\ O(p) \in Nat
  BY <1>1, PartSliceType
<1>3. /\ O(1) = 0
      /\ \A p \in 1..3 : O(p + 1) = O(p) + L(p)
      /\ O(4) + L(4) = z
  BY <1>1, PartsTile
<1>4. /\ t[1] = Slice(v, O(1), L(1)) /\ t[2] = Slice(v, O(2), L(2))
      /\ t[3] = Slice(v, O(3), L(3)) /\ t[4] = Slice(v, O(4), L(4))
  BY DEF Part, PartOf
<1>. HIDE DEF z, L, O
<1>5. /\ L(1) \in Nat /\ L(2) \in Nat /\ L(3) \in Nat /\ L(4) \in Nat
      /\ O(1) = 0 /\ O(2) = 0 + L(1) /\ O(3) = 0 + (L(1) + L(2)) /\ O(4) = 0 + ((L(1) + L(2)) + L(3))
      /\ z = ((L(1) + L(2)) + L(3)) + L(4)
  <2>1. L(1) \in Nat /\ L(2) \in Nat /\ L(3) \in Nat /\ L(4) \in Nat
    BY <1>2 DEF Part
  <2>2. O(2) = O(1) + L(1) /\ O(3) = O(2) + L(2) /\ O(4) = O(3) + L(3)
    <3>1. O(1 + 1) = O(1) + L(1) /\ O(2 + 1) = O(2) + L(2) /\ O(3 + 1) = O(3) + L(3)
      BY <1>3
    <3>2. 1 + 1 = 2 /\ 2 + 1 = 3 /\ 3 + 1 = 4
      OBVIOUS
    <3>. QED BY <3>1, <3>2
  <2>3. O(1) = 0 /\ O(4) + L(4) = z
    BY <1>3
  <2>. QED BY <2>1, <2>2, <2>3
<1> DEFINE a == L(1)
           b == L(2)
           c == L(3)
           d == L(4)
           null == 0
<1>6. null \in Nat /\ a \in Nat /\ b \in Nat /\ c \in Nat /\ d \in Nat /\ a + b \in Nat /\ (a + b) + c \in Nat
  BY <1>5
<1>7. /\ t[1] = Slice(v, null, a) /\ t[2] = Slice(v, null + a, b) /\ t[3] = Slice(v, null + (a + b), c)
      /\ t[4] = Slice(v, null + ((a + b) + c), d) /\ WholeFile(v) = Slice(v, null, ((a + b) + c) + d)
  BY <1>4, <1>5 DEF WholeFile, z
<1>. HIDE DEF a, b, c, d, null
<1>8. \A m, n \in Nat : Slice(v, null, m) \o Slice(v, null + m, n) = Slice(v, null, m + n)
  BY <1>6, SliceJoin, Zenon
<1>9. t[1] \o t[2] = Slice(v, null, a + b)
  BY <1>6, <1>7, <1>8, Zenon
<1>10. t[1] \o t[2] \o t[3] \o t[4] = Slice(v, null, ((a + b) + c) + d)
  <2>1. t[1] \o t[2] \o t[3] = Slice(v, null, (a + b) + c)
    BY <1>6, <1>7, <1>8, <1>9, Zenon
  <2>. QED BY <1>6, <1>7, <1>8, <2>1, Zenon
<1>. QED BY <1>7, <1>10 DEF Assembled

-----------------------------------------------------------------------------
(* What GET has in its folders.                                            *)
LEMMA FilesMore ==
  ASSUME NEW U, NEW U2, U \subseteq U2, NEW t, NEW x, FilesOf(t, x, U)
  PROVE  FilesOf(t, x, U2)
BY Zenon DEF FilesOf, Fetched

(* What is brought together.                                               *)
LEMMA BroughtJoined ==
  ASSUME WholeWrites, NEW a \in Seq(Token), NEW b \in Seq(Token), NEW x, NEW y, Brought(x, a), Brought(y, b)
  PROVE  Brought(x \o y, a \o b)
<1>1. x \in Seq(Token) /\ y \in Seq(Token) /\ Len(x) = Len(a) /\ Len(y) = Len(b)
  BY Zenon DEF Brought
<1>2. /\ \A n \in 1..Len(x) : x[n] = a[n] \/ (~InWrites /\ x[n] = Garbage)
      /\ \A n \in 1..Len(y) : y[n] = b[n] \/ (~InWrites /\ y[n] = Garbage)
  BY Zenon DEF Brought
<1>3. Len(x) \in Nat /\ Len(y) \in Nat
  BY <1>1, LenProperties
<1> DEFINE d == x \o y
           e == a \o b
<1>4. /\ d \in Seq(Token) /\ Len(d) = Len(x) + Len(y) /\ Len(e) = Len(x) + Len(y)
      /\ \A n \in 1..(Len(x) + Len(y)) : d[n] = IF n <= Len(x) THEN x[n] ELSE y[n - Len(x)]
      /\ \A n \in 1..(Len(x) + Len(y)) : e[n] = IF n <= Len(x) THEN a[n] ELSE b[n - Len(x)]
  <2>1. /\ d \in Seq(Token) /\ Len(d) = Len(x) + Len(y)
        /\ \A n \in 1..(Len(x) + Len(y)) : d[n] = IF n <= Len(x) THEN x[n] ELSE y[n - Len(x)]
    BY <1>1, ConcatProperties
  <2>2. /\ Len(e) = Len(a) + Len(b)
        /\ \A n \in 1..(Len(a) + Len(b)) : e[n] = IF n <= Len(a) THEN a[n] ELSE b[n - Len(a)]
    BY ConcatProperties
  <2>. HIDE DEF d, e
  <2>. QED BY <1>1, <2>1, <2>2, Zenon
<1>. HIDE DEF d, e
<1>5. ASSUME NEW n \in 1..(Len(x) + Len(y)) PROVE d[n] = e[n] \/ (~InWrites /\ d[n] = Garbage)
  <2>1. CASE n <= Len(x)
    <3>1. n \in 1..Len(x)
      BY <1>3, <2>1
    <3>. QED BY <1>2, <1>4, <2>1, <3>1
  <2>2. CASE ~(n <= Len(x))
    <3>1. n - Len(x) \in 1..Len(y)
      BY <1>3, <2>2
    <3>2. d[n] = y[n - Len(x)] /\ e[n] = b[n - Len(x)]
      BY <1>4, <2>2
    <3>. QED BY <1>2, <3>1, <3>2, Zenon
  <2>. QED BY <2>1, <2>2
<1>6. Len(d) <= Len(e) /\ Len(d) = Len(e)
  BY <1>3, <1>4
<1>7. \A n \in 1..Len(d) : d[n] = e[n] \/ (~InWrites /\ d[n] = Garbage)
  BY <1>4, <1>5
<1>8. Brought(d, e)
  BY <1>4, <1>6, <1>7, Zenon DEF Brought
<1>. QED BY <1>8 DEF d, e

LEMMA BroughtWhole ==
  ASSUME WholeWrites, NEW v \in Version, NEW t, \A p \in Part : Brought(t[p], PartOf(v, p))
  PROVE  Brought(Assembled(t), WholeFile(v))
<1> DEFINE y == [p \in Part |-> PartOf(v, p)]
<1>1. \A p \in Part : y[p] \in Seq(Token)
  <2>1. ASSUME NEW p \in Part PROVE y[p] \in Seq(Token)
    BY PartTextType, NotPutWritten
  <2>. QED BY <2>1
<1>2. Assembled(y) = WholeFile(v)
  <2>1. \A p \in Part : y[p] = PartOf(v, p)
    OBVIOUS
  <2>. HIDE DEF y
  <2>. QED BY <2>1, WholeFileAssembled, Zenon
<1>3. \A p \in Part : Brought(t[p], y[p])
  OBVIOUS
<1>4. 1 \in Part /\ 2 \in Part /\ 3 \in Part /\ 4 \in Part
  BY DEF Part
<1>. HIDE DEF y
<1>5. /\ y[1] \in Seq(Token) /\ y[2] \in Seq(Token) /\ y[3] \in Seq(Token) /\ y[4] \in Seq(Token)
      /\ Brought(t[1], y[1]) /\ Brought(t[2], y[2]) /\ Brought(t[3], y[3]) /\ Brought(t[4], y[4])
  BY <1>1, <1>3, <1>4
<1>6. y[1] \o y[2] \in Seq(Token) /\ y[1] \o y[2] \o y[3] \in Seq(Token)
  BY <1>5, ConcatProperties
<1>7. Brought(t[1] \o t[2], y[1] \o y[2])
  BY <1>5, BroughtJoined
<1>8. Brought(t[1] \o t[2] \o t[3], y[1] \o y[2] \o y[3])
  BY <1>5, <1>6, <1>7, BroughtJoined
<1>9. Brought(t[1] \o t[2] \o t[3] \o t[4], y[1] \o y[2] \o y[3] \o y[4])
  BY <1>5, <1>6, <1>8, BroughtJoined
<1>. QED BY <1>2, <1>9, Zenon DEF Assembled

LEMMA FileBuilderKeeps ==
  ASSUME NEW U, U \subseteq Version, NEW q, NEW h \in GetRun(q), FilesOf(h.tmp, h.got, U),
         NEW f, NEW p \in Part, NEW v \in U, NEW data, Brought(data, PartOf(v, p))
  PROVE  LET g == FileBuilder(h, f, p, data) IN FilesOf(g.tmp, g.got, U) /\ g.q = h.q
<1> DEFINE g == FileBuilder(h, f, p, data)
           t == [h.tmp EXCEPT ![p] = data]
           x == IF \E i \in Part : t[i] = NoPart THEN h.got ELSE Assembled(t)
<1>1. h.tmp \in PartFiles /\ Part \subseteq Number
  BY ChannelAssumption DEF GetRun
<1>2. t[p] = data /\ \A i \in Part : i # p => t[i] = h.tmp[i]
  BY <1>1 DEF PartFiles
<1>3. \A i \in Part : Fetched(t[i], i, U)
  <2>1. ASSUME NEW i \in Part PROVE Fetched(t[i], i, U)
    <3>1. CASE i = p
      BY <1>2, <3>1, Zenon DEF Fetched
    <3>2. CASE i # p
      BY <1>2, <3>2, Zenon DEF FilesOf
    <3>. QED BY <3>1, <3>2
  <2>. QED BY <2>1
<1>. HIDE DEF t
<1>4. ASSUME OneVersion, WholeWrites, x # NoPart PROVE \E w \in U : Brought(x, WholeFile(w))
  <2>1. CASE \E i \in Part : t[i] = NoPart
    BY <1>4, <2>1, Zenon DEF FilesOf
  <2>2. CASE ~\E i \in Part : t[i] = NoPart
    <3>1. \A i \in Part : Brought(t[i], PartOf(v, i))
      <4>1. ASSUME NEW i \in Part PROVE Brought(t[i], PartOf(v, i))
        <5>1. PICK w \in U : Brought(t[i], PartOf(w, i))
          BY <1>3, <2>2, Zenon DEF Fetched
        <5>2. w = v
          BY <1>4 DEF OneVersion
        <5>. QED BY <5>1, <5>2
      <4>. QED BY <4>1
    <3>2. Brought(Assembled(t), WholeFile(v))
      <4>1. v \in Version
        OBVIOUS
      <4>. QED BY <1>4, <3>1, <4>1, BroughtWhole, Zenon
    <3>. QED BY <2>2, <3>2, Zenon
  <2>. QED BY <2>1, <2>2
<1>5. FilesOf(t, x, U)
  BY <1>3, <1>4, Zenon DEF FilesOf
<1>6. g = h \/ g = [h EXCEPT !.tmp = t, !.got = x]
  BY Zenon DEF FileBuilder, t
<1>. HIDE DEF x, g
<1>7. FilesOf(g.tmp, g.got, U) /\ g.q = h.q
  <2>1. CASE g = h
    BY <2>1
  <2>2. CASE g = [h EXCEPT !.tmp = t, !.got = x]
    <3>1. g.tmp = t /\ g.got = x /\ g.q = h.q
      BY <2>2 DEF GetRun
    <3>. QED BY <1>5, <3>1
  <2>. QED BY <1>6, <2>1, <2>2
<1>. QED BY <1>7 DEF g

-----------------------------------------------------------------------------
(* One round of callback_get; b is still in the connection.                *)
RoundHolds(h, b, C, seg, U) ==
  /\ Framed(h.q.inp \o b, seg, U) /\ Unbroken(h.q.inp \o b, Len(h.q.inp), C)
  /\ h.q.m_get_state \notin {1, 3} => PartNext(h.q.inp, b, C, h, seg, U)
  /\ FilesOf(h.tmp, h.got, U)

(* The line "GOOD p l" is taken out of the buffer.                         *)
LEMMA GoodTaken ==
  ASSUME PlainFiles, NEW U, U \subseteq Version, NEW seg, NEW b \in Seq(Token), NEW C, C \subseteq Nat,
         NEW i \in Seq(Token), Framed(i \o b, seg, U), Unbroken(i \o b, Len(i), C),
         HasLine(i), LineOf(i) # <<>>, NEW t, t = LineOf(i)[Len(LineOf(i))], t.k = "GOOD",
         NEW g, g.partnum = t.p, g.size = t.l
  PROVE  PartNext(AfterLine(i), b, C, g, seg, U)
<1> DEFINE n == LineEnd(i)
           d == i \o b
           j == AfterLine(i)
<1>1. LineEnd(i) \in 1..Len(i) /\ Len(LineOf(i)) = LineEnd(i) - 1 /\ LineOf(i) \in Seq(Token)
      /\ \A m \in 1..(LineEnd(i) - 1) : LineOf(i)[m] = i[m]
  <2>1. LineOf(i) \in Seq(Token)
    BY PlainLines, Zenon
  <2>2. LineEnd(i) \in 1..Len(i) /\ Len(LineOf(i)) = LineEnd(i) - 1
        /\ \A m \in 1..(LineEnd(i) - 1) : LineOf(i)[m] = i[m]
    BY LineElements
  <2>. QED BY <2>1, <2>2
<1>2. Len(i) \in Nat /\ n \in Nat /\ n - 1 \in 1..Len(i) /\ n <= Len(i) /\ t = i[n - 1] /\ (n - 1) + 1 = n
  <2>1. Len(i) \in Nat /\ LineEnd(i) - 1 # 0
    <3>1. Len(LineOf(i)) # 0
      BY <1>1, EmptySeq
    <3>. QED BY <1>1, <3>1, LenProperties
  <2>2. n \in Nat /\ n - 1 \in 1..Len(i) /\ n <= Len(i) /\ n - 1 \in 1..(n - 1) /\ (n - 1) + 1 = n
    BY <1>1, <2>1
  <2>. HIDE DEF n
  <2>3. Len(LineOf(i)) = n - 1 /\ \A m \in 1..(n - 1) : LineOf(i)[m] = i[m]
    BY <1>1, Zenon DEF n
  <2>4. t = i[n - 1]
    BY <2>2, <2>3, Zenon
  <2>. QED BY <2>1, <2>2, <2>4
<1>3. n - 1 \in 1..Len(d) /\ d[n - 1] = t
  <2>1. Len(d) = Len(i) + Len(b) /\ Len(b) \in Nat
        /\ \A m \in 1..(Len(i) + Len(b)) : d[m] = IF m <= Len(i) THEN i[m] ELSE b[m - Len(i)]
    BY ConcatProperties, LenProperties
  <2>. HIDE DEF d, n
  <2>. QED BY <1>2, <2>1
<1>4. t.p \in Number /\ t.l \in Nat
  <2>1. t \in Token
    <3>. HIDE DEF n
    <3>. QED BY <1>2, ElementOfSeq, Zenon
  <2>. QED BY <2>1, GoodFields
<1>5. j = Drop(i, n)
  BY Zenon DEF AfterLine, Drop
<1>. HIDE DEF n, j, d
<1>6. Comes(d, (n - 1) + 1, t.p, t.l, seg, U) /\ Spared((n - 1) + 1, t.l, Len(i), C)
  BY <1>3, Zenon DEF Framed, Unbroken, d
<1>7. Comes(i \o b, n, t.p, t.l, seg, U) /\ Spared(n, t.l, Len(i), C)
  BY <1>2, <1>6 DEF d
<1>8. Len(j) = Len(i) - n /\ Comes(j \o b, 0, t.p, t.l, seg, U)
  BY <1>2, <1>5, <1>7, StreamDrop, Zenon
<1>9. Spared(0, t.l, Len(j), C)
  <2>1. ASSUME InWrites, NEW m \in C \cup {0} PROVE ~(0 < Len(j) + m /\ Len(j) + m < 0 + t.l)
    <3>1. ~(n < Len(i) + m /\ Len(i) + m < n + t.l)
      BY <1>7, <2>1, Zenon DEF Spared, Outside
    <3>. QED BY <1>2, <1>4, <1>8, <3>1
  <2>. QED BY <2>1, Zenon DEF Spared, Outside
<1>. QED BY <1>8, <1>9 DEF PartNext, j

(* The part that is due is taken out of the buffer.                        *)
Padded(i, l) == [n \in 1..l |-> IF n <= Len(Take(i, l)) THEN Take(i, l)[n] ELSE Garbage]

LEMMA PartTaken ==
  ASSUME NEW U, U \subseteq Version, NEW seg, NEW b \in Seq(Token), NEW C,
         NEW i \in Seq(Token), i # <<>>, NEW g, PartNext(i, b, C, g, seg, U)
  PROVE  g.partnum \in Part /\ \E v \in U : Brought(Padded(i, g.size), PartOf(v, g.partnum))
<1> DEFINE data == Padded(i, g.size)
           l == g.size
           p == g.partnum
           d == i \o b
<1>1. Comes(d, 0, p, l, seg, U) /\ Spared(0, l, Len(i), C)
  BY Zenon DEF PartNext
<1>2. PICK v \in U : Sized(v, p, l) /\ (Follows(d, 0, v, p, l) \/ (0 = Len(d) /\ Announced(seg, p, l)))
  BY <1>1, Zenon DEF Comes
<1> DEFINE y == PartOf(v, p)
<1>3. /\ p \in Part /\ l \in Nat /\ y \in Seq(Token) /\ l <= Len(y)
      /\ WholeWrites => l = Len(y)
  BY <1>2, SizedType
<1>4. /\ Len(i) \in Nat /\ Len(i) # 0 /\ Len(d) = Len(i) + Len(b) /\ Len(b) \in Nat
      /\ \A m \in 1..(Len(i) + Len(b)) : d[m] = IF m <= Len(i) THEN i[m] ELSE b[m - Len(i)]
  BY ConcatProperties, LenProperties, EmptySeq
<1>. HIDE DEF d
<1>5. ASSUME InWrites PROVE l <= Len(i)
  <2>1. ~(0 < Len(i) + 0 /\ Len(i) + 0 < 0 + l)
    BY <1>1, <1>5, Zenon DEF Spared, Outside
  <2>. QED BY <1>3, <1>4, <2>1
<1>6. \A j \in 1..l : j <= Len(i) => i[j] = y[j]
  <2>1. \A j \in 1..l : d[0 + j] = y[j]
    <3>1. 0 # Len(d)
      BY <1>4
    <3>. QED BY <1>2, <3>1 DEF Follows
  <2>2. ASSUME NEW j \in 1..l, j <= Len(i) PROVE d[0 + j] = i[j]
    <3>1. 0 + j = j /\ j \in 1..(Len(i) + Len(b)) /\ j <= Len(i)
      BY <1>3, <1>4, <2>2
    <3>. QED BY <1>4, <3>1
  <2>. QED BY <2>1, <2>2
<1> DEFINE have == Take(i, l)
<1>7. /\ Len(have) = IF l < Len(i) THEN l ELSE Len(i)
      /\ \A j \in 1..Len(have) : have[j] = i[j]
  BY <1>3, TakeElements
<1>. HIDE DEF have
<1>8. data = [n \in 1..l |-> IF n <= Len(have) THEN have[n] ELSE Garbage]
  BY DEF have, Padded, data
<1>. HIDE DEF l, p, data, y
<1>9. ASSUME NEW n \in 1..l
      PROVE  data[n] \in Token /\ (data[n] = y[n] \/ (~InWrites /\ data[n] = Garbage))
  <2>1. CASE n <= Len(have)
    <3>1. n \in 1..Len(have) /\ n <= Len(i) /\ n \in 1..Len(y)
      BY <1>3, <1>4, <1>7, <2>1
    <3>2. data[n] = have[n] /\ have[n] = i[n] /\ i[n] = y[n]
      BY <1>6, <1>7, <1>8, <2>1, <3>1
    <3>3. y[n] \in Token
      BY <1>3, <3>1, ElementOfSeq
    <3>. QED BY <3>2, <3>3
  <2>2. CASE ~(n <= Len(have))
    <3>1. ~InWrites
      BY <1>3, <1>4, <1>5, <1>7, <2>2
    <3>2. data[n] = Garbage
      BY <1>8, <2>2
    <3>3. Garbage \in Token
      BY DEF Garbage, Token
    <3>. QED BY <3>1, <3>2, <3>3
  <2>. QED BY <2>1, <2>2
<1>10. data \in Seq(Token) /\ Len(data) = l
  <2>1. data \in [1..l -> Token]
    BY <1>8, <1>9
  <2>2. \A n \in Nat : \A f \in [1..n -> Token] : f \in Seq(Token) /\ Len(f) = n
    BY FunctionIsSeq, Zenon
  <2>. QED BY <1>3, <2>1, <2>2, Zenon
<1>11. Brought(data, y)
  BY <1>3, <1>9, <1>10, Zenon DEF Brought
<1>. QED BY <1>3, <1>11 DEF l, p, data, y
-----------------------------------------------------------------------------
LEMMA RoundKeeps ==
  ASSUME PlainFiles, NEW U, U \subseteq Version, NEW seg, NEW b \in Seq(Token), NEW C, C \subseteq Nat,
         NEW q \in ClientConnection, NEW h \in GetRun(q), RoundHolds(h, b, C, seg, U), NEW f,
         NEW g, g = GetRound(h, f)
  PROVE  RoundHolds(g, b, C, seg, U)
<1> DEFINE r    == h.q
           i    == r.inp
           line == LineOf(i)
           data == Padded(i, h.size)
<1>1. r \in Rest(q) /\ h.size \in Nat
  BY DEF GetRun
<1>2. r \in ClientConnection /\ i \in Seq(Told) /\ i \in Seq(Token)
  <2>1. r \in ClientConnection
    BY <1>1 DEF Rest
  <2>2. i \in Seq(Told)
    BY <2>1 DEF ClientConnection
  <2>. QED BY <2>1, <2>2, ToldTokens
<1>3. /\ r.m_get_state \notin {1, 3} => PartNext(i, b, C, h, seg, U)
      /\ FilesOf(h.tmp, h.got, U)
  BY Zenon DEF RoundHolds
<1>10. Framed(i \o b, seg, U) /\ Unbroken(i \o b, Len(i), C)
  BY Zenon DEF RoundHolds
<1>4. ASSUME NEW go, g = [h EXCEPT !.go = go] PROVE RoundHolds(g, b, C, seg, U)
  <2>1. g.q = h.q /\ g.partnum = h.partnum /\ g.size = h.size /\ g.tmp = h.tmp /\ g.got = h.got
    BY <1>4 DEF GetRun
  <2>. QED BY <1>3, <1>10, <2>1, Zenon DEF RoundHolds, PartNext
<1>5. CASE h.go # "on"
  <2>1. g = h
    BY <1>5, Zenon DEF GetRound
  <2>. QED BY <2>1
<1>6. CASE h.go = "on" /\ r.m_get_state \in {1, 3} /\ ~HasLine(i)
  <2>1. g = [h EXCEPT !.go = WithoutLine(r.m_get_state)]
    BY <1>6, Zenon DEF GetRound
  <2>. QED BY <1>4, <2>1
<1>7. CASE h.go = "on" /\ r.m_get_state \in {1, 3} /\ HasLine(i)
  <2>. DEFINE n == LineEnd(i)
              j == AfterLine(i)
  <2>1. n \in Nat /\ j = Drop(i, n)
    <3>1. n \in 1..Len(i) /\ Len(i) \in Nat
      BY <1>2, <1>7, LineEndInside, LenProperties
    <3>. QED BY <3>1 DEF AfterLine, Drop
  <2>. HIDE DEF n
  <2>2. Framed(j \o b, seg, U) /\ Unbroken(j \o b, Len(j), C)
    <3>. HIDE DEF i, j
    <3>. QED BY <1>2, <1>10, <2>1, StreamDrop, Zenon
  <2>3. CASE line = <<>> \/ line[Len(line)].k # "GOOD"
    <3>1. g = [h EXCEPT !.q.inp = j, !.go = "break"]
      BY <1>7, <2>3, Zenon DEF GetRound
    <3>. HIDE DEF j
    <3>2. /\ g.q.inp = j /\ g.q.m_get_state = r.m_get_state
          /\ g.tmp = h.tmp /\ g.got = h.got
      BY <1>2, <3>1 DEF GetRun, ClientConnection
    <3>3. g.q.m_get_state \in {1, 3} /\ FilesOf(g.tmp, g.got, U)
      BY <1>3, <1>7, <3>2
    <3>. QED BY <2>2, <3>2, <3>3, Zenon DEF RoundHolds
  <2>4. CASE ~(line = <<>> \/ line[Len(line)].k # "GOOD")
    <3>. DEFINE t == line[Len(line)]
                p == t.p
                l == t.l
    <3>1. g = [h EXCEPT !.q.inp = j, !.q.m_get_state = 2, !.partnum = p, !.size = l]
      BY <1>7, <2>4, Zenon DEF GetRound
    <3>2. t.k = "GOOD"
      BY <2>4
    <3>. HIDE DEF j, p, l
    <3>. DEFINE r2 == [r EXCEPT !.inp = j, !.m_get_state = 2]
    <3>7. g = [h EXCEPT !.q = r2, !.partnum = p, !.size = l] /\ r2.inp = j
      BY <1>2, <3>1 DEF GetRun, ClientConnection
    <3>. HIDE DEF r2
    <3>3. /\ g.q.inp = j /\ g.partnum = p /\ g.size = l
          /\ g.tmp = h.tmp /\ g.got = h.got
      BY <3>7 DEF GetRun
    <3>. HIDE DEF t
    <3>4. g.partnum = t.p /\ g.size = t.l
      BY <3>3 DEF p, l
    <3>5. PartNext(AfterLine(i), b, C, g, seg, U)
      <4>1. t = LineOf(i)[Len(LineOf(i))] /\ LineOf(i) # <<>>
        BY <2>4 DEF t
      <4>. HIDE DEF i
      <4>. QED BY <1>2, <1>10, <1>7, <3>2, <3>4, <4>1, GoodTaken, Zenon
    <3>6. PartNext(j, b, C, g, seg, U)
      BY <3>5 DEF j
    <3>8. PartNext(g.q.inp, b, C, g, seg, U) /\ FilesOf(g.tmp, g.got, U)
      BY <1>3, <3>3, <3>6, Zenon
    <3>. QED BY <2>2, <3>3, <3>8, Zenon DEF RoundHolds
  <2>. QED BY <2>3, <2>4
<1>8. CASE h.go = "on" /\ r.m_get_state \notin {1, 3} /\ i = <<>>
  <2>1. g = [h EXCEPT !.go = "return"]
    BY <1>8, Zenon DEF GetRound
  <2>. QED BY <1>4, <2>1
<1>9. CASE h.go = "on" /\ r.m_get_state \notin {1, 3} /\ i # <<>>
  <2>. DEFINE j == Drop(i, h.size)
              h2 == [h EXCEPT !.q.inp = j, !.q.m_get_state = 3]
              r2 == [r EXCEPT !.inp = j, !.m_get_state = 3]
  <2>1. g = FileBuilder(h2, f, h.partnum, data)
    BY <1>9, Zenon DEF GetRound, Padded
  <2>2. Framed(j \o b, seg, U) /\ Unbroken(j \o b, Len(j), C)
    <3>. DEFINE n == h.size
    <3>1. n \in Nat /\ j = Drop(i, n)
      BY <1>1
    <3>. HIDE DEF i, j, n
    <3>. QED BY <1>2, <1>10, <3>1, StreamDrop, Zenon
  <2>3. h.partnum \in Part /\ \E v \in U : Brought(data, PartOf(v, h.partnum))
    <3>1. PartNext(i, b, C, h, seg, U)
      BY <1>3, <1>9
    <3>2. i \in Seq(Token) /\ i # <<>>
      BY <1>2, <1>9
    <3>3. data = Padded(i, h.size)
      OBVIOUS
    <3>. HIDE DEF i, data
    <3>4. h.partnum \in Part /\ \E v \in U : Brought(Padded(i, h.size), PartOf(v, h.partnum))
      BY <3>1, <3>2, PartTaken
    <3>. QED BY <3>3, <3>4
  <2>4. r2 \in Rest(q)
    <3>1. 3 \in 0..3
      OBVIOUS
    <3>. QED BY <1>1, <3>1, RestDrops, Zenon
  <2>. HIDE DEF j, data
  <2>5. /\ h2 = [h EXCEPT !.q = r2] /\ r2.inp = j /\ r2.m_get_state = 3
    BY <1>2 DEF GetRun, ClientConnection
  <2>. HIDE DEF r2
  <2>6. /\ h2 \in GetRun(q) /\ h2.q = r2 /\ h2.tmp = h.tmp /\ h2.got = h.got
    BY <2>4, <2>5 DEF GetRun
  <2>. HIDE DEF h2
  <2>7. g.q = h2.q /\ FilesOf(g.tmp, g.got, U)
    <3>1. FilesOf(h2.tmp, h2.got, U)
      BY <1>3, <2>6
    <3>. DEFINE p == h.partnum
    <3>2. PICK v \in U : Brought(data, PartOf(v, p))
      BY <2>3
    <3>. DEFINE x == FileBuilder(h2, f, p, data)
    <3>3. p \in Part /\ g = x
      BY <2>1, <2>3, <3>2
    <3>. HIDE DEF p
    <3>4. x.q = h2.q /\ FilesOf(x.tmp, x.got, U)
      BY <2>6, <3>1, <3>2, <3>3, FileBuilderKeeps
    <3>. HIDE DEF x
    <3>. QED BY <3>3, <3>4
  <2>8. g.q.inp = j /\ g.q.m_get_state = 3
    BY <2>5, <2>6, <2>7
  <2>9. g.q.m_get_state \in {1, 3}
    BY <2>8
  <2>10. Framed(g.q.inp \o b, seg, U) /\ Unbroken(g.q.inp \o b, Len(g.q.inp), C)
    BY <2>2, <2>8
  <2>. QED BY <2>7, <2>9, <2>10, Zenon DEF RoundHolds
<1>. QED BY <1>5, <1>6, <1>7, <1>8, <1>9, Zenon

(* callback_get, after all its rounds.                                     *)
LEMMA RoundsKeep ==
  ASSUME PlainFiles, NEW U, U \subseteq Version, NEW seg, NEW b \in Seq(Token), NEW C, C \subseteq Nat,
         NEW q \in ClientConnection, NEW start \in GetRun(q), RoundHolds(start, b, C, seg, U), NEW f,
         NEW n \in Nat, NEW h \in Rounds(start, f)[n]
  PROVE  h \in GetRun(q) /\ RoundHolds(h, b, C, seg, U)
<1> DEFINE R == { g \in GetRun(q) : RoundHolds(g, b, C, seg, U) }
<1>1. start \in R
  OBVIOUS
<1>2. \A g \in R : GetRound(g, f) \in R
  <2>1. ASSUME NEW g \in GetRun(q), RoundHolds(g, b, C, seg, U)
        PROVE  GetRound(g, f) \in GetRun(q) /\ RoundHolds(GetRound(g, f), b, C, seg, U)
    BY <2>1, GetRoundType, RoundKeeps, Zenon
  <2>. QED BY <2>1
<1>3. \A g \in R : g \in GetRun(q) /\ RoundHolds(g, b, C, seg, U)
  OBVIOUS
<1>. HIDE DEF R
<1>4. \A m \in Nat : Rounds(start, f)[m] \subseteq R
  BY <1>1, <1>2, RoundsStay, Zenon
<1>. QED BY <1>3, <1>4, Zenon
-----------------------------------------------------------------------------
(* The output buffer of a server.  Text announces nothing that follows it  *)
(* in the next segment.                                                    *)
LEMMA Segments ==
  /\ NoSegment # Lost /\ NoSegment.file = NoFile
  /\ \A d : TextSeg(d).file = NoFile /\ TextSeg(d).data = d /\ TextSeg(d) = [data |-> d, file |-> NoFile, part |-> 0, len |-> Len(d)]
  /\ \A s : \A g \in Outputs(s) : g # Lost /\ (g.file = NoFile => g.data \in Seq(Told))
  /\ \A seg, seg2 : seg # Lost /\ seg.file = NoFile => StillAnnounced(seg, seg2)
<1>1. NoSegment # Lost /\ NoSegment.file = NoFile
  <2>1. NoSegment.len = 0 /\ Lost.len = 1 /\ NoSegment.file = NoFile
    BY EmptySeq DEF NoSegment, TextSeg, Lost, FileSeg
  <2>. QED BY <2>1
<1>2. \A d : TextSeg(d).file = NoFile /\ TextSeg(d).data = d /\ TextSeg(d) = [data |-> d, file |-> NoFile, part |-> 0, len |-> Len(d)]
  BY DEF TextSeg
<1>3. ASSUME NEW s, NEW g \in Outputs(s) PROVE g # Lost /\ (g.file = NoFile => g.data \in Seq(Told))
  <2>1. g \in TextSegs(Told) \/ g \in FileSegs(s)
    BY <1>3 DEF Outputs
  <2>2. Lost.file = NoFile /\ Lost.len = 1 /\ Lost.data = <<>> /\ Len(Lost.data) = 0
    BY EmptySeq DEF Lost, FileSeg
  <2>3. CASE g \in TextSegs(Told)
    <3>1. g.len = Len(g.data) /\ g.data \in Seq(Told)
      BY <2>3 DEF TextSegs
    <3>2. g # Lost
      BY <2>2, <3>1
    <3>. QED BY <3>1, <3>2
  <2>4. CASE g \in FileSegs(s)
    <3>1. g.file # NoFile
      BY <2>4, ChannelAssumption DEF FileSegs
    <3>. QED BY <2>2, <3>1
  <2>. QED BY <2>1, <2>3, <2>4
<1>4. \A seg, seg2 : seg # Lost /\ seg.file = NoFile => StillAnnounced(seg, seg2)
  BY Zenon DEF StillAnnounced, Announced
<1>. QED BY <1>1, <1>2, <1>3, <1>4, Zenon

Says(s, o, o2, U) ==
  /\ o2 \in Seq(Outputs(s)) /\ OutFramed(o2, NoSegment, disk[s], U)
  /\ StillAnnounced(Segment(o, 1, NoSegment), Segment(o2, 1, NoSegment))

LEMMA SaysTwice ==
  ASSUME NEW s, NEW U, NEW a, NEW b, NEW d, Says(s, a, b, U), Says(s, b, d, U)
  PROVE  Says(s, a, d, U)
BY Zenon DEF Says, StillAnnounced

LEMMA SaysSelf ==
  ASSUME NEW s, NEW U, NEW o \in Seq(Outputs(s)), OutFramed(o, NoSegment, disk[s], U)
  PROVE  Says(s, o, o, U)
BY Zenon DEF Says, StillAnnounced

(* A segment is put behind the others; the last of them, when it is text,  *)
(* announces it.                                                           *)
LEMMA OutAppend ==
  ASSUME NEW S, NEW o \in Seq(S), NEW D, NEW U, NEW g, OutFramed(o, g, D, U),
         IF g.file = NoFile THEN Framed(g.data, NoSegment, U) ELSE Listed(g, D, U)
  PROVE  /\ OutFramed(Append(o, g), NoSegment, D, U)
         /\ o # <<>> => Segment(Append(o, g), 1, NoSegment) = Segment(o, 1, NoSegment)
<1> DEFINE m == Len(o)
           z == Append(o, g)
<1>1. m \in Nat /\ Len(z) = m + 1 /\ z[m + 1] = g /\ \A n \in 1..m : z[n] = o[n]
  BY AppendProperties, LenProperties
<1>2. o # <<>> => m # 0
  BY EmptySeq
<1>. HIDE DEF m, z
<1>3. ASSUME NEW n \in 1..m PROVE Segment(z, n + 1, NoSegment) = Segment(o, n + 1, g)
  <2>1. CASE n = m
    <3>1. n + 1 \in 1..Len(z) /\ n + 1 \notin 1..Len(o)
      BY <1>1, <2>1 DEF m
    <3>. QED BY <1>1, <2>1, <3>1 DEF Segment
  <2>2. CASE n # m
    <3>1. n + 1 \in 1..Len(z) /\ n + 1 \in 1..Len(o) /\ n + 1 \in 1..m
      BY <1>1, <2>2 DEF m
    <3>. QED BY <1>1, <3>1 DEF Segment
  <2>. QED BY <2>1, <2>2
<1>4. Segment(z, (m + 1) + 1, NoSegment) = NoSegment
  BY <1>1 DEF Segment
<1>5. ASSUME NEW n \in 1..Len(z)
      PROVE  IF z[n].file = NoFile THEN Framed(z[n].data, Segment(z, n + 1, NoSegment), U) ELSE Listed(z[n], D, U)
  <2>1. CASE n = m + 1
    BY <1>1, <1>4, <2>1
  <2>2. CASE n # m + 1
    <3>1. n \in 1..m
      BY <1>1, <2>2
    <3>2. IF o[n].file = NoFile THEN Framed(o[n].data, Segment(o, n + 1, g), U) ELSE Listed(o[n], D, U)
      BY <3>1, Zenon DEF OutFramed, m
    <3>3. z[n] = o[n] /\ Segment(z, n + 1, NoSegment) = Segment(o, n + 1, g)
      BY <1>1, <1>3, <3>1
    <3>. QED BY <3>2, <3>3
  <2>. QED BY <2>1, <2>2
<1>6. OutFramed(z, NoSegment, D, U)
  BY <1>5, Zenon DEF OutFramed
<1>7. o # <<>> => Segment(z, 1, NoSegment) = Segment(o, 1, NoSegment)
  BY <1>1, <1>2 DEF Segment, m
<1>. QED BY <1>6, <1>7 DEF z

(* Text is added; g is what will be put behind it.                         *)
LEMMA TextAdded ==
  ASSUME NEW s, NEW U, U \subseteq Version, NEW o \in Seq(Outputs(s)), NEW D, OutFramed(o, NoSegment, D, U),
         NEW d \in Seq(Token), NEW g, Framed(d, g, U), NEW z, z = AddText(o, d)
  PROVE  OutFramed(z, g, D, U) /\ StillAnnounced(Segment(o, 1, NoSegment), Segment(z, 1, NoSegment))
<1> DEFINE m == Len(o)
<1>1. m \in Nat /\ (o # <<>> => m # 0) /\ (o = <<>> => m = 0)
  BY LenProperties, EmptySeq
<1>2. CASE o # <<>> /\ o[m].file = NoFile
  <2>. DEFINE x == TextSeg(o[m].data \o d)
  <2>1. z = [o EXCEPT ![m] = x] /\ m \in 1..m
    <3>1. z = [o EXCEPT ![m] = x]
      BY <1>2, Zenon DEF AddText
    <3>. QED BY <1>1, <1>2, <3>1
  <2>2. /\ o \in [1..m -> Outputs(s)] /\ o[m] \in Outputs(s)
    <3>1. o \in [1..m -> Outputs(s)]
      BY LenProperties
    <3>. QED BY <2>1, <3>1
  <2>3. Len(z) = m /\ z[m] = x /\ \A n \in 1..m : n # m => z[n] = o[n]
    <3>. HIDE DEF x
    <3>1. z \in [1..m -> Outputs(s) \cup {x}]
      BY <2>1, <2>2
    <3>2. Len(z) = m
      BY <1>1, <3>1, FunctionIsSeq
    <3>. QED BY <2>1, <2>2, <3>2
  <2>4. o[m].data \in Seq(Token) /\ o[m] # Lost /\ x.file = NoFile /\ x.data = o[m].data \o d /\ NoSegment # Lost
    BY <1>2, <2>2, Segments, ToldTokens
  <2>5. Framed(o[m].data, NoSegment, U)
    <3>1. m \in 1..Len(o) /\ m + 1 \notin 1..Len(o)
      BY <1>1, <2>1
    <3>2. Framed(o[m].data, Segment(o, m + 1, NoSegment), U)
      BY <1>2, <3>1 DEF OutFramed
    <3>. QED BY <3>1, <3>2 DEF Segment
  <2>6. Framed(x.data, g, U)
    <3>1. Carries(NoSegment, d, U)
      BY Segments, Zenon DEF Carries
    <3>2. Framed(o[m].data \o d, g, U)
      BY <2>4, <2>5, <3>1, FramedOn, Zenon
    <3>. QED BY <2>4, <3>2
  <2>. HIDE DEF m, x
  <2>7. ASSUME NEW n \in 1..Len(z)
        PROVE  IF z[n].file = NoFile THEN Framed(z[n].data, Segment(z, n + 1, g), U) ELSE Listed(z[n], D, U)
    <3>1. CASE n = m
      <4>1. n + 1 \notin 1..Len(z)
        BY <1>1, <2>3, <3>1
      <4>. QED BY <2>3, <2>4, <2>6, <3>1, <4>1 DEF Segment
    <3>2. CASE n # m
      <4>1. n \in 1..m /\ n + 1 \in 1..m /\ Len(o) = m
        BY <1>1, <2>3, <3>2 DEF m
      <4>2. IF o[n].file = NoFile THEN Framed(o[n].data, Segment(o, n + 1, NoSegment), U) ELSE Listed(o[n], D, U)
        BY <4>1, Zenon DEF OutFramed
      <4>3. z[n] = o[n] /\ Segment(o, n + 1, NoSegment) = o[n + 1] /\ Segment(z, n + 1, g) = z[n + 1]
        BY <2>3, <3>2, <4>1 DEF Segment
      <4>4. CASE n + 1 = m
        <5>1. StillAnnounced(o[n + 1], z[n + 1])
          BY <1>2, <2>4, <4>4, Segments
        <5>2. Framed(o[n].data, o[n + 1], U) => Framed(o[n].data, z[n + 1], U)
          <6>1. U \subseteq U
            OBVIOUS
          <6>2. ASSUME NEW e, NEW seg, NEW seg2, StillAnnounced(seg, seg2), Framed(e, seg, U) PROVE Framed(e, seg2, U)
            BY <6>1, <6>2, FramedMore, Zenon
          <6>. QED BY <5>1, <6>2, Zenon
        <5>. QED BY <4>2, <4>3, <5>2
      <4>5. CASE n + 1 # m
        BY <2>3, <4>1, <4>2, <4>3, <4>5
      <4>. QED BY <4>4, <4>5
    <3>. QED BY <3>1, <3>2
  <2>8. OutFramed(z, g, D, U)
    BY <2>7, Zenon DEF OutFramed
  <2>9. StillAnnounced(Segment(o, 1, NoSegment), Segment(z, 1, NoSegment))
    <3>1. 1 \in 1..m /\ Segment(o, 1, NoSegment) = o[1] /\ Segment(z, 1, NoSegment) = z[1]
      <4>1. 1 \in 1..m /\ Len(o) = m
        BY <1>1, <1>2 DEF m
      <4>. QED BY <2>3, <4>1 DEF Segment
    <3>2. CASE m = 1
      BY <1>2, <2>4, <3>1, <3>2, Segments
    <3>3. CASE m # 1
      <4>1. z[1] = o[1]
        BY <2>3, <3>1, <3>3
      <4>. QED BY <3>1, <4>1 DEF StillAnnounced
    <3>. QED BY <3>2, <3>3
  <2>. QED BY <2>8, <2>9
<1>3. CASE ~(o # <<>> /\ o[m].file = NoFile)
  <2>. DEFINE x == TextSeg(d)
  <2>1. z = Append(o, x)
    BY <1>3, Zenon DEF AddText
  <2>2. x.file = NoFile /\ x.data = d
    BY Segments
  <2>. HIDE DEF m, x
  <2>3. /\ Len(z) = m + 1 /\ z[m + 1] = x /\ \A n \in 1..m : z[n] = o[n]
    BY <2>1, AppendProperties DEF m
  <2>4. ASSUME NEW n \in 1..Len(z)
        PROVE  IF z[n].file = NoFile THEN Framed(z[n].data, Segment(z, n + 1, g), U) ELSE Listed(z[n], D, U)
    <3>1. CASE n = m + 1
      <4>1. n + 1 \notin 1..Len(z)
        BY <1>1, <2>3, <3>1
      <4>. QED BY <2>2, <2>3, <3>1, <4>1 DEF Segment
    <3>2. CASE n # m + 1
      <4>1. n \in 1..m /\ Len(o) = m /\ n + 1 \in 1..Len(z)
        BY <1>1, <2>3, <3>2 DEF m
      <4>2. IF o[n].file = NoFile THEN Framed(o[n].data, Segment(o, n + 1, NoSegment), U) ELSE Listed(o[n], D, U)
        BY <4>1, Zenon DEF OutFramed
      <4>3. CASE n = m
        <5>1. o[n].file # NoFile
          BY <1>1, <1>3, <4>1, <4>3
        <5>. QED BY <2>3, <4>1, <4>2, <5>1
      <4>4. CASE n # m
        <5>1. n + 1 \in 1..m
          BY <1>1, <4>1, <4>4
        <5>2. z[n] = o[n] /\ Segment(o, n + 1, NoSegment) = Segment(z, n + 1, g)
          BY <2>3, <4>1, <5>1 DEF Segment
        <5>. QED BY <4>2, <5>2
      <4>. QED BY <4>3, <4>4
    <3>. QED BY <3>1, <3>2
  <2>5. OutFramed(z, g, D, U)
    BY <2>4, Zenon DEF OutFramed
  <2>6. StillAnnounced(Segment(o, 1, NoSegment), Segment(z, 1, NoSegment))
    <3>1. CASE o = <<>>
      <4>1. Segment(o, 1, NoSegment) = NoSegment
        BY <1>1, <3>1 DEF Segment, m
      <4>. QED BY <4>1, Segments
    <3>2. CASE o # <<>>
      <4>1. 1 \in 1..m /\ Len(o) = m /\ 1 \in 1..Len(z)
        BY <1>1, <2>3, <3>2 DEF m
      <4>2. Segment(o, 1, NoSegment) = Segment(z, 1, NoSegment)
        BY <2>3, <4>1 DEF Segment
      <4>. QED BY <4>2 DEF StillAnnounced
    <3>. QED BY <3>1, <3>2
  <2>. QED BY <2>5, <2>6
<1>. QED BY <1>2, <1>3
-----------------------------------------------------------------------------
(* The answers of a server.                                                *)
LEMMA SaysText ==
  ASSUME NEW s \in Server, NEW U, U \subseteq Version, NEW o \in Seq(Outputs(s)),
         OutFramed(o, NoSegment, disk[s], U),
         NEW d \in Seq(Told), \A i \in 1..Len(d) : d[i].k # "GOOD"
  PROVE  Says(s, o, AddText(o, d), U)
<1>1. \A g \in FileSegs(s) : g.file # NoFile
  BY ChannelAssumption DEF FileSegs
<1>2. AddText(o, d) \in Seq(Outputs(s))
  BY <1>1, AddTextType DEF Outputs
<1>3. d \in Seq(Token)
  BY ToldTokens
<1>4. Framed(d, NoSegment, U)
  BY FramedText, Zenon
<1>5. /\ OutFramed(AddText(o, d), NoSegment, disk[s], U)
      /\ StillAnnounced(Segment(o, 1, NoSegment), Segment(AddText(o, d), 1, NoSegment))
  BY <1>3, <1>4, TextAdded, Zenon
<1>. QED BY <1>2, <1>5, Zenon DEF Says

LEMMA SaysLine ==
  ASSUME NEW s \in Server, NEW U, U \subseteq Version, NEW o \in Seq(Outputs(s)),
         OutFramed(o, NoSegment, disk[s], U), NEW t \in {Ready, Invalid, Bad, Terminal}
  PROVE  Says(s, o, AddText(o, TextLine(t)), U)
<1> DEFINE d == TextLine(t)
<1>1. t \in Answers(s) /\ Newline \in Answers(s) /\ t.k # "GOOD" /\ Newline.k # "GOOD"
  BY DEF Answers, Ready, Invalid, Bad, Terminal, Newline
<1>2. t \in Told /\ Newline \in Told
  BY <1>1, Directions
<1>3. d \in Seq(Told)
  BY <1>2, TextLineType
<1>4. \A i \in 1..Len(d) : d[i].k # "GOOD"
  BY <1>1 DEF TextLine
<1>. HIDE DEF d
<1>5. Says(s, o, AddText(o, d), U)
  BY <1>3, <1>4, SaysText, Zenon
<1>. QED BY <1>5 DEF d

(* What is stored of a part is its beginning.                              *)
PartBegins(s, v, p, x) ==
  /\ x \in Seq(Token) /\ Len(x) \in Nat /\ PartLength(Size(v), p) \in Nat /\ Len(x) <= PartLength(Size(v), p)
  /\ \A i \in 1..Len(x) : x[i] = PartOf(v, p)[i] /\ x[i].k = "byte"
  /\ WholeWrites /\ fate[s] = "up" => Len(x) = PartLength(Size(v), p)

LEMMA PartPrefix ==
  ASSUME NEW s, NEW v \in Version, NEW p \in Part, NEW x, IsPart(x, s, v, p)
  PROVE  PartBegins(s, v, p, x)
<1> DEFINE y == PartOf(v, p)
           l == PartLength(Size(v), p)
<1>1. /\ y \in Seq(Token) /\ Len(y) = l /\ l \in Nat
      /\ \A i \in 1..Len(y) : y[i].k = "byte"
  <2>1. /\ l \in Nat /\ y \in Seq(NotPut) /\ Len(y) = l
        /\ \A i \in 1..Len(y) : y[i].k = "byte"
    BY PartTextType
  <2>. QED BY <2>1, NotPutWritten
<1>. HIDE DEF y, l
<1>2. CASE x = y
  BY <1>1, <1>2 DEF PartBegins, y, l
<1>3. CASE MayBeTorn(s) /\ Begins(x, y)
  <2>1. PICK n \in 0..Len(y) : x = Take(y, n)
    BY <1>3, Zenon DEF Begins
  <2>2. n \in Nat /\ n <= l
    BY <1>1, <2>1
  <2>3. /\ x \in Seq(Token) /\ Len(x) = IF n < Len(y) THEN n ELSE Len(y)
        /\ \A i \in 1..Len(x) : x[i] = y[i]
    BY <1>1, <2>1, <2>2, TakeElements
  <2>4. Len(x) \in Nat /\ Len(x) <= l
    BY <1>1, <2>2, <2>3
  <2>5. ASSUME NEW i \in 1..Len(x) PROVE x[i] = y[i] /\ x[i].k = "byte"
    <3>1. i \in 1..Len(y)
      BY <1>1, <2>4
    <3>. QED BY <1>1, <2>3, <3>1
  <2>6. ~(WholeWrites /\ fate[s] = "up")
    BY <1>3, Zenon DEF MayBeTorn, WholeWrites
  <2>. QED BY <1>1, <2>3, <2>4, <2>5, <2>6 DEF PartBegins, y, l
<1>. QED BY <1>2, <1>3, Zenon DEF IsPart, y

(* A part is announced and put behind its announcement.                    *)
LEMMA SaysPart ==
  ASSUME NEW s \in Server, disk[s] \in Files(Written), NEW U, U \subseteq Version, PartsRight(disk[s], s, U), fate[s] = "up",
         NEW f \in File, NEW p \in Part, NEW o \in Seq(Outputs(s)), OutFramed(o, NoSegment, disk[s], U)
  PROVE  Says(s, o, AddPart(o, s, f, p), U)
<1> DEFINE n == Len(disk[s][f][p])
           d == TextLine(Good(p, n))
           g == FileSeg(f, p, n)
           a == AddText(o, d)
           z == AddPart(o, s, f, p)
<1>1. CASE p \notin PartsIn(s, f)
  <2>1. z = o
    BY <1>1, Zenon DEF AddPart
  <2>. QED BY <2>1, SaysSelf
<1>2. CASE p \in PartsIn(s, f)
  <2>1. disk[s][f][p] # NoPart
    BY <1>2 DEF PartsIn
  <2>2. PICK v \in U : IsPart(disk[s][f][p], s, v, p)
    <3>1. p \in Number
      BY ChannelAssumption
    <3>. QED BY <2>1, <3>1, Zenon DEF PartsRight
  <2>3. n \in Nat /\ PartLength(Size(v), p) \in Nat /\ n <= PartLength(Size(v), p)
        /\ (WholeWrites => n = PartLength(Size(v), p))
    <3>. DEFINE x == disk[s][f][p]
    <3>1. IsPart(x, s, v, p) /\ v \in Version
      BY <2>2
    <3>. HIDE DEF x
    <3>2. PartBegins(s, v, p, x)
      BY <3>1, PartPrefix, Zenon
    <3>. QED BY <3>2 DEF PartBegins, x
  <2>4. Sized(v, p, n)
    BY <2>3 DEF Sized
  <2>5. z \in Seq(Outputs(s)) /\ a \in Seq(Outputs(s)) /\ d \in Seq(Token)
    <3>1. Answers(s) \ {Ready} \subseteq Told
      BY Directions
    <3>2. z \in Seq(Outputs(s))
      BY <3>1, AddPartType DEF Outputs
    <3>3. Good(p, n) \in Answers(s) /\ Newline \in Answers(s)
      BY <2>3 DEF Answers
    <3>4. d \in Seq(Told)
      BY <3>3, TextLineType, Directions
    <3>5. \A e \in FileSegs(s) : e.file # NoFile
      BY ChannelAssumption DEF FileSegs
    <3>6. a \in Seq(Outputs(s))
      BY <3>4, <3>5, AddTextType DEF Outputs
    <3>. QED BY <3>2, <3>4, <3>6, ToldTokens
  <2>6. d[1].k = "GOOD" /\ d[1].p = p /\ d[1].l = n /\ d[2] = Newline /\ Len(d) = 2 /\ d[2].k # "GOOD"
    BY DEF TextLine, Good, Newline
  <2>7. z = AddFile(a, f, p, n)
    BY <1>2, Zenon DEF AddPart
  <2>8. g.file = f /\ g.part = p /\ g.len = n /\ g.file # NoFile
    BY ChannelAssumption DEF FileSeg
  <2>. HIDE DEF d, n
  <2>9. ASSUME NEW x, Comes(d, 2, p, n, x, U) PROVE Framed(d, x, U)
    <3>1. ASSUME NEW i \in 1..Len(d), d[i].k = "GOOD"
          PROVE  i < Len(d) /\ d[i + 1] = Newline /\ Comes(d, i + 1, d[i].p, d[i].l, x, U)
      <4>1. i = 1 /\ i + 1 = 2
        BY <2>6, <3>1
      <4>2. d[i].p = p /\ d[i].l = n
        BY <2>6, <4>1
      <4>. QED BY <2>6, <2>9, <4>1, <4>2
    <3>. QED BY <3>1, Zenon DEF Framed
  <2>10. CASE n = 0
    <3>1. z = a
      BY <2>7, <2>10 DEF AddFile
    <3>2. Follows(d, 2, v, p, n)
      BY <2>6, <2>10 DEF Follows
    <3>3. Comes(d, 2, p, n, NoSegment, U)
      BY <2>4, <3>2, Zenon DEF Comes
    <3>4. Framed(d, NoSegment, U)
      BY <2>9, <3>3
    <3>. HIDE DEF z
    <3>5. OutFramed(a, NoSegment, disk[s], U) /\ StillAnnounced(Segment(o, 1, NoSegment), Segment(a, 1, NoSegment))
      BY <2>5, <3>4, TextAdded, Zenon
    <3>. QED BY <2>5, <3>1, <3>5 DEF Says, z
  <2>11. CASE n # 0
    <3>1. z = Append(a, g)
      BY <2>7, <2>11 DEF AddFile
    <3>2. Announced(g, p, n)
      BY <2>8 DEF Announced
    <3>3. Comes(d, 2, p, n, g, U)
      BY <2>4, <2>6, <3>2, Zenon DEF Comes
    <3>4. Framed(d, g, U)
      BY <2>9, <3>3
    <3>5. Listed(g, disk[s], U)
      <4>1. \E w \in U : Sized(w, g.part, g.len)
        BY <2>4, <2>8
      <4>2. n <= n /\ n = Len(disk[s][f][p])
        BY <2>3 DEF n
      <4>3. Holds(disk[s], g.file, g.part, g.len) /\ g.part \in Part
        BY <2>1, <2>8, <4>2, Zenon DEF Holds
      <4>. QED BY <4>1, <4>3, Zenon DEF Listed
    <3>. HIDE DEF z, g, a
    <3>6. OutFramed(a, g, disk[s], U) /\ StillAnnounced(Segment(o, 1, NoSegment), Segment(a, 1, NoSegment))
      BY <2>5, <3>4, TextAdded, Zenon DEF a
    <3>7. a # <<>>
      <4>1. a = Append(o, TextSeg(d)) \/ (o # <<>> /\ Len(a) = Len(o))
        <5>1. o # <<>> => Len([o EXCEPT ![Len(o)] = TextSeg(@.data \o d)]) = Len(o)
          <6>. DEFINE x == TextSeg(o[Len(o)].data \o d)
          <6>. HIDE DEF x
          <6>1. o # <<>> => Len([o EXCEPT ![Len(o)] = x]) = Len(o)
            <7>1. o \in [1..Len(o) -> Outputs(s)] /\ Len(o) \in Nat
              BY LenProperties
            <7>2. [o EXCEPT ![Len(o)] = x] \in [1..Len(o) -> Outputs(s) \cup {x}]
              BY <7>1
            <7>. QED BY <7>1, <7>2, FunctionIsSeq
          <6>. QED BY <6>1 DEF x
        <5>. QED BY <5>1 DEF a, AddText
      <4>. QED BY <4>1, AppendProperties, EmptySeq, LenProperties
    <3>8. /\ OutFramed(Append(a, g), NoSegment, disk[s], U)
          /\ Segment(Append(a, g), 1, NoSegment) = Segment(a, 1, NoSegment)
      <4>1. IF g.file = NoFile THEN Framed(g.data, NoSegment, U) ELSE Listed(g, disk[s], U)
        BY <2>8, <3>5
      <4>. QED BY <2>5, <3>6, <3>7, <4>1, OutAppend, Zenon
    <3>. QED BY <2>5, <3>1, <3>6, <3>8, Zenon DEF Says, z
  <2>. QED BY <2>10, <2>11
<1>. QED BY <1>1, <1>2
-----------------------------------------------------------------------------
LEMMA ListingWords ==
  ASSUME NEW s \in Server
  PROVE  LET d == Listing(s) \o TextLine(Terminal) IN
         d \in Seq(Told) /\ \A i \in 1..Len(d) : d[i].k # "GOOD"
<1> DEFINE entries == SetToSeq({ e \in (File \ Elsewhere) \X Number : disk[s][e[1]][e[2]] # NoPart })
           LineAt(n) == EntryLine(entries[(n + 1) \div 2][1], entries[(n + 1) \div 2][2])
           a == Listing(s)
           b == TextLine(Terminal)
           d == a \o b
<1>1. a \in Seq(Told)
  BY ListingType, Directions, SeqMonotonic
<1>2. \A n \in 1..Len(a) : a[n].k # "GOOD"
  <2>1. a = [n \in 1..(2 * Len(entries)) |-> LineAt(n)[IF n % 2 = 1 THEN 1 ELSE 2]]
    BY DEF Listing
  <2>2. ASSUME NEW n PROVE LineAt(n)[1].k # "GOOD" /\ LineAt(n)[2].k # "GOOD"
    <3>. DEFINE x == entries[(n + 1) \div 2][1]
                y == entries[(n + 1) \div 2][2]
    <3>. HIDE DEF x, y
    <3>1. EntryLine(x, y)[1].k # "GOOD" /\ EntryLine(x, y)[2].k # "GOOD"
      BY DEF EntryLine, TextLine, Entry, Newline
    <3>. QED BY <3>1 DEF x, y
  <2>. HIDE DEF entries, LineAt, a
  <2>3. DOMAIN a = 1..Len(a)
    BY <1>1, LenProperties
  <2>. DEFINE m == 2 * Len(entries)
  <2>. HIDE DEF m
  <2>4. a = [n \in 1..m |-> LineAt(n)[IF n % 2 = 1 THEN 1 ELSE 2]]
    BY <2>1 DEF m
  <2>5. ASSUME NEW n \in 1..Len(a) PROVE a[n].k # "GOOD"
    <3>1. n \in 1..m
      BY <2>3, <2>4
    <3>2. a[n] = LineAt(n)[1] \/ a[n] = LineAt(n)[2]
      BY <2>4, <3>1, Zenon
    <3>. QED BY <2>2, <3>2
  <2>. QED BY <2>5
<1>3. b \in Seq(Told) /\ \A n \in 1..Len(b) : b[n].k # "GOOD"
  <2>1. Terminal \in Answers(s) /\ Newline \in Answers(s) /\ Terminal.k # "GOOD" /\ Newline.k # "GOOD"
    BY DEF Answers, Terminal, Newline
  <2>2. b \in Seq(Told)
    BY <2>1, Directions, TextLineType
  <2>. QED BY <2>1, <2>2 DEF TextLine
<1>. HIDE DEF a, b
<1>4. d \in Seq(Told) /\ \A i \in 1..Len(d) : d[i].k # "GOOD"
  <2>1. /\ d \in Seq(Told) /\ Len(d) = Len(a) + Len(b) /\ Len(a) \in Nat /\ Len(b) \in Nat
        /\ \A i \in 1..(Len(a) + Len(b)) : d[i] = IF i <= Len(a) THEN a[i] ELSE b[i - Len(a)]
    BY <1>1, <1>3, ConcatProperties, LenProperties
  <2>. HIDE DEF d
  <2>2. ASSUME NEW i \in 1..Len(d) PROVE d[i].k # "GOOD"
    <3>1. CASE i <= Len(a)
      <4>1. i \in 1..Len(a) /\ d[i] = a[i]
        BY <2>1, <3>1
      <4>. QED BY <1>2, <4>1
    <3>2. CASE ~(i <= Len(a))
      <4>1. i - Len(a) \in 1..Len(b) /\ d[i] = b[i - Len(a)]
        BY <2>1, <3>2
      <4>. QED BY <1>3, <4>1
    <3>. QED BY <3>1, <3>2
  <2>. QED BY <2>1, <2>2
<1>. QED BY <1>4 DEF d, a, b

Sound(s, o, U) == o \in Seq(Outputs(s)) /\ OutFramed(o, NoSegment, disk[s], U)

LEMMA SaysCommand ==
  ASSUME NEW c \in Conn, disk[c[2]] \in Files(Written), NEW U, U \subseteq Version,
         PartsRight(disk[c[2]], c[2], U), fate[c[2]] = "up", NEW In, NEW Out, NEW q \in Connection(In, Out), Sound(c[2], q.out, U),
         NEW cmd \in Token, ServeGet(c, q, cmd) \/ ServeList(c, q, cmd) \/ ServePut(c, q, cmd)
  PROVE  \E r : EnterFolder(c, r) /\ Says(c[2], q.out, r.out, U)
<1> DEFINE s == c[2]
           o == q.out
<1>0. s \in Server
  BY DEF Conn
<1>1. o \in Seq(Outputs(s)) /\ OutFramed(o, NoSegment, disk[s], U) /\ Says(s, o, o, U)
  BY SaysSelf, Zenon DEF Sound
<1>2. \A x : [q EXCEPT !.out = x].out = x
  BY DEF Connection
<1>3. CASE EnterFolder(c, q)
  BY <1>1, <1>3
<1>4. ASSUME NEW x, Says(s, o, x, U), EnterFolder(c, [q EXCEPT !.out = x])
      PROVE  \E r : EnterFolder(c, r) /\ Says(c[2], q.out, r.out, U)
  BY <1>2, <1>4
<1>5. ASSUME NEW t \in {Ready, Invalid, Bad, Terminal}
      PROVE  Says(s, o, AddText(o, TextLine(t)), U) /\ Reply(q, t) = [q EXCEPT !.out = AddText(o, TextLine(t))]
  <2>1. Says(s, o, AddText(o, TextLine(t)), U)
    BY <1>0, <1>1, SaysLine, Zenon
  <2>. QED BY <2>1 DEF Reply
<1>6. CASE ServeGet(c, q, cmd)
  <2>1. cmd.k = "GET" /\ cmd.f \in File \cup {NoFile} /\ cmd.p \in Nat
    BY <1>6, TokenFields, Zenon DEF ServeGet
  <2>2. CASE EnterFolder(c, Reply(q, Bad))
    BY <1>4, <1>5, <2>2
  <2>3. CASE cmd.f # NoFile /\ cmd.p = 0
    <3>. DEFINE f == Path(cmd.f)
                Added(x, p) == AddPart(x, s, f, p)
                a1 == Added(o, 1)
                a2 == Added(a1, 2)
                a3 == Added(a2, 3)
                a4 == Added(a3, 4)
    <3>1. f \in File
      BY <2>1, <2>3, ChannelAssumption
    <3>. HIDE DEF f
    <3>2. ASSUME NEW x, NEW p \in Part, Says(s, o, x, U) PROVE Says(s, o, Added(x, p), U)
      <4>1. x \in Seq(Outputs(s)) /\ OutFramed(x, NoSegment, disk[s], U)
        BY <3>2, Zenon DEF Says
      <4>2. Says(s, x, AddPart(x, s, f, p), U)
        BY <1>0, <3>1, <4>1, SaysPart
      <4>. QED BY <3>2, <4>2, SaysTwice, Zenon
    <3>3. 1 \in Part /\ 2 \in Part /\ 3 \in Part /\ 4 \in Part
      BY DEF Part
    <3>. HIDE DEF Added
    <3>4. Says(s, o, a1, U)
      BY <1>1, <3>2, <3>3, Zenon
    <3>5. Says(s, o, a2, U)
      BY <3>4, <3>2, <3>3, Zenon
    <3>6. Says(s, o, a3, U)
      BY <3>5, <3>2, <3>3, Zenon
    <3>7. Says(s, o, a4, U)
      BY <3>6, <3>2, <3>3, Zenon
    <3>8. EnterFolder(c, [q EXCEPT !.out = a4]) \/ EnterFolder(c, Reply(q, Bad)) \/ EnterFolder(c, q)
      BY <1>6, <2>3, Zenon DEF ServeGet, AddParts, Added, f, s
    <3>. HIDE DEF a4
    <3>. QED BY <1>3, <1>4, <2>2, <3>7, <3>8, Zenon
  <2>. QED BY <1>3, <1>6, <2>2, <2>3, Zenon DEF ServeGet
<1>7. CASE ServeList(c, q, cmd)
  <2>. DEFINE d == Listing(s) \o TextLine(Terminal)
  <2>1. d \in Seq(Told) /\ \A i \in 1..Len(d) : d[i].k # "GOOD"
    BY <1>0, ListingWords
  <2>2. EnterFolder(c, [q EXCEPT !.out = AddText(o, d)])
    BY <1>7, Zenon DEF ServeList
  <2>. HIDE DEF d
  <2>3. Says(s, o, AddText(o, d), U)
    BY <1>0, <1>1, <2>1, SaysText, Zenon
  <2>. QED BY <1>4, <2>2, <2>3
<1>8. CASE ServePut(c, q, cmd)
  <2>1. CASE EnterFolder(c, BeginPut(q, cmd.f))
    <3>. DEFINE x == AddText(o, TextLine(Ready))
    <3>1. Says(s, o, x, U)
      BY <1>5
    <3>2. BeginPut(q, cmd.f).out = x
      <4>1. BeginPut(q, cmd.f) = [[q EXCEPT !.out = x] EXCEPT !.filename = Path(cmd.f), !.cb = "put"]
        BY DEF BeginPut, Reply
      <4>. HIDE DEF x
      <4>. QED BY <4>1 DEF Connection
    <3>. QED BY <2>1, <3>1, <3>2
  <2>. QED BY <1>3, <1>8, <2>1, Zenon DEF ServePut
<1>. QED BY <1>6, <1>7, <1>8

LEMMA SaysRead ==
  ASSUME NEW c \in Conn, disk[c[2]] \in Files(Written), NEW U, U \subseteq Version,
         PartsRight(disk[c[2]], c[2], U), fate[c[2]] = "up", NEW Out, NEW q \in Connection(Written, Out), Sound(c[2], q.out, U),
         callback_read(c, q)
  PROVE  \E r : srv' = [srv EXCEPT ![c] = r] /\ disk' = disk /\ Says(c[2], q.out, r.out, U)
<1> DEFINE s   == c[2]
           o   == q.out
           l2  == AfterLine(q.inp)
           r   == [q EXCEPT !.inp = AfterLine(l2)]
           cmd == Command(LineOf(q.inp))
<1>0. s \in Server
  BY DEF Conn
<1>1. o \in Seq(Outputs(s)) /\ OutFramed(o, NoSegment, disk[s], U) /\ Says(s, o, o, U)
  BY SaysSelf, Zenon DEF Sound
<1>2. q.inp \in Seq(Written) /\ Written \subseteq Token
  BY Directions DEF Connection
<1>3. \A x : [q EXCEPT !.inp = x].out = o
  BY DEF Connection
<1>4. CASE ~HasLine(q.inp)
  <2>1. Becomes(c, q)
    BY <1>4, Zenon DEF callback_read
  <2>. QED BY <1>1, <2>1, Zenon DEF Becomes
<1>5. CASE HasLine(q.inp) /\ ~HasLine(l2)
  <2>. DEFINE x == [q EXCEPT !.inp = l2]
  <2>1. Becomes(c, x)
    BY <1>5, Zenon DEF callback_read
  <2>2. Says(s, o, x.out, U)
    BY <1>1, <1>3, Zenon
  <2>. HIDE DEF x
  <2>. QED BY <2>1, <2>2, Zenon DEF Becomes
<1>6. CASE HasLine(q.inp) /\ HasLine(l2)
  <2>1. r \in Connection(Written, Out) /\ LineOf(q.inp) \in Seq(Token) /\ r.out = o
    <3>1. AfterLine(l2) \in Seq(Written) /\ LineOf(q.inp) \in Seq(Readings(Written))
      <4>1. LineOf(q.inp) \in Seq(Readings(Written)) /\ l2 \in Seq(Written)
        BY <1>2, <1>6, LineType, Zenon
      <4>. QED BY <1>6, <4>1, LineType, Zenon
    <3>2. r \in Connection(Written, Out)
      BY <3>1 DEF Connection
    <3>3. LineOf(q.inp) \in Seq(Token)
      BY <1>2, <3>1, ReadingsType, SeqMonotonic
    <3>. QED BY <1>3, <3>2, <3>3
  <2>2. Sound(s, r.out, U)
    BY <2>1
  <2>. HIDE DEF r
  <2>3. CASE Becomes(c, r)
    BY <1>1, <2>1, <2>3 DEF Becomes
  <2>4. CASE Becomes(c, Reply(r, Invalid))
    <3>1. Says(s, o, AddText(o, TextLine(Invalid)), U)
      BY <1>0, <1>1, SaysLine
    <3>2. Reply(r, Invalid).out = AddText(o, TextLine(Invalid))
      BY <2>1 DEF Reply, Connection
    <3>. QED BY <2>4, <3>1, <3>2 DEF Becomes
  <2>5. CASE cmd # Unparsed /\ (ServeGet(c, r, cmd) \/ ServeList(c, r, cmd) \/ ServePut(c, r, cmd))
    <3>1. cmd \in Token
      BY <2>1, <2>5, CommandType
    <3>. HIDE DEF cmd
    <3>2. \E x : EnterFolder(c, x) /\ Says(s, r.out, x.out, U)
      BY <2>1, <2>2, <2>5, <3>1, SaysCommand, Zenon
    <3>3. PICK x : EnterFolder(c, x) /\ Says(s, r.out, x.out, U)
      BY <3>2
    <3>4. Says(s, o, x.out, U)
      BY <2>1, <3>3
    <3>. QED BY <3>3, <3>4, Zenon DEF EnterFolder
  <2>. QED BY <1>6, <2>3, <2>4, <2>5, Zenon DEF callback_read, r
<1>. QED BY <1>4, <1>5, <1>6
-----------------------------------------------------------------------------
(* No part that is stored becomes shorter.                                 *)
Fills(D, D2) == \A f \in File, p \in Part, n \in Nat : Holds(D, f, p, n) => Holds(D2, f, p, n)
PartsFill == \A s \in Server : Fills(disk[s], disk'[s])

LEMMA DisksFill ==
  ASSUME disk' = disk
  PROVE  PartsFill
BY Zenon DEF PartsFill, Fills

(* A connection that a step leaves alone, or whose input and output do not *)
(* change.                                                                 *)
LEMMA OutMore ==
  ASSUME NEW s \in Server, NEW o \in Seq(Outputs(s)), NEW U, U \subseteq Version, NEW U2, U \subseteq U2,
         NEW D, NEW D2, Fills(D, D2),
         OutFramed(o, NoSegment, D, U)
  PROVE  OutFramed(o, NoSegment, D2, U2)
<1>1. ASSUME NEW n \in 1..Len(o)
      PROVE  IF o[n].file = NoFile THEN Framed(o[n].data, Segment(o, n + 1, NoSegment), U2) ELSE Listed(o[n], D2, U2)
  <2>1. IF o[n].file = NoFile THEN Framed(o[n].data, Segment(o, n + 1, NoSegment), U) ELSE Listed(o[n], D, U)
    BY Zenon DEF OutFramed
  <2>2. CASE o[n].file = NoFile
    <3>. DEFINE g == Segment(o, n + 1, NoSegment)
                d == o[n].data
    <3>1. StillAnnounced(g, g)
      BY Zenon DEF StillAnnounced
    <3>2. Framed(d, g, U)
      BY <2>1, <2>2
    <3>. HIDE DEF g, d
    <3>3. Framed(d, g, U2)
      BY <3>1, <3>2, FramedMore, Zenon
    <3>. QED BY <2>2, <3>3 DEF g, d
  <2>3. CASE o[n].file # NoFile
    <3>1. o[n] \in Outputs(s)
      BY ElementOfSeq
    <3>2. o[n].file \in File /\ o[n].len \in Nat
      BY <2>3, <3>1 DEF Outputs, TextSegs, FileSegs
    <3>. QED BY <2>1, <2>3, <3>2, Zenon DEF Listed, Fills
  <2>. QED BY <2>2, <2>3
<1>. QED BY <1>1, Zenon DEF OutFramed

(* What the streams hold.                                                  *)
LEMMA StreamTypes ==
  ASSUME TypeInv, NEW c \in Conn
  PROVE  /\ c[1] \in Client /\ c[2] \in Server
         /\ s2c[c].data \in Seq(Token) /\ s2c[c].cuts \subseteq 1..Len(s2c[c].data)
         /\ con[c] \in ClientConnection /\ con[c].inp \in Seq(Token)
         /\ srv[c] \in Connection(Written, Outputs(c[2])) /\ srv[c].out \in Seq(Outputs(c[2]))
         /\ disk[c[2]] \in Files(Written)
<1>1. FlowOK(c) /\ DfsShape /\ c[1] \in Client /\ c[2] \in Server
  BY DEF TypeInv, Conn
<1>2. s2c[c].data \in Seq(Told) /\ s2c[c].cuts \subseteq 1..Len(s2c[c].data)
  BY <1>1 DEF FlowOK, Pipe
<1>3. con[c] \in ClientConnection /\ con[c].inp \in Seq(Told)
  BY <1>1 DEF FlowOK, ClientConnection
<1>4. srv[c] \in Connection(Written, Outputs(c[2]))
  BY <1>1, Zenon DEF FlowOK, Outputs
<1>5. srv[c].out \in Seq(Outputs(c[2]))
  <2>. DEFINE Out == Outputs(c[2])
  <2>. HIDE DEF Out
  <2>1. srv[c] \in Connection(Written, Out)
    BY <1>4 DEF Out
  <2>2. srv[c].out \in Seq(Out)
    BY <2>1 DEF Connection
  <2>. QED BY <2>2 DEF Out
<1>6. disk[c[2]] \in Files(Written)
  BY <1>1, Zenon DEF DfsShape
<1>. QED BY <1>1, <1>2, <1>3, <1>4, <1>5, <1>6, ToldTokens

(* Whoever has only part of what there is of a connection.                 *)
Unmoved(c) == GoesOn(con[c], prog[c[1]], con'[c], prog'[c[1]])
SameNet(c) == IF net[c] = "open" THEN net'[c] = "open" ELSE net'[c] # "open"

LEMMA StreamKept ==
  ASSUME TypeInv, NEW c \in Conn, OutOn(c), StreamOn(c), Fills(disk[c[2]], disk'[c[2]]), Ups \subseteq Ups',
         srv'[c] = srv[c], s2c'[c] = s2c[c], con'[c].inp = con[c].inp, Unmoved(c), SameNet(c)
  PROVE  OutOn(c)' /\ StreamOn(c)'
<1>1. Ups \subseteq Version /\ c[2] \in Server /\ srv[c].out \in Seq(Outputs(c[2]))
  BY StreamTypes DEF Ups
<1>2. OutOn(c)'
  <2>1. Fills(disk[c[2]], disk'[c[2]])
    OBVIOUS
  <2>2. OutFramed(srv[c].out, NoSegment, disk[c[2]], Ups)
    BY Zenon DEF OutOn
  <2>3. OutFramed(srv[c].out, NoSegment, disk'[c[2]], Ups')
    <3>. DEFINE D == disk[c[2]]
                D2 == disk'[c[2]]
                o == srv[c].out
                U2 == Ups'
    <3>1. /\ o \in Seq(Outputs(c[2])) /\ Ups \subseteq U2 /\ OutFramed(o, NoSegment, D, Ups)
          /\ Fills(D, D2)
      BY <1>1, <2>1, <2>2
    <3>. HIDE DEF D, D2, o, U2
    <3>2. OutFramed(o, NoSegment, D2, U2)
      BY <1>1, <3>1, OutMore
    <3>. QED BY <3>2 DEF D2, o, U2
  <2>. QED BY <2>3, Zenon DEF OutOn
<1>3. ASSUME net'[c] = "open" \/ s2c'[c].data # <<>>
      PROVE  Fetches(con'[c], s2c'[c].data, s2c'[c].cuts, prog'[c[1]], Behind(c)', Ups')
  <2>1. Fetches(con[c], s2c[c].data, s2c[c].cuts, prog[c[1]], Behind(c), Ups)
    BY <1>3, Zenon DEF StreamOn, SameNet
  <2>2. Behind(c)' = Behind(c)
    BY Zenon DEF Behind, SameNet
  <2>3. StillAnnounced(Behind(c), Behind(c)')
    BY <2>2, Zenon DEF StillAnnounced
  <2>4. Fetches(con'[c], s2c[c].data, s2c[c].cuts, prog'[c[1]], Behind(c)', Ups')
    <3>. DEFINE b == s2c[c].data
                C == s2c[c].cuts
                k == con[c]
                k2 == con'[c]
                g == prog[c[1]]
                g2 == prog'[c[1]]
                U2 == Ups'
                seg2 == Behind(c)'
    <3>1. /\ Ups \subseteq U2 /\ StillAnnounced(Behind(c), seg2) /\ k2.inp = k.inp /\ GoesOn(k, g, k2, g2)
          /\ Fetches(k, b, C, g, Behind(c), Ups)
      BY <2>1, <2>3, Zenon DEF Unmoved
    <3>. HIDE DEF b, C, k, k2, g, g2, U2, seg2
    <3>2. Fetches(k2, b, C, g2, seg2, U2)
      BY <1>1, <3>1, FetchesMore
    <3>. QED BY <3>2 DEF b, C, k2, g2, U2, seg2
  <2>. QED BY <2>4
<1>. QED BY <1>2, <1>3, Zenon DEF StreamOn

(* The other connections, when one takes a step.                           *)
Same(d) == Gets(con[d]) => /\ prog'[d[1]].at = prog[d[1]].at
                           /\ prog'[d[1]].partnum = prog[d[1]].partnum /\ prog'[d[1]].size = prog[d[1]].size

LEMMA AsideFetches ==
  ASSUME TypeInv, NEW d \in Conn, OutOn(d), StreamOn(d), AtGet(d), Aside(d), Same(d),
         Fills(disk[d[2]], disk'[d[2]]), Ups \subseteq Ups'
  PROVE  OutOn(d)' /\ StreamOn(d)' /\ AtGet(d)'
<1>1. /\ srv'[d] = srv[d] /\ s2c'[d] = s2c[d] /\ con'[d] = con[d] /\ con'[d].inp = con[d].inp /\ SameNet(d)
  BY Zenon DEF Aside, SameNet
<1>2. Unmoved(d)
  BY <1>1, Zenon DEF Unmoved, GoesOn, Same
<1>3. AtGet(d)'
  BY <1>1, Zenon DEF AtGet, Same
<1>. QED BY <1>1, <1>2, <1>3, StreamKept, Zenon

LEMMA FilesStay ==
  ASSUME FilesRight, Ups \subseteq Ups', tmp' = tmp, got' = got
  PROVE  FilesRight'
<1>1. ASSUME NEW k \in Client, NEW f \in File PROVE FilesOf(tmp'[k][f], got'[k][f], Ups')
  BY FilesMore, Zenon DEF FilesRight
<1>. QED BY <1>1, Zenon DEF FilesRight

LEMMA OneFetch ==
  ASSUME TypeInv, FetchInv, NEW c \in Conn, PartsFill, Ups \subseteq Ups', FilesRight',
         \A d \in Conn : d # c => Aside(d) /\ Same(d), OutOn(c)', StreamOn(c)', AtGet(c)'
  PROVE  FetchInv'
<1>1. ASSUME NEW d \in Conn, d # c PROVE OutOn(d)' /\ StreamOn(d)' /\ AtGet(d)'
  <2>1. Fills(disk[d[2]], disk'[d[2]])
    BY StreamTypes, Zenon DEF PartsFill
  <2>. QED BY <1>1, <2>1, AsideFetches, Zenon DEF FetchInv
<1>. QED BY <1>1, Zenon DEF FetchInv

(* Nothing comes and nothing is said.                                      *)
LEMMA CommandFetches ==
  ASSUME TypeInv, FetchInv, srv' = srv, disk' = disk, s2c' = s2c, net' = net, tmp' = tmp, got' = got,
         Ups \subseteq Ups',
         \A c \in Conn : con'[c].inp = con[c].inp /\ Unmoved(c) /\ (Gets(con'[c]) => prog'[c[1]].at = c[2])
  PROVE  FetchInv'
<1>1. PartsFill /\ FilesRight'
  BY DisksFill, FilesStay, Zenon DEF FetchInv
<1>2. ASSUME NEW c \in Conn PROVE OutOn(c)' /\ StreamOn(c)' /\ AtGet(c)'
  <2>1. srv'[c] = srv[c] /\ s2c'[c] = s2c[c] /\ SameNet(c)
    BY DEF SameNet
  <2>2. OutOn(c)' /\ StreamOn(c)'
    <3>1. Fills(disk[c[2]], disk'[c[2]])
      BY <1>1, StreamTypes, Zenon DEF PartsFill
    <3>. QED BY <2>1, <3>1, StreamKept, Zenon DEF FetchInv
  <2>. QED BY <2>2, Zenon DEF AtGet
<1>. QED BY <1>1, <1>2, Zenon DEF FetchInv
-----------------------------------------------------------------------------
(* The servers.  One dies: what it sent last may still be read.            *)
LEMMA EmptyOut ==
  \A D, U : OutFramed(<<>>, NoSegment, D, U)
BY EmptySeq DEF OutFramed

LEMMA AbsentOut ==
  Absent.out = <<>> /\ Accepted.out = <<>>
BY DEF Absent, Accepted

LEMMA DieFetches ==
  ASSUME TypeInv, FetchInv, NEW s \in Server, NEW how, NEW unread, Die(s, how, unread),
         con' = con, prog' = prog, tmp' = tmp, got' = got, put' = put,
         \A t \in Server : t # s => disk'[t] = disk[t]
  PROVE  FetchInv'
<1> DEFINE C == Client \X {s}
<1>1. Ups' = Ups /\ FilesRight'
  BY UpsKept, FilesStay, Zenon DEF FetchInv
<1>2. ASSUME NEW c \in Conn, c \in C PROVE OutOn(c)' /\ StreamOn(c)' /\ AtGet(c)'
  <2>1. /\ srv'[c] = Absent
        /\ net'[c] = "none" \/ net'[c] = "closed" \/ net'[c] = "reset"
        /\ s2c'[c] = Empty \/ s2c'[c] = Ended(s2c[c])
    BY <1>2 DEF Die, NetAfterDeath
  <2>2. OutOn(c)'
    BY <2>1, EmptyOut, AbsentOut, Zenon DEF OutOn
  <2>3. net'[c] # "open" /\ Behind(c)' = Lost
    BY <2>1 DEF Behind
  <2>4. ASSUME s2c'[c].data # <<>>
        PROVE  Fetches(con[c], s2c'[c].data, s2c'[c].cuts, prog[c[1]], Lost, Ups)
    <3>. DEFINE b == s2c[c].data
                D == s2c[c].cuts
    <3>1. s2c'[c] = Ended(s2c[c])
      BY <2>1, <2>4 DEF Empty
    <3>2. s2c[c] \in Pipe(Told) /\ b \in Seq(Token) /\ D \subseteq 1..Len(b) /\ con[c].inp \in Seq(Token) /\ Ups \subseteq Version
      <4>1. s2c[c] \in Pipe(Told)
        BY Zenon DEF TypeInv, FlowOK
      <4>. QED BY <4>1, StreamTypes DEF Ups
    <3>3. s2c'[c].data = b /\ s2c'[c].cuts \subseteq D \cup {Len(b)}
      BY <3>1, <3>2 DEF Ended, Pipe
    <3>4. Fetches(con[c], b, D, prog[c[1]], Behind(c), Ups)
      BY <2>4, <3>3, Zenon DEF FetchInv, StreamOn
    <3>5. PICK E : E = s2c'[c].cuts
      OBVIOUS
    <3>6. E \subseteq D \cup {Len(b)}
      BY <3>3, <3>5
    <3>. HIDE DEF b, D
    <3>7. Fetches(con[c], b, E, prog[c[1]], Lost, Ups)
      BY <3>2, <3>4, <3>6, FetchesEnded
    <3>. QED BY <3>3, <3>5, <3>7
  <2>5. StreamOn(c)'
    BY <1>1, <2>3, <2>4, Zenon DEF StreamOn
  <2>6. AtGet(c)'
    BY Zenon DEF AtGet, FetchInv
  <2>. QED BY <2>2, <2>5, <2>6
<1>3. ASSUME NEW c \in Conn, c \notin C PROVE OutOn(c)' /\ StreamOn(c)' /\ AtGet(c)'
  <2>1. Aside(c)
    BY <1>3 DEF Die, NetAfterDeath, Aside
  <2>2. Same(c) /\ Ups \subseteq Ups'
    BY <1>1, Zenon DEF Same
  <2>3. Fills(disk[c[2]], disk'[c[2]])
    <3>1. c[2] \in Server /\ c[2] # s
      BY <1>3 DEF Conn
    <3>2. disk'[c[2]] = disk[c[2]]
      BY <3>1
    <3>. QED BY <3>2, Zenon DEF Fills
  <2>. QED BY <2>1, <2>2, <2>3, AsideFetches, Zenon DEF FetchInv
<1>. QED BY <1>1, <1>2, <1>3, Zenon DEF FetchInv

(* A step of a server on one connection that takes nothing out of it: what *)
(* is behind the stream is still what it announces.                        *)
LEMMA ServedFetches ==
  ASSUME TypeInv, FetchInv, NEW c \in Conn, PartsFill, NEW r, srv' = [srv EXCEPT ![c] = r],
         s2c' = s2c, net' = net, con' = con, prog' = prog, tmp' = tmp, got' = got, put' = put,
         \A d \in Conn : d # c => c2s'[d] = c2s[d],
         OutFramed(r.out, NoSegment, disk'[c[2]], Ups),
         StillAnnounced(Segment(srv[c].out, 1, NoSegment), Segment(r.out, 1, NoSegment))
  PROVE  FetchInv'
<1>1. Ups' = Ups /\ FilesRight' /\ Ups \subseteq Version
  BY UpsKept, FilesStay, Zenon DEF FetchInv, Ups
<1>2. srv'[c] = r /\ \A d \in Conn : d # c => srv'[d] = srv[d]
  BY Zenon DEF TypeInv, DfsShape
<1>3. \A d \in Conn : d # c => Aside(d) /\ Same(d)
  BY <1>2, Zenon DEF Aside, Same
<1>4. OutOn(c)'
  BY <1>1, <1>2, Zenon DEF OutOn
<1>5. StreamOn(c)'
  <2>1. ASSUME net[c] = "open" \/ s2c[c].data # <<>>
        PROVE  Fetches(con[c], s2c[c].data, s2c[c].cuts, prog[c[1]], Behind(c)', Ups)
    <3>. DEFINE b == s2c[c].data
                C == s2c[c].cuts
                k == con[c]
                g == prog[c[1]]
                seg2 == Behind(c)'
    <3>1. Fetches(k, b, C, g, Behind(c), Ups)
      BY <2>1, Zenon DEF FetchInv, StreamOn
    <3>2. StillAnnounced(Behind(c), seg2)
      <4>1. CASE net[c] = "open"
        BY <1>2, <4>1, Zenon DEF Behind
      <4>2. CASE net[c] # "open"
        <5>1. Behind(c)' = Behind(c)
          BY <4>2, Zenon DEF Behind
        <5>. QED BY <5>1, Zenon DEF StillAnnounced
      <4>. QED BY <4>1, <4>2
    <3>3. GoesOn(k, g, k, g) /\ Ups \subseteq Ups
      BY DEF GoesOn
    <3>. HIDE DEF b, C, k, g, seg2
    <3>4. Fetches(k, b, C, g, seg2, Ups)
      BY <1>1, <3>1, <3>2, <3>3, FetchesMore
    <3>. QED BY <3>4 DEF b, C, k, g, seg2
  <2>. QED BY <1>1, <2>1, Zenon DEF StreamOn
<1>6. AtGet(c)'
  BY Zenon DEF AtGet, FetchInv
<1>. QED BY <1>1, <1>3, <1>4, <1>5, <1>6, OneFetch, Zenon

LEMMA AcceptFetches ==
  ASSUME TypeInv, UploadsInv, FetchInv, NEW c \in Conn, Accept(c),
         con' = con, prog' = prog, tmp' = tmp, got' = got, put' = put
  PROVE  FetchInv'
<1>1. srv[c] = Absent
  BY Zenon DEF UploadsInv, Links, Accept
<1>2. /\ srv' = [srv EXCEPT ![c] = Accepted] /\ disk' = disk /\ s2c' = s2c /\ net' = net
      /\ \A d \in Conn : c2s'[d] = c2s[d]
  BY DEF Accept, netVars
<1>3. PartsFill
  BY <1>2, DisksFill
<1>4. OutFramed(Accepted.out, NoSegment, disk'[c[2]], Ups)
  BY AbsentOut, EmptyOut, Zenon
<1>5. StillAnnounced(Segment(srv[c].out, 1, NoSegment), Segment(Accepted.out, 1, NoSegment))
  BY <1>1, AbsentOut, Zenon DEF StillAnnounced
<1>. QED BY <1>2, <1>3, <1>4, <1>5, ServedFetches, Zenon

LEMMA ReadDisks ==
  ASSUME NEW c, NEW q, callback_read(c, q)
  PROVE  disk' = disk
<1>1. \A r : Becomes(c, r) \/ EnterFolder(c, r) => disk' = disk
  BY Zenon DEF Becomes, EnterFolder
<1>2. ASSUME NEW r, NEW cmd, ServeGet(c, r, cmd) \/ ServeList(c, r, cmd) \/ ServePut(c, r, cmd)
      PROVE  disk' = disk
  BY <1>1, <1>2, Zenon DEF ServeGet, ServeList, ServePut
<1>. QED BY <1>1, <1>2, Zenon DEF callback_read

(* A part that callback_put stores is no shorter than what it replaces.    *)
LEMMA StoreFills ==
  ASSUME OneSize, NEW s \in Server, NEW g, DueWrite(g, s)
  PROVE  Fills(g.files, Storing(g.files, g.q))
<1> DEFINE d == Take(g.q.inp, g.q.wantedSize)
           files == g.files
           files2 == Storing(files, g.q)
<1>1. files \in Files(Written) /\ PartsRight(files, s, Ups)
  BY Zenon DEF DueWrite
<1>2. PICK v \in Ups : \E p \in PartsOf(s, HashMod(v)) : PartIn(g.q, s, v, p)
  BY Zenon DEF DueWrite
<1>3. PICK p \in PartsOf(s, HashMod(v)) : PartIn(g.q, s, v, p)
  BY <1>2
<1>4. /\ g.q.partnum = p /\ d = PartOf(v, p) /\ v \in Version /\ p \in Part
  <2>1. v \in Version
    BY DEF Ups
  <2>2. p \in Part
    BY <2>1, PartsOfServer
  <2>. QED BY <1>3, <2>1, <2>2, Zenon DEF PartIn
<1>5. Len(d) = PartLength(Size(v), p) /\ PartLength(Size(v), p) \in Nat /\ d # NoPart
  <2>1. Len(PartOf(v, p)) = PartLength(Size(v), p) /\ PartLength(Size(v), p) \in Nat /\ PartOf(v, p) \in Seq(NotPut)
    BY <1>4, PartTextType
  <2>2. PartOf(v, p) # NoPart
    BY <2>1, NotPutWritten, DfsAssumption
  <2>. QED BY <1>4, <2>1, <2>2
<1>6. files2 = [files EXCEPT ![g.q.filename][g.q.partnum] = d]
  BY DEF Storing, StoringFirst
<1>. HIDE DEF d, files, files2
<1>7. ASSUME NEW f \in File, NEW e \in Part, NEW n \in Nat, Holds(files, f, e, n)
      PROVE  Holds(files2, f, e, n)
  <2>0. e \in Number
    BY ChannelAssumption
  <2>1. CASE f = g.q.filename /\ e = p
    <3>. DEFINE x == files[f][e]
    <3>1. x # NoPart /\ n <= Len(x)
      BY <1>7 DEF Holds
    <3>2. PICK u \in Ups : IsPart(x, s, u, e)
      BY <1>1, <2>0, <3>1, Zenon DEF PartsRight
    <3>3. u \in Version
      BY DEF Ups
    <3>. HIDE DEF x
    <3>4. Len(x) \in Nat /\ PartLength(Size(u), e) \in Nat /\ Len(x) <= PartLength(Size(u), e)
      <4>1. PartBegins(s, u, e, x)
        BY <3>2, <3>3, PartPrefix, Zenon
      <4>. QED BY <4>1, Zenon DEF PartBegins
    <3>5. Size(u) = Size(v)
      BY <1>4, <3>3 DEF OneSize
    <3>6. n <= Len(d)
      BY <1>5, <2>1, <3>1, <3>4, <3>5
    <3>7. files2[f][e] = d
      BY <1>1, <1>4, <1>6, <2>0, <2>1 DEF Files
    <3>. QED BY <1>5, <3>6, <3>7, Zenon DEF Holds
  <2>2. CASE ~(f = g.q.filename /\ e = p)
    <3>1. files2[f][e] = files[f][e]
      BY <1>1, <1>4, <1>6, <2>0, <2>2 DEF Files
    <3>. QED BY <1>7, <3>1, Zenon DEF Holds
  <2>. QED BY <2>1, <2>2
<1>8. Fills(files, files2)
  BY <1>7, Zenon DEF Fills
<1>. QED BY <1>8 DEF files, files2

LEMMA HeaderFiles ==
  ASSUME NEW h
  PROVE  PutHeader(h).files = h.files
<1> DEFINE line == LineOf(h.q.inp)
           rest == AfterLine(h.q.inp)
<1>1. \A q, files, go : At(q, files, go).files = files
  BY DEF At
<1>. QED BY <1>1 DEF PutHeader

LEMMA DataFiles ==
  ASSUME NEW c, NEW g
  PROVE  \/ PutData(c, g).files = g.files
         \/ /\ g.go = "on" /\ Enough(g.q) /\ Opens(c[2], g.q.filename)
            /\ PutData(c, g).files = Storing(g.files, g.q)
<1> DEFINE q     == g.q
           inp   == IF Enough(q) THEN Drop(q.inp, q.wantedSize) ELSE q.inp
           files == IF Enough(q) THEN Storing(g.files, q) ELSE g.files
           f     == q.filename
           early == At([q EXCEPT !.inp = inp, !.cb = "read"], g.files, "return")
           last  == At(Finished([q EXCEPT !.inp = inp]), files, "return")
           more  == At([q EXCEPT !.inp = inp, !.putState = 2], files, IF inp = <<>> THEN "return" ELSE "on")
           three == q.putState = 3
<1>1. \A x, y, go : At(x, y, go).files = y
  BY DEF At
<1>2. PutData(c, g) = IF g.go # "on" THEN g
                      ELSE IF Enough(q) /\ ~Opens(c[2], f) THEN early
                      ELSE IF three THEN last ELSE more
  BY Zenon DEF PutData
<1>3. early.files = g.files /\ last.files = files /\ more.files = files
  <2>. HIDE DEF q, files
  <2>. QED BY <1>1, Zenon
<1>4. files = IF Enough(q) THEN Storing(g.files, q) ELSE g.files
  OBVIOUS
<1>. HIDE DEF q, inp, files, f, early, last, more, three
<1>5. \/ PutData(c, g).files = g.files
      \/ /\ g.go = "on" /\ Enough(q) /\ Opens(c[2], f)
         /\ PutData(c, g).files = Storing(g.files, q)
  BY <1>2, <1>3, <1>4
<1>. QED BY <1>5, Zenon DEF q, f

LEMMA PutFills ==
  ASSUME OneSize, FlatNames, PlainFiles, TypeInv, UploadsInv, NEW c \in Conn, NEW n \in c2s[c].cuts,
         NEW q1, q1 = [srv[c] EXCEPT !.inp = srv[c].inp \o Take(c2s[c].data, n)], q1.cb = "put",
         NEW h \in PutLoop(c, q1)
  PROVE  Fills(disk[c[2]], h.files)
<1> DEFINE s == c[2]
           L == Loop(c, q1)
<1>0. s \in Server
  BY DEF Conn
<1>1. ASSUME NEW g, g \in Headers({L}) \cup Headers(PutRound(c, {L}))
      PROVE  Fills(g.files, PutData(c, g).files)
  <2>1. CASE PutData(c, g).files = g.files
    BY <2>1, Zenon DEF Fills
  <2>2. CASE /\ g.go = "on" /\ Enough(g.q) /\ Opens(c[2], g.q.filename)
             /\ PutData(c, g).files = Storing(g.files, g.q)
    <3>1. g \in Writes(c, q1)
      BY <1>1, <2>2, Zenon DEF Writes
    <3>2. DueWrite(g, s)
      BY <3>1, WritesAreDue, Zenon
    <3>3. Fills(g.files, Storing(g.files, g.q))
      BY <1>0, <3>2, StoreFills, Zenon
    <3>. QED BY <2>2, <3>3, Zenon
  <2>. QED BY <2>1, <2>2, DataFiles, Zenon
<1>2. L.files = disk[s]
  BY DEF Loop, At
<1>. HIDE DEF L
<1>3. PICK h1 \in PutRound(c, {L}) : h = PutData(c, PutHeader(h1))
  BY Zenon DEF PutLoop, PutRound, Headers, L
<1>4. h1 = PutData(c, PutHeader(L))
  BY Zenon DEF PutRound, Headers
<1>5. Fills(PutHeader(L).files, h1.files)
  <2>1. PutHeader(L) \in Headers({L})
    BY Zenon DEF Headers
  <2>. QED BY <1>1, <1>4, <2>1, Zenon
<1>6. Fills(PutHeader(h1).files, h.files)
  <2>1. PutHeader(h1) \in Headers(PutRound(c, {L}))
    BY Zenon DEF Headers
  <2>. QED BY <1>1, <1>3, <2>1, Zenon
<1>7. PutHeader(L).files = disk[s] /\ PutHeader(h1).files = h1.files
  BY <1>2, HeaderFiles, Zenon
<1>8. Fills(disk[s], h1.files) /\ Fills(h1.files, h.files)
  BY <1>5, <1>6, <1>7, Zenon
<1>. QED BY <1>8, Zenon DEF Fills

(* A server reads: what the callbacks answer.                              *)
LEMMA ServerReadFetches ==
  ASSUME OneSize, FlatNames, PlainFiles, TypeInv, UploadsInv, FetchInv, NEW c \in Conn, ServerRead(c),
         con' = con, prog' = prog, tmp' = tmp, got' = got, put' = put
  PROVE  FetchInv'
<1> DEFINE s   == c[2]
           Out == Outputs(s)
<1>0. /\ s \in Server /\ disk[s] \in Files(Written) /\ Ups \subseteq Version /\ DfsShape
      /\ srv[c] \in Connection(Written, Out) /\ srv[c].out \in Seq(Out) /\ UploadOK(srv[c]) /\ c2s[c] \in Pipe(Written)
      /\ OutFramed(srv[c].out, NoSegment, disk[s], Ups)
  <2>1. UploadOK(srv[c]) /\ DfsShape /\ c2s[c] \in Pipe(Written)
    BY Zenon DEF TypeInv, FlowOK
  <2>2. OutFramed(srv[c].out, NoSegment, disk[s], Ups) /\ Ups \subseteq Version
    BY Zenon DEF FetchInv, OutOn, Ups
  <2>. QED BY <2>1, <2>2, StreamTypes
<1>1. fate[s] = "up" /\ \A t \in Server : t # s => disk'[t] = disk[t]
  <2>1. \E files : Wrote(c, files)
    BY ServerReads, Zenon
  <2>2. \A t \in Server : t # s => disk'[t] = disk[t]
    BY <1>0, <2>1, Zenon DEF Wrote, DfsShape
  <2>. QED BY <2>2, Zenon DEF ServerRead, Up
<1>2. PICK n \in c2s[c].cuts : \E q \in {[srv[c] EXCEPT !.inp = @ \o Take(c2s[c].data, n)]} :
        LET left == [c2s EXCEPT ![c] = Received(@, n)] IN
        \/ q.cb = "read" /\ callback_read(c, q) /\ c2s' = left /\ UNCHANGED <<s2c, net>>
        \/ q.cb = "put" /\ callback_put(c, q) /\ c2s' = left /\ UNCHANGED <<s2c, net>>
        \/ Die(c[2], "aborted", left)
  BY Zenon DEF ServerRead
<1>3. PICK q :
        /\ q = [srv[c] EXCEPT !.inp = srv[c].inp \o Take(c2s[c].data, n)]
        /\ \/ /\ (q.cb = "read" /\ callback_read(c, q)) \/ (q.cb = "put" /\ callback_put(c, q))
              /\ c2s' = [c2s EXCEPT ![c] = Received(@, n)] /\ s2c' = s2c /\ net' = net
           \/ \E unread : Die(s, "aborted", unread)
  BY <1>2, Zenon
<1>4. q \in Connection(Written, Out) /\ UploadOK(q) /\ q.out = srv[c].out
  <2>. DEFINE i == srv[c].inp \o Take(c2s[c].data, n)
  <2>1. i \in Seq(Written)
    <3>1. Take(c2s[c].data, n) \in Seq(Written)
      BY <1>0, TakeDropType DEF Pipe
    <3>2. srv[c].inp \in Seq(Written)
      BY <1>0, ConnectionFields
    <3>. QED BY <3>1, <3>2, ConcatProperties
  <2>2. q = [srv[c] EXCEPT !.inp = i]
    BY <1>3
  <2>. HIDE DEF i, Out
  <2>3. q \in Connection(Written, Out) /\ UploadOK(q)
    BY <1>0, <2>1, <2>2, ConnectionFields
  <2>. QED BY <1>0, <2>2, <2>3 DEF Connection
<1>5. CASE \E unread : Die(s, "aborted", unread)
  BY <1>0, <1>1, <1>5, DieFetches, Zenon
<1>6. CASE /\ (q.cb = "read" /\ callback_read(c, q)) \/ (q.cb = "put" /\ callback_put(c, q))
           /\ c2s' = [c2s EXCEPT ![c] = Received(@, n)] /\ s2c' = s2c /\ net' = net
  <2>1. \A d \in Conn : d # c => c2s'[d] = c2s[d]
    BY <1>0, <1>6, Zenon DEF DfsShape
  <2>2. \E r : /\ srv' = [srv EXCEPT ![c] = r]
               /\ OutFramed(r.out, NoSegment, disk'[s], Ups)
               /\ StillAnnounced(Segment(srv[c].out, 1, NoSegment), Segment(r.out, 1, NoSegment))
    <3>1. CASE callback_read(c, q)
      <4>1. Sound(s, q.out, Ups)
        BY <1>0, <1>4 DEF Sound
      <4>2. PartsRight(disk[s], s, Ups)
        BY <1>0, Zenon DEF UploadsInv, PartsAreRight
      <4>3. PICK r : srv' = [srv EXCEPT ![c] = r] /\ disk' = disk /\ Says(s, q.out, r.out, Ups)
        BY <1>0, <1>1, <1>4, <3>1, <4>1, <4>2, SaysRead, Zenon
      <4>4. OutFramed(r.out, NoSegment, disk'[s], Ups)
        BY <4>3 DEF Says
      <4>5. StillAnnounced(Segment(srv[c].out, 1, NoSegment), Segment(r.out, 1, NoSegment))
        BY <1>4, <4>3 DEF Says
      <4>. QED BY <4>3, <4>4, <4>5, Zenon
    <3>2. CASE q.cb = "put" /\ callback_put(c, q)
      <4>1. PICK h \in PutLoop(c, q) : srv' = [srv EXCEPT ![c] = h.q] /\ disk' = [disk EXCEPT ![s] = h.files]
        BY <3>2, Zenon DEF callback_put
      <4>2. h.q.out = srv[c].out
        <5>1. q.filename \in File
          BY <1>4, <3>2 DEF UploadOK, Connection
        <5>. QED BY <1>0, <1>4, <5>1, LoopOpen, Zenon
      <4>0. disk'[s] = h.files /\ Fills(disk[s], disk'[s])
        <5>1. disk'[s] = h.files
          BY <1>0, <4>1, Zenon DEF DfsShape
        <5>2. Fills(disk[s], h.files)
          BY <1>3, <3>2, PutFills, Zenon
        <5>. QED BY <5>1, <5>2, Zenon
      <4>3. OutFramed(srv[c].out, NoSegment, disk'[s], Ups)
        <5>. DEFINE o == srv[c].out
                    D == disk[s]
                    D2 == disk'[s]
        <5>1. /\ o \in Seq(Outputs(s)) /\ OutFramed(o, NoSegment, D, Ups) /\ Ups \subseteq Ups
              /\ Fills(D, D2)
          BY <1>0, <4>0, Zenon
        <5>. HIDE DEF o, D, D2
        <5>2. OutFramed(o, NoSegment, D2, Ups)
          BY <1>0, <5>1, OutMore
        <5>. QED BY <5>2 DEF o, D2
      <4>4. StillAnnounced(Segment(srv[c].out, 1, NoSegment), Segment(h.q.out, 1, NoSegment))
        BY <4>2, Zenon DEF StillAnnounced
      <4>. QED BY <4>1, <4>2, <4>3, <4>4, Zenon
    <3>. QED BY <1>6, <3>1, <3>2
  <2>3. PartsFill
    <3>1. Fills(disk[s], disk'[s])
      <4>1. CASE callback_read(c, q)
        <5>1. disk' = disk
          BY <4>1, ReadDisks, Zenon
        <5>. QED BY <5>1, Zenon DEF Fills
      <4>2. CASE q.cb = "put" /\ callback_put(c, q)
        <5>1. PICK h \in PutLoop(c, q) : disk' = [disk EXCEPT ![s] = h.files]
          BY <4>2, Zenon DEF callback_put
        <5>2. disk'[s] = h.files
          BY <1>0, <5>1, Zenon DEF DfsShape
        <5>3. Fills(disk[s], h.files)
          BY <1>3, <4>2, PutFills, Zenon
        <5>. QED BY <5>2, <5>3, Zenon
      <4>. QED BY <1>6, <4>1, <4>2
    <3>2. \A t \in Server : t # s => Fills(disk[t], disk'[t])
      BY <1>1, Zenon DEF Fills
    <3>. QED BY <3>1, <3>2, Zenon DEF PartsFill
  <2>. QED BY <1>6, <2>1, <2>2, <2>3, ServedFetches, Zenon
<1>. QED BY <1>3, <1>5, <1>6

(* A server writes.  A part that is sent is as long as was announced.      *)
LEMMA TailFramed ==
  ASSUME NEW S, NEW o \in Seq(S), o # <<>>, NEW D, NEW U, OutFramed(o, NoSegment, D, U)
  PROVE  /\ OutFramed(Tail(o), NoSegment, D, U)
         /\ Segment(Tail(o), 1, NoSegment) = Segment(o, 2, NoSegment)
<1> DEFINE x == Tail(o)
<1>1. /\ x \in Seq(S) /\ Len(o) \in Nat /\ Len(x) = Len(o) - 1 /\ \A n \in 1..Len(x) : x[n] = o[n + 1]
  <2>1. x \in Seq(S) /\ Len(x) = Len(o) - 1 /\ \A n \in 1..Len(x) : x[n] = o[n + 1]
    BY HeadTailProperties
  <2>. QED BY <2>1, LenProperties
<1>. HIDE DEF x
<1>2. ASSUME NEW n \in Nat, n >= 1 PROVE Segment(x, n, NoSegment) = Segment(o, n + 1, NoSegment)
  <2>1. CASE n \in 1..Len(x)
    <3>1. n + 1 \in 1..Len(o) /\ x[n] = o[n + 1]
      BY <1>1, <2>1
    <3>. QED BY <2>1, <3>1 DEF Segment
  <2>2. CASE n \notin 1..Len(x)
    <3>1. n + 1 \notin 1..Len(o)
      BY <1>1, <1>2, <2>2
    <3>. QED BY <2>2, <3>1 DEF Segment
  <2>. QED BY <2>1, <2>2
<1>3. ASSUME NEW n \in 1..Len(x)
      PROVE  IF x[n].file = NoFile THEN Framed(x[n].data, Segment(x, n + 1, NoSegment), U) ELSE Listed(x[n], D, U)
  <2>1. n + 1 \in 1..Len(o) /\ x[n] = o[n + 1] /\ n + 1 \in Nat /\ n + 1 >= 1
    BY <1>1
  <2>2. IF o[n + 1].file = NoFile THEN Framed(o[n + 1].data, Segment(o, (n + 1) + 1, NoSegment), U)
        ELSE Listed(o[n + 1], D, U)
    BY <2>1, Zenon DEF OutFramed
  <2>3. Segment(x, n + 1, NoSegment) = Segment(o, (n + 1) + 1, NoSegment)
    BY <1>2, <2>1
  <2>. QED BY <2>1, <2>2, <2>3
<1>4. Segment(x, 1, NoSegment) = Segment(o, 2, NoSegment)
  <2>1. Segment(x, 1, NoSegment) = Segment(o, 1 + 1, NoSegment)
    BY <1>2
  <2>. QED BY <2>1
<1>. QED BY <1>3, <1>4, Zenon DEF OutFramed, x

LEMMA WholeTaken ==
  ASSUME NEW S, NEW x \in Seq(S)
  PROVE  Take(x, Len(x)) = x
<1> DEFINE n == Len(x)
           y == Take(x, n)
<1>1. n \in Nat
  BY LenProperties
<1>2. y \in Seq(S) /\ Len(y) = n /\ \A i \in 1..Len(y) : y[i] = x[i]
  BY <1>1, TakeElements
<1>. HIDE DEF y
<1>3. y = x
  BY <1>2, SeqEqual
<1>. QED BY <1>3 DEF y

LEMMA ContentCarried ==
  ASSUME OneSize, NEW s \in Server, disk[s] \in Files(Written), NEW U, U \subseteq Version,
         PartsRight(disk[s], s, U), NEW o \in Seq(Outputs(s)), o # <<>>, OutFramed(o, NoSegment, disk[s], U),
         NEW t, t = Content(s, o[1])
  PROVE  /\ t \in Seq(Token) /\ Len(t) = o[1].len
         /\ Carries(o[1], t, U) /\ Framed(t, Segment(o, 2, NoSegment), U)
<1> DEFINE g == o[1]
           next == Segment(o, 2, NoSegment)
<1>1. 1 \in 1..Len(o) /\ g \in Outputs(s) /\ g # Lost
  <2>1. 1 \in 1..Len(o)
    BY EmptySeq, LenProperties
  <2>2. g \in Outputs(s)
    BY <2>1, ElementOfSeq
  <2>. QED BY <2>1, <2>2, Segments
<1>2. IF g.file = NoFile THEN Framed(g.data, next, U) ELSE Listed(g, disk[s], U)
  <2>1. IF o[1].file = NoFile THEN Framed(o[1].data, Segment(o, 1 + 1, NoSegment), U) ELSE Listed(o[1], disk[s], U)
    BY <1>1, Zenon DEF OutFramed
  <2>. QED BY <2>1
<1>. HIDE DEF g, next
<1>3. CASE g.file = NoFile
  <2>1. g \in TextSegs(Told)
    BY <1>1, <1>3, ChannelAssumption DEF Outputs, FileSegs
  <2>2. t = g.data
    BY <1>3 DEF Content, g
  <2>3. g.data \in Seq(Told) /\ Len(g.data) = g.len
    BY <2>1 DEF TextSegs
  <2>4. g.data \in Seq(Token)
    BY <2>3, ToldTokens
  <2>5. Carries(g, t, U)
    BY <1>1, <1>3, Zenon DEF Carries
  <2>. QED BY <1>2, <1>3, <2>2, <2>3, <2>4, <2>5 DEF g, next
<1>4. CASE g.file # NoFile
  <2>. DEFINE f == g.file
              p == g.part
              x == disk[s][f][p]
  <2>1. f \in File /\ p \in Part /\ x # NoPart
    <3>1. g \in FileSegs(s)
      BY <1>1, <1>4 DEF Outputs, TextSegs
    <3>. QED BY <1>2, <1>4, <3>1 DEF FileSegs, Listed
  <2>2. PICK v \in U : Sized(v, p, g.len)
    BY <1>2, <1>4 DEF Listed
  <2>3. PICK w \in U : IsPart(x, s, w, p)
    <3>1. p \in Number
      BY <2>1, ChannelAssumption
    <3>. QED BY <2>1, <3>1, Zenon DEF PartsRight
  <2>4. Sized(w, p, g.len)
    <3>1. Size(w) = Size(v)
      BY DEF OneSize
    <3>. QED BY <2>2, <3>1 DEF Sized
  <2>5. g.len <= Len(x)
    BY <1>2, <1>4 DEF Listed, Holds
  <2>6. t = Take(x, g.len)
    BY <1>4 DEF Content, g
  <2>. HIDE DEF x, p
  <2>7. PartBegins(s, w, p, x)
    BY <2>1, <2>3, PartPrefix, Zenon DEF p
  <2>. DEFINE l == g.len
  <2>8. /\ x \in Seq(Token) /\ Len(x) \in Nat
        /\ \A i \in 1..Len(x) : x[i] = PartOf(w, p)[i] /\ x[i].k = "byte"
    BY <2>7, Zenon DEF PartBegins
  <2>9. l \in Nat /\ l <= Len(x)
    BY <2>4, <2>5, <2>7 DEF Sized, PartBegins
  <2>. HIDE DEF l
  <2>10. t = Take(x, l)
    BY <2>6 DEF l
  <2>11. t \in Seq(Token) /\ Len(t) = l /\ \A i \in 1..Len(t) : t[i] = x[i]
    <3>1. t \in Seq(Token) /\ Len(t) = (IF l < Len(x) THEN l ELSE Len(x)) /\ \A i \in 1..Len(t) : t[i] = x[i]
      BY <2>8, <2>9, <2>10, TakeElements
    <3>. QED BY <2>8, <2>9, <3>1
  <2>12. \A i \in 1..l : t[i] = PartOf(w, p)[i] /\ t[i].k = "byte"
    <3>1. \A i \in 1..l : i \in 1..Len(x)
      BY <2>8, <2>9
    <3>. QED BY <2>8, <2>11, <3>1
  <2>13. Carries(g, t, U)
    BY <1>1, <2>4, <2>11, <2>12 DEF Carries, p, l
  <2>14. Framed(t, next, U)
    <3>1. \A i \in 1..Len(t) : t[i].k # "GOOD"
      BY <2>11, <2>12
    <3>. QED BY <3>1, FramedText, Zenon
  <2>. QED BY <2>11, <2>13, <2>14 DEF g, next, l
<1>. QED BY <1>3, <1>4

LEMMA CutsSent ==
  ASSUME InWrites, NEW from \in Nat, NEW to \in Nat, NEW last
  PROVE  Cuts(from, to, last) \subseteq {to}
BY ChannelAssumption DEF Cuts, InWrites

LEMMA ServerWriteFetches ==
  ASSUME OneSize, TypeInv, UploadsInv, FetchInv, NEW c \in Conn, ServerWrite(c),
         con' = con, prog' = prog, tmp' = tmp, got' = got, put' = put
  PROVE  FetchInv'
<1> DEFINE s    == c[2]
           q    == srv[c]
           o    == q.out
           t    == Content(s, o[1])
           rest == IF Len(t) < o[1].len THEN o ELSE Tail(o)
           wr   == Len(t) = o[1].len
           seg2 == Segment(o, 2, NoSegment)
<1>0. /\ s \in Server /\ disk[s] \in Files(Written) /\ Ups \subseteq Version /\ DfsShape
      /\ q \in Connection(Written, Outputs(s)) /\ o \in Seq(Outputs(s))
      /\ OutFramed(o, NoSegment, disk[s], Ups) /\ PartsRight(disk[s], s, Ups)
  <2>1. OutFramed(o, NoSegment, disk[s], Ups) /\ Ups \subseteq Version /\ DfsShape
    BY Zenon DEF FetchInv, OutOn, Ups, TypeInv
  <2>2. PartsRight(disk[s], s, Ups)
    BY StreamTypes, Zenon DEF UploadsInv, PartsAreRight
  <2>. QED BY <2>1, <2>2, StreamTypes
<1>1. o # <<>>
  BY Zenon DEF ServerWrite
<1>2. /\ t \in Seq(Token) /\ Len(t) = o[1].len /\ Carries(o[1], t, Ups) /\ Framed(t, seg2, Ups)
  BY <1>0, <1>1, ContentCarried
<1>3. CASE Die(c[2], "aborted", c2s) /\ UNCHANGED <<disk, folder>>
  <2>1. \A d \in Server : d # s => disk'[d] = disk[d]
    BY <1>3
  <2>. QED BY <1>0, <1>3, <2>1, DieFetches
<1>4. CASE ~(Die(c[2], "aborted", c2s) /\ UNCHANGED <<disk, folder>>)
  <2>1. /\ disk' = disk /\ c2s' = c2s
        /\ \/ /\ net[c] = "open" /\ net' = net
              /\ s2c' = [s2c EXCEPT ![c] = Sent(@, t, ~wr \/ rest = <<>>)]
              /\ srv' = [srv EXCEPT ![c].out = rest, ![c].wr = wr]
           \/ /\ net[c] # "open" /\ s2c' = s2c
              /\ net' = net \/ Swallowed(c)
              /\ \/ srv' = [srv EXCEPT ![c].out = rest, ![c].wr = wr]
                 \/ srv' = [srv EXCEPT ![c].wr = FALSE]
    <3>1. "closed" # "open" /\ "reset" # "open"
      OBVIOUS
    <3>. QED BY <1>4, <3>1, Zenon DEF ServerWrite, netVars
  <2>. DEFINE qW == [q EXCEPT !.out = rest, !.wr = wr]
              qR == [q EXCEPT !.wr = FALSE]
  <2>2. rest = Tail(o)
    BY <1>2
  <2>3. /\ srv' = [srv EXCEPT ![c].out = rest, ![c].wr = wr] => srv' = [srv EXCEPT ![c] = qW]
        /\ srv' = [srv EXCEPT ![c].wr = FALSE] => srv' = [srv EXCEPT ![c] = qR]
        /\ qW.out = Tail(o) /\ qR.out = o
    <3>. HIDE DEF rest, wr, t
    <3>1. qW.out = rest /\ qR.out = o
      BY <1>0 DEF Connection
    <3>2. /\ srv' = [srv EXCEPT ![c].out = rest, ![c].wr = wr] => srv' = [srv EXCEPT ![c] = qW]
          /\ srv' = [srv EXCEPT ![c].wr = FALSE] => srv' = [srv EXCEPT ![c] = qR]
      BY <1>0 DEF DfsShape
    <3>. QED BY <2>2, <3>1, <3>2
  <2>. HIDE DEF qW, qR
  <2>4. PICK r : /\ srv' = [srv EXCEPT ![c] = r]
                 /\ \/ /\ net[c] = "open" /\ net' = net /\ r.out = Tail(o)
                       /\ \E last : s2c' = [s2c EXCEPT ![c] = Sent(@, t, last)]
                    \/ net[c] # "open" /\ s2c' = s2c /\ (net' = net \/ Swallowed(c)) /\ r.out \in {o, Tail(o)}
    BY <2>1, <2>3, Zenon
  <2>. HIDE DEF rest, wr, t, q, o, seg2
  <2>5. /\ OutFramed(Tail(o), NoSegment, disk[s], Ups) /\ Segment(Tail(o), 1, NoSegment) = seg2
        /\ Segment(o, 1, NoSegment) = o[1]
    <3>1. 1 \in 1..Len(o)
      BY <1>0, <1>1, EmptySeq, LenProperties
    <3>2. Segment(o, 1, NoSegment) = o[1]
      BY <3>1 DEF Segment
    <3>3. OutFramed(Tail(o), NoSegment, disk[s], Ups) /\ Segment(Tail(o), 1, NoSegment) = Segment(o, 2, NoSegment)
      BY <1>0, <1>1, TailFramed
    <3>. QED BY <3>2, <3>3 DEF seg2
  <2>6. srv'[c] = r /\ \A d \in Conn : d # c => srv'[d] = srv[d]
    BY <1>0, <2>4, Zenon DEF DfsShape
  <2>7. \A d \in Conn : d # c => Aside(d) /\ Same(d)
    <3>1. \A d \in Conn : d # c => s2c'[d] = s2c[d]
      BY <1>0, <2>4, Zenon DEF DfsShape
    <3>2. \A d \in Conn : d # c => net'[d] = net[d]
      BY <1>0, <2>4 DEF DfsShape, Swallowed
    <3>. QED BY <2>1, <2>6, <3>1, <3>2, Zenon DEF Aside, Same
  <2>8. Ups' = Ups /\ FilesRight' /\ PartsFill
    BY <2>1, UpsKept, FilesStay, DisksFill, Zenon DEF FetchInv
  <2>9. OutOn(c)'
    <3>1. r.out = o \/ r.out = Tail(o)
      BY <2>4
    <3>2. OutFramed(r.out, NoSegment, disk[s], Ups)
      BY <1>0, <2>5, <3>1
    <3>. QED BY <2>1, <2>6, <2>8, <3>2, Zenon DEF OutOn, s
  <2>10. AtGet(c)'
    BY Zenon DEF AtGet, FetchInv
  <2>. DEFINE b == s2c[c].data
              C == s2c[c].cuts
              k == con[c]
              g == prog[c[1]]
  <2>11. /\ b \in Seq(Token) /\ C \subseteq 1..Len(b) /\ k.inp \in Seq(Token)
         /\ net[c] = "open" \/ b # <<>> => Fetches(k, b, C, g, Behind(c), Ups)
    BY StreamTypes, Zenon DEF FetchInv, StreamOn
  <2>12. CASE net[c] = "open"
    <3>1. PICK last : s2c' = [s2c EXCEPT ![c] = Sent(s2c[c], t, last)]
      BY <2>4, <2>12, Zenon
    <3>2. s2c'[c] = Sent(s2c[c], t, last)
      BY <1>0, <3>1, Zenon DEF DfsShape
    <3>3. s2c'[c].data = b \o t /\ (InWrites => s2c'[c].cuts \subseteq C \cup {Len(b \o t)})
      <4>. DEFINE to == Len(b) + Len(t)
      <4>1. s2c'[c].data = b \o t /\ s2c'[c].cuts = C \cup Cuts(Len(b), to, last)
        BY <3>2 DEF Sent
      <4>2. Len(b) \in Nat /\ to \in Nat /\ Len(b \o t) = to
        <5>1. b \in Seq(Token) /\ t \in Seq(Token)
          BY <1>2, <2>11
        <5>. HIDE DEF b
        <5>2. Len(b) \in Nat /\ Len(t) \in Nat /\ Len(b \o t) = Len(b) + Len(t)
          BY <5>1, LenProperties, ConcatProperties, Zenon
        <5>. QED BY <5>2
      <4>. HIDE DEF to, b, C
      <4>3. InWrites => Cuts(Len(b), to, last) \subseteq {to}
        BY <4>2, CutsSent
      <4>. QED BY <4>1, <4>2, <4>3
    <3>4. Fetches(k, b, C, g, o[1], Ups)
      <4>1. Behind(c) = Segment(o, 1, NoSegment)
        BY <2>12, Zenon DEF Behind, o, q
      <4>. QED BY <2>5, <2>11, <2>12, <4>1
    <3>5. PICK C2 : C2 = s2c'[c].cuts
      OBVIOUS
    <3>6. InWrites => C2 \subseteq C \cup {Len(b \o t)}
      BY <3>3, <3>5
    <3>. HIDE DEF b, C, k, g
    <3>7. Fetches(k, b \o t, C2, g, seg2, Ups)
      BY <1>0, <1>2, <2>11, <3>4, <3>6, FetchesOn
    <3>8. net'[c] = "open" /\ Behind(c)' = seg2
      <4>1. net'[c] = "open" /\ r.out = Tail(o)
        BY <2>4, <2>12
      <4>. QED BY <2>5, <2>6, <4>1, Zenon DEF Behind
    <3>9. Fetches(con'[c], s2c'[c].data, s2c'[c].cuts, prog'[c[1]], Behind(c)', Ups')
      BY <2>8, <3>3, <3>5, <3>7, <3>8 DEF k, g
    <3>10. StreamOn(c)'
      BY <3>9, Zenon DEF StreamOn
    <3>. QED BY <2>7, <2>8, <2>9, <2>10, <3>10, OneFetch, Zenon
  <2>13. CASE net[c] # "open"
    <3>1. s2c' = s2c /\ net'[c] # "open"
      BY <1>0, <2>4, <2>13 DEF DfsShape, Swallowed
    <3>2. Behind(c)' = Behind(c)
      BY <2>13, <3>1, Zenon DEF Behind
    <3>3. StreamOn(c)'
      BY <2>8, <2>13, <3>1, <3>2, Zenon DEF StreamOn, FetchInv
    <3>. QED BY <2>7, <2>8, <2>9, <2>10, <3>3, OneFetch, Zenon
  <2>. QED BY <2>12, <2>13
<1>. QED BY <1>3, <1>4

(* A server is killed, or started again.                                   *)
LEMMA KillFetches ==
  ASSUME TypeInv, FetchInv, NEW s \in Server, UserKills(s) \/ UserRestarts(s)
  PROVE  FetchInv'
<1>1. /\ con' = con /\ prog' = prog /\ put' = put /\ tmp' = tmp /\ got' = got
      /\ UserRestarts(s) => srv' = srv /\ s2c' = s2c /\ net' = net /\ disk' = disk
  BY DEF UserKills, UserRestarts, Restart, clientVars, userVars, netVars
<1>2. CASE UserKills(s)
  <2>1. ASSUME NEW unread, Die(s, "killed", unread), disk' = disk PROVE FetchInv'
    <3>1. \A t \in Server : t # s => disk'[t] = disk[t]
      BY <2>1
    <3>. QED BY <1>1, <2>1, <3>1, DieFetches, Zenon
  <2>2. ASSUME NEW k \in Client, KilledWriting(<<k, s>>) PROVE FetchInv'
    <3>1. PICK c \in Conn : c = <<k, s>>
      BY DEF Conn
    <3>2. c[2] = s /\ KilledWriting(c)
      BY <2>2, <3>1
    <3>3. PICK files, unread : Wrote(c, files) /\ Die(s, "killed", unread)
      BY <3>2, KilledWrites, Zenon
    <3>4. \A t \in Server : t # s => disk'[t] = disk[t]
      <4>1. disk' = [disk EXCEPT ![s] = files] /\ DOMAIN disk = Server
        BY <3>2, <3>3, Zenon DEF Wrote, TypeInv, DfsShape
      <4>. QED BY <4>1, Zenon
    <3>. QED BY <1>1, <3>3, <3>4, DieFetches, Zenon
  <2>. QED BY <1>2, <2>1, <2>2, Zenon DEF UserKills, Kill
<1>3. CASE UserRestarts(s)
  <2>1. \A c \in Conn : con'[c].inp = con[c].inp /\ Unmoved(c) /\ (Gets(con'[c]) => prog'[c[1]].at = c[2])
    BY <1>1, Zenon DEF Unmoved, GoesOn, FetchInv, AtGet
  <2>2. Ups \subseteq Ups'
    BY <1>1, UpsKept
  <2>. QED BY <1>1, <1>3, <2>1, <2>2, CommandFetches, Zenon
<1>. QED BY <1>2, <1>3
-----------------------------------------------------------------------------
(* A step of a server.                                                     *)
LEMMA ServeFetches ==
  ASSUME OneSize, FlatNames, PlainFiles, TypeInv, UploadsInv, FetchInv, NEW c \in Conn, Serve(c)
  PROVE  FetchInv'
<1>1. ServerStep(c) /\ con' = con /\ prog' = prog /\ tmp' = tmp /\ got' = got /\ put' = put
  BY DEF Serve, clientVars, userVars
<1>. QED BY <1>1, AcceptFetches, ServerReadFetches, ServerWriteFetches, Zenon DEF ServerStep

-----------------------------------------------------------------------------
(* A client ends or is killed: nobody reads what was on its way.           *)
LEMMA ClientDiesFetches ==
  ASSUME TypeInv, FetchInv, NEW k \in Client, NEW how, NEW unread,
         ClientDies(k, how, unread), UNCHANGED serverVars, put' = put
  PROVE  FetchInv'
<1> DEFINE C == {k} \X Server
<1>1. /\ Ups \subseteq Ups' /\ PartsFill /\ FilesRight' /\ srv' = srv /\ disk' = disk /\ DfsShape
      /\ \A c \in Conn : OutOn(c) /\ StreamOn(c) /\ AtGet(c)
  <2>1. disk' = disk /\ srv' = srv /\ tmp' = tmp /\ got' = got
    BY DEF serverVars, ClientDies, clientFiles
  <2>2. DfsShape /\ FilesRight /\ \A c \in Conn : OutOn(c) /\ StreamOn(c) /\ AtGet(c)
    BY Zenon DEF TypeInv, FetchInv
  <2>3. Ups' = Ups
    BY UpsKept
  <2>. QED BY <2>1, <2>2, <2>3, DisksFill, FilesStay
<1>2. ASSUME NEW c \in Conn, c \in C PROVE OutOn(c)' /\ StreamOn(c)' /\ AtGet(c)'
  <2>1. con'[c] = NewConnection /\ s2c'[c] = Empty /\ net'[c] # "open"
    BY <1>2 DEF ClientDies, NetAfterDeath
  <2>2. OutOn(c)'
    <3>1. srv'[c] = srv[c] /\ disk'[c[2]] = disk[c[2]] /\ Ups' = Ups
      BY <1>1, UpsKept
    <3>. QED BY <1>1, <3>1, Zenon DEF OutOn
  <2>3. StreamOn(c)'
    <3>1. s2c'[c].data = <<>>
      BY <2>1 DEF Empty
    <3>. QED BY <2>1, <3>1, Zenon DEF StreamOn
  <2>4. AtGet(c)'
    BY <2>1, FreshCon, Zenon DEF AtGet, Gets
  <2>. QED BY <2>2, <2>3, <2>4
<1>3. ASSUME NEW c \in Conn, c \notin C PROVE OutOn(c)' /\ StreamOn(c)' /\ AtGet(c)'
  <2>1. c[1] # k /\ c[1] \in Client
    BY <1>3 DEF Conn
  <2>2. prog'[c[1]] = prog[c[1]]
    BY <1>1, <2>1, Zenon DEF ClientDies, DfsShape
  <2>3. con'[c] = con[c] /\ s2c'[c] = s2c[c] /\ net'[c] = net[c] /\ srv'[c] = srv[c] /\ con'[c].inp = con[c].inp
    BY <1>1, <1>3 DEF ClientDies, NetAfterDeath
  <2>4. Unmoved(c) /\ SameNet(c)
    BY <2>2, <2>3, Zenon DEF Unmoved, GoesOn, SameNet
  <2>5. OutOn(c)' /\ StreamOn(c)'
    <3>1. Fills(disk[c[2]], disk'[c[2]])
      BY <1>1, StreamTypes, Zenon DEF PartsFill
    <3>. QED BY <1>1, <2>3, <2>4, <3>1, StreamKept, Zenon
  <2>. QED BY <1>1, <2>2, <2>3, <2>5, Zenon DEF AtGet
<1>. QED BY <1>1, <1>2, <1>3, Zenon DEF FetchInv

(* A step of one loop that takes nothing out of the stream.                *)
LEMMA LoopGoesOn ==
  ASSUME TypeInv, FetchInv, NEW c \in Conn, NEW q, con' = [con EXCEPT ![c] = q],
         q.inp = con[c].inp, q.cb = con[c].cb, q.m_get_state = con[c].m_get_state, q.loop => con[c].loop,
         UNCHANGED serverVars, put' = put, prog' = prog, s2c' = s2c, tmp' = tmp, got' = got,
         SameNet(c), \A d \in Conn : d # c => c2s'[d] = c2s[d] /\ net'[d] = net[d]
  PROVE  FetchInv'
<1>1. DfsShape /\ srv' = srv /\ disk' = disk /\ Ups \subseteq Ups' /\ PartsFill
  <2>1. DfsShape /\ srv' = srv /\ disk' = disk
    BY DEF TypeInv, serverVars
  <2>2. Ups' = Ups
    BY UpsKept
  <2>. QED BY <2>1, <2>2, DisksFill
<1>2. FilesRight'
  BY <1>1, FilesStay, Zenon DEF FetchInv
<1>3. con'[c] = q /\ \A d \in Conn : d # c => con'[d] = con[d]
  BY <1>1, Zenon DEF DfsShape
<1>4. \A d \in Conn : d # c => Aside(d) /\ Same(d)
  BY <1>1, <1>3, Zenon DEF Aside, Same
<1>5. Unmoved(c)
  BY <1>3, Zenon DEF Unmoved, GoesOn, Gets
<1>6. OutOn(c)' /\ StreamOn(c)'
  <2>1. srv'[c] = srv[c] /\ s2c'[c] = s2c[c] /\ con'[c].inp = con[c].inp
    BY <1>1, <1>3
  <2>2. Fills(disk[c[2]], disk'[c[2]])
    BY <1>1, StreamTypes, Zenon DEF PartsFill
  <2>. QED BY <1>1, <1>5, <2>1, <2>2, StreamKept, Zenon DEF FetchInv
<1>7. AtGet(c)'
  <2>1. (Gets(q) => Gets(con[c])) /\ AtGet(c)
    BY Zenon DEF Gets, FetchInv
  <2>. QED BY <1>3, <2>1 DEF AtGet
<1>. QED BY <1>1, <1>2, <1>4, <1>6, <1>7, OneFetch, Zenon

LEMMA LoopStillFetches ==
  ASSUME TypeInv, FetchInv, NEW c \in Conn, UNCHANGED serverVars, put' = put,
         ConnectError(c) \/ ClientEof(c) \/ LoopExit(c)
  PROVE  FetchInv'
<1>1. con[c] \in ClientConnection /\ DfsShape
  BY Zenon DEF TypeInv, FlowOK
<1>2. PICK q : /\ con' = [con EXCEPT ![c] = q] /\ q.inp = con[c].inp /\ q.cb = con[c].cb
               /\ q.m_get_state = con[c].m_get_state /\ (q.loop => con[c].loop)
  <2>1. CASE ConnectError(c)
    <3>. DEFINE q == [con[c] EXCEPT !.rd = FALSE, !.wr = FALSE]
    <3>1. con' = [con EXCEPT ![c].rd = FALSE, ![c].wr = FALSE]
      BY <2>1 DEF ConnectError
    <3>2. con' = [con EXCEPT ![c] = q]
      BY <1>1, <3>1 DEF DfsShape
    <3>3. /\ q.inp = con[c].inp /\ q.cb = con[c].cb /\ q.m_get_state = con[c].m_get_state
          /\ q.loop = con[c].loop
      BY <1>1 DEF ClientConnection
    <3>. QED BY <3>2, <3>3, Zenon
  <2>2. CASE ClientEof(c)
    <3>. DEFINE q == [con[c] EXCEPT !.rd = FALSE, !.m_connected = FALSE]
    <3>1. con' = [con EXCEPT ![c].rd = FALSE, ![c].m_connected = FALSE]
      BY <2>2 DEF ClientEof
    <3>2. con' = [con EXCEPT ![c] = q]
      BY <1>1, <3>1 DEF DfsShape
    <3>3. /\ q.inp = con[c].inp /\ q.cb = con[c].cb /\ q.m_get_state = con[c].m_get_state
          /\ q.loop = con[c].loop
      BY <1>1 DEF ClientConnection
    <3>. QED BY <3>2, <3>3, Zenon
  <2>3. CASE LoopExit(c)
    <3>. DEFINE q == [con[c] EXCEPT !.loop = FALSE]
    <3>1. con' = [con EXCEPT ![c].loop = FALSE]
      BY <2>3 DEF LoopExit
    <3>2. con' = [con EXCEPT ![c] = q]
      BY <1>1, <3>1 DEF DfsShape
    <3>3. /\ q.inp = con[c].inp /\ q.cb = con[c].cb /\ q.m_get_state = con[c].m_get_state /\ ~q.loop
      BY <1>1 DEF ClientConnection
    <3>. QED BY <3>2, <3>3, Zenon
  <2>. QED BY <2>1, <2>2, <2>3, Zenon
<1>3. /\ c2s' = c2s /\ s2c' = s2c /\ prog' = prog /\ tmp' = tmp /\ got' = got
      /\ net' = net \/ (net[c] = "none" /\ net' = [net EXCEPT ![c] = "refused"])
  BY DEF ConnectError, ClientEof, LoopExit, clientFiles, netVars
<1>4. SameNet(c) /\ \A d \in Conn : d # c => c2s'[d] = c2s[d] /\ net'[d] = net[d]
  BY <1>1, <1>3 DEF DfsShape, SameNet
<1>. QED BY <1>2, <1>3, <1>4, LoopGoesOn, Zenon

LEMMA ClientWriteFetches ==
  ASSUME TypeInv, FetchInv, NEW c \in Conn, ClientWrite(c), UNCHANGED serverVars, put' = put
  PROVE  FetchInv'
<1> DEFINE rest == Tail(con[c].out)
           on   == ~(con[c].wcb /\ rest = <<>>)
           q    == [con[c] EXCEPT !.out = rest, !.loop = on]
           qR   == [con[c] EXCEPT !.wr = FALSE]
<1>1. con[c] \in ClientConnection /\ DfsShape /\ c[1] \in Client /\ con[c].loop /\ con[c].out # <<>>
  BY Zenon DEF TypeInv, FlowOK, Conn, ClientWrite
<1>2. CASE ClientDies(c[1], "killed", s2c)
  BY <1>1, <1>2, ClientDiesFetches
<1>3. CASE ~ClientDies(c[1], "killed", s2c)
  <2>. DEFINE wrote == con' = [con EXCEPT ![c].out = rest, ![c].loop = on]
              wr0   == con' = [con EXCEPT ![c].wr = FALSE]
  <2>1. /\ s2c' = s2c /\ prog' = prog /\ tmp' = tmp /\ got' = got
        /\ wrote \/ wr0
        /\ \/ net' = net /\ \E d : c2s' = [c2s EXCEPT ![c] = d]
           \/ net' = net /\ c2s' = c2s
           \/ net[c] # "open" /\ Swallowed(c) /\ c2s' = c2s
    <3>1. "closed" # "open"
      OBVIOUS
    <3>. QED BY <1>3, <3>1, Zenon DEF ClientWrite, clientFiles, netVars
  <2>2. wrote => con' = [con EXCEPT ![c] = q]
    <3>. HIDE DEF rest, on
    <3>. QED BY <1>1 DEF DfsShape
  <2>3. wr0 => con' = [con EXCEPT ![c] = qR]
    BY <1>1 DEF DfsShape
  <2>4. /\ q.inp = con[c].inp /\ q.cb = con[c].cb /\ q.m_get_state = con[c].m_get_state
        /\ qR.inp = con[c].inp /\ qR.cb = con[c].cb /\ qR.m_get_state = con[c].m_get_state
    <3>. HIDE DEF rest, on
    <3>. QED BY <1>1 DEF ClientConnection
  <2>. HIDE DEF q, qR
  <2>5. PICK x : /\ con' = [con EXCEPT ![c] = x] /\ x.inp = con[c].inp /\ x.cb = con[c].cb
                 /\ x.m_get_state = con[c].m_get_state /\ (x.loop => con[c].loop)
    BY <1>1, <2>1, <2>2, <2>3, <2>4, Zenon
  <2>6. \A d \in Conn : d # c => c2s'[d] = c2s[d]
    BY <1>1, <2>1, Zenon DEF DfsShape
  <2>7. SameNet(c) /\ \A d \in Conn : d # c => net'[d] = net[d]
    BY <1>1, <2>1 DEF DfsShape, SameNet, Swallowed
  <2>. QED BY <2>1, <2>5, <2>6, <2>7, LoopGoesOn, Zenon
<1>. QED BY <1>2, <1>3
-----------------------------------------------------------------------------
(* A client reads: its connection becomes k2, and what is left is on its   *)
(* way as before.                                                          *)
LEMMA ReadFetched ==
  ASSUME TypeInv, FetchInv, NEW c \in Conn, NEW n, NEW k2, con' = [con EXCEPT ![c] = k2],
         s2c' = [s2c EXCEPT ![c] = Received(@, n)], c2s' = c2s, net' = net, UNCHANGED serverVars, put' = put,
         FilesRight', Gets(k2) => prog'[c[1]].at = c[2], \A d \in Conn : d # c => Same(d),
         Fetches(k2, Drop(s2c[c].data, n), CutsLeft(s2c[c].cuts, n), prog'[c[1]], Behind(c), Ups)
  PROVE  FetchInv'
<1>1. DfsShape /\ srv' = srv /\ disk' = disk /\ Ups' = Ups /\ PartsFill
  <2>1. DfsShape /\ srv' = srv /\ disk' = disk
    BY DEF TypeInv, serverVars
  <2>. QED BY <2>1, UpsKept, DisksFill
<1>2. con'[c] = k2 /\ s2c'[c] = Received(s2c[c], n)
  BY <1>1, Zenon DEF DfsShape
<1>3. \A d \in Conn : d # c => Aside(d) /\ Same(d)
  BY <1>1, Zenon DEF DfsShape, Aside
<1>4. OutOn(c)'
  <2>1. OutOn(c) /\ srv'[c] = srv[c] /\ disk'[c[2]] = disk[c[2]]
    BY <1>1, Zenon DEF FetchInv
  <2>. QED BY <1>1, <2>1, Zenon DEF OutOn
<1>5. s2c'[c].data = Drop(s2c[c].data, n) /\ s2c'[c].cuts = CutsLeft(s2c[c].cuts, n)
  BY <1>2 DEF Received, CutsLeft
<1>6. Behind(c)' = Behind(c)
  BY <1>1, Zenon DEF Behind
<1>7. StreamOn(c)'
  BY <1>1, <1>2, <1>5, <1>6, Zenon DEF StreamOn
<1>8. AtGet(c)'
  BY <1>2, Zenon DEF AtGet
<1>9. Ups \subseteq Ups'
  BY <1>1
<1>. QED BY <1>1, <1>3, <1>4, <1>7, <1>8, <1>9, OneFetch, Zenon

(* The callbacks of PUT and LIST drop lines.                               *)
Skips(q, k) == ~Gets(k) /\ (k = q \/ \E m \in Nat : k.inp = Drop(q.inp, m))

LEMMA PutSkips ==
  ASSUME NEW c, NEW q \in ClientConnection, q.cb = "put", DOMAIN con = Conn, Connection_callback_put(c, q)
  PROVE  prog' = prog /\ tmp' = tmp /\ got' = got /\ \E k : con' = [con EXCEPT ![c] = k] /\ Skips(q, k)
<1>1. q.inp \in Seq(Told) /\ prog' = prog /\ tmp' = tmp /\ got' = got
  BY DEF ClientConnection, Connection_callback_put, clientFiles
<1>2. CASE ~HasLine(q.inp)
  <2>1. con' = [con EXCEPT ![c] = q]
    BY <1>2, Zenon DEF Connection_callback_put
  <2>2. ~Gets(q)
    BY DEF Gets
  <2>. QED BY <1>1, <2>1, <2>2, Zenon DEF Skips
<1>3. CASE HasLine(q.inp)
  <2>. DEFINE rest == AfterLine(q.inp)
              n    == LineEnd(q.inp)
  <2>1. rest = Drop(q.inp, n) /\ n \in Nat
    <3>1. LineEnd(q.inp) \in 1..Len(q.inp)
      BY <1>1, <1>3, LineEndInside
    <3>. QED BY <3>1 DEF AfterLine, Drop
  <2>. DEFINE out == q.out \o Upload(c)
              r == [q EXCEPT !.inp = rest, !.cb = "none"]
              u == [q EXCEPT !.inp = rest, !.cb = "none", !.wcb = TRUE, !.out = out]
  <2>2. con' = [con EXCEPT ![c] = r] \/ con' = [con EXCEPT ![c] = u]
    BY <1>3, Zenon DEF Connection_callback_put, Uploading
  <2>. HIDE DEF rest, out, n
  <2>3. r.inp = rest /\ r.cb = "none" /\ u.inp = rest /\ u.cb = "none"
    BY DEF ClientConnection
  <2>. HIDE DEF r, u
  <2>4. ~Gets(r) /\ ~Gets(u)
    BY <2>3 DEF Gets
  <2>5. \E m \in Nat : rest = Drop(q.inp, m)
    BY <2>1
  <2>6. Skips(q, r) /\ Skips(q, u)
    BY <2>3, <2>4, <2>5, Zenon DEF Skips
  <2>. QED BY <1>1, <2>2, <2>6, Zenon
<1>. QED BY <1>2, <1>3

LEMMA ListSkips ==
  ASSUME TypeInv, NEW c \in Conn, NEW q \in ClientConnection, q.cb = "list", Connection_callback_list(c, q)
  PROVE  prog' = prog /\ tmp' = tmp /\ got' = got /\ \E k : con' = [con EXCEPT ![c] = k] /\ Skips(q, k)
<1>1. PICK r \in ClientConnection :
        /\ con' = [con EXCEPT ![c] = r] /\ r.cb = "list"
        /\ \E n \in Nat, b \in BOOLEAN : r = [q EXCEPT !.inp = Drop(q.inp, n), !.loop = b]
  BY ListCallbackType, Zenon DEF ListTakes
<1>2. PICK n \in Nat, b \in BOOLEAN : r = [q EXCEPT !.inp = Drop(q.inp, n), !.loop = b]
  BY <1>1, Zenon
<1>. DEFINE x == Drop(q.inp, n)
<1>3. r = [q EXCEPT !.inp = x, !.loop = b]
  BY <1>2
<1>. HIDE DEF x
<1>4. r.inp = x
  BY <1>3 DEF ClientConnection
<1>5. ~Gets(r)
  BY <1>1 DEF Gets
<1>6. Skips(q, r)
  BY <1>4, <1>5, Zenon DEF Skips, x
<1>7. prog' = prog /\ tmp' = tmp /\ got' = got
  BY DEF Connection_callback_list
<1>. QED BY <1>1, <1>6, <1>7, Zenon

(* The callback of GET takes parts, and puts them into files.              *)
LEMMA GetCallbackFetches ==
  ASSUME PlainFiles, TypeInv, FetchInv, NEW c \in Conn, NEW q \in ClientConnection, prog[c[1]].cmd = "get",
         Gets(q), NEW b \in Seq(Token), NEW C, C \subseteq Nat, NEW seg, Fetches(q, b, C, prog[c[1]], seg, Ups),
         Connection_callback_get(c, q)
  PROVE  LET k == c[1]
             f == Path(prog[k].file)
         IN \E h \in GetRun(q) :
              /\ con' = [con EXCEPT ![c] = [h.q EXCEPT !.loop = (h.go # "break")]]
              /\ prog' = [prog EXCEPT ![k].partnum = h.partnum, ![k].size = h.size]
              /\ tmp' = [tmp EXCEPT ![k][f] = h.tmp]
              /\ got' = [got EXCEPT ![k][f] = h.got]
              /\ RoundHolds(h, b, C, seg, Ups)
<1> DEFINE k == c[1]
           f == Path(prog[k].file)
           start == [ q |-> q, partnum |-> prog[k].partnum, size |-> prog[k].size,
                      tmp |-> tmp[k][f], got |-> got[k][f], go |-> "on" ]
<1>1. ProgramOK(k) /\ f \in File /\ k \in Client
  <2>1. k \in Client
    BY DEF Conn
  <2>2. prog[k].file \in File /\ ProgramOK(k)
    BY <2>1, Zenon DEF TypeInv, ProgramOK
  <2>. QED BY <2>1, <2>2, ChannelAssumption
<1>2. start \in GetRun(q)
  <2>1. /\ prog[k].partnum \in Number \cup {0} /\ prog[k].size \in Nat
        /\ tmp[k][f] \in PartFiles /\ got[k][f] \in PartFile
    BY <1>1 DEF ProgramOK, Program
  <2>2. q \in Rest(q)
    BY RestStarts
  <2>. DEFINE a == prog[k].partnum
              z == prog[k].size
              t == tmp[k][f]
              g == got[k][f]
  <2>. HIDE DEF a, z, t, g
  <2>3. [q |-> q, partnum |-> a, size |-> z, tmp |-> t, got |-> g, go |-> "on"] \in GetRun(q)
    BY <2>1, <2>2 DEF GetRun, a, z, t, g
  <2>. QED BY <2>3 DEF a, z, t, g
<1>3. 2 * Len(q.inp) + 2 \in Nat
  BY LenProperties DEF ClientConnection
<1>4. RoundHolds(start, b, C, seg, Ups)
  <2>1. /\ start.q = q /\ start.partnum = prog[k].partnum /\ start.size = prog[k].size
        /\ start.tmp = tmp[k][f] /\ start.got = got[k][f]
    OBVIOUS
  <2>2. FilesOf(tmp[k][f], got[k][f], Ups)
    BY <1>1, Zenon DEF FetchInv, FilesRight
  <2>3. /\ Framed(q.inp \o b, seg, Ups) /\ Unbroken(q.inp \o b, Len(q.inp), C)
        /\ q.m_get_state \notin {1, 3} => PartNext(q.inp, b, C, prog[k], seg, Ups)
    BY Zenon DEF Fetches
  <2>. HIDE DEF start, f, k
  <2>4. PartNext(q.inp, b, C, prog[k], seg, Ups) => PartNext(q.inp, b, C, start, seg, Ups)
    BY <2>1 DEF PartNext
  <2>. QED BY <2>1, <2>2, <2>3, <2>4 DEF RoundHolds
<1>5. PICK h \in Rounds(start, f)[2 * Len(q.inp) + 2] :
        /\ con' = [con EXCEPT ![c] = [h.q EXCEPT !.loop = (h.go # "break")]]
        /\ prog' = [prog EXCEPT ![k].partnum = h.partnum, ![k].size = h.size]
        /\ tmp' = [tmp EXCEPT ![k][f] = h.tmp]
        /\ got' = [got EXCEPT ![k][f] = h.got]
  BY Zenon DEF Connection_callback_get, start
<1>6. Ups \subseteq Version
  BY DEF Ups
<1>7. PICK m : m = 2 * Len(q.inp) + 2
  OBVIOUS
<1>. HIDE DEF start, f, k
<1>8. h \in GetRun(q) /\ RoundHolds(h, b, C, seg, Ups)
  BY <1>2, <1>3, <1>4, <1>5, <1>6, <1>7, RoundsKeep, Zenon
<1>. QED BY <1>5, <1>8, Zenon DEF f, k

(* One read of a client and the callback that is set.                      *)
LEMMA ClientReadFetches ==
  ASSUME PlainFiles, TypeInv, FetchInv, NEW c \in Conn, ClientRead(c), UNCHANGED serverVars, put' = put
  PROVE  FetchInv'
<1> DEFINE Joined(m) == [con[c] EXCEPT !.inp = @ \o Take(s2c[c].data, m)]
           k == c[1]
           g == prog[k]
           b == s2c[c].data
           C == s2c[c].cuts
           seg == Behind(c)
<1>0. /\ con[c] \in ClientConnection /\ DfsShape /\ con[c].loop /\ k \in Client /\ ProgramOK(k)
      /\ con[c].cb \in {"none", g.cmd} /\ b \in Seq(Token) /\ C \subseteq 1..Len(b) /\ con[c].inp \in Seq(Token)
      /\ Ups \subseteq Version /\ Ups \subseteq Ups' /\ FilesRight
  <2>1. con[c].loop /\ k \in Client /\ DfsShape /\ FilesRight
    BY Zenon DEF TypeInv, ClientRead, Conn, FetchInv
  <2>2. con[c].cb \in {"none", g.cmd} /\ ProgramOK(k)
    BY <2>1, Zenon DEF TypeInv, Linked
  <2>3. Ups' = Ups /\ Ups \subseteq Version
    BY UpsKept DEF Ups
  <2>. QED BY <2>1, <2>2, <2>3, StreamTypes
<1>1. PICK n \in s2c[c].cuts : \E q \in {Joined(n)} :
        /\ s2c' = [s2c EXCEPT ![c] = Received(@, n)]
        /\ UNCHANGED <<c2s, net>>
        /\ \/ q.cb = "none" /\ con' = [con EXCEPT ![c] = q] /\ UNCHANGED <<prog, clientFiles>>
           \/ q.cb = "put" /\ Connection_callback_put(c, q)
           \/ q.cb = "list" /\ Connection_callback_list(c, q)
           \/ q.cb = "get" /\ Connection_callback_get(c, q)
  <2>. HIDE DEF Joined
  <2>. QED BY Zenon DEF ClientRead, Joined
<1>2. PICK q :
        /\ q = [con[c] EXCEPT !.inp = con[c].inp \o Take(s2c[c].data, n)]
        /\ s2c' = [s2c EXCEPT ![c] = Received(@, n)]
        /\ c2s' = c2s /\ net' = net
        /\ \/ q.cb = "none" /\ con' = [con EXCEPT ![c] = q] /\ UNCHANGED <<prog, clientFiles>>
           \/ q.cb = "put" /\ Connection_callback_put(c, q)
           \/ q.cb = "list" /\ Connection_callback_list(c, q)
           \/ q.cb = "get" /\ Connection_callback_get(c, q)
  BY <1>1
<1>. HIDE DEF Joined
<1>3. q \in ClientConnection /\ q.cb = con[c].cb /\ q.inp = con[c].inp \o Take(b, n)
  BY <1>2, JoinedCon
<1>4. q.loop /\ q.m_get_state = con[c].m_get_state
  <2>. DEFINE x == con[c].inp \o Take(s2c[c].data, n)
  <2>1. q = [con[c] EXCEPT !.inp = x]
    BY <1>2
  <2>. HIDE DEF x
  <2>. QED BY <1>0, <2>1 DEF ClientConnection
<1>. DEFINE y == Drop(b, n)
            L == CutsLeft(C, n)
<1>5. Fetches(con[c], b, C, g, seg, Ups)
  <2>1. b # <<>>
    BY <1>0, EmptySeq
  <2>. QED BY <2>1, Zenon DEF FetchInv, StreamOn
<1>6. q.inp \in Seq(Token) /\ y \in Seq(Token) /\ Fetches(q, y, L, g, seg, Ups)
  <2>1. GoesOn(con[c], g, q, g)
    BY <1>0, <1>3, <1>4, Zenon DEF GoesOn, Gets
  <2>. DEFINE r == con[c]
  <2>2. /\ r.inp \in Seq(Token) /\ q.inp = r.inp \o Take(b, n) /\ GoesOn(r, g, q, g) /\ n \in C
        /\ Fetches(r, b, C, g, seg, Ups)
    BY <1>0, <1>3, <1>5, <2>1
  <2>. HIDE DEF r, b, C, g, seg
  <2>. QED BY <1>0, <2>2, FetchesRead
<1>7. L \subseteq Nat
  <2>1. Len(b) \in Nat /\ n \in Nat /\ C \subseteq Nat
    BY <1>0, LenProperties
  <2>. HIDE DEF b, C
  <2>. QED BY <2>1 DEF CutsLeft
<1>8. ASSUME prog' = prog, tmp' = tmp, got' = got, NEW x, con' = [con EXCEPT ![c] = x], Skips(q, x)
      PROVE  FetchInv'
  <2>1. FilesRight' /\ ~Gets(x) /\ \A d \in Conn : d # c => Same(d)
    BY <1>0, <1>8, FilesStay, Zenon DEF Same, Skips
  <2>2. Fetches(x, y, L, g, seg, Ups)
    <3>1. CASE x = q
      BY <1>6, <3>1
    <3>2. ASSUME NEW m \in Nat, x.inp = Drop(q.inp, m) PROVE Fetches(x, y, L, g, seg, Ups)
      <4>. HIDE DEF y, L, g, seg
      <4>. QED BY <1>0, <1>6, <1>7, <2>1, <3>2, FetchesSkip
    <3>. QED BY <1>8, <3>1, <3>2, Zenon DEF Skips
  <2>3. Fetches(x, Drop(s2c[c].data, n), CutsLeft(s2c[c].cuts, n), prog'[c[1]], Behind(c), Ups)
    BY <1>8, <2>2
  <2>. QED BY <1>2, <1>8, <2>1, <2>3, ReadFetched, Zenon
<1>9. CASE q.cb = "none" /\ con' = [con EXCEPT ![c] = q] /\ UNCHANGED <<prog, clientFiles>>
  <2>1. prog' = prog /\ tmp' = tmp /\ got' = got /\ Skips(q, q)
    BY <1>9 DEF clientFiles, Skips, Gets
  <2>. QED BY <1>8, <1>9, <2>1, Zenon
<1>10. CASE q.cb = "put" /\ Connection_callback_put(c, q)
  <2>1. DOMAIN con = Conn
    BY <1>0 DEF DfsShape
  <2>. QED BY <1>3, <1>8, <1>10, <2>1, PutSkips, Zenon
<1>11. CASE q.cb = "list" /\ Connection_callback_list(c, q)
  BY <1>3, <1>8, <1>11, ListSkips, Zenon
<1>12. CASE q.cb = "get" /\ Connection_callback_get(c, q)
  <2>. DEFINE f == Path(g.file)
  <2>1. g.cmd = "get" /\ Gets(q) /\ f \in File
    <3>1. g.cmd = "get" /\ Gets(q) /\ g.file \in File
      BY <1>0, <1>3, <1>4, <1>12 DEF Gets, ProgramOK
    <3>. QED BY <3>1, ChannelAssumption
  <2>2. PICK h \in GetRun(q) :
          /\ con' = [con EXCEPT ![c] = [h.q EXCEPT !.loop = (h.go # "break")]]
          /\ prog' = [prog EXCEPT ![k].partnum = h.partnum, ![k].size = h.size]
          /\ tmp' = [tmp EXCEPT ![k][f] = h.tmp]
          /\ got' = [got EXCEPT ![k][f] = h.got]
          /\ RoundHolds(h, y, L, seg, Ups)
    <3>1. prog[c[1]].cmd = "get" /\ Fetches(q, y, L, prog[c[1]], seg, Ups)
      BY <1>6, <2>1
    <3>. HIDE DEF y, L, seg
    <3>. QED BY <1>3, <1>6, <1>7, <1>12, <2>1, <3>1, GetCallbackFetches
  <2>. DEFINE on == h.go # "break"
              r == h.q
              x == [r EXCEPT !.loop = on]
  <2>3. r \in ClientConnection
    BY DEF GetRun, Rest
  <2>4. x.inp = r.inp /\ x.m_get_state = r.m_get_state /\ con' = [con EXCEPT ![c] = x]
    <3>1. con' = [con EXCEPT ![c] = x]
      BY <2>2
    <3>. HIDE DEF on, r
    <3>. QED BY <2>3, <3>1 DEF ClientConnection
  <2>5. /\ prog'[k].partnum = h.partnum /\ prog'[k].size = h.size /\ prog'[k].at = g.at
        /\ \A j \in Client : j # k => prog'[j] = prog[j]
    <3>1. g \in Program /\ DOMAIN prog = Client
      BY <1>0, Zenon DEF ProgramOK, DfsShape
    <3>2. prog' = [prog EXCEPT ![k].partnum = h.partnum, ![k].size = h.size]
      BY <2>2, Zenon
    <3>. QED BY <1>0, <3>1, <3>2 DEF Program
  <2>6. Fetches(x, y, L, prog'[k], seg, Ups)
    <3>1. PartNext(r.inp, y, L, h, seg, Ups) => PartNext(r.inp, y, L, prog'[k], seg, Ups)
      <4>. DEFINE g2 == prog'[k]
                  i == r.inp
      <4>1. g2.partnum = h.partnum /\ g2.size = h.size
        BY <2>5
      <4>. HIDE DEF g2, i, y, L, seg
      <4>2. PartNext(i, y, L, h, seg, Ups) => PartNext(i, y, L, g2, seg, Ups)
        BY <4>1 DEF PartNext
      <4>. QED BY <4>2 DEF g2, i
    <3>2. /\ Framed(r.inp \o y, seg, Ups) /\ Unbroken(r.inp \o y, Len(r.inp), L)
          /\ r.m_get_state \notin {1, 3} => PartNext(r.inp, y, L, h, seg, Ups)
      BY <2>2, Zenon DEF RoundHolds
    <3>. HIDE DEF x, r, y, L, seg
    <3>. QED BY <2>4, <3>1, <3>2 DEF Fetches
  <2>7. FilesRight'
    <3>1. FilesOf(h.tmp, h.got, Ups)
      BY <2>2, Zenon DEF RoundHolds
    <3>2. ASSUME NEW j \in Client, NEW e \in File PROVE FilesOf(tmp'[j][e], got'[j][e], Ups')
      <4>1. FilesOf(tmp[j][e], got[j][e], Ups)
        BY <1>0, Zenon DEF FilesRight
      <4>2. \/ tmp'[j][e] = tmp[j][e] /\ got'[j][e] = got[j][e]
            \/ tmp'[j][e] = h.tmp /\ got'[j][e] = h.got
        <5>1. DOMAIN tmp = Client /\ DOMAIN got = Client /\ DOMAIN tmp[k] = File /\ DOMAIN got[k] = File
          BY <1>0, Zenon DEF DfsShape, ProgramOK
        <5>2. tmp' = [tmp EXCEPT ![k][f] = h.tmp] /\ got' = [got EXCEPT ![k][f] = h.got]
          BY <2>2, Zenon
        <5>. HIDE DEF f
        <5>. QED BY <1>0, <2>1, <5>1, <5>2
      <4>3. FilesOf(tmp'[j][e], got'[j][e], Ups)
        BY <3>1, <4>1, <4>2
      <4>. QED BY <1>0, <4>3, FilesMore, Zenon
    <3>. QED BY <3>2, Zenon DEF FilesRight
  <2>8. ASSUME NEW d \in Conn, d # c PROVE Same(d)
    <3>1. CASE d[1] # k
      <4>1. prog'[d[1]] = prog[d[1]]
        BY <2>5, <3>1 DEF Conn
      <4>. QED BY <4>1, Zenon DEF Same
    <3>2. CASE d[1] = k
      <4>1. d[2] # c[2]
        BY <2>8, <3>2 DEF Conn
      <4>2. Gets(con[c]) /\ AtGet(c) /\ AtGet(d)
        BY <1>0, <1>3, <1>12, Zenon DEF Gets, FetchInv
      <4>3. ~Gets(con[d])
        BY <3>2, <4>1, <4>2 DEF AtGet
      <4>. QED BY <4>3, Zenon DEF Same
    <3>. QED BY <3>1, <3>2
  <2>9. prog'[c[1]].at = c[2]
    <3>1. Gets(con[c]) /\ AtGet(c)
      BY <1>0, <1>3, <1>12, Zenon DEF Gets, FetchInv
    <3>. QED BY <2>5, <3>1 DEF AtGet
  <2>10. Fetches(x, Drop(s2c[c].data, n), CutsLeft(s2c[c].cuts, n), prog'[c[1]], Behind(c), Ups)
    BY <2>6
  <2>. HIDE DEF x
  <2>. QED BY <1>2, <2>4, <2>7, <2>8, <2>9, <2>10, ReadFetched, Zenon
<1>. QED BY <1>2, <1>9, <1>10, <1>11, <1>12

(* A step of a client's connection.                                        *)
LEMMA DispatchFetches ==
  ASSUME PlainFiles, TypeInv, FetchInv, NEW c \in Conn, Dispatch(c)
  PROVE  FetchInv'
<1>1. LoopStep(c) /\ UNCHANGED serverVars /\ put' = put
  BY DEF Dispatch, userVars
<1>. QED BY <1>1, LoopStillFetches, ClientWriteFetches, ClientReadFetches, Zenon DEF LoopStep

-----------------------------------------------------------------------------
(* The commands.  A connection of client k, which has no loop that runs,   *)
(* keeps what has come; the connections of other clients are not touched.  *)
Commanded(k) ==
  \A c \in Conn :
    IF c[1] # k THEN con'[c] = con[c] /\ prog'[c[1]] = prog[c[1]]
    ELSE /\ con'[c].inp = con[c].inp
         /\ Gets(con'[c]) => con'[c].m_get_state = 1 /\ prog'[k].at = c[2]

LEMMA CommandedFetches ==
  ASSUME TypeInv, FetchInv, NEW k \in Client, Commanded(k), UNCHANGED serverVars, UNCHANGED netVars,
         tmp' = tmp, got' = got, Ups \subseteq Ups'
  PROVE  FetchInv'
<1>1. srv' = srv /\ disk' = disk /\ s2c' = s2c /\ net' = net
  BY DEF serverVars, netVars
<1>2. ASSUME NEW c \in Conn
      PROVE  con'[c].inp = con[c].inp /\ Unmoved(c) /\ (Gets(con'[c]) => prog'[c[1]].at = c[2])
  <2>1. CASE c[1] # k
    <3>1. con'[c] = con[c] /\ prog'[c[1]] = prog[c[1]] /\ AtGet(c)
      BY <2>1, Zenon DEF Commanded, FetchInv
    <3>. QED BY <3>1 DEF Unmoved, GoesOn, AtGet
  <2>2. CASE c[1] = k
    <3>1. /\ con'[c].inp = con[c].inp
          /\ Gets(con'[c]) => con'[c].m_get_state = 1 /\ prog'[k].at = c[2]
      BY <2>2, Zenon DEF Commanded
    <3>. QED BY <2>2, <3>1 DEF Unmoved, GoesOn
  <2>. QED BY <2>1, <2>2
<1>. QED BY <1>1, <1>2, CommandFetches, Zenon

LEMMA StartPutFetches ==
  ASSUME TypeInv, FetchInv, NEW k \in Client, NEW v \in Version, StartPut(k, v),
         UNCHANGED serverVars, Ups \subseteq Ups'
  PROVE  FetchInv'
<1>0. DfsShape /\ prog[k].cmd = "none" /\ UNCHANGED netVars /\ tmp' = tmp /\ got' = got
  BY DEF TypeInv, StartPut, Idle, clientFiles
<1>1. ASSUME NEW c \in Conn, c[1] # k PROVE con'[c] = con[c] /\ prog'[c[1]] = prog[c[1]]
  <2>1. c[1] \in Client /\ DOMAIN prog = Client
    BY <1>0, Zenon DEF DfsShape, Conn
  <2>2. prog'[c[1]] = prog[c[1]]
    BY <1>1, <2>1 DEF StartPut
  <2>. QED BY <1>1, <2>2, Zenon DEF StartPut
<1>2. ASSUME NEW c \in Conn, c[1] = k PROVE con'[c].inp = con[c].inp /\ ~Gets(con'[c])
  <2>1. con[c] \in ClientConnection /\ ~con[c].loop
    BY <1>0, <1>2, NoLoopIdle, Zenon DEF TypeInv, FlowOK
  <2>2. PICK q : q = Requested(c, Put(FileOf(v)), "put")
    OBVIOUS
  <2>3. PICK w : w = IF con[c].m_connected THEN v ELSE q.version
    OBVIOUS
  <2>4. con'[c] = [q EXCEPT !.version = w]
    BY <1>2, <2>2, <2>3 DEF StartPut
  <2>5. q \in ClientConnection /\ q.inp = con[c].inp /\ ~Gets(q)
    <3>1. Put(FileOf(v)) \in Written
      BY ChannelAssumption, TokensWritten
    <3>2. q \in ClientConnection
      BY <2>2, <3>1, RequestedType
    <3>3. CASE ~con[c].m_connected
      <4>1. q = con[c]
        BY <2>2, <3>3, Zenon DEF Requested
      <4>. QED BY <2>1, <4>1 DEF Gets
    <3>4. CASE con[c].m_connected
      <4>1. q.inp = con[c].inp /\ q.cb = "put"
        BY <2>2, <3>4, RequestedOut, SMTT(60)
      <4>. QED BY <3>2, <4>1 DEF Gets
    <3>. QED BY <3>2, <3>3, <3>4
  <2>6. con'[c].inp = q.inp /\ con'[c].loop = q.loop /\ con'[c].cb = q.cb
    BY <2>4, <2>5 DEF ClientConnection
  <2>. QED BY <2>5, <2>6 DEF Gets
<1>3. Commanded(k)
  BY <1>1, <1>2, Zenon DEF Commanded
<1>. QED BY <1>0, <1>3, CommandedFetches, Zenon

LEMMA StartListFetches ==
  ASSUME TypeInv, FetchInv, NEW k \in Client, StartList(k), UNCHANGED serverVars, put' = put
  PROVE  FetchInv'
<1>0. /\ DfsShape /\ prog[k].cmd = "none" /\ UNCHANGED netVars /\ tmp' = tmp /\ got' = got
      /\ Ups \subseteq Ups' /\ List \in Written
  BY UpsKept, TokensWritten DEF TypeInv, StartList, Idle, clientFiles
<1>1. ASSUME NEW c \in Conn, c[1] # k PROVE con'[c] = con[c] /\ prog'[c[1]] = prog[c[1]]
  <2>1. c[1] \in Client /\ DOMAIN prog = Client
    BY <1>0, Zenon DEF DfsShape, Conn
  <2>2. prog'[c[1]] = prog[c[1]]
    BY <1>1, <2>1 DEF StartList
  <2>. QED BY <1>1, <2>2, Zenon DEF StartList
<1>2. ASSUME NEW c \in Conn, c[1] = k PROVE con'[c].inp = con[c].inp /\ ~Gets(con'[c])
  <2>1. con[c] \in ClientConnection /\ ~con[c].loop
    BY <1>0, <1>2, NoLoopIdle, Zenon DEF TypeInv, FlowOK
  <2>2. PICK q : q = Requested(c, List, "list")
    OBVIOUS
  <2>3. con'[c] = q
    BY <1>2, <2>2 DEF StartList
  <2>4. CASE ~con[c].m_connected
    <3>1. q = con[c]
      BY <2>2, <2>4, Zenon DEF Requested
    <3>. QED BY <2>1, <2>3, <3>1 DEF Gets
  <2>5. CASE con[c].m_connected
    <3>1. q.inp = con[c].inp /\ q.cb = "list"
      BY <2>2, <2>5, RequestedOut, SMTT(60)
    <3>. QED BY <2>3, <3>1 DEF Gets
  <2>. QED BY <2>4, <2>5
<1>3. Commanded(k)
  BY <1>1, <1>2, Zenon DEF Commanded
<1>. QED BY <1>0, <1>3, CommandedFetches, Zenon

LEMMA GetFromFetches ==
  ASSUME TypeInv, FetchInv, NEW k \in Client, NEW s \in Server, NEW f \in File,
         \A c \in Conn : c[1] = k => ~con[c].loop, GetFrom(k, s, f), UNCHANGED serverVars, put' = put
  PROVE  FetchInv'
<1> DEFINE d == <<k, s>>
           q == Requested(d, Get(f, 0), "get")
           r == [q EXCEPT !.m_get_state = 1]
           P == [prog[k] EXCEPT !.cmd = "get", !.file = f, !.at = s]
<1>0. /\ DfsShape /\ prog[k] \in Program /\ UNCHANGED netVars /\ tmp' = tmp /\ got' = got
      /\ Ups \subseteq Ups' /\ d \in Conn /\ d[1] = k /\ d[2] = s /\ Get(f, 0) \in Written
  BY UpsKept, TokensWritten DEF TypeInv, ProgramOK, GetFrom, clientFiles, Conn
<1>1. prog'[k].at = s /\ \A j \in Client : j # k => prog'[j] = prog[j]
  <2>1. prog' = [prog EXCEPT ![k] = P]
    BY <1>0, FieldsAssigned, Zenon DEF GetFrom, DfsShape
  <2>2. P.at = s
    BY <1>0 DEF Program
  <2>. HIDE DEF P
  <2>. QED BY <1>0, <2>1, <2>2 DEF DfsShape
<1>2. con' = [con EXCEPT ![d] = IF con[d].m_connected THEN r ELSE con[d]]
  BY <1>0, Zenon DEF GetFrom
<1>3. con[d].m_connected => r.inp = con[d].inp /\ r.m_get_state = 1
  <2>. SUFFICES ASSUME con[d].m_connected PROVE r.inp = con[d].inp /\ r.m_get_state = 1
    OBVIOUS
  <2>1. PICK z : z = q
    OBVIOUS
  <2>2. z \in ClientConnection
    BY <1>0, <2>1, RequestedType
  <2>3. z.inp = con[d].inp
    BY <1>0, <2>1, RequestedOut, SMTT(60)
  <2>4. r = [z EXCEPT !.m_get_state = 1]
    BY <2>1
  <2>. HIDE DEF q, r
  <2>. QED BY <2>2, <2>3, <2>4 DEF ClientConnection
<1>. HIDE DEF r, q
<1>4. ASSUME NEW c \in Conn, c[1] # k PROVE con'[c] = con[c] /\ prog'[c[1]] = prog[c[1]]
  <2>1. c[1] \in Client /\ c # d
    BY <1>0, <1>4 DEF Conn
  <2>. QED BY <1>0, <1>1, <1>2, <1>4, <2>1, Zenon DEF DfsShape
<1>5. ASSUME NEW c \in Conn, c[1] = k
      PROVE  con'[c].inp = con[c].inp /\ (Gets(con'[c]) => con'[c].m_get_state = 1 /\ prog'[k].at = c[2])
  <2>1. ~Gets(con[c])
    BY <1>5 DEF Gets
  <2>2. con'[c] = con[c] \/ (c = d /\ con[d].m_connected /\ con'[d] = r)
    BY <1>0, <1>2, Zenon DEF DfsShape
  <2>. QED BY <1>0, <1>1, <1>3, <2>1, <2>2, Zenon
<1>6. Commanded(k)
  BY <1>4, <1>5, Zenon DEF Commanded
<1>. QED BY <1>0, <1>6, CommandedFetches, Zenon

(* A command returns.                                                      *)
LEMMA DoneFetches ==
  ASSUME TypeInv, FetchInv, NEW k \in Client, Done(k), con' = con, ~InLoop(k), tmp' = tmp, got' = got,
         UNCHANGED serverVars, UNCHANGED netVars, put' = put
  PROVE  FetchInv'
<1> DEFINE P == [prog[k] EXCEPT !.cmd = "none", !.file = NoFile, !.at = 0]
<1>0. DfsShape /\ Ups \subseteq Ups'
  BY UpsKept DEF TypeInv
<1>1. \A j \in Client : j # k => prog'[j] = prog[j]
  <2>1. prog' = [prog EXCEPT ![k] = P]
    BY <1>0, FieldsAssigned, Zenon DEF Done, DfsShape
  <2>. HIDE DEF P
  <2>. QED BY <1>0, <2>1, Zenon DEF DfsShape
<1>2. \A c \in Conn : c[1] = k => ~con[c].loop
  BY DEF InLoop, Conn
<1>3. \A c \in Conn : c[1] \in Client
  BY DEF Conn
<1>4. Commanded(k)
  BY <1>1, <1>2, <1>3, Zenon DEF Commanded, Gets
<1>. QED BY <1>0, <1>4, CommandedFetches, Zenon

LEMMA ProceedFetches ==
  ASSUME TypeInv, FetchInv, NEW k \in Client, CommandStep(k), UNCHANGED serverVars, put' = put
  PROVE  FetchInv'
<1>1. CASE GetNext(k)
  <2>1. prog[k].at + 1 \in Server /\ prog[k].file \in File
    <3>1. ProgramOK(k)
      BY Zenon DEF TypeInv
    <3>. QED BY <1>1, <3>1 DEF GetNext, ProgramOK, Server
  <2>2. \A c \in Conn : c[1] = k => ~con[c].loop
    BY <1>1 DEF GetNext, InLoop, Conn
  <2>. QED BY <1>1, <2>1, <2>2, GetFromFetches, Zenon DEF GetNext
<1>2. CASE ClientDies(k, "killed", s2c)
  BY <1>2, ClientDiesFetches, Zenon
<1>3. CASE PutDone(k) \/ GetDone(k) \/ (ListDone(k) /\ ~ClientDies(k, "killed", s2c))
  <2>1. Done(k) /\ con' = con /\ UNCHANGED netVars /\ ~InLoop(k) /\ tmp' = tmp /\ got' = got
    BY <1>3 DEF PutDone, GetDone, ListDone, clientFiles
  <2>. QED BY <2>1, DoneFetches, Zenon
<1>. QED BY <1>1, <1>2, <1>3, Zenon DEF CommandStep

-----------------------------------------------------------------------------
(* A client program starts: nothing has come yet.                          *)
LEMMA NothingFetched ==
  ASSUME NEW k, k.inp = <<>>, ~Gets(k)
  PROVE  \A C, g, seg, U : Fetches(k, <<>>, C, g, seg, U)
<1>1. <<>> \o <<>> = <<>> /\ Len(<<>>) = 0
  OBVIOUS
<1>2. k.inp \o <<>> = <<>> /\ 1..Len(<<>>) = {}
  BY <1>1
<1>. QED BY <1>2 DEF Fetches, Framed, Unbroken

LEMMA StartsFetches ==
  ASSUME TypeInv, UploadsInv, FetchInv, NEW k \in Client, UserStarts(k)
  PROVE  FetchInv'
<1> DEFINE noticed == Server \ Live
           up == { s \in Server : fate[s] = "up" }
<1>0. /\ DfsShape /\ srv' = srv /\ disk' = disk /\ put' = put /\ tmp' = tmp /\ got' = got
      /\ StartClient(k, up, noticed) /\ c2s' = c2s /\ s2c' = s2c
  BY DEF TypeInv, UserStarts, serverVars, userVars, StartClient, clientFiles
<1>. HIDE DEF noticed, up
<1>1. Ups' = Ups /\ Ups \subseteq Ups' /\ PartsFill
  BY <1>0, UpsKept, DisksFill
<1>2. FilesRight'
  BY <1>0, <1>1, FilesStay, Zenon DEF FetchInv
<1>3. prog[k].life = "new" /\ \A j \in Client : j # k => prog'[j] = prog[j]
  BY <1>0, Zenon DEF StartClient, DfsShape
<1>4. ASSUME NEW c \in Conn PROVE OutOn(c)' /\ StreamOn(c)' /\ AtGet(c)'
  <2>1. Links(c) /\ OutOn(c) /\ StreamOn(c) /\ AtGet(c) /\ c[1] \in Client
    BY Zenon DEF UploadsInv, FetchInv, Conn
  <2>2. CASE c[1] # k
    <3>1. Aside(c)
      BY <1>0, <2>2, Zenon DEF StartClient, Aside
    <3>2. Same(c)
      BY <1>3, <2>1, <2>2, Zenon DEF Same
    <3>3. Fills(disk[c[2]], disk'[c[2]])
      BY <1>1, StreamTypes, Zenon DEF PartsFill
    <3>. QED BY <1>1, <2>1, <3>1, <3>2, <3>3, AsideFetches, Zenon
  <2>3. CASE c[1] = k
    <3>1. con[c] = NewConnection /\ s2c[c] = Empty
      BY <1>3, <2>1, <2>3, Zenon DEF Links
    <3>2. PICK m : con'[c] = [NewConnection EXCEPT !.m_connected = m]
      BY <1>0, <2>3, <3>1, Zenon DEF StartClient
    <3>3. con'[c].inp = <<>> /\ ~Gets(con'[c]) /\ s2c'[c].data = <<>>
      BY <1>0, <3>1, <3>2 DEF NewConnection, Gets, Empty
    <3>4. StreamOn(c)'
      BY <3>3, NothingFetched DEF StreamOn
    <3>5. OutOn(c)'
      <4>1. srv'[c] = srv[c] /\ disk'[c[2]] = disk[c[2]]
        BY <1>0
      <4>. QED BY <1>1, <2>1, <4>1, Zenon DEF OutOn
    <3>. QED BY <3>3, <3>4, <3>5, Zenon DEF AtGet
  <2>. QED BY <2>2, <2>3
<1>. QED BY <1>2, <1>4, Zenon DEF FetchInv

LEMMA UserFetches ==
  ASSUME TypeInv, UploadsInv, PutTyped, FetchInv, NEW k \in Client, User(k)
  PROVE  FetchInv'
<1>1. CASE UserStarts(k)
  BY <1>1, StartsFetches
<1>2. CASE UserQuits(k)
  <2>1. ClientDies(k, "gone", s2c) /\ UNCHANGED serverVars /\ put' = put
    BY <1>2 DEF UserQuits, Quit, userVars
  <2>. QED BY <2>1, ClientDiesFetches, Zenon
<1>3. CASE UserList(k)
  <2>1. StartList(k) /\ UNCHANGED serverVars /\ put' = put
    BY <1>3 DEF UserList
  <2>. QED BY <2>1, StartListFetches, Zenon
<1>4. ASSUME NEW v \in Version, UserPut(k, v) PROVE FetchInv'
  <2>1. StartPut(k, v) /\ UNCHANGED serverVars /\ put' = [put EXCEPT ![k] = Append(@, v)]
    BY <1>4 DEF UserPut
  <2>. QED BY <2>1, PutsGrow, StartPutFetches, Zenon
<1>5. ASSUME NEW f \in File, UserGet(k, f) PROVE FetchInv'
  <2>1. GetFrom(k, 1, f) /\ prog[k].cmd = "none" /\ UNCHANGED serverVars /\ put' = put /\ 1 \in Server
    BY <1>5 DEF UserGet, StartGet, Idle, Server
  <2>2. \A c \in Conn : c[1] = k => ~con[c].loop
    BY <2>1, NoLoopIdle, Zenon
  <2>. QED BY <2>1, <2>2, GetFromFetches, Zenon
<1>. QED BY <1>1, <1>2, <1>3, <1>4, <1>5, Zenon DEF User

-----------------------------------------------------------------------------
(* The invariant.                                                          *)
LEMMA InitFetches ==
  ASSUME Init
  PROVE  FetchInv
<1>1. /\ s2c = [c \in Conn |-> Empty] /\ net = [c \in Conn |-> "none"]
      /\ srv = [c \in Conn |-> Absent] /\ con = [c \in Conn |-> NewConnection]
      /\ tmp = [k \in Client |-> [f \in File |-> [p \in Number |-> NoPart]]]
      /\ got = [k \in Client |-> [f \in File |-> NoPart]]
  BY DEF Init, NetInit, ServerInit, ClientInit
<1>2. ASSUME NEW c \in Conn PROVE OutOn(c) /\ StreamOn(c) /\ AtGet(c)
  <2>1. s2c[c] = Empty /\ net[c] = "none" /\ srv[c] = Absent /\ con[c] = NewConnection
    BY <1>1
  <2>2. s2c[c].data = <<>> /\ net[c] # "open" /\ srv[c].out = <<>> /\ ~Gets(con[c])
    BY <2>1, AbsentOut, FreshCon DEF Empty, Gets
  <2>. QED BY <2>2, EmptyOut, Zenon DEF OutOn, StreamOn, AtGet
<1>3. FilesRight
  <2>1. \A k \in Client, f \in File : got[k][f] = NoPart /\ \A p \in Number : tmp[k][f][p] = NoPart
    BY <1>1
  <2>. QED BY <2>1, ChannelAssumption DEF FilesRight, FilesOf, Fetched
<1>. QED BY <1>2, <1>3, Zenon DEF FetchInv

LEMMA NextFetches ==
  ASSUME OneSize, FlatNames, PlainFiles, TypeInv, UploadsInv, PutTyped, FetchInv, [Next]_vars
  PROVE  FetchInv'
<1>1. ASSUME NEW k \in Client, User(k) PROVE FetchInv'
  BY <1>1, UserFetches
<1>2. ASSUME NEW k \in Client, Proceed(k) PROVE FetchInv'
  <2>1. CommandStep(k) /\ UNCHANGED serverVars /\ put' = put
    BY <1>2 DEF Proceed, userVars
  <2>. QED BY <2>1, ProceedFetches, Zenon
<1>3. ASSUME NEW c \in Conn, Serve(c) \/ Dispatch(c) PROVE FetchInv'
  BY <1>3, ServeFetches, DispatchFetches, Zenon
<1>4. ASSUME NEW s \in Server, UserKills(s) \/ UserRestarts(s) PROVE FetchInv'
  BY <1>4, KillFetches
<1>5. CASE UNCHANGED vars
  <2>1. /\ srv' = srv /\ disk' = disk /\ UNCHANGED netVars /\ put' = put /\ con' = con /\ prog' = prog
        /\ tmp' = tmp /\ got' = got /\ s2c' = s2c /\ net' = net
    BY <1>5 DEF vars, userVars, clientVars, serverVars, netVars
  <2>2. \A c \in Conn : con'[c].inp = con[c].inp /\ Unmoved(c) /\ (Gets(con'[c]) => prog'[c[1]].at = c[2])
    BY <2>1, Zenon DEF Unmoved, GoesOn, FetchInv, AtGet
  <2>3. Ups \subseteq Ups'
    BY <2>1, UpsKept
  <2>. QED BY <2>1, <2>2, <2>3, CommandFetches, Zenon
<1>. QED BY <1>1, <1>2, <1>3, <1>4, <1>5, Zenon DEF Next

LEMMA FetchInvariant ==
  FlatNames /\ PlainFiles /\ OneSize => (Spec => [](PutTyped /\ FetchInv))
<1>. SUFFICES ASSUME FlatNames, PlainFiles, OneSize PROVE Spec => [](PutTyped /\ FetchInv)
  OBVIOUS
<1> DEFINE I == TypeInv /\ UploadsInv /\ PutTyped /\ kills \in Nat /\ FetchInv
<1>1. Init => I
  <2>1. Init => kills \in Nat
    BY DEF Init
  <2>. QED BY <2>1, InitType, InitUploads, InitFetches
<1>2. I /\ [Next]_vars => I'
  BY NextType, NextUploads, NextFetches
<1>3. I => PutTyped /\ FetchInv
  OBVIOUS
<1>. QED BY <1>1, <1>2, <1>3, PTL DEF Spec

-----------------------------------------------------------------------------
LEMMA BroughtComes ==
  ASSUME NEW x, NEW y, Brought(x, y)
  PROVE  ComesFrom(x, y)
<1>1. /\ x \in Seq(Token) /\ Len(x) <= Len(y)
      /\ \A n \in 1..Len(x) : x[n] = y[n] \/ x[n] = Garbage
  BY Zenon DEF Brought
<1>2. DOMAIN x = 1..Len(x)
  BY <1>1, LenProperties
<1>. QED BY <1>1, <1>2, Zenon DEF ComesFrom

(* Whichever servers and clients die or return, and wherever the streams   *)
(* are cut, a part GET has put into tmp/ comes from that part of one       *)
(* uploaded version, under whatever name it was uploaded: no byte of a     *)
(* line or of another part gets into it.  A byte that had not come when    *)
(* callback_get took it is garbage (Connection.cpp), which does not happen *)
(* with InWrites; bytes are missing at the end only if a server that had   *)
(* been killed while it wrote the part was started again (not with         *)
(* WholeWrites).  OneSize: the length is said when the request is          *)
(* answered, and the file is read when it is sent (ServeGet, Server.cpp).  *)
(* FlatNames and PlainFiles: see PartsAreNeverTorn.                        *)
THEOREM FetchedPartsAreParts ==
  FlatNames /\ PlainFiles /\ OneSize => (Spec => []FetchedFromUploads)
<1>. SUFFICES ASSUME FlatNames, PlainFiles, OneSize PROVE Spec => []FetchedFromUploads
  OBVIOUS
<1>1. FetchInv => FetchedFromUploads
  <2>. SUFFICES ASSUME FetchInv, NEW k \in Client, NEW f \in File, NEW p \in Part, tmp[k][f][p] # NoPart
                PROVE  \E v \in Version : Uploaded(v) /\ ComesFrom(tmp[k][f][p], PartOf(v, p))
    BY Zenon DEF FetchedFromUploads
  <2>1. PICK v \in Ups : Brought(tmp[k][f][p], PartOf(v, p))
    BY Zenon DEF FetchInv, FilesRight, FilesOf, Fetched
  <2>2. v \in Version /\ Uploaded(v)
    BY Zenon DEF Ups
  <2>. QED BY <2>1, <2>2, BroughtComes, Zenon
<1>2. Spec => [](PutTyped /\ FetchInv)
  BY FetchInvariant
<1>. QED BY <1>1, <1>2, PTL

(* Every byte is in its place.                                             *)
LEMMA BroughtInPlace ==
  ASSUME WholeWrites, NEW x, NEW y, Brought(x, y)
  PROVE  RightOrGarbage(x, y)
BY BroughtComes, Zenon DEF Brought, RightOrGarbage

LEMMA BroughtExactly ==
  ASSUME WholeWrites, InWrites, NEW x, NEW y \in Seq(Token), Brought(x, y)
  PROVE  x = y
<1>1. x \in Seq(Token) /\ Len(x) = Len(y) /\ \A n \in 1..Len(x) : x[n] = y[n]
  BY Zenon DEF Brought
<1>. QED BY <1>1, SeqEqual

(* Wherever reads end, a part GET has put into tmp/ has the length of that *)
(* part of a version uploaded under the name that was asked for, and every *)
(* byte that is not garbage is in its place.  OneName: what an earlier GET *)
(* has left unread of another file would be taken for the answer, as GET   *)
(* leaves what comes late in the stream (WithoutLine).                     *)
THEOREM FetchedPartsAreInPlace ==
  FlatNames /\ PlainFiles /\ OneSize /\ OneName /\ WholeWrites => (Spec => []FetchedBytesAreInPlace)
<1>. SUFFICES ASSUME FlatNames, PlainFiles, OneSize, OneName, WholeWrites PROVE Spec => []FetchedBytesAreInPlace
  OBVIOUS
<1>1. FetchInv => FetchedBytesAreInPlace
  <2>. SUFFICES ASSUME FetchInv, NEW k \in Client, NEW f \in File, NEW p \in Part, tmp[k][f][p] # NoPart
                PROVE  \E v \in VersionOf(f) : Uploaded(v) /\ RightOrGarbage(tmp[k][f][p], PartOf(v, p))
    BY Zenon DEF FetchedBytesAreInPlace
  <2>1. PICK v \in Ups : Brought(tmp[k][f][p], PartOf(v, p))
    BY Zenon DEF FetchInv, FilesRight, FilesOf, Fetched
  <2>2. v \in VersionOf(f) /\ Uploaded(v) /\ v \in Version
    BY ChannelAssumption DEF Ups, VersionOf, PathOf, OneName
  <2>3. PartOf(v, p) \in Seq(Token)
    BY <2>2, PartTextType, NotPutWritten
  <2>4. RightOrGarbage(tmp[k][f][p], PartOf(v, p))
    BY <2>1, BroughtInPlace, Zenon
  <2>. QED BY <2>2, <2>4, Zenon
<1>2. Spec => [](PutTyped /\ FetchInv)
  BY FetchInvariant
<1>. QED BY <1>1, <1>2, PTL

(* Where reads only end with writes it is that part, byte for byte.        *)
THEOREM FetchedPartsAreOfTheFile ==
  FlatNames /\ PlainFiles /\ InWrites /\ OneSize /\ OneName /\ WholeWrites => (Spec => []FetchedPartsAreSlices)
<1>. SUFFICES ASSUME FlatNames, PlainFiles, InWrites, OneSize, OneName, WholeWrites
              PROVE  Spec => []FetchedPartsAreSlices
  OBVIOUS
<1>1. FetchInv => FetchedPartsAreSlices
  <2>. SUFFICES ASSUME FetchInv, NEW k \in Client, NEW f \in File, NEW p \in Part, tmp[k][f][p] # NoPart
                PROVE  \E v \in VersionOf(f) : Uploaded(v) /\ tmp[k][f][p] = PartOf(v, p)
    BY Zenon DEF FetchedPartsAreSlices
  <2>1. PICK v \in Ups : Brought(tmp[k][f][p], PartOf(v, p))
    BY Zenon DEF FetchInv, FilesRight, FilesOf, Fetched
  <2>2. v \in VersionOf(f) /\ Uploaded(v) /\ v \in Version
    BY ChannelAssumption DEF Ups, VersionOf, PathOf, OneName
  <2>3. PartOf(v, p) \in Seq(Token)
    BY <2>2, PartTextType, NotPutWritten
  <2>4. tmp[k][f][p] = PartOf(v, p)
    BY <2>1, <2>3, BroughtExactly, Zenon
  <2>. QED BY <2>2, <2>4, Zenon
<1>2. Spec => [](PutTyped /\ FetchInv)
  BY FetchInvariant
<1>. QED BY <1>1, <1>2, PTL

(* A file GET has put together is the version that was uploaded, byte for  *)
(* byte.  OneVersion: FileBuilder (Client.cpp) does not replace a part it  *)
(* has, and the servers may hold parts of several versions, so that of two *)
(* versions a mixture may be retrieved.  That its four parts make a whole  *)
(* file is PartsTile, of the lengths and offsets Put cuts with.            *)
THEOREM RetrievedAsUploaded ==
  FlatNames /\ PlainFiles /\ InWrites /\ OneVersion /\ OneName /\ WholeWrites => (Spec => []RetrievedIsUploaded)
<1>. SUFFICES ASSUME FlatNames, PlainFiles, InWrites, OneVersion, OneName, WholeWrites
              PROVE  Spec => []RetrievedIsUploaded
  OBVIOUS
<1>1. OneSize
  BY DEF OneVersion, OneSize
<1>2. FetchInv => RetrievedIsUploaded
  <2>. SUFFICES ASSUME FetchInv, NEW k \in Client, NEW f \in File, got[k][f] # NoPart
                PROVE  \E v \in VersionOf(f) : Uploaded(v) /\ got[k][f] = WholeFile(v)
    BY Zenon DEF RetrievedIsUploaded
  <2>1. PICK v \in Ups : Brought(got[k][f], WholeFile(v))
    BY Zenon DEF FetchInv, FilesRight, FilesOf
  <2>2. v \in VersionOf(f) /\ Uploaded(v) /\ v \in Version
    BY ChannelAssumption DEF Ups, VersionOf, PathOf, OneName
  <2>3. WholeFile(v) \in Seq(Token)
    <3>1. Size(v) \in Nat /\ 0 \in Nat
      BY <2>2, ChannelAssumption
    <3>2. WholeFile(v) \in Seq(Written)
      BY <2>2, <3>1, SliceType, Zenon DEF WholeFile
    <3>. QED BY <3>2, NotPutWritten
  <2>4. got[k][f] = WholeFile(v)
    BY <2>1, <2>3, BroughtExactly, Zenon
  <2>. QED BY <2>2, <2>4, Zenon
<1>3. Spec => [](PutTyped /\ FetchInv)
  BY <1>1, FetchInvariant
<1>. QED BY <1>2, <1>3, PTL

-----------------------------------------------------------------------------
(* No server is brought down by clients that stay.  x is what a server has *)
(* read and not looked at, with what is on its way behind it; next is what *)
(* the client writes next.  The l bytes behind the first n tokens are in x *)
(* or the next to be written.                                              *)
Whole(x, n, l, next) == n + l <= Len(x) \/ (n = Len(x) /\ l = Len(next))

(* A header has its newline, and all its bytes come behind it; no read can *)
(* end between them, nor in the bytes.  e is where the bytes start that    *)
(* have not been read, C are the cuts behind it.                           *)
Headed(x, next) ==
  \A i \in 1..Len(x) : x[i].k = "header" => i < Len(x) /\ x[i + 1] = Newline /\ Whole(x, i + 1, x[i].l, next)
Uncut(x, e, C) ==
  \A i \in 1..Len(x) : x[i].k = "header" => Outside(i - 1, 2, e, C) /\ Outside(i + 1, x[i].l, e, C)
HeadedOut(out) == \A n \in 1..Len(out) : Headed(out[n], Nth(out, n + 1))

(* What server q holds and what is on its way to it, w, cut at C.          *)
WantsData(q) == q.cb = "put" /\ q.putState \in {1, 3}
Arrives(q, w, C, next) ==
  /\ Headed(q.inp \o w, next) /\ Uncut(q.inp \o w, Len(q.inp), C)
  /\ WantsData(q) => Whole(q.inp \o w, 0, q.wantedSize, next) /\ Outside(0, q.wantedSize, Len(q.inp), C)

(* A connection that is not open has never been used, or its server died.  *)
Safe(c) ==
  IF net[c] = "open" THEN Arrives(srv[c], c2s[c].data, c2s[c].cuts, Nth(con[c].out, 1)) /\ HeadedOut(con[c].out)
  ELSE srv[c] \in {Absent, Accepted} /\ c2s[c] = Empty

(* Nothing is said of servers once a client has left, see the theorem.     *)
SomeClientLeft == \E k \in Client : prog[k].life \in {"gone", "killed"}
AllSafe == NoServerAborts /\ \A c \in Conn : Safe(c)

-----------------------------------------------------------------------------
LEMMA HeaderFields ==
  ASSUME NEW t \in Written, t.k = "header"
  PROVE  t.p \in Number /\ t.l \in Nat
BY DEF Written, Token

(* x goes on with t.                                                       *)
LEMMA WholeOn ==
  ASSUME NEW x \in Seq(Written), NEW t \in Seq(Written), NEW next, NEW n \in Nat, NEW l \in Nat, Whole(x, n, l, t)
  PROVE  Whole(x \o t, n, l, next)
<1>1. Len(x) \in Nat /\ Len(t) \in Nat /\ Len(x \o t) = Len(x) + Len(t)
  BY ConcatProperties, LenProperties
<1>. QED BY <1>1 DEF Whole

LEMMA HeadedMore ==
  ASSUME NEW x \in Seq(Written), Headed(x, <<>>), NEW next
  PROVE  Headed(x, next)
<1>1. Len(x) \in Nat
  BY LenProperties
<1>2. ASSUME NEW i \in 1..Len(x), x[i].k = "header"
      PROVE  i < Len(x) /\ x[i + 1] = Newline /\ Whole(x, i + 1, x[i].l, next)
  <2>1. i < Len(x) /\ x[i + 1] = Newline /\ Whole(x, i + 1, x[i].l, <<>>)
    BY <1>2, Zenon DEF Headed
  <2>2. x[i].l \in Nat
    BY <1>2, ElementOfSeq, HeaderFields
  <2>3. (i + 1) + x[i].l <= Len(x)
    BY <1>1, <2>1, <2>2 DEF Whole
  <2>. QED BY <2>1, <2>3 DEF Whole
<1>. QED BY <1>2, Zenon DEF Headed

LEMMA HeadedOn ==
  ASSUME NEW x \in Seq(Written), NEW t \in Seq(Written), NEW next, Headed(x, t), Headed(t, next)
  PROVE  Headed(x \o t, next)
<1> DEFINE y == x \o t
<1>1. /\ Len(x) \in Nat /\ Len(t) \in Nat /\ Len(y) = Len(x) + Len(t)
      /\ \A i \in 1..(Len(x) + Len(t)) : y[i] = IF i <= Len(x) THEN x[i] ELSE t[i - Len(x)]
  BY ConcatProperties, LenProperties
<1>2. \A n, l \in Nat : Whole(x, n, l, t) => Whole(y, n, l, next)
  BY WholeOn
<1>. HIDE DEF y
<1>3. ASSUME NEW i \in 1..Len(y), y[i].k = "header"
      PROVE  i < Len(y) /\ y[i + 1] = Newline /\ Whole(y, i + 1, y[i].l, next)
  <2>1. CASE i <= Len(x)
    <3>1. i \in 1..Len(x) /\ y[i] = x[i]
      BY <1>1, <2>1
    <3>2. i < Len(x) /\ x[i + 1] = Newline /\ Whole(x, i + 1, x[i].l, t)
      BY <1>3, <3>1, Zenon DEF Headed
    <3>3. x[i].l \in Nat
      BY <1>3, <3>1, ElementOfSeq, HeaderFields
    <3>4. i + 1 \in Nat /\ i + 1 \in 1..(Len(x) + Len(t)) /\ i + 1 <= Len(x) /\ i < Len(y)
      BY <1>1, <3>2
    <3>. QED BY <1>1, <1>2, <3>1, <3>2, <3>3, <3>4
  <2>2. CASE ~(i <= Len(x))
    <3>. DEFINE j == i - Len(x)
    <3>1. j \in 1..Len(t) /\ y[i] = t[j] /\ i = Len(x) + j
      BY <1>1, <2>2
    <3>. HIDE DEF j
    <3>2. j < Len(t) /\ t[j + 1] = Newline /\ Whole(t, j + 1, t[j].l, next)
      BY <1>3, <3>1, Zenon DEF Headed
    <3>3. t[j].l \in Nat
      BY <1>3, <3>1, ElementOfSeq, HeaderFields
    <3>4. /\ i + 1 \in 1..(Len(x) + Len(t)) /\ ~(i + 1 <= Len(x)) /\ (i + 1) - Len(x) = j + 1 /\ i < Len(y)
      BY <1>1, <3>1, <3>2
    <3>5. y[i + 1] = t[j + 1]
      BY <1>1, <3>4
    <3>6. \A l \in Nat : Whole(t, j + 1, l, next) => Whole(y, i + 1, l, next)
      <4>1. j \in Nat /\ Len(y) = Len(x) + Len(t) /\ i = Len(x) + j /\ Len(x) \in Nat /\ Len(t) \in Nat
        BY <1>1, <3>1
      <4>. QED BY <4>1 DEF Whole
    <3>. QED BY <3>1, <3>2, <3>3, <3>4, <3>5, <3>6
  <2>. QED BY <2>1, <2>2
<1>4. Headed(y, next)
  BY <1>3, Zenon DEF Headed
<1>. QED BY <1>4 DEF y

(* The end of a write cuts nothing that is whole.                          *)
LEMMA WholeOutside ==
  ASSUME NEW y, Len(y) \in Nat, NEW next, NEW n \in Nat, NEW l \in Nat, Whole(y, n, l, next),
         NEW e \in Nat, NEW C, Outside(n, l, e, C), NEW C2, C2 \subseteq C \cup {Len(y) - e}
  PROVE  Outside(n, l, e, C2)
<1>1. ASSUME NEW m \in C2 \cup {0} PROVE ~(n < e + m /\ e + m < n + l)
  <2>1. CASE m \in C \cup {0}
    BY <2>1, Zenon DEF Outside
  <2>2. CASE m = Len(y) - e
    <3>1. e + m = Len(y)
      BY <2>2
    <3>2. ~(n < Len(y) /\ Len(y) < n + l)
      BY DEF Whole
    <3>. QED BY <3>1, <3>2
  <2>. QED BY <1>1, <2>1, <2>2
<1>. QED BY <1>1, Zenon DEF Outside

LEMMA UncutOn ==
  ASSUME NEW x \in Seq(Written), NEW t \in Seq(Written), NEW next, Headed(x \o t, next),
         NEW e \in Nat, e <= Len(x), NEW C, \A m \in C : m \in Nat /\ e + m <= Len(x), Uncut(x, e, C),
         NEW C2, C2 \subseteq C \cup {Len(x \o t) - e}
  PROVE  Uncut(x \o t, e, C2)
<1> DEFINE y == x \o t
<1>1. /\ Len(x) \in Nat /\ Len(t) \in Nat /\ Len(y) = Len(x) + Len(t) /\ y \in Seq(Written)
      /\ \A i \in 1..(Len(x) + Len(t)) : y[i] = IF i <= Len(x) THEN x[i] ELSE t[i - Len(x)]
  BY ConcatProperties, LenProperties
<1>2. C2 \subseteq C \cup {Len(y) - e} /\ Headed(y, next)
  OBVIOUS
<1>. HIDE DEF y
<1>3. ASSUME NEW i \in 1..Len(y), y[i].k = "header"
      PROVE  Outside(i - 1, 2, e, C2) /\ Outside(i + 1, y[i].l, e, C2)
  <2>1. i < Len(y) /\ Whole(y, i + 1, y[i].l, next) /\ y[i].l \in Nat
    <3>1. i < Len(y) /\ Whole(y, i + 1, y[i].l, next)
      BY <1>2, <1>3, Zenon DEF Headed
    <3>. QED BY <1>1, <1>3, <3>1, ElementOfSeq, HeaderFields
  <2>2. Whole(y, i - 1, 2, next)
    BY <1>1, <2>1 DEF Whole
  <2>3. Outside(i - 1, 2, e, C) /\ Outside(i + 1, y[i].l, e, C)
    <3>1. CASE i <= Len(x)
      <4>1. i \in 1..Len(x) /\ y[i] = x[i]
        BY <1>1, <3>1
      <4>. QED BY <1>3, <4>1, Zenon DEF Uncut
    <3>2. CASE ~(i <= Len(x))
      <4>1. ASSUME NEW m \in C \cup {0} PROVE ~(i - 1 < e + m) /\ ~(i + 1 < e + m)
        <5>1. m \in Nat /\ e + m <= Len(x)
          BY <4>1
        <5>. QED BY <1>1, <3>2, <5>1
      <4>. QED BY <4>1, Zenon DEF Outside
    <3>. QED BY <3>1, <3>2
  <2>4. i - 1 \in Nat /\ i + 1 \in Nat /\ 2 \in Nat /\ Len(y) \in Nat
    BY <1>1
  <2>. QED BY <1>2, <2>1, <2>2, <2>3, <2>4, WholeOutside, Zenon
<1>4. Uncut(y, e, C2)
  BY <1>3, Zenon DEF Uncut
<1>. QED BY <1>4 DEF y

(* What is behind a.                                                       *)
LEMMA SuffixHeaded ==
  ASSUME NEW a \in Seq(Written), NEW y \in Seq(Written), NEW next, Headed(a \o y, next)
  PROVE  /\ Headed(y, next)
         /\ \A n, l \in Nat : Whole(a \o y, Len(a) + n, l, next) => Whole(y, n, l, next)
<1> DEFINE x == a \o y
<1>1. /\ Len(a) \in Nat /\ Len(y) \in Nat /\ Len(x) = Len(a) + Len(y)
      /\ \A i \in 1..(Len(a) + Len(y)) : x[i] = IF i <= Len(a) THEN a[i] ELSE y[i - Len(a)]
  BY ConcatProperties, LenProperties
<1>2. Headed(x, next)
  OBVIOUS
<1>. HIDE DEF x
<1>3. \A n, l \in Nat : Whole(x, Len(a) + n, l, next) => Whole(y, n, l, next)
  BY <1>1 DEF Whole
<1>4. ASSUME NEW i \in 1..Len(y), y[i].k = "header"
      PROVE  i < Len(y) /\ y[i + 1] = Newline /\ Whole(y, i + 1, y[i].l, next)
  <2>. DEFINE j == Len(a) + i
  <2>1. /\ j \in 1..Len(x) /\ x[j] = y[i] /\ j + 1 = Len(a) + (i + 1) /\ i + 1 \in Nat
    BY <1>1
  <2>. HIDE DEF j
  <2>2. j < Len(x) /\ x[j + 1] = Newline /\ Whole(x, j + 1, y[i].l, next)
    BY <1>2, <1>4, <2>1, Zenon DEF Headed
  <2>3. i < Len(y) /\ y[i].l \in Nat
    <3>1. i < Len(y)
      BY <1>1, <2>1, <2>2
    <3>. QED BY <1>4, <3>1, ElementOfSeq, HeaderFields
  <2>4. y[i + 1] = Newline
    <3>1. j + 1 \in 1..(Len(a) + Len(y)) /\ ~(j + 1 <= Len(a)) /\ (j + 1) - Len(a) = i + 1
      BY <1>1, <2>1, <2>3
    <3>. QED BY <1>1, <2>2, <3>1
  <2>. QED BY <1>3, <2>1, <2>2, <2>3, <2>4
<1>5. Headed(y, next)
  BY <1>4, Zenon DEF Headed
<1>. QED BY <1>3, <1>5 DEF x

LEMMA OutsideBehind ==
  ASSUME NEW C, C \subseteq Nat, NEW a \in Nat, NEW n \in Int, NEW l \in Nat, NEW e \in Nat, Outside(a + n, l, a + e, C)
  PROVE  Outside(n, l, e, C)
<1>1. ASSUME NEW m \in C \cup {0} PROVE ~(n < e + m /\ e + m < n + l)
  <2>1. ~(a + n < (a + e) + m /\ (a + e) + m < (a + n) + l) /\ m \in Nat
    BY <1>1 DEF Outside
  <2>. QED BY <2>1
<1>. QED BY <1>1, Zenon DEF Outside

LEMMA SuffixUncut ==
  ASSUME NEW a \in Seq(Written), NEW y \in Seq(Written), NEW C, C \subseteq Nat, NEW e \in Nat,
         Uncut(a \o y, Len(a) + e, C)
  PROVE  Uncut(y, e, C)
<1> DEFINE x == a \o y
<1>1. /\ Len(a) \in Nat /\ Len(y) \in Nat /\ Len(x) = Len(a) + Len(y)
      /\ \A i \in 1..(Len(a) + Len(y)) : x[i] = IF i <= Len(a) THEN a[i] ELSE y[i - Len(a)]
  BY ConcatProperties, LenProperties
<1>2. Uncut(x, Len(a) + e, C)
  OBVIOUS
<1>. HIDE DEF x
<1>3. ASSUME NEW i \in 1..Len(y), y[i].k = "header"
      PROVE  Outside(i - 1, 2, e, C) /\ Outside(i + 1, y[i].l, e, C)
  <2>1. PICK j \in 1..(Len(a) + Len(y)) : j = Len(a) + i
    BY <1>1
  <2>2. /\ j \in 1..Len(x) /\ ~(j <= Len(a)) /\ j - Len(a) = i
        /\ j - 1 = Len(a) + (i - 1) /\ j + 1 = Len(a) + (i + 1)
        /\ i - 1 \in Int /\ i + 1 \in Int /\ 2 \in Nat
    BY <1>1, <2>1
  <2>3. x[j] = y[i]
    BY <1>1, <2>2
  <2>4. Outside(j - 1, 2, Len(a) + e, C) /\ Outside(j + 1, y[i].l, Len(a) + e, C)
    BY <1>2, <1>3, <2>2, <2>3, Zenon DEF Uncut
  <2>5. y[i].l \in Nat
    BY <1>3, ElementOfSeq, HeaderFields
  <2>. QED BY <1>1, <2>2, <2>4, <2>5, OutsideBehind
<1>. QED BY <1>3, Zenon DEF Uncut

(* The first n tokens of the input are taken out.                          *)
LEMMA ArrivesDrop ==
  ASSUME NEW i \in Seq(Written), NEW w \in Seq(Written), NEW C, C \subseteq Nat, NEW next,
         Headed(i \o w, next), Uncut(i \o w, Len(i), C), NEW n \in Nat, NEW j, j = Drop(i, n)
  PROVE  /\ Headed(j \o w, next) /\ Uncut(j \o w, Len(j), C)
         /\ n <= Len(i) => \A l \in Nat : /\ Whole(i \o w, n, l, next) => Whole(j \o w, 0, l, next)
                                          /\ Outside(n, l, Len(i), C) => Outside(0, l, Len(j), C)
<1> DEFINE a == Take(i, n)
           y == j \o w
<1>1. /\ a \in Seq(Written) /\ j \in Seq(Written) /\ a \o j = i /\ Len(a) \in Nat /\ Len(j) \in Nat
      /\ Len(i) = Len(a) + Len(j) /\ (n <= Len(i) => Len(a) = n)
  <2>1. /\ a \in Seq(Written) /\ j \in Seq(Written) /\ a \o j = i
        /\ Len(a) = IF n < Len(i) THEN n ELSE Len(i)
    BY TakeElements, TakeDropType, Split
  <2>. HIDE DEF a
  <2>2. Len(a) \in Nat /\ Len(j) \in Nat /\ Len(a \o j) = Len(a) + Len(j)
    BY <2>1, ConcatProperties, LenProperties
  <2>3. n <= Len(i) => Len(a) = n
    BY <2>1, <2>2
  <2>. QED BY <2>1, <2>2, <2>3
<1>. HIDE DEF a
<1>2. y \in Seq(Written) /\ i \o w = a \o y
  <2>1. y \in Seq(Written)
    BY <1>1, ConcatProperties
  <2>2. (a \o j) \o w = a \o (j \o w)
    BY <1>1, WrittenJoined
  <2>. QED BY <1>1, <2>1, <2>2
<1>. HIDE DEF y
<1>3. Headed(y, next) /\ \A m, l \in Nat : Whole(a \o y, Len(a) + m, l, next) => Whole(y, m, l, next)
  <2>1. Headed(a \o y, next)
    BY <1>2
  <2>. QED BY <1>1, <1>2, <2>1, SuffixHeaded
<1>4. Uncut(y, Len(j), C)
  <2>1. Uncut(a \o y, Len(a) + Len(j), C)
    BY <1>1, <1>2
  <2>. QED BY <1>1, <1>2, <2>1, SuffixUncut
<1>5. ASSUME n <= Len(i), NEW l \in Nat
      PROVE  /\ Whole(i \o w, n, l, next) => Whole(y, 0, l, next)
             /\ Outside(n, l, Len(i), C) => Outside(0, l, Len(j), C)
  <2>1. PICK z \in Nat : z = 0 /\ n = Len(a) + z /\ z \in Int
    BY <1>1, <1>5
  <2>2. Whole(a \o y, Len(a) + z, l, next) => Whole(y, z, l, next)
    BY <1>3
  <2>3. Outside(Len(a) + z, l, Len(a) + Len(j), C) => Outside(z, l, Len(j), C)
    BY <1>1, <2>1, OutsideBehind
  <2>. QED BY <1>1, <1>2, <2>1, <2>2, <2>3
<1>. QED BY <1>3, <1>4, <1>5 DEF y
-----------------------------------------------------------------------------
(* The callback looks at what it always looks at.                          *)
SameWants(q, q2) == WantsData(q2) => WantsData(q) /\ q2.wantedSize = q.wantedSize

(* A server reads: the stream stays the same.                              *)
LEMMA ArrivesRead ==
  ASSUME NEW q, q.inp \in Seq(Written), NEW w \in Seq(Written), NEW C, C \subseteq 1..Len(w), NEW n \in C, NEW next,
         Arrives(q, w, C, next), NEW q2, q2.inp = q.inp \o Take(w, n), SameWants(q, q2)
  PROVE  Arrives(q2, Drop(w, n), CutsLeft(C, n), next)
<1> DEFINE i == q.inp
           x == Take(w, n)
           y == Drop(w, n)
           L == CutsLeft(C, n)
<1>1. n \in 1..Len(w) /\ n \in Nat /\ Len(w) \in Nat /\ C \subseteq Nat
  BY LenProperties
<1>2. x \in Seq(Written) /\ y \in Seq(Written) /\ Len(x) = n /\ x \o y = w
  <2>1. x \in Seq(Written) /\ Len(x) = IF n < Len(w) THEN n ELSE Len(w)
    BY <1>1, TakeElements
  <2>2. y \in Seq(Written) /\ x \o y = w
    BY <1>1, TakeDropType, Split
  <2>. HIDE DEF x, y
  <2>. QED BY <1>1, <2>1, <2>2
<1>. HIDE DEF x, y
<1>3. Len(q2.inp) = Len(i) + n /\ Len(i) \in Nat /\ q2.inp \o y = i \o w
  <2>1. q2.inp = i \o x
    BY DEF x
  <2>2. Len(i \o x) = Len(i) + Len(x) /\ Len(i) \in Nat
    BY <1>2, ConcatProperties, LenProperties
  <2>3. (i \o x) \o y = i \o w
    BY <1>2, WrittenJoined
  <2>. QED BY <1>2, <2>1, <2>2, <2>3
<1>. HIDE DEF i, L
<1>4. Headed(q2.inp \o y, next)
  BY <1>3, Zenon DEF Arrives, i
<1>5. \A m, l : Outside(m, l, Len(i), C) => Outside(m, l, Len(i) + n, L)
  BY <1>1, <1>3, OutsideStays, Zenon DEF L
<1>6. Uncut(q2.inp \o y, Len(q2.inp), L)
  <2>. DEFINE d == i \o w
  <2>1. Uncut(d, Len(i), C)
    BY Zenon DEF Arrives, i
  <2>. HIDE DEF d
  <2>2. Uncut(d, Len(i) + n, L)
    BY <1>5, <2>1, Zenon DEF Uncut
  <2>. QED BY <1>3, <2>2 DEF d
<1>7. ASSUME WantsData(q2)
      PROVE  Whole(q2.inp \o y, 0, q2.wantedSize, next) /\ Outside(0, q2.wantedSize, Len(q2.inp), L)
  <2>1. Whole(i \o w, 0, q2.wantedSize, next) /\ Outside(0, q2.wantedSize, Len(i), C)
    BY <1>7, Zenon DEF Arrives, SameWants, i
  <2>. QED BY <1>3, <1>5, <2>1
<1>8. Arrives(q2, y, L, next)
  BY <1>4, <1>6, <1>7, Zenon DEF Arrives
<1>. QED BY <1>8 DEF y, L

(* The client writes t.                                                    *)
LEMMA ArrivesOn ==
  ASSUME NEW q, q.inp \in Seq(Written), q.wantedSize \in Nat, NEW w \in Seq(Written), NEW C, C \subseteq 1..Len(w),
         NEW t \in Seq(Written), Arrives(q, w, C, t), NEW next, Headed(t, next),
         NEW C2, C2 \subseteq C \cup {Len(w) + Len(t)}
  PROVE  Arrives(q, w \o t, C2, next)
<1> DEFINE i == q.inp
           x == i \o w
<1>1. /\ x \in Seq(Written) /\ Len(x) = Len(i) + Len(w) /\ Len(i) \in Nat /\ Len(w) \in Nat /\ Len(t) \in Nat
      /\ i \o (w \o t) = x \o t /\ Len(x \o t) = Len(x) + Len(t)
  <2>1. x \in Seq(Written) /\ Len(x) = Len(i) + Len(w) /\ Len(i) \in Nat /\ Len(w) \in Nat /\ Len(t) \in Nat
    BY ConcatProperties, LenProperties
  <2>2. i \o (w \o t) = x \o t
    BY WrittenJoined
  <2>3. Len(x \o t) = Len(x) + Len(t)
    <3>. HIDE DEF x
    <3>. QED BY <2>1, ConcatProperties
  <2>. QED BY <2>1, <2>2, <2>3
<1>2. /\ Headed(x, t) /\ Uncut(x, Len(i), C)
      /\ WantsData(q) => Whole(x, 0, q.wantedSize, t) /\ Outside(0, q.wantedSize, Len(i), C)
  BY Zenon DEF Arrives
<1>. HIDE DEF x, i
<1>3. /\ Len(i) <= Len(x) /\ C2 \subseteq C \cup {Len(x \o t) - Len(i)} /\ 0 \in Nat /\ Len(x \o t) \in Nat
      /\ \A m \in C : m \in Nat /\ Len(i) + m <= Len(x)
  <2>1. Len(x \o t) - Len(i) = Len(w) + Len(t) /\ Len(i) <= Len(x) /\ Len(x \o t) \in Nat
    BY <1>1
  <2>2. \A m \in C : m \in Nat /\ Len(i) + m <= Len(x)
    BY <1>1
  <2>. QED BY <2>1, <2>2
<1>4. Headed(x \o t, next)
  BY <1>1, <1>2, HeadedOn
<1>5. Uncut(x \o t, Len(i), C2)
  BY <1>1, <1>2, <1>3, <1>4, UncutOn
<1>6. ASSUME WantsData(q) PROVE Whole(x \o t, 0, q.wantedSize, next) /\ Outside(0, q.wantedSize, Len(i), C2)
  <2>1. Whole(x \o t, 0, q.wantedSize, next)
    BY <1>1, <1>2, <1>3, <1>6, WholeOn
  <2>2. Outside(0, q.wantedSize, Len(i), C2)
    BY <1>1, <1>2, <1>3, <1>6, <2>1, WholeOutside
  <2>. QED BY <2>1, <2>2
<1>. QED BY <1>1, <1>4, <1>5, <1>6, Zenon DEF Arrives, i

(* Nothing was to come, and something is put into the output buffer.       *)
LEMMA ArrivesMore ==
  ASSUME NEW q, q.inp \in Seq(Written), q.wantedSize \in Nat, NEW w \in Seq(Written), NEW C,
         Arrives(q, w, C, <<>>), NEW next
  PROVE  Arrives(q, w, C, next)
<1> DEFINE x == q.inp \o w
<1>1. x \in Seq(Written) /\ Len(x) \in Nat
  BY ConcatProperties, LenProperties
<1>2. /\ Headed(x, <<>>) /\ Uncut(x, Len(q.inp), C)
      /\ WantsData(q) => Whole(x, 0, q.wantedSize, <<>>) /\ Outside(0, q.wantedSize, Len(q.inp), C)
  BY Zenon DEF Arrives
<1>. HIDE DEF x
<1>3. Headed(x, next)
  BY <1>1, <1>2, HeadedMore
<1>4. Whole(x, 0, q.wantedSize, <<>>) => Whole(x, 0, q.wantedSize, next)
  BY <1>1 DEF Whole
<1>. QED BY <1>2, <1>3, <1>4, Zenon DEF Arrives, x

(* A callback takes the first n tokens and does not wait for a part.       *)
LEMMA ArrivesTaken ==
  ASSUME NEW q, q.inp \in Seq(Written), NEW w \in Seq(Written), NEW C, C \subseteq Nat, NEW next,
         Arrives(q, w, C, next), NEW n \in Nat, NEW q2, q2.inp = Drop(q.inp, n), ~WantsData(q2)
  PROVE  Arrives(q2, w, C, next)
<1>1. Headed(q.inp \o w, next) /\ Uncut(q.inp \o w, Len(q.inp), C)
  BY Zenon DEF Arrives
<1>2. Headed(q2.inp \o w, next) /\ Uncut(q2.inp \o w, Len(q2.inp), C)
  BY <1>1, ArrivesDrop
<1>. QED BY <1>2, Zenon DEF Arrives
-----------------------------------------------------------------------------
LEMMA Foremost ==
  ASSUME NEW S, NEW a \in Seq(S), NEW b \in Seq(S), Len(a) >= 1
  PROVE  a \o b \in Seq(S) /\ Len(a \o b) >= 1 /\ (a \o b)[1] = a[1]
<1>1. Len(a) \in Nat /\ Len(b) \in Nat
  BY LenProperties
<1>2. /\ a \o b \in Seq(S) /\ Len(a \o b) = Len(a) + Len(b)
      /\ \A i \in 1..(Len(a) + Len(b)) : (a \o b)[i] = IF i <= Len(a) THEN a[i] ELSE b[i - Len(a)]
  BY ConcatProperties
<1>3. 1 \in 1..(Len(a) + Len(b)) /\ 1 <= Len(a)
  BY <1>1
<1>4. (a \o b)[1] = a[1]
  BY <1>2, <1>3, Zenon
<1>. QED BY <1>1, <1>2, <1>4

(* callback_put, round by round: it finds a whole header, and all of a     *)
(* part, so that it never takes the one for the other.                     *)
RoundSafe(s, h, k, r, C, next, open, U) ==
  /\ h.go # "crash"
  /\ Arrives(h.q, r, C, next)
  /\ h.go = "on" => Receives(s, h.q, k, h.q.inp \o r, open, U)

LEMMA HeaderSafe ==
  ASSUME PlainFiles, NEW Out, NEW s \in Server, NEW k, k.out \in Seq(Seq(Written)), NEW open,
         NEW U, U \subseteq Version, NEW r \in Seq(Written), NEW q0, q0.inp \in Seq(Written),
         NEW h, h.q \in Connection(Written, Out), UploadOK(h.q), LoopHolds(s, q0, h, k, r, open, U),
         NEW C, C \subseteq Nat, NEW next, RoundSafe(s, h, k, r, C, next, open, U)
  PROVE  RoundSafe(s, PutHeader(h), k, r, C, next, open, U)
<1> DEFINE q    == h.q
           line == LineOf(q.inp)
           rest == AfterLine(q.inp)
           h2   == PutHeader(h)
           qH   == [q EXCEPT !.inp = rest, !.partnum = line[1].p, !.wantedSize = line[1].l,
                             !.putState = q.putState + 1]
<1>1. CASE h.go # "on" \/ q.putState \notin {0, 2}
  <2>1. h2 = h
    BY <1>1, Zenon DEF PutHeader
  <2>. QED BY <2>1
<1>2. CASE h.go = "on" /\ q.putState \in {0, 2}
  <2>1. /\ q.inp \in Seq(Written) /\ q.inp # <<>> /\ Receives(s, q, k, q.inp \o r, open, U) /\ Arrives(q, r, C, next)
    BY <1>2 DEF Connection, LoopHolds, RoundSafe
  <2>2. PICK v \in U : \E p \in PartsOf(s, HashMod(v)), more \in More(v, s) :
           OnItsWay(k, q.inp \o r, open, Due(q, v, p, more))
    BY <2>1, Zenon DEF Receives
  <2>3. PICK p \in PartsOf(s, HashMod(v)), more \in More(v, s) :
           OnItsWay(k, q.inp \o r, open, Due(q, v, p, more))
    BY <2>2
  <2>4. v \in Version /\ p \in Part /\ more \in Seq(NotPut)
    BY PartsOfServer, MoreType
  <2>. DEFINE l == PartLength(Size(v), p)
              x == q.inp \o r
              e == Len(q.inp)
  <2>5. OnItsWay(k, q.inp \o r, open, PartText(v, p) \o more)
    BY <1>2, <2>3, Zenon DEF Due
  <2>6. /\ x \in Seq(Written) /\ Len(x) = e + Len(r) /\ e \in Nat /\ Len(r) \in Nat
        /\ \A n \in 1..(e + Len(r)) : x[n] = IF n <= e THEN q.inp[n] ELSE r[n - e]
    <3>. HIDE DEF q
    <3>. QED BY <2>1, ConcatProperties, LenProperties
  <2>. HIDE DEF x, e, q
  <2>7. e >= 1
    BY <2>1, <2>6, EmptySeq DEF e
  <2>8. x[1].k = "header" /\ 1 \in 1..Len(x)
    <3>. DEFINE d == PartText(v, p) \o more
    <3>1. 1 <= Len(d) /\ d[1] = Header(p, l)
      <4>. DEFINE hl == HeaderLine(p, l)
                  b == PartOf(v, p)
      <4>1. /\ hl \in Seq(NotPut) /\ b \in Seq(NotPut) /\ PartText(v, p) = hl \o b
        BY <2>4, PartTextType
      <4>2. Len(hl) = 2 /\ hl[1] = Header(p, l)
        BY DEF HeaderLine, TextLine
      <4>. HIDE DEF hl, b
      <4>3. hl \o b \in Seq(NotPut) /\ Len(hl \o b) >= 1 /\ (hl \o b)[1] = hl[1]
        <5>1. hl \in Seq(NotPut) /\ b \in Seq(NotPut) /\ Len(hl) >= 1
          BY <4>1, <4>2
        <5>. QED BY <5>1, Foremost
      <4>. DEFINE hb == hl \o b
      <4>. HIDE DEF hb
      <4>4. Len(hb \o more) >= 1 /\ (hb \o more)[1] = hb[1]
        BY <2>4, <4>3, Foremost DEF hb
      <4>. QED BY <4>1, <4>2, <4>3, <4>4 DEF hb
    <3>2. 1 \in 1..Len(x)
      BY <2>6, <2>7
    <3>3. Agrees(x, d)
      BY <2>5, Zenon DEF OnItsWay, x
    <3>. HIDE DEF d
    <3>4. x[1] = Header(p, l)
      BY <3>1, <3>2, <3>3, Zenon DEF Agrees
    <3>. QED BY <3>2, <3>4 DEF Header
  <2>9. /\ 1 < Len(x) /\ x[2] = Newline
        /\ Whole(x, 2, x[1].l, next) /\ Outside(0, 2, e, C) /\ Outside(2, x[1].l, e, C)
    <3>1. Headed(x, next) /\ Uncut(x, e, C)
      BY <2>1, Zenon DEF Arrives, x, e
    <3>2. 1 < Len(x) /\ x[1 + 1] = Newline /\ Whole(x, 1 + 1, x[1].l, next)
      BY <2>8, <3>1, Zenon DEF Headed
    <3>3. Outside(1 - 1, 2, e, C) /\ Outside(1 + 1, x[1].l, e, C)
      BY <2>8, <3>1, Zenon DEF Uncut
    <3>4. 1 + 1 = 2 /\ 1 - 1 = 0
      OBVIOUS
    <3>. QED BY <3>2, <3>3, <3>4
  <2>10. e >= 2
    <3>1. 0 \in C \cup {0}
      OBVIOUS
    <3>2. ~(0 < e + 0 /\ e + 0 < 0 + 2)
      BY <2>9, <3>1, Zenon DEF Outside
    <3>. QED BY <2>6, <2>7, <3>2
  <2>11. q.inp[1] = x[1] /\ q.inp[2] = x[2] /\ 2 \in 1..Len(q.inp)
    <3>1. 1 <= e /\ 2 <= e /\ 1 \in 1..(e + Len(r)) /\ 2 \in 1..(e + Len(r)) /\ 2 \in 1..e
      BY <2>6, <2>10
    <3>2. q.inp[1] = x[1] /\ q.inp[2] = x[2]
      BY <2>6, <3>1, Zenon
    <3>. QED BY <3>1, <3>2 DEF e
  <2>12. HasLine(q.inp)
    <3>1. EndsLine(q.inp[2])
      BY <2>9, <2>11 DEF EndsLine
    <3>2. 2 \in LineEnds(q.inp)
      BY <2>11, <3>1 DEF LineEnds
    <3>. QED BY <3>2 DEF HasLine
  <2>13. Len(line) = 1 /\ line[1] = Header(p, l)
    BY <2>1, <2>4, <2>5, <2>12, HeaderDue, ZenonT(40)
  <2>14. ~(Len(line) # 1 \/ line[1].k # "header")
    BY <2>13 DEF Header
  <2>15. h2 = At(qH, h.files, IF rest = <<>> THEN "return" ELSE "on")
    BY <1>2, <2>12, <2>14, Zenon DEF PutHeader, q
  <2>16. h2.q = qH /\ h2.go \in {"return", "on"}
    <3>. HIDE DEF qH, rest
    <3>. QED BY <2>15, AtFields
  <2>17. rest = Drop(q.inp, 2)
    <3>1. LineEnd(q.inp) \in 1..Len(q.inp) /\ Len(LineOf(q.inp)) = LineEnd(q.inp) - 1
      BY <2>1, <2>12, LineElements
    <3>2. LineEnd(q.inp) = 2
      <4>1. PICK n \in 1..Len(q.inp) : n = LineEnd(q.inp) /\ Len(line) = n - 1
        BY <3>1
      <4>2. n - 1 = 1
        <5>. HIDE DEF line
        <5>. QED BY <2>13, <4>1
      <4>3. n \in Int
        BY <4>1
      <4>. QED BY <4>1, <4>2, <4>3
    <3>. QED BY <3>2 DEF AfterLine, Drop
  <2>18. qH.inp = rest /\ qH.wantedSize = line[1].l
    <3>. DEFINE pn == line[1].p
                ws == line[1].l
    <3>. HIDE DEF rest, line, pn, ws
    <3>1. qH = [q EXCEPT !.inp = rest, !.partnum = pn, !.wantedSize = ws, !.putState = q.putState + 1]
      BY DEF pn, ws
    <3>2. q \in Connection(Written, Out)
      BY DEF q
    <3>. HIDE DEF qH
    <3>. QED BY <3>1, <3>2 DEF Connection, ws
  <2>19. line[1].l = x[1].l
    BY <2>11, <2>13, <2>8, <2>1, <2>12, LineElements
  <2>. HIDE DEF qH, rest, line, h2
  <2>20. Arrives(qH, r, C, next)
    <3>1. Headed(q.inp \o r, next) /\ Uncut(q.inp \o r, Len(q.inp), C)
      BY <2>1, Zenon DEF Arrives
    <3>2. x[1].l \in Nat
      BY <2>6, <2>8, ElementOfSeq, HeaderFields
    <3>3. /\ Headed(rest \o r, next) /\ Uncut(rest \o r, Len(rest), C)
          /\ Whole(rest \o r, 0, x[1].l, next) /\ Outside(0, x[1].l, Len(rest), C)
      <4>1. PICK n \in Nat : n = 2 /\ n <= Len(q.inp)
        BY <2>10 DEF e
      <4>2. rest = Drop(q.inp, n)
        BY <2>17, <4>1
      <4>3. /\ Headed(rest \o r, next) /\ Uncut(rest \o r, Len(rest), C)
            /\ n <= Len(q.inp) => \A m \in Nat :
                 /\ Whole(q.inp \o r, n, m, next) => Whole(rest \o r, 0, m, next)
                 /\ Outside(n, m, Len(q.inp), C) => Outside(0, m, Len(rest), C)
        BY <2>1, <3>1, <4>2, ArrivesDrop
      <4>4. Whole(q.inp \o r, n, x[1].l, next) /\ Outside(n, x[1].l, Len(q.inp), C)
        BY <2>9, <4>1 DEF x, e
      <4>. QED BY <3>2, <4>1, <4>3, <4>4
    <3>. QED BY <2>18, <2>19, <3>3, Zenon DEF Arrives
  <2>21. ASSUME h2.go = "on" PROVE Receives(s, h2.q, k, h2.q.inp \o r, open, U)
    <3>1. h2.q.putState \in {1, 3}
      BY <2>21, HeaderType, Directions DEF h2
    <3>2. ~Strays(h2.q)
      BY <3>1 DEF Strays
    <3>3. LoopHolds(s, q0, h2, k, r, open, U)
      BY HeaderStep DEF h2
    <3>. QED BY <2>21, <3>2, <3>3, Zenon DEF LoopHolds
  <2>. QED BY <2>16, <2>20, <2>21, Zenon DEF RoundSafe, h2
<1>. QED BY <1>1, <1>2

LEMMA DataSafe ==
  ASSUME FlatNames,
         NEW Out, NEW c \in Conn, NEW k, k.out \in Seq(Seq(Written)), NEW open,
         NEW U, U \subseteq Version, NEW r \in Seq(Written), NEW q0,
         NEW h, h.q \in Connection(Written, Out), LoopHolds(c[2], q0, h, k, r, open, U),
         h.go = "on" => h.q.putState \in {1, 3},
         NEW C, C \subseteq Nat, NEW next, RoundSafe(c[2], h, k, r, C, next, open, U)
  PROVE  RoundSafe(c[2], PutData(c, h), k, r, C, next, open, U)
<1> DEFINE s   == c[2]
           q   == h.q
           h2  == PutData(c, h)
           inp == Drop(q.inp, q.wantedSize)
           qB  == Finished([q EXCEPT !.inp = inp])
           qC  == [q EXCEPT !.inp = inp, !.putState = 2]
<1>1. CASE h.go # "on"
  <2>1. h2 = h
    BY <1>1, Zenon DEF PutData
  <2>. QED BY <2>1
<1>2. CASE h.go = "on"
  <2>1. /\ q \in Connection(Written, Out) /\ q.inp \in Seq(Written) /\ q.wantedSize \in Nat
        /\ q.cb = "put" /\ q.inp # <<>> /\ q.putState \in {1, 3} /\ q.putState \notin {0, 2}
        /\ Receives(s, q, k, q.inp \o r, open, U) /\ Arrives(q, r, C, next) /\ WantsData(q) /\ s \in Server
    BY <1>2 DEF Connection, LoopHolds, RoundSafe, WantsData, Conn
  <2>2. PICK v \in U : \E p \in PartsOf(s, HashMod(v)), more \in More(v, s) :
           /\ PathOf(v) = q.filename /\ Awaits(q, v, p, more)
           /\ OnItsWay(k, q.inp \o r, open, Due(q, v, p, more))
    BY <2>1, Zenon DEF Receives
  <2>3. PICK p \in PartsOf(s, HashMod(v)), more \in More(v, s) :
           /\ PathOf(v) = q.filename /\ Awaits(q, v, p, more)
           /\ OnItsWay(k, q.inp \o r, open, Due(q, v, p, more))
    BY <2>2
  <2>4. v \in Version /\ p \in Part /\ more \in Seq(NotPut)
    BY <2>1, PartsOfServer, MoreType
  <2>. DEFINE l == PartLength(Size(v), p)
  <2>5. q.wantedSize = l
    BY <2>1, <2>3, Zenon DEF Awaits
  <2>6. /\ Headed(q.inp \o r, next) /\ Uncut(q.inp \o r, Len(q.inp), C)
        /\ Whole(q.inp \o r, 0, q.wantedSize, next) /\ Outside(0, q.wantedSize, Len(q.inp), C)
    BY <2>1, Zenon DEF Arrives
  <2>7. Len(q.inp) >= l /\ Enough(q)
    <3>1. Len(q.inp) \in Nat /\ Len(q.inp) # 0
      BY <2>1, EmptySeq, LenProperties
    <3>2. 0 \in C \cup {0}
      OBVIOUS
    <3>3. ~(0 < Len(q.inp) + 0 /\ Len(q.inp) + 0 < 0 + q.wantedSize)
      BY <2>6, <3>2, Zenon DEF Outside
    <3>. HIDE DEF l, q
    <3>4. Len(q.inp) >= q.wantedSize
      BY <2>1, <3>1, <3>3
    <3>. QED BY <2>5, <3>4 DEF Enough
  <2>8. OnItsWay(k, inp \o r, open, more)
    <3>1. OnItsWay(k, q.inp \o r, open, PartOf(v, p) \o more)
      BY <2>1, <2>3, Zenon DEF Due
    <3>. HIDE DEF q
    <3>2. Len(q.inp) >= l => OnItsWay(k, Drop(q.inp, l) \o r, open, more)
      BY <2>1, <2>4, <3>1, DataDue
    <3>3. Drop(q.inp, l) = inp
      BY <2>5
    <3>. HIDE DEF inp, l
    <3>. QED BY <2>7, <3>2, <3>3
  <2>9. Opens(c[2], q.filename) \/ ~folder[c[2]]
    BY <2>3, <2>4, <2>1, Zenon DEF Opens, FlatNames
  <2>. HIDE DEF l
  <2>10. /\ qB.inp = inp /\ qB.cb = "read" /\ qC.inp = inp /\ qC.cb = "put" /\ qC.putState = 2
         /\ qC.filename = q.filename
         /\ [q EXCEPT !.inp = inp, !.cb = "read"].inp = inp /\ [q EXCEPT !.inp = inp, !.cb = "read"].cb = "read"
    <3>. HIDE DEF inp, q
    <3>. QED BY <2>1 DEF Connection, Finished
  <2>11. \A g : g.inp = inp /\ ~WantsData(g) => Arrives(g, r, C, next)
    <3>. HIDE DEF q
    <3>. QED BY <2>1, ArrivesTaken
  <2>12. h2.q.inp = inp /\ ~WantsData(h2.q) /\ h2.go # "crash" /\ (h2.go = "on" => h2.q = qC /\ q.putState = 1)
    <3>1. CASE ~Opens(c[2], q.filename)
      <4>. DEFINE g == [q EXCEPT !.inp = inp, !.cb = "read"]
      <4>1. h2 = At(g, h.files, "return")
        BY <1>2, <2>7, <3>1, Zenon DEF PutData
      <4>2. g.inp = inp /\ g.cb = "read"
        BY <2>10
      <4>. HIDE DEF g, h2
      <4>. QED BY <4>1, <4>2, AtFields DEF WantsData
    <3>2. CASE Opens(c[2], q.filename) /\ q.putState = 3
      <4>. DEFINE f == Storing(h.files, q)
      <4>1. h2 = At(qB, f, "return")
        BY <1>2, <2>7, <3>2, Zenon DEF PutData
      <4>2. qB.inp = inp /\ qB.cb = "read"
        BY <2>10
      <4>. HIDE DEF qB, h2, f
      <4>. QED BY <4>1, <4>2, AtFields DEF WantsData
    <3>3. CASE Opens(c[2], q.filename) /\ q.putState = 1
      <4>. DEFINE f == Storing(h.files, q)
      <4>1. h2 = At(qC, f, IF inp = <<>> THEN "return" ELSE "on")
        <5>1. q.putState # 3
          BY <3>3
        <5>. QED BY <1>2, <2>7, <3>3, <5>1, Zenon DEF PutData
      <4>2. qC.inp = inp /\ qC.putState = 2
        BY <2>10
      <4>. HIDE DEF qC, h2, f
      <4>. QED BY <3>3, <4>1, <4>2, AtFields DEF WantsData
    <3>. QED BY <2>1, <3>1, <3>2, <3>3
  <2>13. ASSUME h2.go = "on" PROVE Receives(s, h2.q, k, h2.q.inp \o r, open, U)
    <3>. HIDE DEF inp, qC, qB, h2, q
    <3>1. more # <<>>
      <4>1. q.putState \in {0, 1}
        BY <2>12, <2>13
      <4>. QED BY <2>3, <4>1, Zenon DEF Awaits
    <3>2. PICK p2 \in PartsOf(s, HashMod(v)) : more = PartText(v, p2)
      BY <3>1, Zenon DEF More
    <3>3. <<>> \in More(v, s)
      BY DEF More
    <3>4. Awaits(qC, v, p2, <<>>)
      BY <2>10 DEF Awaits
    <3>5. Due(qC, v, p2, <<>>) = more
      <4>1. more \o <<>> = more
        BY <2>4, ConcatEmptySeq
      <4>2. qC.putState \in {0, 2}
        BY <2>10
      <4>. QED BY <3>2, <4>1, <4>2, Zenon DEF Due
    <3>6. PathOf(v) = qC.filename /\ OnItsWay(k, qC.inp \o r, open, Due(qC, v, p2, <<>>)) /\ h2.q = qC
      BY <2>3, <2>8, <2>10, <2>12, <2>13, <3>5
    <3>. QED BY <3>3, <3>4, <3>6, Zenon DEF Receives
  <2>. QED BY <2>11, <2>12, <2>13, Zenon DEF RoundSafe
<1>. QED BY <1>1, <1>2

LEMMA LoopSafe ==
  ASSUME FlatNames, PlainFiles,
         NEW Out, NEW c \in Conn, folder[c[2]], NEW k, k.out \in Seq(Seq(Written)), NEW open,
         NEW U, U \subseteq Version, NEW r \in Seq(Written),
         NEW q \in Connection(Written, Out), UploadOK(q), q.filename \in File,
         disk[c[2]] \in Files(Written), PartsRight(disk[c[2]], c[2], U),
         q.cb = "put", q.inp # <<>>, Receives(c[2], q, k, q.inp \o r, open, U),
         NEW C, C \subseteq Nat, NEW next, Arrives(q, r, C, next), NEW h \in PutLoop(c, q)
  PROVE  RoundSafe(c[2], h, k, r, C, next, open, U)
<1> DEFINE f == q.filename
<1>1. PICK h0, h1 : /\ h0 = Loop(c, q)
                    /\ h1 = PutData(c, PutHeader(h0))
                    /\ h = PutData(c, PutHeader(h1))
  BY Zenon DEF PutLoop, PutRound, Headers
<1>2. h0.q = q /\ h0.files = disk[c[2]] /\ h0.go = "on"
  BY <1>1, AtFields DEF Loop
<1>3. q.inp \in Seq(Written) /\ Written \subseteq Token /\ Written \subseteq Written /\ c[2] \in Server
  BY Directions DEF Connection, Conn
<1>4. EndsWith(q.inp, q.inp) /\ h0.go # "return" /\ h0.go # "crash"
  BY <1>2, <1>3, EndsLater
<1>5. LoopHolds(c[2], q, h0, k, r, open, U)
  BY <1>2, <1>4, Zenon DEF LoopHolds
<1>6. RoundSafe(c[2], h0, k, r, C, next, open, U)
  BY <1>2, <1>4, Zenon DEF RoundSafe
<1>7. /\ h0.q \in Connection(Written, Out) /\ UploadOK(h0.q) /\ h0.files \in Files(Written)
      /\ h0.q.filename = f /\ f \in File
  BY <1>2, Zenon
<1>8. ASSUME NEW g, g.q \in Connection(Written, Out), UploadOK(g.q), g.files \in Files(Written),
             LoopHolds(c[2], q, g, k, r, open, U), RoundSafe(c[2], g, k, r, C, next, open, U)
      PROVE  RoundSafe(c[2], PutData(c, PutHeader(g)), k, r, C, next, open, U)
  <2>1. PICK g2 : g2 = PutHeader(g)
    OBVIOUS
  <2>2. /\ g2.q \in Connection(Written, Out) /\ g2.go = "on" => g2.q.putState \in {1, 3}
    BY <1>3, <1>8, <2>1, HeaderType, Zenon
  <2>3. LoopHolds(c[2], q, g2, k, r, open, U)
    BY <1>3, <1>8, <2>1, HeaderStep
  <2>4. RoundSafe(c[2], g2, k, r, C, next, open, U)
    BY <1>3, <1>8, <2>1, HeaderSafe
  <2>5. g2.q \in Connection(Written, Out)
    BY <1>3, <1>8, <2>1, HeaderType, Zenon
  <2>6. RoundSafe(c[2], PutData(c, g2), k, r, C, next, open, U)
    BY <2>2, <2>3, <2>4, <2>5, DataSafe
  <2>. QED BY <2>1, <2>6
<1>9. RoundSafe(c[2], h1, k, r, C, next, open, U)
  BY <1>1, <1>5, <1>6, <1>7, <1>8
<1>10. h1.q \in Connection(Written, Out) /\ UploadOK(h1.q) /\ h1.files \in Files(Written)
  <2>1. h1 = PutData(c, PutHeader(h0)) /\ (h0.go = "on" => h0.q.filename = f)
    BY <1>1, <1>7
  <2>. HIDE DEF f
  <2>. QED BY <1>3, <1>7, <2>1, RoundType, ZenonT(60)
<1>11. LoopHolds(c[2], q, h1, k, r, open, U)
  BY <1>1, <1>3, <1>5, <1>7, RoundStep, Zenon
<1>. QED BY <1>1, <1>8, <1>9, <1>10, <1>11
-----------------------------------------------------------------------------
(* callback_read does not wait for a part afterwards: the request of an    *)
(* upload comes to a server that waits for no bytes.                       *)
LEMMA ReadSafe ==
  ASSUME NEW s, NEW q, q.inp \in Seq(Written), q.cb = "read", q.putState \in {0, 2},
         NEW r, r.inp \in Seq(Written), Understands(s, q, r) \/ TakesUpload(q, r),
         NEW w \in Seq(Written), NEW C, C \subseteq Nat, NEW next, Arrives(q, w, C, next)
  PROVE  Arrives(r, w, C, next)
<1>1. ~WantsData(r)
  <2>1. r.cb = "read" \/ r.putState \in {0, 2}
    BY Zenon DEF Understands, TakesUpload
  <2>. QED BY <2>1 DEF WantsData
<1>2. EndsWith(q.inp, r.inp)
  <2>1. CASE Understands(s, q, r)
    BY <2>1 DEF Understands
  <2>2. CASE TakesUpload(q, r)
    <3>. DEFINE i == q.inp
                l2 == AfterLine(i)
    <3>1. i \in Seq(Written) /\ HasLine(i) /\ HasLine(l2) /\ r.inp = AfterLine(l2) /\ Written \subseteq Token
      BY <2>2, Directions DEF TakesUpload
    <3>. HIDE DEF i
    <3>2. l2 \in Seq(Written) /\ EndsWith(i, l2)
      BY <3>1, InputType, LineEndsWith, Zenon
    <3>3. EndsWith(l2, r.inp)
      BY <3>1, <3>2, LineEndsWith, Zenon
    <3>4. EndsWith(i, r.inp)
      <4>. DEFINE j == r.inp
      <4>1. j \in Seq(Written) /\ EndsWith(l2, j)
        BY <3>3
      <4>. HIDE DEF j, l2
      <4>2. EndsWith(i, j)
        BY <3>1, <3>2, <4>1, EndsLater
      <4>. QED BY <4>2 DEF j
    <3>. QED BY <3>4 DEF i
  <2>. QED BY <2>1, <2>2
<1>3. PICK a \in Seq(Written) : q.inp = a \o r.inp
  BY <1>2, Zenon DEF EndsWith
<1>4. Len(a) \in Nat /\ r.inp = Drop(q.inp, Len(a))
  <2>. DEFINE j == r.inp
  <2>1. j \in Seq(Written) /\ q.inp = a \o j
    BY <1>3
  <2>. HIDE DEF j
  <2>2. Drop(a \o j, Len(a)) = j
    BY <2>1, DropFront
  <2>. QED BY <2>1, <2>2, LenProperties DEF j
<1>. QED BY <1>1, <1>4, ArrivesTaken, Zenon

(* A read from the socket and callback_put.                                *)
LEMMA PutSafe ==
  ASSUME FlatNames, PlainFiles, NEW Out, NEW c \in Conn, folder[c[2]], NEW U, U \subseteq Version,
         NEW q, q.cb = "put", q.inp \in Seq(Written),
         NEW k, k.out \in Seq(Seq(Written)), NEW w \in Seq(Written), NEW n \in 1..Len(w), NEW b, NEW open,
         Protocol(c[2], q, k, w, b, open, U),
         NEW q1 \in Connection(Written, Out), UploadOK(q1), Joins(q, q1, Take(w, n)),
         disk[c[2]] \in Files(Written), PartsRight(disk[c[2]], c[2], U),
         NEW C, C \subseteq Nat, NEW next, Arrives(q1, Drop(w, n), C, next),
         NEW h \in PutLoop(c, q1)
  PROVE  h.go # "crash" /\ Arrives(h.q, Drop(w, n), C, next)
<1> DEFINE s  == c[2]
           t  == Take(w, n)
           w2 == Drop(w, n)
<1>0. n \in Nat /\ n <= Len(w) /\ n >= 1 /\ Len(w) \in Nat /\ s \in Server
  BY LenProperties DEF Conn
<1>1. t \in Seq(Written) /\ w2 \in Seq(Written) /\ t \o w2 = w
  BY <1>0, TakeDropType, Split
<1>2. Len(t) = n
  <2>1. Len(t) = IF n < Len(w) THEN n ELSE Len(w)
    BY <1>0, TakeElements
  <2>. QED BY <1>0, <2>1
<1>3. Joins(q, q1, t) /\ Arrives(q1, w2, C, next)
  OBVIOUS
<1>. HIDE DEF t, w2
<1>4. /\ q1.inp = q.inp \o t /\ q1.cb = "put" /\ SameUpload(q, q1)
  BY <1>3 DEF Joins
<1>5. t # <<>> /\ w # <<>>
  BY <1>0, <1>2, EmptySeq
<1>6. q.inp = <<>> /\ Receives(s, q, k, w, open, U)
  BY <1>5, Zenon DEF Protocol, ServerPhase, Waits
<1>7. q1.inp = t
  BY <1>1, <1>4, <1>6, ConcatEmptySeq
<1>8. Receives(s, q1, k, q1.inp \o w2, open, U)
  <2>1. q1.inp \o w2 = w
    BY <1>1, <1>7
  <2>2. SameUpload(q, q1)
    BY <1>4
  <2>3. \A e \in Seq(Written) : OnItsWay(k, w, open, e) => OnItsWay(k, w, open, e)
    OBVIOUS
  <2>4. Receives(s, q1, k, w, open, U)
    <3>. HIDE DEF s
    <3>. QED BY <1>0, <1>6, <2>2, <2>3, ReceivesKept
  <2>. QED BY <2>1, <2>4
<1>9. q1.filename \in File
  BY <1>4 DEF Connection, UploadOK
<1>10. RoundSafe(s, h, k, w2, C, next, open, U)
  BY <1>1, <1>3, <1>4, <1>5, <1>7, <1>8, <1>9, LoopSafe, Zenon
<1>. QED BY <1>10 DEF RoundSafe, w2
-----------------------------------------------------------------------------
(* The steps of the servers.                                               *)
LEMMA SafeAside ==
  ASSUME NEW d \in Conn, Safe(d), net'[d] = net[d], srv'[d] = srv[d], c2s'[d] = c2s[d], con'[d].out = con[d].out
  PROVE  Safe(d)'
BY Zenon DEF Safe

(* No server ends when a step leaves their processes alone.                *)
LEMMA NoneAborts ==
  ASSUME NoServerAborts, fate' = fate
  PROVE  NoServerAborts'
BY Zenon DEF NoServerAborts

LEMMA ServerReadSafe ==
  ASSUME FlatNames, PlainFiles, Unwritable = {}, ShortNames = {}, TypeInv, TypeInv', UploadsInv, AllSafe,
         NEW c \in Conn, ServerRead(c), con' = con
  PROVE  AllSafe'
<1> DEFINE s    == c[2]
           Out  == Outputs(s)
           q    == srv[c]
           k    == con[c]
           w    == c2s[c].data
           C    == c2s[c].cuts
           b    == s2c[c].data
           next == Nth(con[c].out, 1)
<1>0. /\ s \in Server /\ FlowOK(c) /\ DfsShape /\ UploadOn(c) /\ PartsAreRight /\ Usable(s) /\ CanCreate(s)
      /\ disk[s] \in Files(Written) /\ Safe(c) /\ Ups \subseteq Version
  <2>1. s \in Server /\ FlowOK(c) /\ DfsShape
    BY Zenon DEF TypeInv, Conn
  <2>2. UploadOn(c) /\ PartsAreRight /\ Safe(c)
    BY Zenon DEF UploadsInv, AllSafe
  <2>3. Usable(s) /\ CanCreate(s)
    BY DEF Usable, CanCreate
  <2>4. disk[s] \in Files(Written) /\ Ups \subseteq Version
    BY <2>1 DEF DfsShape, Ups
  <2>. QED BY <2>1, <2>2, <2>3, <2>4
<1>1. PICK n \in C : \E q1 \in {[srv[c] EXCEPT !.inp = @ \o Take(c2s[c].data, n)]} :
        LET left == [c2s EXCEPT ![c] = Received(@, n)] IN
        \/ q1.cb = "read" /\ callback_read(c, q1) /\ c2s' = left /\ UNCHANGED <<s2c, net>>
        \/ q1.cb = "put" /\ callback_put(c, q1) /\ c2s' = left /\ UNCHANGED <<s2c, net>>
        \/ q1.cb = "read" /\ ReadCrashes(c, q1)
        \/ q1.cb = "put" /\ \E h \in PutLoop(c, q1) : h.go = "crash"
  BY Zenon DEF ServerRead
<1>2. PICK q1 :
        /\ q1 = [srv[c] EXCEPT !.inp = srv[c].inp \o Take(w, n)]
        /\ \/ /\ (q1.cb = "read" /\ callback_read(c, q1)) \/ (q1.cb = "put" /\ callback_put(c, q1))
              /\ c2s' = [c2s EXCEPT ![c] = Received(@, n)] /\ net' = net
           \/ q1.cb = "read" /\ ReadCrashes(c, q1)
           \/ q1.cb = "put" /\ \E h \in PutLoop(c, q1) : h.go = "crash"
  BY <1>1, Zenon
<1>3. /\ w \in Seq(Written) /\ C \subseteq 1..Len(w) /\ n \in 1..Len(w) /\ n \in Nat
      /\ q \in Connection(Written, Out) /\ UploadOK(q) /\ q.inp \in Seq(Written) /\ q.out \in Seq(Out)
      /\ k.out \in Seq(Seq(Written))
  <2>1. w \in Seq(Written) /\ C \subseteq 1..Len(w) /\ n \in 1..Len(w) /\ n \in Nat
    BY <1>0 DEF FlowOK, Pipe
  <2>2. q \in Connection(Written, Out) /\ UploadOK(q)
    BY <1>0, Zenon DEF FlowOK, Outputs
  <2>3. k.out \in Seq(Seq(Written))
    BY <1>0 DEF FlowOK, ClientConnection
  <2>. QED BY <2>1, <2>2, <2>3, ConnectionFields
<1>4. /\ Joins(q, q1, Take(w, n)) /\ q1 \in Connection(Written, Out) /\ UploadOK(q1)
      /\ q1.inp = q.inp \o Take(w, n) /\ q1.inp \in Seq(Written) /\ Drop(w, n) \in Seq(Written)
  <2>1. Take(w, n) \in Seq(Written) /\ Drop(w, n) \in Seq(Written)
    BY <1>3, TakeDropType
  <2>2. q.inp \o Take(w, n) \in Seq(Written)
    BY <1>3, <2>1, ConcatProperties
  <2>3. q1 = [q EXCEPT !.inp = q.inp \o Take(w, n)]
    BY <1>2
  <2>4. q1 \in Connection(Written, Out) /\ UploadOK(q1)
    <3>. HIDE DEF q, w, Out
    <3>. QED BY <1>3, <2>2, <2>3, ConnectionFields
  <2>5. Joins(q, q1, Take(w, n))
    <3>. HIDE DEF q, w, Out
    <3>. QED BY <1>3, <2>3 DEF Connection, Joins, SameUpload
  <2>6. q1.inp = q.inp \o Take(w, n)
    BY <2>5 DEF Joins
  <2>. QED BY <2>1, <2>2, <2>4, <2>5, <2>6
(* A connection that is not open carries nothing.                          *)
<1>5. net[c] = "open"
  <2>1. n \in Empty.cuts => FALSE
    BY DEF Empty
  <2>. QED BY <1>0, <2>1, Zenon DEF Safe, C
<1>6. Arrives(q, w, C, next)
  BY <1>0, <1>5, Zenon DEF Safe, q, w, C, next
<1>7. Arrives(q1, Drop(w, n), CutsLeft(C, n), next) /\ CutsLeft(C, n) \subseteq Nat
  <2>1. SameWants(q, q1)
    BY <1>4 DEF Joins, SameUpload, SameWants, WantsData
  <2>2. CutsLeft(C, n) \subseteq Nat
    BY <1>3 DEF CutsLeft
  <2>. HIDE DEF q, w, C, next
  <2>3. n \in C
    OBVIOUS
  <2>. QED BY <1>3, <1>4, <1>6, <2>1, <2>2, <2>3, ArrivesRead
<1>8. (q.cb = "put" => folder[s]) /\ Protocol(s, q, k, w, b, net[c] = "open", Ups)
  BY <1>0, Zenon DEF UploadOn
<1>9. PartsRight(disk[s], s, Ups)
  BY <1>0, Zenon DEF PartsAreRight
<1>10. ASSUME NEW h \in PutLoop(c, q1), q1.cb = "put"
       PROVE  h.go # "crash" /\ Arrives(h.q, Drop(w, n), CutsLeft(C, n), next)
  <2>1. q.cb = "put" /\ folder[c[2]]
    BY <1>4, <1>8, <1>10 DEF Joins
  <2>2. PICK open : open = (net[c] = "open")
    OBVIOUS
  <2>3. Protocol(c[2], q, k, w, b, open, Ups)
    BY <1>8, <2>2
  <2>4. Ups \subseteq Version /\ disk[c[2]] \in Files(Written) /\ PartsRight(disk[c[2]], c[2], Ups)
    BY <1>0, <1>9
  <2>. DEFINE L == CutsLeft(C, n)
  <2>5. L \subseteq Nat /\ Arrives(q1, Drop(w, n), L, next)
    BY <1>7
  <2>6. h.go # "crash" /\ Arrives(h.q, Drop(w, n), L, next)
    <3>. HIDE DEF q, k, w, b, Out, L, next, C
    <3>. QED BY <1>3, <1>4, <2>1, <2>3, <2>4, <2>5, PutSafe, Zenon
  <2>. QED BY <2>6
(* The folder can be created and read, and no name is short.               *)
<1>11. ~ReadCrashes(c, q1)
  BY <1>0 DEF ReadCrashes
<1>12. /\ (q1.cb = "read" /\ callback_read(c, q1)) \/ (q1.cb = "put" /\ callback_put(c, q1))
       /\ c2s' = [c2s EXCEPT ![c] = Received(@, n)] /\ net' = net
  BY <1>2, <1>10, <1>11, Zenon
<1>13. PICK r : srv' = [srv EXCEPT ![c] = r] /\ fate' = fate /\ Arrives(r, Drop(w, n), CutsLeft(C, n), next)
  <2>1. CASE q1.cb = "put" /\ callback_put(c, q1)
    BY <1>10, <2>1, Zenon DEF callback_put
  <2>2. CASE q1.cb = "read" /\ callback_read(c, q1)
    <3>1. PICK r : srv' = [srv EXCEPT ![c] = r] /\ fate' = fate /\ (Understands(s, q1, r) \/ TakesUpload(q1, r))
      BY <1>0, <1>4, <2>2, CallbackRead, Zenon
    <3>2. r.inp \in Seq(Written)
      <4>1. srv'[c] = r
        BY <1>0, <3>1 DEF DfsShape
      <4>2. srv'[c] \in Connection(Written, Outputs(c[2]))'
        BY StreamTypes, Zenon DEF TypeInv, FlowOK, Outputs
      <4>. QED BY <4>1, <4>2 DEF Connection
    <3>3. q1.putState \in {0, 2}
      BY <1>4, <1>8, <2>2 DEF Joins, SameUpload, Protocol, ServerPhase
    <3>4. Arrives(r, Drop(w, n), CutsLeft(C, n), next)
      BY <1>4, <1>7, <2>2, <3>1, <3>2, <3>3, ReadSafe, Zenon
    <3>. QED BY <3>1, <3>4
  <2>. QED BY <1>12, <2>1, <2>2
<1>14. Safe(c)'
  <2>1. srv'[c] = r /\ c2s'[c] = Received(c2s[c], n) /\ net'[c] = "open" /\ con'[c] = con[c]
    BY <1>0, <1>5, <1>12, <1>13 DEF DfsShape
  <2>2. Received(c2s[c], n).data = Drop(w, n) /\ Received(c2s[c], n).cuts = CutsLeft(C, n)
    BY DEF Received, CutsLeft
  <2>3. HeadedOut(con[c].out)
    BY <1>0, <1>5, Zenon DEF Safe
  <2>. QED BY <1>13, <2>1, <2>2, <2>3, Zenon DEF Safe, next
<1>15. ASSUME NEW d \in Conn, d # c PROVE Safe(d)'
  <2>1. net'[d] = net[d] /\ srv'[d] = srv[d] /\ c2s'[d] = c2s[d] /\ con'[d].out = con[d].out
    BY <1>0, <1>12, <1>13, <1>15, Zenon DEF DfsShape
  <2>. QED BY <2>1, SafeAside, Zenon DEF AllSafe
<1>. QED BY <1>13, <1>14, <1>15, NoneAborts, Zenon DEF AllSafe
(* A server that writes never meets a reset: only a client that is gone    *)
(* leaves one behind, and a server that has died has nothing to write.     *)
LEMMA ServerWriteSafe ==
  ASSUME TypeInv, AllSafe, NEW c \in Conn, ServerWrite(c), con' = con
  PROVE  AllSafe'
<1>1. Safe(c) /\ DfsShape
  BY Zenon DEF AllSafe, TypeInv
<1>2. net[c] = "open"
  <2>1. srv[c] \notin {Absent, Accepted}
    BY AbsentOut DEF ServerWrite
  <2>. QED BY <1>1, <2>1, Zenon DEF Safe
<1>3. PICK rest, wr : /\ srv' = [srv EXCEPT ![c].out = rest, ![c].wr = wr]
                      /\ fate' = fate /\ c2s' = c2s /\ net' = net
  BY <1>2 DEF ServerWrite
<1>4. /\ srv'[c].inp = srv[c].inp /\ srv'[c].cb = srv[c].cb /\ srv'[c].putState = srv[c].putState
      /\ srv'[c].wantedSize = srv[c].wantedSize
      /\ \A d \in Conn : d # c => srv'[d] = srv[d]
  <2>1. srv[c] \in Connection(Written, Outputs(c[2]))
    BY StreamTypes
  <2>. QED BY <1>1, <1>3, <2>1 DEF Connection, DfsShape
<1>5. Safe(c)'
  BY <1>1, <1>2, <1>3, <1>4, Zenon DEF Safe, Arrives, WantsData
<1>6. ASSUME NEW d \in Conn, d # c PROVE Safe(d)'
  BY <1>3, <1>4, <1>6, SafeAside, Zenon DEF AllSafe
<1>. QED BY <1>3, <1>5, <1>6, NoneAborts, Zenon DEF AllSafe

LEMMA AcceptSafe ==
  ASSUME TypeInv, UploadsInv, AllSafe, NEW c \in Conn, Accept(c), con' = con
  PROVE  AllSafe'
<1>1. Safe(c) /\ DfsShape /\ srv[c] = Absent
  BY Zenon DEF AllSafe, TypeInv, UploadsInv, Links, Accept
<1>2. /\ srv' = [srv EXCEPT ![c] = Accepted] /\ fate' = fate /\ c2s' = c2s /\ net' = net
  BY DEF Accept, netVars
<1>3. srv'[c] = Accepted /\ \A d \in Conn : d # c => srv'[d] = srv[d]
  BY <1>1, <1>2, Zenon DEF DfsShape
<1>4. Accepted.inp = Absent.inp /\ ~WantsData(Accepted)
  BY DEF Absent, Accepted, WantsData
<1>5. Safe(c)'
  BY <1>1, <1>2, <1>3, <1>4, Zenon DEF Safe, Arrives
<1>6. ASSUME NEW d \in Conn, d # c PROVE Safe(d)'
  BY <1>2, <1>3, <1>6, SafeAside, Zenon DEF AllSafe
<1>. QED BY <1>2, <1>5, <1>6, NoneAborts, Zenon DEF AllSafe

(* A server is killed or started again.                                    *)
LEMMA KillSafe ==
  ASSUME TypeInv, AllSafe, NEW s \in Server, Kill(s) \/ Restart(s), con' = con
  PROVE  AllSafe'
<1>1. DfsShape
  BY Zenon DEF TypeInv
<1>2. CASE Kill(s)
  <2>1. PICK unread : Die(s, "killed", unread)
    <3>1. ASSUME NEW j \in Client, KilledWriting(<<j, s>>) PROVE \E unread : Die(s, "killed", unread)
      <4>1. <<j, s>>[2] = s
        OBVIOUS
      <4>2. PICK c : c = <<j, s>> /\ c[2] = s
        BY <4>1
      <4>3. KilledWriting(c)
        BY <3>1, <4>2
      <4>. QED BY <4>2, <4>3, Zenon DEF KilledWriting
    <3>. QED BY <1>2, <3>1, Zenon DEF Kill
  <2>2. fate' = [fate EXCEPT ![s] = "killed"]
    BY <2>1 DEF Die
  <2>3. NoServerAborts'
    BY <1>1, <2>2 DEF AllSafe, NoServerAborts, DfsShape
  <2>4. ASSUME NEW d \in Conn PROVE Safe(d)'
    <3>1. CASE d \in Client \X {s}
      <4>1. srv'[d] = Absent /\ c2s'[d] = Empty /\ net'[d] # "open"
        BY <2>1, <3>1 DEF Die, NetAfterDeath
      <4>. QED BY <4>1, Zenon DEF Safe
    <3>2. CASE d \notin Client \X {s}
      <4>1. srv'[d] = srv[d] /\ c2s'[d] = c2s[d] /\ net'[d] = net[d] /\ con'[d].out = con[d].out
        BY <2>1, <3>2 DEF Die, NetAfterDeath
      <4>. QED BY <4>1, SafeAside, Zenon DEF AllSafe
    <3>. QED BY <3>1, <3>2
  <2>. QED BY <2>3, <2>4 DEF AllSafe
<1>3. CASE Restart(s)
  <2>1. fate' = [fate EXCEPT ![s] = "up"] /\ srv' = srv /\ c2s' = c2s /\ net' = net
    BY <1>3 DEF Restart, netVars
  <2>2. NoServerAborts'
    BY <1>1, <2>1 DEF AllSafe, NoServerAborts, DfsShape
  <2>3. ASSUME NEW d \in Conn PROVE Safe(d)'
    BY <2>1, SafeAside, Zenon DEF AllSafe
  <2>. QED BY <2>2, <2>3 DEF AllSafe
<1>. QED BY <1>2, <1>3
LEMMA ServeSafe ==
  ASSUME FlatNames, PlainFiles, Unwritable = {}, ShortNames = {}, TypeInv, TypeInv', UploadsInv, AllSafe,
         NEW c \in Conn, Serve(c)
  PROVE  AllSafe'
<1>1. ServerStep(c) /\ con' = con
  BY DEF Serve, clientVars
<1>. QED BY <1>1, AcceptSafe, ServerReadSafe, ServerWriteSafe, Zenon DEF ServerStep
-----------------------------------------------------------------------------
(* The steps of the clients that stay.                                     *)
LEMMA MovesSafe ==
  ASSUME AllSafe, UNCHANGED serverVars, NEW c \in Conn,
         \A d \in Conn : d # c => c2s'[d] = c2s[d] /\ net'[d] = net[d] /\ con'[d].out = con[d].out,
         net[c] = "open" => /\ net'[c] = "open" /\ HeadedOut(con'[c].out)
                            /\ Arrives(srv[c], c2s'[c].data, c2s'[c].cuts, Nth(con'[c].out, 1)),
         net[c] # "open" => net'[c] # "open" /\ c2s'[c] = c2s[c]
  PROVE  AllSafe'
<1>1. srv' = srv /\ fate' = fate
  BY DEF serverVars
<1>2. Safe(c)'
  BY <1>1, Zenon DEF AllSafe, Safe
<1>3. ASSUME NEW d \in Conn, d # c PROVE Safe(d)'
  BY <1>1, <1>3, SafeAside, Zenon DEF AllSafe
<1>. QED BY <1>1, <1>2, <1>3, NoneAborts, Zenon DEF AllSafe

(* Nothing is written, and nothing is put into an output buffer.           *)
LEMMA QuietSafe ==
  ASSUME AllSafe, UNCHANGED serverVars, c2s' = c2s,
         \A d \in Conn : con'[d].out = con[d].out /\ (net'[d] = net[d] \/ (net[d] # "open" /\ net'[d] # "open"))
  PROVE  AllSafe'
<1>1. srv' = srv /\ fate' = fate
  BY DEF serverVars
<1>2. ASSUME NEW d \in Conn PROVE Safe(d)'
  <2>1. Safe(d)
    BY DEF AllSafe
  <2>. QED BY <1>1, <2>1, Zenon DEF Safe
<1>. QED BY <1>1, <1>2, NoneAborts, Zenon DEF AllSafe

LEMMA NthTail ==
  ASSUME NEW S, NEW out \in Seq(S), out # <<>>
  PROVE  /\ Head(out) = Nth(out, 1) /\ Tail(out) \in Seq(S)
         /\ \A n \in Nat : n >= 1 => Nth(Tail(out), n) = Nth(out, n + 1)
<1> DEFINE x == Tail(out)
<1>1. /\ Head(out) = out[1] /\ x \in Seq(S) /\ Len(out) \in Nat /\ Len(out) >= 1 /\ Len(x) = Len(out) - 1
      /\ \A n \in 1..Len(x) : x[n] = out[n + 1]
  BY HeadTailProperties, LenProperties, EmptySeq
<1>2. Head(out) = Nth(out, 1)
  <2>1. 1 \in 1..Len(out)
    BY <1>1
  <2>. QED BY <1>1, <2>1, Zenon DEF Nth
<1>. HIDE DEF x
<1>3. ASSUME NEW n \in Nat, n >= 1 PROVE Nth(x, n) = Nth(out, n + 1)
  <2>1. n \in 1..Len(x) <=> n + 1 \in 1..Len(out)
    BY <1>1, <1>3
  <2>. QED BY <1>1, <2>1, Zenon DEF Nth
<1>. QED BY <1>1, <1>2, <1>3, Zenon DEF x

LEMMA HeadedTail ==
  ASSUME NEW S, NEW out \in Seq(S), out # <<>>, HeadedOut(out)
  PROVE  HeadedOut(Tail(out)) /\ Headed(Head(out), Nth(Tail(out), 1))
<1> DEFINE x == Tail(out)
<1>1. /\ Head(out) = out[1] /\ Len(out) \in Nat /\ Len(out) >= 1 /\ Len(x) = Len(out) - 1
      /\ \A n \in 1..Len(x) : x[n] = out[n + 1]
  BY HeadTailProperties, LenProperties, EmptySeq
<1>2. \A n \in Nat : n >= 1 => Nth(x, n) = Nth(out, n + 1)
  BY NthTail
<1>. HIDE DEF x
<1>3. Headed(Head(out), Nth(x, 1))
  <2>1. 1 \in 1..Len(out) /\ Nth(x, 1) = Nth(out, 1 + 1)
    BY <1>1, <1>2
  <2>. QED BY <1>1, <2>1, Zenon DEF HeadedOut
<1>4. ASSUME NEW n \in 1..Len(x) PROVE Headed(x[n], Nth(x, n + 1))
  <2>1. n + 1 \in 1..Len(out) /\ x[n] = out[n + 1] /\ Nth(x, n + 1) = Nth(out, (n + 1) + 1)
    BY <1>1, <1>2
  <2>. QED BY <2>1, Zenon DEF HeadedOut
<1>. QED BY <1>3, <1>4 DEF HeadedOut, x

(* One write: a text goes on its way, and where it ends a read may end.    *)
LEMMA ClientWriteSafe ==
  ASSUME InWrites, TypeInv, AllSafe, NEW c \in Conn, ClientWrite(c), ~ClientDies(c[1], "killed", s2c),
         UNCHANGED serverVars
  PROVE  AllSafe'
<1> DEFINE out  == con[c].out
           rest == Tail(out)
           t    == Head(out)
           w    == c2s[c].data
           C    == c2s[c].cuts
<1>0. FlowOK(c) /\ DfsShape /\ Safe(c)
  BY Zenon DEF TypeInv, AllSafe
<1>1. out # <<>> /\ out \in Seq(Seq(Written)) /\ con[c] \in ClientConnection
  BY <1>0 DEF ClientWrite, FlowOK, ClientConnection
<1>2. CASE net[c] = "open"
  <2>1. PICK on, last :
          /\ con' = [con EXCEPT ![c].out = rest, ![c].loop = on] /\ net' = net
          /\ c2s' = [c2s EXCEPT ![c] = Sent(@, t, last)]
    BY <1>2 DEF ClientWrite
  <2>2. /\ con'[c].out = rest /\ net'[c] = "open" /\ c2s'[c] = Sent(c2s[c], t, last)
        /\ \A d \in Conn : d # c => c2s'[d] = c2s[d] /\ net'[d] = net[d] /\ con'[d].out = con[d].out
    <3>. HIDE DEF rest, t
    <3>. QED BY <1>0, <1>1, <1>2, <2>1 DEF DfsShape, ClientConnection
  <2>3. t = Nth(out, 1) /\ rest \in Seq(Seq(Written)) /\ t \in Seq(Written)
    BY <1>1, NthTail, HeadTailProperties
  <2>4. HeadedOut(rest) /\ Headed(t, Nth(rest, 1))
    BY <1>0, <1>1, <1>2, HeadedTail DEF Safe
  <2>5. Arrives(srv[c], w, C, t)
    BY <1>0, <1>2, <2>3 DEF Safe
  <2>6. /\ srv[c].inp \in Seq(Written) /\ srv[c].wantedSize \in Nat /\ w \in Seq(Written) /\ C \subseteq 1..Len(w)
        /\ Len(w) \in Nat /\ Len(t) \in Nat
    BY <1>0, <2>3, LenProperties DEF FlowOK, Pipe, Connection
  <2>. HIDE DEF t, rest, w, C, out
  <2>7. /\ Sent(c2s[c], t, last).data = w \o t
        /\ Sent(c2s[c], t, last).cuts = C \cup Cuts(Len(w), Len(w) + Len(t), last)
    BY DEF Sent, w, C
  <2>8. Sent(c2s[c], t, last).cuts \subseteq C \cup {Len(w) + Len(t)}
    <3>1. Len(w) + Len(t) \in Nat
      BY <2>6
    <3>. QED BY <2>6, <2>7, <3>1, CutsSent
  <2>9. Arrives(srv[c], w \o t, Sent(c2s[c], t, last).cuts, Nth(rest, 1))
    BY <2>3, <2>4, <2>5, <2>6, <2>8, ArrivesOn
  <2>. QED BY <1>2, <2>2, <2>4, <2>7, <2>9, MovesSafe, Zenon
<1>3. CASE net[c] # "open"
  <2>1. /\ c2s' = c2s
        /\ \/ net[c] = "closed" /\ Swallowed(c)
           \/ net' = net
        /\ \E on : \/ con' = [con EXCEPT ![c].out = rest, ![c].loop = on]
                   \/ con' = [con EXCEPT ![c].wr = FALSE]
    BY <1>3, Zenon DEF ClientWrite, netVars
  <2>2. /\ net'[c] # "open" /\ c2s'[c] = c2s[c]
        /\ \A d \in Conn : d # c => c2s'[d] = c2s[d] /\ net'[d] = net[d] /\ con'[d].out = con[d].out
    <3>. HIDE DEF rest
    <3>1. "closed" # "open" /\ "reset" # "open"
      OBVIOUS
    <3>2. net'[c] # "open" /\ \A d \in Conn : d # c => net'[d] = net[d]
      BY <1>0, <1>3, <2>1 DEF DfsShape, Swallowed
    <3>3. \A d \in Conn : d # c => con'[d] = con[d]
      BY <1>0, <2>1 DEF DfsShape
    <3>. QED BY <2>1, <3>2, <3>3
  <2>. QED BY <1>3, <2>2, MovesSafe, Zenon
<1>. QED BY <1>2, <1>3
-----------------------------------------------------------------------------
(* What the client uploads: a header and its part leave in one write, or   *)
(* in two, one after the other.                                            *)
LEMMA HeaderAlone ==
  ASSUME NEW p, NEW l \in Nat, NEW next, Len(next) = l
  PROVE  Headed(HeaderLine(p, l), next)
<1> DEFINE x == HeaderLine(p, l)
<1>1. Len(x) = 2 /\ x[1] = Header(p, l) /\ x[2] = Newline
  BY DEF HeaderLine, TextLine
<1>2. Header(p, l).l = l /\ Newline.k # "header"
  BY DEF Header, Newline
<1>. HIDE DEF x
<1>3. ASSUME NEW i \in 1..Len(x), x[i].k = "header"
      PROVE  i < Len(x) /\ x[i + 1] = Newline /\ Whole(x, i + 1, x[i].l, next)
  <2>1. i = 1
    BY <1>1, <1>2, <1>3
  <2>2. Whole(x, 2, l, next)
    BY <1>1 DEF Whole
  <2>. QED BY <1>1, <1>2, <2>1, <2>2
<1>. QED BY <1>3 DEF Headed, x

LEMMA BytesHeaded ==
  ASSUME NEW v, NEW off, NEW l \in Nat, NEW next
  PROVE  Headed(Slice(v, off, l), next) /\ Len(Slice(v, off, l)) = l
<1>1. Len(Slice(v, off, l)) = l /\ \A i \in 1..l : Slice(v, off, l)[i] = Byte(v, off + i)
  BY DEF Slice
<1>2. \A i : Byte(v, off + i).k # "header"
  BY DEF Byte
<1>. QED BY <1>1, <1>2, Zenon DEF Headed

LEMMA HeadedWrites ==
  ASSUME NEW o
  PROVE  /\ Len(o) = 1 /\ Headed(o[1], <<>>) => HeadedOut(o)
         /\ Len(o) = 2 /\ Headed(o[1], o[2]) /\ Headed(o[2], <<>>) => HeadedOut(o)
         /\ Len(o) = 3 /\ Headed(o[1], o[2]) /\ Headed(o[2], o[3]) /\ Headed(o[3], <<>>) => HeadedOut(o)
         /\ Len(o) = 4 /\ Headed(o[1], o[2]) /\ Headed(o[2], o[3]) /\ Headed(o[3], o[4]) /\ Headed(o[4], <<>>)
              => HeadedOut(o)
<1>1. Len(o) \in 1..4 => \A n \in 1..Len(o) : Nth(o, n + 1) = IF n < Len(o) THEN o[n + 1] ELSE <<>>
  BY DEF Nth
<1>2. Len(o) = 1 /\ Headed(o[1], <<>>) => HeadedOut(o)
  BY <1>1 DEF HeadedOut
<1>3. Len(o) = 2 /\ Headed(o[1], o[2]) /\ Headed(o[2], <<>>) => HeadedOut(o)
  BY <1>1 DEF HeadedOut
<1>4. Len(o) = 3 /\ Headed(o[1], o[2]) /\ Headed(o[2], o[3]) /\ Headed(o[3], <<>>) => HeadedOut(o)
  BY <1>1 DEF HeadedOut
<1>5. Len(o) = 4 /\ Headed(o[1], o[2]) /\ Headed(o[2], o[3]) /\ Headed(o[3], o[4]) /\ Headed(o[4], <<>>) => HeadedOut(o)
  BY <1>1 DEF HeadedOut
<1>. QED BY <1>2, <1>3, <1>4, <1>5

LEMMA UploadHeaded ==
  ASSUME NEW c \in Conn, con[c].version \in Version
  PROVE  HeadedOut(Upload(c))
<1> DEFINE v  == con[c].version
           p1 == First(v, c[2])
           p2 == Second(v, c[2])
           h1 == HeaderLine(p1, PartLength(Size(v), p1))
           s1 == PartOf(v, p1)
           h2 == HeaderLine(p2, PartLength(Size(v), p2))
           s2 == PartOf(v, p2)
<1>1. c[2] \in Server
  BY DEF Conn
<1>2. p1 \in Part /\ p2 \in Part
  BY <1>1, PartsOfServer
<1>3. Upload(c) = IF Splits = "burst" THEN << h1 \o s1 \o h2 \o s2 >>
                  ELSE (IF s1 = <<>> THEN << h1 \o h2 >> ELSE << h1, s1, h2 >>)
                       \o (IF s2 = <<>> THEN <<>> ELSE << s2 >>)
  BY DEF Upload, PutInfo, First, Second, PartOf
<1>. HIDE DEF v, p1, p2
<1>4. /\ h1 \in Seq(Written) /\ s1 \in Seq(Written) /\ h2 \in Seq(Written) /\ s2 \in Seq(Written)
  <2>1. /\ h1 \in Seq(NotPut) /\ s1 \in Seq(NotPut) /\ h2 \in Seq(NotPut) /\ s2 \in Seq(NotPut)
    BY <1>2, PartTextType DEF v
  <2>2. NotPut \subseteq Written
    BY DEF NotPut
  <2>3. Seq(NotPut) \subseteq Seq(Written)
    BY <2>2, SeqMonotonic
  <2>. QED BY <2>1, <2>3
<1>5. /\ Headed(h1, s1) /\ Headed(h2, s2)
      /\ \A next : Headed(s1, next) /\ Headed(s2, next)
  <2>1. PartLength(Size(v), p1) \in Nat /\ PartLength(Size(v), p2) \in Nat
    BY <1>2, PartTextType DEF v
  <2>2. \A next : Headed(s1, next) /\ Headed(s2, next)
    BY <2>1, BytesHeaded DEF PartOf
  <2>3. Len(s1) = PartLength(Size(v), p1) /\ Len(s2) = PartLength(Size(v), p2)
    BY <2>1, BytesHeaded DEF PartOf
  <2>. HIDE DEF s1, s2
  <2>. QED BY <2>1, <2>2, <2>3, HeaderAlone
<1>. HIDE DEF h1, h2, s1, s2
<1>6. s1 = <<>> => h1 \o h2 \in Seq(Written) /\ Headed(h1 \o h2, s2)
  <2>1. s1 = <<>> => Headed(h1, h2)
    BY <1>4, <1>5, HeadedMore
  <2>. QED BY <1>4, <1>5, <2>1, HeadedOn, ConcatProperties
<1>7. Headed(((h1 \o s1) \o h2) \o s2, <<>>)
  <2>1. h1 \o s1 \in Seq(Written) /\ Headed(h1 \o s1, h2)
    BY <1>4, <1>5, HeadedOn, ConcatProperties
  <2>. DEFINE a == h1 \o s1
  <2>. HIDE DEF a
  <2>2. a \o h2 \in Seq(Written) /\ Headed(a \o h2, s2)
    BY <1>4, <1>5, <2>1, HeadedOn, ConcatProperties DEF a
  <2>. DEFINE b == a \o h2
  <2>. HIDE DEF b
  <2>3. Headed(b \o s2, <<>>)
    BY <1>4, <1>5, <2>2, HeadedOn DEF b
  <2>. QED BY <2>3 DEF a, b
<1> DEFINE t == IF s1 = <<>> THEN << h1 \o h2 >> ELSE << h1, s1, h2 >>
           u == IF s2 = <<>> THEN <<>> ELSE << s2 >>
           e == ((h1 \o s1) \o h2) \o s2
           o == Upload(c)
<1>8. CASE Splits = "burst"
  <2>1. o = << e >>
    BY <1>3, <1>8
  <2>2. Len(<< e >>) = 1 /\ << e >>[1] = e
    <3>. HIDE DEF e
    <3>. QED OBVIOUS
  <2>3. Len(o) = 1 /\ o[1] = e
    BY <2>1, <2>2
  <2>. HIDE DEF o
  <2>4. Headed(o[1], <<>>)
    BY <1>7, <2>3
  <2>5. HeadedOut(o)
    BY <2>3, <2>4, HeadedWrites, Zenon
  <2>. QED BY <2>5 DEF o
<1>9. CASE Splits # "burst"
  <2>1. /\ t \in Seq(Seq(Written)) /\ Len(t) = IF s1 = <<>> THEN 1 ELSE 3
        /\ s1 = <<>> => t[1] = h1 \o h2
        /\ s1 # <<>> => t[1] = h1 /\ t[2] = s1 /\ t[3] = h2
    BY <1>4, <1>6
  <2>2. /\ u \in Seq(Seq(Written)) /\ Len(u) = IF s2 = <<>> THEN 0 ELSE 1
        /\ s2 # <<>> => u[1] = s2
    BY <1>4
  <2>3. o = t \o u
    BY <1>3, <1>9
  <2>. HIDE DEF t, u, o
  <2>4. /\ Len(o) = Len(t) + Len(u)
        /\ \A i \in 1..(Len(t) + Len(u)) : o[i] = IF i <= Len(t) THEN t[i] ELSE u[i - Len(t)]
    BY <2>1, <2>2, <2>3, ConcatProperties
  <2>5. CASE s1 = <<>> /\ s2 = <<>>
    <3>1. Len(o) = 1 /\ o[1] = h1 \o h2
      BY <2>1, <2>2, <2>4, <2>5
    <3>2. Headed(o[1], <<>>)
      BY <1>6, <2>5, <3>1
    <3>. QED BY <3>1, <3>2, HeadedWrites, Zenon DEF o
  <2>6. CASE s1 = <<>> /\ s2 # <<>>
    <3>1. Len(o) = 2 /\ o[1] = h1 \o h2 /\ o[2] = s2
      BY <2>1, <2>2, <2>4, <2>6
    <3>2. Headed(o[1], o[2]) /\ Headed(o[2], <<>>)
      BY <1>5, <1>6, <2>6, <3>1
    <3>. QED BY <3>1, <3>2, HeadedWrites, Zenon DEF o
  <2>7. CASE s1 # <<>> /\ s2 = <<>>
    <3>1. Len(o) = 3 /\ o[1] = h1 /\ o[2] = s1 /\ o[3] = h2
      BY <2>1, <2>2, <2>4, <2>7
    <3>2. Headed(o[1], o[2]) /\ Headed(o[2], o[3]) /\ Headed(o[3], <<>>)
      BY <1>5, <2>7, <3>1
    <3>. QED BY <3>1, <3>2, HeadedWrites, Zenon DEF o
  <2>8. CASE s1 # <<>> /\ s2 # <<>>
    <3>1. Len(o) = 4 /\ o[1] = h1 /\ o[2] = s1 /\ o[3] = h2 /\ o[4] = s2
      BY <2>1, <2>2, <2>4, <2>8
    <3>2. Headed(o[1], o[2]) /\ Headed(o[2], o[3]) /\ Headed(o[3], o[4]) /\ Headed(o[4], <<>>)
      BY <1>5, <2>8, <3>1
    <3>. QED BY <3>1, <3>2, HeadedWrites, Zenon DEF o
  <2>. QED BY <2>5, <2>6, <2>7, <2>8
<1>. QED BY <1>8, <1>9
(* A client reads.  It begins to upload when the server has answered and   *)
(* waits, and nothing else is on its way.                                  *)
LEMMA ReadStarts ==
  ASSUME PlainFiles, TypeInv, NEW c \in Conn, ClientRead(c)
  PROVE  /\ c2s' = c2s /\ net' = net /\ \A d \in Conn : d # c => con'[d] = con[d]
         /\ \/ con'[c].out = con[c].out
            \/ /\ con[c].cb = "put" /\ con'[c].out = con[c].out \o Upload(c)
               /\ \E i \in Seq(Token), y \in Seq(Token) :
                    /\ con[c].inp \o s2c[c].data = i \o y
                    /\ HasLine(i) /\ LineOf(i) = <<Ready>>
<1> DEFINE Joined(n) == [con[c] EXCEPT !.inp = @ \o Take(s2c[c].data, n)]
           b == s2c[c].data
<1>0. FlowOK(c) /\ DfsShape /\ con[c].loop
  BY Zenon DEF TypeInv, ClientRead
<1>1. PICK n \in s2c[c].cuts : \E q \in {Joined(n)} :
        /\ s2c' = [s2c EXCEPT ![c] = Received(@, n)]
        /\ UNCHANGED <<c2s, net>>
        /\ \/ q.cb = "none" /\ con' = [con EXCEPT ![c] = q] /\ UNCHANGED <<prog, clientFiles>>
           \/ q.cb = "put" /\ Connection_callback_put(c, q)
           \/ q.cb = "list" /\ Connection_callback_list(c, q)
           \/ q.cb = "get" /\ Connection_callback_get(c, q)
  <2>. HIDE DEF Joined
  <2>. QED BY Zenon DEF ClientRead, Joined
<1>2. PICK q :
        /\ q = [con[c] EXCEPT !.inp = con[c].inp \o Take(s2c[c].data, n)]
        /\ c2s' = c2s /\ net' = net
        /\ \/ q.cb = "none" /\ con' = [con EXCEPT ![c] = q] /\ UNCHANGED <<prog, clientFiles>>
           \/ q.cb = "put" /\ Connection_callback_put(c, q)
           \/ q.cb = "list" /\ Connection_callback_list(c, q)
           \/ q.cb = "get" /\ Connection_callback_get(c, q)
  BY <1>1
<1>. HIDE DEF Joined
<1>3. /\ q \in ClientConnection /\ q.cb = con[c].cb /\ q.out = con[c].out
      /\ q.inp = con[c].inp \o Take(b, n)
  BY <1>2, JoinedCon
<1>4. PICK k : con' = [con EXCEPT ![c] = k] /\ (Looks(q, k) \/ (q.cb = "put" /\ Starts(c, q, k)))
  <2>1. CASE q.cb = "none" /\ con' = [con EXCEPT ![c] = q] /\ UNCHANGED <<prog, clientFiles>>
    <3>1. q.inp \in Seq(Told)
      BY <1>3 DEF ClientConnection
    <3>2. Looks(q, q)
      BY <3>1, SelfLooks
    <3>. QED BY <2>1, <3>2
  <2>2. CASE q.cb = "put" /\ Connection_callback_put(c, q)
    BY <1>3, <2>2, PutStarts
  <2>3. CASE q.cb = "list" /\ Connection_callback_list(c, q)
    BY <1>3, <2>3, ListLooks
  <2>4. CASE q.cb = "get" /\ Connection_callback_get(c, q)
    <3>1. con[c].cb = "get"
      BY <1>3, <2>4
    <3>. QED BY <1>0, <1>3, <2>4, <3>1, GetLooks
  <2>. QED BY <1>2, <2>1, <2>2, <2>3, <2>4
<1>5. con'[c] = k /\ \A d \in Conn : d # c => con'[d] = con[d]
  BY <1>0, <1>4, Zenon DEF DfsShape
<1>6. CASE Looks(q, k)
  BY <1>2, <1>3, <1>5, <1>6 DEF Looks, SameClient
<1>7. CASE q.cb = "put" /\ Starts(c, q, k)
  <2>. DEFINE x == q.inp
              y == Drop(b, n)
              i == con[c].inp
  <2>1. b \in Seq(Token) /\ i \in Seq(Token) /\ n \in Nat
    <3>1. b \in Seq(Told) /\ i \in Seq(Told) /\ n \in Nat
      BY <1>0 DEF FlowOK, Pipe, ClientConnection
    <3>. QED BY <3>1, ToldTokens
  <2>2. /\ x \in Seq(Token) /\ y \in Seq(Token) /\ i \o b = x \o y
    <3>1. Take(b, n) \in Seq(Token) /\ y \in Seq(Token) /\ Take(b, n) \o y = b
      BY <2>1, TakeDropType, Split
    <3>2. x = i \o Take(b, n)
      BY <1>3
    <3>. HIDE DEF x, y, i, b
    <3>3. (i \o Take(b, n)) \o y = i \o (Take(b, n) \o y)
      BY <2>1, <3>1, TokensJoined, Zenon
    <3>4. x \in Seq(Token)
      BY <2>1, <3>1, <3>2, ConcatProperties
    <3>. QED BY <3>1, <3>2, <3>3, <3>4
  <2>3. HasLine(x) /\ LineOf(x) = <<Ready>> /\ con[c].cb = "put" /\ k.out = con[c].out \o Upload(c)
    BY <1>3, <1>7, Zenon DEF Starts
  <2>4. \E a \in Seq(Token), z \in Seq(Token) :
          con[c].inp \o s2c[c].data = a \o z /\ HasLine(a) /\ LineOf(a) = <<Ready>>
    <3>. HIDE DEF x, y
    <3>. QED BY <2>2, <2>3
  <2>. QED BY <1>2, <1>5, <2>3, <2>4, Zenon
<1>. QED BY <1>4, <1>6, <1>7, Zenon

LEMMA ClientReadSafe ==
  ASSUME PlainFiles, Unwritable = {}, TypeInv, UploadsInv, AllSafe, NEW c \in Conn, ClientRead(c), UNCHANGED serverVars
  PROVE  AllSafe'
<1>1. /\ c2s' = c2s /\ net' = net /\ \A d \in Conn : d # c => con'[d] = con[d]
      /\ \/ con'[c].out = con[c].out
         \/ /\ con[c].cb = "put" /\ con'[c].out = con[c].out \o Upload(c)
            /\ \E i \in Seq(Token), y \in Seq(Token) :
                 /\ con[c].inp \o s2c[c].data = i \o y
                 /\ HasLine(i) /\ LineOf(i) = <<Ready>>
  BY ReadStarts, Zenon
<1>2. CASE con'[c].out = con[c].out
  <2>1. \A d \in Conn : con'[d].out = con[d].out /\ net'[d] = net[d]
    BY <1>1, <1>2, Zenon
  <2>. QED BY <1>1, <2>1, QuietSafe, Zenon
<1>3. ASSUME con'[c].out = con[c].out \o Upload(c),
             NEW i \in Seq(Token), NEW y \in Seq(Token), con[c].inp \o s2c[c].data = i \o y,
             HasLine(i), LineOf(i) = <<Ready>>
      PROVE  AllSafe'
  <2>1. ASSUME net[c] = "open"
        PROVE  /\ HeadedOut(con'[c].out)
               /\ Arrives(srv[c], c2s[c].data, c2s[c].cuts, Nth(con'[c].out, 1))
    <3>1. ~NoReady(srv[c], con[c].inp \o s2c[c].data)
      BY <1>3, ReadyAlone
    <3>2. Protocol(c[2], srv[c], con[c], c2s[c].data, s2c[c].data, TRUE, Ups)
      <4>1. Usable(c[2]) /\ (net[c] = "open") = TRUE /\ UploadOn(c)
        BY <2>1 DEF Usable, UploadsInv
      <4>. QED BY <4>1 DEF UploadOn
    <3>3. /\ srv[c].inp = <<>> /\ srv[c].putState \in {0, 2} /\ c2s[c].data = <<>>
          /\ con[c].out = <<>> /\ con[c].version \in Version
      BY <3>1, <3>2, Zenon DEF Protocol, ClientPhase, Talks, Asks, Answered, Waits
    <3>4. con'[c].out = Upload(c) /\ HeadedOut(Upload(c))
      <4>1. Upload(c) \in Seq(Seq(NotPut)) /\ HeadedOut(Upload(c))
        BY <3>3, UploadBuffered, UploadHeaded
      <4>. QED BY <1>3, <3>3, <4>1, ConcatEmptySeq
    <3>5. ~WantsData(srv[c])
      BY <3>3 DEF WantsData
    <3>6. srv[c].inp \o c2s[c].data = <<>> /\ Len(<<>>) = 0
      BY <3>3
    <3>7. \A next : Headed(<<>>, next) /\ Uncut(<<>>, Len(srv[c].inp), c2s[c].cuts)
      BY DEF Headed, Uncut
    <3>. QED BY <3>4, <3>5, <3>6, <3>7, Zenon DEF Arrives
  <2>2. /\ \A d \in Conn : d # c => c2s'[d] = c2s[d] /\ net'[d] = net[d] /\ con'[d].out = con[d].out
        /\ c2s'[c] = c2s[c] /\ net'[c] = net[c]
    BY <1>1
  <2>. QED BY <2>1, <2>2, MovesSafe, Zenon
<1>. QED BY <1>1, <1>2, <1>3, Zenon

(* The event loop ends, or hears that the server is gone.                  *)
LEMMA LoopStillSafe ==
  ASSUME TypeInv, AllSafe, NEW c \in Conn, UNCHANGED serverVars, ConnectError(c) \/ ClientEof(c) \/ LoopExit(c)
  PROVE  AllSafe'
<1>1. con[c] \in ClientConnection /\ DfsShape
  BY Zenon DEF TypeInv, FlowOK
<1>2. \A d \in Conn : con'[d].out = con[d].out
  <2>1. CASE con' = [con EXCEPT ![c].rd = FALSE, ![c].wr = FALSE]
    BY <1>1, <2>1 DEF DfsShape, ClientConnection
  <2>2. CASE con' = [con EXCEPT ![c].rd = FALSE, ![c].m_connected = FALSE]
    BY <1>1, <2>2 DEF DfsShape, ClientConnection
  <2>3. CASE con' = [con EXCEPT ![c].loop = FALSE]
    BY <1>1, <2>3 DEF DfsShape, ClientConnection
  <2>. QED BY <2>1, <2>2, <2>3 DEF ConnectError, ClientEof, LoopExit
<1>3. c2s' = c2s /\ \A d \in Conn : net'[d] = net[d] \/ (net[d] # "open" /\ net'[d] # "open")
  BY <1>1 DEF ConnectError, ClientEof, LoopExit, DfsShape, netVars
<1>. QED BY <1>2, <1>3, QuietSafe, Zenon

LEMMA DispatchSafe ==
  ASSUME PlainFiles, InWrites, Unwritable = {}, TypeInv, UploadsInv, AllSafe, NEW c \in Conn, Dispatch(c)
  PROVE  AllSafe' \/ \E k \in Client : ClientDies(k, "killed", s2c)
<1>1. LoopStep(c) /\ UNCHANGED serverVars /\ c[1] \in Client
  BY DEF Dispatch, Conn
<1>2. CASE ClientDies(c[1], "killed", s2c)
  BY <1>1, <1>2
<1>3. CASE ~ClientDies(c[1], "killed", s2c)
  BY <1>1, <1>3, LoopStillSafe, ClientWriteSafe, ClientReadSafe, Zenon DEF LoopStep
<1>. QED BY <1>2, <1>3
-----------------------------------------------------------------------------
(* The commands: a request is put into output buffers.                     *)
Headless(d) == \A i \in 1..Len(d) : d[i].k # "header"
Adds1(out, out2) == out2 = out \/ \E d \in Seq(Written) : Headless(d) /\ out2 = Append(out, d)

LEMMA RequestSafe ==
  ASSUME NEW q, q.inp \in Seq(Written), q.wantedSize \in Nat, NEW w \in Seq(Written), NEW C,
         NEW out \in Seq(Seq(Written)), NEW d \in Seq(Written), Headless(d),
         Arrives(q, w, C, Nth(out, 1)), HeadedOut(out), NEW out2, out2 = Append(out, d)
  PROVE  Arrives(q, w, C, Nth(out2, 1)) /\ HeadedOut(out2)
<1> DEFINE l == Len(out)
<1>1. l \in Nat /\ Len(out2) = l + 1 /\ out2[l + 1] = d /\ \A n \in 1..l : out2[n] = out[n]
  BY LenProperties, AppendProperties
<1>. HIDE DEF l
<1>2. \A n \in 1..(l + 1) : Nth(out2, n) = IF n <= l THEN Nth(out, n) ELSE d
  BY <1>1 DEF Nth, l
<1>3. \A next : Headed(d, next)
  BY Zenon DEF Headed, Headless
<1>4. Arrives(q, w, C, Nth(out2, 1))
  <2>1. CASE l = 0
    <3>1. Nth(out, 1) = <<>>
      BY <2>1 DEF Nth, l
    <3>. QED BY <3>1, ArrivesMore
  <2>2. CASE l # 0
    <3>1. Nth(out2, 1) = Nth(out, 1)
      BY <1>1, <1>2, <2>2
    <3>. QED BY <3>1
  <2>. QED BY <2>1, <2>2
<1>5. ASSUME NEW n \in 1..Len(out2) PROVE Headed(out2[n], Nth(out2, n + 1))
  <2>1. CASE n = l + 1
    BY <1>1, <1>3, <2>1
  <2>2. CASE n # l + 1
    <3>1. n \in 1..l /\ out2[n] = out[n] /\ out[n] \in Seq(Written)
      <4>1. n \in 1..l
        BY <1>1, <2>2
      <4>2. out[n] \in Seq(Written)
        BY <4>1, ElementOfSeq DEF l
      <4>. QED BY <1>1, <4>1, <4>2
    <3>2. Headed(out[n], Nth(out, n + 1))
      BY <3>1 DEF HeadedOut, l
    <3>3. CASE n = l
      <4>1. Nth(out, n + 1) = <<>>
        BY <1>1, <3>3 DEF Nth, l
      <4>. QED BY <3>1, <3>2, <4>1, HeadedMore
    <3>4. CASE n # l
      <4>1. Nth(out2, n + 1) = Nth(out, n + 1)
        BY <1>1, <1>2, <3>1, <3>4
      <4>. QED BY <3>1, <3>2, <4>1
    <3>. QED BY <3>3, <3>4
  <2>. QED BY <2>1, <2>2
<1>. QED BY <1>4, <1>5 DEF HeadedOut

LEMMA CommandSafe ==
  ASSUME TypeInv, AllSafe, UNCHANGED serverVars, UNCHANGED netVars,
         \A c \in Conn : Adds1(con[c].out, con'[c].out)
  PROVE  AllSafe'
<1>1. srv' = srv /\ fate' = fate /\ c2s' = c2s /\ net' = net
  BY DEF serverVars, netVars
<1>2. ASSUME NEW c \in Conn PROVE Safe(c)'
  <2>1. Safe(c) /\ FlowOK(c)
    BY DEF AllSafe, TypeInv
  <2>2. CASE con'[c].out = con[c].out
    BY <1>1, <2>1, <2>2, SafeAside
  <2>3. ASSUME NEW d \in Seq(Written), Headless(d), con'[c].out = Append(con[c].out, d) PROVE Safe(c)'
    <3>1. CASE net[c] = "open"
      <4>1. /\ srv[c].inp \in Seq(Written) /\ srv[c].wantedSize \in Nat /\ c2s[c].data \in Seq(Written)
            /\ con[c].out \in Seq(Seq(Written))
        BY <2>1 DEF FlowOK, Pipe, Connection, ClientConnection
      <4>2. Arrives(srv[c], c2s[c].data, c2s[c].cuts, Nth(con[c].out, 1)) /\ HeadedOut(con[c].out)
        BY <2>1, <3>1, Zenon DEF Safe
      <4>3. Arrives(srv[c], c2s[c].data, c2s[c].cuts, Nth(con'[c].out, 1)) /\ HeadedOut(con'[c].out)
        BY <2>3, <4>1, <4>2, RequestSafe
      <4>. QED BY <1>1, <3>1, <4>3, Zenon DEF Safe
    <3>2. CASE net[c] # "open"
      BY <1>1, <2>1, <3>2, Zenon DEF Safe
    <3>. QED BY <3>1, <3>2
  <2>. QED BY <2>2, <2>3, Zenon DEF Adds1
<1>. QED BY <1>1, <1>2, NoneAborts, Zenon DEF AllSafe

LEMMA RequestAdds ==
  ASSUME TypeInv, NEW c \in Conn, NEW t \in Written, t.k # "header", NEW cb \in {"put", "list", "get"}
  PROVE  Adds1(con[c].out, Requested(c, t, cb).out)
<1>1. CASE ~con[c].m_connected
  BY <1>1, Zenon DEF Requested, Adds1
<1>2. CASE con[c].m_connected
  <2>. DEFINE a == prog[c[1]].auth
              d == TextLine(t) \o TextLine(Auth(a))
  <2>1. PICK q : q = Requested(c, t, cb)
    OBVIOUS
  <2>2. q.out = Append(con[c].out, d) /\ a \in {"good", "bad", "short"}
    BY <1>2, <2>1, RequestedOut, SMTT(60)
  <2>. HIDE DEF a
  <2>3. Auth(a) \in Written /\ Newline \in Written /\ Auth(a).k # "header" /\ Newline.k # "header"
    BY <2>2, TokensWritten DEF Auth, Newline
  <2>4. PICK z : z = Auth(a) /\ z \in Written /\ z.k # "header"
    BY <2>3
  <2>5. d = <<t, Newline>> \o <<z, Newline>>
    BY <2>4 DEF TextLine
  <2>. HIDE DEF d
  <2>6. d \in Seq(Written) /\ Headless(d)
    BY <2>3, <2>4, <2>5 DEF Headless
  <2>. QED BY <2>1, <2>2, <2>6, Zenon DEF Adds1
<1>. QED BY <1>1, <1>2

LEMMA StartPutSafe ==
  ASSUME TypeInv, AllSafe, NEW k \in Client, NEW v \in Version, StartPut(k, v), UNCHANGED serverVars
  PROVE  AllSafe'
<1> DEFINE t == Put(FileOf(v))
<1>1. t \in Written /\ t.k # "header" /\ UNCHANGED netVars
  BY ChannelAssumption, TokensWritten DEF Put, StartPut
<1>. HIDE DEF t
<1>2. ASSUME NEW c \in Conn PROVE Adds1(con[c].out, con'[c].out)
  <2>1. CASE c[1] # k
    BY <2>1, Zenon DEF StartPut, Adds1
  <2>2. CASE c[1] = k
    <3>1. PICK q, x : q = Requested(c, t, "put") /\ con'[c] = [q EXCEPT !.version = x]
      BY <2>2, Zenon DEF StartPut, t
    <3>2. q \in ClientConnection
      BY <1>1, <3>1, RequestedType
    <3>3. con'[c].out = q.out
      BY <3>1, <3>2 DEF ClientConnection
    <3>. QED BY <1>1, <3>1, <3>3, RequestAdds
  <2>. QED BY <2>1, <2>2
<1>. QED BY <1>1, <1>2, CommandSafe

LEMMA StartListSafe ==
  ASSUME TypeInv, AllSafe, NEW k \in Client, StartList(k), UNCHANGED serverVars
  PROVE  AllSafe'
<1>1. List \in Written /\ List.k # "header" /\ UNCHANGED netVars
  BY TokensWritten DEF List, StartList
<1>2. ASSUME NEW c \in Conn PROVE Adds1(con[c].out, con'[c].out)
  <2>1. con'[c] = con[c] \/ con'[c] = Requested(c, List, "list")
    BY Zenon DEF StartList
  <2>2. Adds1(con[c].out, Requested(c, List, "list").out)
    BY <1>1, RequestAdds
  <2>. QED BY <2>1, <2>2, Zenon DEF Adds1
<1>. QED BY <1>1, <1>2, CommandSafe

LEMMA GetFromSafe ==
  ASSUME TypeInv, AllSafe, NEW k \in Client, NEW s \in Server, NEW f \in File, GetFrom(k, s, f),
         UNCHANGED serverVars
  PROVE  AllSafe'
<1> DEFINE d == <<k, s>>
           Q == Requested(d, Get(f, 0), "get")
           r == [Q EXCEPT !.m_get_state = 1]
<1>1. /\ Get(f, 0) \in Written /\ Get(f, 0).k # "header" /\ UNCHANGED netVars /\ d \in Conn /\ DfsShape
      /\ con' = [con EXCEPT ![d] = IF con[d].m_connected THEN r ELSE con[d]]
  BY TokensWritten, Zenon DEF Get, GetFrom, Conn, TypeInv
<1>2. Q \in ClientConnection
  BY <1>1, RequestedType
<1>3. PICK q : q = Q
  OBVIOUS
<1>4. r.out = q.out
  <2>. HIDE DEF Q
  <2>. QED BY <1>2, <1>3 DEF ClientConnection
<1>5. Adds1(con[d].out, q.out)
  BY <1>1, <1>3, RequestAdds
<1>. HIDE DEF r, Q
<1>6. ASSUME NEW c \in Conn PROVE Adds1(con[c].out, con'[c].out)
  <2>1. con'[c] = con[c] \/ (c = d /\ con'[c] = r)
    BY <1>1, Zenon DEF DfsShape
  <2>. QED BY <1>4, <1>5, <2>1, Zenon DEF Adds1
<1>. QED BY <1>1, <1>6, CommandSafe

LEMMA ProceedSafe ==
  ASSUME TypeInv, AllSafe, NEW k \in Client, CommandStep(k), UNCHANGED serverVars
  PROVE  AllSafe' \/ ClientDies(k, "killed", s2c)
<1>1. CASE GetNext(k)
  <2>1. prog[k].at + 1 \in Server /\ prog[k].file \in File
    <3>1. ProgramOK(k)
      BY Zenon DEF TypeInv
    <3>. QED BY <1>1, <3>1 DEF GetNext, ProgramOK, Server
  <2>. QED BY <1>1, <2>1, GetFromSafe, Zenon DEF GetNext
<1>2. CASE ClientDies(k, "killed", s2c)
  BY <1>2
<1>3. CASE PutDone(k) \/ GetDone(k) \/ (ListDone(k) /\ ~ClientDies(k, "killed", s2c))
  <2>1. con' = con /\ UNCHANGED netVars
    BY <1>3 DEF PutDone, GetDone, ListDone
  <2>2. c2s' = c2s /\ net' = net
    BY <2>1 DEF netVars
  <2>. QED BY <2>1, <2>2, QuietSafe, Zenon
<1>. QED BY <1>1, <1>2, <1>3, Zenon DEF CommandStep

(* A client program starts: nothing has been sent on its connections.      *)
LEMMA StartsSafe ==
  ASSUME TypeInv, UploadsInv, AllSafe, NEW k \in Client, UserStarts(k)
  PROVE  AllSafe'
<1> DEFINE noticed == Server \ Live
           up == { s \in Server : fate[s] = "up" }
<1>1. /\ srv' = srv /\ fate' = fate /\ c2s' = c2s /\ prog[k].life = "new"
      /\ \A c \in Conn : c[1] = k \/ (con'[c] = con[c] /\ net'[c] = net[c])
      /\ \A c \in Conn : c[1] = k => con'[c] = [con[c] EXCEPT !.m_connected = c[2] \notin noticed]
  <2>1. StartClient(k, up, noticed) /\ srv' = srv /\ fate' = fate
    BY DEF UserStarts, serverVars
  <2>. HIDE DEF noticed, up
  <2>. QED BY <2>1, Zenon DEF StartClient
<1>. HIDE DEF noticed, up
<1>2. ASSUME NEW c \in Conn PROVE Safe(c)'
  <2>1. Safe(c) /\ Links(c)
    BY Zenon DEF AllSafe, UploadsInv
  <2>2. CASE c[1] # k
    BY <1>1, <2>1, <2>2, SafeAside, Zenon
  <2>3. CASE c[1] = k
    <3>1. con[c] = NewConnection /\ srv[c] = Absent /\ c2s[c] = Empty
      BY <1>1, <2>1, <2>3, Zenon DEF Links
    <3>2. PICK m : con'[c] = [NewConnection EXCEPT !.m_connected = m]
      BY <1>1, <2>3, <3>1, Zenon
    <3>3. con'[c].out = <<>> /\ srv[c].inp = <<>> /\ c2s[c].data = <<>> /\ srv[c].cb = "read"
      BY <3>1, <3>2 DEF NewConnection, Absent, Accepted, Empty
    <3>4. HeadedOut(con'[c].out)
      <4>1. Len(con'[c].out) = 0
        BY <3>3
      <4>. QED BY <4>1 DEF HeadedOut
    <3>5. ~WantsData(srv[c])
      BY <3>3 DEF WantsData
    <3>6. srv[c].inp \o c2s[c].data = <<>> /\ Len(<<>>) = 0
      BY <3>3
    <3>7. \A next : Headed(<<>>, next) /\ Uncut(<<>>, Len(srv[c].inp), c2s[c].cuts)
      BY DEF Headed, Uncut
    <3>8. \A next : Arrives(srv[c], c2s[c].data, c2s[c].cuts, next)
      BY <3>5, <3>6, <3>7, Zenon DEF Arrives
    <3>. QED BY <1>1, <3>1, <3>4, <3>8, Zenon DEF Safe
  <2>. QED BY <2>2, <2>3
<1>. QED BY <1>1, <1>2, NoneAborts, Zenon DEF AllSafe

LEMMA UserSafe ==
  ASSUME TypeInv, UploadsInv, AllSafe, NEW k \in Client, User(k)
  PROVE  AllSafe' \/ ClientDies(k, "gone", s2c)
<1>1. CASE UserStarts(k)
  BY <1>1, StartsSafe
<1>2. CASE UserQuits(k)
  BY <1>2 DEF UserQuits, Quit
<1>3. CASE UserList(k)
  BY <1>3, StartListSafe DEF UserList
<1>4. ASSUME NEW v \in Version, UserPut(k, v) PROVE AllSafe'
  BY <1>4, StartPutSafe DEF UserPut
<1>5. ASSUME NEW f \in File, UserGet(k, f) PROVE AllSafe'
  <2>1. GetFrom(k, 1, f) /\ UNCHANGED serverVars /\ 1 \in Server
    BY <1>5 DEF UserGet, StartGet, Server
  <2>. QED BY <2>1, GetFromSafe
<1>. QED BY <1>1, <1>2, <1>3, <1>4, <1>5, Zenon DEF User
-----------------------------------------------------------------------------
(* A client that has left does not come back.                              *)
LEMMA LeavesClient ==
  ASSUME TypeInv, NEW k \in Client, NEW how \in {"gone", "killed"}, ClientDies(k, how, s2c)
  PROVE  SomeClientLeft'
<1>1. prog'[k] = [IdleProgram EXCEPT !.life = how]
  BY DEF ClientDies, TypeInv, DfsShape
<1>2. prog'[k].life = how
  BY <1>1 DEF IdleProgram
<1>. QED BY <1>2 DEF SomeClientLeft

LEMMA LifeKept ==
  ASSUME TypeInv, SomeClientLeft, \A k \in Client : prog'[k].life = prog[k].life
  PROVE  SomeClientLeft'
BY Zenon DEF SomeClientLeft

LEMMA GetFromLife ==
  ASSUME TypeInv, SomeClientLeft, NEW k \in Client, NEW s, NEW f, GetFrom(k, s, f)
  PROVE  SomeClientLeft'
<1> DEFINE P == [prog[k] EXCEPT !.cmd = "get", !.file = f, !.at = s]
<1>1. DfsShape /\ prog[k] \in Program
  BY DEF TypeInv, ProgramOK
<1>2. prog' = [prog EXCEPT ![k] = P]
  BY <1>1, FieldsAssigned, Zenon DEF GetFrom, DfsShape
<1>3. P.life = prog[k].life
  BY <1>1 DEF Program
<1>. HIDE DEF P
<1>4. \A j \in Client : prog'[j].life = prog[j].life
  BY <1>1, <1>2, <1>3 DEF DfsShape
<1>. QED BY <1>4, LifeKept

LEMMA DoneLife ==
  ASSUME TypeInv, SomeClientLeft, NEW k \in Client, Done(k)
  PROVE  SomeClientLeft'
<1> DEFINE P == [prog[k] EXCEPT !.cmd = "none", !.file = NoFile, !.at = 0]
<1>1. DfsShape /\ prog[k] \in Program
  BY DEF TypeInv, ProgramOK
<1>2. prog' = [prog EXCEPT ![k] = P]
  BY <1>1, FieldsAssigned, Zenon DEF Done, DfsShape
<1>3. P.life = prog[k].life
  BY <1>1 DEF Program
<1>. HIDE DEF P
<1>4. \A j \in Client : prog'[j].life = prog[j].life
  BY <1>1, <1>2, <1>3 DEF DfsShape
<1>. QED BY <1>4, LifeKept

LEMMA ReadLife ==
  ASSUME TypeInv, SomeClientLeft, NEW c \in Conn, ClientRead(c)
  PROVE  SomeClientLeft'
<1>1. DfsShape /\ FlowOK(c)
  BY Zenon DEF TypeInv
<1>2. CASE prog' = prog
  BY <1>2, LifeKept
<1>3. CASE prog' # prog
  <2>1. PICK q : Connection_callback_get(c, q)
    BY <1>3, Zenon DEF ClientRead, Connection_callback_put, Connection_callback_list
  <2>2. PICK h : prog' = [prog EXCEPT ![c[1]].partnum = h.partnum, ![c[1]].size = h.size]
    BY <2>1, Zenon DEF Connection_callback_get
  <2>3. ASSUME NEW j \in Client PROVE prog'[j].life = prog[j].life
    <3>1. prog[j] \in Program
      BY Zenon DEF TypeInv, ProgramOK
    <3>. QED BY <1>1, <2>2, <3>1 DEF DfsShape, Program
  <2>. QED BY <2>3, LifeKept
<1>. QED BY <1>2, <1>3

LEMMA LoopLife ==
  ASSUME TypeInv, SomeClientLeft, NEW c \in Conn, LoopStep(c)
  PROVE  SomeClientLeft'
<1>1. c[1] \in Client /\ "killed" \in {"gone", "killed"}
  BY DEF Conn
<1>2. CASE ClientDies(c[1], "killed", s2c)
  BY <1>1, <1>2, LeavesClient
<1>3. CASE ClientRead(c)
  BY <1>3, ReadLife
<1>4. CASE prog' = prog
  BY <1>4, LifeKept
<1>. QED BY <1>2, <1>3, <1>4 DEF LoopStep, ConnectError, ClientWrite, ClientEof, LoopExit

LEMMA ProceedLife ==
  ASSUME TypeInv, SomeClientLeft, NEW k \in Client, CommandStep(k)
  PROVE  SomeClientLeft'
<1>1. CASE GetNext(k)
  BY <1>1, GetFromLife DEF GetNext
<1>2. CASE ClientDies(k, "killed", s2c)
  <2>1. "killed" \in {"gone", "killed"}
    OBVIOUS
  <2>. QED BY <1>2, <2>1, LeavesClient
<1>3. CASE Done(k)
  BY <1>3, DoneLife
<1>. QED BY <1>1, <1>2, <1>3, Zenon DEF CommandStep, PutDone, GetDone, ListDone

LEMMA UserLife ==
  ASSUME TypeInv, SomeClientLeft, NEW k \in Client, User(k)
  PROVE  SomeClientLeft'
<1>1. DfsShape /\ \A j \in Client : prog[j] \in Program
  BY Zenon DEF TypeInv, ProgramOK
<1>2. CASE UserStarts(k)
  <2>1. PICK a : prog[k].life = "new" /\ prog' = [prog EXCEPT ![k].life = "up", ![k].auth = a]
    BY <1>2, Zenon DEF UserStarts, StartClient
  <2>2. PICK j \in Client : prog[j].life \in {"gone", "killed"}
    BY DEF SomeClientLeft
  <2>3. prog'[j] = prog[j]
    BY <1>1, <2>1, <2>2 DEF DfsShape
  <2>. QED BY <2>2, <2>3 DEF SomeClientLeft
<1>3. CASE UserQuits(k)
  <2>1. "gone" \in {"gone", "killed"} /\ ClientDies(k, "gone", s2c)
    BY <1>3 DEF UserQuits, Quit
  <2>. QED BY <2>1, LeavesClient
<1>4. CASE UserList(k)
  <2>1. \A j \in Client : prog'[j].life = prog[j].life
    BY <1>1, <1>4 DEF UserList, StartList, DfsShape, Program
  <2>. QED BY <2>1, LifeKept
<1>5. ASSUME NEW v \in Version, UserPut(k, v) PROVE SomeClientLeft'
  <2>1. \A j \in Client : prog'[j].life = prog[j].life
    BY <1>1, <1>5 DEF UserPut, StartPut, DfsShape, Program
  <2>. QED BY <2>1, LifeKept
<1>6. ASSUME NEW f \in File, UserGet(k, f) PROVE SomeClientLeft'
  BY <1>6, GetFromLife DEF UserGet, StartGet
<1>. QED BY <1>2, <1>3, <1>4, <1>5, <1>6, Zenon DEF User

LEMMA LeftStays ==
  ASSUME TypeInv, SomeClientLeft, [Next]_vars
  PROVE  SomeClientLeft'
<1>1. CASE prog' = prog
  BY <1>1, LifeKept
<1>2. ASSUME NEW k \in Client, User(k) \/ Proceed(k) PROVE SomeClientLeft'
  BY <1>2, UserLife, ProceedLife DEF Proceed
<1>3. ASSUME NEW c \in Conn, Serve(c) \/ Dispatch(c) PROVE SomeClientLeft'
  BY <1>1, <1>3, LoopLife DEF Serve, Dispatch, clientVars
<1>4. ASSUME NEW s \in Server, UserKills(s) \/ UserRestarts(s) PROVE SomeClientLeft'
  BY <1>1, <1>4 DEF UserKills, UserRestarts, clientVars
<1>5. CASE UNCHANGED vars
  BY <1>1, <1>5 DEF vars, clientVars
<1>. QED BY <1>2, <1>3, <1>4, <1>5, Zenon DEF Next

-----------------------------------------------------------------------------
(* The invariant.                                                          *)
LEMMA InitSafe ==
  ASSUME Init
  PROVE  AllSafe
<1>1. /\ c2s = [c \in Conn |-> Empty] /\ net = [c \in Conn |-> "none"] /\ srv = [c \in Conn |-> Absent]
      /\ fate = [s \in Server |-> IF s \in Live THEN "up" ELSE "killed"]
  BY DEF Init, NetInit, ServerInit
<1>2. ASSUME NEW c \in Conn PROVE Safe(c)
  <2>1. net[c] # "open" /\ srv[c] = Absent /\ c2s[c] = Empty
    BY <1>1
  <2>. QED BY <2>1 DEF Safe
<1>. QED BY <1>1, <1>2 DEF AllSafe, NoServerAborts

LEMMA NextSafe ==
  ASSUME FlatNames, PlainFiles, InWrites, ShortNames = {}, Unwritable = {},
         TypeInv, TypeInv', UploadsInv, AllSafe, [Next]_vars
  PROVE  AllSafe' \/ SomeClientLeft'
<1>0. "gone" \in {"gone", "killed"} /\ "killed" \in {"gone", "killed"}
  OBVIOUS
<1>1. ASSUME NEW k \in Client, User(k) PROVE AllSafe' \/ SomeClientLeft'
  BY <1>0, <1>1, UserSafe, LeavesClient, Zenon
<1>2. ASSUME NEW k \in Client, Proceed(k) PROVE AllSafe' \/ SomeClientLeft'
  BY <1>0, <1>2, ProceedSafe, LeavesClient, Zenon DEF Proceed
<1>3. ASSUME NEW c \in Conn, Serve(c) PROVE AllSafe'
  BY <1>3, ServeSafe, Zenon
<1>4. ASSUME NEW c \in Conn, Dispatch(c) PROVE AllSafe' \/ SomeClientLeft'
  BY <1>0, <1>4, DispatchSafe, LeavesClient, Zenon
<1>5. ASSUME NEW s \in Server, UserKills(s) \/ UserRestarts(s) PROVE AllSafe'
  <2>1. (Kill(s) \/ Restart(s)) /\ con' = con
    BY <1>5 DEF UserKills, UserRestarts, clientVars
  <2>. QED BY <2>1, KillSafe, Zenon
<1>6. CASE UNCHANGED vars
  <2>1. UNCHANGED serverVars /\ c2s' = c2s /\ net' = net /\ con' = con
    BY <1>6 DEF vars, clientVars, netVars
  <2>. QED BY <2>1, QuietSafe, Zenon
<1>. QED BY <1>1, <1>2, <1>3, <1>4, <1>5, <1>6, Zenon DEF Next

(* No server ends by itself while no client has left, whatever the clients *)
(* ask of it, wherever between two writes what they send is cut, and       *)
(* whichever servers are killed and started again. The stream that         *)
(* callback_put makes of what evbuffer_readln returns (Server.cpp:370) is  *)
(* never made of NULL: where a header is due it has come with its newline, *)
(* because the bytes that were due before it had all come and were as many *)
(* as the header before had said. Without the hypotheses servers do end.   *)
(* SomeClientLeft: what is written to a client that has left is a SIGPIPE. *)
(* InWrites: a read that ends inside of a header, or of a part, after      *)
(* which the callback looks for the next header at once. ShortNames: the   *)
(* name of an upload is assigned to a string of zero bytes. Unwritable: a  *)
(* folder that is not there is listed. FlatNames: an upload that is given  *)
(* up over a file that cannot be opened leaves its state behind (see       *)
(* PartsAreNeverTorn), like one whose file bytes are taken for a header    *)
(* (PlainFiles).                                                           *)
THEOREM ServersOutlastClients ==
  FlatNames /\ PlainFiles /\ InWrites /\ ShortNames = {} /\ Unwritable = {} =>
    (Spec => [](SomeClientLeft \/ NoServerAborts))
<1>. SUFFICES ASSUME FlatNames, PlainFiles, InWrites, ShortNames = {}, Unwritable = {}
              PROVE  Spec => [](SomeClientLeft \/ NoServerAborts)
  OBVIOUS
<1> DEFINE I == TypeInv /\ UploadsInv /\ PutTyped /\ kills \in Nat /\ (SomeClientLeft \/ AllSafe)
<1>1. Init => I
  <2>1. Init => kills \in Nat
    BY DEF Init
  <2>. QED BY <2>1, InitType, InitUploads, InitSafe
<1>2. I /\ [Next]_vars => I'
  BY NextType, NextUploads, NextSafe, LeftStays
<1>3. I => SomeClientLeft \/ NoServerAborts
  BY DEF AllSafe
<1>. QED BY <1>1, <1>2, <1>3, PTL DEF Spec
=============================================================================
