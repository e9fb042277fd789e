------------------------------- MODULE Layout -------------------------------
(***************************************************************************)
(* How Client::Put cuts a file into four parts and which two parts each of *)
(* the four servers receives.  Pure operators, used by the client model    *)
(* and by PutPlan; lengths and offsets are in bytes.                       *)
(***************************************************************************)
EXTENDS Integers

Server == 1..4
Part   == 1..4

(* FILE_PAIR_1 .. FILE_PAIR_4 name the pairs (1,2), (2,3), (3,4), (4,1):   *)
(* the cases of the switch in Client::Put.                                 *)
PairNumber == 1..4
Pair(k) == << k, IF k = 4 THEN 1 ELSE k + 1 >>

(* x is the last byte of the MD5 digest modulo 4.                          *)
HashValue == 0..3

(* Which pair goes to which server, row x, column server.                  *)
FilePiecesWithTypo(server, x) ==
  << <<1, 2, 3, 4>>,
     <<4, 1, 2, 3>>,
     <<3, 4, 1, 1>>,
     <<2, 3, 4, 1>> >>[x + 1][server]

FilePieces(server, x) ==
  << <<1, 2, 3, 4>>,
     <<4, 1, 2, 3>>,
     <<3, 4, 1, 2>>,
     <<2, 3, 4, 1>> >>[x + 1][server]

PartSizeRoundedUp(size) == (size + 3) \div 4
PartSizeFirst(size) == size \div 4

PartSizeTruncated(size) == size \div 4
PartSizeLast(size) ==
  IF size % 4 = 0 THEN size \div 4 ELSE size - PartSizeFirst(size) * 3

PartLength(size, p) == IF p = 4 THEN PartSizeLast(size) ELSE PartSizeFirst(size)
PartOffsetFromOne(size, p) == PartSizeFirst(size) * p
PartOffset(size, p) == PartSizeFirst(size) * (p - 1)

(* Connection::PutInfo as Client::Put fills it for pair k.                 *)
PutInfoConsecutive(k, size) ==
  [ part1_number |-> Pair(k)[1],
    length1      |-> PartLength(size, Pair(k)[1]),
    offset1      |-> PartOffset(size, Pair(k)[1]),
    part2_number |-> Pair(k)[2],
    length2      |-> PartLength(size, Pair(k)[2]),
    offset2      |-> PartOffset(size, Pair(k)[1]) + PartLength(size, Pair(k)[1]) ]

PutInfo(k, size) ==
  [ part1_number |-> Pair(k)[1],
    length1      |-> PartLength(size, Pair(k)[1]),
    offset1      |-> PartOffset(size, Pair(k)[1]),
    part2_number |-> Pair(k)[2],
    length2      |-> PartLength(size, Pair(k)[2]),
    offset2      |-> PartOffset(size, Pair(k)[2]) ]

(* The parts a server is given for a file whose hash value is x.           *)
PartsOf(server, x) ==
  { Pair(FilePieces(server, x))[1], Pair(FilePieces(server, x))[2] }
=============================================================================
