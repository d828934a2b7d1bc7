--------------------------- MODULE Framing_proofs ---------------------------
(***************************************************************************)
(* What a piece of the stream is parsed to, for all answers, ids, damages  *)
(* and lengths.                                                            *)
(*                                                                         *)
(* A frame begins with five 0 bytes and has no other five in a row before  *)
(* its CRC, so a piece that parses begins where a frame does, and ends     *)
(* where its length says (FrameBeginsOnce, PieceOfOne, PieceOfTwo).  Its   *)
(* payload is read back value by value (FirstValue, PayloadReadBack).  The *)
(* CRC is linear in the exclusive or (CrcStepXor), so that two neighbours  *)
(* that change always change it (CrcNoticesNeighbours); for the beginnings *)
(* of frames, too short for that, it is carried out on the headers there   *)
(* are (ShortHeader).                                                      *)
(***************************************************************************)
EXTENDS Framing, SequenceTheorems, FiniteSetTheorems, WellFoundedInduction, TLAPS

(***************************************************************************)
(* Induction and recursion over numbers                                    *)
(***************************************************************************)

LEMMA Between ==
    ASSUME NEW a \in Int, NEW b \in Int
    PROVE  \A c : c \in a..b <=> c \in Int /\ a <= c /\ c <= b
OBVIOUS

LEMMA LeastExists ==
    ASSUME NEW S \in SUBSET Nat, S # {}
    PROVE  \E i \in S : \A j \in S : i <= j
<1>1. PICK i \in S : \A j \in S : <<j, i>> \notin OpToRel(<, Nat)
  BY WFMin, NatLessThanWellFounded, Zenon
<1>2. \A j \in S : ~ (j < i)
  BY <1>1 DEF OpToRel
<1>3. QED
  BY <1>2

\* What holds of 0, and of each number if it holds of the one before.
LEMMA Induction ==
    ASSUME NEW N \in Nat, NEW P, 0 \in P, \A n \in 1..N : n - 1 \in P => n \in P
    PROVE  \A n \in 0..N : n \in P
<1> DEFINE Not == {n \in 0..N : n \notin P}
<1>1. SUFFICES ASSUME Not # {} PROVE FALSE
  OBVIOUS
<1>2. Not \in SUBSET Nat
  OBVIOUS
<1>3. PICK n \in Not : \A k \in Not : n <= k
  <2> HIDE DEF Not
  <2>1. QED
    BY <1>1, <1>2, LeastExists
<1>4. n # 0 /\ n \in 1..N /\ n - 1 \in 0..N
  OBVIOUS
<1>5. n - 1 \in P
  BY <1>3, <1>4
<1>6. QED
  BY <1>4, <1>5

\* A function may be defined by what follows on each of its values.
Follows(g, S, s0, N, step) ==
    /\ g \in [0..N -> S]
    /\ g[0] = s0
    /\ \A n \in 1..N : g[n] = step[<<n, g[n - 1]>>]

LEMMA Recursion ==
    ASSUME NEW S, NEW s0 \in S, NEW N \in Nat, NEW step \in [(1..N) \X S -> S]
    PROVE  \E g : Follows(g, S, s0, N, step)
<1> DEFINE Upto(n) == {g \in [0..n -> S] : g[0] = s0 /\ \A k \in 1..n : g[k] = step[<<k, g[k - 1]>>]}
           P == {n \in Nat : Upto(n) # {}}
<1>1. 0 \in P
  <2>1. [n \in 0..0 |-> s0] \in Upto(0)
    OBVIOUS
  <2>2. QED
    BY <2>1
<1>2. ASSUME NEW n \in 1..N, n - 1 \in P
      PROVE  n \in P
  <2>1. PICK g : g \in Upto(n - 1)
    BY <1>2
  <2>2. g \in [0..(n - 1) -> S] /\ g[0] = s0 /\ \A k \in 1..(n - 1) : g[k] = step[<<k, g[k - 1]>>]
    BY <2>1
  <2> DEFINE h == [k \in 0..n |-> IF k = n THEN step[<<n, g[n - 1]>>] ELSE g[k]]
  <2>3. h \in [0..n -> S]
    <3>1. <<n, g[n - 1]>> \in (1..N) \X S
      BY <2>2
    <3>2. step[<<n, g[n - 1]>>] \in S
      BY <3>1
    <3>3. \A k \in 0..n : k # n => g[k] \in S
      BY <2>2
    <3>4. QED
      BY <3>2, <3>3
  <2>4. h[0] = s0
    BY <2>2
  <2>5. ASSUME NEW k \in 1..n PROVE h[k] = step[<<k, h[k - 1]>>]
    <3>1. h[k - 1] = g[k - 1] /\ h[k] = IF k = n THEN step[<<n, g[n - 1]>>] ELSE g[k]
      OBVIOUS
    <3> HIDE DEF h
    <3>2. CASE k = n
      BY <3>1, <3>2
    <3>3. CASE k # n
      BY <3>1, <3>3, <2>2
    <3>4. QED
      BY <3>2, <3>3
  <2> HIDE DEF h
  <2>6. h \in Upto(n)
    BY <2>3, <2>4, <2>5
  <2>7. QED
    BY <2>6
<1> HIDE DEF P
<1>3. N \in P
  BY <1>1, <1>2, Induction
<1>4. QED
  BY <1>3 DEF P, Follows

\* There is only one such function.
LEMMA Unique ==
    ASSUME NEW S, NEW s0 \in S, NEW N \in Nat, NEW step, NEW g, Follows(g, S, s0, N, step),
           NEW f, f[0] = s0, \A n \in 1..N : f[n - 1] \in S => f[n] = step[<<n, f[n - 1]>>]
    PROVE  \A n \in 0..N : f[n] = g[n]
<1> DEFINE P == {n \in 0..N : f[n] = g[n]}
<1>1. 0 \in P
  BY DEF Follows
<1>2. ASSUME NEW n \in 1..N, n - 1 \in P PROVE n \in P
  <2>1. n - 1 \in 0..N /\ n \in 0..N /\ f[n - 1] = g[n - 1]
    BY <1>2
  <2>2. g[n - 1] \in S /\ g[n] = step[<<n, g[n - 1]>>]
    BY <2>1 DEF Follows
  <2>3. f[n] = step[<<n, f[n - 1]>>]
    BY <2>1, <2>2
  <2>4. QED
    BY <2>1, <2>2, <2>3
<1> HIDE DEF P
<1>3. \A n \in 0..N : n \in P
  BY <1>1, <1>2, Induction
<1>4. QED
  BY <1>3 DEF P

(***************************************************************************)
(* Exclusive or and the CRC                                                *)
(***************************************************************************)

LEMMA BytesAre == \A k : k \in Bytes <=> k \in Int /\ 0 <= k /\ k <= 255
BY DEF Bytes

LEMMA WordsAre == \A k : k \in Words <=> k \in Int /\ 0 <= k /\ k <= 65535
<1>1. MaxUint16 \in Int
  BY DEF MaxUint16
<1>2. \A k : k \in Words <=> k \in Int /\ 0 <= k /\ k <= MaxUint16
  BY <1>1 DEF Words
<1>3. QED
  BY <1>2 DEF MaxUint16

LEMMA XorByteType ==
    ASSUME NEW a \in Bytes, NEW b \in Bytes
    PROVE  XorByte[a][b] \in Bytes
<1> DEFINE X(bit) == XorBit(a, b, bit)
<1>1. a \in Int /\ 0 <= a /\ a <= 255 /\ b \in Int /\ 0 <= b /\ b <= 255
  BY BytesAre
<1>2. /\ X(1) \in {0, 1} /\ X(2) \in {0, 2} /\ X(4) \in {0, 4} /\ X(8) \in {0, 8}
      /\ X(16) \in {0, 16} /\ X(32) \in {0, 32} /\ X(64) \in {0, 64} /\ X(128) \in {0, 128}
  BY <1>1 DEF XorBit
<1>3. XorByte[a][b] = X(1) + X(2) + X(4) + X(8) + X(16) + X(32) + X(64) + X(128)
  BY DEF XorByte
<1> HIDE DEF X
<1>4. QED
  BY <1>2, <1>3, BytesAre

LEMMA XorNothing ==
    ASSUME NEW a \in Bytes
    PROVE  XorByte[0][a] = a /\ XorByte[a][0] = a
<1>0. a \in Int /\ 0 <= a /\ a <= 255 /\ 0 \in Bytes
  BY BytesAre
<1>1. ASSUME NEW bit \in {1, 2, 4, 8, 16, 32, 64, 128}
      PROVE  XorBit(0, a, bit) = bit * ((a \div bit) % 2) /\ XorBit(a, 0, bit) = bit * ((a \div bit) % 2)
  BY <1>0 DEF XorBit
<1>2. a = 1 * ((a \div 1) % 2) + 2 * ((a \div 2) % 2) + 4 * ((a \div 4) % 2) + 8 * ((a \div 8) % 2)
            + 16 * ((a \div 16) % 2) + 32 * ((a \div 32) % 2) + 64 * ((a \div 64) % 2)
            + 128 * ((a \div 128) % 2)
  BY <1>0
<1>3. /\ XorByte[0][a] = XorBit(0, a, 1) + XorBit(0, a, 2) + XorBit(0, a, 4) + XorBit(0, a, 8)
          + XorBit(0, a, 16) + XorBit(0, a, 32) + XorBit(0, a, 64) + XorBit(0, a, 128)
      /\ XorByte[a][0] = XorBit(a, 0, 1) + XorBit(a, 0, 2) + XorBit(a, 0, 4) + XorBit(a, 0, 8)
          + XorBit(a, 0, 16) + XorBit(a, 0, 32) + XorBit(a, 0, 64) + XorBit(a, 0, 128)
  BY <1>0 DEF XorByte
<1>4. QED
  BY <1>1, <1>2, <1>3

\* The two bytes of a word.
LEMMA Halves ==
    ASSUME NEW a \in Words
    PROVE  a \div 256 \in Bytes /\ a % 256 \in Bytes /\ a = 256 * (a \div 256) + (a % 256)
BY WordsAre, BytesAre

LEMMA HalvesOf ==
    ASSUME NEW hi \in Bytes, NEW lo \in Bytes
    PROVE  /\ 256 * hi + lo \in Words
           /\ (256 * hi + lo) \div 256 = hi
           /\ (256 * hi + lo) % 256 = lo
BY BytesAre, WordsAre

LEMMA Xor16Type ==
    ASSUME NEW a \in Words, NEW b \in Words
    PROVE  Xor16(a, b) \in Words
<1>1. XorByte[a \div 256][b \div 256] \in Bytes /\ XorByte[a % 256][b % 256] \in Bytes
  BY Halves, XorByteType
<1>2. QED
  BY <1>1, HalvesOf DEF Xor16

LEMMA ShiftOutType ==
    ASSUME NEW crc \in Words
    PROVE  ShiftOut(crc) \in Words
<1>1. (2 * crc) % 65536 \in Words /\ Poly \in Words
  BY WordsAre DEF Poly
<1>2. Xor16((2 * crc) % 65536, Poly) \in Words
  BY <1>1, Xor16Type
<1>3. ~ crc >= 32768 => 2 * crc \in Words
  BY WordsAre
<1>4. QED
  BY <1>2, <1>3 DEF ShiftOut

LEMMA ShiftOutByteType ==
    ASSUME NEW crc \in Words
    PROVE  ShiftOutByte[crc] \in Words
BY ShiftOutType DEF ShiftOutByte

LEMMA CrcStepType ==
    ASSUME NEW crc \in Words, NEW byte \in Bytes
    PROVE  CrcStep(crc, byte) \in Words
<1>1. 256 * byte \in Words
  BY BytesAre, WordsAre
<1>2. Xor16(crc, 256 * byte) \in Words
  BY <1>1, Xor16Type
<1>3. QED
  BY <1>2, ShiftOutByteType DEF CrcStep

LEMMA CrcStepOfNothing == CrcStep(0, 0) = 0
<1>1. Xor16(0, 256 * 0) = 0
  BY XorNothing, BytesAre DEF Xor16
<1>2. ShiftOut(0) = 0
  BY DEF ShiftOut
<1>3. ShiftOutByte[0] = 0
  BY <1>2, WordsAre DEF ShiftOutByte
<1>4. QED
  BY <1>1, <1>3 DEF CrcStep

\* The CRC goes through the bytes one by one.
IsCrcOf(crc, bytes) ==
    /\ crc \in [0..Len(bytes) -> Words]
    /\ crc[0] = 0
    /\ \A n \in 1..Len(bytes) : crc[n] = CrcStep(crc[n - 1], bytes[n])

LEMMA CrcByteByByte ==
    ASSUME NEW bytes \in Seq(Bytes)
    PROVE  \E crc : IsCrcOf(crc, bytes) /\ Crc(bytes) = crc[Len(bytes)]
<1> DEFINE N == Len(bytes)
           step == [p \in (1..N) \X Words |-> CrcStep(p[2], bytes[p[1]])]
<1>1. N \in Nat /\ (\A n \in 1..N : bytes[n] \in Bytes) /\ 0 \in Words
  BY WordsAre
<1>2. step \in [(1..N) \X Words -> Words]
  BY <1>1, CrcStepType
<1>3. \A n \in 1..N : \A c \in Words : step[<<n, c>>] = CrcStep(c, bytes[n])
  OBVIOUS
<1> HIDE DEF step
<1>4. PICK g : Follows(g, Words, 0, N, step)
  BY <1>1, <1>2, Recursion
<1>5. \A n \in 1..N : g[n - 1] \in Words /\ g[n] = CrcStep(g[n - 1], bytes[n])
  BY <1>1, <1>3, <1>4 DEF Follows
<1>6. IsCrcOf(g, bytes)
  BY <1>4, <1>5 DEF IsCrcOf, Follows
<1> DEFINE Is(crc) == crc = [n \in 0..Len(bytes) |-> IF n = 0 THEN 0 ELSE CrcStep(crc[n - 1], bytes[n])]
           f == CHOOSE crc : Is(crc)
<1>7. Is(g)
  BY <1>1, <1>4, <1>5 DEF Follows
<1>8. Is(f)
  <2> HIDE DEF Is
  <2>1. QED
    BY <1>7
<1>9. Crc(bytes) = f[N]
  BY DEF Crc
<1>10. f[0] = 0 /\ \A n \in 1..N : f[n] = CrcStep(f[n - 1], bytes[n])
  <2> HIDE DEF f
  <2>1. QED
    BY <1>8, <1>1
<1> HIDE DEF f, N
<1>11. \A n \in 1..N : f[n - 1] \in Words => f[n] = step[<<n, f[n - 1]>>]
  BY <1>3, <1>10
<1>12. \A n \in 0..N : f[n] = g[n]
  BY <1>1, <1>4, <1>10, <1>11, Unique
<1>13. QED
  BY <1>1, <1>6, <1>9, <1>12 DEF N

LEMMA CrcType ==
    ASSUME NEW bytes \in Seq(Bytes)
    PROVE  Crc(bytes) \in Words
<1>1. PICK crc : IsCrcOf(crc, bytes) /\ Crc(bytes) = crc[Len(bytes)]
  BY CrcByteByByte
<1>2. Len(bytes) \in 0..Len(bytes)
  OBVIOUS
<1>3. QED
  BY <1>1, <1>2 DEF IsCrcOf

\* 0 bytes in front do not change it.
LEMMA CrcOfLeadingZero ==
    ASSUME NEW bytes \in Seq(Bytes), bytes # <<>>, bytes[1] = 0, NEW rest \in Seq(Bytes),
           Len(bytes) = Len(rest) + 1, \A i \in 1..Len(rest) : rest[i] = bytes[i + 1]
    PROVE  Crc(bytes) = Crc(rest)
<1>1. PICK c : IsCrcOf(c, bytes) /\ Crc(bytes) = c[Len(bytes)]
  BY CrcByteByByte
<1>2. PICK d : IsCrcOf(d, rest) /\ Crc(rest) = d[Len(rest)]
  BY CrcByteByByte
<1> DEFINE N == Len(rest)
           P == {n \in 0..N : c[n + 1] = d[n]}
<1>3. N \in Nat /\ Len(bytes) = N + 1
  OBVIOUS
<1>4. 0 \in P
  <2>1. c[0] = 0 /\ c[1] = CrcStep(c[1 - 1], bytes[1]) /\ d[0] = 0
    BY <1>1, <1>2, <1>3 DEF IsCrcOf
  <2>2. c[1] = 0
    BY <2>1, CrcStepOfNothing
  <2>3. QED
    BY <2>1, <2>2, <1>3
<1>5. ASSUME NEW n \in 1..N, n - 1 \in P PROVE n \in P
  <2>1. n \in 1..Len(bytes) /\ n + 1 \in 1..Len(bytes) /\ n \in 1..Len(rest)
    BY <1>3
  <2>2. c[n + 1] = CrcStep(c[n + 1 - 1], bytes[n + 1])
    BY <2>1, <1>1 DEF IsCrcOf
  <2>3. d[n] = CrcStep(d[n - 1], rest[n])
    BY <2>1, <1>2 DEF IsCrcOf
  <2>4. c[n - 1 + 1] = d[n - 1] /\ rest[n] = bytes[n + 1] /\ n - 1 + 1 = n /\ n + 1 - 1 = n
    BY <1>5, <2>1
  <2>5. QED
    BY <2>2, <2>3, <2>4
<1> HIDE DEF P
<1>6. \A n \in 0..N : n \in P
  BY <1>3, <1>4, <1>5, Induction
<1>7. N \in P
  BY <1>3, <1>6
<1>8. QED
  BY <1>1, <1>2, <1>3, <1>7 DEF P

(***************************************************************************)
(* The CRC notices what two neighbours differ in                           *)
(***************************************************************************)

Bits == {1, 2, 4, 8, 16, 32, 64, 128}
Bit(a, bit) == (a \div bit) % 2

\* A byte is the sum of its bits.
LEMMA ByteOfBits ==
    ASSUME NEW a \in Bytes
    PROVE  /\ a = Bit(a, 1) + 2 * Bit(a, 2) + 4 * Bit(a, 4) + 8 * Bit(a, 8) + 16 * Bit(a, 16)
                    + 32 * Bit(a, 32) + 64 * Bit(a, 64) + 128 * Bit(a, 128)
           /\ \A bit \in Bits : Bit(a, bit) \in {0, 1}
<1>1. a \in Int /\ 0 <= a /\ a <= 255
  BY BytesAre
<1>2. ASSUME NEW bit \in Bits PROVE Bit(a, bit) \in {0, 1}
  BY <1>1 DEF Bit, Bits
<1>3. QED
  BY <1>1, <1>2 DEF Bit

LEMMA SameBits ==
    ASSUME NEW a \in Bytes, NEW b \in Bytes, \A bit \in Bits : Bit(a, bit) = Bit(b, bit)
    PROVE  a = b
<1>1. /\ Bit(a, 1) = Bit(b, 1) /\ Bit(a, 2) = Bit(b, 2) /\ Bit(a, 4) = Bit(b, 4)
      /\ Bit(a, 8) = Bit(b, 8) /\ Bit(a, 16) = Bit(b, 16) /\ Bit(a, 32) = Bit(b, 32)
      /\ Bit(a, 64) = Bit(b, 64) /\ Bit(a, 128) = Bit(b, 128)
  BY DEF Bits
<1>2. QED
  BY <1>1, ByteOfBits

\* What is put together from bits has them.
LEMMA BitsOfSum ==
    ASSUME NEW b1 \in {0, 1}, NEW b2 \in {0, 1}, NEW b4 \in {0, 1}, NEW b8 \in {0, 1},
           NEW b16 \in {0, 1}, NEW b32 \in {0, 1}, NEW b64 \in {0, 1}, NEW b128 \in {0, 1}, NEW a,
           a = b1 + 2 * b2 + 4 * b4 + 8 * b8 + 16 * b16 + 32 * b32 + 64 * b64 + 128 * b128
    PROVE  /\ a \in Bytes
           /\ Bit(a, 1) = b1 /\ Bit(a, 2) = b2 /\ Bit(a, 4) = b4 /\ Bit(a, 8) = b8
           /\ Bit(a, 16) = b16 /\ Bit(a, 32) = b32 /\ Bit(a, 64) = b64 /\ Bit(a, 128) = b128
BY BytesAre DEF Bit

LEMMA XorBits ==
    ASSUME NEW a \in Bytes, NEW b \in Bytes, NEW bit \in Bits
    PROVE  Bit(XorByte[a][b], bit) = (Bit(a, bit) + Bit(b, bit)) % 2
<1> DEFINE X(w) == (Bit(a, w) + Bit(b, w)) % 2
<1>1. a \in Int /\ 0 <= a /\ a <= 255 /\ b \in Int /\ 0 <= b /\ b <= 255
  BY BytesAre
<1>2. /\ XorBit(a, b, 1) = X(1) /\ XorBit(a, b, 2) = 2 * X(2) /\ XorBit(a, b, 4) = 4 * X(4)
      /\ XorBit(a, b, 8) = 8 * X(8) /\ XorBit(a, b, 16) = 16 * X(16) /\ XorBit(a, b, 32) = 32 * X(32)
      /\ XorBit(a, b, 64) = 64 * X(64) /\ XorBit(a, b, 128) = 128 * X(128)
  BY <1>1 DEF XorBit, Bit
<1>3. /\ X(1) \in {0, 1} /\ X(2) \in {0, 1} /\ X(4) \in {0, 1} /\ X(8) \in {0, 1}
      /\ X(16) \in {0, 1} /\ X(32) \in {0, 1} /\ X(64) \in {0, 1} /\ X(128) \in {0, 1}
  BY <1>1 DEF Bit
<1>4. XorByte[a][b] = XorBit(a, b, 1) + XorBit(a, b, 2) + XorBit(a, b, 4) + XorBit(a, b, 8)
          + XorBit(a, b, 16) + XorBit(a, b, 32) + XorBit(a, b, 64) + XorBit(a, b, 128)
  BY DEF XorByte
<1> DEFINE xor == XorByte[a][b]
<1> HIDE DEF X, xor
<1>5. xor = X(1) + 2 * X(2) + 4 * X(4) + 8 * X(8) + 16 * X(16) + 32 * X(32) + 64 * X(64) + 128 * X(128)
  BY <1>2, <1>4 DEF xor
<1>6. /\ Bit(xor, 1) = X(1) /\ Bit(xor, 2) = X(2) /\ Bit(xor, 4) = X(4) /\ Bit(xor, 8) = X(8)
      /\ Bit(xor, 16) = X(16) /\ Bit(xor, 32) = X(32) /\ Bit(xor, 64) = X(64) /\ Bit(xor, 128) = X(128)
  BY <1>3, <1>5, BitsOfSum
<1>7. Bit(xor, bit) = X(bit)
  BY <1>6 DEF Bits
<1>8. QED
  BY <1>7 DEF xor, X

LEMMA XorSwap ==
    ASSUME NEW a \in Bytes, NEW b \in Bytes, NEW c \in Bytes, NEW d \in Bytes
    PROVE  XorByte[XorByte[a][b]][XorByte[c][d]] = XorByte[XorByte[a][c]][XorByte[b][d]]
<1> DEFINE l == XorByte[XorByte[a][b]][XorByte[c][d]]
           r == XorByte[XorByte[a][c]][XorByte[b][d]]
<1>1. /\ XorByte[a][b] \in Bytes /\ XorByte[c][d] \in Bytes
      /\ XorByte[a][c] \in Bytes /\ XorByte[b][d] \in Bytes
  BY XorByteType
<1>2. l \in Bytes /\ r \in Bytes
  BY <1>1, XorByteType
<1>3. ASSUME NEW bit \in Bits PROVE Bit(l, bit) = Bit(r, bit)
  <2>1. /\ Bit(XorByte[a][b], bit) = (Bit(a, bit) + Bit(b, bit)) % 2
        /\ Bit(XorByte[c][d], bit) = (Bit(c, bit) + Bit(d, bit)) % 2
        /\ Bit(XorByte[a][c], bit) = (Bit(a, bit) + Bit(c, bit)) % 2
        /\ Bit(XorByte[b][d], bit) = (Bit(b, bit) + Bit(d, bit)) % 2
    BY XorBits
  <2>2. /\ Bit(l, bit) = (Bit(XorByte[a][b], bit) + Bit(XorByte[c][d], bit)) % 2
        /\ Bit(r, bit) = (Bit(XorByte[a][c], bit) + Bit(XorByte[b][d], bit)) % 2
    BY <1>1, XorBits
  <2>3. /\ Bit(a, bit) \in {0, 1} /\ Bit(b, bit) \in {0, 1}
        /\ Bit(c, bit) \in {0, 1} /\ Bit(d, bit) \in {0, 1}
    BY ByteOfBits
  <2> HIDE DEF l, r
  <2>4. QED
    BY <2>1, <2>2, <2>3
<1> HIDE DEF l, r
<1>4. l = r
  BY <1>2, <1>3, SameBits
<1>5. QED
  BY <1>4 DEF l, r

LEMMA XorSame ==
    ASSUME NEW a \in Bytes, NEW b \in Bytes
    PROVE  XorByte[a][b] = 0 <=> a = b
<1>1. 0 \in Bytes /\ \A bit \in Bits : Bit(0, bit) = 0
  BY BytesAre DEF Bits, Bit
<1>2. \A bit \in Bits : Bit(XorByte[a][b], bit) = (Bit(a, bit) + Bit(b, bit)) % 2
  BY XorBits
<1>3. \A bit \in Bits : Bit(a, bit) \in {0, 1} /\ Bit(b, bit) \in {0, 1}
  BY ByteOfBits
<1>4. ASSUME XorByte[a][b] = 0 PROVE a = b
  <2>1. \A bit \in Bits : Bit(a, bit) = Bit(b, bit)
    BY <1>1, <1>2, <1>3, <1>4
  <2>2. QED
    BY <2>1, SameBits
<1>5. ASSUME a = b PROVE XorByte[a][b] = 0
  <2>1. \A bit \in Bits : Bit(XorByte[a][b], bit) = Bit(0, bit)
    BY <1>1, <1>2, <1>3, <1>5
  <2>2. XorByte[a][b] \in Bytes
    BY XorByteType
  <2>3. QED
    BY <1>1, <2>1, <2>2, SameBits
<1>6. QED
  BY <1>4, <1>5

\* The same for words.
LEMMA Xor16Halves ==
    ASSUME NEW a \in Words, NEW b \in Words
    PROVE  /\ Xor16(a, b) \div 256 = XorByte[a \div 256][b \div 256]
           /\ Xor16(a, b) % 256 = XorByte[a % 256][b % 256]
<1>1. XorByte[a \div 256][b \div 256] \in Bytes /\ XorByte[a % 256][b % 256] \in Bytes
  BY Halves, XorByteType
<1>2. QED
  BY <1>1, HalvesOf DEF Xor16

LEMMA Xor16Swap ==
    ASSUME NEW a \in Words, NEW b \in Words, NEW c \in Words, NEW d \in Words
    PROVE  Xor16(Xor16(a, b), Xor16(c, d)) = Xor16(Xor16(a, c), Xor16(b, d))
<1> DEFINE ab == Xor16(a, b)
           cd == Xor16(c, d)
           ac == Xor16(a, c)
           bd == Xor16(b, d)
<1>1. /\ ab \div 256 = XorByte[a \div 256][b \div 256] /\ ab % 256 = XorByte[a % 256][b % 256]
      /\ cd \div 256 = XorByte[c \div 256][d \div 256] /\ cd % 256 = XorByte[c % 256][d % 256]
      /\ ac \div 256 = XorByte[a \div 256][c \div 256] /\ ac % 256 = XorByte[a % 256][c % 256]
      /\ bd \div 256 = XorByte[b \div 256][d \div 256] /\ bd % 256 = XorByte[b % 256][d % 256]
  BY Xor16Halves
<1> HIDE DEF ab, cd, ac, bd
<1>2. /\ Xor16(ab, cd) = 256 * XorByte[ab \div 256][cd \div 256] + XorByte[ab % 256][cd % 256]
      /\ Xor16(ac, bd) = 256 * XorByte[ac \div 256][bd \div 256] + XorByte[ac % 256][bd % 256]
  BY DEF Xor16
<1>3. /\ XorByte[ab \div 256][cd \div 256] = XorByte[ac \div 256][bd \div 256]
      /\ XorByte[ab % 256][cd % 256] = XorByte[ac % 256][bd % 256]
  <2> DEFINE Hi(w) == w \div 256
             Lo(w) == w % 256
  <2>1. /\ Hi(a) \in Bytes /\ Hi(b) \in Bytes /\ Hi(c) \in Bytes /\ Hi(d) \in Bytes
        /\ Lo(a) \in Bytes /\ Lo(b) \in Bytes /\ Lo(c) \in Bytes /\ Lo(d) \in Bytes
    BY Halves
  <2>2. /\ XorByte[Hi(ab)][Hi(cd)] = XorByte[XorByte[Hi(a)][Hi(b)]][XorByte[Hi(c)][Hi(d)]]
        /\ XorByte[Lo(ab)][Lo(cd)] = XorByte[XorByte[Lo(a)][Lo(b)]][XorByte[Lo(c)][Lo(d)]]
        /\ XorByte[Hi(ac)][Hi(bd)] = XorByte[XorByte[Hi(a)][Hi(c)]][XorByte[Hi(b)][Hi(d)]]
        /\ XorByte[Lo(ac)][Lo(bd)] = XorByte[XorByte[Lo(a)][Lo(c)]][XorByte[Lo(b)][Lo(d)]]
    BY <1>1
  <2>3. /\ XorByte[Hi(ab)][Hi(cd)] = XorByte[Hi(ac)][Hi(bd)]
        /\ XorByte[Lo(ab)][Lo(cd)] = XorByte[Lo(ac)][Lo(bd)]
    <3> HIDE DEF Hi, Lo
    <3>1. QED
      BY <2>1, <2>2, XorSwap
  <2>4. QED
    BY <2>3
<1>4. Xor16(ab, cd) = Xor16(ac, bd)
  BY <1>2, <1>3
<1>5. QED
  BY <1>4 DEF ab, cd, ac, bd

LEMMA Xor16Same ==
    ASSUME NEW a \in Words, NEW b \in Words
    PROVE  Xor16(a, b) = 0 <=> a = b
<1> DEFINE hi == XorByte[a \div 256][b \div 256]
           lo == XorByte[a % 256][b % 256]
<1>1. /\ a \div 256 \in Bytes /\ a % 256 \in Bytes /\ a = 256 * (a \div 256) + (a % 256)
      /\ b \div 256 \in Bytes /\ b % 256 \in Bytes /\ b = 256 * (b \div 256) + (b % 256)
  BY Halves
<1>2. (hi = 0 <=> a \div 256 = b \div 256) /\ (lo = 0 <=> a % 256 = b % 256)
  BY <1>1, XorSame
<1>3. hi \in Bytes /\ lo \in Bytes /\ Xor16(a, b) = 256 * hi + lo
  BY <1>1, XorByteType DEF Xor16
<1> HIDE DEF hi, lo
<1>4. Xor16(a, b) = 0 <=> hi = 0 /\ lo = 0
  BY <1>3, BytesAre
<1>5. QED
  BY <1>1, <1>2, <1>4

LEMMA Xor16Nothing ==
    ASSUME NEW a \in Words
    PROVE  Xor16(0, a) = a /\ Xor16(a, 0) = a
<1>1. a \div 256 \in Bytes /\ a % 256 \in Bytes /\ a = 256 * (a \div 256) + (a % 256)
  BY Halves
<1>2. 0 \div 256 = 0 /\ 0 % 256 = 0
  OBVIOUS
<1>3. /\ XorByte[0][a \div 256] = a \div 256 /\ XorByte[0][a % 256] = a % 256
      /\ XorByte[a \div 256][0] = a \div 256 /\ XorByte[a % 256][0] = a % 256
  BY <1>1, XorNothing
<1>4. QED
  BY <1>1, <1>2, <1>3 DEF Xor16

\* A byte with the bits of another shifted up by one, and c below them.
LEMMA BitsOfDoubled ==
    ASSUME NEW a \in Bytes, NEW c \in {0, 1}, NEW e, e = ((2 * a) % 256) + c
    PROVE  /\ e \in Bytes
           /\ Bit(e, 1) = c /\ Bit(e, 2) = Bit(a, 1) /\ Bit(e, 4) = Bit(a, 2) /\ Bit(e, 8) = Bit(a, 4)
           /\ Bit(e, 16) = Bit(a, 8) /\ Bit(e, 32) = Bit(a, 16) /\ Bit(e, 64) = Bit(a, 32)
           /\ Bit(e, 128) = Bit(a, 64)
<1>1. /\ Bit(a, 1) \in {0, 1} /\ Bit(a, 2) \in {0, 1} /\ Bit(a, 4) \in {0, 1} /\ Bit(a, 8) \in {0, 1}
      /\ Bit(a, 16) \in {0, 1} /\ Bit(a, 32) \in {0, 1} /\ Bit(a, 64) \in {0, 1} /\ Bit(a, 128) \in {0, 1}
  BY ByteOfBits DEF Bits
<1>2. a = Bit(a, 1) + 2 * Bit(a, 2) + 4 * Bit(a, 4) + 8 * Bit(a, 8) + 16 * Bit(a, 16)
            + 32 * Bit(a, 32) + 64 * Bit(a, 64) + 128 * Bit(a, 128)
  BY ByteOfBits
<1>3. e = c + 2 * Bit(a, 1) + 4 * Bit(a, 2) + 8 * Bit(a, 4) + 16 * Bit(a, 8)
            + 32 * Bit(a, 16) + 64 * Bit(a, 32) + 128 * Bit(a, 64)
  BY <1>1, <1>2
<1>4. QED
  BY <1>1, <1>3, BitsOfSum

LEMMA DoubledXor ==
    ASSUME NEW a \in Bytes, NEW b \in Bytes, NEW c \in {0, 1}, NEW d \in {0, 1},
           NEW e, e = ((2 * a) % 256) + c, NEW f, f = ((2 * b) % 256) + d
    PROVE  XorByte[e][f] = ((2 * XorByte[a][b]) % 256) + ((c + d) % 2)
<1> DEFINE x == XorByte[a][b]
           g == ((2 * x) % 256) + ((c + d) % 2)
<1>1. x \in Bytes /\ (c + d) % 2 \in {0, 1}
  BY XorByteType
<1>2. /\ e \in Bytes
      /\ Bit(e, 1) = c /\ Bit(e, 2) = Bit(a, 1) /\ Bit(e, 4) = Bit(a, 2) /\ Bit(e, 8) = Bit(a, 4)
      /\ Bit(e, 16) = Bit(a, 8) /\ Bit(e, 32) = Bit(a, 16) /\ Bit(e, 64) = Bit(a, 32)
      /\ Bit(e, 128) = Bit(a, 64)
  BY BitsOfDoubled
<1>3. /\ f \in Bytes
      /\ Bit(f, 1) = d /\ Bit(f, 2) = Bit(b, 1) /\ Bit(f, 4) = Bit(b, 2) /\ Bit(f, 8) = Bit(b, 4)
      /\ Bit(f, 16) = Bit(b, 8) /\ Bit(f, 32) = Bit(b, 16) /\ Bit(f, 64) = Bit(b, 32)
      /\ Bit(f, 128) = Bit(b, 64)
  BY BitsOfDoubled
<1>4. \A bit \in Bits : Bit(x, bit) = (Bit(a, bit) + Bit(b, bit)) % 2
  BY XorBits
<1> HIDE DEF x
<1>5. /\ g \in Bytes
      /\ Bit(g, 1) = (c + d) % 2 /\ Bit(g, 2) = Bit(x, 1) /\ Bit(g, 4) = Bit(x, 2) /\ Bit(g, 8) = Bit(x, 4)
      /\ Bit(g, 16) = Bit(x, 8) /\ Bit(g, 32) = Bit(x, 16) /\ Bit(g, 64) = Bit(x, 32)
      /\ Bit(g, 128) = Bit(x, 64)
  BY <1>1, BitsOfDoubled
<1> HIDE DEF g
<1>6. XorByte[e][f] \in Bytes /\ \A bit \in Bits : Bit(XorByte[e][f], bit) = (Bit(e, bit) + Bit(f, bit)) % 2
  BY <1>2, <1>3, XorByteType, XorBits
<1>7. \A bit \in Bits : Bit(XorByte[e][f], bit) = Bit(g, bit)
  BY <1>2, <1>3, <1>4, <1>5, <1>6 DEF Bits
<1>8. XorByte[e][f] = g
  BY <1>5, <1>6, <1>7, SameBits
<1>9. QED
  BY <1>8 DEF g, x

Doubled(crc) == (2 * crc) % 65536

\* Doubling a word byte by byte.
LEMMA DoubledHalves ==
    ASSUME NEW a \in Words
    PROVE  /\ Doubled(a) \in Words
           /\ Doubled(a) \div 256 = ((2 * (a \div 256)) % 256) + Bit(a % 256, 128)
           /\ Doubled(a) % 256 = (2 * (a % 256)) % 256
           /\ Bit(a % 256, 128) \in {0, 1}
           /\ a >= 32768 <=> Bit(a \div 256, 128) = 1
<1> DEFINE h == a \div 256
           l == a % 256
           p == h \div 128
           q == l \div 128
<1>1. h \in Int /\ 0 <= h /\ h <= 255 /\ l \in Int /\ 0 <= l /\ l <= 255 /\ a = 256 * h + l
  BY Halves, BytesAre
<1> HIDE DEF h, l
<1>2. p \in {0, 1} /\ q \in {0, 1} /\ Bit(h, 128) = p /\ Bit(l, 128) = q
  BY <1>1 DEF Bit
<1>3. 0 <= h - 128 * p /\ h - 128 * p <= 127 /\ 0 <= l - 128 * q /\ l - 128 * q <= 127
  BY <1>1
<1> HIDE DEF p, q
<1>4. (2 * h) % 256 = 2 * h - 256 * p /\ (2 * l) % 256 = 2 * l - 256 * q
  BY <1>1, <1>2, <1>3
<1>5. Doubled(a) = 256 * (2 * h - 256 * p + q) + (2 * l - 256 * q)
  BY <1>1, <1>2, <1>3 DEF Doubled
<1>6. 2 * h - 256 * p + q \in Bytes /\ 2 * l - 256 * q \in Bytes
  BY <1>1, <1>2, <1>3, BytesAre
<1>7. /\ Doubled(a) \in Words
      /\ Doubled(a) \div 256 = 2 * h - 256 * p + q
      /\ Doubled(a) % 256 = 2 * l - 256 * q
  BY <1>5, <1>6, HalvesOf
<1>8. a >= 32768 <=> p = 1
  BY <1>1, <1>2, <1>3
<1>9. QED
  BY <1>2, <1>4, <1>7, <1>8 DEF h, l

LEMMA DoubledXor16 ==
    ASSUME NEW a \in Words, NEW b \in Words
    PROVE  Doubled(Xor16(a, b)) = Xor16(Doubled(a), Doubled(b))
<1> DEFINE x == Xor16(a, b)
           ha == a \div 256
           la == a % 256
           hb == b \div 256
           lb == b % 256
           hx == x \div 256
           lx == x % 256
           ca == Bit(la, 128)
           cb == Bit(lb, 128)
           cx == Bit(lx, 128)
<1>1. ha \in Bytes /\ la \in Bytes /\ hb \in Bytes /\ lb \in Bytes
  BY Halves
<1>2. x \in Words /\ hx = XorByte[ha][hb] /\ lx = XorByte[la][lb]
  BY Xor16Type, Xor16Halves
<1>3. /\ Doubled(a) \in Words /\ Doubled(a) \div 256 = ((2 * ha) % 256) + ca
      /\ Doubled(a) % 256 = (2 * la) % 256 /\ ca \in {0, 1}
      /\ Doubled(b) \in Words /\ Doubled(b) \div 256 = ((2 * hb) % 256) + cb
      /\ Doubled(b) % 256 = (2 * lb) % 256 /\ cb \in {0, 1}
  BY DoubledHalves
<1>4. /\ Doubled(x) \in Words /\ Doubled(x) \div 256 = ((2 * hx) % 256) + cx
      /\ Doubled(x) % 256 = (2 * lx) % 256
  <2> HIDE DEF x
  <2>1. QED
    BY <1>2, DoubledHalves
<1> HIDE DEF x, ha, la, hb, lb, hx, lx
<1>5. cx = (ca + cb) % 2
  BY <1>1, <1>2, XorBits DEF Bits
<1> HIDE DEF ca, cb, cx
<1>6. XorByte[Doubled(a) \div 256][Doubled(b) \div 256] = ((2 * hx) % 256) + cx
  <2> DEFINE e == Doubled(a) \div 256
             f == Doubled(b) \div 256
  <2>1. e = ((2 * ha) % 256) + ca /\ f = ((2 * hb) % 256) + cb /\ ca \in {0, 1} /\ cb \in {0, 1}
    BY <1>3
  <2> HIDE DEF e, f
  <2>2. XorByte[e][f] = ((2 * XorByte[ha][hb]) % 256) + ((ca + cb) % 2)
    BY <2>1, <1>1, DoubledXor
  <2>3. QED
    BY <2>2, <1>2, <1>5 DEF e, f
<1>7. XorByte[Doubled(a) % 256][Doubled(b) % 256] = (2 * lx) % 256
  <2> DEFINE e == Doubled(a) % 256
             f == Doubled(b) % 256
             c == 0
  <2>1. la \in Int /\ lb \in Int /\ lx \in Int
    BY <1>1, <1>2, XorByteType, BytesAre
  <2>2. e = ((2 * la) % 256) + c /\ f = ((2 * lb) % 256) + c /\ c \in {0, 1}
    BY <1>3, <2>1
  <2> HIDE DEF e, f, c
  <2>3. XorByte[e][f] = ((2 * XorByte[la][lb]) % 256) + ((c + c) % 2)
    BY <2>2, <1>1, DoubledXor
  <2>4. QED
    BY <2>1, <2>3, <1>2 DEF e, f, c
<1>8. Xor16(Doubled(a), Doubled(b)) = 256 * (Doubled(x) \div 256) + (Doubled(x) % 256)
  BY <1>4, <1>6, <1>7 DEF Xor16
<1>9. Doubled(x) = 256 * (Doubled(x) \div 256) + (Doubled(x) % 256)
  BY <1>4, Halves
<1>10. QED
  BY <1>8, <1>9 DEF x

\* What the inner loop exclusive-ors to a word shifted by one.
Feedback(crc) == IF crc >= 32768 THEN Poly ELSE 0

LEMMA ShiftOutParts ==
    ASSUME NEW a \in Words
    PROVE  /\ ShiftOut(a) = Xor16(Doubled(a), Feedback(a))
           /\ Doubled(a) \in Words /\ Feedback(a) \in Words
           /\ a < 32768 => ShiftOut(a) = 2 * a
<1>1. a \in Int /\ 0 <= a /\ a <= 65535
  BY WordsAre
<1>2. Doubled(a) \in Words /\ (a < 32768 => Doubled(a) = 2 * a)
  BY <1>1, WordsAre DEF Doubled
<1>3. Feedback(a) \in Words
  BY WordsAre DEF Feedback, Poly
<1>4. CASE a >= 32768
  BY <1>1, <1>2, <1>3, <1>4 DEF ShiftOut, Feedback, Doubled
<1>5. CASE a < 32768
  <2>1. Xor16(Doubled(a), 0) = 2 * a
    BY <1>2, <1>5, Xor16Nothing
  <2>2. Feedback(a) = 0 /\ ShiftOut(a) = 2 * a
    BY <1>1, <1>5 DEF Feedback, ShiftOut
  <2>3. QED
    BY <1>2, <1>3, <2>1, <2>2
<1>6. QED
  BY <1>1, <1>4, <1>5

LEMMA ShiftOutXor ==
    ASSUME NEW a \in Words, NEW b \in Words
    PROVE  ShiftOut(Xor16(a, b)) = Xor16(ShiftOut(a), ShiftOut(b))
<1> DEFINE x == Xor16(a, b)
<1>1. x \in Words
  BY Xor16Type
<1>2. Feedback(x) = Xor16(Feedback(a), Feedback(b))
  <2>1. x \div 256 = XorByte[a \div 256][b \div 256] /\ a \div 256 \in Bytes /\ b \div 256 \in Bytes
    BY Xor16Halves, Halves
  <2>2. Bit(x \div 256, 128) = (Bit(a \div 256, 128) + Bit(b \div 256, 128)) % 2
    BY <2>1, XorBits DEF Bits
  <2>3. Bit(a \div 256, 128) \in {0, 1} /\ Bit(b \div 256, 128) \in {0, 1}
    BY <2>1, ByteOfBits DEF Bits
  <2>4. /\ a >= 32768 <=> Bit(a \div 256, 128) = 1
        /\ b >= 32768 <=> Bit(b \div 256, 128) = 1
    BY DoubledHalves
  <2> HIDE DEF x
  <2>5. x >= 32768 <=> Bit(x \div 256, 128) = 1
    BY <1>1, DoubledHalves
  <2>6. x >= 32768 <=> ~(a >= 32768 <=> b >= 32768)
    BY <2>2, <2>3, <2>4, <2>5
  <2>7. Poly \in Words /\ 0 \in Words
    BY WordsAre DEF Poly
  <2>8. Xor16(Poly, Poly) = 0 /\ Xor16(0, 0) = 0 /\ Xor16(0, Poly) = Poly /\ Xor16(Poly, 0) = Poly
    BY <2>7, Xor16Same, Xor16Nothing
  <2>9. CASE a >= 32768 /\ b >= 32768
    BY <2>6, <2>8, <2>9 DEF Feedback
  <2>10. CASE a >= 32768 /\ ~ b >= 32768
    BY <2>6, <2>8, <2>10 DEF Feedback
  <2>11. CASE ~ a >= 32768 /\ b >= 32768
    BY <2>6, <2>8, <2>11 DEF Feedback
  <2>12. CASE ~ a >= 32768 /\ ~ b >= 32768
    BY <2>6, <2>8, <2>12 DEF Feedback
  <2>13. QED
    BY <2>9, <2>10, <2>11, <2>12
<1>3. Doubled(x) = Xor16(Doubled(a), Doubled(b))
  BY DoubledXor16
<1> HIDE DEF x
<1>4. /\ ShiftOut(x) = Xor16(Doubled(x), Feedback(x))
      /\ ShiftOut(a) = Xor16(Doubled(a), Feedback(a)) /\ Doubled(a) \in Words /\ Feedback(a) \in Words
      /\ ShiftOut(b) = Xor16(Doubled(b), Feedback(b)) /\ Doubled(b) \in Words /\ Feedback(b) \in Words
  BY <1>1, ShiftOutParts
<1>5. ShiftOut(x) = Xor16(ShiftOut(a), ShiftOut(b))
  BY <1>2, <1>3, <1>4, Xor16Swap
<1>6. QED
  BY <1>5 DEF x

LEMMA ShiftOutByteXor ==
    ASSUME NEW a \in Words, NEW b \in Words
    PROVE  ShiftOutByte[Xor16(a, b)] = Xor16(ShiftOutByte[a], ShiftOutByte[b])
<1> DEFINE S1(c) == ShiftOut(c)
           S2(c) == S1(S1(c))
           S4(c) == S2(S2(c))
<1>1. ASSUME NEW s \in Words, NEW t \in Words
      PROVE  S2(s) \in Words /\ S2(Xor16(s, t)) = Xor16(S2(s), S2(t))
  BY ShiftOutType, ShiftOutXor
<1> HIDE DEF S2
<1>2. ASSUME NEW s \in Words, NEW t \in Words
      PROVE  S4(s) \in Words /\ S4(Xor16(s, t)) = Xor16(S4(s), S4(t))
  BY <1>1
<1> HIDE DEF S4
<1>3. S4(S4(Xor16(a, b))) = Xor16(S4(S4(a)), S4(S4(b)))
  BY <1>2
<1>4. \A c \in Words : ShiftOutByte[c] = S4(S4(c))
  BY DEF ShiftOutByte, S4, S2
<1>5. Xor16(a, b) \in Words
  BY Xor16Type
<1>6. QED
  BY <1>3, <1>4, <1>5

LEMMA CrcStepXor ==
    ASSUME NEW c \in Words, NEW d \in Words, NEW a \in Bytes, NEW b \in Bytes
    PROVE  CrcStep(Xor16(c, d), XorByte[a][b]) = Xor16(CrcStep(c, a), CrcStep(d, b))
<1> DEFINE x == XorByte[a][b]
<1>1. x \in Bytes /\ a \in Bytes /\ b \in Bytes /\ 0 \in Bytes
  BY XorByteType, BytesAre
<1>2. /\ 256 * x \in Words /\ 256 * a \in Words /\ 256 * b \in Words
      /\ (256 * a) \div 256 = a /\ (256 * a) % 256 = 0
      /\ (256 * b) \div 256 = b /\ (256 * b) % 256 = 0
  BY <1>1, BytesAre, WordsAre
<1>3. 256 * x = Xor16(256 * a, 256 * b)
  <2>1. XorByte[0][0] = 0
    BY <1>1, XorNothing
  <2>2. Xor16(256 * a, 256 * b) = 256 * x + 0
    BY <1>2, <2>1, Zenon DEF Xor16
  <2>3. QED
    BY <1>1, <2>2, BytesAre
<1> HIDE DEF x
<1>4. Xor16(Xor16(c, d), 256 * x) = Xor16(Xor16(c, 256 * a), Xor16(d, 256 * b))
  BY <1>2, <1>3, Xor16Swap
<1>5. Xor16(c, 256 * a) \in Words /\ Xor16(d, 256 * b) \in Words
  BY <1>2, Xor16Type
<1>6. CrcStep(Xor16(c, d), x) = Xor16(CrcStep(c, a), CrcStep(d, b))
  BY <1>4, <1>5, ShiftOutByteXor DEF CrcStep
<1>7. QED
  BY <1>6 DEF x

\* The polynomial is odd, so an even word comes from one that was just doubled.
LEMMA EvenWasDoubled ==
    ASSUME NEW a \in Words, ShiftOut(a) % 2 = 0
    PROVE  a < 32768 /\ ShiftOut(a) = 2 * a
<1> DEFINE lo == Doubled(a) % 256
<1>1. /\ Doubled(a) \in Words /\ lo \in Bytes /\ a \in Int
      /\ Poly \in Words /\ Poly % 256 = 137 /\ 137 \in Bytes
  BY ShiftOutParts, Halves, WordsAre, BytesAre DEF Poly
<1>2. ASSUME a >= 32768 PROVE FALSE
  <2>1. ShiftOut(a) = Xor16(Doubled(a), Poly)
    BY <1>2, ShiftOutParts DEF Feedback
  <2>2. ShiftOut(a) % 256 = XorByte[lo][137]
    <3>1. Xor16(Doubled(a), Poly) % 256 = XorByte[Doubled(a) % 256][Poly % 256]
      <4>1. Doubled(a) \in Words /\ Poly \in Words
        BY <1>1
      <4>2. QED
        BY <4>1, Xor16Halves
    <3>2. QED
      BY <3>1, <2>1, <1>1
  <2>3. Bit(XorByte[lo][137], 1) = (Bit(lo, 1) + Bit(137, 1)) % 2
    BY <1>1, XorBits DEF Bits
  <2>4. lo % 2 = 0
    BY <1>1, WordsAre DEF Doubled
  <2> HIDE DEF lo
  <2>5. Bit(XorByte[lo][137], 1) = 1
    BY <1>1, <2>3, <2>4, BytesAre DEF Bit
  <2>6. XorByte[lo][137] \in Int /\ ShiftOut(a) \in Int
    BY <1>1, XorByteType, BytesAre, ShiftOutType, WordsAre
  <2>7. QED
    BY <2>2, <2>5, <2>6 DEF Bit
<1>3. a < 32768
  BY <1>1, <1>2
<1>4. QED
  BY <1>3, ShiftOutParts

LEMMA ShiftOutByteOfSome ==
    ASSUME NEW a \in Words, ShiftOutByte[a] = 0
    PROVE  a = 0
<1> DEFINE S1(c) == ShiftOut(c)
           S2(c) == S1(S1(c))
           S4(c) == S2(S2(c))
<1>1. ASSUME NEW c \in Words PROVE S1(c) \in Words /\ (S1(c) = 0 => c = 0)
  BY ShiftOutType, EvenWasDoubled, WordsAre
<1> HIDE DEF S1
<1>2. ASSUME NEW c \in Words PROVE S2(c) \in Words /\ (S2(c) = 0 => c = 0)
  BY <1>1
<1> HIDE DEF S2
<1>3. ASSUME NEW c \in Words PROVE S4(c) \in Words /\ (S4(c) = 0 => c = 0)
  BY <1>2
<1> HIDE DEF S4
<1>4. ShiftOutByte[a] = S4(S4(a))
  BY DEF ShiftOutByte, S4, S2, S1
<1>5. QED
  BY <1>3, <1>4

\* The low byte of what a byte in front becomes tells it.
LEMMA LowByteTells ==
    ASSUME NEW x \in Bytes, ShiftOutByte[256 * x] % 256 = 0
    PROVE  x = 0
<1> DEFINE s0 == 256 * x
           s1 == ShiftOut(s0)
           s2 == ShiftOut(s1)
           s3 == ShiftOut(s2)
           s4 == ShiftOut(s3)
           s5 == ShiftOut(s4)
           s6 == ShiftOut(s5)
           s7 == ShiftOut(s6)
           s8 == ShiftOut(s7)
<1>1. s0 \in Words
  BY BytesAre, WordsAre
<1>2. s8 % 256 = 0
  BY <1>1 DEF ShiftOutByte
<1> HIDE DEF s0
<1>3. s1 \in Words
  BY <1>1, ShiftOutType
<1>4. s1 % 2 = 0 => s0 < 32768 /\ s1 = 2 * s0
  BY <1>1, EvenWasDoubled
<1> HIDE DEF s1
<1>5. s2 \in Words /\ (s2 % 2 = 0 => s1 < 32768 /\ s2 = 2 * s1)
  BY <1>3, ShiftOutType, EvenWasDoubled
<1> HIDE DEF s2
<1>6. s3 \in Words /\ (s3 % 2 = 0 => s2 < 32768 /\ s3 = 2 * s2)
  BY <1>5, ShiftOutType, EvenWasDoubled
<1> HIDE DEF s3
<1>7. s4 \in Words /\ (s4 % 2 = 0 => s3 < 32768 /\ s4 = 2 * s3)
  BY <1>6, ShiftOutType, EvenWasDoubled
<1> HIDE DEF s4
<1>8. s5 \in Words /\ (s5 % 2 = 0 => s4 < 32768 /\ s5 = 2 * s4)
  BY <1>7, ShiftOutType, EvenWasDoubled
<1> HIDE DEF s5
<1>9. s6 \in Words /\ (s6 % 2 = 0 => s5 < 32768 /\ s6 = 2 * s5)
  BY <1>8, ShiftOutType, EvenWasDoubled
<1> HIDE DEF s6
<1>10. s7 \in Words /\ (s7 % 2 = 0 => s6 < 32768 /\ s7 = 2 * s6)
  BY <1>9, ShiftOutType, EvenWasDoubled
<1> HIDE DEF s7
<1>11. s8 \in Words /\ (s8 % 2 = 0 => s7 < 32768 /\ s8 = 2 * s7)
  BY <1>10, ShiftOutType, EvenWasDoubled
<1> HIDE DEF s8
<1>12. /\ s0 \in Int /\ s1 \in Int /\ s2 \in Int /\ s3 \in Int /\ s4 \in Int /\ s5 \in Int
       /\ s6 \in Int /\ s7 \in Int /\ s8 \in Int
  BY <1>1, <1>3, <1>5, <1>6, <1>7, <1>8, <1>9, <1>10, <1>11, WordsAre
<1>13. s8 = 2 * s7 /\ s7 < 32768 /\ s7 % 128 = 0
  BY <1>2, <1>11, <1>12
<1>14. s7 = 2 * s6 /\ s6 % 64 = 0
  BY <1>10, <1>12, <1>13
<1>15. s6 = 2 * s5 /\ s5 % 32 = 0
  BY <1>9, <1>12, <1>14
<1>16. s5 = 2 * s4 /\ s4 % 16 = 0
  BY <1>8, <1>12, <1>15
<1>17. s4 = 2 * s3 /\ s3 % 8 = 0
  BY <1>7, <1>12, <1>16
<1>18. s3 = 2 * s2 /\ s2 % 4 = 0
  BY <1>6, <1>12, <1>17
<1>19. s2 = 2 * s1 /\ s1 % 2 = 0
  BY <1>5, <1>12, <1>18
<1>20. s1 = 2 * s0
  BY <1>4, <1>19
<1>21. 128 * s0 < 32768
  BY <1>12, <1>13, <1>14, <1>15, <1>16, <1>17, <1>18, <1>19, <1>20
<1>22. QED
  BY <1>12, <1>21, BytesAre DEF s0

LEMMA CrcStepFromNothing ==
    ASSUME NEW x \in Bytes
    PROVE  CrcStep(0, x) = ShiftOutByte[256 * x] /\ 256 * x \in Words
<1>1. 256 * x \in Words
  BY BytesAre, WordsAre
<1>2. QED
  BY <1>1, Xor16Nothing DEF CrcStep

\* What is left of a difference of one byte, of two, and of what follows equal.
LEMMA OneByteTells ==
    ASSUME NEW x \in Bytes, CrcStep(0, x) = 0
    PROVE  x = 0
BY CrcStepFromNothing, LowByteTells

LEMMA TwoBytesTell ==
    ASSUME NEW x \in Bytes, NEW y \in Bytes, CrcStep(CrcStep(0, x), y) = 0
    PROVE  x = 0 /\ y = 0
<1> DEFINE d == CrcStep(0, x)
<1>1. d \in Words /\ 256 * y \in Words /\ 0 \in Words
  BY CrcStepType, BytesAre, WordsAre
<1>2. d = ShiftOutByte[256 * x]
  BY CrcStepFromNothing
<1> HIDE DEF d
<1>3. ShiftOutByte[Xor16(d, 256 * y)] = 0
  BY DEF CrcStep, d
<1>4. Xor16(d, 256 * y) = 0
  BY <1>1, <1>3, Xor16Type, ShiftOutByteOfSome
<1>5. d = 256 * y
  BY <1>1, <1>4, Xor16Same
<1>6. d % 256 = 0
  BY <1>5, BytesAre
<1>7. x = 0
  BY <1>2, <1>6, LowByteTells
<1>8. d = 0
  BY <1>7, CrcStepOfNothing DEF d
<1>9. QED
  BY <1>5, <1>7, <1>8, BytesAre

LEMMA DifferenceStays ==
    ASSUME NEW d \in Words, d # 0
    PROVE  CrcStep(d, 0) # 0
<1>1. Xor16(d, 256 * 0) = d
  BY Xor16Nothing
<1>2. QED
  BY <1>1, ShiftOutByteOfSome DEF CrcStep

\* Sequences of bytes that differ, and in nothing but two neighbours, have
\* different CRCs, however long they are.
THEOREM CrcNoticesNeighbours ==
    ASSUME NEW p \in Seq(Bytes), NEW q \in Seq(Bytes), Len(p) = Len(q), p # q,
           NEW i \in 1..Len(p), \A j \in 1..Len(p) : j # i /\ j # i + 1 => p[j] = q[j]
    PROVE  Crc(p) # Crc(q)
<1> DEFINE N == Len(p)
           X(n) == XorByte[p[n]][q[n]]
<1>1. PICK c : IsCrcOf(c, p) /\ Crc(p) = c[N]
  BY CrcByteByByte
<1>2. PICK d : IsCrcOf(d, q) /\ Crc(q) = d[N]
  BY CrcByteByByte
<1> DEFINE D(n) == Xor16(c[n], d[n])
<1>3. N \in Nat /\ Len(q) = N /\ i \in 1..N /\ \A n \in 1..N : p[n] \in Bytes /\ q[n] \in Bytes
  OBVIOUS
<1>4. \A n \in 0..N : c[n] \in Words /\ d[n] \in Words
  BY <1>1, <1>2, <1>3 DEF IsCrcOf
<1>5. ASSUME NEW n \in 0..N PROVE D(n) \in Words /\ (D(n) = 0 <=> c[n] = d[n])
  BY <1>4, Xor16Type, Xor16Same
<1>6. ASSUME NEW n \in 1..N PROVE X(n) \in Bytes /\ (X(n) = 0 <=> p[n] = q[n])
  BY <1>3, XorByteType, XorSame
<1>7. D(0) = 0
  <2>1. c[0] = 0 /\ d[0] = 0 /\ 0 \in 0..N
    BY <1>1, <1>2, <1>3 DEF IsCrcOf
  <2>2. QED
    BY <2>1, <1>5
<1>8. ASSUME NEW n \in 1..N PROVE D(n) = CrcStep(D(n - 1), X(n)) /\ n - 1 \in 0..N
  <2>1. n - 1 \in 0..N
    BY <1>3
  <2>2. c[n] = CrcStep(c[n - 1], p[n]) /\ d[n] = CrcStep(d[n - 1], q[n])
    BY <1>1, <1>2, <1>3 DEF IsCrcOf
  <2>3. QED
    BY <2>1, <2>2, <1>3, <1>4, CrcStepXor
<1>9. \A n \in 1..N : n # i /\ n # i + 1 => X(n) = 0
  BY <1>3, <1>6
<1>10. \E n \in {i, i + 1} : n \in 1..N /\ X(n) # 0
  <2>1. PICK n \in 1..N : p[n] # q[n]
    BY <1>3
  <2>2. n \in {i, i + 1}
    BY <2>1, <1>3
  <2>3. QED
    BY <2>1, <2>2, <1>6
<1> HIDE DEF N, X, D
<1>11. D(i - 1) = 0
  <2> DEFINE P == {n \in 0..N : n < i => D(n) = 0}
  <2>1. 0 \in P
    BY <1>3, <1>7
  <2>2. ASSUME NEW n \in 1..N, n - 1 \in P PROVE n \in P
    <3>1. n < i => n - 1 < i /\ n # i /\ n # i + 1 /\ n \in 0..N /\ n \in 1..N
      BY <1>3
    <3>2. n < i => D(n - 1) = 0 /\ X(n) = 0 /\ D(n) = CrcStep(D(n - 1), X(n))
      BY <2>2, <3>1, <1>8, <1>9
    <3>3. n < i => D(n) = 0
      BY <3>2, CrcStepOfNothing
    <3>4. QED
      BY <3>3, <1>3
  <2> HIDE DEF P
  <2>3. \A n \in 0..N : n \in P
    BY <1>3, <2>1, <2>2, Induction
  <2>4. i - 1 \in 0..N /\ i - 1 < i
    BY <1>3
  <2>5. QED
    BY <2>3, <2>4 DEF P
<1>12. D(i) = CrcStep(0, X(i)) /\ X(i) \in Bytes
  BY <1>3, <1>6, <1>8, <1>11
<1>13. PICK m \in i..N : D(m) # 0 /\ \A n \in 1..N : n > m => X(n) = 0
  <2>1. CASE i = N
    <3>1. X(i) # 0
      BY <1>3, <1>10, <2>1
    <3>2. D(i) # 0
      BY <1>12, <3>1, OneByteTells
    <3>3. i \in i..N /\ \A n \in 1..N : ~ n > i
      BY <1>3, <2>1
    <3>4. QED
      BY <3>2, <3>3
  <2>2. CASE i # N
    <3>1. i + 1 \in 1..N /\ i + 1 \in i..N /\ i + 1 - 1 = i
      BY <1>3, <2>2
    <3>2. D(i + 1) = CrcStep(D(i), X(i + 1)) /\ X(i + 1) \in Bytes
      BY <3>1, <1>6, <1>8
    <3>3. X(i) # 0 \/ X(i + 1) # 0
      BY <1>10
    <3>4. D(i + 1) # 0
      BY <1>12, <3>2, <3>3, TwoBytesTell
    <3>5. \A n \in 1..N : n > i + 1 => X(n) = 0
      BY <1>3, <1>9
    <3>6. QED
      BY <3>1, <3>4, <3>5
  <2>3. QED
    BY <2>1, <2>2
<1>14. D(N) # 0
  <2> DEFINE P == {n \in 0..N : n >= m => D(n) # 0}
  <2>1. 0 \in P
    BY <1>3, <1>13
  <2>2. ASSUME NEW n \in 1..N, n - 1 \in P PROVE n \in P
    <3>1. n \in 0..N /\ n - 1 \in 0..N /\ m \in Int
      BY <1>3, <1>13
    <3>2. CASE n > m
      <4>1. D(n - 1) # 0 /\ X(n) = 0
        BY <2>2, <3>1, <3>2, <1>13
      <4>2. D(n) = CrcStep(D(n - 1), 0) /\ D(n - 1) \in Words
        BY <4>1, <3>1, <1>5, <1>8
      <4>3. D(n) # 0
        BY <4>1, <4>2, DifferenceStays
      <4>4. QED
        BY <4>3, <3>1
    <3>3. CASE n = m
      BY <3>1, <3>3, <1>13
    <3>4. CASE n < m
      BY <3>1, <3>4
    <3>5. QED
      BY <3>1, <3>2, <3>3, <3>4
  <2> HIDE DEF P
  <2>3. \A n \in 0..N : n \in P
    BY <1>3, <2>1, <2>2, Induction
  <2>4. N \in 0..N /\ N >= m
    BY <1>3, <1>13
  <2>5. QED
    BY <2>3, <2>4 DEF P
<1>15. N \in 0..N
  BY <1>3
<1>16. QED
  BY <1>1, <1>2, <1>5, <1>14, <1>15

(***************************************************************************)
(* The bytes of values                                                     *)
(***************************************************************************)

ValueSet == NumberValues \cup TextValues

LEMMA Int32sAre == \A k : k \in Int32s <=> k \in Int /\ -2147483648 <= k /\ k <= 2147483647
<1>1. MaxInt32 \in Int
  BY DEF MaxInt32
<1>2. \A k : k \in Int32s <=> k \in Int /\ -MaxInt32 - 1 <= k /\ k <= MaxInt32
  BY <1>1 DEF Int32s
<1>3. QED
  BY <1>2 DEF MaxInt32

LEMMA Concat ==
    ASSUME NEW s \in Seq(Bytes), NEW t \in Seq(Bytes), NEW r, r = s \o t
    PROVE  /\ r \in Seq(Bytes)
           /\ Len(r) = Len(s) + Len(t)
           /\ \A i \in 1..Len(s) : r[i] = s[i]
           /\ \A i \in 1..Len(t) : r[Len(s) + i] = t[i]
OBVIOUS

LEMMA Concat3 ==
    ASSUME NEW s \in Seq(Bytes), NEW t \in Seq(Bytes), NEW u \in Seq(Bytes),
           NEW r, r = s \o t \o u
    PROVE  /\ r \in Seq(Bytes)
           /\ Len(r) = Len(s) + Len(t) + Len(u)
           /\ \A i \in 1..Len(s) : r[i] = s[i]
           /\ \A i \in 1..Len(t) : r[Len(s) + i] = t[i]
           /\ \A i \in 1..Len(u) : r[Len(s) + Len(t) + i] = u[i]
<1> DEFINE q == s \o t
<1>1. /\ q \in Seq(Bytes) /\ Len(q) = Len(s) + Len(t)
      /\ \A i \in 1..Len(s) : q[i] = s[i]
      /\ \A i \in 1..Len(t) : q[Len(s) + i] = t[i]
  BY Concat
<1>2. r = q \o u
  OBVIOUS
<1> HIDE DEF q
<1>3. /\ r \in Seq(Bytes) /\ Len(r) = Len(q) + Len(u)
      /\ \A i \in 1..Len(q) : r[i] = q[i]
      /\ \A i \in 1..Len(u) : r[Len(q) + i] = u[i]
  <2>1. q \in Seq(Bytes)
    BY <1>1
  <2>2. QED
    BY <2>1, <1>2, Concat
<1>4. Len(s) \in Nat /\ Len(t) \in Nat /\ Len(u) \in Nat
  OBVIOUS
<1>5. QED
  BY <1>1, <1>3, <1>4

LEMMA Int32BytesType ==
    ASSUME NEW n \in Int
    PROVE  /\ Int32Bytes(n) \in Seq(Bytes)
           /\ Len(Int32Bytes(n)) = 4
           /\ Int32Bytes(n)[1] = (n \div 16777216) % 256
           /\ Int32Bytes(n)[2] = (n \div 65536) % 256
           /\ Int32Bytes(n)[3] = (n \div 256) % 256
           /\ Int32Bytes(n)[4] = n % 256
BY BytesAre DEF Int32Bytes

LEMMA Int32BytesAreFour ==
    ASSUME NEW n \in Int
    PROVE  Int32Bytes(n) \in Seq(Bytes) /\ Len(Int32Bytes(n)) = 4
BY Int32BytesType

LEMMA EncodeByKind ==
    ASSUME NEW v
    PROVE  /\ v.tag = "num1" => Encode(v) = <<v.id, 1>> \o Int32Bytes(v.val) \o <<255>>
           /\ v.tag = "num3" =>
                Encode(v) = <<v.id, 3, 0, 0, 0, 0, 255>> \o Int32Bytes(v.val) \o <<255>>
           /\ v.tag = "text" => Encode(v) = <<v.id, 4, 0, 0, 0, 0, 255>> \o v.val \o <<0, 255>>
<1>1. "num1" # "num3" /\ "num1" # "text" /\ "num3" # "text"
  OBVIOUS
<1>2. QED
  BY <1>1, Zenon DEF Encode

LEMMA EncodeNum1 ==
    ASSUME NEW v \in NumberValues, v.tag = "num1"
    PROVE  /\ Encode(v) \in Seq(Bytes)
           /\ Len(Encode(v)) = 7
           /\ Encode(v)[1] = v.id /\ Encode(v)[2] = 1 /\ Encode(v)[7] = 255
           /\ \A i \in 1..4 : Encode(v)[i + 2] = Int32Bytes(v.val)[i]
<1> DEFINE head == <<v.id, 1>>
           body == Int32Bytes(v.val)
           last == <<255>>
           e == Encode(v)
<1>1. v.id \in Bytes /\ v.val \in Int
  BY Int32sAre DEF NumberValues
<1>2. /\ head \in Seq(Bytes) /\ Len(head) = 2 /\ head[1] = v.id /\ head[2] = 1
      /\ last \in Seq(Bytes) /\ Len(last) = 1 /\ last[1] = 255
      /\ body \in Seq(Bytes) /\ Len(body) = 4
  <2>1. body \in Seq(Bytes) /\ Len(body) = 4
    BY <1>1, Int32BytesAreFour
  <2> HIDE DEF body
  <2>2. QED
    BY <1>1, <2>1, BytesAre
<1>3. e = head \o body \o last
  BY EncodeByKind
<1> HIDE DEF head, body, last, e
<1>4. /\ e \in Seq(Bytes) /\ Len(e) = Len(head) + Len(body) + Len(last)
      /\ \A i \in 1..Len(head) : e[i] = head[i]
      /\ \A i \in 1..Len(body) : e[Len(head) + i] = body[i]
      /\ \A i \in 1..Len(last) : e[Len(head) + Len(body) + i] = last[i]
  <2>1. head \in Seq(Bytes) /\ body \in Seq(Bytes) /\ last \in Seq(Bytes)
    BY <1>2
  <2>2. QED
    BY <2>1, <1>3, Concat3
<1>5. e \in Seq(Bytes) /\ Len(e) = 7 /\ e[1] = v.id /\ e[2] = 1 /\ e[7] = 255
      /\ \A i \in 1..4 : e[i + 2] = body[i]
  BY <1>2, <1>4
<1>6. QED
  BY <1>5 DEF e, body

LEMMA EncodeNum3 ==
    ASSUME NEW v \in NumberValues, v.tag = "num3"
    PROVE  /\ Encode(v) \in Seq(Bytes)
           /\ Len(Encode(v)) = 12
           /\ Encode(v)[1] = v.id /\ Encode(v)[2] = 3
           /\ Encode(v)[7] = 255 /\ Encode(v)[12] = 255
           /\ \A i \in 3..6 : Encode(v)[i] = 0
           /\ \A i \in 1..4 : Encode(v)[i + 7] = Int32Bytes(v.val)[i]
<1> DEFINE head == <<v.id, 3, 0, 0, 0, 0, 255>>
           body == Int32Bytes(v.val)
           last == <<255>>
           e == Encode(v)
<1>1. v.id \in Bytes /\ v.val \in Int
  BY Int32sAre DEF NumberValues
<1>2. /\ head \in Seq(Bytes) /\ Len(head) = 7 /\ head[1] = v.id /\ head[2] = 3 /\ head[7] = 255
      /\ \A i \in 3..6 : head[i] = 0
      /\ last \in Seq(Bytes) /\ Len(last) = 1 /\ last[1] = 255
      /\ body \in Seq(Bytes) /\ Len(body) = 4
  <2>1. body \in Seq(Bytes) /\ Len(body) = 4
    BY <1>1, Int32BytesAreFour
  <2> HIDE DEF body
  <2>2. QED
    BY <1>1, <2>1, BytesAre
<1>3. e = head \o body \o last
  BY EncodeByKind
<1> HIDE DEF head, body, last, e
<1>4. /\ e \in Seq(Bytes) /\ Len(e) = Len(head) + Len(body) + Len(last)
      /\ \A i \in 1..Len(head) : e[i] = head[i]
      /\ \A i \in 1..Len(body) : e[Len(head) + i] = body[i]
      /\ \A i \in 1..Len(last) : e[Len(head) + Len(body) + i] = last[i]
  <2>1. head \in Seq(Bytes) /\ body \in Seq(Bytes) /\ last \in Seq(Bytes)
    BY <1>2
  <2>2. QED
    BY <2>1, <1>3, Concat3
<1>5. /\ e \in Seq(Bytes) /\ Len(e) = 12 /\ e[1] = v.id /\ e[2] = 3 /\ e[7] = 255 /\ e[12] = 255
      /\ \A i \in 3..6 : e[i] = 0
      /\ \A i \in 1..4 : e[i + 7] = body[i]
  BY <1>2, <1>4
<1>6. QED
  BY <1>5 DEF e, body

LEMMA EncodeText ==
    ASSUME NEW v \in TextValues
    PROVE  /\ Encode(v) \in Seq(Bytes)
           /\ Len(Encode(v)) = Len(v.val) + 9
           /\ Encode(v)[1] = v.id /\ Encode(v)[2] = 4 /\ Encode(v)[7] = 255
           /\ \A i \in 1..Len(v.val) : Encode(v)[i + 7] = v.val[i]
           /\ Encode(v)[Len(v.val) + 8] = 0
           /\ Encode(v)[Len(v.val) + 9] = 255
<1> DEFINE head == <<v.id, 4, 0, 0, 0, 0, 255>>
           body == v.val
           last == <<0, 255>>
           e == Encode(v)
<1>1. v.id \in Bytes /\ body \in Seq(Bytes) /\ Len(body) \in Nat
  BY DEF TextValues, Bytes
<1>2. /\ head \in Seq(Bytes) /\ Len(head) = 7 /\ head[1] = v.id /\ head[2] = 4 /\ head[7] = 255
      /\ last \in Seq(Bytes) /\ Len(last) = 2 /\ last[1] = 0 /\ last[2] = 255
  BY <1>1, BytesAre
<1>3. e = head \o body \o last
  BY EncodeByKind DEF TextValues
<1> HIDE DEF head, body, last, e
<1>4. /\ e \in Seq(Bytes) /\ Len(e) = Len(head) + Len(body) + Len(last)
      /\ \A i \in 1..Len(head) : e[i] = head[i]
      /\ \A i \in 1..Len(body) : e[Len(head) + i] = body[i]
      /\ \A i \in 1..Len(last) : e[Len(head) + Len(body) + i] = last[i]
  <2>1. head \in Seq(Bytes) /\ body \in Seq(Bytes) /\ last \in Seq(Bytes)
    BY <1>1, <1>2
  <2>2. QED
    BY <2>1, <1>3, Concat3
<1>5. /\ e \in Seq(Bytes) /\ Len(e) = Len(body) + 9 /\ e[1] = v.id /\ e[2] = 4 /\ e[7] = 255
      /\ e[Len(body) + 8] = 0 /\ e[Len(body) + 9] = 255
      /\ \A i \in 1..Len(body) : e[i + 7] = body[i]
  BY <1>1, <1>2, <1>4
<1>6. QED
  BY <1>5 DEF e, body

LEMMA EncodeType ==
    ASSUME NEW v \in ValueSet
    PROVE  Encode(v) \in Seq(Bytes) /\ Len(Encode(v)) >= 7
<1>1. CASE v \in TextValues
  BY <1>1, EncodeText DEF TextValues
<1>2. CASE v \in NumberValues
  BY <1>2, EncodeNum1, EncodeNum3 DEF NumberValues
<1>3. QED
  BY <1>1, <1>2 DEF ValueSet

\* A payload grows at its front, from nothing.
IsPayloadOf(data, values) ==
    /\ data \in [0..Len(values) -> Seq(Bytes)]
    /\ data[0] = <<>>
    /\ \A n \in 1..Len(values) : data[n] = Encode(values[Len(values) - n + 1]) \o data[n - 1]

LEMMA PayloadFromItsEnd ==
    ASSUME NEW values \in Seq(ValueSet)
    PROVE  \E data : IsPayloadOf(data, values) /\ Payload(values) = data[Len(values)]
<1> DEFINE N == Len(values)
           step == [p \in (1..N) \X Seq(Bytes) |-> Encode(values[N - p[1] + 1]) \o p[2]]
<1>1. N \in Nat /\ <<>> \in Seq(Bytes)
  OBVIOUS
<1>2. ASSUME NEW n \in 1..N, NEW b \in Seq(Bytes)
      PROVE  Encode(values[N - n + 1]) \o b \in Seq(Bytes)
  <2>1. values[N - n + 1] \in ValueSet
    BY <1>1
  <2>2. QED
    BY <2>1, EncodeType
<1>3. step \in [(1..N) \X Seq(Bytes) -> Seq(Bytes)]
  BY <1>2
<1>4. \A n \in 1..N : \A b \in Seq(Bytes) : step[<<n, b>>] = Encode(values[N - n + 1]) \o b
  OBVIOUS
<1> HIDE DEF step
<1>5. PICK g : Follows(g, Seq(Bytes), <<>>, N, step)
  BY <1>1, <1>3, Recursion
<1>6. \A n \in 1..N : g[n - 1] \in Seq(Bytes) /\ g[n] = Encode(values[N - n + 1]) \o g[n - 1]
  <2> SUFFICES ASSUME NEW n \in 1..N
               PROVE  g[n - 1] \in Seq(Bytes) /\ g[n] = Encode(values[N - n + 1]) \o g[n - 1]
    OBVIOUS
  <2>1. n - 1 \in 0..N
    BY <1>1
  <2>2. g[n - 1] \in Seq(Bytes) /\ g[n] = step[<<n, g[n - 1]>>]
    BY <2>1, <1>5 DEF Follows
  <2>3. step[<<n, g[n - 1]>>] = Encode(values[N - n + 1]) \o g[n - 1]
    BY <2>2, <1>4
  <2>4. QED
    BY <2>2, <2>3
<1>7. IsPayloadOf(g, values)
  BY <1>5, <1>6 DEF IsPayloadOf, Follows
<1> DEFINE Is(data) == data = [n \in 0..Len(values) |->
                                  IF n = 0 THEN <<>> ELSE Encode(values[Len(values) - n + 1]) \o data[n - 1]]
           f == CHOOSE data : Is(data)
<1>8. Is(g)
  <2>1. g[0] = <<>> /\ g = [n \in 0..N |-> g[n]]
    BY <1>5 DEF Follows
  <2>2. \A n \in 0..N : g[n] = IF n = 0 THEN <<>> ELSE Encode(values[N - n + 1]) \o g[n - 1]
    BY <1>1, <1>6, <2>1
  <2>3. QED
    BY <2>1, <2>2
<1>9. Is(f)
  <2> HIDE DEF Is
  <2>1. QED
    BY <1>8
<1>10. Payload(values) = f[N]
  BY DEF Payload
<1>11. f[0] = <<>> /\ \A n \in 1..N : f[n] = Encode(values[N - n + 1]) \o f[n - 1]
  <2> HIDE DEF f
  <2>1. QED
    BY <1>9, <1>1
<1> HIDE DEF f, N
<1>12. \A n \in 1..N : f[n - 1] \in Seq(Bytes) => f[n] = step[<<n, f[n - 1]>>]
  BY <1>4, <1>11
<1>13. \A n \in 0..N : f[n] = g[n]
  <2> DEFINE S == Seq(Bytes)
             none == <<>>
  <2>1. N \in Nat /\ none \in S /\ f[0] = none
    BY <1>1, <1>11
  <2>2. Follows(g, S, none, N, step) /\ \A n \in 1..N : f[n - 1] \in S => f[n] = step[<<n, f[n - 1]>>]
    BY <1>5, <1>12
  <2> HIDE DEF S, none
  <2>3. QED
    BY <2>1, <2>2, Unique
<1>14. QED
  BY <1>1, <1>7, <1>10, <1>13 DEF N

\* Values never have five 0 bytes in a row, and end with 255.
Closed(s) ==
    /\ \A i \in 1..(Len(s) - 4) : \E j \in i..(i + 4) : s[j] # 0
    /\ s = <<>> \/ s[Len(s)] = 255

LEMMA EncodeClosed ==
    ASSUME NEW v \in ValueSet
    PROVE  Closed(Encode(v))
<1> DEFINE e == Encode(v)
<1>1. CASE v \in TextValues
  <2> DEFINE n == Len(v.val)
  <2>1. n \in Nat /\ \A i \in 1..n : v.val[i] # 0
    <3>1. v.val \in Seq(1..255)
      BY <1>1 DEF TextValues
    <3>2. \A i \in 1..n : v.val[i] \in 1..255
      BY <3>1, ElementOfSeq
    <3>3. n \in Nat
      BY <3>1, LenProperties
    <3>4. \A k : k \in 1..255 => k # 0
      OBVIOUS
    <3>5. QED
      BY <3>2, <3>3, <3>4, Zenon
  <2>2. /\ Len(e) = n + 9 /\ e[2] = 4 /\ e[7] = 255 /\ e[n + 9] = 255
        /\ \A i \in 1..n : e[i + 7] = v.val[i]
    BY <1>1, EncodeText
  <2> HIDE DEF e, n
  <2>3. ASSUME NEW i \in 1..(n + 5) PROVE \E j \in i..(i + 4) : e[j] # 0
    <3>1. CASE i <= 2
      BY <3>1, <2>1, <2>2
    <3>2. CASE i \in 3..7
      BY <3>2, <2>1, <2>2
    <3>3. CASE i >= 8
      <4>1. i - 7 \in 1..n
        BY <2>1, <3>3
      <4>2. e[i] # 0
        BY <2>1, <2>2, <4>1
      <4>3. QED
        BY <4>2
    <3>4. QED
      BY <2>1, <3>1, <3>2, <3>3
  <2>4. QED
    BY <2>1, <2>2, <2>3, SMTT(20) DEF Closed, e
<1>2. CASE v \in NumberValues /\ v.tag = "num1"
  <2>1. Len(e) = 7 /\ e[2] = 1 /\ e[7] = 255
    BY <1>2, EncodeNum1
  <2> HIDE DEF e
  <2>2. ASSUME NEW i \in 1..3 PROVE \E j \in i..(i + 4) : e[j] # 0
    BY <2>1
  <2>3. QED
    BY <2>1, <2>2 DEF Closed, e
<1>3. CASE v \in NumberValues /\ v.tag = "num3"
  <2>1. Len(e) = 12 /\ e[2] = 3 /\ e[7] = 255 /\ e[12] = 255
    BY <1>3, EncodeNum3
  <2> HIDE DEF e
  <2>2. ASSUME NEW i \in 1..8 PROVE \E j \in i..(i + 4) : e[j] # 0
    BY <2>1
  <2>3. QED
    BY <2>1, <2>2 DEF Closed, e
<1>4. QED
  BY <1>1, <1>2, <1>3 DEF ValueSet, NumberValues

LEMMA ClosedConcat ==
    ASSUME NEW e \in Seq(Bytes), NEW s \in Seq(Bytes), Closed(e), Closed(s), e # <<>>
    PROVE  Closed(e \o s)
<1> DEFINE r == e \o s
           n == Len(e)
<1>1. /\ r \in Seq(Bytes) /\ Len(r) = n + Len(s) /\ n \in Nat \ {0} /\ Len(s) \in Nat
      /\ \A i \in 1..n : r[i] = e[i]
      /\ \A i \in 1..Len(s) : r[n + i] = s[i]
  BY Concat
<1>2. e[n] = 255 /\ (Len(s) > 0 => s[Len(s)] = 255)
  BY <1>1 DEF Closed
<1> HIDE DEF r, n
<1>3. ASSUME NEW i \in 1..(Len(r) - 4) PROVE \E j \in i..(i + 4) : r[j] # 0
  <2>1. CASE i + 4 <= n
    <3>1. PICK j \in i..(i + 4) : e[j] # 0
      BY <2>1, <1>1 DEF Closed, n
    <3>2. QED
      BY <3>1, <2>1, <1>1
  <2>2. CASE i <= n /\ n < i + 4
    BY <2>2, <1>1, <1>2
  <2>3. CASE i > n
    <3>1. i - n \in 1..(Len(s) - 4)
      BY <2>3, <1>1
    <3>2. PICK j \in (i - n)..(i - n + 4) : s[j] # 0
      BY <3>1, <1>1 DEF Closed
    <3>3. n + j \in i..(i + 4) /\ j \in 1..Len(s)
      BY <3>1, <3>2, <1>1
    <3>4. r[n + j] # 0
      BY <3>2, <3>3, <1>1
    <3>5. QED
      BY <3>3, <3>4
  <2>4. QED
    BY <2>1, <2>2, <2>3, <1>1
<1>4. r[Len(r)] = 255
  BY <1>1, <1>2
<1>5. QED
  BY <1>3, <1>4 DEF Closed, r

LEMMA PayloadClosed ==
    ASSUME NEW values \in Seq(ValueSet)
    PROVE  Payload(values) \in Seq(Bytes) /\ Closed(Payload(values))
<1> DEFINE N == Len(values)
<1>1. PICK data : IsPayloadOf(data, values) /\ Payload(values) = data[N]
  BY PayloadFromItsEnd
<1> DEFINE P == {n \in 0..N : Closed(data[n])}
<1>2. N \in Nat /\ \A n \in 1..N : values[N - n + 1] \in ValueSet
  OBVIOUS
<1>3. 0 \in P
  BY <1>1, <1>2 DEF IsPayloadOf, Closed
<1>4. ASSUME NEW n \in 1..N, n - 1 \in P PROVE n \in P
  <2> DEFINE e == Encode(values[N - n + 1])
  <2>1. e \in Seq(Bytes) /\ Len(e) >= 7 /\ Closed(e)
    BY <1>2, EncodeType, EncodeClosed
  <2>2. data[n - 1] \in Seq(Bytes) /\ Closed(data[n - 1]) /\ data[n] = e \o data[n - 1]
    BY <1>1, <1>2, <1>4 DEF IsPayloadOf
  <2> HIDE DEF e
  <2>3. e # <<>>
    BY <2>1
  <2>4. Closed(e \o data[n - 1])
    BY <2>1, <2>2, <2>3, ClosedConcat
  <2>5. Closed(data[n]) /\ n \in 0..N
    BY <2>2, <2>4, <1>2
  <2>6. QED
    BY <2>5
<1> HIDE DEF P
<1>5. \A n \in 0..N : n \in P
  BY <1>2, <1>3, <1>4, Induction
<1>6. N \in P /\ data[N] \in Seq(Bytes)
  BY <1>1, <1>2, <1>5 DEF IsPayloadOf
<1>7. QED
  BY <1>1, <1>6 DEF P

(***************************************************************************)
(* Reading values back                                                     *)
(***************************************************************************)

LEMMA Int32RoundTrip ==
    ASSUME NEW n \in Int32s, NEW b, NEW i \in Nat,
           b[i] = Int32Bytes(n)[1], b[i + 1] = Int32Bytes(n)[2],
           b[i + 2] = Int32Bytes(n)[3], b[i + 3] = Int32Bytes(n)[4]
    PROVE  ToInt32(b, i) = n
<1>1. n \in Int /\ -2147483648 <= n /\ n <= 2147483647
  BY Int32sAre
<1> DEFINE hi == (n \div 16777216) % 256
<1>0. /\ b[i] = hi /\ b[i + 1] = (n \div 65536) % 256
      /\ b[i + 2] = (n \div 256) % 256 /\ b[i + 3] = n % 256
  BY <1>1, Int32BytesType
<1>2. Signed(hi) * 16777216 + ((n \div 65536) % 256) * 65536 + ((n \div 256) % 256) * 256 + (n % 256) = n
  BY <1>1 DEF Signed
<1>3. QED
  BY <1>0, <1>2 DEF ToInt32

\* The kinds of values exclude each other.
LEMMA ReadByKind ==
    ASSUME NEW b
    PROVE  /\ IsNum1(b) => ValueAt(b) = Num1(b[1], ToInt32(b, 3)) /\ Skip(b) = 7
           /\ IsNum3(b) => ValueAt(b) = Num3(b[1], ToInt32(b, 8)) /\ Skip(b) = 12
           /\ IsText(b) =>
                /\ ValueAt(b) =
                     Text(b[1], [i \in 1..(FirstNull(b) - 8) |-> ReplaceNonAscii(b[i + 7])])
                /\ Skip(b) = FirstNull(b) + 1
<1>1. IsNum1(b) => ~IsNum3(b) /\ ~IsText(b)
  BY DEF IsNum1, IsNum3, IsText
<1>2. IsNum3(b) => ~IsText(b)
  BY DEF IsNum3, IsText
<1>3. QED
  BY <1>1, <1>2, Zenon DEF ValueAt, Skip

LEMMA FirstNum1 ==
    ASSUME NEW v \in NumberValues, v.tag = "num1", NEW b, NEW n \in Nat, Len(b) = 7 + n,
           \A i \in 1..6 : b[i] = Encode(v)[i]
    PROVE  ValueAt(b) = AsRead(v) /\ Skip(b) = 7
<1> DEFINE e == Encode(v)
<1>1. /\ e[1] = v.id /\ e[2] = 1
      /\ \A i \in 1..4 : e[i + 2] = Int32Bytes(v.val)[i]
  BY EncodeNum1
<1>2. v.val \in Int32s /\ v = Num1(v.id, v.val) /\ v.val \in Int
  BY Int32sAre DEF NumberValues, Num1
<1>3. IsNum1(b)
  BY <1>1 DEF IsNum1
<1>4. b[1] = v.id
  BY <1>1
<1>5. ToInt32(b, 3) = v.val
  <2> DEFINE w == Int32Bytes(v.val)
  <2>1. e[3] = w[1] /\ e[4] = w[2] /\ e[5] = w[3] /\ e[6] = w[4]
    BY <1>1
  <2>2. b[3] = e[3] /\ b[4] = e[4] /\ b[5] = e[5] /\ b[6] = e[6]
    OBVIOUS
  <2> HIDE DEF e
  <2>3. /\ b[3] = w[1] /\ b[3 + 1] = w[2] /\ b[3 + 2] = w[3] /\ b[3 + 3] = w[4]
    BY <2>1, <2>2
  <2>4. QED
    BY <1>2, <2>3, Int32RoundTrip
<1>6. AsRead(v) = v
  <2>1. v.tag # "text"
    OBVIOUS
  <2>2. QED
    BY <2>1 DEF AsRead
<1>7. ValueAt(b) = Num1(b[1], ToInt32(b, 3)) /\ Skip(b) = 7
  BY <1>3, ReadByKind
<1>8. ValueAt(b) = Num1(v.id, v.val)
  BY <1>4, <1>5, <1>7
<1>9. QED
  BY <1>2, <1>6, <1>7, <1>8

LEMMA FirstNum3 ==
    ASSUME NEW v \in NumberValues, v.tag = "num3", NEW b, NEW n \in Nat, Len(b) = 12 + n,
           \A i \in 1..11 : b[i] = Encode(v)[i]
    PROVE  ValueAt(b) = AsRead(v) /\ Skip(b) = 12
<1> DEFINE e == Encode(v)
<1>1. /\ e[1] = v.id /\ e[2] = 3
      /\ \A i \in 1..4 : e[i + 7] = Int32Bytes(v.val)[i]
  BY EncodeNum3
<1>2. v.val \in Int32s /\ v = Num3(v.id, v.val) /\ v.val \in Int
  BY Int32sAre DEF NumberValues, Num3
<1>3. IsNum3(b)
  BY <1>1 DEF IsNum3
<1>4. b[1] = v.id
  BY <1>1
<1>5. ToInt32(b, 8) = v.val
  <2> DEFINE w == Int32Bytes(v.val)
  <2>1. e[8] = w[1] /\ e[9] = w[2] /\ e[10] = w[3] /\ e[11] = w[4]
    BY <1>1
  <2>2. b[8] = e[8] /\ b[9] = e[9] /\ b[10] = e[10] /\ b[11] = e[11]
    OBVIOUS
  <2> HIDE DEF e
  <2>3. /\ b[8] = w[1] /\ b[8 + 1] = w[2] /\ b[8 + 2] = w[3] /\ b[8 + 3] = w[4]
    BY <2>1, <2>2
  <2>4. QED
    BY <1>2, <2>3, Int32RoundTrip
<1>6. AsRead(v) = v
  <2>1. v.tag # "text"
    OBVIOUS
  <2>2. QED
    BY <2>1 DEF AsRead
<1>7. ValueAt(b) = Num3(b[1], ToInt32(b, 8)) /\ Skip(b) = 12
  BY <1>3, ReadByKind
<1>8. ValueAt(b) = Num3(v.id, v.val)
  BY <1>4, <1>5, <1>7
<1>9. QED
  BY <1>2, <1>6, <1>7, <1>8

\* The bytes of a text are not 0, and lie between 1 and 255.
LEMMA TextBytes ==
    ASSUME NEW v \in TextValues
    PROVE  /\ v.val \in Seq(1..255)
           /\ Len(v.val) \in Nat
           /\ DOMAIN v.val = 1..Len(v.val)
           /\ \A i \in 1..Len(v.val) : v.val[i] \in Int /\ 1 <= v.val[i] /\ v.val[i] <= 255
<1>1. v.val \in Seq(1..255)
  BY DEF TextValues
<1>2. \A i \in 1..Len(v.val) : v.val[i] \in 1..255
  BY <1>1, ElementOfSeq
<1>3. \A k : k \in 1..255 => k \in Int /\ 1 <= k /\ k <= 255
  OBVIOUS
<1>4. \A i \in 1..Len(v.val) : v.val[i] \in Int /\ 1 <= v.val[i] /\ v.val[i] <= 255
  BY <1>2, <1>3, Zenon
<1>5. QED
  BY <1>1, <1>4, LenProperties

LEMMA FirstNullAt ==
    ASSUME NEW b, NEW n \in Nat, Len(b) \in Nat, n + 8 <= Len(b), b[n + 8] = 0,
           \A i \in 1..n : b[i + 7] # 0
    PROVE  Nulls(b) # {} /\ FirstNull(b) = n + 8
<1>1. n + 8 \in Nulls(b)
  BY DEF Nulls
<1>2. \A i \in Nulls(b) : i \in Int /\ n + 8 <= i
  <2> SUFFICES ASSUME NEW i \in Nulls(b), i < n + 8 PROVE FALSE
    BY DEF Nulls
  <2> DEFINE k == i - 7
  <2>1. k \in 1..n /\ k + 7 = i /\ b[i] = 0
    BY DEF Nulls
  <2> HIDE DEF k
  <2>2. b[k + 7] # 0
    BY <2>1
  <2>3. QED
    BY <2>1, <2>2
<1> DEFINE Least(i) == i \in Nulls(b) /\ \A j \in Nulls(b) : i <= j
           first == CHOOSE i : Least(i)
<1>3. Least(n + 8)
  BY <1>1, <1>2
<1>4. Least(first)
  <2> HIDE DEF Least
  <2>1. QED
    BY <1>3
<1>5. first <= n + 8 /\ n + 8 <= first /\ first \in Int
  <2> HIDE DEF first
  <2>1. QED
    BY <1>1, <1>2, <1>4
<1>6. FirstNull(b) = first
  BY DEF FirstNull
<1>7. QED
  BY <1>1, <1>5, <1>6

LEMMA FirstText ==
    ASSUME NEW v \in TextValues, NEW b, NEW n \in Nat, Len(b) = Len(Encode(v)) + n,
           \A i \in 1..(Len(Encode(v)) - 1) : b[i] = Encode(v)[i]
    PROVE  ValueAt(b) = AsRead(v) /\ Skip(b) = Len(Encode(v))
<1> DEFINE e == Encode(v)
           m == Len(v.val)
<1>1. /\ Len(e) = m + 9 /\ e[1] = v.id /\ e[2] = 4 /\ e[m + 8] = 0
      /\ \A i \in 1..m : e[i + 7] = v.val[i]
  BY EncodeText
<1>2. /\ m \in Nat /\ DOMAIN v.val = 1..m
      /\ \A i \in 1..m : v.val[i] \in Int /\ 1 <= v.val[i] /\ v.val[i] <= 255
  BY TextBytes
<1>3. Len(b) = m + 9 + n /\ \A i \in 1..(m + 8) : b[i] = e[i]
  BY <1>1, <1>2
<1> HIDE DEF e, m
<1>4. b[1] = v.id /\ b[2] = 4 /\ b[m + 8] = 0
  BY <1>1, <1>2, <1>3
<1>5. ASSUME NEW i \in 1..m PROVE b[i + 7] = v.val[i]
  <2>1. i + 7 \in 1..(m + 8)
    BY <1>2
  <2>2. QED
    BY <2>1, <1>1, <1>3
<1>6. ASSUME NEW i \in 1..m PROVE b[i + 7] # 0
  <2>1. v.val[i] # 0
    BY <1>2
  <2>2. QED
    BY <2>1, <1>5, Zenon
<1>7. Nulls(b) # {} /\ FirstNull(b) = m + 8
  <2>1. Len(b) \in Nat /\ m + 8 <= Len(b)
    BY <1>2, <1>3
  <2>2. QED
    BY <2>1, <1>2, <1>4, <1>6, FirstNullAt, Zenon
<1>8. IsText(b)
  BY <1>4, <1>7 DEF IsText
<1>9. /\ ValueAt(b) = Text(b[1], [i \in 1..(FirstNull(b) - 8) |-> ReplaceNonAscii(b[i + 7])])
      /\ Skip(b) = FirstNull(b) + 1
  BY <1>8, ReadByKind
<1>10. FirstNull(b) - 8 = m /\ FirstNull(b) + 1 = m + 9
  BY <1>2, <1>7
<1>11. ASSUME NEW i \in 1..m
       PROVE  ReplaceNonAscii(b[i + 7]) = IF v.val[i] \in 1..127 THEN v.val[i] ELSE 63
  <2>1. v.val[i] \in 1..127 <=> v.val[i] < 128
    <3> DEFINE c == v.val[i]
    <3>1. c \in Int /\ 1 <= c
      BY <1>2, Zenon
    <3> HIDE DEF c
    <3>2. c \in 1..127 <=> c \in Int /\ 1 <= c /\ c <= 127
      <4>1. 1 \in Int /\ 127 \in Int
        OBVIOUS
      <4>2. QED
        BY <4>1, Between, Zenon
    <3>3. (c \in Int /\ 1 <= c /\ c <= 127) <=> c < 128
      BY <3>1
    <3>4. QED
      BY <3>2, <3>3, Zenon DEF c
  <2>2. ReplaceNonAscii(v.val[i]) = IF v.val[i] < 128 THEN v.val[i] ELSE 63
    BY DEF ReplaceNonAscii
  <2>3. QED
    BY <2>1, <2>2, <1>5, Zenon
<1>12. [i \in 1..m |-> ReplaceNonAscii(b[i + 7])] =
         [i \in DOMAIN v.val |-> IF v.val[i] \in 1..127 THEN v.val[i] ELSE 63]
  BY <1>2, <1>11, Zenon
<1>13. v.tag = "text"
  BY DEF TextValues
<1>14. AsRead(v) = Text(v.id, [i \in 1..m |-> ReplaceNonAscii(b[i + 7])])
  BY <1>12, <1>13, Zenon DEF AsRead
<1>15. ValueAt(b) = AsRead(v) /\ Skip(b) = m + 9
  BY <1>4, <1>9, <1>10, <1>14, Zenon
<1>16. QED
  BY <1>1, <1>15 DEF e

\* Nothing is read from the last byte, the delimiter.
AllButLast(b, t) ==
    /\ b \in Seq(Bytes)
    /\ Len(b) = Len(t)
    /\ \A i \in 1..(Len(t) - 1) : b[i] = t[i]

\* Reading takes the first value off, and leaves the others.
LEMMA FirstValue ==
    ASSUME NEW v \in ValueSet, NEW t \in Seq(Bytes), NEW b, AllButLast(b, Encode(v) \o t)
    PROVE  /\ Len(b) >= Len(t) + 7
           /\ ValueAt(b) = AsRead(v)
           /\ AllButLast(Rest(b), t)
<1> DEFINE e == Encode(v)
           c == e \o t
<1>1. e \in Seq(Bytes) /\ Len(e) >= 7 /\ Len(e) \in Nat /\ Len(t) \in Nat
  <2>1. e \in Seq(Bytes) /\ Len(e) >= 7
    BY EncodeType
  <2> HIDE DEF e
  <2>2. QED
    BY <2>1
<1>2. /\ Len(c) = Len(e) + Len(t)
      /\ \A i \in 1..Len(e) : c[i] = e[i]
      /\ \A i \in 1..Len(t) : c[Len(e) + i] = t[i]
  <2>1. e \in Seq(Bytes) /\ c = e \o t
    BY <1>1
  <2> HIDE DEF e, c
  <2>2. QED
    BY <2>1, Concat
<1>3. b \in Seq(Bytes) /\ Len(b) = Len(c) /\ \A i \in 1..(Len(c) - 1) : b[i] = c[i]
  BY Zenon DEF AllButLast
<1> HIDE DEF e, c
<1>4. /\ Len(b) = Len(e) + Len(t)
      /\ \A i \in 1..(Len(e) - 1) : b[i] = e[i]
      /\ \A i \in 1..(Len(t) - 1) : b[Len(e) + i] = t[i]
  <2>1. \A i \in 1..(Len(e) - 1) : i \in 1..Len(e) /\ i \in 1..(Len(c) - 1)
    BY <1>1, <1>2
  <2>2. \A i \in 1..(Len(t) - 1) : i \in 1..Len(t) /\ Len(e) + i \in 1..(Len(c) - 1)
    BY <1>1, <1>2
  <2>3. QED
    BY <1>2, <1>3, <2>1, <2>2, Zenon
<1>5. ValueAt(b) = AsRead(v) /\ Skip(b) = Len(e)
  <2>1. CASE v \in TextValues
    BY <2>1, <1>1, <1>4, FirstText DEF e
  <2>2. CASE v \in NumberValues /\ v.tag = "num1"
    <3>1. Len(e) = 7
      BY <2>2, EncodeNum1 DEF e
    <3>2. Len(b) = 7 + Len(t) /\ \A i \in 1..6 : b[i] = e[i]
      BY <3>1, <1>1, <1>4
    <3>3. QED
      BY <2>2, <3>1, <3>2, <1>1, FirstNum1 DEF e
  <2>3. CASE v \in NumberValues /\ v.tag = "num3"
    <3>1. Len(e) = 12
      BY <2>3, EncodeNum3 DEF e
    <3>2. Len(b) = 12 + Len(t) /\ \A i \in 1..11 : b[i] = e[i]
      BY <3>1, <1>1, <1>4
    <3>3. QED
      BY <2>3, <3>1, <3>2, <1>1, FirstNum3 DEF e
  <2>4. QED
    BY <2>1, <2>2, <2>3 DEF ValueSet, NumberValues
<1>6. Rest(b) = SubSeq(b, Len(e) + 1, Len(b))
  BY <1>1, <1>4, <1>5 DEF Rest, From
<1>7. AllButLast(Rest(b), t)
  <2> DEFINE r == SubSeq(b, Len(e) + 1, Len(b))
  <2>1. /\ r \in Seq(Bytes) /\ Len(r) = Len(t)
        /\ \A i \in 1..Len(t) : r[i] = b[Len(e) + 1 + i - 1]
    BY <1>1, <1>3, <1>4
  <2> HIDE DEF r
  <2>2. ASSUME NEW i \in 1..(Len(t) - 1) PROVE r[i] = t[i]
    <3>1. Len(e) + 1 + i - 1 = Len(e) + i /\ i \in 1..Len(t)
      BY <1>1
    <3>2. QED
      BY <2>1, <3>1, <1>4
  <2>3. AllButLast(r, t)
    BY <2>1, <2>2 DEF AllButLast
  <2>4. QED
    BY <1>6, <2>3 DEF r
<1>8. QED
  BY <1>1, <1>4, <1>5, <1>7

\* What is left after n steps, and the values there are then.
IsRestOf(rest, bytes) ==
    rest[0] = bytes /\ \A n \in 1..Len(bytes) : rest[n] = Rest(rest[n - 1])

LEMMA ValuesByRests ==
    ASSUME NEW bytes \in Seq(Bytes), NEW rest, IsRestOf(rest, bytes)
    PROVE  Values(bytes) =
             [k \in {n \in 1..Len(bytes) : Len(rest[n - 1]) >= 2} |-> ValueAt(rest[k - 1])]
<1> DEFINE N == Len(bytes)
           Is(r) == r = [n \in 0..Len(bytes) |-> IF n = 0 THEN bytes ELSE Rest(r[n - 1])]
           f == CHOOSE r : Is(r)
           g == [n \in 0..N |-> rest[n]]
           read(r) == [k \in {n \in 1..Len(bytes) : Len(r[n - 1]) >= 2} |-> ValueAt(r[k - 1])]
<1>1. N \in Nat
  OBVIOUS
<1>2. Is(g)
  <2>1. \A n \in 0..N : rest[n] = IF n = 0 THEN bytes ELSE Rest(g[n - 1])
    BY <1>1 DEF IsRestOf
  <2>2. QED
    BY <2>1
<1>3. Is(f)
  <2> HIDE DEF Is
  <2>1. QED
    BY <1>2
<1>4. Values(bytes) = read(f)
  BY Zenon DEF Values
<1>5. f[0] = bytes /\ \A n \in 1..N : f[n] = Rest(f[n - 1])
  <2> HIDE DEF f
  <2>1. QED
    BY <1>3, <1>1
<1> HIDE DEF f, N
<1> DEFINE P == {n \in 0..N : f[n] = rest[n]}
<1>6. 0 \in P
  BY <1>1, <1>5 DEF IsRestOf
<1>7. ASSUME NEW n \in 1..N, n - 1 \in P PROVE n \in P
  <2>1. f[n] = Rest(f[n - 1]) /\ rest[n] = Rest(rest[n - 1]) /\ f[n - 1] = rest[n - 1] /\ n \in 0..N
    BY <1>1, <1>5, <1>7 DEF IsRestOf, N
  <2>2. QED
    BY <2>1
<1> HIDE DEF P
<1>8. \A n \in 0..N : n \in P
  BY <1>1, <1>6, <1>7, Induction
<1>9. \A n \in 1..N : f[n - 1] = rest[n - 1]
  BY <1>1, <1>8 DEF P
<1>10. {n \in 1..N : Len(f[n - 1]) >= 2} = {n \in 1..N : Len(rest[n - 1]) >= 2}
  BY <1>9
<1>11. QED
  <2>1. \A k \in {n \in 1..N : Len(rest[n - 1]) >= 2} : ValueAt(f[k - 1]) = ValueAt(rest[k - 1])
    BY <1>9
  <2>2. read(f) = read(rest)
    BY <1>10, <2>1, Zenon DEF N
  <2>3. QED
    BY <1>4, <2>2

LEMMA PayloadReadBack ==
    ASSUME NEW values \in Seq(ValueSet), NEW bytes, AllButLast(bytes, Payload(values))
    PROVE  Values(bytes) = [k \in DOMAIN values |-> AsRead(values[k])]
<1> DEFINE N == Len(values)
           B == Len(bytes)
<1>1. PICK data : IsPayloadOf(data, values) /\ Payload(values) = data[N]
  BY PayloadFromItsEnd
<1>2. N \in Nat /\ DOMAIN values = 1..N /\ \A k \in 1..N : values[k] \in ValueSet
  OBVIOUS
<1>3. bytes \in Seq(Bytes) /\ AllButLast(bytes, data[N])
  BY <1>1 DEF AllButLast
<1>4. B \in Nat
  BY <1>3
<1>5. data[0] = <<>> /\ \A n \in 0..N : data[n] \in Seq(Bytes)
  BY <1>1 DEF IsPayloadOf
<1>6. ASSUME NEW n \in 1..N, NEW b, AllButLast(b, data[n])
      PROVE  /\ Len(b) >= Len(data[n - 1]) + 7
             /\ ValueAt(b) = AsRead(values[N - n + 1])
             /\ AllButLast(Rest(b), data[n - 1])
  <2>1. n - 1 \in 0..N /\ N - n + 1 \in 1..N
    BY <1>2
  <2>2. /\ data[n - 1] \in Seq(Bytes)
        /\ data[n] = Encode(values[N - n + 1]) \o data[n - 1]
        /\ values[N - n + 1] \in ValueSet
    BY <1>1, <1>2, <2>1 DEF IsPayloadOf
  <2>3. AllButLast(b, Encode(values[N - n + 1]) \o data[n - 1])
    BY <1>6, <2>2
  <2>4. QED
    BY <2>2, <2>3, FirstValue
\* The iteration goes through the payload from its front.
<1> DEFINE step == [p \in (1..B) \X Seq(Bytes) |->
                       IF Rest(p[2]) \in Seq(Bytes) THEN Rest(p[2]) ELSE <<>>]
<1>7. step \in [(1..B) \X Seq(Bytes) -> Seq(Bytes)]
  OBVIOUS
<1>8. \A n \in 1..B : \A b \in Seq(Bytes) : Rest(b) \in Seq(Bytes) => step[<<n, b>>] = Rest(b)
  OBVIOUS
<1> HIDE DEF step
<1>9. PICK rest : Follows(rest, Seq(Bytes), bytes, B, step)
  BY <1>3, <1>4, <1>7, Recursion
<1>10. /\ rest[0] = bytes
       /\ \A n \in 0..B : rest[n] \in Seq(Bytes)
       /\ \A n \in 1..B : rest[n] = step[<<n, rest[n - 1]>>]
  BY <1>9 DEF Follows
<1> DEFINE P == {k \in 0..B : IF k <= N THEN AllButLast(rest[k], data[N - k]) ELSE rest[k] = <<>>}
<1>11. ASSUME NEW k \in 1..B, k - 1 \in P PROVE rest[k] = Rest(rest[k - 1]) /\ k \in P
  <2>1. k - 1 \in 0..B /\ rest[k - 1] \in Seq(Bytes) /\ k \in 0..B
    BY <1>4, <1>10
  <2>2. CASE k <= N
    <3> DEFINE n == N - k + 1
    <3>1. n \in 1..N /\ N - (k - 1) = n /\ N - k = n - 1 /\ k - 1 <= N
      BY <1>2, <1>4, <2>2
    <3>2. AllButLast(rest[k - 1], data[n])
      BY <1>11, <3>1
    <3> HIDE DEF n
    <3>3. AllButLast(Rest(rest[k - 1]), data[n - 1])
      BY <3>1, <3>2, <1>6
    <3>4. rest[k] = Rest(rest[k - 1])
      BY <2>1, <3>3, <1>8, <1>10 DEF AllButLast
    <3>5. QED
      BY <2>1, <2>2, <3>1, <3>3, <3>4
  <2>3. CASE ~ k <= N
    <3>1. Rest(rest[k - 1]) = <<>>
      <4>1. CASE k - 1 <= N
        <5>1. N - (k - 1) = 0
          BY <1>2, <1>4, <2>3, <4>1
        <5>2. AllButLast(rest[k - 1], <<>>)
          BY <1>5, <1>11, <4>1, <5>1
        <5>3. Len(rest[k - 1]) = 0
          BY <5>2 DEF AllButLast
        <5>4. QED
          BY <5>3 DEF Rest
      <4>2. CASE ~ k - 1 <= N
        <5>1. rest[k - 1] = <<>>
          BY <1>11, <4>2
        <5>2. QED
          BY <5>1 DEF Rest
      <4>3. QED
        BY <4>1, <4>2
    <3>2. <<>> \in Seq(Bytes) /\ rest[k] = step[<<k, rest[k - 1]>>]
      BY <1>10
    <3>3. rest[k] = <<>> /\ rest[k] = Rest(rest[k - 1])
      BY <2>1, <3>1, <3>2, <1>8, Zenon
    <3>4. QED
      BY <2>1, <2>3, <3>3
  <2>4. QED
    BY <2>2, <2>3
<1>12. 0 \in P
  <2>1. 0 \in 0..B /\ 0 <= N /\ N - 0 = N
    BY <1>2, <1>4
  <2>2. QED
    BY <2>1, <1>3, <1>10
<1>13. \A k \in 0..B : k \in P
  <2> HIDE DEF P
  <2>1. QED
    BY <1>4, <1>11, <1>12, Induction
<1>14. IsRestOf(rest, bytes)
  <2>1. ASSUME NEW k \in 1..B PROVE rest[k] = Rest(rest[k - 1])
    <3>1. k - 1 \in 0..B
      BY <1>4
    <3>2. QED
      BY <3>1, <1>11, <1>13
  <2>2. QED
    BY <2>1, <1>10 DEF IsRestOf
<1>15. Values(bytes) = [k \in {n \in 1..B : Len(rest[n - 1]) >= 2} |-> ValueAt(rest[k - 1])]
  BY <1>3, <1>14, ValuesByRests
\* Every value takes bytes, so there are enough steps for all of them.
<1> DEFINE Q == {n \in 0..N : Len(data[n]) \in Nat /\ Len(data[n]) >= n}
<1>16. 0 \in Q
  BY <1>2, <1>5
<1>17. ASSUME NEW n \in 1..N, n - 1 \in Q PROVE n \in Q
  <2>1. n - 1 \in 0..N /\ n \in 0..N /\ data[n] \in Seq(Bytes)
    BY <1>2, <1>5
  <2>2. AllButLast(data[n], data[n])
    BY <2>1 DEF AllButLast
  <2>3. Len(data[n]) >= Len(data[n - 1]) + 7
    BY <1>6, <2>2
  <2>4. Len(data[n - 1]) \in Nat /\ Len(data[n - 1]) >= n - 1 /\ Len(data[n]) \in Nat
    BY <1>17, <2>1
  <2>5. QED
    BY <2>1, <2>3, <2>4
<1>18. \A n \in 0..N : n \in Q
  <2> HIDE DEF Q
  <2>1. QED
    BY <1>2, <1>16, <1>17, Induction
<1>19. N <= B
  <2>1. N \in Q
    BY <1>2, <1>18
  <2>2. B = Len(data[N])
    BY <1>3 DEF AllButLast
  <2>3. QED
    BY <2>1, <2>2
<1> HIDE DEF B
<1>20. ASSUME NEW k \in 1..N
       PROVE  Len(rest[k - 1]) >= 2 /\ ValueAt(rest[k - 1]) = AsRead(values[k])
  <2> DEFINE n == N - k + 1
  <2>1. /\ n \in 1..N /\ N - n + 1 = k /\ n - 1 \in 0..N
        /\ k - 1 \in 0..B /\ k - 1 <= N /\ N - (k - 1) = n
    BY <1>2, <1>4, <1>19
  <2>2. AllButLast(rest[k - 1], data[n])
    BY <2>1, <1>13
  <2> HIDE DEF n
  <2>3. Len(data[n - 1]) \in Nat
    BY <1>18, <2>1
  <2>4. Len(rest[k - 1]) \in Nat
    BY <1>10, <2>1
  <2>5. Len(rest[k - 1]) >= Len(data[n - 1]) + 7 /\ ValueAt(rest[k - 1]) = AsRead(values[N - n + 1])
    BY <1>6, <2>1, <2>2
  <2>6. QED
    BY <2>1, <2>3, <2>4, <2>5
<1>21. ASSUME NEW k \in (N + 1)..B PROVE ~ Len(rest[k - 1]) >= 2
  <2>1. k - 1 \in 0..B /\ k - 1 >= N
    BY <1>2, <1>4
  <2>2. CASE k - 1 = N
    <3>1. AllButLast(rest[k - 1], <<>>)
      BY <2>1, <2>2, <1>2, <1>5, <1>13
    <3>2. QED
      BY <3>1 DEF AllButLast
  <2>3. CASE k - 1 > N
    BY <2>1, <2>3, <1>2, <1>4, <1>13
  <2>4. QED
    BY <2>1, <2>2, <2>3, <1>2, <1>4
<1>22. {n \in 1..B : Len(rest[n - 1]) >= 2} = 1..N
  BY <1>2, <1>4, <1>19, <1>20, <1>21
<1>23. Values(bytes) = [k \in 1..N |-> AsRead(values[k])]
  BY <1>15, <1>20, <1>22, Zenon
<1>24. QED
  BY <1>2, <1>23

(***************************************************************************)
(* Frames                                                                  *)
(***************************************************************************)

Types == DOMAIN MessageTypeCode

LEMMA TypeCodes ==
    ASSUME NEW type \in Types
    PROVE  MessageTypeCode[type] \in Bytes \ {0}
BY BytesAre DEF Types, MessageTypeCode

LEMMA HeaderType ==
    ASSUME NEW type \in Types, NEW origin, NEW length \in Words,
           \A i \in 1..4 : origin[i] \in Bytes
    PROVE  Header(type, origin, length) \in Seq(Bytes) /\ Len(Header(type, origin, length)) = 14
<1> DEFINE code == MessageTypeCode[type]
           hi == length \div 256
           lo == length % 256
<1>1. code \in Bytes /\ hi \in Bytes /\ lo \in Bytes /\ 0 \in Bytes /\ 255 \in Bytes
  BY TypeCodes, Halves, BytesAre
<1>2. origin[1] \in Bytes /\ origin[2] \in Bytes /\ origin[3] \in Bytes /\ origin[4] \in Bytes
  OBVIOUS
<1>3. Header(type, origin, length) =
        <<0, 0, 0, 0, 0, 255, code, origin[1], origin[2], origin[3], origin[4], hi, lo, 255>>
  BY DEF Header
<1> HIDE DEF code, hi, lo
<1>4. QED
  BY <1>1, <1>2, <1>3

\* What is where in the bytes f of a frame with n bytes of payload.
IsLaidOut(f, n) ==
    /\ f \in Seq(Bytes)
    /\ n \in Nat
    /\ Len(f) = n + 16
    /\ \A i \in 1..5 : f[i] = 0
    /\ f[6] = 255
    /\ \A i \in 7..11 : f[i] # 0
    /\ ToUint16(f[12], f[13]) = n + 3
    /\ f[14] = 255
    /\ \A i \in 15..(n + 10) : \E j \in i..(i + 4) : f[j] # 0
    /\ f[n + 14] = 255
    /\ ToUint16(f[n + 15], f[n + 16]) = Crc(SubSeq(f, 1, n + 13))

IsFrameOf(f, type, data) ==
    /\ IsLaidOut(f, Len(data))
    /\ f[7] = MessageTypeCode[type]
    /\ \A i \in 1..Len(data) : f[14 + i] = data[i]

LEMMA FrameIsLaidOut ==
    ASSUME NEW type \in Types, NEW origin, \A i \in 1..4 : origin[i] \in Bytes \ {0},
           NEW data \in Seq(Bytes), Closed(data), Len(data) + 3 <= MaxUint16
    PROVE  /\ IsFrameOf(Frame(type, origin, data), type, data)
           /\ \A i \in 1..4 : Frame(type, origin, data)[i + 7] = origin[i]
<1> DEFINE n == Len(data)
           header == Header(type, origin, n + 3)
           body == header \o data
           covered == SubSeq(body, 1, Len(body) - 1)
           crc == Crc(covered)
           tail == <<crc \div 256, crc % 256>>
           f == Frame(type, origin, data)
<1>1. n \in Nat /\ n + 3 \in Words
  BY WordsAre DEF MaxUint16
<1>2. header \in Seq(Bytes) /\ Len(header) = 14
  BY <1>1, HeaderType
<1>3. /\ \A i \in 1..5 : header[i] = 0
      /\ header[6] = 255 /\ header[7] = MessageTypeCode[type] /\ header[14] = 255
      /\ \A i \in 1..4 : header[i + 7] = origin[i]
      /\ header[12] = (n + 3) \div 256 /\ header[13] = (n + 3) % 256
  <2> HIDE DEF n
  <2>1. QED
    BY DEF Header
<1>4. \A i \in 7..11 : header[i] # 0
  <2>1. header[7] # 0
    BY <1>3, TypeCodes
  <2> HIDE DEF header
  <2>2. ASSUME NEW i \in 8..11 PROVE header[i] # 0
    <3>1. i - 7 \in 1..4
      OBVIOUS
    <3>2. origin[i - 7] # 0 /\ header[i - 7 + 7] = origin[i - 7]
      BY <3>1, <1>3
    <3>3. QED
      BY <3>2
  <2>3. QED
    BY <2>1, <2>2
<1>5. ToUint16(header[12], header[13]) = n + 3
  BY <1>1, <1>3, Halves DEF ToUint16
<1> HIDE DEF header, n
<1>6. /\ body \in Seq(Bytes) /\ Len(body) = 14 + n
      /\ \A i \in 1..14 : body[i] = header[i]
      /\ \A i \in 1..n : body[14 + i] = data[i]
  <2>1. header \in Seq(Bytes) /\ body = header \o data
    BY <1>2
  <2> HIDE DEF body
  <2>2. /\ body \in Seq(Bytes) /\ Len(body) = Len(header) + Len(data)
        /\ \A i \in 1..Len(header) : body[i] = header[i]
        /\ \A i \in 1..Len(data) : body[Len(header) + i] = data[i]
    BY <2>1, Concat
  <2>3. QED
    BY <2>2, <1>2 DEF n
<1> HIDE DEF body
<1>7. covered \in Seq(Bytes)
  BY <1>1, <1>6
<1> HIDE DEF covered
<1>8. crc \in Words
  BY <1>7, CrcType
<1>9. tail \in Seq(Bytes) /\ Len(tail) = 2 /\ ToUint16(tail[1], tail[2]) = crc
  <2>1. crc \div 256 \in Bytes /\ crc % 256 \in Bytes /\ crc = 256 * (crc \div 256) + (crc % 256)
    BY <1>8, Halves
  <2> HIDE DEF crc
  <2>2. QED
    BY <2>1 DEF ToUint16
<1>10. f = body \o tail
  BY DEF Frame, tail, crc, covered, body, header, n
<1> HIDE DEF tail, f, crc
<1>11. /\ f \in Seq(Bytes) /\ Len(f) = n + 16
       /\ \A i \in 1..(n + 14) : f[i] = body[i]
       /\ f[n + 15] = tail[1] /\ f[n + 16] = tail[2]
  <2>1. body \in Seq(Bytes) /\ tail \in Seq(Bytes)
    BY <1>6, <1>9
  <2>2. /\ f \in Seq(Bytes) /\ Len(f) = Len(body) + Len(tail)
        /\ \A i \in 1..Len(body) : f[i] = body[i]
        /\ \A i \in 1..Len(tail) : f[Len(body) + i] = tail[i]
    BY <2>1, <1>10, Concat
  <2>3. Len(body) = 14 + n /\ Len(tail) = 2
    BY <1>6, <1>9
  <2>4. QED
    BY <2>2, <2>3, <1>1
<1>12. \A i \in 1..14 : f[i] = header[i]
  BY <1>1, <1>6, <1>11
<1>13. \A i \in 1..n : f[14 + i] = data[i]
  <2> SUFFICES ASSUME NEW i \in 1..n PROVE f[14 + i] = data[i]
    OBVIOUS
  <2>1. 14 + i \in 1..(n + 14)
    BY <1>1
  <2>2. QED
    BY <2>1, <1>6, <1>11
<1>14. ASSUME NEW i \in 15..(n + 10) PROVE \E j \in i..(i + 4) : f[j] # 0
  <2> DEFINE k == i - 14
  <2>1. k \in 1..(Len(data) - 4) /\ k = i - 14
    BY <1>1 DEF n
  <2> HIDE DEF k
  <2>2. \A m \in 1..(Len(data) - 4) : \E j \in m..(m + 4) : data[j] # 0
    BY Zenon DEF Closed
  <2>3. PICK j \in k..(k + 4) : data[j] # 0
    BY <2>1, <2>2, Zenon
  <2>4. j + 14 \in i..(i + 4) /\ j \in 1..n
    BY <1>1, <2>1, <2>3 DEF n
  <2>5. f[14 + j] # 0
    BY <1>13, <2>3, <2>4
  <2>6. QED
    BY <2>4, <2>5
<1>15. f[n + 14] = 255
  <2>1. CASE n = 0
    BY <2>1, <1>3, <1>12
  <2>2. CASE n # 0
    <3>1. data[n] = 255
      BY <2>2 DEF Closed, n
    <3>2. QED
      BY <1>1, <2>2, <3>1, <1>13
  <2>3. QED
    BY <2>1, <2>2
<1>16. covered = SubSeq(f, 1, n + 13)
  <2>1. covered = SubSeq(body, 1, n + 13)
    BY <1>1, <1>6 DEF covered
  <2>2. QED
    BY <2>1, <1>1, <1>6, <1>11
<1>17. ToUint16(f[n + 15], f[n + 16]) = Crc(SubSeq(f, 1, n + 13))
  BY <1>9, <1>11, <1>16 DEF crc
<1>18. \A i \in 1..5 : f[i] = 0
  BY <1>3, <1>12
<1>19. f[6] = 255 /\ f[14] = 255 /\ f[7] = MessageTypeCode[type]
  BY <1>3, <1>12
<1>20. \A i \in 7..11 : f[i] # 0
  BY <1>4, <1>12
<1>21. ToUint16(f[12], f[13]) = n + 3
  BY <1>5, <1>12
<1>22. IsLaidOut(f, n)
  BY <1>1, <1>11, <1>14, <1>15, <1>17, <1>18, <1>19, <1>20, <1>21 DEF IsLaidOut
<1>23. ASSUME NEW i \in 1..4 PROVE f[i + 7] = origin[i]
  <2>1. i + 7 \in 1..14
    OBVIOUS
  <2>2. QED
    BY <2>1, <1>3, <1>12
<1>24. QED
  BY <1>13, <1>19, <1>22, <1>23 DEF IsFrameOf, f, n

LEMMA FrameParses ==
    ASSUME NEW f, NEW type \in Types, NEW data \in Seq(Bytes), IsFrameOf(f, type, data)
    PROVE  Parses(f) /\ TypesOf(f) = {type}
<1> DEFINE n == Len(data)
<1>1. /\ f \in Seq(Bytes) /\ n \in Nat /\ Len(f) = n + 16
      /\ \A i \in 1..5 : f[i] = 0
      /\ f[6] = 255 /\ f[14] = 255 /\ f[7] = MessageTypeCode[type]
      /\ ToUint16(f[12], f[13]) = n + 3
      /\ ToUint16(f[n + 15], f[n + 16]) = Crc(SubSeq(f, 1, n + 13))
  BY DEF IsFrameOf, IsLaidOut
<1> HIDE DEF n
<1>2. HeaderComplete(f)
  BY <1>1 DEF HeaderComplete, HeaderSize
<1>3. HeaderValid(f)
  <2> DEFINE q == SubSeq(f, 1, 6)
  <2>1. q \in Seq(Bytes) /\ Len(q) = 6 /\ \A i \in 1..6 : q[i] = f[i]
    BY <1>1
  <2> HIDE DEF q
  <2>2. q[1] = 0 /\ q[2] = 0 /\ q[3] = 0 /\ q[4] = 0 /\ q[5] = 0 /\ q[6] = 255
    BY <1>1, <2>1
  <2>3. q = <<0, 0, 0, 0, 0, 255>>
    BY <2>1, <2>2
  <2>4. QED
    BY <1>1, <2>3 DEF HeaderValid, q
<1>4. TypesOf(f) = {type}
  <2>1. \A t \in Types : MessageTypeCode[t] = MessageTypeCode[type] => t = type
    BY DEF Types, MessageTypeCode
  <2>2. TypesOf(f) = {t \in Types : MessageTypeCode[t] = MessageTypeCode[type]}
    BY <1>1 DEF TypesOf, Types
  <2>3. QED
    BY <2>1, <2>2
<1>5. LengthMatches(f)
  BY <1>1 DEF LengthMatches, HeaderLength, HeaderSize
<1>6. Crc(SubSeq(f, 1, n + 13)) = Crc(SubSeq(f, 2, n + 13))
  <2> DEFINE all == SubSeq(f, 1, n + 13)
             rest == SubSeq(f, 2, n + 13)
  <2>1. /\ all \in Seq(Bytes) /\ Len(all) = n + 13 /\ \A i \in 1..(n + 13) : all[i] = f[i]
        /\ rest \in Seq(Bytes) /\ Len(rest) = n + 12 /\ \A i \in 1..(n + 12) : rest[i] = f[i + 1]
    BY <1>1
  <2>2. all # <<>> /\ all[1] = 0
    BY <1>1, <2>1
  <2> HIDE DEF all, rest
  <2>3. Len(all) = Len(rest) + 1 /\ \A i \in 1..Len(rest) : rest[i] = all[i + 1]
    BY <1>1, <2>1
  <2>4. Crc(all) = Crc(rest)
    <3>1. all \in Seq(Bytes) /\ rest \in Seq(Bytes)
      BY <2>1
    <3>2. QED
      BY <3>1, <2>2, <2>3, CrcOfLeadingZero
  <2>5. QED
    BY <2>4 DEF all, rest
<1>7. CrcMatches(f)
  <2>1. Len(f) - 3 = n + 13 /\ Len(f) - 1 = n + 15
    BY <1>1
  <2>2. QED
    BY <1>1, <1>6, <2>1 DEF CrcMatches
<1>8. QED
  BY <1>2, <1>3, <1>4, <1>5, <1>7 DEF Parses, Intact

\* Five 0 bytes in a row are in a frame at its beginning only, and, with what
\* follows, in its CRC.
LEMMA FrameBeginsOnce ==
    ASSUME NEW f, NEW n, IsLaidOut(f, n), NEW i \in 1..(n + 14),
           \A j \in i..(i + 4) : j \in 1..(n + 16) => f[j] = 0
    PROVE  i = 1
<1>1. /\ n \in Nat /\ f[6] = 255 /\ f[14] = 255 /\ f[n + 14] = 255
      /\ \A j \in 7..11 : f[j] # 0
      /\ \A j \in 15..(n + 10) : \E k \in j..(j + 4) : f[k] # 0
  BY DEF IsLaidOut
<1>2. i \notin 2..6 /\ i \notin 7..11
  BY <1>1
<1>3. i \notin 12..14
  BY <1>1
<1>4. i \notin (n + 11)..(n + 14)
  BY <1>1
<1>5. i \notin 15..(n + 10)
  <2> SUFFICES ASSUME i \in 15..(n + 10) PROVE FALSE
    OBVIOUS
  <2>1. PICK k \in i..(i + 4) : f[k] # 0
    BY <1>1
  <2>2. k \in 1..(n + 16)
    BY <1>1, <2>1
  <2>3. QED
    BY <2>1, <2>2
<1>6. QED
  BY <1>1, <1>2, <1>3, <1>4, <1>5

\* What is known of a piece that parses and of where it is cut from.
LEMMA PieceThatParses ==
    ASSUME NEW s \in Seq(Bytes), NEW first \in 1..Len(s), NEW last \in first..Len(s),
           Parses(SubSeq(s, first, last))
    PROVE  /\ first \in Nat /\ last \in Nat /\ first + 13 <= last /\ last <= Len(s)
           /\ \A j \in first..(first + 4) : s[j] = 0
           /\ s[first + 5] = 255
           /\ ToUint16(s[first + 11], s[first + 12]) = last - first - 12
<1> DEFINE p == SubSeq(s, first, last)
<1>1. /\ Len(s) \in Nat /\ first \in Nat /\ last \in Nat /\ first <= last /\ last <= Len(s)
      /\ Len(p) = last - first + 1 /\ \A i \in 1..(last - first + 1) : p[i] = s[first + i - 1]
  OBVIOUS
<1>2. /\ Len(p) >= 14 /\ SubSeq(p, 1, 6) = <<0, 0, 0, 0, 0, 255>>
      /\ ToUint16(p[12], p[13]) = Len(p) - 13
  <2> HIDE DEF p
  <2>1. Len(p) \in Nat
    BY <1>1
  <2>2. HeaderComplete(p) /\ HeaderValid(p) /\ LengthMatches(p)
    BY DEF Parses, Intact, p
  <2>3. QED
    BY <2>1, <2>2 DEF HeaderComplete, HeaderValid, LengthMatches, HeaderLength, HeaderSize
<1>3. p \in Seq(Bytes)
  OBVIOUS
<1> HIDE DEF p
<1>4. p[1] = 0 /\ p[2] = 0 /\ p[3] = 0 /\ p[4] = 0 /\ p[5] = 0 /\ p[6] = 255
  <2> DEFINE q == SubSeq(p, 1, 6)
  <2>1. \A i \in 1..6 : q[i] = p[i]
    BY <1>2, <1>3
  <2>2. q = <<0, 0, 0, 0, 0, 255>>
    BY <1>2
  <2> HIDE DEF q
  <2>3. q[1] = 0 /\ q[2] = 0 /\ q[3] = 0 /\ q[4] = 0 /\ q[5] = 0 /\ q[6] = 255
    BY <2>2
  <2>4. QED
    BY <2>1, <2>3
<1>5. ASSUME NEW i \in 1..14 PROVE p[i] = s[first + i - 1]
  <2>1. last - first + 1 \in Nat /\ last - first + 1 >= 14
    BY <1>1, <1>2
  <2>2. i \in 1..(last - first + 1)
    BY <2>1
  <2>3. QED
    BY <1>1, <2>2, Zenon
<1>6. s[first + 5] = 255 /\ s[first + 11] = p[12] /\ s[first + 12] = p[13]
  <2>1. first + 6 - 1 = first + 5 /\ first + 12 - 1 = first + 11 /\ first + 13 - 1 = first + 12
    BY <1>1
  <2>2. p[6] = s[first + 6 - 1] /\ p[12] = s[first + 12 - 1] /\ p[13] = s[first + 13 - 1]
    BY <1>5
  <2>3. QED
    BY <1>4, <2>1, <2>2
<1>7. ASSUME NEW j \in first..(first + 4) PROVE s[j] = 0
  <2> DEFINE i == j - first + 1
  <2>1. i \in 1..5 /\ i \in 1..14 /\ first + i - 1 = j
    BY <1>1
  <2> HIDE DEF i
  <2>2. p[i] = s[first + i - 1]
    BY <2>1, <1>5, Zenon
  <2>3. p[i] = 0
    BY <2>1, <1>4
  <2>4. QED
    BY <2>1, <2>2, <2>3
<1>8. QED
  BY <1>1, <1>2, <1>6, <1>7

\* A piece that begins where a frame does is that frame.
LEMMA PieceAtFrame ==
    ASSUME NEW s \in Seq(Bytes), NEW f, NEW n, IsLaidOut(f, n), NEW before \in Nat,
           \A i \in 1..(n + 16) : s[before + i] = f[i],
           NEW last \in (before + 1)..Len(s), Parses(SubSeq(s, before + 1, last))
    PROVE  SubSeq(s, before + 1, last) = f
<1> DEFINE first == before + 1
           p == SubSeq(s, first, last)
<1>1. /\ f \in Seq(Bytes) /\ n \in Nat /\ Len(f) = n + 16 /\ ToUint16(f[12], f[13]) = n + 3
  BY DEF IsLaidOut
<1>2. first \in 1..Len(s) /\ last \in first..Len(s) /\ Parses(p)
  OBVIOUS
<1> HIDE DEF p
<1>3. ToUint16(s[first + 11], s[first + 12]) = last - first - 12
  <2> HIDE DEF first
  <2>1. QED
    BY <1>2, PieceThatParses DEF p
<1>4. first + 11 = before + 12 /\ first + 12 = before + 13
  OBVIOUS
<1>5. s[before + 12] = f[12] /\ s[before + 13] = f[13]
  BY <1>1
<1>6. n + 3 = last - first - 12
  BY <1>1, <1>3, <1>4, <1>5
<1>7. /\ p \in Seq(Bytes) /\ Len(p) = last - first + 1
      /\ \A i \in 1..(last - first + 1) : p[i] = s[first + i - 1]
  BY <1>2 DEF p
<1>8. Len(p) = Len(f) /\ \A i \in 1..Len(f) : p[i] = f[i]
  <2>1. Len(p) = n + 16
    BY <1>1, <1>6, <1>7
  <2>2. ASSUME NEW i \in 1..(n + 16) PROVE p[i] = f[i]
    <3>1. i \in 1..(last - first + 1) /\ first + i - 1 = before + i
      BY <1>1, <1>6
    <3>2. QED
      BY <3>1, <1>7
  <2>3. QED
    BY <1>1, <2>1, <2>2
<1>9. p = f
  BY <1>1, <1>7, <1>8
<1>10. QED
  BY <1>9 DEF p

LEMMA PieceOfOne ==
    ASSUME NEW f, NEW n, IsLaidOut(f, n), NEW first \in 1..Len(f), NEW last \in first..Len(f),
           Parses(SubSeq(f, first, last))
    PROVE  SubSeq(f, first, last) = f
<1>1. f \in Seq(Bytes) /\ n \in Nat /\ Len(f) = n + 16
  BY DEF IsLaidOut
<1>2. /\ first \in Nat /\ first + 13 <= n + 16
      /\ \A j \in first..(first + 4) : f[j] = 0
  BY <1>1, PieceThatParses
<1>3. first \in 1..(n + 14)
  BY <1>1, <1>2
<1>4. first = 0 + 1
  BY <1>2, <1>3, FrameBeginsOnce
<1>5. \A i \in 1..(n + 16) : f[0 + i] = f[i]
  BY <1>1
<1>6. 0 \in Nat /\ last \in (0 + 1)..Len(f) /\ Parses(SubSeq(f, 0 + 1, last))
  BY <1>4
<1>7. SubSeq(f, 0 + 1, last) = f
  BY <1>1, <1>5, <1>6, PieceAtFrame
<1>8. QED
  BY <1>4, <1>7

LEMMA PieceOfTwo ==
    ASSUME NEW f, NEW m, IsLaidOut(f, m), NEW g, NEW n, IsLaidOut(g, n),
           NEW first \in 1..Len(f \o g), NEW last \in first..Len(f \o g),
           Parses(SubSeq(f \o g, first, last))
    PROVE  SubSeq(f \o g, first, last) \in {f, g}
<1> DEFINE s == f \o g
<1>1. /\ f \in Seq(Bytes) /\ m \in Nat /\ Len(f) = m + 16
      /\ g \in Seq(Bytes) /\ n \in Nat /\ Len(g) = n + 16 /\ g[4] = 0 /\ g[5] = 0
  BY DEF IsLaidOut
<1>2. /\ s \in Seq(Bytes)
      /\ Len(s) = Len(f) + Len(g)
      /\ \A i \in 1..Len(f) : s[i] = f[i]
      /\ \A i \in 1..Len(g) : s[Len(f) + i] = g[i]
  <2>1. f \in Seq(Bytes) /\ g \in Seq(Bytes)
    BY <1>1
  <2>2. QED
    BY <2>1, Concat
<1>3. first \in 1..Len(s) /\ last \in first..Len(s) /\ Parses(SubSeq(s, first, last))
  OBVIOUS
<1> HIDE DEF s
<1>4. /\ Len(s) = m + n + 32
      /\ \A i \in 1..(m + 16) : s[i] = f[i]
      /\ \A i \in 1..(n + 16) : s[m + 16 + i] = g[i]
  BY <1>1, <1>2
<1>5. /\ first \in Nat /\ first + 13 <= Len(s)
      /\ \A j \in first..(first + 4) : s[j] = 0
      /\ s[first + 5] = 255
  BY <1>2, <1>3, PieceThatParses
<1>6. CASE first \in 1..(m + 14)
  <2>1. \A j \in first..(first + 4) : j \in 1..(m + 16) => f[j] = 0
    BY <1>4, <1>5
  <2>2. first = 1
    BY <1>6, <2>1, FrameBeginsOnce
  <2>3. first = 0 + 1 /\ \A i \in 1..(m + 16) : s[0 + i] = f[i]
    BY <1>1, <1>4, <2>2
  <2>4. SubSeq(s, 0 + 1, last) = f
    BY <1>2, <1>3, <2>3, PieceAtFrame
  <2>5. QED
    BY <2>3, <2>4 DEF s
<1>7. CASE first \in (m + 15)..(m + 16)
  <2>1. first + 5 = m + 16 + 4 \/ first + 5 = m + 16 + 5
    BY <1>1, <1>7
  <2>2. s[m + 16 + 4] = g[4] /\ s[m + 16 + 5] = g[5]
    BY <1>1, <1>4
  <2>3. QED
    BY <1>1, <1>5, <2>1, <2>2
<1>8. CASE first > m + 16
  <2> DEFINE i == first - (m + 16)
  <2>1. i \in 1..(n + 14) /\ first = m + 16 + i
    BY <1>1, <1>4, <1>5, <1>8
  <2> HIDE DEF i
  <2>2. ASSUME NEW j \in i..(i + 4), j \in 1..(n + 16) PROVE g[j] = 0
    <3>1. m + 16 + j \in first..(first + 4)
      BY <1>1, <2>1
    <3>2. QED
      BY <2>2, <3>1, <1>4, <1>5
  <2>3. i = 1
    BY <2>1, <2>2, FrameBeginsOnce
  <2>4. first = m + 16 + 1 /\ m + 16 \in Nat
    BY <1>1, <2>1, <2>3
  <2> DEFINE before == m + 16
  <2>5. /\ before \in Nat /\ last \in (before + 1)..Len(s) /\ Parses(SubSeq(s, before + 1, last))
        /\ \A j \in 1..(n + 16) : s[before + j] = g[j]
    BY <1>3, <1>4, <2>4
  <2> HIDE DEF before
  <2>6. SubSeq(s, before + 1, last) = g
    BY <1>2, <2>5, PieceAtFrame
  <2>7. QED
    BY <2>4, <2>6 DEF s, before
<1>9. first \in Int /\ 1 <= first
  BY <1>3, <1>5
<1>10. first \in 1..(m + 14) \/ first \in (m + 15)..(m + 16) \/ first > m + 16
  BY <1>1, <1>9
<1>11. QED
  BY <1>10, <1>6, <1>7, <1>8

LEMMA PayloadOfNone == Payload(<<>>) = <<>>
<1>1. <<>> \in Seq(ValueSet) /\ Len(<<>>) = 0
  OBVIOUS
<1>2. PICK data : IsPayloadOf(data, <<>>) /\ Payload(<<>>) = data[Len(<<>>)]
  BY <1>1, PayloadFromItsEnd
<1>3. QED
  BY <1>1, <1>2 DEF IsPayloadOf

LEMMA PayloadOfTwo ==
    ASSUME NEW v \in ValueSet, NEW w \in ValueSet
    PROVE  <<v, w>> \in Seq(ValueSet) /\ Payload(<<v, w>>) = Encode(v) \o Encode(w)
<1> DEFINE values == <<v, w>>
<1>1. values \in Seq(ValueSet) /\ Len(values) = 2 /\ values[1] = v /\ values[2] = w
  OBVIOUS
<1> HIDE DEF values
<1>2. PICK data : IsPayloadOf(data, values) /\ Payload(values) = data[Len(values)]
  BY <1>1, PayloadFromItsEnd
<1>3. /\ data[0] = <<>>
      /\ \A n \in 1..Len(values) : data[n] = Encode(values[Len(values) - n + 1]) \o data[n - 1]
  BY <1>2, Zenon DEF IsPayloadOf
<1>4. data[1] = Encode(w) \o data[0] /\ data[2] = Encode(v) \o data[1]
  <2>1. 1 \in 1..Len(values) /\ 2 \in 1..Len(values)
    BY <1>1
  <2>2. /\ data[1] = Encode(values[Len(values) - 1 + 1]) \o data[1 - 1]
        /\ data[2] = Encode(values[Len(values) - 2 + 1]) \o data[2 - 1]
    BY <1>3, <2>1, Zenon
  <2>3. Len(values) - 1 + 1 = 2 /\ 1 - 1 = 0 /\ Len(values) - 2 + 1 = 1 /\ 2 - 1 = 1
    BY <1>1
  <2>4. QED
    BY <1>1, <2>2, <2>3, Zenon
<1>5. Encode(w) \in Seq(Bytes)
  BY EncodeType
<1>6. data[1] = Encode(w)
  <2>1. data[1] = Encode(w) \o <<>>
    BY <1>3, <1>4
  <2>2. QED
    BY <2>1, <1>5
<1>7. data[2] = Encode(v) \o Encode(w)
  BY <1>4, <1>6
<1>8. QED
  BY <1>1, <1>2, <1>7 DEF values

\* A value that fits into its last byte.
LEMMA SmallInt32Bytes ==
    ASSUME NEW n \in Bytes
    PROVE  Int32Bytes(n) = <<0, 0, 0, n>>
<1>1. n \in Int /\ 0 <= n /\ n <= 255
  BY BytesAre
<1>2. /\ (n \div 16777216) % 256 = 0 /\ (n \div 65536) % 256 = 0
      /\ (n \div 256) % 256 = 0 /\ n % 256 = n
  BY <1>1
<1>3. QED
  BY <1>2 DEF Int32Bytes

LEMMA SmallValues ==
    ASSUME NEW id \in Bytes, NEW n \in Bytes
    PROVE  /\ Num1(id, n) \in ValueSet
           /\ Encode(Num1(id, n)) = <<id, 1, 0, 0, 0, n, 255>>
           /\ Num3(id, n) \in ValueSet
           /\ Encode(Num3(id, n)) = <<id, 3, 0, 0, 0, 0, 255, 0, 0, 0, n, 255>>
<1>1. n \in Int32s
  BY BytesAre, Int32sAre
<1>2. Num1(id, n) \in ValueSet /\ Num3(id, n) \in ValueSet
  BY <1>1 DEF Num1, Num3, ValueSet, NumberValues
<1>3. \A i \in 1..4 : Int32Bytes(n)[i] = IF i = 4 THEN n ELSE 0
  BY SmallInt32Bytes
<1>4. Encode(Num1(id, n)) = <<id, 1, 0, 0, 0, n, 255>>
  <2> DEFINE v == Num1(id, n)
             e == Encode(v)
  <2>1. v \in NumberValues /\ v.tag = "num1" /\ v.id = id /\ v.val = n
    BY <1>1 DEF Num1, NumberValues
  <2> HIDE DEF v
  <2>2. /\ e \in Seq(Bytes) /\ Len(e) = 7 /\ e[1] = id /\ e[2] = 1 /\ e[7] = 255
        /\ \A i \in 1..4 : e[i + 2] = Int32Bytes(n)[i]
    BY <2>1, EncodeNum1
  <2> HIDE DEF e
  <2>3. e[3] = 0 /\ e[4] = 0 /\ e[5] = 0 /\ e[6] = n
    BY <1>3, <2>2
  <2>4. e = <<id, 1, 0, 0, 0, n, 255>>
    BY <2>2, <2>3
  <2>5. QED
    BY <2>4 DEF e, v
<1>5. Encode(Num3(id, n)) = <<id, 3, 0, 0, 0, 0, 255, 0, 0, 0, n, 255>>
  <2> DEFINE v == Num3(id, n)
             e == Encode(v)
  <2>1. v \in NumberValues /\ v.tag = "num3" /\ v.id = id /\ v.val = n
    BY <1>1 DEF Num3, NumberValues
  <2> HIDE DEF v
  <2>2. /\ e \in Seq(Bytes) /\ Len(e) = 12 /\ e[1] = id /\ e[2] = 3 /\ e[7] = 255 /\ e[12] = 255
        /\ \A i \in 3..6 : e[i] = 0
        /\ \A i \in 1..4 : e[i + 7] = Int32Bytes(n)[i]
    BY <2>1, EncodeNum3, SMTT(20)
  <2> HIDE DEF e
  <2>3. e[8] = 0 /\ e[9] = 0 /\ e[10] = 0 /\ e[11] = n /\ e[3] = 0 /\ e[4] = 0 /\ e[5] = 0 /\ e[6] = 0
    BY <1>3, <2>2
  <2>4. e = <<id, 3, 0, 0, 0, 0, 255, 0, 0, 0, n, 255>>
    BY <2>2, <2>3
  <2>5. QED
    BY <2>4 DEF e, v
<1>6. QED
  BY <1>2, <1>4, <1>5

LEMMA DataOfRequests ==
    ASSUME NEW id \in Bytes
    PROVE  /\ <<Num1(0, id), Num3(1, 0)>> \in Seq(ValueSet)
           /\ Payload(<<Num1(0, id), Num3(1, 0)>>) = DeviceData(id)
           /\ <<Num1(1, id), Num1(2, 0)>> \in Seq(ValueSet)
           /\ Payload(<<Num1(1, id), Num1(2, 0)>>) = SensorData(id)
<1>1. 0 \in Bytes /\ 1 \in Bytes /\ 2 \in Bytes
  BY BytesAre
<1>2. /\ Num1(0, id) \in ValueSet /\ Encode(Num1(0, id)) = <<0, 1, 0, 0, 0, id, 255>>
      /\ Num3(1, 0) \in ValueSet /\ Encode(Num3(1, 0)) = <<1, 3, 0, 0, 0, 0, 255, 0, 0, 0, 0, 255>>
      /\ Num1(1, id) \in ValueSet /\ Encode(Num1(1, id)) = <<1, 1, 0, 0, 0, id, 255>>
      /\ Num1(2, 0) \in ValueSet /\ Encode(Num1(2, 0)) = <<2, 1, 0, 0, 0, 0, 255>>
  <2>1. Num1(0, id) \in ValueSet /\ Encode(Num1(0, id)) = <<0, 1, 0, 0, 0, id, 255>>
    BY <1>1, SmallValues, Zenon
  <2>2. Num3(1, 0) \in ValueSet /\ Encode(Num3(1, 0)) = <<1, 3, 0, 0, 0, 0, 255, 0, 0, 0, 0, 255>>
    BY <1>1, SmallValues, Zenon
  <2>3. Num1(1, id) \in ValueSet /\ Encode(Num1(1, id)) = <<1, 1, 0, 0, 0, id, 255>>
    BY <1>1, SmallValues, Zenon
  <2>4. Num1(2, 0) \in ValueSet /\ Encode(Num1(2, 0)) = <<2, 1, 0, 0, 0, 0, 255>>
    BY <1>1, SmallValues, Zenon
  <2>5. QED
    BY <2>1, <2>2, <2>3, <2>4, Zenon
<1>3. /\ <<Num1(0, id), Num3(1, 0)>> \in Seq(ValueSet)
      /\ Payload(<<Num1(0, id), Num3(1, 0)>>) = Encode(Num1(0, id)) \o Encode(Num3(1, 0))
      /\ <<Num1(1, id), Num1(2, 0)>> \in Seq(ValueSet)
      /\ Payload(<<Num1(1, id), Num1(2, 0)>>) = Encode(Num1(1, id)) \o Encode(Num1(2, 0))
  <2>1. /\ <<Num1(0, id), Num3(1, 0)>> \in Seq(ValueSet)
        /\ Payload(<<Num1(0, id), Num3(1, 0)>>) = Encode(Num1(0, id)) \o Encode(Num3(1, 0))
    BY <1>2, PayloadOfTwo, Zenon
  <2>2. /\ <<Num1(1, id), Num1(2, 0)>> \in Seq(ValueSet)
        /\ Payload(<<Num1(1, id), Num1(2, 0)>>) = Encode(Num1(1, id)) \o Encode(Num1(2, 0))
    BY <1>2, PayloadOfTwo, Zenon
  <2>3. QED
    BY <2>1, <2>2, Zenon
<1>4. <<0, 1, 0, 0, 0, id, 255>> \o <<1, 3, 0, 0, 0, 0, 255, 0, 0, 0, 0, 255>> = DeviceData(id)
  <2> DEFINE s == <<0, 1, 0, 0, 0, id, 255>>
             t == <<1, 3, 0, 0, 0, 0, 255, 0, 0, 0, 0, 255>>
             r == s \o t
  <2>1. /\ s \in Seq(Bytes) /\ Len(s) = 7
        /\ s[1] = 0 /\ s[2] = 1 /\ s[3] = 0 /\ s[4] = 0 /\ s[5] = 0 /\ s[6] = id /\ s[7] = 255
    BY BytesAre
  <2>2. /\ t \in Seq(Bytes) /\ Len(t) = 12 /\ t[1] = 1 /\ t[2] = 3 /\ t[7] = 255 /\ t[12] = 255
        /\ t[3] = 0 /\ t[4] = 0 /\ t[5] = 0 /\ t[6] = 0 /\ t[8] = 0 /\ t[9] = 0 /\ t[10] = 0 /\ t[11] = 0
    BY BytesAre
  <2> HIDE DEF s, t
  <2>3. /\ r \in Seq(Bytes) /\ Len(r) = Len(s) + Len(t)
        /\ \A i \in 1..Len(s) : r[i] = s[i]
        /\ \A i \in 1..Len(t) : r[Len(s) + i] = t[i]
    <3>1. s \in Seq(Bytes) /\ t \in Seq(Bytes)
      BY <2>1, <2>2
    <3>2. QED
      BY <3>1, Concat
  <2> HIDE DEF r
  <2>4. /\ r \in Seq(Bytes) /\ Len(r) = 19
        /\ \A i \in 1..7 : r[i] = s[i]
        /\ \A i \in 1..12 : r[7 + i] = t[i]
    BY <2>1, <2>2, <2>3
  <2>5. /\ r[1] = 0 /\ r[2] = 1 /\ r[3] = 0 /\ r[4] = 0 /\ r[5] = 0 /\ r[6] = id /\ r[7] = 255
        /\ r[8] = 1 /\ r[9] = 3 /\ r[10] = 0 /\ r[11] = 0 /\ r[12] = 0 /\ r[13] = 0 /\ r[14] = 255
        /\ r[15] = 0 /\ r[16] = 0 /\ r[17] = 0 /\ r[18] = 0 /\ r[19] = 255
    BY <2>1, <2>2, <2>4
  <2>6. r = <<0, 1, 0, 0, 0, id, 255, 1, 3, 0, 0, 0, 0, 255, 0, 0, 0, 0, 255>>
    BY <2>4, <2>5
  <2>7. QED
    BY <2>6 DEF r, s, t, DeviceData
<1>5. <<1, 1, 0, 0, 0, id, 255>> \o <<2, 1, 0, 0, 0, 0, 255>> = SensorData(id)
  <2> DEFINE s == <<1, 1, 0, 0, 0, id, 255>>
             t == <<2, 1, 0, 0, 0, 0, 255>>
             r == s \o t
  <2>1. /\ s \in Seq(Bytes) /\ Len(s) = 7
        /\ s[1] = 1 /\ s[2] = 1 /\ s[3] = 0 /\ s[4] = 0 /\ s[5] = 0 /\ s[6] = id /\ s[7] = 255
    BY BytesAre
  <2>2. /\ t \in Seq(Bytes) /\ Len(t) = 7
        /\ t[1] = 2 /\ t[2] = 1 /\ t[3] = 0 /\ t[4] = 0 /\ t[5] = 0 /\ t[6] = 0 /\ t[7] = 255
    BY BytesAre
  <2> HIDE DEF s, t
  <2>3. /\ r \in Seq(Bytes) /\ Len(r) = Len(s) + Len(t)
        /\ \A i \in 1..Len(s) : r[i] = s[i]
        /\ \A i \in 1..Len(t) : r[Len(s) + i] = t[i]
    <3>1. s \in Seq(Bytes) /\ t \in Seq(Bytes)
      BY <2>1, <2>2
    <3>2. QED
      BY <3>1, Concat
  <2> HIDE DEF r
  <2>4. /\ r \in Seq(Bytes) /\ Len(r) = 14
        /\ \A i \in 1..7 : r[i] = s[i]
        /\ \A i \in 1..7 : r[7 + i] = t[i]
    BY <2>1, <2>2, <2>3
  <2>5. /\ r[1] = 1 /\ r[2] = 1 /\ r[3] = 0 /\ r[4] = 0 /\ r[5] = 0 /\ r[6] = id /\ r[7] = 255
        /\ r[8] = 2 /\ r[9] = 1 /\ r[10] = 0 /\ r[11] = 0 /\ r[12] = 0 /\ r[13] = 0 /\ r[14] = 255
    BY <2>1, <2>2, <2>4
  <2>6. r = <<1, 1, 0, 0, 0, id, 255, 2, 1, 0, 0, 0, 0, 255>>
    BY <2>4, <2>5
  <2>7. QED
    BY <2>6 DEF r, s, t, SensorData
<1>6. QED
  BY <1>2, <1>3, <1>4, <1>5

\* Who writes frames.
Origins == {<<4, 140, 85, 75>>, <<133, 222, 195, 70>>}

LEMMA OriginBytes ==
    ASSUME NEW origin \in Origins
    PROVE  \A i \in 1..4 : origin[i] \in Bytes \ {0}
<1>1. CASE origin = <<4, 140, 85, 75>>
  BY <1>1, BytesAre
<1>2. CASE origin = <<133, 222, 195, 70>>
  BY <1>2, BytesAre
<1>3. QED
  BY <1>1, <1>2 DEF Origins

\* The frame f carries values under a type, and is laid out for them.
Carries(f, type, values) ==
    /\ type \in Types
    /\ values \in Seq(ValueSet)
    /\ f.msg = [type |-> type, values |-> values]
    /\ IsFrameOf(f.bytes, type, Payload(values))
    /\ \E origin \in Origins : \A i \in 1..4 : f.bytes[i + 7] = origin[i]

LEMMA FrameOfValues ==
    ASSUME NEW type \in Types, NEW origin \in Origins,
           NEW values \in Seq(ValueSet), Len(Payload(values)) + 3 <= MaxUint16
    PROVE  Carries([msg |-> [type |-> type, values |-> values],
                    bytes |-> Frame(type, origin, Payload(values))], type, values)
<1>1. Payload(values) \in Seq(Bytes) /\ Closed(Payload(values))
  BY PayloadClosed
<1>2. /\ IsFrameOf(Frame(type, origin, Payload(values)), type, Payload(values))
      /\ \A i \in 1..4 : Frame(type, origin, Payload(values))[i + 7] = origin[i]
  BY <1>1, OriginBytes, FrameIsLaidOut
<1>3. QED
  BY <1>2, Zenon DEF Carries

LEMMA RequestsCarry ==
    ASSUME NEW f \in Requests
    PROVE  Len(f.bytes) <= 35 /\ \E type, values : Carries(f, type, values)
<1> DEFINE origin == <<4, 140, 85, 75>>
           Small(data) == Len(data) <= 19
<1>1. origin \in Origins
  BY DEF Origins
<1> HIDE DEF Small
<1>2. ASSUME NEW type \in Types, NEW values \in Seq(ValueSet), NEW data,
             data = Payload(values), Small(data)
      PROVE  /\ Carries(Written(type, values, data), type, values)
             /\ Len(Written(type, values, data).bytes) <= 35
  <2> DEFINE n == Len(Payload(values))
             w == Written(type, values, data)
  <2>1. n \in Nat /\ n <= 19
    <3>1. Payload(values) \in Seq(Bytes)
      BY PayloadClosed
    <3>2. QED
      BY <3>1, <1>2 DEF Small
  <2>2. Written(type, values, data) =
          [msg |-> [type |-> type, values |-> values], bytes |-> Frame(type, origin, Payload(values))]
    BY <1>2, Zenon DEF Written, WriteMessageData
  <2>3. n + 3 <= MaxUint16
    BY <2>1 DEF MaxUint16
  <2> HIDE DEF origin, w
  <2>4. Carries(w, type, values)
    BY <1>1, <2>2, <2>3, FrameOfValues DEF w
  <2>5. Len(w.bytes) = n + 16
    BY <2>4, Zenon DEF Carries, IsFrameOf, IsLaidOut
  <2>6. QED
    BY <2>1, <2>4, <2>5 DEF w
<1>3. Small(<<>>)
  BY DEF Small
<1>4. \A id : Small(DeviceData(id)) /\ Small(SensorData(id))
  BY DEF Small, DeviceData, SensorData
<1>5. ASSUME NEW type \in {"system_information", "count_information", "sensor_state"},
             f = Written(type, <<>>, <<>>)
      PROVE  Len(f.bytes) <= 35 /\ Carries(f, type, <<>>)
  <2>1. type \in Types
    BY DEF Types, MessageTypeCode
  <2>2. <<>> \in Seq(ValueSet)
    OBVIOUS
  <2>3. QED
    BY <1>2, <1>3, <1>5, <2>1, <2>2, PayloadOfNone
<1>6. ASSUME NEW id \in RequestIds,
             f = Written("device_information", <<Num1(0, id), Num3(1, 0)>>, DeviceData(id))
      PROVE  Len(f.bytes) <= 35 /\ Carries(f, "device_information", <<Num1(0, id), Num3(1, 0)>>)
  <2>1. "device_information" \in Types
    BY DEF Types, MessageTypeCode
  <2>2. id \in Bytes
    BY IdsAndDamagesAreBytes
  <2>3. QED
    BY <1>2, <1>4, <1>6, <2>1, <2>2, DataOfRequests, Zenon
<1>7. ASSUME NEW id \in RequestIds,
             f = Written("sensor_information", <<Num1(1, id), Num1(2, 0)>>, SensorData(id))
      PROVE  Len(f.bytes) <= 35 /\ Carries(f, "sensor_information", <<Num1(1, id), Num1(2, 0)>>)
  <2>1. "sensor_information" \in Types
    BY DEF Types, MessageTypeCode
  <2>2. id \in Bytes
    BY IdsAndDamagesAreBytes
  <2>3. QED
    BY <1>2, <1>4, <1>7, <2>1, <2>2, DataOfRequests, Zenon
<1>8. QED
  BY <1>5, <1>6, <1>7 DEF Requests

LEMMA AnswersCarry ==
    ASSUME NEW msg \in Answers
    PROVE  Carries(PicoFrame(msg), msg.type, msg.values)
<1> DEFINE origin == <<133, 222, 195, 70>>
           values == msg.values
<1>1. /\ msg = [type |-> msg.type, values |-> [k \in 1..Len(msg.values) |-> msg.values[k]]]
      /\ msg.type \in Types
      /\ Len(msg.values) \in Nat
      /\ \A k \in 1..Len(msg.values) :
           IF msg.values[k].tag = "text" THEN msg.values[k] \in TextValues
                                         ELSE msg.values[k] \in NumberValues
      /\ Len(Payload(msg.values)) + 3 <= MaxUint16
  BY AnswersAreMessages, Zenon DEF Types
<1>2. values = [k \in 1..Len(values) |-> values[k]]
  <2>1. msg.values = [type |-> msg.type, values |-> [k \in 1..Len(msg.values) |-> msg.values[k]]].values
    BY <1>1, Zenon
  <2>2. QED
    BY <2>1
<1>3. \A k \in 1..Len(values) : values[k] \in ValueSet
  BY <1>1 DEF ValueSet
<1>4. values \in Seq(ValueSet)
  <2> HIDE DEF values
  <2>1. Len(values) \in Nat
    BY <1>1 DEF values
  <2>2. values \in [1..Len(values) -> ValueSet]
    BY <1>2, <1>3
  <2>3. QED
    BY <2>1, <2>2, SeqDef
<1>5. msg = [type |-> msg.type, values |-> values]
  BY <1>1, <1>2, Zenon
<1>6. origin \in Origins
  BY DEF Origins
<1>7. Carries([msg |-> [type |-> msg.type, values |-> values],
               bytes |-> Frame(msg.type, origin, Payload(values))], msg.type, values)
  <2> HIDE DEF origin
  <2>1. QED
    BY <1>1, <1>4, <1>6, FrameOfValues
<1>8. PicoFrame(msg) = [msg |-> msg, bytes |-> Frame(msg.type, origin, Payload(values))]
  BY Zenon DEF PicoFrame
<1>9. QED
  BY <1>5, <1>7, <1>8, Zenon

LEMMA FramesCarry ==
    ASSUME NEW f \in Frames
    PROVE  \E type, values : Carries(f, type, values)
<1>1. CASE f \in Requests
  BY <1>1, RequestsCarry
<1>2. ASSUME NEW msg \in Answers, f = PicoFrame(msg)
      PROVE  \E type, values : Carries(f, type, values)
  BY <1>2, AnswersCarry, Zenon
<1>3. QED
  BY <1>1, <1>2 DEF Frames
LEMMA PayloadOfFrame ==
    ASSUME NEW p \in Seq(Bytes), NEW n \in Nat, Len(p) = n + 16, ToUint16(p[12], p[13]) = n + 3
    PROVE  /\ PayloadCount(p) = n
           /\ PayloadOf(p) = SubSeq(p, 15, n + 14)
<1>1. n + 3 <= 65535
  <2> DEFINE hi == p[12]
             lo == p[13]
  <2>1. hi \in Bytes /\ lo \in Bytes
    OBVIOUS
  <2>2. hi \in Int /\ hi <= 255 /\ lo \in Int /\ lo <= 255 /\ 256 * hi + lo = n + 3
    BY <2>1, BytesAre, Zenon DEF ToUint16
  <2> HIDE DEF hi, lo
  <2>3. QED
    BY <2>2
<1>2. PayloadCount(p) = n /\ n # DynamicExtent
  <2>1. n \in Int /\ 0 <= n /\ n <= 65532
    BY <1>1
  <2>2. (n + 16 + 65536 - 2 - 14) % 65536 = n
    BY <2>1
  <2>3. PayloadCount(p) = n
    BY <2>2 DEF PayloadCount, SizeSpace, HeaderSize
  <2>4. n # DynamicExtent
    BY <2>1 DEF DynamicExtent, SizeSpace
  <2>5. QED
    BY <2>3, <2>4
<1>3. PayloadOf(p) = SubSeq(p, HeaderSize + 1, HeaderSize + n)
  BY <1>2, Zenon DEF PayloadOf
<1>4. HeaderSize + 1 = 15 /\ HeaderSize + n = n + 14
  BY DEF HeaderSize
<1>5. QED
  BY <1>2, <1>3, <1>4, Zenon

\* What parses is parsed to what a frame carries if it is that frame up to the
\* last delimiter.
LEMMA FrameReadBack ==
    ASSUME NEW f, NEW type, NEW values, Carries(f, type, values),
           NEW p \in Seq(Bytes), Len(p) = Len(f.bytes), Parses(p),
           \A i \in 1..(Len(f.bytes) - 3) : p[i] = f.bytes[i]
    PROVE  ParseMessage(p) = Meant(f.msg)
<1> DEFINE data == Payload(values)
           n == Len(data)
           b == f.bytes
<1>1. /\ type \in Types /\ values \in Seq(ValueSet) /\ data \in Seq(Bytes)
      /\ f.msg = [type |-> type, values |-> values] /\ IsFrameOf(b, type, data)
  BY PayloadClosed DEF Carries
<1>2. /\ n \in Nat /\ Len(b) = n + 16
      /\ ToUint16(b[12], b[13]) = n + 3
      /\ b[7] = MessageTypeCode[type]
      /\ \A i \in 1..n : b[14 + i] = data[i]
  BY <1>1 DEF IsFrameOf, IsLaidOut
<1>3. TypesOf(p) = TypesOf(b) /\ TypesOf(b) = {type}
  <2>1. TypesOf(b) = {type}
    BY <1>1, FrameParses
  <2>2. p[7] = b[7]
    <3> HIDE DEF n
    <3>1. 7 \in 1..(Len(b) - 3)
      BY <1>2
    <3>2. QED
      BY <3>1, Zenon
  <2>3. QED
    BY <2>1, <2>2, Zenon DEF TypesOf
<1> HIDE DEF n, b
<1>4. Len(p) = n + 16 /\ \A i \in 1..(n + 13) : p[i] = b[i]
  BY <1>2 DEF b
<1>5. ToUint16(p[12], p[13]) = n + 3
  BY <1>2, <1>4
<1>6. PayloadOf(p) = SubSeq(p, 15, n + 14)
  BY <1>2, <1>4, <1>5, PayloadOfFrame
<1>7. AllButLast(PayloadOf(p), data)
  <2> DEFINE r == SubSeq(p, 15, n + 14)
  <2>1. r \in Seq(Bytes) /\ Len(r) = n /\ \A i \in 1..n : r[i] = p[15 + i - 1]
    BY <1>2, <1>4
  <2> HIDE DEF r
  <2>2. ASSUME NEW i \in 1..(n - 1) PROVE r[i] = data[i]
    <3>1. 15 + i - 1 = 14 + i /\ i \in 1..n /\ 14 + i \in 1..(n + 13)
      BY <1>2
    <3>2. QED
      BY <3>1, <2>1, <1>2, <1>4
  <2>3. AllButLast(r, data)
    BY <2>1, <2>2 DEF AllButLast, n
  <2>4. QED
    BY <1>6, <2>3 DEF r
<1>8. Values(PayloadOf(p)) = [k \in DOMAIN values |-> AsRead(values[k])]
  BY <1>1, <1>7, PayloadReadBack
<1> HIDE DEF data
<1>9. (CHOOSE t \in TypesOf(p) : TRUE) = type
  BY <1>3
<1>10. ParseMessage(p) = [type |-> type, values |-> [k \in DOMAIN values |-> AsRead(values[k])]]
  BY <1>8, <1>9, Zenon DEF ParseMessage
<1>11. Meant(f.msg) = [type |-> type, values |-> [k \in DOMAIN values |-> AsRead(values[k])]]
  BY <1>1 DEF Meant
<1>12. QED
  BY <1>10, <1>11

(***************************************************************************)
(* The CRCs of headers                                                     *)
(***************************************************************************)

XorOf(a, b) ==
    XorBit(a, b, 1) + XorBit(a, b, 2) + XorBit(a, b, 4) + XorBit(a, b, 8)
      + XorBit(a, b, 16) + XorBit(a, b, 32) + XorBit(a, b, 64) + XorBit(a, b, 128)

ShiftedOut(w) ==
    ShiftOut(ShiftOut(ShiftOut(ShiftOut(ShiftOut(ShiftOut(ShiftOut(ShiftOut(w))))))))

\* The step as arithmetic, to be carried out on given numbers.
LEMMA CrcStepAs ==
    ASSUME NEW c \in Int, 0 <= c, c <= 65535, NEW b \in Int, 0 <= b, b <= 255
    PROVE  CrcStep(c, b) = ShiftedOut(256 * XorOf(c \div 256, b) + (c % 256))
<1>1. c \in Words /\ b \in Bytes
  BY WordsAre, BytesAre
<1>2. /\ c \div 256 \in Bytes /\ c % 256 \in Bytes
      /\ 256 * b \in Words /\ (256 * b) \div 256 = b /\ (256 * b) % 256 = 0
  BY <1>1, Halves, BytesAre, WordsAre
<1>3. XorByte[c \div 256][b] = XorOf(c \div 256, b)
  <2> DEFINE h == c \div 256
  <2>1. h \in Bytes
    BY <1>2
  <2> HIDE DEF h
  <2>2. XorByte[h][b] = XorOf(h, b)
    BY <1>1, <2>1 DEF XorByte, XorOf
  <2>3. QED
    BY <2>2 DEF h
<1>4. XorByte[c % 256][0] = c % 256
  BY <1>2, XorNothing
<1>5. Xor16(c, 256 * b) = 256 * XorOf(c \div 256, b) + (c % 256)
  <2>1. Xor16(c, 256 * b) = 256 * XorByte[c \div 256][b] + XorByte[c % 256][0]
    BY <1>2 DEF Xor16
  <2>2. QED
    BY <2>1, <1>3, <1>4
<1>6. Xor16(c, 256 * b) \in Words
  BY <1>1, <1>2, Xor16Type
<1>7. QED
  BY <1>5, <1>6 DEF CrcStep, ShiftOutByte, ShiftedOut

\* A bit turned over.
Turned(t, bit) == bit * (1 - (2 * ((t \div bit) % 2)))

\* The polynomial turns over five bits.
LEMMA ShiftOutAs ==
    ASSUME NEW c \in Int, 0 <= c, c <= 65535
    PROVE  ShiftOut(c) =
             IF c < 32768
               THEN 2 * c
               ELSE 2 * c - 65536 + 1 + Turned(2 * c - 65536, 8) + Turned(2 * c - 65536, 128)
                      + Turned(2 * c - 65536, 256) + Turned(2 * c - 65536, 4096)
<1>1. CASE c < 32768
  BY <1>1 DEF ShiftOut
<1>2. CASE c >= 32768
  <2> DEFINE t == 2 * c - 65536
             hi == t \div 256
             lo == t % 256
  <2>1. t \in Words /\ t % 2 = 0 /\ (2 * c) % 65536 = t /\ t \in Int
    BY <1>2, WordsAre
  <2> HIDE DEF t
  <2>2. hi \in Bytes /\ lo \in Bytes /\ t = 256 * hi + lo
    BY <2>1, Halves
  <2>3. ShiftOut(c) = 256 * XorByte[hi][17] + XorByte[lo][137]
    <3>1. Poly \div 256 = 17 /\ Poly % 256 = 137
      BY DEF Poly
    <3>2. ShiftOut(c) = Xor16(t, Poly)
      BY <1>2, <2>1 DEF ShiftOut
    <3>3. Xor16(t, Poly) = 256 * XorByte[t \div 256][17] + XorByte[t % 256][137]
      BY <3>1 DEF Xor16
    <3>4. QED
      BY <3>2, <3>3
  <2>4. XorByte[hi][17] = XorOf(hi, 17) /\ XorByte[lo][137] = XorOf(lo, 137)
    <3>1. 17 \in Bytes /\ 137 \in Bytes
      BY BytesAre
    <3> HIDE DEF hi, lo
    <3>2. QED
      BY <3>1, <2>2 DEF XorByte, XorOf
  <2>5. /\ Turned(t, 8) = Turned(lo, 8) /\ Turned(t, 128) = Turned(lo, 128)
        /\ Turned(t, 256) = 256 * Turned(hi, 1) /\ Turned(t, 4096) = 256 * Turned(hi, 16)
        /\ lo % 2 = 0
    BY <2>1 DEF Turned
  <2>6. hi \in Int /\ 0 <= hi /\ hi <= 255 /\ lo \in Int /\ 0 <= lo /\ lo <= 255
    BY <2>2, BytesAre
  <2> HIDE DEF hi, lo
  <2>7. XorOf(hi, 17) = hi + Turned(hi, 1) + Turned(hi, 16)
    BY <2>6 DEF XorOf, XorBit, Turned
  <2>8. XorOf(lo, 137) = lo + 1 + Turned(lo, 8) + Turned(lo, 128)
    BY <2>5, <2>6 DEF XorOf, XorBit, Turned
  <2>9. /\ Turned(hi, 1) \in Int /\ Turned(hi, 16) \in Int
        /\ Turned(lo, 8) \in Int /\ Turned(lo, 128) \in Int
    BY <2>6 DEF Turned
  <2>10. ShiftOut(c) = t + 1 + Turned(t, 8) + Turned(t, 128) + Turned(t, 256) + Turned(t, 4096)
    BY <2>2, <2>3, <2>4, <2>5, <2>6, <2>7, <2>8, <2>9
  <2>11. QED
    BY <1>2, <2>10 DEF t
<1>3. QED
  BY <1>1, <1>2

LEMMA CrcOfBeginning == CrcStep(0, 255) = 36720
<1>1. CrcStep(0, 255) = ShiftedOut(65280)
  BY CrcStepAs DEF XorOf, XorBit
<1>2. ShiftedOut(65280) = 36720
  BY ShiftOutAs DEF ShiftedOut, Turned
<1>3. QED
  BY <1>1, <1>2

\* Type and origin of a request, type by type, and a 0 byte behind them.
LEMMA CrcOfRequests ==
    /\ /\ CrcStep(36720, 1) = 53686
       /\ CrcStep(53686, 4) = 33816
       /\ CrcStep(33816, 140) = 37960
       /\ CrcStep(37960, 85) = 13605
       /\ CrcStep(13605, 75) = 62257
       /\ CrcStep(62257, 0) = 29724
    /\ /\ CrcStep(36720, 2) = 58157
       /\ CrcStep(58157, 4) = 10017
       /\ CrcStep(10017, 140) = 50473
       /\ CrcStep(50473, 85) = 26833
       /\ CrcStep(26833, 75) = 61865
       /\ CrcStep(61865, 0) = 53006
    /\ /\ CrcStep(36720, 65) = 62930
       /\ CrcStep(62930, 4) = 46094
       /\ CrcStep(46094, 140) = 39267
       /\ CrcStep(39267, 85) = 50624
       /\ CrcStep(50624, 75) = 25014
       /\ CrcStep(25014, 0) = 37343
    /\ /\ CrcStep(36720, 32) = 53773
       /\ CrcStep(53773, 4) = 3459
       /\ CrcStep(3459, 140) = 55873
       /\ CrcStep(55873, 85) = 61759
       /\ CrcStep(61759, 75) = 50105
       /\ CrcStep(50105, 0) = 59191
    /\ /\ CrcStep(36720, 176) = 37852
       /\ CrcStep(37852, 4) = 59758
       /\ CrcStep(59758, 140) = 4091
       /\ CrcStep(4091, 85) = 31015
       /\ CrcStep(31015, 75) = 7993
       /\ CrcStep(7993, 0) = 51438
<1>1. /\ CrcStep(36720, 1) = ShiftedOut(36464) /\ CrcStep(53686, 4) = ShiftedOut(54710)
      /\ CrcStep(33816, 140) = ShiftedOut(2072) /\ CrcStep(37960, 85) = ShiftedOut(49480)
      /\ CrcStep(13605, 75) = ShiftedOut(32293) /\ CrcStep(62257, 0) = ShiftedOut(62257)
  BY CrcStepAs DEF XorOf, XorBit
<1>2. /\ CrcStep(36720, 2) = ShiftedOut(36208) /\ CrcStep(58157, 4) = ShiftedOut(59181)
      /\ CrcStep(10017, 140) = ShiftedOut(43809) /\ CrcStep(50473, 85) = ShiftedOut(36905)
      /\ CrcStep(26833, 75) = ShiftedOut(9169) /\ CrcStep(61865, 0) = ShiftedOut(61865)
  BY CrcStepAs DEF XorOf, XorBit
<1>3. /\ CrcStep(36720, 65) = ShiftedOut(52848) /\ CrcStep(62930, 4) = ShiftedOut(61906)
      /\ CrcStep(46094, 140) = ShiftedOut(14350) /\ CrcStep(39267, 85) = ShiftedOut(52323)
      /\ CrcStep(50624, 75) = ShiftedOut(36544) /\ CrcStep(25014, 0) = ShiftedOut(25014)
  BY CrcStepAs DEF XorOf, XorBit
<1>4. /\ CrcStep(36720, 32) = ShiftedOut(44912) /\ CrcStep(53773, 4) = ShiftedOut(54797)
      /\ CrcStep(3459, 140) = ShiftedOut(33155) /\ CrcStep(55873, 85) = ShiftedOut(36673)
      /\ CrcStep(61759, 75) = ShiftedOut(47679) /\ CrcStep(50105, 0) = ShiftedOut(50105)
  BY CrcStepAs DEF XorOf, XorBit
<1>5. /\ CrcStep(36720, 176) = ShiftedOut(16240) /\ CrcStep(37852, 4) = ShiftedOut(38876)
      /\ CrcStep(59758, 140) = ShiftedOut(25966) /\ CrcStep(4091, 85) = ShiftedOut(23291)
      /\ CrcStep(31015, 75) = ShiftedOut(12839) /\ CrcStep(7993, 0) = ShiftedOut(7993)
  BY CrcStepAs DEF XorOf, XorBit
<1>6. /\ ShiftedOut(36464) = 53686 /\ ShiftedOut(54710) = 33816
      /\ ShiftedOut(2072) = 37960 /\ ShiftedOut(49480) = 13605
      /\ ShiftedOut(32293) = 62257 /\ ShiftedOut(62257) = 29724
  BY ShiftOutAs DEF ShiftedOut, Turned
<1>7. /\ ShiftedOut(36208) = 58157 /\ ShiftedOut(59181) = 10017
      /\ ShiftedOut(43809) = 50473 /\ ShiftedOut(36905) = 26833
      /\ ShiftedOut(9169) = 61865 /\ ShiftedOut(61865) = 53006
  BY ShiftOutAs DEF ShiftedOut, Turned
<1>8. /\ ShiftedOut(52848) = 62930 /\ ShiftedOut(61906) = 46094
      /\ ShiftedOut(14350) = 39267 /\ ShiftedOut(52323) = 50624
      /\ ShiftedOut(36544) = 25014 /\ ShiftedOut(25014) = 37343
  BY ShiftOutAs DEF ShiftedOut, Turned
<1>9. /\ ShiftedOut(44912) = 53773 /\ ShiftedOut(54797) = 3459
      /\ ShiftedOut(33155) = 55873 /\ ShiftedOut(36673) = 61759
      /\ ShiftedOut(47679) = 50105 /\ ShiftedOut(50105) = 59191
  BY ShiftOutAs DEF ShiftedOut, Turned
<1>10. /\ ShiftedOut(16240) = 37852 /\ ShiftedOut(38876) = 59758
      /\ ShiftedOut(25966) = 4091 /\ ShiftedOut(23291) = 31015
      /\ ShiftedOut(12839) = 7993 /\ ShiftedOut(7993) = 51438
  BY ShiftOutAs DEF ShiftedOut, Turned
<1>11. QED
  BY <1>1, <1>2, <1>3, <1>4, <1>5, <1>6, <1>7, <1>8, <1>9, <1>10

\* The same for an answer.
LEMMA CrcOfAnswers ==
    /\ /\ CrcStep(36720, 1) = 53686
       /\ CrcStep(53686, 133) = 56665
       /\ CrcStep(56665, 222) = 27547
       /\ CrcStep(27547, 195) = 19890
       /\ CrcStep(19890, 70) = 3283
       /\ CrcStep(3283, 0) = 6508
    /\ /\ CrcStep(36720, 2) = 58157
       /\ CrcStep(58157, 133) = 32352
       /\ CrcStep(32352, 222) = 15098
       /\ CrcStep(15098, 195) = 4166
       /\ CrcStep(4166, 70) = 3659
       /\ CrcStep(3659, 0) = 41598
    /\ /\ CrcStep(36720, 65) = 62930
       /\ CrcStep(62930, 133) = 60751
       /\ CrcStep(60751, 222) = 26288
       /\ CrcStep(26288, 195) = 48471
       /\ CrcStep(48471, 70) = 40532
       /\ CrcStep(40532, 0) = 64687
    /\ /\ CrcStep(36720, 32) = 53773
       /\ CrcStep(53773, 133) = 21698
       /\ CrcStep(21698, 222) = 9618
       /\ CrcStep(9618, 195) = 35240
       /\ CrcStep(35240, 70) = 15451
       /\ CrcStep(15451, 0) = 35399
    /\ /\ CrcStep(36720, 176) = 37852
       /\ CrcStep(37852, 133) = 45103
       /\ CrcStep(45103, 222) = 61480
       /\ CrcStep(61480, 195) = 432
       /\ CrcStep(432, 70) = 57563
       /\ CrcStep(57563, 0) = 42398
<1>1. /\ CrcStep(36720, 1) = ShiftedOut(36464) /\ CrcStep(53686, 133) = ShiftedOut(21686)
      /\ CrcStep(56665, 222) = ShiftedOut(857) /\ CrcStep(27547, 195) = ShiftedOut(43163)
      /\ CrcStep(19890, 70) = ShiftedOut(2994) /\ CrcStep(3283, 0) = ShiftedOut(3283)
  BY CrcStepAs DEF XorOf, XorBit
<1>2. /\ CrcStep(36720, 2) = ShiftedOut(36208) /\ CrcStep(58157, 133) = ShiftedOut(26157)
      /\ CrcStep(32352, 222) = ShiftedOut(41056) /\ CrcStep(15098, 195) = ShiftedOut(63994)
      /\ CrcStep(4166, 70) = ShiftedOut(22086) /\ CrcStep(3659, 0) = ShiftedOut(3659)
  BY CrcStepAs DEF XorOf, XorBit
<1>3. /\ CrcStep(36720, 65) = ShiftedOut(52848) /\ CrcStep(62930, 133) = ShiftedOut(28882)
      /\ CrcStep(60751, 222) = ShiftedOut(13135) /\ CrcStep(26288, 195) = ShiftedOut(42416)
      /\ CrcStep(48471, 70) = ShiftedOut(64343) /\ CrcStep(40532, 0) = ShiftedOut(40532)
  BY CrcStepAs DEF XorOf, XorBit
<1>4. /\ CrcStep(36720, 32) = ShiftedOut(44912) /\ CrcStep(53773, 133) = ShiftedOut(22285)
      /\ CrcStep(21698, 222) = ShiftedOut(35522) /\ CrcStep(9618, 195) = ShiftedOut(59026)
      /\ CrcStep(35240, 70) = ShiftedOut(53160) /\ CrcStep(15451, 0) = ShiftedOut(15451)
  BY CrcStepAs DEF XorOf, XorBit
<1>5. /\ CrcStep(36720, 176) = ShiftedOut(16240) /\ CrcStep(37852, 133) = ShiftedOut(5852)
      /\ CrcStep(45103, 222) = ShiftedOut(28207) /\ CrcStep(61480, 195) = ShiftedOut(13096)
      /\ CrcStep(432, 70) = ShiftedOut(18352) /\ CrcStep(57563, 0) = ShiftedOut(57563)
  BY CrcStepAs DEF XorOf, XorBit
<1>6. /\ ShiftedOut(36464) = 53686 /\ ShiftedOut(21686) = 56665
      /\ ShiftedOut(857) = 27547 /\ ShiftedOut(43163) = 19890
      /\ ShiftedOut(2994) = 3283 /\ ShiftedOut(3283) = 6508
  BY ShiftOutAs DEF ShiftedOut, Turned
<1>7. /\ ShiftedOut(36208) = 58157 /\ ShiftedOut(26157) = 32352
      /\ ShiftedOut(41056) = 15098 /\ ShiftedOut(63994) = 4166
      /\ ShiftedOut(22086) = 3659 /\ ShiftedOut(3659) = 41598
  BY ShiftOutAs DEF ShiftedOut, Turned
<1>8. /\ ShiftedOut(52848) = 62930 /\ ShiftedOut(28882) = 60751
      /\ ShiftedOut(13135) = 26288 /\ ShiftedOut(42416) = 48471
      /\ ShiftedOut(64343) = 40532 /\ ShiftedOut(40532) = 64687
  BY ShiftOutAs DEF ShiftedOut, Turned
<1>9. /\ ShiftedOut(44912) = 53773 /\ ShiftedOut(22285) = 21698
      /\ ShiftedOut(35522) = 9618 /\ ShiftedOut(59026) = 35240
      /\ ShiftedOut(53160) = 15451 /\ ShiftedOut(15451) = 35399
  BY ShiftOutAs DEF ShiftedOut, Turned
<1>10. /\ ShiftedOut(16240) = 37852 /\ ShiftedOut(5852) = 45103
      /\ ShiftedOut(28207) = 61480 /\ ShiftedOut(13096) = 432
      /\ ShiftedOut(18352) = 57563 /\ ShiftedOut(57563) = 42398
  BY ShiftOutAs DEF ShiftedOut, Turned
<1>11. QED
  BY <1>1, <1>2, <1>3, <1>4, <1>5, <1>6, <1>7, <1>8, <1>9, <1>10

\* The CRC of a header after its origin but for one byte, and after all of it
\* and a 0.
CrcUpToOrigin(code, origin) ==
    CrcStep(CrcStep(CrcStep(CrcStep(36720, code), origin[1]), origin[2]), origin[3])

LEMMA HeaderCrcs ==
    ASSUME NEW type \in Types, NEW origin \in Origins, NEW c,
           c = CrcUpToOrigin(MessageTypeCode[type], origin)
    PROVE  /\ c % 256 # 23
           /\ CrcStep(CrcStep(c, origin[4]), 0) \div 256 # 255
<1>1. MessageTypeCode[type] \in {1, 2, 65, 32, 176}
  BY DEF Types, MessageTypeCode
<1>2. CASE origin = <<4, 140, 85, 75>>
  BY <1>1, <1>2, CrcOfRequests DEF CrcUpToOrigin
<1>3. CASE origin = <<133, 222, 195, 70>>
  BY <1>1, <1>3, CrcOfAnswers DEF CrcUpToOrigin
<1>4. QED
  BY <1>2, <1>3 DEF Origins

\* A byte is taken to 511 from one kind of word only.
LEMMA StepTo511 ==
    ASSUME NEW c \in Words, NEW b \in Bytes, CrcStep(c, b) = 511
    PROVE  c % 256 = 23
<1> DEFINE d == 256 * b
           w == Xor16(c, d)
<1>1. d \in Words /\ d % 256 = 0 /\ 17175 \in Words /\ 17175 % 256 = 23 /\ 511 \in Words
  BY BytesAre, WordsAre
<1>2. w \in Words /\ w % 256 = XorByte[c % 256][0]
  <2>1. d \in Words
    BY <1>1
  <2> HIDE DEF d
  <2>2. w \in Words /\ w % 256 = XorByte[c % 256][d % 256]
    BY <2>1, Xor16Type, Xor16Halves
  <2>3. QED
    BY <1>1, <2>2
<1>3. w % 256 = c % 256
  BY <1>2, Halves, XorNothing
<1>4. ShiftOutByte[w] = 511
  BY DEF CrcStep
<1> HIDE DEF w
<1>5. ShiftOutByte[17175] = 511
  <2>1. ShiftedOut(17175) = 511
    BY ShiftOutAs DEF ShiftedOut, Turned
  <2>2. QED
    BY <1>1, <2>1 DEF ShiftOutByte, ShiftedOut
<1>6. ShiftOutByte[Xor16(w, 17175)] = Xor16(511, 511)
  BY <1>1, <1>2, <1>4, <1>5, ShiftOutByteXor
<1>7. Xor16(511, 511) = 0
  BY <1>1, Xor16Same
<1>8. Xor16(w, 17175) = 0
  BY <1>1, <1>2, <1>6, <1>7, Xor16Type, ShiftOutByteOfSome
<1>9. w = 17175
  BY <1>1, <1>2, <1>8, Xor16Same
<1>10. QED
  BY <1>1, <1>3, <1>9

\* What a header without its first byte has for a CRC, if its length is 1 or 2.
LEMMA ShortHeader ==
    ASSUME NEW type \in Types, NEW origin \in Origins, NEW b \in Seq(Bytes), Len(b) >= 10,
           \A i \in 1..4 : b[i] = 0, b[5] = 255, b[6] = MessageTypeCode[type],
           \A i \in 1..3 : b[i + 6] = origin[i]
    PROVE  /\ Len(b) = 10 => Crc(b) # 511
           /\ Len(b) = 11 /\ b[10] = origin[4] /\ b[11] = 0 => Crc(b) \div 256 # 255
<1> DEFINE N == Len(b)
           code == MessageTypeCode[type]
<1>1. PICK crc : IsCrcOf(crc, b) /\ Crc(b) = crc[N]
  BY CrcByteByByte
<1>2. N \in Nat /\ N >= 10 /\ \A n \in 1..N : b[n] \in Bytes
  OBVIOUS
<1>3. crc[0] = 0 /\ (\A n \in 0..N : crc[n] \in Words) /\ \A n \in 1..N : crc[n] = CrcStep(crc[n - 1], b[n])
  BY <1>1 DEF IsCrcOf
<1> HIDE DEF N, code
<1>4. /\ crc[1] = CrcStep(crc[0], b[1]) /\ crc[2] = CrcStep(crc[1], b[2])
      /\ crc[3] = CrcStep(crc[2], b[3]) /\ crc[4] = CrcStep(crc[3], b[4])
      /\ crc[5] = CrcStep(crc[4], b[5]) /\ crc[6] = CrcStep(crc[5], b[6])
      /\ crc[7] = CrcStep(crc[6], b[7]) /\ crc[8] = CrcStep(crc[7], b[8])
      /\ crc[9] = CrcStep(crc[8], b[9]) /\ crc[10] = CrcStep(crc[9], b[10])
  <2>1. ASSUME NEW n \in 1..10 PROVE crc[n] = CrcStep(crc[n - 1], b[n])
    BY <1>2, <1>3
  <2>2. QED
    BY <2>1
<1>5. b[1] = 0 /\ b[2] = 0 /\ b[3] = 0 /\ b[4] = 0 /\ b[5] = 255 /\ b[6] = code
  BY DEF code
<1>6. b[7] = origin[1] /\ b[8] = origin[2] /\ b[9] = origin[3]
  <2>1. b[1 + 6] = origin[1] /\ b[2 + 6] = origin[2] /\ b[3 + 6] = origin[3]
    OBVIOUS
  <2>2. QED
    BY <2>1
<1>7. crc[4] = 0
  <2>1. crc[1] = 0
    BY <1>3, <1>4, <1>5, CrcStepOfNothing
  <2>2. crc[2] = 0
    BY <2>1, <1>4, <1>5, CrcStepOfNothing
  <2>3. crc[3] = 0
    BY <2>2, <1>4, <1>5, CrcStepOfNothing
  <2>4. QED
    BY <2>3, <1>4, <1>5, CrcStepOfNothing
<1>8. crc[5] = 36720
  BY <1>4, <1>5, <1>7, CrcOfBeginning
<1>9. crc[9] = CrcUpToOrigin(code, origin)
  BY <1>4, <1>5, <1>6, <1>8 DEF CrcUpToOrigin
<1>10. /\ crc[9] % 256 # 23
       /\ CrcStep(CrcStep(crc[9], origin[4]), 0) \div 256 # 255
  BY <1>9, HeaderCrcs DEF code
<1>11. ASSUME N = 10 PROVE Crc(b) # 511
  <2>1. Crc(b) = CrcStep(crc[9], b[10]) /\ crc[9] \in Words
    BY <1>1, <1>3, <1>4, <1>11
  <2>2. b[10] \in Bytes
    BY <1>2
  <2>3. QED
    BY <2>1, <2>2, <1>10, StepTo511
<1>12. ASSUME N = 11, b[10] = origin[4], b[11] = 0 PROVE Crc(b) \div 256 # 255
  <2>1. crc[11] = CrcStep(crc[10], b[11])
    <3>1. 11 \in 1..N /\ 11 - 1 = 10
      BY <1>12
    <3>2. QED
      BY <3>1, <1>3
  <2>2. Crc(b) = CrcStep(CrcStep(crc[9], origin[4]), 0)
    BY <2>1, <1>1, <1>4, <1>12
  <2>3. QED
    BY <2>2, <1>10
<1>13. QED
  BY <1>11, <1>12 DEF N

(***************************************************************************)
(* What is received                                                        *)
(***************************************************************************)

\* A piece cut from the stream, and one that was damaged after it was cut.
SentFrames ==
    \/ \E f \in Frames : sent = <<f>>
    \/ \E f, g \in Frames : sent = <<f, g>>

Cut(p) ==
    \/ p = <<>>
    \/ \E first \in 1..Len(Stream) : \E last \in first..Len(Stream) : p = SubSeq(Stream, first, last)

Damageable(p) == p = Stream \/ (Len(p) \in 14..15 /\ p = SubSeq(Stream, 1, Len(p)))

DamageTo(p, q) ==
    \E i \in DOMAIN q : \E x \in Damages : \E y \in Damages \cup {0} :
        p = Flip(Flip(q, i, x), i + 1, y)

Received ==
    /\ SentFrames
    /\ damaged \in BOOLEAN
    /\ ~damaged => Cut(piece)
    /\ damaged => Len(sent) = 1 /\ \E q : Damageable(q) /\ DamageTo(piece, q)

LEMMA FlipKeepsDomain ==
    ASSUME NEW s, NEW i, NEW x
    PROVE  DOMAIN Flip(s, i, x) = DOMAIN s
BY DEF Flip

(***************************************************************************)
(* Damage                                                                  *)
(***************************************************************************)

\* p is f with the byte at i changed, and perhaps the one behind it.
Differs(p, f, i) ==
    /\ p \in Seq(Bytes)
    /\ Len(p) = Len(f)
    /\ i \in 1..Len(f)
    /\ p[i] # f[i]
    /\ \A j \in 1..Len(f) : j # i /\ j # i + 1 => p[j] = f[j]

LEMMA XorChanges ==
    ASSUME NEW a \in Bytes, NEW x \in Bytes, XorByte[a][x] = a
    PROVE  x = 0
<1>1. 0 \in Bytes
  BY BytesAre
<1>2. XorByte[XorByte[a][x]][XorByte[a][0]] = XorByte[XorByte[a][a]][XorByte[x][0]]
  BY <1>1, XorSwap
<1>3. XorByte[a][0] = a /\ XorByte[x][0] = x /\ XorByte[0][x] = x
  BY XorNothing
<1>4. XorByte[a][a] = 0
  BY XorSame
<1>5. QED
  BY <1>2, <1>3, <1>4

LEMMA FlipChanges ==
    ASSUME NEW f \in Seq(Bytes), NEW i \in Nat, NEW x \in Bytes
    PROVE  /\ Flip(f, i, x) \in Seq(Bytes)
           /\ Len(Flip(f, i, x)) = Len(f)
           /\ \A j \in 1..Len(f) : j # i => Flip(f, i, x)[j] = f[j]
           /\ i \in 1..Len(f) /\ x # 0 => Flip(f, i, x)[i] # f[i]
<1>1. DOMAIN f = 1..Len(f) /\ Len(f) \in Nat
  OBVIOUS
<1>2. CASE i \in DOMAIN f
  <2>1. Flip(f, i, x) = [f EXCEPT ![i] = XorByte[f[i]][x]]
    BY <1>2 DEF Flip
  <2>2. f[i] \in Bytes
    BY <1>2
  <2>3. XorByte[f[i]][x] \in Bytes /\ (x # 0 => XorByte[f[i]][x] # f[i])
    BY <2>2, XorByteType, XorChanges
  <2>4. QED
    BY <1>1, <1>2, <2>1, <2>3
<1>3. CASE i \notin DOMAIN f
  BY <1>1, <1>3 DEF Flip
<1>4. QED
  BY <1>2, <1>3

LEMMA DamageDiffers ==
    ASSUME NEW f \in Seq(Bytes), NEW p, DamageTo(p, f)
    PROVE  \E i : Differs(p, f, i)
<1>1. PICK i \in DOMAIN f, x \in Damages : \E y \in Damages \cup {0} :
        p = Flip(Flip(f, i, x), i + 1, y)
  BY Zenon DEF DamageTo
<1>2. PICK y \in Damages \cup {0} : p = Flip(Flip(f, i, x), i + 1, y)
  BY <1>1
<1>3. x \in Bytes /\ x # 0 /\ y \in Bytes
  <2>1. \A k : k \in 1..255 => k \in Bytes /\ k # 0
    BY BytesAre
  <2>2. 0 \in Bytes
    BY BytesAre
  <2>3. x \in 1..255 /\ (y \in 1..255 \/ y = 0)
    BY IdsAndDamagesAreBytes, Zenon
  <2>4. QED
    BY <2>1, <2>2, <2>3, Zenon
<1>4. i \in 1..Len(f) /\ i \in Nat /\ i + 1 \in Nat /\ Len(f) \in Nat
  OBVIOUS
<1> DEFINE g == Flip(f, i, x)
<1>5. /\ g \in Seq(Bytes) /\ Len(g) = Len(f) /\ g[i] # f[i]
      /\ \A j \in 1..Len(f) : j # i => g[j] = f[j]
  BY <1>3, <1>4, FlipChanges
<1> HIDE DEF g
<1>6. /\ p \in Seq(Bytes) /\ Len(p) = Len(g)
      /\ \A j \in 1..Len(g) : j # i + 1 => p[j] = g[j]
  <2>1. p = Flip(g, i + 1, y)
    BY <1>2 DEF g
  <2>2. /\ Flip(g, i + 1, y) \in Seq(Bytes) /\ Len(Flip(g, i + 1, y)) = Len(g)
        /\ \A j \in 1..Len(g) : j # i + 1 => Flip(g, i + 1, y)[j] = g[j]
    BY <1>3, <1>4, <1>5, FlipChanges, Zenon
  <2>3. QED
    BY <2>1, <2>2, Zenon
<1>7. p[i] = g[i]
  BY <1>4, <1>5, <1>6
<1>8. \A j \in 1..Len(f) : j # i /\ j # i + 1 => p[j] = f[j]
  BY <1>5, <1>6
<1>9. Differs(p, f, i)
  BY <1>4, <1>5, <1>6, <1>7, <1>8 DEF Differs
<1>10. QED
  BY <1>9

\* What the checks look at in what parses.
LEMMA WhatParses ==
    ASSUME NEW p \in Seq(Bytes), Parses(p)
    PROVE  /\ Len(p) \in Nat /\ Len(p) >= 14
           /\ \A j \in 1..5 : p[j] = 0
           /\ p[6] = 255 /\ p[14] = 255
           /\ ToUint16(p[12], p[13]) = Len(p) - 13
           /\ Crc(SubSeq(p, 2, Len(p) - 3)) = ToUint16(p[Len(p) - 1], p[Len(p)])
<1>1. Len(p) \in Nat
  OBVIOUS
<1>2. HeaderComplete(p) /\ HeaderValid(p) /\ LengthMatches(p) /\ CrcMatches(p)
  BY DEF Parses, Intact
<1>3. Len(p) >= 14 /\ p[14] = 255 /\ ToUint16(p[12], p[13]) = Len(p) - 13
  BY <1>1, <1>2 DEF HeaderComplete, HeaderValid, LengthMatches, HeaderLength, HeaderSize
<1>4. (\A j \in 1..5 : p[j] = 0) /\ p[6] = 255
  <2> DEFINE q == SubSeq(p, 1, 6)
  <2>1. \A i \in 1..6 : q[i] = p[i]
    BY <1>1, <1>3
  <2>2. q = <<0, 0, 0, 0, 0, 255>>
    BY <1>2 DEF HeaderValid
  <2> HIDE DEF q
  <2>3. q[1] = 0 /\ q[2] = 0 /\ q[3] = 0 /\ q[4] = 0 /\ q[5] = 0 /\ q[6] = 255
    BY <2>2
  <2>4. QED
    BY <2>1, <2>3
<1>5. QED
  BY <1>1, <1>2, <1>3, <1>4 DEF CrcMatches

\* If a damaged frame parses, only its last delimiter is not what it was.
LEMMA DamagedFrame ==
    ASSUME NEW f, NEW n, IsLaidOut(f, n), NEW p, NEW i, Differs(p, f, i), Parses(p)
    PROVE  i = n + 14
<1>1. /\ f \in Seq(Bytes) /\ n \in Nat /\ Len(f) = n + 16 /\ f[1] = 0
      /\ ToUint16(f[n + 15], f[n + 16]) = Crc(SubSeq(f, 1, n + 13))
  BY DEF IsLaidOut
<1>2. /\ p \in Seq(Bytes) /\ Len(p) = n + 16 /\ i \in Int /\ 1 <= i /\ i <= n + 16 /\ p[i] # f[i]
      /\ \A j \in 1..(n + 16) : j # i /\ j # i + 1 => p[j] = f[j]
  BY <1>1 DEF Differs
<1> DEFINE a == SubSeq(p, 2, n + 13)
           b == SubSeq(f, 2, n + 13)
<1>3. /\ a \in Seq(Bytes) /\ Len(a) = n + 12 /\ \A j \in 1..(n + 12) : a[j] = p[j + 1]
      /\ b \in Seq(Bytes) /\ Len(b) = n + 12 /\ \A j \in 1..(n + 12) : b[j] = f[j + 1]
  <2>1. ASSUME NEW s \in Seq(Bytes), Len(s) = n + 16
        PROVE  /\ SubSeq(s, 2, n + 13) \in Seq(Bytes) /\ Len(SubSeq(s, 2, n + 13)) = n + 12
               /\ \A j \in 1..(n + 12) : SubSeq(s, 2, n + 13)[j] = s[j + 1]
    BY <1>1, <2>1
  <2>2. QED
    BY <1>1, <1>2, <2>1
<1>4. p[1] = 0 /\ Crc(a) = ToUint16(p[n + 15], p[n + 16])
  <2>1. Len(p) - 3 = n + 13 /\ Len(p) - 1 = n + 15
    BY <1>1, <1>2
  <2>2. QED
    BY <1>2, <2>1, WhatParses, SMTT(20)
<1>5. Crc(b) = ToUint16(f[n + 15], f[n + 16])
  <2> DEFINE all == SubSeq(f, 1, n + 13)
  <2>1. all \in Seq(Bytes) /\ Len(all) = n + 13 /\ \A j \in 1..(n + 13) : all[j] = f[j]
    BY <1>1
  <2> HIDE DEF all, b
  <2>2. all # <<>> /\ all[1] = 0 /\ Len(all) = Len(b) + 1 /\ \A j \in 1..Len(b) : b[j] = all[j + 1]
    BY <1>1, <1>3, <2>1
  <2>3. b \in Seq(Bytes) /\ all \in Seq(Bytes)
    BY <1>3, <2>1
  <2>4. Crc(all) = Crc(b)
    BY <2>2, <2>3, CrcOfLeadingZero
  <2>5. QED
    BY <1>1, <2>4 DEF all
<1> HIDE DEF a, b
<1>6. ASSUME i >= n + 15 PROVE FALSE
  <2>1. a = b
    BY <1>1, <1>2, <1>3, <1>6, SMTT(20)
  <2>2. ToUint16(p[n + 15], p[n + 16]) = ToUint16(f[n + 15], f[n + 16])
    BY <2>1, <1>4, <1>5
  <2>3. p[n + 15] \in Bytes /\ p[n + 16] \in Bytes /\ f[n + 15] \in Bytes /\ f[n + 16] \in Bytes
    BY <1>1, <1>2
  <2>4. p[n + 15] = f[n + 15] /\ p[n + 16] = f[n + 16]
    BY <2>2, <2>3, HalvesOf DEF ToUint16
  <2>5. QED
    BY <1>1, <1>2, <1>6, <2>4
<1>7. ASSUME i <= n + 13 PROVE FALSE
  <2>1. i # 1
    BY <1>1, <1>2, <1>4
  <2> DEFINE k == i - 1
  <2>2. k \in 1..(n + 12) /\ k + 1 = i
    BY <1>1, <1>2, <1>7, <2>1
  <2> HIDE DEF k
  <2>3. a[k] # b[k]
    BY <1>2, <1>3, <2>2
  <2>4. \A j \in 1..(n + 12) : j # k /\ j # k + 1 => a[j] = b[j]
    BY <1>1, <1>2, <1>3, <2>2
  <2>5. k \in 1..Len(a) /\ Len(a) = Len(b) /\ a # b
        /\ \A j \in 1..Len(a) : j # k /\ j # k + 1 => a[j] = b[j]
    BY <1>3, <2>2, <2>3, <2>4
  <2>6. Crc(a) # Crc(b)
    BY <1>3, <2>5, CrcNoticesNeighbours
  <2>7. p[n + 15] = f[n + 15] /\ p[n + 16] = f[n + 16]
    BY <1>1, <1>2, <1>7
  <2>8. QED
    BY <1>4, <1>5, <2>6, <2>7
<1>8. QED
  BY <1>1, <1>2, <1>6, <1>7

\* If the damaged beginning of a frame parses, it is one of 15 bytes, and its
\* length became 2 from 258, 514 and so on.
LEMMA DamagedBeginning ==
    ASSUME NEW f, NEW type, NEW values, Carries(f, type, values),
           NEW q, Len(q) \in 14..15, q = SubSeq(f.bytes, 1, Len(q)),
           NEW p, NEW i, Differs(p, q, i), Parses(p)
    PROVE  Len(p) = 15 /\ Len(f.bytes) % 256 = 15
<1> DEFINE b == f.bytes
           n == Len(Payload(values))
           L == Len(p)
<1>1. type \in Types /\ IsFrameOf(b, type, Payload(values))
  BY DEF Carries
<1>2. PICK origin \in Origins : \A k \in 1..4 : b[k + 7] = origin[k]
  BY Zenon DEF Carries
<1>3. /\ b \in Seq(Bytes) /\ n \in Nat /\ Len(b) = n + 16
      /\ b[7] = MessageTypeCode[type]
      /\ ToUint16(b[12], b[13]) = n + 3
  BY <1>1, Zenon DEF IsFrameOf, IsLaidOut
<1> HIDE DEF n, b, L
<1>4. b[8] = origin[1] /\ b[9] = origin[2] /\ b[10] = origin[3] /\ b[11] = origin[4]
  <2>1. b[1 + 7] = origin[1] /\ b[2 + 7] = origin[2] /\ b[3 + 7] = origin[3] /\ b[4 + 7] = origin[4]
    BY <1>2
  <2>2. QED
    BY <2>1
<1>5. L \in 14..15 /\ p \in Seq(Bytes) /\ Len(p) = L /\ i \in 1..L
      /\ \A j \in 1..L : j # i /\ j # i + 1 => p[j] = b[j]
  <2>1. /\ p \in Seq(Bytes) /\ L = Len(q) /\ i \in 1..Len(q)
        /\ \A j \in 1..Len(q) : j # i /\ j # i + 1 => p[j] = q[j]
    BY Zenon DEF Differs, L
  <2>2. \A m \in 14..15 : \A j \in 1..m : SubSeq(b, 1, m)[j] = b[j]
    BY <1>3
  <2>3. \A j \in 1..Len(q) : q[j] = b[j]
    BY <2>2, Zenon DEF b
  <2>4. QED
    BY <2>1, <2>3, Zenon DEF L
<1>6. /\ \A j \in 1..5 : p[j] = 0
      /\ p[6] = 255 /\ p[14] = 255
      /\ ToUint16(p[12], p[13]) = L - 13
      /\ Crc(SubSeq(p, 2, L - 3)) = ToUint16(p[L - 1], p[L])
  <2>1. p \in Seq(Bytes) /\ Parses(p)
    BY <1>5
  <2>2. QED
    BY <2>1, WhatParses DEF L
<1>7. /\ p[12] \in Int /\ 0 <= p[12] /\ p[12] <= 255 /\ p[13] \in Int /\ 0 <= p[13] /\ p[13] <= 255
      /\ b[12] \in Int /\ 0 <= b[12] /\ b[12] <= 255 /\ b[13] \in Int /\ 0 <= b[13] /\ b[13] <= 255
  <2>1. p[12] \in Bytes /\ p[13] \in Bytes /\ b[12] \in Bytes /\ b[13] \in Bytes
    BY <1>3, <1>5
  <2>2. QED
    BY <2>1, BytesAre
<1>8. p[12] = 0 /\ p[13] = L - 13 /\ (b[12] # 0 \/ b[13] # L - 13)
  <2>1. 256 * p[12] + p[13] = L - 13 /\ 256 * b[12] + b[13] = n + 3
    BY <1>3, <1>6, Zenon DEF ToUint16
  <2>2. (L = 14 \/ L = 15) /\ n \in Nat
    BY <1>3, <1>5
  <2>3. QED
    BY <1>7, <2>1, <2>2
<1>9. i \in 11..13
  BY <1>5, <1>8
<1>10. p[7] = b[7] /\ p[8] = b[8] /\ p[9] = b[9] /\ p[10] = b[10]
  BY <1>5, <1>9
<1> DEFINE c == SubSeq(p, 2, L - 3)
<1>11. c \in Seq(Bytes) /\ Len(c) = L - 4 /\ \A j \in 1..(L - 4) : c[j] = p[j + 1]
  BY <1>5
<1>12. Crc(c) = ToUint16(p[L - 1], p[L])
  BY <1>6
<1> HIDE DEF c
<1>13. /\ Len(c) >= 10
       /\ c[1] = 0 /\ c[2] = 0 /\ c[3] = 0 /\ c[4] = 0 /\ c[5] = 255 /\ c[6] = b[7]
       /\ c[7] = b[8] /\ c[8] = b[9] /\ c[9] = b[10]
  <2>1. Len(c) >= 10 /\ \A j \in 1..9 : c[j] = p[j + 1]
    BY <1>5, <1>11
  <2>2. /\ c[1] = p[2] /\ c[2] = p[3] /\ c[3] = p[4] /\ c[4] = p[5] /\ c[5] = p[6]
        /\ c[6] = p[7] /\ c[7] = p[8] /\ c[8] = p[9] /\ c[9] = p[10]
    BY <2>1
  <2>3. p[2] = 0 /\ p[3] = 0 /\ p[4] = 0 /\ p[5] = 0
    BY <1>6
  <2>4. QED
    BY <1>6, <1>10, <2>1, <2>2, <2>3
<1>14. /\ Len(c) = 10 => Crc(c) # 511
       /\ Len(c) = 11 /\ c[10] = origin[4] /\ c[11] = 0 => Crc(c) \div 256 # 255
  <2>1. \A j \in 1..4 : c[j] = 0
    BY <1>13
  <2>2. \A j \in 1..3 : c[j + 6] = origin[j]
    BY <1>4, <1>13
  <2>3. c[5] = 255 /\ c[6] = MessageTypeCode[type]
    BY <1>3, <1>13
  <2>4. QED
    <3>1. type \in Types /\ c \in Seq(Bytes) /\ Len(c) >= 10
      BY <1>1, <1>11, <1>13
    <3>2. QED
      BY <3>1, <2>1, <2>2, <2>3, ShortHeader
<1>15. CASE L = 14
  <2>1. Crc(c) = 256 * p[13] + p[14]
    BY <1>12, <1>15 DEF ToUint16
  <2>2. Crc(c) = 511 /\ Len(c) = 10
    BY <1>6, <1>8, <1>11, <1>15, <2>1
  <2>3. QED
    BY <1>14, <2>2
<1>16. CASE L = 15
  <2>1. Crc(c) \div 256 = 255
    <3>1. Crc(c) = ToUint16(p[14], p[15])
      BY <1>12, <1>16
    <3>2. p[14] \in Bytes /\ p[15] \in Bytes
      <4>1. p \in Seq(Bytes) /\ Len(p) = 15
        BY <1>5, <1>16
      <4>2. 14 \in 1..Len(p) /\ 15 \in 1..Len(p)
        BY <4>1
      <4>3. QED
        BY <4>1, <4>2, ElementOfSeq, Zenon
    <3>3. QED
      BY <1>6, <3>1, <3>2, HalvesOf DEF ToUint16
  <2>2. Len(c) = 11 /\ c[10] = p[11] /\ c[11] = p[12]
    BY <1>11, <1>16
  <2>3. p[11] # b[11]
    BY <1>4, <1>8, <1>14, <2>1, <2>2
  <2>4. b[13] = 2
    BY <1>5, <1>8, <1>9, <1>16, <2>3
  <2>5. (n + 16) % 256 = 15
    <3>1. 256 * b[12] + 2 = n + 3
      BY <1>3, <2>4 DEF ToUint16
    <3>2. b[12] \in Bytes /\ 15 \in Bytes
      BY <1>7, BytesAre
    <3> DEFINE hi == b[12]
    <3>3. n + 16 = 256 * hi + 15
      <4>1. hi \in Int /\ 256 * hi + 2 = n + 3 /\ n \in Int
        BY <1>3, <1>7, <3>1
      <4> HIDE DEF hi
      <4>2. QED
        BY <4>1
    <3>4. QED
      BY <3>2, <3>3, HalvesOf
  <2>6. QED
    BY <1>3, <1>16, <2>5 DEF L, b
<1>17. L = 14 \/ L = 15
  BY <1>5
<1>18. QED
  BY <1>15, <1>16, <1>17

\* All of a frame but its last delimiter.
UpToDelimiter(p, b) ==
    Len(p) = Len(b) /\ \A i \in 1..(Len(b) - 3) : p[i] = b[i]

LEMMA DamagedParses ==
    ASSUME NEW f, NEW type, NEW values, Carries(f, type, values), NEW q,
           q = f.bytes \/ (Len(q) \in 14..15 /\ q = SubSeq(f.bytes, 1, Len(q))),
           NEW p, DamageTo(p, q)
    PROVE  /\ p \in Seq(Bytes)
           /\ Parses(p) => UpToDelimiter(p, f.bytes) \/ (Len(p) = 15 /\ Len(f.bytes) % 256 = 15)
<1> DEFINE b == f.bytes
           n == Len(Payload(values))
<1>1. IsLaidOut(b, n)
  BY DEF Carries, IsFrameOf
<1>2. b \in Seq(Bytes) /\ n \in Nat /\ Len(b) = n + 16
  BY <1>1, Zenon DEF IsLaidOut
<1> HIDE DEF b, n
<1>3. q \in Seq(Bytes)
  <2>1. \A m \in 14..15 : SubSeq(b, 1, m) \in Seq(Bytes)
    BY <1>2
  <2>2. QED
    BY <1>2, <2>1, Zenon DEF b
<1>4. PICK i : Differs(p, q, i)
  BY <1>3, DamageDiffers
<1>5. p \in Seq(Bytes)
  BY <1>4 DEF Differs
<1>6. ASSUME Parses(p), q = f.bytes PROVE UpToDelimiter(p, b)
  <2>1. Differs(p, b, i)
    BY <1>4, <1>6, Zenon DEF b
  <2>2. i = n + 14
    BY <1>1, <1>6, <2>1, DamagedFrame
  <2>3. QED
    BY <1>2, <2>1, <2>2 DEF Differs, UpToDelimiter
<1>7. ASSUME Parses(p), Len(q) \in 14..15, q = SubSeq(f.bytes, 1, Len(q))
      PROVE  Len(p) = 15 /\ Len(b) % 256 = 15
  BY <1>4, <1>7, DamagedBeginning, Zenon DEF b
<1>8. QED
  BY <1>5, <1>6, <1>7, Zenon DEF b

(***************************************************************************)
(* Every step                                                              *)
(***************************************************************************)

LEMMA ReceivedInitially == Init => Received
<1> SUFFICES ASSUME Init PROVE Received
  OBVIOUS
<1>1. SentFrames
  BY DEF Init, SentFrames
<1>2. piece = <<>> /\ damaged = FALSE
  BY DEF Init
<1>3. QED
  BY <1>1, <1>2, Zenon DEF Received, Cut

LEMMA ReceivedStays == Received /\ [Next]_vars => Received'
<1> SUFFICES ASSUME Received, [Next]_vars PROVE Received'
  OBVIOUS
<1>1. CASE Receive
  <2>1. ~damaged
    <3> SUFFICES ASSUME damaged PROVE FALSE
      BY DEF Received
    <3>1. PICK q : DamageTo(piece, q)
      BY Zenon DEF Received
    <3>2. PICK i \in DOMAIN q, x \in Damages, y \in Damages \cup {0} :
                 piece = Flip(Flip(q, i, x), i + 1, y)
      BY <3>1, Zenon DEF DamageTo
    <3>3. i \in DOMAIN piece
      BY <3>2, FlipKeepsDomain, Zenon
    <3>4. piece = <<>>
      BY <1>1 DEF Receive
    <3>5. QED
      BY <3>3, <3>4
  <2>2. sent' = sent /\ damaged' = damaged /\ Stream' = Stream
    BY <1>1, Zenon DEF Receive, Stream
  <2>3. Cut(piece)'
    BY <1>1, <2>2, Zenon DEF Receive, Cut
  <2>4. QED
    BY <2>1, <2>2, <2>3, Zenon DEF Received, SentFrames
<1>2. CASE Damage
  <2>1. sent' = sent /\ damaged' = TRUE /\ Len(sent) = 1 /\ Stream' = Stream
    BY <1>2, Zenon DEF Damage, Stream
  <2>2. Damageable(piece) /\ DamageTo(piece', piece)
    BY <1>2, Zenon DEF Damage, Damageable, DamageTo
  <2>3. \E q : Damageable(q)' /\ DamageTo(piece', q)
    BY <2>1, <2>2, Zenon DEF Damageable
  <2>4. QED
    BY <2>1, <2>3, Zenon DEF Received, SentFrames, DamageTo
<1>3. CASE UNCHANGED vars
  BY <1>3, Zenon DEF vars, Received, SentFrames, Cut, Damageable, DamageTo, Stream
<1>4. QED
  BY <1>1, <1>2, <1>3 DEF Next

LEMMA OnlyWholeFramesParseHere == Received => OnlyWholeFramesParse
<1> SUFFICES ASSUME Received, ~damaged
             PROVE  Parses(piece) <=> \E k \in DOMAIN sent : piece = sent[k].bytes
  BY DEF OnlyWholeFramesParse
<1>1. ASSUME NEW f \in Frames
      PROVE  Parses(f.bytes) /\ \E n : IsLaidOut(f.bytes, n)
  <2>1. PICK type, values : Carries(f, type, values)
    BY FramesCarry
  <2>2. Payload(values) \in Seq(Bytes) /\ type \in Types /\ IsFrameOf(f.bytes, type, Payload(values))
    BY <2>1, PayloadClosed DEF Carries
  <2>3. QED
    BY <2>2, FrameParses DEF IsFrameOf
<1>2. ~Parses(<<>>)
  BY DEF Parses, HeaderComplete, HeaderSize
<1>3. CASE \E f \in Frames : sent = <<f>>
  <2>1. PICK f \in Frames : sent = <<f>>
    BY <1>3
  <2>2. DOMAIN sent = {1} /\ sent[1] = f /\ Len(sent) = 1
    BY <2>1
  <2>3. Stream = f.bytes
    BY <2>2 DEF Stream
  <2>4. Parses(piece) => piece = f.bytes
    <3> SUFFICES ASSUME Parses(piece) PROVE piece = f.bytes
      OBVIOUS
    <3>1. PICK first \in 1..Len(f.bytes) : \E last \in first..Len(f.bytes) :
            piece = SubSeq(f.bytes, first, last)
      BY <1>2, <2>3, Zenon DEF Received, Cut
    <3>2. PICK n : IsLaidOut(f.bytes, n)
      BY <1>1
    <3>3. QED
      BY <3>1, <3>2, PieceOfOne, Zenon
  <2>5. QED
    BY <1>1, <2>2, <2>4, Zenon
<1>4. CASE \E f, g \in Frames : sent = <<f, g>>
  <2>1. PICK f \in Frames, g \in Frames : sent = <<f, g>>
    BY <1>4
  <2>2. DOMAIN sent = {1, 2} /\ sent[1] = f /\ sent[2] = g /\ Len(sent) # 1
    BY <2>1
  <2>3. Stream = f.bytes \o g.bytes
    BY <2>2 DEF Stream
  <2>4. Parses(piece) => piece \in {f.bytes, g.bytes}
    <3> SUFFICES ASSUME Parses(piece) PROVE piece \in {f.bytes, g.bytes}
      OBVIOUS
    <3>1. PICK first \in 1..Len(f.bytes \o g.bytes) : \E last \in first..Len(f.bytes \o g.bytes) :
            piece = SubSeq(f.bytes \o g.bytes, first, last)
      BY <1>2, <2>3, Zenon DEF Received, Cut
    <3>2. PICK last \in first..Len(f.bytes \o g.bytes) : piece = SubSeq(f.bytes \o g.bytes, first, last)
      BY <3>1
    <3>3. PICK m, n : IsLaidOut(f.bytes, m) /\ IsLaidOut(g.bytes, n)
      BY <1>1, Zenon
    <3>4. Parses(SubSeq(f.bytes \o g.bytes, first, last))
      BY <3>2, Zenon
    <3>5. SubSeq(f.bytes \o g.bytes, first, last) \in {f.bytes, g.bytes}
      BY <3>3, <3>4, PieceOfTwo, Zenon
    <3>6. QED
      BY <3>2, <3>5, Zenon
  <2>5. QED
    BY <1>1, <2>2, <2>4, Zenon
<1>5. QED
  BY <1>3, <1>4 DEF Received, SentFrames

LEMMA ParsedAsWrittenHere == Received => ParsedAsWritten
<1> SUFFICES ASSUME Received, NEW k \in DOMAIN sent, piece = sent[k].bytes
             PROVE  ParseMessage(piece) = Meant(sent[k].msg)
  BY Zenon DEF ParsedAsWritten
<1>1. sent[k] \in Frames
  BY DEF Received, SentFrames
<1>2. PICK type, values : Carries(sent[k], type, values)
  BY <1>1, FramesCarry
<1>3. ParseMessage(sent[k].bytes) = Meant(sent[k].msg)
  <2> DEFINE b == sent[k].bytes
  <2>1. type \in Types /\ Payload(values) \in Seq(Bytes) /\ IsFrameOf(b, type, Payload(values))
    BY <1>2, PayloadClosed DEF Carries
  <2>2. Parses(b)
    BY <2>1, FrameParses
  <2>3. b \in Seq(Bytes)
    BY <2>1, Zenon DEF IsFrameOf, IsLaidOut
  <2>4. QED
    BY <1>2, <2>2, <2>3, FrameReadBack, Zenon
<1>4. QED
  BY <1>3, Zenon

\* A piece is a sequence of bytes, and one that parses is a whole frame, or one
\* with a damaged delimiter, or, if there are frames of such a length, 15 bytes.
LEMMA PiecesThatParse ==
    ASSUME Received
    PROVE  /\ piece \in Seq(Bytes)
           /\ Parses(piece) =>
                \E k \in DOMAIN sent : \E type, values :
                    /\ sent[k] \in Frames
                    /\ damaged => k = 1
                    /\ Carries(sent[k], type, values)
                    /\ \/ UpToDelimiter(piece, sent[k].bytes)
                       \/ Len(piece) = 15 /\ Len(sent[k].bytes) % 256 = 15
<1>1. \A k \in DOMAIN sent : sent[k] \in Frames
  BY DEF Received, SentFrames
<1>2. ASSUME NEW k \in DOMAIN sent
      PROVE  sent[k].bytes \in Seq(Bytes) /\ \E type, values : Carries(sent[k], type, values)
  <2>1. PICK type, values : Carries(sent[k], type, values)
    BY <1>1, FramesCarry
  <2>2. IsFrameOf(sent[k].bytes, type, Payload(values))
    BY <2>1, Zenon DEF Carries
  <2>3. sent[k].bytes \in Seq(Bytes)
    BY <2>2, Zenon DEF IsFrameOf, IsLaidOut
  <2>4. QED
    BY <2>1, <2>3, Zenon
<1>3. CASE ~damaged
  <2>1. Stream \in Seq(Bytes)
    <3>1. CASE \E f \in Frames : sent = <<f>>
      <4>1. DOMAIN sent = {1} /\ Len(sent) = 1
        BY <3>1
      <4>2. QED
        BY <4>1, <1>2 DEF Stream
    <3>2. CASE \E f, g \in Frames : sent = <<f, g>>
      <4>1. DOMAIN sent = {1, 2} /\ Len(sent) # 1
        BY <3>2
      <4>2. sent[1].bytes \in Seq(Bytes) /\ sent[2].bytes \in Seq(Bytes)
        BY <4>1, <1>2
      <4>3. sent[1].bytes \o sent[2].bytes \in Seq(Bytes)
        BY <4>2, Concat
      <4>4. QED
        BY <4>1, <4>3 DEF Stream
    <3>3. QED
      BY <3>1, <3>2 DEF Received, SentFrames
  <2>2. piece \in Seq(Bytes)
    <3>1. Cut(piece)
      BY <1>3 DEF Received
    <3>2. \A first \in 1..Len(Stream) : \A last \in first..Len(Stream) :
            SubSeq(Stream, first, last) \in Seq(Bytes)
      BY <2>1
    <3>3. <<>> \in Seq(Bytes)
      OBVIOUS
    <3>4. QED
      BY <3>1, <3>2, <3>3, Zenon DEF Cut
  <2>3. ASSUME Parses(piece)
        PROVE  \E k \in DOMAIN sent : UpToDelimiter(piece, sent[k].bytes)
    <3>1. PICK k \in DOMAIN sent : piece = sent[k].bytes
      BY <1>3, <2>3, OnlyWholeFramesParseHere DEF OnlyWholeFramesParse
    <3>2. UpToDelimiter(piece, sent[k].bytes)
      BY <3>1, Zenon DEF UpToDelimiter
    <3>3. QED
      BY <3>2
  <2>4. QED
    BY <1>1, <1>2, <1>3, <2>2, <2>3, Zenon
<1>4. CASE damaged
  <2>1. Len(sent) = 1
    BY <1>4 DEF Received
  <2>2. 1 \in DOMAIN sent /\ Stream = sent[1].bytes
    <3>1. 1 \in DOMAIN sent
      BY DEF Received, SentFrames
    <3>2. QED
      BY <2>1, <3>1, Zenon DEF Stream
  <2>3. PICK q : Damageable(q) /\ DamageTo(piece, q)
    BY <1>4, Zenon DEF Received
  <2>4. PICK type, values : Carries(sent[1], type, values)
    BY <1>2, <2>2
  <2>5. q = sent[1].bytes \/ (Len(q) \in 14..15 /\ q = SubSeq(sent[1].bytes, 1, Len(q)))
    BY <2>2, <2>3, Zenon DEF Damageable
  <2>6. /\ piece \in Seq(Bytes)
        /\ Parses(piece) =>
             UpToDelimiter(piece, sent[1].bytes) \/ (Len(piece) = 15 /\ Len(sent[1].bytes) % 256 = 15)
    BY <2>3, <2>4, <2>5, DamagedParses, Zenon
  <2>7. QED
    BY <1>1, <2>2, <2>4, <2>6, Zenon
<1>5. QED
  BY <1>3, <1>4

LEMMA StaysInsideHere == Received => StaysInside
<1> SUFFICES ASSUME Received PROVE StaysInside
  OBVIOUS
<1>1. piece \in Seq(Bytes)
  BY PiecesThatParse
<1>2. HeaderComplete(piece) => HeaderReads \subseteq DOMAIN piece
  BY <1>1 DEF HeaderComplete, HeaderReads, HeaderSize
<1>3. ASSUME Parses(piece)
      PROVE  PayloadCount(piece) = DynamicExtent \/ HeaderSize + PayloadCount(piece) <= Len(piece)
  <2>1. PICK k \in DOMAIN sent : \E type, values :
               /\ Carries(sent[k], type, values)
               /\ \/ UpToDelimiter(piece, sent[k].bytes)
                  \/ Len(piece) = 15
    BY <1>3, PiecesThatParse, Zenon
  <2>2. PICK type, values :
               /\ Carries(sent[k], type, values)
               /\ \/ UpToDelimiter(piece, sent[k].bytes)
                  \/ Len(piece) = 15
    BY <2>1
  <2>3. CASE Len(piece) = 15
    BY <2>3 DEF PayloadCount, DynamicExtent, SizeSpace, HeaderSize
  <2>4. CASE UpToDelimiter(piece, sent[k].bytes)
    <3> DEFINE b == sent[k].bytes
               n == Len(Payload(values))
    <3>1. n \in Nat /\ Len(b) = n + 16 /\ ToUint16(b[12], b[13]) = n + 3
      BY <2>2, Zenon DEF Carries, IsFrameOf, IsLaidOut
    <3>2. Len(piece) = Len(b) /\ \A i \in 1..(Len(b) - 3) : piece[i] = b[i]
      BY <2>4, Zenon DEF UpToDelimiter
    <3> HIDE DEF b, n
    <3>3. piece[12] = b[12] /\ piece[13] = b[13]
      BY <3>1, <3>2
    <3>4. PayloadCount(piece) = n
      BY <1>1, <3>1, <3>2, <3>3, PayloadOfFrame
    <3>5. QED
      BY <3>1, <3>2, <3>4 DEF HeaderSize
  <2>5. QED
    BY <2>2, <2>3, <2>4
<1>4. QED
  BY <1>2, <1>3, Zenon DEF StaysInside

\* No answer has a length that becomes that of a beginning.
NoAnswerLooksShort == \A msg \in Answers : Len(PicoFrame(msg).bytes) % 256 # 15

LEMMA NoFrameLooksShort ==
    ASSUME NoAnswerLooksShort, NEW f \in Frames
    PROVE  Len(f.bytes) % 256 # 15
<1>1. CASE f \in Requests
  <2>1. Len(f.bytes) <= 35 /\ \E type, values : Carries(f, type, values)
    BY <1>1, RequestsCarry
  <2>2. PICK type, values : Carries(f, type, values)
    BY <2>1
  <2>3. Len(Payload(values)) \in Nat /\ Len(f.bytes) = Len(Payload(values)) + 16
    BY <2>2, Zenon DEF Carries, IsFrameOf, IsLaidOut
  <2>4. QED
    BY <2>1, <2>3
<1>2. CASE f \in {PicoFrame(msg) : msg \in Answers}
  BY <1>2 DEF NoAnswerLooksShort
<1>3. QED
  BY <1>1, <1>2 DEF Frames

LEMMA DamageIsHarmlessHere == NoAnswerLooksShort /\ Received => DamageIsHarmless
<1> SUFFICES ASSUME NoAnswerLooksShort, Received, damaged, Parses(piece)
             PROVE  ParseMessage(piece) = Meant(sent[1].msg)
  BY Zenon DEF DamageIsHarmless, ParseMessage
<1>1. piece \in Seq(Bytes)
  BY PiecesThatParse
<1>2. \E type, values :
          /\ sent[1] \in Frames
          /\ Carries(sent[1], type, values)
          /\ \/ UpToDelimiter(piece, sent[1].bytes)
             \/ Len(piece) = 15 /\ Len(sent[1].bytes) % 256 = 15
  BY PiecesThatParse, Zenon
<1>3. PICK type, values :
          /\ Carries(sent[1], type, values)
          /\ UpToDelimiter(piece, sent[1].bytes)
  BY <1>2, NoFrameLooksShort, Zenon
<1>4. QED
  BY <1>1, <1>3, FrameReadBack, Zenon DEF UpToDelimiter

\* What is received is a cut of what was sent, or a frame or the beginning of
\* one with a byte or two neighbours changed: the inductive invariant the
\* properties follow from.
THEOREM ReceivedAlways == Spec => []Received
<1>1. QED
  BY ReceivedInitially, ReceivedStays, PTL DEF Spec

\* parse_message reads only what was received, and takes no payload that reaches
\* beyond it, whatever the answers, the ids and the damage.
THEOREM StaysInsideAlways == Spec => []StaysInside
<1>1. QED
  BY ReceivedAlways, StaysInsideHere, PTL

\* However two frames are cut, a piece parses if and only if it is one of them.
THEOREM OnlyWholeFramesParseAlways == Spec => []OnlyWholeFramesParse
<1>1. QED
  BY ReceivedAlways, OnlyWholeFramesParseHere, PTL

\* A frame is parsed to the message it was written for, of any number of values.
THEOREM ParsedAsWrittenAlways == Spec => []ParsedAsWritten
<1>1. QED
  BY ReceivedAlways, ParsedAsWrittenHere, PTL

\* Damage to a byte or to two neighbours is noticed or does not matter, as long
\* as no answer is 15 bytes longer than a multiple of 256.
THEOREM DamageIsHarmlessAlways ==
    ASSUME NoAnswerLooksShort
    PROVE  Spec => []DamageIsHarmless
<1>1. QED
  BY ReceivedAlways, DamageIsHarmlessHere, PTL
=============================================================================
