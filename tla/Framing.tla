------------------------------ MODULE Framing ------------------------------
(***************************************************************************)
(* Frames byte by byte: write_message_data makes one, parse_message checks *)
(* what a receive returned, message_values_iterator takes the payload to   *)
(* values.  One or two frames are sent in a row; a receive returns any     *)
(* contiguous piece of them (TCP keeps no boundaries), and a byte or two   *)
(* next to each other may be damaged on the way.                           *)
(*                                                                         *)
(* Bytes are numbers, spans are sequences; index i of the code is i + 1    *)
(* here.  What Client and Hub call Unreadable is a piece that does not     *)
(* parse here.                                                             *)
(***************************************************************************)
EXTENDS Messages

CONSTANTS
    Answers,     \* messages the Pico sends
    RequestIds,  \* ids the client asks for
    Damages      \* what may be xored to a damaged byte

Bytes == 0..255
MaxUint16 == 65535
Words == 0..MaxUint16
MaxInt32 == 2147483647
Int32s == (-MaxInt32 - 1)..MaxInt32
HeaderSize == 14

VARIABLES
    sent,      \* one or two frames in a row, each with the message it is to carry
    piece,     \* what a receive returned, none at first
    damaged    \* it was damaged on the way

vars == <<sent, piece, damaged>>

From(s, i) == SubSeq(s, i, Len(s))

\* to_uint16: the first byte is the high one.
ToUint16(hi, lo) == 256 * hi + lo

-----------------------------------------------------------------------------
(* crc.hpp                                                                 *)

Poly == 4489

XorBit(a, b, bit) == bit * ((a \div bit + b \div bit) % 2)
XorByte ==
    [a \in Bytes |-> [b \in Bytes |->
        XorBit(a, b, 1) + XorBit(a, b, 2) + XorBit(a, b, 4) + XorBit(a, b, 8)
          + XorBit(a, b, 16) + XorBit(a, b, 32) + XorBit(a, b, 64) + XorBit(a, b, 128)]]

Xor16(a, b) == 256 * XorByte[a \div 256][b \div 256] + XorByte[a % 256][b % 256]

\* One turn of the inner loop, and all eight of them.
ShiftOut(crc) ==
    IF crc >= 32768 THEN Xor16((2 * crc) % 65536, Poly) ELSE 2 * crc

ShiftOutByte ==
    [crc \in Words |->
        ShiftOut(ShiftOut(ShiftOut(ShiftOut(ShiftOut(ShiftOut(ShiftOut(ShiftOut(crc))))))))]

CrcStep(crc, byte) == ShiftOutByte[Xor16(crc, 256 * byte)]

Crc(bytes) ==
    LET crc[n \in 0..Len(bytes)] == IF n = 0 THEN 0 ELSE CrcStep(crc[n - 1], bytes[n])
    IN  crc[Len(bytes)]

-----------------------------------------------------------------------------
(* write_message_data                                                      *)

MessageTypeCode ==
    [system_information |-> 1, count_information |-> 2, device_information |-> 65,
     sensor_information |-> 32, sensor_state |-> 176]

Header(type, origin, length) ==
    <<0, 0, 0, 0, 0, 255, MessageTypeCode[type], origin[1], origin[2], origin[3], origin[4],
      length \div 256, length % 256, 255>>

\* The length counts the payload and three bytes more; the CRC leaves out the
\* last byte in front of it.
Frame(type, origin, data) ==
    LET body == Header(type, origin, Len(data) + 3) \o data
        crc == Crc(SubSeq(body, 1, Len(body) - 1))
    IN  body \o <<crc \div 256, crc % 256>>

WriteMessageData(type, data) == Frame(type, <<4, 140, 85, 75>>, data)

DeviceData(id) == <<0, 1, 0, 0, 0, id, 255, 1, 3, 0, 0, 0, 0, 255, 0, 0, 0, 0, 255>>
SensorData(id) == <<1, 1, 0, 0, 0, id, 255, 2, 1, 0, 0, 0, 0, 255>>

Written(type, values, data) ==
    [msg |-> [type |-> type, values |-> values], bytes |-> WriteMessageData(type, data)]

Requests ==
    {Written(type, <<>>, <<>>) : type \in {"system_information", "count_information", "sensor_state"}}
        \cup {Written("device_information", <<Num1(0, id), Num3(1, 0)>>, DeviceData(id)) :
                 id \in RequestIds}
        \cup {Written("sensor_information", <<Num1(1, id), Num1(2, 0)>>, SensorData(id)) :
                 id \in RequestIds}

-----------------------------------------------------------------------------
(* What the Pico writes                                                    *)

Int32Bytes(n) == <<(n \div 16777216) % 256, (n \div 65536) % 256, (n \div 256) % 256, n % 256>>

Encode(v) ==
    CASE v.tag = "num1" -> <<v.id, 1>> \o Int32Bytes(v.val) \o <<255>>
      [] v.tag = "num3" -> <<v.id, 3, 0, 0, 0, 0, 255>> \o Int32Bytes(v.val) \o <<255>>
      [] v.tag = "text" -> <<v.id, 4, 0, 0, 0, 0, 255>> \o v.val \o <<0, 255>>

\* Value by value; data[n] are the bytes of the last n of them.
Payload(values) ==
    LET data[n \in 0..Len(values)] ==
          IF n = 0 THEN <<>> ELSE Encode(values[Len(values) - n + 1]) \o data[n - 1]
    IN  data[Len(values)]

PicoFrame(msg) ==
    [msg |-> msg, bytes |-> Frame(msg.type, <<133, 222, 195, 70>>, Payload(msg.values))]

\* Texts end at their 0 byte, so none is in them; a payload has a length its
\* frame can tell.
NumberValues == [id : Bytes, tag : {"num1", "num3"}, val : Int32s]
TextValues == [id : Bytes, tag : {"text"}, val : Seq(1..255)]

ASSUME AnswersAreMessages ==
    \A msg \in Answers :
        /\ msg = [type |-> msg.type, values |-> [k \in 1..Len(msg.values) |-> msg.values[k]]]
        /\ msg.type \in DOMAIN MessageTypeCode
        /\ Len(msg.values) \in Nat
        /\ \A k \in 1..Len(msg.values) :
             IF msg.values[k].tag = "text" THEN msg.values[k] \in TextValues
                                           ELSE msg.values[k] \in NumberValues
        /\ Len(Payload(msg.values)) + 3 <= MaxUint16

ASSUME IdsAndDamagesAreBytes == RequestIds \subseteq Bytes /\ Damages \subseteq 1..255

Frames == Requests \cup {PicoFrame(msg) : msg \in Answers}

-----------------------------------------------------------------------------
(* parse_header, parse_message_type, parse_message                         *)

\* Mutant: one byte too few is taken for a header.
HeaderCompleteOffByOne(bytes) == Len(bytes) >= HeaderSize - 1

HeaderComplete(bytes) == Len(bytes) >= HeaderSize

HeaderValid(bytes) ==
    /\ SubSeq(bytes, 1, 6) = <<0, 0, 0, 0, 0, 255>>
    /\ bytes[14] = 255

TypesOf(bytes) == {type \in DOMAIN MessageTypeCode : MessageTypeCode[type] = bytes[7]}

HeaderLength(bytes) == ToUint16(bytes[12], bytes[13])

\* The length in the header against the number of bytes there are.
LengthMatches(bytes) == HeaderLength(bytes) = Len(bytes) - HeaderSize + 1

\* The CRC leaves out the first byte, and the last one of the payload.
CrcMatches(bytes) ==
    Crc(SubSeq(bytes, 2, Len(bytes) - 3)) =
        ToUint16(bytes[Len(bytes) - 1], bytes[Len(bytes)])

\* Mutant: only one byte of the CRC is compared.
IntactByHighByte(bytes) ==
    /\ LengthMatches(bytes)
    /\ Crc(SubSeq(bytes, 2, Len(bytes) - 3)) \div 256 = bytes[Len(bytes) - 1]

\* Mutant: the frame is taken to end where its length says.
IntactUpToLength(bytes) ==
    /\ HeaderLength(bytes) <= Len(bytes) - HeaderSize + 1
    /\ CrcMatches(SubSeq(bytes, 1, HeaderLength(bytes) + HeaderSize - 1))

Intact(bytes) == LengthMatches(bytes) /\ CrcMatches(bytes)

Parses(bytes) ==
    /\ HeaderComplete(bytes)
    /\ HeaderValid(bytes)
    /\ TypesOf(bytes) # {}
    /\ Intact(bytes)

\* size_t is 16 bits wide here and 64 in the code; the subtraction wraps alike.
SizeSpace == 65536
DynamicExtent == SizeSpace - 1
PayloadCount(bytes) == (Len(bytes) + SizeSpace - 2 - HeaderSize) % SizeSpace

PayloadOf(bytes) ==
    IF PayloadCount(bytes) = DynamicExtent
      THEN From(bytes, HeaderSize + 1)
      ELSE SubSeq(bytes, HeaderSize + 1, HeaderSize + PayloadCount(bytes))

-----------------------------------------------------------------------------
(* message_values_iterator                                                 *)

Signed(byte) == IF byte >= 128 THEN byte - 256 ELSE byte

\* to_int32 of the four bytes at position i.
ToInt32(bytes, i) ==
    Signed(bytes[i]) * 16777216 + bytes[i + 1] * 65536 + bytes[i + 2] * 256 + bytes[i + 3]

Invalid(id) == [id |-> id, tag |-> "invalid", val |-> 0]

ReplaceNonAscii(c) == IF c < 128 THEN c ELSE 63

\* Where a string ends: at the first 0 after its header of seven bytes.
Nulls(bytes) == {i \in 8..Len(bytes) : bytes[i] = 0}
FirstNull(bytes) == CHOOSE i \in Nulls(bytes) : \A j \in Nulls(bytes) : i <= j

IsNum1(bytes) == bytes[2] = 1 /\ Len(bytes) >= 6
IsNum3(bytes) == bytes[2] = 3 /\ Len(bytes) >= 11
IsText(bytes) == bytes[2] = 4 /\ Nulls(bytes) # {}

\* update_data
ValueAt(bytes) ==
    CASE IsNum1(bytes) -> Num1(bytes[1], ToInt32(bytes, 3))
      [] IsNum3(bytes) -> Num3(bytes[1], ToInt32(bytes, 8))
      [] IsText(bytes) ->
            Text(bytes[1], [i \in 1..(FirstNull(bytes) - 8) |-> ReplaceNonAscii(bytes[i + 7])])
      [] OTHER -> Invalid(bytes[1])

\* Mutant: the delimiter behind a string is not skipped.
SkipToDelimiter(bytes) ==
    CASE IsNum1(bytes) -> 7
      [] IsNum3(bytes) -> 12
      [] IsText(bytes) -> FirstNull(bytes)
      [] OTHER -> Len(bytes)

\* operator++: over the bytes of the value and its delimiter; an invalid value
\* ends the iteration.
Skip(bytes) ==
    CASE IsNum1(bytes) -> 7
      [] IsNum3(bytes) -> 12
      [] IsText(bytes) -> FirstNull(bytes) + 1
      [] OTHER -> Len(bytes)

\* What operator++ leaves: fewer than two bytes are the end.
Rest(bytes) == IF Len(bytes) < 2 THEN <<>> ELSE From(bytes, Skip(bytes) + 1)

\* rest[n] is left after n steps; the iteration goes on as long as update_data
\* finds two bytes there.
Values(bytes) ==
    LET rest[n \in 0..Len(bytes)] == IF n = 0 THEN bytes ELSE Rest(rest[n - 1])
    IN  [k \in {n \in 1..Len(bytes) : Len(rest[n - 1]) >= 2} |-> ValueAt(rest[k - 1])]

ParseMessage(bytes) ==
    IF Parses(bytes)
      THEN [type |-> CHOOSE type \in TypesOf(bytes) : TRUE, values |-> Values(PayloadOf(bytes))]
      ELSE Unreadable

-----------------------------------------------------------------------------
(* Receiving                                                               *)

Stream == IF Len(sent) = 1 THEN sent[1].bytes ELSE sent[1].bytes \o sent[2].bytes

Init ==
    /\ sent \in {<<f>> : f \in Frames} \cup {<<f, g>> : f, g \in Frames}
    /\ piece = <<>>
    /\ damaged = FALSE

\* A receive ends where it likes, and begins where the last one ended.
Receive ==
    /\ piece = <<>>
    /\ \E first \in 1..Len(Stream) : \E last \in first..Len(Stream) :
         piece' = SubSeq(Stream, first, last)
    /\ UNCHANGED <<sent, damaged>>

Flip(bytes, i, x) == IF i \in DOMAIN bytes THEN [bytes EXCEPT ![i] = XorByte[@][x]] ELSE bytes

\* One byte, or two next to each other, of a whole frame or of the beginning
\* of one.
Damage ==
    /\ ~damaged
    /\ Len(sent) = 1
    /\ piece = Stream \/ (Len(piece) \in 14..15 /\ piece = SubSeq(Stream, 1, Len(piece)))
    /\ \E i \in DOMAIN piece : \E x \in Damages : \E y \in Damages \cup {0} :
         piece' = Flip(Flip(piece, i, x), i + 1, y)
    /\ damaged' = TRUE
    /\ UNCHANGED sent

Next == Receive \/ Damage

Spec == Init /\ [][Next]_vars

-----------------------------------------------------------------------------
(* Properties                                                              *)

\* The bytes parse_header looks at.
HeaderReads == (1..7) \cup (12..14)

\* parse_message reads nothing outside of what was received, and hands on no
\* span that reaches beyond it.  A piece of 14 or 15 bytes passes the header
\* check with less than a payload and a CRC behind it; the size of its payload
\* would wrap, and only the checks of length and CRC keep it from being made.
StaysInside ==
    /\ HeaderComplete(piece) => HeaderReads \subseteq DOMAIN piece
    /\ Parses(piece) =>
         \/ PayloadCount(piece) = DynamicExtent
         \/ HeaderSize + PayloadCount(piece) <= Len(piece)

\* However the stream is cut, a piece is parsed exactly if it is one of the
\* frames: no beginning, end or middle of a frame, and no two frames at once.
OnlyWholeFramesParse ==
    ~damaged => (Parses(piece) <=> \E k \in DOMAIN sent : piece = sent[k].bytes)

\* A byte that is not ASCII is read as a question mark; all else as it is.
AsRead(v) ==
    IF v.tag = "text"
      THEN Text(v.id, [i \in DOMAIN v.val |-> IF v.val[i] \in 1..127 THEN v.val[i] ELSE 63])
      ELSE v
Meant(msg) == [msg EXCEPT !.values = [k \in DOMAIN @ |-> AsRead(@[k])]]

\* What a frame was written for is what it is parsed to: the type, and values
\* with ids, kinds and contents, in their order.
ParsedAsWritten ==
    \A k \in DOMAIN sent : piece = sent[k].bytes => ParseMessage(piece) = Meant(sent[k].msg)

\* The CRC leaves out the last byte of the payload, and the first one of the
\* frame.  Damage to one byte or to two neighbours is noticed all the same, or
\* it hit the delimiter behind the last value, from which nothing is read.
DamageIsHarmless ==
    damaged => ParseMessage(piece) \in {Unreadable, Meant(sent[1].msg)}
=============================================================================
