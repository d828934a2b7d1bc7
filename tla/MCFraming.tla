----------------------------- MODULE MCFraming -----------------------------
(***************************************************************************)
(* Requests for a few ids, and answers with every kind of value, short     *)
(* enough for all cuts; and the bytes recorded by the tests.               *)
(***************************************************************************)
EXTENDS Framing

CountMessage == [type |-> "count_information", values |-> <<Num1(1, 31), Num1(2, 41)>>]

const_Answers ==
    { CountMessage,
      [type |-> "sensor_state", values |-> <<Num1(0, -1002), Num1(1, 97983)>>],
      [type |-> "device_information",
       values |-> <<Num1(0, 255), Text(3, <<80, 233>>), Num3(4, 10)>>] }

const_Damages == {1, 2, 4, 8, 16, 32, 64, 128, 255}

\* The count frame recorded in the tests is what the Pico writes here, and its
\* counts come out as the tests say.
ASSUME RecordedCount ==
    /\ PicoFrame(CountMessage).bytes =
         <<0, 0, 0, 0, 0, 255, 2, 133, 222, 195, 70, 0, 17, 255, 1, 1, 0, 0, 0, 31,
           255, 2, 1, 0, 0, 0, 41, 255, 19, 20>>
    /\ ParseCountInfo(ParseMessage(PicoFrame(CountMessage).bytes)) =
         {[device_count |-> 32, sensor_count |-> 42]}

\* So is the system information, with a serial number above 2^31.
ASSUME RecordedSystem ==
    LET bytes == <<0, 0, 0, 0, 0, 255, 1, 133, 222, 195, 70, 0, 17, 255, 1, 1, 133, 222, 195, 70,
                   255, 2, 1, 0, 1, 0, 17, 255, 85, 3>>
        msg == [type |-> "system_information",
                values |-> <<Num1(1, -2048998586), Num1(2, 65553)>>]
    IN  PicoFrame(msg).bytes = bytes /\ ParseMessage(bytes) = msg

\* Why DamageIsHarmlessAlways leaves out some lengths: the first 15 bytes of an
\* answer with 255 bytes of payload, two of them damaged, parse as one without
\* values.
ASSUME LongAnswerLooksShort ==
    LET beginning == Header("sensor_state", <<133, 222, 195, 70>>, 255 + 3) \o <<63>>
    IN  ParseMessage(Flip(Flip(beginning, 11, 55), 12, 1)) = [type |-> "sensor_state", values |-> <<>>]

\* The CRC the tests give for a request.
ASSUME RecordedCrc == Crc(<<0, 0, 0, 0, 255, 2, 4, 140, 85, 75, 0, 3>>) = 43200
=============================================================================
