------------------------------ MODULE Messages ------------------------------
(***************************************************************************)
(* Messages of the Simarine protocol as spymarine sees them once a frame   *)
(* is parsed: a type and the list of values the value iterator yields, and *)
(* the parsers that turn a message into count, device and sensor records.  *)
(*                                                                         *)
(* An std::optional or std::expected is a set with at most one element;    *)
(* the empty set is "no value" or "an error".                              *)
(***************************************************************************)
EXTENDS Integers, Sequences

\* The number of values of a uint8_t: 256 in the code, small for TLC.
CONSTANT IdSpace

ASSUME IdSpaceAssumption == IdSpace \in Nat \ {0, 1}

ByteIds == 0..(IdSpace - 1)

\* A conversion to uint8_t: what uint8() reads of a number and what a
\* narrowing conversion keeps of it.
Uint8(n) == n % IdSpace

-----------------------------------------------------------------------------
(* Message values                                                          *)

Num1(id, n) == [id |-> id, tag |-> "num1", val |-> n]
Num3(id, n) == [id |-> id, tag |-> "num3", val |-> n]
Text(id, s) == [id |-> id, tag |-> "text", val |-> s]

\* An unreadable frame: parse_header, parse_message_type, the length or the
\* CRC check of parse_message rejects it.
Unreadable == [type |-> "unreadable", values |-> <<>>]

\* message_values_view::find(id): the position of the first value with that
\* id, whatever its type.
FirstWithId(values, id) ==
    {i \in 1..Len(values) : /\ values[i].id = id
                            /\ \A j \in 1..(i - 1) : values[j].id # id}

\* message_values_view::find<T>(id): that value if it has the type asked for.
\* A later value with the same id and the right type is not looked at.
Find(values, tag, id) ==
    {values[i].val : i \in {k \in FirstWithId(values, id) : values[k].tag = tag}}

-----------------------------------------------------------------------------
(* Parsers                                                                 *)

IfType(msg, type, S) == IF msg.type = type THEN S ELSE {}

ParseSystemInfo(msg) ==
    {[serial |-> found[1], fw |-> found[2]] :
        found \in IfType(msg, "system_information",
                         Find(msg.values, "num1", 1) \X Find(msg.values, "num1", 2))}

\* Mutant: the highest index is taken for the count.
ParseHighestAsCount(msg) ==
    {[device_count |-> Uint8(found[1]), sensor_count |-> Uint8(found[2])] :
        found \in IfType(msg, "count_information",
                         Find(msg.values, "num1", 1) \X Find(msg.values, "num1", 2))}

\* The device sends the highest index; the addition wraps at the width of
\* uint8_t.
ParseCountInfo(msg) ==
    {[device_count |-> Uint8(Uint8(found[1]) + 1),
      sensor_count |-> Uint8(Uint8(found[2]) + 1)] :
        found \in IfType(msg, "count_information",
                         Find(msg.values, "num1", 1) \X Find(msg.values, "num1", 2))}

DeviceKind(type) ==
    CASE type = 1 -> "voltage"
      [] type = 2 -> "current"
      [] type = 3 -> "temperature"
      [] type = 5 -> "barometer"
      [] type = 6 -> "resistive"
      [] type = 8 -> "tank"
      [] type = 9 -> "battery"
      [] OTHER -> "unsupported"

DeviceKinds == {"voltage", "current", "temperature", "barometer", "resistive",
                "tank", "battery", "unsupported"}

\* Only the identity, the kind and the name of a device are kept; the tank
\* and battery attributes are plain copies of values.
ParseDevice(msg) ==
    {[id |-> Uint8(found[1]), kind |-> DeviceKind(found[2]),
      name |-> Find(msg.values, "text", 3), sensor_ids |-> <<>>] :
        found \in IfType(msg, "device_information",
                         Find(msg.values, "num1", 0) \X Find(msg.values, "num3", 1))}

\* A type 5 sensor is the trend only when the local id is present and zero.
SensorKind(type, local) ==
    CASE type = 1 -> "voltage"
      [] type = 2 -> "current"
      [] type = 4 -> "temperature"
      [] type = 5 /\ local = {0} -> "barometer_trend"
      [] type = 5 /\ local # {0} -> "barometer"
      [] type = 7 -> "resistive"
      [] type = 8 -> "tank"
      [] type = 11 -> "battery"
      [] OTHER -> "unsupported"

SensorKinds == DeviceKinds \cup {"barometer_trend"}

\* Mutant: the parent keeps the width of the number it is read from.
ParseSensorWideParent(msg) ==
    {[id |-> Uint8(found[1]),
      kind |-> SensorKind(Uint8(found[2]), {Uint8(l) : l \in Find(msg.values, "num1", 4)}),
      parent |-> Find(msg.values, "num1", 3),
      value |-> {}] :
        found \in IfType(msg, "sensor_information",
                         Find(msg.values, "num1", 1) \X Find(msg.values, "num1", 2))}

\* The parent is read as a uint32 and narrowed to a device_id.
ParseSensor(msg) ==
    {[id |-> Uint8(found[1]),
      kind |-> SensorKind(Uint8(found[2]), {Uint8(l) : l \in Find(msg.values, "num1", 4)}),
      parent |-> {Uint8(p) : p \in Find(msg.values, "num1", 3)},
      value |-> {}] :
        found \in IfType(msg, "sensor_information",
                         Find(msg.values, "num1", 1) \X Find(msg.values, "num1", 2))}

\* update_sensor_values with average count 0: every num1 value whose id is an
\* index of the table is written to the sensor there, in message order, so the
\* last one stays.  An average of one value is that value.
LastReading(values, id) ==
    {values[i].val : i \in {k \in 1..Len(values) :
        /\ values[k].id = id /\ values[k].tag = "num1"
        /\ \A j \in (k + 1)..Len(values) : ~(values[j].id = id /\ values[j].tag = "num1")}}

UpdateSensorValues(sensors, values) ==
    [i \in 1..Len(sensors) |->
        IF LastReading(values, i - 1) = {}
          THEN sensors[i]
          ELSE [sensors[i] EXCEPT !.value = LastReading(values, i - 1)]]
=============================================================================
