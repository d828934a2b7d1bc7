-------------------------------- MODULE Pico --------------------------------
(***************************************************************************)
(* The Simarine Pico, the device spymarine talks to.  Its firmware is not  *)
(* part of the repository: its inventory and its answers are modelled from *)
(* how the code parses them and from the recorded answers of the tests.    *)
(***************************************************************************)
EXTENDS Messages

CONSTANTS
    Inventories,    \* the inventories a Pico may have
    Names,          \* device names
    StateAnswers(_) \* value lists an inventory may report in a state answer

\* A parent field with every bit set: the sensor hangs on no device.  The
\* recorded sensors without a parent leave the field out; parse_sensor2 reads
\* any 32 bits there and keeps eight of them.
NoParent == IdSpace * IdSpace - 1

Values ==
    [id : Nat, tag : {"num1", "num3"}, val : Int] \cup [id : Nat, tag : {"text"}, val : Names]

MessageTypes == {"system_information", "count_information", "device_information",
                 "sensor_information", "sensor_state", "unreadable"}

MessageSet == [type : MessageTypes, values : Seq(Values)]

SystemFacts == [serial : Int, fw : Int]
DeviceFacts == [type : Nat, name : SUBSET Names]
SensorFacts == [type : ByteIds, parent : SUBSET Nat, local : SUBSET ByteIds]

\* A parent is absent, the index of a device, or NoParent.
InventoryAssumption ==
    \A p \in Inventories :
        /\ p.system \in SystemFacts
        /\ p.devices \in Seq(DeviceFacts)
        /\ p.sensors \in Seq(SensorFacts)
        /\ \A d \in 1..Len(p.devices) : \A a, b \in p.devices[d].name : a = b
        /\ \A s \in 1..Len(p.sensors) :
              /\ p.sensors[s].parent = {} \/
                 \E n \in 0..(Len(p.devices) - 1) \cup {NoParent} :
                    p.sensors[s].parent = {n}
              /\ \A a, b \in p.sensors[s].local : a = b

ASSUME InventoriesAreWellFormed == InventoryAssumption

ReadingsAssumption ==
    \A p \in Inventories : StateAnswers(p) \subseteq Seq(Values)

ASSUME ReadingsAreValues == ReadingsAssumption

\* The ids of one byte reach every device and sensor, with one value spare:
\* the count of exactly IdSpace entries cannot be told from none.
Addressable(p) == Len(p.devices) < IdSpace /\ Len(p.sensors) < IdSpace

-----------------------------------------------------------------------------
(* Requests of the client.                                                 *)

SystemRequest == [type |-> "system_information", id |-> 0]
CountRequest == [type |-> "count_information", id |-> 0]
DeviceRequest(id) == [type |-> "device_information", id |-> id]
SensorRequest(id) == [type |-> "sensor_information", id |-> id]
StateRequest == [type |-> "sensor_state", id |-> 0]

Requests ==
    {SystemRequest, CountRequest, StateRequest}
        \cup {DeviceRequest(id) : id \in ByteIds}
        \cup {SensorRequest(id) : id \in ByteIds}

-----------------------------------------------------------------------------
(* Answers.                                                                *)

OptionalNum1(id, S) == IF S = {} THEN <<>> ELSE <<Num1(id, CHOOSE n \in S : TRUE)>>

SystemValues(p) == <<Num1(1, p.system.serial), Num1(2, p.system.fw)>>

CountValues(p) == <<Num1(1, Len(p.devices) - 1), Num1(2, Len(p.sensors) - 1)>>

\* A device without a name sends a number where the name would be.
DeviceValues(p, id) ==
    LET facts == p.devices[id + 1]
    IN  <<Num1(0, id), Num3(1, facts.type),
          IF facts.name = {} THEN Num1(3, 0)
                             ELSE Text(3, CHOOSE n \in facts.name : TRUE)>>

SensorValues(p, id) ==
    LET facts == p.sensors[id + 1]
    IN  <<Num1(1, id), Num1(2, facts.type)>>
            \o OptionalNum1(3, facts.parent) \o OptionalNum1(4, facts.local)

\* The values a Pico with inventory p may send in answer to a request, the
\* truth if it has what is asked for.
TrueValues(p, req) ==
    CASE req.type = "system_information" -> {SystemValues(p)}
      [] req.type = "count_information" -> {CountValues(p)}
      [] req.type = "device_information" ->
            {DeviceValues(p, id) : id \in {i \in {req.id} : i < Len(p.devices)}}
      [] req.type = "sensor_information" ->
            {SensorValues(p, id) : id \in {i \in {req.id} : i < Len(p.sensors)}}
      [] OTHER -> StateAnswers(p)

Answers(p, req) == [type : {req.type}, values : TrueValues(p, req)]

\* An answer spymarine cannot use: one parse_message rejects, or one without
\* the values its parser needs.
UselessAnswers(req) == {Unreadable, [type |-> req.type, values |-> <<>>]}
=============================================================================
