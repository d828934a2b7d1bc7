----------------------------- MODULE Hub_proofs -----------------------------
(***************************************************************************)
(* Proofs about Hub for every inventory, every width of the ids, every     *)
(* framing and every behaviour of the connection that Client allows.       *)
(***************************************************************************)
EXTENDS HubInvariants, SequenceTheorems, TLAPS

-----------------------------------------------------------------------------
(* The value lists                                                         *)

\* What find<T> returns has the type asked for.
LEMMA FindTypes ==
    ASSUME NEW values \in Seq(Values), NEW id
    PROVE  /\ Find(values, "num1", id) \subseteq Int
           /\ Find(values, "num3", id) \subseteq Int
           /\ Find(values, "text", id) \subseteq Names
BY SMTT(20) DEF Find, FirstWithId, Values

\* The parsers produce records of the tables' types.
LEMMA ParserTypes ==
    ASSUME NEW msg \in MessageSet
    PROVE  /\ ParseSystemInfo(msg) \subseteq SystemFacts
           /\ ParseCountInfo(msg) \subseteq [device_count : ByteIds, sensor_count : ByteIds]
           /\ ParseDevice(msg) \subseteq DeviceRecords
           /\ ParseSensor(msg) \subseteq SensorRecords
<1>1. msg.values \in Seq(Values)
  BY DEF MessageSet
<1>2. \A n \in Int : Uint8(n) \in ByteIds
  BY IdSpaceAssumption, SMT DEF Uint8, ByteIds
<1>3. \A n \in Int : DeviceKind(n) \in DeviceKinds
  BY SMT DEF DeviceKind, DeviceKinds
<1>4. \A n, l : SensorKind(n, l) \in SensorKinds
  BY SMT DEF SensorKind, SensorKinds, DeviceKinds
<1>5. ASSUME NEW c \in ParseCountInfo(msg)
      PROVE  c \in [device_count : ByteIds, sensor_count : ByteIds]
  <2>1. PICK found \in Find(msg.values, "num1", 1) \X Find(msg.values, "num1", 2) :
           c = [device_count |-> Uint8(Uint8(found[1]) + 1),
                sensor_count |-> Uint8(Uint8(found[2]) + 1)]
    BY <1>5, SMT DEF IfType, ParseCountInfo
  <2>2. found[1] \in Int /\ found[2] \in Int
    BY <1>1, FindTypes
  <2>3. Uint8(found[1]) + 1 \in Int /\ Uint8(found[2]) + 1 \in Int
    BY <2>2, <1>2, IdSpaceAssumption DEF ByteIds
  <2>4. QED
    BY <2>1, <2>3, <1>2
<1>6. ASSUME NEW dev \in ParseDevice(msg)
      PROVE  dev \in DeviceRecords
  <2>1. PICK found \in Find(msg.values, "num1", 0) \X Find(msg.values, "num3", 1) :
           dev = [id |-> Uint8(found[1]), kind |-> DeviceKind(found[2]),
                  name |-> Find(msg.values, "text", 3), sensor_ids |-> <<>>]
    BY <1>6, SMT DEF IfType, ParseDevice
  <2>2. QED
    BY <2>1, <1>1, <1>2, <1>3, FindTypes DEF DeviceRecords
<1>7. ASSUME NEW sen \in ParseSensor(msg)
      PROVE  sen \in SensorRecords
  <2>1. PICK found \in Find(msg.values, "num1", 1) \X Find(msg.values, "num1", 2) :
           sen = [id |-> Uint8(found[1]),
                  kind |-> SensorKind(Uint8(found[2]), {Uint8(l) : l \in Find(msg.values, "num1", 4)}),
                  parent |-> {Uint8(p) : p \in Find(msg.values, "num1", 3)},
                  value |-> {}]
    BY <1>7, SMT DEF IfType, ParseSensor
  <2>2. {Uint8(p) : p \in Find(msg.values, "num1", 3)} \subseteq ByteIds
    BY <1>1, <1>2, FindTypes
  <2>3. QED
    BY <2>1, <2>2, <1>1, <1>2, <1>4, FindTypes DEF SensorRecords
<1>8. ASSUME NEW info \in ParseSystemInfo(msg)
      PROVE  info \in SystemFacts
  <2>1. PICK found \in Find(msg.values, "num1", 1) \X Find(msg.values, "num1", 2) :
           info = [serial |-> found[1], fw |-> found[2]]
    BY <1>8, SMT DEF IfType, ParseSystemInfo
  <2>2. QED
    BY <2>1, <1>1, FindTypes DEF SystemFacts
<1>9. QED
  BY <1>5, <1>6, <1>7, <1>8

\* What the Pico sends is a message.
LEMMA AnswersAreMessages ==
    ASSUME NEW p \in Inventories, NEW req \in Requests, NEW msg \in Answers(p, req)
    PROVE  msg \in MessageSet
<1> USE IdSpaceAssumption DEF SystemRequest, CountRequest, StateRequest, DeviceRequest,
                             SensorRequest
<1>1. /\ msg.type = req.type
      /\ msg.values \in TrueValues(p, req)
      /\ msg.values \in Seq(Values) => msg \in MessageSet
  BY SMT DEF Answers, Requests, MessageTypes, MessageSet
<1>2. /\ \A id \in Nat, n \in Int : Num1(id, n) \in Values /\ Num3(id, n) \in Values
      /\ \A id \in Nat, s \in Names : Text(id, s) \in Values
  BY SMT DEF Num1, Num3, Text, Values
<1>3. p.system \in SystemFacts /\ p.devices \in Seq(DeviceFacts) /\ p.sensors \in Seq(SensorFacts)
  BY InventoriesAreWellFormed DEF InventoryAssumption
<1>4. req.id \in Nat
  BY SMT DEF Requests, ByteIds
<1>5. CASE req.type = "system_information"
  <2>1. <<Num1(1, p.system.serial), Num1(2, p.system.fw)>> \in Seq(Values)
    BY <1>2, <1>3 DEF SystemFacts
  <2>2. msg.values = <<Num1(1, p.system.serial), Num1(2, p.system.fw)>>
    BY <1>1, <1>5 DEF TrueValues, SystemValues
  <2>3. QED
    BY <2>1, <2>2, <1>1
<1>6. CASE req.type = "count_information"
  <2>1. Len(p.devices) - 1 \in Int /\ Len(p.sensors) - 1 \in Int
    BY <1>3
  <2>2. <<Num1(1, Len(p.devices) - 1), Num1(2, Len(p.sensors) - 1)>> \in Seq(Values)
    BY <2>1, <1>2
  <2>3. msg.values = <<Num1(1, Len(p.devices) - 1), Num1(2, Len(p.sensors) - 1)>>
    BY <1>1, <1>6 DEF TrueValues, CountValues
  <2>4. QED
    BY <2>2, <2>3, <1>1
<1>7. CASE req.type = "device_information"
  <2>1. req.id < Len(p.devices) /\ msg.values = DeviceValues(p, req.id)
    BY <1>1, <1>7 DEF TrueValues
  <2>2. p.devices[req.id + 1] \in DeviceFacts
    BY <2>1, <1>3, <1>4
  <2>3. PICK name : /\ name \in Values
                    /\ msg.values = <<Num1(0, req.id), Num3(1, p.devices[req.id + 1].type), name>>
    <3>1. CASE p.devices[req.id + 1].name = {}
      BY <2>1, <3>1, <1>2 DEF DeviceValues
    <3>2. CASE p.devices[req.id + 1].name # {}
      <4>1. (CHOOSE n \in p.devices[req.id + 1].name : TRUE) \in Names
        BY <3>2, <2>2 DEF DeviceFacts
      <4>2. QED
        BY <2>1, <3>2, <4>1, <1>2 DEF DeviceValues
    <3>3. QED
      BY <3>1, <3>2
  <2>4. Num1(0, req.id) \in Values /\ Num3(1, p.devices[req.id + 1].type) \in Values
    BY <2>2, <1>2, <1>4 DEF DeviceFacts
  <2>5. msg.values \in Seq(Values)
    BY <2>3, <2>4
  <2>6. QED
    BY <2>5, <1>1
<1>8. CASE req.type = "sensor_information"
  <2>1. req.id < Len(p.sensors) /\ msg.values = SensorValues(p, req.id)
    BY <1>1, <1>8 DEF TrueValues
  <2>2. p.sensors[req.id + 1] \in SensorFacts
    BY <2>1, <1>3, <1>4
  <2>3. ASSUME NEW id \in Nat, NEW S \in SUBSET Int
        PROVE  OptionalNum1(id, S) \in Seq(Values)
    <3>1. CASE S = {}
      BY <3>1 DEF OptionalNum1
    <3>2. CASE S # {}
      <4>1. (CHOOSE n \in S : TRUE) \in Int
        BY <3>2
      <4>2. Num1(id, CHOOSE n \in S : TRUE) \in Values
        BY <4>1, <1>2
      <4>3. QED
        BY <3>2, <4>2 DEF OptionalNum1
    <3>3. QED
      BY <3>1, <3>2
  <2>4. /\ OptionalNum1(3, p.sensors[req.id + 1].parent) \in Seq(Values)
        /\ OptionalNum1(4, p.sensors[req.id + 1].local) \in Seq(Values)
    BY <2>2, <2>3 DEF SensorFacts, ByteIds
  <2>5. <<Num1(1, req.id), Num1(2, p.sensors[req.id + 1].type)>> \in Seq(Values)
    BY <2>2, <1>2, <1>4 DEF SensorFacts, ByteIds
  <2>6. msg.values \in Seq(Values)
    BY <2>1, <2>4, <2>5 DEF SensorValues
  <2>7. QED
    BY <2>6, <1>1
<1>9. CASE req.type = "sensor_state"
  <2>1. msg.values \in StateAnswers(p)
    BY <1>1, <1>9 DEF TrueValues
  <2>2. QED
    BY <1>1, <2>1, ReadingsAreValues DEF ReadingsAssumption
<1>10. QED
  BY <1>5, <1>6, <1>7, <1>8, <1>9, SMT DEF Requests

-----------------------------------------------------------------------------
(* Type correctness                                                        *)

LEMMA RequestTypes ==
    /\ \A req \in Requests : RequestMessage(req) \in MessageSet
    /\ \A req \in Requests : \A msg \in UselessAnswers(req) : msg \in MessageSet
    /\ Unreadable \in MessageSet
<1> USE IdSpaceAssumption DEF Requests, SystemRequest, CountRequest, StateRequest,
        DeviceRequest, SensorRequest, MessageSet, MessageTypes, ByteIds
<1>1. ASSUME NEW req \in Requests
      PROVE  RequestMessage(req) \in MessageSet
  <2>1. req.id \in Nat /\ req.type \in MessageTypes
    OBVIOUS
  <2>2. \A id \in Nat, n \in Int : Num1(id, n) \in Values /\ Num3(id, n) \in Values
    BY DEF Num1, Num3, Values
  <2>3. <<Num1(0, req.id), Num3(1, 0)>> \in Seq(Values) /\ <<Num1(1, req.id), Num1(2, 0)>> \in Seq(Values)
    BY <2>1, <2>2
  <2>4. QED
    BY <2>1, <2>3 DEF RequestMessage
<1>2. ASSUME NEW req \in Requests, NEW msg \in UselessAnswers(req)
      PROVE  msg \in MessageSet
  <2>1. msg = Unreadable \/ msg = [type |-> req.type, values |-> <<>>]
    BY <1>2 DEF UselessAnswers
  <2>2. req.type \in MessageTypes /\ <<>> \in Seq(Values)
    OBVIOUS
  <2>3. [type |-> req.type, values |-> <<>>] \in MessageSet
    BY <2>2, Zenon
  <2>4. Unreadable \in MessageSet
    BY <2>2, Zenon DEF Unreadable
  <2>5. QED
    BY <2>1, <2>3, <2>4, Zenon
<1>3. Unreadable \in MessageSet
  BY DEF Unreadable
<1>4. QED
  BY <1>1, <1>2, <1>3

LEMMA CurrentRequestsAreRequests ==
    TypeOK => CurrentRequests \subseteq Requests
<1> SUFFICES ASSUME TypeOK PROVE CurrentRequests \subseteq Requests
  OBVIOUS
<1>1. NextDevice \in ByteIds /\ NextSensor \in ByteIds
  BY IdSpaceAssumption DEF TypeOK, NextDevice, NextSensor, ByteIds
<1>2. QED
  BY <1>1 DEF CurrentRequests, Requests

\* A frame is a sequence of units, and what a receive reads of it a message.
LEMMA FrameTypes ==
    ASSUME NEW msg \in MessageSet
    PROVE  Frame(msg) \in Seq(Units)
BY ClientAssumption DEF Frame, Units

LEMMA ContentTypes ==
    ASSUME NEW chunk \in Seq(Units)
    PROVE  Content(chunk) \in MessageSet
<1>1. CASE IsWholeFrame(chunk)
  <2>1. chunk[1] \in Units
    BY <1>1, ClientAssumption DEF IsWholeFrame
  <2>2. QED
    BY <1>1, <2>1 DEF Content, Units
<1>2. CASE ~IsWholeFrame(chunk)
  BY <1>2, RequestTypes DEF Content
<1>3. QED
  BY <1>1, <1>2

LEMMA SendTypes ==
    ASSUME TypeOK, NEW req \in Requests, Send(req)
    PROVE  ClientTypeOK'
<1> USE DEF TypeOK, ClientTypeOK, WriteRequest
<1>1. /\ pico' \in Inventories /\ stream' \in Seq(Units)
      /\ connected' \in BOOLEAN /\ reported' \in SUBSET Seq(Values)
  BY DEF Send, SendWhole, SendShort, SendFails
<1>2. buffer' \in MessageSet
  BY RequestTypes DEF Send, SendWhole, SendShort, SendFails
<1>3. inbox' \in Seq(Requests \cup {Fragment})
  <2>1. Append(inbox, req) \in Seq(Requests \cup {Fragment})
    BY AppendProperties
  <2>2. Append(inbox, Fragment) \in Seq(Requests \cup {Fragment})
    BY AppendProperties
  <2>3. QED
    BY <2>1, <2>2 DEF Send, SendWhole, SendShort, SendFails
<1>4. status' \in {"idle", "waiting", "ok", "error"} /\ faults' \in SUBSET FaultKinds
  BY DEF Send, SendWhole, SendShort, SendFails, FaultKinds
<1>5. QED
  BY <1>1, <1>2, <1>3, <1>4

LEMMA ReceiveTypes ==
    ASSUME TypeOK, Receive \/ ReceiveEnd \/ ReceiveFails
    PROVE  ClientTypeOK'
<1> USE DEF TypeOK, ClientTypeOK, network
<1>1. CASE Receive
  <2>1. PICK n \in 1..Len(stream) :
           /\ stream' = SubSeq(stream, n + 1, Len(stream))
           /\ buffer' = Content(SubSeq(stream, 1, n))
           /\ status' = IF Content(SubSeq(stream, 1, n)) = Unreadable THEN "error" ELSE "ok"
           /\ faults' = faults \cup
                (IF IsWholeFrame(SubSeq(stream, 1, n)) THEN {} ELSE {"split"})
    BY <1>1 DEF Receive
  <2>2. stream' \in Seq(Units)
    BY <2>1, SubSeqProperties
  <2>3. SubSeq(stream, 1, n) \in Seq(Units)
    BY SubSeqProperties
  <2>4. QED
    BY <1>1, <2>1, <2>2, <2>3, ContentTypes DEF Receive, FaultKinds
<1>2. CASE ReceiveEnd
  BY <1>2 DEF ReceiveEnd
<1>3. CASE ReceiveFails
  BY <1>3 DEF ReceiveFails, FaultKinds
<1>4. QED
  BY <1>1, <1>2, <1>3

LEMMA DeliverTypes ==
    ASSUME TypeOK, NEW msg \in MessageSet, Deliver(msg)
    PROVE  /\ stream' \in Seq(Units)
           /\ Reported(msg) \in SUBSET Seq(Values)
           /\ UNCHANGED <<pico, connected, buffer, status>>
<1>1. stream' \in Seq(Units)
  BY FrameTypes, ConcatProperties DEF TypeOK, ClientTypeOK, Deliver
<1>2. Reported(msg) \in SUBSET Seq(Values)
  BY DEF TypeOK, ClientTypeOK, Reported, MessageSet
<1>3. QED
  BY <1>1, <1>2 DEF Deliver

LEMMA PicoTypes ==
    ASSUME TypeOK, PicoStep
    PROVE  ClientTypeOK'
<1> USE DEF TypeOK, ClientTypeOK
<1>1. CASE PicoAnswers
  <2>1. PICK msg \in Answers(pico, Head(inbox)) : Deliver(msg) /\ reported' = Reported(msg)
    BY <1>1 DEF PicoAnswers
  <2>2. msg \in MessageSet
    BY <1>1, AnswersAreMessages DEF PicoAnswers
  <2>3. inbox' \in Seq(Requests \cup {Fragment})
    BY <1>1, HeadTailProperties DEF PicoAnswers
  <2>4. QED
    BY <1>1, <2>1, <2>2, <2>3, DeliverTypes DEF PicoAnswers
<1>2. CASE PicoAnswersUselessly
  <2>1. PICK msg \in UselessAnswers(Head(inbox)) : Deliver(msg) /\ reported' = Reported(msg)
    BY <1>2 DEF PicoAnswersUselessly
  <2>2. msg \in MessageSet
    BY <1>2, RequestTypes DEF PicoAnswersUselessly
  <2>3. inbox' \in Seq(Requests \cup {Fragment})
    BY <1>2, HeadTailProperties DEF PicoAnswersUselessly
  <2>4. QED
    BY <1>2, <2>1, <2>2, <2>3, DeliverTypes DEF PicoAnswersUselessly, FaultKinds
<1>3. CASE PicoSendsUnasked
  <2>1. PICK req \in UnaskedRequests : \E msg \in Answers(pico, req) : Deliver(msg)
    BY <1>3 DEF PicoSendsUnasked
  <2>2. PICK msg \in Answers(pico, req) : Deliver(msg)
    BY <2>1
  <2>3. msg \in MessageSet
    BY ClientAssumption, AnswersAreMessages
  <2>4. QED
    BY <1>3, <2>2, <2>3, DeliverTypes DEF PicoSendsUnasked, FaultKinds
<1>4. CASE PicoCloses
  BY <1>4 DEF PicoCloses, FaultKinds
<1>5. QED
  BY <1>1, <1>2, <1>3, <1>4 DEF PicoStep

\* The hub's own variables, when the client or the Pico takes a step.
LEMMA ClientStepTypes ==
    ASSUME TypeOK, Progress, ClientTypeOK', UNCHANGED hubVars,
           status' = "idle" => status = "idle",
           status = "idle" => \/ status' = "idle"
                              \/ CurrentRequests # {}
    PROVE  TypeOK' /\ Progress'
<1>1. TypeOK'
  BY DEF TypeOK, hubVars
<1>2. Progress'
  BY IdSpaceAssumption DEF TypeOK, Progress, hubVars, CurrentRequests, NextDevice, NextSensor, ByteIds
<1>3. QED
  BY <1>1, <1>2

\* Linking a sensor and storing the values keep the tables' types and lengths.
LEMMA LinkTypes ==
    ASSUME TypeOK, NEW sen \in SensorRecords
    PROVE  /\ LinkSensor(sen) \in Seq(DeviceRecords)
           /\ Len(LinkSensor(sen)) = Len(devices)
<1>1. ASSUME NEW i \in 1..Len(devices)
      PROVE  [devices[i] EXCEPT !.sensor_ids = Append(@, sen.id)] \in DeviceRecords
  <2>1. devices[i] \in DeviceRecords /\ sen.id \in ByteIds
    BY DEF TypeOK, SensorRecords
  <2>2. Append(devices[i].sensor_ids, sen.id) \in Seq(ByteIds)
    BY <2>1, AppendProperties DEF DeviceRecords
  <2>3. QED
    BY <2>1, <2>2 DEF DeviceRecords
<1>2. \A i \in 1..Len(devices) : devices[i] \in DeviceRecords
  BY DEF TypeOK
<1>3. Len(devices) \in Nat
  BY DEF TypeOK
<1>4. QED
  BY <1>1, <1>2, <1>3 DEF LinkSensor

LEMMA UpdateTypes ==
    ASSUME NEW table \in Seq(SensorRecords), NEW values \in Seq(Values)
    PROVE  /\ UpdateSensorValues(table, values) \in Seq(SensorRecords)
           /\ Len(UpdateSensorValues(table, values)) = Len(table)
<1>1. \A id : LastReading(values, id) \in SUBSET Int
  BY SMTT(20) DEF LastReading, Values
<1>2. ASSUME NEW i \in 1..Len(table)
      PROVE  [table[i] EXCEPT !.value = LastReading(values, i - 1)] \in SensorRecords
  <2>1. LastReading(values, i - 1) \in SUBSET Int
    BY <1>1
  <2>2. table[i] \in SensorRecords
    OBVIOUS
  <2>3. QED
    BY <2>1, <2>2 DEF SensorRecords
<1>3. Len(table) \in Nat /\ \A i \in 1..Len(table) : table[i] \in SensorRecords
  OBVIOUS
<1>4. QED
  BY <1>2, <1>3 DEF UpdateSensorValues

LEMMA StepTypes ==
    ASSUME TypeOK, Progress, [Next]_vars
    PROVE  TypeOK' /\ Progress'
<1>1. CASE Request
  <2>1. PICK req \in CurrentRequests : Send(req)
    BY <1>1 DEF Request
  <2>2. ClientTypeOK'
    BY <2>1, CurrentRequestsAreRequests, SendTypes
  <2>3. status' # "idle"
    BY <2>1 DEF Send, SendWhole, SendShort, SendFails
  <2>4. QED
    BY <1>1, <2>1, <2>2, <2>3, ClientStepTypes DEF Request
<1>2. CASE StoreSystem
  <2>1. ClientTypeOK'
    BY <1>2 DEF StoreSystem, Responded, TypeOK, ClientTypeOK, network
  <2>2. system' \in SUBSET SystemFacts
    BY <1>2, ParserTypes DEF StoreSystem, TypeOK, ClientTypeOK
  <2>3. TypeOK'
    BY <1>2, <2>1, <2>2 DEF StoreSystem, TypeOK
  <2>4. Progress'
    BY <1>2 DEF StoreSystem, Progress
  <2>5. QED
    BY <2>3, <2>4
<1>3. CASE StoreCount
  <2>1. ClientTypeOK'
    BY <1>3 DEF StoreCount, Responded, TypeOK, ClientTypeOK, network
  <2>2. counts' \in [device_count : ByteIds, sensor_count : ByteIds]
    BY <1>3, ParserTypes DEF StoreCount, TypeOK, ClientTypeOK
  <2>3. TypeOK'
    BY <1>3, <2>1, <2>2 DEF StoreCount, TypeOK
  <2>4. Progress'
    BY <1>3, <2>2, IdSpaceAssumption DEF StoreCount, Responded, Progress, ByteIds
  <2>5. QED
    BY <2>3, <2>4
<1>4. CASE StoreDevice
  <2>1. ClientTypeOK'
    BY <1>4 DEF StoreDevice, Responded, TypeOK, ClientTypeOK, network
  <2>2. PICK dev \in DeviceRecords : devices' = Append(devices, dev)
    BY <1>4, ParserTypes DEF StoreDevice, AcceptedDevices, TypeOK, ClientTypeOK
  <2>3. devices' \in Seq(DeviceRecords) /\ Len(devices') = Len(devices) + 1
    BY <2>2 DEF TypeOK
  <2>4. Len(devices) < counts.device_count /\ counts.device_count \in ByteIds
    BY <1>4 DEF StoreDevice, Responded, Progress, TypeOK
  <2>5. TypeOK'
    BY <1>4, <2>1, <2>3, <2>4, IdSpaceAssumption DEF StoreDevice, TypeOK, ByteIds
  <2>6. Progress'
    BY <1>4, <2>3, <2>4, IdSpaceAssumption DEF StoreDevice, Responded, Progress, TypeOK, ByteIds
  <2>7. QED
    BY <2>5, <2>6
<1>5. CASE StoreSensor
  <2>1. ClientTypeOK'
    BY <1>5 DEF StoreSensor, Responded, TypeOK, ClientTypeOK, network
  <2>2. PICK sen \in SensorRecords : devices' = LinkSensor(sen) /\ sensors' = Append(sensors, sen)
    BY <1>5, ParserTypes DEF StoreSensor, AcceptedSensors, TypeOK, ClientTypeOK
  <2>3. sensors' \in Seq(SensorRecords) /\ Len(sensors') = Len(sensors) + 1
    BY <2>2 DEF TypeOK
  <2>4. devices' \in Seq(DeviceRecords) /\ Len(devices') = Len(devices)
    BY <2>2, LinkTypes
  <2>5. Len(sensors) < counts.sensor_count /\ counts.sensor_count \in ByteIds
    BY <1>5 DEF StoreSensor, Responded, Progress, TypeOK
  <2>6. TypeOK'
    BY <1>5, <2>1, <2>3, <2>4, <2>5, IdSpaceAssumption DEF StoreSensor, TypeOK, ByteIds
  <2>7. Progress'
    BY <1>5, <2>3, <2>4, <2>5, IdSpaceAssumption
       DEF StoreSensor, Responded, Progress, TypeOK, ByteIds
  <2>8. QED
    BY <2>6, <2>7
<1>6. CASE Construct
  <2>1. ClientTypeOK'
    BY <1>6 DEF Construct, Responded, TypeOK, ClientTypeOK, network
  <2>2. sensors' \in Seq(SensorRecords) /\ Len(sensors') = Len(sensors)
    BY <1>6, UpdateTypes DEF Construct, TypeOK, ClientTypeOK, MessageSet
  <2>3. TypeOK'
    BY <1>6, <2>1, <2>2 DEF Construct, TypeOK
  <2>4. Progress'
    BY <1>6, <2>2 DEF Construct, Progress
  <2>5. QED
    BY <2>3, <2>4
<1>7. CASE EndDevices \/ EndSensors
  <2>1. TypeOK'
    BY <1>7 DEF EndDevices, EndSensors, TypeOK, ClientTypeOK, clientVars
  <2>2. Progress'
    BY <1>7, IdSpaceAssumption DEF EndDevices, EndSensors, Progress, TypeOK, NextDevice, NextSensor, ByteIds, clientVars
  <2>3. QED
    BY <2>1, <2>2
<1>8. CASE Fail
  BY <1>8 DEF Fail, TypeOK, ClientTypeOK, Progress
<1>9. CASE (Receive \/ ReceiveEnd \/ ReceiveFails) /\ UNCHANGED hubVars
  <2>1. status = "waiting" /\ status' # "idle"
    BY <1>9 DEF Receive, ReceiveEnd, ReceiveFails
  <2>2. QED
    BY <1>9, <2>1, ReceiveTypes, ClientStepTypes
<1>10. CASE PicoStep /\ UNCHANGED hubVars
  <2>1. status' = status
    BY <1>10 DEF PicoStep, PicoAnswers, PicoAnswersUselessly, PicoSendsUnasked, PicoCloses, Deliver
  <2>2. QED
    BY <1>10, <2>1, PicoTypes, ClientStepTypes
<1>11. CASE UNCHANGED vars
  BY <1>11 DEF vars, clientVars, hubVars, TypeOK, ClientTypeOK, Progress
<1>12. QED
  BY <1>1, <1>2, <1>3, <1>4, <1>5, <1>6, <1>7, <1>8, <1>9, <1>10, <1>11 DEF Next, HubStep

LEMMA InitTypes == Init => TypeOK /\ Progress
<1> SUFFICES ASSUME Init PROVE TypeOK /\ Progress
  OBVIOUS
<1>1. ClientTypeOK
  BY RequestTypes DEF Init, ClientInit, ClientTypeOK, Requests
<1>2. TypeOK
  BY <1>1, IdSpaceAssumption DEF Init, TypeOK, ByteIds
<1>3. QED
  BY <1>2 DEF Init, Progress

\* Every variable keeps its type, and the tables never outgrow the one-byte
\* ids, however the connection and the Pico behave.
THEOREM TypeCorrect == Spec => []TypeOK
<1>1. TypeOK /\ Progress /\ [Next]_vars => TypeOK' /\ Progress'
  BY StepTypes
<1>2. QED
  BY InitTypes, <1>1, PTL DEF Spec

-----------------------------------------------------------------------------
(* What the parsers make of true answers                                   *)

\* find<T> takes the first value with the id, if it has the type.
LEMMA FindAt ==
    ASSUME NEW values, NEW id, NEW tag, Len(values) \in Nat,
           NEW i \in 1..Len(values), values[i].id = id,
           \A j \in 1..(i - 1) : values[j].id # id
    PROVE  Find(values, tag, id) = IF values[i].tag = tag THEN {values[i].val} ELSE {}
<1>1. FirstWithId(values, id) = {i}
  BY DEF FirstWithId
<1>2. QED
  BY <1>1 DEF Find

LEMMA FindFirst ==
    ASSUME NEW values, NEW id, NEW tag, Len(values) \in Nat, Len(values) >= 1,
           values[1].id = id, values[1].tag = tag
    PROVE  Find(values, tag, id) = {values[1].val}
<1>1. \A j \in 1..(1 - 1) : values[j].id # id
  OBVIOUS
<1>2. QED
  BY <1>1, FindAt

LEMMA FindSecond ==
    ASSUME NEW values, NEW id, NEW tag, Len(values) \in Nat, Len(values) >= 2,
           values[1].id # id, values[2].id = id, values[2].tag = tag
    PROVE  Find(values, tag, id) = {values[2].val}
<1>1. \A j \in 1..(2 - 1) : values[j].id # id
  OBVIOUS
<1>2. QED
  BY <1>1, FindAt

LEMMA FindThird ==
    ASSUME NEW values, NEW id, NEW tag, Len(values) \in Nat, Len(values) >= 3,
           values[1].id # id, values[2].id # id, values[3].id = id
    PROVE  Find(values, tag, id) = IF values[3].tag = tag THEN {values[3].val} ELSE {}
<1>1. \A j \in 1..(3 - 1) : values[j].id # id
  OBVIOUS
<1>2. QED
  BY <1>1, FindAt

LEMMA FindFourth ==
    ASSUME NEW values, NEW id, NEW tag, Len(values) \in Nat, Len(values) >= 4,
           values[1].id # id, values[2].id # id, values[3].id # id, values[4].id = id,
           values[4].tag = tag
    PROVE  Find(values, tag, id) = {values[4].val}
<1>1. \A j \in 1..(4 - 1) : values[j].id # id
  OBVIOUS
<1>2. QED
  BY <1>1, FindAt

LEMMA FindNone ==
    ASSUME NEW values, NEW id, NEW tag, \A j \in 1..Len(values) : values[j].id # id
    PROVE  Find(values, tag, id) = {}
BY DEF Find, FirstWithId

LEMMA NarrowIds == \A n \in ByteIds : Uint8(n) = n
BY IdSpaceAssumption, SMT DEF ByteIds, Uint8

\* The only element of a set with at most one.
LEMMA Only ==
    ASSUME NEW S, \A a, b \in S : a = b, S # {}
    PROVE  {CHOOSE n \in S : TRUE} = S
OBVIOUS

LEMMA DeviceAnswer ==
    ASSUME NEW p \in Inventories, NEW id \in ByteIds, id < Len(p.devices)
    PROVE  LET facts == p.devices[id + 1]
           IN  ParseDevice([type |-> "device_information", values |-> DeviceValues(p, id)])
                 = {[id |-> id, kind |-> DeviceKind(facts.type), name |-> facts.name,
                     sensor_ids |-> <<>>]}
<1> DEFINE facts == p.devices[id + 1]
           values == DeviceValues(p, id)
<1>1. \A a, b \in facts.name : a = b
  BY InventoriesAreWellFormed, IdSpaceAssumption DEF InventoryAssumption, ByteIds
<1>2. /\ Len(values) = 3
      /\ values[1] = Num1(0, id) /\ values[2] = Num3(1, facts.type)
      /\ values[3] = IF facts.name = {} THEN Num1(3, 0)
                                        ELSE Text(3, CHOOSE n \in facts.name : TRUE)
  BY DEF DeviceValues
<1> HIDE DEF values, facts
<1>3. Find(values, "num1", 0) = {id}
  BY <1>2, FindAt DEF Num1
<1>4. Find(values, "num3", 1) = {facts.type}
  BY <1>2, FindAt DEF Num1, Num3
<1>5. Find(values, "text", 3) = facts.name
  <2>1. values[1].id # 3 /\ values[2].id # 3 /\ values[3].id = 3
    BY <1>2 DEF Num1, Num3, Text
  <2>2. Find(values, "text", 3) = IF values[3].tag = "text" THEN {values[3].val} ELSE {}
    <3>1. Len(values) \in Nat /\ Len(values) >= 3
      BY <1>2
    <3>2. QED
      BY <2>1, <3>1, FindThird, Zenon
  <2>3. CASE facts.name = {}
    BY <1>2, <2>2, <2>3 DEF Num1
  <2>4. CASE facts.name # {}
    <3>1. {CHOOSE n \in facts.name : TRUE} = facts.name
      BY <1>1, <2>4, Only
    <3>2. values[3].tag = "text" /\ values[3].val = CHOOSE n \in facts.name : TRUE
      BY <1>2, <2>4 DEF Text
    <3>3. QED
      BY <2>2, <3>1, <3>2, Zenon
  <2>5. QED
    BY <2>3, <2>4
<1>6. ParseDevice([type |-> "device_information", values |-> values])
        = {[id |-> id, kind |-> DeviceKind(facts.type), name |-> facts.name,
            sensor_ids |-> <<>>]}
  <2>1. Find(values, "num1", 0) \X Find(values, "num3", 1) = {<<id, facts.type>>}
    BY <1>3, <1>4
  <2>2. Uint8(id) = id
    BY NarrowIds
  <2>3. ParseDevice([type |-> "device_information", values |-> values])
          = {[id |-> Uint8(found[1]), kind |-> DeviceKind(found[2]), name |-> facts.name,
              sensor_ids |-> <<>>] : found \in {<<id, facts.type>>}}
    BY <1>5, <2>1, Zenon DEF ParseDevice, IfType
  <2>4. QED
    BY <2>2, <2>3
<1>7. QED
  BY <1>6 DEF values, facts

LEMMA SensorAnswer ==
    ASSUME NEW p \in Inventories, NEW id \in ByteIds, id < Len(p.sensors)
    PROVE  LET facts == p.sensors[id + 1]
           IN  ParseSensor([type |-> "sensor_information", values |-> SensorValues(p, id)])
                 = {[id |-> id, kind |-> SensorKind(facts.type, facts.local),
                     parent |-> {Uint8(n) : n \in facts.parent}, value |-> {}]}
<1> DEFINE facts == p.sensors[id + 1]
           values == SensorValues(p, id)
           a == Num1(1, id)
           b == Num1(2, facts.type)
           c == Num1(3, CHOOSE n \in facts.parent : TRUE)
           d == Num1(4, CHOOSE n \in facts.local : TRUE)
<1>1. /\ \A x, y \in facts.parent : x = y
      /\ \A x, y \in facts.local : x = y
  BY InventoriesAreWellFormed, IdSpaceAssumption DEF InventoryAssumption, ByteIds
<1>2. facts \in SensorFacts
  BY InventoriesAreWellFormed, IdSpaceAssumption DEF InventoryAssumption, ByteIds
<1>3. values = <<a, b>> \o (IF facts.parent = {} THEN <<>> ELSE <<c>>)
                       \o (IF facts.local = {} THEN <<>> ELSE <<d>>)
  BY DEF SensorValues, OptionalNum1
<1>4. a.id = 1 /\ b.id = 2 /\ c.id = 3 /\ d.id = 4
  BY DEF Num1
<1>5. /\ a.tag = "num1" /\ b.tag = "num1" /\ c.tag = "num1" /\ d.tag = "num1"
      /\ a.val = id /\ b.val = facts.type
      /\ c.val = CHOOSE n \in facts.parent : TRUE
      /\ d.val = CHOOSE n \in facts.local : TRUE
  BY DEF Num1
<1>6. facts.parent # {} => {c.val} = facts.parent
  BY <1>1, <1>5, Only
<1>7. facts.local # {} => {d.val} = facts.local
  BY <1>1, <1>5, Only
<1> HIDE DEF values, a, b, c, d, facts
<1> DEFINE All == {a, b, c, d}
<1>0. /\ <<a, b>> \in Seq(All) /\ Len(<<a, b>>) = 2 /\ <<a, b>>[1] = a /\ <<a, b>>[2] = b
      /\ <<c>> \in Seq(All) /\ Len(<<c>>) = 1 /\ <<c>>[1] = c
      /\ <<d>> \in Seq(All) /\ Len(<<d>>) = 1 /\ <<d>>[1] = d
      /\ <<>> \in Seq(All) /\ Len(<<>>) = 0
  OBVIOUS
<1> HIDE DEF All
<1>8. /\ Find(values, "num1", 1) = {id}
      /\ Find(values, "num1", 2) = {facts.type}
      /\ Find(values, "num1", 3) = facts.parent
      /\ Find(values, "num1", 4) = facts.local
  <2>1. CASE facts.parent = {} /\ facts.local = {}
    <3>1. values = (<<a, b>> \o <<>>) \o <<>>
      BY <1>3, <2>1
    <3>2. Len(values) = 2 /\ values[1] = a /\ values[2] = b
      BY <3>1, <1>0, ConcatProperties
    <3>3. Len(values) \in Nat /\ Len(values) >= 1 /\ Len(values) >= 2
      BY <3>2
    <3>4. values[1].id = 1 /\ values[2].id = 2
      BY <3>2, <1>4
    <3>5. Find(values, "num1", 1) = {id} /\ Find(values, "num1", 2) = {facts.type}
      <4>1. values[1].tag = "num1" /\ values[1].val = id
        BY <3>2, <1>5
      <4>2. values[2].tag = "num1" /\ values[2].val = facts.type
        BY <3>2, <1>5
      <4>3. values[1].id # 2
        BY <3>4
      <4>4. Find(values, "num1", 1) = {id}
        BY <3>3, <3>4, <4>1, FindFirst, Zenon
      <4>5. Find(values, "num1", 2) = {facts.type}
        BY <3>3, <3>4, <4>2, <4>3, FindSecond, Zenon
      <4>6. QED
        BY <4>4, <4>5
    <3>6. Find(values, "num1", 3) = facts.parent
      <4>1. \A j \in 1..Len(values) : values[j].id # 3
        BY <3>2, <3>4
      <4>2. QED
        BY <4>1, <2>1, FindNone, Zenon
    <3>7. Find(values, "num1", 4) = facts.local
      <4>1. \A j \in 1..Len(values) : values[j].id # 4
        BY <3>2, <3>4
      <4>2. QED
        BY <4>1, <2>1, FindNone, Zenon
    <3>8. QED
      BY <3>5, <3>6, <3>7
  <2>2. CASE facts.parent # {} /\ facts.local = {}
    <3>1. values = (<<a, b>> \o <<c>>) \o <<>>
      BY <1>3, <2>2
    <3>2. Len(values) = 3 /\ values[1] = a /\ values[2] = b /\ values[3] = c
      BY <3>1, <1>0, ConcatProperties
    <3>3. Len(values) \in Nat /\ Len(values) >= 1 /\ Len(values) >= 2 /\ Len(values) >= 3
      BY <3>2
    <3>4. values[1].id = 1 /\ values[2].id = 2 /\ values[3].id = 3
      BY <3>2, <1>4
    <3>5. Find(values, "num1", 1) = {id} /\ Find(values, "num1", 2) = {facts.type}
      <4>1. values[1].tag = "num1" /\ values[1].val = id
        BY <3>2, <1>5
      <4>2. values[2].tag = "num1" /\ values[2].val = facts.type
        BY <3>2, <1>5
      <4>3. values[1].id # 2
        BY <3>4
      <4>4. Find(values, "num1", 1) = {id}
        BY <3>3, <3>4, <4>1, FindFirst, Zenon
      <4>5. Find(values, "num1", 2) = {facts.type}
        BY <3>3, <3>4, <4>2, <4>3, FindSecond, Zenon
      <4>6. QED
        BY <4>4, <4>5
    <3>6. Find(values, "num1", 3) = facts.parent
      <4>1. values[1].id # 3 /\ values[2].id # 3 /\ values[3].tag = "num1" /\ {values[3].val} = facts.parent
        BY <3>2, <3>4, <1>5, <1>6, <2>2
      <4>2. QED
        BY <3>3, <3>4, <4>1, FindThird, Zenon
    <3>7. Find(values, "num1", 4) = facts.local
      <4>1. \A j \in 1..Len(values) : values[j].id # 4
        BY <3>2, <3>4
      <4>2. QED
        BY <4>1, <2>2, FindNone, Zenon
    <3>8. QED
      BY <3>5, <3>6, <3>7
  <2>3. CASE facts.parent = {} /\ facts.local # {}
    <3>1. values = (<<a, b>> \o <<>>) \o <<d>>
      BY <1>3, <2>3
    <3>2. Len(values) = 3 /\ values[1] = a /\ values[2] = b /\ values[3] = d
      BY <3>1, <1>0, ConcatProperties
    <3>3. Len(values) \in Nat /\ Len(values) >= 1 /\ Len(values) >= 2 /\ Len(values) >= 3
      BY <3>2
    <3>4. values[1].id = 1 /\ values[2].id = 2 /\ values[3].id = 4
      BY <3>2, <1>4
    <3>5. Find(values, "num1", 1) = {id} /\ Find(values, "num1", 2) = {facts.type}
      <4>1. values[1].tag = "num1" /\ values[1].val = id
        BY <3>2, <1>5
      <4>2. values[2].tag = "num1" /\ values[2].val = facts.type
        BY <3>2, <1>5
      <4>3. values[1].id # 2
        BY <3>4
      <4>4. Find(values, "num1", 1) = {id}
        BY <3>3, <3>4, <4>1, FindFirst, Zenon
      <4>5. Find(values, "num1", 2) = {facts.type}
        BY <3>3, <3>4, <4>2, <4>3, FindSecond, Zenon
      <4>6. QED
        BY <4>4, <4>5
    <3>6. Find(values, "num1", 3) = facts.parent
      <4>1. \A j \in 1..Len(values) : values[j].id # 3
        BY <3>2, <3>4
      <4>2. QED
        BY <4>1, <2>3, FindNone, Zenon
    <3>7. Find(values, "num1", 4) = facts.local
      <4>1. values[1].id # 4 /\ values[2].id # 4 /\ values[3].tag = "num1" /\ {values[3].val} = facts.local
        BY <3>2, <3>4, <1>5, <1>7, <2>3
      <4>2. QED
        BY <3>3, <3>4, <4>1, FindThird, Zenon
    <3>8. QED
      BY <3>5, <3>6, <3>7
  <2>4. CASE facts.parent # {} /\ facts.local # {}
    <3>1. values = (<<a, b>> \o <<c>>) \o <<d>>
      BY <1>3, <2>4
    <3>2. Len(values) = 4 /\ values[1] = a /\ values[2] = b /\ values[3] = c /\ values[4] = d
      <4> DEFINE front == <<a, b>> \o <<c>>
                 back == <<d>>
      <4>1. /\ front \in Seq(All) /\ Len(front) = 3
            /\ front[1] = a /\ front[2] = b /\ front[3] = c
        BY <1>0, ConcatProperties
      <4>2. back \in Seq(All) /\ Len(back) = 1 /\ back[1] = d
        BY <1>0
      <4>3. values = front \o back
        BY <3>1
      <4> HIDE DEF front, back
      <4>4. /\ Len(front \o back) = Len(front) + Len(back)
            /\ \A i \in 1..(Len(front) + Len(back)) :
                 (front \o back)[i] = IF i <= Len(front) THEN front[i] ELSE back[i - Len(front)]
        BY <4>1, <4>2, ConcatProperties, Zenon
      <4>5. QED
        BY <4>1, <4>2, <4>3, <4>4
    <3>3. Len(values) \in Nat /\ Len(values) >= 1 /\ Len(values) >= 2 /\ Len(values) >= 3 /\ Len(values) >= 4
      BY <3>2
    <3>4. values[1].id = 1 /\ values[2].id = 2 /\ values[3].id = 3 /\ values[4].id = 4
      BY <3>2, <1>4
    <3>5. Find(values, "num1", 1) = {id} /\ Find(values, "num1", 2) = {facts.type}
      <4>1. values[1].tag = "num1" /\ values[1].val = id
        BY <3>2, <1>5
      <4>2. values[2].tag = "num1" /\ values[2].val = facts.type
        BY <3>2, <1>5
      <4>3. values[1].id # 2
        BY <3>4
      <4>4. Find(values, "num1", 1) = {id}
        BY <3>3, <3>4, <4>1, FindFirst, Zenon
      <4>5. Find(values, "num1", 2) = {facts.type}
        BY <3>3, <3>4, <4>2, <4>3, FindSecond, Zenon
      <4>6. QED
        BY <4>4, <4>5
    <3>6. Find(values, "num1", 3) = facts.parent
      <4>1. values[1].id # 3 /\ values[2].id # 3 /\ values[3].tag = "num1" /\ {values[3].val} = facts.parent
        BY <3>2, <3>4, <1>5, <1>6, <2>4
      <4>2. QED
        BY <3>3, <3>4, <4>1, FindThird, Zenon
    <3>7. Find(values, "num1", 4) = facts.local
      <4>1. values[1].id # 4 /\ values[2].id # 4 /\ values[3].id # 4 /\ values[4].tag = "num1" /\ {values[4].val} = facts.local
        BY <3>2, <3>4, <1>5, <1>7, <2>4
      <4>2. QED
        BY <3>3, <3>4, <4>1, FindFourth, Zenon
    <3>8. QED
      BY <3>5, <3>6, <3>7
  <2>5. QED
    BY <2>1, <2>2, <2>3, <2>4
<1>9. Uint8(id) = id /\ Uint8(facts.type) = facts.type /\ {Uint8(l) : l \in facts.local} = facts.local
  BY <1>2, NarrowIds DEF SensorFacts
<1>10. ParseSensor([type |-> "sensor_information", values |-> values])
        = {[id |-> id, kind |-> SensorKind(facts.type, facts.local),
            parent |-> {Uint8(n) : n \in facts.parent}, value |-> {}]}
  <2>1. Find(values, "num1", 1) \X Find(values, "num1", 2) = {<<id, facts.type>>}
    BY <1>8
  <2>2. ParseSensor([type |-> "sensor_information", values |-> values])
          = {[id |-> Uint8(found[1]),
              kind |-> SensorKind(Uint8(found[2]), {Uint8(l) : l \in facts.local}),
              parent |-> {Uint8(n) : n \in facts.parent}, value |-> {}] :
                found \in {<<id, facts.type>>}}
    BY <1>8, <2>1, Zenon DEF ParseSensor, IfType
  <2>3. QED
    BY <1>9, <2>2
<1>11. QED
  BY <1>10 DEF values, facts

LEMMA SystemAnswer ==
    ASSUME NEW p \in Inventories
    PROVE  ParseSystemInfo([type |-> "system_information", values |-> SystemValues(p)])
             = {p.system}
<1> DEFINE values == SystemValues(p)
<1>1. /\ Len(values) \in Nat /\ Len(values) >= 1 /\ Len(values) >= 2
      /\ values[1] = Num1(1, p.system.serial) /\ values[2] = Num1(2, p.system.fw)
  BY DEF SystemValues
<1> HIDE DEF values
<1>2. /\ values[1].id = 1 /\ values[1].tag = "num1" /\ values[1].val = p.system.serial
      /\ values[2].id = 2 /\ values[2].tag = "num1" /\ values[2].val = p.system.fw
      /\ values[1].id # 2
  BY <1>1 DEF Num1
<1>3. Find(values, "num1", 1) = {p.system.serial} /\ Find(values, "num1", 2) = {p.system.fw}
  <2>1. Find(values, "num1", 1) = {p.system.serial}
    BY <1>1, <1>2, FindFirst, Zenon
  <2>2. Find(values, "num1", 2) = {p.system.fw}
    BY <1>1, <1>2, FindSecond, Zenon
  <2>3. QED
    BY <2>1, <2>2
<1>4. Find(values, "num1", 1) \X Find(values, "num1", 2) = {<<p.system.serial, p.system.fw>>}
  BY <1>3
<1>5. ParseSystemInfo([type |-> "system_information", values |-> values])
        = {[serial |-> found[1], fw |-> found[2]] : found \in {<<p.system.serial, p.system.fw>>}}
  BY <1>4, Zenon DEF ParseSystemInfo, IfType
<1>6. p.system = [serial |-> p.system.serial, fw |-> p.system.fw]
  BY InventoriesAreWellFormed DEF InventoryAssumption, SystemFacts
<1>7. QED
  BY <1>5, <1>6 DEF values

LEMMA CountAnswer ==
    ASSUME NEW p \in Inventories
    PROVE  ParseCountInfo([type |-> "count_information", values |-> CountValues(p)])
             = {[device_count |-> Count(Len(p.devices)), sensor_count |-> Count(Len(p.sensors))]}
<1> DEFINE values == CountValues(p)
           d == Len(p.devices) - 1
           s == Len(p.sensors) - 1
<1>1. /\ Len(values) \in Nat /\ Len(values) >= 1 /\ Len(values) >= 2
      /\ values[1] = Num1(1, d) /\ values[2] = Num1(2, s)
  BY DEF CountValues
<1> HIDE DEF values, d, s
<1>2. /\ values[1].id = 1 /\ values[1].tag = "num1" /\ values[1].val = d
      /\ values[2].id = 2 /\ values[2].tag = "num1" /\ values[2].val = s
      /\ values[1].id # 2
  BY <1>1 DEF Num1
<1>3. Find(values, "num1", 1) = {d} /\ Find(values, "num1", 2) = {s}
  BY <1>1, <1>2, FindFirst, FindSecond, Zenon
<1>4. Find(values, "num1", 1) \X Find(values, "num1", 2) = {<<d, s>>}
  BY <1>3
<1>5. ParseCountInfo([type |-> "count_information", values |-> values])
        = {[device_count |-> Uint8(Uint8(found[1]) + 1),
            sensor_count |-> Uint8(Uint8(found[2]) + 1)] : found \in {<<d, s>>}}
  BY <1>4, Zenon DEF ParseCountInfo, IfType
<1>6. QED
  BY <1>5 DEF values, d, s, Count

-----------------------------------------------------------------------------
(* Whatever the order of the messages, what is parsed of a true one is true *)

LEMMA ParsersOfNothing ==
    ASSUME NEW msg, msg.values = <<>>
    PROVE  /\ ParseSystemInfo(msg) = {} /\ ParseCountInfo(msg) = {}
           /\ ParseDevice(msg) = {} /\ ParseSensor(msg) = {}
<1>1. \A tag, id : Find(msg.values, tag, id) = {}
  BY FindNone
<1>2. QED
  BY <1>1 DEF ParseSystemInfo, ParseCountInfo, ParseDevice, ParseSensor, IfType

LEMMA AnswerToWhom ==
    ASSUME NEW p, NEW req \in Requests, NEW msg \in Answers(p, req)
    PROVE  /\ msg = [type |-> req.type, values |-> msg.values]
           /\ msg.type = req.type
           /\ msg.values \in TrueValues(p, req)
           /\ req.id \in ByteIds
<1>1. req.id \in ByteIds
  BY IdSpaceAssumption, SMT DEF Requests, SystemRequest, CountRequest, StateRequest,
     DeviceRequest, SensorRequest, ByteIds
<1>2. QED
  BY <1>1 DEF Answers

LEMMA TrueSystem ==
    ASSUME pico \in Inventories, NEW msg, Truthful(msg), NEW info \in ParseSystemInfo(msg)
    PROVE  info = pico.system
<1>1. PICK req \in Requests : msg \in Answers(pico, req)
  BY ParsersOfNothing DEF Truthful
<1>2. msg.type = "system_information"
  BY DEF ParseSystemInfo, IfType
<1>3. msg = [type |-> "system_information", values |-> SystemValues(pico)]
  <2>1. /\ msg = [type |-> req.type, values |-> msg.values] /\ msg.type = req.type
        /\ msg.values \in TrueValues(pico, req) /\ req.id \in ByteIds
    BY <1>1, AnswerToWhom, Zenon
  <2>2. QED
    BY <1>2, <2>1 DEF TrueValues
<1>4. QED
  BY <1>3, SystemAnswer

LEMMA TrueCount ==
    ASSUME pico \in Inventories, NEW msg, Truthful(msg), NEW c \in ParseCountInfo(msg)
    PROVE  /\ c.device_count = Count(Len(pico.devices))
           /\ c.sensor_count = Count(Len(pico.sensors))
<1>1. PICK req \in Requests : msg \in Answers(pico, req)
  BY ParsersOfNothing DEF Truthful
<1>2. msg.type = "count_information"
  BY DEF ParseCountInfo, IfType
<1>3. msg = [type |-> "count_information", values |-> CountValues(pico)]
  <2>1. /\ msg = [type |-> req.type, values |-> msg.values] /\ msg.type = req.type
        /\ msg.values \in TrueValues(pico, req) /\ req.id \in ByteIds
    BY <1>1, AnswerToWhom, Zenon
  <2>2. QED
    BY <1>2, <2>1 DEF TrueValues
<1>4. QED
  BY <1>3, CountAnswer

LEMMA TrueDevice ==
    ASSUME pico \in Inventories, NEW msg, Truthful(msg), NEW dev \in ParseDevice(msg)
    PROVE  /\ dev.id \in ByteIds /\ dev.id < Len(pico.devices)
           /\ dev.kind = DeviceKind(pico.devices[dev.id + 1].type)
           /\ dev.name = pico.devices[dev.id + 1].name
           /\ dev.sensor_ids = <<>>
<1>1. PICK req \in Requests : msg \in Answers(pico, req)
  BY ParsersOfNothing DEF Truthful
<1>2. msg.type = "device_information"
  BY DEF ParseDevice, IfType
<1>3. /\ req.id \in ByteIds /\ req.id < Len(pico.devices)
      /\ msg = [type |-> "device_information", values |-> DeviceValues(pico, req.id)]
  <2>1. /\ msg = [type |-> req.type, values |-> msg.values] /\ msg.type = req.type
        /\ msg.values \in TrueValues(pico, req) /\ req.id \in ByteIds
    BY <1>1, AnswerToWhom, Zenon
  <2>2. QED
    BY <1>2, <2>1 DEF TrueValues
<1>4. QED
  BY <1>3, DeviceAnswer

LEMMA TrueSensor ==
    ASSUME pico \in Inventories, NEW msg, Truthful(msg), NEW sen \in ParseSensor(msg)
    PROVE  /\ sen.id \in ByteIds /\ sen.id < Len(pico.sensors)
           /\ sen.kind = SensorKind(pico.sensors[sen.id + 1].type, pico.sensors[sen.id + 1].local)
           /\ sen.parent = {Uint8(n) : n \in pico.sensors[sen.id + 1].parent}
<1>1. PICK req \in Requests : msg \in Answers(pico, req)
  BY ParsersOfNothing DEF Truthful
<1>2. msg.type = "sensor_information"
  BY DEF ParseSensor, IfType
<1>3. /\ req.id \in ByteIds /\ req.id < Len(pico.sensors)
      /\ msg = [type |-> "sensor_information", values |-> SensorValues(pico, req.id)]
  <2>1. /\ msg = [type |-> req.type, values |-> msg.values] /\ msg.type = req.type
        /\ msg.values \in TrueValues(pico, req) /\ req.id \in ByteIds
    BY <1>1, AnswerToWhom, Zenon
  <2>2. QED
    BY <1>2, <2>1 DEF TrueValues
<1>4. QED
  BY <1>3, SensorAnswer

-----------------------------------------------------------------------------
(* Only true messages travel                                               *)

LEMMA ReadOfTheStream ==
    ASSUME TypeOK, Genuine, NEW n \in 1..Len(stream)
    PROVE  /\ Truthful(Content(SubSeq(stream, 1, n)))
           /\ \A i \in 1..Len(SubSeq(stream, n + 1, Len(stream))) :
                Truthful(SubSeq(stream, n + 1, Len(stream))[i].msg)
<1>1. stream \in Seq(Units) /\ Len(stream) \in Nat
  BY DEF TypeOK, ClientTypeOK
<1>2. SubSeq(stream, 1, n)[1] = stream[1] /\ Truthful(stream[1].msg)
  BY <1>1 DEF Genuine
<1>3. Truthful(Unreadable)
  BY DEF Truthful, Unreadable
<1>4. Truthful(Content(SubSeq(stream, 1, n)))
  BY <1>2, <1>3, Zenon DEF Content
<1>5. ASSUME NEW i \in 1..Len(SubSeq(stream, n + 1, Len(stream)))
      PROVE  Truthful(SubSeq(stream, n + 1, Len(stream))[i].msg)
  <2>1. \A j \in (n + 1)..Len(stream) : stream[j] \in Units
    BY <1>1
  <2>2. /\ n + i \in 1..Len(stream)
        /\ SubSeq(stream, n + 1, Len(stream))[i] = stream[n + i]
    BY <1>1, <2>1, SubSeqProperties
  <2>3. QED
    BY <2>2 DEF Genuine
<1>6. QED
  BY <1>4, <1>5

LEMMA DeliverGenuine ==
    ASSUME TypeOK, Genuine, NEW msg \in MessageSet, Truthful(msg), Deliver(msg)
    PROVE  Genuine'
<1>1. stream \in Seq(Units) /\ Frame(msg) \in Seq(Units) /\ stream' = stream \o Frame(msg)
  BY FrameTypes DEF TypeOK, ClientTypeOK, Deliver
<1>2. \A i \in 1..Len(Frame(msg)) : Frame(msg)[i].msg = msg
  BY ClientAssumption DEF Frame
<1>3. ASSUME NEW i \in 1..Len(stream')
      PROVE  Truthful(stream'[i].msg)
  <2>1. \/ i \in 1..Len(stream) /\ stream'[i] = stream[i]
        \/ i - Len(stream) \in 1..Len(Frame(msg)) /\ stream'[i] = Frame(msg)[i - Len(stream)]
    BY <1>1, ConcatProperties
  <2>2. QED
    BY <2>1, <1>2 DEF Genuine
<1>4. pico' = pico /\ buffer' = buffer /\ status' = status
  BY DEF Deliver
<1>5. QED
  BY <1>3, <1>4 DEF Genuine, Truthful

LEMMA UselessIsTruthful ==
    \A req : \A msg \in UselessAnswers(req) : Truthful(msg)
BY DEF UselessAnswers, Truthful, Unreadable

LEMMA StepGenuine ==
    ASSUME TypeOK, Genuine, [Next]_vars
    PROVE  Genuine'
<1>1. CASE UNCHANGED <<pico, stream, buffer>> /\ (status' = "ok" => status = "ok")
  BY <1>1 DEF Genuine, Truthful
<1>2. CASE Request
  BY <1>2 DEF Request, Send, SendWhole, SendShort, SendFails, WriteRequest, Genuine, Truthful
<1>3. CASE Receive
  <2>1. PICK n \in 1..Len(stream) :
           /\ stream' = SubSeq(stream, n + 1, Len(stream))
           /\ buffer' = Content(SubSeq(stream, 1, n))
    BY <1>3 DEF Receive
  <2>2. pico' = pico
    BY <1>3 DEF Receive
  <2>3. QED
    BY <2>1, <2>2, ReadOfTheStream DEF Genuine, Truthful
<1>4. CASE PicoStep
  <2>1. CASE PicoAnswers
    <3>1. PICK msg \in Answers(pico, Head(inbox)) : Deliver(msg)
      BY <2>1 DEF PicoAnswers
    <3>2. Head(inbox) \in Requests /\ pico \in Inventories
      BY <2>1 DEF PicoAnswers, TypeOK, ClientTypeOK
    <3>3. msg \in MessageSet /\ Truthful(msg)
      BY <3>2, AnswersAreMessages DEF Truthful
    <3>4. QED
      BY <3>1, <3>3, DeliverGenuine
  <2>2. CASE PicoAnswersUselessly
    <3>1. PICK msg \in UselessAnswers(Head(inbox)) : Deliver(msg)
      BY <2>2 DEF PicoAnswersUselessly
    <3>2. Head(inbox) \in Requests
      BY <2>2 DEF PicoAnswersUselessly
    <3>3. msg \in MessageSet /\ Truthful(msg)
      BY <3>2, RequestTypes, UselessIsTruthful
    <3>4. QED
      BY <3>1, <3>3, DeliverGenuine
  <2>3. CASE PicoSendsUnasked
    <3>1. PICK req \in UnaskedRequests : \E msg \in Answers(pico, req) : Deliver(msg)
      BY <2>3 DEF PicoSendsUnasked
    <3>2. PICK msg \in Answers(pico, req) : Deliver(msg)
      BY <3>1
    <3>3. req \in Requests /\ pico \in Inventories
      BY ClientAssumption DEF TypeOK, ClientTypeOK
    <3>4. msg \in MessageSet /\ Truthful(msg)
      BY <3>3, AnswersAreMessages DEF Truthful
    <3>5. QED
      BY <3>2, <3>4, DeliverGenuine
  <2>4. CASE PicoCloses
    BY <2>4, <1>1 DEF PicoCloses
  <2>5. QED
    BY <1>4, <2>1, <2>2, <2>3, <2>4 DEF PicoStep
<1>5. CASE StoreSystem \/ StoreCount \/ StoreDevice \/ StoreSensor \/ Construct
  BY <1>1, <1>5 DEF StoreSystem, StoreCount, StoreDevice, StoreSensor, Construct, Responded, network
<1>6. CASE EndDevices \/ EndSensors \/ Fail
  BY <1>1, <1>6 DEF EndDevices, EndSensors, Fail, clientVars
<1>7. CASE ReceiveEnd \/ ReceiveFails
  BY <1>1, <1>7 DEF ReceiveEnd, ReceiveFails, network
<1>8. CASE UNCHANGED vars
  BY <1>1, <1>8 DEF vars, clientVars
<1>9. QED
  BY <1>2, <1>3, <1>4, <1>5, <1>6, <1>7, <1>8 DEF Next, HubStep

-----------------------------------------------------------------------------
(* The tables                                                              *)

Tables == TablesAreTrue /\ CountsAreTrue /\ LinksAgree

LEMMA EntryTypes ==
    ASSUME TypeOK
    PROVE  /\ Len(devices) \in Nat /\ Len(sensors) \in Nat
           /\ \A i \in 1..Len(devices) :
                /\ devices[i] \in DeviceRecords
                /\ devices[i].sensor_ids \in Seq(ByteIds)
                /\ Len(devices[i].sensor_ids) \in Nat
           /\ \A i \in 1..Len(sensors) : sensors[i] \in SensorRecords
<1>1. /\ \A i \in 1..Len(devices) : devices[i] \in DeviceRecords
      /\ \A i \in 1..Len(sensors) : sensors[i] \in SensorRecords
      /\ Len(devices) \in Nat /\ Len(sensors) \in Nat
  BY DEF TypeOK
<1>2. \A dev \in DeviceRecords : dev.sensor_ids \in Seq(ByteIds)
  BY DEF DeviceRecords
<1>3. \A s \in Seq(ByteIds) : Len(s) \in Nat
  OBVIOUS
<1>4. QED
  BY <1>1, <1>2, <1>3

\* Storing a device, which has no sensors yet.
LEMMA StoreDeviceTables ==
    ASSUME TypeOK, Progress, Genuine, Tables, StoreDevice
    PROVE  Tables'
<1>1. /\ status = "ok" /\ phase = "devices" /\ sensors = <<>>
      /\ UNCHANGED <<pico, phase, system, counts, sensors>>
  BY DEF StoreDevice, Responded, Progress
<1>2. PICK dev \in ParseDevice(buffer) : dev.id = NextDevice /\ devices' = Append(devices, dev)
  BY DEF StoreDevice, AcceptedDevices
<1>3. /\ dev.id = Len(devices) /\ dev.id < Len(pico.devices)
      /\ dev.kind = DeviceKind(pico.devices[dev.id + 1].type)
      /\ dev.name = pico.devices[dev.id + 1].name
      /\ dev.sensor_ids = <<>>
  BY <1>1, <1>2, TrueDevice DEF Genuine, NextDevice, TypeOK, ClientTypeOK
<1>4. dev \in DeviceRecords
  BY <1>2, ParserTypes DEF TypeOK, ClientTypeOK
<1>5. /\ Len(devices') = Len(devices) + 1 /\ Len(devices) \in Nat
      /\ \A i \in 1..Len(devices) : devices'[i] = devices[i]
      /\ devices'[Len(devices) + 1] = dev
  BY <1>2, <1>4, AppendProperties DEF TypeOK
<1>6. Len(pico.devices) \in Nat
  BY InventoriesAreWellFormed DEF TypeOK, ClientTypeOK, InventoryAssumption
<1>7. TablesAreTrue'
  <2>1. ASSUME NEW i \in 1..Len(devices')
        PROVE  /\ i <= Len(pico.devices)
               /\ devices'[i].id = i - 1
               /\ devices'[i].kind = DeviceKind(pico.devices[i].type)
               /\ devices'[i].name = pico.devices[i].name
    <3>1. CASE i \in 1..Len(devices)
      BY <3>1, <1>5 DEF Tables, TablesAreTrue
    <3>2. CASE i = Len(devices) + 1
      BY <3>2, <1>3, <1>5, <1>6
    <3>3. QED
      BY <3>1, <3>2, <1>5
  <2>2. QED
    BY <2>1, <1>1 DEF Tables, TablesAreTrue
<1>8. CountsAreTrue'
  BY <1>1 DEF Tables, CountsAreTrue
<1>9. LinksAgree'
  <2>1. ASSUME NEW i \in 1..Len(devices')
        PROVE  Len(devices'[i].sensor_ids) = 0
    <3>1. CASE i \in 1..Len(devices)
      <4>1. Ids(devices[i]) = {}
        BY <3>1, <1>1 DEF Tables, LinksAgree
      <4>2. Len(devices[i].sensor_ids) \in Nat
        BY <3>1, EntryTypes
      <4>3. Len(devices[i].sensor_ids) = 0
        <5>1. CASE 1 \in 1..Len(devices[i].sensor_ids)
          <6>1. devices[i].sensor_ids[1] \in Ids(devices[i])
            BY <5>1 DEF Ids
          <6>2. QED
            BY <6>1, <4>1
        <5>2. CASE 1 \notin 1..Len(devices[i].sensor_ids)
          BY <5>2, <4>2
        <5>3. QED
          BY <5>1, <5>2
      <4>4. QED
        BY <4>3, <3>1, <1>5
    <3>2. CASE i = Len(devices) + 1
      BY <3>2, <1>3, <1>5
    <3>3. QED
      BY <3>1, <3>2, <1>5
  <2>2. QED
    BY <2>1, <1>1 DEF LinksAgree, Ids
<1>10. QED
  BY <1>7, <1>8, <1>9 DEF Tables

\* Storing a sensor: it is linked to its parent, as the last of the parent's
\* sensors, for its id is larger than those before.
LEMMA StoreSensorTables ==
    ASSUME TypeOK, Progress, Genuine, Tables, StoreSensor
    PROVE  Tables'
<1>1. /\ status = "ok" /\ phase = "sensors"
      /\ UNCHANGED <<pico, phase, system, counts>>
  BY DEF StoreSensor, Responded, Progress
<1>2. PICK sen \in ParseSensor(buffer) :
         /\ sen.id = NextSensor
         /\ devices' = LinkSensor(sen)
         /\ sensors' = Append(sensors, sen)
  BY DEF StoreSensor, AcceptedSensors
<1>3. /\ sen.id = Len(sensors) /\ sen.id < Len(pico.sensors)
      /\ sen.kind = SensorKind(pico.sensors[sen.id + 1].type, pico.sensors[sen.id + 1].local)
      /\ sen.parent = {Uint8(n) : n \in pico.sensors[sen.id + 1].parent}
  BY <1>1, <1>2, TrueSensor DEF Genuine, NextSensor, TypeOK, ClientTypeOK
<1>4. sen \in SensorRecords
  BY <1>2, ParserTypes DEF TypeOK, ClientTypeOK
<1>5. /\ Len(sensors') = Len(sensors) + 1 /\ Len(sensors) \in Nat
      /\ \A i \in 1..Len(sensors) : sensors'[i] = sensors[i]
      /\ sensors'[Len(sensors) + 1] = sen
  BY <1>2, <1>4, AppendProperties DEF TypeOK
<1>6. /\ Len(devices) \in Nat /\ Len(devices') = Len(devices)
      /\ \A i \in 1..Len(devices) :
            devices'[i] = IF (i - 1) \in sen.parent
                            THEN [devices[i] EXCEPT !.sensor_ids = Append(@, sen.id)]
                            ELSE devices[i]
  BY <1>2, <1>4, LinkTypes, EntryTypes DEF LinkSensor
<1>7. Len(pico.sensors) \in Nat
  BY InventoriesAreWellFormed DEF TypeOK, ClientTypeOK, InventoryAssumption
<1>8. TablesAreTrue'
  <2>1. ASSUME NEW i \in 1..Len(sensors')
        PROVE  /\ i <= Len(pico.sensors)
               /\ sensors'[i].id = i - 1
               /\ sensors'[i].kind = SensorKind(pico.sensors[i].type, pico.sensors[i].local)
               /\ sensors'[i].parent = {Uint8(n) : n \in pico.sensors[i].parent}
    <3>1. CASE i \in 1..Len(sensors)
      BY <3>1, <1>5 DEF Tables, TablesAreTrue
    <3>2. CASE i = Len(sensors) + 1
      BY <3>2, <1>3, <1>5, <1>7
    <3>3. QED
      BY <3>1, <3>2, <1>5
  <2>2. ASSUME NEW i \in 1..Len(devices')
        PROVE  /\ devices'[i].id = devices[i].id
               /\ devices'[i].kind = devices[i].kind
               /\ devices'[i].name = devices[i].name
    <3>1. devices[i] \in DeviceRecords
      BY <1>6, EntryTypes
    <3>2. QED
      BY <1>6, <3>1 DEF DeviceRecords
  <2>3. QED
    BY <2>1, <2>2, <1>1, <1>6 DEF Tables, TablesAreTrue
<1>9. CountsAreTrue'
  BY <1>1 DEF Tables, CountsAreTrue
<1>10. LinksAgree'
  <2>1. ASSUME NEW i \in 1..Len(devices)
        PROVE  /\ Ids(devices'[i]) = {sensors'[j].id : j \in
                      {k \in 1..Len(sensors') : i - 1 \in sensors'[k].parent}}
               /\ \A j, k \in 1..Len(devices'[i].sensor_ids) :
                    j < k => devices'[i].sensor_ids[j] < devices'[i].sensor_ids[k]
    <3> DEFINE ids == devices[i].sensor_ids
               newIds == devices'[i].sensor_ids
    <3>1. /\ ids \in Seq(ByteIds) /\ Len(ids) \in Nat /\ devices[i] \in DeviceRecords
      BY EntryTypes
    <3>2. Ids(devices[i]) = {sensors[j].id : j \in
                      {k \in 1..Len(sensors) : i - 1 \in sensors[k].parent}}
      BY DEF Tables, LinksAgree
    <3>3. \A j, k \in 1..Len(ids) : j < k => ids[j] < ids[k]
      BY DEF Tables, LinksAgree
    <3>4. \A j \in 1..Len(sensors) : sensors[j].id = j - 1
      BY DEF Tables, TablesAreTrue
    <3>5. CASE i - 1 \notin sen.parent
      <4>1. newIds = ids /\ Ids(devices'[i]) = Ids(devices[i])
        BY <1>6, <3>5 DEF Ids
      <4>2. {k \in 1..Len(sensors') : i - 1 \in sensors'[k].parent}
              = {k \in 1..Len(sensors) : i - 1 \in sensors[k].parent}
        BY <1>5, <3>5
      <4>3. \A k \in {k \in 1..Len(sensors) : i - 1 \in sensors[k].parent} :
               sensors'[k].id = sensors[k].id
        BY <1>5
      <4>4. QED
        BY <3>2, <3>3, <4>1, <4>2, <4>3
    <3>6. CASE i - 1 \in sen.parent
      <4>1. newIds = Append(ids, sen.id)
        BY <1>6, <3>1, <3>6 DEF DeviceRecords
      <4>2. /\ Len(newIds) = Len(ids) + 1
            /\ \A j \in 1..Len(ids) : newIds[j] = ids[j]
            /\ newIds[Len(ids) + 1] = sen.id
        BY <4>1, <3>1, <1>4, AppendProperties DEF SensorRecords
      <4>3. {k \in 1..Len(sensors') : i - 1 \in sensors'[k].parent}
              = {k \in 1..Len(sensors) : i - 1 \in sensors[k].parent} \cup {Len(sensors) + 1}
        BY <1>5, <3>6
      <4>4. \A j \in 1..Len(ids) : ids[j] \in Int /\ ids[j] < sen.id
        <5>1. ASSUME NEW j \in 1..Len(ids)
              PROVE  ids[j] \in Int /\ ids[j] < sen.id
          <6>1. ids[j] \in Ids(devices[i])
            BY DEF Ids
          <6>2. PICK k \in 1..Len(sensors) : ids[j] = sensors[k].id
            BY <6>1, <3>2
          <6>3. QED
            BY <6>2, <3>4, <1>3, <1>5
        <5>2. QED
          BY <5>1
      <4>5. Ids(devices'[i]) = Ids(devices[i]) \cup {sen.id}
        <5>1. Ids(devices'[i]) = {newIds[k] : k \in 1..(Len(ids) + 1)}
          BY <4>2 DEF Ids
        <5>2. Ids(devices[i]) = {ids[k] : k \in 1..Len(ids)}
          BY DEF Ids
        <5>3. 1..(Len(ids) + 1) = 1..Len(ids) \cup {Len(ids) + 1}
          BY <3>1
        <5> HIDE DEF ids, newIds
        <5>4. {newIds[k] : k \in 1..(Len(ids) + 1)}
                = {newIds[k] : k \in 1..Len(ids)} \cup {newIds[Len(ids) + 1]}
          BY <5>3
        <5>5. {newIds[k] : k \in 1..Len(ids)} = {ids[k] : k \in 1..Len(ids)}
          BY <4>2
        <5>6. QED
          BY <5>1, <5>2, <5>4, <5>5, <4>2
      <4>6. {sensors'[j].id : j \in
                {k \in 1..Len(sensors') : i - 1 \in sensors'[k].parent}}
              = {sensors[j].id : j \in
                {k \in 1..Len(sensors) : i - 1 \in sensors[k].parent}} \cup {sen.id}
        BY <4>3, <1>5
      <4>7. ASSUME NEW j \in 1..Len(newIds), NEW k \in 1..Len(newIds), j < k
            PROVE  newIds[j] < newIds[k]
        <5>1. /\ j \in Nat /\ k \in Nat /\ 1 <= j /\ j < k /\ k <= Len(ids) + 1 /\ Len(ids) \in Nat
              /\ Len(newIds) = Len(ids) + 1
          BY <4>2, <4>7, <3>1
        <5> HIDE DEF ids, newIds
        <5>2. j \in 1..Len(ids) /\ newIds[j] = ids[j] /\ ids[j] < sen.id
          BY <5>1, <4>2, <4>4
        <5>3. CASE k = Len(ids) + 1
          BY <5>2, <5>3, <4>2
        <5>4. CASE k # Len(ids) + 1
          <6>1. k \in 1..Len(ids) /\ newIds[k] = ids[k]
            BY <5>1, <5>4, <4>2
          <6>2. QED
            BY <5>2, <6>1, <4>7, <3>3
        <5>5. QED
          BY <5>3, <5>4
      <4>8. QED
        BY <3>2, <4>5, <4>6, <4>7
    <3>7. QED
      BY <3>5, <3>6
  <2>2. QED
    BY <2>1, <1>6 DEF LinksAgree
<1>11. QED
  BY <1>8, <1>9, <1>10 DEF Tables

\* The values of the sensor state change nothing the tables are about.
LEMMA ConstructTables ==
    ASSUME TypeOK, Progress, Tables, Construct
    PROVE  Tables'
<1>1. /\ phase = "state" /\ phase' = "ready"
      /\ UNCHANGED <<pico, system, counts, devices>>
      /\ sensors' = UpdateSensorValues(sensors, buffer.values)
  BY DEF Construct, Responded
<1>2. Len(sensors') = Len(sensors) /\ Len(sensors) \in Nat
  BY <1>1, UpdateTypes DEF TypeOK, ClientTypeOK, MessageSet
<1>3. ASSUME NEW i \in 1..Len(sensors)
      PROVE  /\ sensors'[i].id = sensors[i].id
             /\ sensors'[i].kind = sensors[i].kind
             /\ sensors'[i].parent = sensors[i].parent
  <2>1. sensors[i] \in SensorRecords
    BY EntryTypes
  <2>2. \/ sensors'[i] = sensors[i]
        \/ sensors'[i] = [sensors[i] EXCEPT !.value = LastReading(buffer.values, i - 1)]
    BY <1>1, <1>2 DEF UpdateSensorValues
  <2>3. QED
    BY <2>1, <2>2 DEF SensorRecords
<1>4. TablesAreTrue'
  BY <1>1, <1>2, <1>3 DEF Tables, TablesAreTrue
<1>5. CountsAreTrue'
  BY <1>1 DEF Tables, CountsAreTrue
<1>6. LinksAgree'
  <2>1. ASSUME NEW i \in 1..Len(devices)
        PROVE  {sensors'[j].id : j \in {k \in 1..Len(sensors') : i - 1 \in sensors'[k].parent}}
                 = {sensors[j].id : j \in {k \in 1..Len(sensors) : i - 1 \in sensors[k].parent}}
    BY <1>2, <1>3
  <2>2. QED
    BY <2>1, <1>1 DEF Tables, LinksAgree
<1>7. QED
  BY <1>4, <1>5, <1>6 DEF Tables

LEMMA LinksUnchanged ==
    ASSUME LinksAgree, devices' = devices, sensors' = sensors
    PROVE  LinksAgree'
<1>1. ASSUME NEW i \in 1..Len(devices')
      PROVE  /\ Ids(devices[i])' = {sensors'[j].id : j \in
                    {k \in 1..Len(sensors') : i - 1 \in sensors'[k].parent}}
             /\ \A j, k \in 1..Len(devices'[i].sensor_ids) :
                  j < k => devices'[i].sensor_ids[j] < devices'[i].sensor_ids[k]
  <2>1. i \in 1..Len(devices) /\ devices'[i] = devices[i]
    OBVIOUS
  <2>2. Ids(devices[i])' = Ids(devices[i])
    BY <2>1 DEF Ids
  <2>3. /\ Ids(devices[i]) = {sensors[j].id : j \in
                {k \in 1..Len(sensors) : i - 1 \in sensors[k].parent}}
        /\ \A j, k \in 1..Len(devices[i].sensor_ids) :
              j < k => devices[i].sensor_ids[j] < devices[i].sensor_ids[k]
    BY <2>1 DEF LinksAgree
  <2>4. QED
    BY <2>1, <2>2, <2>3
<1>2. QED
  BY <1>1 DEF LinksAgree

LEMMA StepTables ==
    ASSUME TypeOK, Progress, Genuine, Tables, [Next]_vars
    PROVE  Tables'
<1>1. CASE UNCHANGED <<pico, devices, sensors, counts, system>>
           /\ (phase' = phase \/ phase' = "failed"
               \/ (phase = "devices" /\ phase' = "sensors")
               \/ (phase = "sensors" /\ phase' = "state"))
  <2>1. TablesAreTrue'
    BY <1>1 DEF Tables, TablesAreTrue
  <2>2. CountsAreTrue'
    BY <1>1 DEF Tables, CountsAreTrue
  <2>3. LinksAgree'
    BY <1>1, LinksUnchanged DEF Tables
  <2>4. QED
    BY <2>1, <2>2, <2>3 DEF Tables
<1>2. CASE Request
  BY <1>1, <1>2 DEF Request, Send, SendWhole, SendShort, SendFails, WriteRequest, hubVars
<1>3. CASE StoreSystem
  <2>1. /\ system' = ParseSystemInfo(buffer) /\ ParseSystemInfo(buffer) # {}
        /\ phase = "system" /\ phase' = "count" /\ status = "ok"
        /\ UNCHANGED <<pico, counts, devices, sensors>>
    BY <1>3 DEF StoreSystem, Responded
  <2>2. system' = {pico.system}
    BY <2>1, TrueSystem DEF Genuine, TypeOK, ClientTypeOK
  <2>3. TablesAreTrue'
    BY <2>1, <2>2 DEF Tables, TablesAreTrue
  <2>4. CountsAreTrue'
    BY <2>1, <2>2 DEF Tables, CountsAreTrue
  <2>5. LinksAgree'
    BY <2>1, LinksUnchanged DEF Tables
  <2>6. QED
    BY <2>3, <2>4, <2>5 DEF Tables
<1>4. CASE StoreCount
  <2>1. /\ counts' \in ParseCountInfo(buffer)
        /\ phase = "count" /\ phase' = "devices" /\ status = "ok"
        /\ UNCHANGED <<pico, system, devices, sensors>>
    BY <1>4 DEF StoreCount, Responded
  <2>2. /\ counts'.device_count = Count(Len(pico.devices))
        /\ counts'.sensor_count = Count(Len(pico.sensors))
    BY <2>1, TrueCount DEF Genuine, TypeOK, ClientTypeOK
  <2>3. TablesAreTrue'
    BY <2>1, <2>2 DEF Tables, TablesAreTrue
  <2>4. CountsAreTrue'
    BY <2>1, <2>2 DEF Tables, CountsAreTrue
  <2>5. LinksAgree'
    BY <2>1, LinksUnchanged DEF Tables
  <2>6. QED
    BY <2>3, <2>4, <2>5 DEF Tables
<1>5. CASE StoreDevice
  BY <1>5, StoreDeviceTables
<1>6. CASE StoreSensor
  BY <1>6, StoreSensorTables
<1>7. CASE Construct
  BY <1>7, ConstructTables
<1>8. CASE EndDevices \/ EndSensors \/ Fail
  BY <1>1, <1>8 DEF EndDevices, EndSensors, Fail, clientVars
<1>9. CASE (Receive \/ ReceiveEnd \/ ReceiveFails) /\ UNCHANGED hubVars
  BY <1>1, <1>9 DEF Receive, ReceiveEnd, ReceiveFails, hubVars
<1>10. CASE PicoStep /\ UNCHANGED hubVars
  BY <1>1, <1>10 DEF PicoStep, PicoAnswers, PicoAnswersUselessly, PicoSendsUnasked, PicoCloses,
     Deliver, hubVars
<1>11. CASE UNCHANGED vars
  BY <1>1, <1>11 DEF vars, clientVars, hubVars
<1>12. QED
  BY <1>2, <1>3, <1>4, <1>5, <1>6, <1>7, <1>8, <1>9, <1>10, <1>11 DEF Next, HubStep

-----------------------------------------------------------------------------
(* The theorems                                                            *)

Truth == TypeOK /\ Progress /\ Genuine /\ Tables

LEMMA InitTruth == Init => Truth
<1> SUFFICES ASSUME Init PROVE Truth
  OBVIOUS
<1>1. TypeOK /\ Progress
  BY InitTypes
<1>2. Genuine
  BY DEF Init, ClientInit, Genuine
<1>3. Tables
  BY DEF Init, ClientInit, Tables, TablesAreTrue, CountsAreTrue, LinksAgree
<1>4. QED
  BY <1>1, <1>2, <1>3 DEF Truth

LEMMA StepTruth == Truth /\ [Next]_vars => Truth'
BY StepTypes, StepGenuine, StepTables DEF Truth

LEMMA TruthIsInvariant == Spec => []Truth
BY InitTruth, StepTruth, PTL DEF Spec

\* The count of an addressable inventory survives its way through a byte.
LEMMA CountIsExact == \A n \in Nat : n < IdSpace => Count(n) = n
BY IdSpaceAssumption, SMT DEF Count, Uint8

LEMMA NoParentNarrowed == Uint8(NoParent) = IdSpace - 1 /\ NoParent >= IdSpace - 1
<1>1. (IdSpace * IdSpace - 1) % IdSpace = IdSpace - 1
  BY IdSpaceAssumption, SMT
<1>2. IdSpace * IdSpace - 1 >= IdSpace - 1
  BY IdSpaceAssumption, SMT
<1>3. QED
  BY <1>1, <1>2 DEF NoParent, Uint8

LEMMA TruthGivesMirror == Truth => MirrorsInventory
<1> SUFFICES ASSUME Truth, phase = "ready", Addressable(pico)
             PROVE  MirrorsInventory
  BY DEF MirrorsInventory
<1>1. /\ Len(pico.devices) \in Nat /\ Len(pico.sensors) \in Nat
      /\ Len(pico.devices) < IdSpace /\ Len(pico.sensors) < IdSpace
  BY InventoriesAreWellFormed DEF Truth, TypeOK, ClientTypeOK, InventoryAssumption, Addressable
<1>2. Len(devices) = Len(pico.devices) /\ Len(sensors) = Len(pico.sensors)
  BY <1>1, CountIsExact DEF Truth, Progress, Tables, CountsAreTrue
<1>3. ASSUME NEW i \in 1..Len(devices)
      PROVE  Ids(devices[i]) = {n \in 0..(Len(sensors) - 1) : i - 1 \in pico.sensors[n + 1].parent}
  <2>1. Ids(devices[i]) = {sensors[j].id : j \in {k \in 1..Len(sensors) : i - 1 \in sensors[k].parent}}
    BY DEF Truth, Tables, LinksAgree
  <2>2. ASSUME NEW k \in 1..Len(sensors)
        PROVE  i - 1 \in sensors[k].parent <=> i - 1 \in pico.sensors[k].parent
    <3>1. sensors[k].parent = {Uint8(n) : n \in pico.sensors[k].parent}
      BY DEF Truth, Tables, TablesAreTrue
    <3>2. ASSUME NEW n \in pico.sensors[k].parent
          PROVE  i - 1 = Uint8(n) <=> i - 1 = n
      <4>1. n \in 0..(Len(pico.devices) - 1) \/ n = NoParent
        <5>1. k \in 1..Len(pico.sensors) /\ pico \in Inventories
          BY <1>2 DEF Truth, TypeOK, ClientTypeOK
        <5>2. \/ pico.sensors[k].parent = {}
              \/ \E m \in 0..(Len(pico.devices) - 1) \cup {NoParent} :
                    pico.sensors[k].parent = {m}
          BY <5>1, InventoriesAreWellFormed DEF InventoryAssumption
        <5>3. QED
          BY <5>2
      <4>2. CASE n \in 0..(Len(pico.devices) - 1)
        BY <4>2, <1>1, IdSpaceAssumption, NarrowIds DEF ByteIds
      <4>3. CASE n = NoParent
        <5>1. Uint8(n) = IdSpace - 1 /\ n >= IdSpace - 1
          BY <4>3, NoParentNarrowed
        <5>2. i - 1 < IdSpace - 1
          BY <1>1, <1>2, IdSpaceAssumption
        <5>3. QED
          BY <5>1, <5>2, <4>3, <1>1, <1>2, IdSpaceAssumption DEF NoParent
      <4>4. QED
        BY <4>1, <4>2, <4>3
    <3>3. QED
      BY <3>1, <3>2
  <2>3. \A k \in 1..Len(sensors) : sensors[k].id = k - 1
    BY DEF Truth, Tables, TablesAreTrue
  <2>4. QED
    BY <2>1, <2>2, <2>3, <1>1, <1>2
<1>4. QED
  BY <1>2, <1>3 DEF Truth, Tables, TablesAreTrue, MirrorsInventory

\* A hub describes the Pico it asked, whatever was repeated, unasked, split
\* or lost on the way.
THEOREM HubMirrorsInventory == Spec => []MirrorsInventory
BY TruthIsInvariant, TruthGivesMirror, PTL

\* The two directions of the link between sensors and devices agree at every
\* point of the initialization.
THEOREM LinksAlwaysAgree == Spec => []LinksAgree
<1>1. Truth => LinksAgree
  BY DEF Truth, Tables
<1>2. QED
  BY <1>1, TruthIsInvariant, PTL

-----------------------------------------------------------------------------
(* The hub as Readings and HomeAssistant take it                           *)

LayoutOf(parent) ==
    [devices |-> [d \in 1..Len(devices) |-> devices[d].kind],
     sensors |-> [i \in 1..Len(sensors) |-> sensors[i].kind],
     parent |-> parent]

\* Ids are the indices Readings looks sensors up by, and the devices and their
\* lists of sensors are one of the layouts HomeAssistant allows.
TablesAreLayout ==
    /\ \A i \in 1..Len(sensors) : sensors[i].id = i - 1 /\ i < IdSpace
    /\ \E parent \in [1..Len(sensors) -> 0..Len(devices)] :
         LET l == LayoutOf(parent) IN
         /\ l.devices \in Seq(DeviceKinds)
         /\ l.sensors \in [1..Len(sensors) -> SensorKinds]
         /\ l.parent \in [1..Len(sensors) -> 0..Len(l.devices)]
         /\ \A d \in 1..Len(devices) :
              Ids(devices[d]) = {i - 1 : i \in {j \in 1..Len(sensors) : l.parent[j] = d}}

\* A parent field gives a sensor at most one parent, also when it is narrowed.
LEMMA OneParent ==
    ASSUME Truth, NEW k \in 1..Len(sensors), NEW a \in sensors[k].parent, NEW b \in sensors[k].parent
    PROVE  a = b
<1>1. /\ pico \in Inventories /\ k \in 1..Len(pico.sensors)
      /\ sensors[k].parent = {Uint8(n) : n \in pico.sensors[k].parent}
  BY EntryTypes DEF Truth, TypeOK, ClientTypeOK, Tables, TablesAreTrue
<1>2. pico.sensors[k].parent = {} \/ \E m : pico.sensors[k].parent = {m}
  BY <1>1, InventoriesAreWellFormed DEF InventoryAssumption
<1>3. QED
  BY <1>1, <1>2

LEMMA TruthGivesLayout == Truth => TablesAreLayout
<1> SUFFICES ASSUME Truth PROVE TablesAreLayout
  OBVIOUS
<1> DEFINE N == Len(sensors)
           D == Len(devices)
           Named(i) == {d \in 1..D : d - 1 \in sensors[i].parent}
           parent == [i \in 1..N |-> IF Named(i) = {} THEN 0 ELSE CHOOSE d \in Named(i) : TRUE]
<1>1. TypeOK /\ LinksAgree /\ TablesAreTrue
  BY DEF Truth, Tables
<1>2. /\ N \in Nat /\ D \in Nat /\ N < IdSpace
      /\ \A d \in 1..D : devices[d] \in DeviceRecords
      /\ \A i \in 1..N : sensors[i] \in SensorRecords
  BY <1>1, EntryTypes DEF TypeOK
<1>3. \A i \in 1..N : sensors[i].id = i - 1 /\ i < IdSpace
  BY <1>1, <1>2, IdSpaceAssumption DEF TablesAreTrue
<1>4. parent \in [1..N -> 0..D]
  <2>1. ASSUME NEW i \in 1..N, Named(i) # {} PROVE (CHOOSE d \in Named(i) : TRUE) \in 1..D
    BY <2>1
  <2>2. QED
    BY <2>1, <1>2
<1>5. ASSUME NEW i \in 1..N, NEW d \in 1..D PROVE parent[i] = d <=> d - 1 \in sensors[i].parent
  <2>1. CASE d - 1 \in sensors[i].parent
    <3>1. d \in Named(i)
      BY <2>1
    <3>2. (CHOOSE e \in Named(i) : TRUE) \in Named(i)
      BY <3>1
    <3>3. ASSUME NEW e \in Named(i) PROVE e = d
      <4>1. e - 1 = d - 1
        BY <2>1, OneParent
      <4>2. QED
        BY <4>1
    <3>4. QED
      BY <2>1, <3>1, <3>2, <3>3
  <2>2. CASE d - 1 \notin sensors[i].parent
    <3>1. d \notin Named(i) /\ d # 0
      BY <2>2
    <3>2. CASE Named(i) = {}
      BY <2>2, <3>1, <3>2
    <3>3. CASE Named(i) # {}
      <4>1. (CHOOSE e \in Named(i) : TRUE) \in Named(i)
        BY <3>3
      <4>2. QED
        BY <2>2, <3>1, <3>3, <4>1
    <3>4. QED
      BY <3>2, <3>3
  <2>3. QED
    BY <2>1, <2>2
<1> HIDE DEF parent
<1>6. ASSUME NEW d \in 1..D
      PROVE  Ids(devices[d]) = {i - 1 : i \in {j \in 1..N : parent[j] = d}}
  <2>1. Ids(devices[d]) = {sensors[j].id : j \in {k \in 1..N : d - 1 \in sensors[k].parent}}
    BY <1>1 DEF LinksAgree
  <2>2. {k \in 1..N : d - 1 \in sensors[k].parent} = {j \in 1..N : parent[j] = d}
    BY <1>5
  <2>3. QED
    BY <1>3, <2>1, <2>2
<1>7. LayoutOf(parent).devices \in Seq(DeviceKinds) /\ Len(LayoutOf(parent).devices) = D
  <2>1. \A d \in 1..D : devices[d].kind \in DeviceKinds
    BY <1>2 DEF DeviceRecords
  <2>2. QED
    BY <1>2, <2>1 DEF LayoutOf
<1>8. LayoutOf(parent).sensors \in [1..N -> SensorKinds]
  BY <1>2 DEF LayoutOf, SensorRecords
<1>9. LayoutOf(parent).parent = parent
  BY DEF LayoutOf
<1>10. QED
  BY <1>3, <1>4, <1>6, <1>7, <1>8, <1>9 DEF TablesAreLayout

\* In every state of the initialization the tables are what Readings and
\* HomeAssistant start from: a sensor has its index as id and is in the list
\* of one device at most, although its parent may be absent, or narrowed from
\* a field with every bit set, and the two sides of a link are stored apart.
THEOREM HubIsLayout == Spec => []TablesAreLayout
BY TruthIsInvariant, TruthGivesLayout, PTL
=============================================================================
