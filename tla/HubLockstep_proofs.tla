------------------------- MODULE HubLockstep_proofs -------------------------
(***************************************************************************)
(* Proofs that the client and the Pico stay in step as long as the Pico    *)
(* sends nothing unasked, and of what follows: where the initial values    *)
(* come from, that every failure has a cause, and that requests go out on  *)
(* a quiet connection only; and that the initialization implements         *)
(* Catalogue: with messages, buffers and connection forgotten, it learns   *)
(* the inventory entry by entry.  The counts must be able to express the   *)
(* inventories for that.                                                   *)
(***************************************************************************)
EXTENDS Hub_proofs

\* A fragment of a request is none, and what cannot be read answers none.
LEMMA FragmentIsNoRequest == Fragment \notin Requests
BY DEF Fragment, Requests, SystemRequest, CountRequest, StateRequest, DeviceRequest, SensorRequest

LEMMA AnswersAreReadable ==
    ASSUME NEW p, NEW req \in Requests
    PROVE  Unreadable \notin Answers(p, req)
<1>1. req.type # "unreadable"
  BY DEF Requests, SystemRequest, CountRequest, StateRequest, DeviceRequest, SensorRequest
<1>2. \A msg \in Answers(p, req) : msg.type = req.type
  BY AnswerToWhom
<1>3. QED
  BY <1>1, <1>2 DEF Unreadable

LEMMA FrameParts ==
    ASSUME NEW msg
    PROVE  /\ Len(Frame(msg)) = Parts
           /\ Frame(msg) # <<>>
           /\ Frame(msg)[1].msg = msg
           /\ <<>> \o Frame(msg) = Frame(msg)
BY ClientAssumption DEF Frame

\* What a receive makes of a connection that holds one frame.
LEMMA ReadOfAFrame ==
    ASSUME NEW msg \in MessageSet, NEW n \in 1..Len(Frame(msg)),
           NEW chunk, chunk = SubSeq(Frame(msg), 1, n)
    PROVE  IsWholeFrame(chunk) =>
              /\ Content(chunk) = msg
              /\ SubSeq(Frame(msg), n + 1, Len(Frame(msg))) = <<>>
<1>1. Frame(msg) \in Seq(Units) /\ Len(Frame(msg)) = Parts
  BY FrameTypes, FrameParts
<1>2. Len(chunk) = n /\ chunk[1] = Frame(msg)[1]
  BY <1>1, SubSeqProperties
<1>3. SUFFICES ASSUME IsWholeFrame(chunk)
               PROVE  /\ Content(chunk) = msg
                      /\ SubSeq(Frame(msg), n + 1, Len(Frame(msg))) = <<>>
  OBVIOUS
<1>4. n = Parts
  BY <1>2, <1>3 DEF IsWholeFrame
<1>5. Content(chunk) = msg
  BY <1>2, <1>3, FrameParts DEF Content
<1>6. SubSeq(Frame(msg), n + 1, Len(Frame(msg))) = <<>>
  BY <1>1, <1>4, SubSeqProperties
<1>7. QED
  BY <1>5, <1>6

\* An answer to the request of the phase is accepted.
LEMMA AnswersAreAcceptable ==
    ASSUME TypeOK, Progress, status = "ok",
           NEW req \in CurrentRequests, buffer \in Answers(pico, req)
    PROVE  ~Unacceptable
<1>1. req \in Requests /\ pico \in Inventories
  BY CurrentRequestsAreRequests DEF TypeOK, ClientTypeOK
<1>2. /\ buffer = [type |-> req.type, values |-> buffer.values]
      /\ buffer.values \in TrueValues(pico, req)
  BY <1>1, AnswerToWhom, Zenon
<1>3. CASE phase = "system"
  <2>1. req.type = "system_information"
    BY <1>3 DEF CurrentRequests, SystemRequest
  <2>2. buffer = [type |-> "system_information", values |-> SystemValues(pico)]
    BY <2>1, <1>2 DEF TrueValues
  <2>3. QED
    BY <2>2, <1>1, <1>3, SystemAnswer DEF Unacceptable
<1>4. CASE phase = "count"
  <2>1. req.type = "count_information"
    BY <1>4 DEF CurrentRequests, CountRequest
  <2>2. buffer = [type |-> "count_information", values |-> CountValues(pico)]
    BY <2>1, <1>2 DEF TrueValues
  <2>3. QED
    BY <2>2, <1>1, <1>4, CountAnswer DEF Unacceptable
<1>5. CASE phase = "devices"
  <2>1. req.type = "device_information" /\ req.id = NextDevice
    BY <1>5 DEF CurrentRequests, DeviceRequest
  <2>2. /\ req.id < Len(pico.devices)
        /\ buffer = [type |-> "device_information", values |-> DeviceValues(pico, req.id)]
    BY <2>1, <1>2 DEF TrueValues
  <2>3. req.id \in ByteIds
    BY <2>1, IdSpaceAssumption DEF TypeOK, NextDevice, ByteIds
  <2>4. \E dev \in ParseDevice(buffer) : dev.id = NextDevice
    <3>1. ParseDevice(buffer) =
            {[id |-> req.id, kind |-> DeviceKind(pico.devices[req.id + 1].type),
              name |-> pico.devices[req.id + 1].name, sensor_ids |-> <<>>]}
      BY <2>2, <2>3, <1>1, DeviceAnswer
    <3>2. QED
      BY <3>1, <2>1
  <2>5. QED
    BY <2>4, <1>5 DEF Unacceptable, AcceptedDevices
<1>6. CASE phase = "sensors"
  <2>1. req.type = "sensor_information" /\ req.id = NextSensor
    BY <1>6 DEF CurrentRequests, SensorRequest
  <2>2. /\ req.id < Len(pico.sensors)
        /\ buffer = [type |-> "sensor_information", values |-> SensorValues(pico, req.id)]
    BY <2>1, <1>2 DEF TrueValues
  <2>3. req.id \in ByteIds
    BY <2>1, IdSpaceAssumption DEF TypeOK, NextSensor, ByteIds
  <2>4. \E sen \in ParseSensor(buffer) : sen.id = NextSensor
    <3>1. ParseSensor(buffer) =
            {[id |-> req.id,
              kind |-> SensorKind(pico.sensors[req.id + 1].type, pico.sensors[req.id + 1].local),
              parent |-> {Uint8(n) : n \in pico.sensors[req.id + 1].parent},
              value |-> {}]}
      BY <2>2, <2>3, <1>1, SensorAnswer
    <3>2. QED
      BY <3>1, <2>1
  <2>5. QED
    BY <2>4, <1>6 DEF Unacceptable, AcceptedSensors
<1>7. CASE phase \notin {"system", "count", "devices", "sensors"}
  BY <1>7 DEF Unacceptable
<1>8. QED
  BY <1>3, <1>4, <1>5, <1>6, <1>7

-----------------------------------------------------------------------------
(* Calls                                                                   *)

LEMMA RequestsMeanRunning == CurrentRequests # {} => Running
BY DEF CurrentRequests, Running

LEMMA StepCalls ==
    ASSUME TypeOK, CallsWhileRunning, [Next]_vars
    PROVE  CallsWhileRunning'
<1> USE DEF CallsWhileRunning, Running
<1>1. CASE Request
  BY <1>1, RequestsMeanRunning DEF Request, hubVars
<1>2. CASE StoreSystem \/ StoreCount \/ StoreDevice \/ StoreSensor \/ Construct \/ Fail
  BY <1>2 DEF StoreSystem, StoreCount, StoreDevice, StoreSensor, Construct, Fail, Responded
<1>3. CASE EndDevices \/ EndSensors
  BY <1>3 DEF EndDevices, EndSensors, clientVars
<1>4. CASE (Receive \/ ReceiveEnd \/ ReceiveFails) /\ UNCHANGED hubVars
  BY <1>4 DEF Receive, ReceiveEnd, ReceiveFails, hubVars
<1>5. CASE Running /\ PicoStep /\ UNCHANGED hubVars
  BY <1>5 DEF hubVars
<1>6. CASE UNCHANGED vars
  BY <1>6 DEF vars, clientVars, hubVars
<1>7. QED
  BY <1>1, <1>2, <1>3, <1>4, <1>5, <1>6 DEF Next, HubStep

-----------------------------------------------------------------------------
(* Lockstep                                                                *)

LEMMA RequestKeepsStep ==
    ASSUME TypeOK, Lockstep, Request
    PROVE  Lockstep'
<1>1. PICK req \in CurrentRequests : Send(req)
  BY DEF Request
<1>2. /\ status = "idle" /\ Running
      /\ stream' = stream /\ UNCHANGED hubVars /\ CurrentRequests' = CurrentRequests
  BY <1>1, RequestsMeanRunning
     DEF Request, Send, SendWhole, SendShort, SendFails, WriteRequest, hubVars, CurrentRequests,
         NextDevice, NextSensor
<1> SUFFICES ASSUME "unasked" \notin faults'
             PROVE  /\ status' \notin {"idle", "ok"}
                    /\ status' = "waiting" =>
                         /\ stream' = <<>>
                         /\ \/ inbox' = <<Fragment>> /\ faults' # {}
                            \/ \E r \in CurrentRequests' : inbox' = <<r>>
  BY DEF Lockstep
<1>3. "unasked" \notin faults
  BY <1>1 DEF Send, SendWhole, SendShort, SendFails
<1>4. inbox = <<>> /\ stream = <<>>
  BY <1>2, <1>3 DEF Lockstep
<1>5. CASE SendWhole(req)
  <2>1. inbox' = <<req>> /\ status' = "waiting"
    BY <1>4, <1>5 DEF SendWhole
  <2>2. QED
    BY <2>1, <1>2, <1>4
<1>6. CASE SendShort(req)
  <2>1. inbox' = <<Fragment>> /\ status' = "waiting" /\ faults' # {}
    BY <1>4, <1>6 DEF SendShort
  <2>2. QED
    BY <2>1, <1>2, <1>4
<1>7. CASE SendFails(req)
  BY <1>7 DEF SendFails
<1>8. QED
  BY <1>1, <1>5, <1>6, <1>7 DEF Send

LEMMA ReceiveKeepsStep ==
    ASSUME TypeOK, Lockstep, ErrorsHaveCauses, Receive, UNCHANGED hubVars
    PROVE  Lockstep' /\ (status' = "error" => faults' # {})
<1>1. PICK n \in 1..Len(stream) :
         /\ stream' = SubSeq(stream, n + 1, Len(stream))
         /\ buffer' = Content(SubSeq(stream, 1, n))
         /\ status' = IF Content(SubSeq(stream, 1, n)) = Unreadable THEN "error" ELSE "ok"
         /\ faults' = faults \cup
              (IF IsWholeFrame(SubSeq(stream, 1, n)) THEN {} ELSE {"split"})
  BY DEF Receive
<1>2. /\ status = "waiting" /\ stream # <<>> /\ UNCHANGED <<pico, inbox, reported>>
      /\ CurrentRequests' = CurrentRequests /\ phase' = phase
  BY <1>1 DEF Receive, hubVars, CurrentRequests, NextDevice, NextSensor
<1>3. CASE "unasked" \in faults
  <2>1. "unasked" \in faults'
    BY <1>1, <1>3
  <2>2. QED
    BY <2>1 DEF Lockstep
<1>4. CASE "unasked" \notin faults
  <2> DEFINE msg == stream[1].msg
             chunk == SubSeq(stream, 1, n)
  <2>1. inbox = <<>> /\ stream = Frame(msg) /\ IsAnswer(msg)
    BY <1>2, <1>4 DEF Lockstep
  <2>2. msg \in MessageSet
    <3>1. stream \in Seq(Units) /\ 1 \in 1..Len(stream)
      BY <1>1 DEF TypeOK, ClientTypeOK
    <3>2. stream[1] \in Units
      BY <3>1
    <3>3. QED
      BY <3>2 DEF Units
  <2>3. CASE IsWholeFrame(chunk)
    <3>1. buffer' = msg /\ stream' = <<>> /\ faults' = faults
      BY <1>1, <2>1, <2>2, <2>3, ReadOfAFrame, Zenon
    <3>2. IsAnswer(buffer)'
      BY <2>1, <3>1, <1>2 DEF IsAnswer
    <3>3. status' = "error" => faults' # {}
      <4>1. SUFFICES ASSUME status' = "error", faults = {}
                     PROVE  FALSE
        BY <3>1
      <4>2. msg = Unreadable
        BY <4>1, <1>1, <3>1
      <4>3. \E req \in CurrentRequests : msg \in Answers(pico, req)
        BY <2>1, <4>1 DEF IsAnswer
      <4>4. QED
        BY <4>2, <4>3, AnswersAreReadable, CurrentRequestsAreRequests
    <3>4. status' # "waiting" /\ (status' = "ok" => buffer' # Unreadable)
      BY <1>1, <3>1
    <3>5. QED
      BY <3>1, <3>2, <3>3, <3>4, <2>1, <1>2 DEF Lockstep
  <2>4. CASE ~IsWholeFrame(chunk)
    <3>1. status' = "error" /\ faults' # {}
      BY <1>1, <2>4 DEF Content
    <3>2. QED
      BY <3>1 DEF Lockstep
  <2>5. QED
    BY <2>3, <2>4
<1>5. QED
  BY <1>3, <1>4

\* An answer on a connection that held the request alone.
LEMMA DeliverKeepsStep ==
    ASSUME TypeOK, Lockstep, CallsWhileRunning, Running, "unasked" \notin faults, UNCHANGED hubVars,
           inbox # <<>>, Head(inbox) \in Requests, inbox' = Tail(inbox),
           NEW msg, Deliver(msg), reported' = Reported(msg),
           msg.type = Head(inbox).type \/ msg = Unreadable,
           faults' = {} => msg \in Answers(pico, Head(inbox))
    PROVE  Lockstep'
<1>1. /\ stream' = stream \o Frame(msg) /\ UNCHANGED <<pico, buffer, status>>
      /\ CurrentRequests' = CurrentRequests /\ phase' = phase
  BY DEF Deliver, hubVars, CurrentRequests, NextDevice, NextSensor
<1>2. status \notin {"idle", "ok"}
  BY DEF Lockstep
<1>3. CASE status = "waiting"
  <2>1. stream = <<>> /\ \E req \in CurrentRequests : inbox = <<req>>
    BY <1>3, FragmentIsNoRequest DEF Lockstep
  <2>2. PICK req \in CurrentRequests : inbox = <<req>>
    BY <2>1
  <2>3. inbox' = <<>> /\ Head(inbox) = req
    BY <2>2
  <2>4. stream' = Frame(msg) /\ stream' # <<>> /\ stream'[1].msg = msg
    BY <1>1, <2>1, FrameParts
  <2>5. phase = "state" /\ msg # Unreadable => msg.values \in reported'
    <3>1. phase = "state" => req.type = "sensor_state"
      BY DEF CurrentRequests, StateRequest
    <3>2. QED
      BY <3>1, <2>3 DEF Reported
  <2>6. IsAnswer(msg)'
    BY <2>5, <2>3, <1>1 DEF IsAnswer
  <2>7. IsAnswer(stream[1].msg)' /\ stream' = Frame(stream'[1].msg)
    BY <2>4, <2>6 DEF IsAnswer
  <2>8. QED
    BY <2>3, <2>4, <2>7, <1>1, <1>3 DEF Lockstep
<1>4. CASE status # "waiting"
  BY <1>1, <1>2, <1>4 DEF Lockstep
<1>5. QED
  BY <1>3, <1>4

LEMMA PicoKeepsStep ==
    ASSUME TypeOK, Lockstep, CallsWhileRunning, Running, PicoStep, UNCHANGED hubVars
    PROVE  Lockstep'
<1>1. CASE "unasked" \in faults \/ PicoSendsUnasked
  BY <1>1 DEF PicoStep, PicoAnswers, PicoAnswersUselessly, PicoSendsUnasked, PicoCloses, Lockstep
<1>2. CASE "unasked" \notin faults /\ PicoAnswers
  <2>1. PICK msg \in Answers(pico, Head(inbox)) : Deliver(msg) /\ reported' = Reported(msg)
    BY <1>2 DEF PicoAnswers
  <2>2. /\ inbox # <<>> /\ Head(inbox) \in Requests /\ inbox' = Tail(inbox) /\ faults' = faults
        /\ msg.type = Head(inbox).type
    BY <1>2, <2>1, AnswerToWhom DEF PicoAnswers
  <2>3. QED
    BY <1>2, <2>1, <2>2, DeliverKeepsStep
<1>3. CASE "unasked" \notin faults /\ PicoAnswersUselessly
  <2>1. PICK msg \in UselessAnswers(Head(inbox)) : Deliver(msg) /\ reported' = Reported(msg)
    BY <1>3 DEF PicoAnswersUselessly
  <2>2. /\ inbox # <<>> /\ Head(inbox) \in Requests /\ inbox' = Tail(inbox) /\ faults' # {}
        /\ msg.type = Head(inbox).type \/ msg = Unreadable
    BY <1>3, <2>1 DEF PicoAnswersUselessly, UselessAnswers
  <2>3. QED
    BY <1>3, <2>1, <2>2, DeliverKeepsStep
<1>4. CASE "unasked" \notin faults /\ PicoCloses
  <2>1. /\ UNCHANGED <<inbox, stream, buffer, status, reported, pico>>
        /\ faults' = faults \cup {"closed"} /\ CurrentRequests' = CurrentRequests /\ phase' = phase
    BY <1>4 DEF PicoCloses, hubVars, CurrentRequests, NextDevice, NextSensor
  <2>2. \A msg : IsAnswer(msg) => IsAnswer(msg)'
    BY <2>1 DEF IsAnswer
  <2>3. IsAnswer(buffer) => IsAnswer(buffer)'
    BY <2>1 DEF IsAnswer
  <2>4. IsAnswer(stream[1].msg) => IsAnswer(stream[1].msg)'
    BY <2>1 DEF IsAnswer
  <2>5. QED
    BY <1>4, <2>1, <2>3, <2>4 DEF Lockstep, Running
<1>5. QED
  BY <1>1, <1>2, <1>3, <1>4 DEF PicoStep

LEMMA StepLockstep ==
    ASSUME TypeOK, CallsWhileRunning, Lockstep, ErrorsHaveCauses, [Next]_vars
    PROVE  Lockstep'
<1>1. CASE Request
  BY <1>1, RequestKeepsStep
<1>2. CASE StoreSystem \/ StoreCount \/ StoreDevice \/ StoreSensor \/ Construct
  <2>1. /\ status = "ok" /\ status' = "idle" /\ UNCHANGED <<inbox, stream, faults>>
    BY <1>2 DEF StoreSystem, StoreCount, StoreDevice, StoreSensor, Construct, Responded, network
  <2>2. QED
    BY <2>1 DEF Lockstep, CallsWhileRunning
<1>3. CASE EndDevices \/ EndSensors
  <2>1. status = "idle" /\ status' = "idle" /\ Running /\ UNCHANGED <<inbox, stream, faults>>
    BY <1>3 DEF EndDevices, EndSensors, clientVars, Running
  <2>2. QED
    BY <2>1 DEF Lockstep
<1>4. CASE Fail
  BY <1>4 DEF Fail, Lockstep, Running
<1>5. CASE Receive /\ UNCHANGED hubVars
  BY <1>5, ReceiveKeepsStep
<1>6. CASE ReceiveEnd \/ ReceiveFails
  BY <1>6 DEF ReceiveEnd, ReceiveFails, Lockstep
<1>7. CASE Running /\ PicoStep /\ UNCHANGED hubVars
  BY <1>7, PicoKeepsStep
<1>8. CASE UNCHANGED vars
  BY <1>8 DEF vars, clientVars, hubVars, Lockstep, IsAnswer, Running, CurrentRequests, NextDevice,
     NextSensor
<1>9. QED
  BY <1>1, <1>2, <1>3, <1>4, <1>5, <1>6, <1>7, <1>8 DEF Next, HubStep

-----------------------------------------------------------------------------
(* Causes of errors                                                        *)

LEMMA StepCauses ==
    ASSUME TypeOK, Progress, CallsWhileRunning, Lockstep, ErrorsHaveCauses, [Next]_vars
    PROVE  ErrorsHaveCauses'
<1> USE DEF Running
<1>1. CASE Request
  <2>1. PICK req \in CurrentRequests : Send(req)
    BY <1>1 DEF Request
  <2>2. faults \subseteq faults' /\ connected' = connected /\ phase' = phase
    BY <1>1, <2>1 DEF Request, hubVars, Send, SendWhole, SendShort, SendFails, WriteRequest
  <2>3. status' = "error" => faults' # {}
    BY <2>1 DEF Send, SendWhole, SendShort, SendFails
  <2>4. QED
    BY <2>2, <2>3 DEF ErrorsHaveCauses
<1>2. CASE StoreSystem \/ StoreCount \/ StoreDevice \/ StoreSensor \/ Construct
  <2>1. status' = "idle" /\ phase' # "failed" /\ Running /\ UNCHANGED <<connected, faults>>
    BY <1>2 DEF StoreSystem, StoreCount, StoreDevice, StoreSensor, Construct, Responded, network
  <2>2. QED
    BY <2>1 DEF ErrorsHaveCauses
<1>3. CASE EndDevices \/ EndSensors
  BY <1>3 DEF EndDevices, EndSensors, clientVars, ErrorsHaveCauses
<1>4. CASE Fail
  <2>1. faults' = faults /\ phase' = "failed" /\ status' = "idle"
    BY <1>4 DEF Fail
  <2>2. faults # {}
    <3>1. CASE status = "error"
      BY <3>1 DEF ErrorsHaveCauses
    <3>2. CASE status = "ok" /\ Unacceptable
      <4>1. SUFFICES ASSUME faults = {} PROVE FALSE
        OBVIOUS
      <4>2. IsAnswer(buffer)
        BY <3>2, <4>1 DEF Lockstep
      <4>3. PICK req \in CurrentRequests : buffer \in Answers(pico, req)
        BY <4>1, <4>2 DEF IsAnswer
      <4>4. QED
        BY <3>2, <4>3, AnswersAreAcceptable
    <3>3. QED
      BY <1>4, <3>1, <3>2 DEF Fail
  <2>3. QED
    BY <2>1, <2>2 DEF ErrorsHaveCauses
<1>5. CASE Receive /\ UNCHANGED hubVars
  <2>1. faults \subseteq faults' /\ connected' = connected /\ phase' = phase
    BY <1>5 DEF Receive, hubVars
  <2>2. status' = "error" => faults' # {}
    BY <1>5, ReceiveKeepsStep
  <2>3. QED
    BY <2>1, <2>2 DEF ErrorsHaveCauses
<1>6. CASE ReceiveEnd /\ UNCHANGED hubVars
  BY <1>6 DEF ReceiveEnd, network, hubVars, ErrorsHaveCauses, CallsWhileRunning
<1>7. CASE ReceiveFails /\ UNCHANGED hubVars
  BY <1>7 DEF ReceiveFails, ErrorsHaveCauses
<1>8. CASE Running /\ PicoStep /\ UNCHANGED hubVars
  <2>1. /\ faults \subseteq faults' /\ phase' = phase /\ status' = status
        /\ connected' = connected \/ faults' # {}
    BY <1>8 DEF PicoStep, PicoAnswers, PicoAnswersUselessly, PicoSendsUnasked, PicoCloses, Deliver,
       hubVars
  <2>2. QED
    BY <2>1 DEF ErrorsHaveCauses
<1>9. CASE UNCHANGED vars
  BY <1>9 DEF vars, clientVars, hubVars, ErrorsHaveCauses
<1>10. QED
  BY <1>1, <1>2, <1>3, <1>4, <1>5, <1>6, <1>7, <1>8, <1>9 DEF Next, HubStep

-----------------------------------------------------------------------------
(* Initial values                                                          *)

LEMMA NewSensorsHaveNoValue ==
    ASSUME NEW msg, NEW sen \in ParseSensor(msg)
    PROVE  sen.value = {}
<1>1. PICK found \in Find(msg.values, "num1", 1) \X Find(msg.values, "num1", 2) :
         sen = [id |-> Uint8(found[1]),
                kind |-> SensorKind(Uint8(found[2]), {Uint8(l) : l \in Find(msg.values, "num1", 4)}),
                parent |-> {Uint8(p) : p \in Find(msg.values, "num1", 3)},
                value |-> {}]
  BY SMT DEF IfType, ParseSensor
<1>2. QED
  BY <1>1

LEMMA StepValues ==
    ASSUME TypeOK, ValuesUnset, CallsWhileRunning, Lockstep, InitialValuesAreReadings, [Next]_vars
    PROVE  ValuesUnset' /\ InitialValuesAreReadings'
<1>1. CASE UNCHANGED sensors /\ phase # "ready" /\ phase' # "ready"
  BY <1>1 DEF ValuesUnset, InitialValuesAreReadings
<1>2. CASE UNCHANGED <<sensors, phase, faults, reported>>
  BY <1>2 DEF ValuesUnset, InitialValuesAreReadings
<1>3. CASE StoreSensor
  <2>1. PICK sen \in AcceptedSensors : sensors' = Append(sensors, sen)
    BY <1>3 DEF StoreSensor
  <2>2. sen.value = {}
    BY NewSensorsHaveNoValue DEF AcceptedSensors
  <2>3. sen \in SensorRecords
    BY ParserTypes DEF TypeOK, ClientTypeOK, AcceptedSensors
  <2>4. /\ phase = "sensors" /\ phase' = phase
        /\ Len(sensors') = Len(sensors) + 1
        /\ \A i \in 1..Len(sensors) : sensors'[i] = sensors[i]
        /\ sensors'[Len(sensors) + 1] = sen
    BY <1>3, <2>1, <2>3, AppendProperties DEF StoreSensor, TypeOK
  <2>5. ASSUME NEW i \in 1..Len(sensors')
        PROVE  sensors'[i].value = {}
    BY <2>2, <2>4 DEF ValuesUnset, TypeOK
  <2>6. QED
    BY <2>4, <2>5 DEF ValuesUnset, InitialValuesAreReadings
<1>4. CASE Construct
  <2>1. /\ phase = "state" /\ phase' = "ready" /\ status = "ok"
        /\ sensors' = UpdateSensorValues(sensors, buffer.values)
        /\ UNCHANGED <<faults, reported>>
    BY <1>4 DEF Construct, Responded
  <2>2. ASSUME "unasked" \notin faults
        PROVE  /\ buffer.values \in reported
               /\ \A i \in 1..Len(sensors') : sensors'[i].value = LastReading(buffer.values, i - 1)
    <3>1. buffer.values \in reported
      BY <2>1, <2>2 DEF Lockstep, IsAnswer
    <3>2. Len(sensors') = Len(sensors) /\ Len(sensors) \in Nat
      BY <2>1, UpdateTypes DEF TypeOK, ClientTypeOK, MessageSet
    <3>3. ASSUME NEW i \in 1..Len(sensors)
          PROVE  sensors'[i].value = LastReading(buffer.values, i - 1)
      <4>1. sensors[i] \in SensorRecords /\ sensors[i].value = {}
        BY <2>1, EntryTypes DEF ValuesUnset
      <4>2. sensors'[i] = IF LastReading(buffer.values, i - 1) = {}
                            THEN sensors[i]
                            ELSE [sensors[i] EXCEPT !.value = LastReading(buffer.values, i - 1)]
        BY <2>1 DEF UpdateSensorValues
      <4>3. QED
        BY <4>1, <4>2 DEF SensorRecords
    <3>4. QED
      BY <3>1, <3>2, <3>3
  <2>3. QED
    BY <2>1, <2>2 DEF ValuesUnset, InitialValuesAreReadings
<1>5. CASE Request \/ StoreSystem \/ StoreCount \/ StoreDevice \/ EndDevices \/ EndSensors
  <2>1. CurrentRequests # {} => phase # "ready"
    BY RequestsMeanRunning DEF Running
  <2>2. QED
    BY <1>1, <1>5, <2>1
       DEF Request, hubVars, StoreSystem, StoreCount, StoreDevice, EndDevices, EndSensors
<1>6. CASE Fail
  <2>1. phase # "ready" /\ phase' # "ready"
    BY <1>6 DEF Fail, CallsWhileRunning, Running
  <2>2. QED
    BY <1>1, <1>6, <2>1 DEF Fail
<1>7. CASE (Receive \/ ReceiveEnd \/ ReceiveFails) /\ UNCHANGED hubVars
  <2>1. phase # "ready"
    BY <1>7 DEF Receive, ReceiveEnd, ReceiveFails, CallsWhileRunning, Running
  <2>2. QED
    BY <1>1, <1>7, <2>1 DEF hubVars
<1>8. CASE Running /\ PicoStep /\ UNCHANGED hubVars
  BY <1>1, <1>8 DEF hubVars, Running
<1>9. CASE UNCHANGED vars
  BY <1>2, <1>9 DEF vars, clientVars, hubVars
<1>10. QED
  BY <1>3, <1>4, <1>5, <1>6, <1>7, <1>8, <1>9 DEF Next, HubStep

-----------------------------------------------------------------------------
(* The theorems                                                            *)

InStep ==
    /\ TypeOK
    /\ Progress
    /\ CallsWhileRunning
    /\ Lockstep
    /\ ErrorsHaveCauses
    /\ ValuesUnset
    /\ InitialValuesAreReadings

LEMMA InStepIsInvariant == Spec => []InStep
<1>1. Init => InStep
  <2> SUFFICES ASSUME Init PROVE InStep
    OBVIOUS
  <2>1. TypeOK /\ Progress
    BY InitTypes
  <2>2. CallsWhileRunning /\ Lockstep /\ ErrorsHaveCauses
    BY DEF Init, ClientInit, CallsWhileRunning, Lockstep, ErrorsHaveCauses, Running
  <2>3. ValuesUnset /\ InitialValuesAreReadings
    BY DEF Init, ValuesUnset, InitialValuesAreReadings
  <2>4. QED
    BY <2>1, <2>2, <2>3 DEF InStep
<1>2. InStep /\ [Next]_vars => InStep'
  BY StepTypes, StepCalls, StepLockstep, StepCauses, StepValues DEF InStep
<1>3. QED
  BY <1>1, <1>2, PTL DEF Spec

\* The client and the Pico stay in step although no message carries a number.
THEOREM StaysInStep == Spec => []Lockstep
<1>1. InStep => Lockstep
  BY DEF InStep
<1>2. QED
  BY <1>1, InStepIsInvariant, PTL

\* A request goes out on a quiet connection only.
THEOREM RequestsAreAlone == Spec => RequestsOnQuietConnection
<1>1. ASSUME InStep, [Next]_vars, Len(inbox') > Len(inbox), "unasked" \notin faults
      PROVE  inbox = <<>> /\ stream = <<>>
  <2>1. inbox \in Seq(Requests \cup {Fragment})
    BY <1>1 DEF InStep, TypeOK, ClientTypeOK
  <2>2. inbox' # inbox /\ (inbox # <<>> => inbox' # Tail(inbox))
    BY <1>1, <2>1
  <2>3. Request
    BY <1>1, <2>2
       DEF Next, HubStep, StoreSystem, StoreCount, StoreDevice, StoreSensor, Construct, Responded,
           EndDevices, EndSensors, Fail, Receive, ReceiveEnd, ReceiveFails, PicoStep, PicoAnswers,
           PicoAnswersUselessly, PicoSendsUnasked, PicoCloses, vars, clientVars, network
  <2>4. status = "idle" /\ Running
    BY <2>3, RequestsMeanRunning DEF Request, Send, SendWhole, SendShort, SendFails, WriteRequest
  <2>5. QED
    BY <1>1, <2>4 DEF InStep, Lockstep
<1>2. InStep /\ [Next]_vars =>
        [Len(inbox') > Len(inbox) /\ "unasked" \notin faults
           => inbox = <<>> /\ stream = <<>>]_vars
  BY <1>1
<1>3. QED
  BY <1>2, InStepIsInvariant, PTL DEF Spec, RequestsOnQuietConnection

\* A finished hub starts with the readings of one state answer.
THEOREM HubStartsWithReadings == Spec => []InitialValuesAreReadings
<1>1. InStep => InitialValuesAreReadings
  BY DEF InStep
<1>2. QED
  BY <1>1, InStepIsInvariant, PTL

\* Initialization fails only when something failed outside the program.
THEOREM FailuresHaveCauses == Spec => []FailureHasCause
<1>1. InStep => FailureHasCause
  BY DEF InStep, ErrorsHaveCauses, FailureHasCause
<1>2. QED
  BY <1>1, InStepIsInvariant, PTL

(***************************************************************************)
(* The refinement of Catalogue                                             *)
(***************************************************************************)

AllAddressable == \A p \in Inventories : Addressable(p)

\* What is needed of a state for the tables to show a prefix of the inventory.
Shown == Truth /\ (sensors # <<>> => Len(devices) = Len(pico.devices))

LEMMA ParentsNarrowed ==
    ASSUME Truth, AllAddressable, NEW k \in 1..Len(sensors), NEW i \in 1..Len(pico.devices)
    PROVE  i - 1 \in sensors[k].parent <=> i - 1 \in pico.sensors[k].parent
<1>1. /\ pico \in Inventories /\ k \in 1..Len(pico.sensors)
      /\ sensors[k].parent = {Uint8(n) : n \in pico.sensors[k].parent}
  <2>1. TablesAreTrue /\ pico \in Inventories /\ Len(sensors) \in Nat
    BY EntryTypes DEF Truth, TypeOK, ClientTypeOK, Tables
  <2>2. k <= Len(pico.sensors) /\ sensors[k].parent = {Uint8(n) : n \in pico.sensors[k].parent}
    BY <2>1 DEF TablesAreTrue
  <2>3. pico.sensors \in Seq(SensorFacts)
    BY <2>1, InventoriesAreWellFormed DEF InventoryAssumption
  <2>4. Len(pico.sensors) \in Nat
    BY <2>3
  <2>5. QED
    BY <2>1, <2>2, <2>4
<1>2. Len(pico.devices) \in Nat /\ Len(pico.devices) < IdSpace
  BY <1>1, InventoriesAreWellFormed DEF AllAddressable, Addressable, InventoryAssumption
<1>3. ASSUME NEW n \in pico.sensors[k].parent
      PROVE  i - 1 = Uint8(n) <=> i - 1 = n
  <2>1. n \in 0..(Len(pico.devices) - 1) \/ n = NoParent
    <3>1. \/ pico.sensors[k].parent = {}
          \/ \E m \in 0..(Len(pico.devices) - 1) \cup {NoParent} : pico.sensors[k].parent = {m}
      BY <1>1, InventoriesAreWellFormed DEF InventoryAssumption
    <3>2. QED
      BY <3>1
  <2>2. CASE n \in 0..(Len(pico.devices) - 1)
    BY <2>2, <1>2, IdSpaceAssumption, NarrowIds DEF ByteIds
  <2>3. CASE n = NoParent
    <3>1. Uint8(n) = IdSpace - 1 /\ n >= IdSpace - 1 /\ n \in Int
      BY <2>3, NoParentNarrowed, IdSpaceAssumption DEF NoParent
    <3>2. QED
      BY <3>1, <1>2, IdSpaceAssumption
  <2>4. QED
    BY <2>1, <2>2, <2>3
<1>4. QED
  BY <1>1, <1>3

LEMMA KnownIsPrefix ==
    ASSUME Shown, AllAddressable
    PROVE  Known = Abstract!Prefix(pico, Len(devices), Len(sensors))
<1>1. /\ Len(devices) \in Nat /\ Len(sensors) \in Nat
      /\ Len(devices) <= Len(pico.devices) /\ Len(sensors) <= Len(pico.sensors)
      /\ Len(pico.devices) \in Nat /\ pico \in Inventories
  <2>1. /\ Len(devices) \in Nat /\ Len(sensors) \in Nat /\ pico \in Inventories
        /\ Len(pico.devices) \in Nat /\ Len(pico.sensors) \in Nat
    BY InventoriesAreWellFormed DEF Shown, Truth, TypeOK, ClientTypeOK, InventoryAssumption
  <2>2. /\ \A i \in 1..Len(devices) : i <= Len(pico.devices)
        /\ \A i \in 1..Len(sensors) : i <= Len(pico.sensors)
    BY DEF Shown, Truth, Tables, TablesAreTrue
  <2>3. \A n \in Nat, m \in Nat : (\A i \in 1..n : i <= m) => n <= m
    OBVIOUS
  <2>4. QED
    BY <2>1, <2>2, <2>3
<1>2. ASSUME NEW i \in 1..Len(devices)
      PROVE  [kind |-> devices[i].kind, name |-> devices[i].name, children |-> Ids(devices[i])]
               = [kind |-> DeviceKind(pico.devices[i].type),
                  name |-> pico.devices[i].name,
                  children |-> {n \in 0..(Len(sensors) - 1) :
                                  i - 1 \in pico.sensors[n + 1].parent}]
  <2>1. devices[i].kind = DeviceKind(pico.devices[i].type) /\ devices[i].name = pico.devices[i].name
    BY DEF Shown, Truth, Tables, TablesAreTrue
  <2>2. Ids(devices[i]) = {sensors[j].id : j \in {k \in 1..Len(sensors) : i - 1 \in sensors[k].parent}}
    BY DEF Shown, Truth, Tables, LinksAgree
  <2>3. \A k \in 1..Len(sensors) : sensors[k].id = k - 1
    BY DEF Shown, Truth, Tables, TablesAreTrue
  <2>4. \A k \in 1..Len(sensors) : i - 1 \in sensors[k].parent <=> i - 1 \in pico.sensors[k].parent
    BY <1>1, ParentsNarrowed DEF Shown
  <2>5. Ids(devices[i]) = {n \in 0..(Len(sensors) - 1) : i - 1 \in pico.sensors[n + 1].parent}
    <3>1. Ids(devices[i]) = {k - 1 : k \in {k \in 1..Len(sensors) : i - 1 \in pico.sensors[k].parent}}
      BY <2>2, <2>3, <2>4
    <3>2. QED
      BY <3>1, <1>1
  <2>6. QED
    BY <2>1, <2>5
<1>3. ASSUME NEW k \in 1..Len(sensors)
      PROVE  [kind |-> sensors[k].kind, parent |-> sensors[k].parent \cap 0..(Len(devices) - 1)]
               = [kind |-> SensorKind(pico.sensors[k].type, pico.sensors[k].local),
                  parent |-> pico.sensors[k].parent \cap 0..(Len(pico.devices) - 1)]
  <2>1. sensors[k].kind = SensorKind(pico.sensors[k].type, pico.sensors[k].local)
    BY DEF Shown, Truth, Tables, TablesAreTrue
  <2>2. Len(devices) = Len(pico.devices)
    BY <1>1 DEF Shown
  <2>3. \A i \in 1..Len(pico.devices) :
          i - 1 \in sensors[k].parent <=> i - 1 \in pico.sensors[k].parent
    BY ParentsNarrowed DEF Shown
  <2>4. ASSUME NEW n \in 0..(Len(pico.devices) - 1)
        PROVE  n \in sensors[k].parent <=> n \in pico.sensors[k].parent
    <3>1. n + 1 \in 1..Len(pico.devices) /\ (n + 1) - 1 = n
      BY <1>1
    <3>2. QED
      BY <3>1, <2>3
  <2>5. QED
    BY <2>1, <2>2, <2>4
<1>4. [i \in 1..Len(devices) |->
          [kind |-> devices[i].kind, name |-> devices[i].name, children |-> Ids(devices[i])]]
        = [i \in 1..Len(devices) |->
             [kind |-> DeviceKind(pico.devices[i].type), name |-> pico.devices[i].name,
              children |-> {n \in 0..(Len(sensors) - 1) : i - 1 \in pico.sensors[n + 1].parent}]]
  BY <1>2, Zenon
<1>5. [k \in 1..Len(sensors) |->
          [kind |-> sensors[k].kind, parent |-> sensors[k].parent \cap 0..(Len(devices) - 1)]]
        = [k \in 1..Len(sensors) |->
             [kind |-> SensorKind(pico.sensors[k].type, pico.sensors[k].local),
              parent |-> pico.sensors[k].parent \cap 0..(Len(pico.devices) - 1)]]
  BY <1>3, Zenon
<1>6. /\ \A type : Abstract!DeviceKind(type) = DeviceKind(type)
      /\ \A type, local : Abstract!SensorKind(type, local) = SensorKind(type, local)
  BY DEF Abstract!DeviceKind, DeviceKind, Abstract!SensorKind, SensorKind
<1>7. QED
  BY <1>4, <1>5, <1>6, Zenon DEF Known, Abstract!Prefix

LEMMA KnownIsPrefixLater ==
    Shown' /\ AllAddressable
        => (Known = Abstract!Prefix(pico, Len(devices), Len(sensors)))'
<1>1. Shown /\ AllAddressable => Known = Abstract!Prefix(pico, Len(devices), Len(sensors))
  BY KnownIsPrefix
<1>2. AllAddressable => AllAddressable'
  OBVIOUS
<1>3. QED
  BY <1>1, <1>2, PTL

-----------------------------------------------------------------------------
(* The tables are complete when the loops end                              *)

LEMMA LoopsAreComplete ==
    ASSUME Truth, AllAddressable
    PROVE  /\ phase \in {"sensors", "state", "ready"} => Len(devices) = Len(pico.devices)
           /\ phase \in {"state", "ready"} => Len(sensors) = Len(pico.sensors)
<1>1. /\ Len(pico.devices) \in Nat /\ Len(pico.sensors) \in Nat
      /\ Len(pico.devices) < IdSpace /\ Len(pico.sensors) < IdSpace
  BY InventoriesAreWellFormed
     DEF Truth, TypeOK, ClientTypeOK, InventoryAssumption, AllAddressable, Addressable
<1>2. QED
  BY <1>1, CountIsExact DEF Truth, Progress, Tables, CountsAreTrue

LEMMA StepShown ==
    ASSUME Shown, Truth', AllAddressable, [Next]_vars
    PROVE  Shown'
<1> SUFFICES ASSUME sensors' # <<>> PROVE Len(devices') = Len(pico'.devices)
  BY DEF Shown
<1>1. CASE UNCHANGED <<pico, devices, sensors>>
  BY <1>1 DEF Shown
<1>2. CASE StoreDevice
  BY <1>2 DEF StoreDevice, Shown, Truth, Progress
<1>3. CASE StoreSensor
  <2>1. PICK sen \in AcceptedSensors : devices' = LinkSensor(sen)
    BY <1>3 DEF StoreSensor
  <2>2. Len(devices') = Len(devices)
    BY <2>1 DEF LinkSensor, Shown, Truth, TypeOK
  <2>3. phase = "sensors" /\ pico' = pico
    BY <1>3 DEF StoreSensor, Responded
  <2>4. QED
    BY <2>2, <2>3, LoopsAreComplete DEF Shown
<1>4. CASE Construct
  <2>1. phase = "state" /\ UNCHANGED <<pico, devices>>
    BY <1>4 DEF Construct, Responded
  <2>2. QED
    BY <2>1, LoopsAreComplete DEF Shown
<1>5. CASE Request \/ StoreSystem \/ StoreCount \/ EndDevices \/ EndSensors \/ Fail
  BY <1>1, <1>5
     DEF Request, Send, SendWhole, SendShort, SendFails, WriteRequest, hubVars, StoreSystem,
         StoreCount, Responded, EndDevices, EndSensors, clientVars, Fail
<1>6. CASE (Receive \/ ReceiveEnd \/ ReceiveFails \/ PicoStep) /\ UNCHANGED hubVars
  BY <1>1, <1>6
     DEF Receive, ReceiveEnd, ReceiveFails, hubVars, PicoStep, PicoAnswers, PicoAnswersUselessly,
         PicoSendsUnasked, PicoCloses, Deliver
<1>7. CASE UNCHANGED vars
  BY <1>1, <1>7 DEF vars, clientVars, hubVars
<1>8. QED
  BY <1>2, <1>3, <1>4, <1>5, <1>6, <1>7 DEF Next, HubStep

-----------------------------------------------------------------------------
(* Steps                                                                   *)

LEMMA StoreDeviceLearns ==
    ASSUME Shown, Shown', AllAddressable, StoreDevice
    PROVE  Abstract!LearnDevice
<1>1. PICK dev \in AcceptedDevices : devices' = Append(devices, dev)
  BY DEF StoreDevice
<1>2. /\ phase = "devices" /\ phase' = phase /\ UNCHANGED <<pico, sensors>>
      /\ sensors = <<>> /\ Len(devices) \in Nat
      /\ Len(devices') = Len(devices) + 1
  BY <1>1 DEF StoreDevice, Responded, Shown, Truth, Progress, TypeOK
<1>3. Len(devices') <= Len(pico.devices)
  BY <1>2 DEF Shown, Truth, Tables, TablesAreTrue
<1>4. /\ Known = Abstract!Prefix(pico, Len(devices), 0)
      /\ Known' = Abstract!Prefix(pico, Len(devices) + 1, 0)
  BY <1>2, KnownIsPrefix, KnownIsPrefixLater
<1>5. Outcome = "running" /\ Outcome' = Outcome
  BY <1>2 DEF Outcome
<1>6. Len(devices) \in 0..(Len(pico.devices) - 1)
  BY <1>2, <1>3, InventoriesAreWellFormed
     DEF Shown, Truth, TypeOK, ClientTypeOK, InventoryAssumption
<1>7. QED
  BY <1>2, <1>4, <1>5, <1>6 DEF Abstract!LearnDevice

LEMMA StoreSensorLearns ==
    ASSUME Shown, Shown', AllAddressable, StoreSensor
    PROVE  Abstract!LearnSensor
<1>1. PICK sen \in AcceptedSensors : devices' = LinkSensor(sen) /\ sensors' = Append(sensors, sen)
  BY DEF StoreSensor
<1>2. /\ phase = "sensors" /\ phase' = phase /\ UNCHANGED pico
      /\ Len(sensors) \in Nat /\ Len(devices) = Len(pico.devices)
      /\ Len(sensors') = Len(sensors) + 1 /\ Len(devices') = Len(devices)
  BY <1>1, LoopsAreComplete DEF StoreSensor, Responded, Shown, Truth, Progress, TypeOK, LinkSensor
<1>3. Len(sensors') <= Len(pico.sensors)
  BY <1>2 DEF Shown, Truth, Tables, TablesAreTrue
<1>4. /\ Known = Abstract!Prefix(pico, Len(pico.devices), Len(sensors))
      /\ Known' = Abstract!Prefix(pico, Len(pico.devices), Len(sensors) + 1)
  BY <1>2, KnownIsPrefix, KnownIsPrefixLater
<1>5. Outcome = "running" /\ Outcome' = Outcome
  BY <1>2 DEF Outcome
<1>6. Len(sensors) \in 0..(Len(pico.sensors) - 1)
  BY <1>2, <1>3, InventoriesAreWellFormed
     DEF Shown, Truth, TypeOK, ClientTypeOK, InventoryAssumption
<1>7. QED
  BY <1>2, <1>4, <1>5, <1>6 DEF Abstract!LearnSensor

LEMMA ConstructFinishes ==
    ASSUME Shown, Shown', AllAddressable, Construct
    PROVE  Abstract!Finish
<1>1. phase = "state" /\ phase' = "ready" /\ UNCHANGED <<pico, devices>>
  BY DEF Construct, Responded
<1>2. /\ Len(devices) = Len(pico.devices) /\ Len(sensors) = Len(pico.sensors)
      /\ Len(sensors') = Len(sensors)
  BY <1>1, LoopsAreComplete, UpdateTypes
     DEF Construct, Shown, Truth, TypeOK, ClientTypeOK, MessageSet
<1>3. /\ Known = Abstract!Prefix(pico, Len(pico.devices), Len(pico.sensors))
      /\ Known' = Known
  BY <1>1, <1>2, KnownIsPrefix, KnownIsPrefixLater
<1>4. Outcome = "running" /\ Outcome' = "ready"
  BY <1>1 DEF Outcome
<1>5. QED
  BY <1>1, <1>3, <1>4 DEF Abstract!Finish

LEMMA FailGivesUp ==
    ASSUME Truth, phase \notin {"ready", "failed"}, Fail
    PROVE  Abstract!GiveUp
<1>1. phase' = "failed" /\ UNCHANGED <<pico, devices, sensors>>
  BY DEF Fail
<1>2. Known' = Known
  BY <1>1 DEF Known, Ids
<1>3. Outcome = "running" /\ Outcome' = "failed"
  BY <1>1 DEF Outcome
<1>4. QED
  BY <1>1, <1>2, <1>3 DEF Abstract!GiveUp

\* Every step of the initialization is one of Catalogue or none.
LEMMA StepIsAbstract ==
    ASSUME Shown, Shown', CallsWhileRunning, AllAddressable, [Next]_vars
    PROVE  [Abstract!CatalogueNext]_(Abstract!catalogueVars)
<1>1. CASE UNCHANGED <<pico, devices, sensors>> /\ Outcome' = Outcome
  <2>1. Known' = Known
    BY <1>1 DEF Known, Ids
  <2>2. QED
    BY <1>1, <2>1 DEF Abstract!catalogueVars
<1>2. CASE StoreDevice
  BY <1>2, StoreDeviceLearns DEF Abstract!CatalogueNext
<1>3. CASE StoreSensor
  BY <1>3, StoreSensorLearns DEF Abstract!CatalogueNext
<1>4. CASE Construct
  BY <1>4, ConstructFinishes DEF Abstract!CatalogueNext
<1>5. CASE Fail
  <2>1. phase \notin {"ready", "failed"}
    BY <1>5 DEF Fail, CallsWhileRunning, Running
  <2>2. QED
    BY <1>5, <2>1, FailGivesUp DEF Shown, Abstract!CatalogueNext
<1>6. CASE Request \/ StoreSystem \/ StoreCount \/ EndDevices \/ EndSensors
  BY <1>1, <1>6
     DEF Request, Send, SendWhole, SendShort, SendFails, WriteRequest, hubVars, StoreSystem,
         StoreCount, Responded, EndDevices, EndSensors, clientVars, Outcome
<1>7. CASE (Receive \/ ReceiveEnd \/ ReceiveFails \/ PicoStep) /\ UNCHANGED hubVars
  BY <1>1, <1>7
     DEF Receive, ReceiveEnd, ReceiveFails, hubVars, PicoStep, PicoAnswers, PicoAnswersUselessly,
         PicoSendsUnasked, PicoCloses, Deliver, Outcome
<1>8. CASE UNCHANGED vars
  BY <1>1, <1>8 DEF vars, clientVars, hubVars, Outcome
<1>9. QED
  BY <1>2, <1>3, <1>4, <1>5, <1>6, <1>7, <1>8 DEF Next, HubStep

LEMMA InitIsAbstract ==
    ASSUME Init, Shown, AllAddressable
    PROVE  Abstract!CatalogueInit
<1>1. pico \in Inventories /\ devices = <<>> /\ sensors = <<>> /\ phase = "system"
  BY DEF Init, ClientInit
<1>2. Known = Abstract!Prefix(pico, 0, 0)
  BY <1>1, KnownIsPrefix
<1>3. QED
  BY <1>1, <1>2 DEF Abstract!CatalogueInit, Outcome

\* If the counts can express every inventory, the initialization implements
\* Catalogue: what it knows is the truth about a growing prefix of the
\* inventory, and it is ready only when it knows all of it.
THEOREM HubImplementsCatalogue ==
    ASSUME AllAddressable
    PROVE  Spec => ImplementsCatalogue
<1> DEFINE Inv == Shown /\ CallsWhileRunning
<1>1. Init => Inv
  <2>1. Init => Truth
    BY InitTruth
  <2>2. QED
    BY <2>1 DEF Init, ClientInit, Shown, CallsWhileRunning
<1>2. Inv /\ [Next]_vars => Inv'
  <2>1. Truth /\ [Next]_vars => Truth'
    BY StepTruth
  <2>2. QED
    BY <2>1, StepShown, StepCalls DEF Shown, Truth
<1>3. Init => Abstract!CatalogueInit
  BY <1>1, InitIsAbstract
<1>4. Inv /\ Inv' /\ [Next]_vars => [Abstract!CatalogueNext]_(Abstract!catalogueVars)
  BY StepIsAbstract
<1> HIDE DEF Inv
<1>5. QED
  BY <1>1, <1>2, <1>3, <1>4, PTL DEF Spec, ImplementsCatalogue, Abstract!CatalogueSpec
=============================================================================
