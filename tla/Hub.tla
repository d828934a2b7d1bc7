-------------------------------- MODULE Hub --------------------------------
(***************************************************************************)
(* initialize_basic_hub: ask for system information and the counts, then   *)
(* for every device and every sensor by index, link the sensors to their   *)
(* devices, ask for the sensor state and build the hub from it.  The first *)
(* error ends the initialization.                                          *)
(***************************************************************************)
EXTENDS Client

VARIABLES
    phase,    \* where initialize_basic_hub is
    system,   \* system_response, once received
    counts,   \* count_response, once received
    devices,  \* the devices received so far
    sensors   \* the sensors received so far

hubVars == <<phase, system, counts, devices, sensors>>
vars == <<clientVars, hubVars>>

Init ==
    /\ ClientInit
    /\ phase = "system"
    /\ system = {}
    /\ counts = [device_count |-> 0, sensor_count |-> 0]
    /\ devices = <<>>
    /\ sensors = <<>>

-----------------------------------------------------------------------------
(* Requests                                                                *)

NextDevice == Len(devices)
NextSensor == Len(sensors)

\* Mutant: ids are taken to start at 1.
RequestsFromOne ==
    CASE phase = "system" -> {SystemRequest}
      [] phase = "count" -> {CountRequest}
      [] phase = "devices" -> {DeviceRequest(n + 1) : n \in {NextDevice} \ {counts.device_count}}
      [] phase = "sensors" -> {SensorRequest(n + 1) : n \in {NextSensor} \ {counts.sensor_count}}
      [] phase = "state" -> {StateRequest}
      [] OTHER -> {}

\* Mutant: the loops run up to the count and not below it.
RequestsPastCount ==
    CASE phase = "system" -> {SystemRequest}
      [] phase = "count" -> {CountRequest}
      [] phase = "devices" -> {DeviceRequest(NextDevice)}
      [] phase = "sensors" -> {SensorRequest(NextSensor)}
      [] phase = "state" -> {StateRequest}
      [] OTHER -> {}

\* The request of the current phase, none at the end of a loop.
CurrentRequests ==
    CASE phase = "system" -> {SystemRequest}
      [] phase = "count" -> {CountRequest}
      [] phase = "devices" -> {DeviceRequest(n) : n \in {NextDevice} \ {counts.device_count}}
      [] phase = "sensors" -> {SensorRequest(n) : n \in {NextSensor} \ {counts.sensor_count}}
      [] phase = "state" -> {StateRequest}
      [] OTHER -> {}

Request == /\ \E req \in CurrentRequests : Send(req)
           /\ UNCHANGED hubVars

-----------------------------------------------------------------------------
(* Responses                                                               *)

\* request_message returned a message; it is read in place, in the buffer.
Responded == /\ status = "ok"
             /\ status' = "idle"
             /\ UNCHANGED <<pico, network, buffer, faults, reported>>

\* What the checks of each phase accept of the response.
AcceptedDevices == {d \in ParseDevice(buffer) : d.id = NextDevice}

\* Mutant: the id of the answer is not compared with the one asked for.
AnySensor == ParseSensor(buffer)

AcceptedSensors == {s \in ParseSensor(buffer) : s.id = NextSensor}

\* Mutant: device ids are taken to start at 1.
LinkSensorFromOne(sen) ==
    [i \in 1..Len(devices) |->
        IF i \in sen.parent
          THEN [devices[i] EXCEPT !.sensor_ids = Append(@, sen.id)]
          ELSE devices[i]]

\* add_sensor_id on the parent, if that is one of the devices.
LinkSensor(sen) ==
    [i \in 1..Len(devices) |->
        IF (i - 1) \in sen.parent
          THEN [devices[i] EXCEPT !.sensor_ids = Append(@, sen.id)]
          ELSE devices[i]]

StoreSystem ==
    /\ phase = "system"
    /\ Responded
    /\ ParseSystemInfo(buffer) # {}
    /\ system' = ParseSystemInfo(buffer)
    /\ phase' = "count"
    /\ UNCHANGED <<counts, devices, sensors>>

StoreCount ==
    /\ phase = "count"
    /\ Responded
    /\ counts' \in ParseCountInfo(buffer)
    /\ phase' = "devices"
    /\ UNCHANGED <<system, devices, sensors>>

StoreDevice ==
    /\ phase = "devices"
    /\ Responded
    /\ \E dev \in AcceptedDevices : devices' = Append(devices, dev)
    /\ UNCHANGED <<phase, system, counts, sensors>>

StoreSensor ==
    /\ phase = "sensors"
    /\ Responded
    /\ \E sen \in AcceptedSensors :
         /\ devices' = LinkSensor(sen)
         /\ sensors' = Append(sensors, sen)
    /\ UNCHANGED <<phase, system, counts>>

\* request_sensor_state looks at no message type: any message that parses is
\* taken for the sensor state.  The hub's constructor reads the values out of
\* the buffer it was moved with.
Construct ==
    /\ phase = "state"
    /\ Responded
    /\ sensors' = UpdateSensorValues(sensors, buffer.values)
    /\ phase' = "ready"
    /\ UNCHANGED <<system, counts, devices>>

EndDevices ==
    /\ phase = "devices"
    /\ status = "idle"
    /\ NextDevice = counts.device_count
    /\ phase' = "sensors"
    /\ UNCHANGED <<clientVars, system, counts, devices, sensors>>

EndSensors ==
    /\ phase = "sensors"
    /\ status = "idle"
    /\ NextSensor = counts.sensor_count
    /\ phase' = "state"
    /\ UNCHANGED <<clientVars, system, counts, devices, sensors>>

Unacceptable ==
    \/ phase = "system" /\ ParseSystemInfo(buffer) = {}
    \/ phase = "count" /\ ParseCountInfo(buffer) = {}
    \/ phase = "devices" /\ AcceptedDevices = {}
    \/ phase = "sensors" /\ AcceptedSensors = {}

\* Mutant: only the errors of the sockets are returned.
FailOnSocketErrors ==
    /\ status = "error"
    /\ phase' = "failed"
    /\ status' = "idle"
    /\ connected' = FALSE
    /\ UNCHANGED <<pico, inbox, stream, buffer, faults, reported>>
    /\ UNCHANGED <<system, counts, devices, sensors>>

\* The error is returned and the client, sockets included, destroyed.
Fail ==
    /\ status = "error" \/ (status = "ok" /\ Unacceptable)
    /\ phase' = "failed"
    /\ status' = "idle"
    /\ connected' = FALSE
    /\ UNCHANGED <<pico, inbox, stream, buffer, faults, reported>>
    /\ UNCHANGED <<system, counts, devices, sensors>>

-----------------------------------------------------------------------------
\* The steps of the calling thread that need nothing from outside.
HubStep ==
    \/ Request
    \/ StoreSystem \/ StoreCount \/ StoreDevice \/ StoreSensor \/ Construct
    \/ EndDevices \/ EndSensors \/ Fail

Running == phase \notin {"ready", "failed"}

Next ==
    \/ HubStep
    \/ Receive /\ UNCHANGED hubVars
    \/ ReceiveEnd /\ UNCHANGED hubVars
    \/ ReceiveFails /\ UNCHANGED hubVars
    \/ Running /\ PicoStep /\ UNCHANGED hubVars

Spec == Init /\ [][Next]_vars

\* One thread that is never preempted for good; recv returns once there is
\* something to return.  Nothing is assumed of the Pico, nor that a call fails.
Fairness ==
    /\ WF_vars(HubStep)
    /\ WF_vars((Receive \/ ReceiveEnd) /\ UNCHANGED hubVars)

FairSpec == Spec /\ Fairness

-----------------------------------------------------------------------------
(* Properties                                                              *)

DeviceRecords == [id : ByteIds, kind : DeviceKinds, name : SUBSET Names,
                  sensor_ids : Seq(ByteIds)]
SensorRecords == [id : ByteIds, kind : SensorKinds, parent : SUBSET ByteIds,
                  value : SUBSET Int]

\* Every variable has its type, and the tables never outgrow the ids of a byte.
TypeOK ==
    /\ ClientTypeOK
    /\ phase \in {"system", "count", "devices", "sensors", "state", "ready", "failed"}
    /\ system \in SUBSET SystemFacts
    /\ counts \in [device_count : ByteIds, sensor_count : ByteIds]
    /\ devices \in Seq(DeviceRecords)
    /\ sensors \in Seq(SensorRecords)
    /\ Len(devices) < IdSpace
    /\ Len(sensors) < IdSpace

Ids(dev) == {dev.sensor_ids[k] : k \in 1..Len(dev.sensor_ids)}

\* A finished hub describes the Pico it asked, entry by entry, whatever was
\* repeated, sent unasked, split or lost on the way: the id checks of
\* initialize_basic_hub are all that stands between a stray answer and a
\* table with a wrong or missing entry.
MirrorsInventory ==
    phase = "ready" /\ Addressable(pico) =>
        /\ system = {pico.system}
        /\ Len(devices) = Len(pico.devices)
        /\ Len(sensors) = Len(pico.sensors)
        /\ \A i \in 1..Len(devices) :
              /\ devices[i].id = i - 1
              /\ devices[i].kind = DeviceKind(pico.devices[i].type)
              /\ devices[i].name = pico.devices[i].name
              /\ Ids(devices[i]) =
                    {n \in 0..(Len(sensors) - 1) : i - 1 \in pico.sensors[n + 1].parent}
        /\ \A i \in 1..Len(sensors) :
              /\ sensors[i].id = i - 1
              /\ sensors[i].kind = SensorKind(pico.sensors[i].type, pico.sensors[i].local)

\* At every point the lists of sensor ids in the devices and the parents in
\* the sensors tell the same story: get_sensors(device) yields each sensor
\* that names the device as its parent, once and by ascending id.
LinksAgree ==
    \A i \in 1..Len(devices) :
        /\ Ids(devices[i]) = {sensors[j].id : j \in
                {k \in 1..Len(sensors) : i - 1 \in sensors[k].parent}}
        /\ \A j, k \in 1..Len(devices[i].sensor_ids) :
              j < k => devices[i].sensor_ids[j] < devices[i].sensor_ids[k]

\* As long as the Pico sends nothing unasked, a finished hub starts with the
\* readings of one state answer of the Pico and no other bytes: the last
\* message in the buffer is that answer although request_sensor_state looks
\* at no message type and the values are read after the client was moved.
InitialValuesAreReadings ==
    phase = "ready" /\ "unasked" \notin faults =>
        \E values \in reported :
            \A i \in 1..Len(sensors) : sensors[i].value = LastReading(values, i - 1)

\* Initialization fails only if something went wrong outside the program: a
\* call failed, the Pico closed the connection or sent what cannot be used,
\* or a frame did not arrive in one piece.
FailureHasCause == phase = "failed" => faults # {}

\* A request goes out only when nothing of an earlier one is under way: no
\* message carries a number, so an answer left over on the connection would be
\* taken for the answer to the next request.  The initialization holds this by
\* giving up at the first error, although the client would go on.
RequestsOnQuietConnection ==
    [][Len(inbox') > Len(inbox) /\ "unasked" \notin faults
          => inbox = <<>> /\ stream = <<>>]_vars

\* Initialization ends unless it waits for ever for a Pico that keeps the
\* connection and says nothing: there is no timeout, and no other way to hang.
EndsOrWaitsForPico ==
    \/ <>(phase \in {"ready", "failed"})
    \/ <>[](status = "waiting" /\ stream = <<>> /\ connected)

\* A Pico that answers every request, on a connection that never fails, gives
\* a hub.
AnsweredHubBecomesReady ==
    WF_vars(PicoAnswers /\ UNCHANGED hubVars) /\ [](faults = {}) => <>(phase = "ready")

-----------------------------------------------------------------------------
(* Refinement of Catalogue                                                 *)

Known ==
    [devices |-> [i \in 1..Len(devices) |->
        [kind |-> devices[i].kind, name |-> devices[i].name,
         children |-> Ids(devices[i])]],
     sensors |-> [i \in 1..Len(sensors) |->
        [kind |-> sensors[i].kind,
         parent |-> sensors[i].parent \cap 0..(Len(devices) - 1)]]]

Outcome == IF phase \in {"ready", "failed"} THEN phase ELSE "running"

Abstract == INSTANCE Catalogue WITH known <- Known, outcome <- Outcome

\* The initialization implements Catalogue, provided that the counts can
\* express every inventory (Addressable).
ImplementsCatalogue == Abstract!CatalogueSpec
=============================================================================
