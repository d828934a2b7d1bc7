--------------------------- MODULE HubInvariants ---------------------------
(***************************************************************************)
(* The inductive invariants behind the properties of Hub.                  *)
(***************************************************************************)
EXTENDS Hub

\* How far the tables are, in each phase.  While a request of a loop is
\* under way there is an entry left to ask for.
Progress ==
    /\ phase \in {"system", "count"} => devices = <<>> /\ sensors = <<>>
    /\ phase = "devices" =>
         /\ sensors = <<>>
         /\ Len(devices) <= counts.device_count
         /\ status # "idle" => Len(devices) < counts.device_count
    /\ phase = "sensors" =>
         /\ Len(devices) = counts.device_count
         /\ Len(sensors) <= counts.sensor_count
         /\ status # "idle" => Len(sensors) < counts.sensor_count
    /\ phase \in {"state", "ready"} =>
         /\ Len(devices) = counts.device_count
         /\ Len(sensors) = counts.sensor_count

\* A message that says nothing false about the Pico.
Truthful(msg) ==
    \/ msg.values = <<>>
    \/ \E req \in Requests : msg \in Answers(pico, req)

\* Nothing false is on the wire or accepted.
Genuine ==
    /\ \A i \in 1..Len(stream) : Truthful(stream[i].msg)
    /\ status = "ok" => Truthful(buffer)

\* What is in the tables is true and at its place.
TablesAreTrue ==
    /\ phase \in {"count", "devices", "sensors", "state", "ready"} => system = {pico.system}
    /\ \A i \in 1..Len(devices) :
         /\ i <= Len(pico.devices)
         /\ devices[i].id = i - 1
         /\ devices[i].kind = DeviceKind(pico.devices[i].type)
         /\ devices[i].name = pico.devices[i].name
    /\ \A i \in 1..Len(sensors) :
         /\ i <= Len(pico.sensors)
         /\ sensors[i].id = i - 1
         /\ sensors[i].kind = SensorKind(pico.sensors[i].type, pico.sensors[i].local)
         /\ sensors[i].parent = {Uint8(n) : n \in pico.sensors[i].parent}

Count(n) == Uint8(Uint8(n - 1) + 1)

CountsAreTrue ==
    phase \in {"devices", "sensors", "state", "ready"} =>
        /\ counts.device_count = Count(Len(pico.devices))
        /\ counts.sensor_count = Count(Len(pico.sensors))

\* A call of the client is under way only while the initialization runs.
CallsWhileRunning == status # "idle" => Running

\* No sensor has a value before the hub is constructed.
ValuesUnset == phase # "ready" => \A i \in 1..Len(sensors) : sensors[i].value = {}

\* Without unasked messages the connection holds one request or one answer at
\* a time, and the answer is to the request the hub is waiting for: the client
\* and the Pico are in step although no message carries a number.
IsAnswer(msg) ==
    /\ phase = "state" /\ msg # Unreadable => msg.values \in reported
    /\ faults = {} => \E req \in CurrentRequests : msg \in Answers(pico, req)

Lockstep ==
    "unasked" \notin faults =>
        /\ Running /\ status \in {"idle", "ok"} => inbox = <<>> /\ stream = <<>>
        /\ status = "waiting" =>
             \/ /\ stream = <<>>
                /\ \/ inbox = <<Fragment>> /\ faults # {}
                   \/ \E req \in CurrentRequests : inbox = <<req>>
             \/ /\ inbox = <<>>
                /\ stream # <<>>
                /\ stream = Frame(stream[1].msg)
                /\ IsAnswer(stream[1].msg)
        /\ status = "ok" => IsAnswer(buffer) /\ buffer # Unreadable

\* Every error has a cause.
ErrorsHaveCauses ==
    /\ status = "error" => faults # {}
    /\ Running /\ ~connected => faults # {}
    /\ phase = "failed" => faults # {}
=============================================================================
