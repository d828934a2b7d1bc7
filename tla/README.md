# A verification of spymarine-cpp in TLA+

spymarine is a C++23 library that talks to a Simarine Pico, a battery and tank
monitor for boats. It asks the Pico over TCP which devices and sensors it has,
builds a *hub* from the answers, and from then on reads the sensor values the
Pico broadcasts over UDP. This directory holds TLA+ modules that model this
code, configurations that check them with TLC, and theorems about them whose
proofs TLAPS checks. File names without a directory are those of
`src/include/spymarine`.

## 1. The system

| component | state | operations | what makes it correct |
|---|---|---|---|
| **hub initialization** (`hub.hpp` 85-147) | where it is, the counts, the tables of devices and sensors so far | one request after the other: system, counts, each device, each sensor, state; give up at the first error | the tables describe the Pico entry by entry; sensors and devices are linked consistently; it ends; it fails only for a reason |
| **client, TCP** (`client.hpp` 41-135, `src/tcp_socket.cpp`) | one buffer for requests and answers, the socket | `request_message`: write the request into the buffer, `send`, one `recv` into the same buffer, parse | an answer is taken only for the request it answers although messages carry no number |
| **hub life** (`hub.hpp` 17-32, `sensor.hpp`, `client.hpp` 87-96) | the sensor table with current and average values, one count of readings | `read_sensor_values` (block until a sensor state arrives), `start_new_average_window` | averages are means of the readings of the window; a read returns when there is something to read |
| **parsers** (`parse_*.hpp`, `message_values_view.hpp`) | none | message to counts, device, sensor | the right value is found and the right width kept |
| **framing and bytes** (`parse_message*.hpp`, `crc.hpp`, `message_value*.hpp`) | none | bytes to a message, message to values | nothing but a whole, intact frame becomes a message |
| **connection and discovery** (`client.hpp` 151-192, `src/udp_socket.cpp`, `src/file_descriptor.cpp`) | file descriptors, the bound port | `discover`, `connect`, moves and destruction of sockets | each descriptor is closed once; nothing stays open after an error |
| **Home Assistant** (`home_assistant.hpp`) | none | device to discovery components and state entries | entities stay apart, each has a value and shows its own sensor |
| **application loop** (`examples/moving_average.cpp`) | the time of the last print | read; print and start a new window when the interval is over | each reading counts in one print; prints come |
| **Simarine Pico** (external) | its inventory | answers, broadcasts, closing | - |
| formatting, units, errors, the other examples, tests, build | - | - | not modelled |

How they interact. There is one thread and no callback: the application calls
`discover`, `connect`, `initialize_hub`, then `read_sensor_values` in a loop,
each of which blocks. All concurrency is with the Pico and the network: what
has arrived when a `recv` is called, how much of it a `recv` returns, whether
the Pico answers, twice, late, uselessly or never, what queues up on the UDP
socket meanwhile, and which call fails. The client moves into the hub at the
end of the initialization, and views into its buffer are used on both sides of
that move.

What is hard about this code follows from that:

* TCP has no message boundaries, and `request_message` receives *once*;
* requests and answers share one buffer and carry no sequence number;
* `request_sensor_state` looks at no message type;
* no call has a timeout, and `send` may send less than it was given;
* indexes, counts and parents are narrowed to a byte;
* each link between a sensor and a device is stored on both sides;
* the UDP socket is bound before the hub has its first values;
* one reading count serves the averages of all sensors;
* a failed request leaves its answer on the connection, and nothing says so;
* the CRC is computed over different bytes by sender and receiver, and covers
  neither end of the frame;
* two lists of sensor kinds, one for announcements, one for states, have to
  agree.

`PROJECT.json` lists the hazards line by line with the properties that cover
them.

## 2. The modules

| module | models | extends |
|---|---|---|
| `Messages` | parsed messages, `find<T>`, the parsers, narrowing to a byte | - |
| `Pico` | inventories, requests and answers (external) | `Messages` |
| `Client` | `request_message` over a TCP connection, and the Pico at the other end | `Pico` |
| `Hub` | `initialize_basic_hub` on top of the client; the properties | `Client` |
| `HubInvariants` | the parts of the inductive invariants | `Hub` |
| `Catalogue` | abstract specification of the initialization: learn a prefix of the truth, or give up | `Pico` |
| `MCHub` | small inventories for TLC | `HubInvariants` |
| `Hub_proofs` | type, tables, links | `HubInvariants` |
| `HubLockstep_proofs` | the connection stays in step, its consequences; `Hub` implements `Catalogue` | `Hub_proofs` |
| `ClientSession` | the public request functions, called in any order and after errors; its properties | `Client` |
| `MCClientSession` | a small Pico for TLC | `ClientSession` |
| `ClientSession_proofs` | what calls are given | `ClientSession` |
| `Readings` | broadcasts, the UDP queue, `read_sensor_values`, averages | `Messages` |
| `MCReadings` | instance for TLC | `Readings` |
| `Readings_proofs` | datagrams are read once, averages are means | `Readings` |
| `MovingAverage` | the main loop of the example on top of a hub | `Readings` |
| `MCMovingAverage` | instance for TLC | `MovingAverage` |
| `MovingAverage_proofs` | the loop uses the hub; what it prints | `MovingAverage` |
| `HomeAssistant` | topics, components and state entries of a hub that goes on reading | `Readings` |
| `MCHomeAssistant` | small layouts of devices for TLC | `HomeAssistant` |
| `HomeAssistant_proofs` | entities and reports | `HomeAssistant` |
| `Framing` | frames, CRC and value iterator byte by byte | `Messages` |
| `MCFraming` | short frames for TLC; recorded bytes of the tests | `Framing` |
| `Framing_proofs` | what parses, and to what, for all frames | `Framing` |
| `Connection` | `discover`, `connect`, descriptors, the port | - |
| `MCConnection` | instance for TLC | `Connection` |
| `Connection_proofs` | ownership of descriptors | `Connection` |

### Messages and Pico

A message is a type and the list of values its iterator yields. A value has an
id, a tag (`num1`, `num3`, `text`) and content. An `std::optional` or
`std::expected` is a set with at most one element. `Uint8` is `% IdSpace`:
`IdSpace` is 256 in the code and a parameter here, so that the wrap of
`parse_count_info` and the narrowing of `parse_sensor2` happen in the model as
they do in the code (`int32` values are not narrowed: nothing depends on it).

A Pico has an *inventory*: system facts, devices, sensors, where a sensor's
parent is absent, the index of a device, or `NoParent`, a field with every bit
set. The recorded sensors without a parent leave the field out; `NoParent` is
there because the code reads 32 bits and keeps eight of them. An answer is true, or of no use
(rejected by `parse_message`, or without values).

### Client and Hub

A frame travels as `Parts` units. `Receive` takes any non-empty prefix of what
has arrived, up to `Capacity` units, and yields a message only if that is
exactly one frame; `parse_message` checks the length against the bytes it got,
so a fragment, or two frames at once, is an error, and the rest stays in the
stream. `Send` has three outcomes: all, a part (the Pico gets a `Fragment`
that it never answers), or an error.

The variables of `Hub` are the locals of `initialize_basic_hub`. `phase` is
the place in the function, `status` the place in `request_message`:

| action | code |
|---|---|
| `Request` with `SendWhole`, `SendShort`, `SendFails` | a `cli.request_*` call up to `recv` |
| `Receive`, `ReceiveEnd`, `ReceiveFails` | `recv` and `parse_message` |
| `StoreSystem`, `StoreCount`, `StoreDevice`, `StoreSensor` | the successful rest of a loop body, `add_sensor_id` included |
| `EndDevices`, `EndSensors` | the loop conditions |
| `Construct` | state answer and constructor of the hub |
| `Fail` | every early return; the client is destroyed, which closes the connection |
| `PicoStep` | answer, useless answer, unasked message, close |

Ghost variables: `faults` records which kinds of fault happened, `reported`
the state answers sent. They guard nothing.

`Catalogue` says what the initialization promises with no messages at all:
`known` is always the truth about the first d devices and, when all are known,
the first s sensors; the outcome is "ready" only when everything is known. The
refinement mapping is `Known` and `Outcome` in `Hub`.

### ClientSession

`Call` picks any of the five requests and sends it on the same connection;
`Return` and `ReturnError` end the call, `Parse` is the rest of the request
function, with its type check where it has one. Unlike the initialization,
nothing stops after an error: the next call reuses the client as it is. The
buffer is shared: after a failed `send` or `recv` it still holds the request.
The ghost `gave_up` counts the calls whose `recv` failed.

### Readings

Datagrams are in the air, then in the queue of the socket, which drops what
does not fit; from the air they arrive in any order, not at all, or twice. A
reading depends on the number of its broadcast, so that old ones can be told;
some are negative. `Construct` may happen at any time, with whatever is queued
by then. `PassOver` and `Read` are the two ways a round of the loop of
`read_sensor_state` goes. `UpdateSensor` and `SkipValue` are the rounds of the
loop of `update_sensor_values`, one value each; `ReadEnds` counts the reading.
Averages are exact fractions `num / den` by the formula of
`sensor_value::update`. Ghosts: what each sensor read in the window (`window`)
and in the message in hand (`times`), whether each message of the window had
exactly one value for it (`regular`), the readings that can have a part in its
average (`seen`), and the stamps of the datagrams read (`read`).

### MovingAverage and HomeAssistant

Both extend `Readings` and leave its steps as they are. `MovingAverage` is the
thread of the example: `main` is its place, `due` whether the comparison of
the clock would be true. `CallReads` is a step inside `read_sensor_values`,
`PrintAndStartOver` and `GoOn` are the two ways past the `if`.

`HomeAssistant` adds the messages a caller makes between calls. A topic or an
id is a tuple of the parts the code joins with separators. `Component` keeps
what matters of a component, its id, the key in its template and its unique
id; `Entries` is the map of a state message, where `emplace` keeps the first
entry of a key. `configs` and `states` are what a broker keeps: the last
message of each topic. Which devices and sensors there are is a `layout`, in
which a sensor belongs to at most one device and ids are indices, as `Hub`
shows of a finished hub.

### Framing

Bytes are numbers and spans are sequences; the functions are those of the
code, names included. `XorByte` and `ShiftOutByte` are functions so that TLC
computes them once; recursion is over functions, never over operators, so that
it can be reasoned about. A text may hold any byte but 0; one that is not ASCII
is read as a question mark. `sent` is one or two frames of the client or the Pico, `piece` any
contiguous piece of them, `Damage` changes one or two neighbouring bytes of a
whole frame or of a beginning just long enough for the header check. `size_t`
has 16 bits instead of 64: its subtraction wraps in the same way. This module
shows what `Client` assumes of frames, that a received span parses exactly if
it is one whole frame.

### Connection

An owner is a variable of the application that holds a client or hub, or
`Local`, the sockets inside `basic_discover` and `basic_connect`; `fd` maps
each owner's two sockets to the content of their `file_descriptor`. The
temporary clients a return value is moved through are one with `Local`. Each
action of `Discover*` and `Connect*` is one system call with its error;
`Store`, `MoveClient`, `Drop` and `Destroy` are the moves and destructors.
`Move` does what `file_descriptor::operator=` does: it does not close what the
target held, which goes to the ghost `overwritten`. The rest of the process
opens and closes descriptors of its own at any time, so that a number can be
reused.

## 3. What the runs check

| run | configuration | size | shows |
|---|---|---|---|
| `hub_faults` | `MCHub.cfg` | 2,746 states, 1 s | the whole initialization under every fault but unasked messages: all properties of `Hub` |
| `hub_unasked` | `MCHubUnasked.cfg` | 819,610 states, 20 s | tables, links and refinement when the Pico may send any true answer at any time |
| `client_session` | `MCClientSession.cfg` | 212,960 states, 7 s | what three calls in any order and after errors are given |
| `framing` | `MCFraming.cfg` | 211,666 states, 14 s | what parses, and to what |
| `readings` | `MCReadings.cfg` | 514,219 states, 25 s | averages, each datagram once, and that reads return |
| `readings_repeated` | `MCReadingsRepeated.cfg` | 178,713 states, 9 s | the same means when the network repeats a datagram |
| `moving_average` | `MCMovingAverage.cfg` | 395,904 states, 30 s | what the example prints, and that it goes on |
| `home_assistant` | `MCHomeAssistant.cfg` | 3,322,818 states, 45 s | entities and reports of all kinds of sensors |
| `connection` | `MCConnection.cfg` | 7,392 states, 1 s | ownership of descriptors and ports |

Properties of `Hub`:

* `TypeOK`: types, and the tables never outgrow the ids of a byte;
* `MirrorsInventory`: a finished hub describes the Pico entry by entry;
* `LinksAgree`: the two sides of each link agree, in ascending order, always;
* `InitialValuesAreReadings`: the first values come from one state answer;
* `FailureHasCause`: no failure without a fault outside the program;
* `Lockstep`, `RequestsOnQuietConnection`: client and Pico are in step, so
  that no answer is taken for that to another request;
* `AnsweredHubBecomesReady`: if the Pico answers everything and nothing fails,
  the hub becomes ready;
* `EndsOrWaitsForPico`: it ends, or waits for ever in `recv` for a Pico that
  is silent and keeps the connection. The second case is real: there is no
  timeout;
* `ImplementsCatalogue`: the refinement.

Properties of `ClientSession`:

* `CallsGetTheirAnswers`: as long as no receive failed or came in pieces and
  nothing is sent unasked, a call gets the answer to its own request or an
  error, also after calls that failed at sending;
* `LagsByCallsGivenUp`: the reason for that condition. Each call that gives up
  leaves its answer on the connection, no later call catches up, and the
  connection lags by exactly the calls that gave up. A caller that goes on with
  a client after an error is then given earlier answers; that of an earlier
  `request_device` for another id even has the right type. The initialization
  of a hub gives up instead, and compares ids;
* `CallsReturn`: a call returns, or waits for ever for a silent Pico.

Properties of `Framing`:

* `StaysInside`: `parse_message` reads nothing outside of a piece and makes no
  span that reaches beyond it, although the size of the payload wraps for a
  piece of 14 or 15 bytes. It is the checks of length and CRC that keep such a
  span from being made;
* `OnlyWholeFramesParse`: a piece parses exactly if it is one whole frame;
* `ParsedAsWritten`: and then to the type, ids, kinds and contents it was
  written for, in order;
* `DamageIsHarmless`: damage to a byte or two is noticed, or it hit the last
  delimiter, which the CRC leaves out and nothing reads.

`MCFraming` also evaluates three recordings of the tests, the bytes of two
messages and a CRC, and `LongAnswerLooksShort`, an example beyond the bounds of
the run: the first 15 bytes of an answer with 255 bytes of payload, two of
them damaged, parse as an answer without values.

Properties of `Readings`:

* `AverageIsMeanOfWindow`: a sensor's average is the mean of its readings of
  the window as long as each message of the window has one value for it. The
  condition is needed. `_average_count` is common to all sensors: if a message
  leaves a sensor out, the next reading of that sensor is weighed as if there
  had been one more; if that message is the first of a window, the average of
  the previous window stays in with the weight of a reading;
* `AverageWithinReadings`: whatever is left out or repeated, the average stays
  between the smallest and the largest reading that can have a part in it;
* `EachReadOnce`: what was read is nowhere any more, so that nothing that
  arrived counts twice, and reads work off the backlog of the initialization.
  It does not keep out a copy the network made: no datagram carries a number,
  and a copy is averaged as one reading more, which is what
  `AverageIsMeanOfWindow` says in `readings_repeated`;
* `ReadReturns`: a read returns once a sensor state is queued;
* `TypeOK`, which includes that no average divides by zero.

Properties of `MovingAverage`:

* `PrintsAreMeans`: what is printed of a sensor is the mean of its readings
  since the print before, so no reading counts in two prints or in none;
* `EverythingIsRead`: the loop works off what is queued;
* `PrintsWhenDue`: a print that is due comes as soon as there is a sensor
  state. Between prints the loop may block in `recv`, longer than the ten
  seconds if the Pico is silent.

Properties of `HomeAssistant`:

* `EntitiesApart`: no two sensors become one entity, and no device's
  announcement replaces another's;
* `EntitiesAreSupplied`: the two lists of kinds agree, so each entity of a
  reported device has an entry, and there are no others;
* `EntitiesShowTheirSensor`: an entity shows its own sensor exactly if no
  sensor of the device with the same kind of value comes before it. The
  exception is real: the keys of a state are kinds, and a second voltage
  sensor on one device is announced as an entity of its own that shows the
  value of the first;
* `ReportsAreMeans`: averages in a report are means of the window, whenever
  the report is made.

Properties of `Connection`:

* `OwnedOnce`: no descriptor has two owners, and what an owner holds is open
  and not another's, so none is closed twice;
* `NothingElseLeaks`: whatever is open is owned, unless a move assignment
  wrote over its owner. That exception is real: `client = std::move(other)`
  leaves the two sockets of the old client open, and its port taken;
* `OnlyClientsKeepPorts`: neither `discover` nor a failed `connect` keeps the
  port, which the next `connect` has to bind;
* `TypeOK`, which includes that nobody closes a descriptor of the rest of the
  process.

### Bounds, and why they are enough

* `IdSpace = 12` in `MCHub`: the smallest value in which every sensor type the
  parser knows (up to 11) is a byte. The inventories: two devices and three
  sensors with an orphan (`TwoOnOne`); a sensor with the parent field full of
  ones (`Detached`); no sensors, so that the count is -1 on the wire
  (`NoSensors`); and the largest the counts can express, 11 and 11 (`Full`).
* `Parts = 2`: a frame can be cut and two can be joined. `Capacity = 4` takes
  two frames in one `recv`, `Capacity = 3` one and a half. `MaxStream = 4`
  holds two frames: the answer expected and one nobody asked for. A third
  message adds no case, as a `recv` fails as soon as it meets a second.
* `hub_unasked` takes the small inventory `Detached` only, because any of the
  27 requests may be answered unasked at any time.
* `Readings`: 3 broadcasts give a window of two after a window of one, and
  all orders of three; a queue of 2 can overflow. 2 sensors: one that is left
  out or repeated, one that is not. Copies have a run of their own, with 2
  broadcasts and a copy of one: three datagrams again.
* `MovingAverage`: 2 broadcasts and a copy, so that there are prints over one
  and over two readings, and a print after them. One sensor is a current
  sensor, the other is not.
* `HomeAssistant`: a device with each kind of sensor next to a battery sensor,
  among them two of one kind; a sensor with another device or none; two
  devices of one kind; an unsupported device. 2 broadcasts and a queue of 1:
  reports before the first read, after it, and in a new window; how reads
  interleave with the network is the question of `readings`. A third sensor
  of a kind would hide behind the first as the second does.
* `ClientSession`: 3 calls: one that fails, one that gets its answer, and one
  that shows that the lag stays. 2 ids, so that an answer of the right type
  can be that to another id. One Pico whose answers all differ.
* `Framing`: all frames the client sends, for the smallest and the largest id,
  and answers of the Pico with all kinds of values, negative ones among them,
  alone and in pairs, at every cut. The longest has 46 bytes, and every kind of value
  is followed by another one or by the end. Damage: each bit, and all bits, of a byte and of
  its neighbour.
* `Connection`: 5 descriptors hold two clients and one socket more, or one
  client, a call, and one of the rest of the process; 0 is among them. 2 ports
  let two clients live at once, which overwriting one needs. Clients and ports
  are symmetric, and no liveness is checked.

Deadlock is not checked: the initialization ends, or waits for a silent Pico,
the broadcasts of `Readings` and the calls of `ClientSession` are bounded, and
a piece in `Framing` is received once.

### Fairness

`Hub`: weak fairness of the steps of the calling thread (`HubStep`) and of
`recv` returning when there is data or the connection is closed. That is what
an operating system gives a single blocking thread. None is assumed of the
Pico or of the network, nor that any call ever fails;
`AnsweredHubBecomesReady` adds fairness of the Pico's answers as its own
premise. `Readings`: weak fairness of the receive loop, which assumes a socket
that goes on working; that anybody calls or sends is not assumed. `MovingAverage`: weak fairness of
the loop as a whole (`Loop`), one thread that never leaves it; neither the
clock nor the network is fair. `ClientSession`: weak fairness of the return of
a call and of `recv` when there is something to return, as in `Hub`; nobody
has to call, and no fault has to happen.

## 4. What is proved

All for every `IdSpace`, every set of inventories, and every `Parts`,
`Capacity`, `MaxStream` and set of unasked requests, and for `Connection` for
all sets of descriptors, ports and clients; for `Readings`, `MovingAverage` and
`HomeAssistant` for every number of sensors, queue, number of broadcasts and
copies, and every layout; for `ClientSession` for every number of calls; for `Framing` for all ids,
answers of any length and any damage to one or two neighbours. Each is a
theorem `Spec => ...`, but for that about the CRC:

| theorem | module | property |
|---|---|---|
| `TypeCorrect` | `Hub_proofs` | `TypeOK` |
| `HubMirrorsInventory` | `Hub_proofs` | `MirrorsInventory` |
| `LinksAlwaysAgree` | `Hub_proofs` | `LinksAgree` |
| `HubIsLayout` | `Hub_proofs` | `TablesAreLayout`: what `Readings` and `HomeAssistant` take a hub to be |
| `StaysInStep` | `HubLockstep_proofs` | `Lockstep` |
| `RequestsAreAlone` | `HubLockstep_proofs` | `RequestsOnQuietConnection` |
| `HubStartsWithReadings` | `HubLockstep_proofs` | `InitialValuesAreReadings` |
| `FailuresHaveCauses` | `HubLockstep_proofs` | `FailureHasCause` |
| `HubImplementsCatalogue` | `HubLockstep_proofs` | `ImplementsCatalogue` |
| `ForeignDescriptorsAreSafe` | `Connection_proofs` | `TypeOK` of `Connection` |
| `DescriptorsAreOwnedOnce` | `Connection_proofs` | `OwnedOnce` |
| `OnlyMoveAssignmentLeaks` | `Connection_proofs` | `NothingElseLeaks` |
| `PortsAreFreed` | `Connection_proofs` | `OnlyClientsKeepPorts` |
| `SessionLags` | `ClientSession_proofs` | `LagsByCallsGivenUp` |
| `SessionAnswers` | `ClientSession_proofs` | `CallsGetTheirAnswers` |
| `TypeCorrect` | `Readings_proofs` | `TypeOK` of `Readings` |
| `DatagramsAreReadOnce` | `Readings_proofs` | `EachReadOnce` |
| `AveragesAreMeans` | `Readings_proofs` | `AverageIsMeanOfWindow` |
| `AveragesStayWithinReadings` | `Readings_proofs` | `AverageWithinReadings` |
| `LoopUsesHub` | `MovingAverage_proofs` | `LoopSpec` implements `Spec` of `Readings` |
| `LoopPrintsMeans` | `MovingAverage_proofs` | `PrintsAreMeans` |
| `HomeUsesHub` | `HomeAssistant_proofs` | `HomeSpec` implements `Spec` of `Readings` |
| `EntitiesStayApart` | `HomeAssistant_proofs` | `EntitiesApart` |
| `EntitiesSupplied` | `HomeAssistant_proofs` | `EntitiesAreSupplied` |
| `EntitiesShowTheirs` | `HomeAssistant_proofs` | `EntitiesShowTheirSensor` |
| `HomeReportsMeans` | `HomeAssistant_proofs` | `ReportsAreMeans` |
| `CrcNoticesNeighbours` | `Framing_proofs` | CRCs of spans that differ in a byte or two neighbours differ |
| `ReceivedAlways` | `Framing_proofs` | the inductive invariant `Received` |
| `StaysInsideAlways` | `Framing_proofs` | `StaysInside` |
| `OnlyWholeFramesParseAlways` | `Framing_proofs` | `OnlyWholeFramesParse` |
| `ParsedAsWrittenAlways` | `Framing_proofs` | `ParsedAsWritten` |
| `DamageIsHarmlessAlways` | `Framing_proofs` | `DamageIsHarmless`, unless an answer looks short |

Assumptions: `IdSpace` is at least 2 (`IdSpaceAssumption`); inventories are
records of the right shape whose parents are absent, a device or `NoParent`
(`InventoriesAreWellFormed`); state answers are value lists
(`ReadingsAreValues`); a frame fits into the buffer (`ClientAssumption`);
sensors of a table have ids below `IdSpace` (`ReadingsBounds`); a layout names
kinds and devices there are (`LayoutsAssumption`); in `Framing`, answers have
a type there is and values whose numbers are `int32` and whose texts end at
their 0 byte, in a payload whose length its frame can tell
(`AnswersAreMessages`), ids are bytes, and a damage changes a byte
(`IdsAndDamagesAreBytes`). The
refinement also needs `AllAddressable`: no inventory has `IdSpace` entries or
more, since the counts of the code wrap there. `MirrorsInventory` carries that
condition itself.

The argument. `MirrorsInventory` is about the last state only, so it is far
from inductive. The invariant `Truth` adds what the program relies on on the
way: where the loops are (`Progress`), that nothing false is on the wire or
accepted (`Genuine`), that each entry of the tables is true and at its index
(`TablesAreTrue`), and that the counts are those of the Pico
(`CountsAreTrue`), together with `TypeOK` and `LinksAgree`. `HubIsLayout`
follows from it: ids are indices, and a sensor is in
the list of one device at most, so that `Readings` may look sensors up by index
and `HomeAssistant` may start from a layout. The id checks of
`initialize_basic_hub` are what makes `TablesAreTrue` inductive when unasked
messages are allowed.

`Lockstep` rests on `Truth` and adds the contents of the connection: exactly
one of one request, its fragment, or its one answer, and only while waiting.
`RequestsOnQuietConnection`, `InitialValuesAreReadings` and `FailureHasCause`
follow from it with `ErrorsHaveCauses` (no error status without a fault) and
`ValuesUnset`. The refinement shows, step by step, that `StoreDevice` is
`LearnDevice`, `StoreSensor` is `LearnSensor`, `Construct` is `Finish`, `Fail`
is `GiveUp`, and everything else stutters.

For `Connection` the invariant is `Ownership`. It adds to the properties which
sockets the call under way has opened so far (`LocalSockets`), without which
opening one could overwrite another, and that a port belongs to an open UDP
socket (`BoundSockets`). Descriptors are natural numbers, so none is the -1 of
an empty `file_descriptor`; descriptor 0 is not excluded.

For `ClientSession`, `LagInv` adds to the lag the one answer a call under way
has still to come, which tells where each answer is at every step of a call.
`AnswerInv` says that there is at most one, and that it is one to the call
under way; the condition of `CallsGetTheirAnswers` is what keeps it true. A
connection on which the Pico answers nothing any more, because it closed it or
still waits for the rest of a request (`Blocked`), may hold requests but no
answer.

For `Readings`, `OnceInv` adds that stamps are unique in the air too, and
`MeanInv` says what holds between the values of a message, when some sensors
have been updated and the count is still the old one: a sensor that had its
value is a reading ahead. The step that needs arithmetic, that the formula of
`sensor_value::update` takes a mean of n to a mean of n + 1 readings, and that
it stays between two bounds, are lemmas of their own.

`MovingAverage` and `HomeAssistant` take over what is proved of `Readings` by
`LoopUsesHub` and `HomeUsesHub`, and add `LoopInv` (in the loop a window is
what lies between two prints), `TopicsInv` (a topic holds what was made for
the device of that topic; a lemma says that a topic tells its device) and
`ReportsInv`.

For `Framing` the invariant is `Received`: a piece is a cut of what was sent,
or a whole frame or its beginning with damage. Everything else is about bytes.

* What a frame looks like is `IsLaidOut`, which all requests and answers are
  (`FrameIsLaidOut`). The payload is `Closed`: it has no five 0 bytes in a
  row, as four of a number stand between its kind and a delimiter and a text
  has no 0, and it ends in a delimiter. So six bytes like a header's first occur only at the
  beginning of a frame (`FrameBeginsOnce`) or within the CRC before the next
  one, where the length does not fit. A piece that parses begins where a frame
  does and ends where its length says (`PieceOfOne`, `PieceOfTwo`).
* Sender and receiver leave different bytes out of the CRC; they agree because
  the first byte is 0, which leaves a CRC of 0 as it is.
* Reading back goes value by value (`FirstValue`, `PayloadReadBack`). It needs
  nothing of the last delimiter, which is why damage to it does not matter.
* The CRC is linear in exclusive or (`CrcStepXor`), and a step takes nothing
  but 0 to 0. Two spans that differ in two neighbours at most therefore have
  different CRCs (`CrcNoticesNeighbours`), however long they are: a damaged
  frame that parses was hit at its last delimiter only. Damage to the CRC
  itself, or to the length, is a case of its own.
* The beginnings of 14 and 15 bytes compare the CRC with bytes that belong to
  the header. There the CRC is carried out on the headers there are
  (`ShortHeader`).

`DamageIsHarmlessAlways` has a hypothesis the run does not need: no answer has a
frame of 271, 527, ... bytes (`% 256 = 15`). Without it the statement is false,
as `LongAnswerLooksShort` shows: when the low byte of the length is 2, damage
to the high byte alone makes the length fit a beginning of 15 bytes, and
damage to the byte before it can make up for the CRC. What is parsed then has
no values; `find` finds nothing in it, so it changes nothing in a hub.

What recursion computes is proved by the least number for which a statement
fails (`LeastExists`, `Induction`), for each recursive function the model has:
the induction theorems of the library take operators, which the provers cannot
instantiate.

Only model-checked: liveness (`AnsweredHubBecomesReady`, `EndsOrWaitsForPico`,
`CallsReturn`, `ReadReturns`, `EverythingIsRead`, `PrintsWhenDue`), which is out
of the prover's reach.

## 5. What is not modelled

* The move of the client, buffer included, into the hub: `Construct` reads the
  buffer in place. That a moved `std::vector` keeps its bytes where they are,
  so that the view of the state answer stays valid, is taken from the library.
* The half of a 32-bit value each kind of sensor reads (`high_int16`,
  `low_int16`): a reading is taken whole.
* Datagrams that are neither genuine frames nor such with one or two
  neighbouring bytes damaged.
* Messages beyond the buffer of 2,048 bytes: a span cut there is a piece like
  any other. That it does not parse is `OnlyWholeFramesParse`, which is proved
  for every length.
* Values above 2^31 - 1 are read as `int32` and as `uint32` in different
  places; serial numbers keep the signed value here.
* Tank and battery attributes of devices, the second value of tank and battery
  sensors (updated like the first), raw values of unsupported sensors.
* `SIGPIPE`: `send` on a closed connection may kill the process; in the model
  it fails.
* The rounding of `float` in averages.
* A `recv` on the UDP socket that fails at once and for ever, on which
  `read_sensor_state` spins: no text says what should happen then.
* The address `discover` returns, which is that of whoever sends a datagram to
  the port.
* JSON text, display names and units of the Home Assistant messages; which
  error is returned, and its message; text output; the two examples that only
  print; tests and build files. They are plain data and formatting.

## 6. Plan

Everything planned is written: `Messages`, `Pico`, `Client`, `Hub`, `Catalogue`,
`ClientSession`, `Framing`, `Readings`, `MovingAverage`, `HomeAssistant`,
`Connection`, with proofs about all of them. What could follow:

1. `HomeAssistant` and `Readings` on top of `Hub` in one behaviour: that a finished
   hub is what they start from is a theorem about `Hub` (`HubIsLayout`).
2. The attributes of tank and battery devices and the second value of their
   sensors, as data of `Messages`.
3. Floats in averages: a bound on the error of the recursive formula over a
   window of n readings, which the exact fractions leave out.
