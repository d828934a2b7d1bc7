------------------------------ MODULE Readings ------------------------------
(***************************************************************************)
(* The life of a hub: a Pico broadcasts sensor state messages over UDP,    *)
(* the network loses, repeats and reorders them, the bound socket queues   *)
(* them, and the one calling thread reads them one at a time into the      *)
(* sensor table and the averages (basic_hub::read_sensor_values), or       *)
(* starts a new average window.                                            *)
(*                                                                         *)
(* The socket is bound before the hub is initialized over TCP, so that     *)
(* datagrams may have queued up by then.  A reading tells the broadcast it *)
(* belongs to, which makes old readings recognizable.  An average is an    *)
(* exact fraction; the rounding of float is left out.                      *)
(***************************************************************************)
EXTENDS Messages

CONSTANTS
    SensorCount,     \* size of the sensor table
    QueueSize,       \* datagrams the socket's receive queue holds
    MaxBroadcasts,   \* bound on the broadcasts of a behaviour
    MaxCopies        \* bound on the datagrams the network repeats

ASSUME ReadingsBounds ==
    /\ SensorCount \in 1..(IdSpace - 1)
    /\ QueueSize \in Nat \ {0}
    /\ MaxBroadcasts \in Nat
    /\ MaxCopies \in Nat

VARIABLES
    pc,            \* where the thread is
    todo,          \* values of the message in hand the update loop has not reached
    clock,         \* number of the last broadcast
    copies,        \* number of the last copy the network made
    air,           \* datagrams on their way
    queue,         \* datagrams in the receive queue of the socket
    sensors,       \* _sensors: current and average value of each
    average_count, \* _average_count
    window,        \* ghost: number and sum of the readings of each sensor in this window
    times,         \* ghost: readings of each sensor in the message in hand
    regular,       \* ghost: so far every message of this window had one value for the sensor
    seen,          \* ghost: the readings that can have a part in the average
    read           \* ghost: stamps of the datagrams that were read

network == <<clock, copies, air, queue>>
ghosts == <<window, times, regular, seen, read>>
table == <<sensors, average_count>>
vars == <<pc, todo, network, table, ghosts>>

Indices == 1..SensorCount
NoReadings == [i \in Indices |-> [n |-> 0, sum |-> 0]]
Never == [i \in Indices |-> 0]

-----------------------------------------------------------------------------
(* Messages of a Pico                                                      *)

\* Every broadcast has its own, some are negative: values are signed.
Reading(t) == 2 - 2 * t

\* A sensor state: a value for each sensor; one left out; one given twice; a
\* num3 value and an id past the table among them; none.
StateValues(t) ==
    LET all == [i \in Indices |-> Num1(i - 1, Reading(t))]
    IN  { all, Tail(all), all \o << Num1(0, Reading(t) + 1) >>,
          << Num3(0, 0), Num1(SensorCount, 0) >> \o all, <<>> }

State(values) == [type |-> "sensor_state", values |-> values]

Broadcasts(t) ==
    {State(values) : values \in StateValues(t)}
        \cup {Unreadable, [type |-> "system_information", values |-> <<>>]}

Stamp(d) == <<d.sent, d.copy>>

-----------------------------------------------------------------------------
(* Values and averages                                                     *)

\* Mutant: the average is divided by the number of earlier readings.
UpdateDividesByCount(sen, value, n) ==
    [current |-> value,
     num |-> sen.num * n + value * sen.den, den |-> sen.den * n]

\* Mutant: the old average is given the weight of the new count.
UpdateWeighsNewCount(sen, value, n) ==
    [current |-> value,
     num |-> sen.num * (n + 1) + value * sen.den, den |-> sen.den * (n + 1)]

\* sensor_value::update: the average num / den of n readings becomes one of
\* n + 1 readings.
Update(sen, value, n) ==
    [current |-> value,
     num |-> sen.num * n + value * sen.den, den |-> sen.den * (n + 1)]

\* A num1 value whose id is an index of the table (MirrorsInventory of Hub
\* shows that the ids of the sensors are their indices).
Addresses(v, i) == v.tag = "num1" /\ v.id + 1 = i

-----------------------------------------------------------------------------
(* The network                                                             *)

Init ==
    /\ pc = "none"
    /\ todo = <<>>
    /\ clock = 0 /\ copies = 0
    /\ air = {}
    /\ queue = <<>>
    /\ sensors = [i \in Indices |-> [current |-> 0, num |-> 0, den |-> 1]]
    /\ average_count = 0
    /\ window = NoReadings
    /\ times = Never
    /\ regular = [i \in Indices |-> TRUE]
    /\ seen = [i \in Indices |-> {0}]
    /\ read = {}

thread == <<pc, todo, table, ghosts>>

Broadcast ==
    /\ clock < MaxBroadcasts
    /\ clock' = clock + 1
    /\ \E msg \in Broadcasts(clock') :
         air' = air \cup {[sent |-> clock', copy |-> 0, msg |-> msg]}
    /\ UNCHANGED <<copies, queue, thread>>

\* In any order.  A full queue drops what arrives.
Arrive ==
    \E d \in air :
        /\ air' = air \ {d}
        /\ queue' = IF Len(queue) < QueueSize THEN Append(queue, d) ELSE queue
        /\ UNCHANGED <<clock, copies, thread>>

Lose ==
    \E d \in air :
        /\ air' = air \ {d}
        /\ UNCHANGED <<clock, copies, queue, thread>>

Repeat ==
    \E d \in air :
        /\ copies < MaxCopies
        /\ copies' = copies + 1
        /\ air' = air \cup {[sent |-> d.sent, copy |-> copies', msg |-> d.msg]}
        /\ UNCHANGED <<clock, queue, thread>>

-----------------------------------------------------------------------------
(* The hub                                                                 *)

\* update_sensor_values takes the values of a message in their order.
Begin(phase, values) == pc' = phase /\ todo' = values

\* The constructor takes the first values from the state the Pico answers
\* with over TCP.
Construct ==
    /\ pc = "none"
    /\ \E values \in StateValues(clock) : Begin("constructing", values)
    /\ UNCHANGED <<network, table, ghosts>>

Updating == pc \in {"constructing", "updating"}

\* The first reading of a window replaces the average, whatever it was.
Record(i, value) ==
    /\ window' = [window EXCEPT ![i] = [n |-> @.n + 1, sum |-> @.sum + value]]
    /\ times' = [times EXCEPT ![i] = @ + 1]
    /\ seen' = [seen EXCEPT ![i] = (IF average_count = 0 THEN {} ELSE @) \cup {value}]
    /\ UNCHANGED <<regular, read>>

UpdateSensor ==
    /\ Updating /\ todo # <<>>
    /\ \E i \in Indices :
         /\ Addresses(Head(todo), i)
         /\ sensors' = [sensors EXCEPT ![i] = Update(@, Head(todo).val, average_count)]
         /\ Record(i, Head(todo).val)
    /\ todo' = Tail(todo)
    /\ UNCHANGED <<pc, network, average_count>>

SkipValue ==
    /\ Updating /\ todo # <<>>
    /\ \A i \in Indices : ~Addresses(Head(todo), i)
    /\ todo' = Tail(todo)
    /\ UNCHANGED <<pc, network, table, ghosts>>

\* The first values do not count towards the first window.
Constructed ==
    /\ pc = "constructing" /\ todo = <<>>
    /\ pc' = "idle"
    /\ window' = NoReadings
    /\ times' = Never
    /\ UNCHANGED <<todo, network, table, regular, seen, read>>

StartRead ==
    /\ pc = "idle"
    /\ pc' = "receiving"
    /\ UNCHANGED <<todo, network, table, ghosts>>

StartWindow ==
    /\ pc = "idle"
    /\ average_count' = 0
    /\ window' = NoReadings
    /\ regular' = [i \in Indices |-> TRUE]
    /\ UNCHANGED <<pc, todo, network, sensors, times, seen, read>>

\* Mutant: recv only looks at the datagram (MSG_PEEK, as discover does).
Peek == UNCHANGED queue

\* recv takes one datagram out of the queue.
Take == queue' = Tail(queue)

\* The loop of read_sensor_state drops a datagram that does not parse or is
\* no sensor state, and receives again.  A recv that fails changes nothing and
\* is repeated as well.
PassOver ==
    /\ pc = "receiving"
    /\ queue # <<>>
    /\ Head(queue).msg.type # "sensor_state"
    /\ Take
    /\ UNCHANGED <<clock, copies, air, thread>>

\* A sensor state ends the loop; its values are a view into the buffer.
Read ==
    /\ pc = "receiving"
    /\ queue # <<>>
    /\ Head(queue).msg.type = "sensor_state"
    /\ Begin("updating", Head(queue).msg.values)
    /\ read' = read \cup {Stamp(Head(queue))}
    /\ Take
    /\ UNCHANGED <<clock, copies, air, table, window, times, regular, seen>>

\* Mutant: the reading is not counted.
CountsNothing == UNCHANGED average_count

\* One reading more for all sensors, whether the message had a value for them
\* or not.
CountReading == average_count' = average_count + 1

ReadEnds ==
    /\ pc = "updating" /\ todo = <<>>
    /\ CountReading
    /\ regular' = [i \in Indices |-> regular[i] /\ times[i] = 1]
    /\ times' = Never
    /\ pc' = "idle"
    /\ UNCHANGED <<todo, network, sensors, window, seen, read>>

Network == Broadcast \/ Arrive \/ Lose \/ Repeat
Update_sensor_values == UpdateSensor \/ SkipValue
Read_sensor_values == PassOver \/ Read \/ Update_sensor_values \/ ReadEnds

Next == Network \/ Construct \/ Constructed \/ StartRead \/ StartWindow \/ Read_sensor_values

Spec == Init /\ [][Next]_vars

\* A thread inside read_sensor_values goes on; nothing is assumed of the Pico,
\* of the network, nor that anyone calls.
FairSpec == Spec /\ WF_vars(Read_sensor_values)

-----------------------------------------------------------------------------
(* Properties                                                              *)

MessageValues == [id : Nat, tag : {"num1", "num3"}, val : Int]
UdpMessages == [type : {"sensor_state", "system_information", "unreadable"},
                values : Seq(MessageValues)]
Datagrams == [sent : 1..clock, copy : 0..copies, msg : UdpMessages]

\* Every variable has its type; in particular no average divides by zero.
TypeOK ==
    /\ pc \in {"none", "constructing", "idle", "receiving", "updating"}
    /\ todo \in Seq(MessageValues)
    /\ clock \in 0..MaxBroadcasts /\ copies \in 0..MaxCopies
    /\ air \subseteq Datagrams
    /\ queue \in Seq(Datagrams) /\ Len(queue) <= QueueSize
    /\ sensors \in [Indices -> [current : Int, num : Int, den : Nat \ {0}]]
    /\ average_count \in Nat
    /\ window \in [Indices -> [n : Nat, sum : Int]]
    /\ times \in [Indices -> Nat]
    /\ regular \in [Indices -> BOOLEAN]
    /\ seen \in [Indices -> SUBSET Int]
    /\ read \subseteq (1..clock) \X (0..copies)

\* As long as each message of a window has exactly one value for a sensor, the
\* count is that of those values, and the average their mean once there are
\* any, whatever came before the window, was lost, repeated, or arrived out of
\* order.  One count serves all sensors, so a message that leaves a sensor out,
\* or has it twice, breaks this for that sensor until the next window - and for
\* no other sensor.
AverageIsMeanOfWindow ==
    pc = "idle" =>
        \A i \in Indices :
            regular[i] =>
                /\ window[i].n = average_count
                /\ sensors[i].num * window[i].n = sensors[i].den * window[i].sum

\* Whatever the messages contain, an average lies between the least and the
\* greatest reading its sensor has had since an update last found the count at
\* zero: a count that runs ahead of the readings of a sensor gives old readings
\* more weight, and never makes the average leave them.
AverageWithinReadings ==
    \A i \in Indices :
        /\ \E v \in seen[i] : v * sensors[i].den <= sensors[i].num
        /\ \E v \in seen[i] : sensors[i].num <= v * sensors[i].den

\* What was read is nowhere any more: nothing that arrived has a part in the
\* averages twice, and reads work off what queued up before the hub existed
\* instead of finding it again.  A copy the network made is an arrival of its
\* own and is averaged as one reading more: no datagram carries a number.
EachReadOnce ==
    /\ \A d \in air : Stamp(d) \notin read
    /\ \A k \in DOMAIN queue :
         /\ Stamp(queue[k]) \notin read
         /\ \A d \in air : Stamp(d) # Stamp(queue[k])
         /\ \A j \in DOMAIN queue : Stamp(queue[j]) = Stamp(queue[k]) => j = k

\* read_sensor_values returns once a sensor state is queued, whatever is
\* queued in front of it.
ReadReturns ==
    (pc = "receiving" /\ \E k \in DOMAIN queue : queue[k].msg.type = "sensor_state")
        ~> pc = "idle"
=============================================================================
