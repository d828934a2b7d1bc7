--------------------------- MODULE Readings_proofs ---------------------------
(***************************************************************************)
(* Averages of a hub, for any table, queue, number of broadcasts and       *)
(* repeated datagrams.                                                     *)
(***************************************************************************)
EXTENDS Readings, SequenceTheorems, TLAPS

Sensors == [current : Int, num : Int, den : Nat \ {0}]

-----------------------------------------------------------------------------
(* Types                                                                   *)

\* The states a Pico sends are sequences of values.
LEMMA StateTypes ==
    ASSUME NEW t \in Int PROVE StateValues(t) \subseteq Seq(MessageValues)
<1> DEFINE all == [i \in Indices |-> Num1(i - 1, Reading(t))]
<1>1. SensorCount \in Nat /\ Indices = 1..SensorCount
  BY ReadingsBounds, IdSpaceAssumption DEF Indices
<1>2. Reading(t) \in Int /\ Reading(t) + 1 \in Int
  BY DEF Reading
<1>3. \A i \in Indices : Num1(i - 1, Reading(t)) \in MessageValues
  BY <1>1, <1>2 DEF Num1, MessageValues
<1>4. all \in Seq(MessageValues)
  BY <1>1, <1>3, Z3
<1>5. all # <<>>
  BY <1>1, ReadingsBounds
<1>6. Tail(all) \in Seq(MessageValues)
  BY <1>4, <1>5, HeadTailProperties
<1>7. << Num1(0, Reading(t) + 1) >> \in Seq(MessageValues)
  <2>1. Num1(0, Reading(t) + 1) \in MessageValues
    BY <1>2 DEF Num1, MessageValues
  <2>2. QED
    BY <2>1
<1>8. << Num3(0, 0), Num1(SensorCount, 0) >> \in Seq(MessageValues)
  <2>1. Num3(0, 0) \in MessageValues /\ Num1(SensorCount, 0) \in MessageValues
    BY <1>1 DEF Num1, Num3, MessageValues
  <2>2. QED
    BY <2>1
<1>9. << >> \in Seq(MessageValues)
  OBVIOUS
<1> HIDE DEF all
<1>10. all \o << Num1(0, Reading(t) + 1) >> \in Seq(MessageValues)
  BY <1>4, <1>7, ConcatProperties
<1>11. << Num3(0, 0), Num1(SensorCount, 0) >> \o all \in Seq(MessageValues)
  BY <1>4, <1>8, ConcatProperties
<1>12. QED
  BY <1>4, <1>6, <1>9, <1>10, <1>11 DEF StateValues, all

\* Every broadcast is a message.
LEMMA BroadcastTypes ==
    ASSUME NEW t \in Int PROVE Broadcasts(t) \subseteq UdpMessages
<1>1. \A values \in StateValues(t) : State(values) \in UdpMessages
  BY StateTypes DEF State, UdpMessages
<1>2. << >> \in Seq(MessageValues)
  OBVIOUS
<1>3. Unreadable \in UdpMessages /\ [type |-> "system_information", values |-> <<>>] \in UdpMessages
  BY <1>2 DEF Unreadable, UdpMessages
<1>4. QED
  BY <1>1, <1>3, Zenon DEF Broadcasts

\* The denominator of an average grows by a factor that is not zero.
LEMMA UpdateTypes ==
    ASSUME NEW sen \in Sensors, NEW value \in Int, NEW n \in Nat
    PROVE  Update(sen, value, n) \in Sensors
<1>1. sen.num \in Int /\ sen.den \in Nat /\ sen.den > 0
  BY DEF Sensors
<1>2. \A a, b \in Nat : a > 0 /\ b > 0 => a * b \in Nat /\ a * b > 0
  BY Z3
<1>3. sen.den * (n + 1) \in Nat /\ sen.den * (n + 1) > 0
  BY <1>1, <1>2
<1>4. sen.num * n + value * sen.den \in Int
  BY <1>1
<1>5. QED
  BY <1>3, <1>4 DEF Update, Sensors

\* Nothing on the network is newer than the clock.
LEMMA NetworkTypes ==
    ASSUME TypeOK, Network
    PROVE  /\ clock' \in 0..MaxBroadcasts /\ copies' \in 0..MaxCopies
           /\ clock <= clock' /\ copies <= copies'
           /\ air' \subseteq Datagrams'
           /\ queue' \in Seq(Datagrams') /\ Len(queue') <= QueueSize
<1> USE DEF TypeOK
<1>0. clock \in Nat /\ copies \in Nat /\ MaxBroadcasts \in Nat /\ MaxCopies \in Nat
  BY ReadingsBounds
<1>1. CASE Broadcast
  <2>1. clock' = clock + 1 /\ clock' \in 0..MaxBroadcasts /\ UNCHANGED <<copies, queue>>
    BY <1>0, <1>1 DEF Broadcast
  <2>2. PICK msg \in Broadcasts(clock') :
          air' = air \cup {[sent |-> clock', copy |-> 0, msg |-> msg]}
    BY <1>1 DEF Broadcast
  <2>3. Datagrams \subseteq Datagrams'
    BY <1>0, <2>1 DEF Datagrams
  <2>4. msg \in UdpMessages
    BY <1>0, <2>1, BroadcastTypes
  <2>5. [sent |-> clock', copy |-> 0, msg |-> msg] \in Datagrams'
    BY <1>0, <2>1, <2>4 DEF Datagrams
  <2>6. queue' \in Seq(Datagrams')
    BY <2>1, <2>3, SeqMonotonic
  <2>7. QED
    BY <1>0, <2>1, <2>2, <2>3, <2>5, <2>6
<1>2. CASE Arrive
  <2>1. PICK d \in air :
          /\ air' = air \ {d}
          /\ queue' = IF Len(queue) < QueueSize THEN Append(queue, d) ELSE queue
          /\ UNCHANGED <<clock, copies>>
    BY <1>2 DEF Arrive
  <2>2. d \in Datagrams /\ Datagrams' = Datagrams
    BY <2>1 DEF Datagrams
  <2>3. Len(queue) \in Nat /\ QueueSize \in Nat
    BY ReadingsBounds
  <2>4. Append(queue, d) \in Seq(Datagrams) /\ Len(Append(queue, d)) = Len(queue) + 1
    BY <2>2
  <2>5. QED
    BY <1>0, <2>1, <2>2, <2>3, <2>4
<1>3. CASE Lose
  BY <1>0, <1>3 DEF Lose, Datagrams
<1>4. CASE Repeat
  <2>1. PICK d \in air :
          /\ copies < MaxCopies
          /\ copies' = copies + 1
          /\ air' = air \cup {[sent |-> d.sent, copy |-> copies', msg |-> d.msg]}
          /\ UNCHANGED <<clock, queue>>
    BY <1>4 DEF Repeat
  <2>2. Datagrams \subseteq Datagrams'
    BY <1>0, <2>1 DEF Datagrams
  <2>3. [sent |-> d.sent, copy |-> copies', msg |-> d.msg] \in Datagrams'
    <3>1. d \in [sent : 1..clock, copy : 0..copies, msg : UdpMessages]
      BY DEF Datagrams
    <3>2. copies' \in 0..copies'
      BY <1>0, <2>1
    <3>3. d.sent \in 1..clock' /\ d.msg \in UdpMessages
      BY <2>1, <3>1
    <3>4. QED
      BY <3>2, <3>3 DEF Datagrams
  <2>4. queue' \in Seq(Datagrams')
    BY <2>1, <2>2, SeqMonotonic
  <2>5. air' \subseteq Datagrams'
    BY <2>1, <2>2, <2>3
  <2>6. copies' \in 0..MaxCopies /\ clock' = clock /\ copies <= copies' /\ clock <= clock'
    BY <1>0, <2>1
  <2>7. QED
    BY <2>1, <2>4, <2>5, <2>6
<1>5. QED
  BY <1>1, <1>2, <1>3, <1>4 DEF Network

\* The head of the queue is a datagram with a message.
LEMMA HeadTypes ==
    ASSUME TypeOK, queue # <<>>
    PROVE  /\ Head(queue) \in Datagrams
           /\ Head(queue).msg.values \in Seq(MessageValues)
           /\ Tail(queue) \in Seq(Datagrams) /\ Len(Tail(queue)) <= QueueSize
           /\ \A k \in DOMAIN Tail(queue) :
                k + 1 \in DOMAIN queue /\ Tail(queue)[k] = queue[k + 1]
           /\ 1 \in DOMAIN queue /\ Head(queue) = queue[1]
<1>1. queue \in Seq(Datagrams) /\ Len(queue) \in Nat /\ Len(queue) <= QueueSize /\ QueueSize \in Nat
  BY ReadingsBounds DEF TypeOK
<1>2. Head(queue) \in Datagrams /\ Tail(queue) \in Seq(Datagrams) /\ Len(Tail(queue)) = Len(queue) - 1
  BY <1>1, HeadTailProperties
<1>3. Head(queue).msg.values \in Seq(MessageValues)
  BY <1>2 DEF Datagrams, UdpMessages
<1>4. \A k \in DOMAIN Tail(queue) : k + 1 \in DOMAIN queue /\ Tail(queue)[k] = queue[k + 1]
  BY <1>1, <1>2, HeadTailProperties
<1>5. 1 \in DOMAIN queue /\ Head(queue) = queue[1]
  BY <1>1
<1>6. QED
  BY <1>1, <1>2, <1>3, <1>4, <1>5

\* One step of the update loop changes one sensor.
LEMMA UpdateStep ==
    ASSUME TypeOK, UpdateSensor
    PROVE  \E i \in Indices : \E v \in Int :
             /\ sensors' \in [Indices -> Sensors]
             /\ window' \in [Indices -> [n : Nat, sum : Int]]
             /\ times' \in [Indices -> Nat]
             /\ seen' \in [Indices -> SUBSET Int]
             /\ sensors'[i] = Update(sensors[i], v, average_count)
             /\ window'[i].n = window[i].n + 1 /\ window'[i].sum = window[i].sum + v
             /\ times'[i] = times[i] + 1
             /\ seen'[i] = (IF average_count = 0 THEN {} ELSE seen[i]) \cup {v}
             /\ \A j \in Indices \ {i} :
                  /\ sensors'[j] = sensors[j] /\ window'[j] = window[j]
                  /\ times'[j] = times[j] /\ seen'[j] = seen[j]
<1> DEFINE v == Head(todo).val
<1>1. PICK i \in Indices :
        /\ sensors' = [sensors EXCEPT ![i] = Update(@, v, average_count)]
        /\ Record(i, v)
  BY DEF UpdateSensor
<1>2. v \in Int
  <2>1. todo \in Seq(MessageValues) /\ todo # <<>>
    BY DEF TypeOK, UpdateSensor
  <2>2. Head(todo) \in MessageValues
    BY <2>1, HeadTailProperties
  <2>3. QED
    BY <2>2 DEF MessageValues
<1> HIDE DEF v
<1>3. sensors \in [Indices -> Sensors] /\ average_count \in Nat
  BY DEF TypeOK, Sensors
<1>4. window \in [Indices -> [n : Nat, sum : Int]] /\ times \in [Indices -> Nat]
      /\ seen \in [Indices -> SUBSET Int]
  BY DEF TypeOK
<1>5. sensors' \in [Indices -> Sensors]
  <2>1. Update(sensors[i], v, average_count) \in Sensors
    BY <1>2, <1>3, UpdateTypes
  <2>2. QED
    BY <1>1, <1>3, <2>1
<1>6. /\ window' \in [Indices -> [n : Nat, sum : Int]]
      /\ window'[i].n = window[i].n + 1 /\ window'[i].sum = window[i].sum + v
      /\ \A j \in Indices \ {i} : window'[j] = window[j]
  BY <1>1, <1>2, <1>4 DEF Record
<1>7. /\ times' \in [Indices -> Nat] /\ times'[i] = times[i] + 1
      /\ \A j \in Indices \ {i} : times'[j] = times[j]
  BY <1>1, <1>4 DEF Record
<1>8. /\ seen' \in [Indices -> SUBSET Int]
      /\ seen'[i] = (IF average_count = 0 THEN {} ELSE seen[i]) \cup {v}
      /\ \A j \in Indices \ {i} : seen'[j] = seen[j]
  <2>1. seen' = [seen EXCEPT ![i] = (IF average_count = 0 THEN {} ELSE seen[i]) \cup {v}]
    BY <1>1 DEF Record
  <2>2. (IF average_count = 0 THEN {} ELSE seen[i]) \cup {v} \in SUBSET Int
    BY <1>2, <1>4
  <2>3. QED
    BY <1>4, <2>1, <2>2
<1>9. /\ sensors'[i] = Update(sensors[i], v, average_count)
      /\ \A j \in Indices \ {i} : sensors'[j] = sensors[j]
  BY <1>1, <1>3
<1>10. QED
  BY <1>2, <1>5, <1>6, <1>7, <1>8, <1>9

\* Every step keeps the types.
LEMMA TypesKept == TypeOK /\ [Next]_vars => TypeOK'
<1> SUFFICES ASSUME TypeOK, [Next]_vars PROVE TypeOK'
  OBVIOUS
<1>0. clock \in Nat /\ copies \in Nat /\ SensorCount \in Nat
  BY ReadingsBounds, IdSpaceAssumption DEF TypeOK
<1>1. CASE Network
  <2>1. UNCHANGED thread
    BY <1>1 DEF Network, Broadcast, Arrive, Lose, Repeat
  <2>2. clock' \in Nat /\ copies' \in Nat /\ clock <= clock' /\ copies <= copies'
    BY <1>1, NetworkTypes, ReadingsBounds
  <2>3. (1..clock) \X (0..copies) \subseteq (1..clock') \X (0..copies')
    BY <1>0, <2>2
  <2>4. read' \subseteq (1..clock') \X (0..copies')
    BY <2>1, <2>3 DEF thread, ghosts, TypeOK
  <2>5. QED
    BY <1>1, <2>1, <2>4, NetworkTypes DEF TypeOK, thread, table, ghosts
<1>2. CASE Construct
  <2>1. PICK values \in StateValues(clock) : Begin("constructing", values)
    BY <1>2 DEF Construct
  <2>2. values \in Seq(MessageValues)
    BY <1>0, <2>1, StateTypes
  <2>3. QED
    BY <1>2, <2>1, <2>2 DEF Construct, Begin, TypeOK, network, table, ghosts, Datagrams
<1>3. CASE Constructed
  BY <1>3 DEF Constructed, TypeOK, network, table, ghosts, Datagrams, NoReadings, Never
<1>4. CASE StartRead
  BY <1>4 DEF StartRead, TypeOK, network, table, ghosts, Datagrams
<1>5. CASE StartWindow
  BY <1>5 DEF StartWindow, TypeOK, network, Datagrams, NoReadings
<1>6. CASE PassOver
  <2>1. queue' = Tail(queue) /\ queue # <<>> /\ UNCHANGED <<clock, copies, air, thread>>
    BY <1>6 DEF PassOver, Take
  <2>2. queue' \in Seq(Datagrams) /\ Len(queue') <= QueueSize
    BY <2>1, HeadTypes
  <2>3. QED
    BY <2>1, <2>2 DEF TypeOK, thread, table, ghosts, Datagrams
<1>7. CASE Read
  <2>1. /\ queue' = Tail(queue) /\ queue # <<>> /\ UNCHANGED <<clock, copies, air, table>>
        /\ pc' = "updating" /\ todo' = Head(queue).msg.values
        /\ read' = read \cup {Stamp(Head(queue))}
        /\ UNCHANGED <<window, times, regular, seen>>
    BY <1>7 DEF Read, Take, Begin
  <2>2. queue' \in Seq(Datagrams) /\ Len(queue') <= QueueSize /\ todo' \in Seq(MessageValues)
    BY <2>1, HeadTypes
  <2>3. Stamp(Head(queue)) \in (1..clock) \X (0..copies)
    BY <2>1, HeadTypes DEF Stamp, Datagrams
  <2>4. read' \subseteq (1..clock) \X (0..copies)
    BY <2>1, <2>3 DEF TypeOK
  <2>5. QED
    BY <2>1, <2>2, <2>4 DEF TypeOK, table, Datagrams
<1>8. CASE UpdateSensor
  <2>1. /\ sensors' \in [Indices -> Sensors]
        /\ window' \in [Indices -> [n : Nat, sum : Int]]
        /\ times' \in [Indices -> Nat]
        /\ seen' \in [Indices -> SUBSET Int]
    BY <1>8, UpdateStep
  <2>2. /\ todo' = Tail(todo) /\ todo # <<>> /\ UNCHANGED <<pc, network, average_count>>
        /\ UNCHANGED <<regular, read>>
    BY <1>8 DEF UpdateSensor, Record
  <2>3. todo' \in Seq(MessageValues)
    BY <2>2, HeadTailProperties DEF TypeOK
  <2>4. QED
    BY <2>1, <2>2, <2>3 DEF TypeOK, network, Datagrams, Sensors
<1>9. CASE SkipValue
  <2>1. todo' = Tail(todo) /\ todo # <<>> /\ UNCHANGED <<pc, network, table, ghosts>>
    BY <1>9 DEF SkipValue
  <2>2. todo' \in Seq(MessageValues)
    BY <2>1, HeadTailProperties DEF TypeOK
  <2>3. QED
    BY <2>1, <2>2 DEF TypeOK, network, table, ghosts, Datagrams
<1>10. CASE ReadEnds
  <2>1. regular' \in [Indices -> BOOLEAN] /\ times' \in [Indices -> Nat] /\ average_count' \in Nat
    BY <1>10 DEF ReadEnds, CountReading, Never, TypeOK
  <2>2. pc' = "idle" /\ UNCHANGED <<todo, network, sensors, window, seen, read>>
    BY <1>10 DEF ReadEnds
  <2>3. QED
    BY <2>1, <2>2 DEF TypeOK, network, Datagrams
<1>11. CASE UNCHANGED vars
  BY <1>11 DEF vars, TypeOK, network, table, ghosts, Datagrams
<1>12. QED
  BY <1>1, <1>2, <1>3, <1>4, <1>5, <1>6, <1>7, <1>8, <1>9, <1>10, <1>11
  DEF Next, Read_sensor_values, Update_sensor_values

\* At the start every variable has its type.
LEMMA TypesAtStart == Init => TypeOK
<1> SUFFICES ASSUME Init PROVE TypeOK
  OBVIOUS
<1>1. clock \in 0..MaxBroadcasts /\ copies \in 0..MaxCopies /\ QueueSize \in Nat
  BY ReadingsBounds DEF Init
<1>2. << >> \in Seq(MessageValues) /\ << >> \in Seq(Datagrams) /\ Len(<< >>) = 0
  BY EmptySeq
<1>3. sensors \in [Indices -> [current : Int, num : Int, den : Nat \ {0}]]
  BY DEF Init
<1>4. QED
  BY <1>1, <1>2, <1>3 DEF Init, TypeOK, NoReadings, Never

\* Types: no average divides by zero, and nothing is on the network that was
\* not sent.
THEOREM TypeCorrect == Spec => []TypeOK
BY TypesAtStart, TypesKept, PTL DEF Spec

-----------------------------------------------------------------------------
(* Datagrams are read once                                                 *)

\* What EachReadOnce needs to be inductive: stamps are also unique in the air.
OnceInv ==
    /\ TypeOK
    /\ EachReadOnce
    /\ \A d, e \in air : Stamp(d) = Stamp(e) => d = e

\* A stamp made of a number that is new is new.
LEMMA NewStamp ==
    ASSUME OnceInv, NEW d,
           d.sent > clock \/ d.copy > copies
    PROVE  /\ Stamp(d) \notin read
           /\ \A e \in air : Stamp(e) # Stamp(d)
           /\ \A k \in DOMAIN queue : Stamp(queue[k]) # Stamp(d)
<1>0. clock \in Nat /\ copies \in Nat
  BY ReadingsBounds DEF OnceInv, TypeOK
<1>1. \A e \in Datagrams : e.sent <= clock /\ e.copy <= copies /\ e.sent \in Nat /\ e.copy \in Nat
  BY <1>0 DEF Datagrams
<1>2. \A e \in Datagrams : Stamp(e) # Stamp(d)
  <2>1. SUFFICES ASSUME NEW e \in Datagrams, e.sent = d.sent, e.copy = d.copy PROVE FALSE
    BY DEF Stamp
  <2>2. QED
    BY <1>0, <1>1, <2>1
<1>3. \A k \in DOMAIN queue : queue[k] \in Datagrams
  BY ElementOfSeq DEF OnceInv, TypeOK
<1>4. Stamp(d) \notin read
  <2>1. SUFFICES ASSUME Stamp(d) \in read PROVE FALSE
    OBVIOUS
  <2>2. Stamp(d) \in (1..clock) \X (0..copies)
    BY <2>1 DEF OnceInv, TypeOK
  <2>3. d.sent \in 1..clock /\ d.copy \in 0..copies
    BY <2>2 DEF Stamp
  <2>4. QED
    BY <1>0, <2>3
<1>5. QED
  BY <1>2, <1>3, <1>4 DEF OnceInv, TypeOK

\* The network keeps datagrams apart, reading takes them away.
LEMMA OnceKept == OnceInv /\ [Next]_vars => OnceInv'
<1> SUFFICES ASSUME OnceInv, [Next]_vars PROVE OnceInv'
  OBVIOUS
<1>0. TypeOK /\ TypeOK' /\ clock \in Nat /\ copies \in Nat
  <2>1. TypeOK
    BY DEF OnceInv
  <2>2. TypeOK'
    BY <2>1, TypesKept
  <2>3. clock \in Nat /\ copies \in Nat
    BY <2>1, ReadingsBounds DEF TypeOK
  <2>4. QED
    BY <2>1, <2>2, <2>3
<1>1. CASE Broadcast
  <2>1. PICK d : /\ d.sent = clock + 1 /\ air' = air \cup {d}
                 /\ UNCHANGED <<queue, read>>
    BY <1>1 DEF Broadcast, thread, ghosts
  <2>2. d.sent > clock
    BY <1>0, <2>1
  <2>3. QED
    BY <1>0, <2>1, <2>2, NewStamp DEF OnceInv, EachReadOnce
<1>2. CASE Arrive
  <2>1. PICK d \in air :
          /\ air' = air \ {d}
          /\ queue' = IF Len(queue) < QueueSize THEN Append(queue, d) ELSE queue
          /\ UNCHANGED read
    BY <1>2 DEF Arrive, thread, ghosts
  <2>2. CASE queue' = queue
    BY <1>0, <2>1, <2>2 DEF OnceInv, EachReadOnce
  <2>3. CASE queue' = Append(queue, d)
    <3>1. /\ Len(queue) \in Nat /\ DOMAIN queue = 1..Len(queue)
          /\ DOMAIN queue' = 1..(Len(queue) + 1)
          /\ queue'[Len(queue) + 1] = d
          /\ \A k \in DOMAIN queue : queue'[k] = queue[k]
      BY <1>0, <2>3 DEF TypeOK
    <3>2. \A k \in DOMAIN queue' : k \in DOMAIN queue \/ k = Len(queue) + 1
      BY <3>1
    <3>3. ASSUME NEW k \in DOMAIN queue'
          PROVE  /\ Stamp(queue'[k]) \notin read
                 /\ \A e \in air' : Stamp(e) # Stamp(queue'[k])
      <4>1. CASE k \in DOMAIN queue
        BY <2>1, <3>1, <4>1 DEF OnceInv, EachReadOnce
      <4>2. CASE k = Len(queue) + 1
        BY <2>1, <3>1, <4>2 DEF OnceInv, EachReadOnce
      <4>3. QED
        BY <3>2, <4>1, <4>2
    <3>4. ASSUME NEW k \in DOMAIN queue', NEW j \in DOMAIN queue',
                 Stamp(queue'[j]) = Stamp(queue'[k])
          PROVE  j = k
      <4>1. CASE j \in DOMAIN queue /\ k \in DOMAIN queue
        BY <3>1, <3>4, <4>1 DEF OnceInv, EachReadOnce
      <4>2. CASE j = Len(queue) + 1 /\ k \in DOMAIN queue
        BY <2>1, <3>1, <3>4, <4>2 DEF OnceInv, EachReadOnce
      <4>3. CASE j \in DOMAIN queue /\ k = Len(queue) + 1
        BY <2>1, <3>1, <3>4, <4>3 DEF OnceInv, EachReadOnce
      <4>4. QED
        BY <3>2, <4>1, <4>2, <4>3
    <3>5. QED
      BY <1>0, <2>1, <3>3, <3>4 DEF OnceInv, EachReadOnce
  <2>4. QED
    BY <2>1, <2>2, <2>3
<1>3. CASE Lose
  <2>1. PICK d \in air : air' = air \ {d} /\ UNCHANGED <<queue, read>>
    BY <1>3 DEF Lose, thread, ghosts
  <2>2. QED
    BY <1>0, <2>1 DEF OnceInv, EachReadOnce
<1>4. CASE Repeat
  <2>1. PICK d : /\ d.copy = copies + 1 /\ air' = air \cup {d}
                 /\ UNCHANGED <<queue, read>>
    BY <1>4 DEF Repeat, thread, ghosts
  <2>2. d.copy > copies
    BY <1>0, <2>1
  <2>3. QED
    BY <1>0, <2>1, <2>2, NewStamp DEF OnceInv, EachReadOnce
<1>5. CASE PassOver
  <2>1. queue' = Tail(queue) /\ queue # <<>> /\ UNCHANGED <<air, read>>
    BY <1>5 DEF PassOver, Take, thread, ghosts
  <2>2. \A k \in DOMAIN queue' : k \in Int /\ k + 1 \in DOMAIN queue /\ queue'[k] = queue[k + 1]
    <3>1. DOMAIN queue' = 1..Len(queue')
      BY <1>0 DEF TypeOK
    <3>2. QED
      BY <1>0, <2>1, <3>1, HeadTypes
  <2>3. ASSUME NEW k \in DOMAIN queue', NEW j \in DOMAIN queue',
               Stamp(queue'[j]) = Stamp(queue'[k])
        PROVE  j = k
    <3>1. j + 1 = k + 1
      BY <2>2, <2>3 DEF OnceInv, EachReadOnce
    <3>2. QED
      BY <2>2, <3>1
  <2>4. QED
    BY <1>0, <2>1, <2>2, <2>3 DEF OnceInv, EachReadOnce
<1>6. CASE Read
  <2>1. /\ queue' = Tail(queue) /\ queue # <<>> /\ UNCHANGED air
        /\ read' = read \cup {Stamp(Head(queue))}
    BY <1>6 DEF Read, Take
  <2>2. \A k \in DOMAIN queue' : /\ k \in Int /\ k + 1 # 1 /\ k + 1 \in DOMAIN queue
                               /\ queue'[k] = queue[k + 1]
    <3>1. DOMAIN queue' = 1..Len(queue')
      BY <1>0 DEF TypeOK
    <3>2. QED
      BY <1>0, <2>1, <3>1, HeadTypes
  <2>3. 1 \in DOMAIN queue /\ Head(queue) = queue[1]
    BY <1>0, <2>1, HeadTypes
  <2>4. ASSUME NEW k \in DOMAIN queue', NEW j \in DOMAIN queue',
               Stamp(queue'[j]) = Stamp(queue'[k])
        PROVE  j = k
    <3>1. j + 1 = k + 1
      BY <2>2, <2>4 DEF OnceInv, EachReadOnce
    <3>2. QED
      BY <2>2, <3>1
  <2>5. \A k \in DOMAIN queue' : Stamp(queue'[k]) \notin read'
    <3>1. ASSUME NEW k \in DOMAIN queue', Stamp(queue'[k]) = Stamp(queue[1]) PROVE FALSE
      BY <2>2, <2>3, <3>1 DEF OnceInv, EachReadOnce
    <3>2. QED
      BY <2>1, <2>2, <2>3, <3>1 DEF OnceInv, EachReadOnce
  <2>6. \A d \in air' : Stamp(d) \notin read'
    BY <2>1, <2>3 DEF OnceInv, EachReadOnce
  <2>7. \A k \in DOMAIN queue' : \A d \in air' : Stamp(d) # Stamp(queue'[k])
    BY <2>1, <2>2 DEF OnceInv, EachReadOnce
  <2>8. QED
    BY <1>0, <2>1, <2>4, <2>5, <2>6, <2>7 DEF OnceInv, EachReadOnce
<1>7. CASE UNCHANGED <<air, queue, read>>
  BY <1>0, <1>7 DEF OnceInv, EachReadOnce
<1>8. QED
  <2>1. CASE \/ Construct \/ Constructed \/ StartRead \/ StartWindow
             \/ UpdateSensor \/ SkipValue \/ ReadEnds \/ UNCHANGED vars
    BY <1>7, <2>1 DEF Construct, Constructed, StartRead, StartWindow, UpdateSensor, SkipValue,
       ReadEnds, Record, vars, network, ghosts
  <2>2. QED
    BY <1>1, <1>2, <1>3, <1>4, <1>5, <1>6, <2>1
    DEF Next, Network, Read_sensor_values, Update_sensor_values

\* No datagram is read twice, whatever the network does.
THEOREM DatagramsAreReadOnce == Spec => []EachReadOnce
<1>1. Init => OnceInv
  BY TypesAtStart DEF Init, OnceInv, EachReadOnce
<1>2. OnceInv => EachReadOnce
  BY DEF OnceInv
<1>3. QED
  BY <1>1, <1>2, OnceKept, PTL DEF Spec

-----------------------------------------------------------------------------
(* Averages                                                                *)

\* An average of sen is the mean of the n readings counted by win.
IsMean(sen, win, n) == win.n = n /\ sen.num * n = sen.den * win.sum

\* What AverageIsMeanOfWindow needs to be inductive: it also holds between the
\* values of a message, with the readings of the message in hand counted
\* sensor by sensor before the count is.
MeanInv ==
    /\ pc \in {"none", "constructing"} => average_count = 0
    /\ pc \in {"idle", "receiving"} => \A i \in Indices : times[i] = 0
    /\ pc \in {"idle", "receiving", "updating"} =>
         \A i \in Indices :
            regular[i] /\ times[i] <= 1 =>
                IsMean(sensors[i], window[i], average_count + times[i])

\* sensor_value::update makes the mean of n readings one of n + 1 readings.
LEMMA UpdateKeepsMean ==
    ASSUME NEW sen \in Sensors, NEW value \in Int, NEW n \in Nat, NEW sum \in Int,
           sen.num * n = sen.den * sum
    PROVE  Update(sen, value, n).num * (n + 1) = Update(sen, value, n).den * (sum + value)
<1>1. sen.num \in Int /\ sen.den \in Int
  BY DEF Sensors
<1> DEFINE num == sen.num * n + value * sen.den
           den == sen.den * (n + 1)
<1>2. num = sen.den * (sum + value)
  BY <1>1
<1>3. num * (n + 1) = den * (sum + value)
  <2>1. \A a, b, c \in Int : (a * b) * c = (a * c) * b
    BY Z3
  <2>2. (sen.den * (sum + value)) * (n + 1) = (sen.den * (n + 1)) * (sum + value)
    BY <1>1, <2>1
  <2>3. QED
    BY <1>2, <2>2
<1>4. QED
  BY <1>3 DEF Update

\* Every step keeps the means.
LEMMA MeansKept == TypeOK /\ MeanInv /\ [Next]_vars => MeanInv'
<1> SUFFICES ASSUME TypeOK, MeanInv, [Next]_vars PROVE MeanInv'
  OBVIOUS
<1>1. CASE UNCHANGED <<pc, sensors, average_count, window, times, regular>>
  BY <1>1 DEF MeanInv, IsMean
<1>2. CASE Construct \/ StartRead \/ Read
  <2>1. UNCHANGED <<sensors, average_count, window, times, regular>>
    BY <1>2 DEF Construct, StartRead, Read, table, ghosts
  <2>2. \/ pc = "none" /\ pc' = "constructing"
        \/ pc = "idle" /\ pc' = "receiving"
        \/ pc = "receiving" /\ pc' = "updating"
    BY <1>2 DEF Construct, StartRead, Read, Begin
  <2>3. QED
    BY <2>1, <2>2 DEF MeanInv, IsMean
<1>3. CASE Constructed
  <2>1. /\ pc' = "idle" /\ average_count' = 0 /\ sensors' = sensors
        /\ window' = NoReadings /\ times' = Never
    BY <1>3 DEF Constructed, table, MeanInv
  <2>2. ASSUME NEW i \in Indices PROVE times'[i] = 0 /\ IsMean(sensors'[i], window'[i], 0)
    <3>1. sensors[i].num \in Int /\ sensors[i].den \in Int
      BY DEF TypeOK
    <3>2. QED
      BY <2>1, <3>1 DEF NoReadings, Never, IsMean
  <2>3. QED
    BY <2>1, <2>2 DEF MeanInv
<1>4. CASE StartWindow
  <2>1. /\ pc = "idle" /\ pc' = "idle" /\ average_count' = 0 /\ sensors' = sensors
        /\ window' = NoReadings /\ times' = times
    BY <1>4 DEF StartWindow
  <2>2. ASSUME NEW i \in Indices PROVE times'[i] = 0 /\ IsMean(sensors'[i], window'[i], 0)
    <3>1. sensors[i].num \in Int /\ sensors[i].den \in Int
      BY DEF TypeOK
    <3>2. QED
      BY <2>1, <3>1 DEF NoReadings, MeanInv, IsMean
  <2>3. QED
    BY <2>1, <2>2 DEF MeanInv
<1>5. CASE UpdateSensor
  <2>1. PICK i \in Indices, v \in Int :
          /\ sensors'[i] = Update(sensors[i], v, average_count)
          /\ window'[i].n = window[i].n + 1 /\ window'[i].sum = window[i].sum + v
          /\ times'[i] = times[i] + 1
          /\ \A j \in Indices \ {i} :
               sensors'[j] = sensors[j] /\ window'[j] = window[j] /\ times'[j] = times[j]
    BY <1>5, UpdateStep
  <2>2. UNCHANGED <<pc, average_count, regular>> /\ pc \in {"constructing", "updating"}
    BY <1>5 DEF UpdateSensor, Updating, Record
  <2>3. ASSUME pc = "updating", regular[i], times'[i] <= 1
        PROVE  IsMean(sensors'[i], window'[i], average_count + times'[i])
    <3>1. times[i] = 0 /\ times'[i] = 1
      BY <2>1, <2>3 DEF TypeOK
    <3>2. average_count \in Nat /\ window[i].sum \in Int /\ sensors[i] \in Sensors
      BY DEF TypeOK, Sensors
    <3>3. window[i].n = average_count /\ sensors[i].num * average_count = sensors[i].den * window[i].sum
      BY <2>3, <3>1, <3>2 DEF MeanInv, IsMean
    <3>4. sensors'[i].num * (average_count + 1) = sensors'[i].den * (window[i].sum + v)
      BY <2>1, <3>2, <3>3, UpdateKeepsMean
    <3>5. QED
      BY <2>1, <3>1, <3>3, <3>4 DEF IsMean
  <2>4. ASSUME pc = "updating", NEW j \in Indices, regular[j], times'[j] <= 1
        PROVE  IsMean(sensors'[j], window'[j], average_count + times'[j])
    <3>1. CASE j = i
      BY <2>3, <2>4, <3>1
    <3>2. CASE j # i
      BY <2>1, <2>4, <3>2 DEF MeanInv
    <3>3. QED
      BY <3>1, <3>2
  <2>5. QED
    BY <2>2, <2>4 DEF MeanInv
<1>6. CASE ReadEnds
  <2>1. /\ pc = "updating" /\ pc' = "idle" /\ average_count' = average_count + 1
        /\ times' = Never /\ UNCHANGED <<sensors, window>>
        /\ regular' = [i \in Indices |-> regular[i] /\ times[i] = 1]
    BY <1>6 DEF ReadEnds, CountReading
  <2>2. ASSUME NEW i \in Indices, regular'[i]
        PROVE  IsMean(sensors'[i], window'[i], average_count' + 0)
    <3>1. regular[i] /\ times[i] = 1
      BY <2>1, <2>2
    <3>2. IsMean(sensors[i], window[i], average_count + 1)
      BY <2>1, <3>1 DEF MeanInv
    <3>3. average_count' + 0 = average_count + 1
      BY <2>1 DEF TypeOK
    <3>4. QED
      BY <2>1, <3>2, <3>3
  <2>3. \A i \in Indices : times'[i] = 0
    BY <2>1 DEF Never
  <2>4. QED
    BY <2>1, <2>2, <2>3 DEF MeanInv
<1>7. QED
  <2>1. CASE Network \/ PassOver \/ SkipValue \/ UNCHANGED vars
    BY <1>1, <2>1 DEF Network, Broadcast, Arrive, Lose, Repeat, PassOver, SkipValue, thread,
       table, ghosts, vars
  <2>2. QED
    BY <1>2, <1>3, <1>4, <1>5, <1>6, <2>1 DEF Next, Read_sensor_values, Update_sensor_values

\* Averages are means of the readings of their window, sensor by sensor.
THEOREM AveragesAreMeans == Spec => []AverageIsMeanOfWindow
<1>1. Init => MeanInv
  BY DEF Init, MeanInv
<1>2. TypeOK /\ MeanInv => AverageIsMeanOfWindow
  <2>1. SUFFICES ASSUME TypeOK, MeanInv, pc = "idle", NEW i \in Indices, regular[i]
                 PROVE  /\ window[i].n = average_count
                        /\ sensors[i].num * window[i].n = sensors[i].den * window[i].sum
    BY DEF AverageIsMeanOfWindow
  <2>2. IsMean(sensors[i], window[i], average_count + 0)
    BY <2>1 DEF MeanInv
  <2>3. average_count + 0 = average_count
    BY <2>1 DEF TypeOK
  <2>4. QED
    BY <2>2, <2>3 DEF IsMean
<1>3. QED
  BY <1>1, <1>2, MeansKept, TypesAtStart, TypesKept, PTL DEF Spec

\* A mean of an average of n values and one value more lies between them.
LEMMA UpdateStaysBetween ==
    ASSUME NEW sen \in Sensors, NEW value \in Int, NEW n \in Nat
    PROVE  /\ \A lo \in Int : lo * sen.den <= sen.num =>
                 \/ lo * Update(sen, value, n).den <= Update(sen, value, n).num
                 \/ value * Update(sen, value, n).den <= Update(sen, value, n).num
           /\ \A hi \in Int : sen.num <= hi * sen.den =>
                 \/ Update(sen, value, n).num <= hi * Update(sen, value, n).den
                 \/ Update(sen, value, n).num <= value * Update(sen, value, n).den
           /\ n = 0 => Update(sen, value, n).num = value * Update(sen, value, n).den
<1> DEFINE num == sen.num * n + value * sen.den
           den == sen.den * (n + 1)
<1>1. sen.num \in Int /\ sen.den \in Nat
  BY DEF Sensors
<1>2. \A a, b \in Int : \A k \in Nat : a <= b => a * k <= b * k
  BY Z3
<1>3. \A x \in Int : x * den = (x * sen.den) * n + x * sen.den
  <2>1. \A x, a, k \in Int : x * (a * (k + 1)) = (x * a) * k + x * a
    BY Z3
  <2>2. QED
    BY <1>1, <2>1
<1>4. Update(sen, value, n).num = num /\ Update(sen, value, n).den = den
  BY DEF Update
<1>5. num \in Int /\ den \in Int
  BY <1>1
<1>6. \A a, b, c, d \in Int : a <= b /\ c <= d => a + c <= b + d
  OBVIOUS
<1>7. \A x \in Int : x * sen.den \in Int /\ (x * sen.den) * n \in Int /\ x * n \in Int
  BY <1>1
<1>8. ASSUME NEW lo \in Int, lo * sen.den <= sen.num
      PROVE  lo * den <= num \/ value * den <= num
  <2>1. (lo * sen.den) * n <= sen.num * n
    BY <1>1, <1>2, <1>7, <1>8
  <2>2. CASE lo <= value
    <3>1. lo * sen.den <= value * sen.den
      BY <1>1, <1>2, <2>2
    <3>2. (lo * sen.den) * n + lo * sen.den <= sen.num * n + value * sen.den
      BY <1>1, <1>6, <1>7, <2>1, <3>1
    <3>3. QED
      BY <1>3, <3>2
  <2>3. CASE value <= lo
    <3>1. value * sen.den <= lo * sen.den
      BY <1>1, <1>2, <2>3
    <3>2. (value * sen.den) * n <= (lo * sen.den) * n
      BY <1>1, <1>2, <1>7, <3>1
    <3>3. (value * sen.den) * n <= sen.num * n
      BY <1>1, <1>7, <2>1, <3>2
    <3>4. (value * sen.den) * n + value * sen.den <= sen.num * n + value * sen.den
      BY <1>1, <1>6, <1>7, <3>3
    <3>5. QED
      BY <1>3, <3>4
  <2>4. QED
    BY <2>2, <2>3
<1>9. ASSUME NEW hi \in Int, sen.num <= hi * sen.den
      PROVE  num <= hi * den \/ num <= value * den
  <2>1. sen.num * n <= (hi * sen.den) * n
    BY <1>1, <1>2, <1>7, <1>9
  <2>2. CASE value <= hi
    <3>1. value * sen.den <= hi * sen.den
      BY <1>1, <1>2, <2>2
    <3>2. sen.num * n + value * sen.den <= (hi * sen.den) * n + hi * sen.den
      BY <1>1, <1>6, <1>7, <2>1, <3>1
    <3>3. QED
      BY <1>3, <3>2
  <2>3. CASE hi <= value
    <3>1. hi * sen.den <= value * sen.den
      BY <1>1, <1>2, <2>3
    <3>2. (hi * sen.den) * n <= (value * sen.den) * n
      BY <1>1, <1>2, <1>7, <3>1
    <3>3. sen.num * n <= (value * sen.den) * n
      BY <1>1, <1>7, <2>1, <3>2
    <3>4. sen.num * n + value * sen.den <= (value * sen.den) * n + value * sen.den
      BY <1>1, <1>6, <1>7, <3>3
    <3>5. QED
      BY <1>3, <3>4
  <2>4. QED
    BY <2>2, <2>3
<1>10. n = 0 => num = value * den
  BY <1>1, <1>3
<1>11. QED
  BY <1>4, <1>8, <1>9, <1>10

\* Every step keeps the averages within the readings.
LEMMA RangeKept == TypeOK /\ AverageWithinReadings /\ [Next]_vars => AverageWithinReadings'
<1> SUFFICES ASSUME TypeOK, AverageWithinReadings, [Next]_vars PROVE AverageWithinReadings'
  OBVIOUS
<1>1. CASE UNCHANGED <<sensors, seen>>
  BY <1>1 DEF AverageWithinReadings
<1>2. CASE UpdateSensor
  <2>1. PICK i \in Indices, v \in Int :
          /\ sensors'[i] = Update(sensors[i], v, average_count)
          /\ seen'[i] = (IF average_count = 0 THEN {} ELSE seen[i]) \cup {v}
          /\ \A j \in Indices \ {i} : sensors'[j] = sensors[j] /\ seen'[j] = seen[j]
    BY <1>2, UpdateStep
  <2>2. sensors[i] \in Sensors /\ average_count \in Nat /\ seen[i] \subseteq Int
    BY DEF TypeOK, Sensors
  <2>3. sensors'[i] \in Sensors
    BY <2>1, <2>2, UpdateTypes
  <2>4. v * sensors'[i].den \in Int /\ sensors'[i].num \in Int
    BY <2>3 DEF Sensors
  <2>5. /\ \E x \in seen'[i] : x * sensors'[i].den <= sensors'[i].num
        /\ \E x \in seen'[i] : sensors'[i].num <= x * sensors'[i].den
    <3>1. CASE average_count = 0
      <4>1. sensors'[i].num = v * sensors'[i].den
        BY <2>1, <2>2, <3>1, UpdateStaysBetween
      <4>2. QED
        BY <2>1, <2>4, <4>1
    <3>2. CASE average_count # 0
      <4>1. PICK lo \in seen[i] : lo * sensors[i].den <= sensors[i].num
        BY DEF AverageWithinReadings
      <4>2. PICK hi \in seen[i] : sensors[i].num <= hi * sensors[i].den
        BY DEF AverageWithinReadings
      <4>3. lo \in seen'[i] /\ hi \in seen'[i] /\ v \in seen'[i] /\ lo \in Int /\ hi \in Int
        BY <2>1, <2>2, <3>2
      <4>4. \/ lo * sensors'[i].den <= sensors'[i].num
            \/ v * sensors'[i].den <= sensors'[i].num
        BY <2>1, <2>2, <4>1, <4>3, UpdateStaysBetween
      <4>5. \/ sensors'[i].num <= hi * sensors'[i].den
            \/ sensors'[i].num <= v * sensors'[i].den
        BY <2>1, <2>2, <4>2, <4>3, UpdateStaysBetween
      <4>6. QED
        BY <4>3, <4>4, <4>5
    <3>3. QED
      BY <3>1, <3>2
  <2>6. QED
    BY <2>1, <2>5 DEF AverageWithinReadings
<1>3. QED
  <2>1. CASE ~UpdateSensor
    BY <1>1, <2>1 DEF Next, Network, Broadcast, Arrive, Lose, Repeat, Construct, Constructed,
       StartRead, StartWindow, Read_sensor_values, Update_sensor_values, PassOver, Read, SkipValue,
       ReadEnds, thread, table, ghosts, vars
  <2>2. QED
    BY <1>2, <2>1

\* Whatever a message leaves out or repeats, averages stay between readings.
THEOREM AveragesStayWithinReadings == Spec => []AverageWithinReadings
<1>1. Init => AverageWithinReadings
  <2>1. SUFFICES ASSUME Init, NEW i \in Indices
                 PROVE  /\ sensors[i].num = 0 /\ sensors[i].den = 1 /\ seen[i] = {0}
    BY DEF AverageWithinReadings
  <2>2. QED
    BY <2>1 DEF Init
<1>2. QED
  BY <1>1, RangeKept, TypesAtStart, TypesKept, PTL DEF Spec
=============================================================================
