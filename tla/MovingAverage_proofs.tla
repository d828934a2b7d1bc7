------------------------ MODULE MovingAverage_proofs ------------------------
(***************************************************************************)
(* The example moving_average prints means, for any table, queue, number   *)
(* of broadcasts and repeated datagrams.                                   *)
(***************************************************************************)
EXTENDS MovingAverage, Readings_proofs

\* The loop only takes steps of the hub and of the network.
LEMMA LoopSteps == LoopInit => Init
BY DEF LoopInit

LEMMA LoopStepsAreSteps == [LoopNext]_loopVars => [Next]_vars
<1> SUFFICES ASSUME [LoopNext]_loopVars PROVE [Next]_vars
  OBVIOUS
<1>1. CASE Initialize
  BY <1>1 DEF Initialize, Next, Read_sensor_values
<1>2. CASE FirstPrint \/ Elapse \/ GoOn
  BY <1>2 DEF FirstPrint, Elapse, GoOn
<1>3. CASE CallReads
  BY <1>3 DEF CallReads, Next
<1>4. CASE PrintAndStartOver
  BY <1>4 DEF PrintAndStartOver, NewWindow, Next
<1>5. CASE Network
  BY <1>5 DEF Next
<1>6. CASE UNCHANGED loopVars
  BY <1>6 DEF loopVars
<1>7. QED
  BY <1>1, <1>2, <1>3, <1>4, <1>5, <1>6 DEF LoopNext, Loop

\* The example is one of the callers of a hub that Readings stands for: all
\* theorems of Readings hold in it.
THEOREM LoopUsesHub == LoopSpec => Spec
BY LoopSteps, LoopStepsAreSteps, PTL DEF LoopSpec, Spec

\* What PrintsAreMeans needs to be inductive: in the loop, a window is what lies
\* between two prints.
LoopInv ==
    /\ main \in {"connect", "read", "check"}
    /\ main = "connect" => pc \in {"none", "constructing", "idle"}
    /\ main = "connect" /\ pc = "idle" => window = NoReadings
    /\ main = "connect" => \A i \in Indices : regular[i] = TRUE
    /\ main = "connect" => since = NoReadings /\ \A i \in Indices : evenly[i] = TRUE
    /\ main # "connect" => pc \in {"idle", "receiving", "updating"}
    /\ main # "connect" => \A i \in Indices :
         since[i].n = window[i].n /\ since[i].sum = window[i].sum /\ evenly[i] = regular[i]
    /\ main = "check" => pc = "idle"
    /\ PrintsAreMeans

\* The ghosts of a call of read_sensor_values follow the window.
LEMMA ReadsFollowWindow ==
    ASSUME TypeOK, TypeOK', LoopInv, CallReads
    PROVE  LoopInv'
<1>1. /\ main = "read" /\ main' = IF pc' = "idle" THEN "check" ELSE "read"
      /\ UNCHANGED <<shown, over>>
  BY DEF CallReads, ReadsAlways
<1>2. pc' \in {"idle", "receiving", "updating"}
  BY <1>1 DEF CallReads, LoopInv, StartRead, Read_sensor_values, PassOver, Read, ReadEnds, Begin,
     Update_sensor_values, UpdateSensor, SkipValue, thread
<1>3. \A i \in Indices : regular'[i] = (regular[i] /\ (pc' = "idle" => times[i] = 1))
  <2>1. CASE StartRead \/ PassOver \/ Read \/ UpdateSensor \/ SkipValue
    <3>1. regular' = regular
      BY <2>1 DEF StartRead, PassOver, Read, UpdateSensor, SkipValue, Record, ghosts, thread
    <3>2. pc' # "idle"
      BY <1>1, <2>1 DEF StartRead, PassOver, Read, Begin, UpdateSensor, SkipValue, Updating, thread
    <3>3. QED
      BY <3>1, <3>2 DEF TypeOK
  <2>2. CASE ReadEnds
    BY <2>2 DEF ReadEnds
  <2>3. QED
    BY <2>1, <2>2 DEF CallReads, Read_sensor_values, Update_sensor_values
<1>4. ASSUME NEW i \in Indices
      PROVE  /\ since'[i].n = window'[i].n /\ since'[i].sum = window'[i].sum
             /\ evenly'[i] = regular'[i]
  <2>1. /\ since[i].n = window[i].n /\ since[i].sum = window[i].sum /\ evenly[i] = regular[i]
    BY <1>1 DEF LoopInv
  <2>2. /\ window[i].n \in Int /\ window[i].sum \in Int
        /\ window'[i].n \in Int /\ window'[i].sum \in Int
    BY SMTT(20) DEF TypeOK
  <2>3. /\ since'[i].n = since[i].n + (window'[i].n - window[i].n)
        /\ since'[i].sum = since[i].sum + (window'[i].sum - window[i].sum)
        /\ evenly'[i] = (evenly[i] /\ (pc' = "idle" => times[i] = 1))
    BY DEF CallReads
  <2>4. since'[i].n = window'[i].n /\ since'[i].sum = window'[i].sum
    BY <2>1, <2>2, <2>3
  <2>5. evenly'[i] = regular'[i]
    BY <1>3, <2>1, <2>3
  <2>6. QED
    BY <2>4, <2>5
<1>5. PrintsAreMeans'
  BY <1>1 DEF PrintsAreMeans, LoopInv
<1>6. QED
  BY <1>1, <1>2, <1>4, <1>5 DEF LoopInv

\* A print shows the means of the window.
LEMMA PrintShowsMeans ==
    ASSUME TypeOK, MeanInv, LoopInv, pc = "idle", main # "connect", PrintSensors
    PROVE  PrintsAreMeans'
<1> SUFFICES ASSUME NEW i \in CurrentSensors, over'[i].even, over'[i].n > 0
             PROVE  shown'[i].num * over'[i].n = shown'[i].den * over'[i].sum
  BY DEF PrintsAreMeans
<1>1. i \in Indices
  BY CurrentSensorsAssumption
<1>2. /\ over'[i].n = window[i].n /\ over'[i].sum = window[i].sum /\ over'[i].even = regular[i]
  BY <1>1 DEF PrintSensors, LoopInv
<1>3. shown'[i].num = sensors[i].num /\ shown'[i].den = sensors[i].den
  BY DEF PrintSensors, Averages
<1>4. regular[i] /\ times[i] = 0
  BY <1>1, <1>2 DEF MeanInv
<1>5. IsMean(sensors[i], window[i], average_count + 0)
  BY <1>1, <1>4 DEF MeanInv
<1>6. average_count + 0 = average_count
  BY DEF TypeOK
<1>7. QED
  BY <1>2, <1>3, <1>5, <1>6 DEF IsMean

\* Every step of the example keeps windows and prints together.
LEMMA LoopKept == TypeOK /\ TypeOK' /\ MeanInv /\ LoopInv /\ [LoopNext]_loopVars => LoopInv'
<1> SUFFICES ASSUME TypeOK, TypeOK', MeanInv, LoopInv, [LoopNext]_loopVars PROVE LoopInv'
  OBVIOUS
<1>1. CASE Initialize
  <2>1. main = "connect" /\ UNCHANGED <<main, shown, since, evenly, over>>
    BY <1>1 DEF Initialize, app, sinceGhosts
  <2>2. /\ regular' = regular /\ pc' \in {"none", "constructing", "idle"}
        /\ pc' = "idle" => window' = NoReadings
    BY <1>1 DEF Initialize, Construct, Begin, Constructed, Update_sensor_values, UpdateSensor,
       SkipValue, Record, ghosts
  <2>3. QED
    BY <2>1, <2>2 DEF LoopInv, PrintsAreMeans
<1>2. CASE FirstPrint
  <2>1. /\ main = "connect" /\ pc = "idle" /\ main' = "read" /\ UNCHANGED vars /\ PrintSensors
    BY <1>2 DEF FirstPrint
  <2>2. UNCHANGED <<pc, window, regular>> /\ window = NoReadings
    BY <2>1 DEF vars, ghosts, LoopInv
  <2>3. since' = NoReadings /\ \A i \in Indices : evenly'[i] = TRUE
    BY <2>1 DEF PrintSensors
  <2>4. \A i \in Indices : regular'[i] = TRUE
    BY <2>1, <2>2 DEF LoopInv
  <2>5. PrintsAreMeans'
    <3>1. \A i \in CurrentSensors : over'[i].n = 0
      BY <2>1, CurrentSensorsAssumption DEF PrintSensors, LoopInv, NoReadings
    <3>2. QED
      BY <3>1 DEF PrintsAreMeans
  <2>6. QED
    BY <2>1, <2>2, <2>3, <2>4, <2>5 DEF LoopInv
<1>3. CASE Elapse
  <2>1. UNCHANGED <<vars, main, shown, sinceGhosts>>
    BY <1>3 DEF Elapse
  <2>2. QED
    BY <2>1 DEF vars, ghosts, sinceGhosts, LoopInv, PrintsAreMeans
<1>4. CASE CallReads
  BY <1>4, ReadsFollowWindow
<1>5. CASE PrintAndStartOver
  <2>1. /\ main = "check" /\ PrintSensors /\ main' = "read" /\ pc' = pc
        /\ window' = NoReadings /\ regular' = [i \in Indices |-> TRUE]
    BY <1>5 DEF PrintAndStartOver, NewWindow, StartWindow
  <2>2. pc = "idle"
    BY <2>1 DEF LoopInv
  <2>3. PrintsAreMeans'
    BY <2>1, <2>2, PrintShowsMeans
  <2>4. since' = NoReadings /\ evenly' = [i \in Indices |-> TRUE]
    BY <2>1 DEF PrintSensors
  <2>5. QED
    BY <2>1, <2>2, <2>3, <2>4 DEF LoopInv
<1>6. CASE GoOn
  <2>1. main = "check" /\ main' = "read" /\ UNCHANGED <<vars, shown, sinceGhosts>>
    BY <1>6 DEF GoOn
  <2>2. QED
    BY <2>1 DEF vars, ghosts, sinceGhosts, LoopInv, PrintsAreMeans
<1>7. CASE Network /\ UNCHANGED <<app, sinceGhosts>>
  <2>1. UNCHANGED <<pc, window, regular, main, shown, since, evenly, over>>
    BY <1>7 DEF Network, Broadcast, Arrive, Lose, Repeat, thread, ghosts, app, sinceGhosts
  <2>2. QED
    BY <2>1 DEF LoopInv, PrintsAreMeans
<1>8. CASE UNCHANGED loopVars
  BY <1>8 DEF loopVars, vars, ghosts, app, sinceGhosts, LoopInv, PrintsAreMeans
<1>9. QED
  BY <1>1, <1>2, <1>3, <1>4, <1>5, <1>6, <1>7, <1>8 DEF LoopNext, Loop

\* What the example prints of a current sensor is the mean of the readings
\* since the last print, if there was one in every message.
THEOREM LoopPrintsMeans == LoopSpec => []PrintsAreMeans
<1>1. LoopInit => LoopInv /\ TypeOK /\ MeanInv
  <2>1. LoopInit => TypeOK
    BY LoopSteps, TypesAtStart
  <2>2. LoopInit => MeanInv
    BY DEF LoopInit, Init, MeanInv
  <2>3. LoopInit => LoopInv
    BY DEF LoopInit, Init, LoopInv, PrintsAreMeans
  <2>4. QED
    BY <2>1, <2>2, <2>3
<1>2. TypeOK /\ MeanInv /\ LoopInv /\ [LoopNext]_loopVars => TypeOK' /\ MeanInv' /\ LoopInv'
  BY LoopStepsAreSteps, TypesKept, MeansKept, LoopKept
<1>3. LoopInv => PrintsAreMeans
  BY DEF LoopInv
<1>4. QED
  BY <1>1, <1>2, <1>3, PTL DEF LoopSpec
=============================================================================
