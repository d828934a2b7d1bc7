---------------------------- MODULE MovingAverage ----------------------------
(***************************************************************************)
(* An application on top of the life of a hub: the example moving_average  *)
(* reads sensor values for ever and, after a read, prints the averages of  *)
(* the current sensors and starts a new window if the interval of ten      *)
(* seconds is over.  Its main thread is the caller that Readings leaves    *)
(* open; the steps of the hub and of the network are those of Readings.    *)
(***************************************************************************)
EXTENDS Readings

CONSTANT CurrentSensors    \* indices of the sensors that measure a current

ASSUME CurrentSensorsAssumption == CurrentSensors \subseteq Indices

VARIABLES
    main,      \* where main is: "connect", "read" or "check"
    due,       \* the interval since last_update_time is over
    shown,     \* the averages last printed
    since,     \* ghost: number and sum of the readings of each sensor since the last print
    evenly,    \* ghost: each message since then had one value for the sensor
    over       \* ghost: what since and evenly were when that was printed

app == <<main, due, shown>>
sinceGhosts == <<since, evenly, over>>
loopVars == <<vars, app, sinceGhosts>>

Averages == [i \in CurrentSensors |-> [num |-> sensors[i].num, den |-> sensors[i].den]]

\* print_current_sensors: the current sensors among sensors_by_type.
PrintSensors ==
    /\ shown' = Averages
    /\ over' = [i \in CurrentSensors |-> [n |-> since[i].n, sum |-> since[i].sum,
                                          even |-> evenly[i]]]
    /\ since' = NoReadings
    /\ evenly' = [i \in Indices |-> TRUE]

LoopInit ==
    /\ Init
    /\ main = "connect"
    /\ due = FALSE
    /\ shown = Averages
    /\ since = NoReadings
    /\ evenly = [i \in Indices |-> TRUE]
    /\ over = [i \in CurrentSensors |-> [n |-> 0, sum |-> 0, even |-> TRUE]]

\* connect and initialize_hub.
Initialize ==
    /\ main = "connect"
    /\ \/ Construct
       \/ pc = "constructing" /\ (Update_sensor_values \/ Constructed)
    /\ UNCHANGED <<app, sinceGhosts>>

\* The first print shows the first values, and the time starts.
FirstPrint ==
    /\ main = "connect" /\ pc = "idle"
    /\ PrintSensors
    /\ main' = "read"
    /\ due' = FALSE
    /\ UNCHANGED vars

Elapse ==
    /\ main # "connect" /\ ~due
    /\ due' = TRUE
    /\ UNCHANGED <<vars, main, shown, sinceGhosts>>

\* Mutant: a read is only made when the interval is over.
ReadsWhenDue == main = "read" /\ (pc = "idle" => due)

\* The loop reads whether the interval is over or not.
ReadsAlways == main = "read"

\* read_sensor_values, step by step; it returns to the check.
CallReads ==
    /\ ReadsAlways
    /\ StartRead \/ Read_sensor_values
    /\ main' = IF pc' = "idle" THEN "check" ELSE "read"
    /\ since' = [i \in Indices |->
                    [n |-> since[i].n + (window'[i].n - window[i].n),
                     sum |-> since[i].sum + (window'[i].sum - window[i].sum)]]
    /\ evenly' = [i \in Indices |-> evenly[i] /\ (pc' = "idle" => times[i] = 1)]
    /\ UNCHANGED <<due, shown, over>>

\* Mutant: the averages run on after a print.
NoNewWindow == UNCHANGED vars

NewWindow == StartWindow

PrintAndStartOver ==
    /\ main = "check" /\ due
    /\ PrintSensors
    /\ NewWindow
    /\ main' = "read"
    /\ due' = FALSE

\* Mutant: the comparison of the interval is the wrong way round.
GoOnWhenDue ==
    /\ main = "check" /\ due
    /\ main' = "read"
    /\ UNCHANGED <<vars, due, shown, sinceGhosts>>

GoOn ==
    /\ main = "check" /\ ~due
    /\ main' = "read"
    /\ UNCHANGED <<vars, due, shown, sinceGhosts>>

Loop == CallReads \/ PrintAndStartOver \/ GoOn

LoopNext ==
    \/ Initialize \/ FirstPrint \/ Elapse \/ Loop
    \/ Network /\ UNCHANGED <<app, sinceGhosts>>

LoopSpec == LoopInit /\ [][LoopNext]_loopVars

\* Once in its loop, main runs on; the Pico may fall silent, the network drop
\* everything and the time stand still.
FairLoopSpec == LoopSpec /\ WF_loopVars(Loop)

-----------------------------------------------------------------------------
(* Properties                                                              *)

\* What is printed of a current sensor is the mean of its readings since the
\* print before, if each message since then had one reading for it: no reading
\* counts in two prints, none is left out, although the averages are rebuilt
\* from the last one and the window is only started over after the print.
PrintsAreMeans ==
    \A i \in CurrentSensors :
        over[i].even /\ over[i].n > 0 =>
            shown[i].num * over[i].n = shown[i].den * over[i].sum

\* The loop works off whatever the socket has queued, the datagrams from before
\* the hub existed included.
EverythingIsRead == (main # "connect" /\ queue # <<>>) ~> (queue = <<>>)

\* When the interval is over there is a print, as soon as there is a sensor
\* state to read: between two prints main may wait in recv.
PrintsWhenDue ==
    (due /\ \E k \in DOMAIN queue : queue[k].msg.type = "sensor_state") ~> ~due
=============================================================================
