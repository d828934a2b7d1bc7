--------------------------- MODULE HomeAssistant ---------------------------
(***************************************************************************)
(* The MQTT messages a caller makes of a hub for Home Assistant: discovery *)
(* announces the sensors of a device as components, a state message has    *)
(* an entry per kind of value.  Home Assistant, outside of src/, keeps the *)
(* last message of a topic and shows for a component the entry its         *)
(* template names.  Messages are made between the calls of                 *)
(* read_sensor_values that Readings models, of the table as it is then.    *)
(*                                                                         *)
(* The strings joined by separators (topics, ids) are tuples of their      *)
(* parts: a name has no digit and no separator, and a number follows it.   *)
(***************************************************************************)
EXTENDS Readings

CONSTANTS
    Serial,     \* serial number of the system
    Layouts     \* devices and sensors a hub may have been built with

ASSUME LayoutsAssumption ==
    \A l \in Layouts :
        /\ l.devices \in Seq(DeviceKinds)
        /\ l.sensors \in [Indices -> SensorKinds]
        /\ l.parent \in [Indices -> 0..Len(l.devices)]    \* 0: none

VARIABLES
    layout,       \* kinds of _devices and _sensors, and the device of a sensor
    use_average,  \* use_average_value_for_current_and_voltage
    configs,      \* external: the last discovery of each topic
    states,       \* external: the last state of each topic
    taken         \* ghost: window, regularity and count when a state was made

homeVars == <<layout, use_average, configs, states, taken>>
allVars == <<vars, homeVars>>

Devices == 1..Len(layout.devices)

\* hub.devices() leaves out what is not supported.
SupportedDevices == {d \in Devices : layout.devices[d] # "unsupported"}

\* The sensors of a device, by index.  Linking gave a device the ids of its
\* sensors in their order, and an id is an index (HubIsLayout of Hub_proofs).
GetSensors(d) == {i \in Indices : layout.parent[i] = d}

-----------------------------------------------------------------------------
(* Discovery                                                               *)

ShortDeviceTypeName ==
    [voltage |-> "volt", current |-> "cur", temperature |-> "temp", barometer |-> "baro",
     resistive |-> "res", tank |-> "tank", battery |-> "batt", unsupported |-> "unsupp"]

Named(prefix, d) == <<prefix, Serial, ShortDeviceTypeName[layout.devices[d]], d - 1>>
DeviceIdentifier(d) == Named("simarine", d)
DiscoveryTopic(d) == Named("homeassistant", d)
StateTopic(d) == Named("simarine", d)

\* What the components of a sensor are called, and the entries they show.
ComponentKeys ==
    [voltage |-> {"volt"}, current |-> {"cur"}, temperature |-> {"temp"},
     barometer_trend |-> {}, barometer |-> {"baro"}, resistive |-> {"res"},
     tank |-> {"vol", "lvl"}, battery |-> {"batt", "cap"}, unsupported |-> {}]

Component(d, i, id, key) ==
    [component_id |-> id, template |-> key, unique_id |-> <<DeviceIdentifier(d), id>>,
     sensor |-> i]    \* ghost

\* Mutant: a component is named for its kind alone.
ComponentsByKey(d) ==
    UNION {{Component(d, i, <<key>>, key) : key \in ComponentKeys[layout.sensors[i]]} :
              i \in GetSensors(d)}

Components(d) ==
    UNION {{Component(d, i, <<key, i - 1>>, key) : key \in ComponentKeys[layout.sensors[i]]} :
              i \in GetSensors(d)}

Discovery(d) == [components |-> Components(d), state_topic |-> StateTopic(d)]

-----------------------------------------------------------------------------
(* States                                                                  *)

\* Mutant: the trend of a barometer is reported in place of the pressure.
StateKeysOfTrend ==
    [voltage |-> {"volt"}, current |-> {"cur"}, temperature |-> {"temp"},
     barometer_trend |-> {"baro"}, barometer |-> {}, resistive |-> {"res"},
     tank |-> {"vol", "lvl"}, battery |-> {"batt", "cap"}, unsupported |-> {}]

\* What the entries a sensor adds are called.
StateKeys ==
    [voltage |-> {"volt"}, current |-> {"cur"}, temperature |-> {"temp"},
     barometer_trend |-> {}, barometer |-> {"baro"}, resistive |-> {"res"},
     tank |-> {"vol", "lvl"}, battery |-> {"batt", "cap"}, unsupported |-> {}]

Current(i) == [sensor |-> i, num |-> sensors[i].current, den |-> 1]
Average(i) == [sensor |-> i, num |-> sensors[i].num, den |-> sensors[i].den]

\* Mutant: averages are never reported.
CurrentOnly(i, key) == Current(i)

\* The value of one key of a sensor; volume and level, charge and capacity are
\* parts of one raw value and updated with it.
StateValue(i, key) ==
    IF use_average /\ key \in {"volt", "cur"} THEN Average(i) ELSE Current(i)

With(d, key) == {i \in GetSensors(d) : key \in StateKeys[layout.sensors[i]]}
KeysOf(d) == UNION {StateKeys[layout.sensors[i]] : i \in GetSensors(d)}

\* Mutant: an entry replaces an earlier one (insert_or_assign).
EntriesOfLast(d) ==
    [key \in KeysOf(d) |->
        StateValue(CHOOSE i \in With(d, key) : \A j \in With(d, key) : j <= i, key)]

FirstWith(d, key) == CHOOSE i \in With(d, key) : \A j \in With(d, key) : i <= j

\* emplace keeps the first entry of a key.
Entries(d) ==
    [key \in KeysOf(d) |-> StateValue(FirstWith(d, key), key)]

-----------------------------------------------------------------------------
(* Publishing                                                              *)

\* External: a topic keeps its last message.
Keep(messages, topic, payload) ==
    [t \in DOMAIN messages \cup {topic} |-> IF t = topic THEN payload ELSE messages[t]]

HomeInit ==
    /\ Init
    /\ layout \in Layouts
    /\ use_average \in BOOLEAN
    /\ configs = <<>> /\ states = <<>> /\ taken = <<>>

HubLives == Next /\ UNCHANGED homeVars

Announce ==
    /\ pc = "idle"
    /\ \E d \in SupportedDevices : configs' = Keep(configs, DiscoveryTopic(d), Discovery(d))
    /\ UNCHANGED <<vars, layout, use_average, states, taken>>

Report ==
    /\ pc = "idle"
    /\ \E d \in SupportedDevices :
         /\ states' = Keep(states, StateTopic(d), Entries(d))
         /\ taken' = Keep(taken, StateTopic(d),
                          [window |-> window, regular |-> regular, count |-> average_count])
    /\ UNCHANGED <<vars, layout, use_average, configs>>

HomeNext == HubLives \/ Announce \/ Report

HomeSpec == HomeInit /\ [][HomeNext]_allVars

-----------------------------------------------------------------------------
(* Properties                                                              *)

\* No two sensors, of one device or of two, come to Home Assistant as one
\* entity, and no device's announcement replaces another's.
EntitiesApart ==
    \A t, u \in DOMAIN configs :
        \A c \in configs[t].components : \A e \in configs[u].components :
            c.unique_id = e.unique_id => t = u /\ c = e

\* Announcements and states are made by separate lists of kinds.  They agree:
\* a reported device has an entry for each of its entities and no other.
EntitiesAreSupplied ==
    \A t \in DOMAIN configs :
        configs[t].state_topic \in DOMAIN states =>
            DOMAIN states[configs[t].state_topic] =
                {c.template : c \in configs[t].components}

\* An entity shows a value of the sensor it was announced for, unless the device
\* has a sensor with the same kind of value before it; then it shows that one's.
EntitiesShowTheirSensor ==
    \A t \in DOMAIN configs :
        configs[t].state_topic \in DOMAIN states =>
            \A c \in configs[t].components :
                LET shown == states[configs[t].state_topic][c.template].sensor
                    alike == {e \in configs[t].components : e.template = c.template}
                IN  (\A e \in alike : c.sensor <= e.sensor) <=> shown = c.sensor

\* With averages asked for, a reported voltage or current is the mean of the
\* readings since the last new window, if there were any by then and each
\* message had one for the sensor.  So a caller that starts a new window with
\* each report misses no change in between.
ReportsAreMeans ==
    \A t \in DOMAIN states :
        \A key \in DOMAIN states[t] :
            LET shown == states[t][key]
                mean == taken[t].window[shown.sensor]
            IN  use_average /\ key \in {"volt", "cur"}
                  /\ taken[t].count > 0 /\ taken[t].regular[shown.sensor]
                  => mean.n = taken[t].count /\ shown.num * mean.n = shown.den * mean.sum
=============================================================================
