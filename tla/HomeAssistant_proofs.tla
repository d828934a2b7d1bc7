------------------------ MODULE HomeAssistant_proofs ------------------------
(***************************************************************************)
(* What Home Assistant shows, for any devices and sensors a hub may have.  *)
(***************************************************************************)
EXTENDS HomeAssistant, Readings_proofs, WellFoundedInduction, NaturalsInduction

LEMMA HomeStarts == HomeInit => Init
BY DEF HomeInit

LEMMA HomeStepsAreSteps == [HomeNext]_allVars => [Next]_vars
BY DEF HomeNext, HubLives, Announce, Report, allVars

\* Publishing is done by a caller of the hub: all theorems of Readings hold.
THEOREM HomeUsesHub == HomeSpec => Spec
BY HomeStarts, HomeStepsAreSteps, PTL DEF HomeSpec, Spec

-----------------------------------------------------------------------------
(* The first sensor with a key                                             *)

LEMMA LeastExists ==
    ASSUME NEW S \in SUBSET Nat, S # {}
    PROVE  \E i \in S : \A j \in S : i <= j
<1>1. PICK i \in S : \A j \in S : <<j, i>> \notin OpToRel(<, Nat)
  BY WFMin, NatLessThanWellFounded, Zenon
<1>2. \A j \in S : ~ (j < i)
  BY <1>1 DEF OpToRel
<1>3. QED
  BY <1>2

LEMMA FirstIsLeast ==
    ASSUME NEW d, NEW key \in KeysOf(d)
    PROVE  /\ FirstWith(d, key) \in With(d, key)
           /\ \A j \in With(d, key) : FirstWith(d, key) <= j
<1>1. With(d, key) # {}
  BY DEF KeysOf, With
<1>2. With(d, key) \subseteq Nat
  BY ReadingsBounds DEF With, GetSensors, Indices
<1>3. \E i \in With(d, key) : \A j \in With(d, key) : i <= j
  BY <1>1, <1>2, LeastExists
<1>4. QED
  BY <1>3 DEF FirstWith

-----------------------------------------------------------------------------
(* The invariant: a topic holds what was made for its device               *)

TopicsInv ==
    /\ layout \in Layouts
    /\ \A t \in DOMAIN configs :
         \E d \in Devices : t = DiscoveryTopic(d) /\ configs[t] = Discovery(d)
    /\ \A t \in DOMAIN states :
         \E d \in Devices :
            /\ t = StateTopic(d)
            /\ DOMAIN states[t] = KeysOf(d)
            /\ \A key \in KeysOf(d) : states[t][key].sensor = FirstWith(d, key)

LEMMA TopicsKept == TopicsInv /\ [HomeNext]_allVars => TopicsInv'
<1> SUFFICES ASSUME TopicsInv, [HomeNext]_allVars PROVE TopicsInv'
  OBVIOUS
<1>1. layout' = layout
  BY DEF HomeNext, HubLives, Announce, Report, allVars, homeVars
<1>2. /\ Devices' = Devices
      /\ \A d : DiscoveryTopic(d)' = DiscoveryTopic(d) /\ StateTopic(d)' = StateTopic(d)
      /\ \A d : Discovery(d)' = Discovery(d) /\ KeysOf(d)' = KeysOf(d)
      /\ \A d, key : FirstWith(d, key)' = FirstWith(d, key)
  BY <1>1 DEF Devices, DiscoveryTopic, StateTopic, Named, Discovery, Components, Component,
     DeviceIdentifier, GetSensors, KeysOf, With, FirstWith
<1>3. CASE UNCHANGED homeVars
  BY <1>1, <1>2, <1>3 DEF TopicsInv, homeVars
<1>4. CASE Announce
  <2>1. PICK d \in Devices : configs' = Keep(configs, DiscoveryTopic(d), Discovery(d))
    BY <1>4 DEF Announce, SupportedDevices
  <2>2. states' = states
    BY <1>4 DEF Announce
  <2>3. QED
    BY <1>1, <1>2, <2>1, <2>2 DEF TopicsInv, Keep
<1>5. CASE Report
  <2>1. PICK d \in Devices : states' = Keep(states, StateTopic(d), Entries(d))
    BY <1>5 DEF Report, SupportedDevices
  <2>2. configs' = configs
    BY <1>5 DEF Report
  <2>3. DOMAIN Entries(d) = KeysOf(d)
        /\ \A key \in KeysOf(d) : Entries(d)[key].sensor = FirstWith(d, key)
    BY DEF Entries, StateValue, Average, Current
  <2>4. QED
    BY <1>1, <1>2, <2>1, <2>2, <2>3 DEF TopicsInv, Keep
<1>6. QED
  BY <1>3, <1>4, <1>5 DEF HomeNext, HubLives, allVars

LEMMA TopicsAlways == HomeSpec => []TopicsInv
<1>1. HomeInit => TopicsInv
  BY DEF HomeInit, TopicsInv
<1>2. QED
  BY <1>1, TopicsKept, PTL DEF HomeSpec

-----------------------------------------------------------------------------
(* Entities                                                                *)

LEMMA TopicsDiffer ==
    /\ \A d, e \in Devices : DiscoveryTopic(d) = DiscoveryTopic(e) => d = e
    /\ \A d, e \in Devices : StateTopic(d) = StateTopic(e) => d = e
    /\ \A d, e \in Devices : DeviceIdentifier(d) = DeviceIdentifier(e) => d = e
<1> SUFFICES ASSUME NEW prefix, NEW d \in Devices, NEW e \in Devices,
                    Named(prefix, d) = Named(prefix, e)
             PROVE  d = e
  BY DEF DiscoveryTopic, StateTopic, DeviceIdentifier
<1>1. Named(prefix, d)[4] = d - 1 /\ Named(prefix, e)[4] = e - 1
  BY DEF Named
<1>2. d \in Int /\ e \in Int
  BY DEF Devices
<1>3. QED
  BY <1>1, <1>2

\* A component of a device, taken apart.
LEMMA ComponentParts ==
    ASSUME NEW d, NEW c \in Components(d)
    PROVE  \E i \in GetSensors(d) : \E key \in ComponentKeys[layout.sensors[i]] :
              c = Component(d, i, <<key, i - 1>>, key)
BY DEF Components

LEMMA ComponentMade ==
    ASSUME NEW d, NEW i \in GetSensors(d), NEW key \in ComponentKeys[layout.sensors[i]]
    PROVE  Component(d, i, <<key, i - 1>>, key) \in Components(d)
BY DEF Components

LEMMA ComponentShape ==
    ASSUME NEW d, NEW i, NEW key
    PROVE  /\ Component(d, i, <<key, i - 1>>, key).template = key
           /\ Component(d, i, <<key, i - 1>>, key).sensor = i
BY DEF Component

LEMMA ApartOnDevices ==
    ASSUME NEW d \in Devices, NEW e \in Devices,
           NEW b \in Components(d), NEW c \in Components(e), b.unique_id = c.unique_id
    PROVE  d = e /\ b = c
<1>1. PICK i \in GetSensors(d) : \E key \in ComponentKeys[layout.sensors[i]] :
        b = Component(d, i, <<key, i - 1>>, key)
  BY ComponentParts
<1>2. PICK j \in GetSensors(e) : \E key \in ComponentKeys[layout.sensors[j]] :
        c = Component(e, j, <<key, j - 1>>, key)
  BY ComponentParts
<1> PICK k : b = Component(d, i, <<k, i - 1>>, k)
  BY <1>1
<1> PICK l : c = Component(e, j, <<l, j - 1>>, l)
  BY <1>2
<1>3. <<DeviceIdentifier(d), <<k, i - 1>>>> = <<DeviceIdentifier(e), <<l, j - 1>>>>
  BY DEF Component
<1>4. DeviceIdentifier(d) = DeviceIdentifier(e) /\ k = l /\ i - 1 = j - 1
  BY <1>3
<1>5. i \in Int /\ j \in Int
  BY ReadingsBounds DEF GetSensors, Indices
<1>6. d = e /\ i = j
  BY <1>4, <1>5, TopicsDiffer
<1>7. QED
  BY <1>4, <1>6

\* Entities of one hub are never taken for each other, whatever devices and
\* sensors it has.
THEOREM EntitiesStayApart == HomeSpec => []EntitiesApart
<1>1. TopicsInv => EntitiesApart
  <2> SUFFICES ASSUME TopicsInv, NEW t \in DOMAIN configs, NEW u \in DOMAIN configs,
                      NEW b \in configs[t].components, NEW c \in configs[u].components,
                      b.unique_id = c.unique_id
               PROVE  t = u /\ b = c
    BY DEF EntitiesApart
  <2>1. PICK d \in Devices : t = DiscoveryTopic(d) /\ configs[t] = Discovery(d)
    BY DEF TopicsInv
  <2>2. PICK e \in Devices : u = DiscoveryTopic(e) /\ configs[u] = Discovery(e)
    BY DEF TopicsInv
  <2>3. b \in Components(d) /\ c \in Components(e)
    BY <2>1, <2>2 DEF Discovery
  <2>4. QED
    BY <2>1, <2>2, <2>3, ApartOnDevices
<1>2. QED
  BY <1>1, TopicsAlways, PTL

\* The device of an announcement, and what was reported of it.
LEMMA AnnouncedDevice ==
    ASSUME TopicsInv, NEW t \in DOMAIN configs, configs[t].state_topic \in DOMAIN states
    PROVE  \E d \in Devices :
              LET entries == states[configs[t].state_topic]
              IN  /\ configs[t].components = Components(d)
                  /\ DOMAIN entries = KeysOf(d)
                  /\ \A key \in KeysOf(d) : entries[key].sensor = FirstWith(d, key)
<1>1. PICK d \in Devices : configs[t] = Discovery(d)
  BY DEF TopicsInv
<1>2. configs[t].state_topic = StateTopic(d) /\ configs[t].components = Components(d)
  BY <1>1 DEF Discovery
<1>3. PICK e \in Devices :
        /\ StateTopic(d) = StateTopic(e)
        /\ DOMAIN states[StateTopic(d)] = KeysOf(e)
        /\ \A key \in KeysOf(e) : states[StateTopic(d)][key].sensor = FirstWith(e, key)
  BY <1>2 DEF TopicsInv
<1>4. d = e
  BY <1>3, TopicsDiffer
<1>5. QED
  BY <1>2, <1>3, <1>4

\* The two lists of kinds agree.
LEMMA KeysAgree == ComponentKeys = StateKeys
BY DEF ComponentKeys, StateKeys

LEMMA TemplatesAreKeys ==
    ASSUME NEW d
    PROVE  {c.template : c \in Components(d)} = KeysOf(d)
<1>1. ASSUME NEW c \in Components(d) PROVE c.template \in KeysOf(d)
  <2>1. PICK i \in GetSensors(d) : \E key \in ComponentKeys[layout.sensors[i]] :
          c = Component(d, i, <<key, i - 1>>, key)
    BY ComponentParts
  <2>2. c.template \in ComponentKeys[layout.sensors[i]]
    BY <2>1 DEF Component
  <2>3. QED
    BY <2>2, KeysAgree DEF KeysOf
<1>2. ASSUME NEW key \in KeysOf(d) PROVE \E c \in Components(d) : c.template = key
  <2>1. PICK i \in GetSensors(d) : key \in ComponentKeys[layout.sensors[i]]
    BY KeysAgree DEF KeysOf
  <2>2. Component(d, i, <<key, i - 1>>, key) \in Components(d)
    BY <2>1, ComponentMade
  <2>3. Component(d, i, <<key, i - 1>>, key).template = key
    BY ComponentShape
  <2>4. QED
    BY <2>2, <2>3
<1>3. QED
  BY <1>1, <1>2

\* What is announced is what is reported, for every device.
THEOREM EntitiesSupplied == HomeSpec => []EntitiesAreSupplied
<1>1. TopicsInv => EntitiesAreSupplied
  BY AnnouncedDevice, TemplatesAreKeys DEF EntitiesAreSupplied
<1>2. QED
  BY <1>1, TopicsAlways, PTL

LEMMA ShownSensor ==
    ASSUME NEW d \in Devices, NEW c \in Components(d)
    PROVE  LET alike == {e \in Components(d) : e.template = c.template}
           IN  (\A e \in alike : c.sensor <= e.sensor) <=> FirstWith(d, c.template) = c.sensor
<1>1. c.template \in KeysOf(d)
  BY TemplatesAreKeys
<1>2. \A e \in Components(d) :
        e.template = c.template => e.sensor \in With(d, c.template)
  BY KeysAgree, ComponentParts DEF Component, With
<1>3. \A i \in With(d, c.template) :
        \E e \in Components(d) : e.template = c.template /\ e.sensor = i
  <2> SUFFICES ASSUME NEW i \in With(d, c.template)
               PROVE  \E e \in Components(d) : e.template = c.template /\ e.sensor = i
    OBVIOUS
  <2>1. i \in GetSensors(d) /\ c.template \in ComponentKeys[layout.sensors[i]]
    BY KeysAgree DEF With
  <2>2. Component(d, i, <<c.template, i - 1>>, c.template) \in Components(d)
    BY <2>1, ComponentMade
  <2>3. /\ Component(d, i, <<c.template, i - 1>>, c.template).template = c.template
        /\ Component(d, i, <<c.template, i - 1>>, c.template).sensor = i
    BY ComponentShape
  <2>4. QED
    BY <2>2, <2>3
<1>4. With(d, c.template) \subseteq Int
  BY ReadingsBounds DEF With, GetSensors, Indices
<1>5. QED
  BY <1>1, <1>2, <1>3, <1>4, FirstIsLeast

\* An entity shows its own sensor, or the first of the same kind.
THEOREM EntitiesShowTheirs == HomeSpec => []EntitiesShowTheirSensor
<1>1. TopicsInv => EntitiesShowTheirSensor
  <2> SUFFICES ASSUME TopicsInv, NEW t \in DOMAIN configs,
                      configs[t].state_topic \in DOMAIN states,
                      NEW c \in configs[t].components
               PROVE  LET shown == states[configs[t].state_topic][c.template].sensor
                          alike == {e \in configs[t].components : e.template = c.template}
                      IN  (\A e \in alike : c.sensor <= e.sensor) <=> shown = c.sensor
    BY DEF EntitiesShowTheirSensor
  <2>1. PICK d \in Devices :
          LET entries == states[configs[t].state_topic]
          IN  /\ configs[t].components = Components(d)
              /\ DOMAIN entries = KeysOf(d)
              /\ \A key \in KeysOf(d) : entries[key].sensor = FirstWith(d, key)
    BY AnnouncedDevice
  <2>2. c.template \in KeysOf(d)
    BY <2>1, TemplatesAreKeys
  <2>3. states[configs[t].state_topic][c.template].sensor = FirstWith(d, c.template)
    BY <2>1, <2>2
  <2>4. QED
    BY <2>1, <2>3, ShownSensor
<1>2. QED
  BY <1>1, TopicsAlways, PTL

-----------------------------------------------------------------------------
(* Averages                                                                *)

\* One report, and the window it was made in.
ReportOf(entries, at) ==
    \A key \in DOMAIN entries :
        use_average /\ key \in {"volt", "cur"}
          /\ at.count > 0 /\ at.regular[entries[key].sensor]
          => /\ at.window[entries[key].sensor].n = at.count
             /\ entries[key].num * at.window[entries[key].sensor].n =
                   entries[key].den * at.window[entries[key].sensor].sum

Taken == [window |-> window, regular |-> regular, count |-> average_count]

LEMMA EntriesAreMeans ==
    ASSUME TypeOK, MeanInv, pc = "idle", NEW d
    PROVE  ReportOf(Entries(d), Taken)
<1> SUFFICES ASSUME NEW key \in KeysOf(d), use_average, key \in {"volt", "cur"},
                    average_count > 0, regular[Entries(d)[key].sensor]
             PROVE  /\ window[Entries(d)[key].sensor].n = average_count
                    /\ Entries(d)[key].num * window[Entries(d)[key].sensor].n =
                          Entries(d)[key].den * window[Entries(d)[key].sensor].sum
  BY DEF ReportOf, Taken, Entries
<1> DEFINE i == FirstWith(d, key)
<1>1. i \in Indices
  BY FirstIsLeast DEF With, GetSensors
<1>2. Entries(d)[key] = [sensor |-> i, num |-> sensors[i].num, den |-> sensors[i].den]
  BY DEF Entries, StateValue, Average
<1>3. times[i] = 0 /\ IsMean(sensors[i], window[i], average_count + 0)
  BY <1>1, <1>2 DEF MeanInv
<1>4. average_count + 0 = average_count
  BY DEF TypeOK
<1>5. QED
  BY <1>2, <1>3, <1>4 DEF IsMean

ReportsInv ==
    /\ DOMAIN taken = DOMAIN states
    /\ \A t \in DOMAIN states : ReportOf(states[t], taken[t])

LEMMA ReportsKept ==
    TypeOK /\ MeanInv /\ ReportsInv /\ [HomeNext]_allVars => ReportsInv'
<1> SUFFICES ASSUME TypeOK, MeanInv, ReportsInv, [HomeNext]_allVars PROVE ReportsInv'
  OBVIOUS
<1>1. use_average' = use_average
  BY DEF HomeNext, HubLives, Announce, Report, allVars, homeVars
<1>2. \A entries, at : ReportOf(entries, at)' = ReportOf(entries, at)
  BY <1>1 DEF ReportOf
<1>3. CASE UNCHANGED <<states, taken>>
  BY <1>2, <1>3 DEF ReportsInv
<1>4. CASE Report
  <2>1. PICK d \in Devices : /\ states' = Keep(states, StateTopic(d), Entries(d))
                             /\ taken' = Keep(taken, StateTopic(d), Taken)
    BY <1>4 DEF Report, SupportedDevices, Taken
  <2>2. ReportOf(Entries(d), Taken)
    BY <1>4, EntriesAreMeans DEF Report
  <2>3. QED
    BY <1>2, <2>1, <2>2 DEF ReportsInv, Keep
<1>5. QED
  BY <1>3, <1>4 DEF HomeNext, HubLives, Announce, allVars, homeVars

\* Reported averages are means of the window they are reported in.
THEOREM HomeReportsMeans == HomeSpec => []ReportsAreMeans
<1>1. HomeInit => TypeOK /\ MeanInv /\ ReportsInv
  <2>1. HomeInit => TypeOK
    BY HomeStarts, TypesAtStart
  <2>2. HomeInit => MeanInv
    BY DEF HomeInit, Init, MeanInv
  <2>3. HomeInit => ReportsInv
    BY DEF HomeInit, ReportsInv
  <2>4. QED
    BY <2>1, <2>2, <2>3
<1>2. TypeOK /\ MeanInv /\ ReportsInv /\ [HomeNext]_allVars
        => TypeOK' /\ MeanInv' /\ ReportsInv'
  BY HomeStepsAreSteps, TypesKept, MeansKept, ReportsKept
<1>3. ReportsInv => ReportsAreMeans
  BY DEF ReportsInv, ReportOf, ReportsAreMeans
<1>4. QED
  BY <1>1, <1>2, <1>3, PTL DEF HomeSpec
=============================================================================
