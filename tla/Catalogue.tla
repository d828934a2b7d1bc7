----------------------------- MODULE Catalogue -----------------------------
(***************************************************************************)
(* What initialize_basic_hub promises, with no messages, buffers or        *)
(* connections: it learns the devices of the Pico one by one, then its     *)
(* sensors one by one, and what it knows at any time is the truth about a  *)
(* prefix of the inventory.  It may fail at any time before it is done.    *)
(***************************************************************************)
EXTENDS Pico

VARIABLES pico, known, outcome

catalogueVars == <<pico, known, outcome>>

\* The truth about the first d devices and the first s sensors of p.
Prefix(p, d, s) ==
    [devices |-> [i \in 1..d |->
        [kind |-> DeviceKind(p.devices[i].type),
         name |-> p.devices[i].name,
         children |-> {n \in 0..(s - 1) : i - 1 \in p.sensors[n + 1].parent}]],
     sensors |-> [i \in 1..s |->
        [kind |-> SensorKind(p.sensors[i].type, p.sensors[i].local),
         parent |-> p.sensors[i].parent \cap 0..(Len(p.devices) - 1)]]]

CatalogueInit ==
    /\ pico \in Inventories
    /\ known = Prefix(pico, 0, 0)
    /\ outcome = "running"

LearnDevice ==
    /\ outcome = "running"
    /\ \E d \in 0..(Len(pico.devices) - 1) :
         known = Prefix(pico, d, 0) /\ known' = Prefix(pico, d + 1, 0)
    /\ UNCHANGED <<pico, outcome>>

LearnSensor ==
    /\ outcome = "running"
    /\ \E s \in 0..(Len(pico.sensors) - 1) :
         /\ known = Prefix(pico, Len(pico.devices), s)
         /\ known' = Prefix(pico, Len(pico.devices), s + 1)
    /\ UNCHANGED <<pico, outcome>>

Finish ==
    /\ outcome = "running"
    /\ known = Prefix(pico, Len(pico.devices), Len(pico.sensors))
    /\ outcome' = "ready"
    /\ UNCHANGED <<pico, known>>

GiveUp ==
    /\ outcome = "running"
    /\ outcome' = "failed"
    /\ UNCHANGED <<pico, known>>

CatalogueNext == LearnDevice \/ LearnSensor \/ Finish \/ GiveUp

CatalogueSpec == CatalogueInit /\ [][CatalogueNext]_catalogueVars
=============================================================================
