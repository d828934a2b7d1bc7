-------------------------- MODULE MCHomeAssistant --------------------------
(***************************************************************************)
(* Devices of two hubs: one with every kind of value, two sensors of one   *)
(* kind on one device, and two devices of one kind.                        *)
(***************************************************************************)
EXTENDS HomeAssistant

Layout(devs, sens, parent) ==
    [devices |-> devs, sensors |-> sens, parent |-> parent]

const_Layouts ==
    { Layout(<<"battery", "unsupported">>, <<k, "battery">>, <<1, 1>>) : k \in SensorKinds }
    \cup
    { Layout(<<"battery", "unsupported">>, <<"voltage", "battery">>, <<p, 1>>) : p \in {0, 2} }
    \cup
    { Layout(<<"current", "current">>, <<k, "current">>, <<p, 2>>) :
         k \in {"current", "voltage"}, p \in 1..2 }
=============================================================================
