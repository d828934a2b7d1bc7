-------------------------- MODULE MCClientSession --------------------------
(***************************************************************************)
(* A Pico with two devices and a sensor, whose answers differ.             *)
(***************************************************************************)
EXTENDS ClientSession

CONSTANTS Engine, Tank

const_Names == {Engine, Tank}

const_Inventories ==
    { [system |-> [serial |-> 1, fw |-> 2],
       devices |-> << [type |-> 9, name |-> {Engine}], [type |-> 8, name |-> {Tank}] >>,
       sensors |-> << [type |-> 8, parent |-> {1}, local |-> {}] >>] }

const_StateAnswers(p) == { <<Num1(0, 100)>> }

const_NoRequests == {}
=============================================================================
