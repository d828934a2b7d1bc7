-------------------------- MODULE MCMovingAverage --------------------------
(***************************************************************************)
(* The example moving_average with two sensors, one of them a current      *)
(* sensor, two broadcasts and a copy of one of them: up to three prints    *)
(* after the first one.                                                    *)
(***************************************************************************)
EXTENDS MovingAverage

const_CurrentSensors == {1}
=============================================================================
