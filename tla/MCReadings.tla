----------------------------- MODULE MCReadings -----------------------------
(***************************************************************************)
(* Two sensors, a receive queue of two datagrams and three broadcasts.     *)
(***************************************************************************)
EXTENDS Readings
=============================================================================
