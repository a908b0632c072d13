------------------------------ MODULE MCDevice ------------------------------
(***************************************************************************)
(* The pins of small instances of Device.  The order of the constants of   *)
(* the code is kept (POLL < SHORT < LONG, POLL + LONG < COOLDOWN), not     *)
(* their ratios.                                                           *)
(***************************************************************************)
EXTENDS DeviceProps, TLC

CONSTANTS x, y, c1

PlayAndNetwork == <<x, y>>
NetworkOnly == <<y>>
OneOrTwo == [p \in Pins |-> IF p = y THEN 2 ELSE 1]
OneEach == [p \in Pins |-> 1]
=============================================================================
