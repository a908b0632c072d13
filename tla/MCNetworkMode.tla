---------------------------- MODULE MCNetworkMode ----------------------------
(* Small instances of NetworkMode for TLC.                                 *)
EXTENDS NetworkModeRaces

CONSTANTS h1, a1

(* A device never used, used at home before, or used in the car and given  *)
(* a passphrase that is too short.                                         *)
AnyStored ==
    [hotspots : {<<>>}, mode : {"absent"}, home : {NONE}, env : {"absent"}]
    \cup [hotspots : {<<"own">>}, mode : {"home"}, home : Homes, env : {"own"}]
    \cup [hotspots : {<<"own">>}, mode : {"car"}, home : Homes, env : {"short"}]
UsedAtHome == [hotspots : {<<"own">>}, mode : {"home"}, home : {h1}, env : {"own"}]
=============================================================================
