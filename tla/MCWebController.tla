-------------------------- MODULE MCWebController --------------------------
(***************************************************************************)
(* Queues of small instances of WebController.                             *)
(***************************************************************************)
EXTENDS WebControllerProps

CONSTANTS i1, i2, i3, p1

TwoQueued == <<i1, i2>>
EditOrPlayFirst == <<{"play", "remove", "add"}, {"play", "remove", "clear", "next", "queue"}>>
TwoRemovals == <<{"remove"}, {"remove"}>>
=============================================================================
