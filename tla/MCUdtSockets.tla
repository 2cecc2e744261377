---------------------------- MODULE MCUdtSockets ----------------------------
(***************************************************************************)
(* TLC instance of UdtSockets.                                             *)
(***************************************************************************)
EXTENDS UdtSockets

CONSTANTS c1, c2
=============================================================================
