---------------------------- MODULE MCUdtConnect ----------------------------
(***************************************************************************)
(* TLC instance of UdtConnect.                                             *)
(***************************************************************************)
EXTENDS UdtConnect

CONSTANTS c1, c2
=============================================================================
