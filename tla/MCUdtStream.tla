---------------------------- MODULE MCUdtStream ----------------------------
(* Three packets whose numbers go round the circle.                        *)
EXTENDS UdtStream
=============================================================================
