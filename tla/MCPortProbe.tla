---------------------------- MODULE MCPortProbe ----------------------------
(* Port lists for the runs of PortProbe.                                   *)
EXTENDS PortProbe

CONSTANTS p1, p2, p3

TwoPorts == <<p1, p2>>
OnePort == <<p3>>
=============================================================================
