---------------------------- MODULE MCScanPhase ----------------------------
(* The kinds of scan for TLC: scan over WireGuard, two ports for each      *)
(* target, and find-sni, where a target has one port and three attempts.   *)
EXTENDS ScanPhase

TwoKinds ==
  {[ports |-> 2, attempts |-> 1, wantMeta |-> TRUE, pings |-> TRUE],
   [ports |-> 1, attempts |-> 3, wantMeta |-> FALSE, pings |-> FALSE]}
=============================================================================
