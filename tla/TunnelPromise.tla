--------------------------- MODULE TunnelPromise ---------------------------
(* What the scan relies on when it holds a value of the interface tunnel   *)
(* (src/tunnel.go), whichever implementation newTunnel made: one call of   *)
(* handshake after another brings the same tunnel up to one endpoint after *)
(* another, and Close ends it.  WGTunnel and MasqueTunnel implement it.    *)
EXTENDS Naturals

VARIABLES
  state,      \* "idle", "calling" (in handshake), "closed" or "released"
  calls,      \* the calls of handshake so far; each asks for an endpoint
  linked,     \* the call whose endpoint gets the tunnel's data, 0 for none
  said        \* what the last call returned: "none" yet, "yes" or "no"

vars == <<state, calls, linked, said>>

Init == state = "idle" /\ calls = 0 /\ linked = 0 /\ said = "none"

(* A call begins, and the endpoint of the call before it is left.          *)
Call ==
  /\ state = "idle"
  /\ state' = "calling" /\ calls' = calls + 1
  /\ linked' = 0 /\ said' = "none"

(* The endpoint that was asked for answers, perhaps too late for the call. *)
Link ==
  /\ state \in {"idle", "calling"} /\ calls > 0
  /\ linked' = calls
  /\ UNCHANGED <<state, calls, said>>

(* True is said of no endpoint but the one of this call.                   *)
Return ==
  /\ state = "calling"
  /\ state' = "idle"
  /\ \/ said' = "yes" /\ linked' = calls
     \/ said' = "no" /\ UNCHANGED linked
  /\ UNCHANGED calls

Close ==
  /\ state = "idle"
  /\ state' \in {"closed", "released"}
  /\ linked' = 0 /\ said' = "none"
  /\ UNCHANGED calls

(* The last goroutine of the tunnel is gone.                               *)
Release ==
  /\ state = "closed"
  /\ state' = "released"
  /\ UNCHANGED <<calls, linked, said>>

Next == Call \/ Link \/ Return \/ Close \/ Release

Safe == Init /\ [][Next]_vars

(* Calls return, and a closed tunnel leaves nothing running.               *)
Spec == Safe /\ WF_vars(Return) /\ WF_vars(Release)
=============================================================================
