-------------------------------- MODULE Pings -------------------------------
(* The two pings of a scan job (the work function of runScan, src/main.go):*)
(* the durability check through a tunnel and the latency of its endpoint.  *)
(* A job does one after the other and they share nothing, so that a        *)
(* behaviour here is one check, or some latencies measured at a time.      *)
EXTENDS TunnelPing, HostPing

vars == <<burstVars, hostVars>>

TypeOK == BurstTypeOK /\ HostTypeOK

DurabilityInit ==
  /\ BurstInit
  /\ socket = "datagram" /\ host \in [Pingers -> {CHOOSE h \in Hosts : TRUE}]
  /\ place = [p \in Pingers |-> "none"]
  /\ number = [p \in Pingers |-> 0]
  /\ echoed = [p \in Pingers |-> {}] /\ counted = [p \in Pingers |-> {}]
  /\ buffer = [p \in Pingers |-> <<>>]
  /\ arrived = [p \in Pingers |-> {}] /\ late = [p \in Pingers |-> FALSE]

LatencyInit ==
  /\ HostInit
  /\ mode = "none" /\ burst = 1 /\ seq = 0
  /\ sent = {} /\ got = {} /\ inbox = <<>>
  /\ first = NoScore /\ verdict = NoScore
  /\ cut = 0 /\ delivered = {} /\ mute = FALSE

Init == DurabilityInit \/ LatencyInit

Next == \/ mode # "none" /\ (Burst \/ Network) /\ UNCHANGED hostVars
        \/ /\ mode = "none"
           /\ Replies \/ \E p \in Pingers : Ping(p)
           /\ UNCHANGED burstVars

(* Each call is in one goroutine, and time passes: the deadline of each of *)
(* its waits comes, also for a socket that has always more to read.        *)
(* Nothing is asked of the network.                                        *)
Fairness ==
  /\ WF_vars(Burst /\ UNCHANGED hostVars)
  /\ WF_vars((WindowEnds \/ FinalEnds) /\ UNCHANGED hostVars)
  /\ \A p \in Pingers : /\ WF_vars(Ping(p) /\ UNCHANGED burstVars)
                        /\ WF_vars(Deadline(p) /\ UNCHANGED burstVars)

Spec == Init /\ [][Next]_vars /\ Fairness

-----------------------------------------------------------------------------
(* The check and the latencies come to an end, although the network owes   *)
(* them nothing and may flood them: duplicates and foreign packets come as *)
(* fast as they are read, so that a window whose end waits for silence, or *)
(* whose deadline every read sets anew, never closes.                      *)
PingsEnd == <>(Over \/ \A p \in Pingers : place[p] = "over")
=============================================================================
