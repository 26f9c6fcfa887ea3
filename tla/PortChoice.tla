----------------------------- MODULE PortChoice -----------------------------
(* What a caller of reachablePorts (src/discovery.go) relies on, without   *)
(* tunnels, goroutines, locks or contexts: one address that answered is    *)
(* chosen and its ports are the answer; the alternates are asked only of a *)
(* network where no primary port answers; and "none" is said only when     *)
(* every port was asked of every address.  A user who quits may get less.  *)
CONSTANTS Addresses,    \* the sampled addresses
          Primary,      \* the ports of primaryWarpPorts
          Extended      \* the ports of extendedWarpPorts

VARIABLES
  asked,      \* <<address, port>> whose handshake has run its course
  heard,      \* those of them that answered
  chosen,     \* the ports to scan with, {} as long as there are none
  quit,       \* the user gave up
  outcome     \* "pending", then "ports", "none" or "error"

vars == <<asked, heard, chosen, quit, outcome>>

Pairs(ports) == Addresses \X ports
Silent(ports) == Pairs(ports) \subseteq asked /\ Pairs(ports) \cap heard = {}

Init ==
  /\ asked = {} /\ heard = {} /\ chosen = {}
  /\ quit = FALSE /\ outcome = "pending"

(* A port answers, or does not.  Sweeps that are under way when an address *)
(* has been chosen go on a little.                                         *)
Ask(pair) ==
  /\ outcome = "pending"
  /\ pair \in Pairs(Primary \cup Extended) \ asked
  /\ pair[2] \in Extended /\ ~quit => Silent(Primary)
  /\ asked' = asked \cup {pair}
  /\ heard' \in {heard, heard \cup {pair}}
  /\ UNCHANGED <<chosen, quit, outcome>>

(* The first address is chosen, for good: its answers in one of the lists, *)
(* and, unless the user quit, those to the whole of that list.             *)
Choose(i, ports) ==
  /\ outcome = "pending" /\ chosen = {}
  /\ chosen' = {p \in ports : <<i, p>> \in heard}
  /\ chosen' # {}
  /\ ~quit => {i} \X ports \subseteq asked
  /\ UNCHANGED <<asked, heard, quit, outcome>>

Quit ==
  /\ outcome = "pending"
  /\ quit' = TRUE
  /\ UNCHANGED <<asked, heard, chosen, outcome>>

Answer ==
  /\ outcome = "pending"
  /\ outcome' \in IF chosen # {} THEN {"ports"} ELSE {"none", "error"}
  /\ outcome' = "none" /\ ~quit => Silent(Primary) /\ Silent(Extended)
  /\ UNCHANGED <<asked, heard, chosen, quit>>

Next == \/ \E pair \in Pairs(Primary \cup Extended) : Ask(pair)
        \/ \E i \in Addresses, ports \in {Primary, Extended} : Choose(i, ports)
        \/ Quit \/ Answer

Spec == Init /\ [][Next]_vars
=============================================================================
