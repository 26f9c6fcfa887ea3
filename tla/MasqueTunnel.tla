---------------------------- MODULE MasqueTunnel ----------------------------
(* masqueTunnel of src/masque.go: one netstack device whose CONNECT-IP peer*)
(* is swapped by every handshake.  The goroutine that owns the tunnel dials*)
(* and closes; pumpOut carries the device's packets to whichever peer is   *)
(* current; every peer has a pumpIn of its own; every dial has a timer.    *)
EXTENDS Naturals, FiniteSets

CONSTANT Handshakes    \* bound: calls of handshake in the tunnel's life

ASSUME MasqueAssumption == Handshakes \in Nat

Peers == 1 .. Handshakes

VARIABLES
  owner,      \* the owner: "idle", in handshake "dropped", "dialling",
              \* "dialled" or "starting", in Close "closing", then "closed"
  n,          \* the handshakes begun
  peer,       \* a dial's sockets and connection: "none", "up" or "closed"
  timer,      \* its time.AfterFunc: "off", "armed", "fired" or "stopped"
  dialOff,    \* peers whose dialCtx is cancelled
  pumpOff,    \* peers whose pumpCtx is cancelled
  conn, drop, \* t.conn and the peer that t.drop tears down; 0 is nil
  pumpIn,     \* per peer: "none", "check", "reading", "writing" or "ended"
  pumpOut,    \* "reading", "got", "sending" or "ended"
  devOpen,    \* the netstack device
  ctxDone,    \* the caller's context is cancelled
  late        \* packets of a peer written to the device after its drop

slot == <<conn, drop>>
ctxs == <<dialOff, pumpOff, ctxDone>>
vars == <<owner, n, peer, timer, ctxs, slot, pumpIn, pumpOut, devOpen, late>>

(* A pumpIn has a connection to read, a dial that is under way a timer.    *)
TypeOK ==
  /\ owner \in {"idle", "dropped", "dialling", "dialled", "starting",
                "closing", "closed"}
  /\ n \in 0 .. Handshakes
  /\ peer \in [Peers -> {"none", "up", "closed"}]
  /\ timer \in [Peers -> {"off", "armed", "fired", "stopped"}]
  /\ dialOff \subseteq Peers /\ pumpOff \subseteq Peers
  /\ conn \in Peers \cup {0} /\ drop \in Peers \cup {0}
  /\ pumpIn \in [Peers -> {"none", "check", "reading", "writing", "ended"}]
  /\ \A p \in Peers :
       /\ pumpIn[p] # "none" =>
            p < n \/ owner \in {"starting", "idle", "dropped", "closing", "closed"}
       /\ timer[p] = "off" => peer[p] = "none"
  /\ pumpOut \in {"reading", "got", "sending", "ended"}
  /\ devOpen \in BOOLEAN /\ ctxDone \in BOOLEAN
  /\ late \in [Peers -> Nat]

Init ==
  /\ owner = "idle" /\ n = 0
  /\ peer = [p \in Peers |-> "none"] /\ timer = [p \in Peers |-> "off"]
  /\ dialOff = {} /\ pumpOff = {}
  /\ conn = 0 /\ drop = 0
  /\ pumpIn = [p \in Peers |-> "none"] /\ pumpOut = "reading"
  /\ devOpen = TRUE /\ ctxDone = FALSE
  /\ late = [p \in Peers |-> 0]

-----------------------------------------------------------------------------
(* Mutated form of dropPeer: the reader's context is left alone.           *)
dropPeerNotPump ==
  /\ peer' = [p \in Peers |-> IF p = drop THEN "closed" ELSE peer[p]]
  /\ dialOff' = dialOff \cup ({drop} \ {0})
  /\ drop' = 0 /\ conn' = 0
  /\ UNCHANGED pumpOff

(* cancelPump, cancelDial and closeMasqueTransport, all under the mutex.   *)
dropPeer ==
  /\ peer' = [p \in Peers |-> IF p = drop THEN "closed" ELSE peer[p]]
  /\ dialOff' = dialOff \cup ({drop} \ {0})
  /\ pumpOff' = pumpOff \cup ({drop} \ {0})
  /\ drop' = 0 /\ conn' = 0

(* handshake begins: the old peer goes first.                              *)
Handshake ==
  /\ owner = "idle" /\ n < Handshakes
  /\ n' = n + 1
  /\ owner' = "dropped"
  /\ dropPeer
  /\ UNCHANGED <<timer, ctxDone, pumpIn, pumpOut, devOpen, late>>

(* An endpoint that does not resolve ends it; else the timer is armed and  *)
(* ConnectTunnel opens its sockets.                                        *)
Dial ==
  /\ owner = "dropped"
  /\ \/ owner' = "idle" /\ UNCHANGED <<timer, peer, dialOff>>
     \/ /\ owner' = "dialling"
        /\ timer' = [timer EXCEPT ![n] = "armed"]
        /\ peer' = [peer EXCEPT ![n] = "up"]
        /\ dialOff' = IF ctxDone THEN dialOff \cup {n} ELSE dialOff
  /\ UNCHANGED <<n, pumpOff, ctxDone, slot, pumpIn, pumpOut, devOpen, late>>

(* The timer runs out, and its function, cancelDial, runs a little later in*)
(* a goroutine of its own.                                                 *)
TimerFires(p) ==
  /\ timer[p] = "armed"
  /\ timer' = [timer EXCEPT ![p] = "fired"]
  /\ UNCHANGED <<owner, n, peer, ctxs, slot, pumpIn, pumpOut, devOpen, late>>

TimerCancels(p) ==
  /\ timer[p] = "fired" /\ p \notin dialOff
  /\ dialOff' = dialOff \cup {p}
  /\ UNCHANGED <<owner, n, peer, timer, pumpOff, ctxDone, slot, pumpIn,
                 pumpOut, devOpen, late>>

(* cancelDial and closeMasqueTransport; handshake returns false.           *)
GiveUp ==
  /\ peer' = [peer EXCEPT ![n] = "closed"]
  /\ dialOff' = dialOff \cup {n}
  /\ owner' = "idle"
  /\ UNCHANGED <<n, pumpOff, ctxDone, slot, pumpIn, pumpOut, devOpen, late>>

(* Mutated form of ConnectFails: what a failed dial opened stays open.     *)
ConnectFailsOpen ==
  /\ owner = "dialling"
  /\ dialOff' = dialOff \cup {n}
  /\ owner' = "idle"
  /\ UNCHANGED <<n, peer, pumpOff, ctxDone, slot, pumpIn, pumpOut, devOpen,
                 late, timer>>

(* ConnectTunnel returns an error: err # nil spares the Stop, and the timer*)
(* is left to fire.                                                        *)
ConnectFails == owner = "dialling" /\ GiveUp /\ UNCHANGED timer

ConnectSucceeds ==
  /\ owner = "dialling"
  /\ owner' = "dialled"
  /\ UNCHANGED <<n, peer, timer, ctxs, slot, pumpIn, pumpOut, devOpen, late>>

(* Mutated form of StopTimer: what Stop returns is ignored.                *)
StopTimerBlind ==
  /\ owner = "dialled"
  /\ timer' = [timer EXCEPT ![n] = IF @ = "armed" THEN "stopped" ELSE @]
  /\ owner' = "starting"
  /\ UNCHANGED <<n, peer, ctxs, slot, pumpIn, pumpOut, devOpen, late>>

(* dialDeadline.Stop(): it is either too late, and the peer goes, or the   *)
(* timer will never fire.                                                  *)
StopTimer ==
  /\ owner = "dialled"
  /\ \/ timer[n] = "fired" /\ GiveUp /\ UNCHANGED timer
     \/ /\ timer[n] = "armed"
        /\ timer' = [timer EXCEPT ![n] = "stopped"]
        /\ owner' = "starting"
        /\ UNCHANGED <<n, peer, ctxs, slot, pumpIn, pumpOut, devOpen, late>>

(* go t.pumpIn(pumpCtx, conn).                                             *)
StartPump ==
  /\ owner = "starting" /\ pumpIn[n] = "none"
  /\ pumpIn' = [pumpIn EXCEPT ![n] = "check"]
  /\ UNCHANGED <<owner, n, peer, timer, ctxs, slot, pumpOut, devOpen, late>>

(* t.conn and t.drop are set under the mutex; handshake returns true.      *)
Install ==
  /\ owner = "starting" /\ pumpIn[n] # "none"
  /\ conn' = n /\ drop' = n
  /\ owner' = "idle"
  /\ UNCHANGED <<n, peer, timer, ctxs, pumpIn, pumpOut, devOpen, late>>

(* Close: dropPeer, then the device.                                       *)
Close ==
  /\ owner = "idle"
  /\ dropPeer
  /\ owner' = "closing"
  /\ UNCHANGED <<n, timer, ctxDone, pumpIn, pumpOut, devOpen, late>>

CloseDevice ==
  /\ owner = "closing"
  /\ devOpen' = FALSE
  /\ owner' = "closed"
  /\ UNCHANGED <<n, peer, timer, ctxs, slot, pumpIn, pumpOut, late>>

(* The context the handshakes were given ends, and every dialCtx with it.  *)
CancelCtx ==
  /\ ~ctxDone
  /\ ctxDone' = TRUE
  /\ dialOff' = dialOff \cup {p \in Peers : peer[p] = "up"}
  /\ UNCHANGED <<owner, n, peer, timer, pumpOff, slot, pumpIn, pumpOut,
                 devOpen, late>>

-----------------------------------------------------------------------------
PumpGoes(p, to) ==
  /\ pumpIn' = [pumpIn EXCEPT ![p] = to]
  /\ UNCHANGED <<owner, n, peer, timer, ctxs, slot, pumpOut, devOpen>>

(* for ctx.Err() == nil.                                                   *)
PumpChecks(p) ==
  /\ pumpIn[p] = "check"
  /\ PumpGoes(p, IF p \in pumpOff THEN "ended" ELSE "reading")
  /\ UNCHANGED late

(* conn.ReadPacket has a packet, which a connection closed meanwhile may   *)
(* have held, or fails; on one that is closed it does not wait.            *)
PumpReads(p) ==
  /\ pumpIn[p] = "reading"
  /\ PumpGoes(p, "writing") \/ PumpGoes(p, "ended")
  /\ UNCHANGED late

(* t.dev.Write, whoever is the current peer by now.                        *)
PumpWrites(p) ==
  /\ pumpIn[p] = "writing"
  /\ IF devOpen
     THEN /\ PumpGoes(p, "check")
          /\ late' = [late EXCEPT ![p] = @ + (IF peer[p] = "closed" THEN 1
                                                ELSE 0)]
     ELSE PumpGoes(p, "ended") /\ UNCHANGED late

OutGoes(to) ==
  /\ pumpOut' = to
  /\ UNCHANGED <<owner, n, peer, timer, ctxs, slot, pumpIn, devOpen, late>>

(* Mutated form of OutReads: a failed read is tried again.                 *)
OutReadsOn ==
  /\ pumpOut = "reading"
  /\ devOpen
  /\ OutGoes("got")

(* t.dev.Read: a packet of the netstack, or an error once it is closed.    *)
OutReads ==
  /\ pumpOut = "reading"
  /\ OutGoes(IF devOpen THEN "got" ELSE "ended")

(* currentConn, under the mutex; without a peer the packet is dropped.     *)
OutTakes ==
  /\ pumpOut = "got"
  /\ OutGoes(IF conn = 0 THEN "reading" ELSE "sending")

(* WritePacket, whose error is ignored.                                    *)
OutSends ==
  /\ pumpOut = "sending"
  /\ OutGoes("reading")

PumpInStep(p) == PumpChecks(p) \/ PumpReads(p) \/ PumpWrites(p)
PumpOutStep == OutReads \/ OutTakes \/ OutSends
Finish == \/ Dial \/ ConnectFails \/ ConnectSucceeds \/ StopTimer \/ StartPump
          \/ Install \/ CloseDevice

Next == \/ Handshake \/ Close \/ CancelCtx \/ Finish \/ PumpOutStep
        \/ \E p \in Peers : PumpInStep(p) \/ TimerFires(p) \/ TimerCancels(p)

(* Goroutines run, and ConnectTunnel returns: quic-go gives up after       *)
(* MaxIdleTimeout.  A read may wait for ever, but not on a peer that was   *)
(* dropped or a device that was closed.  Nobody is made to shake hands,    *)
(* close or cancel.                                                        *)
Fairness == /\ WF_vars(Finish)
            /\ WF_vars(~devOpen /\ PumpOutStep)
            /\ \A p \in Peers : WF_vars(p \in pumpOff /\ PumpInStep(p))

Spec == Init /\ [][Next]_vars /\ Fairness

-----------------------------------------------------------------------------
(* Between two handshakes the only sockets open are those of the peer that *)
(* is installed; a failed dial, a late one and a swap leave nothing behind.*)
OnlyInstalledUp ==
  /\ owner \in {"idle", "dropped", "closing", "closed"} =>
       {p \in Peers : peer[p] = "up"} = {drop} \ {0}
  /\ conn = drop

(* The comment in handshake: the deadline may only bound the dial.  The    *)
(* context an installed peer lives on is cancelled by its caller alone,    *)
(* never by the timer, however late that fires.                            *)
TimerSparesPeer == conn # 0 /\ conn \in dialOff => ctxDone

(* A peer that was swapped out gets at most one more packet into the       *)
(* device, however long its reader lives on.                               *)
OneLatePacket == \A p \in Peers : late[p] <= 1

(* The goroutines of the tunnel that are left after Close.                 *)
Left == pumpOut # "ended" \/ \E p \in Peers : pumpIn[p] \notin {"none", "ended"}

(* The swaps of handshake make a tunnel as TunnelPromise has it: no data go*)
(* to the old peer once a call has begun, true is said of this call's peer,*)
(* every call returns, and Close ends pumpOut and every pumpIn.            *)
Tunnel == INSTANCE TunnelPromise WITH
            state <- CASE owner = "idle" -> "idle"
                       [] owner \in {"closing", "closed"} ->
                            IF Left THEN "closed" ELSE "released"
                       [] OTHER -> "calling",
            calls <- n,
            linked <- conn,
            said <- IF owner = "idle" /\ n # 0
                    THEN IF conn = 0 THEN "no" ELSE "yes"
                    ELSE "none"
IsTunnel == Tunnel!Spec
=============================================================================
