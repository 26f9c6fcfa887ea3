------------------------- MODULE MasqueTunnelProofs -------------------------
(* For any number of handshakes: the sockets, the timer and the stale      *)
(* readers of MasqueTunnel are as its invariants say.                      *)
EXTENDS MasqueTunnel, TLAPS

Dialled == owner \in {"dialling", "dialled", "starting"}

(* The owner's progress: a dial in hand, or a peer installed, or neither.  *)
OwnerInv ==
  /\ conn = drop
  /\ drop # 0 => owner = "idle" /\ drop <= n
  /\ owner = "dropped" => n # 0
  /\ Dialled => n # 0 /\ peer[n] = "up"
  /\ \A p \in Peers : peer[p] = "up" <=> (p = drop \/ (Dialled /\ p = n))

(* What has not been dialled yet has no timer, no reader and no context.   *)
FutureInv ==
  \A p \in Peers :
    (p > n \/ (p = n /\ owner = "dropped")) =>
       /\ timer[p] = "off" /\ pumpIn[p] = "none" /\ peer[p] = "none"
       /\ p \notin dialOff /\ p \notin pumpOff

(* The timer of the dial in hand may have fired; that of an installed peer *)
(* is stopped, and without it the context is as the caller left it.        *)
TimerInv ==
  /\ owner = "dialling" \/ owner = "dialled" => timer[n] \in {"armed", "fired"}
  /\ owner = "starting" => timer[n] = "stopped"
  /\ drop # 0 => timer[drop] = "stopped"
  /\ \A p \in Peers :
       peer[p] = "up" /\ p \in dialOff => ctxDone \/ timer[p] = "fired"

(* A peer with its sockets up has a live reader; a dropped one has a single*)
(* packet in hand at most, and once it is delivered only the check is left.*)
ReaderInv ==
  /\ owner \in {"dialling", "dialled"} => pumpIn[n] = "none"
  /\ \A p \in Peers :
    /\ peer[p] = "up" => p \notin pumpOff
    /\ peer[p] # "closed" => late[p] = 0
    /\ peer[p] = "closed" /\ pumpIn[p] # "none" => p \in pumpOff
    /\ late[p] <= 1
    /\ pumpIn[p] \in {"reading", "writing"} => late[p] = 0

IndInv == TypeOK /\ OwnerInv /\ FutureInv /\ TimerInv /\ ReaderInv

(* Every step keeps the types: one case per action. *)
LEMMA TypeStep == IndInv /\ [Next]_vars => TypeOK'
<1> SUFFICES ASSUME IndInv, [Next]_vars PROVE TypeOK'
  OBVIOUS
<1> USE MasqueAssumption DEF IndInv, TypeOK, FutureInv, OwnerInv, Dialled, Peers, ctxs, slot
<1>1. CASE Handshake
  BY <1>1 DEF Handshake, dropPeer
<1>2. CASE Close
  BY <1>2 DEF Close, dropPeer
<1>3. CASE CancelCtx
  BY <1>3 DEF CancelCtx
<1>4. CASE Dial
  <2>1. n \in Peers /\ owner = "dropped"
    BY <1>4 DEF Dial
  <2>2. CASE owner' = "idle"
    BY <1>4, <2>1, <2>2 DEF Dial
  <2>3. CASE owner' = "dialling"
    <3>1. \A q \in Peers : pumpIn[q] # "none" => q < n
      BY <2>1
    <3>2. dialOff' \subseteq Peers
      <4>1. dialOff' = IF ctxDone THEN dialOff \cup {n} ELSE dialOff
        BY <1>4, <2>3 DEF Dial
      <4>2. dialOff \subseteq Peers
        OBVIOUS
      <4> QED
        BY ONLY <4>1, <4>2, <2>1
    <3>3. /\ timer' = [timer EXCEPT ![n] = "armed"]
          /\ peer' = [peer EXCEPT ![n] = "up"]
          /\ UNCHANGED <<n, pumpOff, ctxDone, slot, pumpIn, pumpOut, devOpen,
                         late>>
      BY <1>4, <2>3 DEF Dial
    <3> QED
      BY <2>1, <2>3, <3>1, <3>2, <3>3
  <2> QED
    BY <1>4, <2>2, <2>3 DEF Dial
<1>5. CASE ConnectFails
  BY <1>5 DEF ConnectFails, GiveUp
<1>6. CASE ConnectSucceeds
  BY <1>6 DEF ConnectSucceeds
<1>7. CASE StopTimer
  <2>1. n \in Peers
    BY <1>7 DEF StopTimer
  <2>2. CASE timer[n] = "fired"
    BY <1>7, <2>1, <2>2 DEF StopTimer, GiveUp
  <2>3. CASE timer[n] = "armed"
    BY <1>7, <2>1, <2>3 DEF StopTimer
  <2> QED
    BY <1>7, <2>2, <2>3 DEF StopTimer
<1>8. CASE StartPump
  BY <1>8 DEF StartPump
<1>9. CASE Install
  BY <1>9 DEF Install
<1>10. CASE CloseDevice
  BY <1>10 DEF CloseDevice
<1>11. CASE PumpOutStep
  BY <1>11 DEF PumpOutStep, OutReads, OutTakes, OutSends, OutGoes
<1>12. ASSUME NEW p \in Peers, PumpInStep(p) PROVE TypeOK'
  <2>1. CASE PumpChecks(p)
    BY <2>1 DEF PumpChecks, PumpGoes
  <2>2. CASE PumpReads(p)
    <3>1. /\ pumpIn[p] = "reading"
          /\ \/ pumpIn' = [pumpIn EXCEPT ![p] = "writing"]
             \/ pumpIn' = [pumpIn EXCEPT ![p] = "ended"]
          /\ UNCHANGED <<owner, n, peer, timer, ctxs, slot, pumpOut, devOpen,
                         late>>
      BY <2>2 DEF PumpReads, PumpGoes
    <3>2. CASE pumpIn' = [pumpIn EXCEPT ![p] = "writing"]
      BY <3>1, <3>2
    <3>3. CASE pumpIn' = [pumpIn EXCEPT ![p] = "ended"]
      BY <3>1, <3>3
    <3> QED
      BY <3>1, <3>2, <3>3
  <2>3. CASE PumpWrites(p)
    <3>1. late' \in [Peers -> Nat]
      BY <2>3 DEF PumpWrites, PumpGoes
    <3>2. /\ pumpIn[p] = "writing"
          /\ \/ pumpIn' = [pumpIn EXCEPT ![p] = "check"]
             \/ pumpIn' = [pumpIn EXCEPT ![p] = "ended"]
          /\ UNCHANGED <<owner, n, peer, timer, ctxs, slot, pumpOut, devOpen>>
      BY <2>3 DEF PumpWrites, PumpGoes
    <3>3. CASE pumpIn' = [pumpIn EXCEPT ![p] = "check"]
      BY <3>1, <3>2, <3>3
    <3>4. CASE pumpIn' = [pumpIn EXCEPT ![p] = "ended"]
      BY <3>1, <3>2, <3>4
    <3> QED
      BY <3>2, <3>3, <3>4
  <2> QED
    BY <1>12, <2>1, <2>2, <2>3 DEF PumpInStep
<1>13. ASSUME NEW p \in Peers, TimerFires(p) PROVE TypeOK'
  BY <1>13 DEF TimerFires
<1>14. ASSUME NEW p \in Peers, TimerCancels(p) PROVE TypeOK'
  BY <1>14 DEF TimerCancels
<1>15. CASE UNCHANGED vars
  BY <1>15 DEF vars
<1> QED
  BY <1>1, <1>2, <1>3, <1>4, <1>5, <1>6, <1>7, <1>8, <1>9, <1>10, <1>11, <1>12, <1>13, <1>14, <1>15 DEF Next, Finish

(* The only sockets up are those in hand or installed. *)
LEMMA OwnerStep == IndInv /\ [Next]_vars => OwnerInv'
<1> SUFFICES ASSUME IndInv, [Next]_vars PROVE OwnerInv'
  OBVIOUS
<1> USE MasqueAssumption DEF IndInv, TypeOK, OwnerInv, FutureInv, Dialled, Peers, ctxs, slot
<1>1. CASE Handshake
  BY <1>1 DEF Handshake, dropPeer
<1>2. CASE Close
  BY <1>2 DEF Close, dropPeer
<1>3. CASE CancelCtx
  BY <1>3 DEF CancelCtx
<1>4. CASE Dial
  <2>1. n \in Peers /\ owner = "dropped"
    BY <1>4 DEF Dial
  <2>2. CASE owner' = "idle"
    BY <1>4, <2>1, <2>2 DEF Dial
  <2>3. CASE owner' = "dialling"
    BY <1>4, <2>1, <2>3 DEF Dial
  <2> QED
    BY <1>4, <2>2, <2>3 DEF Dial
<1>5. CASE ConnectFails
  BY <1>5 DEF ConnectFails, GiveUp
<1>6. CASE ConnectSucceeds
  BY <1>6 DEF ConnectSucceeds
<1>7. CASE StopTimer
  BY <1>7 DEF StopTimer, GiveUp
<1>8. CASE StartPump
  BY <1>8 DEF StartPump
<1>9. CASE Install
  BY <1>9 DEF Install
<1>10. CASE CloseDevice
  BY <1>10 DEF CloseDevice
<1>11. CASE PumpOutStep
  BY <1>11 DEF PumpOutStep, OutReads, OutTakes, OutSends, OutGoes
<1>12. ASSUME NEW p \in Peers, PumpInStep(p) PROVE OwnerInv'
  BY <1>12 DEF PumpInStep, PumpChecks, PumpReads, PumpWrites, PumpGoes
<1>13. ASSUME NEW p \in Peers, TimerFires(p) PROVE OwnerInv'
  BY <1>13 DEF TimerFires
<1>14. ASSUME NEW p \in Peers, TimerCancels(p) PROVE OwnerInv'
  BY <1>14 DEF TimerCancels
<1>15. CASE UNCHANGED vars
  BY <1>15 DEF vars
<1> QED
  BY <1>1, <1>2, <1>3, <1>4, <1>5, <1>6, <1>7, <1>8, <1>9, <1>10, <1>11, <1>12, <1>13, <1>14, <1>15 DEF Next, Finish

(* Nothing happens to a peer before it is dialled. *)
LEMMA FutureStep == IndInv /\ [Next]_vars => FutureInv'
<1> SUFFICES ASSUME IndInv, [Next]_vars PROVE FutureInv'
  OBVIOUS
<1> USE MasqueAssumption DEF IndInv, TypeOK, FutureInv, OwnerInv, Dialled, Peers, ctxs, slot
<1>1. CASE Handshake
  BY <1>1 DEF Handshake, dropPeer
<1>2. CASE Close
  BY <1>2 DEF Close, dropPeer
<1>3. CASE CancelCtx
  BY <1>3 DEF CancelCtx
<1>4. CASE Dial
  <2>1. n \in Peers /\ owner = "dropped"
    BY <1>4 DEF Dial
  <2>2. CASE owner' = "idle"
    BY <1>4, <2>1, <2>2 DEF Dial
  <2>3. CASE owner' = "dialling"
    BY <1>4, <2>1, <2>3 DEF Dial
  <2> QED
    BY <1>4, <2>2, <2>3 DEF Dial
<1>5. CASE ConnectFails
  BY <1>5 DEF ConnectFails, GiveUp
<1>6. CASE ConnectSucceeds
  BY <1>6 DEF ConnectSucceeds
<1>7. CASE StopTimer
  BY <1>7 DEF StopTimer, GiveUp
<1>8. CASE StartPump
  BY <1>8 DEF StartPump
<1>9. CASE Install
  BY <1>9 DEF Install
<1>10. CASE CloseDevice
  BY <1>10 DEF CloseDevice
<1>11. CASE PumpOutStep
  BY <1>11 DEF PumpOutStep, OutReads, OutTakes, OutSends, OutGoes
<1>12. ASSUME NEW p \in Peers, PumpInStep(p) PROVE FutureInv'
  BY <1>12 DEF PumpInStep, PumpChecks, PumpReads, PumpWrites, PumpGoes
<1>13. ASSUME NEW p \in Peers, TimerFires(p) PROVE FutureInv'
  BY <1>13 DEF TimerFires
<1>14. ASSUME NEW p \in Peers, TimerCancels(p) PROVE FutureInv'
  BY <1>14 DEF TimerCancels
<1>15. CASE UNCHANGED vars
  BY <1>15 DEF vars
<1> QED
  BY <1>1, <1>2, <1>3, <1>4, <1>5, <1>6, <1>7, <1>8, <1>9, <1>10, <1>11, <1>12, <1>13, <1>14, <1>15 DEF Next, Finish

(* A stopped timer cancels nothing. *)
LEMMA TimerStep == IndInv /\ [Next]_vars => TimerInv'
<1> SUFFICES ASSUME IndInv, [Next]_vars PROVE TimerInv'
  OBVIOUS
<1> USE MasqueAssumption DEF IndInv, TypeOK, FutureInv, OwnerInv, TimerInv, Dialled, Peers, ctxs, slot
<1>1. CASE Handshake
  BY <1>1 DEF Handshake, dropPeer
<1>2. CASE Close
  BY <1>2 DEF Close, dropPeer
<1>3. CASE CancelCtx
  BY <1>3 DEF CancelCtx
<1>4. CASE Dial
  <2>1. n \in Peers /\ owner = "dropped"
    BY <1>4 DEF Dial
  <2>2. CASE owner' = "idle"
    BY <1>4, <2>1, <2>2 DEF Dial
  <2>3. CASE owner' = "dialling"
    BY <1>4, <2>1, <2>3 DEF Dial
  <2> QED
    BY <1>4, <2>2, <2>3 DEF Dial
<1>5. CASE ConnectFails
  BY <1>5 DEF ConnectFails, GiveUp
<1>6. CASE ConnectSucceeds
  BY <1>6 DEF ConnectSucceeds
<1>7. CASE StopTimer
  BY <1>7 DEF StopTimer, GiveUp
<1>8. CASE StartPump
  BY <1>8 DEF StartPump
<1>9. CASE Install
  BY <1>9 DEF Install
<1>10. CASE CloseDevice
  BY <1>10 DEF CloseDevice
<1>11. CASE PumpOutStep
  BY <1>11 DEF PumpOutStep, OutReads, OutTakes, OutSends, OutGoes
<1>12. ASSUME NEW p \in Peers, PumpInStep(p) PROVE TimerInv'
  BY <1>12 DEF PumpInStep, PumpChecks, PumpReads, PumpWrites, PumpGoes
<1>13. ASSUME NEW p \in Peers, TimerFires(p) PROVE TimerInv'
  BY <1>13 DEF TimerFires
<1>14. ASSUME NEW p \in Peers, TimerCancels(p) PROVE TimerInv'
  BY <1>14 DEF TimerCancels
<1>15. CASE UNCHANGED vars
  BY <1>15 DEF vars
<1> QED
  BY <1>1, <1>2, <1>3, <1>4, <1>5, <1>6, <1>7, <1>8, <1>9, <1>10, <1>11, <1>12, <1>13, <1>14, <1>15 DEF Next, Finish

(* A dropped peer's reader hands over one packet at most. *)
LEMMA ReaderStep == IndInv /\ [Next]_vars => ReaderInv'
<1> SUFFICES ASSUME IndInv, [Next]_vars PROVE ReaderInv'
  OBVIOUS
<1> USE MasqueAssumption DEF IndInv, TypeOK, FutureInv, OwnerInv, ReaderInv, Dialled, Peers, ctxs, slot
<1>1. CASE Handshake
  BY <1>1 DEF Handshake, dropPeer
<1>2. CASE Close
  BY <1>2 DEF Close, dropPeer
<1>3. CASE CancelCtx
  BY <1>3 DEF CancelCtx
<1>4. CASE Dial
  <2>1. n \in Peers /\ owner = "dropped"
    BY <1>4 DEF Dial
  <2>2. CASE owner' = "idle"
    BY <1>4, <2>1, <2>2 DEF Dial
  <2>3. CASE owner' = "dialling"
    BY <1>4, <2>1, <2>3 DEF Dial
  <2> QED
    BY <1>4, <2>2, <2>3 DEF Dial
<1>5. CASE ConnectFails
  BY <1>5 DEF ConnectFails, GiveUp
<1>6. CASE ConnectSucceeds
  BY <1>6 DEF ConnectSucceeds
<1>7. CASE StopTimer
  BY <1>7 DEF StopTimer, GiveUp
<1>8. CASE StartPump
  BY <1>8 DEF StartPump
<1>9. CASE Install
  BY <1>9 DEF Install
<1>10. CASE CloseDevice
  BY <1>10 DEF CloseDevice
<1>11. CASE PumpOutStep
  BY <1>11 DEF PumpOutStep, OutReads, OutTakes, OutSends, OutGoes
<1>12. ASSUME NEW p \in Peers, PumpInStep(p) PROVE ReaderInv'
  BY <1>12 DEF PumpInStep, PumpChecks, PumpReads, PumpWrites, PumpGoes
<1>13. ASSUME NEW p \in Peers, TimerFires(p) PROVE ReaderInv'
  BY <1>13 DEF TimerFires
<1>14. ASSUME NEW p \in Peers, TimerCancels(p) PROVE ReaderInv'
  BY <1>14 DEF TimerCancels
<1>15. CASE UNCHANGED vars
  BY <1>15 DEF vars
<1> QED
  BY <1>1, <1>2, <1>3, <1>4, <1>5, <1>6, <1>7, <1>8, <1>9, <1>10, <1>11, <1>12, <1>13, <1>14, <1>15 DEF Next, Finish

(* The first state has nothing in hand, nothing installed, nothing late.   *)
LEMMA InitEstablishes == Init => IndInv
<1> SUFFICES ASSUME Init PROVE IndInv
  OBVIOUS
<1> USE MasqueAssumption DEF Init, Peers
<1>1. TypeOK
  <2>1. /\ peer \in [Peers -> {"none", "up", "closed"}]
        /\ timer \in [Peers -> {"off", "armed", "fired", "stopped"}]
        /\ pumpIn \in [Peers -> {"none", "check", "reading", "writing",
                                 "ended"}]
        /\ late \in [Peers -> Nat]
    OBVIOUS
  <2>2. n \in 0 .. Handshakes
    OBVIOUS
  <2>3. \A p \in Peers : pumpIn[p] = "none" /\ peer[p] = "none"
    OBVIOUS
  <2>4. owner = "idle" /\ pumpOut = "reading" /\ devOpen = TRUE
        /\ ctxDone = FALSE /\ dialOff = {} /\ pumpOff = {}
        /\ conn = 0 /\ drop = 0
    OBVIOUS
  <2> QED
    BY ONLY <2>1, <2>2, <2>3, <2>4 DEF TypeOK
<1>2. OwnerInv /\ TimerInv
  BY DEF OwnerInv, TimerInv, Dialled
<1>3. FutureInv /\ ReaderInv
  BY DEF FutureInv, ReaderInv
<1> QED
  BY <1>1, <1>2, <1>3 DEF IndInv

(* The strengthening holds of every state.                                 *)
LEMMA TunnelInvariant == Spec => []IndInv
<1>1. IndInv /\ [Next]_vars => IndInv'
  BY TypeStep, OwnerStep, FutureStep, TimerStep, ReaderStep DEF IndInv
<1> QED
  BY InitEstablishes, <1>1, PTL DEF Spec

(* For any number of handshakes the state is of its types.                 *)
THEOREM TypeCorrect == Spec => []TypeOK
<1>1. IndInv => TypeOK
  BY DEF IndInv
<1> QED
  BY TunnelInvariant, <1>1, PTL

(* Between handshakes the only sockets open are the installed peer's: no   *)
(* failed, late or replaced dial leaks its own.                            *)
THEOREM NoLeak == Spec => []OnlyInstalledUp
<1>1. IndInv => OnlyInstalledUp
  BY MasqueAssumption
     DEF IndInv, TypeOK, OwnerInv, OnlyInstalledUp, Dialled, Peers
<1> QED
  BY TunnelInvariant, <1>1, PTL

(* The timer of a dial never ends the tunnel that the dial brought up.     *)
THEOREM TimerHarmless == Spec => []TimerSparesPeer
<1>1. IndInv => TimerSparesPeer
  BY DEF IndInv, TypeOK, OwnerInv, TimerInv, TimerSparesPeer, Peers
<1> QED
  BY TunnelInvariant, <1>1, PTL

(* A peer that was swapped out delivers one packet more at most.           *)
THEOREM StaleIsOne == Spec => []OneLatePacket
<1>1. IndInv => OneLatePacket
  BY DEF IndInv, ReaderInv, OneLatePacket
<1> QED
  BY TunnelInvariant, <1>1, PTL

-----------------------------------------------------------------------------
(* Readers and the writer only ever come to an end: what was over before a *)
(* step of theirs is over after it.                                        *)
LEMMA NoneComesBack ==
  ASSUME TypeOK, PumpOutStep \/ \E p \in Peers : PumpInStep(p)
  PROVE  /\ UNCHANGED <<owner, n, conn>>
         /\ Left' => Left
<1>1. CASE PumpOutStep
  <2>1. UNCHANGED <<owner, n, conn, pumpIn>> /\ pumpOut # "ended"
        BY <1>1 DEF PumpOutStep, OutReads, OutTakes, OutSends, OutGoes, slot
  <2> QED  BY <2>1 DEF Left
<1>2. ASSUME NEW p \in Peers, PumpInStep(p)
      PROVE  /\ UNCHANGED <<owner, n, conn>>
             /\ Left' => Left
  <2>1. UNCHANGED <<owner, n, conn>>
        BY <1>2 DEF PumpInStep, PumpChecks, PumpReads, PumpWrites, PumpGoes,
           slot
  <2>2. pumpIn[p] \in {"check", "reading", "writing"}
        BY <1>2 DEF PumpInStep, PumpChecks, PumpReads, PumpWrites
  <2> QED  BY <2>1, <2>2 DEF Left
<1> QED  BY <1>1, <1>2

(* Without a change of these, the promise sees nothing.                    *)
LEMMA Unseen ==
  ASSUME UNCHANGED <<owner, n, conn, pumpIn, pumpOut>>
  PROVE  UNCHANGED Tunnel!vars
  BY DEF Tunnel!vars, Left

(* The tunnel starts as TunnelPromise does, and no step of its owner, its  *)
(* timers or its goroutines is anything but a step of the promise or none: *)
(* a call leaves the old peer at once, true is said of this call's peer,   *)
(* and what is left after Close only becomes less.  The fairness of the    *)
(* promise is the run's.                                                   *)
THEOREM MasqueTunnelIsTunnel == Spec => Tunnel!Safe
<1>1. Init => Tunnel!Init
      BY DEF Init, Tunnel!Init
<1>2. ASSUME IndInv, [Next]_vars  PROVE [Tunnel!Next]_(Tunnel!vars)
  <2>0. OwnerInv /\ n \in Nat
        BY <1>2, MasqueAssumption DEF IndInv, TypeOK
  <2>1. CASE Handshake
    <3>1. /\ owner = "idle" /\ owner' = "dropped"
          /\ n' = n + 1 /\ conn' = 0
          BY <2>1 DEF Handshake, dropPeer
    <3> QED  BY <3>1 DEF Tunnel!Next, Tunnel!Call
  <2>2. CASE Close
    <3>1. owner = "idle" /\ owner' = "closing" /\ n' = n /\ conn' = 0
          BY <2>2 DEF Close, dropPeer
    <3> QED  BY <3>1 DEF Tunnel!Next, Tunnel!Close
  <2>3. CASE Install
    <3>1. /\ owner = "starting" /\ owner' = "idle" /\ n' = n
          /\ conn' = n /\ n # 0
          BY <2>0, <2>3 DEF Install, OwnerInv, Dialled
    <3> QED  BY <3>1 DEF Tunnel!Next, Tunnel!Return
  <2>4. CASE Dial \/ ConnectFails \/ StopTimer
    <3>1. /\ owner \in {"dropped", "dialling", "dialled"}
          /\ owner' \in {"idle", "dialling", "starting"}
          /\ n' = n /\ conn' = conn
          BY <2>4 DEF Dial, ConnectFails, StopTimer, GiveUp, slot
    <3>2. n # 0 /\ conn = 0
          BY <2>0, <3>1 DEF OwnerInv, Dialled
    <3>3. CASE owner' = "idle"
          BY <3>1, <3>2, <3>3 DEF Tunnel!Next, Tunnel!Return
    <3>4. CASE owner' # "idle"
          BY <3>1, <3>4 DEF Tunnel!vars
    <3> QED  BY <3>3, <3>4
  <2>5. CASE ConnectSucceeds \/ StartPump
    <3>1. /\ owner \in {"dialling", "starting"}
          /\ owner' \in {"dialled", "starting"}
          /\ n' = n /\ conn' = conn
          BY <2>5 DEF ConnectSucceeds, StartPump, slot
    <3> QED  BY <3>1 DEF Tunnel!vars
  <2>6. CASE CloseDevice
    <3>1. /\ owner = "closing" /\ owner' = "closed"
          /\ UNCHANGED <<n, conn, pumpIn, pumpOut>>
          BY <2>6 DEF CloseDevice, slot
    <3> QED  BY <3>1 DEF Tunnel!vars, Left
  <2>7. CASE PumpOutStep \/ \E p \in Peers : PumpInStep(p)
    <3>1. UNCHANGED <<owner, n, conn>> /\ (Left' => Left)
          BY <1>2, <2>7, NoneComesBack DEF IndInv
    <3>2. CASE owner \in {"closing", "closed"} /\ Left /\ ~Left'
          BY <3>1, <3>2 DEF Tunnel!Next, Tunnel!Release
    <3>3. CASE ~ (owner \in {"closing", "closed"} /\ Left /\ ~Left')
          BY <3>1, <3>3 DEF Tunnel!vars
    <3> QED  BY <3>2, <3>3
  <2>8. ASSUME \/ CancelCtx \/ UNCHANGED vars
               \/ \E p \in Peers : TimerFires(p) \/ TimerCancels(p)
        PROVE  UNCHANGED Tunnel!vars
    <3>1. UNCHANGED <<owner, n, conn, pumpIn, pumpOut>>
          BY <2>8 DEF CancelCtx, TimerFires, TimerCancels, ctxs, slot, vars
    <3> QED  BY <3>1, Unseen
  <2> QED
      BY <1>2, <2>1, <2>2, <2>3, <2>4, <2>5, <2>6, <2>7, <2>8 DEF Next, Finish
<1> QED  BY <1>1, <1>2, TunnelInvariant, PTL DEF Spec, Tunnel!Safe
=============================================================================
