-------------------------- MODULE PortProbeProofs ---------------------------
(* Phase 1 (reachablePorts of src/discovery.go) implements PortChoice, for *)
(* every pool size, every number of addresses and all port lists.          *)
EXTENDS PortProbe, TunnelPoolProofs

PrimarySet == ToSet(PrimaryPorts)
ExtendedSet == ToSet(ExtendedPorts)

(* Every port of a list was asked of address i, and none answered.         *)
SilentAt(i, ports) == \A p \in ports : <<i, p>> \in asked /\ <<i, p>> \notin heard

(* What a goroutine knows in the middle of its sweep: its own list is what *)
(* the address answered, the rest of the ports is still to be asked, and   *)
(* as long as nobody cancelled, all ports before its own were.             *)
SweepAt(t) ==
  /\ dialling[t] => worker[t] = "busy" /\ pos[t] <= Len(Ports)
  /\ recorded[t] => /\ worker[t] = "busy" /\ found[t] # {} /\ open # {}
                    /\ pos[t] > Len(Ports)
  /\ worker[t] = "busy" =>
       /\ found[t] = {p \in PortSet : <<job[t], p>> \in heard}
       /\ \A q \in pos[t] .. Len(Ports) : <<job[t], Ports[q]>> \notin asked
       /\ ~cancelled =>
            \A q \in 1 .. pos[t] - 1 : <<job[t], Ports[q]>> \in asked

SweepInv == \A t \in Tunnels : SweepAt(t)

(* What the addresses as a whole have been asked.  Nobody but the winner   *)
(* and the user cancels, so that without either of them the addresses that *)
(* are done, and the primary list once it is left, are silent.             *)
AskedInv ==
  /\ list = "primary" => asked \subseteq Jobs \X PrimarySet
  /\ \A i \in Jobs : i >= next => \A p \in PortSet : <<i, p>> \notin asked
  /\ cancelled => quit \/ open # {}
  /\ ~quit /\ open = {} =>
       \A i \in Jobs : ran[i] = 1 => SilentAt(i, PortSet)
  /\ ~quit /\ list = "extended" => \A i \in Jobs : SilentAt(i, PrimarySet)

(* Where the caller is.                                                    *)
CallerInv ==
  /\ phase \in {"create", "refused"} => open = {}
  /\ outcome # "pending" =>
       PoolOver /\ (phase = "returned" /\ open = {} => list = "extended")

PhaseOneInv == IndInv /\ TypeOK /\ SweepInv /\ AskedInv /\ CallerInv

-----------------------------------------------------------------------------
(* The two lists have no port in common and none twice.                    *)
LEMMA TwoLists ==
  /\ Len(PrimaryPorts) \in Nat /\ Len(ExtendedPorts) \in Nat
  /\ \A q, r \in 1 .. Len(PrimaryPorts) :
       PrimaryPorts[q] = PrimaryPorts[r] => q = r
  /\ \A q, r \in 1 .. Len(ExtendedPorts) :
       ExtendedPorts[q] = ExtendedPorts[r] => q = r
  /\ PrimarySet \cap ExtendedSet = {}
<1> DEFINE both == PrimaryPorts \o ExtendedPorts
<1>1. /\ PrimaryPorts \in Seq(PrimarySet) /\ ExtendedPorts \in Seq(ExtendedSet)
      /\ \A a, b \in DOMAIN both : both[a] = both[b] => a = b
      BY PortsAssumption DEF PrimarySet, ExtendedSet, IsInjective
<1>2. /\ Len(PrimaryPorts) \in Nat /\ Len(ExtendedPorts) \in Nat
      /\ DOMAIN both = 1 .. Len(PrimaryPorts) + Len(ExtendedPorts)
      /\ \A q \in 1 .. Len(PrimaryPorts) : both[q] = PrimaryPorts[q]
      /\ \A q \in 1 .. Len(ExtendedPorts) :
           both[Len(PrimaryPorts) + q] = ExtendedPorts[q]
      BY <1>1
<1>3. /\ PrimarySet = {PrimaryPorts[q] : q \in 1 .. Len(PrimaryPorts)}
      /\ ExtendedSet = {ExtendedPorts[q] : q \in 1 .. Len(ExtendedPorts)}
      BY <1>1 DEF PrimarySet, ExtendedSet, ToSet
<1> HIDE DEF both
<1>4. \A q, r \in 1 .. Len(PrimaryPorts) :
        PrimaryPorts[q] = PrimaryPorts[r] => q = r
      BY <1>1, <1>2
<1>5. \A q, r \in 1 .. Len(ExtendedPorts) :
        ExtendedPorts[q] = ExtendedPorts[r] => q = r
  <2> SUFFICES ASSUME NEW q \in 1 .. Len(ExtendedPorts),
                      NEW r \in 1 .. Len(ExtendedPorts),
                      ExtendedPorts[q] = ExtendedPorts[r]
               PROVE  q = r
      OBVIOUS
  <2>1. /\ Len(PrimaryPorts) + q \in DOMAIN both
        /\ Len(PrimaryPorts) + r \in DOMAIN both
        BY <1>2
  <2>2. both[Len(PrimaryPorts) + q] = both[Len(PrimaryPorts) + r]
        BY <1>2
  <2>3. Len(PrimaryPorts) + q = Len(PrimaryPorts) + r
        BY <1>1, <2>1, <2>2
  <2> QED  BY <1>2, <2>3
<1>6. PrimarySet \cap ExtendedSet = {}
  <2> SUFFICES ASSUME NEW q \in 1 .. Len(PrimaryPorts),
                      NEW r \in 1 .. Len(ExtendedPorts),
                      PrimaryPorts[q] = ExtendedPorts[r]
               PROVE  FALSE
      BY <1>3
  <2>1. /\ q \in DOMAIN both /\ Len(PrimaryPorts) + r \in DOMAIN both
        /\ both[q] = both[Len(PrimaryPorts) + r]
        BY <1>2
  <2>2. q = Len(PrimaryPorts) + r
        BY <1>1, <2>1
  <2> QED  BY <1>2, <2>2
<1> QED  BY <1>2, <1>4, <1>5, <1>6

(* The list under way is one of the two, and its indices are its ports.    *)
LEMMA ListUnderWay ==
  ASSUME list \in {"primary", "extended"}
  PROVE  /\ Len(Ports) \in Nat
         /\ PortSet = {Ports[q] : q \in 1 .. Len(Ports)}
         /\ \A q, r \in 1 .. Len(Ports) : Ports[q] = Ports[r] => q = r
         /\ list = "primary" => PortSet = PrimarySet
         /\ list = "extended" => PortSet = ExtendedSet
<1>1. /\ PrimaryPorts \in Seq(PrimarySet) /\ ExtendedPorts \in Seq(ExtendedSet)
      BY PortsAssumption DEF PrimarySet, ExtendedSet
<1>2. /\ PrimarySet = {PrimaryPorts[q] : q \in 1 .. Len(PrimaryPorts)}
      /\ ExtendedSet = {ExtendedPorts[q] : q \in 1 .. Len(ExtendedPorts)}
      BY <1>1 DEF PrimarySet, ExtendedSet, ToSet
<1>3. CASE list = "primary"
      BY <1>2, <1>3, TwoLists DEF Ports, PortSet, PrimarySet
<1>4. CASE list = "extended"
      BY <1>2, <1>4, TwoLists DEF Ports, PortSet, ExtendedSet
<1> QED  BY <1>3, <1>4

(* Phase 1 starts in a state of the invariant.                             *)
LEMMA PhaseOneStarts == Init => PhaseOneInv
<1> SUFFICES ASSUME Init  PROVE PhaseOneInv
    OBVIOUS
<1>1. IndInv
      BY InitEstablishes DEF Init
<1>2. TypeOK
  <2>1. Len(Ports) \in Nat
        BY ListUnderWay DEF Init
  <2>2. pos \in [Tunnels -> 1 .. Len(Ports) + 1]
        BY <2>1 DEF Init
  <2>3. found \in [Tunnels -> SUBSET PortSet] /\ open \in SUBSET PortSet
        BY DEF Init
  <2>4. asked \in SUBSET (Jobs \X AllPorts) /\ heard \in SUBSET asked
        BY DEF Init
  <2> QED  BY <1>1, <2>2, <2>3, <2>4 DEF Init, TypeOK, IndInv
<1>3. SweepInv /\ AskedInv /\ CallerInv
      BY SizeAssumption
      DEF Init, PoolInit, SweepInv, SweepAt, AskedInv, CallerInv, Tunnels, Jobs
<1> QED  BY <1>1, <1>2, <1>3 DEF PhaseOneInv

(* Apart from SweepExtended, which starts another pool, a step is one of   *)
(* the pool or none that the pool can see.                                 *)
LEMMA StepOfPool ==
  ASSUME [Next]_vars
  PROVE  [PoolNext]_poolVars \/ SweepExtended
<1>1. CASE Caller
      BY <1>1 DEF Caller, PoolNext, Take, Answer
<1>2. ASSUME NEW t \in Tunnels, Goroutine(t)  PROVE [PoolNext]_poolVars
      BY <1>2 DEF Goroutine, PoolNext, GiveUp, Dial, DialCut, DialEnds,
                  SweepEmpty, Record, CancelRest
<1>3. CASE Quit \/ UNCHANGED vars
      BY <1>3 DEF Quit, vars
<1> QED  BY <1>1, <1>2, <1>3 DEF Next

(* The invariant of the pool holds of each of the two pools.               *)
LEMMA PoolKept == PhaseOneInv /\ [Next]_vars => IndInv'
<1>1. (PoolInit => IndInv)'
      BY InitEstablishes, PTL
<1>2. SweepExtended => PoolInit'
      BY DEF SweepExtended, NewPool, PoolInit
<1> QED  BY <1>1, <1>2, PoolStep, StepOfPool DEF PhaseOneInv

(* The port a goroutine dials is one of the list under way.                *)
LEMMA PortAtHand ==
  ASSUME PhaseOneInv, NEW t \in Tunnels, dialling[t]
  PROVE  /\ worker[t] = "busy" /\ job[t] \in Jobs /\ job[t] < next
         /\ pos[t] \in 1 .. Len(Ports)
         /\ Ports[pos[t]] \in PortSet /\ Ports[pos[t]] \in AllPorts
<1>1. worker[t] = "busy" /\ pos[t] <= Len(Ports)
      BY DEF PhaseOneInv, SweepInv, SweepAt
<1>2. job[t] \in Jobs /\ job[t] < next
      BY <1>1, SizeAssumption
      DEF PhaseOneInv, IndInv, PoolTypeOK, Lifecycle, EachIndexOnce, NoJob, Jobs
<1>3. pos[t] \in 1 .. Len(Ports)
      BY <1>1, ListUnderWay DEF PhaseOneInv, TypeOK
<1>4. Ports[pos[t]] \in PortSet
      BY <1>3, ListUnderWay DEF PhaseOneInv, TypeOK
<1>5. PortSet \subseteq AllPorts
      BY ListUnderWay DEF PhaseOneInv, TypeOK, AllPorts, PrimarySet, ExtendedSet
<1> QED  BY <1>1, <1>2, <1>3, <1>4, <1>5

(* Each step of phase 1 keeps the types, those of the list it is at.       *)
LEMMA TypeKept == PhaseOneInv /\ [Next]_vars => TypeOK'
<1> SUFFICES ASSUME PhaseOneInv, [Next]_vars
             PROVE  TypeOK'
    OBVIOUS
<1> USE DEF TypeOK
<1>1. PoolTypeOK' /\ TypeOK
      BY PoolKept DEF IndInv, PhaseOneInv
<1>2. Len(Ports) \in Nat
      BY <1>1, ListUnderWay
<1>3. CASE UNCHANGED sweepVars
      BY <1>1, <1>3 DEF sweepVars, Ports, PortSet
<1>4. ASSUME NEW t \in Tunnels, Take(t)  PROVE TypeOK'
      BY <1>1, <1>2, <1>4 DEF Take, Ports, PortSet
<1>5. CASE SweepExtended
  <2>1. Len(Ports)' \in Nat
        BY <1>5, TwoLists DEF SweepExtended, Ports
  <2> QED  BY <1>1, <1>5, <2>1 DEF SweepExtended, NewLocals
<1>6. CASE Answer \/ Quit
      BY <1>1, <1>6 DEF Answer, Quit, Ports, PortSet
<1>7. ASSUME NEW t \in Tunnels, Dial(t) \/ Record(t) \/ CancelRest(t)
      PROVE  TypeOK'
      BY <1>1, <1>7 DEF Dial, Record, CancelRest, Ports, PortSet
<1>8. ASSUME NEW t \in Tunnels, DialCut(t)  PROVE TypeOK'
  <2>1. pos[t] \in 1 .. Len(Ports)
        BY <1>8, PortAtHand DEF DialCut
  <2> QED  BY <1>1, <1>2, <1>8, <2>1 DEF DialCut, Ports, PortSet
<1>9. ASSUME NEW t \in Tunnels, NEW answered \in BOOLEAN,
             DialEnds(t, answered)
      PROVE  TypeOK'
  <2>1. /\ pos[t] \in 1 .. Len(Ports) /\ job[t] \in Jobs
        /\ Ports[pos[t]] \in PortSet /\ Ports[pos[t]] \in AllPorts
        BY <1>9, PortAtHand DEF DialEnds
  <2>2. /\ Ports' = Ports /\ PortSet' = PortSet
        BY <1>9 DEF DialEnds, Ports, PortSet
  <2> QED  BY <1>1, <1>2, <1>9, <2>1, <2>2 DEF DialEnds
<1>10. ASSUME NEW t \in Tunnels, GiveUp(t) \/ SweepEmpty(t)  PROVE TypeOK'
       BY <1>3, <1>10 DEF GiveUp, SweepEmpty
<1> QED
    BY <1>3, <1>4, <1>5, <1>6, <1>7, <1>8, <1>9, <1>10
    DEF Next, Caller, Goroutine, vars

(* A goroutine at work has an address in hand that no other has, and the   *)
(* call it works for is under way.                                         *)
LEMMA AtWork ==
  ASSUME PhaseOneInv, NEW t \in Tunnels, worker[t] = "busy"
  PROVE  /\ phase \in {"feed", "wait"} /\ outcome = "pending"
         /\ job[t] \in Jobs /\ job[t] < next /\ ran[job[t]] = 0
         /\ \A u \in Tunnels \ {t} : job[u] # job[t]
<1>1. phase \in {"feed", "wait"}
      BY DEF PhaseOneInv, IndInv, PoolTypeOK, Lifecycle
<1>2. job[t] \in Jobs
      BY SizeAssumption
      DEF PhaseOneInv, IndInv, PoolTypeOK, Lifecycle, NoJob, Jobs
<1>3. job[t] < next
      BY <1>2, SizeAssumption
      DEF PhaseOneInv, IndInv, PoolTypeOK, EachIndexOnce, Jobs
<1>4. ran[job[t]] = 0 /\ \A u \in Tunnels \ {t} : job[u] # job[t]
      BY <1>2, <1>3 DEF PhaseOneInv, IndInv, EachIndexOnce
<1>5. outcome = "pending"
      BY <1>1 DEF PhaseOneInv, CallerInv, PoolOver
<1> QED  BY <1>1, <1>2, <1>3, <1>4, <1>5

(* Each step leaves the caller where its outcome says.                     *)
LEMMA CallerKept == PhaseOneInv /\ [Next]_vars => CallerInv'
<1> SUFFICES ASSUME PhaseOneInv, [Next]_vars
             PROVE  CallerInv'
    OBVIOUS
<1> USE DEF CallerInv, PoolOver
<1>0. CallerInv
      BY DEF PhaseOneInv
<1>1. CASE PoolCaller /\ UNCHANGED sweepVars
      BY <1>0, <1>1
      DEF PoolCaller, CreateTunnel, StartWorkers, Refuse, CloseJobs, Joined,
          CloseTunnel, Return, WorkerExit, sweepVars
<1>2. CASE SweepExtended
      BY <1>0, <1>2 DEF SweepExtended, NewPool, NewLocals
<1>3. CASE Answer
      BY <1>0, <1>3 DEF Answer, poolVars
<1>4. CASE Quit \/ UNCHANGED vars
      BY <1>0, <1>4 DEF Quit, vars, poolVars, sweepVars
<1>5. ASSUME NEW t \in Tunnels, Take(t)  PROVE CallerInv'
      BY <1>0, <1>5 DEF Take, Send
<1>6. ASSUME NEW t \in Tunnels, Record(t)  PROVE CallerInv'
  <2>1. phase \in {"feed", "wait"} /\ outcome = "pending"
        BY <1>6, AtWork DEF Record, Swept
  <2> QED  BY <2>1, <1>6 DEF Record, poolVars
<1>7. ASSUME NEW t \in Tunnels, GiveUp(t) \/ SweepEmpty(t) \/ CancelRest(t)
      PROVE  CallerInv'
      BY <1>0, <1>7 DEF GiveUp, SweepEmpty, CancelRest, FinishJob, sweepVars
<1>8. ASSUME NEW t \in Tunnels, NEW answered \in BOOLEAN,
             Dial(t) \/ DialCut(t) \/ DialEnds(t, answered)
      PROVE  CallerInv'
      BY <1>0, <1>8 DEF Dial, DialCut, DialEnds, poolVars
<1> QED
    BY <1>1, <1>2, <1>3, <1>4, <1>5, <1>6, <1>7, <1>8
    DEF Next, Caller, Goroutine

(* A goroutine that a step leaves where it is, with the list, the context  *)
(* and what is known of its address, is where it was.                      *)
LEMMA SweepFrame ==
  ASSUME NEW t \in Tunnels, SweepAt(t),
         worker'[t] = "busy" => worker[t] = "busy" /\ job'[t] = job[t],
         worker[t] = "busy" => worker'[t] = "busy",
         list' = list, pos'[t] = pos[t], dialling'[t] = dialling[t],
         recorded'[t] = recorded[t], found'[t] = found[t],
         open # {} => open' # {}, cancelled => cancelled',
         worker[t] = "busy" =>
           \A p \in PortSet :
             /\ <<job[t], p>> \in asked' <=> <<job[t], p>> \in asked
             /\ <<job[t], p>> \in heard' <=> <<job[t], p>> \in heard,
         list \in {"primary", "extended"}, pos[t] \in 1 .. Len(Ports) + 1
  PROVE  SweepAt(t)'
<1>1. Ports' = Ports /\ PortSet' = PortSet
      BY DEF Ports, PortSet
<1>2. \A q \in 1 .. Len(Ports) : Ports[q] \in PortSet
      BY ListUnderWay
<1>3. /\ pos[t] .. Len(Ports) \subseteq 1 .. Len(Ports)
      /\ 1 .. pos[t] - 1 \subseteq 1 .. Len(Ports)
      BY ListUnderWay
<1> QED  BY <1>1, <1>2, <1>3 DEF SweepAt

(* Each step of any goroutine, of the caller or of the user leaves all     *)
(* sweeps as SweepAt says, the one that makes the step and the others.     *)
LEMMA SweepKept == PhaseOneInv /\ [Next]_vars => SweepInv'
<1> SUFFICES ASSUME PhaseOneInv, [Next]_vars, NEW u \in Tunnels
             PROVE  SweepAt(u)'
    BY DEF SweepInv, Tunnels, PoolSize, AtLeastOne
<1>1. /\ SweepAt(u) /\ list \in {"primary", "extended"}
      /\ pos[u] \in 1 .. Len(Ports) + 1 /\ Len(Ports) \in Nat
      /\ worker \in [Tunnels -> {"unborn", "idle", "busy", "gone"}]
      /\ pos \in [Tunnels -> 1 .. Len(Ports) + 1]
      /\ dialling \in [Tunnels -> BOOLEAN]
      /\ found \in [Tunnels -> SUBSET PortSet]
      /\ recorded \in [Tunnels -> BOOLEAN] /\ job \in [Tunnels -> 0 .. N]
      /\ heard \subseteq asked
      BY ListUnderWay DEF PhaseOneInv, SweepInv, TypeOK, IndInv, PoolTypeOK
<1>2. CASE PoolCaller /\ UNCHANGED sweepVars
  <2>1. /\ worker'[u] = "busy" <=> worker[u] = "busy"
        /\ job' = job
        BY <1>1, <1>2
        DEF PoolCaller, CreateTunnel, StartWorkers, Refuse, CloseJobs, Joined,
            CloseTunnel, Return, WorkerExit, PhaseOneInv, IndInv, Lifecycle
  <2> QED  BY <1>1, <1>2, <2>1, SweepFrame DEF sweepVars
<1>3. CASE UNCHANGED vars \/ Quit \/ Answer
  <2>1. /\ cancelled => cancelled'
        /\ UNCHANGED <<worker, job, list, pos, dialling, recorded, found, open,
                       asked, heard>>
        BY <1>3 DEF vars, poolVars, sweepVars, Quit, Answer
  <2> QED  BY <1>1, <2>1, SweepFrame
<1>4. CASE SweepExtended
      BY <1>4 DEF SweepExtended, NewPool, NewLocals, SweepAt
<1>5. ASSUME NEW t \in Tunnels, Take(t)  PROVE SweepAt(u)'
  <2>1. /\ worker'[u] = (IF u = t THEN "busy" ELSE worker[u])
        /\ job'[u] = (IF u = t THEN next ELSE job[u])
        /\ pos'[u] = (IF u = t THEN 1 ELSE pos[u])
        /\ found'[u] = (IF u = t THEN {} ELSE found[u])
        /\ UNCHANGED <<list, dialling, recorded, open, cancelled, asked,
                       heard>>
        /\ worker[t] = "idle" /\ next \in Jobs
        BY <1>1, <1>5, SizeAssumption
        DEF Take, Send, PhaseOneInv, IndInv, PoolTypeOK, Jobs
  <2>2. CASE u # t
        BY <1>1, <2>1, <2>2, SweepFrame
  <2>3. CASE u = t
    <3>1. \A p \in PortSet : <<next, p>> \notin asked /\ <<next, p>> \notin heard
          BY <1>1, <2>1, SizeAssumption DEF PhaseOneInv, AskedInv, Jobs
    <3>2. Ports' = Ports /\ PortSet' = PortSet
          BY <2>1 DEF Ports, PortSet
    <3>3. \A q \in 1 .. Len(Ports) : Ports[q] \in PortSet
          BY <1>1, ListUnderWay
    <3> QED  BY <1>1, <2>1, <2>3, <3>1, <3>2, <3>3 DEF SweepAt
  <2> QED  BY <2>2, <2>3
<1>6. ASSUME NEW t \in Tunnels, GiveUp(t) \/ SweepEmpty(t) \/ CancelRest(t)
      PROVE  SweepAt(u)'
  <2>1. /\ worker'[u] = (IF u = t THEN "idle" ELSE worker[u])
        /\ u # t => job'[u] = job[u]
        /\ recorded'[u] = recorded[u] \/ (u = t /\ ~recorded'[u])
        /\ UNCHANGED <<list, pos, dialling, found, open, asked, heard>>
        /\ cancelled => cancelled'
        BY <1>1, <1>6
        DEF GiveUp, SweepEmpty, CancelRest, FinishJob, sweepVars
  <2>2. CASE u # t
        BY <1>1, <2>1, <2>2, SweepFrame
  <2>3. CASE u = t
    <3>1. ~dialling[t] /\ ~recorded'[t]
          BY <1>1, <1>6, <2>3
          DEF GiveUp, SweepEmpty, CancelRest, Sweeping, Swept, SweepAt,
              sweepVars
    <3> QED  BY <2>1, <2>3, <3>1 DEF SweepAt
  <2> QED  BY <2>2, <2>3
<1>7. ASSUME NEW t \in Tunnels, Dial(t)  PROVE SweepAt(u)'
  <2>1. /\ dialling'[u] = (IF u = t THEN TRUE ELSE dialling[u])
        /\ UNCHANGED <<worker, job, list, pos, recorded, found, open,
                       cancelled, asked, heard>>
        /\ worker[t] = "busy" /\ pos[t] <= Len(Ports)
        BY <1>1, <1>7 DEF Dial, poolVars, Sweeping
  <2> QED  BY <1>1, <2>1 DEF SweepAt, Ports, PortSet
<1>8. ASSUME NEW t \in Tunnels, DialCut(t)  PROVE SweepAt(u)'
  <2>1. /\ dialling'[u] = (IF u = t THEN FALSE ELSE dialling[u])
        /\ pos'[u] = (IF u = t THEN pos[t] + 1 ELSE pos[u])
        /\ UNCHANGED <<worker, job, list, recorded, found, open, cancelled,
                       asked, heard>>
        /\ cancelled
        BY <1>1, <1>8 DEF DialCut, poolVars
  <2> QED  BY <1>1, <1>8, <2>1 DEF SweepAt, Ports, PortSet, DialCut
<1>9. ASSUME NEW t \in Tunnels, Record(t)  PROVE SweepAt(u)'
  <2>1. /\ recorded'[u] = (IF u = t THEN TRUE ELSE recorded[u])
        /\ UNCHANGED <<worker, job, list, pos, dialling, found, cancelled,
                       asked, heard>>
        /\ found[t] # {} /\ open' # {} /\ Swept(t)
        BY <1>1, <1>9 DEF Record, poolVars
  <2> QED  BY <1>1, <2>1 DEF SweepAt, Ports, PortSet, Swept
<1>10. ASSUME NEW t \in Tunnels, NEW answered \in BOOLEAN,
              DialEnds(t, answered)
       PROVE  SweepAt(u)'
  <2> DEFINE port == Ports[pos[t]]
  <2>1. /\ worker[t] = "busy" /\ job[t] \in Jobs
        /\ pos[t] \in 1 .. Len(Ports) /\ port \in PortSet
        BY <1>10, PortAtHand DEF DialEnds
  <2>2. /\ dialling'[u] = (IF u = t THEN FALSE ELSE dialling[u])
        /\ pos'[u] = (IF u = t THEN pos[t] + 1 ELSE pos[u])
        /\ found'[u] = (IF u = t /\ answered THEN found[t] \cup {port}
                                            ELSE found[u])
        /\ asked' = asked \cup {<<job[t], port>>}
        /\ heard' = (IF answered THEN heard \cup {<<job[t], port>>} ELSE heard)
        /\ UNCHANGED <<worker, job, list, recorded, open, cancelled>>
        BY <1>1, <1>10 DEF DialEnds, poolVars
  <2> HIDE DEF port
  <2>3. CASE u # t
    <3>1. job[u] # job[t]
          BY <2>1, <2>3, AtWork
    <3> QED  BY <1>1, <2>2, <2>3, <3>1, SweepFrame
  <2>4. CASE u = t
    <3>1. Ports' = Ports /\ PortSet' = PortSet
          BY <2>2 DEF Ports, PortSet
    <3>2. found'[t] = {p \in PortSet : <<job[t], p>> \in heard'}
          BY <1>1, <2>1, <2>2, <2>4 DEF SweepAt
    <3>3. \A q \in pos[t] + 1 .. Len(Ports) : <<job[t], Ports[q]>> \notin asked'
      <4>1. \A q \in pos[t] + 1 .. Len(Ports) : Ports[q] # port
            BY <1>1, <2>1, ListUnderWay DEF port
      <4> QED  BY <1>1, <2>1, <2>2, <2>4, <4>1 DEF SweepAt
    <3>4. ~cancelled =>
            \A q \in 1 .. pos[t] : <<job[t], Ports[q]>> \in asked'
          BY <1>1, <2>1, <2>2, <2>4 DEF SweepAt, port
    <3>5. ~recorded[t]
          BY <1>1, <2>1, <2>4 DEF SweepAt
    <3> QED
        BY <1>1, <2>1, <2>2, <2>4, <3>1, <3>2, <3>3, <3>4, <3>5 DEF SweepAt
  <2> QED  BY <2>3, <2>4
<1> QED
    BY <1>2, <1>3, <1>4, <1>5, <1>6, <1>7, <1>8, <1>9, <1>10
    DEF Next, Caller, Goroutine

(* An address whose sweep ends with nothing to record, or is given up, is  *)
(* silent, unless a winner or the user is the reason.                      *)
LEMMA EndsSilent ==
  ASSUME PhaseOneInv, NEW t \in Tunnels,
         GiveUp(t) \/ SweepEmpty(t) \/ CancelRest(t),
         ~quit, open = {}
  PROVE  SilentAt(job[t], PortSet)
<1>1. ~cancelled /\ SweepAt(t) /\ heard \subseteq asked
      BY DEF PhaseOneInv, AskedInv, SweepInv, TypeOK
<1>2. SweepEmpty(t) /\ worker[t] = "busy" /\ found[t] = {}
      /\ pos[t] > Len(Ports)
      BY <1>1 DEF GiveUp, CancelRest, SweepEmpty, Swept, SweepAt
<1>3. pos[t] \in 1 .. Len(Ports) + 1 /\ Len(Ports) \in Nat
      BY ListUnderWay DEF PhaseOneInv, TypeOK
<1>4. \A p \in PortSet : \E q \in 1 .. pos[t] - 1 : p = Ports[q]
      BY <1>2, <1>3, ListUnderWay DEF PhaseOneInv, TypeOK
<1> QED  BY <1>1, <1>2, <1>4 DEF SweepAt, SilentAt

(* When probePorts has returned, all addresses are done.                   *)
LEMMA AllSilent ==
  ASSUME PhaseOneInv, phase = "returned", ~quit, open = {}
  PROVE  \A i \in Jobs : SilentAt(i, PortSet)
<1>1. \A i \in Jobs : ran[i] = 1
      BY ReturnFollows DEF PhaseOneInv, ReturnMeansDone
<1> QED  BY <1>1 DEF PhaseOneInv, AskedInv

(* Each step keeps what is known of the addresses as a whole.              *)
LEMMA AskedKept == PhaseOneInv /\ [Next]_vars => AskedInv'
<1> SUFFICES ASSUME PhaseOneInv, [Next]_vars
             PROVE  AskedInv'
    OBVIOUS
<1>1. /\ AskedInv /\ list \in {"primary", "extended"}
      /\ next \in 0 .. N /\ ran \in [Jobs -> Nat]
      /\ asked \subseteq Jobs \X AllPorts /\ heard \subseteq asked
      BY DEF PhaseOneInv, TypeOK, IndInv, PoolTypeOK
<1>2. ASSUME UNCHANGED <<list, open, asked, heard>>,
             ran' = ran, next' \in next .. N,
             quit => quit', cancelled' => cancelled \/ quit'
      PROVE  AskedInv'
      BY <1>1, <1>2, SizeAssumption
      DEF AskedInv, SilentAt, Ports, PortSet, Jobs
<1>3. CASE PoolCaller /\ UNCHANGED sweepVars
      BY <1>1, <1>2, <1>3, SizeAssumption
      DEF PoolCaller, CreateTunnel, StartWorkers, Refuse, CloseJobs, Joined,
          CloseTunnel, Return, WorkerExit, sweepVars
<1>4. CASE UNCHANGED vars \/ Quit \/ Answer
      BY <1>1, <1>2, <1>4, SizeAssumption
      DEF vars, poolVars, sweepVars, Quit, Answer
<1>5. ASSUME NEW t \in Tunnels, Take(t) \/ Dial(t) \/ DialCut(t)
      PROVE  AskedInv'
      BY <1>1, <1>2, <1>5, SizeAssumption
      DEF Take, Send, Dial, DialCut, poolVars
<1>6. CASE SweepExtended
  <2>1. ~quit => \A i \in Jobs : SilentAt(i, PrimarySet)
        BY <1>1, <1>6, AllSilent, ListUnderWay DEF SweepExtended
  <2>2. \A i \in Jobs, p \in ExtendedSet : <<i, p>> \notin asked
        BY <1>1, <1>6, TwoLists DEF SweepExtended, AskedInv
  <2>3. PortSet' = ExtendedSet
        BY <1>6 DEF SweepExtended, PortSet, Ports, ExtendedSet
  <2> QED
      BY <1>6, <2>1, <2>2, <2>3
      DEF SweepExtended, NewPool, NewLocals, AskedInv, SilentAt
<1>7. ASSUME NEW t \in Tunnels, Record(t)  PROVE AskedInv'
  <2>1. /\ UNCHANGED <<list, next, ran, cancelled, quit, asked, heard>>
        /\ open' # {}
        BY <1>7 DEF Record, poolVars
  <2> QED
      BY <1>1, <2>1 DEF AskedInv, SilentAt, Ports, PortSet
<1>8. ASSUME NEW t \in Tunnels, GiveUp(t) \/ SweepEmpty(t) \/ CancelRest(t)
      PROVE  AskedInv'
  <2>1. /\ ran' = [ran EXCEPT ![job[t]] = @ + 1]
        /\ UNCHANGED <<list, next, open, quit, asked, heard>>
        /\ cancelled' => cancelled \/ open # {}
        BY <1>8
        DEF GiveUp, SweepEmpty, CancelRest, FinishJob, sweepVars, PhaseOneInv,
            SweepInv, SweepAt
  <2>2. ~quit /\ open = {} => SilentAt(job[t], PortSet)
        BY <1>8, EndsSilent
  <2> QED
      BY <1>1, <2>1, <2>2 DEF AskedInv, SilentAt, Ports, PortSet
<1>9. ASSUME NEW t \in Tunnels, NEW answered \in BOOLEAN,
             DialEnds(t, answered)
      PROVE  AskedInv'
  <2> DEFINE port == Ports[pos[t]]
  <2>1. /\ job[t] \in Jobs /\ job[t] < next /\ port \in PortSet
        /\ ran[job[t]] = 0
        BY <1>9, PortAtHand, AtWork DEF DialEnds
  <2>2. /\ asked' = asked \cup {<<job[t], port>>}
        /\ heard' \subseteq heard \cup {<<job[t], port>>}
        /\ UNCHANGED <<list, next, ran, open, cancelled, quit>>
        BY <1>9 DEF DialEnds, poolVars
  <2> HIDE DEF port
  <2>3. Ports' = Ports /\ PortSet' = PortSet
        BY <2>2 DEF Ports, PortSet
  <2>4. list = "primary" => asked' \subseteq Jobs \X PrimarySet
        BY <1>1, <2>1, <2>2, ListUnderWay DEF AskedInv
  <2>5. \A i \in Jobs : i >= next => \A p \in PortSet : <<i, p>> \notin asked'
        BY <1>1, <2>1, <2>2, SizeAssumption DEF AskedInv, Jobs
  <2>6. ~quit /\ open = {} =>
          \A i \in Jobs : ran[i] = 1 => SilentAt(i, PortSet)'
        BY <1>1, <2>1, <2>2, <2>3 DEF AskedInv, SilentAt
  <2>7. ~quit /\ list = "extended" =>
          \A i \in Jobs : SilentAt(i, PrimarySet)'
        BY <1>1, <2>1, <2>2, ListUnderWay, TwoLists DEF AskedInv, SilentAt
  <2> QED
      BY <1>1, <2>2, <2>3, <2>4, <2>5, <2>6, <2>7
      DEF AskedInv, SilentAt
<1> QED
    BY <1>3, <1>4, <1>5, <1>6, <1>7, <1>8, <1>9
    DEF Next, Caller, Goroutine

(* The five parts together are inductive.                                  *)
LEMMA PhaseOneInvariant == Spec => []PhaseOneInv
<1>1. PhaseOneInv /\ [Next]_vars => PhaseOneInv'
      BY PoolKept, TypeKept, SweepKept, AskedKept, CallerKept DEF PhaseOneInv
<1> QED  BY <1>1, PhaseOneStarts, PTL DEF Spec

-----------------------------------------------------------------------------
(* The types of phase 1.                                                   *)
THEOREM PhaseOneTypes == Spec => []TypeOK
  BY PhaseOneInvariant, PTL DEF PhaseOneInv

(* No goroutine of either pool of phase 1 sweeps on a closed tunnel, and   *)
(* each call of probePorts that returns has done every address.            *)
THEOREM PhaseOnePools == Spec => [](ClosedAfterUse /\ ReturnMeansDone)
<1>1. PhaseOneInv => ClosedAfterUse /\ ReturnMeansDone
      BY ReturnFollows
      DEF PhaseOneInv, IndInv, Lifecycle, ClosedAfterUse
<1> QED  BY <1>1, PhaseOneInvariant, PTL

(* reachablePorts implements PortChoice: a handshake that ran its course   *)
(* is an Ask, the first Record is the Choose, and nothing else is visible. *)
THEOREM ChoiceIsKept == Spec => ChoiceKept
<1>1. Init => Choice!Init
      BY DEF Init, Choice!Init
<1>2. PhaseOneInv /\ [Next]_vars => [Choice!Next]_Choice!vars
  <2> SUFFICES ASSUME PhaseOneInv, [Next]_vars
               PROVE  Choice!Next \/ UNCHANGED Choice!vars
      OBVIOUS
  <2> USE DEF Choice!vars, Choice!Pairs, Choice!Silent
  <2>1. CASE \/ UNCHANGED vars \/ SweepExtended
             \/ PoolCaller /\ UNCHANGED sweepVars
        BY <2>1 DEF vars, sweepVars, SweepExtended, NewLocals
  <2>2. CASE Quit
        BY <2>2 DEF Quit, Choice!Next, Choice!Quit
  <2>3. CASE Answer
    <3>1. /\ phase = "refused" => open = {}
          /\ phase = "returned" /\ open = {} => list = "extended"
          /\ phase \in {"returned", "refused"} /\ outcome = "pending"
          /\ outcome' = (IF phase = "refused" THEN "error"
                         ELSE IF open = {} THEN "none" ELSE "ports")
          /\ UNCHANGED <<asked, heard, open, quit>>
          BY <2>3 DEF Answer, PoolOver, PhaseOneInv, CallerInv
    <3>2. outcome' = "none" /\ ~quit =>
            \A i \in Jobs : /\ SilentAt(i, PrimarySet)
                            /\ SilentAt(i, ExtendedSet)
          BY <3>1, AllSilent, ListUnderWay DEF PhaseOneInv, AskedInv, TypeOK
    <3>3. outcome' = "none" /\ ~quit =>
            /\ Choice!Silent(PrimarySet)
            /\ Choice!Silent(ExtendedSet)
          BY <3>2 DEF SilentAt
    <3> QED
        BY <3>1, <3>3
        DEF Choice!Next, Choice!Answer, PrimarySet, ExtendedSet
  <2>4. ASSUME NEW t \in Tunnels,
               \/ Take(t) \/ GiveUp(t) \/ Dial(t) \/ DialCut(t)
               \/ SweepEmpty(t) \/ CancelRest(t)
        PROVE  UNCHANGED Choice!vars
        BY <2>4 DEF Take, GiveUp, Dial, DialCut, SweepEmpty, CancelRest,
                    sweepVars
  <2>5. ASSUME NEW t \in Tunnels, NEW answered \in BOOLEAN,
               DialEnds(t, answered)
        PROVE  Choice!Next
    <3> DEFINE pair == <<job[t], Ports[pos[t]]>>
    <3>1. /\ worker[t] = "busy" /\ job[t] \in Jobs
          /\ pos[t] \in 1 .. Len(Ports) /\ Ports[pos[t]] \in PortSet
          /\ outcome = "pending" /\ Len(Ports) \in Nat
          BY <2>5, PortAtHand, AtWork, ListUnderWay
          DEF DialEnds, PhaseOneInv, TypeOK
    <3>2. pair \notin asked
          BY <3>1 DEF PhaseOneInv, SweepInv, SweepAt
    <3>3. pair[2] \in ExtendedSet /\ ~quit => Choice!Silent(PrimarySet)
      <4>1. Ports[pos[t]] \in ExtendedSet => list = "extended"
            BY <3>1, ListUnderWay, TwoLists DEF PhaseOneInv, TypeOK
      <4> QED  BY <4>1 DEF PhaseOneInv, AskedInv, SilentAt
    <3>4. pair \in Choice!Pairs(PrimarySet \cup ExtendedSet)
          BY <3>1, ListUnderWay DEF PhaseOneInv, TypeOK
    <3>5. /\ asked' = asked \cup {pair}
          /\ heard' \in {heard, heard \cup {pair}}
          /\ UNCHANGED <<open, quit, outcome>>
          BY <2>5 DEF DialEnds
    <3> HIDE DEF pair
    <3> QED
        BY <3>1, <3>2, <3>3, <3>4, <3>5
        DEF Choice!Next, Choice!Ask, PrimarySet, ExtendedSet
  <2>6. ASSUME NEW t \in Tunnels, Record(t)
        PROVE  Choice!Next \/ UNCHANGED Choice!vars
    <3>1. /\ worker[t] = "busy" /\ pos[t] > Len(Ports) /\ found[t] # {}
          /\ open' = (IF open = {} THEN found[t] ELSE open)
          /\ UNCHANGED <<asked, heard, quit, outcome>>
          BY <2>6 DEF Record, Swept
    <3>2. CASE open # {}
          BY <3>1, <3>2
    <3>3. CASE open = {}
      <4>1. /\ job[t] \in Jobs /\ outcome = "pending"
            /\ found[t] = {p \in PortSet : <<job[t], p>> \in heard}
            /\ pos[t] \in 1 .. Len(Ports) + 1 /\ Len(Ports) \in Nat
            BY <3>1, AtWork, ListUnderWay
            DEF PhaseOneInv, SweepInv, SweepAt, TypeOK
      <4>2. ~quit => \A p \in PortSet : <<job[t], p>> \in asked
        <5>1. ~quit => \A q \in 1 .. pos[t] - 1 : <<job[t], Ports[q]>> \in asked
              BY <3>1, <3>3
              DEF PhaseOneInv, SweepInv, SweepAt, AskedInv
        <5>2. \A p \in PortSet : \E q \in 1 .. pos[t] - 1 : p = Ports[q]
              BY <3>1, <4>1, ListUnderWay DEF PhaseOneInv, TypeOK
        <5> QED  BY <5>1, <5>2
      <4>3. ~quit => {job[t]} \X PortSet \subseteq asked
            BY <4>2
      <4>4. PortSet \in {PrimarySet, ExtendedSet}
            BY ListUnderWay DEF PhaseOneInv, TypeOK
      <4>5. Choice!Choose(job[t], PortSet)
            BY <3>1, <3>3, <4>1, <4>3 DEF Choice!Choose
      <4> QED
          BY <4>1, <4>4, <4>5 DEF Choice!Next, PrimarySet, ExtendedSet
    <3> QED  BY <3>2, <3>3
  <2> QED
      BY <2>1, <2>2, <2>3, <2>4, <2>5, <2>6 DEF Next, Caller, Goroutine
<1> QED
    BY <1>1, <1>2, PhaseOneInvariant, PTL DEF Spec, ChoiceKept, Choice!Spec
=============================================================================
