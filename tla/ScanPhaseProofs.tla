-------------------------- MODULE ScanPhaseProofs ---------------------------
(* Phase 2 (runScan of src/main.go with tunnelProbe of src/tunnel.go): the *)
(* report and the live feed agree and name the first port that passed, for *)
(* every pool size, every number of targets and every kind of scan.        *)
EXTENDS ScanPhase, TunnelPoolProofs, FiniteSets, FiniteSetTheorems

(* TypeOK in parts: the locals of the body, and what the targets share.    *)
LocalTypes ==
  /\ pc \in [Tunnels -> {"none", "check", "dial", "resolve", "lookup", "get",
                         "ping", "found", "store", "report"}]
  /\ port \in [Tunnels -> 1 .. NPorts + 1]
  /\ attempt \in [Tunnels -> 0 .. Tries - 1]
  /\ good \in [Tunnels -> BOOLEAN] /\ torn \in [Tunnels -> BOOLEAN]

TargetTypes ==
  /\ results \in [Jobs -> [ok : BOOLEAN, port : 0 .. NPorts,
                           measured : BOOLEAN, durable : BOOLEAN]]
  /\ feed \in SUBSET (Jobs \X PortIndex \X BOOLEAN)
  /\ tried \in [Jobs -> [PortIndex -> 0 .. Tries]]
  /\ passed \in SUBSET (Jobs \X PortIndex)

RunTypes == /\ metaAddr \in MetaAddrs \cup {NoAddr}
            /\ scan \in Scans /\ cancelled \in BOOLEAN /\ probed \in 0 .. N

Fresh == "none"
Dialling == {"dial", "resolve", "lookup", "get"}
Decided == {"store", "report"}

(* Every attempt at the ports before p was made.                           *)
Exhausted(i, p) == \A q \in PortIndex : q < p => tried[i][q] = Tries

(* No port after p was tried.                                              *)
UntriedAfter(i, p) == \A q \in PortIndex : q > p => tried[i][q] = 0

(* Target i passed at port p and nowhere else; at none.                    *)
PassedAt(i, p) == \A q \in PortIndex : <<i, q>> \in passed <=> q = p
NonePassed(i) == \A q \in PortIndex : <<i, q>> \notin passed

(* Target i was announced once, with port p and verdict b; never.          *)
FedAs(i, p, b) ==
  \A q \in PortIndex, c \in BOOLEAN : <<i, q, c>> \in feed <=> q = p /\ c = b
NotFed(i) == \A q \in PortIndex, c \in BOOLEAN : <<i, q, c>> \notin feed

(* A target that no goroutine was given yet.                               *)
Untouched(i) ==
  /\ \A q \in PortIndex : tried[i][q] = 0
  /\ NonePassed(i) /\ NotFed(i) /\ results[i] = Empty

(* A target that was done: found at one port, or given up.                 *)
Settled(i) ==
  \/ /\ results[i].ok /\ results[i].port \in PortIndex
     /\ Exhausted(i, results[i].port)
     /\ UntriedAfter(i, results[i].port)
     /\ PassedAt(i, results[i].port)
     /\ FedAs(i, results[i].port, ~results[i].durable)
  \/ /\ results[i] = Empty /\ NonePassed(i) /\ NotFed(i)
     /\ ~cancelled => Exhausted(i, NPorts + 1)

(* What a goroutine knows of the target in hand, by where it is.           *)
InHand(t) ==
  /\ Exhausted(job[t], port[t])
  /\ UntriedAfter(job[t], port[t])
  /\ port[t] \in PortIndex =>
       tried[job[t]][port[t]] =
         attempt[t] + (IF pc[t] \in Dialling \/ good[t] THEN 1 ELSE 0)
  /\ port[t] \notin PortIndex => attempt[t] = 0
  /\ pc[t] \in Dialling => port[t] \in PortIndex
  /\ pc[t] \in Dialling \cup {"check"} => ~good[t]
  /\ pc[t] \in {"ping", "found"} => good[t]
  /\ IF good[t] THEN port[t] \in PortIndex /\ PassedAt(job[t], port[t])
                ELSE NonePassed(job[t])
  /\ IF good[t] /\ pc[t] \in Decided THEN FedAs(job[t], port[t], torn[t])
                                     ELSE NotFed(job[t])
  /\ pc[t] \in Decided /\ ~good[t] => port[t] > NPorts \/ cancelled
  /\ results[job[t]] = IF good[t] /\ pc[t] = "report"
                       THEN [ok |-> TRUE, port |-> port[t],
                             measured |-> scan.pings, durable |-> ~torn[t]]
                       ELSE Empty

ProbeInv ==
  \A t \in Tunnels : /\ worker[t] = "busy" <=> pc[t] # Fresh
                     /\ worker[t] = "busy" => InHand(t)

TargetInv ==
  \A i \in Jobs : /\ i >= next => Untouched(i)
                  /\ ran[i] = 1 => Settled(i)

(* One probedMsg for each target that is done.                             *)
Done == {i \in Jobs : ran[i] = 1}
CountInv == probed = Cardinality(Done)

ScanInv == IndInv /\ TypeOK /\ ProbeInv /\ TargetInv /\ CountInv
-----------------------------------------------------------------------------
(* The constants of a scan.                                                *)
LEMMA ScanTypesOK ==
  ASSUME scan \in Scans
  PROVE  /\ NPorts \in Nat /\ Tries \in Nat /\ Tries > 0
         /\ PortIndex = 1 .. NPorts
  BY ScanAssumption DEF NPorts, Tries, PortIndex

(* The parts are all of TypeOK.                                            *)
LEMMA TypeParts == TypeOK <=> PoolTypeOK /\ LocalTypes /\ TargetTypes /\ RunTypes
  BY DEF TypeOK, LocalTypes, TargetTypes, RunTypes

(* Phase 2 starts in a state of the invariant.                             *)
LEMMA ScanStarts == Init => ScanInv
<1> SUFFICES ASSUME Init  PROVE ScanInv
    OBVIOUS
<1>1. IndInv /\ PoolTypeOK
      BY InitEstablishes DEF Init, IndInv
<1>2. TypeOK
  <2>1. /\ NPorts \in Nat /\ Tries \in Nat /\ Tries > 0
        /\ PortIndex = 1 .. NPorts
        BY ScanTypesOK DEF Init
  <2>2. /\ results \in [Jobs -> [ok : BOOLEAN, port : 0 .. NPorts,
                               measured : BOOLEAN, durable : BOOLEAN]]
        /\ tried \in [Jobs -> [PortIndex -> 0 .. Tries]]
        BY <2>1 DEF Init, Empty
  <2>3. /\ port \in [Tunnels -> 1 .. NPorts + 1]
        /\ attempt \in [Tunnels -> 0 .. Tries - 1]
        BY <2>1 DEF Init
  <2>4. LocalTypes
        BY <2>3 DEF Init, LocalTypes
  <2>5. TargetTypes
        BY <2>2 DEF Init, TargetTypes
  <2>6. RunTypes
    <3>1. /\ metaAddr = NoAddr /\ scan \in Scans /\ cancelled = FALSE
          /\ probed = 0
          BY DEF Init
    <3>2. probed \in 0 .. N
          BY <3>1, SizeAssumption
    <3> QED  BY <3>1, <3>2 DEF RunTypes
  <2> QED  BY <1>1, <2>4, <2>5, <2>6, TypeParts
<1>3. ProbeInv
      BY DEF Init, PoolInit, ProbeInv, Fresh
<1>4. TargetInv
      BY DEF Init, PoolInit, TargetInv, Untouched, NonePassed, NotFed
<1>5. Done = {}
      BY DEF Init, PoolInit, Done
<1>6. CountInv
      BY <1>5, FS_EmptySet DEF Init, CountInv
<1> QED  BY <1>1, <1>2, <1>3, <1>4, <1>6 DEF ScanInv

(* Every step is one of the pool or none that the pool can see.            *)
LEMMA StepIsPools == [Next]_vars => [PoolNext]_poolVars
  BY DEF Next, Caller, Body, Take, Check, Resolve, EmitFound, Store, EmitProbed,
         Handshake, FetchMeta, Durability, Lookup, Cancel, vars, PoolNext

(* The ways a probe under way can go.                                      *)
Under(t) ==
  /\ worker[t] = "busy" /\ pc[t] \in Dialling
  /\ UNCHANGED <<poolVars, torn, results, ctx, feed, probed, tried>>

Onward(t) ==
  /\ Under(t)
  /\ \E place \in Dialling : Goto(t, place)
  /\ UNCHANGED <<port, attempt, good, passed>>

(* A handshake, a lookup or a fetch fails, passes or goes on.              *)
LEMMA ProbeGoes ==
  ASSUME NEW t \in Tunnels, NEW b \in BOOLEAN,
         NEW a \in MetaAddrs \cup {NoAddr},
         Handshake(t, b) \/ FetchMeta(t, b) \/ Lookup(t, a) \/ Resolve(t)
  PROVE  \/ Under(t) /\ ProbeFails(t)
         \/ Under(t) /\ ProbePasses(t)
         \/ Onward(t)
<1>1. CASE Handshake(t, b)
      BY <1>1 DEF Handshake, At, Under, Onward, Dialling
<1>2. CASE FetchMeta(t, b)
      BY <1>2 DEF FetchMeta, At, Under, Onward, Dialling
<1>3. CASE Lookup(t, a)
      BY <1>3 DEF Lookup, At, Under, Onward, Dialling
<1>4. CASE Resolve(t)
      BY <1>4 DEF Resolve, At, Under, Onward, Dialling, Goto, probe
<1> QED  BY <1>1, <1>2, <1>3, <1>4

(* The target in hand is one of the list, not done, and in no other hand.  *)
LEMMA HeldTarget ==
  ASSUME ScanInv, NEW t \in Tunnels, worker[t] = "busy"
  PROVE  /\ job[t] \in Jobs /\ job[t] < next /\ ran[job[t]] = 0
         /\ \A u \in Tunnels : worker[u] = "busy" /\ job[u] = job[t] => u = t
<1>1. job[t] \in Jobs
      BY SizeAssumption DEF ScanInv, IndInv, PoolTypeOK, Lifecycle, NoJob, Jobs
<1>2. next \in 0 .. N
      BY DEF ScanInv, IndInv, PoolTypeOK
<1> QED
    BY <1>1, <1>2, SizeAssumption DEF ScanInv, IndInv, EachIndexOnce, Jobs
(* A goroutine that finishes settles one more target.                      *)
LEMMA OneMoreDone ==
  ASSUME ScanInv, NEW t \in Tunnels, FinishJob(t)
  PROVE  Done' = Done \cup {job[t]} /\ job[t] \notin Done /\ job[t] \in Jobs
<1>1. job[t] \in Jobs /\ ran[job[t]] = 0
      BY HeldTarget DEF FinishJob
<1>2. ran' = [ran EXCEPT ![job[t]] = ran[job[t]] + 1] /\ ran \in [Jobs -> Nat]
      BY DEF FinishJob, ScanInv, IndInv, PoolTypeOK
<1>3. \A i \in Jobs : ran'[i] = IF i = job[t] THEN 1 ELSE ran[i]
      BY <1>1, <1>2
<1> QED  BY <1>1, <1>3 DEF Done

(* The targets that are done are finitely many.                            *)
LEMMA DoneBound ==
  /\ IsFiniteSet(Done) /\ Cardinality(Done) \in 0 .. N
  /\ IsFiniteSet(Jobs) /\ Cardinality(Jobs) = N
<1>1. IsFiniteSet(Jobs) /\ Cardinality(Jobs) = N
      BY FS_Interval, SizeAssumption DEF Jobs
<1>2. Done \subseteq Jobs
      BY DEF Done
<1>3. IsFiniteSet(Done) /\ Cardinality(Done) <= N
      BY <1>1, <1>2, FS_Subset
<1> QED  BY <1>1, <1>3, FS_CardinalityType, SizeAssumption

(* Each target is counted when it is done.                                 *)
LEMMA CountKept == ScanInv /\ [Next]_vars => CountInv'
<1> SUFFICES ASSUME ScanInv, [Next]_vars
             PROVE  CountInv'
    OBVIOUS
<1>1. CASE ran' = ran /\ probed' = probed
      BY <1>1 DEF ScanInv, CountInv, Done
<1>2. ASSUME NEW t \in Tunnels, EmitProbed(t)  PROVE CountInv'
  <2>1. /\ Done' = Done \cup {job[t]} /\ job[t] \notin Done
        /\ probed' = probed + 1
        BY <1>2, OneMoreDone DEF EmitProbed
  <2>2. Cardinality(Done \cup {job[t]}) = Cardinality(Done) + 1
        BY <2>1, DoneBound, FS_AddElement
  <2> QED  BY <2>1, <2>2 DEF ScanInv, CountInv
<1>3. CASE Caller \/ Cancel \/ UNCHANGED vars
  <2>1. PoolCaller => ran' = ran
        BY DEF PoolCaller, CreateTunnel, StartWorkers, Refuse, CloseJobs,
               Joined, CloseTunnel, Return, WorkerExit
  <2> QED
      BY <1>1, <1>3, <2>1
      DEF Caller, Take, Send, Cancel, poolVars, probeVars, vars
<1>4. ASSUME NEW t \in Tunnels, Body(t), ~EmitProbed(t)
      PROVE  ran' = ran /\ probed' = probed
      BY <1>4
      DEF Body, Check, Resolve, EmitFound, Store, Handshake, FetchMeta,
          Durability, Lookup, poolVars
<1> QED  BY <1>1, <1>2, <1>3, <1>4 DEF Next

(* The invariant of the pool holds of phase 2.                             *)
LEMMA ScanPoolKept == ScanInv /\ [Next]_vars => IndInv'
  BY PoolStep, StepIsPools DEF ScanInv

(* Each step of phase 2 keeps the types.                                   *)
LEMMA ScanTypeKept == ScanInv /\ [Next]_vars => TypeOK'
<1> SUFFICES ASSUME ScanInv, [Next]_vars
             PROVE  TypeOK'
    OBVIOUS
<1> SUFFICES LocalTypes' /\ TargetTypes' /\ RunTypes'
  <2>1. PoolTypeOK'
        BY ScanPoolKept DEF IndInv
  <2>2. (TypeOK <=> PoolTypeOK /\ LocalTypes /\ TargetTypes /\ RunTypes)'
        BY TypeParts, PTL
  <2> QED  BY <2>1, <2>2
<1>1. /\ NPorts \in Nat /\ Tries \in Nat /\ Tries > 0
      /\ PortIndex = 1 .. NPorts /\ LocalTypes /\ TargetTypes /\ RunTypes
      BY ScanTypesOK, TypeParts DEF ScanInv, RunTypes
<1>2. scan' = scan /\ NPorts' = NPorts /\ Tries' = Tries
      /\ PortIndex' = PortIndex
      BY DEF Next, Caller, Body, Take, Check, Resolve, EmitFound, Store,
             EmitProbed, Handshake, FetchMeta, Durability, Lookup, Cancel,
             vars, probeVars, ctx, NPorts, Tries, PortIndex
<1>3. probed' \in 0 .. N
  <2>1. (Cardinality(Done) \in 0 .. N)'
        BY DoneBound, PTL
  <2> QED  BY <2>1, CountKept DEF CountInv
<1>4. ASSUME UNCHANGED <<metaAddr, cancelled>>  PROVE RunTypes'
      BY <1>1, <1>2, <1>3, <1>4 DEF RunTypes
<1>5. ASSUME UNCHANGED <<pc, probe>>  PROVE LocalTypes'
      BY <1>1, <1>2, <1>5 DEF LocalTypes, probe
<1>6. ASSUME UNCHANGED <<results, feed, tried, passed>>  PROVE TargetTypes'
      BY <1>1, <1>2, <1>6 DEF TargetTypes
<1>7. CASE UNCHANGED probeVars
      BY <1>4, <1>5, <1>6, <1>7 DEF probeVars, ctx
<1>8. ASSUME NEW t \in Tunnels, Take(t)
      PROVE  LocalTypes' /\ TargetTypes' /\ RunTypes'
  <2>1. LocalTypes'
        BY <1>1, <1>2, <1>8 DEF Take, Goto, LocalTypes
  <2> QED  BY <1>4, <1>6, <1>8, <2>1 DEF Take, ctx
<1>9. CASE Cancel
  <2>1. RunTypes'
        BY <1>1, <1>2, <1>3, <1>9 DEF Cancel, RunTypes
  <2> QED  BY <1>5, <1>6, <1>9, <2>1 DEF Cancel
<1>10. ASSUME NEW t \in Tunnels, Check(t)
       PROVE  LocalTypes' /\ TargetTypes' /\ RunTypes'
  <2>1. job[t] \in Jobs /\ worker[t] = "busy" /\ pc[t] = "check"
        BY <1>10, HeldTarget DEF Check, At
  <2>2. port[t] <= NPorts =>
          /\ port[t] \in PortIndex
          /\ tried[job[t]][port[t]] + 1 \in 0 .. Tries
    <3>1. InHand(t) /\ ~good[t]
          BY <2>1 DEF ScanInv, ProbeInv, InHand
    <3>2. port[t] \in 1 .. NPorts + 1 /\ attempt[t] \in 0 .. Tries - 1
          BY <1>1 DEF LocalTypes
    <3>3. port[t] \in PortIndex => tried[job[t]][port[t]] = attempt[t]
          BY <2>1, <3>1, <3>2 DEF InHand, Dialling
    <3> QED  BY <1>1, <3>2, <3>3
  <2>3. tried' \in [Jobs -> [PortIndex -> 0 .. Tries]]
    <3>1. CASE port[t] > NPorts \/ cancelled
          BY <1>1, <1>10, <3>1 DEF Check, TargetTypes
    <3>2. CASE port[t] <= NPorts /\ ~cancelled
      <4>1. port[t] \in 1 .. NPorts + 1
            BY <1>1 DEF LocalTypes
      <4>2. tried' = [tried EXCEPT ![job[t]][port[t]] =
                        tried[job[t]][port[t]] + 1]
            BY <1>1, <1>10, <3>2, <4>1 DEF Check
      <4> QED  BY <1>1, <2>1, <2>2, <3>2, <4>2 DEF TargetTypes
    <3> QED  BY <1>1, <3>1, <3>2 DEF LocalTypes
  <2>4. TargetTypes'
        BY <1>1, <1>2, <1>10, <2>3 DEF Check, TargetTypes
  <2>5. LocalTypes'
        BY <1>1, <1>2, <1>10 DEF Check, Goto, probe, LocalTypes
  <2> QED  BY <1>4, <1>10, <2>4, <2>5 DEF Check, ctx
<1>11. ASSUME NEW t \in Tunnels, (Under(t) /\ ProbeFails(t)) \/ Onward(t),
              metaAddr' \in MetaAddrs \cup {NoAddr}
       PROVE  LocalTypes' /\ TargetTypes' /\ RunTypes'
  <2>1. port[t] \in PortIndex
        BY <1>11 DEF Under, Onward, ScanInv, ProbeInv, InHand
  <2>2. LocalTypes'
    <3>1. CASE Onward(t)
          BY <1>1, <1>2, <3>1 DEF Onward, Under, Goto, Dialling, LocalTypes
    <3>2. CASE Under(t) /\ ProbeFails(t)
      <4>1. port[t] + 1 \in 1 .. NPorts + 1 /\ 0 \in 0 .. Tries - 1
            /\ (attempt[t] + 1 < Tries => attempt[t] + 1 \in 0 .. Tries - 1)
            BY <1>1, <2>1 DEF LocalTypes
      <4>2. /\ port' = port \/ port' = [port EXCEPT ![t] = port[t] + 1]
            /\ \/ attempt' = [attempt EXCEPT ![t] = 0]
               \/ /\ attempt' = [attempt EXCEPT ![t] = attempt[t] + 1]
                  /\ attempt[t] + 1 < Tries
            /\ pc' = [pc EXCEPT ![t] = "check"] /\ good' = good /\ torn' = torn
            BY <3>2 DEF Under, ProbeFails, Goto
      <4>3. attempt' \in [Tunnels -> 0 .. Tries - 1]
            BY <1>1, <4>1, <4>2 DEF LocalTypes
      <4>4. port' \in [Tunnels -> 1 .. NPorts + 1]
            BY <1>1, <4>1, <4>2 DEF LocalTypes
      <4>5. /\ pc' \in [Tunnels -> {"none", "check", "dial", "resolve", "lookup",
                                    "get", "ping", "found", "store", "report"}]
            /\ good' = good /\ torn' = torn
            BY <1>1, <4>2 DEF LocalTypes
      <4> QED  BY <1>1, <1>2, <4>3, <4>4, <4>5 DEF LocalTypes
    <3> QED  BY <1>11, <3>1, <3>2
  <2>3. RunTypes'
        BY <1>1, <1>2, <1>3, <1>11 DEF Under, Onward, ctx, RunTypes
  <2> QED  BY <1>6, <1>11, <2>2, <2>3 DEF Under, Onward, ProbeFails
<1>12. ASSUME NEW t \in Tunnels, Under(t), ProbePasses(t),
              metaAddr' \in MetaAddrs \cup {NoAddr}
       PROVE  LocalTypes' /\ TargetTypes' /\ RunTypes'
  <2>1. port[t] \in PortIndex /\ job[t] \in Jobs
        BY <1>12, HeldTarget DEF Under, ScanInv, ProbeInv, InHand
  <2>2. LocalTypes'
        BY <1>1, <1>2, <1>12 DEF Under, ProbePasses, Goto, LocalTypes
  <2>3. TargetTypes'
    <3>1. /\ passed' = passed \cup {<<job[t], port[t]>>}
          /\ results' = results /\ feed' = feed /\ tried' = tried
          BY <1>12 DEF Under, ProbePasses
    <3>2. PortIndex' = PortIndex /\ NPorts' = NPorts /\ Tries' = Tries
          BY <1>2
    <3>3. passed' \in SUBSET (Jobs \X PortIndex)
          BY <1>1, <2>1, <3>1 DEF TargetTypes
    <3> QED  BY <1>1, <3>1, <3>2, <3>3 DEF TargetTypes
  <2>4. RunTypes'
        BY <1>1, <1>2, <1>3, <1>12 DEF Under, ctx, RunTypes
  <2> QED  BY <2>2, <2>3, <2>4
<1>13. ASSUME NEW t \in Tunnels, NEW b \in BOOLEAN, Durability(t, b)
       PROVE  LocalTypes' /\ TargetTypes' /\ RunTypes'
  <2>1. LocalTypes'
        BY <1>1, <1>2, <1>13 DEF Durability, Goto, LocalTypes
  <2> QED  BY <1>4, <1>6, <1>13, <2>1 DEF Durability, ctx
<1>14. ASSUME NEW t \in Tunnels, EmitFound(t)
       PROVE  LocalTypes' /\ TargetTypes' /\ RunTypes'
  <2>1. port[t] \in PortIndex /\ job[t] \in Jobs
        BY <1>14, HeldTarget DEF EmitFound, At, ScanInv, ProbeInv, InHand, Fresh
  <2>2. <<job[t], port[t], torn[t]>> \in Jobs \X PortIndex \X BOOLEAN
        BY <1>1, <2>1 DEF LocalTypes
  <2>3. TargetTypes'
        BY <1>1, <1>2, <1>14, <2>2 DEF EmitFound, TargetTypes
  <2>4. LocalTypes'
        BY <1>1, <1>2, <1>14 DEF EmitFound, Goto, probe, LocalTypes
  <2> QED  BY <1>4, <1>14, <2>3, <2>4 DEF EmitFound, ctx
<1>15. ASSUME NEW t \in Tunnels, Store(t)
       PROVE  LocalTypes' /\ TargetTypes' /\ RunTypes'
  <2>1. /\ job[t] \in Jobs /\ good[t] => port[t] \in 0 .. NPorts
        /\ scan.pings \in BOOLEAN
        BY <1>1, <1>15, HeldTarget, ScanAssumption
        DEF Store, At, ScanInv, ProbeInv, InHand, RunTypes
  <2>2. results' \in [Jobs -> [ok : BOOLEAN, port : 0 .. NPorts,
                              measured : BOOLEAN, durable : BOOLEAN]]
        BY <1>1, <1>15, <2>1 DEF Store, TargetTypes
  <2>3. TargetTypes'
        BY <1>1, <1>2, <1>15, <2>2 DEF Store, TargetTypes
  <2>4. LocalTypes'
        BY <1>1, <1>2, <1>15 DEF Store, Goto, probe, LocalTypes
  <2> QED  BY <1>4, <1>15, <2>3, <2>4 DEF Store, ctx
<1>16. ASSUME NEW t \in Tunnels, EmitProbed(t)
       PROVE  LocalTypes' /\ TargetTypes' /\ RunTypes'
  <2>1. LocalTypes'
        BY <1>1, <1>2, <1>16 DEF EmitProbed, Goto, probe, LocalTypes
  <2> QED  BY <1>4, <1>6, <1>16, <2>1 DEF EmitProbed, ctx
<1>17. ASSUME NEW t \in Tunnels, NEW b \in BOOLEAN,
              NEW a \in MetaAddrs \cup {NoAddr},
              Handshake(t, b) \/ FetchMeta(t, b) \/ Lookup(t, a) \/ Resolve(t)
       PROVE  LocalTypes' /\ TargetTypes' /\ RunTypes'
  <2>1. metaAddr' \in MetaAddrs \cup {NoAddr}
        BY <1>1, <1>17 DEF Handshake, FetchMeta, Lookup, Resolve, RunTypes
  <2> QED  BY <1>11, <1>12, <1>17, <2>1, ProbeGoes
<1> QED
    BY <1>7, <1>8, <1>9, <1>10, <1>13, <1>14, <1>15, <1>16, <1>17
    DEF Next, Caller, Body, vars
-----------------------------------------------------------------------------
(* A step that does not concern target i; one that does not move u.        *)
SameTarget(i) ==
  /\ tried'[i] = tried[i] /\ results'[i] = results[i]
  /\ \A q \in PortIndex : <<i, q>> \in passed' <=> <<i, q>> \in passed
  /\ \A q \in PortIndex, c \in BOOLEAN :
       <<i, q, c>> \in feed' <=> <<i, q, c>> \in feed

SamePlace(u) ==
  /\ worker'[u] = worker[u] /\ job'[u] = job[u] /\ pc'[u] = pc[u]
  /\ port'[u] = port[u] /\ attempt'[u] = attempt[u]
  /\ good'[u] = good[u] /\ torn'[u] = torn[u]

SameRun == scan' = scan /\ (cancelled => cancelled')

(* What is known of a target that a step does not concern stays true.      *)
LEMMA TargetFrame ==
  ASSUME SameRun, NEW i \in Jobs, SameTarget(i)
  PROVE  (Untouched(i) => Untouched(i)') /\ (Settled(i) => Settled(i)')
<1>1. /\ NPorts' = NPorts /\ Tries' = Tries /\ PortIndex' = PortIndex
      /\ Empty' = Empty
      BY DEF SameRun, NPorts, Tries, PortIndex, Empty
<1>2. Untouched(i) => Untouched(i)'
      BY <1>1 DEF SameTarget, Untouched, NonePassed, NotFed
<1>3. Settled(i) => Settled(i)'
  <2>1. CASE results[i].ok
        BY <1>1, <2>1
        DEF SameTarget, SameRun, Settled, Exhausted, UntriedAfter, PassedAt,
            FedAs, Empty
  <2>2. CASE ~results[i].ok
        BY <1>1, <2>2
        DEF SameTarget, SameRun, Settled, Exhausted, NonePassed, NotFed, Empty
  <2> QED  BY <2>1, <2>2
<1> QED  BY <1>2, <1>3

(* What a goroutine knows stays true while neither it nor its target moves.*)
LEMMA HandFrame ==
  ASSUME SameRun, NEW u \in Tunnels, SamePlace(u), SameTarget(job[u]),
         InHand(u)
  PROVE  InHand(u)'
<1>1. /\ NPorts' = NPorts /\ Tries' = Tries /\ PortIndex' = PortIndex
      /\ Empty' = Empty
      BY DEF SameRun, NPorts, Tries, PortIndex, Empty
<1>2. /\ Exhausted(job[u], port[u])' = Exhausted(job[u], port[u])
      /\ UntriedAfter(job[u], port[u])' = UntriedAfter(job[u], port[u])
      /\ PassedAt(job[u], port[u])' = PassedAt(job[u], port[u])
      /\ NonePassed(job[u])' = NonePassed(job[u])
      /\ FedAs(job[u], port[u], torn[u])' = FedAs(job[u], port[u], torn[u])
      /\ NotFed(job[u])' = NotFed(job[u])
      BY <1>1
      DEF SamePlace, SameTarget, Exhausted, UntriedAfter, PassedAt, NonePassed,
          FedAs, NotFed
<1> QED  BY <1>1, <1>2 DEF InHand, SamePlace, SameTarget, SameRun

(* A goroutine's step moves no other, and concerns only its own target.    *)
LEMMA OnlyItsOwn ==
  ASSUME ScanInv, NEW t \in Tunnels, Take(t) \/ Body(t)
  PROVE  /\ SameRun
         /\ \A i \in Jobs : i # job[t] => SameTarget(i)
         /\ \A u \in Tunnels : u # t => SamePlace(u)
<1>1. /\ LocalTypes /\ TargetTypes
      /\ worker \in [Tunnels -> {"unborn", "idle", "busy", "gone"}]
      /\ job \in [Tunnels -> 0 .. N]
      BY TypeParts DEF ScanInv, PoolTypeOK
<1>2. SameRun
      BY DEF Body, Take, Check, Resolve, EmitFound, Store, EmitProbed,
             Handshake, FetchMeta, Durability, Lookup, ctx, SameRun
<1>3. \A u \in Tunnels : u # t => SamePlace(u)
  <2>1. CASE Take(t) \/ EmitProbed(t)
        BY <1>1, <2>1
        DEF Take, EmitProbed, Send, FinishJob, Goto, probe, SamePlace,
            LocalTypes
  <2>2. CASE Check(t) \/ Store(t) \/ EmitFound(t)
        BY <1>1, <2>2
        DEF Check, Store, EmitFound, Goto, poolVars, probe, SamePlace,
            LocalTypes
  <2>3. ASSUME NEW b \in BOOLEAN, Durability(t, b)
        PROVE  \A u \in Tunnels : u # t => SamePlace(u)
        BY <1>1, <2>3 DEF Durability, Goto, poolVars, SamePlace, LocalTypes
  <2>4. CASE (Under(t) /\ (ProbeFails(t) \/ ProbePasses(t))) \/ Onward(t)
        BY <1>1, <2>4
        DEF Under, ProbeFails, ProbePasses, Onward, Goto, poolVars,
            SamePlace, LocalTypes
  <2> QED
      BY <2>1, <2>2, <2>3, <2>4, ProbeGoes DEF Body
<1>4. \A i \in Jobs : i # job[t] => SameTarget(i)
  <2>1. CASE UNCHANGED <<tried, results, passed, feed>>
        BY <2>1 DEF SameTarget
  <2>2. CASE Take(t) \/ EmitProbed(t)
        BY <2>1, <2>2 DEF Take, EmitProbed
  <2>3. CASE Check(t) \/ Store(t) \/ EmitFound(t)
        BY <1>1, <2>3
        DEF Check, Store, EmitFound, probe, SameTarget, TargetTypes
  <2>4. ASSUME NEW b \in BOOLEAN, Durability(t, b)
        PROVE  UNCHANGED <<tried, results, passed, feed>>
        BY <2>4 DEF Durability
  <2>5. CASE (Under(t) /\ (ProbeFails(t) \/ ProbePasses(t))) \/ Onward(t)
        BY <2>5
        DEF Under, ProbeFails, ProbePasses, Onward, SameTarget
  <2> QED
      BY <2>1, <2>2, <2>3, <2>4, <2>5, ProbeGoes DEF Body
<1> QED  BY <1>2, <1>3, <1>4

(* The goroutine that makes a step knows what its new place says.          *)
LEMMA OwnHandKept ==
  ASSUME ScanInv, NEW t \in Tunnels, Take(t) \/ Body(t)
  PROVE  /\ worker'[t] = "busy" <=> pc'[t] # Fresh
         /\ worker'[t] = "busy" => InHand(t)'
<1>1. /\ LocalTypes /\ TargetTypes /\ RunTypes
      /\ NPorts \in Nat /\ Tries \in Nat /\ Tries > 0
      /\ PortIndex = 1 .. NPorts
      BY TypeParts, ScanTypesOK DEF ScanInv, RunTypes
<1>2. /\ worker \in [Tunnels -> {"unborn", "idle", "busy", "gone"}]
      /\ job \in [Tunnels -> 0 .. N] /\ next \in 0 .. N
      BY TypeParts DEF ScanInv, PoolTypeOK
<1>3. /\ scan' = scan /\ NPorts' = NPorts /\ Tries' = Tries
      /\ PortIndex' = PortIndex /\ Empty' = Empty
      BY OnlyItsOwn DEF SameRun, NPorts, Tries, PortIndex, Empty
<1>4. worker[t] = "busy" =>
        /\ InHand(t) /\ job[t] \in Jobs
        /\ port[t] \in 1 .. NPorts + 1 /\ attempt[t] \in 0 .. Tries - 1
        /\ good[t] \in BOOLEAN /\ torn[t] \in BOOLEAN
      BY <1>1, HeldTarget DEF ScanInv, ProbeInv, LocalTypes
<1>5. CASE Take(t)
  <2>1. /\ worker'[t] = "busy" /\ pc'[t] = "check" /\ job'[t] = next
        /\ port'[t] = 1 /\ attempt'[t] = 0 /\ good'[t] = FALSE
        /\ torn'[t] = FALSE /\ next \in Jobs
        /\ UNCHANGED <<results, feed, tried, passed, ctx>>
        BY <1>1, <1>2, <1>5, SizeAssumption
        DEF Take, Send, Goto, LocalTypes, Jobs
  <2>2. Untouched(next)
        BY <2>1, SizeAssumption DEF ScanInv, TargetInv, Jobs
  <2>3. Exhausted(job[t], port[t])' /\ NonePassed(job[t])' /\ NotFed(job[t])'
        BY <1>1, <1>3, <2>1, <2>2
        DEF Exhausted, Untouched, NonePassed, NotFed
  <2> QED
      BY <1>1, <1>3, <2>1, <2>2, <2>3
      DEF InHand, UntriedAfter, Untouched, Fresh, Dialling, Decided
<1>6. CASE Check(t)
  <2>1. /\ worker[t] = "busy" /\ pc[t] = "check" /\ ~good[t]
        /\ UNCHANGED <<worker, job, port, attempt, good, torn, results, feed,
                       passed, cancelled>>
        BY <1>4, <1>6
        DEF Check, At, InHand, Dialling, poolVars, probe, ctx
  <2>2. NonePassed(job[t])' /\ NotFed(job[t])'
        BY <1>3, <1>4, <2>1
        DEF InHand, NonePassed, NotFed, Decided
  <2>3. CASE port[t] > NPorts \/ cancelled
    <3>1. pc'[t] = "store" /\ tried' = tried
          BY <1>1, <1>6, <2>3 DEF Check, Goto, LocalTypes
    <3> QED
        BY <1>1, <1>3, <1>4, <2>1, <2>2, <2>3, <3>1
        DEF InHand, Exhausted, UntriedAfter, Fresh, Dialling, Decided
  <2>4. CASE port[t] \in PortIndex /\ ~cancelled
    <3>1. /\ pc'[t] = "dial" /\ port[t] <= NPorts
          /\ tried' = [tried EXCEPT ![job[t]][port[t]] =
                         tried[job[t]][port[t]] + 1]
          BY <1>1, <1>6, <2>4 DEF Check, Goto, LocalTypes
    <3>2. \A q \in PortIndex :
            tried'[job[t]][q] = IF q = port[t] THEN tried[job[t]][q] + 1
                                               ELSE tried[job[t]][q]
          BY <1>1, <1>4, <2>1, <2>4, <3>1 DEF TargetTypes
    <3>3. tried[job[t]][port[t]] = attempt[t]
          BY <1>4, <2>1, <2>4 DEF InHand, Dialling
    <3> QED
        BY <1>1, <1>3, <1>4, <2>1, <2>2, <2>4, <3>1, <3>2, <3>3
        DEF InHand, Exhausted, UntriedAfter, Fresh, Dialling, Decided
  <2> QED  BY <1>1, <1>4, <1>6, <2>3, <2>4 DEF Check, At
<1>7. CASE Under(t) /\ ProbeFails(t)
  <2>1. /\ worker[t] = "busy" /\ pc[t] \in Dialling
        /\ ~good[t] /\ port[t] \in PortIndex
        /\ tried[job[t]][port[t]] = attempt[t] + 1
        /\ UNCHANGED <<worker, job, good, torn, results, feed, tried, passed>>
        /\ pc'[t] = "check"
        BY <1>1, <1>4, <1>7
        DEF Under, ProbeFails, InHand, poolVars, Goto, LocalTypes
  <2>2. NonePassed(job[t])' /\ NotFed(job[t])'
        BY <1>3, <1>4, <1>7, <2>1
        DEF InHand, NonePassed, NotFed, Decided, Dialling
  <2>3. CASE attempt[t] + 1 < Tries
    <3>1. port'[t] = port[t] /\ attempt'[t] = attempt[t] + 1
          BY <1>1, <1>7, <2>3 DEF ProbeFails, LocalTypes
    <3> QED
        BY <1>1, <1>3, <1>4, <1>7, <2>1, <2>2, <2>3, <3>1
        DEF InHand, Exhausted, UntriedAfter, Fresh, Dialling, Decided
  <2>4. CASE ~(attempt[t] + 1 < Tries)
    <3>1. port'[t] = port[t] + 1 /\ attempt'[t] = 0
          BY <1>1, <1>7, <2>4 DEF ProbeFails, LocalTypes
    <3>2. worker[t] = "busy" /\ InHand(t) /\ tried[job[t]][port[t]] = Tries
          /\ port[t] \in 1 .. NPorts /\ job[t] \in Jobs
          BY <1>1, <1>4, <1>7, <2>1, <2>4 DEF Under
    <3>3. Exhausted(job[t], port[t])'
          BY <1>1, <1>3, <2>1, <3>1, <3>2 DEF InHand, Exhausted
    <3> QED
        BY <1>1, <1>3, <2>1, <2>2, <3>1, <3>2, <3>3
        DEF InHand, UntriedAfter, Fresh, Dialling, Decided
  <2> QED  BY <2>3, <2>4
<1>8. CASE Under(t) /\ ProbePasses(t)
  <2>1. /\ worker[t] = "busy" /\ InHand(t) /\ job[t] \in Jobs
        /\ pc[t] \in Dialling /\ ~good[t] /\ port[t] \in PortIndex
        /\ UNCHANGED <<worker, job, port, attempt, torn, results, feed, tried>>
        /\ pc'[t] \in {"ping", "found"} /\ good'[t] = TRUE
        /\ passed' = passed \cup {<<job[t], port[t]>>}
        BY <1>1, <1>4, <1>8
        DEF Under, ProbePasses, InHand, poolVars, Goto, LocalTypes
  <2>2. PassedAt(job[t], port[t])'
        BY <1>3, <2>1 DEF InHand, PassedAt, NonePassed
  <2>3. NotFed(job[t])'
        BY <1>3, <2>1 DEF InHand, NotFed, Decided, Dialling
  <2> QED
      BY <1>1, <1>3, <2>1, <2>2, <2>3
      DEF InHand, Exhausted, UntriedAfter, Fresh, Dialling, Decided
<1>9. CASE Onward(t)
  <2>1. /\ worker[t] = "busy" /\ InHand(t)
        /\ pc[t] \in Dialling /\ pc'[t] \in Dialling
        /\ UNCHANGED <<worker, job, port, attempt, good, torn, results, feed,
                       tried, passed, cancelled>>
        BY <1>1, <1>4, <1>9
        DEF Onward, Under, Goto, LocalTypes, poolVars, ctx
  <2>2. NonePassed(job[t])' /\ NotFed(job[t])' /\ Exhausted(job[t], port[t])'
        BY <1>3, <2>1
        DEF InHand, NonePassed, NotFed, Exhausted, Decided, Dialling
  <2> QED
      BY <1>1, <1>3, <2>1, <2>2
      DEF InHand, UntriedAfter, Fresh, Dialling, Decided
<1>10. ASSUME NEW b \in BOOLEAN, Durability(t, b)
       PROVE  pc'[t] # Fresh /\ InHand(t)'
  <2>1. /\ worker[t] = "busy" /\ InHand(t) /\ pc[t] = "ping"
        /\ pc'[t] = "found"
        /\ UNCHANGED <<worker, job, port, attempt, good, results, feed,
                       tried, passed, cancelled>>
        BY <1>1, <1>4, <1>10
        DEF Durability, At, Goto, LocalTypes, poolVars, ctx
  <2>2. /\ PassedAt(job[t], port[t])' /\ NotFed(job[t])'
        /\ Exhausted(job[t], port[t])'
        BY <1>3, <2>1 DEF InHand, PassedAt, NotFed, Exhausted, Decided
  <2> QED
      BY <1>1, <1>3, <2>1, <2>2
      DEF InHand, UntriedAfter, Fresh, Dialling, Decided
<1>11. CASE EmitFound(t)
  <2>1. /\ worker[t] = "busy" /\ InHand(t) /\ pc[t] = "found"
        /\ pc'[t] = "store" /\ torn[t] \in BOOLEAN
        /\ feed' = feed \cup {<<job[t], port[t], torn[t]>>}
        /\ UNCHANGED <<worker, job, port, attempt, good, torn, results,
                       tried, passed, cancelled>>
        BY <1>1, <1>4, <1>11
        DEF EmitFound, At, Goto, LocalTypes, poolVars, probe, ctx
  <2>2. good[t] /\ port[t] \in PortIndex /\ NotFed(job[t])
        BY <2>1 DEF InHand, Decided
  <2>3. FedAs(job[t], port[t], torn[t])'
        BY <1>3, <2>1, <2>2 DEF FedAs, NotFed
  <2>4. /\ PassedAt(job[t], port[t])' /\ Exhausted(job[t], port[t])'
        BY <1>3, <2>1 DEF InHand, PassedAt, Exhausted
  <2> QED
      BY <1>1, <1>3, <2>1, <2>2, <2>3, <2>4
      DEF InHand, UntriedAfter, Fresh, Dialling, Decided
<1>12. CASE Store(t)
  <2>1. /\ worker[t] = "busy" /\ InHand(t) /\ pc[t] = "store"
        /\ pc'[t] = "report" /\ job[t] \in Jobs
        /\ UNCHANGED <<worker, job, port, attempt, good, torn, feed,
                       tried, passed, cancelled>>
        BY <1>1, <1>4, <1>12
        DEF Store, At, Goto, LocalTypes, poolVars, probe, ctx
  <2>2. results'[job[t]] =
          IF good[t] THEN [ok |-> TRUE, port |-> port[t],
                           measured |-> scan.pings, durable |-> ~torn[t]]
                     ELSE results[job[t]]
        BY <1>1, <1>12, <2>1 DEF Store, TargetTypes
  <2>3. /\ Exhausted(job[t], port[t])' = Exhausted(job[t], port[t])
        /\ PassedAt(job[t], port[t])' = PassedAt(job[t], port[t])
        /\ NonePassed(job[t])' = NonePassed(job[t])
        /\ FedAs(job[t], port[t], torn[t])' = FedAs(job[t], port[t], torn[t])
        /\ NotFed(job[t])' = NotFed(job[t])
        BY <1>3, <2>1 DEF Exhausted, PassedAt, NonePassed, FedAs, NotFed
  <2> QED
      BY <1>1, <1>3, <2>1, <2>2, <2>3
      DEF InHand, UntriedAfter, Fresh, Dialling, Decided
<1>13. CASE EmitProbed(t)
      BY <1>1, <1>2, <1>13 DEF EmitProbed, FinishJob, Goto, LocalTypes, Fresh
<1>14. ASSUME Under(t) \/ Check(t) \/ EmitFound(t) \/ Store(t)
              \/ \E b \in BOOLEAN : Durability(t, b)
       PROVE  worker'[t] = "busy"
  <2>1. worker'[t] = worker[t] /\ worker[t] = "busy"
        BY <1>14
        DEF Under, Check, EmitFound, Store, Durability, poolVars, At
  <2> QED  BY <2>1
<1> QED
    BY <1>5, <1>6, <1>7, <1>8, <1>9, <1>10, <1>11, <1>12, <1>13, <1>14,
       ProbeGoes
    DEF Body, Onward
(* The caller's own steps leave every goroutine that works where it is.    *)
LEMMA CallerSteps ==
  ASSUME ScanInv, PoolCaller
  PROVE  /\ ran' = ran /\ next' = next /\ job' = job
         /\ \A u \in Tunnels : worker'[u] = "busy" <=> worker[u] = "busy"
<1>1. /\ worker \in [Tunnels -> {"unborn", "idle", "busy", "gone"}]
      /\ phase = "create" => \A u \in Tunnels : worker[u] = "unborn"
      BY DEF ScanInv, IndInv, PoolTypeOK, Lifecycle
<1> QED
    BY <1>1
    DEF PoolCaller, CreateTunnel, StartWorkers, Refuse, CloseJobs, Joined,
        CloseTunnel, Return, WorkerExit

(* Each step leaves all goroutines knowing what their places say.          *)
LEMMA ProbeKept == ScanInv /\ [Next]_vars => ProbeInv'
<1> SUFFICES ASSUME ScanInv, [Next]_vars, NEW u \in Tunnels
             PROVE  /\ worker'[u] = "busy" <=> pc'[u] # Fresh
                    /\ worker'[u] = "busy" => InHand(u)'
    BY DEF ProbeInv
<1>1. /\ worker[u] = "busy" <=> pc[u] # Fresh
      /\ worker[u] = "busy" => InHand(u) /\ job[u] \in Jobs
      BY HeldTarget DEF ScanInv, ProbeInv
<1>2. ASSUME NEW t \in Tunnels, Take(t) \/ Body(t)
      PROVE  /\ worker'[u] = "busy" <=> pc'[u] # Fresh
             /\ worker'[u] = "busy" => InHand(u)'
  <2>1. CASE u = t
        BY <1>2, <2>1, OwnHandKept
  <2>2. CASE u # t
    <3>1. SameRun /\ SamePlace(u)
          BY <1>2, <2>2, OnlyItsOwn
    <3>2. worker[u] = "busy" => job[u] # job[t]
      <4>1. Take(t) => job[t] \notin Jobs
            BY SizeAssumption
            DEF Take, Send, ScanInv, IndInv, Lifecycle, NoJob, Jobs
      <4>2. Body(t) => worker[t] = "busy"
            BY DEF Body, Check, Resolve, EmitFound, Store, EmitProbed,
                   Handshake, FetchMeta, Durability, Lookup, At
      <4> QED  BY <1>1, <1>2, <2>2, <4>1, <4>2, HeldTarget
    <3>3. worker[u] = "busy" => SameTarget(job[u])
          BY <1>1, <1>2, <3>2, OnlyItsOwn
    <3>4. worker'[u] = worker[u] /\ pc'[u] = pc[u]
          BY <3>1 DEF SamePlace
    <3> QED  BY <1>1, <3>1, <3>3, <3>4, HandFrame
  <2> QED  BY <2>1, <2>2
<1>3. CASE \/ PoolCaller /\ UNCHANGED probeVars
           \/ Cancel \/ UNCHANGED vars
  <2>1. /\ job' = job /\ pc' = pc
        /\ worker'[u] = "busy" <=> worker[u] = "busy"
        /\ UNCHANGED <<pc, port, attempt, good, torn, results, tried, passed,
                       feed, scan>>
        /\ cancelled => cancelled'
        BY <1>3, CallerSteps
        DEF Cancel, vars, poolVars, probeVars, probe, ctx
  <2>2. SameRun /\ SameTarget(job[u])
        BY <2>1 DEF SameRun, SameTarget
  <2>3. worker[u] = "busy" => SamePlace(u)
        BY <2>1 DEF SamePlace
  <2> QED  BY <1>1, <2>1, <2>2, <2>3, HandFrame
<1>4. CASE Caller
      BY <1>2, <1>3, <1>4 DEF Caller
<1>5. CASE \E t \in Tunnels : Body(t)
      BY <1>2, <1>5
<1> QED  BY <1>3, <1>4, <1>5 DEF Next

(* The target of a goroutine that finishes is settled.                     *)
LEMMA FinishSettles ==
  ASSUME ScanInv, NEW t \in Tunnels, EmitProbed(t)
  PROVE  \A i \in Jobs : i = job[t] => Settled(i)'
<1>1. /\ InHand(t) /\ pc[t] = "report" /\ torn[t] \in BOOLEAN
      /\ NPorts \in Nat /\ PortIndex = 1 .. NPorts
      BY TypeParts, ScanTypesOK
      DEF EmitProbed, At, ScanInv, ProbeInv, LocalTypes, RunTypes
<1> DEFINE i == job[t]
<1>2. Settled(i)
  <2>1. CASE good[t]
    <3>1. /\ results[i].ok /\ results[i].port = port[t]
          /\ results[i].durable = ~torn[t]
          /\ port[t] \in PortIndex /\ Exhausted(i, port[t])
          /\ UntriedAfter(i, port[t])
          /\ PassedAt(i, port[t]) /\ FedAs(i, port[t], torn[t])
          BY <1>1, <2>1 DEF InHand, Decided
    <3>2. (~results[i].durable) = torn[t]
          BY <1>1, <3>1
    <3> QED  BY <3>1, <3>2 DEF Settled
  <2>2. CASE ~good[t]
    <3>1. /\ results[i] = Empty /\ NonePassed(i) /\ NotFed(i)
          /\ Exhausted(i, port[t]) /\ (~cancelled => port[t] > NPorts)
          /\ port[t] \in 1 .. NPorts + 1
          BY <1>1, <2>2, TypeParts DEF InHand, Decided, ScanInv, LocalTypes
    <3>2. ~cancelled => Exhausted(i, NPorts + 1)
          BY <1>1, <3>1 DEF Exhausted
    <3> QED  BY <3>1, <3>2 DEF Settled
  <2> QED  BY <2>1, <2>2
<1>3. SameRun /\ \A k \in Jobs : SameTarget(k)
      BY DEF EmitProbed, ctx, SameRun, SameTarget
<1> HIDE DEF i
<1>4. \A k \in Jobs : k = i => Settled(k)'
      BY <1>2, <1>3, TargetFrame
<1> QED  BY <1>4 DEF i
(* Each step leaves all targets settled or untouched that were, and one    *)
(* more settled when a goroutine finishes it.                              *)
LEMMA TargetKept == ScanInv /\ [Next]_vars => TargetInv'
<1> SUFFICES ASSUME ScanInv, [Next]_vars, NEW i \in Jobs
             PROVE  /\ i >= next' => Untouched(i)'
                    /\ ran'[i] = 1 => Settled(i)'
    BY DEF TargetInv
<1>1. /\ i >= next => Untouched(i)
      /\ ran[i] = 1 => Settled(i)
      /\ next \in 0 .. N /\ ran \in [Jobs -> Nat]
      BY DEF ScanInv, TargetInv, IndInv, PoolTypeOK
<1>2. ASSUME SameRun, SameTarget(i), ran'[i] = ran[i],
             next' = next \/ next' = next + 1
      PROVE  /\ i >= next' => Untouched(i)'
             /\ ran'[i] = 1 => Settled(i)'
      BY <1>1, <1>2, TargetFrame, SizeAssumption DEF Jobs
<1>3. CASE \/ PoolCaller /\ UNCHANGED probeVars
           \/ Cancel \/ UNCHANGED vars
  <2>1. /\ ran' = ran /\ next' = next
        /\ UNCHANGED <<results, tried, passed, feed, scan>>
        /\ cancelled => cancelled'
        BY <1>3, CallerSteps
        DEF Cancel, vars, poolVars, probeVars, ctx
  <2>2. SameRun /\ SameTarget(i)
        BY <2>1 DEF SameRun, SameTarget
  <2> QED  BY <1>2, <2>1, <2>2
<1>4. ASSUME NEW t \in Tunnels, Take(t)
      PROVE  /\ i >= next' => Untouched(i)'
             /\ ran'[i] = 1 => Settled(i)'
  <2>1. SameRun /\ SameTarget(i)
        BY <1>4 DEF Take, ctx, SameRun, SameTarget
  <2> QED  BY <1>2, <1>4, <2>1 DEF Take, Send
<1>5. ASSUME NEW t \in Tunnels, Body(t)
      PROVE  /\ i >= next' => Untouched(i)'
             /\ ran'[i] = 1 => Settled(i)'
  <2>1. worker[t] = "busy" /\ next' = next
        BY <1>5
        DEF Body, Check, Resolve, EmitFound, Store, EmitProbed, Handshake,
            FetchMeta, Durability, Lookup, At, FinishJob, poolVars
  <2>2. ran' = ran \/ EmitProbed(t)
        BY <1>5
        DEF Body, Check, Resolve, EmitFound, Store, Handshake, FetchMeta,
            Durability, Lookup, poolVars
  <2>3. EmitProbed(t) =>
          \A k \in Jobs : k # job[t] => ran'[k] = ran[k]
        BY <1>1 DEF EmitProbed, FinishJob
  <2>4. CASE i # job[t]
    <3>1. SameRun /\ SameTarget(i)
          BY <1>5, <2>4, OnlyItsOwn
    <3> QED  BY <1>2, <2>1, <2>2, <2>3, <2>4, <3>1
  <2>5. CASE i = job[t]
    <3>1. i < next /\ ran[i] = 0
          BY <2>1, <2>5, HeldTarget
    <3>2. ~(i >= next') /\ (ran' = ran => ran'[i] # 1)
          BY <1>1, <2>1, <3>1, SizeAssumption DEF Jobs
    <3> QED  BY <2>2, <2>5, <3>2, FinishSettles
  <2> QED  BY <2>4, <2>5
<1>6. CASE Caller
      BY <1>3, <1>4, <1>6 DEF Caller
<1> QED  BY <1>3, <1>5, <1>6 DEF Next

(* All parts together are inductive.                                       *)
LEMMA ScanInvariant == Spec => []ScanInv
<1>1. ScanInv /\ [Next]_vars => ScanInv'
      BY ScanPoolKept, ScanTypeKept, ProbeKept, TargetKept, CountKept
      DEF ScanInv
<1> QED  BY <1>1, ScanStarts, PTL DEF Spec

-----------------------------------------------------------------------------
(* The types of phase 2.                                                   *)
THEOREM ScanTypes == Spec => []TypeOK
  BY ScanInvariant, PTL DEF ScanInv

(* No goroutine of a scan probes over a closed tunnel.                     *)
THEOREM ScanClosesLast == Spec => []ClosedAfterUse
<1>1. ScanInv => ClosedAfterUse
      BY DEF ScanInv, IndInv, Lifecycle, ClosedAfterUse
<1> QED  BY <1>1, ScanInvariant, PTL

(* With tunnelProbe as the body of fn the pool still keeps its promise: a  *)
(* scan that returns has probed every target once, cancelled or not.       *)
THEOREM ScanKeepsPromise == Spec => PromiseKept
<1>1. Init => PoolInit
      BY DEF Init
<1>2. ScanInv => IndInv
      BY DEF ScanInv
<1> QED
    BY <1>1, <1>2, ScanInvariant, StepIsPools, PromiseStart, PromiseStep, PTL
    DEF Spec, PromiseKept, Promise!Spec

(* The port reported for a target is the first that passed, those before   *)
(* it had all their attempts, those after it none, and a target given up on*)
(* had every attempt.                                                      *)
THEOREM FirstPortWins == Spec => []FirstPassingPort
<1>1. ScanInv => FirstPassingPort
  <2> SUFFICES ASSUME ScanInv, NEW i \in Jobs
               PROVE  /\ results[i].ok =>
                           /\ <<i, results[i].port>> \in passed
                           /\ \A p \in 1 .. results[i].port - 1 :
                                tried[i][p] = Tries /\ <<i, p>> \notin passed
                           /\ UntriedAfter(i, results[i].port)
                      /\ ran[i] = 1 /\ ~results[i].ok =>
                           /\ \A p \in PortIndex : <<i, p>> \notin passed
                           /\ ~cancelled =>
                                \A p \in PortIndex : tried[i][p] = Tries
      BY DEF FirstPassingPort, UntriedAfter
  <2>1. NPorts \in Nat /\ PortIndex = 1 .. NPorts
        BY TypeParts, ScanTypesOK DEF ScanInv, RunTypes
  <2>2. Empty.ok = FALSE
        BY DEF Empty
  <2>3. CASE ran[i] = 1
    <3>1. Settled(i)
          BY <2>3 DEF ScanInv, TargetInv
    <3> QED
        BY <2>1, <2>2, <3>1 DEF Settled, Exhausted, PassedAt, NonePassed
  <2>4. CASE i >= next
    <3>1. results[i] = Empty /\ ran[i] = 0
          BY <2>4 DEF ScanInv, TargetInv, Untouched, IndInv, EachIndexOnce
    <3> QED  BY <2>2, <3>1
  <2>5. CASE ran[i] # 1 /\ ~(i >= next)
    <3>1. PICK t \in Tunnels : job[t] = i /\ worker[t] = "busy" /\ InHand(t)
      <4>1. next \in 0 .. N /\ i < next /\ i # NoJob
            BY <2>5, SizeAssumption DEF ScanInv, IndInv, PoolTypeOK, Jobs, NoJob
      <4> QED
          BY <2>5, <4>1
          DEF ScanInv, ProbeInv, IndInv, EachIndexOnce, Lifecycle
    <3>2. results[i].ok =>
            /\ results[i].port = port[t] /\ port[t] \in PortIndex
            /\ PassedAt(i, port[t]) /\ Exhausted(i, port[t])
            /\ UntriedAfter(i, port[t])
          BY <2>2, <3>1 DEF InHand
    <3> QED  BY <2>1, <2>5, <3>2 DEF PassedAt, Exhausted
  <2> QED  BY <2>3, <2>4, <2>5
<1> QED  BY <1>1, ScanInvariant, PTL

(* The slots the report reads and the rows of the live feed tell the same  *)
(* once the scan has returned, and every target was counted.               *)
THEOREM ReportAndFeedAgree == Spec => []ReportMatchesFeed
<1>1. ScanInv => ReportMatchesFeed
  <2> SUFFICES ASSUME ScanInv, phase = "returned"
               PROVE  /\ probed = N
                      /\ \A i \in Jobs :
                           results[i].ok <=> \E x \in feed : x[1] = i
                      /\ \A x \in feed : /\ results[x[1]].port = x[2]
                                         /\ results[x[1]].durable = ~x[3]
      BY DEF ReportMatchesFeed
  <2>1. \A i \in Jobs : ran[i] = 1
        BY ReturnFollows DEF ScanInv, ReturnMeansDone
  <2>2. probed = N
    <3>1. Done = Jobs
          BY <2>1 DEF Done
    <3> QED  BY <3>1, DoneBound DEF ScanInv, CountInv
  <2>3. /\ TargetTypes /\ \A i \in Jobs : Settled(i)
        BY <2>1, TypeParts DEF ScanInv, TargetInv
  <2>4. Empty.ok = FALSE
        BY DEF Empty
  <2>5. \A i \in Jobs : results[i].ok => \E x \in feed : x[1] = i
    <3> SUFFICES ASSUME NEW i \in Jobs, results[i].ok
                 PROVE  \E x \in feed : x[1] = i
        OBVIOUS
    <3>1. /\ results[i].port \in PortIndex /\ results[i].durable \in BOOLEAN
          /\ FedAs(i, results[i].port, ~results[i].durable)
          BY <2>3, <2>4 DEF Settled, TargetTypes
    <3>2. <<i, results[i].port, ~results[i].durable>> \in feed
          BY <3>1 DEF FedAs
    <3> QED  BY <3>2
  <2>6. ASSUME NEW x \in feed
        PROVE  /\ x[1] \in Jobs /\ results[x[1]].ok
               /\ results[x[1]].port = x[2]
               /\ results[x[1]].durable = ~x[3]
    <3>1. /\ x[1] \in Jobs /\ x[2] \in PortIndex /\ x[3] \in BOOLEAN
          /\ x = <<x[1], x[2], x[3]>>
          BY <2>3, <2>6 DEF TargetTypes
    <3>2. ~NotFed(x[1])
          BY <2>6, <3>1 DEF NotFed
    <3>3. /\ results[x[1]].ok
          /\ FedAs(x[1], results[x[1]].port, ~results[x[1]].durable)
          BY <2>3, <3>1, <3>2 DEF Settled
    <3>4. results[x[1]].port = x[2] /\ (~results[x[1]].durable) = x[3]
          BY <2>6, <3>1, <3>3 DEF FedAs
    <3>5. results[x[1]].durable \in BOOLEAN
          BY <2>3, <3>1 DEF TargetTypes
    <3> QED  BY <3>1, <3>3, <3>4, <3>5
  <2> QED  BY <2>2, <2>5, <2>6
<1> QED  BY <1>1, ScanInvariant, PTL

(* The address of the meta host that all tunnels dial is decided once.     *)
THEOREM MetaDecidedOnce == Spec => OneMetaAddress
<1>1. [Next]_vars => [metaAddr # NoAddr => metaAddr' = metaAddr]_metaAddr
      BY DEF Next, Caller, Body, Take, Check, Resolve, EmitFound, Store,
             EmitProbed, Handshake, FetchMeta, Durability, Lookup, Cancel,
             vars, probeVars
<1> QED  BY <1>1, PTL DEF Spec, OneMetaAddress
=============================================================================
