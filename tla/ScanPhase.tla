----------------------------- MODULE ScanPhase -----------------------------
(* Phase 2 of a scan: the work function of runScan (src/main.go) and       *)
(* tunnelProbe, probeEndpoint and resolveMetaAddr (src/tunnel.go), run by  *)
(* the goroutines of TunnelPool over the targets.  A burst of durability   *)
(* pings is one step here; TunnelPing has its inside.                      *)
EXTENDS TunnelPool

CONSTANTS Scans,      \* the kinds of scan to consider
          MetaAddrs,  \* what lookups of metaHost may answer
          NoAddr      \* the nil pointer

(* A WireGuard target has the tunnel's whole port list and one attempt, a  *)
(* MASQUE target one port and -masque-attempts; scan asks for the meta of  *)
(* the exit, find-junk and find-sni do not; the pings are -tun-ping.       *)
ASSUME ScanAssumption ==
  /\ Scans \subseteq [ports : Nat, attempts : Int, wantMeta : BOOLEAN,
                      pings : BOOLEAN]
  /\ NoAddr \notin MetaAddrs

VARIABLES
  pc,         \* pc[t]: where the body of fn is
  port,       \* port[t]: index in the port list
  attempt,    \* attempt[t]: tries of this port already made
  good,       \* good[t]: tunnelProbe returned ok for the job in hand
  torn,       \* torn[t]: the durability verdict of the probe that passed
  results,    \* results[i]: the slot of target i
  metaAddr,   \* the shared pointer all tunnels dial for /meta
  scan,       \* the kind of scan
  cancelled,  \* its context
  feed,       \* foundMsg sent, as <<target, port, torn>>
  probed,     \* probedMsg sent
  tried,      \* tried[i][p]: probes of that endpoint begun (history)
  passed      \* <<target, port>> whose probe passed (history)

(* The locals of the body.                                                 *)
probe == <<port, attempt, good, torn>>
ctx == <<scan, cancelled>>
probeVars == <<pc, probe, results, metaAddr, ctx, feed, probed, tried, passed>>
vars == <<poolVars, probeVars>>

NPorts == scan.ports
PortIndex == 1 .. NPorts
Tries == IF scan.attempts < 1 THEN 1 ELSE scan.attempts

Empty == [ok |-> FALSE, port |-> 0, measured |-> FALSE, durable |-> FALSE]

TypeOK ==
  /\ PoolTypeOK
  /\ pc \in [Tunnels -> {"none", "check", "dial", "resolve", "lookup", "get",
                         "ping", "found", "store", "report"}]
  /\ port \in [Tunnels -> 1 .. NPorts + 1]
  /\ attempt \in [Tunnels -> 0 .. Tries - 1]
  /\ good \in [Tunnels -> BOOLEAN] /\ torn \in [Tunnels -> BOOLEAN]
  /\ results \in [Jobs -> [ok : BOOLEAN, port : 0 .. NPorts,
                           measured : BOOLEAN, durable : BOOLEAN]]
  /\ metaAddr \in MetaAddrs \cup {NoAddr}
  /\ scan \in Scans /\ cancelled \in BOOLEAN
  /\ feed \in SUBSET (Jobs \X PortIndex \X BOOLEAN)
  /\ probed \in 0 .. N
  /\ tried \in [Jobs -> [PortIndex -> 0 .. Tries]]
  /\ passed \in SUBSET (Jobs \X PortIndex)

Init ==
  /\ PoolInit
  /\ pc = [t \in Tunnels |-> "none"]
  /\ port = [t \in Tunnels |-> 1]
  /\ attempt = [t \in Tunnels |-> 0]
  /\ good = [t \in Tunnels |-> FALSE] /\ torn = [t \in Tunnels |-> FALSE]
  /\ results = [i \in Jobs |-> Empty]
  /\ metaAddr = NoAddr
  /\ scan \in Scans /\ cancelled = FALSE
  /\ feed = {} /\ probed = 0
  /\ tried = [i \in Jobs |-> [p \in PortIndex |-> 0]]
  /\ passed = {}

-----------------------------------------------------------------------------
At(t, place) == worker[t] = "busy" /\ pc[t] = place
Goto(t, place) == pc' = [pc EXCEPT ![t] = place]

Take(t) ==
  /\ Send(t)
  /\ Goto(t, "check")
  /\ port' = [port EXCEPT ![t] = 1]
  /\ attempt' = [attempt EXCEPT ![t] = 0]
  /\ good' = [good EXCEPT ![t] = FALSE]
  /\ torn' = [torn EXCEPT ![t] = FALSE]
  /\ UNCHANGED <<results, metaAddr, ctx, feed, probed, tried, passed>>

(* The head of tunnelProbe's loops: out of ports, cancelled, or one more   *)
(* probe.                                                                  *)
Check(t) ==
  /\ At(t, "check")
  /\ IF port[t] > NPorts \/ cancelled
     THEN Goto(t, "store") /\ UNCHANGED tried
     ELSE /\ Goto(t, "dial")
          /\ tried' = [tried EXCEPT ![job[t]][port[t]] = @ + 1]
  /\ UNCHANGED <<poolVars, probe, results, metaAddr, ctx, feed, probed,
                 passed>>

(* Mutated form of ProbeFails: the next port is never reached.             *)
FailsForGood(t) ==
  /\ IF attempt[t] + 1 < Tries
     THEN Goto(t, "check") /\ attempt' = [attempt EXCEPT ![t] = @ + 1]
     ELSE Goto(t, "store") /\ attempt' = [attempt EXCEPT ![t] = 0]
  /\ UNCHANGED <<port, good, passed>>

(* The probe failed: the next attempt, or the next port.                   *)
ProbeFails(t) ==
  /\ Goto(t, "check")
  /\ IF attempt[t] + 1 < Tries
     THEN /\ attempt' = [attempt EXCEPT ![t] = @ + 1]
          /\ UNCHANGED port
     ELSE /\ attempt' = [attempt EXCEPT ![t] = 0]
          /\ port' = [port EXCEPT ![t] = @ + 1]
  /\ UNCHANGED <<good, passed>>

(* The probe passed once the handshake - and the meta fetch, when asked    *)
(* for - did; the durability ping only colours it.                         *)
ProbePasses(t) ==
  /\ Goto(t, IF scan.pings THEN "ping" ELSE "found")
  /\ good' = [good EXCEPT ![t] = TRUE]
  /\ passed' = passed \cup {<<job[t], port[t]>>}
  /\ UNCHANGED <<port, attempt>>

Handshake(t, done) ==
  /\ At(t, "dial")
  /\ IF ~done THEN ProbeFails(t)
     ELSE IF scan.wantMeta
     THEN Goto(t, "resolve") /\ UNCHANGED <<port, attempt, good, passed>>
     ELSE ProbePasses(t)
  /\ UNCHANGED <<poolVars, torn, results, metaAddr, ctx, feed, probed,
                 tried>>

(* metaAddr.Load()                                                         *)
Resolve(t) ==
  /\ At(t, "resolve")
  /\ Goto(t, IF metaAddr = NoAddr THEN "lookup" ELSE "get")
  /\ UNCHANGED <<poolVars, probe, results, metaAddr, ctx, feed, probed,
                 tried, passed>>

(* Mutated form of Lookup: a plain store instead of CompareAndSwap.        *)
LookupStores(t, answer) ==
  /\ At(t, "lookup")
  /\ IF answer = NoAddr
     THEN ProbeFails(t) /\ UNCHANGED metaAddr
     ELSE /\ metaAddr' = answer
          /\ Goto(t, "get")
          /\ UNCHANGED <<port, attempt, good, passed>>
  /\ UNCHANGED <<poolVars, torn, results, ctx, feed, probed, tried>>

(* The lookup through the tunnel fails or is answered; CompareAndSwap.     *)
Lookup(t, answer) ==
  /\ At(t, "lookup")
  /\ IF answer = NoAddr
     THEN ProbeFails(t) /\ UNCHANGED metaAddr
     ELSE /\ metaAddr' = IF metaAddr = NoAddr THEN answer ELSE metaAddr
          /\ Goto(t, "get")
          /\ UNCHANGED <<port, attempt, good, passed>>
  /\ UNCHANGED <<poolVars, torn, results, ctx, feed, probed, tried>>

FetchMeta(t, answered) ==
  /\ At(t, "get")
  /\ IF answered THEN ProbePasses(t) ELSE ProbeFails(t)
  /\ UNCHANGED <<poolVars, torn, results, metaAddr, ctx, feed, probed,
                 tried>>

(* st.durability: it takes no context, so a cancelled scan still waits.    *)
Durability(t, isTorn) ==
  /\ At(t, "ping")
  /\ torn' = [torn EXCEPT ![t] = isTorn]
  /\ Goto(t, "found")
  /\ UNCHANGED <<poolVars, port, attempt, good, results, metaAddr, ctx,
                 feed, probed, tried, passed>>

(* emit(found), with the host ping just before it.                         *)
EmitFound(t) ==
  /\ At(t, "found")
  /\ feed' = feed \cup {<<job[t], port[t], torn[t]>>}
  /\ Goto(t, "store")
  /\ UNCHANGED <<poolVars, probe, results, metaAddr, ctx, probed,
                 tried, passed>>

(* Mutated form of Store: the slot of the tunnel, not of the target.       *)
StoreByTunnel(t) ==
  /\ At(t, "store")
  /\ results' = IF good[t]
                THEN [results EXCEPT ![t - 1] =
                        [ok |-> TRUE, port |-> port[t],
                         measured |-> scan.pings, durable |-> ~torn[t]]]
                ELSE results
  /\ Goto(t, "report")
  /\ UNCHANGED <<poolVars, probe, metaAddr, ctx, feed, probed, tried,
                 passed>>

(* results[i] = r                                                          *)
Store(t) ==
  /\ At(t, "store")
  /\ results' = IF good[t]
                THEN [results EXCEPT ![job[t]] =
                        [ok |-> TRUE, port |-> port[t],
                         measured |-> scan.pings, durable |-> ~torn[t]]]
                ELSE results
  /\ Goto(t, "report")
  /\ UNCHANGED <<poolVars, probe, metaAddr, ctx, feed, probed, tried,
                 passed>>

(* Mutated form of EmitProbed: only the targets that worked are counted.   *)
EmitProbedIfOk(t) ==
  /\ At(t, "report")
  /\ probed' = IF good[t] THEN probed + 1 ELSE probed
  /\ Goto(t, "none")
  /\ FinishJob(t)
  /\ UNCHANGED <<probe, results, metaAddr, ctx, feed, tried, passed>>

(* The deferred emit(probedMsg{}), and fn returns.                         *)
EmitProbed(t) ==
  /\ At(t, "report")
  /\ probed' = probed + 1
  /\ Goto(t, "none")
  /\ FinishJob(t)
  /\ UNCHANGED <<probe, results, metaAddr, ctx, feed, tried, passed>>

(* The user quits while the scan runs.                                     *)
Cancel ==
  /\ ~cancelled /\ ~PoolOver
  /\ cancelled' = TRUE
  /\ UNCHANGED <<poolVars, pc, probe, results, metaAddr, scan, feed, probed,
                 tried, passed>>

Caller == \/ PoolCaller /\ UNCHANGED probeVars
          \/ \E t \in Tunnels : Take(t)

Body(t) == \/ Check(t) \/ Resolve(t) \/ EmitFound(t) \/ Store(t)
           \/ EmitProbed(t)
           \/ \E b \in BOOLEAN : \/ Handshake(t, b) \/ FetchMeta(t, b)
                                 \/ Durability(t, b)
           \/ \E a \in MetaAddrs \cup {NoAddr} : Lookup(t, a)

Next == Caller \/ Cancel \/ \E t \in Tunnels : Body(t)

(* As in TunnelPool: every call of Body carries a timeout.                 *)
Spec == /\ Init /\ [][Next]_vars
        /\ WF_vars(Caller) /\ \A t \in Tunnels : WF_vars(Body(t))

-----------------------------------------------------------------------------
(* Once the scan has returned, the report and the live feed tell the same: *)
(* a target is a result exactly if it was announced, at the same port and  *)
(* with the same verdict, and every target was counted.                    *)
ReportMatchesFeed ==
  phase = "returned" =>
    /\ probed = N
    /\ \A i \in Jobs :
         results[i].ok <=> \E x \in feed : x[1] = i
    /\ \A x \in feed : /\ results[x[1]].port = x[2]
                       /\ results[x[1]].durable = ~x[3]

(* The endpoint reported for a target is the first one of its list that    *)
(* passed: the ports before it were given all their attempts and failed,   *)
(* those after it were not tried at all.  A target given up on, other than *)
(* by the user, has had every attempt at every port fail.                  *)
FirstPassingPort ==
  \A i \in Jobs :
    /\ results[i].ok =>
         /\ <<i, results[i].port>> \in passed
         /\ \A p \in 1 .. results[i].port - 1 :
              tried[i][p] = Tries /\ <<i, p>> \notin passed
         /\ \A p \in PortIndex :
              p > results[i].port => tried[i][p] = 0
    /\ ran[i] = 1 /\ ~results[i].ok =>
         /\ \A p \in PortIndex : <<i, p>> \notin passed
         /\ ~cancelled => \A p \in PortIndex : tried[i][p] = Tries

(* All tunnels dial one address for the whole run: the first worker to     *)
(* resolve the name decides and a slower one does not change it.           *)
OneMetaAddress == [][metaAddr # NoAddr => metaAddr' = metaAddr]_metaAddr

(* A scan ends, cancelled or not, with every target accounted for.         *)
ScanEnds == <>(phase = "refused" \/ (phase = "returned" /\ probed = N))
=============================================================================
