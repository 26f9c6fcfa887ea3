------------------------- MODULE TunnelPoolProofs --------------------------
(* The pool of src/workers.go is correct for every number of workers and   *)
(* every number of indices.                                                *)
EXTENDS TunnelPool, TLAPS

(* How the caller's place in the function, the goroutines and the counters *)
(* hang together.  EachIndexOnce is not inductive without it: that a job   *)
(* in hand has an owner still running, and that no owner is left once the  *)
(* caller is past the join, are facts about the phases.                    *)
Lifecycle ==
  /\ \A t \in Tunnels : worker[t] = "busy" <=> job[t] # NoJob
  /\ phase \in {"create", "refused"} =>
       next = 0 /\ \A t \in Tunnels : worker[t] = "unborn"
  /\ phase \in {"feed", "wait", "close", "returned"} =>
       created > 0 /\ \A t \in Tunnels : worker[t] = "unborn" <=> t > created
  /\ phase = "feed" => \A t \in Tunnels : worker[t] # "gone"
  /\ phase \in {"wait", "close", "returned"} => next = N
  /\ phase \in {"close", "returned"} =>
       \A t \in Tunnels : worker[t] \in {"unborn", "gone"}
  /\ closed > 0 => phase \in {"close", "returned"}
  /\ phase = "returned" => closed = created
  /\ phase = "refused" => created = 0

IndInv == PoolTypeOK /\ Lifecycle /\ EachIndexOnce

-----------------------------------------------------------------------------
(* The two clamps leave a pool no larger than the work.                    *)
LEMMA PoolSizeBound == PoolSize \in 0 .. N
  BY WorkersAssumption, SizeAssumption DEF PoolSize, AtLeastOne

(* The pool starts in a state of the invariant.                            *)
LEMMA InitEstablishes == PoolInit => IndInv
  BY PoolSizeBound, SizeAssumption
  DEF PoolInit, IndInv, PoolTypeOK, Lifecycle, EachIndexOnce, Tunnels, Jobs,
      NoJob

(* Type correctness is preserved by every step.                            *)
LEMMA TypeStep == IndInv /\ [PoolNext]_poolVars => PoolTypeOK'
<1> SUFFICES ASSUME IndInv, [PoolNext]_poolVars
             PROVE  PoolTypeOK'
    OBVIOUS
<1> USE PoolSizeBound, SizeAssumption DEF IndInv, PoolTypeOK, Tunnels, Jobs
<1>1. CASE CreateTunnel   BY <1>1 DEF CreateTunnel
<1>2. CASE StartWorkers   BY <1>2 DEF StartWorkers
<1>3. CASE Refuse         BY <1>3 DEF Refuse
<1>4. CASE CloseJobs      BY <1>4 DEF CloseJobs
<1>5. CASE Joined         BY <1>5 DEF Joined
<1>6. CASE CloseTunnel    BY <1>6 DEF CloseTunnel
<1>7. CASE Return         BY <1>7 DEF Return
<1>8. ASSUME NEW t \in Tunnels, WorkerExit(t)  PROVE PoolTypeOK'
      BY <1>8 DEF WorkerExit
<1>9. ASSUME NEW t \in Tunnels, Send(t)  PROVE PoolTypeOK'
      BY <1>9 DEF Send
<1>10. ASSUME NEW t \in Tunnels, FinishJob(t)  PROVE PoolTypeOK'
  <2>1. job[t] \in Jobs
        BY <1>10 DEF FinishJob, Lifecycle, NoJob
  <2>2. ran' \in [Jobs -> Nat]
        BY <1>10, <2>1 DEF FinishJob
  <2> QED  BY <1>10, <2>2 DEF FinishJob, NoJob
<1>11. CASE UNCHANGED poolVars  BY <1>11 DEF poolVars
<1> QED
    BY <1>1, <1>2, <1>3, <1>4, <1>5, <1>6, <1>7, <1>8, <1>9, <1>10, <1>11
    DEF PoolNext, PoolCaller

(* The phases keep their shape.                                            *)
LEMMA LifecycleStep == IndInv /\ [PoolNext]_poolVars => Lifecycle'
<1> SUFFICES ASSUME IndInv, [PoolNext]_poolVars
             PROVE  Lifecycle'
    OBVIOUS
<1> USE PoolSizeBound, SizeAssumption
    DEF IndInv, PoolTypeOK, Lifecycle, Tunnels, Jobs, NoJob
<1>1. CASE CreateTunnel   BY <1>1 DEF CreateTunnel
<1>2. CASE StartWorkers   BY <1>2 DEF StartWorkers
<1>3. CASE Refuse         BY <1>3 DEF Refuse
<1>4. CASE CloseJobs      BY <1>4 DEF CloseJobs
<1>5. CASE Joined         BY <1>5 DEF Joined
<1>6. CASE CloseTunnel    BY <1>6 DEF CloseTunnel
<1>7. CASE Return         BY <1>7 DEF Return
<1>8. ASSUME NEW t \in Tunnels, WorkerExit(t)  PROVE Lifecycle'
      BY <1>8 DEF WorkerExit
<1>9. ASSUME NEW t \in Tunnels, Send(t)  PROVE Lifecycle'
      BY <1>9 DEF Send
<1>10. ASSUME NEW t \in Tunnels, FinishJob(t)  PROVE Lifecycle'
      BY <1>10 DEF FinishJob
<1>11. CASE UNCHANGED poolVars  BY <1>11 DEF poolVars
<1> QED
    BY <1>1, <1>2, <1>3, <1>4, <1>5, <1>6, <1>7, <1>8, <1>9, <1>10, <1>11
    DEF PoolNext, PoolCaller

(* An index changes hands only at Send, where no one held it yet, and at   *)
(* FinishJob, where its only holder lets it go.                            *)
LEMMA IndexStep == IndInv /\ [PoolNext]_poolVars => EachIndexOnce'
<1> SUFFICES ASSUME IndInv, [PoolNext]_poolVars
             PROVE  EachIndexOnce'
    OBVIOUS
<1>1. CASE UNCHANGED <<next, job, ran>>
      BY <1>1 DEF IndInv, EachIndexOnce
<1>2. ASSUME NEW t \in Tunnels, Send(t)  PROVE EachIndexOnce'
  <2>1. /\ job' = [job EXCEPT ![t] = next] /\ next' = next + 1 /\ ran' = ran
        /\ next \in Jobs /\ job[t] = NoJob /\ job \in [Tunnels -> 0 .. N]
        BY <1>2, SizeAssumption
        DEF Send, IndInv, PoolTypeOK, Lifecycle, Jobs
  <2>2. \A u \in Tunnels : job'[u] = IF u = t THEN next ELSE job[u]
        BY <2>1, <1>2
  <2>3. \A i \in Jobs : i # NoJob
        BY SizeAssumption DEF Jobs, NoJob
  <2> QED
      BY <2>1, <2>2, <2>3, <1>2, SizeAssumption
      DEF IndInv, EachIndexOnce, Jobs
<1>3. ASSUME NEW t \in Tunnels, FinishJob(t)  PROVE EachIndexOnce'
  <2>1. /\ job[t] \in Jobs /\ next' = next
        /\ job' = [job EXCEPT ![t] = NoJob]
        /\ ran' = [ran EXCEPT ![job[t]] = ran[job[t]] + 1]
        /\ job \in [Tunnels -> 0 .. N] /\ ran \in [Jobs -> Nat]
        BY <1>3, SizeAssumption
        DEF FinishJob, IndInv, PoolTypeOK, Lifecycle, Jobs, NoJob
  <2>2. \A u \in Tunnels : job'[u] = IF u = t THEN NoJob ELSE job[u]
        BY <2>1, <1>3
  <2>3. \A i \in Jobs : i # NoJob
        BY SizeAssumption DEF Jobs, NoJob
  <2>4. \A i \in Jobs : ran'[i] = IF i = job[t] THEN ran[i] + 1 ELSE ran[i]
        BY <2>1
  <2>5. PICK i \in Jobs : i = job[t]
        BY <2>1
  <2>6. next \in 0 .. N /\ i \in Nat /\ i < N
        BY SizeAssumption DEF IndInv, PoolTypeOK, Jobs
  <2>7. i < next /\ ran[i] = 0 /\ \A u \in Tunnels : job[u] = i => u = t
        BY <2>5, <2>6, <1>3 DEF IndInv, EachIndexOnce
  <2> QED
      BY <2>1, <2>2, <2>3, <2>4, <2>5, <2>6, <2>7, <1>3, SizeAssumption
      DEF IndInv, EachIndexOnce, Jobs
<1> QED
    BY <1>1, <1>2, <1>3
    DEF PoolNext, PoolCaller, CreateTunnel, StartWorkers, Refuse, CloseJobs,
        Joined, CloseTunnel, Return, WorkerExit, poolVars

(* The three parts together are inductive.                                 *)
LEMMA PoolStep == IndInv /\ [PoolNext]_poolVars => IndInv'
  BY TypeStep, LifecycleStep, IndexStep DEF IndInv

(* The pool never leaves them.                                             *)
LEMMA PoolInvariant == PoolSpec => []IndInv
  BY PoolStep, InitEstablishes, PTL DEF PoolSpec

-----------------------------------------------------------------------------
(* The types of the pool's state.                                          *)
THEOREM TypeCorrect == PoolSpec => []PoolTypeOK
  BY PoolInvariant, PTL DEF IndInv

(* Whatever the pool size and however many tunnels could be made, every    *)
(* index handed out is done once or in exactly one goroutine's hands.      *)
THEOREM IndexOnce == PoolSpec => []EachIndexOnce
  BY PoolInvariant, PTL DEF IndInv

(* No tunnel is closed under a goroutine that may still use it.            *)
THEOREM NoUseAfterClose == PoolSpec => []ClosedAfterUse
<1>1. IndInv => ClosedAfterUse
      BY DEF IndInv, Lifecycle, ClosedAfterUse
<1> QED
    BY <1>1, PoolInvariant, PTL

(* Once the caller is past the join no goroutine holds an index, so every  *)
(* index handed out has been processed.                                    *)
LEMMA ReturnFollows == IndInv => ReturnMeansDone
<1> SUFFICES ASSUME IndInv  PROVE ReturnMeansDone
    OBVIOUS
<1>1. ASSUME phase = "returned", NEW i \in Jobs  PROVE ran[i] = 1
  <2>1. \A t \in Tunnels : job[t] = NoJob
        BY <1>1 DEF IndInv, Lifecycle
  <2>2. i < next /\ i # NoJob
        BY <1>1, SizeAssumption DEF IndInv, Lifecycle, Jobs, NoJob
  <2> QED
      BY <2>1, <2>2 DEF IndInv, EachIndexOnce
<1>2. ASSUME phase = "refused", NEW i \in Jobs  PROVE ran[i] = 0
      BY <1>2, SizeAssumption
      DEF IndInv, Lifecycle, EachIndexOnce, Jobs
<1> QED
    BY <1>1, <1>2 DEF ReturnMeansDone, IndInv, Lifecycle

(* A pool that returns nil has processed everything and closed everything; *)
(* one that is refused has done neither.                                   *)
THEOREM ReturnIsComplete == PoolSpec => []ReturnMeansDone
  BY ReturnFollows, PoolInvariant, PTL

(* The pool starts where ParallelFor does.                                 *)
LEMMA PromiseStart == PoolInit => Promise!Init
  BY DEF PoolInit, Promise!Init, Jobs, Promise!Jobs, status

(* Each step of the pool is a step of ParallelFor under the reading of     *)
(* phase as a status, or changes nothing that ParallelFor can see.         *)
LEMMA PromiseStep ==
  IndInv /\ IndInv' /\ [PoolNext]_poolVars
    => [Promise!Next]_<<status, ran>>
<1> SUFFICES ASSUME IndInv, IndInv', [PoolNext]_poolVars
             PROVE  Promise!Next \/ UNCHANGED <<status, ran>>
    OBVIOUS
<1> USE DEF status
<1>1. ReturnMeansDone /\ ReturnMeansDone'
  <2>1. (IndInv => ReturnMeansDone)'
        BY ReturnFollows, PTL
  <2> QED  BY <2>1, ReturnFollows
<1>2. CASE Return
  <2>1. \A i \in Jobs : ran[i] = 1
        BY <1>1, <1>2 DEF Return, ReturnMeansDone
  <2> QED
      BY <2>1, <1>2
      DEF Return, Promise!Next, Promise!Return, Jobs, Promise!Jobs
<1>3. CASE Refuse
  <2>1. \A i \in Jobs : ran[i] = 0
        BY <1>1, <1>3 DEF Refuse, ReturnMeansDone
  <2> QED
      BY <2>1, <1>3
      DEF Refuse, Promise!Next, Promise!Refuse, Jobs, Promise!Jobs
<1>4. ASSUME NEW t \in Tunnels, FinishJob(t)  PROVE Promise!Next
  <2>1. job[t] \in Jobs /\ phase \notin {"returned", "refused"}
        BY <1>4, SizeAssumption
        DEF FinishJob, IndInv, PoolTypeOK, Lifecycle, Jobs, NoJob
  <2>2. PICK i \in Jobs : i = job[t]
        BY <2>1
  <2>3. i < next /\ ran[i] = 0
        BY <2>2, <1>4, SizeAssumption
        DEF IndInv, PoolTypeOK, EachIndexOnce, Jobs
  <2>4. status = "running" /\ status' = status
        BY <2>1, <1>4 DEF FinishJob
  <2>5. ran[job[t]] + 1 = 1
        BY <2>2, <2>3
  <2>6. ran' = [ran EXCEPT ![i] = 1]
        BY <2>2, <2>5, <1>4 DEF FinishJob
  <2> QED
      BY <2>2, <2>3, <2>4, <2>6
      DEF Promise!Next, Promise!Do, Jobs, Promise!Jobs
<1>5. ASSUME NEW t \in Tunnels, Send(t) \/ WorkerExit(t)
      PROVE  UNCHANGED <<status, ran>>
      BY <1>5 DEF Send, WorkerExit
<1>6. CASE \/ CreateTunnel \/ StartWorkers \/ CloseJobs
           \/ Joined \/ CloseTunnel \/ UNCHANGED poolVars
      BY <1>6
      DEF CreateTunnel, StartWorkers, CloseJobs, Joined, CloseTunnel,
          poolVars
<1> QED
    BY <1>2, <1>3, <1>4, <1>5, <1>6 DEF PoolNext, PoolCaller

(* The pool implements ParallelFor.                                        *)
THEOREM KeepsPromise == PoolSpec => PromiseKept
  BY PromiseStart, PromiseStep, PoolInvariant, PTL
  DEF PoolSpec, PromiseKept, Promise!Spec
=============================================================================
