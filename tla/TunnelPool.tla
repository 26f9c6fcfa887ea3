---------------------------- MODULE TunnelPool -----------------------------
(* runTunnelPool of src/workers.go: one tunnel per worker goroutine, the   *)
(* caller feeding indices over an unbuffered channel, a WaitGroup join and *)
(* the deferred Close of every tunnel.  What fn does is left to the        *)
(* modules that extend this one; here it is the time between Send and      *)
(* FinishJob.                                                              *)
EXTENDS Integers

CONSTANTS Workers,    \* the requested pool size (-j), any integer
          N           \* the number of indices to process

ASSUME WorkersAssumption == Workers \in Int
ASSUME SizeAssumption == N \in Nat

Jobs == 0 .. N - 1

(* The two clamps at the head of the function: at least one worker, and    *)
(* never more than there is work for - so none at all when N = 0.          *)
AtLeastOne == IF Workers < 1 THEN 1 ELSE Workers
PoolSize == IF AtLeastOne > N THEN N ELSE AtLeastOne

Tunnels == 1 .. PoolSize

(* Out of range for an index: the worker runs no job.                      *)
NoJob == N

VARIABLES
  phase,     \* where the caller is
  created,   \* len(tunnels)
  next,      \* the feeder's loop variable
  worker,    \* worker[t]: the state of the goroutine that owns tunnel t
  job,       \* job[t]: the index that goroutine is processing
  ran,       \* ran[i]: completed calls of fn for index i (history)
  closed     \* how many tunnels the deferred loop has closed: 1 .. closed

poolVars == <<phase, created, next, worker, job, ran, closed>>

PoolTypeOK ==
  /\ phase \in {"create", "feed", "wait", "close", "returned", "refused"}
  /\ created \in 0 .. PoolSize
  /\ next \in 0 .. N
  /\ worker \in [Tunnels -> {"unborn", "idle", "busy", "gone"}]
  /\ job \in [Tunnels -> 0 .. N]
  /\ ran \in [Jobs -> Nat]
  /\ closed \in 0 .. created

PoolInit ==
  /\ phase = "create"
  /\ created = 0
  /\ next = 0
  /\ worker = [t \in Tunnels |-> "unborn"]
  /\ job = [t \in Tunnels |-> NoJob]
  /\ ran = [i \in Jobs |-> 0]
  /\ closed = 0

-----------------------------------------------------------------------------
(* newTunnel succeeds: one more tunnel.                                    *)
CreateTunnel ==
  /\ phase = "create"
  /\ created < PoolSize
  /\ created' = created + 1
  /\ UNCHANGED <<phase, next, worker, job, ran, closed>>

(* The creation loop ends, because the pool is full or because newTunnel   *)
(* failed at some point; each tunnel made so far gets a goroutine.         *)
StartWorkers ==
  /\ phase = "create"
  /\ created > 0
  /\ worker' = [t \in Tunnels |-> IF t <= created THEN "idle" ELSE "unborn"]
  /\ phase' = "feed"
  /\ UNCHANGED <<created, next, job, ran, closed>>

(* No tunnel at all: an error, nothing to close.                           *)
Refuse ==
  /\ phase = "create"
  /\ created = 0
  /\ phase' = "refused"
  /\ UNCHANGED <<created, next, worker, job, ran, closed>>

(* jobs <- i meets a goroutine that is back in its range loop.             *)
Send(t) ==
  /\ phase = "feed"
  /\ next < N
  /\ worker[t] = "idle"
  /\ worker' = [worker EXCEPT ![t] = "busy"]
  /\ job' = [job EXCEPT ![t] = next]
  /\ next' = next + 1
  /\ UNCHANGED <<phase, created, ran, closed>>

(* Mutated form of CloseJobs: the feeder stops one index early.            *)
CloseJobsEarly ==
  /\ phase = "feed"
  /\ next = N - 1
  /\ phase' = "wait"
  /\ UNCHANGED <<created, next, worker, job, ran, closed>>

CloseJobs ==
  /\ phase = "feed"
  /\ next = N
  /\ phase' = "wait"
  /\ UNCHANGED <<created, next, worker, job, ran, closed>>

(* fn(tn, i) returns.                                                      *)
FinishJob(t) ==
  /\ worker[t] = "busy"
  /\ worker' = [worker EXCEPT ![t] = "idle"]
  /\ ran' = [ran EXCEPT ![job[t]] = @ + 1]
  /\ job' = [job EXCEPT ![t] = NoJob]
  /\ UNCHANGED <<phase, created, next, closed>>

(* The closed channel ends the range loop: wg.Done().                      *)
WorkerExit(t) ==
  /\ phase = "wait"
  /\ worker[t] = "idle"
  /\ worker' = [worker EXCEPT ![t] = "gone"]
  /\ UNCHANGED <<phase, created, next, job, ran, closed>>

(* Mutated form of Joined: no wg.Wait().                                   *)
NotJoined ==
  /\ phase = "wait"
  /\ phase' = "close"
  /\ UNCHANGED <<created, next, worker, job, ran, closed>>

(* wg.Wait() returns and the deferred function starts.                     *)
Joined ==
  /\ phase = "wait"
  /\ \A t \in 1 .. created : worker[t] = "gone"
  /\ phase' = "close"
  /\ UNCHANGED <<created, next, worker, job, ran, closed>>

CloseTunnel ==
  /\ phase = "close"
  /\ closed < created
  /\ closed' = closed + 1
  /\ UNCHANGED <<phase, created, next, worker, job, ran>>
Return ==
  /\ phase = "close"
  /\ closed = created
  /\ phase' = "returned"
  /\ UNCHANGED <<created, next, worker, job, ran, closed>>

(* Everything but the hand-off and the body of fn, which belong to the     *)
(* modules that extend this one.                                           *)
PoolCaller == \/ CreateTunnel \/ StartWorkers \/ Refuse
              \/ CloseJobs \/ Joined \/ CloseTunnel \/ Return
              \/ \E t \in Tunnels : WorkerExit(t)

PoolNext == PoolCaller \/ \E t \in Tunnels : Send(t) \/ FinishJob(t)

(* The Go runtime schedules the caller and every goroutine, and every fn   *)
(* ends by itself: each network call it makes carries a timeout.           *)
PoolFairness == /\ WF_poolVars(PoolCaller \/ \E t \in Tunnels : Send(t))
                /\ \A t \in Tunnels : WF_poolVars(FinishJob(t))

PoolSpec == PoolInit /\ [][PoolNext]_poolVars /\ PoolFairness

-----------------------------------------------------------------------------
PoolOver == phase \in {"returned", "refused"}

(* Every index below the feeder's cursor is done once or held by exactly   *)
(* one goroutine, every other is untouched: the unbuffered hand-off neither*)
(* loses nor repeats an index, however many tunnels could be created.      *)
EachIndexOnce ==
  \A i \in Jobs :
    /\ i < next => \/ ran[i] = 1 /\ \A t \in Tunnels : job[t] # i
                   \/ ran[i] = 0 /\ \E t \in Tunnels : job[t] = i
    /\ i >= next => ran[i] = 0 /\ \A t \in Tunnels : job[t] # i
    /\ \A t, u \in Tunnels : job[t] = i /\ job[u] = i => t = u

(* A tunnel is closed only when no goroutine runs on it, or on any other,  *)
(* and none can be given a job again.                                      *)
ClosedAfterUse ==
  closed > 0 => /\ next = N
                /\ \A t \in Tunnels : worker[t] \in {"unborn", "gone"}

(* A nil return means all the work is done on tunnels that are all closed; *)
(* an error means no index was processed and no tunnel was left open.      *)
ReturnMeansDone ==
  /\ phase = "returned" => /\ \A i \in Jobs : ran[i] = 1
                           /\ closed = created
  /\ phase = "refused" => /\ \A i \in Jobs : ran[i] = 0
                          /\ created = 0

(* The pool implements the promise of ParallelFor.                         *)
status == CASE phase = "returned" -> "returned"
            [] phase = "refused" -> "refused"
            [] OTHER -> "running"

Promise == INSTANCE ParallelFor WITH N <- N, status <- status, ran <- ran
PromiseKept == Promise!Spec
=============================================================================
