---------------------------- MODULE ParallelFor ----------------------------
(* What a caller of runTunnelPool (src/workers.go) relies on: either the   *)
(* call is refused before any work is done, or it returns once every index *)
(* has been processed exactly once.  Which tunnel did what, and in which   *)
(* order, is not part of the promise.                                      *)
EXTENDS Naturals

CONSTANT N            \* the number of indices, "n" of the call

Jobs == 0 .. N - 1

VARIABLES status,     \* "running", "returned" (nil) or "refused" (an error)
          ran         \* ran[i]: how many calls fn(_, i) have completed

Init == /\ status = "running"
        /\ ran = [i \in Jobs |-> 0]

Do(i) == /\ status = "running"
         /\ ran[i] = 0
         /\ ran' = [ran EXCEPT ![i] = 1]
         /\ UNCHANGED status

Return == /\ status = "running"
          /\ \A i \in Jobs : ran[i] = 1
          /\ status' = "returned"
          /\ UNCHANGED ran

Refuse == /\ status = "running"
          /\ \A i \in Jobs : ran[i] = 0
          /\ status' = "refused"
          /\ UNCHANGED ran

Next == (\E i \in Jobs : Do(i)) \/ Return \/ Refuse

Spec == Init /\ [][Next]_<<status, ran>>
=============================================================================
