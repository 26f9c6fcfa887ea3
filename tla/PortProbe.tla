----------------------------- MODULE PortProbe -----------------------------
(* Phase 1 of a scan: reachablePorts and probePorts of src/discovery.go.   *)
(* The pool of TunnelPool runs over the sampled addresses; the body of fn  *)
(* sweeps the port list of one address, and the first address that answers *)
(* publishes its list under the mutex and cancels the context the others   *)
(* check.  If no primary port answered, a second pool sweeps the extended  *)
(* list.                                                                   *)
EXTENDS TunnelPool, Sequences, FiniteSets, SequencesExt

CONSTANTS PrimaryPorts,   \* primaryWarpPorts, a sequence
          ExtendedPorts   \* extendedWarpPorts, a sequence

ASSUME PortsAssumption ==
  /\ PrimaryPorts \in Seq(ToSet(PrimaryPorts))
  /\ ExtendedPorts \in Seq(ToSet(ExtendedPorts))
  /\ IsInjective(PrimaryPorts \o ExtendedPorts)
  /\ PrimaryPorts # <<>>

VARIABLES
  list,       \* "primary" or "extended": the call of probePorts under way
  pos,        \* pos[t]: the index in the list that goroutine t is at
  dialling,   \* dialling[t]: t is inside tn.handshake
  found,      \* found[t]: the ports that answered t in this sweep
  recorded,   \* recorded[t]: t has left the mutex and is about to cancel()
  open,       \* the answer shared by the goroutines
  cancelled,  \* the context of this call of probePorts
  quit,       \* the context of the caller: the user gave up
  outcome,    \* what reachablePorts returned: "ports", "none" or "error"
  asked,      \* <<address, port>> pairs whose handshake ran its course
  heard       \* those among them that answered (both histories)

sweepVars == <<list, pos, dialling, found, recorded, open, cancelled, quit,
               outcome, asked, heard>>
vars == <<poolVars, sweepVars>>

Ports == IF list = "primary" THEN PrimaryPorts ELSE ExtendedPorts
PortSet == ToSet(Ports)
AllPorts == ToSet(PrimaryPorts) \cup ToSet(ExtendedPorts)

TypeOK ==
  /\ PoolTypeOK
  /\ list \in {"primary", "extended"}
  /\ pos \in [Tunnels -> 1 .. Len(Ports) + 1]
  /\ dialling \in [Tunnels -> BOOLEAN]
  /\ found \in [Tunnels -> SUBSET PortSet]
  /\ recorded \in [Tunnels -> BOOLEAN]
  /\ open \in SUBSET PortSet
  /\ cancelled \in BOOLEAN /\ quit \in BOOLEAN
  /\ outcome \in {"pending", "ports", "none", "error"}
  /\ asked \in SUBSET (Jobs \X AllPorts)
  /\ heard \in SUBSET asked

Init ==
  /\ PoolInit
  /\ list = "primary"
  /\ pos = [t \in Tunnels |-> 1]
  /\ dialling = [t \in Tunnels |-> FALSE]
  /\ found = [t \in Tunnels |-> {}]
  /\ recorded = [t \in Tunnels |-> FALSE]
  /\ open = {}
  /\ cancelled = FALSE /\ quit = FALSE
  /\ outcome = "pending"
  /\ asked = {} /\ heard = {}

-----------------------------------------------------------------------------
(* The goroutine receives the next address and starts a fresh sweep.       *)
Take(t) ==
  /\ Send(t)
  /\ pos' = [pos EXCEPT ![t] = 1]
  /\ found' = [found EXCEPT ![t] = {}]
  /\ UNCHANGED <<list, dialling, recorded, open, cancelled, quit, outcome,
                 asked, heard>>

Sweeping(t) == worker[t] = "busy" /\ ~dialling[t] /\ pos[t] <= Len(Ports)
Swept(t) == worker[t] = "busy" /\ pos[t] > Len(Ports)

(* The context check before each port: what was found so far is dropped.   *)
GiveUp(t) ==
  /\ Sweeping(t)
  /\ cancelled
  /\ FinishJob(t)
  /\ UNCHANGED sweepVars

Dial(t) ==
  /\ Sweeping(t)
  /\ ~cancelled
  /\ dialling' = [dialling EXCEPT ![t] = TRUE]
  /\ UNCHANGED <<poolVars, list, pos, found, recorded, open, cancelled, quit,
                 outcome, asked, heard>>

(* The handshake ends: the port answered or its timeout passed ...         *)
DialEnds(t, answered) ==
  /\ dialling[t]
  /\ LET pair == <<job[t], Ports[pos[t]]>>
     IN  /\ asked' = asked \cup {pair}
         /\ heard' = IF answered THEN heard \cup {pair} ELSE heard
  /\ found' = [found EXCEPT ![t] = IF answered THEN @ \cup {Ports[pos[t]]}
                                               ELSE @]
  /\ pos' = [pos EXCEPT ![t] = @ + 1]
  /\ dialling' = [dialling EXCEPT ![t] = FALSE]
  /\ UNCHANGED <<poolVars, list, recorded, open, cancelled, quit, outcome>>

(* ... or it was cut by the cancelled context, which reads the same.       *)
DialCut(t) ==
  /\ dialling[t]
  /\ cancelled
  /\ pos' = [pos EXCEPT ![t] = @ + 1]
  /\ dialling' = [dialling EXCEPT ![t] = FALSE]
  /\ UNCHANGED <<poolVars, list, found, recorded, open, cancelled, quit,
                 outcome, asked, heard>>

(* Nothing found: the goroutine goes for the next address.                 *)
SweepEmpty(t) ==
  /\ Swept(t)
  /\ found[t] = {}
  /\ FinishJob(t)
  /\ UNCHANGED sweepVars

(* Mutated form of Record: the lists of all addresses are pooled.          *)
RecordUnion(t) ==
  /\ Swept(t)
  /\ found[t] # {}
  /\ ~recorded[t]
  /\ open' = open \cup found[t]
  /\ recorded' = [recorded EXCEPT ![t] = TRUE]
  /\ UNCHANGED <<poolVars, list, pos, dialling, found, cancelled, quit,
                 outcome, asked, heard>>

(* The critical section: the first address to get here wins.               *)
Record(t) ==
  /\ Swept(t)
  /\ found[t] # {}
  /\ ~recorded[t]
  /\ open' = IF open = {} THEN found[t] ELSE open
  /\ recorded' = [recorded EXCEPT ![t] = TRUE]
  /\ UNCHANGED <<poolVars, list, pos, dialling, found, cancelled, quit,
                 outcome, asked, heard>>

(* cancel(), after the unlock; fn returns.                                 *)
CancelRest(t) ==
  /\ recorded[t]
  /\ cancelled' = TRUE
  /\ recorded' = [recorded EXCEPT ![t] = FALSE]
  /\ FinishJob(t)
  /\ UNCHANGED <<list, pos, dialling, found, open, quit, outcome, asked,
                 heard>>

(* The caller's context is cancelled, and with it the one derived from it. *)
Quit ==
  /\ outcome = "pending"
  /\ ~quit
  /\ quit' = TRUE
  /\ cancelled' = TRUE
  /\ UNCHANGED <<poolVars, list, pos, dialling, found, recorded, open,
                 outcome, asked, heard>>

-----------------------------------------------------------------------------
(* A call of probePorts with its own pool and its own locals.              *)
NewPool ==
  /\ phase' = "create" /\ created' = 0 /\ next' = 0 /\ closed' = 0
  /\ worker' = [t \in Tunnels |-> "unborn"]
  /\ job' = [t \in Tunnels |-> NoJob]
  /\ ran' = [i \in Jobs |-> 0]

NewLocals ==
  /\ pos' = [t \in Tunnels |-> 1]
  /\ dialling' = [t \in Tunnels |-> FALSE]
  /\ found' = [t \in Tunnels |-> {}]
  /\ recorded' = [t \in Tunnels |-> FALSE]
  /\ open' = {}

(* Mutated form of SweepExtended: sweep until something answers.           *)
SweepForever ==
  /\ phase = "returned"
  /\ open = {}
  /\ outcome = "pending"
  /\ list' = "extended"
  /\ cancelled' = quit
  /\ NewPool /\ NewLocals
  /\ UNCHANGED <<quit, outcome, asked, heard>>

(* The first call returned nil and no port: the alternates, under a new    *)
(* context derived from the caller's.                                      *)
SweepExtended ==
  /\ phase = "returned"
  /\ open = {}
  /\ list = "primary"
  /\ list' = "extended"
  /\ cancelled' = quit
  /\ NewPool /\ NewLocals
  /\ UNCHANGED <<quit, outcome, asked, heard>>

Answer ==
  /\ PoolOver
  /\ outcome = "pending"
  /\ phase = "returned" /\ open = {} => list = "extended"
  /\ outcome' = CASE phase = "refused" -> "error"
                  [] phase = "returned" /\ open = {} -> "none"
                  [] OTHER -> "ports"
  /\ UNCHANGED <<poolVars, list, pos, dialling, found, recorded, open,
                 cancelled, quit, asked, heard>>

Caller == \/ PoolCaller /\ UNCHANGED sweepVars
          \/ \E t \in Tunnels : Take(t)
          \/ SweepExtended
          \/ Answer

Goroutine(t) == \/ GiveUp(t) \/ Dial(t) \/ DialCut(t)
                \/ \E answered \in BOOLEAN : DialEnds(t, answered)
                \/ SweepEmpty(t) \/ Record(t) \/ CancelRest(t)

Next == Caller \/ Quit \/ \E t \in Tunnels : Goroutine(t)

(* The runtime schedules the caller and the goroutines, and a handshake    *)
(* ends by its timeout.  Nothing makes the user quit.                      *)
Fairness == WF_vars(Caller) /\ \A t \in Tunnels : WF_vars(Goroutine(t))

Spec == Init /\ [][Next]_vars /\ Fairness

-----------------------------------------------------------------------------
(* Phase 1 implements the choice of PortChoice: the list that is published *)
(* is one address's and complete, rather than a mix or what a cancelled    *)
(* sweep had gathered so far; it is never replaced; what a cancelled sweep *)
(* drops is never missed; and neither the alternates nor "none" come before*)
(* every port of the lists before them stayed silent everywhere.           *)
Choice == INSTANCE PortChoice WITH
            Addresses <- Jobs,
            Primary <- ToSet(PrimaryPorts),
            Extended <- ToSet(ExtendedPorts),
            chosen <- open
ChoiceKept == Choice!Spec

(* Phase 1 ends whatever answers, fails or is cancelled.                   *)
PhaseOneEnds == <>(outcome # "pending")
=============================================================================
