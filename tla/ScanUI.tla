------------------------------ MODULE ScanUI -------------------------------
(* One call of runWithUI (src/main.go): the bubbletea program whose Update *)
(* is in src/tui.go, the goroutine that does the work and reports through  *)
(* blocking Sends, and the caller that waits for both.  The work is runScan*)
(* or measureSpeed, seen through the messages it sends; PortProbe and      *)
(* ScanPhase have the inside of its pools.  In plain mode the caller does  *)
(* the work itself.  The modules that extend this one give opts its fields *)
(* and its other values.                                                   *)
EXTENDS Naturals

CONSTANTS Sample,      \* addresses phase 1 sweeps
          Targets,     \* targets of phase 2
          Picks        \* endpoints the speed phase measures

ASSUME UIAssumption == Sample \in Nat /\ Targets \in Nat /\ Picks \in Nat

VARIABLES
  opts,       \* the flags; .plain: no terminal UI, .ports: phase 1 is run
  caller,     \* "out", "run" (in p.Run), "join", "back" or "failed"
  prog,       \* the event loop: "off", "on" or "over"
  quitting,   \* Update has returned tea.Quit
  stage,      \* where the work is: the message it sends next
  left,       \* probedMsg that the pool under way still owes
  list,       \* the port list phase 1 is on
  outcome,    \* what the work has returned: "none" yet, "ok" or "error"
  cancelled   \* the context of the command

progVars == <<caller, prog, quitting>>
uiVars == <<progVars, stage, left, list, outcome, cancelled>>

Plain == opts.plain         \* usePlainOutput(opts)
PortPhase == opts.ports     \* neither MASQUE nor a pinned port

UITypeOK ==
  /\ caller \in {"out", "run", "join", "back", "failed"}
  /\ prog \in {"off", "on", "over"}
  /\ quitting \in BOOLEAN /\ cancelled \in BOOLEAN
  /\ stage \in {"idle", "ports", "ports pool", "scan", "scan pool", "speed",
                "speed loop", "fail", "done", "ended"}
  /\ left \in Nat
  /\ list \in {"primary", "extended"}
  /\ outcome \in {"none", "ok", "error"}

UIInit ==
  /\ caller = "out" /\ prog = "off" /\ quitting = FALSE
  /\ stage = "idle" /\ left = 0 /\ list = "primary" /\ outcome = "none"
  /\ cancelled = FALSE

-----------------------------------------------------------------------------
(* The caller.                                                             *)

FirstOfScan == IF PortPhase THEN "ports" ELSE "scan"

(* runWithUI makes a fresh program, starts the work and enters p.Run; in   *)
(* plain mode it makes no program.                                         *)
Launch(first) ==
  /\ caller' = "run"
  /\ prog' = IF Plain THEN "off" ELSE "on"
  /\ quitting' = FALSE
  /\ stage' = first /\ left' = 0 /\ list' = "primary" /\ outcome' = "none"
  /\ UNCHANGED cancelled

(* q, esc or ctrl+c reaches Update.                                        *)
PressQuit ==
  /\ prog = "on"
  /\ ~cancelled \/ ~quitting
  /\ cancelled' = TRUE /\ quitting' = TRUE
  /\ UNCHANGED <<caller, prog, stage, left, list, outcome>>

(* The command tea.Quit comes back as a message: p.Run returns nil.        *)
ProgramEnds ==
  /\ prog = "on" /\ quitting
  /\ prog' = "over" /\ caller' = "join"
  /\ UNCHANGED <<quitting, stage, left, list, outcome, cancelled>>

(* p.Run returns an error, and runWithUI does without waiting.             *)
ProgramFails ==
  /\ prog = "on"
  /\ prog' = "over" /\ caller' = "failed"
  /\ UNCHANGED <<quitting, stage, left, list, outcome, cancelled>>

(* Mutated form of Joined: <-workDone is missing.                          *)
NotJoined ==
  /\ caller = "join" \/ (Plain /\ caller = "run" /\ stage = "ended")
  /\ caller' = "back"
  /\ UNCHANGED <<prog, quitting, stage, left, list, outcome, cancelled>>

(* <-workDone; in plain mode the work has simply returned.                 *)
Joined ==
  /\ caller = "join" \/ (Plain /\ caller = "run")
  /\ stage = "ended"
  /\ caller' = "back"
  /\ UNCHANGED <<prog, quitting, stage, left, list, outcome, cancelled>>

-----------------------------------------------------------------------------
(* Mutated form of Emit: Send waits for the loop even when it is over.     *)
EmitBlocks(quits) ==
  /\ Plain \/ prog = "on"
  /\ quitting' = (quitting \/ quits)
  /\ UNCHANGED <<caller, prog, cancelled>>

(* emit(msg): p.Send hands the message to Update, or drops it when the     *)
(* program is over; plainEmit prints.  Only doneMsg makes Update quit.     *)
Emit(quits) ==
  /\ Plain \/ prog \in {"on", "over"}
  /\ quitting' = (quitting \/ (quits /\ prog = "on"))
  /\ UNCHANGED <<caller, prog, cancelled>>

Goto(s, n) == stage' = s /\ left' = n /\ UNCHANGED <<list, outcome>>

(* probePorts: a bar, then a pool over the sample, which may be refused.   *)
PortsBegin ==
  /\ stage = "ports"
  /\ Emit(FALSE)
  /\ Goto("ports pool", Sample) \/ Goto("fail", 0)

(* The bar ends with some port reachable, or none: the alternates, then an *)
(* error.                                                                  *)
PortsEnd ==
  /\ stage = "ports pool" /\ left = 0
  /\ Emit(FALSE)
  /\ \/ Goto("scan", 0)
     \/ list = "extended" /\ Goto("fail", 0)
     \/ /\ list = "primary" /\ list' = "extended"
        /\ stage' = "ports" /\ UNCHANGED <<left, outcome>>

ScanBegin ==
  /\ stage = "scan"
  /\ Emit(FALSE)
  /\ Goto("scan pool", Targets) \/ Goto("fail", 0)

ScanEnd ==
  /\ stage = "scan pool" /\ left = 0
  /\ Emit(FALSE)
  /\ Goto("done", 0)

(* measureSpeed: a bar, then one tunnel, which may fail to come up ...     *)
SpeedBegin ==
  /\ stage = "speed"
  /\ Emit(FALSE)
  /\ Goto("speed loop", Picks) \/ Goto("fail", 0)

(* ... then the picks one by one, until the context is cancelled.          *)
SpeedEnd ==
  /\ stage = "speed loop" /\ (left = 0 \/ cancelled)
  /\ Emit(FALSE)
  /\ Goto("done", 0)

(* One index is done: every job of a pool reports, cancelled or not, and   *)
(* the speed loop reports what it measured.                                *)
ProbeOne ==
  /\ \/ stage \in {"ports pool", "scan pool"}
     \/ stage = "speed loop" /\ ~cancelled
  /\ left > 0
  /\ Emit(FALSE)
  /\ Goto(stage, left - 1)

(* stepMsg{fail}: Update shows it and goes on.                             *)
EmitFail ==
  /\ stage = "fail"
  /\ Emit(FALSE)
  /\ stage' = "ended" /\ outcome' = "error"
  /\ UNCHANGED <<left, list>>

(* Mutated form of EmitDone: the last message does not end the program.    *)
EmitDoneStays ==
  /\ stage = "done"
  /\ Emit(FALSE)
  /\ stage' = "ended" /\ outcome' = "ok"
  /\ UNCHANGED <<left, list>>

(* doneMsg: Update answers with tea.Quit.                                  *)
EmitDone ==
  /\ stage = "done"
  /\ Emit(TRUE)
  /\ stage' = "ended" /\ outcome' = "ok"
  /\ UNCHANGED <<left, list>>

Work == \/ PortsBegin \/ PortsEnd \/ ScanBegin \/ ScanEnd \/ SpeedBegin
        \/ SpeedEnd \/ ProbeOne \/ EmitFail \/ EmitDone

(* What goes on inside runWithUI.  The user is free to press q or not.     *)
UISteps == ProgramEnds \/ Joined

(* runWithUI has returned.                                                 *)
UIOver == caller \in {"back", "failed"}
=============================================================================
