------------------------------ MODULE Commands ------------------------------
(* main (src/cli.go) runs one command: scan, find-junk or find-sni, with   *)
(* one context; all three work through runScanUI.                          *)
EXTENDS Search, ScanCommand

vars == <<uiVars, searchVars, cmdVars>>

TypeOK ==
  \/ verdict = "none" /\ step # "none" /\ ScanTypeOK
  \/ step = "none" /\ SearchTypeOK

(* lookupCommand and the flags of the command.                             *)
Init ==
  \/ /\ ScanInit
     /\ verdict = "none" /\ round = 0 /\ best = 0 /\ reported = 0
     /\ scored = <<>>
  \/ /\ SearchInit
     /\ step = "none" /\ sure = 0 /\ torn = 0 /\ outerUp = FALSE
     /\ stdout = {} /\ files = {} /\ unwritten = {} /\ outErr = FALSE
     /\ exit = -1 /\ found = FALSE

Run == \/ step # "none" /\ Command /\ UNCHANGED searchVars
       \/ verdict # "none" /\ Loop /\ UNCHANGED cmdVars

Rest == UNCHANGED <<searchVars, cmdVars>>

Next == \/ Run
        \/ Interrupt /\ UNCHANGED cmdVars
        \/ (UISteps \/ Work \/ PressQuit \/ ProgramFails) /\ Rest

(* The command, the event loop and the work are goroutines that run; the   *)
(* user need not press anything.                                           *)
Fairness == /\ WF_vars(Run)
            /\ WF_vars(UISteps /\ Rest)
            /\ WF_vars(Work /\ Rest)

Spec == Init /\ [][Next]_vars /\ Fairness

Over == step = "exited" \/ verdict \notin {"none", "searching"}

-----------------------------------------------------------------------------
(* Once q is pressed or doneMsg has come, runWithUI returns: the work does *)
(* not wait for a program that is over, nor the caller for work that does. *)
(* And a quit ends a search; only a signal caught as a UI starts may leave *)
(* it to the user to press q, when the round it cut short counts as failed.*)
QuitEnds ==
  /\ (prog = "on" /\ quitting) ~> UIOver
  /\ (verdict = "searching" /\ cancelled)
       ~> (verdict # "searching" \/ (prog = "on" /\ outcome = "error"))

(* scan and find-sni end by themselves, unless their work fails in the     *)
(* terminal UI, which stays open on a failure: work that is done closes it.*)
EndsByItself ==
  \/ verdict # "none" /\ Endless
  \/ ~Plain /\ <>(outcome = "error")
  \/ <>Over
=============================================================================
