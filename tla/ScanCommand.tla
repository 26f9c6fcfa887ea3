---------------------------- MODULE ScanCommand ----------------------------
(* runScanCmd of src/main.go: the account, the outer tunnel of -through,   *)
(* the scan in its UI, the filters, the speed phase in a second UI, and    *)
(* the outputs, down to the exit status.                                   *)
EXTENDS ScanUI, Integers, FiniteSets

VARIABLES
  step,       \* where runScanCmd is; "none": another command runs
  sure, torn, \* working and torn-down endpoints among the results
  outerUp,    \* the outer tunnel is dialled and not closed
  stdout,     \* the artifacts written to standard output
  files,      \* the files written: "conf", "report"
  unwritten,  \* the files whose writing failed
  outErr,     \* the error held back until the end
  exit,       \* the exit status, or -1 while running
  found       \* the scan ended with something to report

outVars == <<stdout, files, unwritten, outErr>>
cmdVars == <<opts, step, sure, torn, outerUp, outVars, exit, found>>

(* The flags that steer the command; -best and -conf - are rejected        *)
(* together by rejectBestConfStdout.                                       *)
ScanOptions ==
  {o \in [through : BOOLEAN, filtered : BOOLEAN, speed : BOOLEAN,
          best : BOOLEAN, conf : {"", "-", "file"}, noReport : BOOLEAN,
          output : BOOLEAN, plain : BOOLEAN, ports : BOOLEAN] :
     ~(o.best /\ o.conf = "-")}

ScanTypeOK ==
  /\ UITypeOK
  /\ opts \in ScanOptions
  /\ step \in {"none", "account", "setup", "outer", "scan", "scanning",
               "filter", "speed", "measuring", "print", "conf", "report",
               "return", "exited"}
  /\ sure + torn \in 0 .. Targets
  /\ {outerUp, outErr, found} \subseteq BOOLEAN
  /\ stdout \subseteq {"endpoint", "tables", "config"}
  /\ files \subseteq {"conf", "report"} /\ unwritten \subseteq {"conf", "report"}
  /\ exit \in {-1, 0, 1}

ScanInit ==
  /\ UIInit
  /\ opts \in ScanOptions
  /\ step = "account" /\ sure = 0 /\ torn = 0
  /\ outerUp = FALSE /\ outErr = FALSE /\ found = FALSE
  /\ stdout = {} /\ files = {} /\ unwritten = {} /\ exit = -1

-----------------------------------------------------------------------------
(* runScanCmd returns: its deferred Close runs, main sets the status.      *)
ReturnWith(status) ==
  /\ step' = "exited" /\ exit' = status
  /\ outerUp' = FALSE

(* showsSpeed: a speed that no output would show is not measured.          *)
ShowsSpeed == \/ ~opts.best /\ opts.conf # "-"
              \/ ~opts.noReport /\ opts.output

ReportDue == ~opts.noReport /\ (opts.output \/ (~opts.best /\ opts.conf # "-"))

(* loadScanAccount: without an account there is nothing to scan with.      *)
Account ==
  /\ step = "account"
  /\ \/ step' = "setup" /\ UNCHANGED <<exit, outerUp>>
     \/ ReturnWith(1)
  /\ UNCHANGED <<uiVars, opts, sure, torn, outVars, found>>

(* setupScan: a protocol, pools and an interface that can be scanned; and  *)
(* then the MASQUE device that a scan by MASQUE needs.                     *)
SetUp ==
  /\ step = "setup"
  /\ \/ step' = "outer" /\ UNCHANGED <<exit, outerUp>>
     \/ ReturnWith(1)
  /\ UNCHANGED <<uiVars, opts, sure, torn, outVars, found>>

DialOuter ==
  /\ step = "outer"
  /\ \/ /\ step' = "scan" /\ outerUp' = opts.through
        /\ UNCHANGED exit
     \/ opts.through /\ ReturnWith(1)
  /\ UNCHANGED <<uiVars, opts, sure, torn, outVars, found>>

StartScan ==
  /\ step = "scan"
  /\ Launch(FirstOfScan)
  /\ step' = "scanning"
  /\ UNCHANGED <<opts, sure, torn, outerUp, outVars, exit, found>>

(* os.Exit(1), which runs no deferred function.                            *)
ScanFails ==
  /\ step = "scanning" /\ UIOver
  /\ caller = "failed" \/ outcome = "error"
  /\ step' = "exited" /\ exit' = 1
  /\ UNCHANGED <<uiVars, opts, sure, torn, outerUp, outVars, found>>

(* The results: so many endpoints work, so many are torn down.             *)
ScanReturns ==
  /\ step = "scanning" /\ caller = "back" /\ outcome = "ok"
  /\ sure' \in 0 .. Targets /\ torn' \in 0 .. Targets - sure'
  /\ step' = "filter"
  /\ UNCHANGED <<uiVars, opts, outerUp, outVars, exit, found>>

(* applyFilters keeps some of both; nothing left is an error.              *)
Filter ==
  /\ step = "filter"
  /\ IF opts.filtered THEN sure' \in 0 .. sure /\ torn' \in 0 .. torn
                      ELSE UNCHANGED <<sure, torn>>
  /\ IF sure' + torn' = 0 THEN ReturnWith(1) /\ UNCHANGED found
     ELSE /\ step' = IF opts.speed /\ ShowsSpeed THEN "speed" ELSE "print"
          /\ found' = TRUE
          /\ UNCHANGED <<exit, outerUp>>
  /\ UNCHANGED <<uiVars, opts, outVars>>

StartSpeed ==
  /\ step = "speed"
  /\ Launch("speed")
  /\ step' = "measuring"
  /\ UNCHANGED <<opts, sure, torn, outerUp, outVars, exit, found>>

(* What this second runWithUI returns is ignored.                          *)
SpeedOver ==
  /\ step = "measuring" /\ UIOver
  /\ step' = "print"
  /\ UNCHANGED <<uiVars, opts, sure, torn, outerUp, outVars, exit, found>>

(* printBest, nothing for -conf -, or the tables.                          *)
PrintOut ==
  /\ step = "print"
  /\ stdout' = CASE opts.best /\ sure > 0 -> {"endpoint"}
                 [] ~opts.best /\ opts.conf # "-" -> {"tables"}
                 [] OTHER -> {}
  /\ outErr' = (opts.best /\ sure = 0)
  /\ step' = "conf"
  /\ UNCHANGED <<uiVars, opts, sure, torn, outerUp, files, unwritten, exit,
                 found>>

(* writeConfFile: the config of the best working endpoint if there is one, *)
(* to standard output or to a file that can be written.  The notes on how  *)
(* to use it are text.                                                     *)
ConfWritten(written) ==
  LET done == opts.conf # "" /\ sure > 0 /\ written
  IN  /\ stdout' = IF done /\ opts.conf = "-" THEN stdout \cup {"config"}
                                             ELSE stdout
      /\ files' = IF done /\ opts.conf = "file" THEN {"conf"} ELSE {}
      /\ unwritten' = IF opts.conf # "" /\ ~done THEN {"conf"} ELSE {}

(* Mutated form of WriteConf: it overwrites the error that is held.        *)
WriteConfForgets(written) ==
  /\ step = "conf"
  /\ ConfWritten(written)
  /\ outErr' = (unwritten' # {})
  /\ step' = "report"
  /\ UNCHANGED <<uiVars, opts, sure, torn, outerUp, exit, found>>

(* A failing -conf does not end the command either: its error is held,     *)
(* unless one of -best is held already.                                    *)
WriteConf(written) ==
  /\ step = "conf"
  /\ ConfWritten(written)
  /\ outErr' = (outErr \/ unwritten' # {})
  /\ step' = "report"
  /\ UNCHANGED <<uiVars, opts, sure, torn, outerUp, exit, found>>

(* Mutated form of WriteReport: the held error is returned first.          *)
WriteReportUnlessErr(written) ==
  /\ step = "report"
  /\ files' = IF ReportDue /\ written /\ ~outErr THEN files \cup {"report"}
                                                 ELSE files
  /\ unwritten' = IF ReportDue /\ ~written /\ ~outErr
                  THEN unwritten \cup {"report"} ELSE unwritten
  /\ step' = "return"
  /\ UNCHANGED <<uiVars, opts, sure, torn, outerUp, stdout, outErr, exit,
                 found>>

(* The report file; a failure to write it is only noted.                   *)
WriteReport(written) ==
  /\ step = "report"
  /\ files' = IF ReportDue /\ written THEN files \cup {"report"} ELSE files
  /\ unwritten' = IF ReportDue /\ ~written THEN unwritten \cup {"report"}
                                           ELSE unwritten
  /\ step' = "return"
  /\ UNCHANGED <<uiVars, opts, sure, torn, outerUp, stdout, outErr, exit,
                 found>>

Return ==
  /\ step = "return"
  /\ ReturnWith(IF outErr THEN 1 ELSE 0)
  /\ UNCHANGED <<uiVars, opts, sure, torn, outVars, found>>

Command == \/ Account \/ SetUp \/ DialOuter \/ StartScan \/ ScanFails
           \/ ScanReturns \/ Filter \/ StartSpeed \/ SpeedOver \/ PrintOut \/ Return
           \/ \E written \in BOOLEAN : WriteConf(written) \/ WriteReport(written)

-----------------------------------------------------------------------------
(* The comment in runScanCmd: the scan itself succeeded, so the report file*)
(* is still written (or tried) when -best or -conf could not deliver.      *)
ReportSurvives ==
  exit # -1 /\ found /\ ReportDue => "report" \in files \cup unwritten

BestDelivered == opts.best => sure > 0 /\ "endpoint" \in stdout

ConfDelivered ==
  /\ opts.conf = "-" => sure > 0 /\ "config" \in stdout
  /\ opts.conf = "file" => sure > 0 /\ "conf" \in files

(* The exit status tells of -best and -conf, and of nothing else: it is 0  *)
(* exactly if the scan found something and each of the two that was given  *)
(* was delivered, for an endpoint that works; an error that is held is not *)
(* lost on the way, nor made up.  It does not tell of the report: one that *)
(* could not be written, at the path of -output as well, is noted on       *)
(* standard error and leaves the status as it is.                          *)
StatusTellsOfBestAndConf ==
  exit # -1 => (exit = 0 <=> found /\ BestDelivered /\ ConfDelivered)

(* What the work writes is read only when the work is done, and the outer  *)
(* tunnel that the tunnels of the scan and of the speed phase cross is up  *)
(* as long as either is at work - unless p.Run itself failed: then         *)
(* runWithUI returns without <-workDone.                                   *)
WorkIsJoined ==
  caller # "failed" =>
    /\ step \in {"filter", "print", "conf", "report"} => stage = "ended"
    /\ step # "none" /\ opts.through /\ stage \notin {"idle", "ended"} => outerUp
=============================================================================
