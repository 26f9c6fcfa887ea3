--------------------------- MODULE CommandsProofs ---------------------------
(* What the commands return and leave behind, for every number of          *)
(* addresses, targets, picks, rounds and scores; and what the socks command*)
(* owes to its clients, for every number of them.                          *)
EXTENDS Commands, SocksProxy, TLAPS

-----------------------------------------------------------------------------
(* A terminal UI and its work, whatever the command.                       *)
UIInv ==
  /\ UITypeOK
  /\ prog = "on" => caller = "run" /\ ~Plain
  /\ caller = "back" => stage = "ended"

Resting == {"idle", "ended"}

(* scan: where the caller is at each step, and what the held error stands  *)
(* for.                                                                    *)
BeforeScan == {"account", "setup", "outer", "scan"}
Outputs == {"print", "conf", "report", "return"}

CallerAtStep ==
  /\ step \in BeforeScan => caller = "out" /\ stage = "idle"
  /\ step \in {"filter", "speed"} => caller = "back"
  /\ step \in Outputs => caller \in {"back", "failed"}
  /\ step = "exited" => stage \in Resting \/ caller = "failed"
  /\ step \in {"scan", "scanning", "filter", "speed", "measuring"} \cup Outputs
       => outerUp = opts.through

ReportTried == ReportDue => "report" \in files \cup unwritten

HeldError ==
  /\ exit = -1 <=> step # "exited"
  /\ step \in BeforeScan \cup {"scanning", "filter"} => ~found
  /\ step \in {"speed", "measuring"} \cup Outputs => found
  /\ step = "conf" => (outErr <=> ~BestDelivered) /\ "config" \notin stdout
  /\ step \in {"report", "return"} =>
       (outErr <=> ~(BestDelivered /\ ConfDelivered))
  /\ step = "return" \/ (step = "exited" /\ found) => ReportTried
  /\ exit # -1 => (exit = 0 <=> found /\ BestDelivered /\ ConfDelivered)

ScanInv ==
  /\ verdict = "none" /\ step # "none"
  /\ ScanTypeOK /\ sure \in Nat /\ torn \in Nat
  /\ CallerAtStep /\ HeldError

(* find-junk and find-sni: the best so far, and the round under way.       *)
BestSoFar ==
  /\ best = 0 \/ best \in Finished
  /\ \A s \in Finished : s <= best

RoundInv ==
  /\ verdict = "searching" =>
       /\ BestSoFar
       /\ \A s \in Finished : s < Threshold
       /\ caller \in {"run", "join", "back"} =>
            round >= 1 /\ scored[round] = Unscored
  /\ verdict # "searching" => caller = "out"

SearchInv ==
  /\ step = "none" /\ exit = -1 /\ verdict # "none"
  /\ SearchTypeOK /\ RoundInv /\ BestIsReported

CommandInv == UIInv /\ (ScanInv \/ SearchInv)
-----------------------------------------------------------------------------
(* No UI is open at first.                                                 *)
LEMMA UIStarts == UIInit => UIInv
<1> SUFFICES ASSUME UIInit  PROVE UIInv
    OBVIOUS
<1>1. quitting \in BOOLEAN /\ cancelled \in BOOLEAN
      BY DEF UIInit
<1> QED  BY <1>1 DEF UIInit, UIInv, UITypeOK

(* What goes on in a UI and in its work: the caller only moves on, and work*)
(* that rests is not taken up again.                                       *)
LEMMA UIMoves ==
  ASSUME UIInv, opts' = opts, UISteps \/ Work \/ PressQuit \/ ProgramFails
  PROVE  /\ UIInv'
         /\ \/ caller' = caller
            \/ caller \in {"run", "join"} /\ caller' \in {"join", "back", "failed"}
         /\ stage \in Resting => stage' = stage
<1>1. CASE UISteps \/ PressQuit \/ ProgramFails
  <2>1. quitting' \in BOOLEAN /\ cancelled' \in BOOLEAN
    <3>1. CASE UISteps \/ ProgramFails
          BY <3>1
          DEF UISteps, ProgramEnds, Joined, ProgramFails, UIInv, UITypeOK
    <3>2. CASE PressQuit
          BY <3>2 DEF PressQuit
    <3> QED  BY <1>1, <3>1, <3>2
  <2>2. /\ UNCHANGED <<stage, left, list, outcome>>
        /\ \/ caller' = caller /\ prog' = prog
           \/ caller = "run" /\ caller' \in {"join", "failed"} /\ prog' = "over"
           \/ /\ caller \in {"run", "join"} /\ caller' = "back" /\ prog' = prog
              /\ prog # "on" /\ stage = "ended"
        BY <1>1
        DEF UISteps, ProgramEnds, Joined, PressQuit, ProgramFails, UIInv, Plain
  <2> QED  BY <2>1, <2>2 DEF UIInv, UITypeOK, Plain
<1>2. CASE Work
  <2>1. /\ UNCHANGED <<caller, prog, cancelled>> /\ quitting' \in BOOLEAN
        BY <1>2
        DEF Work, PortsBegin, PortsEnd, ScanBegin, ScanEnd, SpeedBegin, SpeedEnd,
            ProbeOne, EmitFail, EmitDone, Emit, UIInv, UITypeOK
  <2>2. /\ stage \notin Resting
        /\ stage' \in {"ports", "ports pool", "scan", "scan pool", "speed",
                       "speed loop", "fail", "done", "ended"}
        BY <1>2
        DEF Work, PortsBegin, PortsEnd, ScanBegin, ScanEnd, SpeedBegin, SpeedEnd,
            ProbeOne, EmitFail, EmitDone, Goto, UIInv, UITypeOK, Resting
  <2>3. left' \in Nat
    <3>1. \/ left' \in {0, Sample, Targets, Picks, left}
          \/ left > 0 /\ left' = left - 1
          BY <1>2
          DEF Work, PortsBegin, PortsEnd, ScanBegin, ScanEnd, SpeedBegin,
              SpeedEnd, ProbeOne, EmitFail, EmitDone, Goto
    <3>2. left \in Nat
          BY DEF UIInv, UITypeOK
    <3> QED  BY <3>1, <3>2, UIAssumption
  <2>4. list' \in {"primary", "extended"} /\ outcome' \in {"none", "ok", "error"}
        BY <1>2
        DEF Work, PortsBegin, PortsEnd, ScanBegin, ScanEnd, SpeedBegin, SpeedEnd,
            ProbeOne, EmitFail, EmitDone, Goto, UIInv, UITypeOK
  <2> QED  BY <2>1, <2>2, <2>3, <2>4 DEF UIInv, UITypeOK, Resting, Plain
<1> QED  BY <1>1, <1>2

(* A call of runWithUI begins anew.                                        *)
LEMMA Launched ==
  ASSUME UIInv, NEW first \in {"ports", "scan", "speed"}, Launch(first),
         opts' = opts
  PROVE  UIInv' /\ caller' = "run"
<1>1. quitting' \in BOOLEAN
      BY DEF Launch
<1> QED  BY <1>1 DEF Launch, UIInv, UITypeOK, Plain

(* What changes nothing of a UI keeps its invariant, and so does the caller*)
(* that turns to something else once runWithUI has returned.               *)
LEMMA UIRests ==
  ASSUME UIInv, UNCHANGED <<opts, prog, quitting, stage, left, list, outcome>>,
         cancelled' \in BOOLEAN,
         caller' = caller \/ (caller # "run" /\ caller' = "out")
  PROVE  UIInv'
<1>1. UITypeOK'
      BY DEF UIInv, UITypeOK
<1>2. Plain' = Plain
      BY DEF Plain
<1> QED  BY <1>1, <1>2 DEF UIInv

-----------------------------------------------------------------------------
(* The flags of scan.                                                      *)
LEMMA ScanFlags ==
  ASSUME opts \in ScanOptions
  PROVE  /\ opts.best \in BOOLEAN /\ opts.through \in BOOLEAN
         /\ opts.conf \in {"", "-", "file"}
         /\ ~(opts.best /\ opts.conf = "-")
  BY DEF ScanOptions

(* A step of runScanCmd keeps what is known of it.                         *)
LEMMA ScanKept ==
  ASSUME UIInv, ScanInv, Command, UNCHANGED searchVars
  PROVE  UIInv' /\ ScanInv'
<1>1. /\ opts' = opts /\ verdict' = verdict
      /\ ScanTypeOK /\ CallerAtStep /\ HeldError
      /\ verdict = "none" /\ step # "none" /\ sure \in Nat /\ torn \in Nat
      BY DEF ScanInv, searchVars
<1>2. /\ {outerUp, outErr, found} \subseteq BOOLEAN
      /\ stdout \subseteq {"endpoint", "tables", "config"}
      /\ files \subseteq {"conf", "report"} /\ unwritten \subseteq {"conf", "report"}
      /\ exit \in {-1, 0, 1} /\ opts \in ScanOptions
      /\ sure + torn \in 0 .. Targets
      /\ opts.best \in BOOLEAN /\ opts.through \in BOOLEAN
      /\ opts.conf \in {"", "-", "file"} /\ ~(opts.best /\ opts.conf = "-")
      BY <1>1, ScanFlags DEF ScanTypeOK
<1>3. ASSUME UNCHANGED uiVars  PROVE UIInv'
  <2>1. /\ UNCHANGED <<opts, prog, quitting, stage, left, list, outcome>>
        /\ caller' = caller /\ cancelled' = cancelled
        BY <1>1, <1>3 DEF uiVars, progVars
  <2>2. cancelled' \in BOOLEAN
        BY <2>1 DEF UIInv, UITypeOK
  <2> QED  BY <2>1, <2>2, UIRests
<1>4. ASSUME UIInv', UNCHANGED <<sure, torn>>,
             step' \in {"setup", "outer", "scan", "scanning", "filter", "speed",
                        "measuring", "print", "conf", "report", "return",
                        "exited"},
             {outerUp', outErr', found'} \subseteq BOOLEAN,
             stdout' \subseteq {"endpoint", "tables", "config"},
             files' \subseteq {"conf", "report"},
             unwritten' \subseteq {"conf", "report"}, exit' \in {-1, 0, 1},
             CallerAtStep', HeldError'
      PROVE  UIInv' /\ ScanInv'
      BY <1>1, <1>2, <1>4 DEF ScanInv, ScanTypeOK, UIInv
<1>5. CASE Account \/ SetUp
  <2>1. /\ UNCHANGED <<uiVars, opts, sure, torn, outVars, found>>
        /\ step \in {"account", "setup"}
        /\ \/ step' \in {"setup", "outer"} /\ UNCHANGED <<exit, outerUp>>
           \/ step' = "exited" /\ exit' = 1 /\ outerUp' = FALSE
        BY <1>5 DEF Account, SetUp, ReturnWith
  <2>2. CallerAtStep'
        BY <1>1, <2>1
        DEF CallerAtStep, uiVars, progVars, BeforeScan, Outputs, Resting
  <2>3. HeldError'
        BY <1>1, <2>1 DEF HeldError, outVars, BeforeScan, Outputs
  <2> QED  BY <1>2, <1>3, <1>4, <2>1, <2>2, <2>3 DEF outVars
<1>6. CASE DialOuter
  <2>1. /\ UNCHANGED <<uiVars, opts, sure, torn, outVars, found>>
        /\ step = "outer"
        /\ \/ step' = "scan" /\ outerUp' = opts.through /\ UNCHANGED exit
           \/ step' = "exited" /\ exit' = 1 /\ outerUp' = FALSE
        BY <1>6 DEF DialOuter, ReturnWith
  <2>2. CallerAtStep'
        BY <1>1, <2>1
        DEF CallerAtStep, uiVars, progVars, BeforeScan, Outputs, Resting
  <2>3. HeldError'
        BY <1>1, <2>1 DEF HeldError, outVars, BeforeScan, Outputs
  <2> QED  BY <1>2, <1>3, <1>4, <2>1, <2>2, <2>3 DEF outVars
<1>7. CASE StartScan \/ StartSpeed
  <2>1. /\ UNCHANGED <<opts, sure, torn, outerUp, outVars, exit, found>>
        /\ \/ step = "scan" /\ step' = "scanning" /\ Launch(FirstOfScan)
           \/ step = "speed" /\ step' = "measuring" /\ Launch("speed")
        BY <1>7 DEF StartScan, StartSpeed
  <2>2. UIInv' /\ caller' = "run"
        BY <1>1, <2>1, Launched DEF FirstOfScan
  <2>3. CallerAtStep'
        BY <1>1, <2>1, <2>2 DEF CallerAtStep, BeforeScan, Outputs
  <2>4. HeldError'
        BY <1>1, <2>1 DEF HeldError, outVars, BeforeScan, Outputs
  <2> QED  BY <1>2, <1>4, <2>1, <2>2, <2>3, <2>4 DEF outVars
<1>8. CASE ScanFails
  <2>1. /\ UNCHANGED <<uiVars, opts, sure, torn, outerUp, outVars, found>>
        /\ step = "scanning" /\ step' = "exited" /\ exit' = 1
        /\ caller = "failed" \/ stage = "ended"
        BY <1>8 DEF ScanFails, UIOver, UIInv
  <2>2. CallerAtStep'
        BY <1>1, <2>1
        DEF CallerAtStep, uiVars, progVars, BeforeScan, Outputs, Resting
  <2>3. HeldError'
        BY <1>1, <2>1 DEF HeldError, outVars, BeforeScan, Outputs
  <2> QED  BY <1>2, <1>3, <1>4, <2>1, <2>2, <2>3 DEF outVars
<1>9. CASE ScanReturns
  <2>1. /\ UNCHANGED <<uiVars, opts, outerUp, outVars, exit, found>>
        /\ step = "scanning" /\ step' = "filter" /\ caller = "back"
        /\ sure' \in 0 .. Targets /\ torn' \in 0 .. Targets - sure'
        BY <1>9 DEF ScanReturns
  <2>2. CallerAtStep'
        BY <1>1, <2>1
        DEF CallerAtStep, uiVars, progVars, BeforeScan, Outputs, Resting
  <2>3. HeldError'
        BY <1>1, <2>1 DEF HeldError, outVars, BeforeScan, Outputs
  <2>4. sure' \in Nat /\ torn' \in Nat /\ sure' + torn' \in 0 .. Targets
    <3>1. \A n \in 0 .. Targets : \A m \in 0 .. Targets - n :
            n \in Nat /\ m \in Nat /\ n + m \in 0 .. Targets
          BY UIAssumption
    <3> QED  BY <2>1, <3>1
  <2> QED
      BY <1>1, <1>2, <1>3, <2>1, <2>2, <2>3, <2>4
      DEF ScanInv, ScanTypeOK, outVars, UIInv
<1>10. CASE Filter
  <2>1. /\ UNCHANGED <<uiVars, opts, outVars>> /\ step = "filter"
        /\ sure' \in 0 .. sure /\ torn' \in 0 .. torn
        /\ \/ step' = "exited" /\ exit' = 1 /\ outerUp' = FALSE /\ found' = found
           \/ /\ step' \in {"speed", "print"} /\ found' = TRUE
              /\ UNCHANGED <<exit, outerUp>>
        BY <1>1, <1>10 DEF Filter, ReturnWith
  <2>2. CallerAtStep'
        BY <1>1, <2>1
        DEF CallerAtStep, uiVars, progVars, BeforeScan, Outputs, Resting, UIInv
  <2>3. HeldError'
        BY <1>1, <2>1 DEF HeldError, outVars, BeforeScan, Outputs
  <2>4. sure' \in Nat /\ torn' \in Nat /\ sure' + torn' \in 0 .. Targets
    <3>1. \A s, t \in Nat : s + t \in 0 .. Targets =>
            \A n \in 0 .. s, m \in 0 .. t :
              n \in Nat /\ m \in Nat /\ n + m \in 0 .. Targets
          BY UIAssumption
    <3> QED  BY <1>1, <1>2, <2>1, <3>1
  <2>5. {outerUp', found'} \subseteq BOOLEAN /\ exit' \in {-1, 0, 1}
        BY <1>2, <2>1
  <2> QED
      BY <1>1, <1>2, <1>3, <2>1, <2>2, <2>3, <2>4, <2>5
      DEF ScanInv, ScanTypeOK, outVars, UIInv
<1>11. CASE SpeedOver
  <2>1. /\ UNCHANGED <<uiVars, opts, sure, torn, outerUp, outVars, exit, found>>
        /\ step = "measuring" /\ step' = "print" /\ caller \in {"back", "failed"}
        BY <1>11 DEF SpeedOver, UIOver
  <2>2. CallerAtStep'
        BY <1>1, <2>1
        DEF CallerAtStep, uiVars, progVars, BeforeScan, Outputs, Resting
  <2>3. HeldError'
        BY <1>1, <2>1 DEF HeldError, outVars, BeforeScan, Outputs
  <2> QED  BY <1>2, <1>3, <1>4, <2>1, <2>2, <2>3 DEF outVars
<1>12. CASE PrintOut
  <2>1. /\ UNCHANGED <<uiVars, opts, sure, torn, outerUp, files, unwritten, exit,
                       found>>
        /\ step = "print" /\ step' = "conf"
        /\ stdout' \subseteq {"endpoint", "tables"}
        /\ opts.best /\ sure > 0 => stdout' = {"endpoint"}
        /\ outErr' = (opts.best /\ sure = 0)
        BY <1>12 DEF PrintOut
  <2>2. CallerAtStep'
        BY <1>1, <2>1
        DEF CallerAtStep, uiVars, progVars, BeforeScan, Outputs, Resting
  <2>3. (outErr' <=> ~BestDelivered') /\ "config" \notin stdout'
    <3>1. opts' = opts /\ sure' = sure /\ sure \in Nat
          BY <1>1, <2>1
    <3>2. CASE opts.best /\ sure = 0
      <4>1. outErr' = TRUE
            BY <2>1, <3>2
      <4>2. ~BestDelivered'
            BY <3>1, <3>2 DEF BestDelivered
      <4> QED  BY <2>1, <4>1, <4>2
    <3>3. CASE ~(opts.best /\ sure = 0)
      <4>1. outErr' = FALSE
            BY <2>1, <3>3
      <4>2. BestDelivered'
            BY <2>1, <3>1, <3>3 DEF BestDelivered
      <4> QED  BY <2>1, <4>1, <4>2
    <3> QED  BY <3>2, <3>3
  <2>4. HeldError'
        BY <1>1, <2>1, <2>3 DEF HeldError, BeforeScan, Outputs
  <2>5. outErr' \in BOOLEAN
        BY <2>1
  <2>6. stdout' \subseteq {"endpoint", "tables", "config"}
        BY <2>1
  <2> QED  BY <1>2, <1>3, <1>4, <2>1, <2>2, <2>4, <2>5, <2>6
<1>13. ASSUME NEW written \in BOOLEAN, WriteConf(written)
       PROVE  UIInv' /\ ScanInv'
  <2> DEFINE done == opts.conf # "" /\ sure > 0 /\ written
  <2>1. /\ UNCHANGED <<uiVars, opts, sure, torn, outerUp, exit, found>>
        /\ step = "conf" /\ step' = "report"
        /\ stdout' = (IF done /\ opts.conf = "-" THEN stdout \cup {"config"}
                                                 ELSE stdout)
        /\ files' = IF done /\ opts.conf = "file" THEN {"conf"} ELSE {}
        /\ unwritten' = IF opts.conf # "" /\ ~done THEN {"conf"} ELSE {}
        /\ outErr' = (outErr \/ unwritten' # {})
        BY <1>1, <1>13 DEF WriteConf, ConfWritten
  <2>2. CallerAtStep'
        BY <1>1, <2>1
        DEF CallerAtStep, uiVars, progVars, BeforeScan, Outputs, Resting
  <2>3. /\ outErr <=> ~BestDelivered
        /\ BestDelivered' <=> BestDelivered
    <3>1. outErr <=> ~BestDelivered
          BY <1>1, <2>1 DEF HeldError
    <3>2. "endpoint" \in stdout' <=> "endpoint" \in stdout
          BY <2>1
    <3> QED  BY <2>1, <3>1, <3>2 DEF BestDelivered
  <2>4. unwritten' # {} <=> ~ConfDelivered'
    <3>1. "config" \notin stdout
          BY <1>1, <2>1 DEF HeldError
    <3>2. opts.conf \in {"", "-", "file"}
          BY <1>2 DEF ScanOptions
    <3> QED  BY <2>1, <3>1, <3>2 DEF ConfDelivered
  <2>5. HeldError'
    <3>1. /\ step' = "report" /\ exit' = exit /\ found' = found
          /\ exit = -1 /\ found
          BY <1>1, <2>1 DEF HeldError, Outputs
    <3>2. outErr' <=> ~(BestDelivered' /\ ConfDelivered')
      <4>1. outErr' <=> outErr \/ unwritten' # {}
            BY <2>1
      <4> QED  BY <2>3, <2>4, <4>1
    <3> QED  BY <3>1, <3>2 DEF HeldError, BeforeScan, Outputs
  <2>6. /\ stdout' \subseteq {"endpoint", "tables", "config"}
        /\ files' \subseteq {"conf", "report"}
        /\ unwritten' \subseteq {"conf", "report"} /\ outErr' \in BOOLEAN
        BY <1>2, <2>1
  <2> QED  BY <1>2, <1>3, <1>4, <2>1, <2>2, <2>5, <2>6
<1>14. ASSUME NEW written \in BOOLEAN, WriteReport(written)
       PROVE  UIInv' /\ ScanInv'
  <2>1. /\ UNCHANGED <<uiVars, opts, sure, torn, outerUp, stdout, outErr, exit,
                       found>>
        /\ step = "report" /\ step' = "return"
        /\ files \subseteq files' /\ files' \subseteq files \cup {"report"}
        /\ unwritten' \subseteq unwritten \cup {"report"}
        /\ ReportDue => "report" \in files' \cup unwritten'
        BY <1>14 DEF WriteReport
  <2>2. CallerAtStep'
        BY <1>1, <2>1
        DEF CallerAtStep, uiVars, progVars, BeforeScan, Outputs, Resting
  <2>3. HeldError'
    <3>1. /\ ReportTried' /\ (BestDelivered' <=> BestDelivered)
          /\ ConfDelivered' <=> ConfDelivered
      <4>1. "conf" \in files' <=> "conf" \in files
            BY <2>1
      <4> QED
          BY <2>1, <4>1 DEF ReportTried, ReportDue, BestDelivered, ConfDelivered
    <3> QED  BY <1>1, <2>1, <3>1 DEF HeldError, BeforeScan, Outputs
  <2> QED  BY <1>2, <1>3, <1>4, <2>1, <2>2, <2>3
<1>15. CASE Return
  <2>1. /\ UNCHANGED <<uiVars, opts, sure, torn, outVars, found>>
        /\ step = "return" /\ step' = "exited" /\ outerUp' = FALSE
        /\ exit' = IF outErr THEN 1 ELSE 0
        BY <1>15 DEF Return, ReturnWith
  <2>2. CallerAtStep'
        BY <1>1, <2>1
        DEF CallerAtStep, uiVars, progVars, BeforeScan, Outputs, Resting, UIInv
  <2>3. HeldError'
    <3>1. /\ ReportTried => ReportTried'
          /\ BestDelivered' <=> BestDelivered
          /\ ConfDelivered' <=> ConfDelivered
          BY <2>1
          DEF ReportTried, ReportDue, BestDelivered, ConfDelivered, outVars
    <3>2. found /\ found' /\ ReportTried'
          BY <1>1, <2>1, <3>1 DEF HeldError, Outputs
    <3>3. outErr <=> ~(BestDelivered' /\ ConfDelivered')
          BY <1>1, <2>1, <3>1 DEF HeldError
    <3>4. exit' \in {0, 1} /\ (exit' = 0 <=> ~outErr)
          BY <2>1
    <3> QED  BY <2>1, <3>2, <3>3, <3>4 DEF HeldError, BeforeScan, Outputs
  <2>4. exit' \in {-1, 0, 1}
        BY <2>1
  <2> QED  BY <1>2, <1>3, <1>4, <2>1, <2>2, <2>3, <2>4 DEF outVars
<1> QED
    BY <1>5, <1>6, <1>7, <1>8, <1>9, <1>10, <1>11, <1>12, <1>13, <1>14, <1>15
    DEF Command

(* ... and what goes on in the UI leaves the command where it is.          *)
LEMMA ScanGoesOn ==
  ASSUME UIInv, ScanInv, UISteps \/ Work \/ PressQuit \/ ProgramFails, Rest
  PROVE  UIInv' /\ ScanInv'
<1>1. /\ UIInv'
      /\ stage \in Resting => stage' = stage
      /\ \/ caller' = caller
         \/ caller \in {"run", "join"} /\ caller' \in {"join", "back", "failed"}
      BY UIMoves DEF Rest, searchVars
<1>2. UNCHANGED <<opts, verdict, step, sure, torn, outerUp, stdout, files,
                  unwritten, outErr, exit, found>>
      BY DEF Rest, searchVars, cmdVars, outVars
<1>3. CallerAtStep'
      BY <1>1, <1>2 DEF ScanInv, CallerAtStep, Resting
<1>4. HeldError'
      BY <1>2
      DEF ScanInv, HeldError, BestDelivered, ConfDelivered, ReportTried, ReportDue
<1> QED  BY <1>1, <1>2, <1>3, <1>4 DEF ScanInv, ScanTypeOK, UIInv

-----------------------------------------------------------------------------
(* The scores of the rounds are numbers, none of them Unscored.            *)
LEMMA ScoresAreNumbers ==
  ASSUME SearchTypeOK
  PROVE  /\ Finished \subseteq Scores /\ \A s \in Scores : s \in Nat
         /\ Unscored \notin Scores
         /\ round \in Nat /\ best \in Nat /\ Threshold \in Nat \ {0}
<1>1. /\ Targets \in Nat /\ Threshold \in Nat \ {0}
      /\ \A s \in Scores : s \in Nat /\ s <= Targets
      BY UIAssumption, SearchAssumption
<1>2. Unscored \notin Scores
      BY <1>1 DEF Unscored
<1>3. Finished \subseteq Scores
      BY DEF SearchTypeOK, Finished, Unscored
<1>4. round \in 0 .. Rounds /\ best \in 0 .. Targets
      BY DEF SearchTypeOK
<1>5. round \in Nat /\ best \in Nat
      BY <1>1, <1>4, SearchAssumption
<1> QED  BY <1>1, <1>2, <1>3, <1>5

(* A new round has no score yet.                                           *)
LEMMA OneMoreRound ==
  ASSUME SearchTypeOK, round' = round + 1,
         scored' = [r \in 1 .. round + 1 |->
                      IF r <= round THEN scored[r] ELSE Unscored]
  PROVE  /\ Finished' = Finished /\ scored'[round'] = Unscored
         /\ scored' \in [1 .. round' -> Scores \cup {Targets + 1}]
<1>1. scored \in [1 .. round -> Scores \cup {Targets + 1}]
      BY DEF SearchTypeOK
<1>2. /\ \A r \in 1 .. round + 1 : r \in 1 .. round \/ r = round + 1
      /\ \A r \in 1 .. round : r \in 1 .. round + 1 /\ r <= round
      /\ ~(round + 1 <= round) /\ round + 1 \in 1 .. round + 1
  <2>1. round \in Nat
        BY ScoresAreNumbers
  <2> QED  BY <2>1
<1>3. /\ \A r \in 1 .. round : scored'[r] = scored[r]
      /\ scored'[round + 1] = Unscored
      BY <1>1, <1>2
<1>4. Finished' = Finished
      BY <1>1, <1>2, <1>3 DEF Finished, Unscored
<1>5. scored' \in [1 .. round + 1 -> Scores \cup {Targets + 1}]
      BY <1>1, <1>2, <1>3 DEF Unscored
<1> QED  BY <1>3, <1>4, <1>5

(* A score of the round under way is one more score.                       *)
LEMMA OneMoreScore ==
  ASSUME SearchTypeOK, NEW w \in Scores, round >= 1, scored[round] = Unscored,
         round' = round, scored' = [scored EXCEPT ![round] = w]
  PROVE  /\ Finished' = Finished \cup {w} /\ scored'[round] = w
         /\ scored' \in [1 .. round -> Scores \cup {Targets + 1}]
<1>1. /\ scored \in [1 .. round -> Scores \cup {Targets + 1}]
      /\ w # Unscored
      BY ScoresAreNumbers DEF SearchTypeOK
<1>2. round \in 1 .. round
  <2>1. round \in Nat
        BY ScoresAreNumbers
  <2> QED  BY <2>1
<1>3. /\ scored'[round] = w
      /\ \A r \in 1 .. round : r # round => scored'[r] = scored[r]
      /\ scored' \in [1 .. round -> Scores \cup {Targets + 1}]
      BY <1>1, <1>2
<1>4. Finished' = Finished \cup {w}
      BY <1>1, <1>2, <1>3 DEF Finished, Unscored
<1> QED  BY <1>3, <1>4

(* A step of the loop keeps what is known of it.                           *)
LEMMA LoopKept ==
  ASSUME UIInv, SearchInv, Loop, UNCHANGED cmdVars
  PROVE  UIInv' /\ SearchInv'
<1>1. /\ opts' = opts /\ step' = step /\ exit' = exit
      /\ step = "none" /\ exit = -1 /\ verdict # "none"
      /\ SearchTypeOK /\ RoundInv /\ BestIsReported
      BY DEF SearchInv, cmdVars
<1>2. /\ Finished \subseteq Scores /\ \A s \in Scores : s \in Nat
      /\ round \in Nat /\ best \in Nat /\ Threshold \in Nat \ {0}
      /\ cancelled \in BOOLEAN
      BY <1>1, ScoresAreNumbers DEF UIInv, UITypeOK
<1>3. ASSUME UNCHANGED <<round, scored>>
      PROVE  Finished' = Finished
      BY <1>3 DEF Finished
<1>4. ASSUME UIInv',
             verdict' \in {"searching", "enough", "best", "nothing", "error"},
             round' \in 0 .. Rounds, best' \in 0 .. Targets,
             reported' \in 0 .. Targets,
             scored' \in [1 .. round' -> Scores \cup {Targets + 1}],
             RoundInv', BestIsReported'
      PROVE  UIInv' /\ SearchInv'
      BY <1>1, <1>4 DEF SearchInv, SearchTypeOK, UIInv
<1>5. CASE NextRound
  <2>1. /\ verdict = "searching" /\ round < Rounds /\ round' = round + 1
        /\ UNCHANGED <<best, verdict, reported>> /\ Launch(FirstOfScan)
        BY <1>5 DEF NextRound, AtHead
  <2>2. /\ Finished' = Finished /\ scored'[round'] = Unscored
        /\ scored' \in [1 .. round' -> Scores \cup {Targets + 1}]
        BY <1>1, <1>5, OneMoreRound DEF NextRound
  <2>3. UIInv' /\ caller' = "run"
        BY <1>1, <2>1, Launched DEF FirstOfScan
  <2>4. round' \in 0 .. Rounds /\ round' >= 1
        BY <1>2, <2>1, SearchAssumption
  <2>5. RoundInv' /\ BestIsReported'
        BY <1>1, <2>1, <2>2, <2>4
        DEF RoundInv, BestSoFar, BestIsReported, Unscored
  <2> QED  BY <1>1, <1>4, <2>1, <2>2, <2>3, <2>4, <2>5 DEF SearchTypeOK
<1>6. CASE RegenFails
  <2>1. /\ verdict' = "error" /\ caller = "out"
        /\ UNCHANGED <<uiVars, round, best, reported, scored>>
        BY <1>6 DEF RegenFails, AtHead
  <2>2. UIInv'
        BY <1>1, <1>2, <2>1, UIRests DEF uiVars, progVars
  <2>3. RoundInv' /\ BestIsReported'
        BY <2>1 DEF RoundInv, BestIsReported, uiVars, progVars
  <2> QED  BY <1>1, <1>4, <2>1, <2>2, <2>3 DEF SearchTypeOK
<1>7. CASE RoundFails
  <2>1. /\ caller # "run" /\ caller' = "out"
        /\ UNCHANGED <<prog, quitting, stage, left, list, outcome, cancelled,
                       round, best, verdict, reported, scored>>
        BY <1>7 DEF RoundFails, UIOver, searchVars
  <2>2. UIInv'
        BY <1>1, <1>2, <2>1, UIRests
  <2>3. RoundInv' /\ BestIsReported'
        BY <1>1, <1>3, <2>1 DEF RoundInv, BestSoFar, BestIsReported
  <2>4. verdict' \in {"searching", "enough", "best", "nothing", "error"}
        BY <1>1, <2>1 DEF SearchTypeOK
  <2> QED  BY <1>1, <1>4, <2>1, <2>2, <2>3, <2>4 DEF SearchTypeOK
<1>8. CASE Stop
  <2>1. /\ verdict = "searching" /\ caller # "run" /\ caller' = "out"
        /\ verdict' = (IF best = 0 THEN "nothing" ELSE "best")
        /\ reported' = best
        /\ UNCHANGED <<prog, quitting, stage, left, list, outcome, cancelled,
                       round, best, scored>>
        BY <1>8 DEF Stop, UIOver, AtHead
  <2>2. UIInv'
        BY <1>1, <1>2, <2>1, UIRests
  <2>3. /\ best = 0 \/ best \in Finished
        /\ \A s \in Finished : s <= best /\ s < Threshold
        BY <1>1, <2>1 DEF RoundInv, BestSoFar
  <2>4. CASE best = 0
    <3>1. Finished \subseteq {0}
          BY <1>2, <2>3, <2>4
    <3> QED
        BY <1>1, <1>3, <1>4, <2>1, <2>2, <2>4, <3>1
        DEF RoundInv, BestIsReported, SearchTypeOK
  <2>5. CASE best # 0
    <3>1. best \in Finished /\ ~(best >= Threshold)
          BY <1>2, <2>3, <2>5
    <3> QED
        BY <1>1, <1>3, <1>4, <2>1, <2>2, <2>3, <2>5, <3>1
        DEF RoundInv, BestIsReported, SearchTypeOK
  <2> QED  BY <2>4, <2>5
<1>9. ASSUME NEW w \in Scores, RoundScores(w)
      PROVE  UIInv' /\ SearchInv'
  <2>1. /\ caller = "back" /\ caller' = "out"
        /\ scored' = [scored EXCEPT ![round] = w]
        /\ best' = (IF w > best THEN w ELSE best)
        /\ \/ w >= Threshold /\ verdict' = "enough" /\ reported' = w
           \/ ~(w >= Threshold) /\ UNCHANGED <<verdict, reported>>
        /\ UNCHANGED <<prog, quitting, stage, left, list, outcome, cancelled,
                       round>>
        BY <1>9 DEF RoundScores
  <2>2. UIInv'
        BY <1>1, <1>2, <2>1, UIRests
  <2>3. /\ verdict = "searching" /\ round >= 1 /\ scored[round] = Unscored
        /\ BestSoFar
        /\ \A s \in Finished : s < Threshold
        BY <1>1, <2>1 DEF RoundInv
  <2>4. /\ Finished' = Finished \cup {w} /\ scored'[round] = w
        /\ scored' \in [1 .. round -> Scores \cup {Targets + 1}]
        BY <1>1, <2>1, <2>3, OneMoreScore
  <2>5. w \in Nat /\ w \in 0 .. Targets /\ best \in 0 .. Targets
        BY <1>1, <1>2, SearchAssumption DEF SearchTypeOK
  <2>6. BestSoFar'
    <3>1. best' \in {w, best} /\ w <= best' /\ best <= best' /\ best' \in Nat
          BY <1>2, <2>1, <2>5
    <3>2. \A s \in Finished : s \in Nat /\ s <= best
          BY <1>2, <2>3 DEF BestSoFar
    <3>3. \A s \in Finished : s <= best'
          BY <1>2, <3>1, <3>2
    <3> QED  BY <2>3, <2>4, <3>1, <3>3 DEF BestSoFar
  <2>7. CASE w >= Threshold
    <3>1. \A s \in Finished' : s <= w
          BY <1>2, <2>3, <2>4, <2>5, <2>7
    <3>2. RoundInv' /\ BestIsReported'
          BY <2>1, <2>4, <2>7, <3>1 DEF RoundInv, BestIsReported
    <3> QED
        BY <1>1, <1>4, <2>1, <2>2, <2>4, <2>5, <2>7, <3>2 DEF SearchTypeOK
  <2>8. CASE ~(w >= Threshold)
    <3>1. \A s \in Finished' : s < Threshold
          BY <1>2, <2>3, <2>4, <2>5, <2>8
    <3>2. RoundInv' /\ BestIsReported'
          BY <2>1, <2>3, <2>6, <2>8, <3>1 DEF RoundInv, BestIsReported
    <3> QED
        BY <1>1, <1>4, <2>1, <2>2, <2>3, <2>4, <2>5, <2>8, <3>2 DEF SearchTypeOK
  <2> QED  BY <2>7, <2>8
<1> QED  BY <1>5, <1>6, <1>7, <1>8, <1>9 DEF Loop

(* ... and so does what goes on in the UI of a round, or a signal.         *)
LEMMA SearchGoesOn ==
  ASSUME UIInv, SearchInv,
         \/ (UISteps \/ Work \/ PressQuit \/ ProgramFails) /\ Rest
         \/ Interrupt /\ UNCHANGED cmdVars
  PROVE  UIInv' /\ SearchInv'
<1>1. UNCHANGED <<opts, step, exit, round, best, verdict, reported, scored>>
      BY DEF Rest, cmdVars, Interrupt, searchVars
<1>2. /\ UIInv'
      /\ \/ caller' = caller
         \/ caller \in {"run", "join"} /\ caller' \in {"join", "back", "failed"}
  <2>1. CASE Interrupt
    <3>1. cancelled' \in BOOLEAN
          BY <2>1 DEF Interrupt
    <3> QED  BY <1>1, <2>1, <3>1, UIRests DEF Interrupt, progVars
  <2> QED  BY <1>1, <2>1, UIMoves
<1>3. RoundInv' /\ BestIsReported'
      BY <1>1, <1>2
      DEF SearchInv, RoundInv, BestSoFar, BestIsReported, Finished, Unscored
<1> QED  BY <1>1, <1>2, <1>3 DEF SearchInv, SearchTypeOK, UIInv

-----------------------------------------------------------------------------
(* The invariant of the three commands.                                    *)
LEMMA CommandInvariant == Spec => []CommandInv
<1>1. Init => CommandInv
  <2> SUFFICES ASSUME Init  PROVE CommandInv
      OBVIOUS
  <2>1. UIInv
        BY UIStarts DEF Init, ScanInit, SearchInit
  <2>2. CASE ScanInit /\ verdict = "none"
    <3>1. sure + torn \in 0 .. Targets
          BY <2>2, UIAssumption DEF ScanInit
    <3>2. {outerUp, outErr, found} \subseteq BOOLEAN
          BY <2>2 DEF ScanInit
    <3>3. ScanTypeOK
          BY <2>1, <2>2, <3>1, <3>2 DEF ScanInit, ScanTypeOK, UIInv
    <3>4. CallerAtStep /\ HeldError
          BY <2>2
          DEF ScanInit, UIInit, CallerAtStep, HeldError, BeforeScan, Outputs
    <3> QED  BY <2>1, <2>2, <3>3, <3>4 DEF ScanInit, ScanInv, CommandInv
  <2>3. CASE SearchInit /\ step = "none" /\ exit = -1
    <3>1. 0 \in 0 .. Rounds /\ 0 \in 0 .. Targets /\ 1 .. 0 = {}
          BY UIAssumption, SearchAssumption
    <3>2. scored \in [1 .. 0 -> Scores \cup {Targets + 1}] /\ Finished = {}
          BY <2>3, <3>1 DEF SearchInit, Finished
    <3>3. SearchTypeOK
          BY <2>1, <2>3, <3>1, <3>2 DEF SearchInit, SearchTypeOK, UIInv
    <3>4. RoundInv /\ BestIsReported
          BY <2>3, <3>2
          DEF SearchInit, UIInit, RoundInv, BestSoFar, BestIsReported
    <3> QED  BY <2>1, <2>3, <3>3, <3>4 DEF SearchInit, SearchInv, CommandInv
  <2> QED  BY <2>2, <2>3 DEF Init
<1>2. CommandInv /\ [Next]_vars => CommandInv'
  <2> SUFFICES ASSUME CommandInv, [Next]_vars  PROVE CommandInv'
      OBVIOUS
  <2>1. UIInv /\ (ScanInv \/ SearchInv)
        BY DEF CommandInv
  <2>2. ASSUME UNCHANGED vars
        PROVE  /\ UNCHANGED <<uiVars, searchVars, cmdVars>>
               /\ UIInv'
    <3>1. UNCHANGED <<uiVars, searchVars, cmdVars>>
          BY <2>2 DEF vars
    <3>2. /\ caller' = caller /\ cancelled' = cancelled
          /\ UNCHANGED <<opts, prog, quitting, stage, left, list, outcome>>
          BY <3>1 DEF uiVars, progVars, searchVars
    <3>3. cancelled' \in BOOLEAN
          BY <2>1, <3>2 DEF UIInv, UITypeOK
    <3> QED  BY <2>1, <3>1, <3>2, <3>3, UIRests
  <2>3. CASE ScanInv
    <3>1. CASE Command /\ UNCHANGED searchVars
          BY <2>1, <2>3, <3>1, ScanKept DEF CommandInv
    <3>2. CASE (UISteps \/ Work \/ PressQuit \/ ProgramFails) /\ Rest
          BY <2>1, <2>3, <3>2, ScanGoesOn DEF CommandInv
    <3>3. CASE UNCHANGED vars
      <4>1. UNCHANGED <<uiVars, searchVars, cmdVars>> /\ UIInv'
            BY <2>2, <3>3
      <4>2. ScanTypeOK'
            BY <2>3, <4>1
            DEF ScanInv, ScanTypeOK, UIInv, searchVars, cmdVars, outVars
      <4>3. CallerAtStep' /\ HeldError'
            BY <2>3, <4>1
            DEF ScanInv, CallerAtStep, HeldError, uiVars, progVars, cmdVars,
                outVars, BestDelivered, ConfDelivered, ReportTried, ReportDue
      <4> QED
          BY <2>3, <4>1, <4>2, <4>3 DEF CommandInv, ScanInv, searchVars, cmdVars
    <3>4. verdict = "none"
          BY <2>3 DEF ScanInv
    <3> QED  BY <3>1, <3>2, <3>3, <3>4 DEF Next, Run, Interrupt
  <2>4. CASE SearchInv
    <3>1. CASE Loop /\ UNCHANGED cmdVars
          BY <2>1, <2>4, <3>1, LoopKept DEF CommandInv
    <3>2. CASE \/ (UISteps \/ Work \/ PressQuit \/ ProgramFails) /\ Rest
               \/ Interrupt /\ UNCHANGED cmdVars
          BY <2>1, <2>4, <3>2, SearchGoesOn DEF CommandInv
    <3>3. CASE UNCHANGED vars
      <4>1. UNCHANGED <<uiVars, searchVars, cmdVars>> /\ UIInv'
            BY <2>2, <3>3
      <4>2. SearchTypeOK'
            BY <2>4, <4>1 DEF SearchInv, SearchTypeOK, UIInv, searchVars
      <4>3. RoundInv' /\ BestIsReported'
            BY <2>4, <4>1
            DEF SearchInv, RoundInv, BestSoFar, BestIsReported, Finished,
                uiVars, progVars, searchVars, Unscored
      <4> QED
          BY <2>4, <4>1, <4>2, <4>3
          DEF CommandInv, SearchInv, searchVars, cmdVars
    <3>4. step = "none"
          BY <2>4 DEF SearchInv
    <3> QED  BY <3>1, <3>2, <3>3, <3>4 DEF Next, Run
  <2> QED  BY <2>1, <2>3, <2>4
<1> QED  BY <1>1, <1>2, PTL DEF Spec

-----------------------------------------------------------------------------
(* Every variable of the command that runs stays in its type.              *)
THEOREM CommandTypes == Spec => []TypeOK
<1>1. CommandInv => TypeOK
      BY DEF CommandInv, ScanInv, SearchInv, TypeOK
<1> QED  BY <1>1, CommandInvariant, PTL

(* What find-junk and find-sni report is the best of what they tried.      *)
THEOREM BestOfAllRounds == Spec => []BestIsReported
<1>1. CommandInv => BestIsReported
      BY DEF CommandInv, ScanInv, SearchInv, BestIsReported
<1> QED  BY <1>1, CommandInvariant, PTL

(* A failing -best or -conf does not take the report with it.              *)
THEOREM ReportAfterAll == Spec => []ReportSurvives
<1>1. CommandInv => ReportSurvives
  <2> SUFFICES ASSUME CommandInv, exit # -1, found, ReportDue
               PROVE  "report" \in files \cup unwritten
      BY DEF ReportSurvives
  <2>1. ScanInv
        BY DEF CommandInv, SearchInv
  <2> QED  BY <2>1 DEF ScanInv, HeldError, ReportTried
<1> QED  BY <1>1, CommandInvariant, PTL

(* Status 0 is for a command that found something and delivered what -best *)
(* and -conf asked for, and any other is for one that did not; the report  *)
(* is not in it.                                                           *)
THEOREM StatusIsEarned == Spec => []StatusTellsOfBestAndConf
<1>1. CommandInv => StatusTellsOfBestAndConf
  <2> SUFFICES ASSUME CommandInv, exit # -1
               PROVE  exit = 0 <=> found /\ BestDelivered /\ ConfDelivered
      BY DEF StatusTellsOfBestAndConf
  <2>1. HeldError
        BY DEF CommandInv, SearchInv, ScanInv
  <2> QED  BY <2>1 DEF HeldError
<1> QED  BY <1>1, CommandInvariant, PTL

(* The results of the work are used once it is over, and the outer tunnel  *)
(* is there for as long as it is not.                                      *)
THEOREM WorkIsWaitedFor == Spec => []WorkIsJoined
<1>1. CommandInv => WorkIsJoined
  <2> SUFFICES ASSUME CommandInv, caller # "failed"
               PROVE  /\ step \in {"filter", "print", "conf", "report"}
                           => stage = "ended"
                      /\ step # "none" /\ opts.through
                         /\ stage \notin {"idle", "ended"} => outerUp
      BY DEF WorkIsJoined
  <2>1. CASE ScanInv
    <3>1. UIInv /\ CallerAtStep
          BY <2>1 DEF CommandInv, ScanInv
    <3>2. step \in {"account", "setup", "outer", "scan", "scanning", "filter",
                    "speed", "measuring", "print", "conf", "report", "return",
                    "exited"}
          BY <2>1 DEF ScanInv, ScanTypeOK
    <3> QED
        BY <3>1, <3>2 DEF CallerAtStep, UIInv, BeforeScan, Outputs, Resting
  <2>2. CASE SearchInv
        BY <2>2 DEF SearchInv
  <2> QED  BY <2>1, <2>2 DEF CommandInv
<1> QED  BY <1>1, CommandInvariant, PTL

-----------------------------------------------------------------------------
(* The socks command.  A session that answered "ok" has been connected to  *)
(* its target; no piece is written that was not sent; and when it is over  *)
(* for a client that is still there, everything has arrived and the target *)
(* has nobody left to send to.  The last of these is what makes            *)
(* NothingIsCutOff inductive: a target that could still send would break it*)
(* after the end.                                                          *)
SessionInv(c) ==
  /\ got[c] <= sent[c]
  /\ reply[c] = "ok" => session[c] \in {"relay", "over"}
  /\ session[c] \in {"answer", "relay"} => remote[c] # "none"
  /\ session[c] = "over" /\ reply[c] = "ok" /\ client[c] # "gone" =>
       got[c] = sent[c] /\ remote[c] = "closed"

ProxyInv == SocksTypeOK /\ \A c \in Clients : SessionInv(c)

(* Types.                                                                  *)
LEMMA SocksTypes ==
  ASSUME SocksTypeOK, [SocksNext]_socksVars  PROVE SocksTypeOK'
<1> USE SocksAssumption
    DEF SocksTypeOK, socksVars, mainVars, tunnels, ends, sessionVars
<1>1. CASE RunSocks
      BY <1>1 DEF RunSocks, DialThrough, NewTunnel, Handshake, Listen, Banner,
         Unwind, CloseListener, AcceptFails, Fail, Closed
<1>2. CASE CtrlC
  <2>1. ctxDone' \in BOOLEAN
        BY <1>2 DEF CtrlC
  <2> QED  BY <1>2, <2>1 DEF CtrlC
<1>3. CASE AcceptFails
      BY <1>3 DEF AcceptFails
<1>4. ASSUME NEW c \in Clients, Accept(c)  PROVE SocksTypeOK'
      BY <1>4 DEF Accept
<1>5. ASSUME NEW c \in Clients, Session(c)  PROVE SocksTypeOK'
      BY <1>5 DEF Session, Greet, Resolve, Dial, Answer, Down, DownEnds, UpEnds,
         Leave, Refuse, Closed, Put
<1>6. ASSUME NEW c \in Clients,
             ClientMoves(c) \/ TargetSends(c) \/ TargetCloses(c)
      PROVE  SocksTypeOK'
      BY <1>6 DEF ClientMoves, TargetSends, TargetCloses, Put
<1>7. CASE UNCHANGED socksVars
      BY <1>7
<1> QED  BY <1>1, <1>2, <1>3, <1>4, <1>5, <1>6, <1>7 DEF SocksNext

LEMMA ProxyStarts == SocksInit => ProxyInv
<1> SUFFICES ASSUME SocksInit  PROVE ProxyInv
    OBVIOUS
<1>1. SocksTypeOK
  <2>1. ctxDone \in BOOLEAN
        BY DEF SocksInit
  <2>2. 0 \in 0 .. Chunks
        BY SocksAssumption
  <2> QED  BY <2>1, <2>2 DEF SocksInit, SocksTypeOK, All
<1>2. \A c \in Clients : SessionInv(c)
      BY DEF SocksInit, SessionInv, All
<1> QED  BY <1>1, <1>2 DEF ProxyInv

(* What happens to one session or its two ends leaves the others as they   *)
(* are.                                                                    *)
LEMMA OneSession ==
  ASSUME ProxyInv, SocksTypeOK', NEW c \in Clients,
         \A d \in Clients \ {c} :
           /\ got'[d] = got[d] /\ sent'[d] = sent[d] /\ reply'[d] = reply[d]
           /\ session'[d] = session[d] /\ client'[d] = client[d]
           /\ remote'[d] = remote[d],
         SessionInv(c)'
  PROVE  ProxyInv'
  BY DEF ProxyInv, SessionInv

LEMMA SessionKept ==
  ASSUME ProxyInv, SocksTypeOK', NEW c \in Clients,
         Accept(c) \/ Session(c)
           \/ ClientMoves(c) \/ TargetSends(c) \/ TargetCloses(c)
  PROVE  ProxyInv'
<1>1. SocksTypeOK /\ SessionInv(c)
      BY DEF ProxyInv
<1>2. \A d \in Clients \ {c} :
        /\ got'[d] = got[d] /\ sent'[d] = sent[d] /\ reply'[d] = reply[d]
        /\ session'[d] = session[d] /\ client'[d] = client[d]
        /\ remote'[d] = remote[d]
      BY <1>1 DEF SocksTypeOK, Accept, Session, Greet, Resolve, Dial, Answer,
         Down, DownEnds, UpEnds, Leave, Refuse, Put, ClientMoves, TargetSends,
         TargetCloses, ends, sessionVars
<1>3. got[c] \in 0 .. Chunks /\ sent[c] \in 0 .. Chunks /\ Chunks \in Nat
      BY <1>1, SocksAssumption DEF SocksTypeOK
<1>4. SessionInv(c)'
  <2> USE DEF SessionInv, SocksTypeOK, ends, sessionVars
  <2>1. CASE Accept(c)
        BY <1>1, <1>3, <2>1 DEF Accept
  <2>2. CASE Greet(c) \/ Resolve(c)
        BY <1>1, <1>3, <2>2 DEF Greet, Resolve, Leave, Refuse, Closed, Put
  <2>3. CASE Dial(c) \/ Answer(c)
        BY <1>1, <1>3, <2>3 DEF Dial, Answer, Leave, Refuse, Closed, Put
  <2>4. CASE Down(c) \/ DownEnds(c)
        BY <1>1, <1>3, <2>4 DEF Down, DownEnds, Leave, Closed, Put
  <2>5. CASE UpEnds(c) \/ ClientMoves(c) \/ TargetCloses(c)
        BY <1>1, <1>3, <2>5 DEF UpEnds, ClientMoves, TargetCloses, Put
  <2>6. CASE TargetSends(c)
        BY <1>1, <1>3, <2>6 DEF TargetSends, Put
  <2> HIDE DEF SessionInv, SocksTypeOK, ends, sessionVars
  <2> QED  BY <2>1, <2>2, <2>3, <2>4, <2>5, <2>6 DEF Session
<1> QED  BY <1>2, <1>4, OneSession

LEMMA ProxyKept == ProxyInv /\ [SocksNext]_socksVars => ProxyInv'
<1> SUFFICES ASSUME ProxyInv, [SocksNext]_socksVars  PROVE ProxyInv'
    OBVIOUS
<1>1. SocksTypeOK'
      BY SocksTypes DEF ProxyInv
<1>2. CASE UNCHANGED <<ends, sessionVars>>
      BY <1>1, <1>2 DEF ProxyInv, SessionInv, ends, sessionVars
<1>3. ASSUME NEW c \in Clients,
             \/ Accept(c) \/ Session(c)
             \/ ClientMoves(c) \/ TargetSends(c) \/ TargetCloses(c)
      PROVE  ProxyInv'
      BY <1>1, <1>3, SessionKept
<1> QED
    BY <1>2, <1>3 DEF SocksNext, RunSocks, CtrlC, AcceptFails, DialThrough,
       NewTunnel, Handshake, Listen, Banner, Unwind, CloseListener, socksVars

(* Every variable of the proxy keeps its type.                             *)
THEOREM ProxyTypes == SocksSpec => []SocksTypeOK
<1>1. ProxyInv => SocksTypeOK
      BY DEF ProxyInv
<1> QED  BY <1>1, ProxyStarts, ProxyKept, PTL DEF SocksSpec

(* A client that stays gets all that its target sent before the session of *)
(* serveSOCKS ends, whatever the other sessions do and whenever it stops   *)
(* sending itself.                                                         *)
THEOREM RepliesAreWhole == SocksSpec => []NothingIsCutOff
<1>1. ProxyInv => NothingIsCutOff
      BY DEF ProxyInv, SessionInv, NothingIsCutOff
<1> QED  BY <1>1, ProxyStarts, ProxyKept, PTL DEF SocksSpec
=============================================================================
