------------------------------ MODULE Search -------------------------------
(* find-junk and find-sni (src/findjunk.go, src/findsni.go): rounds of     *)
(* runScanUI, each under different parameters, scored and compared until   *)
(* one brings up enough of the endpoints or the user stops.                *)
EXTENDS ScanUI

CONSTANTS Rounds,      \* the candidates of find-sni; a bound for find-junk
          Scores,      \* bound: the shares of working endpoints considered
          Threshold    \* -threshold, in the unit of Scores

ASSUME SearchAssumption ==
  /\ Rounds \in Nat
  /\ Scores \subseteq 0 .. Targets
  /\ Threshold \in 1 .. Targets

VARIABLES
  round,      \* rounds begun
  best,       \* best.working; 0 as well when best is still the zero value
  verdict,    \* "searching", then "enough", "best", "nothing" or "error"; or
              \* "none": another command runs
  reported,   \* the score the ready-to-run command belongs to
  scored      \* scores of the rounds that finished (history)

searchVars == <<opts, round, best, verdict, reported, scored>>

(* endless: find-junk, attempts without end; else find-sni, over MASQUE.   *)
SearchOptions ==
  {o \in [plain : BOOLEAN, ports : BOOLEAN, endless : BOOLEAN] :
     ~o.endless => ~o.ports}

Endless == opts.endless

SearchTypeOK ==
  /\ UITypeOK
  /\ opts \in SearchOptions
  /\ round \in 0 .. Rounds
  /\ best \in 0 .. Targets
  /\ verdict \in {"none", "searching", "enough", "best", "nothing", "error"}
  /\ reported \in 0 .. Targets
  /\ scored \in [1 .. round -> Scores \cup {Targets + 1}]

Unscored == Targets + 1     \* in scored: the round failed or was stopped

SearchInit ==
  /\ UIInit
  /\ opts \in SearchOptions
  /\ round = 0 /\ best = 0 /\ verdict = "searching" /\ reported = 0
  /\ scored = <<>>

-----------------------------------------------------------------------------
(* The head of the loop, reached from the start, from a failed round and   *)
(* from one that did not do.                                               *)
AtHead == verdict = "searching" /\ caller = "out"

(* A round that p.Run left early may still be at work: its messages go to a *)
(* program that is over and its result to nobody, and it is forgotten here.*)
NextRound ==
  /\ AtHead
  /\ ~cancelled
  /\ round < Rounds
  /\ Launch(FirstOfScan)
  /\ round' = round + 1
  /\ scored' = [r \in 1 .. round + 1 |->
                  IF r <= round THEN scored[r] ELSE Unscored]
  /\ UNCHANGED <<opts, best, verdict, reported>>

(* find-junk -gen-i1: no packet could be generated for the next attempt.   *)
RegenFails ==
  /\ Endless /\ AtHead /\ ~cancelled
  /\ verdict' = "error"
  /\ UNCHANGED <<uiVars, opts, round, best, reported, scored>>

(* Ctrl+C as a signal, in plain mode or between two UIs, where the terminal *)
(* is not raw: it cancels the context.                                     *)
Interrupt ==
  /\ ~cancelled /\ verdict = "searching"
  /\ cancelled' = TRUE
  /\ UNCHANGED <<progVars, stage, left, list, outcome, searchVars>>

(* The round returned an error: on to the next one.                        *)
RoundFails ==
  /\ UIOver
  /\ ~cancelled /\ (caller = "failed" \/ outcome = "error")
  /\ caller' = "out"
  /\ UNCHANGED <<prog, quitting, stage, left, list, outcome, cancelled,
                 searchVars>>

(* Mutated form of RoundScores: the last round is taken for the best.      *)
RoundScoresLast(working) ==
  /\ caller = "back" /\ outcome = "ok"
  /\ ~cancelled
  /\ scored' = [scored EXCEPT ![round] = working]
  /\ best' = working
  /\ IF working >= Threshold
     THEN verdict' = "enough" /\ reported' = working
     ELSE UNCHANGED <<verdict, reported>>
  /\ caller' = "out"
  /\ UNCHANGED <<prog, quitting, stage, left, list, outcome, cancelled, opts,
                 round>>

(* The round finished: score it, keep the better, stop if it is enough.    *)
RoundScores(working) ==
  /\ caller = "back" /\ outcome = "ok"
  /\ ~cancelled
  /\ scored' = [scored EXCEPT ![round] = working]
  /\ best' = IF working > best THEN working ELSE best
  /\ IF working >= Threshold
     THEN verdict' = "enough" /\ reported' = working
     ELSE UNCHANGED <<verdict, reported>>
  /\ caller' = "out"
  /\ UNCHANGED <<prog, quitting, stage, left, list, outcome, cancelled, opts,
                 round>>

(* The loop is left: cancelled at its head or after a round, whose result  *)
(* is then dropped, or no candidate is left.                               *)
Stop ==
  /\ verdict = "searching"
  /\ \/ cancelled /\ (caller = "out" \/ UIOver)
     \/ AtHead /\ ~Endless /\ round = Rounds
  /\ verdict' = IF best = 0 THEN "nothing" ELSE "best"
  /\ reported' = best
  /\ caller' = "out"
  /\ UNCHANGED <<prog, quitting, stage, left, list, outcome, cancelled, opts,
                 round, best, scored>>

Loop == \/ NextRound \/ RegenFails \/ RoundFails \/ Stop
        \/ \E w \in Scores : RoundScores(w)

SearchNext == \/ Loop \/ Interrupt
              \/ (UISteps \/ Work \/ PressQuit \/ ProgramFails)
                 /\ UNCHANGED searchVars

SearchSpec == SearchInit /\ [][SearchNext]_<<uiVars, searchVars>>

(* The command, the event loop and the work are goroutines that run; the   *)
(* user need not press anything.                                           *)
SearchFairSpec == /\ SearchSpec
                  /\ WF_<<uiVars, searchVars>>(Loop)
                  /\ WF_<<uiVars, searchVars>>(UISteps /\ UNCHANGED searchVars)
                  /\ WF_<<uiVars, searchVars>>(Work /\ UNCHANGED searchVars)

-----------------------------------------------------------------------------
Finished == {scored[r] : r \in 1 .. round} \ {Unscored}

(* What is reported is the best of the rounds that finished, and "good     *)
(* enough" is said only of a round that reaches the threshold, which is    *)
(* then the last.  Nothing is reported only if no round brought anything up.*)
BestIsReported ==
  /\ verdict = "nothing" => Finished \subseteq {0}
  /\ verdict \in {"enough", "best"} =>
    /\ reported \in Finished
    /\ \A s \in Finished : s <= reported
    /\ verdict = "enough" <=> reported >= Threshold
    /\ verdict = "enough" => scored[round] = reported

(* A round that failed is followed by another, unless the user stops it or *)
(* no packet can be generated.                                             *)
FailureMovesOn ==
  \A r \in 1 .. Rounds - 1 :
    (outcome = "error" /\ round = r)
      ~> (round > r \/ cancelled \/ verdict = "error")
=============================================================================
