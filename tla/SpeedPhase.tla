----------------------------- MODULE SpeedPhase -----------------------------
(* What runScanCmd does with the results of Display: applyFilters and      *)
(* measureSpeed (src/main.go), which measures the picks one by one through *)
(* a tunnel of its own, under a UI of its own, until the user quits.       *)
EXTENDS Display, Integers

CONSTANTS Filters,     \* the filters considered
          CountryOf,   \* coloISO: the country of every node, 0 if unknown
          Attempts,    \* the attempts of the tunnel
          MaxSpeed     \* bound: throughputs; 0 is not measured

ASSUME SpeedAssumption ==
  /\ CountryOf \in [Nodes \cup {NoNode} -> Nat] /\ CountryOf[NoNode] = 0
  /\ \A f \in Filters : /\ f.colos \cup f.dropColos \subseteq Nodes
                        /\ 0 \notin f.countries \cup f.dropCountries
  /\ Attempts \in Nat /\ MaxSpeed \in Nat

VARIABLES
  at,         \* "scan", "tunnel", "next", "try" or "fetch"; "over", "failed"
              \* or, without a speed phase, "none"
  kept,       \* the endpoints the filters keep
  pos,        \* the pick the loop is at
  tries,      \* the attempts already made at it
  speeds,     \* what was measured, per endpoint
  shown,      \* the rows of the UI until doneMsg: <<endpoint, speed>>
  speedOf,    \* results[i].speed of every kept endpoint
  stopped     \* the user quit: the context is cancelled

speedVars == <<at, kept, pos, tries, speeds, shown, speedOf, stopped>>
phaseVars == <<displayVars, speedVars>>

Tries == IF Attempts < 1 THEN 1 ELSE Attempts

SpeedTypeOK ==
  /\ DisplayTypeOK
  /\ at \in {"scan", "tunnel", "next", "try", "fetch", "over", "failed", "none"}
  /\ kept \subseteq Endpoints
  /\ pos \in 1 .. Cardinality(kept) + 1 /\ tries \in 0 .. Tries
  /\ DOMAIN speeds \subseteq kept /\ Range(speeds) \subseteq 0 .. MaxSpeed
  /\ ToSet(shown) \subseteq kept \X (0 .. MaxSpeed)
  /\ speedOf \in [Endpoints -> 0 .. MaxSpeed]
  /\ stopped \in BOOLEAN

SpeedInit ==
  /\ DisplayInit
  /\ at = "scan" /\ kept = {} /\ pos = 1 /\ tries = 0
  /\ speeds = <<>> /\ shown = <<>>
  /\ speedOf = [e \in Endpoints |-> 0]
  /\ stopped = FALSE

-----------------------------------------------------------------------------
(* filterByColo and filterByCountry: what the positive filters name, less  *)
(* what the negative ones do; a node or a country that is not known is in  *)
(* no list.                                                                *)
Keeps(f, r) ==
  /\ f.colos # {} => r.node \in f.colos
  /\ f.countries # {} => CountryOf[r.node] \in f.countries
  /\ r.node \notin f.dropColos
  /\ CountryOf[r.node] \notin f.dropCountries

applyFilters(f) == {e \in Endpoints : Keeps(f, results[e])}

anyEndpoint(E) == \E e \in E : results[e].ok

(* Only a scan comes here, with a UI that has ended.                       *)
FilterResults(f) ==
  /\ at = "scan" /\ over /\ WantMeta
  /\ kept' = applyFilters(f)
  /\ at' = IF anyEndpoint(applyFilters(f)) THEN "tunnel" ELSE "none"
  /\ UNCHANGED <<displayVars, pos, tries, speeds, shown, speedOf, stopped>>

picks == speedTargets(Rows(kept))

(* newTunnel: without a tunnel nothing is measured.                        *)
SpeedTunnel ==
  /\ at = "tunnel"
  /\ at' \in {"next", "failed"}
  /\ UNCHANGED <<displayVars, kept, pos, tries, speeds, shown, speedOf,
                 stopped>>

NextPick ==
  /\ at = "next" /\ ~stopped /\ pos <= Len(picks)
  /\ at' = "try"
  /\ UNCHANGED <<displayVars, kept, pos, tries, speeds, shown, speedOf,
                 stopped>>

(* speedMsg: the fastest first, after those that are as fast.              *)
ShowSpeed(row) ==
  LET i == SelectInSeq(shown, LAMBDA r : row[2] > r[2])
  IN shown' = IF i = 0 THEN Append(shown, row) ELSE InsertAt(shown, i, row)

(* endpointSpeed returns: the map, the UI if it is still there, the next   *)
(* pick.                                                                   *)
Measured(mbps) ==
  /\ speeds' = [e \in DOMAIN speeds \cup {picks[pos].endpoint} |->
                 IF e = picks[pos].endpoint THEN mbps ELSE speeds[e]]
  /\ ShowSpeed(<<picks[pos].endpoint, mbps>>) \/ (stopped /\ UNCHANGED shown)
  /\ pos' = pos + 1 /\ tries' = 0 /\ at' = "next"
  /\ UNCHANGED <<displayVars, kept, speedOf, stopped>>

GiveUp ==
  /\ at = "try" /\ (tries = Tries \/ stopped)
  /\ Measured(0)

(* The handshake of an attempt.                                            *)
Try(up) ==
  /\ at = "try" /\ tries < Tries /\ ~stopped
  /\ IF up THEN at' = "fetch" /\ UNCHANGED tries
           ELSE tries' = tries + 1 /\ UNCHANGED at
  /\ UNCHANGED <<displayVars, kept, pos, speeds, shown, speedOf, stopped>>

(* speedTest fails: the next attempt.                                      *)
FetchFails ==
  /\ at = "fetch"
  /\ at' = "try" /\ tries' = tries + 1
  /\ UNCHANGED <<displayVars, kept, pos, speeds, shown, speedOf, stopped>>

(* It gives a throughput, though the quit may have cut the download short. *)
Fetch(mbps) == at = "fetch" /\ Measured(mbps)

(* The loop is over: the results get their speeds.                         *)
Publish ==
  /\ at = "next" /\ (stopped \/ pos > Len(picks))
  /\ speedOf' = [e \in Endpoints |->
                   IF e \in kept \cap DOMAIN speeds THEN speeds[e] ELSE 0]
  /\ at' = "over"
  /\ UNCHANGED <<displayVars, kept, pos, tries, speeds, shown, stopped>>

Quit ==
  /\ at \in {"tunnel", "next", "try", "fetch"}
  /\ ~stopped /\ stopped' = TRUE
  /\ UNCHANGED <<displayVars, at, kept, pos, tries, speeds, shown, speedOf>>

Speed == \/ SpeedTunnel \/ NextPick \/ GiveUp \/ FetchFails \/ Publish \/ Quit
         \/ \E up \in BOOLEAN : Try(up)
         \/ \E mbps \in 1 .. MaxSpeed : Fetch(mbps)

SpeedNext == \/ DisplayNext /\ UNCHANGED speedVars
             \/ Speed
             \/ \E f \in Filters : FilterResults(f)

SpeedSpec == SpeedInit /\ [][SpeedNext]_phaseVars

-----------------------------------------------------------------------------
(* Every row of the tables has its throughput measured, unless the user    *)
(* quit: the best of each node in its subnet, and the best of each node    *)
(* overall, among what the filters keep.  The results get what the UI      *)
(* showed of them, fastest first and each once; only the last one before a *)
(* quit may have a speed that was not shown.                               *)
PicksAreMeasured ==
  at = "over" =>
    LET rows == Rows(kept)
        cell(s, n) == {r \in rows : /\ working(r) /\ r.node = n
                                    /\ SubnetOf[r.endpoint] = s}
        seen == {shown[i][1] : i \in DOMAIN shown}
    IN /\ ~stopped =>
            /\ \A s \in Subnets, n \in Nodes : cell(s, n) # {} =>
                 \E r \in cell(s, n) : /\ r.endpoint \in seen
                   /\ \A other \in cell(s, n) \ {r} : lessByLossRTT(r, other)
            /\ \A r \in nodePicks(workingRows(rows)) : r.endpoint \in seen
       /\ Cardinality(seen) = Len(shown)
       /\ \A i \in DOMAIN shown :
            /\ speedOf[shown[i][1]] = shown[i][2]
            /\ \A j \in 1 .. i - 1 : shown[j][2] >= shown[i][2]
       /\ LET unseen == {e \in Endpoints \ seen : speedOf[e] # 0}
          IN unseen = {} \/ (stopped /\ Cardinality(unseen) = 1)
=============================================================================
