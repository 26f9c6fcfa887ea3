------------------------------ MODULE Ranking -------------------------------
(* How endpoints are ordered and picked: for the report (src/report.go), the*)
(* live feed (src/tui.go), -best and -conf (src/main.go) and the speed     *)
(* phase.  A result is a record; endpoints, subnets and nodes are numbers, *)
(* nodes and endpoints ordered as their texts are.                         *)
EXTENDS Naturals, FiniteSets

CONSTANTS Endpoints, Subnets, Nodes,
          SubnetOf,    \* pools: the subnet of every endpoint
          MaxLoss,     \* bound: lost echoes, MaxLoss being all of them
          MaxPing      \* bound: round trips; 0 is not measured

ASSUME RankingAssumption ==
  /\ Endpoints \subseteq Nat /\ Nodes \subseteq Nat \ {0}
  /\ SubnetOf \in [Endpoints -> Subnets]
  /\ MaxLoss \in Nat \ {0} /\ MaxPing \in Nat \ {0}

NoNode == 0    \* an empty colo: there is no meta

(* What runScan stores of a target that came up, with -tun-ping or without:*)
(* without pings it counts as durable and without loss, with all of them   *)
(* lost there is no round trip.  With pings the one to the bare address    *)
(* plays no part and is left at 0.  find-junk and find-sni ask for no meta *)
(* (wantMeta), and then the node is empty.                                 *)
Outcomes(pinged, wantMeta) ==
  {o \in [ok : {TRUE}, durable : BOOLEAN, loss : 0 .. MaxLoss,
          epPing : 0 .. MaxPing, tunPing : 0 .. MaxPing, measured : {pinged},
          node : IF wantMeta THEN Nodes ELSE {NoNode}] :
     IF pinged THEN o.epPing = 0 /\ (o.tunPing = 0 <=> o.loss = MaxLoss)
               ELSE o.durable /\ o.loss = 0 /\ o.tunPing = 0}

(* The zero value endpointResult of a target that did not.                 *)
Failed == [ok |-> FALSE, durable |-> FALSE, loss |-> 0, epPing |-> 0,
           tunPing |-> 0, measured |-> FALSE, node |-> NoNode]

sortPing(r) == IF r.measured THEN r.tunPing ELSE r.epPing

working(r) == r.ok /\ r.durable
tornDown(r) == r.ok /\ ~r.durable

(* A round trip that was measured comes before one that was not.           *)
lessDur(a, b) == IF (a = 0) # (b = 0) THEN a > 0 ELSE a < b

lessByLossRTT(a, b) ==
  IF a.loss # b.loss THEN a.loss < b.loss
  ELSE IF sortPing(a) # sortPing(b) THEN lessDur(sortPing(a), sortPing(b))
  ELSE a.endpoint < b.endpoint

(* The feed's own copy of that order.                                      *)
lessLatency(a, b) ==
  LET pa == sortPing(a)
      pb == sortPing(b)
  IN IF a.loss # b.loss THEN a.loss < b.loss
     ELSE IF (pa = 0) # (pb = 0) THEN pa > 0
     ELSE IF pa # pb THEN pa < pb
     ELSE a.endpoint < b.endpoint

-----------------------------------------------------------------------------
(* Results: a set of records, one per target.  No two of them tie, so that  *)
(* a list in order is one arrangement only, and a slice whose order plays  *)
(* no part is its set.                                                     *)

(* The rows that a filter keeps, in order.                                 *)
filterSorted(kept) ==
  CHOOSE list \in [1 .. Cardinality(kept) -> kept] :
    \A i, j \in DOMAIN list : i < j => lessByLossRTT(list[i], list[j])

workingRows(results) == {r \in results : working(r)}

subnetEndpoints(rows, s) == {r \in rows : SubnetOf[r.endpoint] = s}

(* The one that no other beats.                                            *)
bestByPing(picks) ==
  CHOOSE best \in picks : \A r \in picks : ~lessByLossRTT(r, best)

(* Mutated form of bestOverall: a torn endpoint may win.                   *)
bestOverallOfAll(results) ==
  LET rows == {r \in results : r.ok}
  IN IF rows = {} THEN {} ELSE {bestByPing(rows)}

(* The endpoint of -best and -conf, if there is one.                       *)
bestOverall(results) ==
  LET rows == workingRows(results)
  IN IF rows = {} THEN {} ELSE {bestByPing(rows)}

(* The best endpoint of every node among the rows.                         *)
nodePicks(rows) ==
  {bestByPing({r \in rows : r.node = n}) : n \in {r.node : r \in rows}}

(* Mutated form of speedTargets: the picks over all subnets are left out.  *)
speedTargetsOnePerNode(results) == filterSorted(nodePicks(workingRows(results)))

(* What the speed phase measures: the picks of each subnet, which are the  *)
(* rows of the tables, and those of all subnets together.                  *)
speedTargets(results) ==
  LET rows == workingRows(results)
  IN filterSorted(nodePicks(rows) \cup
                    UNION {nodePicks(subnetEndpoints(rows, s)) : s \in Subnets})
=============================================================================
