------------------------------- MODULE Display ------------------------------
(* The lists of a scan in the terminal UI: the probes of one pool of        *)
(* runScan (src/main.go) end in any order, and scanModel.Update (src/tui.go)*)
(* puts each foundMsg into the feed and counts it for its node.  What the  *)
(* report, -best and -conf then make of the same results is in Ranking.    *)
EXTENDS Ranking, Sequences, SequencesExt

CONSTANT ExitOf     \* the region the exit of each endpoint is seen in

ASSUME DisplayAssumption ==
  /\ IsFiniteSet(Endpoints)
  /\ ExitOf \in [Endpoints -> Nat]

VARIABLES
  results,    \* what the probes will find, per target
  probed,     \* the targets whose probe is over and whose message came
  over,       \* doneMsg has come
  feed,       \* the rows of the feed
  nodes,      \* the list of nodes, each with its count
  dropped     \* the lists are gone: tables with the same rows follow

displayVars == <<results, probed, over, feed, nodes, dropped>>

AllResults ==
  UNION {[Endpoints -> Outcomes(pinged, wantMeta) \cup {Failed}] :
           pinged \in BOOLEAN, wantMeta \in BOOLEAN}

(* The result of a target, its endpoint included.                          *)
Row(e) ==
  LET r == results[e]
  IN [endpoint |-> e, ok |-> r.ok, durable |-> r.durable, loss |-> r.loss,
      epPing |-> r.epPing, tunPing |-> r.tunPing, measured |-> r.measured,
      node |-> r.node]
Rows(E) == {Row(e) : e \in E}

DisplayTypeOK ==
  /\ results \in AllResults
  /\ probed \subseteq Endpoints
  /\ over \in BOOLEAN /\ dropped \in BOOLEAN
  /\ ToSet(feed) \subseteq Rows(probed)
  /\ \A i \in DOMAIN nodes : nodes[i].n \in 1 .. Cardinality(probed)

DisplayInit ==
  /\ results \in AllResults
  /\ probed = {} /\ over = FALSE /\ dropped = FALSE
  /\ feed = <<>> /\ nodes = <<>>

-----------------------------------------------------------------------------
(* Mutated form of insertSorted: after the first row that is not better.   *)
insertSortedAfter(list, v) ==
  LET i == SelectInSeq(list, LAMBDA r : ~lessLatency(v, r))
  IN IF i = 0 THEN Append(list, v) ELSE InsertAt(list, i + 1, v)

(* insertSorted(feed, msg, lessLatency): before the first row it beats,    *)
(* which is what the binary search finds in a list that is in order.       *)
insertSorted(list, v) ==
  LET i == SelectInSeq(list, LAMBDA r : lessLatency(v, r))
  IN IF i = 0 THEN Append(list, v) ELSE InsertAt(list, i, v)

(* A node of the list is a region and a colo, unlike a node of the tables. *)
NodeOf(r) == <<ExitOf[r.endpoint], r.node>>

(* The node with most rows first, then by region and colo.                 *)
MoreRows(a, b) ==
  \/ a.n > b.n
  \/ a.n = b.n /\ a.of[1] < b.of[1]
  \/ a.n = b.n /\ a.of[1] = b.of[1] /\ a.of[2] < b.of[2]

nodesInOrder(stats) ==
  CHOOSE list \in [1 .. Cardinality(stats) -> stats] :
    \A i, j \in DOMAIN list : i < j => MoreRows(list[i], list[j])

Counted(list, r) ==
  LET mine == {s \in ToSet(list) : s.of = NodeOf(r)}
      more == [of |-> NodeOf(r),
               n |-> IF mine = {} THEN 1 ELSE (CHOOSE s \in mine : TRUE).n + 1]
  IN nodesInOrder((ToSet(list) \ mine) \cup {more})

(* Mutated form of countNode: torn endpoints are counted.                  *)
countNodeTorn(list, r) == IF r.node = NoNode THEN list ELSE Counted(list, r)

(* No exit, or torn down: the row is not counted.                          *)
countNode(list, r) ==
  IF r.node = NoNode \/ ~r.durable THEN list ELSE Counted(list, r)

(* A probe is over: foundMsg, if the endpoint came up.                     *)
Found(e) ==
  /\ e \notin probed
  /\ probed' = probed \cup {e}
  /\ IF results[e].ok THEN /\ feed' = insertSorted(feed, Row(e))
                           /\ nodes' = countNode(nodes, Row(e))
                      ELSE UNCHANGED <<feed, nodes>>
  /\ UNCHANGED <<results, over, dropped>>

WantMeta == \E e \in Endpoints : results[e].node # NoNode

(* runTunnelPool has joined its goroutines: doneMsg.  tablesFollow is a    *)
(* matter of the flags, and of nothing that is read before.                *)
Done(tablesFollow) ==
  /\ ~over /\ probed = Endpoints
  /\ over' = TRUE
  /\ tablesFollow => WantMeta
  /\ dropped' = tablesFollow
  /\ IF tablesFollow THEN feed' = <<>> /\ nodes' = <<>>
                     ELSE UNCHANGED <<feed, nodes>>
  /\ UNCHANGED <<results, probed>>

DisplayNext == \/ \E tablesFollow \in BOOLEAN : Done(tablesFollow)
               \/ \E e \in Endpoints : Found(e)

-----------------------------------------------------------------------------
Shown == {e \in probed : results[e].ok}

(* The feed shows every endpoint found so far, once, and in the order of   *)
(* the report that will follow, whatever order the workers found them in.  *)
FeedIsTheReport == dropped \/ feed = filterSorted(Rows(Shown))

(* The list of nodes counts the rows of the feed that are not torn down, by*)
(* node, the largest first; and it names the nodes the tables will have a  *)
(* best endpoint for, and no other.                                        *)
NodesMatchFeed ==
  ~dropped =>
    LET rows(of) == {r \in Rows(Shown) : working(r) /\ NodeOf(r) = of}
        listed == {nodes[i].of : i \in DOMAIN nodes}
        sure == workingRows(Rows(Shown))
    IN /\ \A i \in DOMAIN nodes :
            /\ nodes[i].n = Cardinality(rows(nodes[i].of))
            /\ \A j \in 1 .. i - 1 : MoreRows(nodes[j], nodes[i])
       /\ WantMeta => {of[2] : of \in listed} = {r.node : r \in nodePicks(sure)}

(* The first row of the feed that is not torn down is the endpoint that    *)
(* -best prints, -conf is written for and the list of nodes begins with.   *)
BestLeads ==
  probed = Endpoints /\ ~dropped =>
    LET best == bestOverall(Rows(Endpoints))
        lead == SelectInSeq(feed, working)
        picks == filterSorted(nodePicks(workingRows(Rows(Endpoints))))
    IN IF best = {} THEN lead = 0 /\ picks = <<>>
       ELSE /\ lead # 0 /\ feed[lead] \in best
            /\ picks # <<>> /\ picks[1] \in best
=============================================================================
