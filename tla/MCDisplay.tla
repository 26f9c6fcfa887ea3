----------------------------- MODULE MCDisplay -----------------------------
(* Display and SpeedPhase for TLC: three targets, the first two of one     *)
(* subnet, the outer two seen in one region; no filter, one of each sign   *)
(* and one of countries.                                                   *)
EXTENDS SpeedPhase

ThreeTargets == 1 .. 3
FirstTwoTogether == [e \in Endpoints |-> IF e <= 2 THEN "s1" ELSE "s2"]
OuterTwoTogether == [e \in Endpoints |-> IF e = 2 THEN 2 ELSE 1]
OneCountryEach == [n \in Nodes \cup {NoNode} |-> n]

NoFilter == [colos |-> {}, dropColos |-> {}, countries |-> {},
             dropCountries |-> {}]
FilterKinds == {NoFilter,
                [NoFilter EXCEPT !.colos = {1}],
                [NoFilter EXCEPT !.dropColos = {1}],
                [NoFilter EXCEPT !.countries = {1, 2}, !.dropCountries = {2}]}
=============================================================================
