------------------------------ MODULE MCRepair ------------------------------
(***************************************************************************)
(* Three sets of regressions of one run.  Judged anew, cluster-0 goes from *)
(* five pairs to two others and cluster-1 disappears.  The target of a     *)
(* patch is the stable template, then the shared system prompt, then none. *)
(***************************************************************************)
EXTENDS Repair

MCPairs == 1..9
MCNoText == ""
MCJudgments == {1..7, {5, 6, 8}, {8}}

MCSampledIn == [R \in MCJudgments |-> CASE R = 1..7 -> MCPairs
                                        [] R = {5, 6, 8} -> 2..8
                                        [] R = {8} -> {8, 9}]

Bucketed(id, members) == [id |-> id, members |-> members]
MCGrouping ==
  [R \in MCJudgments |->
     CASE R = 1..7 -> <<Bucketed("cluster-0", 1..5), Bucketed("cluster-1", {6, 7})>>
       [] R = {5, 6, 8} -> <<Bucketed("unclustered", {8}), Bucketed("cluster-0", {5, 6})>>
       [] R = {8} -> <<Bucketed("unclustered", {8})>>]

MCNeedsName == {1..5, {6, 7}, {5, 6}}
MCSystems == [p \in MCPairs |-> IF p = 9 THEN MCNoText ELSE "you are terse"]
MCPrompts == [p \in MCPairs |-> IF p = 8 THEN <<"s", "u", "m">> ELSE <<"a", "d", "d">>]
\* "r1" mends 4 of the first cluster-0 and half of the second; "r2" mends 4 of
\* the first too, but breaks a control pair, and all of the second.
MCHolds == [r1 |-> MCPairs \ {5}, r2 |-> MCPairs \ {1, 9}, original |-> {}]
MCTemplateOf == [p \in MCPairs |-> IF p <= 7 THEN "t" ELSE MCNoText]

=============================================================================
