------------------------------ MODULE MC_Impact ------------------------------
(***************************************************************************)
(* Every graph that can be made of eleven edges over three contracts, an   *)
(* executable and a deployment: a cycle, parallel edges, a short cut, an   *)
(* edge that carries no change, one without evidence, and two ways into a  *)
(* deployment, of which one comes with a record of its ledger.             *)
(***************************************************************************)
EXTENDS Impact

MCNode == 1..5
MCKind == <<"CONTRACT", "CONTRACT", "CONTRACT", "WASM", "DEPLOYMENT">>

MCEdge(s, r, o, level, cites) ==
    [subject |-> s, rel |-> r, object |-> o, level |-> level, cites |-> cites]

MCEdges == {MCEdge(1, "DEPENDS_ON", 2, 4, {"observation"}),
            MCEdge(1, "INVOCATES", 2, 2, {"observation"}),
            MCEdge(2, "DEPENDS_ON", 3, 3, {"observation"}),
            MCEdge(3, "DEPENDS_ON", 1, 1, {"observation"}),
            MCEdge(1, "INVOCATES", 3, 2, {"observation"}),
            MCEdge(2, "AFFECTS", 5, 2, {"observation"}),
            MCEdge(1, "AFFECTS", 5, 3, {"transaction"}),
            MCEdge(4, "DEPLOYED_AS", 5, 4, {"deployment"}),
            MCEdge(3, "DEPENDS_ON", 4, 2, {}),
            MCEdge(3, "VERIFIED_BY", 4, 4, {"observation"}),
            MCEdge(2, "DEPENDS_ON", 4, 1, {"observation"})}

MCGraphs == SUBSET MCEdges

\* No record, and a deployment with one that took effect and one that is not known to have.
MCRecordSets ==
    {{}} \cup {{[entity |-> 5, status |-> "CONFIRMED"], [entity |-> 5, status |-> s]}
               : s \in {"FAILED", "UNCONFIRMED"}}

MCChangeSets ==
    {{[entity |-> 3, type |-> 1, cites |-> {"observation"}],
      [entity |-> 3, type |-> 3, cites |-> {"observation"}],
      [entity |-> 5, type |-> 2, cites |-> {"deployment"}]},
     {[entity |-> 1, type |-> 2, cites |-> {"transaction"}],
      [entity |-> 5, type |-> 2, cites |-> {"observation"}]}}
=============================================================================
