---------------------------- MODULE MCMcService ----------------------------
(* Instances of McService for TLC. *)
EXTENDS McService

CONSTANTS e1, e2, e3, c1, c2, c3, a1, a2, a3, n1, n2, cfg1

Req(e, c, s, a, f, n, op, res) ==
    [id |-> e, command |-> c, core |-> s, asset |-> a, fence |-> f,
     node |-> n, config |-> cfg1, operation |-> op, resources |-> res]

OneTurnout == {Req(e1, c1, 1, a1, 1, n1, "turnout.set", {"servo"})}

(* Two turnouts of one node. *)
TurnoutRequests ==
    {Req(e1, c1, 1, a1, 1, n1, "turnout.set", {"servo"}),
     Req(e2, c2, 1, a2, 1, n1, "turnout.set", {"servo"})}

(* Two aspects for two signals of one node. *)
SignalRequests ==
    {Req(e1, c1, 1, a1, 1, n1, "signal.set", {}),
     Req(e2, c2, 1, a2, 1, n1, "signal.set", {})}

(* Two commands for the same turnout. *)
SameAssetRequests ==
    {Req(e1, c1, 1, a1, 1, n1, "turnout.set", {"servo"}),
     Req(e2, c2, 1, a1, 1, n1, "turnout.set", {"servo"})}

(* Work of two successive Core sessions. *)
TwoCoreRequests ==
    {Req(e1, c1, 1, a1, 1, n1, "signal.set", {}),
     Req(e2, c2, 2, a2, 1, n1, "signal.set", {})}
=============================================================================
