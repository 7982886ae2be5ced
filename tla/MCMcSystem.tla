----------------------------- MODULE MCMcSystem -----------------------------
(* An instance of McSystem for TLC. *)
EXTENDS McSystem

CONSTANTS e1, e2, e3, c1, c2, c3, a1, a2, a3, n1, n2, cfg1

Req(e, c, a, f, n, op, res) ==
    [id |-> e, command |-> c, core |-> 1, asset |-> a, fence |-> f,
     node |-> n, config |-> cfg1, operation |-> op, resources |-> res]

(* A double slip and a signal of one node, and a machine of another node    *)
(* whose sequence moves a servo.                                            *)
Slip == Req(e1, c1, a1, 1, n1, "turnout.set", {"servo"})
Signal == Req(e2, c2, a3, 1, n1, "signal.set", {})
Machine == Req(e2, c2, a2, 1, n2, "machine.execute", {"servo", "machine"})

(* The first asset under a newer lease, and one execution more than the      *)
(* capacity; the identity of the former is used with another payload by     *)
(* Signal.                                                                  *)
Renewed == Req(e2, c2, a1, 2, n1, "signal.set", {})
Third == Req(e3, c3, a2, 1, n1, "signal.set", {})
LayoutRequests == {Slip, Signal, Machine, Renewed, Third}

(* One fault of each of the given kinds. *)
Once(kinds) == [k \in FaultKind |-> IF k \in kinds THEN 1 ELSE 0]

(* Two executions over one permit or one runner, and a command that comes   *)
(* again or a node that starts again; one execution with everything that    *)
(* can go wrong, in pairs.                                                  *)
LayoutScenarios ==
    {[work |-> {Slip, Machine}, faults |-> Once(kinds)] :
        kinds \in {{"repeat"}, {"reboot"}}}
    \cup {[work |-> {Slip, Signal}, faults |-> Once(kinds)] :
             kinds \in {{"repeat"}, {"deadline"}}}
    \cup {[work |-> {Slip}, faults |-> Once(kinds)] :
             kinds \in {{"repeat", "deadline"}, {"repeat", "reboot"},
                        {"repeat", "restart"}, {"restart", "reboot"}}}
    \cup {[work |-> {Machine}, faults |-> Once(kinds)] :
             kinds \in {{"broker", "deadline"}, {"heartbeat", "reboot"},
                        {"silence", "repeat"}, {"will", "reboot"}}}
    \cup {[work |-> {Slip, Signal, Renewed, Third}, faults |-> Once({})]}
    \cup {[work |-> {Slip, Renewed}, faults |-> Once(kinds)] :
             kinds \in {{"restart"}, {"deadline"}}}
    \cup {[work |-> {Slip}, faults |-> [Once({}) EXCEPT !["repeat"] = 2]]}

OneConfiguration == [n \in Node |-> cfg1]
=============================================================================
