--------------------------- MODULE MCCoreService ---------------------------
(* Instances of CoreService for TLC. *)
EXTENDS CoreService, TLC

CONSTANTS t1, t2, k1, k2, k3, k4, l1, m1

MCCommand(k, op, a, v) == [id |-> k, op |-> op, asset |-> a, value |-> v]

(* A locomotive is driven while its address is changed, and changed back. *)
ProgramCommands ==
    {MCCommand(k1, "throttle", l1, 1), MCCommand(k2, "program", l1, 2),
     MCCommand(k3, "program", l1, 1)}

(* A locomotive is driven while the emergency stop is used. *)
LatchCommands ==
    {MCCommand(k1, "throttle", l1, 1), MCCommand(k2, "emergency", l1, 1)}

(* Everything else, with an identity used for two commands. *)
OtherCommands ==
    {MCCommand(k1, "stationary", m1, 1), MCCommand(k2, "cv", l1, 1),
     MCCommand(k3, "emergency", l1, 1), MCCommand(k3, "power", l1, 1),
     MCCommand(k4, "stop", l1, 1)}

ThreadSymmetry == Permutations(Thread)
=============================================================================
