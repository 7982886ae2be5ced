---------------------------- MODULE MCDccService ----------------------------
(* Instances of DccService for TLC. *)
EXTENDS DccService, TLC

CONSTANTS t1, t2, t3, t4, l1, l2

Cmd(i, c, op, a, f) ==
    [id |-> i, core |-> c, op |-> op, asset |-> a, fence |-> f]

(* A drive, a stop and the connection that both need. *)
DriveCommands ==
    {Cmd(0, 1, "connect", l1, 1), Cmd(1, 1, "throttle", l1, 1),
     Cmd(2, 1, "stop", l1, 1)}

(* Two locomotives driven at once and the line taken down under them. *)
CrowdCommands ==
    {Cmd(0, 1, "connect", l1, 1), Cmd(1, 1, "throttle", l1, 1),
     Cmd(2, 1, "function", l2, 1), Cmd(3, 1, "stop", l1, 1),
     Cmd(4, 1, "disconnect", l1, 1)}

(* One locomotive under two Core sessions and two leases. *)
LeaseCommands ==
    {Cmd(0, 1, "connect", l1, 1), Cmd(1, 1, "throttle", l1, 1),
     Cmd(2, 2, "throttle", l1, 2)}

(* As many functions as there are HTTP threads. *)
BusyCommands ==
    {Cmd(0, 1, "connect", l1, 1)}
    \cup {Cmd(i, 1, "function", l1, 1) : i \in 1..4}
=============================================================================
