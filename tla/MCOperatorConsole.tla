-------------------------- MODULE MCOperatorConsole --------------------------
(* Instances of OperatorConsole for TLC. *)
EXTENDS OperatorConsole, TLC

CONSTANTS l1, l2, d3, d4

Case(kinds, power, functions, elsewhere, sessions) ==
    [clicks |-> kinds, power |-> power, functions |-> functions,
     elsewhere |-> elsewhere, sessions |-> sessions]

Press(kind, on) == [kind |-> kind, target |-> None, on |-> on]

(* Pairs of clicks that meet, and single clicks against another browser and *)
(* a connection that breaks and comes back.                                 *)
ConsoleScenarios ==
    {Case(<<"function", "function">>, "on", "none", {}, 1),
     Case(<<"accessory", "function">>, "on", "off", {}, 1),
     Case(<<"throttle", "stop">>, "on", "none", {}, 1),
     Case(<<"disconnect", "connect">>, "off", "on", {}, 1),
     Case(<<"write", "read">>, "off", "none", {}, 1),
     Case(<<"read", "write">>, "off", "none", {}, 1),
     Case(<<"write", None>>, "off", "none", {}, 2),
     Case(<<"cv", None>>, "off", "none", {}, 2),
     Case(<<"emergency", None>>, "on", "none", {}, 2),
     Case(<<"resume", None>>, "on", "none", {Press("emergency", FALSE)}, 2),
     Case(<<"power", None>>, "on", "none", {Press("emergency", FALSE)}, 2),
     Case(<<"function", None>>, "on", "on",
          {Press("power", FALSE), Press("emergency", FALSE)}, 2)}

(* The slider, then the stop button. *)
StopScenario == {Case(<<"throttle", "stop">>, "on", "none", {}, 1)}
=============================================================================
