--------------------------- MODULE CommandPromise ---------------------------
(***************************************************************************)
(* What the operator may rely on about a command, without sockets, threads *)
(* and timeouts.  HMI takes a command, Core applies it at most once and    *)
(* only when HMI has taken it, and the operator is told something: that it *)
(* was accepted, which is true only of a command HMI has taken; that it is *)
(* completed, true only of a command Core has applied; or that it failed,  *)
(* which denies nothing: Core may still apply it.  Nothing is said twice,  *)
(* and only bad news follows "accepted".                                   *)
(***************************************************************************)
CONSTANT Command

VARIABLES taken, applied, told

promiseVars == <<taken, applied, told>>

Init ==
    /\ taken = {}
    /\ applied = {}
    /\ told = [c \in Command |-> "none"]

Take(c) ==
    /\ c \notin taken
    /\ taken' = taken \cup {c}
    /\ UNCHANGED <<applied, told>>

Apply(c) ==
    /\ c \in taken \ applied
    /\ applied' = applied \cup {c}
    /\ UNCHANGED <<taken, told>>

TellAccepted(c) ==
    /\ c \in taken
    /\ told[c] = "none"
    /\ told' = [told EXCEPT ![c] = "accepted"]
    /\ UNCHANGED <<taken, applied>>

TellCompleted(c) ==
    /\ c \in applied
    /\ told[c] = "none"
    /\ told' = [told EXCEPT ![c] = "completed"]
    /\ UNCHANGED <<taken, applied>>

TellFailed(c) ==
    /\ told[c] \in {"none", "accepted"}
    /\ told' = [told EXCEPT ![c] = "failed"]
    /\ UNCHANGED <<taken, applied>>

Next ==
    \E c \in Command :
        \/ Take(c)
        \/ Apply(c)
        \/ TellAccepted(c)
        \/ TellCompleted(c)
        \/ TellFailed(c)

Spec == Init /\ [][Next]_promiseVars
=============================================================================
