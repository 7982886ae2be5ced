----------------------------- MODULE HmiGateway -----------------------------
(***************************************************************************)
(* mtos_hmi between one browser and Core: the Socket.IO handlers of        *)
(* hmi_app.py, the bookkeeping of hmi/service.py, the background thread    *)
(* every accepted command gets, and the monitor thread that pushes         *)
(* snapshots.  Core is reduced to what the gateway sees of it: the         *)
(* snapshot it returns and the decision it takes on a command, which is    *)
(* atomic here (CoreService looks inside).  Other browsers appear as       *)
(* commands that change Core under this one.                               *)
(*                                                                         *)
(* The browser's side is OperatorConsole, which extends this module.       *)
(***************************************************************************)
EXTENDS Integers, FiniteSets

CONSTANTS
    Command,         \* identities of the browser's commands, used in order
    Loco, Number,    \* locomotives, and function numbers of a locomotive
    Address,         \* decoder addresses
    None,
    MaxOutstanding,  \* HmiService(max_outstanding=...)
    FirstAddress,    \* the address the decoder has at first
    MaxMail,         \* bound: pushed snapshots under way at once
    Scenarios        \* bound: see scenario

ASSUME CommandAssumption == Command \subseteq Nat /\ IsFiniteSet(Command)
ASSUME LimitAssumption == MaxOutstanding \in Nat \ {0}
ASSUME AddressAssumption == FirstAddress \in Address
ASSUME NoneAssumption == None \notin Loco \cup Address

Pair == Loco \X Number

Kind == {"connect", "disconnect", "power", "throttle", "function", "stop",
         "emergency", "resume", "accessory", "read", "write", "cv"}

(* operation and payload of a control.command.  Its generation is left out: *)
(* Core reads none.                                                         *)
Target == Pair \cup Loco \cup Address \cup {None}
Request == [kind : Kind, target : Target, on : BOOLEAN]

(* What the browser uses of a snapshot.                                     *)
Snapshot == [ready : BOOLEAN, power : {"unknown", "off", "on"},
             latched : BOOLEAN, functions : [Pair -> {"none", "off", "on"}]]

(* What a behaviour is bounded by: the kinds the operator clicks and their   *)
(* order, MAIN power and the functions as they are at first, one command    *)
(* another browser may give at any time, and the connections the socket may *)
(* have.                                                                    *)
Scenario == [clicks : [Command -> Kind \cup {None}], power : {"off", "on"},
             functions : {"none", "off", "on"}, elsewhere : SUBSET Request,
             sessions : Nat]

ASSUME ScenarioAssumption == Scenarios \subseteq Scenario

VARIABLES
    scenario,     \* bound: the scenario this behaviour follows
    core,         \* the snapshot Core would return now
    decoder,      \* the address of the decoder on the programming track
    recorded,     \* the address Asset records for it
    others,       \* whether another browser has given its command
    fate,         \* what Core did with each command
    reported,     \* the address a programming command reported
    request, seq, \* the control.command messages of the browser
    sid,          \* the connection its last message went over, 0 for none yet
    stage,        \* where HMI is with each command
    result,       \* its terminal event
    session,      \* the browser's connection: its number, and whether it is up
    connected,
    lastSeq,      \* _clients[sid]["client_seq"]
    outstanding,  \* _clients[sid]["outstanding"]
    changed,      \* the monitor has not yet pushed the present snapshot
    mail          \* pushed snapshots on their way to the browser

coreVars == <<core, decoder, recorded, fate, reported>>
wireVars == <<request, seq, sid>>
hmiVars == <<stage, result, lastSeq, outstanding>>
linkVars == <<session, connected>>

gatewayVars == <<scenario, coreVars, others, wireVars, hmiVars, linkVars, changed, mail>>

Taken == {"accepted", "reported", "closed"}

GatewayTypeOK ==
    /\ scenario \in Scenarios
    /\ core \in Snapshot
    /\ decoder \in Address
    /\ recorded \in Address
    /\ others \in BOOLEAN
    /\ fate \in [Command -> {"open", "applied", "half", "refused"}]
    /\ reported \in [Command -> Address \cup {None}]
    /\ request \in [Command -> Request \cup {None}]
    /\ seq \in [Command -> Int]
    /\ sid \in [Command -> Nat]
    /\ stage \in [Command -> Taken \cup {"idle", "arriving", "rejected"}]
    /\ result \in [Command -> {"none", "completed", "failed"}]
    /\ session \in Nat
    /\ connected \in BOOLEAN
    /\ lastSeq \in Int
    /\ outstanding \subseteq Command
    /\ Cardinality(outstanding) <= MaxOutstanding
    /\ changed \in BOOLEAN
    /\ mail \subseteq Snapshot

GatewayInit ==
    /\ scenario \in Scenarios
    /\ core = [ready |-> TRUE, power |-> scenario.power, latched |-> FALSE,
               functions |-> [p \in Pair |-> scenario.functions]]
    /\ decoder = FirstAddress
    /\ recorded = decoder
    /\ others = FALSE
    /\ fate = [c \in Command |-> "open"]
    /\ reported = [c \in Command |-> None]
    /\ request = [c \in Command |-> None]
    /\ seq = [c \in Command |-> -1]
    /\ sid = [c \in Command |-> 0]
    /\ stage = [c \in Command |-> "idle"]
    /\ result = [c \in Command |-> "none"]
    /\ session = 0
    /\ connected = FALSE
    /\ lastSeq = -1
    /\ outstanding = {}
    /\ changed = TRUE
    /\ mail = {}

(* The message of c went over the connection that is up.                    *)
Linked(c) == connected /\ sid[c] = session

-----------------------------------------------------------------------------
(* Core, as the gateway meets it. *)

(* The checks that decide a command of this kind.                           *)
Permitted(r) ==
    CASE r.kind \in {"throttle", "function"} -> core.ready /\ ~core.latched
      [] r.kind = "power" -> core.ready /\ (r.on => ~core.latched)
      [] r.kind \in {"stop", "disconnect"} -> core.ready
      [] r.kind = "connect" -> ~core.ready
      [] r.kind \in {"read", "cv"} -> core.ready /\ core.power = "off"
      [] r.kind = "write" -> /\ core.ready /\ core.power = "off"
                             /\ r.target # recorded
      [] OTHER -> TRUE

(* What an executed command leaves in the snapshot.  A disconnected station *)
(* forgets its locomotives; a connected one reports its power.              *)
After(r) ==
    CASE r.kind = "power" ->
            [core EXCEPT !.power = IF r.on THEN "on" ELSE "off"]
      [] r.kind = "function" ->
            [core EXCEPT !.functions[r.target] = IF r.on THEN "on" ELSE "off"]
      [] r.kind = "emergency" -> [core EXCEPT !.latched = TRUE]
      [] r.kind = "resume" -> [core EXCEPT !.latched = FALSE]
      [] r.kind = "disconnect" ->
            [core EXCEPT !.ready = FALSE, !.power = "unknown",
                         !.functions = [p \in Pair |-> "none"]]
      [] r.kind = "connect" ->
            [core EXCEPT !.ready = TRUE, !.power = "off"]
      [] OTHER -> core

(* Core decides a command once it has it.  HMI may have given up on the     *)
(* answer by then: the gateway's client waits two seconds.                  *)
Undecided(c) == stage[c] \in Taken /\ fate[c] = "open"

CoreApplies(c) ==
    /\ Undecided(c)
    /\ Permitted(request[c])
    /\ core' = After(request[c])
    /\ IF request[c].kind = "write"
       THEN decoder' = request[c].target /\ recorded' = request[c].target
       ELSE UNCHANGED <<decoder, recorded>>
    /\ reported' = [reported EXCEPT ![c] =
                        IF request[c].kind \in {"read", "write"}
                        THEN decoder' ELSE None]
    /\ fate' = [fate EXCEPT ![c] = "applied"]
    /\ changed' = TRUE
    /\ UNCHANGED <<scenario, others, wireVars, hmiVars, linkVars, mail>>

(* The decoder is programmed and the record is not.                         *)
CoreAppliesHalf(c) ==
    /\ Undecided(c)
    /\ request[c].kind = "write"
    /\ Permitted(request[c])
    /\ decoder' = request[c].target
    /\ fate' = [fate EXCEPT ![c] = "half"]
    /\ UNCHANGED <<scenario, core, recorded, reported, others, wireVars,
                   hmiVars, linkVars, changed, mail>>

CoreRefuses(c) ==
    /\ Undecided(c)
    /\ request[c].kind # "emergency"
    /\ fate' = [fate EXCEPT ![c] = "refused"]
    /\ UNCHANGED <<scenario, core, decoder, recorded, reported, others,
                   wireVars, hmiVars, linkVars, changed, mail>>

(* Another browser's command, through the same HMI and Core.                *)
CommandElsewhere(r) ==
    /\ ~others
    /\ Permitted(r)
    /\ others' = TRUE
    /\ core' = After(r)
    /\ changed' = TRUE
    /\ UNCHANGED <<scenario, decoder, recorded, fate, reported, wireVars, hmiVars,
                   linkVars, mail>>

-----------------------------------------------------------------------------
(* The Socket.IO handlers of mtos_hmi. *)

(* A new connection gets a new sid, a client entry and a snapshot.          *)
Connected ==
    /\ ~connected
    /\ session < scenario.sessions
    /\ session' = session + 1
    /\ connected' = TRUE
    /\ lastSeq' = -1
    /\ outstanding' = {}
    /\ mail' = {core}
    /\ UNCHANGED <<scenario, coreVars, others, wireVars, stage, result, changed>>

(* The connection breaks: everything on it is lost, HMI drops the client.   *)
Disconnected ==
    /\ connected
    /\ connected' = FALSE
    /\ lastSeq' = -1
    /\ outstanding' = {}
    /\ mail' = {}
    /\ UNCHANGED <<scenario, coreVars, others, wireVars, stage, result, session, changed>>

(* control.command: accept, note "command.accepted", start the thread.      *)
InOrder(c) == seq[c] > lastSeq

HasRoom == Cardinality(outstanding) < MaxOutstanding

AcceptCommand(c) ==
    /\ stage[c] = "arriving"
    /\ Linked(c)
    /\ InOrder(c)
    /\ HasRoom
    /\ stage' = [stage EXCEPT ![c] = "accepted"]
    /\ lastSeq' = seq[c]
    /\ outstanding' = outstanding \cup {c}
    /\ changed' = TRUE
    /\ UNCHANGED <<scenario, coreVars, others, wireVars, result, linkVars, mail>>

RejectCommand(c) ==
    /\ stage[c] = "arriving"
    /\ Linked(c)
    /\ ~(InOrder(c) /\ HasRoom)
    /\ stage' = [stage EXCEPT ![c] = "rejected"]
    /\ UNCHANGED <<scenario, coreVars, others, wireVars, result, lastSeq, outstanding,
                   linkVars, changed, mail>>

(* Mutant: the slot is given back only when the call returns. *)
FinishKeepsSlot(c, kind) ==
    /\ stage' = [stage EXCEPT ![c] = "reported"]
    /\ result' = [result EXCEPT ![c] = kind]
    /\ outstanding' = IF kind = "completed" THEN outstanding \ {c} ELSE outstanding
    /\ changed' = TRUE
    /\ UNCHANGED <<scenario, coreVars, others, wireVars, lastSeq, linkVars, mail>>

(* execute: the gateway's call returns or raises, the terminal event is     *)
(* noted and sent to the sid of the command, its slot is given back.        *)
Finish(c, kind) ==
    /\ stage' = [stage EXCEPT ![c] = "reported"]
    /\ result' = [result EXCEPT ![c] = kind]
    /\ outstanding' = IF Linked(c) THEN outstanding \ {c} ELSE outstanding
    /\ changed' = TRUE
    /\ UNCHANGED <<scenario, coreVars, others, wireVars, lastSeq, linkVars, mail>>

CallReturns(c) ==
    /\ stage[c] = "accepted"
    /\ fate[c] = "applied"
    /\ Finish(c, "completed")

(* Refused, half done, or no answer within the two seconds.                 *)
CallFails(c) ==
    /\ stage[c] = "accepted"
    /\ Finish(c, "failed")

(* The snapshot the thread sends after the event, unless reading it fails.  *)
PushAfterCommand(c) ==
    /\ stage[c] = "reported"
    /\ Cardinality(mail) < MaxMail
    /\ stage' = [stage EXCEPT ![c] = "closed"]
    /\ mail' \in {mail, IF Linked(c) THEN mail \cup {core} ELSE mail}
    /\ UNCHANGED <<scenario, coreVars, others, wireVars, result, lastSeq, outstanding,
                   linkVars, changed>>

(* monitor: a snapshot that differs from the last one it pushed goes out.   *)
MonitorPushes ==
    /\ changed
    /\ Cardinality(mail) < MaxMail
    /\ changed' = FALSE
    /\ mail' = IF connected THEN mail \cup {core} ELSE mail
    /\ UNCHANGED <<scenario, coreVars, others, wireVars, hmiVars, linkVars>>

CommandStep(c) ==
    \/ AcceptCommand(c)
    \/ RejectCommand(c)
    \/ CoreApplies(c)
    \/ CoreAppliesHalf(c)
    \/ CoreRefuses(c)
    \/ CallReturns(c)
    \/ CallFails(c)
    \/ PushAfterCommand(c)

GatewayStep ==
    \/ \E c \in Command : CommandStep(c)
    \/ \E r \in scenario.elsewhere : CommandElsewhere(r)
    \/ Connected
    \/ Disconnected
    \/ MonitorPushes
=============================================================================
