----------------------------- MODULE DccService -----------------------------
(***************************************************************************)
(* mtos_dcc: the service that owns the DCC command station                 *)
(* (src/mtos/dcc/service.py, dcc_app.py, and of control/dcc/station.py the *)
(* operation lock, the write lock and the connection).                     *)
(*                                                                         *)
(* Threads.  A pool of HTTP threads serves Core; a watchdog thread polls   *)
(* check_watchdog, which requests also call.  The service lock covers      *)
(* sessions and fences only: a request is validated first, takes a slot,   *)
(* waits for the station's operation lock and is transmitted last, with    *)
(* heartbeats, all-stops and other requests in between.                    *)
(*                                                                         *)
(* Abstractions: a Core session is its epoch; a throttle either moves the  *)
(* locomotive or (speed 0, the "stop" endpoint) stops it; what the station *)
(* answers decides a result that nobody here reads.  MAIN power and        *)
(* programming go the same way as "function": transmitted, moving nothing. *)
(***************************************************************************)
EXTENDS Naturals, FiniteSets

CONSTANTS
    Thread,       \* HTTP threads (4 in the deployed process)
    Watchdog,     \* the watchdog thread
    Asset,        \* locomotives
    Commands,     \* the requests Core may send, each of them once
    QueueCapacity,\* slots for normal commands (64)
    MaxCore,      \* bound: Core sessions
    MaxLosses,    \* bound: times the heartbeat is missed
    SerialMayFail,\* bound: whether the serial line may break
    None          \* absent value

Operation == {"throttle", "stop", "function", "connect", "disconnect"}
Command == [id : Nat, core : 1..MaxCore, op : Operation,
            asset : Asset, fence : Nat \ {0}]
Actor == Thread \cup {Watchdog}

ASSUME CommandsAssumption == Commands \subseteq Command
ASSUME ThreadAssumption ==
    /\ IsFiniteSet(Thread) /\ Watchdog \notin Thread
    /\ None \notin Thread /\ None \notin Commands
ASSUME DccBoundsAssumption ==
    /\ QueueCapacity \in Nat \ {0} /\ MaxCore \in Nat \ {0}
    /\ MaxLosses \in Nat /\ SerialMayFail \in BOOLEAN

VARIABLES
    core,      \* the CoreSession: its epoch and stale flag
    overdue,   \* heartbeat older than the timeout, not yet seen by a check
    stopSent,  \* _watchdog_stop_sent
    fences,    \* _asset_fences
    watch,     \* where each actor is inside check_watchdog
    pc,        \* where each HTTP thread is in its request
    command,   \* ... and the request
    slots,     \* free slots of the semaphore _normal_slots
    lock,      \* holder of the station's operation lock
    ready,     \* station connected, handshake done, serial line open
    moving,    \* locomotives whose last speed on the track is not zero
    sentFence, \* token of the asset's last transmitted command
    losses,    \* how often a check found Core stale
    stops,     \* how often the watchdog attempted the all-stop
    answered,  \* whether it did since Core was last found lost
    pending    \* requests Core has not sent yet

session == <<core, overdue, stopSent>>
requests == <<pc, command, slots, lock, pending>>
track == <<ready, moving, sentFence>>
history == <<losses, stops, answered>>
vars == <<core, overdue, stopSent, fences, watch, pc, command, slots, lock,
          ready, moving, sentFence, losses, stops, answered, pending>>

Stage == {"idle", "received", "validated", "queued", "operating", "sent"}

TypeOK ==
    /\ core \in [epoch : 1..MaxCore, stale : BOOLEAN] \cup {None}
    /\ overdue \in BOOLEAN /\ stopSent \in BOOLEAN
    /\ overdue => core # None
    /\ fences \in [Asset -> Nat]
    /\ watch \in [Actor -> {"idle", "stale", "stopping", "stopped"}]
    /\ pc \in [Thread -> Stage]
    /\ command \in [Thread -> Commands \cup {None}]
    /\ \A t \in Thread : pc[t] # "idle" => command[t] # None
    /\ slots \in 0..QueueCapacity
    /\ lock \in Thread \cup {None}
    /\ ready \in BOOLEAN
    /\ moving \in SUBSET Asset
    /\ sentFence \in [Asset -> Nat]
    /\ losses \in Nat /\ stops \in Nat /\ answered \in BOOLEAN
    /\ pending \in SUBSET Commands

Init ==
    /\ core = None /\ overdue = FALSE /\ stopSent = FALSE
    /\ fences = [a \in Asset |-> 0]
    /\ watch = [x \in Actor |-> "idle"]
    /\ pc = [t \in Thread |-> "idle"]
    /\ command = [t \in Thread |-> None]
    /\ slots = QueueCapacity
    /\ lock = None
    /\ ready = FALSE
    /\ moving = {}
    /\ sentFence = [a \in Asset |-> 0]
    /\ losses = 0 /\ stops = 0 /\ answered = TRUE
    /\ pending = Commands

----------------------------------------------------------------------------
(* Sessions and heartbeats, served by a free HTTP thread *)

FreeThread == \E t \in Thread : pc[t] = "idle" /\ watch[t] = "idle"

EstablishCoreSession(c) ==
    /\ FreeThread
    /\ core # None => c >= core.epoch
    /\ core' = [epoch |-> c, stale |-> FALSE]
    /\ overdue' = FALSE
    /\ stopSent' = FALSE
    /\ UNCHANGED <<fences, watch, requests, track, history>>

(* heartbeat: a stale session recovers and the flag is taken back. *)
Heartbeat(c) ==
    /\ FreeThread
    /\ core # None /\ core.epoch = c
    /\ core' = [core EXCEPT !.stale = FALSE]
    /\ overdue' = FALSE
    /\ stopSent' = FALSE
    /\ UNCHANGED <<fences, watch, requests, track, history>>

(* Time passes without a heartbeat. *)
HeartbeatLapses ==
    /\ core # None /\ ~core.stale /\ ~overdue
    /\ losses < MaxLosses
    /\ overdue' = TRUE
    /\ UNCHANGED <<core, stopSent, fences, watch, requests, track, history>>

----------------------------------------------------------------------------
(* check_watchdog: under the lock the session becomes stale; the all-stop  *)
(* and the flag are left to the actor that noticed, outside the lock.      *)

FindsCoreLost(x) ==
    /\ core' = [core EXCEPT !.stale = TRUE]
    /\ overdue' = FALSE
    /\ watch' = [watch EXCEPT ![x] = "stale"]
    /\ losses' = losses + 1
    /\ answered' = FALSE

WatchdogPolls ==
    /\ watch[Watchdog] = "idle" /\ overdue
    /\ FindsCoreLost(Watchdog)
    /\ UNCHANGED <<stopSent, fences, requests, track, stops>>

(* GET /v1/state *)
StatePolls(t) ==
    /\ pc[t] = "idle" /\ watch[t] = "idle" /\ overdue
    /\ FindsCoreLost(t)
    /\ UNCHANGED <<stopSent, fences, requests, track, stops>>

(* Mutant: nothing is attempted while the station is not ready. *)
DecideStopWhenReady(x) ==
    /\ watch[x] = "stale"
    /\ watch' = [watch EXCEPT
                    ![x] = IF stopSent \/ ~ready THEN "idle" ELSE "stopping"]
    /\ UNCHANGED <<session, fences, requests, track, history>>

(* The flag is read. *)
DecideStop(x) ==
    /\ watch[x] = "stale"
    /\ watch' = [watch EXCEPT ![x] = IF stopSent THEN "idle" ELSE "stopping"]
    /\ UNCHANGED <<session, fences, requests, track, history>>

(* Mutant: the attempt is repeated until it succeeds. *)
WatchdogStopRetries(x) ==
    /\ watch[x] = "stopping"
    /\ moving' = IF ready THEN {} ELSE moving
    /\ stops' = stops + 1
    /\ answered' = TRUE
    /\ watch' = IF ready THEN [watch EXCEPT ![x] = "stopped"] ELSE watch
    /\ UNCHANGED <<session, fences, requests, ready, sentFence, losses>>

(* station.emergency_stop takes the write lock only; that it is not ready  *)
(* is swallowed.                                                           *)
WatchdogStop(x) ==
    /\ watch[x] = "stopping"
    /\ moving' = IF ready THEN {} ELSE moving
    /\ stops' = stops + 1
    /\ answered' = TRUE
    /\ watch' = [watch EXCEPT ![x] = "stopped"]
    /\ UNCHANGED <<session, fences, requests, ready, sentFence, losses>>

MarkStopSent(x) ==
    /\ watch[x] = "stopped"
    /\ stopSent' = TRUE
    /\ watch' = [watch EXCEPT ![x] = "idle"]
    /\ UNCHANGED <<core, overdue, fences, requests, track, history>>

WatchStep(x) == DecideStop(x) \/ WatchdogStop(x) \/ MarkStopSent(x)

----------------------------------------------------------------------------
(* A request: validate, execute, the station's operation *)

(* Connecting and disconnecting are validated but take no slot. *)
TakesSlot(c) == c.op \in {"throttle", "stop", "function"}

(* The request arrives; validate calls check_watchdog first. *)
Receive(t, c) ==
    /\ pc[t] = "idle" /\ watch[t] = "idle"
    /\ c \in pending
    /\ pending' = pending \ {c}
    /\ pc' = [pc EXCEPT ![t] = "received"]
    /\ command' = [command EXCEPT ![t] = c]
    /\ IF overdue THEN FindsCoreLost(t)
       ELSE UNCHANGED <<core, overdue, watch, losses, answered>>
    /\ UNCHANGED <<stopSent, fences, slots, lock, track, stops>>

Answered(t) == pc' = [pc EXCEPT ![t] = "idle"]

(* _require_session and the fence of the asset, if the request has one. *)
Current(c) == core # None /\ core.epoch = c.core /\ ~core.stale
FenceHolds(c) == TakesSlot(c) => c.fence >= fences[c.asset]

Validate(t) ==
    /\ pc[t] = "received" /\ watch[t] = "idle"
    /\ LET c == command[t] IN
       IF Current(c) /\ FenceHolds(c)
       THEN /\ pc' = [pc EXCEPT ![t] = "validated"]
            /\ fences' = IF TakesSlot(c)
                         THEN [fences EXCEPT ![c.asset] = c.fence] ELSE fences
       ELSE Answered(t) /\ UNCHANGED fences
    /\ UNCHANGED <<session, watch, command, slots, lock, pending, track,
                   history>>

(* execute: a slot, or DccBusy at once. *)
AcquireSlot(t) ==
    /\ pc[t] = "validated"
    /\ IF TakesSlot(command[t])
       THEN IF slots > 0
            THEN slots' = slots - 1 /\ pc' = [pc EXCEPT ![t] = "queued"]
            ELSE UNCHANGED slots /\ Answered(t)
       ELSE UNCHANGED slots /\ pc' = [pc EXCEPT ![t] = "queued"]
    /\ UNCHANGED <<session, fences, watch, command, lock, pending, track,
                   history>>

(* The operation ends, in whatever way: execute's finally and the lock.    *)
ReturnSlot(t) ==
    slots' = IF TakesSlot(command[t]) THEN slots + 1 ELSE slots
EndOperation(t) == Answered(t) /\ ReturnSlot(t) /\ lock' = None

(* _operating up to its readiness check, under the operation lock. *)
BeginOperation(t) ==
    /\ pc[t] = "queued" /\ lock = None
    /\ IF ready \/ command[t].op \in {"connect", "disconnect"}
       THEN /\ lock' = t /\ pc' = [pc EXCEPT ![t] = "operating"]
            /\ UNCHANGED slots
       ELSE EndOperation(t)
    /\ UNCHANGED <<session, fences, watch, command, pending, track, history>>

(* The frame goes out under the write lock; the thread waits for reports. *)
Transmit(t) ==
    /\ pc[t] = "operating" /\ ready
    /\ TakesSlot(command[t])
    /\ pc' = [pc EXCEPT ![t] = "sent"]
    /\ LET c == command[t] IN
       /\ moving' = CASE c.op = "throttle" -> moving \cup {c.asset}
                      [] c.op = "stop" -> moving \ {c.asset}
                      [] OTHER -> moving
       /\ sentFence' = [sentFence EXCEPT ![c.asset] = c.fence]
    /\ UNCHANGED <<session, fences, watch, command, slots, lock, pending,
                   ready, history>>

(* Mutant: an error on the serial line skips the finally clause. *)
TransmitLeaks(t) ==
    /\ pc[t] = "operating" /\ ~ready
    /\ TakesSlot(command[t])
    /\ Answered(t) /\ lock' = None
    /\ UNCHANGED <<session, fences, watch, command, slots, pending, track,
                   history>>

(* The serial line broke since the check. *)
TransmitFails(t) ==
    /\ pc[t] = "operating" /\ ~ready
    /\ TakesSlot(command[t])
    /\ EndOperation(t)
    /\ UNCHANGED <<session, fences, watch, command, pending, track, history>>

(* Mutant: the operation lock is kept. *)
ReplyOrTimeoutKeepsLock(t) ==
    /\ pc[t] = "sent"
    /\ Answered(t) /\ ReturnSlot(t)
    /\ UNCHANGED <<session, fences, watch, command, lock, pending, track,
                   history>>

(* A matching report or the response timeout: confirmed or not. *)
ReplyOrTimeout(t) ==
    /\ pc[t] = "sent"
    /\ EndOperation(t)
    /\ UNCHANGED <<session, fences, watch, command, pending, track, history>>

(* connect, whose handshake may fail, and disconnect; neither says         *)
(* anything to the locomotives.                                            *)
ChangeConnection(t) ==
    /\ pc[t] = "operating" /\ ~TakesSlot(command[t])
    /\ EndOperation(t)
    /\ \/ command[t].op = "connect" /\ ready' = TRUE
       \/ command[t].op = "connect" /\ SerialMayFail /\ ~ready
          /\ UNCHANGED ready
       \/ command[t].op = "disconnect" /\ ready' = FALSE
    /\ UNCHANGED <<session, fences, watch, command, pending, moving,
                   sentFence, history>>

RequestStep(t) ==
    \/ Validate(t) \/ AcquireSlot(t) \/ BeginOperation(t) \/ Transmit(t)
    \/ TransmitFails(t) \/ ReplyOrTimeout(t) \/ ChangeConnection(t)

(* POST /v1/emergency-stop needs no session, slot or operation lock. *)
EmergencyStop ==
    /\ FreeThread /\ ready
    /\ moving' = {}
    /\ UNCHANGED <<session, fences, watch, requests, ready, sentFence, history>>

(* The reader thread meets an error of the serial line. *)
SerialFails ==
    /\ SerialMayFail /\ ready
    /\ ready' = FALSE
    /\ UNCHANGED <<session, fences, watch, requests, moving, sentFence,
                   history>>

----------------------------------------------------------------------------

CoreStep ==
    \/ \E c \in 1..MaxCore : EstablishCoreSession(c) \/ Heartbeat(c)
    \/ \E t \in Thread, c \in Commands : Receive(t, c)
    \/ EmergencyStop

Next ==
    \/ CoreStep
    \/ HeartbeatLapses \/ SerialFails
    \/ WatchdogPolls
    \/ \E t \in Thread : StatePolls(t) \/ RequestStep(t)
    \/ \E x \in Actor : WatchStep(x)

Spec == Init /\ [][Next]_vars

(* The watchdog thread polls for ever and every thread that has begun a    *)
(* request goes on: station waits are bounded by timeouts.  Core and the   *)
(* serial line promise nothing.                                            *)
FairSpec ==
    /\ Spec
    /\ WF_vars(WatchdogPolls)
    /\ \A x \in Actor : WF_vars(WatchStep(x))
    /\ \A t \in Thread : WF_vars(RequestStep(t))

----------------------------------------------------------------------------
(* Properties *)

(* Threads inside execute: they own a slot. *)
Executing ==
    {t \in Thread : /\ pc[t] \in {"queued", "operating", "sent"}
                    /\ TakesSlot(command[t])}

(* No slot is lost or gained, and the operation lock belongs to the one    *)
(* thread that is at the station, over refusals, serial errors and time-   *)
(* outs at every stage of a request (execute's try/finally).               *)
SlotsBacked ==
    /\ slots + Cardinality(Executing) = QueueCapacity
    /\ \A t \in Thread : lock = t <=> pc[t] \in {"operating", "sent"}

(* The watchdog attempts at most one all-stop for each loss of Core,        *)
(* whoever notices it: the watchdog thread, a request or a state poll, all  *)
(* of which read and write the flag outside the lock.                       *)
OneStopPerLoss == stops <= losses

(* Why: every attempt, made or to be made, is the noticing of one loss.    *)
StopsOwed == {x \in Actor : watch[x] \in {"stale", "stopping"}}
WatchInvariant == stops + Cardinality(StopsOwed) <= losses

(* Every loss of Core is answered with an attempted all-stop, unless a     *)
(* heartbeat came before anybody noticed.                                   *)
CoreLost == overdue \/ (core # None /\ core.stale)
LossAnswered == CoreLost ~> (~overdue /\ answered)

(* Every request is answered: no request waits for a lock or a slot that   *)
(* nobody gives back, whatever breaks underneath.                           *)
RequestsAnswered == \A t \in Thread : pc[t] # "idle" ~> pc[t] = "idle"

----------------------------------------------------------------------------
(* What the documentation promises and the code does not keep *)

(* When Core is stale, the station is ready and everybody who noticed has  *)
(* finished, an all-stop was attempted after this loss.                    *)
WatchdogStops ==
    (/\ core # None /\ core.stale /\ ready
     /\ \A x \in Actor : watch[x] = "idle") => answered

(* While Core is stale no locomotive starts to move. *)
NoMotionWhileStale ==
    [][(core # None /\ core.stale) => moving' \subseteq moving]_vars

(* The tokens of the commands transmitted for one asset never go down. *)
FenceOrderOnTrack == [][\A a \in Asset : sentFence'[a] >= sentFence[a]]_vars

(* An emergency stop always finds a thread that can serve it. *)
EmergencyServed == FreeThread
=============================================================================
