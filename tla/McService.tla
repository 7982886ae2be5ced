----------------------------- MODULE McService -----------------------------
(***************************************************************************)
(* mtos_mc: the service that turns Core's accessory requests into commands *)
(* for the ESP32 nodes (src/mtos/mc/{service,repository,models,mqtt}.py).  *)
(*                                                                         *)
(* Threads.  The scheduler thread polls run_once; the MQTT client's thread *)
(* runs handle_mqtt, one message at a time; four HTTP threads run the      *)
(* endpoints.  Only session, heartbeat and submit take the service lock,   *)
(* so the modules's atomic steps are single SQLite transactions and the    *)
(* in-memory assignments next to them.  A handler that reads a row and     *)
(* writes it in a later transaction is two steps: run_once (queued list,   *)
(* gates, "dispatched", publish), handle_event, cancel and reconcile.      *)
(*                                                                         *)
(* Environment: the MQTT client and broker (connection, publishes that     *)
(* fail, messages lost, late or repeated), the clock (deadlines, missed    *)
(* heartbeats, silent nodes) and the nodes, of which this module assumes   *)
(* only what the wire fixes: a node reports on commands it was sent and    *)
(* names a producer session only after MC offered it to that boot.         *)
(***************************************************************************)
EXTENDS Naturals, FiniteSets

CONSTANTS
    Execution,   \* execution_ids
    Command,     \* command_ids
    Asset,       \* accessory assets
    Node,        \* ESP32 nodes
    Supported,   \* the nodes whose firmware has the supported prefix "0."
    Config,      \* configuration revisions
    Requests,    \* the typed requests clients may submit
    Capacity,    \* bound on non-terminal executions (256 in the code)
    MaxCore,     \* bound: Core sessions; a session's epoch stands for its id
    MaxEpoch,    \* bound: lifetimes of the MC process
    MaxBoot,     \* bound: boots of one node
    Expiring,    \* bound: the executions whose deadline may pass
    HttpCalls,   \* bound: operator calls under way at once (4 HTTP threads)
    None         \* absent value

Operation == {"turnout.set", "signal.set", "machine.execute"}
Resource == {"servo", "machine"}

(* ExecutionRequest: an equal record is an equal canonical payload hash. *)
Request == [id : Execution, command : Command, core : 1..MaxCore,
            asset : Asset, fence : Nat \ {0}, node : Node, config : Config,
            operation : Operation, resources : SUBSET Resource]

(* ExecutionRequest.validate: the resource an operation must declare. *)
ValidRequest(r) ==
    /\ r.operation = "turnout.set" => "servo" \in r.resources
    /\ r.operation = "machine.execute" => "machine" \in r.resources

ASSUME RequestsAssumption ==
    /\ Requests \subseteq Request
    /\ \A r \in Requests : ValidRequest(r)

ASSUME BoundsAssumption ==
    /\ Capacity \in Nat \ {0} /\ MaxCore \in Nat \ {0}
    /\ MaxEpoch \in Nat \ {0} /\ MaxBoot \in Nat \ {0}
    /\ HttpCalls \in Nat /\ Expiring \subseteq Execution

ASSUME ExecutionAssumption == IsFiniteSet(Execution)

ASSUME NoneAssumption ==
    /\ None \notin Execution /\ None \notin Node /\ None \notin Config
    /\ None \notin Requests

ASSUME SupportedAssumption == Supported \subseteq Node

Terminal == {"completed", "rejected", "failed", "expired", "cancelled"}
Active == {"dispatched", "accepted", "started"}
NonTerminal == {"queued", "uncertain"} \cup Active
State == NonTerminal \cup Terminal \cup {"absent"}

(* The in-memory permits: servo_execution, machine_execution,            *)
(* actuator_nodes[n] and signal_nodes[n].                                 *)
ActuatorGate == ({"servo", "machine"} \X {None}) \cup ({"actuator"} \X Node)
SignalGate == {"signal"} \X Node
Gate == ActuatorGate \cup SignalGate

(* The permits an execution of request r takes before it is dispatched.  *)
Gates(r) ==
    (r.resources \X {None})
    \cup (IF r.resources # {} THEN {<<"actuator", r.node>>} ELSE {})
    \cup (IF r.operation = "signal.set" THEN {<<"signal", r.node>>} ELSE {})

VARIABLES
    state,      \* execution.state; "absent" where there is no row
    request,    \* execution.payload, immutable once the row exists
    created,    \* execution.created_at, as the position of the insertion
    fence,      \* asset_fence: highest accepted fencing token, 0 for none
    epoch,      \* metadata.epoch, and the session of the running process
    core,       \* the CoreSession: its epoch and stale flag
    overdue,    \* heartbeat older than the timeout, not yet seen by a check
    nodes,      \* nodes_by_id
    gate,       \* the permits and the execution that holds each
    connected,  \* transport.connected
    sched,      \* the scheduler thread inside run_once
    callback,   \* the event handle_event has checked and not yet written
    inflight,   \* HTTP cancel/reconcile calls that have checked, not written
    sent,       \* how often each command was handed to the MQTT client
    offered,    \* producer sessions offered to boots of nodes (handshakes)
    due         \* executions whose expires_at has passed

ledger == <<state, request, created>>
durable == <<state, request, created, fence, epoch>>
environment == <<connected, overdue, due>>
vars == <<state, request, created, fence, epoch, core, overdue, nodes, gate,
          connected, sched, callback, inflight, sent, offered, due>>

NodeRecord == [boot : 0..MaxBoot, config : Config \cup {None},
               session : 0..MaxEpoch,
               availability : {"online", "offline"}]
Event == [id : Execution, node : Node, boot : 1..MaxBoot,
          session : 0..MaxEpoch,
          state : {"accepted", "rejected", "started", "completed", "failed",
                   "uncertain"}]
Resolution == [id : Execution, to : {"cancelled", "completed", "failed"}]

Scheduler == [pc : {"idle", "scan", "acquired", "dispatched"},
              scan : SUBSET Execution, id : Execution \cup {None},
              boot : 0..MaxBoot]
Idle == [pc |-> "idle", scan |-> {}, id |-> None, boot |-> 0]

TypeOK ==
    /\ state \in [Execution -> State]
    /\ request \in [Execution -> Requests \cup {None}]
    /\ \A e \in Execution :
          state[e] # "absent" => request[e] \in Requests /\ request[e].id = e
    /\ created \in [Execution -> Nat]
    /\ fence \in [Asset -> Nat]
    /\ epoch \in 1..MaxEpoch
    /\ core \in [epoch : 1..MaxCore, stale : BOOLEAN] \cup {None}
    /\ overdue \in BOOLEAN /\ connected \in BOOLEAN
    /\ overdue => core # None
    /\ nodes \in [Node -> NodeRecord \cup {None}]
    /\ gate \in [Gate -> Execution \cup {None}]
    /\ sched \in Scheduler
    /\ sched.pc \in {"acquired", "dispatched"} => sched.id \in Execution
    /\ \A e \in sched.scan : state[e] # "absent"
    /\ sched.id \in Execution => state[sched.id] # "absent"
    /\ callback \in Event \cup {None}
    /\ callback # None => state[callback.id] # "absent"
    /\ inflight \in SUBSET Resolution
    /\ \A r \in inflight : state[r.id] # "absent"
    /\ sent \in [Execution -> Nat]
    /\ offered \in SUBSET (Node \X (0..MaxBoot) \X (1..MaxEpoch))
    /\ due \in SUBSET Execution

----------------------------------------------------------------------------
(* Helpers *)

Rows == {e \in Execution : state[e] # "absent"}
Outstanding == {e \in Rows : state[e] \in NonTerminal}

(* _node_ready: availability alone never means ready. *)
NodeReady(n) ==
    /\ n \in Supported
    /\ nodes[n] # None
    /\ nodes[n].availability = "online"
    /\ nodes[n].boot # 0
    /\ nodes[n].config # None
    /\ nodes[n].session = epoch

(* Mutant: the servo and machine permits are not asked for. *)
EligiblePerNode(e) ==
    /\ NodeReady(request[e].node)
    /\ nodes[request[e].node].config = request[e].config
    /\ \A g \in Gates(request[e]) :
          g[2] = request[e].node => gate[g] = None

(* Mutant: nor is any other permit. *)
EligibleUngated(e) ==
    /\ NodeReady(request[e].node)
    /\ nodes[request[e].node].config = request[e].config

(* The checks of run_once on one queued execution. *)
Eligible(e) ==
    /\ NodeReady(request[e].node)
    /\ nodes[request[e].node].config = request[e].config
    /\ \A g \in Gates(request[e]) : gate[g] = None

(* The latest row, by created_at, of a set: what a loop in that order     *)
(* leaves in a variable every iteration assigns.                           *)
Latest(S) == CHOOSE e \in S : \A f \in S : created[f] <= created[e]

(* gate after every execution of S took (or retook) its permits, in order. *)
Taken(S, base) ==
    [g \in Gate |-> LET takers == {e \in S : g \in Gates(request[e])}
                    IN  IF takers = {} THEN base[g] ELSE Latest(takers)]

(* Mutant: only servo_execution and machine_execution are cleared. *)
ReleasedGlobalOnly(e) ==
    [g \in Gate |-> IF gate[g] = e /\ g \in Gates(request[e]) /\ g[2] = None
                    THEN None ELSE gate[g]]

(* _release: an execution gives back only the permits it still holds. *)
Released(e) == [g \in Gate |-> IF gate[g] = e /\ g \in Gates(request[e])
                               THEN None ELSE gate[g]]

(* repository.transition writes whatever state the row is in. *)
Transition(e, s) == state' = [state EXCEPT ![e] = s]

(* _uncertain: the row, then the permits its execution must keep. *)
Uncertain(e) ==
    /\ Transition(e, "uncertain")
    /\ gate' = Taken({e}, gate)

----------------------------------------------------------------------------
(* Initial state: an empty database, the process in its first lifetime. *)

Init ==
    /\ state = [e \in Execution |-> "absent"]
    /\ request = [e \in Execution |-> None]
    /\ created = [e \in Execution |-> 0]
    /\ fence = [a \in Asset |-> 0]
    /\ epoch = 1
    /\ core = None /\ overdue = FALSE
    /\ nodes = [n \in Node |-> None]
    /\ gate = [g \in Gate |-> None]
    /\ connected = FALSE
    /\ sched = Idle
    /\ callback = None
    /\ inflight = {}
    /\ sent = [e \in Execution |-> 0]
    /\ offered = {}
    /\ due = {}

(* What the constructor makes of a row: work that may have been dispatched *)
(* is uncertain.                                                           *)
Recovered(s) == IF s \in Active THEN "uncertain" ELSE s

(* The permits it takes back: those of uncertain servo and machine work.   *)
Reclaimed ==
    LET held == {e \in Execution : Recovered(state[e]) = "uncertain"}
    IN  [g \in Gate |-> IF g \in ActuatorGate
                        THEN Taken(held, [h \in Gate |-> None])[g] ELSE None]

(* The process dies and is started again; volatile state is gone. *)
Restart ==
    /\ epoch < MaxEpoch
    /\ epoch' = epoch + 1
    /\ state' = [e \in Execution |-> Recovered(state[e])]
    /\ gate' = Reclaimed
    /\ core' = None /\ overdue' = FALSE
    /\ nodes' = [n \in Node |-> None]
    /\ connected' = FALSE
    /\ sched' = Idle /\ callback' = None /\ inflight' = {}
    /\ UNCHANGED <<request, created, fence, sent, offered, due>>

----------------------------------------------------------------------------
(* Core session, heartbeat and watchdog *)

(* establish_core_session: a different session needs a higher epoch, but   *)
(* nothing of an earlier process is remembered.                            *)
EstablishCoreSession(c) ==
    /\ core # None => c >= core.epoch
    /\ core' = [epoch |-> c, stale |-> FALSE]
    /\ overdue' = FALSE
    /\ UNCHANGED <<durable, nodes, gate, connected, sched, callback, inflight,
                   sent, offered, due>>

(* heartbeat: a stale session recovers. *)
Heartbeat(c) ==
    /\ core # None /\ core.epoch = c
    /\ core' = [core EXCEPT !.stale = FALSE]
    /\ overdue' = FALSE
    /\ UNCHANGED <<durable, nodes, gate, connected, sched, callback, inflight,
                   sent, offered, due>>

(* check_watchdog, called by run_once and by every snapshot. *)
CheckWatchdog ==
    /\ overdue
    /\ core' = [core EXCEPT !.stale = TRUE]
    /\ overdue' = FALSE
    /\ UNCHANGED <<durable, nodes, gate, connected, sched, callback,
                   inflight, sent, offered, due>>

(* Mutant: the bound is reached one execution late. *)
HasCapacityInclusive == Cardinality(Outstanding) <= Capacity

HasCapacity == Cardinality(Outstanding) < Capacity

(* Mutant: the token is checked and never stored. *)
AdvancedFenceUnstored(r) == fence

(* check_and_advance_fence, for a token that is not below the stored one. *)
AdvancedFence(r) == [fence EXCEPT ![r.asset] = r.fence]

(* Mutant: only queued work of the asset conflicts. *)
ConflictQueued(r) ==
    \E e \in Outstanding \ {r.id} :
        request[e].asset = r.asset /\ state[e] = "queued"

(* Another execution of the asset has not ended. *)
Conflict(r) == \E e \in Outstanding \ {r.id} : request[e].asset = r.asset

(* Insertion finds the execution_id or the command_id in use: a replay, or *)
(* an identity reused with another payload.                                *)
Known(r) == \E e \in Rows : e = r.id \/ request[e].command = r.command

(* submit, under the service lock.  The fence is written before the        *)
(* conflict and identity checks, so a refused request still advances it.   *)
Submit(r) ==
    /\ core # None /\ core.epoch = r.core /\ ~core.stale
    /\ HasCapacity
    /\ r.fence >= fence[r.asset]
    /\ fence' = AdvancedFence(r)
    /\ IF Conflict(r) \/ Known(r)
       THEN UNCHANGED ledger
       ELSE /\ Transition(r.id, "queued")
            /\ request' = [request EXCEPT ![r.id] = r]
            /\ created' = [created EXCEPT ![r.id] = Cardinality(Rows) + 1]
    /\ UNCHANGED <<epoch, core, overdue, nodes, gate, connected, sched,
                   callback, inflight, sent, offered, due>>

----------------------------------------------------------------------------
(* run_once: the scheduler thread *)

(* The watchdog passes, the transport is up: the queued rows are listed.   *)
RunOnce ==
    /\ sched.pc = "idle"
    /\ core # None /\ ~core.stale /\ ~overdue /\ connected
    /\ sched' = [Idle EXCEPT !.pc = "scan",
                             !.scan = {e \in Execution : state[e] = "queued"}]
    /\ UNCHANGED <<durable, core, environment, nodes, gate, callback, inflight,
                   sent, offered>>

(* Nothing in the list could be dispatched. *)
ScanExhausted ==
    /\ sched.pc = "scan" /\ sched.scan = {}
    /\ sched' = Idle
    /\ UNCHANGED <<durable, core, environment, nodes, gate, callback, inflight,
                   sent, offered>>

(* The execution of the list that is next, whatever its row says by now.   *)
Considers(e) ==
    /\ sched.pc = "scan"
    /\ e \in sched.scan
    /\ \A f \in sched.scan : created[e] <= created[f]

ExpireQueued(e) ==
    /\ Considers(e)
    /\ e \in due
    /\ Transition(e, "expired")
    /\ sched' = [sched EXCEPT !.scan = @ \ {e}]
    /\ UNCHANGED <<request, created, fence, epoch, core, environment, nodes,
                   gate, callback, inflight, sent, offered>>

(* Mutant: the first execution that cannot be dispatched ends the scan. *)
SkipAbandonsScan(e) ==
    /\ Considers(e)
    /\ e \notin due /\ ~Eligible(e)
    /\ sched' = Idle
    /\ UNCHANGED <<durable, core, environment, nodes, gate, callback, inflight,
                   sent, offered>>

SkipIneligible(e) ==
    /\ Considers(e)
    /\ e \notin due /\ ~Eligible(e)
    /\ sched' = [sched EXCEPT !.scan = @ \ {e}]
    /\ UNCHANGED <<durable, core, environment, nodes, gate, callback, inflight,
                   sent, offered>>

(* The permits are taken and the command is addressed to the boot that     *)
(* the node's record names now.                                            *)
AcquireGates(e) ==
    /\ Considers(e)
    /\ e \notin due /\ Eligible(e)
    /\ gate' = Taken({e}, gate)
    /\ sched' = [pc |-> "acquired", scan |-> {}, id |-> e,
                 boot |-> nodes[request[e].node].boot]
    /\ UNCHANGED <<durable, core, environment, nodes, callback, inflight, sent,
                   offered>>

(* The row says "dispatched" before anything is published. *)
MarkDispatched ==
    /\ sched.pc = "acquired"
    /\ Transition(sched.id, "dispatched")
    /\ sched' = [sched EXCEPT !.pc = "dispatched"]
    /\ UNCHANGED <<request, created, fence, epoch, core, environment, nodes,
                   gate, callback, inflight, sent, offered>>

PublishCommand ==
    /\ sched.pc = "dispatched" /\ connected
    /\ sent' = [sent EXCEPT ![sched.id] = @ + 1]
    /\ sched' = Idle
    /\ UNCHANGED <<durable, core, environment, nodes, gate, callback, inflight,
                   offered>>

(* publish raised.  The client may have kept the QoS 1 message and deliver *)
(* it when it reconnects.                                                  *)
PublishFails ==
    /\ sched.pc = "dispatched"
    /\ Uncertain(sched.id)
    /\ \/ UNCHANGED sent
       \/ sent' = [sent EXCEPT ![sched.id] = @ + 1]
    /\ sched' = Idle
    /\ UNCHANGED <<request, created, fence, epoch, core, environment, nodes,
                   callback, inflight, offered>>

SchedulerStep ==
    \/ RunOnce
    \/ ScanExhausted
    \/ \E e \in Execution :
          ExpireQueued(e) \/ SkipIneligible(e) \/ AcquireGates(e)
    \/ MarkDispatched
    \/ PublishCommand
    \/ PublishFails

----------------------------------------------------------------------------
(* handle_mqtt: the MQTT client's thread *)

(* Mutant: late evidence ends an uncertain execution. *)
AllowedEventsLate(s) ==
    CASE s = "dispatched" -> {"accepted", "rejected", "failed"}
      [] s = "accepted" -> {"started", "failed"}
      [] s \in {"started", "uncertain"} -> {"completed", "failed", "uncertain"}
      [] OTHER -> {}

(* The events that may follow a state. *)
AllowedEvents(s) ==
    CASE s = "dispatched" -> {"accepted", "rejected", "failed"}
      [] s = "accepted" -> {"started", "failed"}
      [] s = "started" -> {"completed", "failed", "uncertain"}
      [] OTHER -> {}

(* handle_event up to its checks: node, boot and producer session must be  *)
(* the current ones, the event must be allowed by the row just read.       *)
TakeEvent(ev) ==
    /\ callback = None
    /\ state[ev.id] # "absent"
    /\ ev.node = request[ev.id].node
    /\ nodes[ev.node] # None /\ nodes[ev.node].boot = ev.boot
    /\ ev.session = epoch
    /\ ev.state \in AllowedEvents(state[ev.id])
    /\ callback' = ev
    /\ UNCHANGED <<durable, core, environment, nodes, gate, sched, inflight,
                   sent, offered>>

(* Assumed of a node: it reports only on commands it was sent. *)
HandleEvent(ev) == sent[ev.id] > 0 /\ TakeEvent(ev)

(* ... and its writes. *)
RecordEvent ==
    /\ callback # None
    /\ IF callback.state = "uncertain"
       THEN Uncertain(callback.id)
       ELSE /\ Transition(callback.id, callback.state)
            /\ gate' = IF callback.state \in Terminal
                       THEN Released(callback.id) ELSE gate
    /\ callback' = None
    /\ UNCHANGED <<request, created, fence, epoch, core, environment, nodes,
                   sched, inflight, sent, offered>>

(* The tail of update_node: the record is stored as seen now, and a node   *)
(* that is online without the current producer session is offered it.      *)
StoreNode(n, rec) ==
    /\ nodes' = [nodes EXCEPT ![n] = rec]
    /\ offered' = IF /\ connected /\ rec.availability = "online"
                     /\ rec.session # epoch
                  THEN offered \cup {<<n, rec.boot, epoch>>} ELSE offered

(* handle_mqtt "status": another boot than the stored one makes the node's *)
(* dispatched work uncertain.                                              *)
TakeStatus(n, b, c, s) ==
    LET rebooted == /\ nodes[n] # None /\ nodes[n].boot # 0
                    /\ nodes[n].boot # b
        lost == {e \in Outstanding : rebooted /\ request[e].node = n
                                               /\ state[e] # "queued"}
    IN
    /\ callback = None
    /\ state' = [e \in Execution |->
                    IF e \in lost THEN "uncertain" ELSE state[e]]
    /\ gate' = Taken(lost, gate)
    /\ StoreNode(n, [boot |-> b, config |-> c, session |-> s,
                     availability |-> "online"])
    /\ UNCHANGED <<request, created, fence, epoch, core, environment, sched,
                   callback, inflight, sent>>

(* Assumed of a node: it names only a session that its boot was offered.    *)
HandleStatus(n, b, c, s) ==
    (s # 0 => <<n, b, s>> \in offered) /\ TakeStatus(n, b, c, s)

(* handle_mqtt "availability": the message is merged into the stored       *)
(* record itself before update_node compares the boots, so they are equal. *)
(* The last will carries no boot_id (b = 0).                               *)
HandleAvailability(n, b, a) ==
    LET known == IF nodes[n] # None THEN nodes[n]
                 ELSE [boot |-> 0, config |-> None, session |-> 0,
                       availability |-> a]
    IN
    /\ callback = None
    /\ (a = "offline") = (b = 0)
    /\ StoreNode(n, [known EXCEPT !.boot = IF b # 0 THEN b ELSE @,
                                  !.availability = a])
    /\ UNCHANGED <<durable, core, environment, gate, sched, callback, inflight,
                   sent>>

----------------------------------------------------------------------------
(* The operator's endpoints: checked first, written later *)

Cancel(e) ==
    /\ Cardinality(inflight) < HttpCalls
    /\ state[e] = "queued"
    /\ inflight' = inflight \cup {[id |-> e, to |-> "cancelled"]}
    /\ UNCHANGED <<durable, core, environment, nodes, gate, sched, callback,
                   sent, offered>>

Reconcile(e, resolution) ==
    /\ Cardinality(inflight) < HttpCalls
    /\ state[e] = "uncertain"
    /\ inflight' = inflight \cup {[id |-> e, to |-> resolution]}
    /\ UNCHANGED <<durable, core, environment, nodes, gate, sched, callback,
                   sent, offered>>

(* The transition, and for reconcile the release that follows it. *)
Resolve(r) ==
    /\ r \in inflight
    /\ Transition(r.id, r.to)
    /\ gate' = IF r.to = "cancelled" THEN gate ELSE Released(r.id)
    /\ inflight' = inflight \ {r}
    /\ UNCHANGED <<request, created, fence, epoch, core, environment, nodes,
                   sched, callback, sent, offered>>

----------------------------------------------------------------------------
(* Environment: broker connection and time *)

Connect ==
    /\ ~connected /\ connected' = TRUE
    /\ UNCHANGED <<durable, core, overdue, due, nodes, gate, sched, callback,
                   inflight, sent, offered>>

Disconnect ==
    /\ connected /\ connected' = FALSE
    /\ UNCHANGED <<durable, core, overdue, due, nodes, gate, sched, callback,
                   inflight, sent, offered>>

(* expires_at matters only to the scheduler. *)
DeadlinePasses(e) ==
    /\ e \in Expiring \ due
    /\ state[e] = "queued" \/ e \in sched.scan
    /\ due' = due \cup {e}
    /\ UNCHANGED <<durable, core, overdue, connected, nodes, gate, sched,
                   callback, inflight, sent, offered>>

HeartbeatLapses ==
    /\ core # None /\ ~core.stale /\ ~overdue
    /\ overdue' = TRUE
    /\ UNCHANGED <<durable, core, due, connected, nodes, gate, sched, callback,
                   inflight, sent, offered>>

(* More than node_timeout since the node's last message: _node_ready is    *)
(* FALSE from now on, and _refresh_nodes writes "stale" in the record,     *)
(* which nothing tells apart from "offline".                               *)
NodeFallsSilent(n) ==
    /\ nodes[n] # None /\ nodes[n].availability = "online"
    /\ nodes' = [nodes EXCEPT ![n].availability = "offline"]
    /\ UNCHANGED <<durable, core, environment, gate, sched, callback, inflight,
                   sent, offered>>

----------------------------------------------------------------------------

CoreStep ==
    \/ \E c \in 1..MaxCore : EstablishCoreSession(c) \/ Heartbeat(c)
    \/ \E r \in Requests : Submit(r)

MqttStep ==
    \/ \E ev \in Event : HandleEvent(ev)
    \/ RecordEvent
    \/ \E n \in Node, b \in 1..MaxBoot, c \in Config, s \in 0..epoch :
          HandleStatus(n, b, c, s)
    \/ \E n \in Node, b \in 0..MaxBoot, a \in {"online", "offline"} :
          HandleAvailability(n, b, a)

OperatorStep ==
    \/ \E e \in Execution :
          \/ Cancel(e)
          \/ \E resolution \in {"completed", "failed"} :
                Reconcile(e, resolution)
    \/ \E r \in inflight : Resolve(r)

EnvironmentStep ==
    \/ Connect \/ Disconnect \/ HeartbeatLapses
    \/ \E e \in Execution : DeadlinePasses(e)
    \/ \E n \in Node : NodeFallsSilent(n)

ServiceStep ==
    \/ CoreStep \/ SchedulerStep \/ MqttStep \/ CheckWatchdog
    \/ EnvironmentStep \/ Restart

Next == ServiceStep \/ OperatorStep

Spec == Init /\ [][Next]_vars

(* What Core drives: its McClient has no call for cancel or reconcile. *)
CoreSpec == Init /\ [][ServiceStep]_vars

(* The scheduler thread polls for ever; nothing else is sure to happen. *)
FairCoreSpec == CoreSpec /\ WF_vars(SchedulerStep)

----------------------------------------------------------------------------
(* Properties *)

(* Dispatched and not known to have ended: the node may be moving. *)
Live == Active \cup {"uncertain"}

(* No two executions that may be moving need the same servo, machine or    *)
(* per-node actuator permit: _release, _uncertain, the restart and          *)
(* run_once hand the permits on one at a time, whatever the races between   *)
(* the scheduler, the MQTT thread and the operator's calls.                 *)
ActuatorExclusion ==
    \A e, f \in Execution :
        (e # f /\ state[e] \in Live /\ state[f] \in Live) =>
            Gates(request[e]) \cap Gates(request[f]) \cap ActuatorGate = {}

(* A command is handed to the MQTT client at most once, over crashes       *)
(* between any two steps of run_once, lost evidence and cancelled rows.     *)
PublishedOnce == \A e \in Execution : sent[e] <= 1

(* Why actuators exclude each other, as an inductive invariant.            *)
(* - Live work holds its permits.                                          *)
(* - What run_once is about to dispatch was never published, is still      *)
(*   queued (or was cancelled meanwhile) and nobody is reconciling it;     *)
(*   once it has its permits it keeps them until the row says dispatched.  *)
(* - Between dispatch and publish nobody else can take those permits.      *)
(* - An event that passed its checks speaks of published work that still   *)
(*   holds its permits and that nobody is reconciling.                     *)
(* - A reconciliation under way is of work that left the active states.    *)
Permits(e) == Gates(request[e]) \cap ActuatorGate
Holds(e) == \A g \in Permits(e) : gate[g] = e
Unreconciled(e) == \A r \in inflight : r.id = e => r.to = "cancelled"
Dispatchable(e) ==
    sent[e] = 0 /\ state[e] \in {"queued", "cancelled"} /\ Unreconciled(e)

PermitInvariant ==
    /\ PublishedOnce
    /\ \A e \in Execution :
          /\ state[e] \in {"absent", "queued"} => sent[e] = 0
          /\ state[e] \in Live => Holds(e)
    /\ sched.pc = "scan" => \A e \in sched.scan : Dispatchable(e)
    /\ sched.pc = "acquired" => Dispatchable(sched.id) /\ Holds(sched.id)
    /\ sched.pc = "dispatched" =>
          /\ sent[sched.id] = 0
          /\ state[sched.id] # "queued"
          /\ \A g \in Permits(sched.id) : gate[g] \in {sched.id, None}
    /\ callback # None =>
          /\ sent[callback.id] > 0
          /\ state[callback.id] \in Active \cup {"cancelled"}
          /\ Holds(callback.id) /\ Unreconciled(callback.id)
    /\ \A r \in inflight :
          r.to # "cancelled" => state[r.id] \in {"uncertain"} \cup Terminal

(* The commands admitted for one asset carry fencing tokens that never go  *)
(* down, whichever Core session submits them and across restarts.          *)
AdmissionFenced ==
    \A e, f \in Rows :
        (request[e].asset = request[f].asset /\ created[e] < created[f]) =>
            request[e].fence <= request[f].fence

(* Its inductive form: rows are numbered in the order of their insertion   *)
(* and no row carries a token above its asset's stored fence.              *)
AdmissionInvariant ==
    /\ AdmissionFenced
    /\ \A e \in Execution : created[e] <= Cardinality(Rows)
    /\ \A e \in Rows : request[e].fence <= fence[request[e].asset]

(* One asset has at most one non-terminal execution (submit's conflict     *)
(* check against rows that other threads keep changing).                    *)
OneOutstandingPerAsset ==
    \A e, f \in Outstanding :
        request[e].asset = request[f].asset => e = f

(* The non-terminal executions never outnumber the capacity that submit    *)
(* checks: no later step of any thread brings a terminal row back.         *)
CapacityRespected == Cardinality(Outstanding) <= Capacity

(* A permit is held only by an execution that may still be moving, or by   *)
(* the one run_once is about to dispatch: no path leaks a permit, which     *)
(* would stop every later servo of the layout.                              *)
PermitBacked ==
    \A g \in Gate : gate[g] # None =>
        \/ state[gate[g]] \in Live
        \/ sched.pc = "acquired" /\ sched.id = gate[g]

(* Every row follows the documented life cycle and a terminal row is       *)
(* final: the event, reboot, restart and publish-failure paths, each of    *)
(* which writes a state it read earlier, never cross.                       *)
LifeCycle ==
    {<<"absent", "queued">>, <<"queued", "dispatched">>,
     <<"queued", "expired">>, <<"dispatched", "accepted">>,
     <<"dispatched", "rejected">>, <<"dispatched", "failed">>,
     <<"accepted", "started">>, <<"accepted", "failed">>,
     <<"started", "completed">>, <<"started", "failed">>}
    \cup (Active \X {"uncertain"})
FollowsLifeCycle ==
    [][\A e \in Execution : state'[e] # state[e] =>
          <<state[e], state'[e]>> \in LifeCycle]_vars

(* A queued execution whose deadline has passed leaves the queue, however  *)
(* long the executions before it stay blocked, provided the broker and the *)
(* Core heartbeat are eventually up for good.                               *)
DueLeavesQueue ==
    <>[](connected /\ core # None /\ ~core.stale /\ ~overdue) =>
        \A e \in Execution :
            (state[e] = "queued" /\ e \in due) ~> (state[e] # "queued")

----------------------------------------------------------------------------
(* What the documentation promises and the code does not keep *)

(* "cancelled" is possible only before dispatch. *)
CancelledBeforeDispatch ==
    [][\A e \in Execution :
          (state'[e] = "cancelled" /\ state[e] # "cancelled") =>
              state[e] = "queued"]_vars

(* When the boot of a node's record changes, what was dispatched to the    *)
(* node becomes uncertain in the same step.                                 *)
RebootMakesUncertain ==
    [][\A e \in Execution :
          LET n == request[e].node IN
          (/\ state[e] \in Active
           /\ nodes[n] # None /\ nodes[n].boot # 0
           /\ nodes'[n] # None /\ nodes'[n].boot # nodes[n].boot)
              => state'[e] = "uncertain"]_vars

(* At most one signal execution per node may be in progress. *)
SignalExclusion ==
    \A e, f \in Execution :
        (e # f /\ state[e] \in Live /\ state[f] \in Live) =>
            Gates(request[e]) \cap Gates(request[f]) \cap SignalGate = {}

(* Work is admitted from Core sessions of non-decreasing epochs. *)
AdmittedByEpoch ==
    \A e, f \in Rows :
        created[e] < created[f] => request[e].core <= request[f].core
=============================================================================
