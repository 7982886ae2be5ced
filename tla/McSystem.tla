------------------------------ MODULE McSystem ------------------------------
(***************************************************************************)
(* McService and the firmware of its nodes (EspNode), joined by an MQTT     *)
(* broker that may lose, delay, repeat and reorder what it carries.         *)
(*                                                                         *)
(* Every variable of McService keeps its meaning; its assumptions about the *)
(* nodes are dropped (TakeEvent and TakeStatus take whatever the nodes      *)
(* published) and become a consequence of the firmware: each step is one of *)
(* McService's or leaves its variables alone (CoreSpec).                    *)
(*                                                                         *)
(* MC's QoS 1 commands reach a node at least once.  copies counts how often *)
(* a command was handled, and a second copy is a fault, as are a broken     *)
(* connection, a missed heartbeat, a silent node, a last will, a crash of   *)
(* MC and a reboot of a node.  A scenario bounds a behaviour: what Core may *)
(* submit and how many faults of each kind there are.                       *)
(***************************************************************************)
EXTENDS McService

CONSTANTS
    DoubleSlip, \* the turnouts with two servos
    DedupSize,  \* entries of a node's deduplication table (64 in the code)
    Installed,  \* the configuration revision each node was built with
    Scenarios   \* bound: the work and the faults of a behaviour

FaultKind == {"repeat", "reboot", "restart", "broker", "heartbeat", "silence",
              "will", "deadline"}
Scenario == [work : SUBSET Requests, faults : [FaultKind -> Nat]]

ASSUME DedupAssumption == DedupSize \in Nat \ {0}
ASSUME InstalledAssumption == Installed \in [Node -> Config]
ASSUME ScenariosAssumption == Scenarios \subseteq Scenario
ASSUME OutcomeAssumption == None \notin {"completed", "failed"}

VARIABLES boot, producer, runner, job, servoIndex, executionId, dedup, late,
          events, status, finished

VARIABLES
    commands,  \* the commands MC handed to its MQTT client
    copies,    \* how often each was handled by its node
    disturbed, \* executions that ran when their node handled a command
    work,      \* the requests Core may submit
    faults     \* the faults that are left

Firmware == INSTANCE EspNode WITH Request <- Requests

delivery == <<commands, copies, disturbed>>
nodeSide == <<boot, producer, runner, job, servoIndex, executionId, dedup,
              late, events, status, finished>>
systemVars == <<vars, nodeSide, delivery, work, faults>>

SystemTypeOK ==
    /\ TypeOK
    /\ Firmware!NodeTypeOK
    /\ commands \in SUBSET Firmware!Message
    /\ copies \in [Execution -> Nat]
    /\ disturbed \in SUBSET Execution
    /\ work \in SUBSET Requests
    /\ faults \in [FaultKind -> Nat]

SystemInit ==
    /\ Init
    /\ Firmware!Init
    /\ commands = {} /\ copies = [e \in Execution |-> 0]
    /\ disturbed = {}
    /\ \E s \in Scenarios : work = s.work /\ faults = s.faults

Fault(kind) ==
    /\ faults[kind] > 0
    /\ faults' = [faults EXCEPT ![kind] = @ - 1]
NoFault == UNCHANGED faults

----------------------------------------------------------------------------
(* MC's steps *)

(* What run_once publishes names the boot it read from the node's record.  *)
Publish ==
    /\ PublishCommand \/ PublishFails
    /\ commands' =
          IF sent' = sent THEN commands
          ELSE commands \cup {[request |-> request[sched.id],
                               boot |-> sched.boot, session |-> epoch]}
    /\ NoFault /\ UNCHANGED <<nodeSide, copies, disturbed>>

Schedule ==
    \/ RunOnce \/ ScanExhausted \/ MarkDispatched
    \/ \E e \in Execution :
          ExpireQueued(e) \/ SkipIneligible(e) \/ AcquireGates(e)

(* The MQTT thread takes something that a node published. *)
ReceiveEvent == \E ev \in events : TakeEvent(ev)
Heard == {n \in Node : status[n] # None}
ReceiveStatus ==
    \E n \in Heard :
        TakeStatus(n, status[n].boot, Installed[n], status[n].session)
ReceiveAvailability ==
    \E n \in Heard : HandleAvailability(n, status[n].boot, "online")
ReceiveWill ==
    \E n \in Heard : HandleAvailability(n, 0, "offline")

CoreRuns ==
    \/ \E c \in 1..MaxCore : EstablishCoreSession(c) \/ Heartbeat(c)
    \/ \E r \in work : Submit(r)

McRuns ==
    /\ \/ CoreRuns \/ Schedule \/ CheckWatchdog \/ Connect
       \/ ReceiveEvent \/ RecordEvent \/ ReceiveStatus \/ ReceiveAvailability
    /\ NoFault /\ UNCHANGED <<nodeSide, delivery>>

McFails ==
    /\ \/ Restart /\ Fault("restart")
       \/ Disconnect /\ Fault("broker")
       \/ HeartbeatLapses /\ Fault("heartbeat")
       \/ ReceiveWill /\ Fault("will")
       \/ \E n \in Node : NodeFallsSilent(n) /\ Fault("silence")
       \/ \E e \in Execution : DeadlinePasses(e) /\ Fault("deadline")
    /\ UNCHANGED <<nodeSide, delivery>>

----------------------------------------------------------------------------
(* The nodes' steps *)

(* A node handles a command of its topic, for the first time or again. *)
HandleCommand(c) ==
    LET e == c.request.id
        n == c.request.node
    IN
    /\ Firmware!AcceptCommand(n, c)
    /\ copies' = [copies EXCEPT ![e] = @ + 1]
    /\ disturbed' = IF job[n] = None THEN disturbed
                    ELSE disturbed \cup {job[n].id}
    /\ IF copies[e] = 0 THEN NoFault ELSE Fault("repeat")
    /\ UNCHANGED <<vars, commands>>

(* Bound: only nodes that work is addressed to are connected. *)
Connected == {r.node : r \in work}

HandleSession ==
    \E o \in offered : Firmware!TakeSession(o[1], o[2], o[3])

NodeRuns ==
    /\ \/ HandleSession
       \/ \E n \in Connected : Firmware!PublishStatus(n)
       \/ \E n \in Node : Firmware!RunnerStep(n)
       \/ \E n \in Node, e \in Execution : Firmware!Forget(n, e)
    /\ NoFault /\ UNCHANGED <<vars, delivery>>

NodeFails ==
    /\ \/ \E n \in Node : Firmware!Reboot(n) /\ Fault("reboot")
       \/ \E e \in Execution :
             Firmware!DeadlinePassed(e) /\ Fault("deadline")
    /\ UNCHANGED <<vars, delivery>>

----------------------------------------------------------------------------

SystemNext ==
    /\ \/ Publish \/ McRuns \/ McFails
       \/ \E c \in commands : HandleCommand(c)
       \/ NodeRuns \/ NodeFails
    /\ UNCHANGED work

SystemSpec == SystemInit /\ [][SystemNext]_systemVars

(* As in FairCoreSpec: the scheduler thread polls for ever. *)
Poll == (Publish \/ (Schedule /\ NoFault /\ UNCHANGED <<nodeSide, delivery>>))
        /\ UNCHANGED work
FairSystemSpec == SystemSpec /\ WF_systemVars(Poll)

----------------------------------------------------------------------------
(* Properties *)

(* The firmware keeps what McService assumes of its nodes: they report only *)
(* on commands they were sent and name only sessions their boot was         *)
(* offered.  So every behaviour of the system is one of McService, and all  *)
(* that holds there holds here.                                             *)
ServiceImplemented == CoreSpec

Repeated(e) == copies[e] > 1

(* What the ledger calls ended has ended: no node still moves the outputs   *)
(* of an execution in a terminal state, although events are lost or come    *)
(* late, nodes and MC start again and deadlines pass on two clocks.  Only a *)
(* second copy of the command breaks this: acceptCommand answers "busy"     *)
(* for the very execution that runs.                                        *)
ReleasedAtRest ==
    \A n \in Node :
        (job[n] # None /\ state[job[n].id] \in Terminal) => Repeated(job[n].id)

(* The promise of the permits, where it matters: the outputs of no two      *)
(* nodes that need the same servo or machine permit move together, unless   *)
(* a command reached its node twice.                                        *)
MotionExclusive ==
    \A m, n \in Node :
        (/\ m # n /\ job[m] # None /\ job[n] # None
         /\ job[m].resources \cap job[n].resources # {})
            => Repeated(job[m].id) \/ Repeated(job[n].id)

(* "completed" in the ledger means that a node ran the output sequence of   *)
(* the execution to its end, whatever happened to the messages.             *)
CompletedTruthful == \A e \in Execution : state[e] = "completed" => e \in finished

(* No copy of a command starts its outputs a second time (deduplication,    *)
(* the deadline and the boot and session of the command together see to     *)
(* it), unless a command arrived while they ran: acceptCommand then cleared *)
(* the executionId under which the result is remembered.                    *)
RanOnce ==
    [][\A n \in Node : (job[n] = None /\ job'[n] # None) =>
          LET e == job'[n].id IN
          (\E ev \in events : ev.id = e /\ ev.state = "accepted")
              => e \in disturbed]_systemVars
=============================================================================
