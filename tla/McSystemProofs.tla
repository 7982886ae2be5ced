--------------------------- MODULE McSystemProofs ---------------------------
(***************************************************************************)
(* Proofs about McSystem, for every set of nodes, requests and executions, *)
(* every scenario of work and faults and every bound: the firmware keeps    *)
(* what McService assumes of it, what MC calls ended is at rest, permits   *)
(* keep outputs apart, "completed" is true and a command runs once.         *)
(***************************************************************************)
EXTENDS McSystem, McServiceProofs

(* What is known of MC's own state. *)
ServiceInvariant == TypeOK /\ PermitInvariant /\ OrderInvariant

(* MC offers only its own sessions, nodes use only what their boot was     *)
(* offered, and so do their messages.                                      *)
SessionsOffered ==
    /\ \A o \in offered : o[3] \in 1..epoch
    /\ \A n \in Node :
          producer[n] # 0 => <<n, boot[n], producer[n]>> \in offered
    /\ \A n \in Node :
          (status[n] # None /\ status[n].session # 0)
              => <<n, status[n].boot, status[n].session>> \in offered

(* Whatever a node does or says about an execution goes back to a command  *)
(* that MC has published to that node.                                     *)
WorkSent ==
    /\ \A c \in commands :
          c.request = request[c.request.id] /\ sent[c.request.id] > 0
    /\ \A e \in Execution : copies[e] > 0 => sent[e] > 0
    /\ \A n \in Node : job[n] # None =>
          /\ job[n] = request[job[n].id] /\ job[n].node = n
          /\ copies[job[n].id] > 0
    /\ \A n \in Node : executionId[n] # None =>
          job[n] # None /\ executionId[n] = job[n].id
    /\ \A n \in Node, e \in Execution : dedup[n][e] # None =>
          copies[e] > 0 /\ request[e].node = n
    /\ \A ev \in events :
          copies[ev.id] > 0 /\ ev.node = request[ev.id].node

----------------------------------------------------------------------------
(* MC's steps *)

LEMMA ServiceKept ==
    ASSUME ServiceInvariant, [ServiceStep]_vars
    PROVE  ServiceInvariant' /\ Legal
BY ServiceTypes, OrderStep DEF ServiceInvariant

(* MC never takes back what it has stored, published or offered. *)
LEMMA ServiceGrows ==
    ASSUME ServiceInvariant, [ServiceStep]_vars
    PROVE  /\ \A e \in Execution : /\ sent'[e] >= sent[e]
                                   /\ sent[e] > 0 => request'[e] = request[e]
           /\ offered \subseteq offered' /\ epoch' >= epoch
           /\ \A o \in offered' \ offered : o[3] = epoch
<1> USE DEF ServiceInvariant
<1>1. \A e \in Execution : sent[e] > 0 => request'[e] = request[e]
  <2>1. CASE \A r \in Requests : ~Submit(r)
    <3>1. [Next]_vars
      BY DEF Next
    <3> QED BY <2>1, <3>1, RowsKept DEF AdmissionColumns
  <2>2. ASSUME NEW r \in Requests, Submit(r)
        PROVE  \A e \in Execution : sent[e] > 0 => request'[e] = request[e]
    <3>1. \A e \in Execution : sent[e] > 0 => state[e] # "absent"
      BY DEF PermitInvariant, TypeOK
    <3>2. UNCHANGED request \/ (/\ state[r.id] = "absent"
                                /\ request' = [request EXCEPT ![r.id] = r])
      BY <2>2, RequestsAssumption DEF Submit, Known, Rows, ledger, Request
    <3> QED BY <3>1, <3>2 DEF TypeOK
  <2> QED BY <2>1, <2>2
<1>2. \A e \in Execution : sent'[e] >= sent[e]
  <2>1. CASE PublishCommand \/ PublishFails
    <3>1. sched.id \in Execution
      BY <2>1 DEF PublishCommand, PublishFails, TypeOK
    <3> QED BY <2>1, <3>1 DEF PublishCommand, PublishFails, TypeOK
  <2>2. CASE ~(PublishCommand \/ PublishFails)
    <3>1. UNCHANGED sent
      BY <2>2
      DEF ServiceStep, CoreStep, SchedulerStep, MqttStep, EnvironmentStep,
          CheckWatchdog, Restart, EstablishCoreSession, Heartbeat, Submit,
          RunOnce, ScanExhausted, ExpireQueued, SkipIneligible, AcquireGates,
          MarkDispatched, HandleEvent, TakeEvent, RecordEvent, HandleStatus,
          TakeStatus, HandleAvailability, Connect, Disconnect, DeadlinePasses,
          HeartbeatLapses, NodeFallsSilent, vars
    <3> QED BY <3>1 DEF TypeOK
  <2> QED BY <2>1, <2>2
<1>3. /\ offered \subseteq offered' /\ epoch' >= epoch
      /\ \A o \in offered' \ offered : o[3] = epoch
  <2>1. ASSUME NEW n \in Node, NEW rec, StoreNode(n, rec), UNCHANGED epoch
        PROVE  <1>3
    BY <2>1 DEF StoreNode, TypeOK
  <2>2. CASE UNCHANGED <<offered, epoch>>
    BY <2>2 DEF TypeOK
  <2>3. CASE Restart
    BY <2>3 DEF Restart, TypeOK
  <2>4. CASE MqttStep
    BY <2>1, <2>2, <2>4
    DEF MqttStep, HandleEvent, TakeEvent, RecordEvent, HandleStatus,
        TakeStatus, HandleAvailability, durable
  <2>5. CASE ~MqttStep /\ ~Restart
    <3>1. UNCHANGED <<offered, epoch>>
      BY <2>5
      DEF ServiceStep, CoreStep, SchedulerStep, EnvironmentStep,
          CheckWatchdog, EstablishCoreSession, Heartbeat, Submit,
          RunOnce, ScanExhausted, ExpireQueued, SkipIneligible, AcquireGates,
          MarkDispatched, PublishCommand, PublishFails, Connect, Disconnect,
          DeadlinePasses, HeartbeatLapses, NodeFallsSilent, vars, durable
    <3> QED BY <2>2, <3>1
  <2> QED BY <2>3, <2>4, <2>5
<1> QED BY <1>1, <1>2, <1>3

WireInvariant ==
    SystemTypeOK /\ PermitInvariant /\ OrderInvariant /\ SessionsOffered /\ WorkSent

(* What nodes put on the wire is what McService assumes of them. *)
LEMMA HeardIsAssumed ==
    ASSUME WireInvariant, ReceiveEvent \/ ReceiveStatus \/ ReceiveAvailability
                          \/ ReceiveWill
    PROVE  ServiceStep
<1> USE DEF WireInvariant
<1>1. ASSUME NEW ev \in events, TakeEvent(ev)
      PROVE  MqttStep
  <2>1. ev \in Firmware!Event /\ ev.session = epoch
    BY <1>1 DEF SystemTypeOK, Firmware!NodeTypeOK, TakeEvent
  <2>2. ev \in Event
    BY <2>1 DEF Firmware!Event, Firmware!Report, Firmware!Outcome, Event,
                SystemTypeOK, TypeOK
  <2>3. HandleEvent(ev)
    BY <1>1, <2>2 DEF HandleEvent, WorkSent, Event
  <2> QED BY <2>2, <2>3 DEF MqttStep
<1>2. ASSUME NEW n \in Heard,
             TakeStatus(n, status[n].boot, Installed[n], status[n].session)
      PROVE  MqttStep
  <2>1. /\ n \in Node /\ status[n] # None
        /\ status[n].boot \in 1..MaxBoot /\ status[n].session \in Nat
    BY DEF Heard, SystemTypeOK, Firmware!NodeTypeOK, Firmware!Status
  <2>2. /\ status[n].session \in 0..epoch
        /\ status[n].session # 0
              => <<n, status[n].boot, status[n].session>> \in offered
    BY <2>1 DEF SessionsOffered, SystemTypeOK, TypeOK
  <2>3. HandleStatus(n, status[n].boot, Installed[n], status[n].session)
    BY <1>2, <2>2 DEF HandleStatus
  <2> QED BY <2>1, <2>2, <2>3, InstalledAssumption DEF MqttStep
<1>3. ASSUME NEW n \in Heard,
             \/ HandleAvailability(n, status[n].boot, "online")
             \/ HandleAvailability(n, 0, "offline")
      PROVE  MqttStep
  <2>1. n \in Node /\ status[n].boot \in 0..MaxBoot /\ 0 \in 0..MaxBoot
    BY BoundsAssumption
    DEF Heard, SystemTypeOK, Firmware!NodeTypeOK, Firmware!Status
  <2> QED BY <1>3, <2>1 DEF MqttStep
<1> QED BY <1>1, <1>2, <1>3
        DEF ReceiveEvent, ReceiveStatus, ReceiveAvailability, ReceiveWill,
            ServiceStep

(* A step of MC in the system is one of McService. *)
LEMMA McSteps ==
    ASSUME WireInvariant, Publish \/ McRuns \/ McFails
    PROVE  ServiceStep /\ UNCHANGED <<nodeSide, copies, disturbed>>
<1>1. CASE Publish
  BY <1>1 DEF Publish, ServiceStep, SchedulerStep
<1>2. CASE McRuns
  <2>1. ASSUME NEW r \in work, Submit(r)
        PROVE  CoreStep
    BY <2>1 DEF CoreStep, WireInvariant, SystemTypeOK
  <2>2. CoreRuns => CoreStep
    BY <2>1 DEF CoreRuns, CoreStep
  <2>3. Schedule => SchedulerStep
    BY DEF Schedule, SchedulerStep
  <2> QED BY <1>2, <2>2, <2>3, HeardIsAssumed
          DEF McRuns, ServiceStep, EnvironmentStep, MqttStep, delivery
<1>3. CASE McFails
  BY <1>3, HeardIsAssumed DEF McFails, ServiceStep, EnvironmentStep, delivery
<1> QED BY <1>1, <1>2, <1>3

(* The command that run_once publishes. *)
LEMMA PublishedCommand ==
    ASSUME WireInvariant, Publish, commands' # commands
    PROVE  LET c == [request |-> request[sched.id], boot |-> sched.boot,
                     session |-> epoch]
           IN  /\ commands' = commands \cup {c} /\ c \in Firmware!Message
               /\ c.request.id = sched.id /\ sched.id \in Execution
               /\ sent[sched.id] = 0 /\ sent'[sched.id] = 1
               /\ UNCHANGED request
<1> USE DEF WireInvariant, SystemTypeOK
<1>1. sched.pc = "dispatched" /\ sched.id \in Execution /\ sched \in Scheduler
  BY DEF Publish, PublishCommand, PublishFails, TypeOK
<1>2. request[sched.id] \in Requests /\ request[sched.id].id = sched.id
  BY <1>1 DEF TypeOK
<1>3. sent[sched.id] = 0
  BY <1>1 DEF PermitInvariant
<1>4. sent' = [sent EXCEPT ![sched.id] = @ + 1]
  BY DEF Publish, PublishCommand, PublishFails
<1>5. epoch \in Nat /\ sched.boot \in Nat
  BY <1>1, BoundsAssumption DEF TypeOK, Scheduler
<1> QED BY <1>1, <1>2, <1>3, <1>4, <1>5
        DEF Publish, Firmware!Message, TypeOK, PublishCommand, PublishFails,
            durable

LEMMA McKeepsWire ==
    ASSUME WireInvariant, Publish \/ McRuns \/ McFails, UNCHANGED work
    PROVE  WireInvariant'
<1> USE DEF WireInvariant
<1>1. /\ [ServiceStep]_vars /\ UNCHANGED <<nodeSide, copies, disturbed>>
      /\ ServiceInvariant /\ ServiceInvariant'
  BY McSteps, ServiceKept DEF ServiceInvariant, SystemTypeOK
<1>2. /\ \A e \in Execution : /\ sent'[e] >= sent[e]
                              /\ sent[e] > 0 => request'[e] = request[e]
      /\ offered \subseteq offered' /\ epoch' >= epoch
      /\ \A o \in offered' \ offered : o[3] = epoch
  BY <1>1, ServiceGrows
<1>3. SystemTypeOK'
  <2>1. faults' \in [FaultKind -> Nat]
    <3>1. ASSUME NEW k, Fault(k) \/ NoFault
          PROVE  faults' \in [FaultKind -> Nat]
      BY <3>1 DEF Fault, NoFault, SystemTypeOK
    <3> QED BY <3>1 DEF Publish, McRuns, McFails
  <2>2. commands' \in SUBSET Firmware!Message
    BY PublishedCommand DEF McRuns, McFails, delivery, SystemTypeOK
  <2>3. Firmware!NodeTypeOK'
    BY <1>1 DEF nodeSide, SystemTypeOK, Firmware!NodeTypeOK
  <2> QED BY <1>1, <2>1, <2>2, <2>3 DEF SystemTypeOK, ServiceInvariant
<1>4. SessionsOffered'
  BY <1>1, <1>2 DEF SessionsOffered, nodeSide, ServiceInvariant, TypeOK
<1>5. WorkSent'
  <2>1. \A e \in Execution : sent[e] > 0 => sent'[e] > 0
    BY <1>1, <1>2 DEF ServiceInvariant, TypeOK
  <2>2. \A c \in commands' :
           c.request = request'[c.request.id] /\ sent'[c.request.id] > 0
    <3>1. \A c \in commands : c.request.id \in Execution
      BY RequestsAssumption DEF SystemTypeOK, Firmware!Message, Request
    <3> QED BY <1>2, <2>1, <3>1, PublishedCommand
            DEF WorkSent, McRuns, McFails, delivery
  <2>3. \A n \in Node : job[n] # None => job[n].id \in Execution
    BY RequestsAssumption DEF SystemTypeOK, Firmware!NodeTypeOK, Request
  <2>4. \A ev \in events : ev.id \in Execution
    BY DEF SystemTypeOK, Firmware!NodeTypeOK, Firmware!Event
  <2> QED BY <1>1, <1>2, <2>1, <2>2, <2>3, <2>4 DEF WorkSent, nodeSide
<1> QED BY <1>1, <1>3, <1>4, <1>5 DEF ServiceInvariant

----------------------------------------------------------------------------
(* The nodes' steps keep the types *)

USE DEF Firmware!wire, Firmware!memory

LEMMA ReportsType ==
    ASSUME Firmware!NodeTypeOK, NEW n \in Node,
           NEW e \in Execution \cup {None}, NEW states \in SUBSET Firmware!Report
    PROVE  Firmware!Reports(n, e, states) \subseteq Firmware!Event
BY DEF Firmware!NodeTypeOK, Firmware!Reports, Firmware!Event

LEMMA MessageType ==
    ASSUME NEW c \in Firmware!Message
    PROVE  /\ c.request \in Requests /\ c.request # None
           /\ c.request.id \in Execution /\ c.request.id # None
           /\ c.request.node \in Node
BY RequestsAssumption, NoneAssumption DEF Firmware!Message, Request

LEMMA ReplyType ==
    ASSUME Firmware!NodeTypeOK, NEW n \in Node, NEW e \in Execution,
           NEW s \in Firmware!Report, Firmware!Reply(n, e, s)
    PROVE  Firmware!NodeTypeOK'
<1>1. events' \in SUBSET Firmware!Event
  BY ReportsType DEF Firmware!Reply, Firmware!NodeTypeOK
<1>2. executionId' \in [Node -> Execution \cup {None}]
  BY DEF Firmware!Reply, Firmware!NodeTypeOK
<1> QED BY <1>1, <1>2 DEF Firmware!Reply, Firmware!NodeTypeOK

LEMMA RememberedType ==
    ASSUME Firmware!NodeTypeOK, NEW n \in Node,
           NEW e \in Execution \cup {None}, NEW s \in Firmware!Outcome
    PROVE  /\ Firmware!Remembered(n, e, s)
                 \in [Node -> [Execution -> Firmware!Outcome \cup {None}]]
           /\ \A m \in Node, f \in Execution :
                 Firmware!Remembered(n, e, s)[m][f]
                    = IF m = n /\ f = e THEN s ELSE dedup[m][f]
BY NoneAssumption DEF Firmware!NodeTypeOK, Firmware!Remembered

LEMMA FinishType ==
    ASSUME Firmware!NodeTypeOK, NEW n \in Node, NEW s \in Firmware!Outcome,
           Firmware!Finish(n, s), finished' \in SUBSET Execution
    PROVE  Firmware!NodeTypeOK'
<1>1. executionId[n] \in Execution \cup {None}
  BY DEF Firmware!NodeTypeOK
<1>2. events' \in SUBSET Firmware!Event
  BY <1>1, ReportsType DEF Firmware!Finish, Firmware!NodeTypeOK, Firmware!Report
<1>3. dedup' \in [Node -> [Execution -> Firmware!Outcome \cup {None}]]
  BY <1>1, RememberedType DEF Firmware!Finish
<1>4. /\ runner' \in [Node -> Firmware!Runner]
      /\ job' \in [Node -> Requests \cup {None}]
      /\ servoIndex' \in [Node -> 0..1]
      /\ executionId' \in [Node -> Execution \cup {None}]
      /\ \A m \in Node : (runner'[m] = "idle") = (job'[m] = None)
  BY DEF Firmware!Finish, Firmware!NodeTypeOK, Firmware!Runner
<1> QED BY <1>2, <1>3, <1>4 DEF Firmware!Finish, Firmware!NodeTypeOK

LEMMA CommandType ==
    ASSUME Firmware!NodeTypeOK, NEW c \in Firmware!Message,
           Firmware!AcceptCommand(c.request.node, c)
    PROVE  Firmware!NodeTypeOK'
<1> DEFINE n == c.request.node
           e == c.request.id
<1>1. n \in Node /\ e \in Execution /\ c.request \in Requests \ {None}
  BY MessageType
<1> HIDE DEF n, e
<1>2. CASE Firmware!Replay(n, c)
  <2>1. dedup[n][e] \in Firmware!Report
    BY <1>1, <1>2 DEF Firmware!Replay, Firmware!NodeTypeOK, Firmware!Report, e
  <2>2. Firmware!Reply(n, e, dedup[n][e])
    BY <1>2 DEF Firmware!Replay, e
  <2> QED BY <1>1, <2>1, <2>2, ReplyType
<1>3. CASE Firmware!Reject(n, c)
  <2>1. Firmware!Reply(n, e, "rejected") /\ "rejected" \in Firmware!Report
    BY <1>3 DEF Firmware!Reject, Firmware!Report, e
  <2> QED BY <1>1, <2>1, ReplyType
<1>4. CASE Firmware!GiveUp(n, c)
  <2>1. events' \in SUBSET Firmware!Event
    BY <1>1, <1>4, ReportsType
    DEF Firmware!GiveUp, Firmware!NodeTypeOK, Firmware!Report, Firmware!Outcome, e
  <2>2. dedup' \in [Node -> [Execution -> Firmware!Outcome \cup {None}]]
    BY <1>1, <1>4, RememberedType DEF Firmware!GiveUp, Firmware!Outcome, e
  <2>3. executionId' \in [Node -> Execution \cup {None}]
    BY <1>4 DEF Firmware!GiveUp, Firmware!NodeTypeOK
  <2> QED BY <1>4, <2>1, <2>2, <2>3 DEF Firmware!GiveUp, Firmware!NodeTypeOK
<1>5. CASE Firmware!Start(n, c)
  <2>1. events' \in SUBSET Firmware!Event
    BY <1>1, <1>5, ReportsType
    DEF Firmware!Start, Firmware!NodeTypeOK, Firmware!Report, e
  <2>2. Firmware!FirstStage(c.request) \in Firmware!Runner \ {"idle"}
    BY DEF Firmware!FirstStage, Firmware!Runner
  <2>3. /\ runner' \in [Node -> Firmware!Runner]
        /\ job' \in [Node -> Requests \cup {None}]
        /\ executionId' \in [Node -> Execution \cup {None}]
        /\ \A m \in Node : (runner'[m] = "idle") = (job'[m] = None)
    BY <1>1, <1>5, <2>2 DEF Firmware!Start, Firmware!NodeTypeOK, e
  <2> QED BY <1>5, <2>1, <2>3 DEF Firmware!Start, Firmware!NodeTypeOK
<1> QED BY <1>2, <1>3, <1>4, <1>5 DEF Firmware!AcceptCommand, n

LEMMA RunnerType ==
    ASSUME Firmware!NodeTypeOK, NEW n \in Node, Firmware!RunnerStep(n)
    PROVE  Firmware!NodeTypeOK'
<1>1. ASSUME NEW from \in Firmware!Runner \ {"idle"},
             NEW to \in Firmware!Runner \ {"idle"},
             Firmware!Advance(n, from, to), servoIndex' \in [Node -> 0..1]
      PROVE  Firmware!NodeTypeOK'
  <2>1. /\ runner' \in [Node -> Firmware!Runner]
        /\ \A m \in Node : (runner'[m] = "idle") = (job'[m] = None)
    BY <1>1 DEF Firmware!Advance, Firmware!NodeTypeOK
  <2> QED BY <1>1, <2>1 DEF Firmware!Advance, Firmware!NodeTypeOK
<1>2. CASE \/ Firmware!ServoArrives(n) \/ Firmware!NextServo(n)
           \/ Firmware!ContactOpens(n)
  <2>1. servoIndex' \in [Node -> 0..1]
    BY <1>2 DEF Firmware!ServoArrives, Firmware!NextServo,
                Firmware!ContactOpens, Firmware!NodeTypeOK
  <2> QED BY <1>1, <1>2, <2>1
          DEF Firmware!ServoArrives, Firmware!NextServo,
              Firmware!ContactOpens, Firmware!Runner
<1>3. CASE Firmware!ServoTimesOut(n)
  BY <1>3, FinishType
  DEF Firmware!ServoTimesOut, Firmware!Outcome, Firmware!NodeTypeOK
<1>4. CASE Firmware!Complete(n)
  <2>1. job[n] \in Requests
    BY <1>4 DEF Firmware!Complete, Firmware!LastStage, Firmware!NodeTypeOK
  <2>2. finished' \in SUBSET Execution
    BY <1>4, <2>1, RequestsAssumption
    DEF Firmware!Complete, Firmware!NodeTypeOK, Request
  <2> QED BY <1>4, <2>2, FinishType DEF Firmware!Complete, Firmware!Outcome
<1> QED BY <1>2, <1>3, <1>4 DEF Firmware!RunnerStep

----------------------------------------------------------------------------
(* What the nodes' steps keep *)

Over == {"rejected", "completed", "failed"}

(* A node that moves for the only copy of its command has not reported the *)
(* end of the execution.                                                   *)
UnderWay ==
    \A n \in Node : (job[n] # None /\ copies[job[n].id] = 1) =>
        \A ev \in events : ev.id = job[n].id => ev.state \notin Over

(* "completed" is said and remembered only of what ran to its end. *)
ReportsTrue ==
    /\ \A ev \in events : ev.state = "completed" => ev.id \in finished
    /\ \A n \in Node, e \in Execution :
          dedup[n][e] = "completed" => e \in finished

(* Why no copy of a command starts again: the first one was for the boot    *)
(* that accepted it, and unless something disturbed the execution, that     *)
(* boot is over, its deadline has passed, its result is remembered or it    *)
(* still runs under its own identity.                                       *)
Guarded(ev) ==
    \/ ev.id \in disturbed
    \/ ev.boot < boot[ev.node]
    \/ ev.id \in late
    \/ dedup[ev.node][ev.id] # None
    \/ executionId[ev.node] = ev.id
StartsGuarded ==
    /\ \A c, d \in commands : c.request.id = d.request.id => c = d
    /\ \A ev \in events : ev.boot <= boot[ev.node]
    /\ \A ev \in events : ev.state = "accepted" =>
          /\ \E c \in commands : c.request.id = ev.id /\ c.boot = ev.boot
          /\ Guarded(ev)

NodeInvariant ==
    /\ SessionsOffered /\ WorkSent
    /\ UnderWay /\ ReportsTrue /\ StartsGuarded

LEMMA EventType ==
    ASSUME Firmware!NodeTypeOK, NEW ev \in events
    PROVE  /\ ev.id \in Execution /\ ev.id # None /\ ev.node \in Node
           /\ ev.boot \in Nat
BY NoneAssumption, BoundsAssumption DEF Firmware!NodeTypeOK, Firmware!Event

(* Steps that publish no event and leave the job of every node. *)
LEMMA QuietSteps ==
    ASSUME SystemTypeOK, NodeInvariant, UNCHANGED <<vars, delivery>>,
           NEW n \in Node,
           \/ Firmware!PublishStatus(n)
           \/ \E o \in offered : Firmware!TakeSession(o[1], o[2], o[3])
           \/ Firmware!ServoArrives(n) \/ Firmware!NextServo(n)
           \/ Firmware!ContactOpens(n)
           \/ \E e \in Execution : \/ Firmware!Forget(n, e)
                                   \/ Firmware!DeadlinePassed(e)
    PROVE  NodeInvariant'
<1> USE DEF NodeInvariant, delivery, vars
<1>1. ASSUME UNCHANGED <<boot, job, executionId, dedup, late, events, finished>>
      PROVE  (WorkSent /\ UnderWay /\ ReportsTrue /\ StartsGuarded)'
  BY <1>1 DEF WorkSent, UnderWay, ReportsTrue, StartsGuarded, Guarded
<1>2. CASE Firmware!PublishStatus(n)
  <2>1. SessionsOffered'
    BY <1>2 DEF SessionsOffered, Firmware!PublishStatus, SystemTypeOK,
                Firmware!NodeTypeOK
  <2> QED BY <1>1, <1>2, <2>1 DEF Firmware!PublishStatus
<1>3. ASSUME NEW o \in offered, Firmware!TakeSession(o[1], o[2], o[3])
      PROVE  NodeInvariant'
  <2>1. o = <<o[1], o[2], o[3]>> /\ o[1] \in Node
    BY DEF SystemTypeOK, TypeOK
  <2>2. SessionsOffered'
    BY <1>3, <2>1 DEF SessionsOffered, Firmware!TakeSession, SystemTypeOK,
                      Firmware!NodeTypeOK
  <2> QED BY <1>1, <1>3, <2>2 DEF Firmware!TakeSession
<1>4. CASE \/ Firmware!ServoArrives(n) \/ Firmware!NextServo(n)
           \/ Firmware!ContactOpens(n)
  <2>1. UNCHANGED <<boot, producer, job, executionId, dedup, late, events,
                    status, finished>>
    BY <1>4 DEF Firmware!ServoArrives, Firmware!NextServo,
                Firmware!ContactOpens, Firmware!Advance
  <2> QED BY <1>1, <2>1 DEF SessionsOffered
<1>5. ASSUME NEW e \in Execution, Firmware!Forget(n, e)
      PROVE  NodeInvariant'
  <2>1. /\ e \in late
        /\ UNCHANGED <<boot, producer, job, executionId, late, events, status,
                       finished>>
        /\ \A m \in Node, f \in Execution :
              dedup'[m][f] = IF m = n /\ f = e THEN None ELSE dedup[m][f]
    BY <1>5 DEF Firmware!Forget, SystemTypeOK, Firmware!NodeTypeOK
  <2>2. WorkSent' /\ ReportsTrue'
    BY <2>1, OutcomeAssumption DEF WorkSent, ReportsTrue
  <2>3. StartsGuarded'
    BY <2>1, EventType DEF StartsGuarded, Guarded, SystemTypeOK
  <2> QED BY <2>1, <2>2, <2>3 DEF SessionsOffered, UnderWay
<1>6. ASSUME NEW e \in Execution, Firmware!DeadlinePassed(e)
      PROVE  NodeInvariant'
  <2>1. /\ UNCHANGED <<boot, producer, job, executionId, dedup, events, status,
                       finished>>
        /\ late \subseteq late'
    BY <1>6 DEF Firmware!DeadlinePassed
  <2> QED BY <2>1 DEF SessionsOffered, WorkSent, UnderWay, ReportsTrue,
                      StartsGuarded, Guarded
<1> QED BY <1>2, <1>3, <1>4, <1>5, <1>6

(* A boot forgets the job and outdates what the node said before. *)
LEMMA RebootStep ==
    ASSUME SystemTypeOK, NodeInvariant, UNCHANGED <<vars, delivery>>,
           NEW n \in Node, Firmware!Reboot(n)
    PROVE  NodeInvariant'
<1> USE DEF NodeInvariant, delivery, vars, SystemTypeOK
<1>1. /\ boot' = [boot EXCEPT ![n] = @ + 1]
      /\ UNCHANGED <<late, events, status, finished>>
      /\ \A m \in Node :
            /\ producer'[m] = IF m = n THEN 0 ELSE producer[m]
            /\ job'[m] = IF m = n THEN None ELSE job[m]
            /\ executionId'[m] = IF m = n THEN None ELSE executionId[m]
            /\ \A e \in Execution :
                  dedup'[m][e] = IF m = n THEN None ELSE dedup[m][e]
  BY DEF Firmware!Reboot, Firmware!NodeTypeOK
<1>2. \A m \in Node : boot[m] \in Nat /\ (m # n => boot'[m] = boot[m])
  BY <1>1, BoundsAssumption DEF Firmware!NodeTypeOK
<1>3. boot'[n] = boot[n] + 1
  BY <1>1 DEF Firmware!NodeTypeOK
<1>4. SessionsOffered'
  BY <1>1, <1>2 DEF SessionsOffered
<1>5. WorkSent' /\ UnderWay'
  BY <1>1 DEF WorkSent, UnderWay
<1>6. ReportsTrue'
  BY <1>1, OutcomeAssumption DEF ReportsTrue
<1>7. StartsGuarded'
  <2>1. \A ev \in events : ev.boot <= boot'[ev.node]
    BY <1>2, <1>3, EventType DEF StartsGuarded
  <2>2. ASSUME NEW ev \in events, Guarded(ev)
        PROVE  Guarded(ev)'
    <3>1. ev.node \in Node /\ ev.id \in Execution /\ ev.boot \in Nat
      BY EventType
    <3>2. CASE ev.node = n
      BY <1>2, <1>3, <3>1, <3>2 DEF StartsGuarded, Guarded
    <3>3. CASE ev.node # n
      BY <1>1, <1>2, <2>2, <3>1, <3>3 DEF Guarded
    <3> QED BY <3>2, <3>3
  <2> QED BY <1>1, <2>1, <2>2 DEF StartsGuarded
<1> QED BY <1>4, <1>5, <1>6, <1>7

(* The end of a job is published and remembered under its own identity, or *)
(* under none.                                                             *)
LEMMA FinishStep ==
    ASSUME SystemTypeOK, NodeInvariant, UNCHANGED <<vars, delivery>>,
           NEW n \in Node, NEW s \in Firmware!Outcome, Firmware!Finish(n, s),
           finished \subseteq finished', job[n] # None,
           s = "completed" => job[n].id \in finished'
    PROVE  NodeInvariant'
<1> USE DEF NodeInvariant, delivery, vars, SystemTypeOK
<1> DEFINE e == executionId[n]
           said == Firmware!Reports(n, e, {s})
<1>1. /\ e \in Execution \cup {None} /\ job[n].id \in Execution
      /\ e # None => e = job[n].id /\ copies[e] > 0 /\ request[e].node = n
  BY RequestsAssumption DEF WorkSent, Firmware!NodeTypeOK, Request
<1>2. /\ events' = events \cup said
      /\ UNCHANGED <<boot, producer, late, status>>
      /\ \A m \in Node :
            /\ job'[m] = IF m = n THEN None ELSE job[m]
            /\ executionId'[m] = IF m = n THEN None ELSE executionId[m]
  BY DEF Firmware!Finish, Firmware!NodeTypeOK
<1>9. \A m \in Node, f \in Execution :
         dedup'[m][f] = IF m = n /\ f = e THEN s ELSE dedup[m][f]
  <2>1. dedup' = Firmware!Remembered(n, e, s)
    BY DEF Firmware!Finish
  <2>2. CASE e = None
    BY <2>1, <2>2, NoneAssumption DEF Firmware!Remembered
  <2>3. CASE e # None
    <3>1. dedup' = [dedup EXCEPT ![n][e] = s]
      BY <2>1, <2>3 DEF Firmware!Remembered
    <3> HIDE DEF e
    <3> QED BY <1>1, <2>3, <3>1 DEF Firmware!NodeTypeOK
  <2> QED BY <2>2, <2>3
<1>3. \A ev \in said : /\ e # None /\ ev.id = e /\ ev.node = n
                       /\ ev.boot = boot[n] /\ ev.state = s
  BY DEF Firmware!Reports
<1> HIDE DEF said
<1>4. SessionsOffered'
  BY <1>2 DEF SessionsOffered
<1>5. WorkSent'
  <2>1. ASSUME NEW m \in Node, NEW f \in Execution, dedup'[m][f] # None
        PROVE  copies[f] > 0 /\ request[f].node = m
    <3>1. (m = n /\ f = e) \/ dedup[m][f] # None
      BY <1>9, <2>1
    <3> QED BY <1>1, <3>1, NoneAssumption DEF WorkSent
  <2>2. \A ev \in events' : copies[ev.id] > 0 /\ ev.node = request[ev.id].node
    BY <1>1, <1>2, <1>3 DEF WorkSent
  <2>3. \A m \in Node : executionId'[m] # None =>
           job'[m] # None /\ executionId'[m] = job'[m].id
    BY <1>2 DEF WorkSent
  <2>4. \A m \in Node : job'[m] # None =>
           /\ job'[m] = request[job'[m].id] /\ job'[m].node = m
           /\ copies[job'[m].id] > 0
    BY <1>2 DEF WorkSent
  <2> QED BY <2>1, <2>2, <2>3, <2>4 DEF WorkSent
<1>6. UnderWay'
  <2> SUFFICES ASSUME NEW m \in Node, job'[m] # None, copies[job'[m].id] = 1,
                      NEW ev \in events', ev.id = job'[m].id
               PROVE  ev.state \notin Over
    BY DEF UnderWay
  <2>1. m # n /\ job'[m] = job[m]
    BY <1>2
  <2>2. ev \notin said
    BY <1>1, <1>3, <2>1 DEF WorkSent
  <2> QED BY <1>2, <2>1, <2>2 DEF UnderWay
<1>7. ReportsTrue'
  <2>1. ASSUME NEW m \in Node, NEW f \in Execution, dedup'[m][f] = "completed"
        PROVE  f \in finished'
    <3>1. \/ m = n /\ f = e /\ s = "completed"
          \/ dedup[m][f] = "completed"
      BY <1>9, <2>1
    <3> QED BY <1>1, <3>1, NoneAssumption DEF ReportsTrue
  <2>2. \A ev \in events' : ev.state = "completed" => ev.id \in finished'
    BY <1>1, <1>2, <1>3 DEF ReportsTrue
  <2> QED BY <2>1, <2>2 DEF ReportsTrue
<1>8. StartsGuarded'
  <2>1. \A ev \in said : ev.state # "accepted" /\ ev.boot <= boot[ev.node]
    BY <1>3, BoundsAssumption DEF Firmware!Outcome, Firmware!NodeTypeOK
  <2>2. ASSUME NEW ev \in events, Guarded(ev)
        PROVE  Guarded(ev)'
    <3>1. ev.node \in Node /\ ev.id \in Execution /\ ev.id # None
      BY EventType
    <3>2. s # None
      BY OutcomeAssumption DEF Firmware!Outcome
    <3> QED BY <1>2, <1>9, <2>2, <3>1, <3>2 DEF Guarded
  <2> QED BY <1>2, <2>1, <2>2 DEF StartsGuarded
<1> QED BY <1>4, <1>5, <1>6, <1>7, <1>8

LEMMA RunnerKeeps ==
    ASSUME SystemTypeOK, NodeInvariant, UNCHANGED <<vars, delivery>>,
           NEW n \in Node, Firmware!RunnerStep(n)
    PROVE  NodeInvariant'
<1>1. CASE Firmware!ServoTimesOut(n)
  <2>1. job[n] # None
    BY <1>1 DEF Firmware!ServoTimesOut, SystemTypeOK, Firmware!NodeTypeOK
  <2> QED BY <1>1, <2>1, FinishStep
          DEF Firmware!ServoTimesOut, Firmware!Outcome
<1>2. CASE Firmware!Complete(n)
  <2>1. job[n] # None
    BY <1>2 DEF Firmware!Complete, Firmware!LastStage, SystemTypeOK,
                Firmware!NodeTypeOK
  <2> QED BY <1>2, <2>1, FinishStep DEF Firmware!Complete, Firmware!Outcome
<1> QED BY <1>1, <1>2, QuietSteps DEF Firmware!RunnerStep

----------------------------------------------------------------------------
(* A command is handled *)

(* A reply starts nothing.  If something else was running, or the execution *)
(* itself, that execution is disturbed from now on.                        *)
LEMMA ReplyStep ==
    ASSUME SystemTypeOK, NodeInvariant, NEW c \in commands, HandleCommand(c),
           NEW s \in Firmware!Report,
           Firmware!Reply(c.request.node, c.request.id, s),
           s # "accepted",
           s = "completed" => c.request.id \in finished
    PROVE  NodeInvariant'
<1> USE DEF NodeInvariant, vars, SystemTypeOK
<1> DEFINE n == c.request.node
           e == c.request.id
           said == Firmware!Reports(n, e, {s})
<1>1. /\ n \in Node /\ e \in Execution /\ e # None
      /\ c.request = request[e] /\ sent[e] > 0
  BY MessageType DEF WorkSent
<1>2. /\ UNCHANGED <<vars, commands>>
      /\ copies' = [copies EXCEPT ![e] = @ + 1]
      /\ disturbed \subseteq disturbed'
      /\ job[n] # None => job[n].id \in disturbed'
  BY DEF HandleCommand
<1>3. /\ events' = events \cup said
      /\ executionId' = [executionId EXCEPT ![n] = None]
      /\ UNCHANGED <<boot, producer, job, dedup, late, status, finished>>
  BY DEF Firmware!Reply
<1>4. \A ev \in said : /\ ev.id = e /\ ev.node = n
                       /\ ev.boot = boot[n] /\ ev.state = s
  BY DEF Firmware!Reports
<1>5. \A f \in Execution : /\ copies[f] \in Nat
                           /\ copies'[f] = IF f = e THEN copies[f] + 1 ELSE copies[f]
  BY <1>2
<1>6. \A m \in Node : executionId'[m] = IF m = n THEN None ELSE executionId[m]
  BY <1>3 DEF Firmware!NodeTypeOK
<1>7. \A m \in Node : job[m] # None => job[m].id \in Execution
  BY RequestsAssumption DEF Firmware!NodeTypeOK, Request
<1> HIDE DEF said, n, e
<1>8. SessionsOffered'
  BY <1>2, <1>3 DEF SessionsOffered
<1>9. WorkSent'
  BY <1>1, <1>2, <1>3, <1>4, <1>5, <1>6, <1>7, EventType DEF WorkSent, n
<1>10. UnderWay'
  <2> SUFFICES ASSUME NEW m \in Node, job[m] # None, copies'[job[m].id] = 1,
                      NEW ev \in events', ev.id = job[m].id
               PROVE  ev.state \notin Over
    BY <1>3 DEF UnderWay
  <2>1. copies[job[m].id] > 0 /\ job[m].id \in Execution
    BY <1>7 DEF WorkSent
  <2>2. job[m].id # e /\ copies[job[m].id] = 1
    BY <1>5, <2>1
  <2> QED BY <1>3, <1>4, <2>2 DEF UnderWay
<1>11. ReportsTrue'
  BY <1>3, <1>4 DEF ReportsTrue, e
<1>12. StartsGuarded'
  <2>1. \A ev \in said : ev.state # "accepted" /\ ev.boot <= boot[ev.node]
    BY <1>1, <1>4, BoundsAssumption DEF Firmware!NodeTypeOK
  <2>2. ASSUME NEW ev \in events, Guarded(ev)
        PROVE  Guarded(ev)'
    <3>1. ev.node \in Node /\ ev.id \in Execution /\ ev.id # None
      BY EventType
    <3>2. CASE ev.node = n /\ executionId[n] = ev.id
      <4>1. job[n] # None /\ job[n].id = ev.id
        BY <1>1, <3>1, <3>2 DEF WorkSent
      <4> QED BY <1>2, <4>1 DEF Guarded
    <3>3. CASE ~(ev.node = n /\ executionId[n] = ev.id)
      BY <1>2, <1>3, <1>6, <2>2, <3>1, <3>3 DEF Guarded
    <3> QED BY <3>2, <3>3
  <2> QED BY <1>2, <1>3, <2>1, <2>2 DEF StartsGuarded
<1> QED BY <1>8, <1>9, <1>10, <1>11, <1>12

(* An execution that is accepted runs under its own identity from now on,  *)
(* or is given up and remembered.                                          *)
LEMMA AcceptedStep ==
    ASSUME SystemTypeOK, NodeInvariant, NEW c \in commands, HandleCommand(c),
           \/ Firmware!GiveUp(c.request.node, c)
           \/ Firmware!Start(c.request.node, c)
    PROVE  NodeInvariant'
<1> USE DEF NodeInvariant, vars, SystemTypeOK
<1> DEFINE n == c.request.node
           e == c.request.id
           said == events' \ events
<1>1. /\ n \in Node /\ e \in Execution /\ e # None
      /\ c.request \in Requests /\ c.request # None
      /\ c.request = request[e] /\ sent[e] > 0
  BY MessageType DEF WorkSent
<1>2. /\ UNCHANGED <<vars, commands>>
      /\ copies' = [copies EXCEPT ![e] = @ + 1]
      /\ disturbed \subseteq disturbed'
  BY DEF HandleCommand
<1>3. /\ Firmware!Acceptable(n, c) /\ job[n] = None
      /\ events \subseteq events'
      /\ \A ev \in said : /\ ev.id = e /\ ev.node = n /\ ev.boot = boot[n]
                          /\ ev.state \in {"accepted", "started", "failed"}
      /\ UNCHANGED <<boot, producer, late, status, finished>>
  <2>1. /\ Firmware!Acceptable(n, c)
        /\ UNCHANGED <<boot, producer, late, status, finished>>
    BY DEF Firmware!GiveUp, Firmware!Start
  <2>2. job[n] = None
    BY <1>1, <2>1 DEF Firmware!Acceptable, Firmware!NodeTypeOK
  <2>3. \/ events' = events \cup Firmware!Reports(n, e, {"accepted", "started"})
        \/ events' = events \cup
              Firmware!Reports(n, e, {"accepted", "started", "failed"})
    BY DEF Firmware!GiveUp, Firmware!Start
  <2> HIDE DEF n, e
  <2>4. \A states \in SUBSET {"accepted", "started", "failed"} :
           \A ev \in Firmware!Reports(n, e, states) :
              /\ ev.id = e /\ ev.node = n /\ ev.boot = boot[n]
              /\ ev.state \in {"accepted", "started", "failed"}
    BY <1>1 DEF Firmware!Reports
  <2>5. /\ events \subseteq events'
        /\ \A ev \in said :
              /\ ev.id = e /\ ev.node = n /\ ev.boot = boot[n]
              /\ ev.state \in {"accepted", "started", "failed"}
    BY <2>3, <2>4
  <2> QED BY <2>1, <2>2, <2>5
<1>4. \A f \in Execution : /\ copies[f] \in Nat
                           /\ copies'[f] = IF f = e THEN copies[f] + 1 ELSE copies[f]
  BY <1>2
<1>5. \/ /\ Firmware!Start(n, c)
         /\ \A m \in Node :
               /\ job'[m] = IF m = n THEN c.request ELSE job[m]
               /\ executionId'[m] = IF m = n THEN e ELSE executionId[m]
               /\ \A f \in Execution : dedup'[m][f] = dedup[m][f]
         /\ \A ev \in said : ev.state # "failed"
      \/ /\ Firmware!GiveUp(n, c)
         /\ \A m \in Node :
               /\ job'[m] = job[m]
               /\ executionId'[m] = IF m = n THEN None ELSE executionId[m]
               /\ \A f \in Execution :
                     dedup'[m][f] = IF m = n /\ f = e THEN "failed"
                                    ELSE dedup[m][f]
  <2>1. CASE Firmware!Start(n, c)
    BY <1>1, <2>1 DEF Firmware!Start, Firmware!Reports, Firmware!NodeTypeOK
  <2>2. CASE Firmware!GiveUp(n, c)
    <3>1. dedup' = [dedup EXCEPT ![n][e] = "failed"]
      BY <1>1, <2>2 DEF Firmware!GiveUp, Firmware!Remembered
    <3>2. \A m \in Node, f \in Execution :
             dedup'[m][f] = IF m = n /\ f = e THEN "failed" ELSE dedup[m][f]
      BY <1>1, <3>1 DEF Firmware!NodeTypeOK
    <3>3. \A m \in Node :
             /\ job'[m] = job[m]
             /\ executionId'[m] = IF m = n THEN None ELSE executionId[m]
      BY <2>2 DEF Firmware!GiveUp, Firmware!NodeTypeOK
    <3> QED BY <2>2, <3>2, <3>3
  <2> QED BY <2>1, <2>2
<1>6. \A m \in Node : job[m] # None => job[m].id \in Execution
  BY RequestsAssumption DEF Firmware!NodeTypeOK, Request
<1>7. c.request.node = n /\ c.request.id = e
  OBVIOUS
<1> HIDE DEF said, n, e
<1>8. SessionsOffered'
  BY <1>2, <1>3 DEF SessionsOffered
<1>9. WorkSent'
  <2>1. \A f \in Execution : copies[f] > 0 => copies'[f] > 0
    BY <1>4
  <2>2. copies'[e] > 0
    BY <1>1, <1>4
  <2>3. \A ev \in events' :
           copies'[ev.id] > 0 /\ ev.node = request[ev.id].node
    BY <1>1, <1>3, <1>7, <2>1, <2>2, EventType DEF WorkSent, said
  <2>4. \A m \in Node, f \in Execution : dedup'[m][f] # None =>
           copies'[f] > 0 /\ request[f].node = m
    BY <1>1, <1>5, <1>7, <2>1, <2>2 DEF WorkSent
  <2>5. \A m \in Node : job'[m] # None =>
           /\ job'[m] = request[job'[m].id] /\ job'[m].node = m
           /\ copies'[job'[m].id] > 0
    BY <1>1, <1>5, <1>6, <1>7, <2>1, <2>2 DEF WorkSent
  <2>6. \A m \in Node : executionId'[m] # None =>
           job'[m] # None /\ executionId'[m] = job'[m].id
    BY <1>1, <1>3, <1>5, <1>7 DEF WorkSent
  <2>7. \A f \in Execution : copies'[f] > 0 => sent[f] > 0
    BY <1>1, <1>4 DEF WorkSent
  <2> QED BY <1>2, <2>3, <2>4, <2>5, <2>6, <2>7 DEF WorkSent
<1>10. UnderWay'
  <2> SUFFICES ASSUME NEW m \in Node, job'[m] # None, copies'[job'[m].id] = 1,
                      NEW ev \in events', ev.id = job'[m].id
               PROVE  ev.state \notin Over
    BY DEF UnderWay
  <2>1. CASE job'[m] = job[m]
    <3>1. copies[job[m].id] > 0 /\ job[m].id \in Execution
      BY <1>6, <2>1 DEF WorkSent
    <3>2. job[m].id # e /\ copies[job[m].id] = 1
      BY <1>4, <2>1, <3>1
    <3> QED BY <1>3, <2>1, <3>2 DEF UnderWay, said
  <2>2. CASE job'[m] # job[m]
    <3>1. Firmware!Start(n, c) /\ m = n /\ job'[m].id = e /\ copies[e] = 0
      BY <1>1, <1>4, <1>5, <1>7, <2>2
    <3>2. ev \in said
      BY <3>1 DEF WorkSent, said
    <3> QED BY <1>3, <1>5, <2>2, <3>2 DEF Over
  <2> QED BY <2>1, <2>2
<1>11. ReportsTrue'
  <2>1. \A ev \in events' : ev.state = "completed" => ev.id \in finished
    BY <1>3 DEF ReportsTrue, said
  <2>2. \A m \in Node, f \in Execution :
           dedup'[m][f] = "completed" => dedup[m][f] = "completed"
    BY <1>5
  <2> QED BY <1>3, <2>1, <2>2 DEF ReportsTrue
<1>12. StartsGuarded'
  <2>1. c.boot = boot[n] /\ boot[n] \in Nat
    BY <1>1, <1>3, BoundsAssumption DEF Firmware!Acceptable, Firmware!NodeTypeOK
  <2>2. \A ev \in said : ev.boot <= boot[ev.node]
    BY <1>3, <2>1
  <2>3. ASSUME NEW ev \in said
        PROVE  Guarded(ev)' /\ \E d \in commands :
                                  d.request.id = ev.id /\ d.boot = ev.boot
    BY <1>1, <1>3, <1>5, <1>7, <2>1, OutcomeAssumption DEF Guarded
  <2>4. ASSUME NEW ev \in events, Guarded(ev)
        PROVE  Guarded(ev)'
    <3>1. ev.node \in Node /\ ev.id \in Execution /\ ev.id # None
      BY EventType
    <3>2. executionId[n] = None
      BY <1>1, <1>3 DEF WorkSent
    <3>3. dedup[ev.node][ev.id] # None => dedup'[ev.node][ev.id] # None
      BY <1>5, <3>1, OutcomeAssumption
    <3>4. executionId[ev.node] = ev.id => executionId'[ev.node] = ev.id
      BY <1>5, <3>1, <3>2
    <3> QED BY <1>2, <1>3, <2>4, <3>3, <3>4 DEF Guarded
  <2> QED BY <1>2, <1>3, <2>2, <2>3, <2>4 DEF StartsGuarded, said
<1> QED BY <1>8, <1>9, <1>10, <1>11, <1>12

LEMMA CommandKeeps ==
    ASSUME SystemTypeOK, NodeInvariant, NEW c \in commands, HandleCommand(c)
    PROVE  NodeInvariant'
<1> DEFINE n == c.request.node
           e == c.request.id
<1>1. Firmware!AcceptCommand(n, c) /\ n \in Node /\ e \in Execution
  BY MessageType DEF HandleCommand, SystemTypeOK
<1>2. CASE Firmware!Replay(n, c)
  <2>1. /\ Firmware!Reply(n, e, dedup[n][e])
        /\ dedup[n][e] \in Firmware!Outcome
    BY <1>1, <1>2 DEF Firmware!Replay, SystemTypeOK, Firmware!NodeTypeOK
  <2>2. /\ dedup[n][e] \in Firmware!Report /\ dedup[n][e] # "accepted"
        /\ dedup[n][e] = "completed" => e \in finished
    BY <1>1, <2>1 DEF Firmware!Outcome, Firmware!Report, NodeInvariant,
                      ReportsTrue
  <2> QED BY <2>1, <2>2, ReplyStep
<1>3. CASE Firmware!Reject(n, c)
  BY <1>3, ReplyStep DEF Firmware!Reject, Firmware!Report
<1>4. CASE Firmware!GiveUp(n, c) \/ Firmware!Start(n, c)
  BY <1>4, AcceptedStep
<1> QED BY <1>1, <1>2, <1>3, <1>4 DEF Firmware!AcceptCommand

----------------------------------------------------------------------------
(* Every step of the system keeps the types *)

NodeStep == (\E c \in commands : HandleCommand(c)) \/ NodeRuns \/ NodeFails

LEMMA NodeTypes ==
    ASSUME SystemTypeOK, NodeStep, UNCHANGED work
    PROVE  SystemTypeOK' /\ UNCHANGED <<vars, commands>> /\ events \subseteq events'
<1> USE DEF SystemTypeOK
<1>1. UNCHANGED <<vars, commands>>
  BY DEF NodeStep, HandleCommand, NodeRuns, NodeFails, delivery
<1>2. TypeOK'
  BY <1>1 DEF vars, TypeOK
<1>3. faults' \in [FaultKind -> Nat]
  BY DEF NodeStep, HandleCommand, NodeRuns, NodeFails, Fault, NoFault
<1>4. ASSUME NEW c \in commands, HandleCommand(c)
      PROVE  /\ Firmware!NodeTypeOK' /\ events \subseteq events'
             /\ copies' \in [Execution -> Nat] /\ disturbed' \in SUBSET Execution
  <2>1. Firmware!NodeTypeOK'
    BY <1>4, CommandType DEF HandleCommand
  <2>2. events \subseteq events'
    BY <1>4 DEF HandleCommand, Firmware!AcceptCommand, Firmware!Replay,
                Firmware!Reject, Firmware!GiveUp, Firmware!Start, Firmware!Reply
  <2>3. c.request.id \in Execution /\ c.request.node \in Node
    BY MessageType
  <2>4. copies' \in [Execution -> Nat]
    BY <1>4, <2>3 DEF HandleCommand
  <2>5. job[c.request.node] # None => job[c.request.node].id \in Execution
    BY <2>3, RequestsAssumption DEF Firmware!NodeTypeOK, Request
  <2>6. disturbed' \in SUBSET Execution
    BY <1>4, <2>5 DEF HandleCommand
  <2> QED BY <2>1, <2>2, <2>4, <2>6
<1>5. CASE NodeRuns
  <2>1. ASSUME NEW o \in offered, Firmware!TakeSession(o[1], o[2], o[3])
        PROVE  Firmware!NodeTypeOK' /\ events' = events
    <3>1. o[1] \in Node /\ o[2] \in Nat /\ o[3] \in Nat
      BY BoundsAssumption DEF TypeOK
    <3>2. producer' \in [Node -> Nat]
      BY <2>1, <3>1 DEF Firmware!TakeSession, Firmware!NodeTypeOK
    <3>3. status' \in [Node -> Firmware!Status \cup {None}]
      BY <2>1, <3>1 DEF Firmware!TakeSession, Firmware!NodeTypeOK, Firmware!Status
    <3> QED BY <2>1, <3>2, <3>3 DEF Firmware!TakeSession, Firmware!NodeTypeOK
  <2>2. ASSUME NEW n \in Connected, Firmware!PublishStatus(n)
        PROVE  Firmware!NodeTypeOK' /\ events' = events
    <3>1. n \in Node
      BY RequestsAssumption DEF Connected, Request
    <3>2. status' \in [Node -> Firmware!Status \cup {None}]
      BY <2>2, <3>1 DEF Firmware!PublishStatus, Firmware!NodeTypeOK, Firmware!Status
    <3> QED BY <2>2, <3>2 DEF Firmware!PublishStatus, Firmware!NodeTypeOK
  <2>3. ASSUME NEW n \in Node, Firmware!RunnerStep(n)
        PROVE  Firmware!NodeTypeOK' /\ events \subseteq events'
    <3>1. events \subseteq events'
      BY <2>3 DEF Firmware!RunnerStep, Firmware!ServoArrives,
                  Firmware!ServoTimesOut, Firmware!NextServo,
                  Firmware!ContactOpens, Firmware!Complete, Firmware!Advance,
                  Firmware!Finish
    <3> QED BY <2>3, <3>1, RunnerType
  <2>4. ASSUME NEW n \in Node, NEW e \in Execution, Firmware!Forget(n, e)
        PROVE  Firmware!NodeTypeOK' /\ events' = events
    BY <2>4 DEF Firmware!Forget, Firmware!NodeTypeOK
  <2> QED BY <1>1, <1>2, <1>3, <1>5, <2>1, <2>2, <2>3, <2>4
          DEF NodeRuns, HandleSession, delivery
<1>6. CASE NodeFails
  <2>1. ASSUME NEW n \in Node, Firmware!Reboot(n)
        PROVE  Firmware!NodeTypeOK' /\ events' = events
    <3>1. boot' \in [Node -> 1..MaxBoot]
      BY <2>1, BoundsAssumption DEF Firmware!Reboot, Firmware!NodeTypeOK
    <3>2. /\ runner' \in [Node -> Firmware!Runner]
          /\ job' \in [Node -> Requests \cup {None}]
          /\ \A m \in Node : (runner'[m] = "idle") = (job'[m] = None)
          /\ producer' \in [Node -> Nat] /\ servoIndex' \in [Node -> 0..1]
      BY <2>1 DEF Firmware!Reboot, Firmware!NodeTypeOK, Firmware!Runner
    <3>3. /\ executionId' \in [Node -> Execution \cup {None}]
          /\ dedup' \in [Node -> [Execution -> Firmware!Outcome \cup {None}]]
      BY <2>1 DEF Firmware!Reboot, Firmware!NodeTypeOK
    <3> QED BY <2>1, <3>1, <3>2, <3>3 DEF Firmware!Reboot, Firmware!NodeTypeOK
  <2>2. ASSUME NEW e \in Execution, Firmware!DeadlinePassed(e)
        PROVE  Firmware!NodeTypeOK' /\ events' = events
    BY <2>2 DEF Firmware!DeadlinePassed, Firmware!NodeTypeOK
  <2> QED BY <1>1, <1>2, <1>3, <1>6, <2>1, <2>2 DEF NodeFails, delivery
<1> QED BY <1>1, <1>2, <1>3, <1>4, <1>5, <1>6 DEF NodeStep

LEMMA NodeKeeps ==
    ASSUME SystemTypeOK, NodeInvariant, NodeStep
    PROVE  NodeInvariant'
<1>1. CASE NodeRuns
  <2>1. UNCHANGED <<vars, delivery>>
    BY <1>1 DEF NodeRuns
  <2>2. ASSUME NEW o \in offered, Firmware!TakeSession(o[1], o[2], o[3])
        PROVE  NodeInvariant'
    <3>1. o[1] \in Node
      BY DEF SystemTypeOK, TypeOK
    <3> QED BY <2>1, <2>2, <3>1, QuietSteps
  <2>3. Connected \subseteq Node
    BY RequestsAssumption DEF Connected, Request, SystemTypeOK
  <2> QED BY <1>1, <2>1, <2>2, <2>3, QuietSteps, RunnerKeeps
          DEF NodeRuns, HandleSession
<1>2. CASE NodeFails
  <2>1. UNCHANGED <<vars, delivery>>
    BY <1>2 DEF NodeFails
  <2>2. ASSUME NEW e \in Execution, Firmware!DeadlinePassed(e)
        PROVE  NodeInvariant'
    <3>1. CASE \E n \in Node : TRUE
      BY <2>1, <2>2, <3>1, QuietSteps
    <3>2. CASE ~\E n \in Node : TRUE
      BY <2>1, <2>2, <3>2, RequestsAssumption
      DEF NodeInvariant, SessionsOffered, WorkSent, UnderWay, ReportsTrue,
          StartsGuarded, SystemTypeOK, Firmware!NodeTypeOK, Firmware!Event,
          Firmware!DeadlinePassed, vars, delivery, Guarded
    <3> QED BY <3>1, <3>2
  <2> QED BY <1>2, <2>1, <2>2, RebootStep DEF NodeFails
<1> QED BY <1>1, <1>2, CommandKeeps DEF NodeStep

----------------------------------------------------------------------------
(* MC's steps keep what is known of the nodes and of the ledger *)

(* A command is published once, so MC never adds a second one for an       *)
(* execution.                                                              *)
LEMMA McKeepsNodes ==
    ASSUME WireInvariant, NodeInvariant, Publish \/ McRuns \/ McFails
    PROVE  UnderWay' /\ ReportsTrue' /\ StartsGuarded'
<1>1. UNCHANGED <<nodeSide, copies, disturbed>>
  BY McSteps
<1>2. commands \subseteq commands'
  BY DEF Publish, McRuns, McFails, delivery
<1>3. \A c, d \in commands' : c.request.id = d.request.id => c = d
  <2>1. CASE commands' = commands
    BY <2>1 DEF NodeInvariant, StartsGuarded
  <2>2. CASE commands' # commands
    <3>1. Publish
      BY <2>2 DEF McRuns, McFails, delivery
    <3>2. \A c \in commands : c.request.id # sched.id
      BY <2>2, <3>1, PublishedCommand DEF NodeInvariant, WorkSent
    <3> QED BY <2>2, <3>1, <3>2, PublishedCommand
            DEF NodeInvariant, StartsGuarded
  <2> QED BY <2>1, <2>2
<1> QED BY <1>1, <1>2, <1>3
        DEF NodeInvariant, UnderWay, ReportsTrue, StartsGuarded, Guarded, nodeSide

(* A row ended by a node's report names a report that the node made, and   *)
(* what ended without one was never published.                             *)
LedgerTrue ==
    /\ callback # None => callback \in events
    /\ \A e \in Execution :
          state[e] \in {"completed", "rejected", "failed"} =>
              \E ev \in events : ev.id = e /\ ev.state = state[e]
    /\ \A e \in Execution :
          state[e] \in {"expired", "cancelled"} => sent[e] = 0

LEMMA McKeepsLedger ==
    ASSUME WireInvariant, LedgerTrue, Publish \/ McRuns \/ McFails
    PROVE  LedgerTrue'
<1> USE DEF WireInvariant, SystemTypeOK
<1>1. UNCHANGED events
  BY McSteps DEF nodeSide
<1>2. ASSUME callback' \in {callback, None}, UNCHANGED sent,
             \A e \in Execution :
                \/ state'[e] = state[e]
                \/ state'[e] \in {"queued", "dispatched", "uncertain"}
      PROVE  LedgerTrue'
  BY <1>1, <1>2 DEF LedgerTrue
<1>3. CASE ReceiveEvent
  BY <1>1, <1>3 DEF ReceiveEvent, TakeEvent, durable, LedgerTrue
<1>4. CASE RecordEvent
  <2>1. /\ callback' = None /\ UNCHANGED sent
        /\ callback \in events /\ callback.id \in Execution
        /\ \A e \in Execution : e # callback.id => state'[e] = state[e]
        /\ state'[callback.id] = callback.state
    BY <1>4, EventType DEF RecordEvent, Transition, Uncertain, LedgerTrue, TypeOK
  <2>2. callback.state \notin {"expired", "cancelled"}
    BY <1>4 DEF RecordEvent, TypeOK, Event
  <2> QED BY <1>1, <2>1, <2>2 DEF LedgerTrue
<1>5. ASSUME NEW e \in Execution, ExpireQueued(e)
      PROVE  LedgerTrue'
  <2>1. sent[e] = 0
    BY <1>5 DEF ExpireQueued, Considers, PermitInvariant, Dispatchable
  <2>2. /\ UNCHANGED <<callback, sent>>
        /\ \A f \in Execution : state'[f] = IF f = e THEN "expired" ELSE state[f]
    BY <1>5 DEF ExpireQueued, Transition, TypeOK
  <2> QED BY <1>1, <2>1, <2>2 DEF LedgerTrue
<1>6. CASE PublishCommand \/ PublishFails
  <2>1. /\ sched.id \in Execution
        /\ state[sched.id] \in {"dispatched", "uncertain"}
    BY <1>6 DEF PublishCommand, PublishFails, TypeOK, OrderInvariant
  <2>2. /\ UNCHANGED callback
        /\ \A e \in Execution : e # sched.id =>
              state'[e] = state[e] /\ sent'[e] = sent[e]
        /\ state'[sched.id] \in {"dispatched", "uncertain"}
    BY <1>6, <2>1 DEF PublishCommand, PublishFails, Uncertain, Transition,
                      durable, TypeOK
  <2> QED BY <1>1, <2>1, <2>2 DEF LedgerTrue
<1>7. CASE CoreRuns
  <2>1. ASSUME NEW c \in 1..MaxCore, EstablishCoreSession(c) \/ Heartbeat(c)
        PROVE  LedgerTrue'
    BY <1>2, <2>1 DEF EstablishCoreSession, Heartbeat, durable
  <2>2. ASSUME NEW r \in work, Submit(r)
        PROVE  LedgerTrue'
    BY <1>2, <2>2 DEF Submit, Transition, ledger, TypeOK
  <2> QED BY <1>7, <2>1, <2>2 DEF CoreRuns
<1>8. CASE Schedule
  <2>1. CASE MarkDispatched
    BY <1>2, <2>1 DEF MarkDispatched, Transition, TypeOK
  <2>2. ASSUME NEW e \in Execution, SkipIneligible(e) \/ AcquireGates(e)
        PROVE  LedgerTrue'
    BY <1>2, <2>2 DEF SkipIneligible, AcquireGates, durable
  <2>3. CASE RunOnce \/ ScanExhausted
    BY <1>2, <2>3 DEF RunOnce, ScanExhausted, durable
  <2> QED BY <1>5, <1>8, <2>1, <2>2, <2>3 DEF Schedule
<1>9. CASE ReceiveStatus
  BY <1>2, <1>9 DEF ReceiveStatus, TakeStatus
<1>10. CASE ReceiveAvailability \/ ReceiveWill
  BY <1>2, <1>10
  DEF ReceiveAvailability, ReceiveWill, HandleAvailability, durable
<1>11. CASE \/ CheckWatchdog \/ Connect \/ Disconnect \/ HeartbeatLapses
            \/ \E n \in Node : NodeFallsSilent(n)
            \/ \E e \in Execution : DeadlinePasses(e)
  BY <1>2, <1>11 DEF CheckWatchdog, Connect, Disconnect, HeartbeatLapses,
                     NodeFallsSilent, DeadlinePasses, durable
<1>12. CASE Restart
  BY <1>2, <1>12 DEF Restart, Recovered
<1> QED BY <1>3, <1>4, <1>6, <1>7, <1>8, <1>9, <1>10, <1>11, <1>12
        DEF Publish, McRuns, McFails

----------------------------------------------------------------------------
(* The inductive invariant of the system *)

SystemInvariant == WireInvariant /\ NodeInvariant /\ LedgerTrue

LEMMA SystemInvariantInit == SystemInit => SystemInvariant
<1> SUFFICES ASSUME SystemInit PROVE SystemInvariant
  OBVIOUS
<1> USE DEF SystemInit, Init, Firmware!Init
<1>1. PICK s \in Scenarios : work = s.work /\ faults = s.faults
  OBVIOUS
<1>2. work \in SUBSET Requests /\ faults \in [FaultKind -> Nat]
  BY <1>1, ScenariosAssumption DEF Scenario
<1>3. TypeOK /\ PermitInvariant /\ OrderInvariant
  BY TypeInit, PermitInit, OrderInit
<1>4. Firmware!NodeTypeOK
  BY BoundsAssumption DEF Firmware!NodeTypeOK, Firmware!Runner
<1>5. SystemTypeOK
  BY <1>2, <1>3, <1>4 DEF SystemTypeOK
<1>6. SessionsOffered /\ WorkSent
  BY DEF SessionsOffered, WorkSent
<1>7. UnderWay /\ ReportsTrue /\ StartsGuarded
  BY OutcomeAssumption DEF UnderWay, ReportsTrue, StartsGuarded
<1>8. LedgerTrue
  BY DEF LedgerTrue
<1> QED BY <1>3, <1>5, <1>6, <1>7, <1>8
        DEF SystemInvariant, WireInvariant, NodeInvariant

LEMMA SystemInvariantStep ==
    ASSUME SystemInvariant, [SystemNext]_systemVars
    PROVE  SystemInvariant' /\ [ServiceStep]_vars
<1> USE DEF SystemInvariant
<1>1. CASE UNCHANGED systemVars
  BY <1>1, ServiceTypes, OrderStep
  DEF systemVars, vars, nodeSide, delivery, WireInvariant, SystemTypeOK,
      Firmware!NodeTypeOK, NodeInvariant, SessionsOffered, WorkSent, UnderWay,
      ReportsTrue, StartsGuarded, Guarded, LedgerTrue
<1>2. CASE Publish \/ McRuns \/ McFails
  <2>1. UNCHANGED work \/ UNCHANGED systemVars
    BY DEF SystemNext
  <2>2. CASE UNCHANGED work
    BY <1>2, <2>2, McSteps, McKeepsWire, McKeepsNodes, McKeepsLedger
    DEF NodeInvariant, WireInvariant
  <2> QED BY <1>1, <2>1, <2>2
<1>3. CASE NodeStep
  <2>1. CASE UNCHANGED work
    <3>1. SystemTypeOK' /\ UNCHANGED <<vars, commands>> /\ events \subseteq events'
      BY <1>3, <2>1, NodeTypes DEF WireInvariant
    <3>2. NodeInvariant'
      BY <1>3, NodeKeeps DEF WireInvariant
    <3>3. PermitInvariant' /\ OrderInvariant'
      BY <3>1, ServiceTypes, OrderStep DEF WireInvariant, SystemTypeOK
    <3>4. LedgerTrue'
      BY <3>1 DEF LedgerTrue, vars
    <3> QED BY <3>1, <3>2, <3>3, <3>4 DEF WireInvariant, NodeInvariant
  <2> QED BY <1>1, <2>1 DEF SystemNext
<1> QED BY <1>1, <1>2, <1>3 DEF SystemNext, NodeStep

LEMMA SystemInvariantHolds == SystemSpec => []SystemInvariant
BY SystemInvariantInit, SystemInvariantStep, PTL DEF SystemSpec

----------------------------------------------------------------------------
(* The theorems *)

(* The firmware keeps what McService assumes of its nodes: every behaviour *)
(* of the system is one of McService, and its theorems hold of the system. *)
THEOREM ServiceIsImplemented == SystemSpec => ServiceImplemented
<1>1. SystemInit => Init
  BY DEF SystemInit
<1> QED BY <1>1, SystemInvariantStep, SystemInvariantHolds, PTL
        DEF SystemSpec, ServiceImplemented, CoreSpec

(* Every variable of MC, the nodes and the wire keeps its type.            *)
THEOREM SystemTypes == SystemSpec => []SystemTypeOK
<1>1. SystemInvariant => SystemTypeOK
  BY DEF SystemInvariant, WireInvariant
<1> QED BY <1>1, SystemInvariantHolds, PTL

(* No node moves the outputs of an execution that MC's ledger calls ended, *)
(* unless its command reached the node twice.                              *)
THEOREM EndedIsAtRest == SystemSpec => []ReleasedAtRest
<1>1. SystemInvariant => ReleasedAtRest
  <2> SUFFICES ASSUME SystemInvariant, NEW n \in Node, job[n] # None,
                      state[job[n].id] \in Terminal, ~Repeated(job[n].id)
               PROVE  FALSE
    BY DEF ReleasedAtRest
  <2> USE DEF SystemInvariant, WireInvariant, NodeInvariant, SystemTypeOK
  <2>1. job[n].id \in Execution
    BY RequestsAssumption DEF Firmware!NodeTypeOK, Request
  <2>2. copies[job[n].id] = 1 /\ sent[job[n].id] > 0
    BY <2>1 DEF Repeated, WorkSent
  <2>3. \A ev \in events : ev.id = job[n].id => ev.state \notin Over
    BY <2>2 DEF UnderWay
  <2>4. state[job[n].id] \in Over
    BY <2>1, <2>2 DEF Terminal, LedgerTrue, Over
  <2> QED BY <2>1, <2>3, <2>4 DEF LedgerTrue, Over
<1> QED BY <1>1, SystemInvariantHolds, PTL

(* Outputs that need the same permit never move together on two nodes,     *)
(* unless a command reached its node twice.                                *)
THEOREM MotionIsExclusive == SystemSpec => []MotionExclusive
<1>1. SystemInvariant /\ ReleasedAtRest => MotionExclusive
  <2> SUFFICES ASSUME SystemInvariant, ReleasedAtRest,
                      NEW m \in Node, NEW n \in Node, m # n,
                      job[m] # None, job[n] # None,
                      ~Repeated(job[m].id), ~Repeated(job[n].id),
                      NEW res \in job[m].resources \cap job[n].resources
               PROVE  FALSE
    BY DEF MotionExclusive
  <2> USE DEF SystemInvariant, WireInvariant, NodeInvariant, SystemTypeOK
  <2>1. ASSUME NEW k \in Node, job[k] # None, ~Repeated(job[k].id),
               res \in job[k].resources
        PROVE  /\ job[k].id \in Execution /\ job[k] = request[job[k].id]
               /\ job[k].node = k /\ gate[<<res, None>>] = job[k].id
    <3>1. /\ job[k] \in Request /\ job[k].id \in Execution
          /\ job[k] = request[job[k].id] /\ job[k].node = k
      BY <2>1, RequestsAssumption DEF Firmware!NodeTypeOK, Request, WorkSent
    <3>2. sent[job[k].id] > 0
      BY <2>1, <3>1 DEF WorkSent
    <3>3. state[job[k].id] \notin Terminal \cup {"absent", "queued"}
      BY <2>1, <3>1, <3>2 DEF ReleasedAtRest, PermitInvariant
    <3>4. state[job[k].id] \in Live
      BY <3>1, <3>3 DEF TypeOK, State, NonTerminal, Terminal, Live, Active
    <3>5. Holds(job[k].id)
      BY <3>1, <3>4 DEF PermitInvariant
    <3>6. <<res, None>> \in Permits(job[k].id)
      <4>1. res \in {"servo", "machine"}
        BY <2>1, <3>1 DEF Request, Resource
      <4>2. job[k].resources = request[job[k].id].resources
        BY <3>1
      <4> QED BY <2>1, <4>1, <4>2 DEF Permits, Gates, ActuatorGate
    <3> QED BY <3>1, <3>5, <3>6 DEF Holds
  <2>2. job[m].id = job[n].id
    BY <2>1
  <2> QED BY <2>1, <2>2
<1> QED BY <1>1, EndedIsAtRest, SystemInvariantHolds, PTL

(* What the ledger calls completed ran to its end on a node.               *)
THEOREM CompletedIsTrue == SystemSpec => []CompletedTruthful
<1>1. SystemInvariant => CompletedTruthful
  BY DEF SystemInvariant, NodeInvariant, LedgerTrue, ReportsTrue,
         CompletedTruthful
<1> QED BY <1>1, SystemInvariantHolds, PTL

(* No copy of a command starts the outputs of an execution again, unless   *)
(* something arrived while they ran.                                       *)
THEOREM RunsOnce == SystemSpec => RanOnce
<1> DEFINE Once == \A n \in Node : (job[n] = None /\ job'[n] # None) =>
                      LET e == job'[n].id IN
                      (\E ev \in events : ev.id = e /\ ev.state = "accepted")
                          => e \in disturbed
<1>1. SystemInvariant /\ [SystemNext]_systemVars => [Once]_systemVars
  <2> SUFFICES ASSUME SystemInvariant, [SystemNext]_systemVars,
                      NEW n \in Node, job[n] = None, job'[n] # None,
                      NEW ev \in events, ev.id = job'[n].id,
                      ev.state = "accepted"
               PROVE  ev.id \in disturbed
    OBVIOUS
  <2> USE DEF SystemInvariant, WireInvariant, NodeInvariant, SystemTypeOK
  <2>1. PICK c \in commands : HandleCommand(c)
    <3>1. ~(Publish \/ McRuns \/ McFails)
      BY McSteps DEF nodeSide
    <3>2. ~NodeRuns /\ ~NodeFails
      BY DEF NodeRuns, NodeFails, HandleSession, Firmware!TakeSession,
             Firmware!PublishStatus, Firmware!RunnerStep,
             Firmware!ServoArrives, Firmware!ServoTimesOut,
             Firmware!NextServo, Firmware!ContactOpens, Firmware!Complete,
             Firmware!Advance, Firmware!Finish, Firmware!Forget,
             Firmware!Reboot, Firmware!DeadlinePassed, Firmware!NodeTypeOK
    <3> QED BY <3>1, <3>2 DEF SystemNext, systemVars, nodeSide
  <2>2. /\ c.request.node \in Node /\ c.request.id \in Execution
        /\ c.request = request[c.request.id]
    BY MessageType DEF WorkSent
  <2>3. /\ Firmware!Start(c.request.node, c)
        /\ c.request.node = n /\ c.request.id = ev.id
    BY <2>1, <2>2
    DEF HandleCommand, Firmware!AcceptCommand, Firmware!Replay,
        Firmware!Reject, Firmware!GiveUp, Firmware!Reply, Firmware!Start,
        Firmware!NodeTypeOK
  <2>4. PICK d \in commands : d.request.id = ev.id /\ d.boot = ev.boot
    BY DEF StartsGuarded
  <2>5. ev.boot = boot[n] /\ ev.node = n
    BY <2>2, <2>3, <2>4
    DEF StartsGuarded, WorkSent, Firmware!Start, Firmware!Acceptable
  <2>6. dedup[n][ev.id] = None /\ ev.id \notin late
    BY <2>3 DEF Firmware!Start, Firmware!Acceptable
  <2>7. executionId[n] # ev.id
    BY EventType DEF WorkSent
  <2> QED BY <2>5, <2>6, <2>7, EventType, BoundsAssumption
          DEF StartsGuarded, Guarded, Firmware!NodeTypeOK
<1> QED BY <1>1, SystemInvariantHolds, PTL DEF SystemSpec, RanOnce
=============================================================================
