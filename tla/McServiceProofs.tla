--------------------------- MODULE McServiceProofs ---------------------------
(***************************************************************************)
(* Proofs about McService, for every set of nodes, assets, requests and    *)
(* executions and every bound: type correctness, at-most-once publication, *)
(* exclusion of actuators across races, crashes and lost evidence, the     *)
(* order in which fenced work is admitted; and, without the operator's     *)
(* calls, the life cycle, the limits of admission and no leaked permit.    *)
(***************************************************************************)
EXTENDS McService, TLAPS, FiniteSetTheorems, WellFoundedInduction

----------------------------------------------------------------------------
(* Lemmas about the helpers *)

(* The permits a request asks for exist. *)
LEMMA GatesExist ==
    ASSUME NEW r \in Request
    PROVE  Gates(r) \subseteq Gate
BY DEF Request, Gates, Gate, ActuatorGate, SignalGate, Resource, Operation

(* The permits of a row are permits of the service. *)
LEMMA RowGatesExist ==
    ASSUME TypeOK, NEW e \in Execution, state[e] # "absent"
    PROVE  /\ request[e] \in Request
           /\ Gates(request[e]) \subseteq Gate
BY GatesExist, RequestsAssumption DEF TypeOK

(* A finite set of executions has a latest element: the strict subset      *)
(* ordering on the sets of later elements is well founded.                 *)
LEMMA LatestExists ==
    ASSUME created \in [Execution -> Nat],
           NEW S \in SUBSET Execution, S # {}
    PROVE  /\ Latest(S) \in S
           /\ \A f \in S : created[f] <= created[Latest(S)]
<1> DEFINE Later(e) == {f \in S : created[f] > created[e]}
           T == {Later(e) : e \in S}
<1>1. IsFiniteSet(S)
  BY FS_Subset, ExecutionAssumption
<1>2. IsWellFoundedOn(StrictSubsetOrdering(S), FiniteSubsetsOf(S))
  BY FS_StrictSubsetOrderingWellFounded
<1>3. T \subseteq FiniteSubsetsOf(S) /\ T # {}
  <2>1. FiniteSubsetsOf(S) = SUBSET S
    BY <1>1, FS_FiniteSubsetsOfFinite
  <2>2. T \subseteq SUBSET S /\ T # {}
    OBVIOUS
  <2> QED BY <2>1, <2>2
<1>4. PICK X \in T : \A Y \in T : ~(<<Y, X>> \in StrictSubsetOrdering(S))
  <2> HIDE DEF T
  <2> QED BY <1>2, <1>3, WFMin
<1>5. PICK e \in S : X = Later(e)
  OBVIOUS
<1>6. \A f \in S : created[f] <= created[e]
  <2> SUFFICES ASSUME NEW f \in S, created[f] > created[e]
               PROVE  FALSE
    OBVIOUS
  <2>1. Later(f) \in T /\ Later(f) \subseteq Later(e)
    OBVIOUS
  <2>2. f \in Later(e) /\ f \notin Later(f)
    OBVIOUS
  <2>3. <<Later(f), X>> \in StrictSubsetOrdering(S)
    BY <1>5, <2>1, <2>2 DEF StrictSubsetOrdering
  <2> QED BY <1>4, <2>1, <2>3
<1> QED BY <1>6 DEF Latest

(* Taking permits keeps the table of permits well typed. *)
LEMMA TakenType ==
    ASSUME created \in [Execution -> Nat],
           NEW S \in SUBSET Execution,
           NEW base \in [Gate -> Execution \cup {None}]
    PROVE  Taken(S, base) \in [Gate -> Execution \cup {None}]
<1> SUFFICES ASSUME NEW g \in Gate
             PROVE  Taken(S, base)[g] \in Execution \cup {None}
  BY DEF Taken
<1> DEFINE takers == {e \in S : g \in Gates(request[e])}
<1>1. CASE takers = {}
  BY <1>1 DEF Taken
<1>2. CASE takers # {}
  <2>1. Latest(takers) \in takers
    BY <1>2, LatestExists
  <2> QED BY <1>2, <2>1 DEF Taken
<1> QED BY <1>1, <1>2

(* One execution takes exactly its own permits. *)
LEMMA TakenOne ==
    ASSUME TypeOK, NEW e \in Execution, NEW g \in Gate
    PROVE  Taken({e}, gate)[g] = IF g \in Gates(request[e]) THEN e ELSE gate[g]
<1> DEFINE takers == {f \in {e} : g \in Gates(request[f])}
<1>1. CASE g \in Gates(request[e])
  <2>1. takers = {e}
    BY <1>1
  <2>2. Latest({e}) = e
    BY LatestExists DEF TypeOK
  <2> QED BY <1>1, <2>1, <2>2 DEF Taken
<1>2. CASE g \notin Gates(request[e])
  BY <1>2 DEF Taken
<1> QED BY <1>1, <1>2

(* Executions that all hold a permit, or all want nobody's, leave it with  *)
(* its one holder.                                                         *)
LEMMA TakenByHolder ==
    ASSUME created \in [Execution -> Nat],
           NEW S \in SUBSET Execution, NEW base, NEW g \in Gate,
           NEW h \in S, g \in Gates(request[h]),
           \A e \in S : g \in Gates(request[e]) => e = h
    PROVE  Taken(S, base)[g] = h
<1> DEFINE takers == {e \in S : g \in Gates(request[e])}
<1>1. takers = {h}
  OBVIOUS
<1>2. Latest({h}) = h
  BY LatestExists
<1> QED BY <1>1, <1>2 DEF Taken

LEMMA TakenByNobody ==
    ASSUME NEW S \in SUBSET Execution, NEW base, NEW g \in Gate,
           \A e \in S : g \notin Gates(request[e])
    PROVE  Taken(S, base)[g] = base[g]
BY DEF Taken

----------------------------------------------------------------------------
(* Type correctness *)

LEMMA IdleType ==
    /\ Idle \in Scheduler
    /\ Idle.pc = "idle" /\ Idle.scan = {} /\ Idle.id = None
    /\ None \notin Execution
BY BoundsAssumption, NoneAssumption DEF Idle, Scheduler

LEMMA TypeInit == Init => TypeOK
<1> SUFFICES ASSUME Init PROVE TypeOK
  OBVIOUS
<1> USE DEF Init
<1>1. /\ state \in [Execution -> State]
      /\ request \in [Execution -> Requests \cup {None}]
      /\ created \in [Execution -> Nat]
      /\ fence \in [Asset -> Nat]
  BY DEF State
<1>2. epoch \in 1..MaxEpoch
  BY BoundsAssumption
<1>3. /\ nodes \in [Node -> NodeRecord \cup {None}]
      /\ gate \in [Gate -> Execution \cup {None}]
      /\ sent \in [Execution -> Nat]
  OBVIOUS
<1> QED BY <1>1, <1>2, <1>3, IdleType DEF TypeOK

LEMMA TypeCore ==
    ASSUME TypeOK, CoreStep \/ CheckWatchdog
    PROVE  TypeOK'
<1>1. ASSUME NEW c \in 1..MaxCore, EstablishCoreSession(c)
      PROVE  TypeOK'
  BY <1>1, NoneAssumption DEF TypeOK, EstablishCoreSession, durable
<1>2. ASSUME NEW c \in 1..MaxCore, Heartbeat(c)
      PROVE  TypeOK'
  BY <1>2, NoneAssumption DEF TypeOK, Heartbeat, durable
<1>3. ASSUME NEW r \in Requests, Submit(r)
      PROVE  TypeOK'
  <2>1. r \in Request /\ Cardinality(Rows) \in Nat
    BY RequestsAssumption, ExecutionAssumption, FS_Subset, FS_CardinalityType
       DEF Rows
  <2>2. fence' \in [Asset -> Nat]
    BY <1>3, <2>1 DEF TypeOK, Submit, AdvancedFence, Request
  <2>3. CASE UNCHANGED ledger
    BY <1>3, <2>2, <2>3 DEF TypeOK, Submit, ledger
  <2>4. CASE ~UNCHANGED ledger
    <3>1. /\ r.id \in Execution
          /\ state' = [state EXCEPT ![r.id] = "queued"]
          /\ request' = [request EXCEPT ![r.id] = r]
          /\ created' = [created EXCEPT ![r.id] = Cardinality(Rows) + 1]
      BY <1>3, <2>1, <2>4 DEF Submit, Request, Transition, ledger
    <3>2. state' \in [Execution -> State] /\ created' \in [Execution -> Nat]
      BY <2>1, <3>1 DEF TypeOK, State, NonTerminal
    <3>3. request' \in [Execution -> Requests \cup {None}]
      BY <3>1 DEF TypeOK
    <3>4. \A e \in Execution :
             /\ state[e] # "absent" => state'[e] # "absent"
             /\ state'[e] # "absent" =>
                   request'[e] \in Requests /\ request'[e].id = e
      BY <3>1 DEF TypeOK
    <3> QED BY <1>3, <2>2, <3>2, <3>3, <3>4 DEF TypeOK, Submit, Scheduler, Event, Resolution
  <2> QED BY <2>3, <2>4
<1>4. CASE CheckWatchdog
  BY <1>4 DEF TypeOK, CheckWatchdog, durable
<1> QED BY <1>1, <1>2, <1>3, <1>4 DEF CoreStep

(* Writing one row's state keeps the table well typed and loses no row. *)
LEMMA TransitionType ==
    ASSUME TypeOK, NEW e \in Execution, NEW s \in State \ {"absent"},
           Transition(e, s), state[e] # "absent"
    PROVE  /\ state' \in [Execution -> State]
           /\ state'[e] = s
           /\ \A f \in Execution :
                 /\ f # e => state'[f] = state[f]
                 /\ state'[f] = "absent" <=> state[f] = "absent"
BY DEF TypeOK, Transition

LEMMA TypeScheduler ==
    ASSUME TypeOK, SchedulerStep
    PROVE  TypeOK'
<1>1. CASE RunOnce
  <2> DEFINE queue == {e \in Execution : state[e] = "queued"}
  <2>1. /\ sched' \in Scheduler
        /\ sched'.pc = "scan" /\ sched'.scan = queue /\ sched'.id = None
    <3>1. sched' = [pc |-> "scan", scan |-> queue, id |-> None, boot |-> 0]
      BY <1>1 DEF RunOnce, Idle
    <3> QED BY <3>1, BoundsAssumption DEF Scheduler
  <2> QED BY <1>1, <2>1, IdleType DEF TypeOK, RunOnce, durable, environment
<1>2. CASE ScanExhausted
  <2>1. sched' = Idle
    BY <1>2 DEF ScanExhausted
  <2> QED BY <1>2, <2>1, IdleType
      DEF TypeOK, ScanExhausted, durable, environment
<1>3. ASSUME NEW e \in Execution, ExpireQueued(e)
      PROVE  TypeOK'
  <2>1. state[e] # "absent" /\ Transition(e, "expired")
    BY <1>3 DEF TypeOK, ExpireQueued, Considers
  <2>2. /\ state' \in [Execution -> State]
        /\ \A f \in Execution : state'[f] = "absent" <=> state[f] = "absent"
    BY <2>1, TransitionType DEF State, Terminal
  <2> QED BY <1>3, <2>2
      DEF TypeOK, Scheduler, ExpireQueued, environment, Event, Resolution
<1>4. ASSUME NEW e \in Execution, SkipIneligible(e)
      PROVE  TypeOK'
  BY <1>4 DEF TypeOK, Scheduler, SkipIneligible, durable, environment
<1>5. ASSUME NEW e \in Execution, AcquireGates(e)
      PROVE  TypeOK'
  <2>1. gate' \in [Gate -> Execution \cup {None}]
    BY <1>5, TakenType DEF TypeOK, AcquireGates
  <2>2. state[e] # "absent" /\ nodes[request[e].node] \in NodeRecord
    BY <1>5, RowGatesExist DEF TypeOK, AcquireGates, Considers, Eligible,
                               NodeReady, Request
  <2>3. sched' \in Scheduler
    BY <1>5, <2>2 DEF AcquireGates, NodeRecord, Scheduler
  <2>4. sched'.scan = {} /\ sched'.id = e
    BY <1>5 DEF AcquireGates
  <2> QED BY <1>5, <2>1, <2>2, <2>3, <2>4
      DEF TypeOK, AcquireGates, durable, environment
<1>6. CASE MarkDispatched
  <2>1. /\ sched.id \in Execution /\ state[sched.id] # "absent"
        /\ Transition(sched.id, "dispatched")
    BY <1>6 DEF TypeOK, MarkDispatched
  <2>2. /\ state' \in [Execution -> State]
        /\ \A f \in Execution : state'[f] = "absent" <=> state[f] = "absent"
    BY <2>1, TransitionType DEF State, NonTerminal, Active
  <2> QED BY <1>6, <2>1, <2>2
      DEF TypeOK, Scheduler, MarkDispatched, environment, Event, Resolution
<1>7. CASE PublishCommand
  <2>1. sched' = Idle /\ sent' \in [Execution -> Nat]
    BY <1>7 DEF PublishCommand, TypeOK
  <2> QED BY <1>7, <2>1, IdleType
      DEF TypeOK, PublishCommand, durable, environment
<1>8. CASE PublishFails
  <2>1. /\ sched.id \in Execution /\ state[sched.id] # "absent"
        /\ Transition(sched.id, "uncertain")
        /\ gate' = Taken({sched.id}, gate)
    BY <1>8 DEF TypeOK, PublishFails, Uncertain
  <2>2. /\ state' \in [Execution -> State]
        /\ \A f \in Execution : state'[f] = "absent" <=> state[f] = "absent"
    BY <2>1, TransitionType DEF State, NonTerminal
  <2>3. gate' \in [Gate -> Execution \cup {None}]
    BY <2>1, TakenType DEF TypeOK
  <2>4. sent' \in [Execution -> Nat]
    BY <1>8 DEF TypeOK, PublishFails
  <2>5. sched' = Idle
    BY <1>8 DEF PublishFails
  <2> QED BY <1>8, <2>2, <2>3, <2>4, <2>5, IdleType
      DEF TypeOK, PublishFails, environment, Event, Resolution
<1> QED BY <1>1, <1>2, <1>3, <1>4, <1>5, <1>6, <1>7, <1>8 DEF SchedulerStep

LEMMA ReleasedType ==
    ASSUME TypeOK, NEW e \in Execution
    PROVE  Released(e) \in [Gate -> Execution \cup {None}]
BY DEF TypeOK, Released

LEMMA TypeStoreNode ==
    ASSUME TypeOK, NEW n \in Node, NEW rec \in NodeRecord, StoreNode(n, rec)
    PROVE  /\ nodes' \in [Node -> NodeRecord \cup {None}]
           /\ offered' \in SUBSET (Node \X (0..MaxBoot) \X (1..MaxEpoch))
BY DEF TypeOK, StoreNode, NodeRecord

LEMMA TypeMqtt ==
    ASSUME TypeOK, MqttStep
    PROVE  TypeOK'
<1>1. ASSUME NEW ev \in Event, HandleEvent(ev)
      PROVE  TypeOK'
  BY <1>1 DEF TypeOK, HandleEvent, TakeEvent, durable, environment
<1>2. CASE RecordEvent
  <2>1. /\ callback \in Event /\ callback.id \in Execution
        /\ state[callback.id] # "absent"
        /\ callback.state \in State \ {"absent"}
    BY <1>2 DEF TypeOK, RecordEvent, Event, State, NonTerminal, Terminal, Active
  <2>2. Transition(callback.id, callback.state)
    BY <1>2 DEF RecordEvent, Uncertain
  <2>3. /\ state' \in [Execution -> State]
        /\ \A f \in Execution : state'[f] = "absent" <=> state[f] = "absent"
    BY <2>1, <2>2, TransitionType
  <2>4. \/ gate' = Taken({callback.id}, gate)
        \/ gate' = Released(callback.id)
        \/ gate' = gate
    BY <1>2 DEF RecordEvent, Uncertain
  <2>5. gate' \in [Gate -> Execution \cup {None}]
    <3>1. Taken({callback.id}, gate) \in [Gate -> Execution \cup {None}]
      BY <2>1, TakenType DEF TypeOK
    <3>2. Released(callback.id) \in [Gate -> Execution \cup {None}]
      BY <2>1, ReleasedType
    <3> QED BY <2>4, <3>1, <3>2 DEF TypeOK
  <2> QED BY <1>2, <2>3, <2>5
      DEF TypeOK, RecordEvent, Scheduler, environment, Event, Resolution
<1>3. ASSUME NEW n \in Node, NEW b \in 1..MaxBoot, NEW c \in Config,
             NEW s \in 0..epoch, HandleStatus(n, b, c, s)
      PROVE  TypeOK'
  <2> DEFINE rebooted == /\ nodes[n] # None /\ nodes[n].boot # 0
                         /\ nodes[n].boot # b
             lost == {e \in Outstanding : rebooted /\ request[e].node = n
                                                    /\ state[e] # "queued"}
  <2>1. state' \in [Execution -> State]
    BY <1>3 DEF HandleStatus, TakeStatus, TypeOK, State, NonTerminal
  <2>2. \A f \in Execution : state'[f] = "absent" <=> state[f] = "absent"
    BY <1>3 DEF HandleStatus, TakeStatus, TypeOK, Outstanding, Rows
  <2>3. gate' = Taken(lost, gate)
    BY <1>3 DEF HandleStatus, TakeStatus
  <2>4. lost \in SUBSET Execution
    BY DEF Outstanding, Rows
  <2>5. gate' \in [Gate -> Execution \cup {None}]
    <3> HIDE DEF lost
    <3> QED BY <2>3, <2>4, TakenType DEF TypeOK
  <2>6. [boot |-> b, config |-> c, session |-> s, availability |-> "online"]
           \in NodeRecord
    <3>1. s \in 0..MaxEpoch /\ b \in 0..MaxBoot
      BY BoundsAssumption DEF TypeOK
    <3> QED BY <3>1 DEF NodeRecord
  <2>7. /\ nodes' \in [Node -> NodeRecord \cup {None}]
        /\ offered' \in SUBSET (Node \X (0..MaxBoot) \X (1..MaxEpoch))
    BY <1>3, <2>6, TypeStoreNode DEF HandleStatus, TakeStatus
  <2> QED BY <1>3, <2>1, <2>2, <2>5, <2>7
      DEF TypeOK, HandleStatus, TakeStatus, Scheduler, environment, Event, Resolution
<1>4. ASSUME NEW n \in Node, NEW b \in 0..MaxBoot,
             NEW a \in {"online", "offline"}, HandleAvailability(n, b, a)
      PROVE  TypeOK'
  <2> DEFINE known == IF nodes[n] # None THEN nodes[n]
                      ELSE [boot |-> 0, config |-> None, session |-> 0,
                            availability |-> a]
             rec == [known EXCEPT !.boot = IF b # 0 THEN b ELSE @,
                                  !.availability = a]
  <2>1. known \in NodeRecord
    BY BoundsAssumption DEF TypeOK, NodeRecord
  <2>2. rec \in NodeRecord
    BY <2>1 DEF NodeRecord
  <2>3. StoreNode(n, rec)
    BY <1>4 DEF HandleAvailability
  <2>4. /\ nodes' \in [Node -> NodeRecord \cup {None}]
        /\ offered' \in SUBSET (Node \X (0..MaxBoot) \X (1..MaxEpoch))
    <3> HIDE DEF rec
    <3> QED BY <2>2, <2>3, TypeStoreNode
  <2> QED BY <1>4, <2>4 DEF TypeOK, HandleAvailability, durable, environment
<1> QED BY <1>1, <1>2, <1>3, <1>4 DEF MqttStep

LEMMA TypeOperator ==
    ASSUME TypeOK, OperatorStep
    PROVE  TypeOK'
<1>1. ASSUME NEW e \in Execution, Cancel(e)
      PROVE  TypeOK'
  BY <1>1 DEF TypeOK, Cancel, Resolution, durable, environment
<1>2. ASSUME NEW e \in Execution, NEW to \in {"completed", "failed"},
             Reconcile(e, to)
      PROVE  TypeOK'
  BY <1>2 DEF TypeOK, Reconcile, Resolution, durable, environment
<1>3. ASSUME NEW r \in inflight, Resolve(r)
      PROVE  TypeOK'
  <2>1. /\ r.id \in Execution /\ state[r.id] # "absent"
        /\ r.to \in State \ {"absent"} /\ Transition(r.id, r.to)
    BY <1>3 DEF TypeOK, Resolve, Resolution, State, Terminal
  <2>2. /\ state' \in [Execution -> State]
        /\ \A f \in Execution : state'[f] = "absent" <=> state[f] = "absent"
    BY <2>1, TransitionType
  <2>3. gate' \in [Gate -> Execution \cup {None}]
    BY <1>3, <2>1, ReleasedType DEF TypeOK, Resolve
  <2> QED BY <1>3, <2>2, <2>3
      DEF TypeOK, Resolve, Scheduler, environment, Event, Resolution
<1> QED BY <1>1, <1>2, <1>3 DEF OperatorStep

LEMMA TypeEnvironment ==
    ASSUME TypeOK, EnvironmentStep
    PROVE  TypeOK'
<1>1. CASE Connect \/ Disconnect
  <2>1. connected' \in BOOLEAN
    BY <1>1, Zenon DEF Connect, Disconnect
  <2>2. UNCHANGED <<state, request, created, fence, epoch, core, overdue, due,
                    nodes, gate, sched, callback, inflight, sent, offered>>
    BY <1>1 DEF Connect, Disconnect, durable
  <2> QED BY <2>1, <2>2 DEF TypeOK
<1>2. CASE HeartbeatLapses
  BY <1>2 DEF TypeOK, HeartbeatLapses, durable
<1>3. ASSUME NEW e \in Execution, DeadlinePasses(e)
      PROVE  TypeOK'
  BY <1>3 DEF TypeOK, DeadlinePasses, durable
<1>4. ASSUME NEW n \in Node, NodeFallsSilent(n)
      PROVE  TypeOK'
  <2>1. [nodes[n] EXCEPT !.availability = "offline"] \in NodeRecord
    BY <1>4 DEF TypeOK, NodeFallsSilent, NodeRecord
  <2>2. nodes' \in [Node -> NodeRecord \cup {None}]
    BY <1>4, <2>1 DEF TypeOK, NodeFallsSilent
  <2> QED BY <1>4, <2>2 DEF TypeOK, NodeFallsSilent, durable, environment
<1> QED BY <1>1, <1>2, <1>3, <1>4 DEF EnvironmentStep

LEMMA TypeRestart ==
    ASSUME TypeOK, Restart
    PROVE  TypeOK'
<1> DEFINE held == {e \in Execution : Recovered(state[e]) = "uncertain"}
           free == [g \in Gate |-> None]
<1>1. /\ state' \in [Execution -> State]
      /\ \A f \in Execution : state'[f] = "absent" <=> state[f] = "absent"
  BY DEF TypeOK, Restart, Recovered, State, NonTerminal, Active
<1>2. Taken(held, free) \in [Gate -> Execution \cup {None}]
  BY TakenType DEF TypeOK
<1>3. gate' = [g \in Gate |-> IF g \in ActuatorGate
                              THEN Taken(held, free)[g] ELSE None]
  BY DEF Restart, Reclaimed
<1>4. gate' \in [Gate -> Execution \cup {None}]
  <2> HIDE DEF held, free
  <2> QED BY <1>2, <1>3
<1>5. epoch' \in 1..MaxEpoch
  BY BoundsAssumption DEF TypeOK, Restart
<1>6. /\ nodes' \in [Node -> NodeRecord \cup {None}]
      /\ sched' = Idle /\ callback' = None /\ inflight' = {} /\ core' = None
      /\ overdue' = FALSE /\ connected' = FALSE
  BY DEF Restart
<1> QED BY <1>1, <1>4, <1>5, <1>6, IdleType DEF TypeOK, Restart

(* Every state has the declared types, and every reference from a thread   *)
(* or a pending call to an execution is to a stored row.                   *)
THEOREM TypeCorrect == Spec => []TypeOK
<1>1. TypeOK /\ [Next]_vars => TypeOK'
  <2> SUFFICES ASSUME TypeOK, [Next]_vars
               PROVE  TypeOK'
    OBVIOUS
  <2>1. CASE ServiceStep
    BY <2>1, TypeCore, TypeScheduler, TypeMqtt, TypeEnvironment, TypeRestart
    DEF ServiceStep
  <2>2. CASE OperatorStep
    BY <2>2, TypeOperator
  <2>3. CASE UNCHANGED vars
    BY <2>3 DEF vars, TypeOK
  <2> QED BY <2>1, <2>2, <2>3 DEF Next
<1> QED BY TypeInit, <1>1, PTL DEF Spec

----------------------------------------------------------------------------
(* The permit invariant *)

(* Work that may be moving and retakes its actuator permits changes none. *)
LEMMA RetakenUnchanged ==
    ASSUME TypeOK, PermitInvariant,
           NEW S \in SUBSET {e \in Execution : state[e] \in Live},
           NEW g \in ActuatorGate
    PROVE  Taken(S, gate)[g] = gate[g]
<1> g \in Gate
  BY DEF Gate
<1>1. CASE \A e \in S : g \notin Gates(request[e])
  BY <1>1, TakenByNobody
<1>2. ASSUME NEW h \in S, g \in Gates(request[h])
      PROVE  Taken(S, gate)[g] = gate[g]
  <2>1. \A e \in S : g \in Gates(request[e]) => gate[g] = e
    BY DEF PermitInvariant, Holds, Permits
  <2>2. \A e \in S : g \in Gates(request[e]) => e = h
    BY <1>2, <2>1
  <2>3. created \in [Execution -> Nat]
    BY DEF TypeOK
  <2>4. Taken(S, gate)[g] = h
    BY <1>2, <2>2, <2>3, TakenByHolder
  <2> QED BY <1>2, <2>1, <2>4
<1> QED BY <1>1, <1>2

LEMMA PermitInit == Init => PermitInvariant
BY IdleType DEF Init, PermitInvariant, PublishedOnce, Live, Active

(* Steps that touch neither the rows, the permits, nor what a thread or a  *)
(* call has in hand.                                                       *)
LEMMA PermitFrame ==
    ASSUME PermitInvariant,
           UNCHANGED <<state, request, sent, gate, sched, callback, inflight>>
    PROVE  PermitInvariant'
BY DEF PermitInvariant, PublishedOnce, Holds, Permits, Unreconciled,
       Dispatchable

LEMMA PermitSubmit ==
    ASSUME TypeOK, PermitInvariant, NEW r \in Requests, Submit(r)
    PROVE  PermitInvariant'
<1>1. CASE UNCHANGED ledger
  BY <1>1, PermitFrame DEF Submit, ledger
<1>2. CASE ~UNCHANGED ledger
  <2>1. /\ r.id \in Execution /\ state[r.id] = "absent"
        /\ state' = [state EXCEPT ![r.id] = "queued"]
        /\ request' = [request EXCEPT ![r.id] = r]
        /\ UNCHANGED <<sent, gate, sched, callback, inflight>>
    BY <1>2, RequestsAssumption
    DEF Submit, Known, Request, Transition, ledger, Rows
  <2>2. \A e \in Execution :
           e # r.id => state'[e] = state[e] /\ request'[e] = request[e]
    BY <2>1 DEF TypeOK
  <2>3. sent[r.id] = 0 /\ state'[r.id] = "queued"
    BY <2>1 DEF PermitInvariant, TypeOK
  <2> QED BY <2>1, <2>2, <2>3
      DEF TypeOK, PermitInvariant, PublishedOnce, Holds, Permits, Unreconciled,
          Dispatchable, Live, Active, Scheduler, Event, Resolution
<1> QED BY <1>1, <1>2

LEMMA PermitScheduler ==
    ASSUME TypeOK, PermitInvariant, SchedulerStep
    PROVE  PermitInvariant'
<1> USE DEF PermitInvariant, PublishedOnce, Holds, Permits, Unreconciled,
            Dispatchable
<1>1. CASE RunOnce
  <2>1. /\ sched'.pc = "scan"
        /\ sched'.scan = {e \in Execution : state[e] = "queued"}
        /\ UNCHANGED <<state, request, sent, gate, callback, inflight>>
    BY <1>1 DEF RunOnce, Idle, durable
  <2>2. \A e \in sched'.scan : Dispatchable(e)
    BY <2>1 DEF Terminal
  <2> QED BY <2>1, <2>2
<1>2. CASE ScanExhausted
  <2>1. /\ sched' = Idle
        /\ UNCHANGED <<state, request, sent, gate, callback, inflight>>
    BY <1>2 DEF ScanExhausted, durable
  <2> QED BY <2>1, IdleType
<1>3. ASSUME NEW e \in Execution, ExpireQueued(e)
      PROVE  PermitInvariant'
  <2>1. /\ sched.pc = "scan" /\ e \in sched.scan
        /\ state' = [state EXCEPT ![e] = "expired"]
        /\ sched'.pc = "scan" /\ sched'.scan = sched.scan \ {e}
        /\ UNCHANGED <<request, sent, gate, callback, inflight>>
    BY <1>3 DEF ExpireQueued, Considers, Transition, TypeOK, Scheduler
  <2>2. /\ state'[e] = "expired"
        /\ \A f \in Execution : f # e => state'[f] = state[f]
    BY <2>1 DEF TypeOK
  <2>3. callback # None => callback.id # e
    BY <2>1
  <2> QED BY <2>1, <2>2, <2>3
      DEF TypeOK, Scheduler, Event, Resolution, Live, Active, Terminal
<1>4. ASSUME NEW e \in Execution, SkipIneligible(e)
      PROVE  PermitInvariant'
  <2>1. /\ sched'.pc = sched.pc /\ sched.pc = "scan"
        /\ sched'.scan = sched.scan \ {e}
        /\ UNCHANGED <<state, request, sent, gate, callback, inflight>>
    BY <1>4 DEF SkipIneligible, Considers, durable, TypeOK, Scheduler
  <2> QED BY <2>1
<1>5. ASSUME NEW e \in Execution, AcquireGates(e)
      PROVE  PermitInvariant'
  <2>1. /\ sched.pc = "scan" /\ e \in sched.scan
        /\ sched'.pc = "acquired" /\ sched'.scan = {} /\ sched'.id = e
        /\ UNCHANGED <<state, request, sent, callback, inflight>>
    BY <1>5 DEF AcquireGates, Considers, durable
  <2>2. \A g \in Gates(request[e]) : gate[g] = None
    BY <1>5 DEF AcquireGates, Eligible
  <2>3. \A g \in Gate :
           gate'[g] = IF g \in Gates(request[e]) THEN e ELSE gate[g]
    BY <1>5, TakenOne DEF AcquireGates
  <2>4. \A f \in Execution : Holds(f) => Holds(f)'
    BY <2>1, <2>2, <2>3, NoneAssumption DEF Gate
  <2>5. Holds(e)'
    BY <2>1, <2>3 DEF Gate
  <2> QED BY <2>1, <2>4, <2>5 DEF TypeOK, Event
<1>6. CASE MarkDispatched
  <2>1. /\ sched.pc = "acquired" /\ sched.id \in Execution
        /\ state' = [state EXCEPT ![sched.id] = "dispatched"]
        /\ sched'.pc = "dispatched" /\ sched'.id = sched.id
        /\ sched'.scan = sched.scan
        /\ UNCHANGED <<request, sent, gate, callback, inflight>>
    BY <1>6 DEF MarkDispatched, Transition, TypeOK, Scheduler
  <2>2. /\ state'[sched.id] = "dispatched"
        /\ \A f \in Execution : f # sched.id => state'[f] = state[f]
    BY <2>1 DEF TypeOK
  <2>3. callback # None => callback.id # sched.id
    BY <2>1
  <2> QED BY <2>1, <2>2, <2>3
      DEF TypeOK, Scheduler, Event, Resolution, Live, Active, Terminal
<1>7. CASE PublishCommand
  <2>1. PICK x \in Execution : x = sched.id /\ state[x] # "absent"
    BY <1>7 DEF PublishCommand, TypeOK
  <2>2. /\ sched.pc = "dispatched" /\ sent[x] = 0
        /\ sent' = [sent EXCEPT ![x] = @ + 1] /\ sched' = Idle
        /\ UNCHANGED <<state, request, gate, callback, inflight>>
    BY <1>7, <2>1 DEF PublishCommand, TypeOK, durable
  <2>3. state[x] # "queued"
    BY <2>1, <2>2
  <2>4. /\ sent'[x] = 1
        /\ \A f \in Execution : f # x => sent'[f] = sent[f]
    BY <2>2 DEF TypeOK
  <2>5. sched'.pc = "idle" /\ sched'.scan = {}
    BY <2>2, IdleType
  <2>6. \A f \in Execution : Holds(f)' <=> Holds(f)
    BY <2>2
  <2>7. callback # None => callback.id \in Execution
    BY DEF TypeOK, Event
  <2>8. \A f \in Execution :
           /\ sent'[f] <= 1
           /\ state'[f] \in {"absent", "queued"} => sent'[f] = 0
           /\ state'[f] \in Live => Holds(f)'
    BY <2>1, <2>2, <2>3, <2>4, <2>6
  <2>9. callback # None => sent'[callback.id] > 0 /\ Holds(callback.id)'
    BY <2>2, <2>4, <2>6, <2>7
  <2> QED BY <2>2, <2>5, <2>8, <2>9
<1>8. CASE PublishFails
  <2>1. PICK x \in Execution : x = sched.id
    BY <1>8 DEF PublishFails, TypeOK
  <2>2. /\ sched.pc = "dispatched" /\ sent[x] = 0
        /\ state' = [state EXCEPT ![x] = "uncertain"]
        /\ gate' = Taken({x}, gate)
        /\ sent' = sent \/ sent' = [sent EXCEPT ![x] = @ + 1]
        /\ sched' = Idle
        /\ UNCHANGED <<request, callback, inflight>>
    BY <1>8, <2>1 DEF PublishFails, Uncertain, Transition
  <2>3. /\ sent'[x] \in {0, 1}
        /\ \A f \in Execution : f # x => sent'[f] = sent[f]
    BY <2>2 DEF TypeOK
  <2>4. \A g \in Gate :
           gate'[g] = IF g \in Gates(request[x]) THEN x ELSE gate[g]
    BY <2>2, TakenOne
  <2>5. \A f \in Execution : Holds(f) => Holds(f)'
    <3>1. \A g \in Permits(x) : gate[g] \in {x, None}
      BY <2>1, <2>2
    <3>2. Permits(x) \subseteq Gate /\ Gates(request[x]) \cap ActuatorGate
                                           = Permits(x)
      BY DEF Gate
    <3>3. ASSUME NEW f \in Execution, Holds(f), NEW g \in Permits(f)
          PROVE  gate'[g] = f
      <4>1. g \in Gate /\ g \in ActuatorGate /\ gate[g] = f
        BY <3>3 DEF Gate
      <4>2. g \in Gates(request[x]) => f = x
        BY <3>1, <3>2, <4>1, NoneAssumption
      <4> QED BY <2>4, <4>1, <4>2
    <3> QED BY <2>2, <3>3
  <2>6. Holds(x)'
    BY <2>2, <2>4 DEF Gate
  <2>7. callback # None => callback.id # x
    BY <2>2
  <2>8. /\ state'[x] = "uncertain"
        /\ \A f \in Execution : f # x => state'[f] = state[f]
    BY <2>2 DEF TypeOK
  <2>9. sched'.pc = "idle" /\ sched'.scan = {}
    BY <2>2, IdleType
  <2> HIDE DEF Holds
  <2> QED BY <2>1, <2>2, <2>3, <2>5, <2>6, <2>7, <2>8, <2>9
      DEF TypeOK, Event, Resolution, Terminal, Live, Active
<1> QED BY <1>1, <1>2, <1>3, <1>4, <1>5, <1>6, <1>7, <1>8 DEF SchedulerStep

LEMMA PermitMqtt ==
    ASSUME TypeOK, PermitInvariant, MqttStep
    PROVE  PermitInvariant'
<1> USE DEF PermitInvariant, PublishedOnce, Holds, Permits, Unreconciled,
            Dispatchable
<1>1. ASSUME NEW ev \in Event, HandleEvent(ev)
      PROVE  PermitInvariant'
  <2>1. /\ callback' = ev /\ ev.id \in Execution
        /\ sent[ev.id] > 0 /\ state[ev.id] \in Active
        /\ UNCHANGED <<state, request, sent, gate, sched, inflight>>
    BY <1>1 DEF HandleEvent, TakeEvent, Event, AllowedEvents, Active, durable
  <2>2. Holds(ev.id) /\ Unreconciled(ev.id)
    BY <2>1 DEF Live, Active, Terminal
  <2> QED BY <2>1, <2>2
<1>2. CASE RecordEvent
  <2>1. PICK x \in Execution : callback # None /\ x = callback.id
    BY <1>2 DEF RecordEvent, TypeOK, Event
  <2>2. PICK s \in State \ {"absent", "queued"} : s = callback.state
    BY <1>2 DEF RecordEvent, TypeOK, Event, State, NonTerminal, Terminal, Active
  <2>3. /\ sent[x] > 0 /\ Holds(x) /\ Unreconciled(x)
        /\ state[x] \in Active \cup {"cancelled"}
    BY <2>1
  <2>4. /\ state' = [state EXCEPT ![x] = s]
        /\ callback' = None
        /\ UNCHANGED <<request, sent, sched, inflight>>
    BY <1>2, <2>1, <2>2 DEF RecordEvent, Uncertain, Transition
  <2>5. /\ state'[x] = s
        /\ \A f \in Execution : f # x => state'[f] = state[f]
    BY <2>4 DEF TypeOK
  <2>6. \/ gate' = Taken({x}, gate) /\ s = "uncertain"
        \/ gate' = Released(x) /\ s \in Terminal
        \/ gate' = gate
    BY <1>2, <2>1, <2>2 DEF RecordEvent, Uncertain
  <2>7. \A g \in ActuatorGate :
           \/ gate'[g] = gate[g]
           \/ gate[g] = x /\ gate'[g] = None /\ s \in Terminal
    <3> TAKE g \in ActuatorGate
    <3>1. g \in Gate
      BY DEF Gate
    <3>2. Taken({x}, gate)[g] = IF g \in Gates(request[x]) THEN x ELSE gate[g]
      BY <3>1, TakenOne
    <3> QED BY <2>3, <2>6, <3>1, <3>2 DEF Released
  <2>8. \A f \in Execution : Holds(f) => (f = x /\ s \in Terminal) \/ Holds(f)'
    BY <2>4, <2>7
  <2>9. s \in Live => s \notin Terminal
    BY DEF Live, Active, Terminal
  <2>10. \A f \in Execution : state'[f] \in Live => Holds(f)'
    BY <2>3, <2>5, <2>8, <2>9
  <2>11. sched.pc = "acquired" => sched.id \in Execution /\ sched.id # x
    BY <2>3 DEF TypeOK
  <2>12. sched.pc = "dispatched" => sched.id \in Execution /\ sched.id # x
    BY <2>3 DEF TypeOK
  <2>13. sched.pc = "scan" => \A e \in sched.scan : e \in Execution /\ e # x
    BY <2>3 DEF TypeOK, Scheduler
  <2>14. \A r \in inflight : r.id \in Execution
    BY DEF TypeOK, Resolution
  <2>15. /\ sched.pc = "acquired" => Holds(sched.id)'
         /\ sched.pc = "dispatched" =>
               \A g \in Permits(sched.id) : gate'[g] \in {sched.id, None}
    BY <2>4, <2>7, <2>11, <2>12
  <2>16. PublishedOnce' /\ \A f \in Execution :
            state'[f] \in {"absent", "queued"} => sent'[f] = 0
    BY <2>3, <2>4, <2>5
  <2>17. \A r \in inflight :
            r.to # "cancelled" => state'[r.id] \in {"uncertain"} \cup Terminal
    BY <2>3, <2>5, <2>14
  <2> QED BY <2>4, <2>5, <2>10, <2>11, <2>12, <2>13, <2>15, <2>16, <2>17
<1>3. ASSUME NEW n \in Node, NEW b \in 1..MaxBoot, NEW c \in Config,
             NEW s \in 0..epoch, HandleStatus(n, b, c, s)
      PROVE  PermitInvariant'
  <2> DEFINE rebooted == /\ nodes[n] # None /\ nodes[n].boot # 0
                         /\ nodes[n].boot # b
             lost == {e \in Outstanding : rebooted /\ request[e].node = n
                                                    /\ state[e] # "queued"}
  <2>1. /\ callback = None
        /\ gate' = Taken(lost, gate)
        /\ state' = [e \in Execution |->
                       IF e \in lost THEN "uncertain" ELSE state[e]]
        /\ UNCHANGED <<request, sent, sched, callback, inflight>>
    BY <1>3 DEF HandleStatus, TakeStatus
  <2>2. lost \subseteq {e \in Execution : state[e] \in Live}
    BY DEF Outstanding, Rows, NonTerminal, Live
  <2>3. \A g \in ActuatorGate : gate'[g] = gate[g]
    <3> HIDE DEF lost
    <3> QED BY <2>1, <2>2, RetakenUnchanged
  <2>4. \A f \in Execution : state'[f] \in {state[f], "uncertain"}
    BY <2>1
  <2>5. \A f \in Execution : state'[f] # state[f] => state[f] \in Live
    BY <2>1, <2>2
  <2> HIDE DEF lost
  <2>6. \A f \in Execution : Holds(f)' <=> Holds(f)
    BY <2>1, <2>3
  <2>7. \A f \in Execution : Dispatchable(f) => Dispatchable(f)'
    BY <2>1, <2>5 DEF Live, Active
  <2>8. \A f \in Execution :
           /\ sent'[f] <= 1
           /\ state'[f] \in {"absent", "queued"} => sent'[f] = 0
           /\ state'[f] \in Live => Holds(f)'
    BY <2>1, <2>4, <2>5, <2>6
  <2>9. sched.pc \in {"acquired", "dispatched"} => sched.id \in Execution
    BY DEF TypeOK
  <2>10. sched.pc = "dispatched" =>
            /\ state'[sched.id] # "queued"
            /\ \A g \in Permits(sched.id) : gate'[g] \in {sched.id, None}
    BY <2>3, <2>4, <2>9
  <2>11. sched.pc = "scan" => \A e \in sched.scan : Dispatchable(e)'
    BY <2>7 DEF TypeOK, Scheduler
  <2>12. sched.pc = "acquired" => Dispatchable(sched.id)' /\ Holds(sched.id)'
    BY <2>1, <2>6, <2>7, <2>9
  <2>13. \A r \in inflight :
            r.to # "cancelled" => state'[r.id] \in {"uncertain"} \cup Terminal
    BY <2>4 DEF TypeOK, Resolution
  <2> QED BY <2>1, <2>8, <2>10, <2>11, <2>12, <2>13
<1>4. ASSUME NEW n \in Node, NEW b \in 0..MaxBoot,
             NEW a \in {"online", "offline"}, HandleAvailability(n, b, a)
      PROVE  PermitInvariant'
  BY <1>4, PermitFrame DEF HandleAvailability, durable
<1> QED BY <1>1, <1>2, <1>3, <1>4 DEF MqttStep

LEMMA PermitOperator ==
    ASSUME TypeOK, PermitInvariant, OperatorStep
    PROVE  PermitInvariant'
<1> USE DEF PermitInvariant, PublishedOnce, Holds, Permits, Unreconciled,
            Dispatchable
<1>1. ASSUME NEW e \in Execution, Cancel(e)
      PROVE  PermitInvariant'
  <2>1. /\ inflight' = inflight \cup {[id |-> e, to |-> "cancelled"]}
        /\ UNCHANGED <<state, request, sent, gate, sched, callback>>
    BY <1>1 DEF Cancel, durable
  <2> QED BY <2>1
<1>2. ASSUME NEW e \in Execution, NEW to \in {"completed", "failed"},
             Reconcile(e, to)
      PROVE  PermitInvariant'
  <2>1. /\ inflight' = inflight \cup {[id |-> e, to |-> to]}
        /\ state[e] = "uncertain"
        /\ UNCHANGED <<state, request, sent, gate, sched, callback>>
    BY <1>2 DEF Reconcile, durable
  <2>2. \A f \in Execution : Dispatchable(f) => Dispatchable(f)'
    BY <2>1
  <2>3. callback # None => callback.id # e
    BY <2>1 DEF Active
  <2>4. callback # None => Unreconciled(callback.id)'
    BY <2>1, <2>3
  <2> QED BY <2>1, <2>2, <2>4 DEF TypeOK, Scheduler
<1>3. ASSUME NEW r \in inflight, Resolve(r)
      PROVE  PermitInvariant'
  <2>1. PICK x \in Execution : x = r.id /\ state[x] # "absent"
    BY DEF TypeOK, Resolution
  <2>2. PICK s \in {"cancelled", "completed", "failed"} : s = r.to
    BY DEF TypeOK, Resolution
  <2>3. /\ state' = [state EXCEPT ![x] = s]
        /\ gate' = IF s = "cancelled" THEN gate ELSE Released(x)
        /\ inflight' = inflight \ {r}
        /\ UNCHANGED <<request, sent, sched, callback>>
    BY <1>3, <2>1, <2>2 DEF Resolve, Transition
  <2>4. /\ state'[x] = s
        /\ \A f \in Execution : f # x => state'[f] = state[f]
    BY <2>3 DEF TypeOK
  <2>5. \A g \in ActuatorGate :
           \/ gate'[g] = gate[g]
           \/ gate[g] = x /\ gate'[g] = None /\ s # "cancelled"
    BY <2>3 DEF Released, Gate
  <2>6. \A f \in Execution :
           Holds(f) => (f = x /\ s # "cancelled") \/ Holds(f)'
    BY <2>3, <2>5
  <2>7. \A f \in Execution : Unreconciled(f) => (f = x => s = "cancelled")
    BY <2>1, <2>2
  <2>8. \A f \in Execution : Dispatchable(f) => Dispatchable(f)'
    BY <2>3, <2>4, <2>7
  <2>9. \A f \in Execution :
           /\ sent'[f] <= 1
           /\ state'[f] \in {"absent", "queued"} => sent'[f] = 0
           /\ state'[f] \in Live => Holds(f)'
    BY <2>3, <2>4, <2>6 DEF Live, Active
  <2>10. sched.pc \in {"acquired", "dispatched"} => sched.id \in Execution
    BY DEF TypeOK
  <2>11. sched.pc = "acquired" => Dispatchable(sched.id)' /\ Holds(sched.id)'
    BY <2>3, <2>6, <2>7, <2>8, <2>10
  <2>12. sched.pc = "dispatched" =>
            /\ state'[sched.id] # "queued"
            /\ \A g \in Permits(sched.id) : gate'[g] \in {sched.id, None}
    BY <2>4, <2>5, <2>10
  <2>13. callback # None =>
            /\ state'[callback.id] \in Active \cup {"cancelled"}
            /\ Holds(callback.id)' /\ Unreconciled(callback.id)'
    <3>1. callback # None => callback.id \in Execution
      BY DEF TypeOK, Event
    <3> QED BY <3>1, <2>3, <2>4, <2>6, <2>7
  <2>14. \A q \in inflight :
            q.to # "cancelled" => state'[q.id] \in {"uncertain"} \cup Terminal
    BY <2>4 DEF TypeOK, Resolution, Terminal
  <2>15. sched.pc = "scan" => \A e \in sched.scan : Dispatchable(e)'
    BY <2>8 DEF TypeOK, Scheduler
  <2> QED BY <2>3, <2>9, <2>11, <2>12, <2>13, <2>14, <2>15
<1> QED BY <1>1, <1>2, <1>3 DEF OperatorStep

(* After a crash at most one execution reclaims each actuator permit: the  *)
(* one that held it.                                                       *)
LEMMA PermitRestart ==
    ASSUME TypeOK, PermitInvariant, Restart
    PROVE  PermitInvariant'
<1> USE DEF PermitInvariant, PublishedOnce, Holds, Permits
<1> DEFINE held == {e \in Execution : Recovered(state[e]) = "uncertain"}
           free == [g \in Gate |-> None]
<1>1. /\ gate' = [g \in Gate |-> IF g \in ActuatorGate
                                 THEN Taken(held, free)[g] ELSE None]
      /\ state' = [e \in Execution |->
                     IF state[e] \in Active THEN "uncertain" ELSE state[e]]
      /\ sched' = Idle /\ callback' = None /\ inflight' = {}
      /\ UNCHANGED <<request, sent>>
  BY DEF Restart, Reclaimed, Recovered
<1>2. ASSUME NEW h \in held, NEW g \in Permits(h)
      PROVE  gate'[g] = h
  <2>1. g \in ActuatorGate /\ g \in Gate /\ g \in Gates(request[h])
    BY <1>2 DEF Gate
  <2>2. gate[g] = h
    BY <1>2 DEF Live, Recovered
  <2>3. \A e \in held : g \in Gates(request[e]) => e = h
    BY <2>1, <2>2 DEF Live, Recovered
  <2>4. created \in [Execution -> Nat] /\ held \in SUBSET Execution
    BY DEF TypeOK
  <2> HIDE DEF held, free
  <2>5. Taken(held, free)[g] = h
    BY <1>2, <2>1, <2>3, <2>4, TakenByHolder
  <2> QED BY <1>1, <2>1, <2>5
<1>3. \A e \in Execution : state'[e] \in Live => e \in held
  BY <1>1 DEF Live, Recovered
<1>4. \A e \in Execution : state'[e] \in Live => Holds(e)'
  <2> HIDE DEF held, free
  <2> QED BY <1>1, <1>2, <1>3
<1>5. \A e \in Execution :
         state'[e] \in {"absent", "queued"} => sent'[e] = 0
  BY <1>1
<1>6. sched'.pc = "idle"
  BY <1>1, IdleType
<1> QED BY <1>1, <1>4, <1>5, <1>6

LEMMA PermitStep ==
    ASSUME TypeOK, PermitInvariant, [Next]_vars
    PROVE  PermitInvariant'
<1>1. CASE CoreStep \/ CheckWatchdog
  <2>1. ASSUME NEW r \in Requests, Submit(r)
        PROVE  PermitInvariant'
    BY <2>1, PermitSubmit
  <2>2. ASSUME NEW c \in 1..MaxCore, EstablishCoreSession(c) \/ Heartbeat(c)
        PROVE  PermitInvariant'
    BY <2>2, PermitFrame DEF EstablishCoreSession, Heartbeat, durable
  <2>3. CASE CheckWatchdog
    BY <2>3, PermitFrame DEF CheckWatchdog, durable
  <2> QED BY <1>1, <2>1, <2>2, <2>3 DEF CoreStep
<1>2. CASE EnvironmentStep
  BY <1>2, PermitFrame
  DEF EnvironmentStep, Connect, Disconnect, HeartbeatLapses, DeadlinePasses,
      NodeFallsSilent, durable
<1>3. CASE UNCHANGED vars
  BY <1>3, PermitFrame DEF vars
<1> QED BY <1>1, <1>2, <1>3, PermitScheduler, PermitMqtt, PermitOperator,
           PermitRestart DEF Next, ServiceStep

(* Whatever the races of the scheduler, the MQTT thread, the operator's    *)
(* calls and crashes, the permit invariant is kept.                        *)
THEOREM PermitsCorrect == Spec => []PermitInvariant
<1>1. TypeOK /\ PermitInvariant /\ [Next]_vars => PermitInvariant'
  BY PermitStep
<1> QED BY PermitInit, TypeCorrect, <1>1, PTL DEF Spec

(* Two executions that may be moving never need the same servo, machine or *)
(* node actuator.                                                          *)
THEOREM Exclusion == Spec => []ActuatorExclusion
<1>1. PermitInvariant => ActuatorExclusion
  BY DEF PermitInvariant, ActuatorExclusion, Holds, Permits
<1> QED BY PermitsCorrect, <1>1, PTL

(* No command is handed to the MQTT client twice. *)
THEOREM AtMostOncePublication == Spec => []PublishedOnce
<1>1. PermitInvariant => PublishedOnce
  BY DEF PermitInvariant
<1> QED BY PermitsCorrect, <1>1, PTL

----------------------------------------------------------------------------
(* The order of admission *)

AdmissionColumns ==
    /\ UNCHANGED <<request, created, fence>>
    /\ Rows' = Rows

(* Only submit adds a row, numbers it or raises a fence. *)
LEMMA RowsKept ==
    ASSUME TypeOK, [Next]_vars, \A r \in Requests : ~Submit(r)
    PROVE  AdmissionColumns
<1> USE DEF AdmissionColumns, Rows
<1>1. ASSUME NEW e \in Execution, NEW s \in State \ {"absent"},
             state[e] # "absent", Transition(e, s)
      PROVE  Rows' = Rows
  BY <1>1, TransitionType
<1>2. CASE CoreStep \/ CheckWatchdog \/ EnvironmentStep \/ UNCHANGED vars
  BY <1>2
  DEF CoreStep, EstablishCoreSession, Heartbeat, CheckWatchdog,
      EnvironmentStep, Connect, Disconnect, HeartbeatLapses, DeadlinePasses,
      NodeFallsSilent, durable, vars
<1>3. CASE SchedulerStep
  <2>1. CASE RunOnce \/ ScanExhausted \/ PublishCommand
    BY <2>1 DEF RunOnce, ScanExhausted, PublishCommand, durable
  <2>2. ASSUME NEW e \in Execution, SkipIneligible(e) \/ AcquireGates(e)
        PROVE  AdmissionColumns
    BY <2>2 DEF SkipIneligible, AcquireGates, durable
  <2>3. ASSUME NEW e \in Execution, ExpireQueued(e)
        PROVE  AdmissionColumns
    <3>1. state[e] # "absent"
      BY <2>3 DEF ExpireQueued, Considers, TypeOK
    <3> QED BY <1>1, <2>3, <3>1 DEF ExpireQueued, State, Terminal
  <2>4. CASE MarkDispatched \/ PublishFails
    <3>1. sched.id \in Execution /\ state[sched.id] # "absent"
      BY <2>4 DEF MarkDispatched, PublishFails, TypeOK
    <3> QED BY <1>1, <2>4, <3>1
        DEF MarkDispatched, PublishFails, Uncertain, State, NonTerminal, Active
  <2> QED BY <1>3, <2>1, <2>2, <2>3, <2>4 DEF SchedulerStep
<1>4. CASE MqttStep
  <2>1. ASSUME NEW ev \in Event, HandleEvent(ev)
        PROVE  AdmissionColumns
    BY <2>1 DEF HandleEvent, TakeEvent, durable
  <2>2. CASE RecordEvent
    <3>1. /\ callback.id \in Execution /\ state[callback.id] # "absent"
          /\ callback.state \in State \ {"absent"}
      BY <2>2 DEF RecordEvent, TypeOK, Event, State, NonTerminal, Terminal,
                  Active
    <3>2. Transition(callback.id, callback.state)
      BY <2>2 DEF RecordEvent, Uncertain
    <3> QED BY <1>1, <2>2, <3>1, <3>2 DEF RecordEvent
  <2>3. ASSUME NEW n \in Node, NEW b \in 1..MaxBoot, NEW c \in Config,
               NEW s \in 0..epoch, HandleStatus(n, b, c, s)
        PROVE  AdmissionColumns
    BY <2>3 DEF HandleStatus, TakeStatus, Outstanding, NonTerminal
  <2>4. ASSUME NEW n \in Node, NEW b \in 0..MaxBoot,
               NEW a \in {"online", "offline"}, HandleAvailability(n, b, a)
        PROVE  AdmissionColumns
    BY <2>4 DEF HandleAvailability, durable
  <2> QED BY <1>4, <2>1, <2>2, <2>3, <2>4 DEF MqttStep
<1>5. CASE OperatorStep
  <2>1. ASSUME NEW e \in Execution,
               \/ Cancel(e)
               \/ \E to \in {"completed", "failed"} : Reconcile(e, to)
        PROVE  AdmissionColumns
    BY <2>1 DEF Cancel, Reconcile, durable
  <2>2. ASSUME NEW r \in inflight, Resolve(r)
        PROVE  AdmissionColumns
    <3>1. /\ r.id \in Execution /\ state[r.id] # "absent"
          /\ r.to \in State \ {"absent"}
      BY DEF TypeOK, Resolution, State, Terminal
    <3> QED BY <1>1, <2>2, <3>1 DEF Resolve
  <2> QED BY <1>5, <2>1, <2>2 DEF OperatorStep
<1>6. CASE Restart
  BY <1>6 DEF Restart, Recovered, Active
<1> QED BY <1>2, <1>3, <1>4, <1>5, <1>6 DEF Next, ServiceStep

LEMMA AdmissionFrame ==
    ASSUME AdmissionInvariant, AdmissionColumns
    PROVE  AdmissionInvariant'
BY DEF AdmissionInvariant, AdmissionFenced, AdmissionColumns

LEMMA AdmissionSubmit ==
    ASSUME TypeOK, AdmissionInvariant, NEW r \in Requests, Submit(r)
    PROVE  AdmissionInvariant'
<1>1. /\ r \in Request /\ r.id \in Execution /\ r.asset \in Asset
      /\ r.fence \in Nat
  BY RequestsAssumption DEF Request
<1>2. /\ r.fence >= fence[r.asset]
      /\ fence' = [fence EXCEPT ![r.asset] = r.fence]
  BY DEF Submit, AdvancedFence
<1>3. /\ \A a \in Asset : fence'[a] \in Nat /\ fence'[a] >= fence[a]
      /\ fence'[r.asset] = r.fence
  BY <1>1, <1>2 DEF TypeOK
<1>4. \A e \in Rows : /\ request[e].asset \in Asset
                      /\ request[e].fence \in Nat
  BY RowGatesExist DEF Rows, Request
<1>5. CASE UNCHANGED ledger
  <2>1. UNCHANGED <<request, created>> /\ Rows' = Rows
    BY <1>5 DEF ledger, Rows
  <2>2. \A e \in Rows : request[e].fence <= fence'[request[e].asset]
    BY <1>3, <1>4 DEF AdmissionInvariant, TypeOK
  <2> QED BY <2>1, <2>2 DEF AdmissionInvariant, AdmissionFenced
<1>6. CASE ~UNCHANGED ledger
  <2>1. /\ r.id \notin Rows
        /\ state' = [state EXCEPT ![r.id] = "queued"]
        /\ request' = [request EXCEPT ![r.id] = r]
        /\ created' = [created EXCEPT ![r.id] = Cardinality(Rows) + 1]
    BY <1>1, <1>6 DEF Submit, Known, Transition, ledger
  <2>2. Rows' = Rows \cup {r.id}
    BY <1>1, <2>1 DEF Rows, TypeOK
  <2>3. /\ Cardinality(Rows) \in Nat
        /\ Cardinality(Rows') = Cardinality(Rows) + 1
    BY <2>1, <2>2, ExecutionAssumption, FS_Subset, FS_AddElement,
       FS_CardinalityType DEF Rows
  <2>4. /\ request'[r.id] = r /\ created'[r.id] = Cardinality(Rows) + 1
        /\ \A e \in Execution \ {r.id} :
              request'[e] = request[e] /\ created'[e] = created[e]
    BY <1>1, <2>1 DEF TypeOK
  <2>5. \A e \in Execution : created[e] \in Nat /\ created[e] <= Cardinality(Rows)
    BY DEF AdmissionInvariant, TypeOK
  <2>6. \A e \in Execution : created'[e] <= Cardinality(Rows')
    BY <2>3, <2>4, <2>5
  <2>7. \A e \in Rows' : request'[e].fence <= fence'[request'[e].asset]
    BY <1>1, <1>3, <1>4, <2>1, <2>2, <2>4
    DEF AdmissionInvariant, Rows, TypeOK
  <2>8. ASSUME NEW e \in Rows', NEW f \in Rows',
               request'[e].asset = request'[f].asset, created'[e] < created'[f]
        PROVE  request'[e].fence <= request'[f].fence
    <3>1. CASE f = r.id
      <4>1. e \in Rows
        BY <2>2, <2>3, <2>4, <2>8, <3>1
      <4>2. request[e].fence <= fence[r.asset]
        BY <2>1, <2>4, <2>8, <3>1, <4>1 DEF AdmissionInvariant, Rows
      <4> QED BY <1>1, <1>2, <1>4, <2>1, <2>4, <3>1, <4>1, <4>2
          DEF Rows, TypeOK
    <3>2. CASE f # r.id
      <4>1. e # r.id
        BY <2>2, <2>3, <2>4, <2>5, <2>8, <3>2 DEF Rows
      <4> QED BY <2>2, <2>4, <2>8, <3>2, <4>1
          DEF AdmissionInvariant, AdmissionFenced, Rows
    <3> QED BY <3>1, <3>2
  <2> QED BY <2>6, <2>7, <2>8 DEF AdmissionInvariant, AdmissionFenced
<1> QED BY <1>5, <1>6

LEMMA AdmissionInit == Init => AdmissionInvariant
<1> SUFFICES ASSUME Init PROVE AdmissionInvariant
  OBVIOUS
<1>1. Rows = {} /\ \A e \in Execution : created[e] = 0
  BY DEF Init, Rows
<1>2. Cardinality(Rows) = 0
  BY <1>1, FS_EmptySet
<1> QED BY <1>1, <1>2 DEF AdmissionInvariant, AdmissionFenced

(* Fencing: the tokens of the commands admitted for an asset never go      *)
(* down, over Core sessions, refused requests and restarts of the service. *)
THEOREM FencedAdmission == Spec => []AdmissionFenced
<1>1. TypeOK /\ AdmissionInvariant /\ [Next]_vars => AdmissionInvariant'
  BY RowsKept, AdmissionFrame, AdmissionSubmit
<1>2. AdmissionInvariant => AdmissionFenced
  BY DEF AdmissionInvariant
<1> QED BY AdmissionInit, TypeCorrect, <1>1, <1>2, PTL DEF Spec
----------------------------------------------------------------------------
(* Without the operator's calls: the life cycle *)

(* What Core and the nodes alone can bring about.                          *)
(* - What the scheduler has listed or acquired is still queued; what it    *)
(*   has marked is dispatched, or uncertain since a reboot.                 *)
(* - The event in hand is one the row still allows.                        *)
(* - A permit is held by an execution that asked for it, and by one that   *)
(*   may be moving or is about to be dispatched.                           *)
OrderInvariant ==
    /\ inflight = {}
    /\ sched.pc = "scan" => \A e \in sched.scan : state[e] = "queued"
    /\ sched.pc = "acquired" => state[sched.id] = "queued"
    /\ sched.pc = "dispatched" => state[sched.id] \in {"dispatched", "uncertain"}
    /\ callback # None => callback.state \in AllowedEvents(state[callback.id])
    /\ \A g \in Gate : gate[g] # None => g \in Gates(request[gate[g]])
    /\ PermitBacked

Legal ==
    \A e \in Execution : state'[e] # state[e] =>
        <<state[e], state'[e]>> \in LifeCycle

LEMMA OrderInit == Init => OrderInvariant
BY IdleType DEF Init, OrderInvariant, PermitBacked

(* Steps that touch neither rows nor permits nor what a thread has in hand. *)
LEMMA OrderFrame ==
    ASSUME OrderInvariant,
           UNCHANGED <<state, request, gate, sched, callback, inflight>>
    PROVE  OrderInvariant' /\ Legal
BY DEF OrderInvariant, PermitBacked, Legal

LEMMA OrderSubmit ==
    ASSUME TypeOK, OrderInvariant, NEW r \in Requests, Submit(r)
    PROVE  OrderInvariant' /\ Legal
<1>1. CASE UNCHANGED ledger
  BY <1>1, OrderFrame DEF Submit, ledger
<1>2. CASE ~UNCHANGED ledger
  <2>1. /\ r.id \in Execution /\ state[r.id] = "absent"
        /\ state' = [state EXCEPT ![r.id] = "queued"]
        /\ request' = [request EXCEPT ![r.id] = r]
        /\ UNCHANGED <<gate, sched, callback, inflight>>
    BY <1>2, RequestsAssumption
    DEF Submit, Known, Request, Transition, ledger, Rows
  <2>2. \A e \in Execution :
           e # r.id => state'[e] = state[e] /\ request'[e] = request[e]
    BY <2>1 DEF TypeOK
  <2>3. state'[r.id] = "queued"
    BY <2>1 DEF TypeOK
  <2>4. Legal
    BY <2>1, <2>2, <2>3 DEF Legal, LifeCycle
  <2>5. ASSUME NEW g \in Gate, gate[g] # None
        PROVE  gate[g] \in Execution /\ gate[g] # r.id
    BY <2>1, <2>5 DEF TypeOK, OrderInvariant, PermitBacked, Live, Active
  <2>6. PermitBacked' /\ \A g \in Gate : gate'[g] # None => g \in Gates(request'[gate'[g]])
    BY <2>1, <2>2, <2>5 DEF OrderInvariant, PermitBacked
  <2>7. /\ sched.pc = "scan" => \A e \in sched.scan : e \in Execution /\ e # r.id
        /\ sched.pc \in {"acquired", "dispatched"} =>
              sched.id \in Execution /\ sched.id # r.id
        /\ callback # None => callback.id \in Execution /\ callback.id # r.id
    BY <2>1 DEF TypeOK, Scheduler, Event
  <2> QED BY <2>1, <2>2, <2>4, <2>6, <2>7 DEF OrderInvariant
<1> QED BY <1>1, <1>2

(* A step that writes one row, and gives permits only to that row.         *)
LEMMA OneRowBacked ==
    ASSUME TypeOK, OrderInvariant, NEW x \in Execution, NEW s \in State,
           state' = [state EXCEPT ![x] = s], UNCHANGED request,
           \A g \in Gate :
              \/ gate'[g] = gate[g]
              \/ gate'[g] = None
              \/ gate'[g] = x /\ g \in Gates(request[x]),
           \/ s \in Live
           \/ \A g \in Gate : gate'[g] # x,
           sched.pc = "acquired" =>
              x = sched.id \/ (sched'.pc = "acquired" /\ sched'.id = sched.id)
    PROVE  /\ PermitBacked'
           /\ \A g \in Gate : gate'[g] # None => g \in Gates(request'[gate'[g]])
<1>1. /\ state'[x] = s
      /\ \A f \in Execution : f # x => state'[f] = state[f]
  BY DEF TypeOK
<1>2. ASSUME NEW g \in Gate, gate'[g] # None
      PROVE  /\ g \in Gates(request'[gate'[g]])
             /\ \/ state'[gate'[g]] \in Live
                \/ sched'.pc = "acquired" /\ sched'.id = gate'[g]
  <2>1. CASE gate'[g] = x
    <3>1. s \in Live
      BY <2>1
    <3> QED BY <1>1, <1>2, <2>1, <3>1 DEF OrderInvariant
  <2>2. CASE gate'[g] # x
    <3>1. gate'[g] = gate[g] /\ gate[g] \in Execution
      BY <1>2, <2>2 DEF TypeOK
    <3> QED BY <1>1, <1>2, <2>2, <3>1 DEF OrderInvariant, PermitBacked
  <2> QED BY <2>1, <2>2
<1> QED BY <1>2 DEF PermitBacked

LEMMA OrderScheduler ==
    ASSUME TypeOK, PermitInvariant, OrderInvariant, SchedulerStep
    PROVE  OrderInvariant' /\ Legal
<1>1. CASE RunOnce
  <2>1. /\ sched.pc = "idle" /\ sched'.pc = "scan"
        /\ sched'.scan = {e \in Execution : state[e] = "queued"}
        /\ UNCHANGED <<state, request, gate, callback, inflight>>
    BY <1>1 DEF RunOnce, Idle, durable
  <2> QED BY <2>1 DEF OrderInvariant, PermitBacked, Legal
<1>2. CASE ScanExhausted
  <2>1. /\ sched.pc = "scan" /\ sched' = Idle
        /\ UNCHANGED <<state, request, gate, callback, inflight>>
    BY <1>2 DEF ScanExhausted, durable
  <2> QED BY <2>1, IdleType DEF OrderInvariant, PermitBacked, Legal
<1>3. ASSUME NEW e \in Execution, ExpireQueued(e)
      PROVE  OrderInvariant' /\ Legal
  <2>1. /\ sched.pc = "scan" /\ e \in sched.scan
        /\ state' = [state EXCEPT ![e] = "expired"]
        /\ sched'.pc = "scan" /\ sched'.scan = sched.scan \ {e}
        /\ UNCHANGED <<request, gate, callback, inflight>>
    BY <1>3 DEF ExpireQueued, Considers, Transition, TypeOK, Scheduler
  <2>2. /\ state[e] = "queued" /\ state'[e] = "expired"
        /\ \A f \in Execution : f # e => state'[f] = state[f]
    BY <2>1 DEF TypeOK, OrderInvariant
  <2>3. Legal
    BY <2>2 DEF Legal, LifeCycle
  <2>4. \A g \in Gate : gate[g] # e
    BY <2>1, <2>2, NoneAssumption DEF OrderInvariant, PermitBacked, Live, Active
  <2>5. /\ PermitBacked'
        /\ \A g \in Gate : gate'[g] # None => g \in Gates(request'[gate'[g]])
    BY <2>1, <2>4, OneRowBacked DEF State, Terminal
  <2>6. callback # None => callback.id \in Execution /\ callback.id # e
    BY <2>2 DEF TypeOK, Event, OrderInvariant, AllowedEvents
  <2> QED BY <2>1, <2>2, <2>3, <2>5, <2>6 DEF OrderInvariant, TypeOK, Scheduler
<1>4. ASSUME NEW e \in Execution, SkipIneligible(e)
      PROVE  OrderInvariant' /\ Legal
  <2>1. /\ sched.pc = "scan" /\ sched'.pc = "scan"
        /\ sched'.scan = sched.scan \ {e}
        /\ UNCHANGED <<state, request, gate, callback, inflight>>
    BY <1>4 DEF SkipIneligible, Considers, durable, TypeOK, Scheduler
  <2> QED BY <2>1 DEF OrderInvariant, PermitBacked, Legal
<1>5. ASSUME NEW e \in Execution, AcquireGates(e)
      PROVE  OrderInvariant' /\ Legal
  <2>1. /\ sched.pc = "scan" /\ e \in sched.scan /\ state[e] = "queued"
        /\ sched'.pc = "acquired" /\ sched'.id = e
        /\ UNCHANGED <<state, request, callback, inflight>>
    BY <1>5 DEF AcquireGates, Considers, durable, OrderInvariant
  <2>2. \A g \in Gate :
           gate'[g] = IF g \in Gates(request[e]) THEN e ELSE gate[g]
    BY <1>5, TakenOne DEF AcquireGates
  <2> QED BY <2>1, <2>2 DEF OrderInvariant, PermitBacked, Legal
<1>6. CASE MarkDispatched
  <2>1. /\ sched.pc = "acquired" /\ sched.id \in Execution
        /\ state[sched.id] = "queued"
        /\ state' = [state EXCEPT ![sched.id] = "dispatched"]
        /\ sched'.pc = "dispatched" /\ sched'.id = sched.id
        /\ UNCHANGED <<request, gate, callback, inflight>>
    BY <1>6 DEF MarkDispatched, Transition, TypeOK, Scheduler, OrderInvariant
  <2>2. /\ state'[sched.id] = "dispatched"
        /\ \A f \in Execution : f # sched.id => state'[f] = state[f]
    BY <2>1 DEF TypeOK
  <2>3. Legal
    BY <2>1, <2>2 DEF Legal, LifeCycle
  <2>4. /\ PermitBacked'
        /\ \A g \in Gate : gate'[g] # None => g \in Gates(request'[gate'[g]])
    BY <2>1, OneRowBacked DEF State, NonTerminal, Live, Active
  <2>5. callback # None => callback.id \in Execution /\ callback.id # sched.id
    BY <2>1 DEF TypeOK, Event, OrderInvariant, AllowedEvents
  <2> QED BY <2>1, <2>2, <2>3, <2>4, <2>5 DEF OrderInvariant
<1>7. CASE PublishCommand
  <2>1. /\ sched.pc = "dispatched" /\ sched' = Idle
        /\ UNCHANGED <<state, request, gate, callback, inflight>>
    BY <1>7 DEF PublishCommand, durable
  <2> QED BY <2>1, IdleType DEF OrderInvariant, PermitBacked, Legal
<1>8. CASE PublishFails
  <2>1. /\ sched.pc = "dispatched" /\ sched.id \in Execution
        /\ state[sched.id] \in {"dispatched", "uncertain"}
        /\ state' = [state EXCEPT ![sched.id] = "uncertain"]
        /\ gate' = Taken({sched.id}, gate)
        /\ sched' = Idle
        /\ UNCHANGED <<request, callback, inflight>>
    BY <1>8 DEF PublishFails, Uncertain, Transition, TypeOK, OrderInvariant
  <2>2. /\ state'[sched.id] = "uncertain"
        /\ \A f \in Execution : f # sched.id => state'[f] = state[f]
    BY <2>1 DEF TypeOK
  <2>3. Legal
    BY <2>1, <2>2 DEF Legal, LifeCycle, Active
  <2>4. \A g \in Gate :
           gate'[g] = IF g \in Gates(request[sched.id]) THEN sched.id ELSE gate[g]
    BY <2>1, TakenOne
  <2>5. /\ PermitBacked'
        /\ \A g \in Gate : gate'[g] # None => g \in Gates(request'[gate'[g]])
    BY <2>1, <2>4, OneRowBacked DEF State, NonTerminal, Live
  <2>6. callback # None => callback.id \in Execution /\ callback.id # sched.id
    BY <2>1 DEF TypeOK, Event, PermitInvariant
  <2> QED BY <2>1, <2>2, <2>3, <2>5, <2>6, IdleType DEF OrderInvariant
<1> QED BY <1>1, <1>2, <1>3, <1>4, <1>5, <1>6, <1>7, <1>8 DEF SchedulerStep

LEMMA OrderMqtt ==
    ASSUME TypeOK, PermitInvariant, OrderInvariant, MqttStep
    PROVE  OrderInvariant' /\ Legal
<1>1. ASSUME NEW ev \in Event, HandleEvent(ev)
      PROVE  OrderInvariant' /\ Legal
  <2>1. /\ callback' = ev /\ ev.state \in AllowedEvents(state[ev.id])
        /\ UNCHANGED <<state, request, gate, sched, inflight>>
    BY <1>1 DEF HandleEvent, TakeEvent, durable
  <2> QED BY <2>1 DEF OrderInvariant, PermitBacked, Legal
<1>2. CASE RecordEvent
  <2>1. PICK x \in Execution : callback # None /\ x = callback.id
    BY <1>2 DEF RecordEvent, TypeOK, Event
  <2>2. PICK s : s = callback.state
    OBVIOUS
  <2>3. /\ s \in AllowedEvents(state[x]) /\ <<state[x], s>> \in LifeCycle
        /\ s \in State /\ (s \in Live \/ s \in Terminal)
    BY <2>1, <2>2
    DEF OrderInvariant, AllowedEvents, LifeCycle, State, NonTerminal, Active,
        Terminal, Live
  <2>4. /\ state' = [state EXCEPT ![x] = s] /\ callback' = None
        /\ UNCHANGED <<request, sched, inflight>>
    BY <1>2, <2>1, <2>2 DEF RecordEvent, Uncertain, Transition
  <2>5. /\ state'[x] = s
        /\ \A f \in Execution : f # x => state'[f] = state[f]
    BY <2>4 DEF TypeOK
  <2>6. \/ gate' = Taken({x}, gate) /\ s = "uncertain"
        \/ gate' = Released(x) /\ s \in Terminal
        \/ gate' = gate /\ s \notin Terminal
    BY <1>2, <2>1, <2>2 DEF RecordEvent, Uncertain
  <2>7. \A g \in Gate :
           \/ gate'[g] = gate[g]
           \/ gate'[g] = None
           \/ gate'[g] = x /\ g \in Gates(request[x])
    BY <2>6, TakenOne DEF Released
  <2>8. s \in Live \/ \A g \in Gate : gate'[g] # x
    <3>1. \A g \in Gate : gate[g] = x => g \in Gates(request[x])
      BY NoneAssumption DEF OrderInvariant
    <3>2. CASE gate' = Released(x)
      BY <3>1, <3>2, NoneAssumption DEF Released
    <3> QED BY <2>3, <2>6, <3>2 DEF Live
  <2>9. /\ sched.pc = "acquired" => sched.id \in Execution /\ sched.id # x
        /\ sched.pc = "dispatched" => sched.id \in Execution /\ sched.id # x
        /\ sched.pc = "scan" => \A e \in sched.scan : e \in Execution /\ e # x
    BY <2>1 DEF TypeOK, Scheduler, PermitInvariant, Dispatchable
  <2>10. /\ PermitBacked'
         /\ \A g \in Gate : gate'[g] # None => g \in Gates(request'[gate'[g]])
    BY <2>3, <2>4, <2>7, <2>8, OneRowBacked
  <2>11. Legal
    BY <2>3, <2>5 DEF Legal
  <2> QED BY <2>4, <2>5, <2>9, <2>10, <2>11 DEF OrderInvariant
<1>3. ASSUME NEW n \in Node, NEW b \in 1..MaxBoot, NEW c \in Config,
             NEW s \in 0..epoch, HandleStatus(n, b, c, s)
      PROVE  OrderInvariant' /\ Legal
  <2> DEFINE rebooted == /\ nodes[n] # None /\ nodes[n].boot # 0
                         /\ nodes[n].boot # b
             lost == {e \in Outstanding : rebooted /\ request[e].node = n
                                                    /\ state[e] # "queued"}
  <2>1. /\ callback = None
        /\ gate' = Taken(lost, gate)
        /\ state' = [e \in Execution |->
                       IF e \in lost THEN "uncertain" ELSE state[e]]
        /\ UNCHANGED <<request, sched, callback, inflight>>
    BY <1>3 DEF HandleStatus, TakeStatus
  <2>2. lost \subseteq {e \in Execution : state[e] \in Live}
    BY DEF Outstanding, Rows, NonTerminal, Live
  <2> HIDE DEF lost
  <2>3. \A e \in Execution :
           \/ state'[e] = state[e] /\ e \notin lost
           \/ state[e] \in Live /\ state'[e] = "uncertain"
    BY <2>1, <2>2
  <2>4. Legal
    BY <2>3 DEF Legal, LifeCycle, Live
  <2>5. ASSUME NEW g \in Gate, gate'[g] # None
        PROVE  /\ g \in Gates(request'[gate'[g]])
               /\ \/ state'[gate'[g]] \in Live
                  \/ sched'.pc = "acquired" /\ sched'.id = gate'[g]
    <3>1. CASE \A e \in lost : g \notin Gates(request[e])
      <4>1. gate'[g] = gate[g] /\ gate[g] \in Execution
        BY <2>1, <2>2, <2>5, <3>1, TakenByNobody DEF TypeOK
      <4> QED BY <2>1, <2>3, <2>5, <4>1
          DEF OrderInvariant, PermitBacked, Live
    <3>2. CASE \E e \in lost : g \in Gates(request[e])
      <4> DEFINE takers == {e \in lost : g \in Gates(request[e])}
      <4>1. Latest(takers) \in takers
        BY <2>2, <3>2, LatestExists DEF TypeOK
      <4>2. gate'[g] = Latest(takers)
        BY <2>1, <3>2 DEF Taken
      <4> HIDE DEF takers
      <4>3. gate'[g] \in lost /\ g \in Gates(request[gate'[g]])
        BY <4>1, <4>2 DEF takers
      <4> QED BY <2>1, <2>2, <4>3 DEF Live
    <3> QED BY <3>1, <3>2
  <2>6. /\ sched.pc = "scan" => \A e \in sched.scan : state'[e] = "queued"
        /\ sched.pc = "acquired" => state'[sched.id] = "queued"
        /\ sched.pc = "dispatched" =>
              state'[sched.id] \in {"dispatched", "uncertain"}
    BY <2>3 DEF OrderInvariant, TypeOK, Scheduler, Live, Active
  <2> QED BY <2>1, <2>4, <2>5, <2>6 DEF OrderInvariant, PermitBacked
<1>4. ASSUME NEW n \in Node, NEW b \in 0..MaxBoot,
             NEW a \in {"online", "offline"}, HandleAvailability(n, b, a)
      PROVE  OrderInvariant' /\ Legal
  BY <1>4, OrderFrame DEF HandleAvailability, durable
<1> QED BY <1>1, <1>2, <1>3, <1>4 DEF MqttStep

LEMMA OrderRestart ==
    ASSUME TypeOK, Restart
    PROVE  OrderInvariant' /\ Legal
<1> DEFINE held == {e \in Execution : Recovered(state[e]) = "uncertain"}
           free == [g \in Gate |-> None]
<1>1. /\ gate' = [g \in Gate |-> IF g \in ActuatorGate
                                 THEN Taken(held, free)[g] ELSE None]
      /\ state' = [e \in Execution |-> Recovered(state[e])]
      /\ sched' = Idle /\ callback' = None /\ inflight' = {}
      /\ UNCHANGED request
  BY DEF Restart, Reclaimed
<1>2. Legal
  BY <1>1 DEF Legal, LifeCycle, Recovered
<1>3. ASSUME NEW g \in Gate, gate'[g] # None
      PROVE  gate'[g] \in held /\ g \in Gates(request[gate'[g]])
  <2> DEFINE takers == {e \in held : g \in Gates(request[e])}
  <2>1. gate'[g] = Taken(held, free)[g] /\ takers # {}
    BY <1>1, <1>3 DEF Taken
  <2>2. takers \in SUBSET Execution /\ created \in [Execution -> Nat]
    BY DEF TypeOK
  <2>3. gate'[g] = Latest(takers)
    BY <2>1 DEF Taken
  <2>4. Latest(takers) \in takers
    <3> HIDE DEF takers
    <3> QED BY <2>1, <2>2, LatestExists
  <2> QED BY <2>3, <2>4
<1>4. \A e \in held : e \in Execution /\ state'[e] = "uncertain"
  BY <1>1
<1> HIDE DEF held, free
<1>5. PermitBacked' /\ \A g \in Gate : gate'[g] # None => g \in Gates(request'[gate'[g]])
  BY <1>1, <1>3, <1>4 DEF PermitBacked, Live
<1> QED BY <1>1, <1>2, <1>5, IdleType DEF OrderInvariant

LEMMA OrderStep ==
    ASSUME TypeOK, PermitInvariant, OrderInvariant, [ServiceStep]_vars
    PROVE  OrderInvariant' /\ Legal
<1>1. CASE CoreStep \/ CheckWatchdog
  <2>1. ASSUME NEW c \in 1..MaxCore, EstablishCoreSession(c) \/ Heartbeat(c)
        PROVE  OrderInvariant' /\ Legal
    BY <2>1, OrderFrame DEF EstablishCoreSession, Heartbeat, durable
  <2>2. CASE CheckWatchdog
    BY <2>2, OrderFrame DEF CheckWatchdog, durable
  <2> QED BY <1>1, <2>1, <2>2, OrderSubmit DEF CoreStep
<1>2. CASE EnvironmentStep
  BY <1>2, OrderFrame
  DEF EnvironmentStep, Connect, Disconnect, HeartbeatLapses, DeadlinePasses,
      NodeFallsSilent, durable
<1>3. CASE UNCHANGED vars
  BY <1>3, OrderFrame DEF vars
<1> QED BY <1>1, <1>2, <1>3, OrderScheduler, OrderMqtt, OrderRestart
        DEF ServiceStep

(* What is proved of Next holds of the steps without the operator.         *)
LEMMA ServiceTypes ==
    ASSUME TypeOK, PermitInvariant, [ServiceStep]_vars
    PROVE  TypeOK' /\ PermitInvariant'
<1>1. [Next]_vars
  BY DEF Next
<1>2. PermitInvariant'
  BY <1>1, PermitStep
<1>3. TypeOK'
  <2>1. CASE ServiceStep
    BY <2>1, TypeCore, TypeScheduler, TypeMqtt, TypeEnvironment, TypeRestart
    DEF ServiceStep
  <2>2. CASE UNCHANGED vars
    BY <2>2 DEF vars, TypeOK
  <2> QED BY <2>1, <2>2
<1> QED BY <1>2, <1>3

LEMMA CoreTypes == CoreSpec => [](TypeOK /\ PermitInvariant)
<1>1. TypeOK /\ PermitInvariant /\ [ServiceStep]_vars
         => TypeOK' /\ PermitInvariant'
  BY ServiceTypes
<1> QED BY TypeInit, PermitInit, <1>1, PTL DEF CoreSpec

LEMMA OrderKept == CoreSpec => [](TypeOK /\ PermitInvariant /\ OrderInvariant)
<1>1. TypeOK /\ PermitInvariant /\ OrderInvariant /\ [ServiceStep]_vars
         => OrderInvariant'
  BY OrderStep
<1> QED BY OrderInit, CoreTypes, <1>1, PTL DEF CoreSpec

(* No path leaks a permit: one is held only by an execution that may be    *)
(* moving, or by the one about to be dispatched.                            *)
THEOREM PermitsAreBacked == CoreSpec => []PermitBacked
<1>1. OrderInvariant => PermitBacked
  BY DEF OrderInvariant
<1> QED BY OrderKept, <1>1, PTL

(* Every row follows the documented life cycle; a terminal row is final.   *)
THEOREM LifeCycleFollowed == CoreSpec => FollowsLifeCycle
<1>1. TypeOK /\ PermitInvariant /\ OrderInvariant /\ [ServiceStep]_vars
         => [\A e \in Execution : state'[e] # state[e] =>
                <<state[e], state'[e]>> \in LifeCycle]_vars
  BY OrderStep DEF Legal
<1> QED BY OrderKept, <1>1, PTL DEF CoreSpec, FollowsLifeCycle

----------------------------------------------------------------------------
(* The limits of admission, which submit checks and no later step exceeds *)

(* Rows become outstanding by submit alone.                                *)
LEMMA OutstandingShrinks ==
    ASSUME TypeOK, OrderInvariant, PermitInvariant, [ServiceStep]_vars,
           \A r \in Requests : ~Submit(r)
    PROVE  UNCHANGED request /\ Outstanding' \subseteq Outstanding
<1>1. [Next]_vars
  BY DEF Next
<1>2. UNCHANGED request /\ Rows' = Rows
  BY <1>1, RowsKept DEF AdmissionColumns
<1>3. Legal
  BY OrderStep
<1>4. ASSUME NEW e \in Execution, state'[e] \in NonTerminal, state[e] # "absent"
      PROVE  state[e] \in NonTerminal
  BY <1>3, <1>4 DEF Legal, LifeCycle, NonTerminal, Active, Terminal
<1> QED BY <1>2, <1>4 DEF Outstanding, Rows

(* ... of an asset without outstanding work, below the capacity.           *)
LEMMA OutstandingGrows ==
    ASSUME TypeOK, NEW r \in Requests, Submit(r)
    PROVE  \/ UNCHANGED request /\ Outstanding' = Outstanding
           \/ /\ r.id \notin Outstanding
              /\ Outstanding' = Outstanding \cup {r.id}
              /\ request'[r.id] = r
              /\ \A e \in Outstanding :
                    request'[e] = request[e] /\ request[e].asset # r.asset
<1>1. CASE UNCHANGED ledger
  BY <1>1 DEF ledger, Outstanding, Rows
<1>2. CASE ~UNCHANGED ledger
  <2>1. /\ r.id \in Execution /\ state[r.id] = "absent" /\ ~Conflict(r)
        /\ state' = [state EXCEPT ![r.id] = "queued"]
        /\ request' = [request EXCEPT ![r.id] = r]
    BY <1>2, RequestsAssumption
    DEF Submit, Known, Request, Transition, ledger, Rows
  <2>2. /\ state'[r.id] = "queued" /\ request'[r.id] = r
        /\ \A e \in Execution :
              e # r.id => state'[e] = state[e] /\ request'[e] = request[e]
    BY <2>1 DEF TypeOK
  <2>3. r.id \notin Outstanding
    BY <2>1 DEF Outstanding, Rows
  <2>4. Outstanding' = Outstanding \cup {r.id}
    BY <2>1, <2>2 DEF Outstanding, Rows, NonTerminal
  <2>5. \A e \in Outstanding :
           request'[e] = request[e] /\ request[e].asset # r.asset
    BY <2>1, <2>2, <2>3 DEF Outstanding, Rows, Conflict
  <2> QED BY <2>2, <2>3, <2>4, <2>5
<1> QED BY <1>1, <1>2

LEMMA OutstandingFinite ==
    ASSUME NEW S \in SUBSET Execution
    PROVE  IsFiniteSet(S) /\ Cardinality(S) \in Nat
BY ExecutionAssumption, FS_Subset, FS_CardinalityType

(* One asset never has two executions that have not ended.                 *)
THEOREM OnePerAsset == CoreSpec => []OneOutstandingPerAsset
<1>1. Init => OneOutstandingPerAsset
  BY DEF Init, OneOutstandingPerAsset, Outstanding, Rows
<1>2. ASSUME TypeOK, PermitInvariant, OrderInvariant, OneOutstandingPerAsset,
             [ServiceStep]_vars
      PROVE  OneOutstandingPerAsset'
  <2>1. ASSUME NEW r \in Requests, Submit(r)
        PROVE  OneOutstandingPerAsset'
    BY <1>2, <2>1, OutstandingGrows DEF OneOutstandingPerAsset
  <2>2. CASE \A r \in Requests : ~Submit(r)
    BY <1>2, <2>2, OutstandingShrinks DEF OneOutstandingPerAsset
  <2> QED BY <2>1, <2>2
<1> QED BY OrderKept, <1>1, <1>2, PTL DEF CoreSpec

(* The executions that have not ended never outnumber the capacity.        *)
THEOREM CapacityIsRespected == CoreSpec => []CapacityRespected
<1>1. Init => CapacityRespected
  <2> SUFFICES ASSUME Init PROVE CapacityRespected
    OBVIOUS
  <2>1. Outstanding = {}
    BY DEF Init, Outstanding, Rows
  <2> QED BY <2>1, FS_EmptySet, BoundsAssumption DEF CapacityRespected
<1>2. ASSUME TypeOK, PermitInvariant, OrderInvariant, CapacityRespected,
             [ServiceStep]_vars
      PROVE  CapacityRespected'
  <2>1. Outstanding \in SUBSET Execution
    BY DEF Outstanding, Rows
  <2>2. IsFiniteSet(Outstanding) /\ Cardinality(Outstanding) \in Nat
    BY <2>1, OutstandingFinite
  <2>3. ASSUME NEW r \in Requests, Submit(r)
        PROVE  CapacityRespected'
    <3>1. CASE Outstanding' = Outstanding
      BY <1>2, <3>1 DEF CapacityRespected
    <3>2. CASE r.id \notin Outstanding /\ Outstanding' = Outstanding \cup {r.id}
      <4>1. Cardinality(Outstanding') = Cardinality(Outstanding) + 1
        BY <2>2, <3>2, FS_AddElement
      <4>2. Cardinality(Outstanding) < Capacity
        BY <2>3 DEF Submit, HasCapacity
      <4> QED BY <2>2, <4>1, <4>2, BoundsAssumption DEF CapacityRespected
    <3> QED BY <1>2, <2>3, <3>1, <3>2, OutstandingGrows
  <2>4. CASE \A r \in Requests : ~Submit(r)
    <3>1. Outstanding' \subseteq Outstanding
      BY <1>2, <2>4, OutstandingShrinks
    <3>2. /\ Cardinality(Outstanding') \in Nat
          /\ Cardinality(Outstanding') <= Cardinality(Outstanding)
      BY <2>2, <3>1, FS_Subset, FS_CardinalityType
    <3> QED BY <1>2, <2>2, <3>2, BoundsAssumption DEF CapacityRespected
  <2> QED BY <2>3, <2>4
<1> QED BY OrderKept, <1>1, <1>2, PTL DEF CoreSpec
=============================================================================
