-------------------------- MODULE DccServiceProofs --------------------------
(* Theorems about DccService for every number of threads, locomotives,     *)
(* requests and losses of Core.                                            *)
EXTENDS DccService, FiniteSetTheorems, TLAPS

(* The semaphore stays within its range because each taken slot belongs to *)
(* a thread inside execute: the two are proved together.                   *)
SlotInvariant == TypeOK /\ SlotsBacked

LEMMA ExecutingFinite ==
    IsFiniteSet(Executing) /\ Cardinality(Executing) \in Nat
  <1>1. Executing \subseteq Thread
    BY DEF Executing
  <1> QED BY <1>1, ThreadAssumption, FS_Subset, FS_CardinalityType

(* One thread enters or leaves execute; the others keep their place. *)
LEMMA EnterExecute ==
    ASSUME NEW t \in Thread, t \notin Executing,
           Executing' = Executing \cup {t}
    PROVE  Cardinality(Executing') = Cardinality(Executing) + 1
  BY ExecutingFinite, FS_AddElement

LEMMA LeaveExecute ==
    ASSUME NEW t \in Thread, t \in Executing,
           Executing' = Executing \ {t}
    PROVE  Cardinality(Executing') = Cardinality(Executing) - 1
  BY ExecutingFinite, FS_RemoveElement

(* What ends at the station gives the lock back, and the slot if it has one. *)
LEMMA EndOperationBacked ==
    ASSUME SlotInvariant, NEW t \in Thread, EndOperation(t), UNCHANGED command,
           \/ pc[t] = "queued" /\ lock = None
           \/ pc[t] \in {"operating", "sent"}
    PROVE  SlotsBacked' /\ slots' \in 0..QueueCapacity
  <1> USE DEF SlotInvariant, EndOperation, Answered, ReturnSlot
  <1>1. pc' = [pc EXCEPT ![t] = "idle"] /\ pc \in [Thread -> Stage]
    BY DEF TypeOK
  <1>2. slots' + Cardinality(Executing') = QueueCapacity /\ slots' \in Nat
    <2>1. CASE TakesSlot(command[t])
      <3>1. t \in Executing /\ Executing' = Executing \ {t}
        BY <1>1, <2>1 DEF Executing, TakesSlot
      <3>2. Cardinality(Executing') = Cardinality(Executing) - 1
        BY <3>1, LeaveExecute
      <3> QED BY <2>1, <3>2, ExecutingFinite DEF SlotsBacked, TypeOK
    <2>2. CASE ~TakesSlot(command[t])
      <3>1. Executing' = Executing
        BY <1>1, <2>2 DEF Executing, TakesSlot
      <3> QED BY <2>2, <3>1 DEF SlotsBacked, TypeOK
    <2> QED BY <2>1, <2>2
  <1>3. \A u \in Thread : lock' = u <=> pc'[u] \in {"operating", "sent"}
    BY <1>1, ThreadAssumption DEF SlotsBacked
  <1>4. Cardinality(Executing') \in Nat
    <2>1. Executing' \subseteq Thread
      BY DEF Executing
    <2> QED BY <2>1, ThreadAssumption, FS_Subset, FS_CardinalityType
  <1>5. slots' \in 0..QueueCapacity
    BY <1>2, <1>4, DccBoundsAssumption
  <1> QED BY <1>2, <1>3, <1>5 DEF SlotsBacked

LEMMA InitSlots == Init => SlotInvariant
  <1> SUFFICES ASSUME Init PROVE SlotInvariant
    OBVIOUS
  <1>1. /\ watch \in [Actor -> {"idle", "stale", "stopping", "stopped"}]
        /\ pc \in [Thread -> Stage]
        /\ command \in [Thread -> Commands \cup {None}]
        /\ fences \in [Asset -> Nat] /\ sentFence \in [Asset -> Nat]
    BY DEF Init, Stage
  <1>2. \A t \in Thread : pc[t] = "idle"
    BY DEF Init
  <1>3. TypeOK
    <2>1. slots \in 0..QueueCapacity
      BY DccBoundsAssumption DEF Init
    <2> QED BY <1>1, <1>2, <2>1 DEF Init, TypeOK
  <1>4. Executing = {}
    BY <1>2 DEF Executing
  <1>5. SlotsBacked
    BY <1>2, <1>4, FS_EmptySet, DccBoundsAssumption, ThreadAssumption
    DEF Init, SlotsBacked
  <1> QED BY <1>3, <1>5 DEF SlotInvariant

(* A step of one thread's request. *)
LEMMA RequestSlots ==
    ASSUME SlotInvariant, NEW t \in Thread, RequestStep(t)
    PROVE  SlotInvariant'
  <1> USE DEF SlotInvariant
  <1>1. TypeOK /\ pc \in [Thread -> Stage] /\ slots \in 0..QueueCapacity
        /\ QueueCapacity \in Nat /\ None \notin Thread
    BY DccBoundsAssumption, ThreadAssumption DEF TypeOK
  <1>2. CASE Validate(t)
    <2>1. command[t] \in Commands /\ fences \in [Asset -> Nat]
      BY <1>1, <1>2 DEF Validate, TypeOK
    <2>2. command[t].fence \in Nat
      BY <2>1, CommandsAssumption DEF Command
    <2>3. fences' \in [Asset -> Nat]
      BY <1>2, <2>1, <2>2 DEF Validate
    <2>4. pc' \in [Thread -> Stage]
          /\ \A u \in Thread : u # t => pc'[u] = pc[u]
      BY <1>1, <1>2 DEF Validate, Answered, Stage
    <2>5. pc[t] = "received" /\ pc'[t] \in {"validated", "idle"}
      BY <1>1, <1>2 DEF Validate, Answered
    <2>6. UNCHANGED <<session, watch, command, slots, lock, pending, track,
                      history>>
      BY <1>2 DEF Validate
    <2>7. TypeOK'
      BY <1>1, <2>1, <2>3, <2>4, <2>5, <2>6
      DEF TypeOK, session, track, history
    <2>8. Executing' = Executing
      BY <2>4, <2>5, <2>6 DEF Executing
    <2>9. SlotsBacked'
      BY <2>4, <2>5, <2>6, <2>8 DEF SlotsBacked
    <2> QED BY <2>7, <2>9
  <1>3. CASE AcquireSlot(t)
    <2>1. pc[t] = "validated" /\ pc'[t] \in {"idle", "queued"}
      BY <1>1, <1>3 DEF AcquireSlot, Answered
    <2>2. pc' \in [Thread -> Stage]
          /\ \A u \in Thread : u # t => pc'[u] = pc[u]
      BY <1>1, <1>3 DEF AcquireSlot, Answered, Stage
    <2>3. UNCHANGED <<session, fences, watch, command, lock, pending, track,
                      history>>
      BY <1>3 DEF AcquireSlot
    <2>4. slots' + Cardinality(Executing') = QueueCapacity
          /\ slots' \in 0..QueueCapacity
      <3>1. CASE TakesSlot(command[t]) /\ slots > 0
        <4>1. pc' = [pc EXCEPT ![t] = "queued"] /\ slots' = slots - 1
          BY <1>3, <3>1 DEF AcquireSlot
        <4>2. t \notin Executing /\ Executing' = Executing \cup {t}
          BY <1>1, <2>1, <2>3, <3>1, <4>1 DEF Executing, TakesSlot
        <4>3. Cardinality(Executing') = Cardinality(Executing) + 1
          BY <4>2, EnterExecute
        <4> QED BY <1>1, <3>1, <4>1, <4>3, ExecutingFinite DEF SlotsBacked
      <3>2. CASE ~(TakesSlot(command[t]) /\ slots > 0)
        <4>1. slots' = slots /\ (TakesSlot(command[t]) => pc'[t] = "idle")
          BY <1>1, <1>3, <3>2 DEF AcquireSlot, Answered
        <4>2. Executing' = Executing
          BY <2>1, <2>2, <2>3, <4>1 DEF Executing, TakesSlot
        <4> QED BY <1>1, <4>1, <4>2 DEF SlotsBacked
      <3> QED BY <3>1, <3>2
    <2>5. TypeOK'
      BY <1>1, <2>1, <2>2, <2>3, <2>4 DEF TypeOK, session, track, history
    <2>6. SlotsBacked'
      BY <2>1, <2>2, <2>3, <2>4 DEF SlotsBacked
    <2> QED BY <2>5, <2>6
  <1>4. CASE BeginOperation(t)
    <2>1. pc[t] = "queued" /\ lock = None
          /\ UNCHANGED <<session, fences, watch, command, pending, track,
                         history>>
      BY <1>4 DEF BeginOperation
    <2>2. CASE EndOperation(t)
      <3>1. SlotsBacked' /\ slots' \in 0..QueueCapacity
        BY <2>1, <2>2, EndOperationBacked
      <3>2. pc' \in [Thread -> Stage] /\ lock' = None
            /\ \A u \in Thread : u # t => pc'[u] = pc[u]
            /\ pc'[t] = "idle"
        BY <1>1, <2>2 DEF EndOperation, Answered, Stage
      <3>3. TypeOK'
        BY <1>1, <2>1, <3>1, <3>2 DEF TypeOK, session, track, history
      <3> QED BY <3>1, <3>3
    <2>3. CASE ~EndOperation(t)
      <3>1. lock' = t /\ pc' = [pc EXCEPT ![t] = "operating"]
            /\ UNCHANGED slots
        BY <1>4, <2>3 DEF BeginOperation
      <3>2. TypeOK'
        BY <1>1, <2>1, <3>1 DEF TypeOK, session, track, history, Stage
      <3>3. Executing' = Executing
        BY <1>1, <2>1, <3>1 DEF Executing, TakesSlot
      <3>4. \A u \in Thread : lock' = u <=> pc'[u] \in {"operating", "sent"}
        BY <1>1, <2>1, <3>1 DEF SlotsBacked
      <3>5. SlotsBacked'
        BY <3>1, <3>3, <3>4 DEF SlotsBacked
      <3> QED BY <3>2, <3>5
    <2> QED BY <2>2, <2>3
  <1>5. CASE Transmit(t)
    <2>1. pc[t] = "operating" /\ pc' = [pc EXCEPT ![t] = "sent"]
          /\ UNCHANGED <<session, fences, watch, command, slots, lock, pending,
                         ready, history>>
      BY <1>5 DEF Transmit
    <2>2. command[t] \in Commands /\ sentFence \in [Asset -> Nat]
      BY <1>1, <2>1 DEF TypeOK
    <2>3. command[t].fence \in Nat /\ command[t].asset \in Asset
      BY <2>2, CommandsAssumption DEF Command
    <2>4. sentFence' \in [Asset -> Nat] /\ moving' \in SUBSET Asset
      BY <1>1, <1>5, <2>2, <2>3 DEF Transmit, TypeOK
    <2>5. TypeOK'
      BY <1>1, <2>1, <2>2, <2>4 DEF TypeOK, session, track, history, Stage
    <2>6. Executing' = Executing
      BY <1>1, <2>1 DEF Executing
    <2>7. SlotsBacked'
      BY <1>1, <2>1, <2>6 DEF SlotsBacked
    <2> QED BY <2>5, <2>7
  <1>6. ASSUME pc[t] \in {"operating", "sent"}, EndOperation(t),
               ready' \in BOOLEAN, UNCHANGED <<moving, sentFence>>,
               UNCHANGED <<session, fences, watch, command, pending, history>>
        PROVE  SlotInvariant'
    <2>1. SlotsBacked' /\ slots' \in 0..QueueCapacity
      BY <1>6, EndOperationBacked
    <2>2. pc' \in [Thread -> Stage] /\ lock' = None
          /\ \A u \in Thread : u # t => pc'[u] = pc[u]
          /\ pc'[t] = "idle"
      BY <1>1, <1>6 DEF EndOperation, Answered, Stage
    <2>3. TypeOK'
      BY <1>1, <1>6, <2>1, <2>2 DEF TypeOK, session, history
    <2> QED BY <2>1, <2>3
  <1>7. CASE TransmitFails(t)
    BY <1>1, <1>6, <1>7 DEF TransmitFails, track, TypeOK
  <1>8. CASE ReplyOrTimeout(t)
    BY <1>1, <1>6, <1>8 DEF ReplyOrTimeout, track, TypeOK
  <1>9. CASE ChangeConnection(t)
    <2>1. ready' \in BOOLEAN
      BY <1>1, <1>9 DEF ChangeConnection, TypeOK
    <2> QED BY <1>6, <1>9, <2>1 DEF ChangeConnection
  <1> QED
    BY <1>2, <1>3, <1>4, <1>5, <1>7, <1>8, <1>9 DEF RequestStep

(* A step outside the requests leaves slots, lock and stages alone. *)
LEMMA OtherSlots ==
    ASSUME SlotInvariant, UNCHANGED <<pc, command, slots, lock>>, TypeOK'
    PROVE  SlotInvariant'
  <1>1. Executing' = Executing
    BY DEF Executing
  <1> QED BY <1>1 DEF SlotInvariant, SlotsBacked

LEMMA SessionType ==
    ASSUME TypeOK, NEW c \in 1..MaxCore,
           EstablishCoreSession(c) \/ Heartbeat(c) \/ HeartbeatLapses
    PROVE  TypeOK' /\ UNCHANGED <<pc, command, slots, lock>>
  <1>1. UNCHANGED <<fences, watch, requests, track, history>>
    BY DEF EstablishCoreSession, Heartbeat, HeartbeatLapses
  <1>2. core' \in [epoch : 1..MaxCore, stale : BOOLEAN] \cup {None}
        /\ stopSent' \in BOOLEAN /\ overdue' \in BOOLEAN
        /\ (overdue' => core' # None)
    <2>1. CASE EstablishCoreSession(c)
      BY <2>1 DEF EstablishCoreSession
    <2>2. CASE Heartbeat(c)
      <3>1. core \in [epoch : 1..MaxCore, stale : BOOLEAN]
        BY <2>2 DEF Heartbeat, TypeOK
      <3> QED BY <2>2, <3>1 DEF Heartbeat
    <2>3. CASE HeartbeatLapses
      BY <2>3 DEF HeartbeatLapses, TypeOK
    <2> QED BY <2>1, <2>2, <2>3
  <1> QED BY <1>1, <1>2 DEF TypeOK, requests, track, history

(* Noticing that Core is lost. *)
LEMMA LossType ==
    ASSUME TypeOK, NEW x \in Actor, overdue, FindsCoreLost(x)
    PROVE  /\ core' \in [epoch : 1..MaxCore, stale : BOOLEAN] \cup {None}
           /\ overdue' = FALSE /\ losses' \in Nat /\ answered' \in BOOLEAN
           /\ watch' \in [Actor -> {"idle", "stale", "stopping", "stopped"}]
  <1>1. core \in [epoch : 1..MaxCore, stale : BOOLEAN]
    BY DEF TypeOK
  <1>2. core' \in [epoch : 1..MaxCore, stale : BOOLEAN]
    BY <1>1 DEF FindsCoreLost
  <1>3. watch' \in [Actor -> {"idle", "stale", "stopping", "stopped"}]
    BY DEF TypeOK, FindsCoreLost
  <1>4. losses' \in Nat
    BY DEF TypeOK, FindsCoreLost
  <1>5. overdue' = FALSE /\ answered' \in BOOLEAN
    BY DEF FindsCoreLost
  <1> QED BY <1>2, <1>3, <1>4, <1>5

LEMMA WatchType ==
    ASSUME TypeOK, NEW x \in Actor, WatchStep(x)
    PROVE  TypeOK' /\ UNCHANGED <<pc, command, slots, lock>>
  <1>1. CASE DecideStop(x)
    BY <1>1 DEF DecideStop, TypeOK, session, requests, track, history
  <1>2. CASE WatchdogStop(x)
    BY <1>2 DEF WatchdogStop, TypeOK, session, requests
  <1>3. CASE MarkStopSent(x)
    BY <1>3 DEF MarkStopSent, TypeOK, requests, track, history
  <1> QED BY <1>1, <1>2, <1>3 DEF WatchStep

LEMMA NextSlots == SlotInvariant /\ [Next]_vars => SlotInvariant'
  <1> SUFFICES ASSUME SlotInvariant, [Next]_vars PROVE SlotInvariant'
    OBVIOUS
  <1>1. TypeOK
    BY DEF SlotInvariant
  <1>2. ASSUME NEW c \in 1..MaxCore, EstablishCoreSession(c) \/ Heartbeat(c)
        PROVE  SlotInvariant'
    BY <1>1, <1>2, SessionType, OtherSlots
  <1>3. ASSUME NEW t \in Thread, NEW c \in Commands, Receive(t, c)
        PROVE  SlotInvariant'
    <2>1. /\ pc[t] = "idle" /\ pc' = [pc EXCEPT ![t] = "received"]
          /\ command' = [command EXCEPT ![t] = c]
          /\ pending' = pending \ {c}
          /\ UNCHANGED <<stopSent, fences, slots, lock, track, stops>>
      BY <1>3 DEF Receive
    <2>2. /\ core' \in [epoch : 1..MaxCore, stale : BOOLEAN] \cup {None}
          /\ overdue' = FALSE /\ losses' \in Nat /\ answered' \in BOOLEAN
          /\ watch' \in [Actor -> {"idle", "stale", "stopping", "stopped"}]
      <3>1. t \in Actor
        BY DEF Actor
      <3> QED BY <1>1, <1>3, <3>1, LossType DEF Receive, TypeOK
    <2>3. \A u \in Thread : u # t => /\ pc'[u] = pc[u]
                                      /\ command'[u] = command[u]
      BY <1>1, <2>1 DEF TypeOK
    <2>4. pc' \in [Thread -> Stage] /\ pc'[t] = "received"
          /\ command' \in [Thread -> Commands \cup {None}] /\ command'[t] = c
      BY <1>1, <2>1 DEF TypeOK, Stage
    <2>5. TypeOK'
      BY <1>1, <2>1, <2>2, <2>3, <2>4, ThreadAssumption DEF TypeOK, track
    <2>6. Executing' = Executing
      BY <2>1, <2>3, <2>4 DEF Executing
    <2>7. SlotsBacked'
      BY <2>1, <2>3, <2>4, <2>6 DEF SlotInvariant, SlotsBacked
    <2> QED BY <2>5, <2>7 DEF SlotInvariant
  <1>4. CASE EmergencyStop
    BY <1>1, <1>4, OtherSlots
    DEF EmergencyStop, TypeOK, session, requests, history
  <1>5. CASE HeartbeatLapses
    <2>1. 1 \in 1..MaxCore
      BY DccBoundsAssumption
    <2> QED BY <1>1, <1>5, <2>1, SessionType, OtherSlots
  <1>6. CASE SerialFails
    BY <1>1, <1>6, OtherSlots
    DEF SerialFails, TypeOK, session, requests, history
  <1>7. ASSUME NEW x \in Actor, overdue, FindsCoreLost(x),
               UNCHANGED <<stopSent, fences, requests, track, stops>>
        PROVE  SlotInvariant'
    <2>1. TypeOK'
      BY <1>1, <1>7, LossType DEF TypeOK, requests, track
    <2> QED BY <1>7, <2>1, OtherSlots DEF requests
  <1>8. CASE WatchdogPolls
    BY <1>7, <1>8 DEF WatchdogPolls, Actor
  <1>9. ASSUME NEW t \in Thread, StatePolls(t) PROVE SlotInvariant'
    BY <1>7, <1>9 DEF StatePolls, Actor
  <1>10. ASSUME NEW t \in Thread, RequestStep(t) PROVE SlotInvariant'
    BY <1>10, RequestSlots
  <1>11. ASSUME NEW x \in Actor, WatchStep(x) PROVE SlotInvariant'
    BY <1>1, <1>11, WatchType, OtherSlots
  <1>12. CASE UNCHANGED vars
    BY <1>1, <1>12, OtherSlots DEF vars, TypeOK
  <1> QED
    BY <1>2, <1>3, <1>4, <1>5, <1>6, <1>8, <1>9, <1>10, <1>11, <1>12
    DEF Next, CoreStep

(* Every reachable state is well typed: a thread that serves a request has *)
(* one, and the semaphore stays within its range.                          *)
THEOREM DccTypeCorrect == Spec => []TypeOK
  <1>1. SlotInvariant => TypeOK
    BY DEF SlotInvariant
  <1> QED BY <1>1, InitSlots, NextSlots, PTL DEF Spec

(* Slots are neither lost nor gained and the operation lock belongs to the *)
(* thread at the station, whatever ends a request (execute, _operating).   *)
THEOREM SlotsCorrect == Spec => []SlotsBacked
  <1>1. SlotInvariant => SlotsBacked
    BY DEF SlotInvariant
  <1> QED BY <1>1, InitSlots, NextSlots, PTL DEF Spec

----------------------------------------------------------------------------
(* The watchdog's all-stops *)

LEMMA ActorFinite == IsFiniteSet(Actor)
  <1>1. IsFiniteSet({Watchdog})
    BY FS_Singleton
  <1> QED BY <1>1, ThreadAssumption, FS_Union DEF Actor

LEMMA OwedFinite == IsFiniteSet(StopsOwed) /\ Cardinality(StopsOwed) \in Nat
  <1>1. StopsOwed \subseteq Actor
    BY DEF StopsOwed
  <1> QED BY <1>1, ActorFinite, FS_Subset, FS_CardinalityType

LEMMA LossOwed ==
    ASSUME TypeOK, WatchInvariant, NEW x \in Actor, watch[x] = "idle",
           FindsCoreLost(x), UNCHANGED stops
    PROVE  WatchInvariant'
  <1>1. x \notin StopsOwed /\ StopsOwed' = StopsOwed \cup {x}
    BY DEF FindsCoreLost, TypeOK, StopsOwed
  <1>2. Cardinality(StopsOwed') = Cardinality(StopsOwed) + 1
    BY <1>1, OwedFinite, FS_AddElement
  <1> QED BY <1>2, OwedFinite DEF FindsCoreLost, TypeOK, WatchInvariant

LEMMA WatchOwed ==
    ASSUME TypeOK, WatchInvariant, NEW x \in Actor, WatchStep(x)
    PROVE  WatchInvariant'
  <1>1. ASSUME x \in StopsOwed, StopsOwed' = StopsOwed \ {x}
        PROVE  Cardinality(StopsOwed') = Cardinality(StopsOwed) - 1
    BY <1>1, OwedFinite, FS_RemoveElement
  <1>2. CASE DecideStop(x)
    <2>1. UNCHANGED <<stops, losses>>
      BY <1>2 DEF DecideStop, history
    <2>2. CASE stopSent
      <3>1. x \in StopsOwed /\ StopsOwed' = StopsOwed \ {x}
        BY <1>2, <2>2 DEF DecideStop, TypeOK, StopsOwed
      <3> QED BY <1>1, <2>1, <3>1, OwedFinite DEF TypeOK, WatchInvariant
    <2>3. CASE ~stopSent
      <3>1. StopsOwed' = StopsOwed
        BY <1>2, <2>3 DEF DecideStop, TypeOK, StopsOwed
      <3> QED BY <2>1, <3>1 DEF WatchInvariant
    <2> QED BY <2>2, <2>3
  <1>3. CASE WatchdogStop(x)
    <2>1. x \in StopsOwed /\ StopsOwed' = StopsOwed \ {x}
      BY <1>3 DEF WatchdogStop, TypeOK, StopsOwed
    <2>2. stops' = stops + 1 /\ UNCHANGED losses
      BY <1>3 DEF WatchdogStop
    <2> QED BY <1>1, <2>1, <2>2, OwedFinite DEF TypeOK, WatchInvariant
  <1>4. CASE MarkStopSent(x)
    <2>1. StopsOwed' = StopsOwed
      BY <1>4 DEF MarkStopSent, TypeOK, StopsOwed
    <2> QED BY <1>4, <2>1 DEF MarkStopSent, WatchInvariant, history
  <1> QED BY <1>2, <1>3, <1>4 DEF WatchStep

LEMMA NextOwed == TypeOK /\ WatchInvariant /\ [Next]_vars => WatchInvariant'
  <1> SUFFICES ASSUME TypeOK, WatchInvariant, [Next]_vars
               PROVE  WatchInvariant'
    OBVIOUS
  <1>1. ASSUME UNCHANGED <<watch, stops, losses>> PROVE WatchInvariant'
    <2>1. StopsOwed' = StopsOwed
      BY <1>1 DEF StopsOwed
    <2> QED BY <1>1, <2>1 DEF WatchInvariant
  <1>2. ASSUME NEW c \in 1..MaxCore, EstablishCoreSession(c) \/ Heartbeat(c)
        PROVE  WatchInvariant'
    BY <1>1, <1>2 DEF EstablishCoreSession, Heartbeat, history
  <1>3. ASSUME NEW t \in Thread, NEW c \in Commands, Receive(t, c)
        PROVE  WatchInvariant'
    <2>1. t \in Actor /\ watch[t] = "idle" /\ UNCHANGED stops
      BY <1>3 DEF Receive, Actor
    <2>2. CASE overdue
      BY <1>3, <2>1, <2>2, LossOwed DEF Receive
    <2>3. CASE ~overdue
      BY <1>1, <1>3, <2>3 DEF Receive
    <2> QED BY <2>2, <2>3
  <1>4. CASE EmergencyStop \/ HeartbeatLapses \/ SerialFails
    BY <1>1, <1>4 DEF EmergencyStop, HeartbeatLapses, SerialFails, history
  <1>5. CASE WatchdogPolls
    BY <1>5, LossOwed DEF WatchdogPolls, Actor
  <1>6. ASSUME NEW t \in Thread, StatePolls(t) PROVE WatchInvariant'
    BY <1>6, LossOwed DEF StatePolls, Actor
  <1>7. ASSUME NEW t \in Thread, RequestStep(t) PROVE WatchInvariant'
    BY <1>1, <1>7 DEF RequestStep, Validate, AcquireSlot, BeginOperation,
       Transmit, TransmitFails, ReplyOrTimeout, ChangeConnection, history
  <1>8. ASSUME NEW x \in Actor, WatchStep(x) PROVE WatchInvariant'
    BY <1>8, WatchOwed
  <1>9. CASE UNCHANGED vars
    BY <1>1, <1>9 DEF vars
  <1> QED
    BY <1>2, <1>3, <1>4, <1>5, <1>6, <1>7, <1>8, <1>9 DEF Next, CoreStep

LEMMA InitOwed == Init => WatchInvariant
  <1> SUFFICES ASSUME Init PROVE WatchInvariant
    OBVIOUS
  <1>1. StopsOwed = {}
    BY DEF Init, StopsOwed
  <1> QED BY <1>1, FS_EmptySet DEF Init, WatchInvariant

(* The all-stops sent and those still owed are accounted for by the losses  *)
(* of Core and the flag, wherever the threads that noticed it stand.        *)
THEOREM StopsAccountedFor == Spec => []WatchInvariant
  BY InitOwed, NextOwed, DccTypeCorrect, PTL DEF Spec

(* However many threads notice that Core is lost, and however the flag is  *)
(* raced, no loss is answered with more than one all-stop.                 *)
THEOREM OneStopCorrect == Spec => []OneStopPerLoss
  <1>1. TypeOK /\ WatchInvariant => OneStopPerLoss
    BY OwedFinite DEF TypeOK, WatchInvariant, OneStopPerLoss
  <1> QED BY <1>1, StopsAccountedFor, DccTypeCorrect, PTL DEF Spec
=============================================================================
