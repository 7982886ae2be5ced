------------------------------ MODULE EspNode ------------------------------
(***************************************************************************)
(* The firmware of the ESP32 nodes (firmware/esp32_node/src/main.cpp), one *)
(* copy per member of Node.                                                *)
(*                                                                         *)
(* One task runs loop() and, inside mqtt.loop(), mqttMessage: a message is *)
(* handled to its end between two steps of the runner.  Everything but the *)
(* recorded turnout positions is lost when the node boots again.           *)
(*                                                                         *)
(* The wire.  An event is added to events and stays there: MC may receive  *)
(* it late, repeatedly or never, in any order.  Of its status the broker   *)
(* keeps the last one (it is retained), which MC may take at any time or   *)
(* miss.  That covers the QoS 0 publisher and connections that are down.   *)
(***************************************************************************)
EXTENDS Naturals, FiniteSets

CONSTANTS
    Execution,  \* execution_ids
    Node,       \* ESP32 nodes
    Config,     \* configuration revisions
    Request,    \* what a command carries; its hash is the request itself
    DoubleSlip, \* the turnouts with two servos
    DedupSize,  \* entries of the deduplication table (64 in the code)
    Installed,  \* the configuration revision each node was built with
    MaxBoot,    \* bound: boots of one node
    None        \* absent value

VARIABLES
    boot,        \* bootId, random in the code and here the number of the boot
    producer,    \* producerSession, 0 for none
    runner,      \* the runner's state
    job,         \* activeAsset, targetValue, activeTurnout, activeSignal
    servoIndex,  \* the servo of a turnout that moves
    executionId, \* executionId and commandHash
    dedup,       \* the terminal state remembered for an execution
    late,        \* executions whose deadline has passed on their node's clock
    events,      \* published on /events
    status,      \* last published on /status (at connection with /availability)
    finished     \* history: executions whose output sequence ran to its end

wire == <<events, status>>
memory == <<boot, producer, runner, job, servoIndex, executionId, dedup>>
nodeVars == <<memory, late, wire, finished>>

Runner == {"idle", "sweep", "settle", "break", "contact", "wait"}
Outcome == {"completed", "failed"}
Report == {"accepted", "started", "rejected"} \cup Outcome
Status == [boot : 1..MaxBoot, session : Nat]
Event == [id : Execution, node : Node, boot : 1..MaxBoot, session : Nat,
          state : Report]
Message == [request : Request, boot : Nat, session : Nat]

NodeTypeOK ==
    /\ boot \in [Node -> 1..MaxBoot]
    /\ producer \in [Node -> Nat]
    /\ runner \in [Node -> Runner]
    /\ job \in [Node -> Request \cup {None}]
    /\ \A n \in Node : (runner[n] = "idle") = (job[n] = None)
    /\ servoIndex \in [Node -> 0..1]
    /\ executionId \in [Node -> Execution \cup {None}]
    /\ dedup \in [Node -> [Execution -> Outcome \cup {None}]]
    /\ late \in SUBSET Execution
    /\ events \in SUBSET Event
    /\ status \in [Node -> Status \cup {None}]
    /\ finished \in SUBSET Execution

Init ==
    /\ boot = [n \in Node |-> 1]
    /\ producer = [n \in Node |-> 0]
    /\ runner = [n \in Node |-> "idle"]
    /\ job = [n \in Node |-> None]
    /\ servoIndex = [n \in Node |-> 0]
    /\ executionId = [n \in Node |-> None]
    /\ dedup = [n \in Node |-> [e \in Execution |-> None]]
    /\ late = {} /\ finished = {}
    /\ events = {} /\ status = [n \in Node |-> None]

----------------------------------------------------------------------------
(* Publishing *)

(* The events of execution e in the given states; without an execution_id  *)
(* MC finds no row for them and ignores them.                              *)
Reports(n, e, states) ==
    IF e = None THEN {}
    ELSE {[id |-> e, node |-> n, boot |-> boot[n], session |-> producer[n],
           state |-> s] : s \in states}

(* publishStatus, every five seconds and when the broker is connected. *)
PublishStatus(n) ==
    /\ status' = [status EXCEPT
                     ![n] = [boot |-> boot[n], session |-> producer[n]]]
    /\ UNCHANGED <<memory, late, events, finished>>

----------------------------------------------------------------------------
(* acceptCommand *)

(* Mutant: a session meant for another boot is taken. *)
TakeSessionOfAnyBoot(n, b, s) ==
    /\ producer' = [producer EXCEPT ![n] = s]
    /\ status' = [status EXCEPT ![n] = [boot |-> boot[n], session |-> s]]
    /\ UNCHANGED <<boot, runner, job, servoIndex, executionId, dedup, late,
                   events, finished>>

(* mc-session: whatever MC offers this boot is taken, also while the        *)
(* runner is busy.  It sets the clock as well.                              *)
TakeSession(n, b, s) ==
    /\ b = boot[n]
    /\ producer' = [producer EXCEPT ![n] = s]
    /\ status' = [status EXCEPT ![n] = [boot |-> boot[n], session |-> s]]
    /\ UNCHANGED <<boot, runner, job, servoIndex, executionId, dedup, late,
                   events, finished>>

HasDedupCapacity(n) ==
    Cardinality({e \in Execution : dedup[n][e] # None}) < DedupSize

(* The checks of a command that was not executed before. *)
Acceptable(n, c) ==
    /\ HasDedupCapacity(n)
    /\ runner[n] = "idle"
    /\ producer[n] # 0 /\ c.boot = boot[n] /\ c.session = producer[n]
    /\ c.request.config = Installed[n]
    /\ c.request.id \notin late

(* A reply that starts nothing.  It leaves no executionId, whatever the     *)
(* runner is doing (main.cpp:110-122).                                      *)
Reply(n, e, s) ==
    /\ events' = events \cup Reports(n, e, {s})
    /\ executionId' = [executionId EXCEPT ![n] = None]
    /\ UNCHANGED <<boot, producer, runner, job, servoIndex, dedup, late,
                   status, finished>>

(* A known execution is answered with its result, the outputs stay alone.  *)
Replay(n, c) ==
    /\ dedup[n][c.request.id] # None
    /\ Reply(n, c.request.id, dedup[n][c.request.id])

(* Refused by a check, or by the action of a machine that is not "operate". *)
Reject(n, c) ==
    /\ dedup[n][c.request.id] = None
    /\ ~Acceptable(n, c) \/ c.request.operation = "machine.execute"
    /\ Reply(n, c.request.id, "rejected")

(* Mutant: results are published and not remembered. *)
RememberedNever(n, e, outcome) == dedup

(* finish: the result is published and remembered under executionId, which  *)
(* a reply may have cleared meanwhile.                                      *)
Remembered(n, e, outcome) ==
    IF e = None THEN dedup ELSE [dedup EXCEPT ![n][e] = outcome]
Finish(n, outcome) ==
    /\ events' = events \cup Reports(n, executionId[n], {outcome})
    /\ dedup' = Remembered(n, executionId[n], outcome)
    /\ runner' = [runner EXCEPT ![n] = "idle"]
    /\ job' = [job EXCEPT ![n] = None]
    /\ servoIndex' = [servoIndex EXCEPT ![n] = 0]
    /\ executionId' = [executionId EXCEPT ![n] = None]
    /\ UNCHANGED <<boot, producer, late, status>>

(* Accepted, started and given up at once: an asset or aspect that is not   *)
(* installed, or a turnout whose position is not recorded.  The owner       *)
(* records and clears positions over the serial line while the runner is    *)
(* idle, so they may be either at this point.                               *)
GiveUp(n, c) ==
    LET e == c.request.id IN
    /\ dedup[n][e] = None
    /\ Acceptable(n, c)
    /\ events' = events \cup Reports(n, e, {"accepted", "started", "failed"})
    /\ dedup' = Remembered(n, e, "failed")
    /\ executionId' = [executionId EXCEPT ![n] = None]
    /\ UNCHANGED <<boot, producer, runner, job, servoIndex, late, status,
                   finished>>

FirstStage(r) ==
    CASE r.operation = "turnout.set" -> "sweep"
      [] r.operation = "signal.set" -> "break"
      [] OTHER -> "contact"

(* Accepted: the runner starts the output sequence. *)
Start(n, c) ==
    LET e == c.request.id IN
    /\ dedup[n][e] = None
    /\ Acceptable(n, c)
    /\ events' = events \cup Reports(n, e, {"accepted", "started"})
    /\ executionId' = [executionId EXCEPT ![n] = e]
    /\ runner' = [runner EXCEPT ![n] = FirstStage(c.request)]
    /\ job' = [job EXCEPT ![n] = c.request]
    /\ UNCHANGED <<boot, producer, servoIndex, dedup, late, status, finished>>

AcceptCommand(n, c) ==
    \/ Replay(n, c) \/ Reject(n, c) \/ GiveUp(n, c) \/ Start(n, c)

----------------------------------------------------------------------------
(* loop: the runner *)

(* An intermediate stage of the sequence. *)
Advance(n, from, to) ==
    /\ runner[n] = from
    /\ runner' = [runner EXCEPT ![n] = to]
    /\ UNCHANGED <<boot, producer, job, executionId, dedup, late, wire,
                   finished>>

ServoArrives(n) == Advance(n, "sweep", "settle") /\ UNCHANGED servoIndex

(* Mutant: a timeout is reported and the servo is left moving. *)
ServoTimesOutMoving(n) ==
    /\ runner[n] = "sweep"
    /\ Reply(n, executionId[n], "failed")

(* Mutant: a timeout is reported as the end of the sequence. *)
ServoTimesOutCompleted(n) ==
    /\ runner[n] = "sweep"
    /\ Finish(n, "completed")
    /\ UNCHANGED finished

(* The sweep took longer than 2.5 seconds. *)
ServoTimesOut(n) ==
    /\ runner[n] = "sweep"
    /\ Finish(n, "failed")
    /\ UNCHANGED finished

(* A double slip has a second servo to move. *)
MoreServos(n) == servoIndex[n] = 0 /\ job[n].asset \in DoubleSlip
NextServo(n) ==
    /\ Advance(n, "settle", "sweep") /\ MoreServos(n)
    /\ servoIndex' = [servoIndex EXCEPT ![n] = 1]

ContactOpens(n) == Advance(n, "contact", "wait") /\ UNCHANGED servoIndex

LastStage(n) ==
    \/ runner[n] = "settle" /\ ~MoreServos(n)
    \/ runner[n] \in {"break", "wait"}
Complete(n) ==
    /\ LastStage(n)
    /\ Finish(n, "completed")
    /\ finished' = finished \cup {job[n].id}

RunnerStep(n) ==
    \/ ServoArrives(n) \/ ServoTimesOut(n) \/ NextServo(n)
    \/ ContactOpens(n) \/ Complete(n)

----------------------------------------------------------------------------
(* Time and power *)

(* The deadline of an execution passes on the clock of its node. *)
DeadlinePassed(e) ==
    /\ e \notin late
    /\ late' = late \cup {e}
    /\ UNCHANGED <<memory, wire, finished>>

(* Sixty seconds after its end an execution is forgotten.  Core gives its   *)
(* commands ten seconds, so their deadlines have passed by then.            *)
Forget(n, e) ==
    /\ dedup[n][e] # None /\ e \in late
    /\ dedup' = [dedup EXCEPT ![n][e] = None]
    /\ UNCHANGED <<boot, producer, runner, job, servoIndex, executionId, late,
                   wire, finished>>

(* Mutant: the job survives the boot. *)
RebootKeepsJob(n) ==
    /\ boot[n] < MaxBoot
    /\ boot' = [boot EXCEPT ![n] = @ + 1]
    /\ producer' = [producer EXCEPT ![n] = 0]
    /\ runner' = [runner EXCEPT ![n] = "idle"]
    /\ servoIndex' = [servoIndex EXCEPT ![n] = 0]
    /\ executionId' = [executionId EXCEPT ![n] = None]
    /\ dedup' = [dedup EXCEPT ![n] = [e \in Execution |-> None]]
    /\ UNCHANGED <<job, late, wire, finished>>

(* setup: outputs off, relay open, everything forgotten. *)
Reboot(n) ==
    /\ boot[n] < MaxBoot
    /\ boot' = [boot EXCEPT ![n] = @ + 1]
    /\ producer' = [producer EXCEPT ![n] = 0]
    /\ runner' = [runner EXCEPT ![n] = "idle"]
    /\ job' = [job EXCEPT ![n] = None]
    /\ servoIndex' = [servoIndex EXCEPT ![n] = 0]
    /\ executionId' = [executionId EXCEPT ![n] = None]
    /\ dedup' = [dedup EXCEPT ![n] = [e \in Execution |-> None]]
    /\ UNCHANGED <<late, wire, finished>>
=============================================================================
