---------------------------- MODULE CoreService ----------------------------
(***************************************************************************)
(* mtos_core: the journal, the emergency latch and the path of a command   *)
(* from its arrival to the adapters and back (src/mtos/core/service.py,    *)
(* repository.py, clients.py), over the leases of AssetLease.               *)
(*                                                                         *)
(* Steps.  An HTTP thread works through the stages of its operation; each   *)
(* stage is one transaction or one remote call, and threads share no lock  *)
(* but the one around the latch.  A call to an adapter is in flight until  *)
(* the adapter takes it: Core may have given up on it, or crashed, before;  *)
(* so may a request to the asset service.  The adapters appear as far as    *)
(* Core relies on them: a session, a fence per asset, what a call does to  *)
(* the railway; DCC checks a call and executes it in two steps, in between  *)
(* of which calls overtake each other.                                     *)
(*                                                                         *)
(* Abstractions: "throttle" stands for functions too, "cv" for the reads    *)
(* and writes of the programming track, "power" for switching the main     *)
(* track on.  Switching it off, connecting and disconnecting ask for less   *)
(* than "power"; commands without an identity get a fresh one.              *)
(***************************************************************************)
EXTENDS AssetLease, FiniteSets

CONSTANTS
    Thread,      \* HTTP threads
    CommandId,   \* identities chosen by the clients
    Commands,    \* the commands clients may send, any number of times
    MaxArrivals, \* bound: requests that arrive
    MaxDccRestarts, MaxMcRestarts \* bounds: restarts of the adapters

Operation ==
    {"throttle", "stop", "program", "cv", "stationary", "power", "emergency"}
Command == [id : CommandId, op : Operation, asset : Asset, value : Address]

ASSUME CommandsAssumption == Commands \subseteq Command
ASSUME ArrivalsAssumption == MaxArrivals \in Nat
ASSUME RestartsAssumption == MaxDccRestarts \in Nat /\ MaxMcRestarts \in Nat

(* What comes after a stage; the first stage is that of "arrive". *)
Following == [
    throttle   |-> [arrive |-> "lookup", lookup |-> "read", read |-> "lease",
                    lease |-> "reserve"],
    stop       |-> [arrive |-> "lookup", lookup |-> "choose", read |-> "lease",
                    lease |-> "reserve"],
    program    |-> [arrive |-> "read", read |-> "lease", lease |-> "lookup",
                    lookup |-> "reserve"],
    cv         |-> [arrive |-> "read", read |-> "lease", lease |-> "begin"],
    stationary |-> [arrive |-> "read", read |-> "lookup", lookup |-> "lease",
                    lease |-> "begin"],
    power      |-> [arrive |-> "lookup", lookup |-> "begin"],
    emergency  |-> [arrive |-> "begin"]]

Stage == {"idle", "lookup", "read", "choose", "lease", "reserve", "hold",
          "begin", "call", "waiting", "commit", "release", "done"}

(* Operations that need the asset's lease. *)
Leased == {"throttle", "stop", "program", "cv", "stationary"}
(* Operations whose journal entry decides whether they go on. *)
Dispatched == {"throttle", "stop", "cv", "power", "emergency"}
(* The mode an asset must be in. *)
RequiredMode(op) == IF op \in {"program", "cv"} THEN "maintenance" ELSE "active"

VARIABLES
    phase,       \* Core: down, booted, DCC session established, up
    epoch,       \* core_metadata.epoch, the session of the running process
    latched,     \* emergency_latched
    row,         \* table command
    reservation, \* table reservation
    pc,          \* stage of each thread
    work,        \* what it works on: command, attempt, asset as read, token
    reply,       \* answer to the thread's call
    arrivals,    \* requests that have arrived
    wire,        \* calls in flight to the adapters
    taken,       \* calls DCC has accepted and not yet executed
    late,        \* requests to the asset service nobody waits for
    dcc,         \* mtos_dcc: session, fences, whether it has forgotten fences
                 \* since Core's start; the railway: decoders, moving
    mc,          \* mtos_mc: session, fences, executions
    seen,        \* MC executions read by the heartbeat, to be reconciled
    acts         \* how often a command was executed

process == <<phase, epoch, latched>>
journal == <<row, reservation>>
threads == <<pc, work, reply, arrivals>>
adapters == <<wire, taken, dcc, mc, acts>>
vars == <<registry, process, journal, threads, late, seen, adapters>>

Row == [command : Commands, revision : Nat,
        state : {"accepted", "completed", "failed", "uncertain"},
        result : BOOLEAN]
Reservation == [token : Nat, address : Address \cup {None}]
Work == [command : Commands, attempt : Nat, revision : Nat,
         address : Address \cup {None}, token : Nat]
Call == [command : Commands, attempt : Nat, session : Session, token : Nat,
         address : Address \cup {None}]
Request == [op : {"lease", "commit"}, asset : Asset, revision : Nat,
            session : Session, address : Address]
Execution == [command : Commands,
              state : {"active", "completed", "failed", "uncertain"}]

ASSUME AbsenceAssumption ==
    /\ None \notin Row /\ None \notin Work /\ None \notin Execution
    /\ None \notin {"ok", "error"}

TypeOK ==
    /\ RegistryTypeOK
    /\ phase \in {"down", "booted", "dcc", "up"}
    /\ epoch \in 0..MaxSession /\ (phase # "down" => epoch > 0)
    /\ latched \in BOOLEAN
    /\ row \in [CommandId -> Row \cup {None}]
    /\ reservation \in [Asset -> Reservation \cup {None}]
    /\ pc \in [Thread -> Stage]
    /\ work \in [Thread -> Work \cup {None}]
    /\ \A t \in Thread : pc[t] = "idle" <=> work[t] = None
    /\ reply \in [Thread -> {"ok", "error", None}]
    /\ arrivals \in 0..MaxArrivals
    /\ wire \in SUBSET Call /\ taken \in SUBSET Call
    /\ late \in SUBSET Request
    /\ dcc \in [session : 0..MaxSession, fence : [Asset -> Nat],
                forgot : BOOLEAN, restarts : 0..MaxDccRestarts,
                decoder : [Asset -> Address], moving : SUBSET Asset]
    /\ mc \in [session : 0..MaxSession, fence : [Asset -> Nat],
               restarts : 0..MaxMcRestarts,
               execution : [CommandId -> Execution \cup {None}]]
    /\ seen \in [CommandId -> Execution \cup {None}] \cup {None}
    /\ acts \in [CommandId -> Nat]

Init ==
    /\ RegistryInit
    /\ phase = "down" /\ epoch = 0 /\ latched = FALSE
    /\ row = [k \in CommandId |-> None]
    /\ reservation = [a \in Asset |-> None]
    /\ pc = [t \in Thread |-> "idle"]
    /\ work = [t \in Thread |-> None]
    /\ reply = [t \in Thread |-> None]
    /\ arrivals = 0
    /\ wire = {} /\ taken = {} /\ late = {}
    /\ dcc = [session |-> 0, fence |-> [a \in Asset |-> 0], forgot |-> FALSE,
              restarts |-> 0, decoder |-> [a \in Asset |-> asset[a].address], moving |-> {}]
    /\ mc = [session |-> 0, fence |-> [a \in Asset |-> 0], restarts |-> 0,
             execution |-> [k \in CommandId |-> None]]
    /\ seen = None
    /\ acts = [k \in CommandId |-> 0]

----------------------------------------------------------------------------
(* The process: boot, start, crash *)

Boot ==
    /\ phase = "down" /\ epoch < MaxSession
    /\ phase' = "booted"
    /\ epoch' = epoch + 1
    /\ UNCHANGED <<registry, latched, journal, threads, late, seen, adapters>>

(* start: first the session with DCC, then the one with MC.  It may be      *)
(* called again, with the session the process has (core_app.py:65).         *)
StartDcc ==
    /\ phase # "down"
    /\ phase' = IF phase = "up" THEN "up" ELSE "dcc"
    /\ dcc' = [dcc EXCEPT !.session = epoch,
                          !.forgot = IF phase = "booted" THEN FALSE ELSE @]
    /\ UNCHANGED <<registry, epoch, latched, journal, threads, late, seen,
                   wire, taken, mc, acts>>

StartMc ==
    /\ phase \in {"dcc", "up"}
    /\ phase' = "up"
    /\ mc' = [mc EXCEPT !.session = epoch]
    /\ UNCHANGED <<registry, epoch, latched, journal, threads, late, seen,
                   wire, taken, dcc, acts>>

(* The process dies; calls it has sent stay in flight. *)
Crash ==
    /\ phase # "down"
    /\ phase' = "down"
    /\ latched' = FALSE
    /\ pc' = [t \in Thread |-> "idle"]
    /\ work' = [t \in Thread |-> None]
    /\ reply' = [t \in Thread |-> None]
    /\ seen' = None
    /\ UNCHANGED <<registry, epoch, journal, arrivals, late, adapters>>

----------------------------------------------------------------------------
(* The stages of a command *)

Elsewhere == <<process, arrivals, late, seen, adapters>>

Cmd(t) == work[t].command
Op(t) == work[t].command.op
At(t, stage) == pc[t] = stage
GoTo(t, stage) == pc' = [pc EXCEPT ![t] = stage]
Advance(t) == GoTo(t, Following[Op(t)][pc[t]])

(* The request is answered: with a result, a stored result or an error. *)
Answer(t) ==
    /\ pc' = [pc EXCEPT ![t] = "idle"]
    /\ work' = [work EXCEPT ![t] = None]
    /\ reply' = [reply EXCEPT ![t] = None]

(* Operations other than the emergency stop and the programming track ask  *)
(* for a started Core; movement and power ask for the latch, which the     *)
(* emergency stop sets at once.                                            *)
Admits(c) ==
    /\ phase # "down"
    /\ c.op \notin {"cv", "emergency"} => phase = "up"
    /\ c.op \in {"throttle", "power"} => ~latched

Arrive(t, c) ==
    /\ At(t, "idle") /\ arrivals < MaxArrivals
    /\ Admits(c)
    /\ GoTo(t, Following[c.op].arrive)
    /\ work' = [work EXCEPT ![t] =
                   [command |-> c, attempt |-> arrivals, revision |-> 0,
                    address |-> None, token |-> 0]]
    /\ latched' = (latched \/ c.op = "emergency")
    /\ arrivals' = arrivals + 1
    /\ UNCHANGED <<registry, phase, epoch, journal, reply, late, seen, adapters>>

(* _existing: a journalled identity is answered from the journal.  An       *)
(* address that is the decoder's already is refused just before.            *)
Lookup(t) ==
    /\ At(t, "lookup")
    /\ IF /\ row[Cmd(t).id] = None
          /\ Op(t) = "program" => work[t].address # Cmd(t).value
       THEN Advance(t) /\ UNCHANGED <<work, reply>>
       ELSE Answer(t)
    /\ UNCHANGED <<registry, journal, Elsewhere>>

(* asset.get and the checks of family, lifecycle and track. *)
ReadAsset(t) ==
    /\ At(t, "read")
    /\ LET a == asset[Cmd(t).asset] IN
       IF a.mode = RequiredMode(Op(t))
       THEN /\ Advance(t)
            /\ work' = [work EXCEPT ![t].revision = a.revision,
                                    ![t].address = a.address]
            /\ UNCHANGED reply
       ELSE Answer(t)
    /\ UNCHANGED <<registry, journal, Elsewhere>>

(* stop uses what the asset is reserved with, or reads and leases it. *)
ChooseReservation(t) ==
    /\ At(t, "choose")
    /\ LET r == reservation[Cmd(t).asset] IN
       IF r = None THEN GoTo(t, "read") /\ UNCHANGED work
       ELSE /\ GoTo(t, "begin")
            /\ work' = [work EXCEPT ![t].token = r.token,
                                    ![t].address = r.address]
    /\ UNCHANGED <<registry, journal, reply, Elsewhere>>

RequestLease(t) ==
    /\ At(t, "lease")
    /\ LET a == Cmd(t).asset IN
       /\ AcquireLease(a, work[t].revision, epoch)
       /\ work' = [work EXCEPT ![t].token = GrantedToken(a, epoch)]
    /\ Advance(t)
    /\ UNCHANGED <<journal, reply, Elsewhere>>

(* reserve reads the row in one transaction... *)
CheckReservation(t) ==
    /\ At(t, "reserve")
    /\ LET r == reservation[Cmd(t).asset] IN
       r # None => r.token <= work[t].token
    /\ GoTo(t, "hold")
    /\ UNCHANGED <<registry, journal, work, reply, Elsewhere>>

(* ... and writes it in another. *)
HoldReservation(t) ==
    /\ At(t, "hold")
    /\ reservation' = [reservation EXCEPT ![Cmd(t).asset] =
                          [token |-> work[t].token,
                           address |-> work[t].address]]
    /\ GoTo(t, "begin")
    /\ UNCHANGED <<registry, row, work, reply, Elsewhere>>

(* Core gives up on the asset service, whose answer is late.               *)
LeaveLate(t, op, d) ==
    late' = late \cup {[op |-> op, asset |-> Cmd(t).asset,
                        revision |-> work[t].revision, session |-> epoch,
                        address |-> d]}

LeaseUnanswered(t) ==
    /\ At(t, "lease")
    /\ LeaveLate(t, "lease", Cmd(t).value)
    /\ Answer(t)
    /\ UNCHANGED <<registry, process, journal, arrivals, seen, adapters>>

(* Before the journal entry every refusal and every failed call ends the    *)
(* request with an error and nothing else.                                  *)
Refuse(t) ==
    /\ pc[t] \in {"lookup", "read", "choose", "lease", "reserve", "hold",
                  "begin"}
    /\ Answer(t)
    /\ UNCHANGED <<registry, journal, Elsewhere>>

Entry(t) ==
    [command |-> Cmd(t),
     revision |-> IF Op(t) = "program" THEN work[t].revision ELSE 0,
     state |-> "accepted", result |-> FALSE]
SameCommand(r, t) ==
    r.command = Cmd(t) /\ r.revision = Entry(t).revision

(* Mutant: _dispatch does not look at what begin returned either. *)
BeginUnread(t) ==
    /\ At(t, "begin")
    /\ LET k == Cmd(t).id IN
       \/ /\ row[k] = None
          /\ row' = [row EXCEPT ![k] = Entry(t)]
          /\ GoTo(t, "call") /\ UNCHANGED <<work, reply>>
       \/ /\ row[k] # None
          /\ UNCHANGED row
          /\ IF ~SameCommand(row[k], t)
             THEN Answer(t)
             ELSE GoTo(t, "call") /\ UNCHANGED <<work, reply>>
    /\ UNCHANGED <<registry, reservation, Elsewhere>>

(* Mutant: an entry that is there is written anew. *)
BeginReplaces(t) ==
    /\ At(t, "begin")
    /\ row' = [row EXCEPT ![Cmd(t).id] = Entry(t)]
    /\ GoTo(t, "call")
    /\ UNCHANGED <<registry, reservation, work, reply, Elsewhere>>

(* begin: the entry is written, or is there already; stationary and         *)
(* program_address do not look at which of the two it was.                  *)
Begin(t) ==
    /\ At(t, "begin")
    /\ LET k == Cmd(t).id IN
       \/ /\ row[k] = None
          /\ row' = [row EXCEPT ![k] = Entry(t)]
          /\ GoTo(t, "call") /\ UNCHANGED <<work, reply>>
       \/ /\ row[k] # None
          /\ UNCHANGED row
          /\ IF Op(t) \in Dispatched \/ ~SameCommand(row[k], t)
             THEN Answer(t)
             ELSE GoTo(t, "call") /\ UNCHANGED <<work, reply>>
    /\ UNCHANGED <<registry, reservation, Elsewhere>>

(* The call leaves for the adapter. *)
SendCall(t) ==
    /\ At(t, "call")
    /\ wire' = wire \cup
          {[command |-> Cmd(t), attempt |-> work[t].attempt,
            session |-> epoch, token |-> work[t].token,
            address |-> work[t].address]}
    /\ GoTo(t, "waiting")
    /\ UNCHANGED <<registry, process, journal, work, reply, arrivals, late,
                   seen, taken, dcc, mc, acts>>

FinishAs(t, state, result) ==
    row' = [row EXCEPT ![Cmd(t).id].state = state,
                       ![Cmd(t).id].result = result]

(* Mutant: what MC has accepted counts as done. *)
ConfirmedAtOnce(t) ==
    /\ At(t, "waiting") /\ reply[t] = "ok"
    /\ IF Op(t) = "program"
       THEN GoTo(t, "commit") /\ UNCHANGED <<row, work, reply>>
       ELSE FinishAs(t, "completed", TRUE) /\ Answer(t)
    /\ UNCHANGED <<registry, reservation, Elsewhere>>

(* The adapter has confirmed: finished, accepted by MC, or to be committed. *)
Confirmed(t) ==
    /\ At(t, "waiting") /\ reply[t] = "ok"
    /\ IF Op(t) = "program"
       THEN GoTo(t, "commit") /\ UNCHANGED <<row, work, reply>>
       ELSE /\ FinishAs(t, IF Op(t) = "stationary" THEN "accepted"
                           ELSE "completed", TRUE)
            /\ Answer(t)
    /\ UNCHANGED <<registry, reservation, Elsewhere>>

(* Mutant: an address that was not confirmed counts as not programmed. *)
FinishFailed(t) ==
    /\ pc[t] \in {"waiting", "commit", "release", "done"}
    /\ FinishAs(t, IF Op(t) = "program" THEN "failed" ELSE "uncertain",
                Op(t) = "program")
    /\ Answer(t)
    /\ UNCHANGED <<registry, reservation, Elsewhere>>

(* An error, a timeout or a lost answer: the outcome is unknown, unless it  *)
(* is the journal that fails.                                              *)
FinishUncertain(t) ==
    /\ pc[t] \in {"waiting", "commit", "release", "done"}
    /\ FinishAs(t, "uncertain", Op(t) = "program")
    /\ Answer(t)
    /\ UNCHANGED <<registry, reservation, Elsewhere>>

(* The verified address is committed; Core may not hear of it. *)
CommitAddress(t) ==
    /\ At(t, "commit")
    /\ UpdateProgrammedAddress(Cmd(t).asset, work[t].revision,
                               Cmd(t).value)
    /\ GoTo(t, "release")
    /\ UNCHANGED <<journal, work, reply, Elsewhere>>

CommitUnanswered(t) ==
    /\ At(t, "commit")
    /\ LeaveLate(t, "commit", Cmd(t).value)
    /\ FinishAs(t, "uncertain", TRUE)
    /\ Answer(t)
    /\ UNCHANGED <<registry, process, reservation, arrivals, seen, adapters>>

ReleaseReservation(t) ==
    /\ At(t, "release")
    /\ reservation' = [reservation EXCEPT ![Cmd(t).asset] = None]
    /\ GoTo(t, "done")
    /\ UNCHANGED <<registry, row, work, reply, Elsewhere>>

FinishProgrammed(t) ==
    /\ At(t, "done")
    /\ FinishAs(t, "completed", TRUE)
    /\ Answer(t)
    /\ UNCHANGED <<registry, reservation, Elsewhere>>

CommandStep(t) ==
    \/ Lookup(t) \/ ReadAsset(t) \/ ChooseReservation(t) \/ RequestLease(t)
    \/ CheckReservation(t) \/ HoldReservation(t) \/ Refuse(t) \/ Begin(t)
    \/ SendCall(t) \/ Confirmed(t) \/ FinishUncertain(t) \/ CommitAddress(t)
    \/ LeaseUnanswered(t) \/ CommitUnanswered(t)
    \/ ReleaseReservation(t) \/ FinishProgrammed(t)

Resume ==
    /\ phase = "up"
    /\ latched' = FALSE
    /\ UNCHANGED <<registry, phase, epoch, journal, threads, late, seen,
                   adapters>>

----------------------------------------------------------------------------
(* The heartbeat thread reads MC's executions and reconciles the journal    *)

(* heartbeat of both adapters, then MC's list; an empty one does nothing.   *)
ReadExecutions ==
    /\ phase = "up" /\ seen = None
    /\ dcc.session = epoch /\ mc.session = epoch
    /\ \E k \in CommandId : mc.execution[k] # None
    /\ seen' = mc.execution
    /\ UNCHANGED <<registry, process, journal, threads, late, adapters>>

(* reconcile_mc: accepted entries that know their execution. *)
Reconciled(k) ==
    IF /\ row[k] # None /\ row[k].state = "accepted" /\ row[k].result
       /\ row[k].command.op = "stationary"
       /\ seen[k] # None /\ seen[k].state # "active"
    THEN [row[k] EXCEPT !.state = seen[k].state]
    ELSE row[k]

ReconcileMc ==
    /\ seen # None
    /\ row' = [k \in CommandId |-> Reconciled(k)]
    /\ seen' = None
    /\ UNCHANGED <<registry, process, reservation, threads, late, adapters>>

----------------------------------------------------------------------------
(* The adapters *)

(* The thread that still waits for this call hears the answer. *)
Tell(call, answer) ==
    reply' = [t \in Thread |->
                 IF At(t, "waiting") /\ work[t].attempt = call.attempt
                 THEN answer ELSE reply[t]]

ForMc(call) == call.command.op = "stationary"
Fenced(call) == call.command.op \in Leased

(* Mutant: the token is not compared. *)
AcceptsAnyToken(adapter, call) ==
    call.command.op = "emergency" \/ adapter.session = call.session

AcceptsSession(adapter, call) ==
    \/ call.command.op = "emergency"
    \/ /\ adapter.session = call.session
       /\ Fenced(call) => call.token >= adapter.fence[call.command.asset]

Advanced(adapter, call) ==
    IF Fenced(call) THEN [adapter.fence EXCEPT ![call.command.asset] = call.token]
    ELSE adapter.fence

(* What a call does to the railway. *)
DecodersAfter(call) ==
    IF call.command.op = "program"
    THEN [dcc.decoder EXCEPT ![call.command.asset] = call.command.value]
    ELSE dcc.decoder
MovingAfter(call) ==
    LET a == call.command.asset IN
    CASE call.command.op = "throttle" -> dcc.moving \cup {a}
      [] call.command.op = "stop" -> dcc.moving \ {a}
      [] call.command.op = "emergency" -> {}
      [] OTHER -> dcc.moving

CoreAside == <<process, journal, pc, work, arrivals, seen>>

(* validate: session and fence of a call are checked and the fence moves. *)
DccAdmits(call) ==
    /\ call \in wire /\ ~ForMc(call) /\ AcceptsSession(dcc, call)
    /\ wire' = wire \ {call}
    /\ taken' = taken \cup {call}
    /\ dcc' = [dcc EXCEPT !.fence = Advanced(dcc, call)]
    /\ UNCHANGED <<registry, late, reply, CoreAside, mc, acts>>

(* DCC executes a call; it may fail to confirm what it did. *)
DccActs(call) ==
    /\ call \in taken
    /\ taken' = taken \ {call}
    /\ dcc' = [dcc EXCEPT !.decoder = DecodersAfter(call),
                          !.moving = MovingAfter(call)]
    /\ acts' = [acts EXCEPT ![call.command.id] = @ + 1]
    /\ \E answer \in {"ok", "error"} : Tell(call, answer)
    /\ UNCHANGED <<registry, late, CoreAside, wire, mc>>

(* A call is refused, or lost. *)
DccRefuses(call) ==
    /\ call \in wire \cup taken /\ ~ForMc(call)
    /\ wire' = wire \ {call}
    /\ taken' = taken \ {call}
    /\ Tell(call, "error")
    /\ UNCHANGED <<registry, late, CoreAside, dcc, mc, acts>>

Outstanding(k) ==
    mc.execution[k] # None /\ mc.execution[k].state \in {"active", "uncertain"}

(* One outstanding execution per asset, one execution per identity. *)
McFree(call) ==
    /\ mc.execution[call.command.id] = None
    /\ \A k \in CommandId :
          Outstanding(k) => mc.execution[k].command.asset # call.command.asset

McAccepts(call) ==
    /\ call \in wire /\ ForMc(call) /\ AcceptsSession(mc, call) /\ McFree(call)
    /\ wire' = wire \ {call}
    /\ mc' = [mc EXCEPT !.fence = Advanced(mc, call),
                        !.execution[call.command.id] =
                            [command |-> call.command, state |-> "active"]]
    /\ acts' = [acts EXCEPT ![call.command.id] = @ + 1]
    /\ \E answer \in {"ok", "error"} : Tell(call, answer)
    /\ UNCHANGED <<registry, late, CoreAside, taken, dcc>>

McRefuses(call) ==
    /\ call \in wire /\ ForMc(call)
    /\ wire' = wire \ {call}
    /\ \/ UNCHANGED mc
       \/ /\ AcceptsSession(mc, call)
          /\ mc' = [mc EXCEPT !.fence = Advanced(mc, call)]
    /\ Tell(call, "error")
    /\ UNCHANGED <<registry, late, CoreAside, taken, dcc, acts>>

(* An execution ends, or the operator resolves an uncertain one. *)
McResolves(k) ==
    /\ Outstanding(k)
    /\ \E s \in {"completed", "failed", "uncertain"} \ {mc.execution[k].state} :
          mc' = [mc EXCEPT !.execution[k].state = s]
    /\ UNCHANGED <<registry, process, journal, threads, late, seen, wire, taken,
                   dcc, acts>>

(* DCC restarts: the session, the fences and the calls it had taken are     *)
(* gone; the railway stays as it is.  (Without a session there is nothing   *)
(* to lose but calls, as if it refused them.)                               *)
RestartDcc ==
    /\ dcc.session # 0 /\ dcc.restarts < MaxDccRestarts
    /\ dcc' = [dcc EXCEPT !.session = 0, !.fence = [a \in Asset |-> 0],
                          !.forgot = TRUE, !.restarts = @ + 1]
    /\ taken' = {}
    /\ UNCHANGED <<registry, process, journal, threads, late, seen, wire, mc,
                   acts>>

(* MC restarts: its ledger and fences are kept; what was dispatched is       *)
(* uncertain.                                                               *)
RestartMc ==
    /\ mc.session # 0 /\ mc.restarts < MaxMcRestarts
    /\ \E dispatched \in SUBSET {k \in CommandId :
               mc.execution[k] # None /\ mc.execution[k].state = "active"} :
          mc' = [mc EXCEPT !.session = 0, !.restarts = @ + 1, !.execution =
                    [k \in CommandId |->
                        IF k \in dispatched
                        THEN [mc.execution[k] EXCEPT !.state = "uncertain"]
                        ELSE mc.execution[k]]]
    /\ UNCHANGED <<registry, process, journal, threads, late, seen, wire, taken,
                   dcc, acts>>

AdapterStep ==
    \/ \E call \in wire \cup taken :
          \/ DccAdmits(call) \/ DccActs(call) \/ DccRefuses(call)
          \/ McAccepts(call) \/ McRefuses(call)
    \/ (\E k \in CommandId : McResolves(k))
    \/ RestartDcc \/ RestartMc

(* The owner edits an asset while Core works. *)
OwnerEdits ==
    /\ \E a \in Asset : EditDescription(a) \/ EditOperatingView(a)
    /\ UNCHANGED <<process, journal, threads, late, seen, adapters>>

(* The asset service takes a request nobody waits for, if it still can. *)
LateRequest(r) ==
    /\ \/ r.op = "lease" /\ AcquireLease(r.asset, r.revision, r.session)
       \/ r.op = "commit"
          /\ UpdateProgrammedAddress(r.asset, r.revision, r.address)
    /\ late' = late \ {r}
    /\ UNCHANGED <<process, journal, threads, seen, adapters>>

----------------------------------------------------------------------------

ProcessStep == Boot \/ StartDcc \/ StartMc \/ Crash

Next ==
    \/ ProcessStep \/ Resume \/ ReadExecutions \/ ReconcileMc
    \/ \E t \in Thread : \/ CommandStep(t)
                         \/ \E c \in Commands : Arrive(t, c)
    \/ AdapterStep \/ OwnerEdits \/ (\E r \in late : LateRequest(r))

Spec == Init /\ [][Next]_vars

----------------------------------------------------------------------------
(* Properties *)

(* A command identity is executed at most once, whatever is repeated,       *)
(* times out or crashes, and never before it is in the journal.  (The       *)
(* programming of addresses is the exception; see ProgrammedOnce.)          *)
ExecutedOnce ==
    \A k \in CommandId :
        /\ acts[k] > 0 => row[k] # None
        /\ (row[k] # None /\ row[k].command.op # "program") => acts[k] <= 1

(* The journal reports no success that did not happen: what it calls        *)
(* completed was executed, or completed by MC; what it calls failed failed. *)
JournalTruthful ==
    \A k \in CommandId : row[k] # None =>
        IF row[k].command.op = "stationary"
        THEN /\ row[k].state \in {"completed", "failed"}
                    => /\ mc.execution[k] # None
                       /\ mc.execution[k].state = row[k].state
             /\ row[k].result => acts[k] = 1
        ELSE row[k].state = "completed" => acts[k] > 0

(* Whatever happens between the decoder and the asset's record - timeouts,  *)
(* late calls, edits, crashes, two addresses at once -, the two agree       *)
(* unless the journal says that an address is unresolved, or an identity    *)
(* was programmed again (see ProgrammedOnce), after which an entry may be   *)
(* completed while a call of it is still to come.                           *)
Unresolved(a) ==
    \E k \in CommandId :
        /\ row[k] # None
        /\ row[k].command.op = "program" /\ row[k].command.asset = a
        /\ row[k].state \in {"accepted", "uncertain"} \/ acts[k] > 1
DecoderKnown ==
    \A a \in Asset : dcc.decoder[a] # asset[a].address => Unresolved(a)

(* DCC takes a call to move for the address the decoder has then, not for   *)
(* the one it had when Core read it, unless an address is unresolved: the   *)
(* fence keeps back calls that a programming overtook.  (A stop borrows the *)
(* token of whoever reserved the asset and is not kept back.)  A restart of *)
(* DCC opens the fence until Core starts with a new epoch, which no old     *)
(* call carries; see RightAfterRestart.                                     *)
Meant(call) ==
    \/ call.address = dcc.decoder[call.command.asset]
    \/ Unresolved(call.command.asset)
RightLocomotive ==
    [][\A call \in taken' \ taken :
          call.command.op = "throttle" => Meant(call) \/ dcc.forgot]_vars

(* No adapter has seen a token that was not issued, so that the holder of   *)
(* the newest lease is never refused as stale, over restarts of Core and    *)
(* edits that retire leases.                                                *)
HolderPasses ==
    \A a \in Asset : dcc.fence[a] <= fence[a] /\ mc.fence[a] <= fence[a]

(* Why: every token a thread, a reservation or a call carries was issued.   *)
TokensIssued ==
    /\ HolderPasses
    /\ \A t \in Thread :
          work[t] # None => work[t].token <= fence[work[t].command.asset]
    /\ \A a \in Asset :
          reservation[a] # None => reservation[a].token <= fence[a]
    /\ \A call \in wire : call.token <= fence[call.command.asset]

(* A journal entry that is completed stays so (for the operations that go   *)
(* on only if they wrote the entry).                                        *)
FinalResult ==
    [][\A k \in CommandId :
          (/\ row[k] # None /\ row[k].state = "completed"
           /\ row[k].command.op \in Dispatched) => row'[k] = row[k]]_vars

----------------------------------------------------------------------------
(* What the documentation promises and the code does not keep *)

(* A repeated program_address is answered from the journal and does not     *)
(* program again.                                                           *)
ProgrammedOnce == \A k \in CommandId : acts[k] <= 1

(* Lower tokens are rejected, also by a DCC that was restarted.             *)
RightAfterRestart ==
    [][\A call \in taken' \ taken :
          call.command.op = "throttle" => Meant(call)]_vars

(* Once Core is latched and the emergency stop is confirmed, no locomotive  *)
(* starts to move until Core resumes.                                       *)
Halted ==
    /\ latched
    /\ \E k \in CommandId : /\ row[k] # None
                            /\ row[k].command.op = "emergency"
                            /\ row[k].state = "completed"
NoMotionWhileLatched == [][Halted => dcc'.moving \subseteq dcc.moving]_vars
=============================================================================
