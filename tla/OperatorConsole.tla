--------------------------- MODULE OperatorConsole ---------------------------
(***************************************************************************)
(* The operator's page: the component App of App.tsx and the socket calls  *)
(* of api.ts, composed with the gateway of HmiGateway.  A click starts an  *)
(* asynchronous function that waits, in this order, for the connection,    *)
(* for the acknowledgement of control.command, and for a snapshot (or, for *)
(* a programming command, for its terminal event and then the list of      *)
(* programmable assets).  Each wait ends with an answer or a timeout; in   *)
(* between anything else on the page may run: other clicks, pushed         *)
(* snapshots, the throttle's timer, the end of the page's loading.         *)
(*                                                                         *)
(* What React derives from the state (lifecycle, pendingFunctions,         *)
(* programmingBusy) is derived here from the commands in flight.  Left     *)
(* out: speed and direction values, messages, the tab shown, the only-     *)
(* decoder checkbox.                                                       *)
(***************************************************************************)
EXTENDS HmiGateway

VARIABLES
    step,      \* what each command's function waits for
    answer,    \* what the page has said of it
    nextSeq,   \* clientSequence
    reply,     \* the answer to its last request for a snapshot or a list
    view,      \* snapshot
    shown,     \* functionStates: the buttons shown active
    selected,  \* selectedAsset
    timer,     \* throttleTimer: the locomotive whose slider moved
    loading,   \* the effect load()
    first,     \* its session snapshot
    reading,   \* decoderAddress
    listed,    \* the address in programmingAssets
    chosen     \* whether programmingAsset is picked

clickVars == <<step, answer, nextSeq, reply>>
shownVars == <<view, shown, selected>>
loadVars == <<loading, first>>
trackVars == <<reading, listed, chosen>>
pageVars == <<clickVars, shownVars, timer, loadVars, trackVars>>

vars == <<gatewayVars, pageVars>>

(* What a click leaves alone besides.                                       *)
beyondVars == <<scenario, coreVars, others, hmiVars, linkVars, changed>>

LifecycleKind == {"connect", "disconnect", "power"}
TrackKind == {"read", "write", "cv"}

TypeOK ==
    /\ GatewayTypeOK
    /\ step \in [Command -> {"unused", "connecting", "sent", "awaiting",
                             "reading", "listing", "settled"}]
    /\ answer \in [Command -> {"none", "accepted", "completed", "failed"}]
    /\ nextSeq \in Nat
    /\ reply \in [Command -> Snapshot \cup Address \cup {None}]
    /\ view \in Snapshot
    /\ shown \subseteq Pair
    /\ selected \in Loco \cup {None}
    /\ timer \in Loco \cup {None}
    /\ loading \in {"session", "lists", "done", "failed"}
    /\ first \in Snapshot
    /\ reading \in Address \cup {None}
    /\ listed \in Address \cup {None}
    /\ chosen \in BOOLEAN

initialSnapshot ==
    [ready |-> FALSE, power |-> "unknown", latched |-> FALSE,
     functions |-> [p \in Pair |-> "none"]]

Init ==
    /\ GatewayInit
    /\ step = [c \in Command |-> "unused"]
    /\ answer = [c \in Command |-> "none"]
    /\ nextSeq = 0
    /\ reply = [c \in Command |-> None]
    /\ view = initialSnapshot
    /\ shown = {}
    /\ selected = None
    /\ timer = None
    /\ loading = "session"
    /\ first = initialSnapshot
    /\ reading = None
    /\ listed = None
    /\ chosen = FALSE

-----------------------------------------------------------------------------
(* State the page derives. *)

InFlight(c) == step[c] \notin {"unused", "settled"}
Running(kinds) == {c \in Command : InFlight(c) /\ request[c].kind \in kinds}

LifecycleBusy == Running(LifecycleKind) # {}
ProgrammingBusy == Running(TrackKind) # {}
pendingFunctions == {request[c].target : c \in Running({"function"})}

canOperate ==
    /\ view.ready
    /\ view.power = "on"
    /\ ~view.latched
    /\ selected # None
    /\ ~LifecycleBusy

programmingReady == view.ready /\ view.power = "off"

(* Mutant: pending buttons are no exception. *)
MergeAll(v, loco, buttons, pending) ==
    {p \in Pair : IF p[1] = loco /\ v.functions[p] # "none"
                  THEN v.functions[p] = "on"
                  ELSE p \in buttons}

(* The effect that copies a snapshot's desired functions of the selected    *)
(* locomotive to its buttons, those that are pending apart.                 *)
Merge(v, loco, buttons, pending) ==
    {p \in Pair : IF p[1] = loco /\ p \notin pending /\ v.functions[p] # "none"
                  THEN v.functions[p] = "on"
                  ELSE p \in buttons}

(* setSnapshot followed by that effect.                                     *)
Show(v, pending) ==
    /\ view' = v
    /\ shown' = Merge(v, selected, shown, pending)
    /\ UNCHANGED selected

-----------------------------------------------------------------------------
(* The buttons. *)

Fresh(c) ==
    /\ step[c] = "unused"
    /\ \A d \in Command : d < c => step[d] # "unused"

Scripted(c, kind) == scenario.clicks[c] = kind

(* The first half of command() and completedCommand(): connect().           *)
Call(c, kind, target, on) ==
    /\ Fresh(c)
    /\ Scripted(c, kind)
    /\ request' = [request EXCEPT ![c] =
                      [kind |-> kind, target |-> target, on |-> on]]
    /\ sid' = [sid EXCEPT ![c] = IF connected THEN session ELSE 0]
    /\ step' = [step EXCEPT ![c] = "connecting"]
    /\ UNCHANGED <<beyondVars, mail, seq, answer, nextSeq, reply, loadVars>>

Plain(c, kind, target, on) ==
    Call(c, kind, target, on) /\ UNCHANGED <<shownVars, timer, trackVars>>

PressDevice(c) ==
    /\ ~LifecycleBusy
    /\ Plain(c, IF view.ready THEN "disconnect" ELSE "connect", None, FALSE)

PressPower(c) ==
    /\ view.ready
    /\ ~LifecycleBusy
    /\ Plain(c, "power", None, view.power # "on")

PressEmergency(c) ==
    /\ view.ready
    /\ timer' = None
    /\ Call(c, "emergency", None, FALSE)
    /\ UNCHANGED <<shownVars, trackVars>>

PressStop(c) ==
    /\ view.ready
    /\ selected # None
    /\ timer' = None
    /\ Call(c, "stop", selected, FALSE)
    /\ UNCHANGED <<shownVars, trackVars>>

PressResume(c) ==
    /\ view.latched
    /\ Plain(c, "resume", None, FALSE)

(* Turnouts, signals and machines: their readiness is not in the snapshot   *)
(* as modelled.                                                             *)
PressAccessory(c) == Plain(c, "accessory", None, FALSE)

(* toggleFunction: the button shows the wish at once.                       *)
ToggleFunction(c, number) ==
    LET p == <<selected, number>> IN
    /\ canOperate
    /\ p \notin pendingFunctions
    /\ shown' = IF p \in shown THEN shown \ {p} ELSE shown \cup {p}
    /\ Call(c, "function", p, p \notin shown)
    /\ UNCHANGED <<view, selected, timer, trackVars>>

(* scheduleThrottle: 100 ms after the slider came to rest.                  *)
MoveSlider ==
    /\ canOperate
    /\ \E c \in Command : Fresh(c) /\ Scripted(c, "throttle")
    /\ timer' = selected
    /\ UNCHANGED <<gatewayVars, clickVars, shownVars, loadVars, trackVars>>

TimerFires(c) ==
    /\ timer # None
    /\ timer' = None
    /\ Call(c, "throttle", timer, FALSE)
    /\ UNCHANGED <<shownVars, trackVars>>

(* Mutant: performProgramming does not look whether it is busy. *)
PressTrackTwice(c, kind, target) ==
    /\ programmingReady
    /\ kind \in {"write", "cv"} => chosen
    /\ Plain(c, kind, target, FALSE)

PressTrack(c, kind, target) ==
    /\ programmingReady
    /\ ~ProgrammingBusy
    /\ kind \in {"write", "cv"} => chosen
    /\ Plain(c, kind, target, FALSE)

Click(c) ==
    \/ PressDevice(c)
    \/ PressPower(c)
    \/ PressEmergency(c)
    \/ PressStop(c)
    \/ PressResume(c)
    \/ PressAccessory(c)
    \/ \E n \in Number : ToggleFunction(c, n)
    \/ TimerFires(c)
    \/ PressTrack(c, "read", None)
    \/ PressTrack(c, "cv", None)
    \/ \E a \in Address : PressTrack(c, "write", a)

PickLocomotive(l) ==
    /\ loading = "done"
    /\ \E c \in Command : scenario.clicks[c] \in {"function", "throttle", "stop"}
    /\ pendingFunctions = {}
    /\ selected' = l
    /\ shown' = Merge(view, l, shown, {})
    /\ UNCHANGED <<gatewayVars, clickVars, view, timer, loadVars, trackVars>>

PickProgrammingAsset ==
    /\ ~ProgrammingBusy
    /\ \E c \in Command : scenario.clicks[c] \in TrackKind
    /\ chosen' \in {FALSE, listed # None}
    /\ reading' = None
    /\ UNCHANGED <<gatewayVars, clickVars, shownVars, timer, loadVars, listed>>

-----------------------------------------------------------------------------
(* The waits of a command's function. *)

(* What the steps below leave alone.                                        *)
idleVars == <<scenario, coreVars, others, request, linkVars, changed, mail>>

Settle(c, word) ==
    /\ step' = [step EXCEPT ![c] = "settled"]
    /\ answer' = [answer EXCEPT ![c] = word]
    /\ reply' = [reply EXCEPT ![c] = None]
    /\ UNCHANGED <<idleVars, seq, sid, hmiVars, nextSeq, timer, loadVars>>

(* A catch branch: a function button goes back to what it was.              *)
Fail(c) ==
    LET p == request[c].target IN
    /\ Settle(c, "failed")
    /\ IF request[c].kind = "function"
       THEN shown' = IF request[c].on THEN shown \ {p} ELSE shown \cup {p}
       ELSE UNCHANGED shown
    /\ UNCHANGED <<view, selected, trackVars>>

(* connect() is through: number the command and send it.                    *)
Send(c) ==
    /\ step[c] = "connecting"
    /\ connected
    /\ sid[c] \in {0, session}
    /\ step' = [step EXCEPT ![c] = "sent"]
    /\ seq' = [seq EXCEPT ![c] = nextSeq]
    /\ nextSeq' = nextSeq + 1
    /\ sid' = [sid EXCEPT ![c] = session]
    /\ stage' = [stage EXCEPT ![c] = "arriving"]
    /\ UNCHANGED <<idleVars, result, lastSeq, outstanding, answer, reply,
                   shownVars, timer, loadVars, trackVars>>

(* Mutant: "accepted" in the acknowledgement is not looked at. *)
AcknowledgedAnyhow(c) ==
    /\ step[c] = "sent"
    /\ stage[c] \in Taken \cup {"rejected"}
    /\ Linked(c)
    /\ request[c].kind \notin TrackKind
    /\ step' = [step EXCEPT ![c] = "reading"]
    /\ answer' = [answer EXCEPT ![c] = "accepted"]
    /\ UNCHANGED <<idleVars, seq, sid, hmiVars, nextSeq, reply, shownVars,
                   timer, loadVars, trackVars>>

(* The acknowledgement of a command other than programming: ask for a       *)
(* snapshot.  For a programming command the page goes on waiting.           *)
Acknowledged(c) ==
    /\ step[c] = "sent"
    /\ stage[c] \in Taken
    /\ Linked(c)
    /\ IF request[c].kind \in TrackKind
       THEN /\ step' = [step EXCEPT ![c] = "awaiting"]
            /\ UNCHANGED answer
       ELSE /\ step' = [step EXCEPT ![c] = "reading"]
            /\ answer' = [answer EXCEPT ![c] = "accepted"]
    /\ UNCHANGED <<idleVars, seq, sid, hmiVars, nextSeq, reply, shownVars,
                   timer, loadVars, trackVars>>

Rejected(c) ==
    /\ step[c] = "sent"
    /\ stage[c] = "rejected"
    /\ Linked(c)
    /\ Fail(c)

(* Mutant: nothing ends the wait for the terminal event. *)
TimesOutUnlessAwaiting(c) ==
    /\ InFlight(c)
    /\ step[c] # "awaiting"
    /\ Fail(c)

(* No connection in 4 s, no acknowledgement or snapshot or list in 8 s, no  *)
(* terminal event in 100 s.                                                 *)
TimesOut(c) ==
    /\ InFlight(c)
    /\ Fail(c)

(* HMI reads a snapshot for the page; the reply may be overtaken.           *)
ServeSnapshot(c) ==
    /\ step[c] = "reading"
    /\ reply[c] = None
    /\ Linked(c)
    /\ reply' = [reply EXCEPT ![c] = core]
    /\ UNCHANGED <<gatewayVars, step, answer, nextSeq, shownVars, timer,
                   loadVars, trackVars>>

(* setSnapshot(await api.snapshot()): no look at what is pending elsewhere, *)
(* and the command itself is no longer pending when the effect runs.        *)
SnapshotArrives(c) ==
    /\ step[c] = "reading"
    /\ reply[c] # None
    /\ Linked(c)
    /\ Settle(c, answer[c])
    /\ Show(reply[c], {request[d].target : d \in Running({"function"}) \ {c}})
    /\ UNCHANGED trackVars

(* receive(event) of a programming command, matched by its identity.  It    *)
(* may come before the acknowledgement.                                     *)
EventOf(c, kind) ==
    /\ request[c].kind \in TrackKind
    /\ step[c] \in {"sent", "awaiting"}
    /\ stage[c] \in {"reported", "closed"}
    /\ Linked(c)
    /\ result[c] = kind

TrackFailed(c) ==
    /\ step[c] # "unused"
    /\ EventOf(c, "failed")
    /\ Fail(c)

TrackCompleted(c) ==
    /\ request[c] # None
    /\ request[c].kind # "write"
    /\ EventOf(c, "completed")
    /\ Settle(c, "completed")
    /\ reading' = IF request[c].kind = "read" THEN reported[c] ELSE reading
    /\ UNCHANGED <<shownVars, listed, chosen>>

(* Mutant: receive does not compare command_id.  An answer to a read has no *)
(* control_address.                                                         *)
WriteCompletedByAny(c) ==
    /\ step[c] \in {"sent", "awaiting"}
    /\ request[c].kind = "write"
    /\ \E d \in Command :
        /\ stage[d] = "reported"
        /\ result[d] = "completed"
        /\ request[d].kind = "read"
        /\ Settle(c, "completed")
        /\ reading' = reported[d]
    /\ UNCHANGED <<shownVars, listed, chosen>>

(* control_address in the result: refresh the list before saying so.        *)
WriteCompleted(c) ==
    /\ request[c] # None
    /\ request[c].kind = "write"
    /\ EventOf(c, "completed")
    /\ step' = [step EXCEPT ![c] = "listing"]
    /\ reading' = reported[c]
    /\ UNCHANGED <<idleVars, seq, sid, hmiVars, answer, nextSeq, reply,
                   shownVars, timer, loadVars, listed, chosen>>

ServeList(c) ==
    /\ step[c] = "listing"
    /\ reply[c] = None
    /\ Linked(c)
    /\ reply' = [reply EXCEPT ![c] = recorded]
    /\ UNCHANGED <<gatewayVars, step, answer, nextSeq, shownVars, timer,
                   loadVars, trackVars>>

ListArrives(c) ==
    /\ step[c] = "listing"
    /\ reply[c] # None
    /\ Linked(c)
    /\ Settle(c, "completed")
    /\ listed' = reply[c]
    /\ UNCHANGED <<shownVars, reading, chosen>>

Await(c) ==
    \/ Send(c)
    \/ Acknowledged(c)
    \/ Rejected(c)
    \/ TimesOut(c)
    \/ ServeSnapshot(c)
    \/ SnapshotArrives(c)
    \/ TrackFailed(c)
    \/ TrackCompleted(c)
    \/ WriteCompleted(c)
    \/ ServeList(c)
    \/ ListArrives(c)

-----------------------------------------------------------------------------
(* Pushed snapshots, and the effect load(). *)

(* subscribeSnapshot drops a push while a device, power or function command *)
(* is in flight; connect() of load() takes the first one whatever happens.  *)
PushArrives(v) ==
    /\ connected
    /\ v \in mail
    /\ mail' = mail \ {v}
    /\ IF LifecycleBusy \/ pendingFunctions # {}
       THEN UNCHANGED shownVars
       ELSE Show(v, {})
    /\ IF loading = "session"
       THEN loading' = "lists" /\ first' = v
       ELSE UNCHANGED loadVars
    /\ UNCHANGED <<scenario, coreVars, others, wireVars, hmiVars, linkVars,
                   changed, clickVars, timer, trackVars>>

LoadFails ==
    /\ loading = "session"
    /\ loading' = "failed"
    /\ UNCHANGED <<gatewayVars, clickVars, shownVars, timer, first, trackVars>>

(* All four lists have settled: show the session's snapshot, however old by *)
(* now, and select what there is only one of.                               *)
LoadEnds(roster, assets) ==
    /\ loading = "lists"
    /\ roster \/ assets => connected
    /\ loading' = IF roster THEN "done" ELSE "failed"
    /\ view' = first
    /\ selected' = IF roster /\ Cardinality(Loco) = 1
                   THEN CHOOSE l \in Loco : TRUE ELSE selected
    /\ shown' = Merge(first, selected', shown, pendingFunctions)
    /\ listed' = IF assets THEN recorded ELSE listed
    /\ chosen' = (chosen \/ assets)
    /\ UNCHANGED <<gatewayVars, clickVars, timer, first, reading>>

-----------------------------------------------------------------------------
PageStep ==
    \/ \E c \in Command : Click(c)
    \/ \E c \in Command : Await(c)
    \/ MoveSlider
    \/ \E l \in Loco : PickLocomotive(l)
    \/ PickProgrammingAsset
    \/ \E v \in mail : PushArrives(v)
    \/ LoadFails
    \/ \E roster, assets \in BOOLEAN : LoadEnds(roster, assets)

Next ==
    \/ GatewayStep /\ UNCHANGED pageVars
    \/ PageStep

Spec == Init /\ [][Next]_vars

(* Every timer of the page runs out in the end, and the thread HMI started  *)
(* for a command comes to an end because its HTTP client waits two seconds. *)
Fairness ==
    \A c \in Command :
        /\ WF_vars(TimesOut(c))
        /\ WF_vars((CallReturns(c) \/ CallFails(c)) /\ UNCHANGED pageVars)

FairSpec == Spec /\ Fairness

-----------------------------------------------------------------------------
(* Properties. *)

(* While a function command is in flight its button shows the value the     *)
(* operator asked for, and the locomotive it belongs to stays selected: no  *)
(* push, reply, end of loading or other button takes it away.               *)
PendingHeld ==
    \A c \in Running({"function"}) :
        LET p == request[c].target IN
        /\ p[1] = selected
        /\ p \in shown <=> request[c].on

(* Two clicks never wait for the same button, the device and MAIN power are *)
(* changed by one click at a time, and one programming command is under way *)
(* at most.                                                                 *)
ButtonsLocked ==
    \A c, d \in Command :
        c # d /\ InFlight(c) /\ InFlight(d) =>
            /\ {request[c].kind, request[d].kind} \subseteq {"function"} =>
                    request[c].target # request[d].target
            /\ ~({request[c].kind, request[d].kind} \subseteq LifecycleKind)
            /\ ~({request[c].kind, request[d].kind} \subseteq TrackKind)

(* HMI's account of a connection is exact: a command counts as outstanding  *)
(* while its thread runs and the connection it came over is up, and never   *)
(* after.                                                                   *)
SlotsExact ==
    outstanding = {c \in Command : Linked(c) /\ stage[c] = "accepted"}

(* The pill "verified" beside a decoder's address is true, unless a write   *)
(* of this page reached the decoder without the page being told (yet) that  *)
(* it succeeded.                                                            *)
Verified == chosen /\ reading # None /\ reading = listed

Unconfirmed ==
    {c \in Command : /\ fate[c] \in {"applied", "half"}
                     /\ request[c].kind = "write"
                     /\ answer[c] # "completed"}

VerifiedTruthful == Verified /\ Unconfirmed = {} => decoder = reading

(* What the page tells the operator of a command is what CommandPromise     *)
(* allows: "accepted" and "completed" are never said of a command that was  *)
(* rejected, was never executed, or is somebody else's.                     *)
Promise == INSTANCE CommandPromise WITH
    taken <- {c \in Command : stage[c] \in Taken},
    applied <- {c \in Command : fate[c] = "applied"},
    told <- answer

PromiseKept == Promise!Spec

(* Every click comes to an end on the page, so no button stays locked, and  *)
(* gives its place at HMI back, so no browser is refused for commands that  *)
(* ended long ago.                                                          *)
Open(c) == InFlight(c) \/ c \in outstanding
ClicksEnd == \A c \in Command : Open(c) ~> ~Open(c)

(* LLD 210-213: a stop retires older motion, "so an already-in-flight       *)
(* browser request cannot restart a stopped locomotive".  Core drives a     *)
(* locomotive for a click the operator made before the stop it has already  *)
(* executed.                                                                *)
StopIsFinal ==
    [][\A c, d \in Command :
        /\ c < d
        /\ request[d] # None
        /\ request[d].kind = "stop"
        /\ fate[d] = "applied"
        /\ request[c].kind = "throttle"
        /\ request[c].target = request[d].target
        /\ fate[c] = "open"
        => fate'[c] # "applied"]_vars
=============================================================================
