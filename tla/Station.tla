------------------------------ MODULE Station ------------------------------
(***************************************************************************)
(* The DCC-EX driver (control/dcc/station.py, protocol.py, transport.py)    *)
(* and the command station at the other end of the serial line.            *)
(*                                                                         *)
(* The operation lock admits one operation at a time: it checks, remembers *)
(* the sequence number of the last event, sends a frame and waits for the  *)
(* first later event that looks like its answer (_wait_for).  The reader   *)
(* thread applies every report to the observed state and puts it into a    *)
(* ring of events.  The emergency stop takes only the write lock.  The     *)
(* device is external: it works frames off in order and reports in order,  *)
(* as late as it likes, also when nobody waits any more.                   *)
(*                                                                         *)
(* throttle stands for stop as well; of functions only the locomotive is    *)
(* kept.  The programming track holds one decoder: CVs and an address.      *)
(***************************************************************************)
EXTENDS Naturals, Sequences

CONSTANTS
    Cv,             \* configuration variables
    DecoderAddress, \* the decoder's address, read and written like a CV
    Value,          \* what they hold
    Loco,           \* addresses of locomotives on the main track
    Speed,          \* speeds other than standing
    Outputs,        \* the tracks the device reports: "MAIN", "PROG"
    RingSize,       \* events kept (256 in the code)
    Callbacks,      \* callback numbers before they repeat (32767 in the code)
    Scenarios,      \* bound: the calls of a behaviour, and what may go wrong
    None            \* absent value

Pace == Speed \cup {"standing"}
Item == Cv \cup {DecoderAddress}
Operation ==
    [kind : {"power"}, item : {None}, value : {"on", "off"}]
    \cup [kind : {"throttle"}, item : Loco, value : Pace]
    \cup [kind : {"function"}, item : Loco, value : {None}]
    \cup [kind : {"read"}, item : Item, value : {None}]
    \cup [kind : {"program"}, item : Item, value : Value]
    \cup [kind : {"connect", "disconnect"}, item : {None}, value : {None}]
Chance == {"emergency", "reader", "write", "noise", "ack", "trip", "restart"}
Scenario == [calls : Seq(Operation), chances : [Chance -> Nat]]

ASSUME RingAssumption == RingSize \in Nat \ {0}
ASSUME CallbackAssumption == Callbacks \in Nat \ {0}
ASSUME NoneAssumption == None \notin Value \cup Pace \cup Operation
ASSUME ItemAssumption ==
    DecoderAddress \notin Cv /\ Item \cap (Loco \cup {None}) = {}
ASSUME ScenariosAssumption == Scenarios \subseteq Scenario

VARIABLES
    conn,      \* state.connection
    reading,   \* the reader thread runs
    known,     \* what the device reported of itself: identity, track modes
    power,     \* state.main.power
    shown,     \* speeds in state.locomotives
    stopping,  \* an emergency stop is written, its write lock still held
    noting,    \* functions sent, their locomotives not yet in the state
    op,        \* the operation that holds the operation lock
    part,      \* the request it makes: the operation, or its write or read
    stage,     \* where the request stands
    heard,     \* _events later than the request's marker
    callback,  \* _program_callback
    outcome,   \* what the last operation returned
    toDevice, fromDevice,   \* the serial line
    main, speed, decoder,   \* the device: MAIN power, locomotives, decoder
    clean,     \* history: no answer was outstanding when the operation began
    doubt,     \* history: MAIN power was owed when the request was checked
    missed,    \* history: a report was lost since the connection was opened
    guessed,   \* history: locomotives shown although none was reported
    calls, chances          \* what is still to happen

belief == <<conn, reading, known, power, shown, guessed>>
late == <<stopping, noting>>
request == <<op, part, stage, heard, callback, outcome, clean, calls>>
device == <<main, speed, decoder>>
line == <<toDevice, fromDevice>>
vars == <<belief, late, request, device, line, doubt, missed, chances>>

Programming == {"read", "write"}
Message(kinds, items, values, numbers) ==
    [kind : kinds, item : items, value : values, callback : numbers]
Part ==
    Message({"power"}, {None}, {"on", "off"}, {0})
    \cup Message({"throttle"}, Loco, Pace, {0})
    \cup Message({"function"}, Loco, {None}, {0})
    \cup Message({"read"}, Item, {None}, 0..Callbacks)
    \cup Message({"write"}, Item, Value, {0})
Sendable ==
    Part \cup Message({"emergency", "status", "tracks"}, {None}, {None}, {0})
Frame == [body : Sendable, sure : BOOLEAN]
Report ==
    Message({"identity", "tracks"}, {None}, {None}, {0})
    \cup Message({"power"}, {None}, {"on", "off"}, {0})
    \cup Message({"locomotive"}, Loco, Pace, {0})
    \cup Message({"value"}, Item, Value \cup {None}, 0..Callbacks)
Result == {"confirmed", "uncertain", "unverified", "failed"}

StationTypeOK ==
    /\ conn \in {"disconnected", "connecting", "ready", "error"}
    /\ reading \in BOOLEAN
    /\ known \in SUBSET ({"identity"} \cup Outputs)
    /\ power \in {"unknown", "on", "off"}
    /\ shown \in [Loco -> Pace \cup {None}]
    /\ stopping \in BOOLEAN /\ noting \in SUBSET Loco
    /\ guessed \in SUBSET Loco
    /\ op \in Operation \cup {None}
    /\ part \in Part \cup {None}
    /\ stage \in {"rest", "handshake", "check", "send", "wait"}
    /\ (op = None) = (stage = "rest")
    /\ heard \in Seq(Report) /\ Len(heard) <= RingSize
    /\ callback \in 0..Callbacks
    /\ outcome \in [op : Operation, result : Result, clean : BOOLEAN,
                    value : Value \cup {None}] \cup {None}
    /\ toDevice \in Seq(Frame) /\ fromDevice \in Seq(Report)
    /\ main \in {"on", "off"} /\ speed \in [Loco -> Pace]
    /\ decoder \in [Item -> Value]
    /\ clean \in BOOLEAN /\ doubt \in BOOLEAN /\ missed \in BOOLEAN
    /\ calls \in Seq(Operation) /\ chances \in [Chance -> Nat]

Init ==
    /\ conn = "disconnected" /\ reading = FALSE /\ known = {}
    /\ power = "unknown" /\ shown = [a \in Loco |-> None]
    /\ stopping = FALSE /\ noting = {} /\ guessed = {}
    /\ op = None /\ part = None /\ stage = "rest" /\ heard = <<>>
    /\ callback = 0 /\ outcome = None
    /\ toDevice = <<>> /\ fromDevice = <<>>
    /\ main \in {"on", "off"} /\ speed = [a \in Loco |-> "standing"]
    /\ decoder \in [Item -> Value]
    /\ clean = TRUE /\ doubt = FALSE /\ missed = FALSE
    /\ \E s \in Scenarios : calls = s.calls /\ chances = s.chances

May(chance) ==
    /\ chances[chance] > 0
    /\ chances' = [chances EXCEPT ![chance] = @ - 1]
Surely == UNCHANGED chances

----------------------------------------------------------------------------
(* Frames and reports *)

Told(kind, item, value, number) ==
    [kind |-> kind, item |-> item, value |-> value, callback |-> number]
Plain(kind) == Told(kind, None, None, 0)
Framed(p) == [body |-> p, sure |-> ~doubt]

(* Mutant: any answer about the CV will do. *)
AnswersAnyCaller(p, r) ==
    CASE p.kind = "power" -> r.kind = "power" /\ r.value = p.value
      [] p.kind = "throttle" ->
            r.kind = "locomotive" /\ r.item = p.item /\ r.value = p.value
      [] OTHER -> r.kind = "value" /\ r.item = p.item

(* The matchers: power by state, throttle by address and speed, a CV that   *)
(* is read by its number and callback, one that is written by its number,   *)
(* and any decoder address for an address.                                  *)
Answers(p, r) ==
    CASE p.kind = "power" -> r.kind = "power" /\ r.value = p.value
      [] p.kind = "throttle" ->
            r.kind = "locomotive" /\ r.item = p.item /\ r.value = p.value
      [] p.kind = "read" /\ p.item \in Cv ->
            r.kind = "value" /\ r.item = p.item /\ r.callback = p.callback
      [] OTHER -> r.kind = "value" /\ r.item = p.item

(* MAIN may come on, or is shown off although a report that it is on has    *)
(* not been read yet or was lost.                                           *)
SwitchOn(talk) == talk.kind = "power" /\ talk.value = "on"
PowerOwed ==
    \/ missed
    \/ \E i \in DOMAIN toDevice : SwitchOn(toDevice[i].body)
    \/ power = "off" /\ \E i \in DOMAIN fromDevice : SwitchOn(fromDevice[i])

Unanswered(item) ==
    \/ \E i \in DOMAIN toDevice :
          /\ toDevice[i].body.kind \in Programming
          /\ toDevice[i].body.item = item
    \/ \E i \in DOMAIN fromDevice :
          fromDevice[i].kind = "value" /\ fromDevice[i].item = item

----------------------------------------------------------------------------
(* connect and disconnect *)

Return(result, value) ==
    /\ op' = None /\ part' = None /\ stage' = "rest" /\ heard' = <<>>
    /\ outcome' = [op |-> op, result |-> result, value |-> value,
                   clean |-> clean]
    /\ UNCHANGED <<callback, clean, calls>>

Call(kind) ==
    /\ op = None /\ calls # <<>> /\ Head(calls).kind = kind
    /\ calls' = Tail(calls)

(* The port is opened with nothing known of the device.  The device goes    *)
(* on with what it was doing, and its reports of the meantime may be lost,  *)
(* or it restarts.                                                          *)
Greeting == <<Framed(Plain("status")), Framed(Plain("tracks"))>>
Open ==
    /\ Call("connect") /\ conn # "ready" /\ ~stopping
    /\ op' = Head(calls) /\ stage' = "handshake"
    /\ UNCHANGED <<part, heard, callback, outcome, clean>>
    /\ conn' = "connecting" /\ reading' = TRUE /\ known' = {}
    /\ power' = "unknown" /\ shown' = [a \in Loco |-> None]
    /\ \/ /\ Surely /\ toDevice' = toDevice \o Greeting
          /\ fromDevice' \in {fromDevice, <<>>} /\ UNCHANGED device
       \/ /\ May("restart") /\ toDevice' = Greeting /\ fromDevice' = <<>>
          /\ main' = "off" /\ speed' = [a \in Loco |-> "standing"]
          /\ UNCHANGED decoder
    /\ missed' = FALSE /\ guessed' = {} /\ UNCHANGED <<doubt, late>>

AlreadyOpen ==
    /\ Call("connect") /\ conn = "ready"
    /\ UNCHANGED <<op, part, stage, heard, callback, outcome, clean, belief,
                   late, device, line, doubt, missed, chances>>

(* Opening the port or writing to it fails. *)
OpenFails ==
    /\ Call("connect") /\ conn # "ready" /\ ~stopping /\ May("write")
    /\ conn' = "error" /\ reading' = FALSE /\ known' = {}
    /\ power' = "unknown" /\ shown' = [a \in Loco |-> None]
    /\ toDevice' \in {toDevice, Append(toDevice, Framed(Plain("status")))}
    /\ guessed' = {}
    /\ UNCHANGED <<op, part, stage, heard, callback, outcome, clean, late,
                   fromDevice, device, doubt, missed>>

(* The wait of connect ends, with or without the answers.  That the reader  *)
(* may have failed meanwhile is not looked at.                              *)
Handshake ==
    /\ stage = "handshake"
    /\ \/ "identity" \in known /\ conn' = "ready" /\ UNCHANGED reading
       \/ "identity" \notin known /\ conn' = "error" /\ reading' = FALSE
    /\ op' = None /\ stage' = "rest"
    /\ UNCHANGED <<part, heard, callback, outcome, clean, calls, known, power,
                   shown, guessed, late, device, line, doubt, missed, chances>>

Disconnect ==
    /\ Call("disconnect")
    /\ conn' = "disconnected" /\ reading' = FALSE
    /\ power' = "unknown" /\ shown' = [a \in Loco |-> None] /\ guessed' = {}
    /\ UNCHANGED <<op, part, stage, heard, callback, outcome, clean, known,
                   late, device, line, doubt, missed, chances>>

----------------------------------------------------------------------------
(* An operation: check, send, wait *)

(* _next_program_callback *)
NextCallback == (callback % Callbacks) + 1

(* read_cv draws a callback, read_address has none. *)
PartOf(kind, item, value) ==
    [kind |-> kind, item |-> item, value |-> value,
     callback |-> IF kind = "read" /\ item \in Cv THEN NextCallback ELSE 0]
Prepare(p) ==
    /\ part' = p /\ stage' = "check" /\ heard' = <<>>
    /\ callback' = IF p.callback = 0 THEN callback ELSE p.callback

Begin ==
    \E kind \in {"power", "throttle", "function", "read", "program"} :
        LET c == Head(calls) IN
        /\ Call(kind)
        /\ op' = c
        /\ Prepare(PartOf(IF kind = "program" THEN "write" ELSE kind,
                          c.item, c.value))
        /\ outcome' = None
        /\ clean' = ~Unanswered(c.item)
        /\ UNCHANGED <<belief, late, device, line, doubt, missed, chances>>

(* Mutant: MAIN power need not be confirmed off. *)
AllowedUnlessOn(p) ==
    /\ conn = "ready"
    /\ p.kind = "power" /\ p.value = "on" => "MAIN" \in known
    /\ p.kind \in Programming => power # "on" /\ "PROG" \in known

(* _require_ready, set_main_power's and _program_request's conditions. *)
Allowed(p) ==
    /\ conn = "ready"
    /\ p.kind = "power" /\ p.value = "on" => "MAIN" \in known
    /\ p.kind \in Programming => power = "off" /\ "PROG" \in known

Check ==
    /\ stage = "check"
    /\ \/ /\ Allowed(part) /\ stage' = "send"
          /\ UNCHANGED <<op, part, heard, callback, outcome, clean, calls>>
       \/ ~Allowed(part) /\ Return("failed", None)
    /\ doubt' = PowerOwed
    /\ UNCHANGED <<belief, late, device, line, missed, chances>>

(* A function is not answered: its operation ends once it is sent. *)
Send ==
    /\ stage = "send" /\ ~stopping
    /\ toDevice' = Append(toDevice, Framed(part))
    /\ \/ /\ part.kind = "function"
          /\ noting' = noting \cup {part.item}
          /\ Return("unverified", None)
       \/ /\ part.kind # "function"
          /\ stage' = "wait"
          /\ UNCHANGED <<op, part, heard, callback, outcome, clean, calls,
                         noting>>
    /\ UNCHANGED <<belief, stopping, device, fromDevice, doubt, missed, chances>>

(* The serial line refuses the frame, or breaks off after it has left. *)
SendFails ==
    /\ stage = "send" /\ ~stopping /\ May("write")
    /\ toDevice' \in {toDevice, Append(toDevice, Framed(part))}
    /\ Return("failed", None)
    /\ UNCHANGED <<belief, late, device, fromDevice, doubt, missed>>

(* function() notes its wish after it has given the operation lock back; a  *)
(* locomotive nothing is known of is entered with the default speed.        *)
NoteFunction ==
    \E a \in noting :
        /\ noting' = noting \ {a}
        /\ IF shown[a] # None THEN UNCHANGED <<shown, guessed>>
           ELSE /\ shown' = [shown EXCEPT ![a] = "standing"]
                /\ guessed' = guessed \cup {a}
        /\ UNCHANGED <<conn, reading, known, power, stopping, request, device,
                       line, doubt, missed, chances>>

(* Mutant: the write report is enough, nothing is read back. *)
ConcludeUnread(r) ==
    \/ /\ part.kind \notin Programming
       /\ Return("confirmed", None)
    \/ /\ part.kind \in Programming
       /\ r.value = None \/ (part.kind = "write" /\ r.value # part.value)
       /\ Return("failed", None)
    \/ /\ part.kind = "read" /\ r.value # None
       /\ Return("confirmed", r.value)
    \/ /\ part.kind = "write" /\ r.value = part.value
       /\ Return("confirmed", r.value)

(* What an answer leads to: a write that reports its value is read back, a  *)
(* value that was read must be the one asked for.                           *)
Conclude(r) ==
    \/ /\ part.kind \notin Programming
       /\ Return("confirmed", None)
    \/ /\ part.kind = "write" /\ r.value = part.value
       /\ Prepare(PartOf("read", part.item, None))
       /\ UNCHANGED <<op, outcome, clean, calls>>
    \/ /\ part.kind = "read" /\ r.value # None
       /\ op.kind = "program" => r.value = op.value
       /\ Return("confirmed", r.value)
    \/ /\ \/ part.kind = "write" /\ r.value # part.value
          \/ part.kind = "read" /\ r.value = None
          \/ part.kind = "read" /\ op.kind = "program" /\ r.value # op.value
       /\ Return("failed", None)

(* _wait_for finds the first event that looks like the answer. *)
Found ==
    /\ stage = "wait"
    /\ \E i \in DOMAIN heard :
          /\ Answers(part, heard[i])
          /\ \A j \in 1..i - 1 : ~Answers(part, heard[j])
          /\ Conclude(heard[i])
    /\ UNCHANGED <<belief, late, device, line, doubt, missed, chances>>

TimesOut ==
    /\ stage = "wait"
    /\ Return(CASE part.kind = "power" -> "uncertain"
                [] part.kind = "throttle" -> "unverified"
                [] OTHER -> "failed", None)
    /\ UNCHANGED <<belief, late, device, line, doubt, missed, chances>>

(* Mutant: the speeds shown are cleared before the frame is written. *)
EmergencyStopShownFirst ==
    /\ conn = "ready" /\ ~stopping /\ May("emergency")
    /\ toDevice' \in {toDevice, Append(toDevice, Framed(Plain("emergency")))}
    /\ shown' = [a \in Loco |-> IF shown[a] = None THEN None ELSE "standing"]
    /\ UNCHANGED <<conn, reading, known, power, guessed, late, request, device,
                   fromDevice, doubt, missed>>

(* The emergency stop waits for the write lock only. *)
EmergencyStop ==
    /\ conn = "ready" /\ ~stopping /\ May("emergency")
    /\ \/ /\ toDevice' = Append(toDevice, Framed(Plain("emergency")))
          /\ stopping' = TRUE
       \/ UNCHANGED <<toDevice, stopping>>  \* the write raises
    /\ UNCHANGED <<belief, noting, request, device, fromDevice, doubt, missed>>

ClearSpeeds ==
    /\ stopping /\ stopping' = FALSE
    /\ shown' = [a \in Loco |-> IF shown[a] = None THEN None ELSE "standing"]
    /\ UNCHANGED <<conn, reading, known, power, guessed, noting, request, device,
                   line, doubt, missed, chances>>

----------------------------------------------------------------------------
(* The reader thread *)

Learn(r) ==
    /\ known' = CASE r.kind = "identity" -> known \cup {"identity"}
                  [] r.kind = "tracks" -> known \cup Outputs
                  [] OTHER -> known
    /\ power' = IF r.kind = "power" THEN r.value ELSE power
    /\ shown' = IF r.kind = "locomotive" THEN [shown EXCEPT ![r.item] = r.value]
                ELSE shown
    /\ guessed' = IF r.kind = "locomotive" THEN guessed \ {r.item} ELSE guessed

(* Mutant: the ring grows. *)
KeptAll(events) == events

(* The ring drops its oldest event. *)
Kept(events) == IF Len(events) > RingSize THEN Tail(events) ELSE events

ReadReport ==
    /\ reading /\ fromDevice # <<>>
    /\ Learn(Head(fromDevice))
    /\ heard' = IF stage \in {"send", "wait"}
                THEN Kept(Append(heard, Head(fromDevice))) ELSE heard
    /\ fromDevice' = Tail(fromDevice)
    /\ UNCHANGED <<conn, reading, op, part, stage, callback, outcome, clean,
                   calls, late, device, toDevice, doubt, missed, chances>>

(* The transport raises in the reader. *)
ReaderFails ==
    /\ reading /\ May("reader")
    /\ reading' = FALSE /\ conn' = "error"
    /\ UNCHANGED <<known, power, shown, guessed, late, request, device, line,
                   doubt, missed>>

----------------------------------------------------------------------------
(* The device and the line *)

(* A write may be acknowledged and not stored, or stored and not            *)
(* acknowledged; it reports None for "no acknowledgement".                  *)
Program(f) ==
    \/ /\ Surely /\ decoder' = [decoder EXCEPT ![f.item] = f.value]
       /\ fromDevice' = Append(fromDevice, Told("value", f.item, f.value, 0))
    \/ /\ May("ack") /\ UNCHANGED decoder
       /\ fromDevice' = Append(fromDevice, Told("value", f.item, f.value, 0))
    \/ /\ May("ack")
       /\ decoder' \in {decoder, [decoder EXCEPT ![f.item] = f.value]}
       /\ fromDevice' = Append(fromDevice, Told("value", f.item, None, 0))

ReadDecoder(f) ==
    /\ \/ /\ Surely
          /\ fromDevice' = Append(fromDevice,
                 Told("value", f.item, decoder[f.item], f.callback))
       \/ /\ May("ack")
          /\ fromDevice' = Append(fromDevice,
                 Told("value", f.item, None, f.callback))
    /\ UNCHANGED decoder

Quick == UNCHANGED <<decoder, chances>>
DeviceExecutes ==
    /\ toDevice # <<>>
    /\ toDevice' = Tail(toDevice)
    /\ LET f == Head(toDevice).body
           Reports(rs) == fromDevice' = fromDevice \o rs
       IN
       \/ /\ f.kind = "status" /\ Quick /\ UNCHANGED <<main, speed>>
          /\ Reports(<<Plain("identity"), Told("power", None, main, 0)>>)
       \/ /\ f.kind = "tracks" /\ Quick /\ UNCHANGED <<main, speed>>
          /\ Reports(<<Plain("tracks")>>)
       \/ /\ f.kind = "power" /\ Quick /\ UNCHANGED speed
          /\ main' = f.value
          /\ Reports(<<Told("power", None, f.value, 0)>>)
       \/ /\ f.kind = "throttle" /\ Quick /\ UNCHANGED main
          /\ speed' = [speed EXCEPT ![f.item] = f.value]
          /\ Reports(<<Told("locomotive", f.item, f.value, 0)>>)
       \/ /\ f.kind = "emergency" /\ Quick /\ UNCHANGED main
          /\ speed' = [a \in Loco |-> "standing"]
          /\ Reports(<<>>)
       \/ /\ f.kind = "function" /\ Quick /\ UNCHANGED <<main, speed>>
          /\ \/ Reports(<<>>)
             \/ Reports(<<Told("locomotive", f.item, speed[f.item], 0)>>)
       \/ f.kind = "write" /\ Program(f) /\ UNCHANGED <<main, speed>>
       \/ f.kind = "read" /\ ReadDecoder(f) /\ UNCHANGED <<main, speed>>
    /\ UNCHANGED <<belief, late, request, doubt, missed>>

(* MAIN is overloaded and switches itself off. *)
Trip ==
    /\ main = "on" /\ May("trip")
    /\ main' = "off"
    /\ fromDevice' = Append(fromDevice, Told("power", None, "off", 0))
    /\ UNCHANGED <<belief, late, request, speed, decoder, toDevice, doubt, missed>>

(* A report arrives garbled: the parser makes nothing of it. *)
Noise ==
    /\ fromDevice # <<>> /\ May("noise")
    /\ fromDevice' = Tail(fromDevice)
    /\ missed' = TRUE
    /\ UNCHANGED <<belief, late, request, device, toDevice, doubt>>

----------------------------------------------------------------------------

Next ==
    \/ Open \/ AlreadyOpen \/ OpenFails \/ Handshake \/ Disconnect
    \/ Begin \/ Check \/ Send \/ SendFails \/ Found \/ TimesOut
    \/ NoteFunction \/ EmergencyStop \/ ClearSpeeds \/ ReadReport \/ ReaderFails
    \/ DeviceExecutes \/ Trip \/ Noise

Spec == Init /\ [][Next]_vars

----------------------------------------------------------------------------
(* Properties *)

Confirmed == outcome # None /\ outcome.result = "confirmed"

(* A CV that was confirmed, read or written, is what the decoder holds,     *)
(* although answers of earlier requests come late, the report of a write    *)
(* carries no callback, the decoder may acknowledge what it does not store  *)
(* and reports are lost: the callback ties the value to this read, and the  *)
(* device does not overtake.                                                *)
CvTruthful ==
    Confirmed /\ outcome.op.item \in Cv
        => decoder[outcome.op.item] = outcome.value

(* The same of the decoder's address, whose reports name no request: only   *)
(* if no answer about it was outstanding when the operation began.          *)
AddressTruthful ==
    Confirmed /\ outcome.op.item = DecoderAddress /\ outcome.clean
        => decoder[DecoderAddress] = outcome.value

(* MAIN is off when the device comes to the frame at position i: whatever   *)
(* switches it on before is followed by something that switches it off.     *)
Switches(i, mode) ==
    IF i = 0 THEN main = mode
    ELSE toDevice[i].body.kind = "power" /\ toDevice[i].body.value = mode

MainOffAt(i) ==
    \A j \in 0..i - 1 :
        Switches(j, "on") => \E k \in j + 1..i - 1 : Switches(k, "off")

(* No frame for the programming track is executed while MAIN is on, unless  *)
(* a request to switch MAIN on was still to be executed or reported when    *)
(* the driver looked at the power, or a report had been lost: what came     *)
(* between that look and the execution changes nothing.                     *)
MainOff ==
    \A i \in DOMAIN toDevice :
        toDevice[i].body.kind \in Programming /\ toDevice[i].sure => MainOffAt(i)

(* Once everything sent is executed and everything reported is read, MAIN   *)
(* is off where it is shown off and a locomotive stands where it is shown   *)
(* standing (unless only function() entered it), whatever late reports,     *)
(* emergency stops, failed writes, overloads and new connections came in    *)
(* between.                                                                 *)
ShownSafe ==
    (conn = "ready" /\ toDevice = <<>> /\ fromDevice = <<>> /\ ~missed) =>
        /\ power = "off" => main = "off"
        /\ \A a \in Loco \ guessed :
              shown[a] = "standing" => speed[a] = "standing"

----------------------------------------------------------------------------
(* What the documentation promises and the code does not keep *)

(* "an independent address readback" (docs/mtos-context.md:1408). *)
AddressConfirmed ==
    Confirmed /\ outcome.op.item = DecoderAddress
        => decoder[DecoderAddress] = outcome.value

(* MAIN is "confirmed off" (docs/mtos-context.md:1343-1344). *)
ProgrammedWithMainOff ==
    \A i \in DOMAIN toDevice :
        toDevice[i].body.kind \in Programming => MainOffAt(i)
=============================================================================
