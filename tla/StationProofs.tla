--------------------------- MODULE StationProofs ---------------------------
(***************************************************************************)
(* Proofs about Station: its type invariant, MainOff, ShownSafe,           *)
(* CvTruthful and AddressTruthful.                                         *)
(***************************************************************************)
EXTENDS Station, TLAPS

(* The type invariant in four parts. *)
BeliefOK ==
    /\ conn \in {"disconnected", "connecting", "ready", "error"}
    /\ reading \in BOOLEAN
    /\ known \in SUBSET ({"identity"} \cup Outputs)
    /\ power \in {"unknown", "on", "off"}
    /\ shown \in [Loco -> Pace \cup {None}]
    /\ stopping \in BOOLEAN /\ noting \in SUBSET Loco
    /\ guessed \in SUBSET Loco
    /\ clean \in BOOLEAN /\ doubt \in BOOLEAN /\ missed \in BOOLEAN
    /\ chances \in [Chance -> Nat]

RequestOK ==
    /\ op \in Operation \cup {None}
    /\ part \in Part \cup {None}
    /\ stage \in {"rest", "handshake", "check", "send", "wait"}
    /\ (op = None) = (stage = "rest")
    /\ heard \in Seq(Report) /\ Len(heard) <= RingSize
    /\ callback \in 0..Callbacks
    /\ outcome \in [op : Operation, result : Result, clean : BOOLEAN,
                    value : Value \cup {None}] \cup {None}
    /\ calls \in Seq(Operation)

(* A step of the request is one only while there is a request. *)
PartOK == stage \in {"check", "send", "wait"} => part \in Part

LineOK == toDevice \in Seq(Frame) /\ fromDevice \in Seq(Report)

DeviceOK ==
    /\ main \in {"on", "off"} /\ speed \in [Loco -> Pace]
    /\ decoder \in [Item -> Value]

TypesOK == BeliefOK /\ RequestOK /\ PartOK /\ LineOK /\ DeviceOK

LEMMA TypesAreTypes == TypesOK => StationTypeOK
  BY DEF TypesOK, BeliefOK, RequestOK, LineOK, DeviceOK, StationTypeOK

LEMMA InitTypes == Init => TypesOK
  <1> SUFFICES ASSUME Init PROVE TypesOK
    OBVIOUS
  <1>1. PICK s \in Scenarios : calls = s.calls /\ chances = s.chances
    BY DEF Init
  <1>2. calls \in Seq(Operation) /\ chances \in [Chance -> Nat]
    BY <1>1, ScenariosAssumption DEF Scenario
  <1>3. BeliefOK
    BY <1>2 DEF Init, BeliefOK
  <1>4. RequestOK /\ PartOK
    BY <1>2, RingAssumption, CallbackAssumption DEF Init, RequestOK, PartOK
  <1>5. LineOK /\ DeviceOK
    BY DEF Init, LineOK, DeviceOK, Pace
  <1> QED BY <1>3, <1>4, <1>5 DEF TypesOK

----------------------------------------------------------------------------
(* What the helpers return. *)

LEMMA CallTypes ==
  ASSUME RequestOK, NEW kind, Call(kind)
  PROVE  /\ Head(calls) \in Operation /\ Head(calls) # None
         /\ Head(calls).kind = kind
         /\ calls' \in Seq(Operation)
         /\ op = None /\ stage = "rest"
  BY NoneAssumption DEF Call, RequestOK

LEMMA MayTypes ==
  ASSUME chances \in [Chance -> Nat], NEW k \in Chance, May(k)
  PROVE  chances' \in [Chance -> Nat]
  BY DEF May

LEMMA ReturnTypes ==
  ASSUME RequestOK, BeliefOK, stage # "rest", NEW r \in Result,
         NEW v \in Value \cup {None}, Return(r, v)
  PROVE  RequestOK' /\ PartOK'
  <1>1. op \in Operation
    BY DEF RequestOK
  <1>2. outcome' \in [op : Operation, result : Result, clean : BOOLEAN,
                      value : Value \cup {None}]
    BY <1>1 DEF Return, BeliefOK
  <1>3. <<>> \in Seq(Report) /\ Len(<<>>) <= RingSize
    BY RingAssumption
  <1> QED BY <1>2, <1>3 DEF Return, RequestOK, PartOK

LEMMA Remainder ==
  ASSUME NEW a \in Nat, NEW b \in Nat, b > 0
  PROVE  a % b \in 0..b - 1
  OBVIOUS

LEMMA CallbackTypes ==
  ASSUME callback \in 0..Callbacks
  PROVE  NextCallback \in 0..Callbacks
  <1>1. callback \in Nat /\ Callbacks \in Nat /\ Callbacks > 0
    BY CallbackAssumption
  <1>2. callback % Callbacks \in 0..Callbacks - 1
    BY <1>1, Remainder
  <1> QED BY <1>1, <1>2 DEF NextCallback

LEMMA ReadTypes ==
  ASSUME callback \in 0..Callbacks, NEW i \in Item
  PROVE  PartOf("read", i, None) \in Part
  <1> DEFINE n == IF i \in Cv THEN NextCallback ELSE 0
  <1>1. n \in 0..Callbacks
    BY CallbackTypes, CallbackAssumption
  <1>2. PartOf("read", i, None) = [kind |-> "read", item |-> i, value |-> None,
                                   callback |-> n]
    BY DEF PartOf
  <1>3. PartOf("read", i, None) \in Message({"read"}, Item, {None}, 0..Callbacks)
    BY <1>1, <1>2 DEF Message
  <1> QED BY <1>3 DEF Part

LEMMA PrepareTypes ==
  ASSUME callback \in 0..Callbacks, NEW p \in Part, Prepare(p)
  PROVE  /\ part' \in Part /\ stage' = "check"
         /\ heard' \in Seq(Report) /\ Len(heard') <= RingSize
         /\ callback' \in 0..Callbacks
  <1>1. p.callback \in 0..Callbacks
    BY CallbackAssumption DEF Part, Message
  <1> QED BY <1>1, RingAssumption DEF Prepare

LEMMA PlainTypes ==
  /\ \A k \in {"emergency", "status", "tracks"} : Plain(k) \in Sendable
  /\ \A k \in {"identity", "tracks"} : Plain(k) \in Report
  BY DEF Plain, Told, Sendable, Report, Message

LEMMA FramedTypes ==
  ASSUME doubt \in BOOLEAN, NEW p \in Sendable
  PROVE  Framed(p) \in Frame
  BY DEF Framed, Frame

LEMMA GreetingTypes ==
  ASSUME doubt \in BOOLEAN
  PROVE  Greeting \in Seq(Frame)
  BY PlainTypes, FramedTypes DEF Greeting

LEMMA Appended ==
  ASSUME NEW S, NEW s \in Seq(S), NEW e \in S
  PROVE  Append(s, e) \in Seq(S)
  OBVIOUS

LEMMA Joined ==
  ASSUME NEW S, NEW s \in Seq(S), NEW t \in Seq(S)
  PROVE  s \o t \in Seq(S)
  OBVIOUS

(* What a report of each kind says. *)
LEMMA ReportKinds ==
  ASSUME NEW r \in Report
  PROVE  /\ r.kind \in {"identity", "tracks", "power", "locomotive", "value"}
         /\ r.kind = "power" => r.value \in {"on", "off"}
         /\ r.kind = "locomotive" => r.item \in Loco /\ r.value \in Pace
         /\ r.kind = "value" => r.item \in Item /\ r.value \in Value \cup {None}
  BY DEF Report, Message

(* What a frame of each kind asks. *)
LEMMA FrameKinds ==
  ASSUME NEW f \in Sendable
  PROVE  /\ f.kind \in {"power", "throttle", "function", "read", "write",
                        "emergency", "status", "tracks"}
         /\ f.kind = "power" => f.value \in {"on", "off"}
         /\ f.kind = "throttle" => f.item \in Loco /\ f.value \in Pace
         /\ f.kind = "function" => f.item \in Loco
         /\ f.kind = "read" => f.item \in Item /\ f.callback \in 0..Callbacks
         /\ f.kind = "write" => f.item \in Item /\ f.value \in Value
  BY DEF Sendable, Part, Message

----------------------------------------------------------------------------
(* Every step keeps the types. *)

LEMMA OpenTypes ==
  ASSUME TypesOK, Open
  PROVE  TypesOK'
  <1>1. BeliefOK /\ RequestOK /\ LineOK /\ DeviceOK
    BY DEF TypesOK
  <1>2. /\ Head(calls) \in Operation /\ Head(calls) # None
        /\ calls' \in Seq(Operation)
    BY <1>1, CallTypes DEF Open
  <1>3. RequestOK' /\ PartOK'
    BY <1>1, <1>2 DEF Open, RequestOK, PartOK
  <1>4. chances' \in [Chance -> Nat]
    BY <1>1, MayTypes DEF Open, Surely, BeliefOK, Chance
  <1>5. BeliefOK'
    BY <1>1, <1>4 DEF Open, BeliefOK, late
  <1>6. LineOK'
    <2>1. Greeting \in Seq(Frame)
      BY <1>1, GreetingTypes DEF BeliefOK
    <2>a. toDevice \in Seq(Frame)
      BY <1>1 DEF LineOK
    <2>2. toDevice \o Greeting \in Seq(Frame)
      BY <2>1, <2>a, Joined
    <2>3. /\ toDevice' \in {toDevice \o Greeting, Greeting}
          /\ fromDevice' \in {fromDevice, <<>>}
      BY DEF Open
    <2>4. fromDevice \in Seq(Report) /\ <<>> \in Seq(Report)
      BY <1>1 DEF LineOK
    <2>5. toDevice' \in Seq(Frame)
      BY <2>1, <2>2, <2>3
    <2>6. fromDevice' \in Seq(Report)
      BY <2>3, <2>4
    <2> QED BY <2>5, <2>6 DEF LineOK
  <1>7. DeviceOK'
    BY <1>1 DEF Open, DeviceOK, device, Pace
  <1> QED BY <1>3, <1>5, <1>6, <1>7 DEF TypesOK

LEMMA ConnectionTypes ==
  ASSUME TypesOK, AlreadyOpen \/ OpenFails \/ Handshake \/ Disconnect
  PROVE  TypesOK'
  <1>1. BeliefOK /\ RequestOK /\ PartOK /\ LineOK /\ DeviceOK
    BY DEF TypesOK
  <1>2. CASE AlreadyOpen
    <2>1. calls' \in Seq(Operation)
      BY <1>1, <1>2, CallTypes DEF AlreadyOpen
    <2>2. BeliefOK'
      BY <1>1, <1>2 DEF AlreadyOpen, BeliefOK, belief, late
    <2>3. RequestOK' /\ PartOK'
      BY <1>1, <1>2, <2>1 DEF AlreadyOpen, RequestOK, PartOK
    <2>4. LineOK' /\ DeviceOK'
      BY <1>1, <1>2 DEF AlreadyOpen, LineOK, DeviceOK, device, line
    <2> QED BY <2>2, <2>3, <2>4 DEF TypesOK
  <1>3. CASE OpenFails
    <2>1. calls' \in Seq(Operation) /\ chances' \in [Chance -> Nat]
      BY <1>1, <1>3, CallTypes, MayTypes DEF OpenFails, BeliefOK, Chance
    <2>2. LineOK'
      <3>1. Framed(Plain("status")) \in Frame
        BY <1>1, PlainTypes, FramedTypes DEF BeliefOK
      <3>2. Append(toDevice, Framed(Plain("status"))) \in Seq(Frame)
        BY <1>1, <3>1, Appended DEF LineOK
      <3> QED BY <1>1, <1>3, <3>2 DEF OpenFails, LineOK
    <2>3. BeliefOK'
      BY <1>1, <1>3, <2>1 DEF OpenFails, BeliefOK, late
    <2>4. RequestOK' /\ PartOK'
      BY <1>1, <1>3, <2>1 DEF OpenFails, RequestOK, PartOK
    <2>5. DeviceOK'
      BY <1>1, <1>3 DEF OpenFails, DeviceOK, device
    <2> QED BY <2>2, <2>3, <2>4, <2>5 DEF TypesOK
  <1>4. CASE Handshake
    <2>1. BeliefOK'
      BY <1>1, <1>4 DEF Handshake, BeliefOK, late
    <2>2. RequestOK' /\ PartOK'
      BY <1>1, <1>4 DEF Handshake, RequestOK, PartOK
    <2>3. LineOK' /\ DeviceOK'
      BY <1>1, <1>4 DEF Handshake, LineOK, DeviceOK, device, line
    <2> QED BY <2>1, <2>2, <2>3 DEF TypesOK
  <1>5. CASE Disconnect
    <2>1. calls' \in Seq(Operation)
      BY <1>1, <1>5, CallTypes DEF Disconnect
    <2>2. BeliefOK'
      BY <1>1, <1>5 DEF Disconnect, BeliefOK, late
    <2>3. RequestOK' /\ PartOK'
      BY <1>1, <1>5, <2>1 DEF Disconnect, RequestOK, PartOK
    <2>4. LineOK' /\ DeviceOK'
      BY <1>1, <1>5 DEF Disconnect, LineOK, DeviceOK, device, line
    <2> QED BY <2>2, <2>3, <2>4 DEF TypesOK
  <1> QED BY <1>2, <1>3, <1>4, <1>5

LEMMA BeginTypes ==
  ASSUME TypesOK, Begin
  PROVE  TypesOK'
  <1>1. BeliefOK /\ RequestOK /\ LineOK /\ DeviceOK
    BY DEF TypesOK
  <1> DEFINE c == Head(calls)
             sent(kind) == IF kind = "program" THEN "write" ELSE kind
  <1>2. PICK kind \in {"power", "throttle", "function", "read", "program"} :
            /\ Call(kind)
            /\ op' = c
            /\ Prepare(PartOf(sent(kind), c.item, c.value))
            /\ outcome' = None
            /\ clean' = ~Unanswered(c.item)
            /\ UNCHANGED <<belief, late, device, line, doubt, missed, chances>>
    BY DEF Begin
  <1>a. Call(kind)
    BY <1>2
  <1>3. /\ c \in Operation /\ c # None /\ c.kind = kind
        /\ calls' \in Seq(Operation)
    BY <1>1, <1>a, CallTypes
  <1> DEFINE p == PartOf(sent(kind), c.item, c.value)
  <1>4. p \in Part
    <2>1. CASE kind = "read"
      <3>1. c.item \in Item /\ c.value = None
        BY <1>3, <2>1 DEF Operation
      <3> QED BY <1>1, <2>1, <3>1, ReadTypes DEF RequestOK
    <2>2. CASE kind # "read"
      <3>1. p = [kind |-> sent(kind), item |-> c.item, value |-> c.value,
                 callback |-> 0]
        BY <1>2, <2>2 DEF PartOf
      <3>2. \/ kind = "power" /\ c.item = None /\ c.value \in {"on", "off"}
            \/ kind = "throttle" /\ c.item \in Loco /\ c.value \in Pace
            \/ kind = "function" /\ c.item \in Loco /\ c.value = None
            \/ kind = "program" /\ c.item \in Item /\ c.value \in Value
        BY <1>2, <1>3, <2>2 DEF Operation
      <3> QED BY <3>1, <3>2 DEF Part, Message
    <2> QED BY <2>1, <2>2
  <1> HIDE DEF p, c
  <1>5. /\ part' \in Part /\ stage' = "check"
        /\ heard' \in Seq(Report) /\ Len(heard') <= RingSize
        /\ callback' \in 0..Callbacks
    BY <1>1, <1>2, <1>4, PrepareTypes DEF RequestOK, p
  <1>6. RequestOK' /\ PartOK'
    BY <1>1, <1>2, <1>3, <1>5 DEF RequestOK, PartOK
  <1>7. clean' \in BOOLEAN
    BY <1>2 DEF Unanswered
  <1>8. BeliefOK' /\ LineOK' /\ DeviceOK'
    BY <1>1, <1>2, <1>7 DEF BeliefOK, LineOK, DeviceOK, belief, late, device, line
  <1> QED BY <1>6, <1>8 DEF TypesOK

LEMMA CheckTypes ==
  ASSUME TypesOK, Check
  PROVE  TypesOK'
  <1>1. BeliefOK /\ RequestOK /\ PartOK /\ LineOK /\ DeviceOK
    BY DEF TypesOK
  <1>2. RequestOK' /\ PartOK' /\ clean' = clean
    <2>1. CASE Return("failed", None)
      BY <1>1, <2>1, ReturnTypes DEF Check, Result, Return
    <2>2. CASE ~Return("failed", None)
      BY <1>1, <2>2 DEF Check, RequestOK, PartOK
    <2> QED BY <2>1, <2>2
  <1>3. doubt' \in BOOLEAN
    BY <1>1 DEF Check, PowerOwed, BeliefOK
  <1>4. BeliefOK' /\ LineOK' /\ DeviceOK'
    BY <1>1, <1>2, <1>3
    DEF Check, BeliefOK, LineOK, DeviceOK, belief, late, device, line
  <1> QED BY <1>2, <1>4 DEF TypesOK

LEMMA SendTypes ==
  ASSUME TypesOK, Send \/ SendFails
  PROVE  TypesOK'
  <1>1. BeliefOK /\ RequestOK /\ PartOK /\ LineOK /\ DeviceOK
    BY DEF TypesOK
  <1>2. stage = "send" /\ part \in Part
    BY <1>1 DEF Send, SendFails, PartOK
  <1>3. toDevice' \in Seq(Frame)
    <2>1. Framed(part) \in Frame
      BY <1>1, <1>2, FramedTypes DEF Sendable, BeliefOK
    <2>2. toDevice \in Seq(Frame)
      BY <1>1 DEF LineOK
    <2>3. Append(toDevice, Framed(part)) \in Seq(Frame)
      BY <2>1, <2>2, Appended
    <2>4. toDevice' \in {toDevice, Append(toDevice, Framed(part))}
      BY DEF Send, SendFails
    <2> QED BY <2>2, <2>3, <2>4
  <1>4. LineOK' /\ DeviceOK'
    BY <1>1, <1>3 DEF Send, SendFails, LineOK, DeviceOK, device
  <1>5. RequestOK' /\ PartOK' /\ clean' = clean
    <2>1. CASE Return("unverified", None) \/ Return("failed", None)
      BY <1>1, <1>2, <2>1, ReturnTypes DEF Result, Return
    <2>2. CASE ~Return("unverified", None) /\ ~Return("failed", None)
      BY <1>1, <1>2, <2>2 DEF Send, SendFails, RequestOK, PartOK
    <2> QED BY <2>1, <2>2
  <1>6. noting' \in SUBSET Loco
    <2>1. part.kind = "function" => part.item \in Loco
      BY <1>2, FrameKinds DEF Sendable
    <2> QED BY <1>1, <2>1 DEF Send, SendFails, BeliefOK, late
  <1>7. chances' \in [Chance -> Nat]
    BY <1>1, MayTypes DEF Send, SendFails, BeliefOK, Chance
  <1>8. BeliefOK'
    BY <1>1, <1>5, <1>6, <1>7 DEF Send, SendFails, BeliefOK, belief, late
  <1> QED BY <1>4, <1>5, <1>8 DEF TypesOK

LEMMA AnswerTypes ==
  ASSUME TypesOK, Found \/ TimesOut
  PROVE  TypesOK'
  <1>1. BeliefOK /\ RequestOK /\ PartOK /\ LineOK /\ DeviceOK
    BY DEF TypesOK
  <1>2. stage = "wait" /\ part \in Part /\ op \in Operation
    BY <1>1 DEF Found, TimesOut, PartOK, RequestOK
  <1>3. RequestOK' /\ PartOK' /\ clean' = clean
    <2>1. CASE \E r \in Result, v \in Value \cup {None} : Return(r, v)
      BY <1>1, <1>2, <2>1, ReturnTypes DEF Return
    <2>2. CASE Found
      <3>1. PICK i \in DOMAIN heard : Answers(part, heard[i]) /\ Conclude(heard[i])
        BY <2>2 DEF Found
      <3> DEFINE r == heard[i]
      <3>2. r \in Report
        BY <1>1, <3>1 DEF RequestOK
      <3>3. part.kind \in Programming => r.kind = "value"
        BY <3>1 DEF Answers, Programming
      <3>4. part.kind = "read" => r.value \in Value \cup {None}
        BY <3>2, <3>3, ReportKinds DEF Programming
      <3>5. CASE part.kind = "write" /\ r.value = part.value
                 /\ Prepare(PartOf("read", part.item, None))
                 /\ UNCHANGED <<op, outcome, clean, calls>>
        <4>1. part.item \in Item
          BY <1>2, <3>5 DEF Part, Message
        <4>2. PartOf("read", part.item, None) \in Part
          BY <1>1, <4>1, ReadTypes DEF RequestOK
        <4>3. /\ part' \in Part /\ stage' = "check"
              /\ heard' \in Seq(Report) /\ Len(heard') <= RingSize
              /\ callback' \in 0..Callbacks
          BY <1>1, <3>5, <4>2, PrepareTypes DEF RequestOK
        <4> QED BY <1>1, <1>2, <3>5, <4>3 DEF RequestOK, PartOK
      <3>6. \/ Return("confirmed", None) \/ Return("failed", None)
            \/ part.kind = "read" /\ Return("confirmed", r.value)
            \/ part.kind = "write" /\ r.value = part.value
               /\ Prepare(PartOf("read", part.item, None))
               /\ UNCHANGED <<op, outcome, clean, calls>>
        BY <3>1 DEF Conclude
      <3> HIDE DEF r
      <3> QED BY <2>1, <3>4, <3>5, <3>6 DEF Result
    <2>3. CASE TimesOut
      BY <2>1, <2>3 DEF TimesOut, Result
    <2> QED BY <2>2, <2>3
  <1>4. BeliefOK' /\ LineOK' /\ DeviceOK'
    BY <1>1, <1>3
    DEF Found, TimesOut, BeliefOK, LineOK, DeviceOK, belief, late, device, line
  <1> QED BY <1>3, <1>4 DEF TypesOK

LEMMA SideTypes ==
  ASSUME TypesOK,
         \/ NoteFunction \/ EmergencyStop \/ ClearSpeeds \/ ReaderFails
         \/ Trip \/ Noise
  PROVE  TypesOK'
  <1>1. BeliefOK /\ RequestOK /\ PartOK /\ LineOK /\ DeviceOK
    BY DEF TypesOK
  <1>2. RequestOK' /\ PartOK' /\ clean' = clean
    BY <1>1
    DEF NoteFunction, EmergencyStop, ClearSpeeds, ReaderFails, Trip, Noise,
        RequestOK, PartOK, request
  <1>3. chances' \in [Chance -> Nat]
    BY <1>1, MayTypes
    DEF NoteFunction, EmergencyStop, ClearSpeeds, ReaderFails, Trip, Noise,
        BeliefOK, Chance
  <1>4. shown' \in [Loco -> Pace \cup {None}]
    BY <1>1
    DEF NoteFunction, EmergencyStop, ClearSpeeds, ReaderFails, Trip, Noise,
        BeliefOK, belief, Pace
  <1>5. BeliefOK'
    BY <1>1, <1>2, <1>3, <1>4
    DEF NoteFunction, EmergencyStop, ClearSpeeds, ReaderFails, Trip, Noise,
        BeliefOK, belief, late
  <1>6. LineOK'
    <2>1. Append(toDevice, Framed(Plain("emergency"))) \in Seq(Frame)
      <3>1. Framed(Plain("emergency")) \in Frame
        BY <1>1, PlainTypes, FramedTypes DEF BeliefOK
      <3>2. toDevice \in Seq(Frame)
        BY <1>1 DEF LineOK
      <3> QED BY <3>1, <3>2, Appended
    <2>2. Append(fromDevice, Told("power", None, "off", 0)) \in Seq(Report)
      <3>1. Told("power", None, "off", 0) \in Report
        BY DEF Told, Report, Message
      <3>2. fromDevice \in Seq(Report)
        BY <1>1 DEF LineOK
      <3> QED BY <3>1, <3>2, Appended
    <2>3. fromDevice # <<>> => Tail(fromDevice) \in Seq(Report)
      BY <1>1 DEF LineOK
    <2>4. toDevice' \in {toDevice, Append(toDevice, Framed(Plain("emergency")))}
      BY DEF NoteFunction, EmergencyStop, ClearSpeeds, ReaderFails, Trip, Noise,
             line
    <2>5. \/ fromDevice' = fromDevice
          \/ fromDevice' = Append(fromDevice, Told("power", None, "off", 0))
          \/ fromDevice # <<>> /\ fromDevice' = Tail(fromDevice)
      BY DEF NoteFunction, EmergencyStop, ClearSpeeds, ReaderFails, Trip, Noise,
             line
    <2> QED BY <1>1, <2>1, <2>2, <2>3, <2>4, <2>5 DEF LineOK
  <1>7. DeviceOK'
    BY <1>1
    DEF NoteFunction, EmergencyStop, ClearSpeeds, ReaderFails, Trip, Noise,
        DeviceOK, device
  <1> QED BY <1>2, <1>5, <1>6, <1>7 DEF TypesOK

LEMMA ReadTypesKept ==
  ASSUME TypesOK, ReadReport
  PROVE  TypesOK'
  <1>1. BeliefOK /\ RequestOK /\ PartOK /\ LineOK /\ DeviceOK
    BY DEF TypesOK
  <1> DEFINE r == Head(fromDevice)
  <1>2. r \in Report /\ Tail(fromDevice) \in Seq(Report)
    BY <1>1 DEF ReadReport, LineOK
  <1>3. heard' \in Seq(Report) /\ Len(heard') <= RingSize
    <2>1. heard \in Seq(Report) /\ Len(heard) <= RingSize /\ RingSize \in Nat
      BY <1>1, RingAssumption DEF RequestOK
    <2>2. /\ Append(heard, r) \in Seq(Report)
          /\ Len(Append(heard, r)) = Len(heard) + 1
      BY <1>2, <2>1
    <2>3. /\ Kept(Append(heard, r)) \in Seq(Report)
          /\ Len(Kept(Append(heard, r))) <= RingSize
      <3> DEFINE h == Append(heard, r)
      <3>1. /\ h \in Seq(Report) /\ Len(h) \in Nat
            /\ Len(h) <= RingSize + 1 /\ RingSize \in Nat \ {0}
        BY <2>1, <2>2, RingAssumption
      <3> HIDE DEF h
      <3>2. CASE Len(h) > RingSize
        <4>1. Kept(h) = Tail(h) /\ h # <<>>
          BY <2>1, <3>1, <3>2 DEF Kept
        <4>2. Tail(h) \in Seq(Report) /\ Len(Tail(h)) = Len(h) - 1
          BY <3>1, <4>1
        <4> QED BY <3>1, <4>1, <4>2 DEF h
      <3>3. CASE ~(Len(h) > RingSize)
        BY <3>1, <3>3 DEF Kept, h
      <3> QED BY <3>2, <3>3
    <2>4. heard' \in {heard, Kept(Append(heard, r))}
      BY DEF ReadReport
    <2> QED BY <2>1, <2>3, <2>4
  <1>4. RequestOK' /\ PartOK'
    BY <1>1, <1>3 DEF ReadReport, RequestOK, PartOK
  <1>5. /\ known' \in SUBSET ({"identity"} \cup Outputs)
        /\ power' \in {"unknown", "on", "off"}
        /\ shown' \in [Loco -> Pace \cup {None}]
        /\ guessed' \in SUBSET Loco
    <2>1. /\ r.kind = "power" => r.value \in {"on", "off"}
          /\ r.kind = "locomotive" => r.item \in Loco /\ r.value \in Pace
      BY <1>2, ReportKinds
    <2>2. Learn(r)
      BY DEF ReadReport
    <2> HIDE DEF r
    <2> QED BY <1>1, <2>1, <2>2 DEF Learn, BeliefOK
  <1>6. BeliefOK'
    BY <1>1, <1>5 DEF ReadReport, BeliefOK, late
  <1>7. LineOK' /\ DeviceOK'
    BY <1>1, <1>2 DEF ReadReport, LineOK, DeviceOK, device
  <1> QED BY <1>4, <1>6, <1>7 DEF TypesOK

(* What the device does with a frame: it adds reports, and they say how     *)
(* things are now; a change is reported, except that all stand still after  *)
(* an emergency stop.                                                       *)
Says(r) ==
    /\ r.kind = "power" => r.value = main'
    /\ r.kind = "locomotive" => r.value = speed'[r.item]

Tells(rs) ==
    /\ rs \in Seq(Report)
    /\ \A i \in DOMAIN rs : Says(rs[i])
    /\ main' # main => \E i \in DOMAIN rs : rs[i].kind = "power"
    /\ \A a \in Loco :
          speed'[a] # speed[a] /\ speed'[a] # "standing" =>
              \E i \in DOMAIN rs : rs[i].kind = "locomotive" /\ rs[i].item = a

LEMMA ToldTypes ==
  /\ \A v \in {"on", "off"} : Told("power", None, v, 0) \in Report
  /\ \A a \in Loco, v \in Pace : Told("locomotive", a, v, 0) \in Report
  /\ \A i \in Item, v \in Value \cup {None}, n \in 0..Callbacks :
         Told("value", i, v, n) \in Report
  BY DEF Told, Report, Message

LEMMA TellsOne ==
  ASSUME NEW r \in Report, Says(r),
         main' # main => r.kind = "power",
         \A a \in Loco : speed'[a] # speed[a] /\ speed'[a] # "standing" =>
                             r.kind = "locomotive" /\ r.item = a
  PROVE  Tells(<<r>>)
  <1>1. <<r>> \in Seq(Report) /\ DOMAIN <<r>> = {1} /\ <<r>>[1] = r
    OBVIOUS
  <1> QED BY <1>1 DEF Tells

LEMMA TellsNothing ==
  ASSUME main' = main,
         \A a \in Loco : speed'[a] = speed[a] \/ speed'[a] = "standing"
  PROVE  Tells(<<>>)
  BY DEF Tells

LEMMA HeadTypes ==
  ASSUME LineOK, DeviceExecutes
  PROVE  /\ toDevice # <<>> /\ toDevice' = Tail(toDevice)
         /\ Head(toDevice).body \in Sendable
         /\ toDevice' \in Seq(Frame)
  <1>1. toDevice # <<>> /\ toDevice' = Tail(toDevice) /\ toDevice \in Seq(Frame)
    BY DEF DeviceExecutes, LineOK
  <1>2. Head(toDevice) \in Frame /\ Tail(toDevice) \in Seq(Frame)
    BY <1>1
  <1> QED BY <1>1, <1>2 DEF Frame

LEMMA DeviceReports ==
  ASSUME TypesOK, DeviceExecutes
  PROVE  \E rs : Tells(rs) /\ fromDevice' = fromDevice \o rs
  <1>1. DeviceOK /\ LineOK
    BY DEF TypesOK
  <1> DEFINE f == Head(toDevice).body
  <1>2. f \in Sendable
    BY <1>1, HeadTypes
  <1>3. /\ f.kind = "power" => f.value \in {"on", "off"}
        /\ f.kind = "throttle" => f.item \in Loco /\ f.value \in Pace
        /\ f.kind = "function" => f.item \in Loco
        /\ f.kind = "read" => f.item \in Item /\ f.callback \in 0..Callbacks
        /\ f.kind = "write" => f.item \in Item /\ f.value \in Value
    BY <1>2, FrameKinds
  <1>a. fromDevice \in Seq(Report) /\ main \in {"on", "off"}
        /\ speed \in [Loco -> Pace] /\ decoder \in [Item -> Value]
    BY <1>1 DEF LineOK, DeviceOK
  <1> HIDE DEF f
  <1>4. CASE f.kind = "status"
    <2>1. /\ fromDevice' = fromDevice \o <<Plain("identity"), Told("power", None, main, 0)>>
          /\ main' = main /\ speed' = speed
      BY <1>4 DEF DeviceExecutes, f
    <2> DEFINE rs == <<Plain("identity"), Told("power", None, main, 0)>>
    <2>2. Plain("identity") \in Report /\ Told("power", None, main, 0) \in Report
      BY <1>a, PlainTypes, ToldTypes
    <2>3. /\ rs \in Seq(Report) /\ DOMAIN rs = {1, 2}
          /\ rs[1] = Plain("identity") /\ rs[2] = Told("power", None, main, 0)
      BY <2>2
    <2>4. Says(Plain("identity")) /\ Says(Told("power", None, main, 0))
      BY <2>1 DEF Says, Plain, Told
    <2>5. Tells(rs)
      BY <2>1, <2>3, <2>4 DEF Tells
    <2> QED BY <2>1, <2>5
  <1>5. CASE f.kind = "tracks"
    <2>1. /\ fromDevice' = fromDevice \o <<Plain("tracks")>>
          /\ main' = main /\ speed' = speed
      BY <1>5 DEF DeviceExecutes, f
    <2>2. Plain("tracks") \in Report /\ Says(Plain("tracks"))
      BY PlainTypes DEF Says, Plain, Told
    <2> QED BY <2>1, <2>2, TellsOne
  <1>6. CASE f.kind = "power"
    <2>1. /\ fromDevice' = fromDevice \o <<Told("power", None, f.value, 0)>>
          /\ main' = f.value /\ speed' = speed
      BY <1>6 DEF DeviceExecutes, f
    <2>2. /\ Told("power", None, f.value, 0) \in Report
          /\ Says(Told("power", None, f.value, 0))
          /\ Told("power", None, f.value, 0).kind = "power"
      BY <1>3, <1>6, <2>1, ToldTypes DEF Says, Told
    <2> QED BY <2>1, <2>2, TellsOne
  <1>7. CASE f.kind = "throttle"
    <2> DEFINE r == Told("locomotive", f.item, f.value, 0)
    <2>1. /\ fromDevice' = fromDevice \o <<r>>
          /\ main' = main /\ speed' = [speed EXCEPT ![f.item] = f.value]
      BY <1>7 DEF DeviceExecutes, f
    <2>2. r \in Report
      BY <1>3, <1>7, ToldTypes
    <2>3. r.kind = "locomotive" /\ r.item = f.item /\ r.value = f.value
      BY DEF Told
    <2>4. Says(r)
      BY <1>3, <1>7, <1>a, <2>1, <2>3 DEF Says
    <2>5. \A a \in Loco : speed'[a] # speed[a] => r.item = a
      BY <1>a, <2>1, <2>3
    <2> HIDE DEF r
    <2> QED BY <2>1, <2>2, <2>3, <2>4, <2>5, TellsOne
  <1>8. CASE f.kind = "emergency"
    <2>1. /\ fromDevice' = fromDevice \o <<>> /\ main' = main
          /\ speed' = [a \in Loco |-> "standing"]
      BY <1>8 DEF DeviceExecutes, f
    <2> QED BY <2>1, TellsNothing
  <1>9. CASE f.kind = "function"
    <2> DEFINE r == Told("locomotive", f.item, speed[f.item], 0)
    <2>1. /\ fromDevice' = fromDevice \o <<>> \/ fromDevice' = fromDevice \o <<r>>
          /\ main' = main /\ speed' = speed
      BY <1>9 DEF DeviceExecutes, f
    <2>2. r \in Report
      BY <1>3, <1>9, <1>a, ToldTypes
    <2>3. Says(r)
      BY <2>1 DEF Says, Told
    <2>4. Tells(<<>>) /\ Tells(<<r>>)
      BY <2>1, <2>2, <2>3, TellsOne, TellsNothing
    <2> QED BY <2>1, <2>4
  <1>10. CASE f.kind \in {"read", "write"}
    <2>1. PICK v \in Value \cup {None}, n \in 0..Callbacks :
              fromDevice' = Append(fromDevice, Told("value", f.item, v, n))
      <3>1. CASE f.kind = "write"
        <4>1. Program(f)
          BY <3>1 DEF DeviceExecutes, f
        <4>2. 0 \in 0..Callbacks
          BY CallbackAssumption
        <4> QED BY <1>3, <3>1, <4>1, <4>2 DEF Program
      <3>2. CASE f.kind = "read"
        <4>1. ReadDecoder(f)
          BY <3>2 DEF DeviceExecutes, f
        <4>2. decoder[f.item] \in Value
          BY <1>3, <1>a, <3>2
        <4> QED BY <1>3, <3>2, <4>1, <4>2 DEF ReadDecoder
      <3> QED BY <1>10, <3>1, <3>2
    <2>2. main' = main /\ speed' = speed
      BY <1>10 DEF DeviceExecutes, f
    <2> DEFINE r == Told("value", f.item, v, n)
    <2>3. r \in Report /\ Says(r)
      BY <1>3, <1>10, ToldTypes DEF Says, Told
    <2> HIDE DEF r
    <2>4. Append(fromDevice, r) = fromDevice \o <<r>>
      BY <1>a, <2>3
    <2>5. Tells(<<r>>)
      BY <2>2, <2>3, TellsOne
    <2> QED BY <2>1, <2>4, <2>5 DEF r
  <1> QED BY <1>2, <1>4, <1>5, <1>6, <1>7, <1>8, <1>9, <1>10, FrameKinds

LEMMA DeviceTypes ==
  ASSUME TypesOK, DeviceExecutes
  PROVE  TypesOK'
  <1>1. BeliefOK /\ RequestOK /\ PartOK /\ LineOK /\ DeviceOK
    BY DEF TypesOK
  <1> DEFINE f == Head(toDevice).body
  <1>2. f \in Sendable /\ toDevice' \in Seq(Frame)
    BY <1>1, HeadTypes
  <1>3. /\ f.kind = "power" => f.value \in {"on", "off"}
        /\ f.kind = "throttle" => f.item \in Loco /\ f.value \in Pace
        /\ f.kind = "function" => f.item \in Loco
        /\ f.kind = "read" => f.item \in Item /\ f.callback \in 0..Callbacks
        /\ f.kind = "write" => f.item \in Item /\ f.value \in Value
    BY <1>2, FrameKinds
  <1>4. DeviceOK' /\ chances' \in [Chance -> Nat]
    <2>1. main' \in {"on", "off"}
      BY <1>1, <1>3 DEF DeviceExecutes, DeviceOK
    <2>2. speed' \in [Loco -> Pace]
      BY <1>1, <1>3 DEF DeviceExecutes, DeviceOK, Pace
    <2>3. decoder' \in [Item -> Value]
      BY <1>1, <1>3 DEF DeviceExecutes, DeviceOK, Quick, Program, ReadDecoder
    <2>4. chances' \in [Chance -> Nat]
      BY <1>1, MayTypes
      DEF DeviceExecutes, BeliefOK, Quick, Program, ReadDecoder, Surely, Chance
    <2> QED BY <2>1, <2>2, <2>3, <2>4 DEF DeviceOK
  <1>5. PICK rs : Tells(rs) /\ fromDevice' = fromDevice \o rs
    BY DeviceReports
  <1>6. LineOK'
    <2>1. fromDevice \in Seq(Report) /\ rs \in Seq(Report)
      BY <1>1, <1>5 DEF LineOK, Tells
    <2>2. fromDevice' \in Seq(Report)
      BY <1>5, <2>1, Joined
    <2> QED BY <1>2, <2>2 DEF LineOK
  <1>7. RequestOK' /\ PartOK'
    BY <1>1 DEF DeviceExecutes, RequestOK, PartOK, request
  <1>8. BeliefOK'
    BY <1>1, <1>4 DEF DeviceExecutes, BeliefOK, belief, late, request
  <1> QED BY <1>4, <1>6, <1>7, <1>8 DEF TypesOK

LEMMA StepTypes ==
  ASSUME TypesOK, [Next]_vars
  PROVE  TypesOK'
  <1>1. CASE UNCHANGED vars
    BY <1>1
    DEF TypesOK, BeliefOK, RequestOK, PartOK, LineOK, DeviceOK, vars, belief,
        late, request, device, line
  <1>2. CASE Next
    BY <1>2, OpenTypes, ConnectionTypes, BeginTypes, CheckTypes, SendTypes,
       AnswerTypes, SideTypes, ReadTypesKept, DeviceTypes DEF Next
  <1> QED BY <1>1, <1>2

LEMMA TypesAlways == Spec => []TypesOK
  BY InitTypes, StepTypes, PTL DEF Spec

(* Every variable keeps its type.                                           *)
THEOREM StationTypes == Spec => []StationTypeOK
  BY TypesAlways, TypesAreTypes, PTL

----------------------------------------------------------------------------
(* MAIN power. *)

SwitchOff(r) == r.kind = "power" /\ r.value = "off"

(* While MAIN is on, an "off" that is shown or still to be read is followed *)
(* by an "on" that is still to be read.                                     *)
OffIsOld ==
    /\ main = "on" /\ power = "off" /\ ~missed =>
          \E i \in DOMAIN fromDevice : SwitchOn(fromDevice[i])
    /\ main = "on" =>
          \A i \in DOMAIN fromDevice : SwitchOff(fromDevice[i]) =>
              \E j \in DOMAIN fromDevice : j > i /\ SwitchOn(fromDevice[j])

(* MAIN stays off until the device comes to what follows position n.        *)
OffUntil(n) ==
    /\ main # "on"
    /\ \A j \in DOMAIN toDevice : j <= n => ~SwitchOn(toDevice[j].body)

Guarded ==
    /\ stage = "send" /\ part.kind \in Programming /\ ~doubt => OffUntil(Len(toDevice))
    /\ \A i \in DOMAIN toDevice :
          toDevice[i].body.kind \in Programming /\ toDevice[i].sure => OffUntil(i)

MainInvariant == TypesOK /\ OffIsOld /\ Guarded

LEMMA GuardedIsMainOff == MainInvariant => MainOff
  <1> SUFFICES ASSUME MainInvariant, NEW i \in DOMAIN toDevice,
                      toDevice[i].body.kind \in Programming, toDevice[i].sure,
                      NEW j \in 0..i - 1, Switches(j, "on")
               PROVE  FALSE
    BY DEF MainOff, MainOffAt
  <1>1. toDevice \in Seq(Frame) /\ OffUntil(i)
    BY DEF MainInvariant, TypesOK, LineOK, Guarded
  <1>2. CASE j = 0
    BY <1>1, <1>2 DEF Switches, OffUntil
  <1>3. CASE j # 0
    <2>1. j \in DOMAIN toDevice /\ j <= i
      BY <1>1, <1>3
    <2> QED BY <1>1, <1>3, <2>1 DEF Switches, OffUntil, SwitchOn
  <1> QED BY <1>2, <1>3

LEMMA InitMain == Init => MainInvariant
  <1> SUFFICES ASSUME Init PROVE MainInvariant
    OBVIOUS
  <1>1. TypesOK
    BY InitTypes
  <1>2. toDevice = <<>> /\ fromDevice = <<>> /\ power = "unknown" /\ stage = "rest"
    BY DEF Init
  <1> QED BY <1>1, <1>2 DEF MainInvariant, OffIsOld, Guarded

(* Steps that leave the power and its reports alone. *)
LEMMA QuietOffIsOld ==
  ASSUME OffIsOld, UNCHANGED <<main, power, missed, fromDevice>>
  PROVE  OffIsOld'
  BY DEF OffIsOld

LEMMA FreshOffIsOld ==
  ASSUME OffIsOld, power' = "unknown", main' \in {main, "off"},
         fromDevice' \in {fromDevice, <<>>}
  PROVE  OffIsOld'
  BY DEF OffIsOld

LEMMA ReadOffIsOld ==
  ASSUME TypesOK, OffIsOld, ReadReport \/ Noise
  PROVE  OffIsOld'
  <1>1. fromDevice \in Seq(Report) /\ fromDevice # <<>>
        /\ fromDevice' = Tail(fromDevice) /\ main' = main
    BY DEF TypesOK, LineOK, ReadReport, Noise, device
  <1>2. /\ DOMAIN fromDevice = 1..Len(fromDevice) /\ Len(fromDevice) \in Nat
        /\ DOMAIN fromDevice' = 1..Len(fromDevice) - 1
        /\ \A i \in 1..Len(fromDevice) - 1 : fromDevice'[i] = fromDevice[i + 1]
        /\ fromDevice[1] = Head(fromDevice)
    BY <1>1
  <1>3. main' = "on" =>
            \A i \in DOMAIN fromDevice' : SwitchOff(fromDevice'[i]) =>
                \E j \in DOMAIN fromDevice' : j > i /\ SwitchOn(fromDevice'[j])
    <2> SUFFICES ASSUME main = "on", NEW i \in DOMAIN fromDevice',
                        SwitchOff(fromDevice'[i])
                 PROVE  \E j \in DOMAIN fromDevice' : j > i /\ SwitchOn(fromDevice'[j])
      BY <1>1
    <2>1. i + 1 \in DOMAIN fromDevice /\ SwitchOff(fromDevice[i + 1])
      BY <1>2
    <2>2. PICK j \in DOMAIN fromDevice : j > i + 1 /\ SwitchOn(fromDevice[j])
      BY <2>1 DEF OffIsOld
    <2>3. j - 1 \in DOMAIN fromDevice' /\ j - 1 > i /\ fromDevice'[j - 1] = fromDevice[j]
      BY <1>2, <2>2
    <2> QED BY <2>2, <2>3
  <1>4. main' = "on" /\ power' = "off" /\ ~missed' =>
            \E i \in DOMAIN fromDevice' : SwitchOn(fromDevice'[i])
    <2> SUFFICES ASSUME main = "on", power' = "off", ~missed'
                 PROVE  \E i \in DOMAIN fromDevice' : SwitchOn(fromDevice'[i])
      BY <1>1
    <2>1. ReadReport /\ ~missed
      BY DEF Noise, ReadReport
    <2>2. Learn(fromDevice[1]) /\ fromDevice[1] \in Report
      BY <1>1, <1>2, <2>1 DEF ReadReport
    <2>3. PICK j \in DOMAIN fromDevice : j > 1 /\ SwitchOn(fromDevice[j])
      <3>1. CASE fromDevice[1].kind = "power"
        <4>1. SwitchOff(fromDevice[1]) /\ 1 \in DOMAIN fromDevice
          BY <1>1, <1>2, <2>2, <3>1 DEF Learn, SwitchOff
        <4> QED BY <4>1 DEF OffIsOld
      <3>2. CASE fromDevice[1].kind # "power"
        <4>1. power = "off"
          BY <2>2, <3>2 DEF Learn
        <4>2. PICK j \in DOMAIN fromDevice : SwitchOn(fromDevice[j])
          BY <2>1, <4>1 DEF OffIsOld
        <4>3. j # 1
          BY <3>2, <4>2 DEF SwitchOn
        <4> QED BY <1>2, <4>2, <4>3
      <3> QED BY <3>1, <3>2
    <2>4. j - 1 \in DOMAIN fromDevice' /\ fromDevice'[j - 1] = fromDevice[j]
      BY <1>2, <2>3
    <2> QED BY <2>3, <2>4
  <1> QED BY <1>3, <1>4 DEF OffIsOld

(* A queue that is added to, and one whose head is taken. *)
LEMMA Joining ==
  ASSUME NEW S, NEW s \in Seq(S), NEW t \in Seq(S)
  PROVE  /\ DOMAIN s = 1..Len(s) /\ DOMAIN t = 1..Len(t)
         /\ Len(s) \in Nat /\ Len(t) \in Nat
         /\ DOMAIN (s \o t) = 1..Len(s) + Len(t)
         /\ \A i \in DOMAIN s : (s \o t)[i] = s[i]
         /\ \A i \in DOMAIN t : (s \o t)[Len(s) + i] = t[i]
         /\ \A i \in DOMAIN (s \o t) : i \in DOMAIN s \/ i - Len(s) \in DOMAIN t
  OBVIOUS

LEMMA Shifting ==
  ASSUME NEW S, NEW s \in Seq(S), s # <<>>
  PROVE  /\ DOMAIN s = 1..Len(s) /\ Len(s) \in Nat
         /\ Len(Tail(s)) = Len(s) - 1 /\ DOMAIN Tail(s) = 1..Len(s) - 1
         /\ \A i \in DOMAIN Tail(s) : i + 1 \in DOMAIN s /\ Tail(s)[i] = s[i + 1]
         /\ 1 \in DOMAIN s /\ s[1] = Head(s)
         /\ \A i \in DOMAIN s : i # 1 =>
                i - 1 \in DOMAIN Tail(s) /\ Tail(s)[i - 1] = s[i]
  OBVIOUS

LEMMA DeviceOffIsOld ==
  ASSUME TypesOK, OffIsOld, DeviceExecutes
  PROVE  OffIsOld'
  <1>1. PICK rs : Tells(rs) /\ fromDevice' = fromDevice \o rs
    BY DeviceReports
  <1> DEFINE n == Len(fromDevice)
  <1>2. fromDevice \in Seq(Report) /\ rs \in Seq(Report)
    BY <1>1 DEF TypesOK, LineOK, Tells
  <1>3. /\ DOMAIN fromDevice = 1..n /\ DOMAIN rs = 1..Len(rs)
        /\ n \in Nat /\ Len(rs) \in Nat
        /\ DOMAIN fromDevice' = 1..n + Len(rs)
        /\ \A i \in DOMAIN fromDevice : fromDevice'[i] = fromDevice[i]
        /\ \A i \in DOMAIN rs : fromDevice'[n + i] = rs[i]
        /\ \A i \in DOMAIN fromDevice' : i \in DOMAIN fromDevice \/ i - n \in DOMAIN rs
    BY <1>1, <1>2, Joining
  <1> HIDE DEF n
  <1>4. power' = power /\ missed' = missed
    BY DEF DeviceExecutes, belief
  <1>5. CASE main' # "on"
    BY <1>5 DEF OffIsOld
  <1>6. CASE main' = "on" /\ main # "on"
    <2>1. PICK k \in DOMAIN rs : rs[k].kind = "power"
      BY <1>1, <1>6 DEF Tells
    <2>2. SwitchOn(rs[k])
      BY <1>1, <1>6, <2>1 DEF Tells, Says, SwitchOn
    <2>3. n + k \in DOMAIN fromDevice' /\ SwitchOn(fromDevice'[n + k])
      BY <1>3, <2>1, <2>2
    <2>4. \A i \in DOMAIN fromDevice' : SwitchOff(fromDevice'[i]) => i < n + k
      <3> SUFFICES ASSUME NEW i \in DOMAIN fromDevice', SwitchOff(fromDevice'[i])
                   PROVE  i < n + k
        OBVIOUS
      <3>1. \A l \in DOMAIN rs : ~SwitchOff(rs[l])
        BY <1>1, <1>6 DEF Tells, Says, SwitchOff
      <3>2. i \in DOMAIN fromDevice
        <4>1. i - n \in DOMAIN rs => fromDevice'[i] = rs[i - n]
          BY <1>3
        <4> QED BY <1>3, <3>1, <4>1
      <3> QED BY <1>3, <2>1, <3>2
    <2> QED BY <1>3, <2>1, <2>3, <2>4 DEF OffIsOld
  <1>7. CASE main' = "on" /\ main = "on"
    <2>1. \A i \in DOMAIN fromDevice :
              i \in DOMAIN fromDevice' /\ fromDevice'[i] = fromDevice[i]
      BY <1>3
    <2>2. \A i \in DOMAIN fromDevice' :
              SwitchOff(fromDevice'[i]) =>
                  i \in DOMAIN fromDevice /\ SwitchOff(fromDevice[i])
      <3>1. \A l \in DOMAIN rs : ~SwitchOff(rs[l])
        BY <1>1, <1>7 DEF Tells, Says, SwitchOff
      <3>2. \A i \in DOMAIN fromDevice' :
                \/ i \in DOMAIN fromDevice
                \/ i - n \in DOMAIN rs /\ fromDevice'[i] = rs[i - n]
        <4> TAKE i \in DOMAIN fromDevice'
        <4>1. i - n \in DOMAIN rs => fromDevice'[i] = rs[i - n]
          BY <1>3
        <4> QED BY <1>3, <4>1
      <3> QED BY <1>3, <3>1, <3>2
    <2> QED BY <1>4, <1>7, <2>1, <2>2 DEF OffIsOld
  <1> QED BY <1>5, <1>6, <1>7

LEMMA StepOffIsOld ==
  ASSUME TypesOK, OffIsOld, [Next]_vars
  PROVE  OffIsOld'
  <1>1. CASE \/ AlreadyOpen \/ Handshake \/ Begin \/ Check \/ Send \/ SendFails
             \/ Found \/ TimesOut \/ NoteFunction \/ EmergencyStop
             \/ ClearSpeeds \/ ReaderFails \/ UNCHANGED vars
    <2>1. UNCHANGED <<main, power, missed, fromDevice>>
      BY <1>1
      DEF AlreadyOpen, Handshake, Begin, Check, Send, SendFails, Found, TimesOut,
          NoteFunction, EmergencyStop, ClearSpeeds, ReaderFails, vars, belief,
          device, line
    <2> QED BY <2>1, QuietOffIsOld
  <1>2. CASE Open \/ OpenFails \/ Disconnect
    <2>1. /\ power' = "unknown" /\ main' \in {main, "off"}
          /\ fromDevice' \in {fromDevice, <<>>}
      BY <1>2 DEF Open, OpenFails, Disconnect, device, line
    <2> QED BY <2>1, FreshOffIsOld
  <1>3. CASE Trip
    BY <1>3 DEF Trip, OffIsOld
  <1> QED BY <1>1, <1>2, <1>3, ReadOffIsOld, DeviceOffIsOld DEF Next

(* Steps that only add frames, and how they add them. *)
LEMMA GuardedAdded ==
  ASSUME TypesOK, Guarded, NEW fs \in Seq(Frame),
         toDevice' = toDevice \o fs, main' = main,
         \A k \in DOMAIN fs : fs[k].body.kind \notin Programming,
         stage' = "send" =>
             /\ stage = "send" /\ part' = part /\ doubt' = doubt
             /\ \A k \in DOMAIN fs : ~SwitchOn(fs[k].body)
  PROVE  Guarded'
  <1>n. PICK n : n = Len(toDevice)
    OBVIOUS
  <1>1. toDevice \in Seq(Frame)
    BY DEF TypesOK, LineOK
  <1>2. /\ DOMAIN toDevice = 1..n /\ DOMAIN fs = 1..Len(fs)
        /\ n \in Nat /\ Len(fs) \in Nat
        /\ DOMAIN toDevice' = 1..n + Len(fs) /\ Len(toDevice') = n + Len(fs)
        /\ \A i \in DOMAIN toDevice : toDevice'[i] = toDevice[i]
        /\ \A i \in DOMAIN fs : toDevice'[n + i] = fs[i]
        /\ \A i \in DOMAIN toDevice' : i \in DOMAIN toDevice \/ i - n \in DOMAIN fs
    BY <1>1, <1>n, Joining
  <1>3. \A i \in DOMAIN toDevice' :
            \/ i \in DOMAIN toDevice /\ toDevice'[i] = toDevice[i]
            \/ i - n \in DOMAIN fs /\ toDevice'[i] = fs[i - n]
    <2> TAKE i \in DOMAIN toDevice'
    <2>1. i - n \in DOMAIN fs => toDevice'[i] = fs[i - n]
      BY <1>2
    <2> QED BY <1>2, <2>1
  <1>4. \A i \in DOMAIN toDevice : OffUntil(i) => OffUntil(i)'
    <2> SUFFICES ASSUME NEW i \in DOMAIN toDevice, OffUntil(i)
                 PROVE  \A j \in DOMAIN toDevice' :
                            j <= i => ~SwitchOn(toDevice'[j].body)
      BY DEF OffUntil
    <2>1. \A j \in DOMAIN toDevice' : j <= i => j \in DOMAIN toDevice
      BY <1>2
    <2> QED BY <1>2, <2>1 DEF OffUntil
  <1>5. \A i \in DOMAIN toDevice' :
            toDevice'[i].body.kind \in Programming /\ toDevice'[i].sure =>
                OffUntil(i)'
    BY <1>3, <1>4 DEF Guarded
  <1>6. stage' = "send" /\ part'.kind \in Programming /\ ~doubt' =>
            OffUntil(Len(toDevice))'
    <2> SUFFICES ASSUME stage' = "send", part'.kind \in Programming, ~doubt'
                 PROVE  OffUntil(Len(toDevice))'
      OBVIOUS
    <2>1. OffUntil(n)
      BY <1>n DEF Guarded
    <2> QED BY <1>2, <1>3, <2>1 DEF OffUntil
  <1> QED BY <1>5, <1>6 DEF Guarded

LEMMA GuardedQuiet ==
  ASSUME TypesOK, Guarded, toDevice' = toDevice, main' \in {main, "off"},
         stage' = "send" => stage = "send" /\ part' = part /\ doubt' = doubt
  PROVE  Guarded'
  BY DEF Guarded, OffUntil

LEMMA GuardedCheck ==
  ASSUME TypesOK, OffIsOld, Guarded, Check
  PROVE  Guarded'
  <1>1. toDevice' = toDevice /\ main' = main
    BY DEF Check, line, device
  <1>2. \A i : OffUntil(i) => OffUntil(i)'
    BY <1>1 DEF OffUntil
  <1>3. \A i \in DOMAIN toDevice' :
            toDevice'[i].body.kind \in Programming /\ toDevice'[i].sure =>
                OffUntil(i)'
    BY <1>1, <1>2 DEF Guarded
  <1>4. stage' = "send" /\ part'.kind \in Programming /\ ~doubt' =>
            OffUntil(Len(toDevice))'
    <2> SUFFICES ASSUME stage' = "send", part'.kind \in Programming, ~doubt'
                 PROVE  OffUntil(Len(toDevice))'
      OBVIOUS
    <2>1. part' = part /\ Allowed(part) /\ ~PowerOwed
      BY DEF Check, Return
    <2>2. power = "off" /\ ~missed
      BY <2>1 DEF Allowed, PowerOwed
    <2>3. main # "on"
      BY <2>1, <2>2 DEF OffIsOld, PowerOwed
    <2>4. \A j \in DOMAIN toDevice : ~SwitchOn(toDevice[j].body)
      BY <2>1 DEF PowerOwed
    <2> QED BY <1>1, <2>3, <2>4 DEF OffUntil
  <1> QED BY <1>3, <1>4 DEF Guarded

LEMMA GuardedSend ==
  ASSUME TypesOK, Guarded, Send \/ SendFails, toDevice' # toDevice
  PROVE  Guarded'
  <1>n. PICK n : n = Len(toDevice)
    OBVIOUS
  <1>1. /\ toDevice' = Append(toDevice, Framed(part)) /\ main' = main
        /\ stage = "send" /\ stage' # "send"
    BY DEF Send, SendFails, Return, device
  <1>2. toDevice \in Seq(Frame)
    BY DEF TypesOK, LineOK
  <1>3. /\ DOMAIN toDevice = 1..n /\ n \in Nat
        /\ DOMAIN toDevice' = 1..n + 1
        /\ \A i \in DOMAIN toDevice : toDevice'[i] = toDevice[i]
        /\ toDevice'[n + 1] = Framed(part)
    BY <1>1, <1>2, <1>n
  <1>4. \A i \in DOMAIN toDevice : OffUntil(i) => OffUntil(i)'
    <2> SUFFICES ASSUME NEW i \in DOMAIN toDevice, OffUntil(i)
                 PROVE  \A j \in DOMAIN toDevice' :
                            j <= i => ~SwitchOn(toDevice'[j].body)
      BY <1>1 DEF OffUntil
    <2>1. \A j \in DOMAIN toDevice' : j <= i => j \in DOMAIN toDevice
      BY <1>3
    <2> QED BY <1>3, <2>1 DEF OffUntil
  <1>5. Framed(part).body.kind \in Programming /\ Framed(part).sure =>
            OffUntil(n + 1)'
    <2> SUFFICES ASSUME part.kind \in Programming, ~doubt
                 PROVE  OffUntil(n + 1)'
      BY DEF Framed
    <2>1. OffUntil(n)
      BY <1>1, <1>n DEF Guarded
    <2>2. ~SwitchOn(Framed(part).body)
      BY DEF Framed, SwitchOn, Programming
    <2>3. \A j \in DOMAIN toDevice' :
              \/ j = n + 1
              \/ j \in DOMAIN toDevice /\ j <= n
      BY <1>3
    <2> QED BY <1>1, <1>3, <2>1, <2>2, <2>3 DEF OffUntil
  <1>6. \A i \in DOMAIN toDevice' : i \in DOMAIN toDevice \/ i = n + 1
    BY <1>3
  <1> QED BY <1>1, <1>3, <1>4, <1>5, <1>6 DEF Guarded

LEMMA GuardedDevice ==
  ASSUME TypesOK, Guarded, DeviceExecutes
  PROVE  Guarded'
  <1>n. PICK n : n = Len(toDevice)
    OBVIOUS
  <1>1. LineOK /\ UNCHANGED <<stage, part, doubt>>
    BY DEF TypesOK, DeviceExecutes, request
  <1>2. toDevice \in Seq(Frame) /\ toDevice # <<>> /\ toDevice' = Tail(toDevice)
    BY <1>1, HeadTypes DEF LineOK
  <1>3. /\ DOMAIN toDevice = 1..n /\ n \in Nat
        /\ Len(toDevice') = n - 1 /\ DOMAIN toDevice' = 1..n - 1
        /\ \A i \in DOMAIN toDevice' :
              i + 1 \in DOMAIN toDevice /\ toDevice'[i] = toDevice[i + 1]
        /\ 1 \in DOMAIN toDevice /\ toDevice[1] = Head(toDevice)
    BY <1>2, <1>n, Shifting
  <1>4. SwitchOn(Head(toDevice).body) \/ main' = main \/ main' = "off"
    <2>1. Head(toDevice).body \in Sendable
      BY <1>1, HeadTypes
    <2>2. Head(toDevice).body.kind = "power"
              => Head(toDevice).body.value \in {"on", "off"}
      BY <2>1, FrameKinds
    <2>3. CASE Head(toDevice).body.kind = "power"
      BY <2>2, <2>3 DEF DeviceExecutes, SwitchOn
    <2>4. CASE Head(toDevice).body.kind # "power"
      BY <2>4 DEF DeviceExecutes
    <2> QED BY <2>3, <2>4
  <1>5. \A i \in Nat : i >= 1 /\ OffUntil(i) => OffUntil(i - 1)'
    <2> SUFFICES ASSUME NEW i \in Nat, i >= 1, OffUntil(i)
                 PROVE  OffUntil(i - 1)'
      OBVIOUS
    <2>1. main' # "on"
      BY <1>3, <1>4 DEF OffUntil
    <2>2. \A j \in DOMAIN toDevice' : j <= i - 1 => ~SwitchOn(toDevice'[j].body)
      BY <1>3 DEF OffUntil
    <2> QED BY <2>1, <2>2 DEF OffUntil
  <1>6. \A i \in DOMAIN toDevice' :
            toDevice'[i].body.kind \in Programming /\ toDevice'[i].sure =>
                OffUntil(i)'
    <2> SUFFICES ASSUME NEW i \in DOMAIN toDevice',
                        toDevice'[i].body.kind \in Programming, toDevice'[i].sure
                 PROVE  OffUntil(i)'
      OBVIOUS
    <2>1. OffUntil(i + 1)
      BY <1>3 DEF Guarded
    <2>2. i + 1 \in Nat /\ i + 1 >= 1 /\ (i + 1) - 1 = i
      BY <1>3
    <2> QED BY <1>5, <2>1, <2>2
  <1>7. stage' = "send" /\ part'.kind \in Programming /\ ~doubt' =>
            OffUntil(Len(toDevice))'
    <2> SUFFICES ASSUME stage = "send", part.kind \in Programming, ~doubt
                 PROVE  OffUntil(Len(toDevice))'
      BY <1>1
    <2>1. OffUntil(n)
      BY <1>n DEF Guarded
    <2>2. n \in Nat /\ n >= 1 /\ Len(toDevice') = n - 1
      BY <1>3
    <2>3. OffUntil(n - 1)'
      BY <1>5, <2>1, <2>2
    <2> QED BY <2>2, <2>3 DEF OffUntil
  <1> QED BY <1>6, <1>7 DEF Guarded

(* Frames of the connection and of the emergency stop are harmless. *)
LEMMA HarmlessFrames ==
  ASSUME TypesOK
  PROVE  /\ Greeting \in Seq(Frame)
         /\ \A k \in DOMAIN Greeting :
                /\ Greeting[k].body.kind \notin Programming
                /\ ~SwitchOn(Greeting[k].body)
         /\ \A kind \in {"emergency", "status"} :
                /\ <<Framed(Plain(kind))>> \in Seq(Frame)
                /\ Append(toDevice, Framed(Plain(kind)))
                       = toDevice \o <<Framed(Plain(kind))>>
                /\ \A k \in DOMAIN <<Framed(Plain(kind))>> :
                       /\ <<Framed(Plain(kind))>>[k].body.kind \notin Programming
                       /\ ~SwitchOn(<<Framed(Plain(kind))>>[k].body)
  <1>1. doubt \in BOOLEAN /\ toDevice \in Seq(Frame)
    BY DEF TypesOK, BeliefOK, LineOK
  <1>2. \A kind \in {"emergency", "status", "tracks"} :
            /\ Framed(Plain(kind)) \in Frame
            /\ Framed(Plain(kind)).body.kind \notin Programming
            /\ ~SwitchOn(Framed(Plain(kind)).body)
    <2>1. \A kind \in {"emergency", "status", "tracks"} : Framed(Plain(kind)) \in Frame
      BY <1>1, PlainTypes, FramedTypes
    <2> QED BY <2>1 DEF Framed, Plain, Told, SwitchOn, Programming
  <1>3. /\ Greeting \in Seq(Frame) /\ DOMAIN Greeting = {1, 2}
        /\ Greeting[1] = Framed(Plain("status"))
        /\ Greeting[2] = Framed(Plain("tracks"))
    BY <1>2 DEF Greeting
  <1>4. \A f \in Frame :
            /\ <<f>> \in Seq(Frame) /\ Append(toDevice, f) = toDevice \o <<f>>
            /\ DOMAIN <<f>> = {1} /\ <<f>>[1] = f
    BY <1>1
  <1> QED BY <1>2, <1>3, <1>4

LEMMA StepGuarded ==
  ASSUME TypesOK, OffIsOld, Guarded, [Next]_vars
  PROVE  Guarded'
  <1>1. CASE \/ AlreadyOpen \/ Handshake \/ Disconnect \/ Begin \/ Found
             \/ TimesOut \/ NoteFunction \/ ClearSpeeds \/ ReadReport
             \/ ReaderFails \/ Trip \/ Noise \/ UNCHANGED vars
    <2>1. toDevice' = toDevice /\ main' \in {main, "off"}
      BY <1>1
      DEF AlreadyOpen, Handshake, Disconnect, Begin, Found, TimesOut,
          NoteFunction, ClearSpeeds, ReadReport, ReaderFails, Trip, Noise, vars,
          device, line
    <2>2. stage' = "send" => stage = "send" /\ part' = part /\ doubt' = doubt
      BY <1>1
      DEF AlreadyOpen, Handshake, Disconnect, Begin, Found, TimesOut,
          NoteFunction, ClearSpeeds, ReadReport, ReaderFails, Trip, Noise, vars,
          request, Prepare, Conclude, Return
    <2> QED BY <2>1, <2>2, GuardedQuiet
  <1>2. CASE Send \/ SendFails
    <2>1. CASE toDevice' = toDevice
      BY <1>2, <2>1, GuardedQuiet DEF Send, SendFails, Return, device
    <2> QED BY <1>2, <2>1, GuardedSend
  <1>3. CASE Open
    <2>1. stage' # "send" /\ main' \in {main, "off"}
      BY <1>3 DEF Open, device
    <2>2. CASE toDevice' = toDevice \o Greeting /\ main' = main
      BY <2>1, <2>2, HarmlessFrames, GuardedAdded
    <2>3. CASE toDevice' = Greeting
      BY <2>1, <2>3, HarmlessFrames DEF Guarded
    <2> QED BY <1>3, <2>2, <2>3 DEF Open, device
  <1>4. CASE OpenFails
    <2>1. /\ main' = main
          /\ toDevice' = toDevice \/ toDevice' = Append(toDevice, Framed(Plain("status")))
          /\ stage' = stage /\ part' = part /\ doubt' = doubt
      BY <1>4 DEF OpenFails, device
    <2> QED BY <2>1, HarmlessFrames, GuardedQuiet, GuardedAdded
  <1>5. CASE EmergencyStop
    <2>1. /\ main' = main
          /\ toDevice' = toDevice \/ toDevice' = Append(toDevice, Framed(Plain("emergency")))
          /\ stage' = stage /\ part' = part /\ doubt' = doubt
      BY <1>5 DEF EmergencyStop, device, request
    <2> QED BY <2>1, HarmlessFrames, GuardedQuiet, GuardedAdded
  <1> QED BY <1>1, <1>2, <1>3, <1>4, <1>5, GuardedCheck, GuardedDevice DEF Next

LEMMA StepMain == MainInvariant /\ [Next]_vars => MainInvariant'
  BY StepTypes, StepOffIsOld, StepGuarded DEF MainInvariant

(* No frame for the programming track is executed while MAIN is on, unless  *)
(* the driver looked at the power while a request to switch it on was still *)
(* to be executed or reported, or a report had been lost.                   *)
THEOREM StationMainOff == Spec => []MainOff
  <1>1. Spec => []MainInvariant
    BY InitMain, StepMain, PTL DEF Spec
  <1> QED BY <1>1, GuardedIsMainOff, PTL

----------------------------------------------------------------------------
(* Speeds. *)

Emergency(f) == f.body.kind = "emergency"
Stands(r, a) == r.kind = "locomotive" /\ r.item = a /\ r.value = "standing"
Moves(r, a) == r.kind = "locomotive" /\ r.item = a /\ r.value # "standing"

(* An emergency stop is still to be executed. *)
StopAhead == \E i \in DOMAIN toDevice : Emergency(toDevice[i])

(* While a locomotive moves, that it stands, shown or still to be read, is  *)
(* followed by a report that it moves, or all will stop.                    *)
StandingIsOld(a) ==
    /\ ~missed /\ a \notin guessed /\ shown[a] = "standing" =>
          StopAhead \/ \E i \in DOMAIN fromDevice : Moves(fromDevice[i], a)
    /\ \A i \in DOMAIN fromDevice : Stands(fromDevice[i], a) =>
          \/ StopAhead
          \/ \E j \in DOMAIN fromDevice : j > i /\ Moves(fromDevice[j], a)

(* While an emergency stop holds the write lock, nothing is sent after it.  *)
NothingAfter ==
    \/ \E i \in DOMAIN toDevice :
          /\ Emergency(toDevice[i])
          /\ \A j \in DOMAIN toDevice : j > i => toDevice[j].body.kind # "throttle"
    \/ /\ \A a \in Loco : speed[a] = "standing"
       /\ \A j \in DOMAIN toDevice : toDevice[j].body.kind # "throttle"

SpeedInvariant ==
    /\ TypesOK
    /\ stopping => NothingAfter
    /\ \A a \in Loco : speed[a] # "standing" => StandingIsOld(a)

LEMMA SpeedIsShown == SpeedInvariant /\ MainInvariant => ShownSafe
  <1> SUFFICES ASSUME SpeedInvariant, MainInvariant, conn = "ready",
                      toDevice = <<>>, fromDevice = <<>>, ~missed
               PROVE  /\ power = "off" => main = "off"
                      /\ \A a \in Loco \ guessed :
                            shown[a] = "standing" => speed[a] = "standing"
    BY DEF ShownSafe
  <1>1. power = "off" => main = "off"
    BY DEF MainInvariant, OffIsOld, TypesOK, DeviceOK
  <1>2. ~StopAhead
    BY DEF StopAhead
  <1>3. \A a \in Loco \ guessed : shown[a] = "standing" => speed[a] = "standing"
    BY <1>2 DEF SpeedInvariant, StandingIsOld
  <1> QED BY <1>1, <1>3

LEMMA InitSpeed == Init => SpeedInvariant
  BY InitTypes DEF Init, SpeedInvariant

(* How the frames under way change. *)
LEMMA FramesGrow ==
  ASSUME TypesOK,
         \/ AlreadyOpen \/ OpenFails \/ Handshake \/ Disconnect \/ Begin
         \/ Check \/ Send \/ SendFails \/ Found \/ TimesOut \/ NoteFunction
         \/ EmergencyStop \/ ClearSpeeds \/ ReadReport \/ ReaderFails \/ Trip
         \/ Noise \/ UNCHANGED vars
  PROVE  /\ speed' = speed
         /\ StopAhead => StopAhead'
         /\ ~stopping \/ EmergencyStop \/ toDevice' = toDevice
  <1>1. /\ speed' = speed
        /\ ~stopping \/ EmergencyStop \/ toDevice' = toDevice
        /\ \/ toDevice' = toDevice
           \/ toDevice' = Append(toDevice, Framed(part))
           \/ toDevice' = Append(toDevice, Framed(Plain("status")))
           \/ toDevice' = Append(toDevice, Framed(Plain("emergency")))
    <2>1. CASE \/ AlreadyOpen \/ Handshake \/ Disconnect \/ Begin \/ Check
               \/ Found \/ TimesOut \/ NoteFunction \/ ClearSpeeds \/ ReadReport
               \/ ReaderFails \/ Trip \/ Noise \/ UNCHANGED vars
      BY <2>1
      DEF AlreadyOpen, Handshake, Disconnect, Begin, Check, Found, TimesOut,
          NoteFunction, ClearSpeeds, ReadReport, ReaderFails, Trip, Noise, vars,
          device, line
    <2>2. CASE OpenFails \/ Send \/ SendFails \/ EmergencyStop
      BY <2>2 DEF OpenFails, Send, SendFails, EmergencyStop, device
    <2> QED BY <2>1, <2>2
  <1>2. toDevice \in Seq(Frame)
    BY DEF TypesOK, LineOK
  <1>3. \A f : /\ \A i \in DOMAIN toDevice :
                     /\ i \in DOMAIN Append(toDevice, f)
                     /\ Append(toDevice, f)[i] = toDevice[i]
    BY <1>2
  <1>4. \A i \in DOMAIN toDevice : i \in DOMAIN toDevice' /\ toDevice'[i] = toDevice[i]
    BY <1>1, <1>3
  <1> QED BY <1>1, <1>4 DEF StopAhead

LEMMA StepNothingAfter ==
  ASSUME TypesOK, stopping => NothingAfter, [Next]_vars, stopping'
  PROVE  NothingAfter'
  <1>1. toDevice \in Seq(Frame) /\ LineOK /\ speed \in [Loco -> Pace]
    BY DEF TypesOK, LineOK, DeviceOK
  <1>2. CASE EmergencyStop
    <2>1. CASE UNCHANGED <<toDevice, stopping>>
      BY <1>2, <2>1 DEF EmergencyStop, NothingAfter, device
    <2>2. CASE toDevice' = Append(toDevice, Framed(Plain("emergency")))
      <3>1. PICK n : n = Len(toDevice)
        OBVIOUS
      <3>2. /\ n \in Nat /\ DOMAIN toDevice' = 1..n + 1
            /\ toDevice'[n + 1] = Framed(Plain("emergency"))
        BY <1>1, <2>2, <3>1
      <3>3. Emergency(toDevice'[n + 1])
        BY <3>2 DEF Emergency, Framed, Plain, Told
      <3>4. n + 1 \in DOMAIN toDevice' /\ \A j \in DOMAIN toDevice' : ~(j > n + 1)
        BY <3>2
      <3> QED BY <3>3, <3>4 DEF NothingAfter, Emergency
    <2> QED BY <1>2, <2>1, <2>2 DEF EmergencyStop
  <1>3. CASE DeviceExecutes
    <2>1. stopping /\ NothingAfter
      BY <1>3 DEF DeviceExecutes, late
    <2>2. PICK n : n = Len(toDevice)
      OBVIOUS
    <2>3. toDevice # <<>> /\ toDevice' = Tail(toDevice)
      BY <1>1, <1>3, HeadTypes
    <2>4. /\ DOMAIN toDevice = 1..n /\ n \in Nat /\ DOMAIN toDevice' = 1..n - 1
          /\ \A i \in DOMAIN toDevice' :
                i + 1 \in DOMAIN toDevice /\ toDevice'[i] = toDevice[i + 1]
          /\ 1 \in DOMAIN toDevice /\ toDevice[1] = Head(toDevice)
      BY <1>1, <2>2, <2>3, Shifting
    <2>5. CASE \A a \in Loco : speed'[a] = "standing"
      <3>1. CASE \A j \in DOMAIN toDevice' : toDevice'[j].body.kind # "throttle"
        BY <2>5, <3>1 DEF NothingAfter
      <3>2. CASE ~\A j \in DOMAIN toDevice' : toDevice'[j].body.kind # "throttle"
        <4>1. PICK i \in DOMAIN toDevice :
                  /\ Emergency(toDevice[i])
                  /\ \A j \in DOMAIN toDevice : j > i => toDevice[j].body.kind # "throttle"
          BY <2>1, <2>4, <3>2 DEF NothingAfter
        <4>2. i # 1
          BY <2>4, <3>2, <4>1
        <4>3. i - 1 \in DOMAIN toDevice' /\ toDevice'[i - 1] = toDevice[i]
          BY <2>4, <4>2
        <4>4. \A j \in DOMAIN toDevice' : j > i - 1 => toDevice'[j].body.kind # "throttle"
          BY <2>4, <4>1
        <4> QED BY <4>1, <4>3, <4>4 DEF NothingAfter, Emergency
      <3> QED BY <3>1, <3>2
    <2>6. CASE ~\A a \in Loco : speed'[a] = "standing"
      <3>1. ~Emergency(toDevice[1])
        BY <1>3, <2>4, <2>6 DEF DeviceExecutes, Emergency
      <3>2. toDevice[1].body.kind # "throttle" => speed' = speed
        BY <1>3, <2>4, <3>1 DEF DeviceExecutes, Emergency
      <3>3. PICK i \in DOMAIN toDevice :
                /\ Emergency(toDevice[i])
                /\ \A j \in DOMAIN toDevice : j > i => toDevice[j].body.kind # "throttle"
        BY <2>1, <2>4, <2>6, <3>2 DEF NothingAfter
      <3>4. i - 1 \in DOMAIN toDevice' /\ toDevice'[i - 1] = toDevice[i]
        BY <2>4, <3>1, <3>3
      <3>5. \A j \in DOMAIN toDevice' : j > i - 1 => toDevice'[j].body.kind # "throttle"
        BY <2>4, <3>3
      <3> QED BY <3>3, <3>4, <3>5 DEF NothingAfter, Emergency
    <2> QED BY <2>5, <2>6
  <1>4. CASE \/ AlreadyOpen \/ OpenFails \/ Handshake \/ Disconnect \/ Begin
             \/ Check \/ Send \/ SendFails \/ Found \/ TimesOut \/ NoteFunction
             \/ ClearSpeeds \/ ReadReport \/ ReaderFails \/ Trip \/ Noise
             \/ UNCHANGED vars
    <2>1. stopping
      <3>1. CASE \/ AlreadyOpen \/ OpenFails \/ Handshake \/ Disconnect \/ Begin
                 \/ Check \/ Send \/ SendFails
        BY <3>1
        DEF AlreadyOpen, OpenFails, Handshake, Disconnect, Begin, Check, Send,
            SendFails, late
      <3>2. CASE \/ Found \/ TimesOut \/ NoteFunction \/ ClearSpeeds
                 \/ ReadReport \/ ReaderFails \/ Trip \/ Noise
                 \/ UNCHANGED vars
        BY <3>2
        DEF Found, TimesOut, NoteFunction, ClearSpeeds, ReadReport, ReaderFails,
            Trip, Noise, vars, late
      <3> QED BY <1>4, <3>1, <3>2
    <2>2. CASE EmergencyStop
      BY <1>2, <2>2
    <2>3. CASE ~EmergencyStop
      <3>1. speed' = speed /\ toDevice' = toDevice
        BY <1>4, <2>1, <2>3, FramesGrow
      <3> QED BY <2>1, <3>1 DEF NothingAfter
    <2> QED BY <2>2, <2>3
  <1>5. CASE Open
    BY <1>5 DEF Open, late
  <1> QED BY <1>2, <1>3, <1>4, <1>5 DEF Next

(* Steps after which what was shown and reported of a locomotive is as it   *)
(* was, or nothing is shown.                                                *)
LEMMA QuietStanding ==
  ASSUME NEW a, StandingIsOld(a), StopAhead => StopAhead',
         fromDevice' \in {fromDevice, <<>>},
         \/ shown'[a] # "standing" \/ a \in guessed'
         \/ /\ shown'[a] = shown[a] /\ guessed' = guessed /\ missed' = missed
            /\ fromDevice' = fromDevice
  PROVE  StandingIsOld(a)'
  <1>1. \A i \in DOMAIN fromDevice' : Stands(fromDevice'[i], a) =>
            \/ StopAhead'
            \/ \E j \in DOMAIN fromDevice' : j > i /\ Moves(fromDevice'[j], a)
    BY DEF StandingIsOld
  <1>2. ~missed' /\ a \notin guessed' /\ shown'[a] = "standing" =>
            StopAhead' \/ \E i \in DOMAIN fromDevice' : Moves(fromDevice'[i], a)
    BY DEF StandingIsOld
  <1> QED BY <1>1, <1>2 DEF StandingIsOld

LEMMA ReadStanding ==
  ASSUME TypesOK, NEW a \in Loco, StandingIsOld(a), ReadReport \/ Noise
  PROVE  StandingIsOld(a)'
  <1>1. fromDevice \in Seq(Report) /\ fromDevice # <<>>
        /\ fromDevice' = Tail(fromDevice)
    BY DEF TypesOK, LineOK, ReadReport, Noise
  <1>2. PICK n : n = Len(fromDevice)
    OBVIOUS
  <1>3. /\ DOMAIN fromDevice = 1..n /\ n \in Nat /\ DOMAIN fromDevice' = 1..n - 1
        /\ \A i \in DOMAIN fromDevice' :
              i + 1 \in DOMAIN fromDevice /\ fromDevice'[i] = fromDevice[i + 1]
        /\ 1 \in DOMAIN fromDevice /\ fromDevice[1] = Head(fromDevice)
        /\ \A i \in DOMAIN fromDevice : i # 1 =>
              i - 1 \in DOMAIN fromDevice' /\ fromDevice'[i - 1] = fromDevice[i]
    BY <1>1, <1>2, Shifting
  <1>4. StopAhead => StopAhead'
    BY FramesGrow
  <1>5. \A i \in DOMAIN fromDevice' : Stands(fromDevice'[i], a) =>
            \/ StopAhead'
            \/ \E j \in DOMAIN fromDevice' : j > i /\ Moves(fromDevice'[j], a)
    <2> SUFFICES ASSUME NEW i \in DOMAIN fromDevice', Stands(fromDevice'[i], a),
                        ~StopAhead'
                 PROVE  \E j \in DOMAIN fromDevice' : j > i /\ Moves(fromDevice'[j], a)
      OBVIOUS
    <2>1. i + 1 \in DOMAIN fromDevice /\ Stands(fromDevice[i + 1], a)
      BY <1>3
    <2>2. PICK j \in DOMAIN fromDevice : j > i + 1 /\ Moves(fromDevice[j], a)
      BY <1>4, <2>1 DEF StandingIsOld
    <2>3. j - 1 \in DOMAIN fromDevice' /\ j - 1 > i /\ fromDevice'[j - 1] = fromDevice[j]
      BY <1>3, <2>2
    <2> QED BY <2>2, <2>3
  <1>6. ~missed' /\ a \notin guessed' /\ shown'[a] = "standing" =>
            StopAhead' \/ \E i \in DOMAIN fromDevice' : Moves(fromDevice'[i], a)
    <2> SUFFICES ASSUME ~missed', a \notin guessed', shown'[a] = "standing",
                        ~StopAhead'
                 PROVE  \E i \in DOMAIN fromDevice' : Moves(fromDevice'[i], a)
      OBVIOUS
    <2> DEFINE r == fromDevice[1]
    <2>1. ReadReport /\ ~missed
      BY DEF Noise, ReadReport
    <2>2. r \in Report /\ Learn(r)
      BY <1>1, <1>3, <2>1 DEF ReadReport
    <2>3. r.kind = "locomotive" => r.item \in Loco /\ r.value \in Pace
      BY <2>2, ReportKinds
    <2>4. shown \in [Loco -> Pace \cup {None}]
      BY DEF TypesOK, BeliefOK
    <2>5. PICK j \in DOMAIN fromDevice : j # 1 /\ Moves(fromDevice[j], a)
      <3>1. CASE r.kind = "locomotive" /\ r.item = a
        <4>1. Stands(r, a)
          BY <2>2, <2>3, <2>4, <3>1 DEF Learn, Stands
        <4>2. PICK j \in DOMAIN fromDevice : j > 1 /\ Moves(fromDevice[j], a)
          BY <1>3, <1>4, <4>1 DEF StandingIsOld
        <4> QED BY <1>3, <4>2
      <3>2. CASE ~(r.kind = "locomotive" /\ r.item = a)
        <4>1. shown[a] = "standing" /\ a \notin guessed
          BY <2>2, <2>3, <2>4, <3>2 DEF Learn
        <4>2. PICK j \in DOMAIN fromDevice : Moves(fromDevice[j], a)
          BY <1>4, <2>1, <4>1 DEF StandingIsOld
        <4>3. j # 1
          BY <3>2, <4>2 DEF Moves
        <4> QED BY <4>2, <4>3
      <3> QED BY <3>1, <3>2
    <2> QED BY <1>3, <2>5
  <1> QED BY <1>5, <1>6 DEF StandingIsOld

LEMMA DeviceStanding ==
  ASSUME TypesOK, NEW a \in Loco, speed[a] # "standing" => StandingIsOld(a),
         DeviceExecutes, speed'[a] # "standing"
  PROVE  StandingIsOld(a)'
  <1>1. PICK rs : Tells(rs) /\ fromDevice' = fromDevice \o rs
    BY DeviceReports
  <1>2. PICK n : n = Len(fromDevice)
    OBVIOUS
  <1>3. fromDevice \in Seq(Report) /\ rs \in Seq(Report)
    BY <1>1 DEF TypesOK, LineOK, Tells
  <1>4. /\ DOMAIN fromDevice = 1..n /\ DOMAIN rs = 1..Len(rs)
        /\ n \in Nat /\ Len(rs) \in Nat
        /\ DOMAIN fromDevice' = 1..n + Len(rs)
        /\ \A i \in DOMAIN fromDevice : fromDevice'[i] = fromDevice[i]
        /\ \A i \in DOMAIN rs : fromDevice'[n + i] = rs[i]
        /\ \A i \in DOMAIN fromDevice' : i \in DOMAIN fromDevice \/ i - n \in DOMAIN rs
    BY <1>1, <1>2, <1>3, Joining
  <1>5. \A i \in DOMAIN fromDevice' :
            \/ i \in DOMAIN fromDevice /\ fromDevice'[i] = fromDevice[i]
            \/ i - n \in DOMAIN rs /\ fromDevice'[i] = rs[i - n]
    <2> TAKE i \in DOMAIN fromDevice'
    <2>1. i - n \in DOMAIN rs => fromDevice'[i] = rs[i - n]
      BY <1>4
    <2> QED BY <1>4, <2>1
  <1>6. \A l \in DOMAIN rs : ~Stands(rs[l], a)
    BY <1>1 DEF Tells, Says, Stands
  <1>7. \A i \in DOMAIN fromDevice' : Stands(fromDevice'[i], a) =>
            i \in DOMAIN fromDevice /\ Stands(fromDevice[i], a)
    BY <1>5, <1>6
  <1>8. \A i \in DOMAIN fromDevice :
            i \in DOMAIN fromDevice' /\ fromDevice'[i] = fromDevice[i]
    BY <1>4
  <1>9. UNCHANGED <<shown, guessed, missed>>
    BY DEF DeviceExecutes, belief
  <1>10. CASE speed'[a] # speed[a]
    <2>1. PICK k \in DOMAIN rs : rs[k].kind = "locomotive" /\ rs[k].item = a
      BY <1>1, <1>10 DEF Tells
    <2>2. Moves(rs[k], a)
      BY <1>1, <2>1 DEF Tells, Says, Moves
    <2>3. n + k \in DOMAIN fromDevice' /\ Moves(fromDevice'[n + k], a)
      BY <1>4, <2>1, <2>2
    <2>4. \A i \in DOMAIN fromDevice' : Stands(fromDevice'[i], a) => n + k > i
      BY <1>4, <1>7, <2>1
    <2> QED BY <2>3, <2>4 DEF StandingIsOld
  <1>11. CASE speed'[a] = speed[a]
    <2>1. StandingIsOld(a)
      BY <1>11
    <2>2. StopAhead => StopAhead'
      <3> SUFFICES ASSUME NEW i \in DOMAIN toDevice, Emergency(toDevice[i])
                   PROVE  StopAhead'
        BY DEF StopAhead
      <3>1. LineOK /\ toDevice \in Seq(Frame)
        BY DEF TypesOK, LineOK
      <3>2. toDevice # <<>> /\ toDevice' = Tail(toDevice)
        BY <3>1, HeadTypes
      <3>3. /\ toDevice[1] = Head(toDevice)
            /\ i # 1 => i - 1 \in DOMAIN toDevice' /\ toDevice'[i - 1] = toDevice[i]
        BY <3>1, <3>2, Shifting
      <3>4. Head(toDevice).body.kind # "emergency"
        BY DEF DeviceExecutes
      <3> QED BY <3>3, <3>4 DEF StopAhead, Emergency
    <2> QED BY <1>7, <1>8, <1>9, <2>1, <2>2 DEF StandingIsOld
  <1> QED BY <1>10, <1>11

LEMMA StepStanding ==
  ASSUME SpeedInvariant, [Next]_vars, NEW a \in Loco, speed'[a] # "standing"
  PROVE  StandingIsOld(a)'
  <1>1. /\ TypesOK /\ shown \in [Loco -> Pace \cup {None}]
        /\ stopping => NothingAfter
        /\ speed[a] # "standing" => StandingIsOld(a)
    BY DEF SpeedInvariant, TypesOK, BeliefOK
  <1>2. CASE \/ AlreadyOpen \/ Handshake \/ Begin \/ Check \/ Send \/ SendFails
             \/ Found \/ TimesOut \/ EmergencyStop \/ ReaderFails \/ UNCHANGED vars
    <2>1. UNCHANGED <<fromDevice, shown, guessed, missed>>
      BY <1>2
      DEF AlreadyOpen, Handshake, Begin, Check, Send, SendFails, Found, TimesOut,
          EmergencyStop, ReaderFails, vars, belief, line
    <2>2. speed' = speed /\ (StopAhead => StopAhead')
      BY <1>1, <1>2, FramesGrow
    <2> QED BY <1>1, <2>1, <2>2, QuietStanding
  <1>3. CASE OpenFails \/ Disconnect
    <2>1. fromDevice' = fromDevice /\ shown'[a] # "standing"
      BY <1>3, NoneAssumption DEF OpenFails, Disconnect, line, Pace
    <2>2. speed' = speed /\ (StopAhead => StopAhead')
      BY <1>1, <1>3, FramesGrow
    <2> QED BY <1>1, <2>1, <2>2, QuietStanding
  <1>4. CASE Open
    <2>1. /\ fromDevice' \in {fromDevice, <<>>} /\ shown'[a] # "standing"
          /\ toDevice' = toDevice \o Greeting /\ speed' = speed
      BY <1>4, NoneAssumption DEF Open, Pace, device
    <2>2. toDevice \in Seq(Frame) /\ Greeting \in Seq(Frame)
      BY <1>1, HarmlessFrames DEF TypesOK, LineOK
    <2>3. \A i \in DOMAIN toDevice : i \in DOMAIN toDevice' /\ toDevice'[i] = toDevice[i]
      BY <2>1, <2>2, Joining
    <2>4. StopAhead => StopAhead'
      BY <2>3 DEF StopAhead
    <2> QED BY <1>1, <2>1, <2>4, QuietStanding
  <1>5. CASE NoteFunction
    <2>1. /\ fromDevice' = fromDevice /\ missed' = missed
          /\ shown'[a] = shown[a] \/ a \in guessed'
          /\ guessed \subseteq guessed'
      BY <1>1, <1>5 DEF NoteFunction, line
    <2>2. speed' = speed /\ (StopAhead => StopAhead')
      BY <1>1, <1>5, FramesGrow
    <2> QED BY <1>1, <2>1, <2>2 DEF StandingIsOld
  <1>6. CASE ClearSpeeds
    <2>1. stopping /\ fromDevice' = fromDevice /\ toDevice' = toDevice /\ speed' = speed
      BY <1>6 DEF ClearSpeeds, line, device
    <2>2. StopAhead
      BY <1>1, <2>1 DEF NothingAfter, StopAhead
    <2> QED BY <1>1, <2>1, <2>2 DEF StandingIsOld, StopAhead
  <1>7. CASE Trip
    <2>1. /\ UNCHANGED <<shown, guessed, missed, toDevice, speed>>
          /\ fromDevice' = Append(fromDevice, Told("power", None, "off", 0))
      BY <1>7 DEF Trip, belief
    <2>2. PICK n : n = Len(fromDevice)
      OBVIOUS
    <2>3. fromDevice \in Seq(Report)
      BY <1>1 DEF TypesOK, LineOK
    <2>4. /\ DOMAIN fromDevice = 1..n /\ n \in Nat /\ DOMAIN fromDevice' = 1..n + 1
          /\ \A i \in DOMAIN fromDevice : fromDevice'[i] = fromDevice[i]
          /\ fromDevice'[n + 1] = Told("power", None, "off", 0)
      BY <2>1, <2>2, <2>3
    <2>5. ~Stands(fromDevice'[n + 1], a)
      BY <2>4 DEF Stands, Told
    <2>6. \A i \in DOMAIN fromDevice' : Stands(fromDevice'[i], a) =>
              i \in DOMAIN fromDevice /\ Stands(fromDevice[i], a)
      BY <2>4, <2>5
    <2>7. \A i \in DOMAIN fromDevice :
              i \in DOMAIN fromDevice' /\ fromDevice'[i] = fromDevice[i]
      BY <2>4
    <2> QED BY <1>1, <2>1, <2>6, <2>7 DEF StandingIsOld, StopAhead
  <1>8. CASE ReadReport \/ Noise
    <2>1. speed' = speed
      BY <1>1, <1>8, FramesGrow
    <2> QED BY <1>1, <1>8, <2>1, ReadStanding
  <1>9. CASE DeviceExecutes
    BY <1>1, <1>9, DeviceStanding
  <1> QED BY <1>2, <1>3, <1>4, <1>5, <1>6, <1>7, <1>8, <1>9 DEF Next

LEMMA StepSpeed == SpeedInvariant /\ [Next]_vars => SpeedInvariant'
  <1> SUFFICES ASSUME SpeedInvariant, [Next]_vars PROVE SpeedInvariant'
    OBVIOUS
  <1>1. TypesOK'
    BY StepTypes DEF SpeedInvariant
  <1>2. stopping' => NothingAfter'
    BY StepNothingAfter DEF SpeedInvariant
  <1>3. \A a \in Loco : speed'[a] # "standing" => StandingIsOld(a)'
    BY StepStanding
  <1> QED BY <1>1, <1>2, <1>3 DEF SpeedInvariant

(* Once all frames are executed and all reports are read, MAIN is off where *)
(* it is shown off and a locomotive stands where it is shown standing.      *)
THEOREM StationShownSafe == Spec => []ShownSafe
  <1>1. Spec => []MainInvariant
    BY InitMain, StepMain, PTL DEF Spec
  <1>2. Spec => []SpeedInvariant
    BY InitSpeed, StepSpeed, PTL DEF Spec
  <1> QED BY <1>1, <1>2, SpeedIsShown, PTL

----------------------------------------------------------------------------
(* What was read is true. *)

Busy == stage \in {"check", "send", "wait"}

(* What is under way about the request's item; a CV that is read is told    *)
(* from earlier requests by its callback.                                   *)
Concerns(talk) ==
    /\ talk.item = part.item
    /\ part.kind = "read" /\ part.item \in Cv => talk.callback = part.callback
Programs(f) == f.body.kind \in Programming
Asks(f) == Programs(f) /\ Concerns(f.body)
Replies(r) == r.kind = "value" /\ Concerns(r)
NothingAsked == \A i \in DOMAIN toDevice : ~Programs(toDevice[i])

(* An answer to a read says what the decoder holds, and nothing is left to  *)
(* change it.                                                               *)
TrueReply(r) ==
    stage = "wait" /\ NothingAsked /\ r.value \in {None, decoder[part.item]}

(* The requests followed: those of CVs if b, and those of the address that  *)
(* began with no answer about it outstanding.                               *)
Followed(b) == IF part.item \in Cv THEN b ELSE clean

ReadTrue(b) ==
    Busy /\ part.kind = "read" /\ Followed(b) =>
        /\ \A i \in DOMAIN toDevice : Asks(toDevice[i]) =>
              /\ stage = "wait" /\ toDevice[i].body.kind = "read"
              /\ \A j \in DOMAIN toDevice : j > i => ~Programs(toDevice[j])
        /\ \A i \in DOMAIN fromDevice :
              Replies(fromDevice[i]) => TrueReply(fromDevice[i])
        /\ \A i \in DOMAIN heard : Replies(heard[i]) => TrueReply(heard[i])

(* The address is written once, and its report is the only one.             *)
WriteAlone ==
    Busy /\ part.kind = "write" /\ part.item \notin Cv /\ clean =>
        /\ \A i \in DOMAIN toDevice : Asks(toDevice[i]) =>
              /\ stage = "wait"
              /\ \A j \in DOMAIN toDevice : Asks(toDevice[j]) => i = j
              /\ \A j \in DOMAIN fromDevice : ~Replies(fromDevice[j])
              /\ \A j \in DOMAIN heard : ~Replies(heard[j])
        /\ \A i \in DOMAIN fromDevice : Replies(fromDevice[i]) =>
              /\ stage = "wait"
              /\ \A j \in DOMAIN fromDevice : Replies(fromDevice[j]) => i = j
              /\ \A j \in DOMAIN heard : ~Replies(heard[j])
        /\ \A i \in DOMAIN heard : Replies(heard[i]) => stage = "wait"

(* What was confirmed is so, and nothing is left to change it.              *)
StaysTrue(b) ==
    (/\ Confirmed /\ outcome.op.item \in Item
     /\ IF outcome.op.item \in Cv THEN b ELSE outcome.clean)
    => NothingAsked /\ decoder[outcome.op.item] = outcome.value

Related == Busy => outcome = None /\ op # None /\ op.item = part.item

TruthInvariant(b) == ReadTrue(b) /\ WriteAlone /\ StaysTrue(b) /\ Related

(* No frame or report under way carries the number that is drawn next:      *)
(* fewer reads are unanswered than there are numbers.                       *)
NumberFree ==
    /\ \A i \in DOMAIN toDevice : toDevice[i].body.callback # NextCallback
    /\ \A i \in DOMAIN fromDevice : fromDevice[i].callback # NextCallback

LEMMA InitTruth == \A b \in BOOLEAN : Init => TruthInvariant(b)
  BY DEF Init, TruthInvariant, ReadTrue, WriteAlone, StaysTrue, Related, Busy,
         Confirmed

(* The operation ends without success. *)
LEMMA TruthEnds ==
  ASSUME ~Busy', ~Confirmed', NEW b \in BOOLEAN
  PROVE  TruthInvariant(b)'
  BY DEF TruthInvariant, ReadTrue, WriteAlone, StaysTrue, Related

(* A request begins of which nothing is under way. *)
LEMMA TruthBegins ==
  ASSUME NEW b \in BOOLEAN,
         outcome' = None, op' # None, op'.item = part'.item, heard' = <<>>,
         (\/ part'.kind = "read" /\ Followed(b)'
          \/ part'.kind = "write" /\ part'.item \notin Cv /\ clean') =>
             /\ \A i \in DOMAIN toDevice' : ~Asks(toDevice[i])'
             /\ \A i \in DOMAIN fromDevice' : ~Replies(fromDevice[i])'
  PROVE  TruthInvariant(b)'
  <1>1. ReadTrue(b)' /\ WriteAlone'
    BY DEF ReadTrue, WriteAlone, Programming
  <1>2. StaysTrue(b)' /\ Related'
    BY DEF StaysTrue, Related, Confirmed
  <1> QED BY <1>1, <1>2 DEF TruthInvariant

(* Steps that add nothing for the programming track and nothing about it.   *)
LEMMA TruthQuiet ==
  ASSUME NEW b \in BOOLEAN, TruthInvariant(b), decoder' = decoder,
         outcome' = outcome \/ ~Confirmed',
         Busy' => /\ Busy /\ part' = part /\ clean' = clean /\ heard' = heard
                  /\ op' = op /\ outcome' = outcome
                  /\ stage = "wait" => stage' = "wait",
         NEW m \in {0, 1},
         \A i \in DOMAIN toDevice' : Programs(toDevice[i])' =>
             /\ i \in Nat
             /\ i + m \in DOMAIN toDevice /\ toDevice'[i] = toDevice[i + m],
         NEW k \in {0, 1},
         \A i \in DOMAIN fromDevice' : fromDevice'[i].kind = "value" =>
             /\ i \in Nat
             /\ i + k \in DOMAIN fromDevice /\ fromDevice'[i] = fromDevice[i + k]
  PROVE  TruthInvariant(b)'
  <1>1. NothingAsked => NothingAsked'
    BY DEF NothingAsked, Programs
  <1>2. StaysTrue(b)'
    BY <1>1 DEF TruthInvariant, StaysTrue, Confirmed
  <1>3. Related'
    BY DEF TruthInvariant, Related
  <1>4. ASSUME Busy', Followed(b)' PROVE Followed(b)
    BY <1>4 DEF Followed
  <1>5. ASSUME Busy', NEW i \in DOMAIN toDevice', Asks(toDevice[i])'
        PROVE  /\ i \in Nat /\ i + m \in DOMAIN toDevice
               /\ toDevice'[i] = toDevice[i + m] /\ Asks(toDevice[i + m])
    BY <1>5 DEF Asks, Programs, Concerns
  <1>6. ASSUME Busy', NEW i \in DOMAIN fromDevice', Replies(fromDevice[i])'
        PROVE  /\ i \in Nat /\ i + k \in DOMAIN fromDevice
               /\ fromDevice'[i] = fromDevice[i + k] /\ Replies(fromDevice[i + k])
    BY <1>6 DEF Replies, Concerns
  <1>7. ASSUME Busy', NEW i \in DOMAIN heard', Replies(heard[i])'
        PROVE  i \in DOMAIN heard /\ heard'[i] = heard[i] /\ Replies(heard[i])
    BY <1>7 DEF Replies, Concerns
  <1>8. ReadTrue(b)'
    <2> SUFFICES ASSUME Busy', part'.kind = "read", Followed(b)'
                 PROVE  ReadTrue(b)'
      BY DEF ReadTrue
    <2>1. /\ Busy /\ part.kind = "read" /\ Followed(b) /\ part' = part
          /\ stage = "wait" => stage' = "wait"
      BY <1>4
    <2>2. \A i \in DOMAIN toDevice' : Asks(toDevice[i])' =>
              /\ stage' = "wait" /\ toDevice'[i].body.kind = "read"
              /\ \A j \in DOMAIN toDevice' : j > i => ~Programs(toDevice[j])'
      <3> SUFFICES ASSUME NEW i \in DOMAIN toDevice', Asks(toDevice[i])'
                   PROVE  /\ stage' = "wait" /\ toDevice'[i].body.kind = "read"
                          /\ \A j \in DOMAIN toDevice' : j > i => ~Programs(toDevice[j])'
        OBVIOUS
      <3>1. /\ i \in Nat /\ i + m \in DOMAIN toDevice
            /\ toDevice'[i] = toDevice[i + m] /\ Asks(toDevice[i + m])
        BY <1>5
      <3>2. /\ stage = "wait" /\ toDevice[i + m].body.kind = "read"
            /\ \A j \in DOMAIN toDevice : j > i + m => ~Programs(toDevice[j])
        BY <2>1, <3>1 DEF TruthInvariant, ReadTrue
      <3>3. ASSUME NEW j \in DOMAIN toDevice', j > i, Programs(toDevice[j])'
            PROVE  FALSE
        <4>1. /\ j \in Nat /\ j + m \in DOMAIN toDevice
              /\ Programs(toDevice[j + m])
          BY <3>3 DEF Programs
        <4>2. j + m > i + m
          BY <3>1, <3>3, <4>1
        <4> QED BY <3>2, <4>1, <4>2
      <3> QED BY <2>1, <3>1, <3>2, <3>3
    <2>3. \A r : TrueReply(r) => TrueReply(r)'
      BY <1>1, <2>1 DEF TrueReply
    <2>4. \A i \in DOMAIN fromDevice' :
              Replies(fromDevice[i])' => TrueReply(fromDevice[i])'
      <3> SUFFICES ASSUME NEW i \in DOMAIN fromDevice', Replies(fromDevice[i])'
                   PROVE  TrueReply(fromDevice[i])'
        OBVIOUS
      <3>1. TrueReply(fromDevice[i + k]) /\ fromDevice'[i] = fromDevice[i + k]
        BY <1>6, <2>1 DEF TruthInvariant, ReadTrue
      <3> QED BY <1>1, <2>1, <3>1 DEF TrueReply
    <2>5. \A i \in DOMAIN heard' : Replies(heard[i])' => TrueReply(heard[i])'
      <3> SUFFICES ASSUME NEW i \in DOMAIN heard', Replies(heard[i])'
                   PROVE  TrueReply(heard[i])'
        OBVIOUS
      <3>1. TrueReply(heard[i]) /\ heard'[i] = heard[i]
        BY <1>7, <2>1 DEF TruthInvariant, ReadTrue
      <3> QED BY <1>1, <2>1, <3>1 DEF TrueReply
    <2> QED BY <2>2, <2>4, <2>5 DEF ReadTrue
  <1>9. WriteAlone'
    <2> SUFFICES ASSUME Busy', part'.kind = "write", part'.item \notin Cv, clean'
                 PROVE  WriteAlone'
      BY DEF WriteAlone
    <2>1. /\ Busy /\ part.kind = "write" /\ part.item \notin Cv /\ clean
          /\ stage = "wait" => stage' = "wait"
      OBVIOUS
    <2>2. WriteAlone
      BY DEF TruthInvariant
    <2>3. \A i \in DOMAIN toDevice' : Asks(toDevice[i])' =>
              /\ stage' = "wait"
              /\ \A j \in DOMAIN toDevice' : Asks(toDevice[j])' => i = j
              /\ \A j \in DOMAIN fromDevice' : ~Replies(fromDevice[j])'
              /\ \A j \in DOMAIN heard' : ~Replies(heard[j])'
      <3> SUFFICES ASSUME NEW i \in DOMAIN toDevice', Asks(toDevice[i])'
                   PROVE  /\ stage' = "wait"
                          /\ \A j \in DOMAIN toDevice' : Asks(toDevice[j])' => i = j
                          /\ \A j \in DOMAIN fromDevice' : ~Replies(fromDevice[j])'
                          /\ \A j \in DOMAIN heard' : ~Replies(heard[j])'
        OBVIOUS
      <3>1. i \in Nat /\ i + m \in DOMAIN toDevice /\ Asks(toDevice[i + m])
        BY <1>5
      <3>2. /\ stage = "wait"
            /\ \A j \in DOMAIN toDevice : Asks(toDevice[j]) => i + m = j
            /\ \A j \in DOMAIN fromDevice : ~Replies(fromDevice[j])
            /\ \A j \in DOMAIN heard : ~Replies(heard[j])
        BY <2>1, <2>2, <3>1 DEF WriteAlone
      <3>3. ASSUME NEW j \in DOMAIN toDevice', Asks(toDevice[j])'
            PROVE  i = j
        <4>1. j \in Nat /\ j + m \in DOMAIN toDevice /\ Asks(toDevice[j + m])
          BY <1>5, <3>3
        <4>2. i + m = j + m
          BY <3>2, <4>1
        <4> QED BY <3>1, <4>1, <4>2
      <3> QED BY <1>6, <1>7, <2>1, <3>2, <3>3
    <2>4. \A i \in DOMAIN fromDevice' : Replies(fromDevice[i])' =>
              /\ stage' = "wait"
              /\ \A j \in DOMAIN fromDevice' : Replies(fromDevice[j])' => i = j
              /\ \A j \in DOMAIN heard' : ~Replies(heard[j])'
      <3> SUFFICES ASSUME NEW i \in DOMAIN fromDevice', Replies(fromDevice[i])'
                   PROVE  /\ stage' = "wait"
                          /\ \A j \in DOMAIN fromDevice' : Replies(fromDevice[j])' => i = j
                          /\ \A j \in DOMAIN heard' : ~Replies(heard[j])'
        OBVIOUS
      <3>1. i \in Nat /\ i + k \in DOMAIN fromDevice /\ Replies(fromDevice[i + k])
        BY <1>6
      <3>2. /\ stage = "wait"
            /\ \A j \in DOMAIN fromDevice : Replies(fromDevice[j]) => i + k = j
            /\ \A j \in DOMAIN heard : ~Replies(heard[j])
        BY <2>1, <2>2, <3>1 DEF WriteAlone
      <3>3. \A j \in DOMAIN fromDevice' : Replies(fromDevice[j])' => i = j
        <4> SUFFICES ASSUME NEW j \in DOMAIN fromDevice', Replies(fromDevice[j])'
                     PROVE  i = j
          OBVIOUS
        <4>1. j \in Nat /\ j + k \in DOMAIN fromDevice /\ Replies(fromDevice[j + k])
          BY <1>6
        <4>2. i + k = j + k
          BY <3>2, <4>1
        <4> QED BY <3>1, <4>1, <4>2
      <3> QED BY <1>7, <2>1, <3>2, <3>3
    <2>5. \A i \in DOMAIN heard' : Replies(heard[i])' => stage' = "wait"
      BY <1>7, <2>1, <2>2 DEF WriteAlone
    <2> QED BY <2>3, <2>4, <2>5 DEF WriteAlone
  <1> QED BY <1>2, <1>3, <1>8, <1>9 DEF TruthInvariant

(* What an answer to a request of the programming track is about. *)
LEMMA AnswersReply ==
  ASSUME NEW r, part.kind \in Programming, Answers(part, r)
  PROVE  Replies(r)
  BY DEF Answers, Replies, Concerns, Programming

(* A new request: its number is free, or no answer was outstanding.         *)
LEMMA TruthBegin ==
  ASSUME TypesOK, NEW b \in BOOLEAN, b => NumberFree, Begin
  PROVE  TruthInvariant(b)'
  <1>1. PICK kind \in {"power", "throttle", "function", "read", "program"} :
            /\ Call(kind) /\ op' = Head(calls)
            /\ Prepare(PartOf(IF kind = "program" THEN "write" ELSE kind,
                              Head(calls).item, Head(calls).value))
            /\ outcome' = None /\ clean' = ~Unanswered(Head(calls).item)
            /\ UNCHANGED line
    BY DEF Begin
  <1>2. op' # None
    BY <1>1, CallTypes DEF TypesOK
  <1>3. /\ heard' = <<>> /\ part'.item = op'.item
        /\ part'.kind = (IF kind = "program" THEN "write" ELSE kind)
        /\ part'.callback = (IF kind = "read" /\ op'.item \in Cv THEN NextCallback ELSE 0)
    BY <1>1 DEF Prepare, PartOf
  <1>4. toDevice' = toDevice /\ fromDevice' = fromDevice
    BY <1>1 DEF line
  <1>5. ASSUME part'.item \notin Cv, clean'
        PROVE  /\ \A i \in DOMAIN toDevice' : ~Asks(toDevice[i])'
               /\ \A i \in DOMAIN fromDevice' : ~Replies(fromDevice[i])'
    <2>1. ~Unanswered(part'.item)
      BY <1>1, <1>3, <1>5
    <2> QED BY <1>4, <2>1 DEF Unanswered, Asks, Programs, Replies, Concerns
  <1>6. ASSUME part'.item \in Cv, part'.kind = "read", b
        PROVE  /\ \A i \in DOMAIN toDevice' : ~Asks(toDevice[i])'
               /\ \A i \in DOMAIN fromDevice' : ~Replies(fromDevice[i])'
    <2>1. NumberFree /\ part'.callback = NextCallback
      BY <1>3, <1>6
    <2> QED BY <1>4, <1>6, <2>1 DEF NumberFree, Asks, Programs, Replies, Concerns
  <1> QED BY <1>1, <1>2, <1>3, <1>5, <1>6, TruthBegins DEF Followed

(* The request is sent: it is the only frame about its item, and the last   *)
(* one for the programming track.                                           *)
LEMMA TruthSend ==
  ASSUME TypesOK, NEW b \in BOOLEAN, TruthInvariant(b), Send
  PROVE  TruthInvariant(b)'
  <1>1. CASE part.kind = "function"
    BY <1>1, TruthEnds DEF Send, Return, Busy, Confirmed
  <1>2. CASE part.kind # "function"
    <2>n. PICK n : n = Len(toDevice)
      OBVIOUS
    <2>1. /\ toDevice' = Append(toDevice, Framed(part)) /\ fromDevice' = fromDevice
          /\ stage = "send" /\ stage' = "wait" /\ op' = op /\ part' = part
          /\ heard' = heard /\ outcome' = outcome /\ clean' = clean
          /\ decoder' = decoder
      BY <1>2 DEF Send, device
    <2>2. toDevice \in Seq(Frame)
      BY DEF TypesOK, LineOK
    <2>3. /\ DOMAIN toDevice = 1..n /\ n \in Nat
          /\ DOMAIN toDevice' = 1..n + 1
          /\ \A i \in DOMAIN toDevice : toDevice'[i] = toDevice[i]
          /\ toDevice'[n + 1].body = part
      BY <2>1, <2>2, <2>n DEF Framed
    <2>4. \A t : Concerns(t)' <=> Concerns(t)
      BY <2>1 DEF Concerns
    <2>5. ReadTrue(b)'
      <3> SUFFICES ASSUME part.kind = "read", Followed(b)
                   PROVE  ReadTrue(b)'
        BY <2>1 DEF ReadTrue, Followed
      <3>1. /\ \A i \in DOMAIN toDevice : ~Asks(toDevice[i])
            /\ \A i \in DOMAIN fromDevice : ~Replies(fromDevice[i])
            /\ \A i \in DOMAIN heard : ~Replies(heard[i])
        BY <2>1 DEF TruthInvariant, ReadTrue, Busy, TrueReply
      <3>2. \A i \in DOMAIN toDevice' : Asks(toDevice[i])' => i = n + 1
        <4> SUFFICES ASSUME NEW i \in DOMAIN toDevice', Asks(toDevice[i])', i # n + 1
                     PROVE  FALSE
          OBVIOUS
        <4>1. i \in DOMAIN toDevice /\ toDevice'[i] = toDevice[i]
          BY <2>3
        <4> QED BY <2>4, <3>1, <4>1 DEF Asks, Programs
      <3>3. \A j \in DOMAIN toDevice' : ~(j > n + 1)
        BY <2>3
      <3>4. /\ \A i \in DOMAIN fromDevice' : ~Replies(fromDevice[i])'
            /\ \A i \in DOMAIN heard' : ~Replies(heard[i])'
        BY <2>1, <2>4, <3>1 DEF Replies
      <3> QED BY <2>1, <2>3, <3>2, <3>3, <3>4 DEF ReadTrue
    <2>6. WriteAlone'
      <3> SUFFICES ASSUME part.kind = "write", part.item \notin Cv, clean
                   PROVE  WriteAlone'
        BY <2>1 DEF WriteAlone
      <3>1. /\ \A i \in DOMAIN toDevice : ~Asks(toDevice[i])
            /\ \A i \in DOMAIN fromDevice : ~Replies(fromDevice[i])
            /\ \A i \in DOMAIN heard : ~Replies(heard[i])
        BY <2>1 DEF TruthInvariant, WriteAlone, Busy
      <3>2. \A i \in DOMAIN toDevice' : Asks(toDevice[i])' => i = n + 1
        <4> SUFFICES ASSUME NEW i \in DOMAIN toDevice', Asks(toDevice[i])', i # n + 1
                     PROVE  FALSE
          OBVIOUS
        <4>1. i \in DOMAIN toDevice /\ toDevice'[i] = toDevice[i]
          BY <2>3
        <4> QED BY <2>4, <3>1, <4>1 DEF Asks, Programs
      <3>3. /\ \A i \in DOMAIN fromDevice' : ~Replies(fromDevice[i])'
            /\ \A i \in DOMAIN heard' : ~Replies(heard[i])'
        BY <2>1, <2>4, <3>1 DEF Replies
      <3> QED BY <2>1, <3>2, <3>3 DEF WriteAlone
    <2>7. outcome' = None /\ Related'
      BY <2>1 DEF TruthInvariant, Related, Busy
    <2> QED BY <2>5, <2>6, <2>7 DEF TruthInvariant, StaysTrue, Confirmed
  <1> QED BY <1>1, <1>2

(* An answer is found. *)
LEMMA TruthFound ==
  ASSUME TypesOK, NEW b \in BOOLEAN, b => NumberFree, TruthInvariant(b), Found
  PROVE  TruthInvariant(b)'
  <1>1. PICK i \in DOMAIN heard : Answers(part, heard[i]) /\ Conclude(heard[i])
    BY DEF Found
  <1> DEFINE r == heard[i]
  <1>2. stage = "wait" /\ Busy /\ part \in Part
    BY DEF Found, Busy, TypesOK, PartOK
  <1>3. /\ toDevice' = toDevice /\ fromDevice' = fromDevice /\ decoder' = decoder
    BY DEF Found, line, device
  <1>4. outcome = None /\ op # None /\ op.item = part.item
    BY <1>2 DEF TruthInvariant, Related
  <1>5. CASE part.kind \notin Programming /\ Return("confirmed", None)
    <2>1. part.item \notin Item
      BY <1>2, <1>5, ItemAssumption DEF Part, Message, Programming
    <2>2. ~Busy' /\ outcome'.op = op
      BY <1>5 DEF Return, Busy
    <2> QED
      BY <1>4, <2>1, <2>2
      DEF TruthInvariant, ReadTrue, WriteAlone, StaysTrue, Related
  <1>6. CASE /\ part.kind = "write" /\ r.value = part.value
             /\ Prepare(PartOf("read", part.item, None))
             /\ UNCHANGED <<op, outcome, clean, calls>>
    <2>1. /\ part'.kind = "read" /\ part'.item = part.item /\ heard' = <<>>
          /\ part.item \in Cv => part'.callback = NextCallback
          /\ op' = op /\ outcome' = outcome /\ clean' = clean
      BY <1>6 DEF Prepare, PartOf
    <2>2. Replies(r)
      BY <1>1, <1>6, AnswersReply DEF Programming
    <2>3. ASSUME Followed(b)', part.item \notin Cv
          PROVE  /\ \A j \in DOMAIN toDevice' : ~Asks(toDevice[j])'
                 /\ \A j \in DOMAIN fromDevice' : ~Replies(fromDevice[j])'
      <3>1. /\ \A j \in DOMAIN toDevice : ~Asks(toDevice[j])
            /\ \A j \in DOMAIN fromDevice : ~Replies(fromDevice[j])
        BY <1>2, <1>6, <2>1, <2>2, <2>3 DEF TruthInvariant, WriteAlone, Followed
      <3>2. \A t : Concerns(t)' <=> Concerns(t)
        BY <2>1, <2>3 DEF Concerns
      <3> QED BY <1>3, <3>1, <3>2 DEF Asks, Programs, Replies
    <2>4. ASSUME Followed(b)', part.item \in Cv
          PROVE  /\ \A j \in DOMAIN toDevice' : ~Asks(toDevice[j])'
                 /\ \A j \in DOMAIN fromDevice' : ~Replies(fromDevice[j])'
      <3>1. NumberFree
        BY <2>1, <2>4 DEF Followed
      <3> QED
        BY <1>3, <2>1, <2>4, <3>1 DEF NumberFree, Asks, Programs, Replies, Concerns
    <2> QED BY <1>4, <2>1, <2>3, <2>4, TruthBegins
  <1>7. CASE /\ part.kind = "read" /\ r.value # None
             /\ Return("confirmed", r.value)
    <2>1. Replies(r)
      BY <1>1, <1>7, AnswersReply DEF Programming
    <2>2. Followed(b) => NothingAsked /\ r.value = decoder[part.item]
      BY <1>2, <1>7, <2>1 DEF TruthInvariant, ReadTrue, TrueReply
    <2>3. /\ ~Busy' /\ outcome'.op = op /\ outcome'.value = r.value
          /\ outcome'.clean = clean
      BY <1>7 DEF Return, Busy
    <2>4. StaysTrue(b)'
      BY <1>3, <1>4, <2>2, <2>3 DEF StaysTrue, Followed, NothingAsked, Programs
    <2> QED BY <2>3, <2>4 DEF TruthInvariant, ReadTrue, WriteAlone, Related
  <1>8. CASE Return("failed", None)
    BY <1>8, TruthEnds DEF Return, Busy, Confirmed
  <1> QED BY <1>1, <1>5, <1>6, <1>7, <1>8 DEF Conclude

LEMMA Appending ==
  ASSUME NEW S, NEW s \in Seq(S), NEW e \in S
  PROVE  /\ Append(s, e) \in Seq(S) /\ Append(s, e) # <<>>
         /\ \A i \in DOMAIN Append(s, e) :
               \/ i \in DOMAIN s /\ Append(s, e)[i] = s[i]
               \/ Append(s, e)[i] = e
  <1>1. /\ Append(s, e) \in Seq(S) /\ Len(Append(s, e)) = Len(s) + 1
        /\ Len(s) \in Nat
    OBVIOUS
  <1>2. Append(s, e) # <<>>
    <2>1. \A t : t = <<>> => Len(t) = 0
      OBVIOUS
    <2> QED BY <1>1, <2>1
  <1> QED BY <1>1, <1>2

(* A report is read: what is heard was heard before or was the next report. *)
LEMMA Hears ==
  ASSUME TypesOK, ReadReport
  PROVE  /\ fromDevice \in Seq(Report) /\ fromDevice # <<>>
         /\ \A i \in DOMAIN heard' :
               \/ \E j \in DOMAIN heard : heard'[i] = heard[j]
               \/ heard'[i] = fromDevice[1] /\ stage \in {"send", "wait"}
  <1>1. /\ fromDevice \in Seq(Report) /\ fromDevice # <<>> /\ heard \in Seq(Report)
        /\ heard' = IF stage \in {"send", "wait"}
                    THEN Kept(Append(heard, Head(fromDevice))) ELSE heard
    BY DEF ReadReport, TypesOK, LineOK, RequestOK
  <1>2. CASE heard' = heard
    BY <1>1, <1>2
  <1>3. CASE stage \in {"send", "wait"}
    <2> DEFINE e == Append(heard, Head(fromDevice))
    <2>1. Head(fromDevice) \in Report /\ Head(fromDevice) = fromDevice[1]
      BY <1>1
    <2>2. e \in Seq(Report) /\ e # <<>>
      BY <1>1, <2>1, Appending
    <2>3. \A i \in DOMAIN e : (\E j \in DOMAIN heard : e[i] = heard[j]) \/ e[i] = fromDevice[1]
      BY <1>1, <2>1, Appending
    <2>4. heard' \in {e, Tail(e)}
      BY <1>1, <1>3 DEF Kept
    <2> HIDE DEF e
    <2>5. \A i \in DOMAIN Tail(e) : i + 1 \in DOMAIN e /\ Tail(e)[i] = e[i + 1]
      BY <2>2, Shifting
    <2> QED BY <1>1, <1>3, <2>3, <2>4, <2>5
  <1> QED BY <1>1, <1>2, <1>3

LEMMA TruthHears ==
  ASSUME TypesOK, NEW b \in BOOLEAN, TruthInvariant(b), ReadReport
  PROVE  TruthInvariant(b)'
  <1>1. /\ UNCHANGED <<op, part, stage, outcome, clean, toDevice, decoder>>
        /\ fromDevice' = Tail(fromDevice)
    BY DEF ReadReport, device
  <1>2. /\ DOMAIN fromDevice = 1..Len(fromDevice) /\ Len(fromDevice) \in Nat
        /\ DOMAIN fromDevice' = 1..Len(fromDevice) - 1 /\ 1 \in DOMAIN fromDevice
        /\ \A i \in DOMAIN fromDevice' :
               i + 1 \in DOMAIN fromDevice /\ fromDevice'[i] = fromDevice[i + 1]
    BY <1>1, Hears, Shifting
  <1>3. /\ Busy' = Busy /\ Followed(b)' = Followed(b)
        /\ NothingAsked' = NothingAsked
        /\ \A t : Concerns(t)' <=> Concerns(t)
    BY <1>1 DEF Busy, Followed, NothingAsked, Programs, Concerns
  <1>4. ASSUME NEW i \in DOMAIN heard', Replies(heard[i])'
        PROVE  \/ \E j \in DOMAIN heard : heard'[i] = heard[j] /\ Replies(heard[j])
               \/ heard'[i] = fromDevice[1] /\ Replies(fromDevice[1])
    BY <1>3, <1>4, Hears DEF Replies
  <1>5. ASSUME NEW i \in DOMAIN fromDevice', Replies(fromDevice[i])'
        PROVE  /\ i + 1 \in DOMAIN fromDevice /\ fromDevice'[i] = fromDevice[i + 1]
               /\ Replies(fromDevice[i + 1])
    BY <1>2, <1>3, <1>5 DEF Replies
  <1>6. ReadTrue(b)'
    <2> SUFFICES ASSUME Busy, part.kind = "read", Followed(b)
                 PROVE  ReadTrue(b)'
      BY <1>1, <1>3 DEF ReadTrue
    <2>1. ReadTrue(b)
      BY DEF TruthInvariant
    <2>2. \A i \in DOMAIN toDevice' : Asks(toDevice[i])' =>
              /\ stage' = "wait" /\ toDevice'[i].body.kind = "read"
              /\ \A j \in DOMAIN toDevice' : j > i => ~Programs(toDevice[j])'
      BY <1>1, <1>3, <2>1 DEF ReadTrue, Asks, Programs
    <2>3. \A i \in DOMAIN fromDevice' :
              Replies(fromDevice[i])' => TrueReply(fromDevice[i])'
      <3> SUFFICES ASSUME NEW i \in DOMAIN fromDevice', Replies(fromDevice[i])'
                   PROVE  TrueReply(fromDevice[i])'
        OBVIOUS
      <3>1. TrueReply(fromDevice[i + 1]) /\ fromDevice'[i] = fromDevice[i + 1]
        BY <1>5, <2>1 DEF ReadTrue
      <3> QED BY <1>1, <1>3, <3>1 DEF TrueReply
    <2>4. \A i \in DOMAIN heard' : Replies(heard[i])' => TrueReply(heard[i])'
      <3> SUFFICES ASSUME NEW i \in DOMAIN heard', Replies(heard[i])'
                   PROVE  TrueReply(heard[i])'
        OBVIOUS
      <3>1. \/ \E j \in DOMAIN heard : heard'[i] = heard[j] /\ TrueReply(heard[j])
            \/ heard'[i] = fromDevice[1] /\ TrueReply(fromDevice[1])
        BY <1>2, <1>4, <2>1 DEF ReadTrue
      <3> QED BY <1>1, <1>3, <3>1 DEF TrueReply
    <2> QED BY <2>2, <2>3, <2>4 DEF ReadTrue
  <1>7. WriteAlone'
    <2> SUFFICES ASSUME Busy, part.kind = "write", part.item \notin Cv, clean
                 PROVE  WriteAlone'
      BY <1>1, <1>3 DEF WriteAlone
    <2>1. WriteAlone
      BY DEF TruthInvariant
    <2>2. \A i \in DOMAIN toDevice' : Asks(toDevice[i])' =>
              /\ stage' = "wait"
              /\ \A j \in DOMAIN toDevice' : Asks(toDevice[j])' => i = j
              /\ \A j \in DOMAIN fromDevice' : ~Replies(fromDevice[j])'
              /\ \A j \in DOMAIN heard' : ~Replies(heard[j])'
      <3> SUFFICES ASSUME NEW i \in DOMAIN toDevice', Asks(toDevice[i])'
                   PROVE  /\ stage' = "wait"
                          /\ \A j \in DOMAIN toDevice' : Asks(toDevice[j])' => i = j
                          /\ \A j \in DOMAIN fromDevice' : ~Replies(fromDevice[j])'
                          /\ \A j \in DOMAIN heard' : ~Replies(heard[j])'
        OBVIOUS
      <3>1. \A j \in DOMAIN toDevice : Asks(toDevice[j])' <=> Asks(toDevice[j])
        BY <1>1, <1>3 DEF Asks, Programs
      <3>2. i \in DOMAIN toDevice /\ Asks(toDevice[i])
        BY <1>1, <3>1
      <3>3. /\ stage = "wait"
            /\ \A j \in DOMAIN toDevice : Asks(toDevice[j]) => i = j
            /\ \A j \in DOMAIN fromDevice : ~Replies(fromDevice[j])
            /\ \A j \in DOMAIN heard : ~Replies(heard[j])
        BY <2>1, <3>2 DEF WriteAlone
      <3> QED BY <1>1, <1>2, <1>4, <1>5, <3>1, <3>3
    <2>3. \A i \in DOMAIN fromDevice' : Replies(fromDevice[i])' =>
              /\ stage' = "wait"
              /\ \A j \in DOMAIN fromDevice' : Replies(fromDevice[j])' => i = j
              /\ \A j \in DOMAIN heard' : ~Replies(heard[j])'
      <3> SUFFICES ASSUME NEW i \in DOMAIN fromDevice', Replies(fromDevice[i])'
                   PROVE  /\ stage' = "wait"
                          /\ \A j \in DOMAIN fromDevice' : Replies(fromDevice[j])' => i = j
                          /\ \A j \in DOMAIN heard' : ~Replies(heard[j])'
        OBVIOUS
      <3>1. /\ stage = "wait"
            /\ \A j \in DOMAIN fromDevice : Replies(fromDevice[j]) => i + 1 = j
            /\ \A j \in DOMAIN heard : ~Replies(heard[j])
        BY <1>5, <2>1 DEF WriteAlone
      <3>2. ~Replies(fromDevice[1])
        BY <1>2, <3>1
      <3>3. \A j \in DOMAIN fromDevice' : Replies(fromDevice[j])' => i + 1 = j + 1
        BY <1>5, <3>1
      <3>4. \A j \in DOMAIN fromDevice' : j \in Nat
        BY <1>2
      <3>5. \A j \in DOMAIN fromDevice' : Replies(fromDevice[j])' => i = j
        BY <3>3, <3>4
      <3> QED BY <1>1, <1>4, <3>1, <3>2, <3>5
    <2>4. \A i \in DOMAIN heard' : Replies(heard[i])' => stage' = "wait"
      BY <1>1, <1>2, <1>4, <2>1 DEF WriteAlone
    <2> QED BY <2>2, <2>3, <2>4 DEF WriteAlone
  <1>8. StaysTrue(b)' /\ Related'
    BY <1>1, <1>3 DEF TruthInvariant, StaysTrue, Related, Confirmed
  <1> QED BY <1>6, <1>7, <1>8 DEF TruthInvariant

(* What the device adds to the reports: of values, only an answer to the    *)
(* frame it executes.                                                       *)
LEMMA DeviceAnswers ==
  ASSUME TypesOK, DeviceExecutes
  PROVE  /\ ~Programs(Head(toDevice)) =>
              /\ decoder' = decoder
              /\ \A i \in DOMAIN fromDevice' : fromDevice'[i].kind = "value" =>
                     /\ i \in Nat /\ i \in DOMAIN fromDevice
                     /\ fromDevice'[i] = fromDevice[i]
         /\ Programs(Head(toDevice)) =>
              \E r \in Report :
                  /\ fromDevice' = Append(fromDevice, r)
                  /\ r.item = Head(toDevice).body.item
                  /\ r.callback = Head(toDevice).body.callback
                  /\ Head(toDevice).body.kind = "read" =>
                        /\ decoder' = decoder
                        /\ r.value \in {None, decoder[r.item]}
  <1> DEFINE f == Head(toDevice).body
  <1>1. /\ fromDevice \in Seq(Report) /\ f \in Sendable
        /\ main \in {"on", "off"} /\ speed \in [Loco -> Pace]
        /\ decoder \in [Item -> Value]
    BY HeadTypes DEF TypesOK, LineOK, DeviceOK
  <1>2. /\ f.kind = "power" => f.value \in {"on", "off"}
        /\ f.kind = "throttle" => f.item \in Loco /\ f.value \in Pace
        /\ f.kind = "function" => f.item \in Loco
        /\ f.kind = "read" => f.item \in Item /\ f.callback \in 0..Callbacks
        /\ f.kind = "write" => f.item \in Item /\ f.value \in Value
    BY <1>1, FrameKinds
  <1>3. CASE ~Programs(Head(toDevice))
    <2>1. f.kind \notin {"read", "write"}
      BY <1>3 DEF Programs, Programming
    <2> HIDE DEF f
    <2>2. decoder' = decoder
      BY <2>1 DEF DeviceExecutes, Quick, f
    <2>3. \E rs \in Seq(Report) :
              /\ fromDevice' = fromDevice \o rs
              /\ \A i \in DOMAIN rs : rs[i].kind # "value"
      <3>1. \A r \in Report : r.kind # "value" =>
                /\ <<r>> \in Seq(Report)
                /\ \A i \in DOMAIN <<r>> : <<r>>[i].kind # "value"
        OBVIOUS
      <3>2. <<>> \in Seq(Report) /\ DOMAIN <<>> = {}
        OBVIOUS
      <3>3. CASE f.kind = "status"
        <4> DEFINE rs == <<Plain("identity"), Told("power", None, main, 0)>>
        <4>1. fromDevice' = fromDevice \o rs
          BY <3>3 DEF DeviceExecutes, f
        <4>2. Plain("identity") \in Report /\ Told("power", None, main, 0) \in Report
          BY <1>1, PlainTypes, ToldTypes
        <4>3. /\ rs \in Seq(Report) /\ DOMAIN rs = {1, 2}
              /\ rs[1].kind = "identity" /\ rs[2].kind = "power"
          BY <4>2 DEF Plain, Told
        <4> QED BY <4>1, <4>3
      <3>4. CASE f.kind = "tracks"
        <4>1. /\ fromDevice' = fromDevice \o <<Plain("tracks")>>
              /\ Plain("tracks") \in Report /\ Plain("tracks").kind # "value"
          BY <3>4, PlainTypes DEF DeviceExecutes, f, Plain, Told
        <4> QED BY <3>1, <4>1
      <3>5. CASE f.kind = "power"
        <4> DEFINE r == Told("power", None, f.value, 0)
        <4>1. fromDevice' = fromDevice \o <<r>>
          BY <3>5 DEF DeviceExecutes, f
        <4>2. r.kind # "value" /\ r \in Report
          BY <1>2, <3>5, ToldTypes DEF Told
        <4> HIDE DEF r
        <4> QED BY <3>1, <4>1, <4>2
      <3>6. CASE f.kind = "throttle"
        <4> DEFINE r == Told("locomotive", f.item, f.value, 0)
        <4>1. fromDevice' = fromDevice \o <<r>>
          BY <3>6 DEF DeviceExecutes, f
        <4>2. r.kind # "value" /\ r \in Report
          BY <1>2, <3>6, ToldTypes DEF Told
        <4> HIDE DEF r
        <4> QED BY <3>1, <4>1, <4>2
      <3>7. CASE f.kind = "function"
        <4> DEFINE r == Told("locomotive", f.item, speed[f.item], 0)
        <4>1. fromDevice' = fromDevice \o <<>> \/ fromDevice' = fromDevice \o <<r>>
          BY <3>7 DEF DeviceExecutes, f
        <4>2. r.kind # "value" /\ r \in Report
          BY <1>1, <1>2, <3>7, ToldTypes DEF Told
        <4> HIDE DEF r
        <4> QED BY <3>1, <3>2, <4>1, <4>2
      <3>8. CASE f.kind = "emergency"
        <4>1. fromDevice' = fromDevice \o <<>>
          BY <3>8 DEF DeviceExecutes, f
        <4> QED BY <3>2, <4>1
      <3> QED BY <1>1, <2>1, <3>3, <3>4, <3>5, <3>6, <3>7, <3>8, FrameKinds
    <2>4. PICK rs \in Seq(Report) : /\ fromDevice' = fromDevice \o rs
                                    /\ \A i \in DOMAIN rs : rs[i].kind # "value"
      BY <2>3
    <2>5. \A i \in DOMAIN fromDevice' : fromDevice'[i].kind = "value" =>
              /\ i \in Nat /\ i \in DOMAIN fromDevice
              /\ fromDevice'[i] = fromDevice[i]
      BY <1>1, <2>4
    <2> QED BY <1>3, <2>2, <2>5
  <1>4. CASE Programs(Head(toDevice)) /\ f.kind = "read"
    <2>1. ReadDecoder(f)
      BY <1>4 DEF DeviceExecutes
    <2>2. PICK v \in {None, decoder[f.item]} :
              /\ fromDevice' = Append(fromDevice, Told("value", f.item, v, f.callback))
              /\ decoder' = decoder
      BY <2>1 DEF ReadDecoder
    <2>3. Told("value", f.item, v, f.callback) \in Report
      BY <1>1, <1>2, <1>4, ToldTypes
    <2> QED BY <1>4, <2>2, <2>3 DEF Told
  <1>5. CASE Programs(Head(toDevice)) /\ f.kind = "write"
    <2>1. Program(f)
      BY <1>5 DEF DeviceExecutes
    <2>c. f.callback = 0
      BY <1>1, <1>5 DEF Sendable, Part, Message
    <2>2. PICK v \in {None, f.value} :
              fromDevice' = Append(fromDevice, Told("value", f.item, v, 0))
      BY <2>1 DEF Program
    <2>3. Told("value", f.item, v, 0) \in Report
      <3>1. 0 \in 0..Callbacks /\ f.item \in Item /\ v \in Value \cup {None}
        BY <1>2, <1>5, CallbackAssumption
      <3> QED BY <3>1, ToldTypes
    <2> QED BY <1>5, <2>c, <2>2, <2>3 DEF Told
  <1> QED BY <1>3, <1>4, <1>5 DEF Programs, Programming

LEMMA TruthDevice ==
  ASSUME TypesOK, NEW b \in BOOLEAN, TruthInvariant(b), DeviceExecutes
  PROVE  TruthInvariant(b)'
  <1>1. /\ UNCHANGED <<op, part, stage, heard, outcome, clean>>
        /\ toDevice' = Tail(toDevice) /\ toDevice \in Seq(Frame) /\ toDevice # <<>>
        /\ fromDevice \in Seq(Report)
    BY HeadTypes DEF DeviceExecutes, request, TypesOK, LineOK
  <1>2. /\ \A i \in DOMAIN toDevice' :
               /\ i \in Nat /\ i > 0 /\ i + 1 \in DOMAIN toDevice
               /\ toDevice'[i] = toDevice[i + 1]
        /\ 1 \in DOMAIN toDevice /\ toDevice[1] = Head(toDevice)
    BY <1>1, Shifting
  <1>3. Busy' = Busy
    BY <1>1 DEF Busy
  <1>4. CASE ~Programs(Head(toDevice))
    <2>1. /\ decoder' = decoder
          /\ \A i \in DOMAIN fromDevice' : fromDevice'[i].kind = "value" =>
                 /\ i \in Nat /\ i + 0 \in DOMAIN fromDevice
                 /\ fromDevice'[i] = fromDevice[i + 0]
      BY <1>4, DeviceAnswers
    <2> QED BY <1>1, <1>2, <1>3, <2>1, TruthQuiet
  <1>5. CASE Programs(Head(toDevice))
    <2>1. PICK r \in Report :
              /\ fromDevice' = Append(fromDevice, r)
              /\ r.item = Head(toDevice).body.item
              /\ r.callback = Head(toDevice).body.callback
              /\ Head(toDevice).body.kind = "read" =>
                    decoder' = decoder /\ r.value \in {None, decoder[r.item]}
      BY <1>5, DeviceAnswers
    <2>2. \A i \in DOMAIN fromDevice' :
              \/ i \in DOMAIN fromDevice /\ fromDevice'[i] = fromDevice[i]
              \/ fromDevice'[i] = r /\ i = Len(fromDevice) + 1
      BY <1>1, <2>1
    <2>3. \A t : Concerns(t)' <=> Concerns(t)
      BY <1>1 DEF Concerns
    <2>4. ~NothingAsked
      BY <1>2, <1>5 DEF NothingAsked
    <2>5. Replies(r) => Asks(Head(toDevice))
      BY <1>5, <2>1 DEF Replies, Asks, Concerns
    <2>6. ASSUME NEW i \in DOMAIN toDevice', Asks(toDevice[i])'
          PROVE  /\ i \in Nat /\ i > 0 /\ i + 1 \in DOMAIN toDevice
                 /\ toDevice'[i] = toDevice[i + 1] /\ Asks(toDevice[i + 1])
      BY <1>2, <2>3, <2>6 DEF Asks, Programs
    <2>7. ReadTrue(b)'
      <3> SUFFICES ASSUME Busy, part.kind = "read", Followed(b)
                   PROVE  ReadTrue(b)'
        BY <1>1, <1>3 DEF ReadTrue, Followed
      <3>1. /\ \A i \in DOMAIN fromDevice : ~Replies(fromDevice[i])
            /\ \A i \in DOMAIN heard : ~Replies(heard[i])
        BY <2>4 DEF TruthInvariant, ReadTrue, TrueReply
      <3>2. \A i \in DOMAIN toDevice : Asks(toDevice[i]) =>
              /\ stage = "wait" /\ toDevice[i].body.kind = "read"
              /\ \A j \in DOMAIN toDevice : j > i => ~Programs(toDevice[j])
        BY DEF TruthInvariant, ReadTrue
      <3>3. ASSUME NEW i \in DOMAIN toDevice', Asks(toDevice[i])'
            PROVE  /\ stage' = "wait" /\ toDevice'[i].body.kind = "read"
                   /\ \A j \in DOMAIN toDevice' : j > i => ~Programs(toDevice[j])'
        <4>1. /\ i \in Nat /\ stage = "wait" /\ toDevice'[i].body.kind = "read"
              /\ \A j \in DOMAIN toDevice : j > i + 1 => ~Programs(toDevice[j])
          BY <2>6, <3>2, <3>3
        <4>2. ASSUME NEW j \in DOMAIN toDevice', j > i
              PROVE  ~Programs(toDevice[j])'
          <5>1. /\ j \in Nat /\ j + 1 \in DOMAIN toDevice
                /\ toDevice'[j] = toDevice[j + 1]
            BY <1>2
          <5>2. ~Programs(toDevice[j + 1])
            BY <4>1, <4>2, <5>1
          <5> QED BY <5>1, <5>2 DEF Programs
        <4> QED BY <1>1, <4>1, <4>2
      <3>4. ASSUME NEW i \in DOMAIN fromDevice', Replies(fromDevice[i])'
            PROVE  TrueReply(fromDevice[i])'
        <4>1. fromDevice'[i] = r /\ Replies(r)
          BY <2>2, <2>3, <3>1, <3>4 DEF Replies
        <4>2. /\ stage = "wait" /\ toDevice[1].body.kind = "read"
              /\ \A j \in DOMAIN toDevice : j > 1 => ~Programs(toDevice[j])
          BY <1>2, <2>5, <3>2, <4>1
        <4>3. NothingAsked'
          <5> SUFFICES ASSUME NEW j \in DOMAIN toDevice' PROVE ~Programs(toDevice[j])'
            BY DEF NothingAsked
          <5>1. /\ j + 1 \in DOMAIN toDevice /\ j + 1 > 1
                /\ toDevice'[j] = toDevice[j + 1]
            BY <1>2
          <5>2. ~Programs(toDevice[j + 1])
            BY <4>2, <5>1
          <5> QED BY <5>1, <5>2 DEF Programs
        <4>4. decoder' = decoder /\ r.value \in {None, decoder[part.item]}
          BY <1>2, <2>1, <4>1, <4>2 DEF Replies, Concerns
        <4> QED BY <1>1, <4>1, <4>2, <4>3, <4>4 DEF TrueReply
      <3>5. \A i \in DOMAIN heard' : ~Replies(heard[i])'
        BY <1>1, <2>3, <3>1 DEF Replies
      <3> QED BY <3>3, <3>4, <3>5 DEF ReadTrue
    <2>8. WriteAlone'
      <3> SUFFICES ASSUME Busy, part.kind = "write", part.item \notin Cv, clean
                   PROVE  WriteAlone'
        BY <1>1, <1>3 DEF WriteAlone
      <3>0. WriteAlone
        BY DEF TruthInvariant
      <3>1. CASE Asks(Head(toDevice))
        <4>1. /\ stage = "wait"
              /\ \A j \in DOMAIN toDevice : Asks(toDevice[j]) => 1 = j
              /\ \A j \in DOMAIN fromDevice : ~Replies(fromDevice[j])
              /\ \A j \in DOMAIN heard : ~Replies(heard[j])
          BY <1>2, <3>0, <3>1 DEF WriteAlone
        <4>2. \A i \in DOMAIN toDevice' : ~Asks(toDevice[i])'
          <5> SUFFICES ASSUME NEW i \in DOMAIN toDevice', Asks(toDevice[i])'
                       PROVE  FALSE
            OBVIOUS
          <5>1. i \in Nat /\ i > 0 /\ 1 = i + 1
            BY <2>6, <4>1
          <5> QED BY <5>1
        <4>3. \A i \in DOMAIN heard' : ~Replies(heard[i])'
          BY <1>1, <2>3, <4>1 DEF Replies
        <4>4. \A i \in DOMAIN fromDevice' :
                  Replies(fromDevice[i])' => i = Len(fromDevice) + 1
          BY <2>2, <2>3, <4>1 DEF Replies
        <4> QED BY <1>1, <4>1, <4>2, <4>3, <4>4 DEF WriteAlone
      <3>2. CASE ~Asks(Head(toDevice))
        <4>1. ASSUME NEW i \in DOMAIN fromDevice', Replies(fromDevice[i])'
              PROVE  i \in DOMAIN fromDevice /\ Replies(fromDevice[i])
          BY <2>2, <2>3, <2>5, <3>2, <4>1 DEF Replies
        <4>2. \A i \in DOMAIN heard' : Replies(heard[i])' => Replies(heard[i])
          BY <1>1, <2>3 DEF Replies
        <4>3. \A i \in DOMAIN fromDevice' : Replies(fromDevice[i])' =>
                  /\ stage' = "wait"
                  /\ \A j \in DOMAIN fromDevice' : Replies(fromDevice[j])' => i = j
                  /\ \A j \in DOMAIN heard' : ~Replies(heard[j])'
          BY <1>1, <3>0, <4>1, <4>2 DEF WriteAlone
        <4>4. ASSUME NEW i \in DOMAIN toDevice', Asks(toDevice[i])'
              PROVE  /\ stage' = "wait"
                     /\ \A j \in DOMAIN toDevice' : Asks(toDevice[j])' => i = j
                     /\ \A j \in DOMAIN fromDevice' : ~Replies(fromDevice[j])'
                     /\ \A j \in DOMAIN heard' : ~Replies(heard[j])'
          <5>1. i \in Nat /\ i + 1 \in DOMAIN toDevice /\ Asks(toDevice[i + 1])
            BY <2>6, <4>4
          <5>2. /\ stage = "wait"
                /\ \A j \in DOMAIN toDevice : Asks(toDevice[j]) => i + 1 = j
                /\ \A j \in DOMAIN fromDevice : ~Replies(fromDevice[j])
                /\ \A j \in DOMAIN heard : ~Replies(heard[j])
            BY <3>0, <5>1 DEF WriteAlone
          <5>3. ASSUME NEW j \in DOMAIN toDevice', Asks(toDevice[j])' PROVE i = j
            <6>1. j \in Nat /\ i + 1 = j + 1
              BY <2>6, <5>2, <5>3
            <6> QED BY <5>1, <6>1
          <5> QED BY <1>1, <4>1, <4>2, <5>2, <5>3
        <4>5. \A i \in DOMAIN heard' : Replies(heard[i])' => stage' = "wait"
          BY <1>1, <3>0, <4>2 DEF WriteAlone
        <4> QED BY <4>3, <4>4, <4>5 DEF WriteAlone
      <3> QED BY <3>1, <3>2
    <2>9. StaysTrue(b)' /\ Related'
      BY <1>1, <1>3, <2>4 DEF TruthInvariant, StaysTrue, Related, Confirmed
    <2> QED BY <2>7, <2>8, <2>9 DEF TruthInvariant
  <1> QED BY <1>4, <1>5

(* Frames that are added, and that are not for the programming track.       *)
LEMMA KeepsPrograms ==
  ASSUME TypesOK,
         \/ toDevice' = toDevice \/ toDevice' = Greeting
         \/ toDevice' = toDevice \o Greeting
         \/ toDevice' = Append(toDevice, Framed(Plain("status")))
         \/ toDevice' = Append(toDevice, Framed(Plain("emergency")))
  PROVE  \A i \in DOMAIN toDevice' : Programs(toDevice[i])' =>
             /\ i \in Nat /\ i + 0 \in DOMAIN toDevice
             /\ toDevice'[i] = toDevice[i + 0]
  <1>1. toDevice \in Seq(Frame) /\ \A i \in DOMAIN toDevice : i \in Nat /\ i + 0 = i
    BY DEF TypesOK, LineOK
  <1>2. ASSUME NEW fs \in Seq(Frame), toDevice' = toDevice \o fs,
               \A k \in DOMAIN fs : fs[k].body.kind \notin Programming
        PROVE  \A i \in DOMAIN toDevice' : Programs(toDevice[i])' =>
                   i \in DOMAIN toDevice /\ toDevice'[i] = toDevice[i]
    <2> SUFFICES ASSUME NEW i \in DOMAIN toDevice', Programs(toDevice[i])'
                 PROVE  i \in DOMAIN toDevice /\ toDevice'[i] = toDevice[i]
      OBVIOUS
    <2>1. /\ Len(toDevice) \in Nat /\ i \in Nat
          /\ \A k \in DOMAIN toDevice : toDevice'[k] = toDevice[k]
          /\ \A k \in DOMAIN fs : toDevice'[Len(toDevice) + k] = fs[k]
          /\ i \in DOMAIN toDevice \/ i - Len(toDevice) \in DOMAIN fs
      BY <1>1, <1>2, Joining
    <2>2. ASSUME i - Len(toDevice) \in DOMAIN fs PROVE FALSE
      <3>1. toDevice'[i] = fs[i - Len(toDevice)]
        BY <2>1, <2>2
      <3> QED BY <1>2, <2>2, <3>1 DEF Programs
    <2> QED BY <2>1, <2>2
  <1>3. CASE toDevice' = toDevice
    BY <1>1, <1>3
  <1>4. CASE toDevice' = Greeting
    BY <1>4, HarmlessFrames DEF Programs
  <1>5. CASE toDevice' = toDevice \o Greeting
    BY <1>1, <1>2, <1>5, HarmlessFrames
  <1>6. CASE toDevice' = Append(toDevice, Framed(Plain("status")))
    BY <1>1, <1>2, <1>6, HarmlessFrames
  <1>7. CASE toDevice' = Append(toDevice, Framed(Plain("emergency")))
    BY <1>1, <1>2, <1>7, HarmlessFrames
  <1> QED BY <1>3, <1>4, <1>5, <1>6, <1>7

(* Reports that are lost, and reports that are not of values.               *)
LEMMA KeepsValues ==
  ASSUME TypesOK
  PROVE  /\ fromDevice' \in {fromDevice, <<>>} =>
              \A i \in DOMAIN fromDevice' : fromDevice'[i].kind = "value" =>
                  /\ i \in Nat /\ i + 0 \in DOMAIN fromDevice
                  /\ fromDevice'[i] = fromDevice[i + 0]
         /\ fromDevice # <<>> /\ fromDevice' = Tail(fromDevice) =>
              \A i \in DOMAIN fromDevice' : fromDevice'[i].kind = "value" =>
                  /\ i \in Nat /\ i + 1 \in DOMAIN fromDevice
                  /\ fromDevice'[i] = fromDevice[i + 1]
         /\ fromDevice' = Append(fromDevice, Told("power", None, "off", 0)) =>
              \A i \in DOMAIN fromDevice' : fromDevice'[i].kind = "value" =>
                  /\ i \in Nat /\ i + 0 \in DOMAIN fromDevice
                  /\ fromDevice'[i] = fromDevice[i + 0]
  <1>1. fromDevice \in Seq(Report) /\ \A i \in DOMAIN fromDevice : i \in Nat /\ i + 0 = i
    BY DEF TypesOK, LineOK
  <1>2. ASSUME fromDevice # <<>>, fromDevice' = Tail(fromDevice)
        PROVE  \A i \in DOMAIN fromDevice' :
                  /\ i \in Nat /\ i + 1 \in DOMAIN fromDevice
                  /\ fromDevice'[i] = fromDevice[i + 1]
    BY <1>1, <1>2, Shifting
  <1>3. Told("power", None, "off", 0) \in Report
    BY ToldTypes
  <1>4. Told("power", None, "off", 0).kind # "value"
    BY DEF Told
  <1>5. ASSUME fromDevice' = Append(fromDevice, Told("power", None, "off", 0))
        PROVE  \A i \in DOMAIN fromDevice' : fromDevice'[i].kind = "value" =>
                   i \in DOMAIN fromDevice /\ fromDevice'[i] = fromDevice[i]
    BY <1>1, <1>3, <1>4, <1>5, Appending
  <1> QED BY <1>1, <1>2, <1>5

LEMMA StepTruth ==
  ASSUME TypesOK, NEW b \in BOOLEAN, b => NumberFree, TruthInvariant(b),
         [Next]_vars
  PROVE  TruthInvariant(b)'
  <1>1. CASE \/ AlreadyOpen \/ OpenFails \/ Handshake \/ Disconnect
             \/ NoteFunction \/ EmergencyStop \/ ClearSpeeds \/ ReaderFails
             \/ UNCHANGED vars
    <2>1. /\ decoder' = decoder /\ outcome' = outcome /\ part' = part
          /\ clean' = clean /\ heard' = heard /\ fromDevice' = fromDevice
          /\ Busy' => op' = op /\ stage' = stage
      BY <1>1
      DEF AlreadyOpen, OpenFails, Handshake, Disconnect, NoteFunction,
          EmergencyStop, ClearSpeeds, ReaderFails, vars, request, device, line,
          Busy
    <2>2. \/ toDevice' = toDevice
          \/ toDevice' = Append(toDevice, Framed(Plain("status")))
          \/ toDevice' = Append(toDevice, Framed(Plain("emergency")))
      BY <1>1
      DEF AlreadyOpen, OpenFails, Handshake, Disconnect, NoteFunction,
          EmergencyStop, ClearSpeeds, ReaderFails, vars, line
    <2>3. Busy' => Busy
      BY <2>1 DEF Busy
    <2> QED BY <2>1, <2>2, <2>3, KeepsPrograms, KeepsValues, TruthQuiet
  <1>2. CASE Open
    <2>1. /\ decoder' = decoder /\ outcome' = outcome /\ ~Busy'
          /\ fromDevice' \in {fromDevice, <<>>}
          /\ toDevice' = Greeting \/ toDevice' = toDevice \o Greeting
      BY <1>2 DEF Open, device, Busy
    <2> QED BY <2>1, KeepsPrograms, KeepsValues, TruthQuiet
  <1>3. CASE Trip \/ Noise
    <2>1. /\ decoder' = decoder /\ toDevice' = toDevice
          /\ UNCHANGED <<op, part, stage, heard, outcome, clean>>
          /\ \/ fromDevice # <<>> /\ fromDevice' = Tail(fromDevice)
             \/ fromDevice' = Append(fromDevice, Told("power", None, "off", 0))
      BY <1>3 DEF Trip, Noise, request, device
    <2>2. Busy' => Busy
      BY <2>1 DEF Busy
    <2> QED BY <2>1, <2>2, KeepsPrograms, KeepsValues, TruthQuiet
  <1>4. CASE Check
    <2>1. CASE stage' = "send"
      <3>1. /\ decoder' = decoder /\ toDevice' = toDevice /\ fromDevice' = fromDevice
            /\ UNCHANGED <<op, part, heard, outcome, clean>>
            /\ Busy /\ stage # "wait"
        BY <1>4, <2>1 DEF Check, Return, device, line, Busy
      <3> QED BY <3>1, KeepsPrograms, KeepsValues, TruthQuiet
    <2>2. CASE stage' # "send"
      BY <1>4, <2>2, TruthEnds DEF Check, Return, Busy, Confirmed
    <2> QED BY <2>1, <2>2
  <1>5. CASE SendFails \/ TimesOut
    <2>1. ~Busy' /\ ~Confirmed'
      BY <1>5 DEF SendFails, TimesOut, Return, Busy, Confirmed
    <2> QED BY <2>1, TruthEnds
  <1> QED
    BY <1>1, <1>2, <1>3, <1>4, <1>5, TruthBegin, TruthSend, TruthFound,
       TruthHears, TruthDevice DEF Next

(* A confirmed value of the decoder's address is what the decoder holds, if *)
(* no answer about it was outstanding when the operation began              *)
(* (station.py, read_address and program_address).                          *)
THEOREM StationAddressTruthful == Spec => []AddressTruthful
  <1>1. TypesOK /\ TruthInvariant(FALSE) /\ [Next]_vars => TruthInvariant(FALSE)'
    BY StepTruth
  <1>2. Init => TruthInvariant(FALSE)
    BY InitTruth
  <1>3. TruthInvariant(FALSE) => AddressTruthful
    BY ItemAssumption
    DEF TruthInvariant, StaysTrue, AddressTruthful, Confirmed, Item
  <1> QED BY <1>1, <1>2, <1>3, TypesAlways, PTL DEF Spec

(* A CV that was confirmed is what the decoder holds, as long as the number *)
(* that a read draws is not that of an answer still outstanding.            *)
THEOREM StationCvTruthful == Spec /\ []NumberFree => []CvTruthful
  <1>1. TypesOK /\ NumberFree /\ TruthInvariant(TRUE) /\ [Next]_vars
            => TruthInvariant(TRUE)'
    BY StepTruth
  <1>2. Init => TruthInvariant(TRUE)
    BY InitTruth
  <1>3. TruthInvariant(TRUE) => CvTruthful
    BY DEF TruthInvariant, StaysTrue, CvTruthful, Confirmed, Item
  <1> QED BY <1>1, <1>2, <1>3, TypesAlways, PTL DEF Spec

----------------------------------------------------------------------------
(* The numbers suffice while fewer operations are called than there are     *)
(* numbers: each draws at most one.                                         *)

ScenariosShort == \A s \in Scenarios : Len(s.calls) < Callbacks

(* A write that is under way is still to be read back. *)
ToDraw == IF Busy /\ part.kind = "write" THEN 1 ELSE 0

DrawnNumbers(n) ==
    /\ \A i \in DOMAIN toDevice : toDevice[i].body.callback <= n
    /\ \A i \in DOMAIN fromDevice : fromDevice[i].callback <= n

NumbersInvariant ==
    /\ callback + Len(calls) + ToDraw < Callbacks
    /\ Busy => part.callback <= callback
    /\ DrawnNumbers(callback)

LEMMA InitNumbers == ScenariosShort /\ Init => NumbersInvariant
  <1> SUFFICES ASSUME ScenariosShort, Init PROVE NumbersInvariant
    OBVIOUS
  <1>1. PICK s \in Scenarios : calls = s.calls
    BY DEF Init
  <1>2. Len(calls) < Callbacks /\ Len(calls) \in Nat
    BY <1>1, ScenariosAssumption DEF ScenariosShort, Scenario
  <1>3. ToDraw = 0 /\ callback = 0 /\ ~Busy /\ toDevice = <<>> /\ fromDevice = <<>>
    BY DEF Init, ToDraw, Busy
  <1> QED BY <1>2, <1>3, CallbackAssumption DEF NumbersInvariant, DrawnNumbers

(* There is no wrap-around. *)
LEMMA NextNumber ==
  ASSUME callback \in 0..Callbacks, callback < Callbacks
  PROVE  NextCallback = callback + 1
  <1>1. callback \in Nat /\ Callbacks \in Nat
    BY CallbackAssumption
  <1>2. \A a, c \in Nat : a < c => a % c = a
    OBVIOUS
  <1> QED BY <1>1, <1>2 DEF NextCallback

LEMMA NumbersTypes ==
  ASSUME TypesOK
  PROVE  /\ callback \in Nat /\ Callbacks \in Nat /\ Len(calls) \in Nat
         /\ ToDraw \in {0, 1} /\ calls \in Seq(Operation)
         /\ toDevice \in Seq(Frame) /\ fromDevice \in Seq(Report)
         /\ \A f \in Frame : f.body.callback \in 0..Callbacks
         /\ \A r \in Report : r.callback \in 0..Callbacks
  <1>1. /\ callback \in Nat /\ Callbacks \in Nat /\ Len(calls) \in Nat
        /\ calls \in Seq(Operation) /\ ToDraw \in {0, 1}
        /\ toDevice \in Seq(Frame) /\ fromDevice \in Seq(Report)
    BY CallbackAssumption DEF TypesOK, RequestOK, LineOK, ToDraw
  <1>2. 0 \in 0..Callbacks
    BY CallbackAssumption
  <1>3. \A f \in Frame : f.body.callback \in 0..Callbacks
    BY <1>2 DEF Frame, Sendable, Part, Message
  <1>4. \A r \in Report : r.callback \in 0..Callbacks
    BY <1>2 DEF Report, Message
  <1> QED BY <1>1, <1>3, <1>4

LEMMA NumbersAreFree == TypesOK /\ NumbersInvariant => NumberFree
  <1> SUFFICES ASSUME TypesOK, NumbersInvariant PROVE NumberFree
    OBVIOUS
  <1>1. callback < Callbacks /\ callback \in 0..Callbacks
    BY NumbersTypes DEF NumbersInvariant
  <1>2. NextCallback = callback + 1
    BY <1>1, NextNumber
  <1>3. /\ \A i \in DOMAIN toDevice : toDevice[i].body.callback \in Nat
        /\ \A i \in DOMAIN fromDevice : fromDevice[i].callback \in Nat
    BY NumbersTypes
  <1> QED
    BY <1>1, <1>2, <1>3, NumbersTypes DEF NumbersInvariant, DrawnNumbers, NumberFree

(* Frames and reports with no new number. *)
LEMMA NumbersQuiet ==
  ASSUME TypesOK, NumbersInvariant, callback' = callback,
         calls' = calls \/ (calls # <<>> /\ calls' = Tail(calls)),
         Busy' => Busy /\ part' = part,
         \A i \in DOMAIN toDevice' :
             \/ toDevice'[i].body.callback = 0
             \/ Busy /\ toDevice'[i].body = part
             \/ \E j \in DOMAIN toDevice : toDevice'[i] = toDevice[j],
         \A i \in DOMAIN fromDevice' :
             \/ fromDevice'[i].callback = 0
             \/ \E j \in DOMAIN fromDevice : fromDevice'[i] = fromDevice[j]
             \/ \E j \in DOMAIN toDevice :
                    fromDevice'[i].callback = toDevice[j].body.callback
  PROVE  NumbersInvariant'
  <1>1. Len(calls') \in Nat /\ Len(calls') <= Len(calls)
    <2>1. CASE calls' = calls
      BY <2>1, NumbersTypes
    <2>2. CASE calls # <<>> /\ calls' = Tail(calls)
      <3>1. Len(calls) > 0
        BY <2>2, NumbersTypes
      <3> QED BY <2>2, <3>1, NumbersTypes
    <2> QED BY <2>1, <2>2
  <1>2. ToDraw' <= ToDraw /\ ToDraw' \in {0, 1}
    BY DEF ToDraw
  <1>3. callback' + Len(calls') + ToDraw' < Callbacks
    BY <1>1, <1>2, NumbersTypes DEF NumbersInvariant
  <1>4. DrawnNumbers(callback)'
    BY NumbersTypes DEF NumbersInvariant, DrawnNumbers
  <1> QED BY <1>3, <1>4 DEF NumbersInvariant

(* What a step does to the reports' numbers. *)
LEMMA NumbersReports ==
  ASSUME TypesOK,
         \/ fromDevice' \in {fromDevice, <<>>}
         \/ fromDevice # <<>> /\ fromDevice' = Tail(fromDevice)
         \/ fromDevice' = Append(fromDevice, Told("power", None, "off", 0))
  PROVE  \A i \in DOMAIN fromDevice' :
             \/ fromDevice'[i].callback = 0
             \/ \E j \in DOMAIN fromDevice : fromDevice'[i] = fromDevice[j]
  <1>1. fromDevice \in Seq(Report) /\ Told("power", None, "off", 0) \in Report
    BY ToldTypes, NumbersTypes
  <1>2. CASE fromDevice' \in {fromDevice, <<>>}
    BY <1>2
  <1>3. CASE fromDevice # <<>> /\ fromDevice' = Tail(fromDevice)
    BY <1>1, <1>3, Shifting
  <1>4. CASE fromDevice' = Append(fromDevice, Told("power", None, "off", 0))
    BY <1>1, <1>4, Appending DEF Told
  <1> QED BY <1>2, <1>3, <1>4

LEMMA NumbersFrames ==
  ASSUME TypesOK,
         \/ toDevice' = toDevice \/ toDevice' = Greeting
         \/ toDevice' = toDevice \o Greeting
         \/ toDevice' = Append(toDevice, Framed(Plain("status")))
         \/ toDevice' = Append(toDevice, Framed(Plain("emergency")))
         \/ Busy /\ toDevice' = Append(toDevice, Framed(part))
  PROVE  \A i \in DOMAIN toDevice' :
             \/ toDevice'[i].body.callback = 0
             \/ Busy /\ toDevice'[i].body = part
             \/ \E j \in DOMAIN toDevice : toDevice'[i] = toDevice[j]
  <1>1. toDevice \in Seq(Frame) /\ doubt \in BOOLEAN /\ Greeting \in Seq(Frame)
    BY NumbersTypes, HarmlessFrames DEF TypesOK, BeliefOK
  <1>2. \A k \in DOMAIN Greeting : Greeting[k].body.callback = 0
    BY DEF Greeting, Framed, Plain, Told
  <1>3. \A kind \in {"status", "emergency"} :
            /\ Framed(Plain(kind)) \in Frame
            /\ Framed(Plain(kind)).body.callback = 0
    <2>1. \A kind \in {"status", "emergency"} : Framed(Plain(kind)) \in Frame
      BY <1>1, PlainTypes, FramedTypes
    <2> QED BY <2>1 DEF Framed, Plain, Told
  <1>4. CASE toDevice' = toDevice \/ toDevice' = Greeting
    BY <1>2, <1>4
  <1>5. CASE toDevice' = toDevice \o Greeting
    <2> SUFFICES ASSUME NEW i \in DOMAIN toDevice'
                 PROVE  \/ toDevice'[i].body.callback = 0
                        \/ \E j \in DOMAIN toDevice : toDevice'[i] = toDevice[j]
      OBVIOUS
    <2>1. /\ Len(toDevice) \in Nat /\ i \in Nat
          /\ \A k \in DOMAIN toDevice : toDevice'[k] = toDevice[k]
          /\ \A k \in DOMAIN Greeting : toDevice'[Len(toDevice) + k] = Greeting[k]
          /\ i \in DOMAIN toDevice \/ i - Len(toDevice) \in DOMAIN Greeting
      BY <1>1, <1>5, Joining
    <2>2. i - Len(toDevice) \in DOMAIN Greeting
              => toDevice'[i] = Greeting[i - Len(toDevice)]
      BY <2>1
    <2> QED BY <1>2, <2>1, <2>2
  <1>6. CASE \/ toDevice' = Append(toDevice, Framed(Plain("status")))
             \/ toDevice' = Append(toDevice, Framed(Plain("emergency")))
    BY <1>1, <1>3, <1>6, Appending
  <1>7. CASE Busy /\ toDevice' = Append(toDevice, Framed(part))
    <2>1. Framed(part) \in Frame /\ Framed(part).body = part
      BY <1>1, <1>7, FramedTypes DEF Busy, TypesOK, PartOK, Sendable, Framed
    <2> QED BY <1>1, <1>7, <2>1, Appending
  <1> QED BY <1>4, <1>5, <1>6, <1>7

(* A number is drawn, or a write still has to draw one. *)
LEMMA NumbersPrepare ==
  ASSUME TypesOK, NumbersInvariant, UNCHANGED <<toDevice, fromDevice>>,
         NEW kind, NEW item, NEW value, Prepare(PartOf(kind, item, value)),
         Len(calls') \in Nat, Len(calls') + 1 <= Len(calls) + ToDraw
  PROVE  NumbersInvariant'
  <1>1. /\ part'.kind = kind
        /\ part'.callback = (IF kind = "read" /\ item \in Cv THEN NextCallback ELSE 0)
        /\ callback' = IF part'.callback = 0 THEN callback ELSE part'.callback
    BY DEF Prepare, PartOf
  <1>2. NextCallback = callback + 1
    BY NextNumber, NumbersTypes DEF NumbersInvariant, TypesOK, RequestOK
  <1>3. /\ callback' \in Nat /\ callback <= callback' /\ part'.callback <= callback'
        /\ kind # "read" => callback' = callback
        /\ callback' <= callback + 1
    BY <1>1, <1>2, NumbersTypes
  <1>4. ToDraw' = IF kind = "write" THEN 1 ELSE 0
    BY <1>1 DEF ToDraw, Busy, Prepare
  <1>5. callback' + Len(calls') + ToDraw' < Callbacks
    BY <1>3, <1>4, NumbersTypes DEF NumbersInvariant
  <1>6. DrawnNumbers(callback)'
    <2>1. /\ \A i \in DOMAIN toDevice : toDevice[i].body.callback \in Nat
          /\ \A i \in DOMAIN fromDevice : fromDevice[i].callback \in Nat
      BY NumbersTypes
    <2> QED BY <1>3, <2>1, NumbersTypes DEF NumbersInvariant, DrawnNumbers
  <1> QED BY <1>3, <1>5, <1>6 DEF NumbersInvariant

LEMMA NumbersDraw ==
  ASSUME TypesOK, NumbersInvariant, Begin \/ Found
  PROVE  NumbersInvariant'
  <1>1. UNCHANGED <<toDevice, fromDevice>>
    BY DEF Begin, Found, line
  <1>2. CASE Begin
    <2>1. PICK kind, item, value :
              /\ Prepare(PartOf(kind, item, value))
              /\ op = None /\ calls # <<>> /\ calls' = Tail(calls)
      BY <1>2 DEF Begin, Call
    <2>2. Len(calls') \in Nat /\ Len(calls') + 1 = Len(calls)
      BY <2>1, NumbersTypes, Shifting
    <2>3. Len(calls') + 1 <= Len(calls) + ToDraw
      BY <2>2, NumbersTypes
    <2> QED BY <1>1, <2>1, <2>2, <2>3, NumbersPrepare
  <1>3. CASE Found
    <2>1. PICK r : Conclude(r)
      BY <1>3 DEF Found
    <2>2. stage = "wait"
      BY <1>3 DEF Found
    <2>3. CASE Prepare(PartOf("read", part.item, None)) /\ part.kind = "write" /\ calls' = calls
      <3>1. ToDraw = 1
        BY <2>2, <2>3 DEF ToDraw, Busy
      <3> QED BY <1>1, <2>3, <3>1, NumbersTypes, NumbersPrepare
    <2>4. CASE ~Busy' /\ callback' = callback /\ calls' = calls
      BY <1>1, <2>4, NumbersQuiet
    <2> QED BY <2>1, <2>3, <2>4 DEF Conclude, Return, Busy
  <1> QED BY <1>2, <1>3

LEMMA NumbersDevice ==
  ASSUME TypesOK, NumbersInvariant, DeviceExecutes
  PROVE  NumbersInvariant'
  <1>1. /\ UNCHANGED <<part, stage, callback, calls>>
        /\ toDevice' = Tail(toDevice) /\ toDevice \in Seq(Frame) /\ toDevice # <<>>
        /\ fromDevice \in Seq(Report)
    BY HeadTypes DEF DeviceExecutes, request, TypesOK, LineOK
  <1>2. /\ \A i \in DOMAIN toDevice' : \E j \in DOMAIN toDevice : toDevice'[i] = toDevice[j]
        /\ 1 \in DOMAIN toDevice /\ toDevice[1] = Head(toDevice)
    BY <1>1, Shifting
  <1>3. \A i \in DOMAIN fromDevice' :
            \/ fromDevice'[i].callback = 0
            \/ \E j \in DOMAIN fromDevice : fromDevice'[i] = fromDevice[j]
            \/ \E j \in DOMAIN toDevice :
                   fromDevice'[i].callback = toDevice[j].body.callback
    <2>1. CASE ~Programs(Head(toDevice))
      <3>1. /\ fromDevice' \in Seq(Report)
            /\ \A r \in Report : r.kind # "value" => r.callback = 0
        BY DeviceTypes DEF TypesOK, LineOK, Report, Message
      <3> QED BY <2>1, <3>1, DeviceAnswers
    <2>2. CASE Programs(Head(toDevice))
      <3>1. PICK r \in Report :
                /\ fromDevice' = Append(fromDevice, r)
                /\ r.callback = Head(toDevice).body.callback
        BY <2>2, DeviceAnswers
      <3> QED BY <1>1, <1>2, <3>1, Appending
    <2> QED BY <2>1, <2>2
  <1>4. Busy' => Busy
    BY <1>1 DEF Busy
  <1> QED BY <1>1, <1>2, <1>3, <1>4, NumbersQuiet

LEMMA StepNumbers ==
  ASSUME TypesOK, NumbersInvariant, [Next]_vars
  PROVE  NumbersInvariant'
  <1>1. CASE \/ Open \/ AlreadyOpen \/ OpenFails \/ Handshake \/ Disconnect
             \/ NoteFunction \/ EmergencyStop \/ ClearSpeeds \/ ReadReport
             \/ ReaderFails \/ Trip \/ Noise \/ UNCHANGED vars
    <2>1. /\ callback' = callback /\ part' = part
          /\ calls' = calls \/ (calls # <<>> /\ calls' = Tail(calls))
          /\ Busy' => Busy
      BY <1>1
      DEF Open, AlreadyOpen, OpenFails, Handshake, Disconnect, NoteFunction,
          EmergencyStop, ClearSpeeds, ReadReport, ReaderFails, Trip, Noise,
          vars, request, Call, Busy
    <2>2. \/ toDevice' = toDevice \/ toDevice' = Greeting
          \/ toDevice' = toDevice \o Greeting
          \/ toDevice' = Append(toDevice, Framed(Plain("status")))
          \/ toDevice' = Append(toDevice, Framed(Plain("emergency")))
      BY <1>1
      DEF Open, AlreadyOpen, OpenFails, Handshake, Disconnect, NoteFunction,
          EmergencyStop, ClearSpeeds, ReadReport, ReaderFails, Trip, Noise,
          vars, line
    <2>3. \/ fromDevice' \in {fromDevice, <<>>}
          \/ fromDevice # <<>> /\ fromDevice' = Tail(fromDevice)
          \/ fromDevice' = Append(fromDevice, Told("power", None, "off", 0))
      BY <1>1
      DEF Open, AlreadyOpen, OpenFails, Handshake, Disconnect, NoteFunction,
          EmergencyStop, ClearSpeeds, ReadReport, ReaderFails, Trip, Noise,
          vars, line
    <2> QED BY <2>1, <2>2, <2>3, NumbersFrames, NumbersReports, NumbersQuiet
  <1>2. CASE Check \/ Send \/ SendFails \/ TimesOut
    <2>1. /\ callback' = callback /\ calls' = calls /\ Busy
          /\ Busy' => part' = part
          /\ fromDevice' = fromDevice
          /\ toDevice' = toDevice \/ toDevice' = Append(toDevice, Framed(part))
      BY <1>2 DEF Check, Send, SendFails, TimesOut, Return, line, Busy
    <2> QED BY <2>1, NumbersFrames, NumbersReports, NumbersQuiet
  <1> QED BY <1>1, <1>2, NumbersDraw, NumbersDevice DEF Next

(* As long as fewer operations are called than there are callback numbers,  *)
(* the number drawn next is free, and a confirmed CV is what the decoder    *)
(* holds (station.py, _next_program_callback).                              *)
THEOREM StationNumbersLast ==
  ASSUME ScenariosShort
  PROVE  Spec => [](NumberFree /\ CvTruthful)
  <1>1. Init => NumbersInvariant
    BY InitNumbers
  <1>2. TypesOK /\ NumbersInvariant /\ [Next]_vars => NumbersInvariant'
    BY StepNumbers
  <1>3. Spec => []NumberFree
    BY <1>1, <1>2, NumbersAreFree, TypesAlways, PTL DEF Spec
  <1> QED BY <1>3, StationCvTruthful, PTL
=============================================================================
