----------------------- MODULE OperatorConsoleProofs -----------------------
(***************************************************************************)
(* Theorems about OperatorConsole, for any number of commands, locomotives *)
(* and scenarios.  The argument: ConsoleInvariant says which answers a     *)
(* command can have at each of its waits; on it rest the locks of the      *)
(* buttons, HMI's account of its slots, the pill of the programming page,  *)
(* and the refinement of CommandPromise.                                   *)
(***************************************************************************)
EXTENDS OperatorConsole, FiniteSetTheorems, TLAPS

(* A command's request, replies and answers at each of its waits.           *)
Fits(c) ==
    /\ step[c] # "unused" =>
        /\ request[c] \in Request
        /\ request[c].kind = "write" => request[c].target \in Address
        /\ request[c].kind = "function" => request[c].target \in Pair
    /\ step[c] \in {"unused", "connecting"} => stage[c] = "idle"
    /\ stage[c] = "idle" => fate[c] = "open"
    /\ stage[c] \notin {"reported", "closed"} => result[c] = "none"
    /\ sid[c] <= session

Replied(c) ==
    /\ step[c] \notin {"reading", "listing"} => reply[c] = None
    /\ step[c] = "reading" => reply[c] \in Snapshot \cup {None}
    /\ step[c] = "listing" => reply[c] \in Address \cup {None}

Told(c) ==
    /\ step[c] \notin {"reading", "settled"} => answer[c] = "none"
    /\ step[c] = "reading" => answer[c] = "accepted"
    /\ step[c] = "listing" => result[c] = "completed"
    /\ result[c] = "completed" => fate[c] = "applied"
    /\ answer[c] = "completed" => fate[c] = "applied"

Consistent == \A c \in Command : Fits(c) /\ Replied(c) /\ Told(c)

ConsoleInvariant == TypeOK /\ Consistent

USE DEF coreVars, wireVars, hmiVars, linkVars, gatewayVars, clickVars,
        shownVars, loadVars, trackVars, pageVars, vars, beyondVars, idleVars

LEMMA InitConsole == Init => ConsoleInvariant
  <1> SUFFICES ASSUME Init PROVE ConsoleInvariant
    OBVIOUS
  <1>1. scenario \in Scenario
    BY ScenarioAssumption DEF Init, GatewayInit
  <1>2. core \in Snapshot /\ view \in Snapshot /\ first \in Snapshot
    BY <1>1 DEF Init, GatewayInit, Snapshot, Scenario, initialSnapshot
  <1>3. Cardinality(outstanding) <= MaxOutstanding
    BY FS_EmptySet, LimitAssumption DEF Init, GatewayInit
  <1>a. /\ decoder \in Address /\ recorded \in Address
        /\ fate \in [Command -> {"open", "applied", "half", "refused"}]
        /\ reported \in [Command -> Address \cup {None}]
        /\ request \in [Command -> Request \cup {None}]
        /\ seq \in [Command -> Int]
        /\ sid \in [Command -> Nat]
    BY AddressAssumption DEF Init, GatewayInit
  <1>b. /\ stage \in [Command -> Taken \cup {"idle", "arriving", "rejected"}]
        /\ result \in [Command -> {"none", "completed", "failed"}]
        /\ outstanding \subseteq Command
        /\ mail \subseteq Snapshot
        /\ session \in Nat /\ lastSeq \in Int
    BY DEF Init, GatewayInit
  <1>c. connected \in BOOLEAN /\ changed \in BOOLEAN /\ others \in BOOLEAN
    BY DEF Init, GatewayInit
  <1>4. GatewayTypeOK
    BY <1>2, <1>3, <1>a, <1>b, <1>c DEF Init, GatewayInit, GatewayTypeOK
  <1>5. TypeOK
    BY <1>2, <1>4 DEF Init, TypeOK
  <1>6. Consistent
    BY <1>5, LimitAssumption DEF Init, GatewayInit, Consistent, Fits, Replied, Told
  <1> QED BY <1>5, <1>6 DEF ConsoleInvariant

(* What Core makes of a request is a snapshot.                              *)
LEMMA AfterIsSnapshot ==
  ASSUME core \in Snapshot, NEW r \in Request
  PROVE  After(r) \in Snapshot
  <1>1. core \in [ready : BOOLEAN, power : {"unknown", "off", "on"},
                  latched : BOOLEAN, functions : [Pair -> {"none", "off", "on"}]]
    BY DEF Snapshot
  <1>2. CASE r.kind = "function"
    BY <1>1, <1>2 DEF After, Snapshot
  <1>3. CASE r.kind \in {"disconnect", "connect"}
    BY <1>1, <1>3 DEF After, Snapshot
  <1>4. CASE r.kind \notin {"function", "disconnect", "connect"}
    BY <1>1, <1>4 DEF After, Snapshot
  <1> QED BY <1>2, <1>3, <1>4

(* Slots taken and given back.                                              *)
LEMMA SlotsFinite ==
  ASSUME TypeOK
  PROVE  /\ IsFiniteSet(outstanding)
         /\ Cardinality(outstanding) \in Nat
  <1>1. outstanding \subseteq Command
    BY DEF TypeOK, GatewayTypeOK
  <1> QED BY <1>1, CommandAssumption, FS_Subset, FS_CardinalityType

LEMMA SlotTaken ==
  ASSUME TypeOK, NEW c \in Command, HasRoom
  PROVE  Cardinality(outstanding \cup {c}) <= MaxOutstanding
  <1>1. Cardinality(outstanding \cup {c}) \in
            {Cardinality(outstanding), Cardinality(outstanding) + 1}
    BY SlotsFinite, FS_AddElement
  <1> QED BY <1>1, SlotsFinite, LimitAssumption DEF HasRoom

LEMMA SlotReturned ==
  ASSUME TypeOK, NEW c \in Command
  PROVE  Cardinality(outstanding \ {c}) <= MaxOutstanding
  <1>1. Cardinality(outstanding \ {c}) \in
            {Cardinality(outstanding), Cardinality(outstanding) - 1}
    BY SlotsFinite, FS_RemoveElement
  <1>2. Cardinality(outstanding) <= MaxOutstanding
    BY DEF TypeOK, GatewayTypeOK
  <1> QED BY <1>1, <1>2, SlotsFinite, LimitAssumption

(* The gateway's steps. *)
LEMMA CoreKeeps ==
  ASSUME ConsoleInvariant, NEW c \in Command,
         CoreApplies(c) \/ CoreAppliesHalf(c) \/ CoreRefuses(c),
         UNCHANGED pageVars
  PROVE  ConsoleInvariant'
  <1>1. TypeOK /\ Fits(c) /\ Consistent
    BY DEF ConsoleInvariant, Consistent
  <1>2. stage[c] \in Taken /\ fate[c] = "open"
    BY DEF CoreApplies, CoreAppliesHalf, CoreRefuses, Undecided
  <1>3. step[c] \notin {"unused", "connecting"} /\ request[c] \in Request
    BY <1>1, <1>2 DEF Fits, Taken
  <1>4. core' \in Snapshot
    BY <1>1, <1>3, AfterIsSnapshot
    DEF CoreApplies, CoreAppliesHalf, CoreRefuses, TypeOK, GatewayTypeOK
  <1>5. /\ decoder' \in Address
        /\ recorded' \in Address
    BY <1>1, <1>3
    DEF CoreApplies, CoreAppliesHalf, CoreRefuses, TypeOK, GatewayTypeOK, Fits
  <1>6. /\ fate' \in [Command -> {"open", "applied", "half", "refused"}]
        /\ reported' \in [Command -> Address \cup {None}]
    BY <1>1, <1>5
    DEF CoreApplies, CoreAppliesHalf, CoreRefuses, TypeOK, GatewayTypeOK
  <1>7. /\ UNCHANGED <<scenario, others, wireVars, hmiVars, linkVars, mail>>
        /\ changed' \in BOOLEAN
    BY <1>1
    DEF CoreApplies, CoreAppliesHalf, CoreRefuses, TypeOK, GatewayTypeOK
  <1>8. TypeOK'
    BY <1>1, <1>4, <1>5, <1>6, <1>7 DEF TypeOK, GatewayTypeOK
  <1>9. \A d \in Command : d # c => fate'[d] = fate[d]
    BY <1>1 DEF CoreApplies, CoreAppliesHalf, CoreRefuses, TypeOK, GatewayTypeOK
  <1>10. Consistent'
    BY <1>1, <1>2, <1>7, <1>9 DEF Consistent, Fits, Replied, Told, Taken
  <1> QED BY <1>8, <1>10 DEF ConsoleInvariant

LEMMA ElsewhereKeeps ==
  ASSUME ConsoleInvariant, NEW r \in scenario.elsewhere, CommandElsewhere(r),
         UNCHANGED pageVars
  PROVE  ConsoleInvariant'
  <1>1. TypeOK /\ Consistent
    BY DEF ConsoleInvariant
  <1>2. r \in Request
    BY <1>1, ScenarioAssumption DEF TypeOK, GatewayTypeOK, Scenario
  <1>3. core' \in Snapshot
    BY <1>1, <1>2, AfterIsSnapshot DEF CommandElsewhere, TypeOK, GatewayTypeOK
  <1>4. TypeOK'
    BY <1>1, <1>3 DEF TypeOK, GatewayTypeOK, CommandElsewhere
  <1>5. Consistent'
    BY <1>1 DEF Consistent, Fits, Replied, Told, CommandElsewhere
  <1> QED BY <1>4, <1>5 DEF ConsoleInvariant

LEMMA LinkKeeps ==
  ASSUME ConsoleInvariant, Connected \/ Disconnected \/ MonitorPushes,
         UNCHANGED pageVars
  PROVE  ConsoleInvariant'
  <1>1. TypeOK /\ Consistent
    BY DEF ConsoleInvariant
  <1>2. Cardinality({}) <= MaxOutstanding
    BY FS_EmptySet, LimitAssumption
  <1>b. mail' \subseteq Snapshot
    BY <1>1 DEF TypeOK, GatewayTypeOK, Connected, Disconnected, MonitorPushes
  <1>c. connected' \in BOOLEAN /\ changed' \in BOOLEAN
    BY <1>1 DEF TypeOK, GatewayTypeOK, Connected, Disconnected, MonitorPushes
  <1>f. /\ session \in Nat /\ lastSeq \in Int /\ outstanding \subseteq Command
        /\ Cardinality(outstanding) <= MaxOutstanding
    BY <1>1 DEF TypeOK, GatewayTypeOK
  <1>d. /\ session' \in Nat /\ lastSeq' \in Int /\ outstanding' \subseteq Command
        /\ Cardinality(outstanding') <= MaxOutstanding
    <2>1. CASE Connected
      BY <1>2, <1>f, <2>1 DEF Connected
    <2>2. CASE Disconnected
      BY <1>2, <1>f, <2>2 DEF Disconnected
    <2>3. CASE MonitorPushes
      BY <1>f, <2>3 DEF MonitorPushes
    <2> QED BY <2>1, <2>2, <2>3
  <1>e. /\ UNCHANGED <<scenario, core, decoder, recorded, fate, reported>>
        /\ UNCHANGED <<others, request, seq, sid, stage, result>>
    BY DEF Connected, Disconnected, MonitorPushes
  <1>3. TypeOK'
    BY <1>1, <1>b, <1>c, <1>d, <1>e DEF TypeOK, GatewayTypeOK
  <1>4. /\ session \in Nat /\ session' \in {session, session + 1}
        /\ \A c \in Command : sid[c] \in Nat
    BY <1>1 DEF TypeOK, GatewayTypeOK, Connected, Disconnected, MonitorPushes
  <1>a. UNCHANGED <<fate, request, sid, stage, result, step, answer, reply>>
    BY DEF Connected, Disconnected, MonitorPushes
  <1>5. Consistent'
    BY <1>1, <1>4, <1>a DEF Consistent, Fits, Replied, Told
  <1> QED BY <1>3, <1>5 DEF ConsoleInvariant

LEMMA HandlerKeeps ==
  ASSUME ConsoleInvariant, NEW c \in Command,
         \/ AcceptCommand(c) \/ RejectCommand(c) \/ CallReturns(c)
         \/ CallFails(c) \/ PushAfterCommand(c),
         UNCHANGED pageVars
  PROVE  ConsoleInvariant'
  <1>1. TypeOK /\ Consistent
    BY DEF ConsoleInvariant
  <1>2. Cardinality(outstanding') <= MaxOutstanding
    BY <1>1, SlotTaken, SlotReturned
    DEF AcceptCommand, RejectCommand, CallReturns, CallFails, Finish,
        PushAfterCommand, TypeOK, GatewayTypeOK
  <1>a. changed' \in BOOLEAN
    BY <1>1
    DEF AcceptCommand, RejectCommand, CallReturns, CallFails, Finish,
        PushAfterCommand, TypeOK, GatewayTypeOK
  <1>b. mail' \subseteq Snapshot
    BY <1>1
    DEF AcceptCommand, RejectCommand, CallReturns, CallFails, Finish,
        PushAfterCommand, TypeOK, GatewayTypeOK
  <1>3. lastSeq' \in Int
    BY <1>1
    DEF AcceptCommand, RejectCommand, CallReturns, CallFails, Finish,
        PushAfterCommand, TypeOK, GatewayTypeOK
  <1>4. stage' \in [Command -> Taken \cup {"idle", "arriving", "rejected"}]
    BY <1>1
    DEF AcceptCommand, RejectCommand, CallReturns, CallFails, Finish,
        PushAfterCommand, TypeOK, GatewayTypeOK, Taken
  <1>5. /\ result' \in [Command -> {"none", "completed", "failed"}]
        /\ outstanding' \subseteq Command
    BY <1>1
    DEF AcceptCommand, RejectCommand, CallReturns, CallFails, Finish,
        PushAfterCommand, TypeOK, GatewayTypeOK
  <1>6. /\ UNCHANGED <<scenario, core, decoder, recorded, fate, reported>>
        /\ UNCHANGED <<others, request, seq, sid, session, connected>>
    BY DEF AcceptCommand, RejectCommand, CallReturns, CallFails, Finish,
           PushAfterCommand
  <1>7. TypeOK'
    BY <1>1, <1>2, <1>3, <1>a, <1>b, <1>4, <1>5, <1>6 DEF TypeOK, GatewayTypeOK
  <1>8. /\ \A d \in Command : d # c => stage'[d] = stage[d] /\ result'[d] = result[d]
        /\ stage[c] # "idle" /\ stage'[c] # "idle"
        /\ result'[c] = "completed" => result[c] = "completed" \/ fate[c] = "applied"
        /\ step[c] = "listing" => result'[c] = result[c]
        /\ stage'[c] \notin {"reported", "closed"} => result'[c] = "none"
    BY <1>1
    DEF AcceptCommand, RejectCommand, CallReturns, CallFails, Finish,
        PushAfterCommand, TypeOK, GatewayTypeOK, Consistent, Told, Fits, Replied
  <1>9. Consistent'
    BY <1>1, <1>6, <1>8 DEF Consistent, Fits, Replied, Told
  <1> QED BY <1>7, <1>9 DEF ConsoleInvariant

(* The page's steps.  A button shows a pair, whatever is merged. *)
LEMMA MergeIsButtons ==
  ASSUME NEW v, NEW l, NEW b, NEW p
  PROVE  Merge(v, l, b, p) \subseteq Pair
  BY DEF Merge

(* Every click starts the same way. *)
LEMMA CallKeeps ==
  ASSUME ConsoleInvariant, NEW c \in Command, NEW kind \in Kind,
         NEW target \in Target, NEW on \in BOOLEAN, Call(c, kind, target, on),
         kind = "write" => target \in Address,
         kind = "function" => target \in Pair,
         shown' \subseteq Pair, timer' \in Loco \cup {None},
         UNCHANGED <<view, selected, reading, listed, chosen>>
  PROVE  ConsoleInvariant'
  <1>1. TypeOK /\ Consistent
    BY DEF ConsoleInvariant
  <1>2. step[c] = "unused"
    BY DEF Call, Fresh
  <1> DEFINE r == [kind |-> kind, target |-> target, on |-> on]
  <1>3. r \in Request /\ r.kind = kind /\ r.target = target
    BY DEF Request
  <1> HIDE DEF r
  <1>4. request' = [request EXCEPT ![c] = r]
    BY DEF Call, r
  <1>5. request' \in [Command -> Request \cup {None}]
    BY <1>1, <1>3, <1>4 DEF TypeOK, GatewayTypeOK
  <1>6. sid' \in [Command -> Nat] /\ \A d \in Command : sid'[d] <= session
    BY <1>1 DEF Call, TypeOK, GatewayTypeOK, Consistent, Fits
  <1>7. step' = [step EXCEPT ![c] = "connecting"]
    BY DEF Call
  <1>8. /\ UNCHANGED <<scenario, core, decoder, recorded, fate, reported>>
        /\ UNCHANGED <<others, stage, result, lastSeq, outstanding, session>>
        /\ UNCHANGED <<connected, changed, mail, seq, answer, nextSeq, reply>>
        /\ UNCHANGED <<loading, first>>
    BY DEF Call
  <1>9. TypeOK'
    BY <1>1, <1>5, <1>6, <1>7, <1>8 DEF TypeOK, GatewayTypeOK
  <1>10. Consistent'
    BY <1>1, <1>2, <1>3, <1>4, <1>6, <1>7, <1>8
    DEF TypeOK, GatewayTypeOK, Consistent, Fits, Replied, Told
  <1> QED BY <1>9, <1>10 DEF ConsoleInvariant

LEMMA ClickKeeps ==
  ASSUME ConsoleInvariant, NEW c \in Command, Click(c)
  PROVE  ConsoleInvariant'
  <1>1. TypeOK
    BY DEF ConsoleInvariant
  <1>2. /\ view.ready \in BOOLEAN /\ view.power \in {"unknown", "off", "on"}
        /\ (view.power # "on") \in BOOLEAN
        /\ shown \subseteq Pair /\ selected \in Loco \cup {None}
        /\ timer \in Loco \cup {None}
        /\ None \in Target /\ Loco \subseteq Target /\ Address \subseteq Target
        /\ Pair \subseteq Target
    BY <1>1 DEF TypeOK, Snapshot, Target
  <1>3. ASSUME NEW kind \in Kind, NEW target \in Target, NEW on \in BOOLEAN,
               Plain(c, kind, target, on), kind # "function",
               kind = "write" => target \in Address
        PROVE  ConsoleInvariant'
    BY <1>2, <1>3, CallKeeps DEF Plain
  <1>4. CASE PressDevice(c)
    <2>1. PICK kind \in {"connect", "disconnect"} : Plain(c, kind, None, FALSE)
      BY <1>4 DEF PressDevice
    <2> QED BY <1>2, <1>3, <2>1 DEF Kind
  <1>5. CASE PressPower(c)
    <2>1. Plain(c, "power", None, view.power # "on")
      BY <1>5 DEF PressPower
    <2> QED BY <1>2, <1>3, <2>1 DEF Kind
  <1>6. CASE PressEmergency(c)
    <2>1. /\ Call(c, "emergency", None, FALSE)
          /\ UNCHANGED <<view, shown, selected, reading, listed, chosen>>
          /\ timer' \in Loco \cup {None}
      BY <1>6 DEF PressEmergency
    <2> QED BY <1>2, <2>1, CallKeeps DEF Kind
  <1>7. CASE PressStop(c)
    <2>1. /\ Call(c, "stop", selected, FALSE)
          /\ UNCHANGED <<view, shown, selected, reading, listed, chosen>>
          /\ timer' \in Loco \cup {None} /\ selected \in Target
      BY <1>2, <1>7 DEF PressStop
    <2> QED BY <1>2, <2>1, CallKeeps DEF Kind
  <1>8. CASE PressResume(c)
    BY <1>2, <1>3, <1>8 DEF PressResume, Kind
  <1>9. CASE PressAccessory(c)
    BY <1>2, <1>3, <1>9 DEF PressAccessory, Kind
  <1>10. CASE \E n \in Number : ToggleFunction(c, n)
    <2>1. PICK n \in Number : ToggleFunction(c, n)
      BY <1>10
    <2>2. <<selected, n>> \in Pair
      BY <1>2, <2>1 DEF ToggleFunction, canOperate, Pair
    <2>3. (<<selected, n>> \notin shown) \in BOOLEAN
      OBVIOUS
    <2>4. /\ Call(c, "function", <<selected, n>>, <<selected, n>> \notin shown)
          /\ shown' \subseteq Pair
          /\ UNCHANGED <<view, selected, timer, reading, listed, chosen>>
      BY <1>2, <2>1, <2>2 DEF ToggleFunction
    <2> QED BY <1>2, <2>2, <2>3, <2>4, CallKeeps DEF Kind
  <1>11. CASE TimerFires(c)
    <2>1. /\ Call(c, "throttle", timer, FALSE)
          /\ UNCHANGED <<view, shown, selected, reading, listed, chosen>>
          /\ timer' \in Loco \cup {None} /\ timer \in Target
      BY <1>2, <1>11 DEF TimerFires
    <2> QED BY <1>2, <2>1, CallKeeps DEF Kind
  <1>12. CASE PressTrack(c, "read", None) \/ PressTrack(c, "cv", None)
    BY <1>2, <1>3, <1>12 DEF PressTrack, Kind
  <1>13. CASE \E a \in Address : PressTrack(c, "write", a)
    BY <1>2, <1>3, <1>13 DEF PressTrack, Kind
  <1> QED BY <1>4, <1>5, <1>6, <1>7, <1>8, <1>9, <1>10, <1>11, <1>12, <1>13
          DEF Click

(* Every command's function ends the same way. *)
LEMMA SettleKeeps ==
  ASSUME ConsoleInvariant, NEW c \in Command, InFlight(c),
         NEW word \in {"failed", "completed", answer[c]}, Settle(c, word),
         word = "completed" => fate[c] = "applied",
         view' \in Snapshot, shown' \subseteq Pair, UNCHANGED selected,
         reading' \in Address \cup {None}, listed' \in Address \cup {None},
         UNCHANGED chosen
  PROVE  ConsoleInvariant'
  <1>1. TypeOK /\ Consistent
    BY DEF ConsoleInvariant
  <1>2. step[c] \notin {"unused", "settled"}
    BY DEF InFlight
  <1>3. /\ step' = [step EXCEPT ![c] = "settled"]
        /\ answer' = [answer EXCEPT ![c] = word]
        /\ reply' = [reply EXCEPT ![c] = None]
    BY DEF Settle
  <1>4. word \in {"none", "accepted", "completed", "failed"}
    BY <1>1 DEF TypeOK
  <1>5. /\ UNCHANGED <<scenario, core, decoder, recorded, fate, reported>>
        /\ UNCHANGED <<others, stage, result, lastSeq, outstanding, session>>
        /\ UNCHANGED <<connected, changed, mail, seq, sid, nextSeq, request>>
        /\ UNCHANGED <<timer, loading, first>>
    BY DEF Settle
  <1>6. TypeOK'
    BY <1>1, <1>3, <1>4, <1>5 DEF TypeOK, GatewayTypeOK
  <1>7. Consistent'
    BY <1>1, <1>2, <1>3, <1>5 DEF TypeOK, Consistent, Fits, Replied, Told
  <1> QED BY <1>6, <1>7 DEF ConsoleInvariant

LEMMA FailKeeps ==
  ASSUME ConsoleInvariant, NEW c \in Command, InFlight(c), Fail(c)
  PROVE  ConsoleInvariant'
  <1>1. TypeOK /\ Fits(c)
    BY DEF ConsoleInvariant, Consistent
  <1>2. request[c].kind = "function" => request[c].target \in Pair
    BY <1>1 DEF InFlight, Fits
  <1>3. shown \subseteq Pair /\ view \in Snapshot
    BY <1>1 DEF TypeOK
  <1>4. shown' \subseteq Pair
    BY <1>2, <1>3 DEF Fail
  <1>5. /\ Settle(c, "failed")
        /\ UNCHANGED <<view, selected, reading, listed, chosen>>
    BY DEF Fail
  <1>6. reading \in Address \cup {None} /\ listed \in Address \cup {None}
    BY <1>1 DEF TypeOK
  <1> QED BY <1>3, <1>4, <1>5, <1>6, SettleKeeps

LEMMA WaitKeeps ==
  ASSUME ConsoleInvariant, NEW c \in Command,
         Send(c) \/ Acknowledged(c) \/ WriteCompleted(c)
  PROVE  ConsoleInvariant'
  <1>1. TypeOK /\ Consistent
    BY DEF ConsoleInvariant
  <1>2. CASE Send(c)
    <2>1. /\ step[c] = "connecting" /\ step' = [step EXCEPT ![c] = "sent"]
          /\ seq' = [seq EXCEPT ![c] = nextSeq] /\ nextSeq' = nextSeq + 1
          /\ sid' = [sid EXCEPT ![c] = session]
          /\ stage' = [stage EXCEPT ![c] = "arriving"]
      BY <1>2 DEF Send
    <2>2. /\ UNCHANGED <<scenario, core, decoder, recorded, fate, reported>>
          /\ UNCHANGED <<others, result, lastSeq, outstanding, session>>
          /\ UNCHANGED <<connected, changed, mail, answer, reply, request>>
          /\ UNCHANGED <<timer, loading, first, view, shown, selected>>
          /\ UNCHANGED <<reading, listed, chosen>>
      BY <1>2 DEF Send
    <2>3. TypeOK'
      BY <1>1, <2>1, <2>2 DEF TypeOK, GatewayTypeOK
    <2>4. Consistent'
      BY <1>1, <2>1, <2>2
      DEF TypeOK, GatewayTypeOK, Consistent, Fits, Replied, Told
    <2> QED BY <2>3, <2>4 DEF ConsoleInvariant
  <1>3. CASE Acknowledged(c) \/ WriteCompleted(c)
    <2>1. /\ step[c] \in {"sent", "awaiting"}
          /\ \E s \in {"awaiting", "reading", "listing"} :
                /\ step' = [step EXCEPT ![c] = s]
                /\ s = "reading" => answer' = [answer EXCEPT ![c] = "accepted"]
                /\ s # "reading" => answer' = answer
                /\ s = "listing" => result[c] = "completed"
      BY <1>3 DEF Acknowledged, WriteCompleted, EventOf
    <2>2. /\ UNCHANGED <<scenario, core, decoder, recorded, fate, reported>>
          /\ UNCHANGED <<others, stage, result, lastSeq, outstanding, session>>
          /\ UNCHANGED <<connected, changed, mail, reply, request, seq, sid>>
          /\ UNCHANGED <<nextSeq, timer, loading, first, view, shown, selected>>
          /\ UNCHANGED <<listed, chosen>>
      BY <1>3 DEF Acknowledged, WriteCompleted
    <2>3. reading' \in Address \cup {None}
      BY <1>1, <1>3
      DEF Acknowledged, WriteCompleted, TypeOK, GatewayTypeOK
    <2>4. TypeOK'
      BY <1>1, <2>1, <2>2, <2>3 DEF TypeOK, GatewayTypeOK
    <2>5. Consistent'
      BY <1>1, <2>1, <2>2 DEF TypeOK, Consistent, Fits, Replied, Told
    <2> QED BY <2>4, <2>5 DEF ConsoleInvariant
  <1> QED BY <1>2, <1>3

LEMMA ServeKeeps ==
  ASSUME ConsoleInvariant, NEW c \in Command, ServeSnapshot(c) \/ ServeList(c)
  PROVE  ConsoleInvariant'
  <1>1. TypeOK /\ Consistent
    BY DEF ConsoleInvariant
  <1>2. /\ \/ step[c] = "reading" /\ reply' = [reply EXCEPT ![c] = core]
           \/ step[c] = "listing" /\ reply' = [reply EXCEPT ![c] = recorded]
        /\ UNCHANGED <<scenario, core, decoder, recorded, fate, reported>>
        /\ UNCHANGED <<others, stage, result, lastSeq, outstanding, session>>
        /\ UNCHANGED <<connected, changed, mail, request, seq, sid, step>>
        /\ UNCHANGED <<nextSeq, timer, loading, first, view, shown, selected>>
        /\ UNCHANGED <<answer, reading, listed, chosen>>
    BY DEF ServeSnapshot, ServeList
  <1>3. TypeOK'
    BY <1>1, <1>2 DEF TypeOK, GatewayTypeOK
  <1>4. Consistent'
    BY <1>1, <1>2 DEF TypeOK, GatewayTypeOK, Consistent, Fits, Replied, Told
  <1> QED BY <1>3, <1>4 DEF ConsoleInvariant

LEMMA AwaitKeeps ==
  ASSUME ConsoleInvariant, NEW c \in Command, Await(c)
  PROVE  ConsoleInvariant'
  <1>1. TypeOK /\ Fits(c) /\ Replied(c) /\ Told(c)
    BY DEF ConsoleInvariant, Consistent
  <1>2. CASE Rejected(c) \/ TimesOut(c) \/ TrackFailed(c)
    BY <1>2, FailKeeps DEF Rejected, TimesOut, TrackFailed, EventOf, InFlight
  <1>3. CASE SnapshotArrives(c)
    <2>1. reply[c] \in Snapshot
      BY <1>1, <1>3 DEF SnapshotArrives, Replied
    <2>2. /\ InFlight(c) /\ Settle(c, answer[c])
          /\ answer[c] = "completed" => fate[c] = "applied"
      BY <1>1, <1>3 DEF SnapshotArrives, InFlight, Told
    <2>3. view' \in Snapshot /\ shown' \subseteq Pair /\ UNCHANGED selected
      BY <1>3, <2>1, MergeIsButtons DEF SnapshotArrives, Show
    <2>4. /\ UNCHANGED <<reading, listed, chosen>>
          /\ reading \in Address \cup {None} /\ listed \in Address \cup {None}
      BY <1>1, <1>3 DEF SnapshotArrives, TypeOK
    <2> QED BY <2>2, <2>3, <2>4, SettleKeeps
  <1>4. CASE TrackCompleted(c) \/ ListArrives(c)
    <2>1. /\ InFlight(c) /\ Settle(c, "completed") /\ fate[c] = "applied"
      BY <1>1, <1>4 DEF TrackCompleted, ListArrives, EventOf, InFlight, Told
    <2>2. /\ UNCHANGED <<view, shown, selected, chosen>>
          /\ view \in Snapshot /\ shown \subseteq Pair
      BY <1>1, <1>4 DEF TrackCompleted, ListArrives, TypeOK
    <2>3. reading' \in Address \cup {None} /\ listed' \in Address \cup {None}
      BY <1>1, <1>4
      DEF TrackCompleted, ListArrives, TypeOK, GatewayTypeOK, Replied
    <2> QED BY <2>1, <2>2, <2>3, SettleKeeps
  <1> QED BY <1>2, <1>3, <1>4, WaitKeeps, ServeKeeps DEF Await

LEMMA PageKeeps ==
  ASSUME ConsoleInvariant,
         \/ MoveSlider \/ \E l \in Loco : PickLocomotive(l)
         \/ PickProgrammingAsset \/ \E v \in mail : PushArrives(v)
         \/ LoadFails \/ \E roster, assets \in BOOLEAN : LoadEnds(roster, assets)
  PROVE  ConsoleInvariant'
  <1>1. TypeOK /\ Consistent
    BY DEF ConsoleInvariant
  <1> DEFINE Rest ==
        /\ UNCHANGED <<scenario, core, decoder, recorded, fate, reported>>
        /\ UNCHANGED <<others, stage, result, lastSeq, outstanding, session>>
        /\ UNCHANGED <<connected, changed, request, seq, sid>>
        /\ UNCHANGED <<step, answer, nextSeq, reply>>
      Good ==
        /\ view' \in Snapshot /\ first' \in Snapshot /\ mail' \subseteq Snapshot
        /\ shown' \subseteq Pair /\ selected' \in Loco \cup {None}
        /\ timer' \in Loco \cup {None}
        /\ loading' \in {"session", "lists", "done", "failed"}
        /\ reading' \in Address \cup {None} /\ listed' \in Address \cup {None}
        /\ chosen' \in BOOLEAN
  <1>2. ASSUME MoveSlider PROVE Rest /\ Good
    <2>1. Rest BY <1>2 DEF MoveSlider
    <2>2. Good BY <1>1, <1>2 DEF MoveSlider, TypeOK, GatewayTypeOK
    <2> QED BY <2>1, <2>2
  <1>3. ASSUME NEW l \in Loco, PickLocomotive(l) PROVE Rest /\ Good
    <2>1. Rest BY <1>3 DEF PickLocomotive
    <2>2. Good
      BY <1>1, <1>3, MergeIsButtons DEF PickLocomotive, TypeOK, GatewayTypeOK
    <2> QED BY <2>1, <2>2
  <1>4. ASSUME PickProgrammingAsset PROVE Rest /\ Good
    <2>1. Rest BY <1>4 DEF PickProgrammingAsset
    <2>2. Good
      <3>1. (listed # None) \in BOOLEAN
        OBVIOUS
      <3>2. chosen' \in BOOLEAN
        BY <1>4, <3>1 DEF PickProgrammingAsset
      <3> QED BY <1>1, <1>4, <3>2 DEF PickProgrammingAsset, TypeOK, GatewayTypeOK
    <2> QED BY <2>1, <2>2
  <1>5. ASSUME NEW v \in mail, PushArrives(v) PROVE Rest /\ Good
    <2>1. Rest BY <1>5 DEF PushArrives
    <2>2. v \in Snapshot BY <1>1 DEF TypeOK, GatewayTypeOK
    <2>3. view' \in Snapshot /\ shown' \subseteq Pair /\ UNCHANGED selected
      BY <1>1, <1>5, <2>2, MergeIsButtons DEF PushArrives, Show, TypeOK
    <2>4. /\ loading' \in {"session", "lists", "done", "failed"}
          /\ first' \in Snapshot /\ mail' \subseteq Snapshot
      BY <1>1, <1>5, <2>2 DEF PushArrives, TypeOK, GatewayTypeOK
    <2>5. UNCHANGED <<timer, reading, listed, chosen>>
      BY <1>5 DEF PushArrives
    <2> QED BY <1>1, <2>1, <2>3, <2>4, <2>5 DEF TypeOK
  <1>6. ASSUME LoadFails PROVE Rest /\ Good
    <2>1. Rest BY <1>6 DEF LoadFails
    <2>2. Good BY <1>1, <1>6 DEF LoadFails, TypeOK, GatewayTypeOK
    <2> QED BY <2>1, <2>2
  <1>7. ASSUME NEW roster \in BOOLEAN, NEW assets \in BOOLEAN,
               LoadEnds(roster, assets)
        PROVE  Rest /\ Good
    <2>1. Rest BY <1>7 DEF LoadEnds
    <2>2. Cardinality(Loco) = 1 => (CHOOSE l \in Loco : TRUE) \in Loco
      BY FS_EmptySet
    <2>3. selected' \in Loco \cup {None}
      BY <1>1, <1>7, <2>2 DEF LoadEnds, TypeOK
    <2>4. /\ view' \in Snapshot /\ shown' \subseteq Pair /\ first' \in Snapshot
          /\ loading' \in {"session", "lists", "done", "failed"}
          /\ UNCHANGED <<mail, timer, reading>>
      BY <1>1, <1>7, MergeIsButtons DEF LoadEnds, TypeOK
    <2>5. listed' \in Address \cup {None}
      BY <1>1, <1>7 DEF LoadEnds, TypeOK, GatewayTypeOK
    <2>6. chosen' \in BOOLEAN
      BY <1>1, <1>7 DEF LoadEnds, TypeOK
    <2> QED BY <1>1, <2>1, <2>3, <2>4, <2>5, <2>6 DEF TypeOK, GatewayTypeOK
  <1>8. Rest /\ Good
    BY <1>2, <1>3, <1>4, <1>5, <1>6, <1>7
  <1>9. TypeOK'
    BY <1>1, <1>8 DEF TypeOK, GatewayTypeOK
  <1>10. Consistent'
    BY <1>1, <1>8 DEF Consistent, Fits, Replied, Told
  <1> QED BY <1>9, <1>10 DEF ConsoleInvariant

LEMMA NextKeeps == ConsoleInvariant /\ [Next]_vars => ConsoleInvariant'
  <1> SUFFICES ASSUME ConsoleInvariant, [Next]_vars PROVE ConsoleInvariant'
    OBVIOUS
  <1>1. CASE GatewayStep /\ UNCHANGED pageVars
    BY <1>1, CoreKeeps, ElsewhereKeeps, LinkKeeps, HandlerKeeps
    DEF GatewayStep, CommandStep
  <1>2. CASE PageStep
    BY <1>2, ClickKeeps, AwaitKeeps, PageKeeps DEF PageStep
  <1>3. CASE UNCHANGED vars
    BY <1>3
    DEF ConsoleInvariant, TypeOK, GatewayTypeOK, Consistent, Fits, Replied, Told
  <1> QED BY <1>1, <1>2, <1>3 DEF Next

(* Every reachable state of page and gateway is well typed and HMI's limit  *)
(* of outstanding commands holds.                                           *)
THEOREM ConsoleTypeCorrect == Spec => []TypeOK
  <1>1. Spec => []ConsoleInvariant
    BY InitConsole, NextKeeps, PTL DEF Spec
  <1>2. ConsoleInvariant => TypeOK
    BY DEF ConsoleInvariant
  <1> QED BY <1>1, <1>2, PTL

(* What the page's steps leave alone. *)
Quiet == /\ UNCHANGED <<scenario, core, decoder, recorded, fate, reported>>
         /\ UNCHANGED <<others, request, seq, sid, stage, result, lastSeq>>
         /\ UNCHANGED <<outstanding, session, connected, changed>>

LEMMA ClickFrame ==
  ASSUME NEW c \in Command, Click(c)
  PROVE  /\ step[c] = "unused"
         /\ step' = [step EXCEPT ![c] = "connecting"]
         /\ \E r : request' = [request EXCEPT ![c] = r]
         /\ \E s : sid' = [sid EXCEPT ![c] = s]
         /\ UNCHANGED <<scenario, core, decoder, recorded, fate, reported>>
         /\ UNCHANGED <<others, seq, stage, result, lastSeq, outstanding>>
         /\ UNCHANGED <<session, connected, changed, answer, reply>>
         /\ UNCHANGED <<view, selected, reading, listed, chosen, loading>>
  <1>1. \E kind, target, on : Call(c, kind, target, on)
    BY DEF Click, PressDevice, PressPower, PressEmergency, PressStop,
           PressResume, PressAccessory, ToggleFunction, TimerFires, PressTrack,
           Plain
  <1>2. UNCHANGED <<view, selected, reading, listed, chosen>>
    BY DEF Click, PressDevice, PressPower, PressEmergency, PressStop,
           PressResume, PressAccessory, ToggleFunction, TimerFires, PressTrack,
           Plain
  <1> QED BY <1>1, <1>2 DEF Call, Fresh

LEMMA AwaitFrame ==
  ASSUME NEW c \in Command, Await(c)
  PROVE  Send(c) \/ Quiet
  BY DEF Await, Acknowledged, Rejected, TimesOut, ServeSnapshot,
         SnapshotArrives, TrackFailed, TrackCompleted, WriteCompleted,
         ServeList, ListArrives, Fail, Settle, Quiet

OtherPageStep ==
    \/ MoveSlider \/ \E l \in Loco : PickLocomotive(l)
    \/ PickProgrammingAsset \/ \E v \in mail : PushArrives(v)
    \/ LoadFails \/ \E roster, assets \in BOOLEAN : LoadEnds(roster, assets)

LEMMA OtherFrame ==
  ASSUME OtherPageStep
  PROVE  Quiet /\ UNCHANGED <<step, answer, reply>>
  BY DEF OtherPageStep, MoveSlider, PickLocomotive, PickProgrammingAsset,
         PushArrives, LoadFails, LoadEnds, Quiet

(* HMI's slots. *)
LEMMA SlotsKept ==
  ASSUME ConsoleInvariant, SlotsExact, [Next]_vars
  PROVE  SlotsExact'
  <1>1. TypeOK /\ Consistent
    BY DEF ConsoleInvariant
  <1> DEFINE Same == UNCHANGED <<outstanding, stage, sid, session, connected>>
  <1>2. Same => SlotsExact'
    BY DEF SlotsExact, Linked
  <1>3. ASSUME NEW c \in Command, CommandStep(c), UNCHANGED pageVars
        PROVE  SlotsExact'
    <2>1. CASE CoreApplies(c) \/ CoreAppliesHalf(c) \/ CoreRefuses(c)
      BY <1>2, <2>1 DEF CoreApplies, CoreAppliesHalf, CoreRefuses
    <2>2. CASE AcceptCommand(c)
      BY <1>1, <2>2 DEF AcceptCommand, SlotsExact, Linked, TypeOK, GatewayTypeOK
    <2>3. CASE RejectCommand(c)
      BY <1>1, <2>3 DEF RejectCommand, SlotsExact, Linked, TypeOK, GatewayTypeOK
    <2>4. CASE CallReturns(c) \/ CallFails(c)
      BY <1>1, <2>4
      DEF CallReturns, CallFails, Finish, SlotsExact, Linked, TypeOK, GatewayTypeOK
    <2>5. CASE PushAfterCommand(c)
      BY <1>1, <2>5
      DEF PushAfterCommand, SlotsExact, Linked, TypeOK, GatewayTypeOK
    <2> QED BY <1>3, <2>1, <2>2, <2>3, <2>4, <2>5 DEF CommandStep
  <1>4. ASSUME NEW r, CommandElsewhere(r) PROVE SlotsExact'
    BY <1>2, <1>4 DEF CommandElsewhere
  <1>5. CASE Connected
    <2>1. \A c \in Command : sid[c] # session'
      BY <1>1, <1>5 DEF Connected, Consistent, Fits, TypeOK, GatewayTypeOK
    <2> QED BY <1>5, <2>1 DEF Connected, SlotsExact, Linked
  <1>6. CASE Disconnected
    BY <1>6 DEF Disconnected, SlotsExact, Linked
  <1>7. CASE MonitorPushes
    BY <1>2, <1>7 DEF MonitorPushes
  <1>8. ASSUME NEW c \in Command, Click(c) PROVE SlotsExact'
    <2>1. stage[c] = "idle"
      BY <1>1, <1>8, ClickFrame DEF Consistent, Fits
    <2>2. PICK s : sid' = [sid EXCEPT ![c] = s]
      BY <1>8, ClickFrame
    <2>3. UNCHANGED <<outstanding, stage, session, connected>>
      BY <1>8, ClickFrame
    <2> QED BY <1>1, <2>1, <2>2, <2>3 DEF SlotsExact, Linked, TypeOK, GatewayTypeOK
  <1>9. ASSUME NEW c \in Command, Await(c) PROVE SlotsExact'
    <2>1. CASE Send(c)
      <3>1. stage[c] = "idle"
        BY <1>1, <2>1 DEF Send, Consistent, Fits
      <3> QED BY <1>1, <2>1, <3>1
              DEF Send, SlotsExact, Linked, TypeOK, GatewayTypeOK
    <2> QED BY <1>2, <1>9, <2>1, AwaitFrame DEF Quiet
  <1>10. CASE OtherPageStep
    BY <1>2, <1>10, OtherFrame DEF Quiet
  <1>11. CASE UNCHANGED vars
    BY <1>2, <1>11
  <1> QED BY <1>3, <1>4, <1>5, <1>6, <1>7, <1>8, <1>9, <1>10, <1>11
          DEF Next, GatewayStep, PageStep, OtherPageStep

(* HMI counts exactly the commands of the present connection whose thread   *)
(* runs.                                                                    *)
THEOREM SlotsCounted == Spec => []SlotsExact
  <1>1. Init => SlotsExact
    BY DEF Init, GatewayInit, SlotsExact, Linked
  <1> QED BY <1>1, InitConsole, NextKeeps, SlotsKept, PTL DEF Spec

(* The buttons.  Nothing is selected before the roster is there, so the end *)
(* of loading meets no pending function.                                    *)
LockInvariant ==
    /\ ButtonsLocked
    /\ PendingHeld
    /\ selected # None => loading = "done"


LEMMA LocksSame ==
  ASSUME LockInvariant, UNCHANGED <<step, request, shown, selected, loading>>
  PROVE  LockInvariant'
  BY DEF LockInvariant, ButtonsLocked, PendingHeld, Running, InFlight

(* A click takes a lock that is free. *)
LEMMA CallLocks ==
  ASSUME ConsoleInvariant, LockInvariant, NEW c \in Command, NEW kind,
         NEW target, NEW on, Call(c, kind, target, on),
         kind \in LifecycleKind => ~LifecycleBusy,
         kind \in TrackKind => ~ProgrammingBusy,
         kind = "function" =>
            /\ target \notin pendingFunctions
            /\ target[1] = selected
            /\ target \in shown' <=> on,
         \A p \in pendingFunctions : p \in shown' <=> p \in shown,
         UNCHANGED selected
  PROVE  LockInvariant'
  <1>1. TypeOK
    BY DEF ConsoleInvariant
  <1>2. /\ step' = [step EXCEPT ![c] = "connecting"]
        /\ request' = [request EXCEPT ![c] =
                          [kind |-> kind, target |-> target, on |-> on]]
        /\ UNCHANGED loading
    BY DEF Call
  <1>3. /\ \A d \in Command \ {c} : InFlight(d)' = InFlight(d) /\ request'[d] = request[d]
        /\ request'[c] = [kind |-> kind, target |-> target, on |-> on]
    BY <1>1, <1>2 DEF InFlight, TypeOK, GatewayTypeOK
  <1>4. request'[c].kind = kind /\ request'[c].target = target /\ request'[c].on = on
    BY <1>3
  <1>5. ASSUME NEW d \in Command \ {c}, InFlight(d), request[d].kind = "function"
        PROVE  request[d].target \in pendingFunctions
    BY <1>5 DEF pendingFunctions, Running
  <1>6. ASSUME NEW d \in Command \ {c}, InFlight(d)
        PROVE  /\ kind \in LifecycleKind => request[d].kind \notin LifecycleKind
               /\ kind \in TrackKind => request[d].kind \notin TrackKind
               /\ kind = "function" /\ request[d].kind = "function" =>
                      request[d].target # target
    BY <1>5, <1>6 DEF LifecycleBusy, ProgrammingBusy, Running
  <1>7. ButtonsLocked'
    <2> SUFFICES ASSUME NEW a \in Command, NEW b \in Command, a # b,
                        InFlight(a)', InFlight(b)'
                 PROVE  /\ {request'[a].kind, request'[b].kind} \subseteq {"function"} =>
                               request'[a].target # request'[b].target
                        /\ ~({request'[a].kind, request'[b].kind} \subseteq LifecycleKind)
                        /\ ~({request'[a].kind, request'[b].kind} \subseteq TrackKind)
      BY DEF ButtonsLocked
    <2>1. CASE a # c /\ b # c
      <3>1. InFlight(a) /\ InFlight(b) /\ request'[a] = request[a] /\ request'[b] = request[b]
        BY <1>3, <2>1
      <3> QED BY <3>1 DEF LockInvariant, ButtonsLocked
    <2>2. CASE a = c
      BY <1>3, <1>4, <1>6, <2>2
    <2>3. CASE b = c
      BY <1>3, <1>4, <1>6, <2>3
    <2> QED BY <2>1, <2>2, <2>3
  <1>8. PendingHeld'
    <2> SUFFICES ASSUME NEW d \in Command, InFlight(d)', request'[d].kind = "function"
                 PROVE  /\ request'[d].target[1] = selected
                        /\ request'[d].target \in shown' <=> request'[d].on
      BY DEF PendingHeld, Running
    <2>1. CASE d = c
      BY <1>4, <2>1
    <2>2. CASE d # c
      <3>1. /\ request[d].target[1] = selected
            /\ request[d].target \in shown <=> request[d].on
        BY <1>3, <2>2 DEF LockInvariant, PendingHeld, Running
      <3> QED BY <1>3, <1>5, <2>2, <3>1
    <2> QED BY <2>1, <2>2
  <1> QED BY <1>2, <1>7, <1>8 DEF LockInvariant

LEMMA ClickLocks ==
  ASSUME ConsoleInvariant, LockInvariant, NEW c \in Command, Click(c)
  PROVE  LockInvariant'
  <1>1. ASSUME NEW kind, NEW target, NEW on, Plain(c, kind, target, on),
               kind # "function",
               kind \in LifecycleKind => ~LifecycleBusy,
               kind \in TrackKind => ~ProgrammingBusy
        PROVE  LockInvariant'
    BY <1>1, CallLocks DEF Plain
  <1>2. ASSUME NEW kind, NEW target, Call(c, kind, target, FALSE),
               kind \notin LifecycleKind \cup TrackKind \cup {"function"},
               UNCHANGED <<shown, selected>>
        PROVE  LockInvariant'
    BY <1>2, CallLocks
  <1>3. CASE PressDevice(c)
    BY <1>1, <1>3 DEF PressDevice, TrackKind
  <1>4. CASE PressPower(c)
    BY <1>1, <1>4 DEF PressPower, TrackKind
  <1>5. CASE PressEmergency(c) \/ PressStop(c) \/ TimerFires(c)
    <2>1. \E kind \in {"emergency", "stop", "throttle"} : \E target :
              Call(c, kind, target, FALSE)
      BY <1>5 DEF PressEmergency, PressStop, TimerFires
    <2>2. UNCHANGED <<shown, selected>>
      BY <1>5 DEF PressEmergency, PressStop, TimerFires
    <2> QED BY <1>2, <2>1, <2>2 DEF LifecycleKind, TrackKind
  <1>6. CASE PressResume(c) \/ PressAccessory(c)
    BY <1>1, <1>6 DEF PressResume, PressAccessory, TrackKind, LifecycleKind
  <1>7. ASSUME NEW n \in Number, ToggleFunction(c, n) PROVE LockInvariant'
    <2> DEFINE p == <<selected, n>>
    <2>1. /\ p \notin pendingFunctions /\ p[1] = selected
          /\ shown' = IF p \in shown THEN shown \ {p} ELSE shown \cup {p}
          /\ Call(c, "function", p, p \notin shown)
          /\ UNCHANGED selected
      BY <1>7 DEF ToggleFunction
    <2>2. p \in shown' <=> p \notin shown
      BY <2>1
    <2>3. \A q \in pendingFunctions : q \in shown' <=> q \in shown
      BY <2>1
    <2> HIDE DEF p
    <2> QED BY <2>1, <2>2, <2>3, CallLocks DEF LifecycleKind, TrackKind
  <1>8. CASE \/ PressTrack(c, "read", None) \/ PressTrack(c, "cv", None)
             \/ \E a \in Address : PressTrack(c, "write", a)
    BY <1>1, <1>8 DEF PressTrack, LifecycleKind
  <1> QED BY <1>3, <1>4, <1>5, <1>6, <1>7, <1>8 DEF Click

(* The end of a command frees its lock and touches no other button that is  *)
(* pending.                                                                 *)
LEMMA SettleLocks ==
  ASSUME ConsoleInvariant, LockInvariant, NEW c \in Command, NEW word,
         Settle(c, word), UNCHANGED selected,
         \A d \in Running({"function"}) \ {c} :
            request[d].target \in shown' <=> request[d].target \in shown
  PROVE  LockInvariant'
  <1>1. TypeOK
    BY DEF ConsoleInvariant
  <1>2. step' = [step EXCEPT ![c] = "settled"] /\ UNCHANGED <<request, loading>>
    BY DEF Settle
  <1>3. \A d \in Command : InFlight(d)' => InFlight(d) /\ d # c
    BY <1>1, <1>2 DEF InFlight, TypeOK
  <1>4. ButtonsLocked'
    BY <1>2, <1>3 DEF LockInvariant, ButtonsLocked
  <1>5. PendingHeld'
    BY <1>2, <1>3 DEF LockInvariant, PendingHeld, Running
  <1> QED BY <1>2, <1>4, <1>5 DEF LockInvariant

LEMMA AwaitLocks ==
  ASSUME ConsoleInvariant, LockInvariant, NEW c \in Command, Await(c)
  PROVE  LockInvariant'
  <1>1. TypeOK /\ Consistent
    BY DEF ConsoleInvariant
  <1>2. CASE Rejected(c) \/ TimesOut(c) \/ TrackFailed(c)
    <2>1. Fail(c) /\ InFlight(c)
      BY <1>2 DEF Rejected, TimesOut, TrackFailed, EventOf, InFlight
    <2>2. ASSUME NEW d \in Running({"function"}) \ {c}
          PROVE  request[d].target \in shown' <=> request[d].target \in shown
      <3>1. request[c].kind = "function" => request[d].target # request[c].target
        BY <2>1, <2>2 DEF LockInvariant, ButtonsLocked, Running
      <3>2. CASE request[c].kind # "function"
        BY <2>1, <3>2 DEF Fail
      <3>3. CASE request[c].kind = "function"
        <4>1. shown' \in {shown \ {request[c].target}, shown \cup {request[c].target}}
          BY <2>1, <3>3 DEF Fail
        <4> QED BY <3>1, <3>3, <4>1
      <3> QED BY <3>2, <3>3
    <2> QED BY <2>1, <2>2, SettleLocks DEF Fail
  <1>3. CASE SnapshotArrives(c)
    <2> DEFINE others_ == {request[d].target : d \in Running({"function"}) \ {c}}
    <2>1. /\ shown' = Merge(reply[c], selected, shown, others_)
          /\ Settle(c, answer[c]) /\ UNCHANGED selected
      BY <1>3 DEF SnapshotArrives, Show
    <2>2. ASSUME NEW d \in Running({"function"}) \ {c}
          PROVE  request[d].target \in shown' <=> request[d].target \in shown
      <3>1. request[d].target \in others_
        BY <2>2
      <3>2. request[d].target \in Pair
        BY <1>1 DEF Running, InFlight, Consistent, Fits
      <3> QED BY <2>1, <3>1, <3>2 DEF Merge
    <2> QED BY <2>1, <2>2, SettleLocks
  <1>4. CASE TrackCompleted(c) \/ ListArrives(c)
    <2>1. /\ Settle(c, "completed") /\ UNCHANGED <<shown, selected>>
      BY <1>4 DEF TrackCompleted, ListArrives
    <2> QED BY <2>1, SettleLocks
  <1>5. CASE Send(c) \/ Acknowledged(c) \/ WriteCompleted(c)
    <2>1. /\ UNCHANGED <<request, shown, selected, loading>>
          /\ step[c] \in {"connecting", "sent", "awaiting"}
          /\ \E s \in {"sent", "awaiting", "reading", "listing"} :
                step' = [step EXCEPT ![c] = s]
      BY <1>5 DEF Send, Acknowledged, WriteCompleted, EventOf
    <2>2. \A d \in Command : InFlight(d)' = InFlight(d)
      BY <1>1, <2>1 DEF InFlight, TypeOK
    <2> QED BY <2>1, <2>2 DEF LockInvariant, ButtonsLocked, PendingHeld, Running
  <1>6. CASE ServeSnapshot(c) \/ ServeList(c)
    BY <1>6, LocksSame DEF ServeSnapshot, ServeList
  <1> QED BY <1>2, <1>3, <1>4, <1>5, <1>6 DEF Await

LEMMA PageLocks ==
  ASSUME ConsoleInvariant, LockInvariant, OtherPageStep
  PROVE  LockInvariant'
  <1>1. TypeOK /\ UNCHANGED <<step, request>>
    BY OtherFrame DEF ConsoleInvariant, Quiet
  <1>2. CASE MoveSlider \/ PickProgrammingAsset
    BY <1>2, LocksSame DEF MoveSlider, PickProgrammingAsset
  <1>3. ButtonsLocked'
    BY <1>1 DEF LockInvariant, ButtonsLocked, InFlight
  <1>4. pendingFunctions = {} /\ (selected' # None => loading' = "done")
            => LockInvariant'
    BY <1>1, <1>3
    DEF LockInvariant, PendingHeld, pendingFunctions, Running, InFlight
  <1>5. loading # "done" => pendingFunctions = {}
    <2> SUFFICES ASSUME loading # "done", NEW d \in Running({"function"}) PROVE FALSE
      BY DEF pendingFunctions
    <2>1. request[d].target \in Pair /\ request[d].target[1] = selected
      BY DEF Running, InFlight, ConsoleInvariant, Consistent, Fits,
             LockInvariant, PendingHeld
    <2>2. selected \in Loco
      BY <2>1 DEF Pair
    <2> QED BY <2>2, NoneAssumption DEF LockInvariant
  <1>6. CASE \E l \in Loco : PickLocomotive(l)
    BY <1>4, <1>6 DEF PickLocomotive
  <1>7. ASSUME NEW v \in mail, PushArrives(v) PROVE LockInvariant'
    <2>1. selected' = selected /\ (loading = "done" => loading' = "done")
      BY <1>7 DEF PushArrives, Show
    <2>2. CASE pendingFunctions = {}
      BY <1>4, <2>1, <2>2 DEF LockInvariant
    <2>3. CASE pendingFunctions # {}
      <3>1. UNCHANGED <<shown, selected, loading>>
        BY <1>5, <1>7, <2>3 DEF PushArrives
      <3> QED BY <1>1, <3>1, LocksSame
    <2> QED BY <2>2, <2>3
  <1>8. CASE LoadFails
    BY <1>4, <1>5, <1>8 DEF LoadFails, LockInvariant
  <1>9. CASE \E roster, assets \in BOOLEAN : LoadEnds(roster, assets)
    BY <1>4, <1>5, <1>9 DEF LoadEnds, LockInvariant
  <1> QED BY <1>2, <1>6, <1>7, <1>8, <1>9 DEF OtherPageStep

LEMMA LocksKept ==
  ASSUME ConsoleInvariant, LockInvariant, [Next]_vars
  PROVE  LockInvariant'
  <1>1. CASE GatewayStep /\ UNCHANGED pageVars
    <2>1. UNCHANGED request
      BY <1>1
      DEF GatewayStep, CommandStep, CommandElsewhere, Connected, Disconnected,
          MonitorPushes, CoreApplies, CoreAppliesHalf, CoreRefuses,
          AcceptCommand, RejectCommand, CallReturns, CallFails, Finish,
          PushAfterCommand
    <2> QED BY <1>1, <2>1, LocksSame
  <1>2. CASE PageStep
    BY <1>2, ClickLocks, AwaitLocks, PageLocks DEF PageStep, OtherPageStep
  <1>3. CASE UNCHANGED vars
    BY <1>3, LocksSame
  <1> QED BY <1>1, <1>2, <1>3 DEF Next

LEMMA Locks == Spec => []LockInvariant
  <1>1. Init => LockInvariant
    BY DEF Init, LockInvariant, ButtonsLocked, PendingHeld, Running, InFlight
  <1> QED BY <1>1, InitConsole, NextKeeps, LocksKept, PTL DEF Spec

(* One click per function button, per device or power change and per        *)
(* programming command is in flight, whatever arrives in the meantime.      *)
THEOREM ButtonsAreLocked == Spec => []ButtonsLocked
  <1>1. LockInvariant => ButtonsLocked
    BY DEF LockInvariant
  <1> QED BY <1>1, Locks, PTL

(* A pending function button shows what the operator asked for.             *)
THEOREM PendingIsHeld == Spec => []PendingHeld
  <1>1. LockInvariant => PendingHeld
    BY DEF LockInvariant
  <1> QED BY <1>1, Locks, PTL

(* The programming track.  A write that touched the decoder is unconfirmed  *)
(* until the page has read the list again, and only one write is under way: *)
(* with no write unconfirmed, the list on the page is Asset's record, and   *)
(* that record is the decoder's address.                                    *)
TrackInvariant ==
    /\ \A c \in Command :
        /\ fate[c] = "half" => request[c].kind = "write"
        /\ step[c] = "listing" => request[c].kind = "write"
    /\ (\A c \in Command : fate[c] # "half") => decoder = recorded
    /\ Unconfirmed = {} /\ listed # None => listed = recorded
    /\ \A w \in Command :
        step[w] = "listing" /\ reply[w] # None /\ Unconfirmed \subseteq {w}
            => reply[w] = recorded

LEMMA TrackSame ==
  ASSUME TrackInvariant,
         UNCHANGED <<decoder, recorded, fate, request, step, answer, reply, listed>>
  PROVE  TrackInvariant'
  BY DEF TrackInvariant, Unconfirmed

LEMMA CoreTracks ==
  ASSUME ConsoleInvariant, TrackInvariant, NEW c \in Command,
         CoreApplies(c) \/ CoreAppliesHalf(c) \/ CoreRefuses(c),
         UNCHANGED pageVars
  PROVE  TrackInvariant'
  <1>1. TypeOK /\ Consistent
    BY DEF ConsoleInvariant
  <1>2. fate[c] = "open" /\ UNCHANGED <<request, step, answer, reply, listed>>
    BY DEF CoreApplies, CoreAppliesHalf, CoreRefuses, Undecided
  <1>3. answer[c] # "completed" /\ step[c] # "listing"
    BY <1>1, <1>2 DEF Consistent, Told
  <1>4. CASE /\ fate' = [fate EXCEPT ![c] = "refused"]
             /\ UNCHANGED <<decoder, recorded>>
    <2>1. /\ Unconfirmed' = Unconfirmed
          /\ \A d \in Command : fate'[d] = "half" <=> fate[d] = "half"
      BY <1>1, <1>2, <1>4 DEF Unconfirmed, TypeOK, GatewayTypeOK
    <2> QED BY <1>2, <1>4, <2>1 DEF TrackInvariant
  <1>5. CASE /\ fate' = [fate EXCEPT ![c] = "applied"]
             /\ UNCHANGED <<decoder, recorded>>
             /\ request[c].kind # "write"
    <2>1. /\ Unconfirmed' = Unconfirmed
          /\ \A d \in Command : fate'[d] = "half" <=> fate[d] = "half"
      BY <1>1, <1>2, <1>5 DEF Unconfirmed, TypeOK, GatewayTypeOK
    <2> QED BY <1>2, <1>5, <2>1 DEF TrackInvariant
  <1>6. CASE /\ \E f \in {"applied", "half"} : fate' = [fate EXCEPT ![c] = f]
             /\ fate'[c] = "half" \/ decoder' = recorded'
             /\ request[c].kind = "write"
    <2>1. c \in Unconfirmed'
      BY <1>1, <1>2, <1>3, <1>6 DEF Unconfirmed, TypeOK, GatewayTypeOK
    <2>2. \A w \in Command : step'[w] = "listing" => ~(Unconfirmed' \subseteq {w})
      BY <1>2, <1>3, <2>1
    <2>3. \A d \in Command : fate'[d] = "half" => request'[d].kind = "write"
      BY <1>1, <1>2, <1>6 DEF TrackInvariant, TypeOK, GatewayTypeOK
    <2> QED BY <1>2, <1>6, <2>1, <2>2, <2>3 DEF TrackInvariant
  <1> QED
    <2>1. CASE CoreApplies(c)
      BY <1>5, <1>6, <2>1, <1>1 DEF CoreApplies, TypeOK, GatewayTypeOK
    <2>2. CASE CoreAppliesHalf(c)
      BY <1>6, <2>2, <1>1 DEF CoreAppliesHalf, TypeOK, GatewayTypeOK
    <2>3. CASE CoreRefuses(c)
      BY <1>4, <2>3 DEF CoreRefuses
    <2> QED BY <2>1, <2>2, <2>3

LEMMA AwaitTracks ==
  ASSUME ConsoleInvariant, ButtonsLocked, TrackInvariant, NEW c \in Command,
         Await(c)
  PROVE  TrackInvariant'
  <1>1. TypeOK /\ Consistent
    BY DEF ConsoleInvariant
  <1>2. UNCHANGED <<decoder, recorded, fate, request>>
    BY AwaitFrame DEF Quiet, Send
  <1>3. ASSUME NEW s \in {"sent", "awaiting", "reading", "settled"},
               NEW word \in {"none", "accepted", "failed"}, answer[c] # "completed",
               step' = [step EXCEPT ![c] = s],
               answer' = [answer EXCEPT ![c] = word],
               reply' \in {reply, [reply EXCEPT ![c] = None]},
               UNCHANGED listed
        PROVE  TrackInvariant'
    <2>1. Unconfirmed' = Unconfirmed
      BY <1>1, <1>2, <1>3 DEF Unconfirmed, TypeOK
    <2>2. \A w \in Command : step'[w] = "listing" =>
              w # c /\ step[w] = "listing" /\ reply'[w] = reply[w]
      BY <1>1, <1>3 DEF TypeOK
    <2> QED BY <1>2, <1>3, <2>1, <2>2 DEF TrackInvariant
  <1>4. step[c] \notin {"unused", "settled"} => answer[c] \in {"none", "accepted"}
    BY <1>1 DEF Consistent, Told
  <1>5. CASE Rejected(c) \/ TimesOut(c) \/ TrackFailed(c)
    <2>1. Settle(c, "failed") /\ UNCHANGED listed
      BY <1>5 DEF Rejected, TimesOut, TrackFailed, Fail
    <2>2. step[c] \notin {"unused", "settled"}
      BY <1>5 DEF Rejected, TimesOut, TrackFailed, EventOf, InFlight
    <2> QED BY <1>3, <1>4, <2>1, <2>2 DEF Settle
  <1>6. CASE SnapshotArrives(c)
    <2>1. Settle(c, answer[c]) /\ UNCHANGED listed /\ step[c] = "reading"
      BY <1>6 DEF SnapshotArrives
    <2> QED BY <1>3, <1>4, <2>1 DEF Settle
  <1>7. CASE Send(c) \/ Acknowledged(c)
    <2>1. /\ UNCHANGED <<listed, reply>> /\ step[c] \in {"connecting", "sent"}
          /\ \E s \in {"sent", "awaiting", "reading"} : step' = [step EXCEPT ![c] = s]
      BY <1>7 DEF Send, Acknowledged
    <2>2. answer' = [answer EXCEPT ![c] = answer[c]] \/
          answer' = [answer EXCEPT ![c] = "accepted"]
      BY <1>1, <1>7 DEF Send, Acknowledged, TypeOK
    <2> QED BY <1>3, <1>4, <2>1, <2>2
  <1>8. CASE TrackCompleted(c)
    <2>1. /\ request[c].kind # "write" /\ UNCHANGED listed
          /\ Settle(c, "completed")
      BY <1>8 DEF TrackCompleted
    <2>2. Unconfirmed' = Unconfirmed
      BY <1>1, <1>2, <2>1 DEF Unconfirmed, Settle, TypeOK
    <2>3. \A w \in Command : step'[w] = "listing" =>
              w # c /\ step[w] = "listing" /\ reply'[w] = reply[w]
      BY <1>1, <2>1 DEF Settle, TypeOK
    <2> QED BY <1>2, <2>1, <2>2, <2>3 DEF TrackInvariant
  <1>9. CASE WriteCompleted(c)
    <2>1. /\ UNCHANGED <<answer, reply, listed>> /\ request[c].kind = "write"
          /\ step' = [step EXCEPT ![c] = "listing"]
          /\ step[c] \in {"sent", "awaiting"}
      BY <1>9 DEF WriteCompleted, EventOf
    <2>2. reply[c] = None /\ Unconfirmed' = Unconfirmed
      BY <1>1, <1>2, <2>1 DEF Consistent, Replied, Unconfirmed
    <2>3. \A w \in Command : step'[w] = "listing" => w = c \/ step[w] = "listing"
      BY <1>1, <2>1 DEF TypeOK
    <2> QED BY <1>2, <2>1, <2>2, <2>3 DEF TrackInvariant
  <1>10. CASE ServeSnapshot(c)
    <2>1. /\ UNCHANGED <<step, answer, listed>> /\ step[c] = "reading"
          /\ reply' = [reply EXCEPT ![c] = core]
      BY <1>10 DEF ServeSnapshot
    <2>2. Unconfirmed' = Unconfirmed
      BY <1>2, <2>1 DEF Unconfirmed
    <2>3. \A w \in Command : step[w] = "listing" => reply'[w] = reply[w]
      BY <1>1, <2>1 DEF TypeOK
    <2> QED BY <1>2, <2>1, <2>2, <2>3 DEF TrackInvariant
  <1>11. CASE ServeList(c)
    <2>1. /\ UNCHANGED <<step, answer, listed>>
          /\ reply' = [reply EXCEPT ![c] = recorded]
      BY <1>11 DEF ServeList
    <2>2. Unconfirmed' = Unconfirmed
      BY <1>2, <2>1 DEF Unconfirmed
    <2>3. \A w \in Command : reply'[w] = reply[w] \/ reply'[w] = recorded
      BY <1>1, <2>1 DEF TypeOK
    <2> QED BY <1>2, <2>1, <2>2, <2>3 DEF TrackInvariant
  <1>12. CASE ListArrives(c)
    <2>1. /\ step[c] = "listing" /\ reply[c] # None /\ listed' = reply[c]
          /\ Settle(c, "completed")
      BY <1>12 DEF ListArrives
    <2>2. Unconfirmed \subseteq Unconfirmed' \cup {c}
      BY <1>1, <1>2, <2>1 DEF Unconfirmed, Settle, TypeOK
    <2>3. \A w \in Command : step'[w] # "listing"
      <3> SUFFICES ASSUME NEW w \in Command, step'[w] = "listing" PROVE FALSE
        OBVIOUS
      <3>1. w # c /\ step[w] = "listing"
        BY <1>1, <2>1 DEF Settle, TypeOK
      <3>2. request[w].kind = "write" /\ request[c].kind = "write"
        BY <2>1, <3>1 DEF TrackInvariant
      <3>3. InFlight(w) /\ InFlight(c)
        BY <2>1, <3>1 DEF InFlight
      <3> QED BY <3>1, <3>2, <3>3 DEF ButtonsLocked, TrackKind
    <2>4. Unconfirmed' = {} => listed' = recorded
      BY <2>1, <2>2 DEF TrackInvariant
    <2> QED BY <1>2, <2>3, <2>4 DEF TrackInvariant
  <1> QED BY <1>5, <1>6, <1>7, <1>8, <1>9, <1>10, <1>11, <1>12 DEF Await

LEMMA TracksKept ==
  ASSUME ConsoleInvariant, ButtonsLocked, TrackInvariant, [Next]_vars
  PROVE  TrackInvariant'
  <1>1. TypeOK /\ Consistent
    BY DEF ConsoleInvariant
  <1>2. ASSUME NEW c \in Command, CommandStep(c), UNCHANGED pageVars
        PROVE  TrackInvariant'
    <2>1. CASE CoreApplies(c) \/ CoreAppliesHalf(c) \/ CoreRefuses(c)
      BY <1>2, <2>1, CoreTracks
    <2>2. CASE \/ AcceptCommand(c) \/ RejectCommand(c) \/ CallReturns(c)
               \/ CallFails(c) \/ PushAfterCommand(c)
      BY <1>2, <2>2, TrackSame
      DEF AcceptCommand, RejectCommand, CallReturns, CallFails, Finish,
          PushAfterCommand
    <2> QED BY <1>2, <2>1, <2>2 DEF CommandStep
  <1>3. CASE /\ \/ \E r \in scenario.elsewhere : CommandElsewhere(r)
                \/ Connected \/ Disconnected \/ MonitorPushes
             /\ UNCHANGED pageVars
    BY <1>3, TrackSame DEF CommandElsewhere, Connected, Disconnected, MonitorPushes
  <1>4. ASSUME NEW c \in Command, Click(c) PROVE TrackInvariant'
    <2>1. /\ fate[c] = "open" /\ step' = [step EXCEPT ![c] = "connecting"]
          /\ UNCHANGED <<decoder, recorded, fate, answer, reply, listed>>
      BY <1>1, <1>4, ClickFrame DEF Consistent, Fits
    <2>2. \A d \in Command : d # c => request'[d] = request[d] /\ step'[d] = step[d]
      BY <1>1, <1>4, <2>1, ClickFrame DEF TypeOK, GatewayTypeOK
    <2>3. Unconfirmed' = Unconfirmed /\ step'[c] # "listing"
      BY <1>1, <2>1, <2>2 DEF Unconfirmed, TypeOK
    <2> QED BY <2>1, <2>2, <2>3 DEF TrackInvariant
  <1>5. CASE OtherPageStep
    <2>1. UNCHANGED <<decoder, recorded, fate, request, step, answer, reply>>
      BY <1>5, OtherFrame DEF Quiet
    <2>2. listed' \in {listed, recorded}
      BY <1>5
      DEF OtherPageStep, MoveSlider, PickLocomotive, PickProgrammingAsset,
          PushArrives, LoadFails, LoadEnds
    <2>3. Unconfirmed' = Unconfirmed
      BY <2>1 DEF Unconfirmed
    <2> QED BY <2>1, <2>2, <2>3 DEF TrackInvariant
  <1>6. CASE UNCHANGED vars
    BY <1>6, TrackSame
  <1> QED BY <1>2, <1>3, <1>4, <1>5, <1>6, AwaitTracks
          DEF Next, GatewayStep, PageStep, OtherPageStep

(* The pill "verified" tells the truth once every write of the page is      *)
(* confirmed.                                                               *)
THEOREM VerifiedIsTrue == Spec => []VerifiedTruthful
  <1>1. Init => TrackInvariant
    BY DEF Init, GatewayInit, TrackInvariant, Unconfirmed
  <1>2. LockInvariant => ButtonsLocked
    BY DEF LockInvariant
  <1>3. ConsoleInvariant /\ TrackInvariant => VerifiedTruthful
    <2> SUFFICES ASSUME ConsoleInvariant, TrackInvariant, Verified, Unconfirmed = {}
                 PROVE  decoder = reading
      BY DEF VerifiedTruthful
    <2>1. \A c \in Command : fate[c] # "half"
      BY DEF TrackInvariant, Unconfirmed, ConsoleInvariant, Consistent, Told
    <2> QED BY <2>1 DEF TrackInvariant, Verified
  <1> QED BY <1>1, <1>2, <1>3, InitConsole, NextKeeps, Locks, TracksKept, PTL
          DEF Spec

(* The refinement.  What HMI has taken, what Core has applied and what the  *)
(* page has said are CommandPromise's three variables.                      *)
LEMMA PromiseSame ==
  ASSUME UNCHANGED <<stage, fate, answer>>
  PROVE  UNCHANGED Promise!promiseVars
  BY DEF Promise!promiseVars

LEMMA GatewayMaps ==
  ASSUME TypeOK, NEW c \in Command, CommandStep(c), UNCHANGED pageVars
  PROVE  [Promise!Next]_(Promise!promiseVars)
  <1>1. UNCHANGED answer
    OBVIOUS
  <1>2. ASSUME UNCHANGED fate, NEW to \in {"accepted", "rejected", "reported", "closed"},
               stage' = [stage EXCEPT ![c] = to],
               stage[c] \in Taken <=> to \in Taken
        PROVE  UNCHANGED Promise!promiseVars
    BY <1>1, <1>2 DEF Promise!promiseVars, TypeOK, GatewayTypeOK
  <1>3. ASSUME UNCHANGED stage, NEW to \in {"half", "refused"}, fate[c] = "open",
               fate' = [fate EXCEPT ![c] = to]
        PROVE  UNCHANGED Promise!promiseVars
    BY <1>1, <1>3 DEF Promise!promiseVars, TypeOK, GatewayTypeOK
  <1>4. CASE AcceptCommand(c)
    <2>1. /\ stage[c] = "arriving" /\ UNCHANGED fate
          /\ stage' = [stage EXCEPT ![c] = "accepted"]
      BY <1>4 DEF AcceptCommand
    <2>2. Promise!Take(c)
      BY <1>1, <2>1 DEF Promise!Take, TypeOK, GatewayTypeOK, Taken
    <2> QED BY <2>2 DEF Promise!Next
  <1>5. CASE RejectCommand(c)
    BY <1>2, <1>5 DEF RejectCommand, Taken
  <1>6. CASE CoreApplies(c)
    <2>1. /\ stage[c] \in Taken /\ fate[c] = "open" /\ UNCHANGED stage
          /\ fate' = [fate EXCEPT ![c] = "applied"]
      BY <1>6 DEF CoreApplies, Undecided
    <2>2. Promise!Apply(c)
      BY <1>1, <2>1 DEF Promise!Apply, TypeOK, GatewayTypeOK
    <2> QED BY <2>2 DEF Promise!Next
  <1>7. CASE CoreAppliesHalf(c)
    BY <1>3, <1>7 DEF CoreAppliesHalf, Undecided
  <1>8. CASE CoreRefuses(c)
    BY <1>3, <1>8 DEF CoreRefuses, Undecided
  <1>9. CASE CallReturns(c) \/ CallFails(c)
    <2>1. /\ stage[c] = "accepted" /\ UNCHANGED fate
          /\ stage' = [stage EXCEPT ![c] = "reported"]
      BY <1>9 DEF CallReturns, CallFails, Finish
    <2> QED BY <1>2, <2>1 DEF Taken
  <1>10. CASE PushAfterCommand(c)
    BY <1>2, <1>10 DEF PushAfterCommand, Taken
  <1> QED BY <1>4, <1>5, <1>6, <1>7, <1>8, <1>9, <1>10 DEF CommandStep

LEMMA AwaitMaps ==
  ASSUME TypeOK, Consistent, NEW c \in Command, Await(c)
  PROVE  [Promise!Next]_(Promise!promiseVars)
  <1>1. step[c] \notin {"unused", "settled"} => answer[c] \in {"none", "accepted"}
    BY DEF Consistent, Told
  <1>2. CASE Send(c)
    <2>1. /\ stage[c] = "idle" /\ UNCHANGED <<fate, answer>>
          /\ stage' = [stage EXCEPT ![c] = "arriving"]
      BY <1>2 DEF Send, Consistent, Fits
    <2> QED BY <2>1 DEF Promise!promiseVars, TypeOK, GatewayTypeOK, Taken
  <1>3. CASE Acknowledged(c)
    <2>1. /\ stage[c] \in Taken /\ UNCHANGED <<stage, fate>>
          /\ answer[c] = "none"
          /\ answer' = answer \/ answer' = [answer EXCEPT ![c] = "accepted"]
      BY <1>3 DEF Acknowledged, Consistent, Told
    <2>2. CASE answer' = [answer EXCEPT ![c] = "accepted"]
      <3>1. Promise!TellAccepted(c)
        BY <2>1, <2>2 DEF Promise!TellAccepted
      <3> QED BY <3>1 DEF Promise!Next
    <2> QED BY <2>1, <2>2, PromiseSame
  <1>4. CASE Rejected(c) \/ TimesOut(c) \/ TrackFailed(c)
    <2>1. /\ step[c] \notin {"unused", "settled"}
          /\ answer' = [answer EXCEPT ![c] = "failed"]
          /\ UNCHANGED <<stage, fate>>
      BY <1>4 DEF Rejected, TimesOut, TrackFailed, EventOf, InFlight, Fail, Settle
    <2>2. Promise!TellFailed(c)
      BY <1>1, <2>1 DEF Promise!TellFailed
    <2> QED BY <2>2 DEF Promise!Next
  <1>5. CASE SnapshotArrives(c)
    <2>1. answer' = [answer EXCEPT ![c] = answer[c]] /\ UNCHANGED <<stage, fate>>
      BY <1>5 DEF SnapshotArrives, Settle
    <2>2. UNCHANGED answer
      BY <2>1 DEF TypeOK
    <2> QED BY <2>1, <2>2, PromiseSame
  <1>6. CASE TrackCompleted(c) \/ ListArrives(c)
    <2>1. /\ step[c] \in {"sent", "awaiting", "listing"}
          /\ result[c] = "completed"
          /\ answer' = [answer EXCEPT ![c] = "completed"]
          /\ UNCHANGED <<stage, fate>>
      BY <1>6 DEF TrackCompleted, ListArrives, EventOf, Settle, Consistent, Told
    <2>2. answer[c] = "none" /\ fate[c] = "applied"
      BY <2>1 DEF Consistent, Told
    <2>3. Promise!TellCompleted(c)
      BY <2>1, <2>2 DEF Promise!TellCompleted
    <2> QED BY <2>3 DEF Promise!Next
  <1>7. CASE ServeSnapshot(c) \/ WriteCompleted(c) \/ ServeList(c)
    BY <1>7, PromiseSame DEF ServeSnapshot, WriteCompleted, ServeList
  <1> QED BY <1>2, <1>3, <1>4, <1>5, <1>6, <1>7 DEF Await

LEMMA StepMaps ==
  ASSUME TypeOK, Consistent, [Next]_vars
  PROVE  [Promise!Next]_(Promise!promiseVars)
  <1>1. CASE UNCHANGED vars
    BY <1>1, PromiseSame
  <1>2. ASSUME NEW c \in Command, CommandStep(c), UNCHANGED pageVars
        PROVE  [Promise!Next]_(Promise!promiseVars)
    BY <1>2, GatewayMaps
  <1>3. ASSUME NEW r \in scenario.elsewhere, CommandElsewhere(r), UNCHANGED pageVars
        PROVE  [Promise!Next]_(Promise!promiseVars)
    BY <1>3, PromiseSame DEF CommandElsewhere
  <1>4. CASE (Connected \/ Disconnected \/ MonitorPushes) /\ UNCHANGED pageVars
    BY <1>4, PromiseSame DEF Connected, Disconnected, MonitorPushes
  <1>5. ASSUME NEW c \in Command, Click(c)
        PROVE  [Promise!Next]_(Promise!promiseVars)
    BY <1>5, ClickFrame, PromiseSame
  <1>6. ASSUME NEW c \in Command, Await(c)
        PROVE  [Promise!Next]_(Promise!promiseVars)
    BY <1>6, AwaitMaps
  <1>7. CASE OtherPageStep
    BY <1>7, OtherFrame, PromiseSame DEF Quiet
  <1> QED
    BY <1>1, <1>2, <1>3, <1>4, <1>5, <1>6, <1>7 DEF Next, GatewayStep, PageStep,
       OtherPageStep

(* The page and the gateway implement CommandPromise: whatever is lost,     *)
(* late or repeated on the way, the operator is not told of a command what  *)
(* HMI or Core did not do.                                                  *)
THEOREM ConsoleImplementsPromise == Spec => PromiseKept
  <1>1. Init => Promise!Init
    BY DEF Init, GatewayInit, Promise!Init, Taken
  <1>2. ConsoleInvariant /\ [Next]_vars => [Promise!Next]_(Promise!promiseVars)
    BY StepMaps DEF ConsoleInvariant
  <1> QED
    BY <1>1, <1>2, InitConsole, NextKeeps, PTL DEF Spec, PromiseKept, Promise!Spec
=============================================================================
