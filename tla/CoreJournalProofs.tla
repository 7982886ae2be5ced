------------------------- MODULE CoreJournalProofs -------------------------
(* That commands are executed once, that the journal tells the truth, that  *)
(* decoders' addresses are known and that calls to move reach the           *)
(* locomotive they were meant for: theorems about CoreService, for every    *)
(* set of threads, commands, assets and every bound.                        *)
EXTENDS CoreServiceProofs

(* The stages after the call has left. *)
Sent == {"waiting", "commit", "release", "done"}
Calls == wire \cup taken

(* Who acts on an entry acts on the command that is in it, and MC has only  *)
(* executions of journalled commands.                                      *)
ThreadJournalled(t) ==
    /\ pc[t] \in Entered => row[Cmd(t).id].command = Cmd(t)
    /\ pc[t] \notin Sent => reply[t] = None
    /\ reply[t] = "ok" => acts[Cmd(t).id] > 0
    /\ pc[t] \in Sent \ {"waiting"} =>
           acts[Cmd(t).id] > 0 /\ Op(t) = "program"
CallJournalled(call) ==
    /\ row[call.command.id] # None
    /\ row[call.command.id].command = call.command
    /\ call \in taken => ~ForMc(call)
IdentityJournalled(k) ==
    /\ row[k] = None => acts[k] = 0
    /\ mc.execution[k] # None
           => row[k] # None /\ row[k].command.op = "stationary"
    /\ (row[k] # None /\ row[k].command.op = "stationary")
           => acts[k] = IF mc.execution[k] = None THEN 0 ELSE 1
Journalled ==
    /\ \A t \in Thread : ThreadJournalled(t)
    /\ \A call \in Calls : CallJournalled(call)
    /\ \A k \in CommandId : IdentityJournalled(k)

(* An answer reaches the thread that asked: attempts are never used twice.  *)
AttemptsUnique ==
    /\ \A t \in Thread : pc[t] # "idle" => work[t].attempt < arrivals
    /\ \A call \in Calls : call.attempt < arrivals
    /\ \A t, u \in Thread :
          (pc[t] # "idle" /\ pc[u] # "idle" /\ work[t].attempt = work[u].attempt)
              => t = u
    /\ \A t \in Thread : \A call \in Calls :
          (pc[t] # "idle" /\ work[t].attempt = call.attempt)
              => call.command = Cmd(t)

(* An operation that goes on only if it wrote the entry is, until it is     *)
(* executed, in one place: a thread, a call in flight or a call DCC took.   *)
ThreadOnce(t) ==
    (pc[t] \in Entered /\ Op(t) \in Dispatched) =>
        /\ row[Cmd(t).id].state = "accepted"
        /\ \A u \in Thread :
              (pc[u] \in Entered /\ Cmd(u).id = Cmd(t).id) => u = t
        /\ pc[t] = "call" =>
              /\ acts[Cmd(t).id] = 0
              /\ \A call \in Calls : call.command.id # Cmd(t).id
CallOnce(call) ==
    call.command.op \in Dispatched =>
        /\ acts[call.command.id] = 0
        /\ call \notin wire \/ call \notin taken
        /\ \A other \in Calls :
              other.command.id = call.command.id => other = call
DispatchedOnce ==
    /\ \A t \in Thread : ThreadOnce(t)
    /\ \A call \in Calls : CallOnce(call)
    /\ \A k \in CommandId :
          (row[k] # None /\ row[k].command.op \in Dispatched) => acts[k] <= 1

(* What the heartbeat has read is still true of what has ended. *)
SeenTrue ==
    seen # None => \A k \in CommandId : seen[k] # None =>
        /\ mc.execution[k] # None
        /\ seen[k].state \in {"completed", "failed"}
               => mc.execution[k].state = seen[k].state

JournalInvariant ==
    /\ Journalled /\ AttemptsUnique /\ DispatchedOnce /\ SeenTrue
    /\ JournalTruthful

USE DEF registry, process, journal, threads, adapters, vars

LEMMA CommandsTyped ==
  ASSUME CoreInvariant
  PROVE  /\ \A t \in Thread : pc[t] # "idle" =>
               /\ work[t] \in Work /\ Cmd(t) \in Commands /\ Cmd(t) \in Command
               /\ Cmd(t).id \in CommandId /\ work[t].attempt \in Nat
         /\ \A call \in Calls : /\ call \in Call /\ call.command \in Commands
                                /\ call.command.id \in CommandId
                                /\ call.attempt \in Nat
         /\ arrivals \in Nat
  <1>1. \A t \in Thread : pc[t] # "idle" => work[t] \in Work
    BY DEF CoreInvariant, TypeOK
  <1>2. \A call \in Calls : call \in Call
    BY DEF CoreInvariant, TypeOK, Calls
  <1> QED BY <1>1, <1>2, CommandsAssumption, ArrivalsAssumption
          DEF CoreInvariant, TypeOK, Work, Call, Command, Cmd

LEMMA InitJournal == Init => JournalInvariant
  <1> SUFFICES ASSUME Init PROVE JournalInvariant
    OBVIOUS
  <1>1. /\ \A t \in Thread : pc[t] = "idle" /\ reply[t] = None
        /\ Calls = {} /\ seen = None
        /\ \A k \in CommandId :
              row[k] = None /\ acts[k] = 0 /\ mc.execution[k] = None
    BY DEF Init, Calls
  <1>2. None # "ok"
    BY AbsenceAssumption
  <1> QED BY <1>1, <1>2
          DEF JournalInvariant, Journalled, ThreadJournalled, CallJournalled,
              IdentityJournalled, AttemptsUnique, DispatchedOnce, ThreadOnce,
              CallOnce, SeenTrue, JournalTruthful, Entered, Sent

(* How a step may change the threads: one goes on with what it works on,    *)
(* or its request is answered; the others stay.                            *)
OthersStay(t) ==
    \A u \in Thread \ {t} :
        pc'[u] = pc[u] /\ work'[u] = work[u] /\ reply'[u] = reply[u]
Left(t) == pc'[t] = "idle" /\ reply'[t] = None
Moved(t) ==
    /\ pc[t] # "idle" /\ pc'[t] # "idle"
    /\ work'[t].command = Cmd(t) /\ work'[t].attempt = work[t].attempt
    /\ reply'[t] = reply[t]
WorkKept ==
    \A t \in Thread : pc'[t] # "idle" =>
        /\ pc[t] # "idle"
        /\ work'[t].command = Cmd(t) /\ work'[t].attempt = work[t].attempt

LEMMA StepKeepsWork ==
  ASSUME NEW t \in Thread, OthersStay(t), Left(t) \/ Moved(t)
  PROVE  WorkKept
  BY DEF OthersStay, Left, Moved, WorkKept, Cmd

LEMMA AnswerLeaves ==
  ASSUME CoreInvariant, NEW t \in Thread, Answer(t)
  PROVE  OthersStay(t) /\ Left(t)
  BY DEF Answer, OthersStay, Left, CoreInvariant, TypeOK

LEMMA GoToMoves ==
  ASSUME CoreInvariant, NEW t \in Thread, pc[t] # "idle",
         NEW stage \in Stage \ {"idle"}, GoTo(t, stage),
         UNCHANGED <<work, reply>>
  PROVE  OthersStay(t) /\ Moved(t) /\ pc'[t] = stage
  BY DEF GoTo, OthersStay, Moved, CoreInvariant, TypeOK, Cmd

(* The threads and calls of the next state have their attempts from this    *)
(* one.                                                                    *)
LEMMA AttemptsKept ==
  ASSUME CoreInvariant, AttemptsUnique, WorkKept, UNCHANGED arrivals,
         \A call \in Calls' :
            \/ call \in Calls
            \/ \E t \in Thread : /\ pc[t] # "idle"
                                 /\ call.attempt = work[t].attempt
                                 /\ call.command = Cmd(t)
  PROVE  AttemptsUnique'
  <1>1. \A t \in Thread : pc'[t] # "idle" => work'[t].attempt < arrivals'
    BY DEF WorkKept, AttemptsUnique
  <1>2. \A call \in Calls' : call.attempt < arrivals'
    BY DEF AttemptsUnique
  <1>3. \A t, u \in Thread :
          (/\ pc'[t] # "idle" /\ pc'[u] # "idle"
           /\ work'[t].attempt = work'[u].attempt) => t = u
    BY DEF WorkKept, AttemptsUnique
  <1>4. ASSUME NEW t \in Thread, NEW call \in Calls',
               pc'[t] # "idle", work'[t].attempt = call.attempt
        PROVE  call.command = Cmd(t)'
    <2>1. /\ pc[t] # "idle" /\ Cmd(t)' = Cmd(t)
          /\ work[t].attempt = call.attempt
      BY <1>4 DEF WorkKept, Cmd
    <2> QED BY <2>1, <1>4 DEF AttemptsUnique
  <1> QED BY <1>1, <1>2, <1>3, <1>4 DEF AttemptsUnique, Cmd

(* Before its journal entry a thread disturbs nothing.                      *)
LEMMA EarlyJournal ==
  ASSUME CoreInvariant, JournalInvariant, NEW t \in Thread,
         pc[t] # "idle", pc[t] \notin Entered,
         OthersStay(t), Left(t) \/ (Moved(t) /\ pc'[t] \notin Entered),
         UNCHANGED <<row, wire, taken, acts, mc, seen, arrivals>>
  PROVE  JournalInvariant'
  <1>0. Calls' = Calls
    BY DEF Calls
  <1>1. AttemptsUnique'
    BY <1>0, StepKeepsWork, AttemptsKept DEF JournalInvariant
  <1>2. ASSUME NEW u \in Thread
        PROVE  ThreadJournalled(u)' /\ ThreadOnce(u)'
    <2>1. CASE u = t
      <3>1. pc'[u] \notin Entered /\ pc'[u] \notin Sent /\ reply'[u] = None
        BY <2>1 DEF Entered, Sent, Left, Moved, JournalInvariant, Journalled,
                    ThreadJournalled
      <3> QED BY <3>1, AbsenceAssumption DEF ThreadJournalled, ThreadOnce, Sent
    <2>2. CASE u # t
      <3>1. pc'[u] = pc[u] /\ work'[u] = work[u] /\ reply'[u] = reply[u]
        BY <2>2 DEF OthersStay
      <3>2. ThreadJournalled(u)'
        BY <3>1 DEF JournalInvariant, Journalled, ThreadJournalled, Cmd, Op
      <3>3. ASSUME NEW v \in Thread, pc'[v] \in Entered
            PROVE  pc[v] \in Entered /\ Cmd(v)' = Cmd(v)
        BY <3>3 DEF OthersStay, Left, Moved, Entered, Cmd
      <3>4. ThreadOnce(u)'
        BY <1>0, <3>1, <3>3
        DEF JournalInvariant, DispatchedOnce, ThreadOnce, Cmd, Op
      <3> QED BY <3>2, <3>4
    <2> QED BY <2>1, <2>2
  <1>3. Journalled'
    BY <1>0, <1>2 DEF JournalInvariant, Journalled, CallJournalled,
                      IdentityJournalled
  <1>4. DispatchedOnce'
    BY <1>0, <1>2 DEF JournalInvariant, DispatchedOnce, CallOnce
  <1> QED BY <1>1, <1>3, <1>4 DEF JournalInvariant, SeenTrue, JournalTruthful

(* begin writes the entry: nobody else has anything of that identity.       *)
LEMMA WrittenJournal ==
  ASSUME CoreInvariant, CoreInvariant', JournalInvariant, NEW t \in Thread,
         pc[t] = "begin", row[Cmd(t).id] = None,
         row' = [row EXCEPT ![Cmd(t).id] = Entry(t)],
         GoTo(t, "call"), UNCHANGED <<work, reply>>,
         UNCHANGED <<wire, taken, acts, mc, seen, arrivals>>
  PROVE  JournalInvariant'
  <1> DEFINE k == Cmd(t).id
  <1>0. Calls' = Calls
    BY DEF Calls
  <1>1. OthersStay(t) /\ Moved(t) /\ pc'[t] = "call"
    BY GoToMoves DEF Stage
  <1>2. AttemptsUnique'
    BY <1>0, <1>1, StepKeepsWork, AttemptsKept DEF JournalInvariant
  <1>3. /\ k \in CommandId /\ row[k] = None /\ Cmd(t)' = Cmd(t)
        /\ row'[k] # None /\ row'[k].command = Cmd(t)
        /\ row'[k].state = "accepted" /\ row'[k].result = FALSE
        /\ \A j \in CommandId \ {k} : row'[j] = row[j]
    <2>1. k \in CommandId /\ row'[k] = Entry(t)
      BY CommandsTyped DEF CoreInvariant, TypeOK
    <2>2. row'[k] # None
      BY <1>1, <2>1 DEF CoreInvariant, Entered, Cmd
    <2> QED BY <2>1, <2>2 DEF Entry, CoreInvariant, TypeOK, Cmd
  <1>4. /\ acts[k] = 0 /\ mc.execution[k] = None
        /\ \A call \in Calls : call.command.id # k
        /\ \A u \in Thread : pc[u] \in Entered => Cmd(u).id # k
    BY <1>3 DEF JournalInvariant, Journalled, IdentityJournalled,
                CallJournalled, CoreInvariant, Cmd
  <1> HIDE DEF k
  <1>5. ASSUME NEW u \in Thread
        PROVE  ThreadJournalled(u)' /\ ThreadOnce(u)'
    <2>1. CASE u = t
      <3>1. pc'[u] = "call" /\ Cmd(u)' = Cmd(t) /\ reply'[u] = None
        BY <1>1, <1>3, <2>1
        DEF Moved, Sent, JournalInvariant, Journalled, ThreadJournalled
      <3>2. ThreadJournalled(u)'
        BY <1>3, <3>1, AbsenceAssumption DEF ThreadJournalled, Sent, Cmd, k
      <3>3. \A v \in Thread :
              pc'[v] \in Entered /\ Cmd(v)'.id = k => v = u
        BY <1>1, <1>4, <2>1 DEF OthersStay, Cmd
      <3>4. ThreadOnce(u)'
        BY <1>0, <1>3, <1>4, <3>1, <3>3 DEF ThreadOnce, Cmd, Op, k
      <3> QED BY <3>2, <3>4
    <2>2. CASE u # t
      <3>1. /\ pc'[u] = pc[u] /\ work'[u] = work[u] /\ reply'[u] = reply[u]
            /\ Cmd(u)' = Cmd(u)
        BY <1>1, <2>2 DEF OthersStay, Cmd
      <3>2. pc[u] \in Entered => row'[Cmd(u).id] = row[Cmd(u).id]
        BY <1>3, <1>4, CommandsTyped DEF Entered
      <3>3. ThreadJournalled(u)'
        BY <3>1, <3>2 DEF JournalInvariant, Journalled, ThreadJournalled, Op, Cmd
      <3>4. ASSUME NEW v \in Thread, pc'[v] \in Entered, pc[u] \in Entered,
                   Cmd(v)'.id = Cmd(u).id
            PROVE  pc[v] \in Entered /\ Cmd(v).id = Cmd(u).id
        BY <1>1, <1>3, <1>4, <3>4 DEF OthersStay, Cmd, k
      <3>5. ThreadOnce(u)'
        BY <1>0, <3>1, <3>2, <3>4
        DEF JournalInvariant, DispatchedOnce, ThreadOnce, Cmd, Op
      <3> QED BY <3>3, <3>5
    <2> QED BY <2>1, <2>2
  <1>6. ASSUME NEW call \in Calls' PROVE CallJournalled(call)' /\ CallOnce(call)'
    <2>1. call \in Calls /\ row'[call.command.id] = row[call.command.id]
      BY <1>0, <1>3, <1>4, CommandsTyped
    <2>2. CallJournalled(call) /\ CallOnce(call)
      BY <2>1 DEF JournalInvariant, Journalled, DispatchedOnce
    <2> QED BY <1>0, <2>1, <2>2 DEF CallJournalled, CallOnce
  <1>7. ASSUME NEW j \in CommandId
        PROVE  /\ IdentityJournalled(j)'
               /\ row'[j] # None /\ row'[j].command.op \in Dispatched
                      => acts'[j] <= 1
               /\ row'[j] # None =>
                    IF row'[j].command.op = "stationary"
                    THEN /\ row'[j].state \in {"completed", "failed"}
                                => /\ mc'.execution[j] # None
                                   /\ mc'.execution[j].state = row'[j].state
                         /\ row'[j].result => acts'[j] = 1
                    ELSE row'[j].state = "completed" => acts'[j] > 0
    <2>1. CASE j = k
      BY <1>3, <1>4, <2>1 DEF IdentityJournalled
    <2>2. CASE j # k
      BY <1>3, <2>2 DEF JournalInvariant, Journalled, IdentityJournalled,
                        DispatchedOnce, JournalTruthful
    <2> QED BY <2>1, <2>2
  <1> QED BY <1>2, <1>5, <1>6, <1>7
          DEF JournalInvariant, Journalled, DispatchedOnce, SeenTrue,
              JournalTruthful

(* A repeated entry: only the operations that do not look go on.            *)
LEMMA RepeatedJournal ==
  ASSUME CoreInvariant, CoreInvariant', JournalInvariant, NEW t \in Thread,
         pc[t] = "begin", row[Cmd(t).id] # None, UNCHANGED row,
         Op(t) \notin Dispatched, SameCommand(row[Cmd(t).id], t),
         GoTo(t, "call"), UNCHANGED <<work, reply>>,
         UNCHANGED <<wire, taken, acts, mc, seen, arrivals>>
  PROVE  JournalInvariant'
  <1>0. Calls' = Calls
    BY DEF Calls
  <1>1. OthersStay(t) /\ Moved(t) /\ pc'[t] = "call"
    BY GoToMoves DEF Stage
  <1>2. AttemptsUnique'
    BY <1>0, <1>1, StepKeepsWork, AttemptsKept DEF JournalInvariant
  <1>3. Cmd(t)' = Cmd(t) /\ Op(t)' = Op(t) /\ row[Cmd(t).id].command = Cmd(t)
    BY DEF Cmd, Op, SameCommand
  <1>4. ASSUME NEW u \in Thread
        PROVE  ThreadJournalled(u)' /\ ThreadOnce(u)'
    <2>1. CASE u = t
      <3>1. reply'[u] = None
        BY <2>1 DEF Sent, JournalInvariant, Journalled, ThreadJournalled
      <3> QED BY <1>1, <1>3, <2>1, <3>1, AbsenceAssumption
              DEF ThreadJournalled, ThreadOnce, Sent
    <2>2. CASE u # t
      <3>1. /\ pc'[u] = pc[u] /\ work'[u] = work[u] /\ reply'[u] = reply[u]
            /\ Cmd(u)' = Cmd(u)
        BY <1>1, <2>2 DEF OthersStay, Cmd
      <3>2. ThreadJournalled(u)'
        BY <3>1 DEF JournalInvariant, Journalled, ThreadJournalled, Op, Cmd
      <3>3. (pc[u] \in Entered /\ Op(u) \in Dispatched) =>
                Cmd(u).id # Cmd(t).id
        BY <1>3 DEF JournalInvariant, Journalled, ThreadJournalled, Cmd, Op
      <3>4. ASSUME NEW v \in Thread, pc'[v] \in Entered, pc[u] \in Entered,
                   Op(u) \in Dispatched, Cmd(v)'.id = Cmd(u).id
            PROVE  pc[v] \in Entered /\ Cmd(v).id = Cmd(u).id
        BY <1>1, <1>3, <3>3, <3>4 DEF OthersStay, Cmd
      <3>5. ThreadOnce(u)'
        BY <1>0, <3>1, <3>4
        DEF JournalInvariant, DispatchedOnce, ThreadOnce, Cmd, Op
      <3> QED BY <3>2, <3>5
    <2> QED BY <2>1, <2>2
  <1>5. Journalled'
    BY <1>0, <1>4 DEF JournalInvariant, Journalled, CallJournalled,
                      IdentityJournalled
  <1>6. DispatchedOnce'
    BY <1>0, <1>4 DEF JournalInvariant, DispatchedOnce, CallOnce
  <1> QED BY <1>2, <1>5, <1>6 DEF JournalInvariant, SeenTrue, JournalTruthful

LEMMA BeginJournal ==
  ASSUME CoreInvariant, CoreInvariant', JournalInvariant, NEW t \in Thread,
         Begin(t)
  PROVE  JournalInvariant'
  <1>1. /\ pc[t] = "begin" /\ pc[t] # "idle" /\ pc[t] \notin Entered
        /\ UNCHANGED <<wire, taken, acts, mc, seen, arrivals>>
    BY DEF Begin, At, Elsewhere, Entered
  <1>2. CASE Answer(t) /\ UNCHANGED row
    BY <1>1, <1>2, AnswerLeaves, EarlyJournal
  <1>3. CASE /\ row[Cmd(t).id] = None
             /\ row' = [row EXCEPT ![Cmd(t).id] = Entry(t)]
             /\ GoTo(t, "call") /\ UNCHANGED <<work, reply>>
    BY <1>1, <1>3, WrittenJournal
  <1>4. CASE /\ row[Cmd(t).id] # None /\ UNCHANGED row
             /\ Op(t) \notin Dispatched /\ SameCommand(row[Cmd(t).id], t)
             /\ GoTo(t, "call") /\ UNCHANGED <<work, reply>>
    BY <1>1, <1>4, RepeatedJournal
  <1> QED BY <1>2, <1>3, <1>4 DEF Begin

(* The call leaves: the only one of its identity, if it must be.            *)
LEMMA SendJournal ==
  ASSUME CoreInvariant, CoreInvariant', JournalInvariant, NEW t \in Thread,
         SendCall(t)
  PROVE  JournalInvariant'
  <1>1. /\ pc[t] = "call" /\ GoTo(t, "waiting")
        /\ UNCHANGED <<row, work, reply, arrivals, seen, taken, mc, acts>>
    BY DEF SendCall, At
  <1>2. /\ OthersStay(t) /\ Moved(t) /\ pc'[t] = "waiting"
    BY <1>1, GoToMoves DEF Stage
  <1> DEFINE call == [command |-> Cmd(t), attempt |-> work[t].attempt,
                      session |-> epoch, token |-> work[t].token,
                      address |-> work[t].address]
  <1>3. /\ wire' = wire \cup {call}
        /\ call.command = Cmd(t) /\ call.attempt = work[t].attempt
    BY DEF SendCall
  <1> HIDE DEF call
  <1>4. Calls' = Calls \cup {call}
    BY <1>1, <1>3 DEF Calls
  <1>5. AttemptsUnique'
    BY <1>1, <1>2, <1>3, <1>4, StepKeepsWork, AttemptsKept
    DEF JournalInvariant
  <1>6. \A u \in Thread : Cmd(u)' = Cmd(u)
    BY <1>1 DEF Cmd
  <1>7. \A u \in Thread : pc'[u] \in Entered <=> pc[u] \in Entered
    BY <1>1, <1>2 DEF OthersStay, Entered
  <1>8. ASSUME NEW u \in Thread
        PROVE  ThreadJournalled(u)' /\ ThreadOnce(u)'
    <2>1. ThreadJournalled(u)'
      <3>1. u = t => reply[u] = None
        BY <1>1 DEF Sent, JournalInvariant, Journalled, ThreadJournalled
      <3>2. /\ pc'[u] \notin Sent => pc[u] \notin Sent
            /\ pc'[u] \in Sent \ {"waiting"} => pc[u] \in Sent \ {"waiting"}
        BY <1>1, <1>2 DEF OthersStay, Sent
      <3> QED BY <1>1, <1>6, <1>7, <3>1, <3>2, AbsenceAssumption
              DEF JournalInvariant, Journalled, ThreadJournalled, Op
    <2>2. ASSUME pc'[u] \in Entered, Op(u)' \in Dispatched, pc'[u] = "call"
          PROVE  /\ pc[u] = "call" /\ pc[u] \in Entered /\ u # t
                 /\ Cmd(u).id # Cmd(t).id
      <3>1. pc[u] = "call" /\ pc[u] \in Entered /\ u # t
        BY <1>2, <1>7, <2>2 DEF OthersStay
      <3>2. ThreadOnce(u) /\ Op(u) \in Dispatched
        BY <1>6, <2>2 DEF JournalInvariant, DispatchedOnce, Op, Cmd
      <3> QED BY <1>1, <3>1, <3>2 DEF ThreadOnce, Entered
    <2>3. ThreadOnce(u)'
      BY <1>1, <1>3, <1>4, <1>6, <1>7, <2>2
      DEF JournalInvariant, DispatchedOnce, ThreadOnce, Op, Cmd
    <2> QED BY <2>1, <2>3
  <1>9. ASSUME NEW c \in Calls' PROVE CallJournalled(c)' /\ CallOnce(c)'
    <2>1. CASE c = call /\ Op(t) \in Dispatched
      <3>1. /\ acts[Cmd(t).id] = 0
            /\ \A other \in Calls : other.command.id # Cmd(t).id
        BY <1>1, <2>1
        DEF Entered, JournalInvariant, DispatchedOnce, ThreadOnce
      <3>2. /\ row[Cmd(t).id] # None /\ row[Cmd(t).id].command = Cmd(t)
        BY <1>1 DEF Entered, JournalInvariant, Journalled, ThreadJournalled,
                    CoreInvariant, Cmd
      <3>3. c \notin taken'
        BY <1>1, <1>3, <2>1, <3>1 DEF Calls
      <3> QED BY <1>1, <1>3, <1>4, <2>1, <3>1, <3>2, <3>3
              DEF CallJournalled, CallOnce
    <2>2. CASE c = call /\ Op(t) \notin Dispatched
      <3>1. /\ row[Cmd(t).id] # None /\ row[Cmd(t).id].command = Cmd(t)
        BY <1>1 DEF Entered, JournalInvariant, Journalled, ThreadJournalled,
                    CoreInvariant, Cmd
      <3>2. c \in taken => ~ForMc(c)
        BY DEF JournalInvariant, Journalled, CallJournalled, Calls
      <3> QED BY <1>1, <1>3, <2>2, <3>1, <3>2
              DEF CallJournalled, CallOnce, ForMc, Op, Cmd
    <2>3. CASE c # call
      <3>1. c \in Calls /\ CallJournalled(c) /\ CallOnce(c)
        BY <1>4, <2>3 DEF JournalInvariant, Journalled, DispatchedOnce
      <3>2. ASSUME c.command.op \in Dispatched PROVE c.command.id # Cmd(t).id
        <4>1. row[c.command.id].command = c.command
          BY <3>1 DEF CallJournalled
        <4>2. /\ row[Cmd(t).id].command = Cmd(t)
              /\ Op(t) \in Dispatched =>
                   \A other \in Calls : other.command.id # Cmd(t).id
          BY <1>1 DEF Entered, JournalInvariant, Journalled, ThreadJournalled,
                      DispatchedOnce, ThreadOnce
        <4> QED BY <3>1, <3>2, <4>1, <4>2 DEF Cmd, Op
      <3> QED BY <1>1, <1>3, <1>4, <2>3, <3>1, <3>2
              DEF CallJournalled, CallOnce, ForMc
    <2> QED BY <2>1, <2>2, <2>3
  <1>10. Journalled'
    BY <1>1, <1>8, <1>9 DEF JournalInvariant, Journalled, IdentityJournalled
  <1>11. DispatchedOnce'
    BY <1>1, <1>8, <1>9 DEF JournalInvariant, DispatchedOnce
  <1> QED BY <1>1, <1>5, <1>10, <1>11
          DEF JournalInvariant, SeenTrue, JournalTruthful

(* A programming command goes on after the decoder was written.             *)
LEMMA SentJournal ==
  ASSUME CoreInvariant, CoreInvariant', JournalInvariant, NEW t \in Thread,
         pc[t] \in Sent, NEW stage \in Sent \ {"waiting"}, GoTo(t, stage),
         acts[Cmd(t).id] > 0, Op(t) = "program", UNCHANGED <<work, reply>>,
         UNCHANGED <<row, wire, taken, acts, mc, seen, arrivals>>
  PROVE  JournalInvariant'
  <1>0. Calls' = Calls
    BY DEF Calls
  <1>1. OthersStay(t) /\ Moved(t) /\ pc'[t] = stage
    <2>1. stage \in Stage \ {"idle"} /\ pc[t] # "idle"
      BY DEF Sent, Stage
    <2> QED BY <2>1, GoToMoves
  <1>2. AttemptsUnique'
    BY <1>0, <1>1, StepKeepsWork, AttemptsKept DEF JournalInvariant
  <1>3. \A u \in Thread : /\ Cmd(u)' = Cmd(u)
                          /\ pc'[u] \in Entered <=> pc[u] \in Entered
                          /\ pc'[u] \in Sent <=> pc[u] \in Sent
                          /\ pc'[u] = "call" <=> pc[u] = "call"
    BY <1>1 DEF OthersStay, Entered, Sent, Cmd
  <1>4. ASSUME NEW u \in Thread
        PROVE  ThreadJournalled(u)' /\ ThreadOnce(u)'
    <2>1. ThreadJournalled(u)'
      BY <1>1, <1>3 DEF OthersStay, JournalInvariant, Journalled,
                        ThreadJournalled, Op
    <2>2. ThreadOnce(u)'
      BY <1>0, <1>3 DEF JournalInvariant, DispatchedOnce, ThreadOnce, Op
    <2> QED BY <2>1, <2>2
  <1>5. Journalled'
    BY <1>0, <1>4 DEF JournalInvariant, Journalled, CallJournalled,
                      IdentityJournalled
  <1>6. DispatchedOnce'
    BY <1>0, <1>4 DEF JournalInvariant, DispatchedOnce, CallOnce
  <1> QED BY <1>2, <1>5, <1>6 DEF JournalInvariant, SeenTrue, JournalTruthful

(* An entry is finished and the request answered.                           *)
LEMMA FinishJournal ==
  ASSUME CoreInvariant, CoreInvariant', JournalInvariant, NEW t \in Thread,
         pc[t] \in Entered, Answer(t),
         NEW s \in {"accepted", "completed", "uncertain"},
         NEW result \in BOOLEAN, FinishAs(t, s, result),
         s = "completed" => Op(t) # "stationary" /\ acts[Cmd(t).id] > 0,
         (result /\ Op(t) = "stationary") => acts[Cmd(t).id] > 0,
         UNCHANGED <<wire, taken, acts, mc, seen, arrivals>>
  PROVE  JournalInvariant'
  <1> DEFINE k == Cmd(t).id
  <1>0. Calls' = Calls
    BY DEF Calls
  <1>1. OthersStay(t) /\ Left(t)
    BY AnswerLeaves
  <1>2. AttemptsUnique'
    BY <1>0, <1>1, StepKeepsWork, AttemptsKept DEF JournalInvariant
  <1>3. /\ k \in CommandId /\ row[k] # None /\ row[k].command = Cmd(t)
        /\ row'[k] = [row[k] EXCEPT !.state = s, !.result = result]
        /\ row[k] \in Row
        /\ \A j \in CommandId \ {k} : row'[j] = row[j]
    <2>1. k \in CommandId /\ row[k] # None /\ row[k].command = Cmd(t)
      BY CommandsTyped
      DEF Entered, CoreInvariant, JournalInvariant, Journalled,
          ThreadJournalled, Cmd
    <2> QED BY <2>1 DEF FinishAs, CoreInvariant, TypeOK
  <1>4. /\ row'[k].command = Cmd(t) /\ row'[k].state = s
        /\ row'[k].result = result
    BY <1>3 DEF Row
  <1>5. \A j \in CommandId : row[j] # None =>
            /\ row'[j] # None /\ row'[j].command = row[j].command
            /\ j # k => row'[j] = row[j]
    <2>1. RowsKept
      BY FinishTyped
    <2> QED BY <1>3, <1>4, <2>1 DEF RowsKept
  <1>6. \A j \in CommandId : row'[j] # None => row[j] # None
    BY <1>3
  <1>7. ASSUME NEW u \in Thread
        PROVE  ThreadJournalled(u)' /\ ThreadOnce(u)'
    <2>1. CASE u = t
      BY <1>1, <2>1, AbsenceAssumption
      DEF Left, ThreadJournalled, ThreadOnce, Entered, Sent
    <2>2. CASE u # t
      <3>1. /\ pc'[u] = pc[u] /\ work'[u] = work[u] /\ reply'[u] = reply[u]
            /\ Cmd(u)' = Cmd(u)
        BY <1>1, <2>2 DEF OthersStay, Cmd
      <3>2. pc[u] \in Entered =>
               /\ Cmd(u).id \in CommandId /\ row[Cmd(u).id] # None
               /\ row[Cmd(u).id].command = Cmd(u)
        BY CommandsTyped DEF Entered, CoreInvariant, JournalInvariant,
                             Journalled, ThreadJournalled, Cmd
      <3>3. ThreadJournalled(u)'
        BY <1>5, <3>1, <3>2
        DEF JournalInvariant, Journalled, ThreadJournalled, Op
      <3>4. (pc[u] \in Entered /\ Op(u) \in Dispatched) => Cmd(u).id # k
        BY <1>3, <2>2, <3>2 DEF JournalInvariant, DispatchedOnce, ThreadOnce, Op
      <3>5. ASSUME NEW v \in Thread, pc'[v] \in Entered
            PROVE  pc[v] \in Entered /\ Cmd(v)' = Cmd(v)
        BY <1>1, <3>5 DEF OthersStay, Left, Entered, Cmd
      <3> HIDE DEF k
      <3>6. ThreadOnce(u)'
        BY <1>0, <1>5, <3>1, <3>2, <3>4, <3>5
        DEF JournalInvariant, DispatchedOnce, ThreadOnce, Op
      <3> QED BY <3>3, <3>6
    <2> QED BY <2>1, <2>2
  <1>8. ASSUME NEW call \in Calls' PROVE CallJournalled(call)' /\ CallOnce(call)'
    <2>1. call \in Calls /\ CallJournalled(call) /\ CallOnce(call)
      BY <1>0 DEF JournalInvariant, Journalled, DispatchedOnce
    <2>2. call.command.id \in CommandId
      BY <2>1, CommandsTyped
    <2> QED BY <1>0, <1>5, <2>1, <2>2 DEF CallJournalled, CallOnce
  <1>9. ASSUME NEW j \in CommandId
        PROVE  /\ IdentityJournalled(j)'
               /\ row'[j] # None /\ row'[j].command.op \in Dispatched
                      => acts'[j] <= 1
    BY <1>5, <1>6 DEF JournalInvariant, Journalled, IdentityJournalled,
                      DispatchedOnce
  <1>10. JournalTruthful'
    <2> SUFFICES ASSUME NEW j \in CommandId, row'[j] # None
                 PROVE  IF row'[j].command.op = "stationary"
                        THEN /\ row'[j].state \in {"completed", "failed"}
                                 => /\ mc'.execution[j] # None
                                    /\ mc'.execution[j].state = row'[j].state
                             /\ row'[j].result => acts'[j] = 1
                        ELSE row'[j].state = "completed" => acts'[j] > 0
      BY DEF JournalTruthful
    <2>1. CASE j = k
      <3>1. Op(t) = Cmd(t).op
        BY DEF Op, Cmd
      <3>2. IdentityJournalled(k)
        BY <1>3 DEF JournalInvariant, Journalled
      <3>3. Op(t) = "stationary" => acts[k] \in {0, 1}
        BY <1>3, <3>1, <3>2 DEF IdentityJournalled
      <3>4. /\ s = "completed" => Op(t) # "stationary" /\ acts[k] > 0
            /\ (result /\ Op(t) = "stationary") => acts[k] > 0
            /\ s # "failed" /\ acts' = acts
        OBVIOUS
      <3> HIDE DEF k
      <3>5. CASE Op(t) = "stationary"
        BY <1>4, <2>1, <3>1, <3>3, <3>4, <3>5
      <3>6. CASE Op(t) # "stationary"
        BY <1>4, <2>1, <3>1, <3>4, <3>6
      <3> QED BY <3>5, <3>6
    <2>2. CASE j # k
      BY <1>3, <2>2 DEF JournalInvariant, JournalTruthful
    <2> QED BY <2>1, <2>2
  <1> QED BY <1>2, <1>7, <1>8, <1>9, <1>10
          DEF JournalInvariant, Journalled, DispatchedOnce, SeenTrue

LEMMA CommandJournal ==
  ASSUME CoreInvariant, CoreInvariant', JournalInvariant, NEW t \in Thread,
         CommandStep(t)
  PROVE  JournalInvariant'
  <1>1. /\ "completed" \in {"accepted", "completed", "uncertain"}
        /\ TRUE \in BOOLEAN /\ (Op(t) = "program") \in BOOLEAN
    OBVIOUS
  <1>2. pc[t] \in Sent \ {"waiting"} =>
            acts[Cmd(t).id] > 0 /\ Op(t) = "program"
    BY DEF JournalInvariant, Journalled, ThreadJournalled
  <1>3. ASSUME Lookup(t) \/ ReadAsset(t) \/ ChooseReservation(t) \/ RequestLease(t)
               \/ CheckReservation(t) \/ HoldReservation(t) \/ Refuse(t)
               \/ LeaseUnanswered(t)
        PROVE  JournalInvariant'
    <2>1. /\ pc[t] \in {"lookup", "read", "choose", "lease", "reserve", "hold",
                        "begin"}
          /\ UNCHANGED <<row, wire, taken, acts, mc, seen, arrivals>>
      BY <1>3 DEF Lookup, ReadAsset, ChooseReservation, RequestLease,
                  CheckReservation, HoldReservation, Refuse, LeaseUnanswered,
                  At, Elsewhere
    <2>2. pc[t] # "idle" /\ pc[t] \notin Entered
      BY <2>1 DEF Entered
    <2>3. CASE Answer(t)
      BY <2>1, <2>2, <2>3, AnswerLeaves, EarlyJournal
    <2>4. ASSUME ~Answer(t)
          PROVE  OthersStay(t) /\ Moved(t) /\ pc'[t] \notin Entered
      <3>1. work[t] \in Work
        BY <2>2, CommandsTyped
      <3>2. \E stage \in Stage \ ({"idle"} \cup Entered) : GoTo(t, stage)
        <4>1. CASE pc[t] \in {"lookup", "read", "lease"} /\ Advance(t)
          BY <4>1, Working, FollowingStage DEF Advance, CoreInvariant, Op
        <4>2. CASE \/ GoTo(t, "read") \/ GoTo(t, "begin") \/ GoTo(t, "hold")
          BY <4>2 DEF Stage, Entered
        <4> QED BY <1>3, <2>4, <4>1, <4>2
                DEF Lookup, ReadAsset, ChooseReservation, RequestLease,
                    CheckReservation, HoldReservation, Refuse, LeaseUnanswered,
                    At
      <3>3. UNCHANGED reply
        BY <1>3, <2>4
        DEF Lookup, ReadAsset, ChooseReservation, RequestLease,
            CheckReservation, HoldReservation, Refuse, LeaseUnanswered, Elsewhere
      <3>4. /\ \A u \in Thread \ {t} : work'[u] = work[u]
            /\ work'[t].command = work[t].command
            /\ work'[t].attempt = work[t].attempt
        BY <1>3, <2>4, <3>1
        DEF Lookup, ReadAsset, ChooseReservation, RequestLease,
            CheckReservation, HoldReservation, Refuse, LeaseUnanswered, Work,
            CoreInvariant, TypeOK
      <3> QED BY <2>2, <3>2, <3>3, <3>4
              DEF GoTo, OthersStay, Moved, Cmd, CoreInvariant, TypeOK
    <2> QED BY <2>1, <2>2, <2>3, <2>4, EarlyJournal
  <1>4. CASE Begin(t) \/ SendCall(t)
    BY <1>4, BeginJournal, SendJournal
  <1>5. ASSUME Confirmed(t) PROVE JournalInvariant'
    <2>1. /\ pc[t] = "waiting" /\ acts[Cmd(t).id] > 0
          /\ UNCHANGED <<wire, taken, acts, mc, seen, arrivals>>
      BY <1>5 DEF Confirmed, At, Elsewhere, JournalInvariant, Journalled,
                  ThreadJournalled
    <2>2. CASE Op(t) = "program"
      BY <1>5, <2>1, <2>2, SentJournal DEF Confirmed, Sent
    <2>3. CASE Op(t) # "program"
      <3>1. PICK s \in {"accepted", "completed"} :
               /\ FinishAs(t, s, TRUE)
               /\ s = "completed" => Op(t) # "stationary"
        BY <1>5, <2>3 DEF Confirmed
      <3>2. pc[t] \in Entered /\ Answer(t)
        BY <1>5, <2>1, <2>3 DEF Confirmed, Entered
      <3> QED BY <1>1, <2>1, <3>1, <3>2, FinishJournal
    <2> QED BY <2>2, <2>3
  <1>6. CASE FinishUncertain(t) \/ CommitUnanswered(t)
    <2>1. /\ pc[t] \in Entered /\ Answer(t)
          /\ UNCHANGED <<wire, taken, acts, mc, seen, arrivals>>
          /\ \E result \in BOOLEAN : /\ FinishAs(t, "uncertain", result)
                                     /\ result => Op(t) = "program"
      BY <1>1, <1>2, <1>6 DEF FinishUncertain, CommitUnanswered, At, Elsewhere,
                              Entered, Sent
    <2> QED BY <2>1, FinishJournal
  <1>7. CASE FinishProgrammed(t)
    <2>1. /\ pc[t] = "done" /\ pc[t] \in Entered /\ Answer(t)
          /\ FinishAs(t, "completed", TRUE)
          /\ UNCHANGED <<wire, taken, acts, mc, seen, arrivals>>
      BY <1>7 DEF FinishProgrammed, At, Elsewhere, Entered
    <2> QED BY <1>1, <1>2, <2>1, FinishJournal DEF Sent
  <1>8. CASE CommitAddress(t) \/ ReleaseReservation(t)
    <2>1. /\ pc[t] \in Sent \ {"waiting"}
          /\ GoTo(t, "release") \/ GoTo(t, "done")
          /\ UNCHANGED <<work, reply>>
          /\ UNCHANGED <<row, wire, taken, acts, mc, seen, arrivals>>
      BY <1>8 DEF CommitAddress, ReleaseReservation, At, Elsewhere, Sent
    <2> QED BY <1>2, <2>1, SentJournal DEF Sent
  <1> QED BY <1>3, <1>4, <1>5, <1>6, <1>7, <1>8 DEF CommandStep

LEMMA ArriveJournal ==
  ASSUME CoreInvariant, CoreInvariant', JournalInvariant, NEW t \in Thread,
         NEW c \in Commands, Arrive(t, c)
  PROVE  JournalInvariant'
  <1>0. /\ Calls' = Calls /\ arrivals' = arrivals + 1 /\ arrivals \in Nat
        /\ pc[t] = "idle"
        /\ UNCHANGED <<row, reply, acts, mc, seen>>
    BY CommandsTyped DEF Arrive, At, Calls
  <1>1. /\ c.op \in Operation
        /\ OnPath(c.op, "arrive")
    BY CommandsAssumption DEF Command, OnPath
  <1>2. /\ pc'[t] \notin Entered /\ pc'[t] \notin Sent
        /\ work'[t].command = c /\ work'[t].attempt = arrivals
        /\ \A u \in Thread \ {t} : pc'[u] = pc[u] /\ work'[u] = work[u]
    <2>1. /\ Following[c.op].arrive \notin Entered
          /\ Following[c.op].arrive \notin Sent
      BY <1>1, FollowingStage DEF Entered, Sent
    <2> QED BY <2>1 DEF Arrive, GoTo, CoreInvariant, TypeOK
  <1>3. AttemptsUnique'
    <2>1. \A u \in Thread : pc[u] # "idle" =>
            work[u].attempt \in Nat /\ work[u].attempt < arrivals
      BY CommandsTyped DEF JournalInvariant, AttemptsUnique
    <2>2. \A call \in Calls : call.attempt \in Nat /\ call.attempt < arrivals
      BY CommandsTyped DEF JournalInvariant, AttemptsUnique
    <2>3. \A u \in Thread : pc'[u] # "idle" => work'[u].attempt < arrivals'
      BY <1>0, <1>2, <2>1
    <2>4. \A call \in Calls' : call.attempt < arrivals'
      BY <1>0, <2>2
    <2>5. \A u, v \in Thread :
            (/\ pc'[u] # "idle" /\ pc'[v] # "idle"
             /\ work'[u].attempt = work'[v].attempt) => u = v
      BY <1>0, <1>2, <2>1 DEF JournalInvariant, AttemptsUnique
    <2>6. ASSUME NEW u \in Thread, NEW call \in Calls',
                 pc'[u] # "idle", work'[u].attempt = call.attempt
          PROVE  call.command = Cmd(u)'
      <3>1. u # t
        BY <1>0, <1>2, <2>2, <2>6
      <3> QED BY <1>0, <1>2, <2>6, <3>1 DEF JournalInvariant, AttemptsUnique, Cmd
    <2> QED BY <2>3, <2>4, <2>5, <2>6 DEF AttemptsUnique
  <1>4. ASSUME NEW u \in Thread
        PROVE  ThreadJournalled(u)' /\ ThreadOnce(u)'
    <2>1. CASE u = t
      <3>1. reply'[u] = None
        BY <1>0, <2>1 DEF Sent, JournalInvariant, Journalled, ThreadJournalled
      <3> QED BY <1>2, <2>1, <3>1, AbsenceAssumption
              DEF ThreadJournalled, ThreadOnce
    <2>2. CASE u # t
      <3>1. /\ pc'[u] = pc[u] /\ work'[u] = work[u] /\ Cmd(u)' = Cmd(u)
        BY <1>2, <2>2 DEF Cmd
      <3>2. ThreadJournalled(u)'
        BY <1>0, <3>1 DEF JournalInvariant, Journalled, ThreadJournalled, Op
      <3>3. ASSUME NEW v \in Thread, pc'[v] \in Entered
            PROVE  pc[v] \in Entered /\ Cmd(v)' = Cmd(v)
        BY <1>2, <3>3 DEF Cmd
      <3>4. ThreadOnce(u)'
        BY <1>0, <3>1, <3>3 DEF JournalInvariant, DispatchedOnce, ThreadOnce, Op
      <3> QED BY <3>2, <3>4
    <2> QED BY <2>1, <2>2
  <1>5. wire' = wire /\ taken' = taken
    BY DEF Arrive
  <1>6. Journalled'
    BY <1>0, <1>4, <1>5 DEF JournalInvariant, Journalled, CallJournalled,
                            IdentityJournalled
  <1>7. DispatchedOnce'
    BY <1>0, <1>4, <1>5 DEF JournalInvariant, DispatchedOnce, CallOnce
  <1> QED BY <1>0, <1>3, <1>6, <1>7
          DEF JournalInvariant, SeenTrue, JournalTruthful

LEMMA CrashJournal ==
  ASSUME CoreInvariant, CoreInvariant', JournalInvariant, Crash
  PROVE  JournalInvariant'
  <1>1. /\ \A t \in Thread : pc'[t] = "idle" /\ reply'[t] = None
        /\ Calls' = Calls /\ seen' = None
        /\ UNCHANGED <<row, arrivals, wire, taken, mc, acts>>
    BY DEF Crash, Calls
  <1>2. AttemptsUnique'
    BY <1>1, AttemptsKept DEF JournalInvariant, WorkKept
  <1>3. \A t \in Thread : ThreadJournalled(t)' /\ ThreadOnce(t)'
    BY <1>1, AbsenceAssumption DEF ThreadJournalled, ThreadOnce, Entered, Sent
  <1> QED BY <1>1, <1>2, <1>3
          DEF JournalInvariant, Journalled, CallJournalled, IdentityJournalled,
              DispatchedOnce, CallOnce, SeenTrue, JournalTruthful

(* Steps that concern neither the journal nor what may change it.           *)
LEMMA AsideJournal ==
  ASSUME JournalInvariant, mc'.execution = mc.execution,
         UNCHANGED <<row, pc, work, reply, arrivals, wire, taken, acts, seen>>
  PROVE  JournalInvariant'
  BY DEF JournalInvariant, Journalled, ThreadJournalled, CallJournalled,
         IdentityJournalled, AttemptsUnique, DispatchedOnce, ThreadOnce,
         CallOnce, SeenTrue, JournalTruthful, Calls, Cmd, Op

LEMMA ReadJournal ==
  ASSUME CoreInvariant, JournalInvariant, ReadExecutions
  PROVE  JournalInvariant'
  <1>1. /\ seen' = mc.execution
        /\ UNCHANGED <<row, pc, work, reply, arrivals, wire, taken, acts, mc>>
    BY DEF ReadExecutions
  <1> QED BY <1>1
     DEF JournalInvariant, Journalled, ThreadJournalled, CallJournalled,
         IdentityJournalled, AttemptsUnique, DispatchedOnce, ThreadOnce,
         CallOnce, SeenTrue, JournalTruthful, Calls, Cmd, Op

(* reconcile_mc writes what was true when it was read, and still is.        *)
LEMMA ReconcileJournal ==
  ASSUME CoreInvariant, CoreInvariant', JournalInvariant, ReconcileMc
  PROVE  JournalInvariant'
  <1>1. /\ seen # None /\ seen' = None /\ Calls' = Calls
        /\ UNCHANGED <<pc, work, reply, arrivals, wire, taken, acts, mc>>
    BY DEF ReconcileMc, Calls
  <1>2. ASSUME NEW k \in CommandId
        PROVE  /\ row[k] = None => row'[k] = None
               /\ row[k] # None =>
                    /\ row'[k] # None /\ row'[k].command = row[k].command
                    /\ row'[k].result = row[k].result
               /\ row'[k] # row[k] =>
                    /\ row[k] # None /\ row[k].command.op = "stationary"
                    /\ row'[k].state \in {"completed", "failed", "uncertain"}
                    /\ row'[k].state \in {"completed", "failed"} =>
                         /\ mc.execution[k] # None
                         /\ mc.execution[k].state = row'[k].state
    <2>1. row'[k] = Reconciled(k)
      BY DEF ReconcileMc
    <2>2. CASE Reconciled(k) = row[k]
      BY <2>1, <2>2
    <2>3. CASE Reconciled(k) # row[k]
      <3>1. /\ row[k] # None /\ row[k].command.op = "stationary"
            /\ seen[k] # None /\ seen[k].state # "active"
            /\ Reconciled(k) = [row[k] EXCEPT !.state = seen[k].state]
        BY <2>3 DEF Reconciled
      <3>2. row[k] \in Row /\ seen[k] \in Execution
        BY <1>1, <3>1 DEF CoreInvariant, TypeOK
      <3>3. /\ row'[k].command = row[k].command
            /\ row'[k].result = row[k].result
            /\ row'[k].state = seen[k].state /\ row'[k] \in Row
        BY <2>1, <3>1, <3>2 DEF Row, Execution
      <3>4. seen[k].state \in {"completed", "failed", "uncertain"}
        BY <3>1, <3>2 DEF Execution
      <3> QED BY <1>1, <3>1, <3>3, <3>4, AbsenceAssumption
              DEF JournalInvariant, SeenTrue
    <2> QED BY <2>2, <2>3
  <1>3. ASSUME NEW t \in Thread
        PROVE  ThreadJournalled(t)' /\ ThreadOnce(t)'
    <2>1. /\ Cmd(t)' = Cmd(t) /\ Op(t)' = Op(t)
      BY <1>1 DEF Cmd, Op
    <2>2. pc[t] \in Entered =>
            /\ Cmd(t).id \in CommandId /\ row[Cmd(t).id] # None
            /\ row[Cmd(t).id].command = Cmd(t)
      BY CommandsTyped DEF Entered, CoreInvariant, JournalInvariant,
                           Journalled, ThreadJournalled, Cmd
    <2>3. ThreadJournalled(t)'
      BY <1>1, <1>2, <2>1, <2>2
      DEF JournalInvariant, Journalled, ThreadJournalled
    <2>4. (pc[t] \in Entered /\ Op(t) \in Dispatched) =>
              row'[Cmd(t).id] = row[Cmd(t).id]
      BY <1>2, <2>2 DEF Dispatched, Op, Cmd
    <2>5. ThreadOnce(t)'
      BY <1>1, <2>1, <2>4 DEF JournalInvariant, DispatchedOnce, ThreadOnce, Cmd
    <2> QED BY <2>3, <2>5
  <1>4. ASSUME NEW call \in Calls' PROVE CallJournalled(call)' /\ CallOnce(call)'
    <2>1. call \in Calls /\ CallJournalled(call) /\ CallOnce(call)
      BY <1>1 DEF JournalInvariant, Journalled, DispatchedOnce
    <2>2. call.command.id \in CommandId
      BY <2>1, CommandsTyped
    <2> QED BY <1>1, <1>2, <2>1, <2>2 DEF CallJournalled, CallOnce, ForMc
  <1>5. ASSUME NEW k \in CommandId
        PROVE  /\ IdentityJournalled(k)'
               /\ row'[k] # None /\ row'[k].command.op \in Dispatched
                      => acts'[k] <= 1
    BY <1>1, <1>2 DEF JournalInvariant, Journalled, IdentityJournalled,
                      DispatchedOnce
  <1>6. JournalTruthful'
    <2> SUFFICES ASSUME NEW k \in CommandId, row'[k] # None
                 PROVE  IF row'[k].command.op = "stationary"
                        THEN /\ row'[k].state \in {"completed", "failed"}
                                 => /\ mc'.execution[k] # None
                                    /\ mc'.execution[k].state = row'[k].state
                             /\ row'[k].result => acts'[k] = 1
                        ELSE row'[k].state = "completed" => acts'[k] > 0
      BY DEF JournalTruthful
    <2>1. CASE row'[k] = row[k]
      BY <1>1, <2>1 DEF JournalInvariant, JournalTruthful
    <2>2. CASE row'[k] # row[k]
      <3>1. /\ row[k] # None /\ row'[k].command.op = "stationary"
            /\ row[k].command.op = "stationary"
            /\ row'[k].result = row[k].result
        BY <1>2, <2>2
      <3>2. row[k].result => acts[k] = 1
        BY <3>1 DEF JournalInvariant, JournalTruthful
      <3> QED BY <1>1, <1>2, <2>2, <3>1, <3>2
    <2> QED BY <2>1, <2>2
  <1>7. AttemptsUnique'
    BY <1>1 DEF JournalInvariant, AttemptsUnique, Cmd
  <1> QED BY <1>1, <1>3, <1>4, <1>5, <1>6, <1>7
          DEF JournalInvariant, Journalled, DispatchedOnce, SeenTrue

(* What an adapter tells reaches the thread that sent the call, and "ok" is *)
(* told of what was executed only.                                         *)
Executes(call) ==
    /\ acts' = [acts EXCEPT ![call.command.id] = @ + 1]
    /\ \E answer \in {"ok", "error"} : Tell(call, answer)
Declines(call) ==
    UNCHANGED acts /\ (UNCHANGED reply \/ Tell(call, "error"))

LEMMA AdapterThreads ==
  ASSUME CoreInvariant, JournalInvariant, NEW call \in Calls,
         UNCHANGED <<row, pc, work, arrivals>>, Calls' \subseteq Calls,
         Executes(call) \/ Declines(call)
  PROVE  /\ \A t \in Thread : ThreadJournalled(t)' /\ ThreadOnce(t)'
         /\ AttemptsUnique'
  <1>1. \A t \in Thread : Cmd(t)' = Cmd(t) /\ Op(t)' = Op(t)
    BY DEF Cmd, Op
  <1>2. /\ call.command.id \in CommandId
        /\ \A k \in CommandId :
              /\ acts[k] \in Nat /\ acts'[k] \in Nat /\ acts'[k] >= acts[k]
              /\ Executes(call) /\ k = call.command.id => acts'[k] > 0
              /\ k # call.command.id => acts'[k] = acts[k]
    BY CommandsTyped DEF Executes, Declines, CoreInvariant, TypeOK
  <1>3. AttemptsUnique'
    BY AttemptsKept DEF JournalInvariant, WorkKept, Cmd
  <1>4. ASSUME NEW t \in Thread PROVE ThreadJournalled(t)' /\ ThreadOnce(t)'
    <2>1. pc[t] # "idle" => Cmd(t).id \in CommandId
      BY CommandsTyped
    <2>2. ThreadJournalled(t) /\ ThreadOnce(t)
      BY DEF JournalInvariant, Journalled, DispatchedOnce
    <2>3. /\ reply[t] = "ok" => pc[t] \in Sent
          /\ pc[t] \in Sent => pc[t] # "idle"
      BY <2>2, AbsenceAssumption DEF ThreadJournalled, Sent
    <2>4. ThreadJournalled(t)'
      <3>1. CASE reply'[t] = reply[t]
        BY <1>1, <1>2, <2>1, <2>2, <2>3, <3>1 DEF ThreadJournalled
      <3>2. CASE reply'[t] # reply[t]
        <4>1. /\ pc[t] = "waiting" /\ work[t].attempt = call.attempt
              /\ reply'[t] = "ok" => Executes(call)
          BY <3>2 DEF Executes, Declines, Tell, At, CoreInvariant, TypeOK
        <4>2. call.command = Cmd(t)
          BY <4>1 DEF JournalInvariant, AttemptsUnique
        <4> QED BY <1>1, <1>2, <2>1, <2>2, <4>1, <4>2
                DEF ThreadJournalled, Sent
      <3> QED BY <3>1, <3>2
    <2>5. ThreadOnce(t)'
      <3>1. ASSUME pc[t] \in Entered, Op(t) \in Dispatched, pc[t] = "call"
            PROVE  acts'[Cmd(t).id] = 0
        BY <1>2, <2>1, <2>2, <3>1 DEF ThreadOnce
      <3> QED BY <1>1, <2>2, <3>1 DEF ThreadOnce
    <2> QED BY <2>4, <2>5
  <1> QED BY <1>3, <1>4

(* A call that is not executed: admitted, refused or lost.                  *)
LEMMA DeclinedJournal ==
  ASSUME CoreInvariant, CoreInvariant', JournalInvariant, NEW call \in Calls,
         ~ForMc(call) \/ taken' \subseteq taken,
         taken' \subseteq taken \cup {call},
         wire' = wire \ {call}, Declines(call),
         UNCHANGED <<row, pc, work, arrivals, seen>>,
         mc'.execution = mc.execution
  PROVE  JournalInvariant'
  <1>1. Calls' \subseteq Calls
    BY DEF Calls
  <1>2. /\ \A t \in Thread : ThreadJournalled(t)' /\ ThreadOnce(t)'
        /\ AttemptsUnique' /\ UNCHANGED acts
    BY <1>1, AdapterThreads DEF Declines
  <1>3. ASSUME NEW c \in Calls' PROVE CallJournalled(c)' /\ CallOnce(c)'
    <2>1. c \in Calls /\ CallJournalled(c) /\ CallOnce(c)
      BY <1>1 DEF JournalInvariant, Journalled, DispatchedOnce
    <2>2. CallJournalled(c)'
      BY <2>1 DEF CallJournalled, ForMc
    <2>3. CallOnce(c)'
      BY <1>1, <1>2, <2>1 DEF CallOnce
    <2> QED BY <2>2, <2>3
  <1> QED BY <1>2, <1>3
      DEF JournalInvariant, Journalled, IdentityJournalled, DispatchedOnce,
          SeenTrue, JournalTruthful

LEMMA DccActsJournal ==
  ASSUME CoreInvariant, CoreInvariant', JournalInvariant, NEW call \in Calls,
         DccActs(call)
  PROVE  JournalInvariant'
  <1> DEFINE k == call.command.id
  <1>1. /\ call \in taken /\ taken' = taken \ {call} /\ Executes(call)
        /\ UNCHANGED <<row, pc, work, arrivals, seen, wire, mc>>
    BY DEF DccActs, Executes, CoreAside
  <1>2. Calls' \subseteq Calls
    BY <1>1 DEF Calls
  <1>3. /\ \A t \in Thread : ThreadJournalled(t)' /\ ThreadOnce(t)'
        /\ AttemptsUnique'
    BY <1>1, <1>2, AdapterThreads
  <1>4. /\ k \in CommandId /\ row[k] # None /\ row[k].command = call.command
        /\ call.command.op # "stationary"
        /\ acts[k] \in Nat /\ acts'[k] = acts[k] + 1
        /\ \A j \in CommandId \ {k} : acts'[j] = acts[j]
    <2>1. k \in CommandId
      BY CommandsTyped
    <2> QED BY <1>1, <2>1 DEF JournalInvariant, Journalled, CallJournalled,
                              ForMc, Executes, CoreInvariant, TypeOK
  <1>5. /\ call.command.op \in Dispatched =>
             /\ acts[k] = 0
             /\ \A c \in Calls' : c.command.id # k
    BY <1>1 DEF JournalInvariant, DispatchedOnce, CallOnce, Calls
  <1>6. ASSUME NEW c \in Calls' PROVE CallJournalled(c)' /\ CallOnce(c)'
    <2>1. /\ c \in Calls /\ CallJournalled(c) /\ CallOnce(c)
          /\ c.command.id \in CommandId
      BY <1>2, CommandsTyped DEF JournalInvariant, Journalled, DispatchedOnce
    <2>2. CallJournalled(c)'
      BY <1>1, <2>1 DEF CallJournalled, ForMc
    <2>3. ASSUME c.command.op \in Dispatched PROVE c.command.id # k
      BY <1>4, <1>5, <2>1, <2>3 DEF CallJournalled
    <2>4. CallOnce(c)'
      BY <1>1, <1>2, <1>4, <2>1, <2>3 DEF CallOnce
    <2> QED BY <2>2, <2>4
  <1> HIDE DEF k
  <1>7. ASSUME NEW j \in CommandId
        PROVE  /\ IdentityJournalled(j)'
               /\ row'[j] # None /\ row'[j].command.op \in Dispatched
                      => acts'[j] <= 1
    BY <1>1, <1>4, <1>5 DEF JournalInvariant, Journalled, IdentityJournalled,
                            DispatchedOnce
  <1>8. JournalTruthful'
    BY <1>1, <1>4 DEF JournalInvariant, JournalTruthful
  <1> QED BY <1>1, <1>3, <1>6, <1>7, <1>8
      DEF JournalInvariant, Journalled, DispatchedOnce, SeenTrue

LEMMA McAcceptsJournal ==
  ASSUME CoreInvariant, CoreInvariant', JournalInvariant, NEW call \in Calls,
         McAccepts(call)
  PROVE  JournalInvariant'
  <1> DEFINE k == call.command.id
  <1>1. /\ ForMc(call) /\ wire' = wire \ {call} /\ Executes(call)
        /\ mc.execution[k] = None
        /\ UNCHANGED <<row, pc, work, arrivals, seen, taken>>
    BY DEF McAccepts, McFree, Executes, CoreAside
  <1>2. Calls' \subseteq Calls
    BY <1>1 DEF Calls
  <1>3. /\ \A t \in Thread : ThreadJournalled(t)' /\ ThreadOnce(t)'
        /\ AttemptsUnique'
    BY <1>1, <1>2, AdapterThreads
  <1>4. /\ k \in CommandId /\ row[k] # None
        /\ row[k].command.op = "stationary" /\ row[k].command = call.command
        /\ acts[k] = 0 /\ acts'[k] = 1
        /\ \A j \in CommandId \ {k} : acts'[j] = acts[j]
    <2>1. k \in CommandId
      BY CommandsTyped
    <2>2. /\ row[k] # None /\ row[k].command = call.command
          /\ row[k].command.op = "stationary"
      BY <1>1 DEF JournalInvariant, Journalled, CallJournalled, ForMc
    <2>3. acts[k] = 0
      BY <1>1, <2>1, <2>2 DEF JournalInvariant, Journalled, IdentityJournalled
    <2> QED BY <1>1, <2>1, <2>2, <2>3 DEF Executes, CoreInvariant, TypeOK
  <1>5. /\ mc'.execution[k] # None
        /\ \A j \in CommandId \ {k} : mc'.execution[j] = mc.execution[j]
    <2> DEFINE execution == [command |-> call.command, state |-> "active"]
    <2>1. execution # None
      BY CommandsTyped, AbsenceAssumption DEF Execution
    <2>2. mc'.execution = [mc.execution EXCEPT ![k] = execution]
      BY DEF McAccepts, CoreInvariant, TypeOK
    <2> HIDE DEF execution
    <2> QED BY <1>4, <2>1, <2>2 DEF CoreInvariant, TypeOK
  <1>6. ASSUME NEW c \in Calls' PROVE CallJournalled(c)' /\ CallOnce(c)'
    <2>1. /\ c \in Calls /\ CallJournalled(c) /\ CallOnce(c)
          /\ c.command.id \in CommandId
      BY <1>2, CommandsTyped DEF JournalInvariant, Journalled, DispatchedOnce
    <2>2. CallJournalled(c)'
      BY <1>1, <2>1 DEF CallJournalled, ForMc
    <2>3. c.command.op \in Dispatched => c.command.id # k
      BY <1>4, <2>1 DEF CallJournalled, Dispatched
    <2>4. CallOnce(c)'
      BY <1>1, <1>2, <1>4, <2>1, <2>3 DEF CallOnce
    <2> QED BY <2>2, <2>4
  <1> HIDE DEF k
  <1>7. ASSUME NEW j \in CommandId
        PROVE  /\ IdentityJournalled(j)'
               /\ row'[j] # None /\ row'[j].command.op \in Dispatched
                      => acts'[j] <= 1
    BY <1>1, <1>4, <1>5 DEF JournalInvariant, Journalled, IdentityJournalled,
                            DispatchedOnce
  <1>8. JournalTruthful'
    BY <1>1, <1>4, <1>5 DEF JournalInvariant, JournalTruthful
  <1>9. SeenTrue'
    BY <1>1, <1>5 DEF JournalInvariant, SeenTrue
  <1> QED BY <1>3, <1>6, <1>7, <1>8, <1>9
      DEF JournalInvariant, Journalled, DispatchedOnce

LEMMA McResolvesJournal ==
  ASSUME CoreInvariant, CoreInvariant', JournalInvariant, NEW k \in CommandId,
         McResolves(k)
  PROVE  JournalInvariant'
  <1>1. UNCHANGED <<row, pc, work, reply, arrivals, wire, taken, acts, seen>>
    BY DEF McResolves
  <1>2. /\ mc.execution[k] \in Execution
        /\ mc.execution[k].state \in {"active", "uncertain"}
        /\ mc.execution[k] # None
    BY DEF McResolves, Outstanding, CoreInvariant, TypeOK
  <1>3. /\ mc'.execution[k] # None
        /\ \A j \in CommandId \ {k} : mc'.execution[j] = mc.execution[j]
    <2>1. PICK s \in {"completed", "failed", "uncertain"} :
              mc' = [mc EXCEPT !.execution[k].state = s]
      BY DEF McResolves
    <2> DEFINE execution == [mc.execution[k] EXCEPT !.state = s]
    <2>2. mc'.execution = [mc.execution EXCEPT ![k] = execution]
      BY <2>1 DEF CoreInvariant, TypeOK
    <2>3. execution \in Execution
      BY <1>2 DEF Execution
    <2> HIDE DEF execution
    <2> QED BY <2>2, <2>3, AbsenceAssumption DEF CoreInvariant, TypeOK
  <1>4. /\ JournalTruthful' /\ SeenTrue'
    BY <1>1, <1>2, <1>3 DEF JournalInvariant, JournalTruthful, SeenTrue
  <1>5. \A j \in CommandId : IdentityJournalled(j)'
    BY <1>1, <1>2, <1>3 DEF JournalInvariant, Journalled, IdentityJournalled
  <1> QED BY <1>1, <1>4, <1>5
     DEF JournalInvariant, Journalled, ThreadJournalled, CallJournalled,
         AttemptsUnique, DispatchedOnce, ThreadOnce, CallOnce, Calls, Cmd, Op

(* The adapters restart: DCC loses calls, MC does not know how executions   *)
(* went.                                                                   *)
LEMMA RestartJournal ==
  ASSUME CoreInvariant, CoreInvariant', JournalInvariant,
         RestartDcc \/ RestartMc
  PROVE  JournalInvariant'
  <1>1. /\ UNCHANGED <<row, pc, work, reply, arrivals, wire, acts, seen>>
        /\ taken' \subseteq taken /\ Calls' \subseteq Calls
    BY DEF RestartDcc, RestartMc, Calls
  <1>2. ASSUME NEW k \in CommandId
        PROVE  /\ (mc'.execution[k] = None) <=> (mc.execution[k] = None)
               /\ mc'.execution[k] = mc.execution[k]
                  \/ (/\ mc.execution[k] # None
                      /\ mc.execution[k].state = "active")
    <2>1. CASE RestartDcc
      BY <2>1 DEF RestartDcc
    <2>2. CASE RestartMc
      <3> DEFINE execution == [mc.execution[k] EXCEPT !.state = "uncertain"]
      <3>1. \/ mc'.execution[k] = mc.execution[k]
            \/ /\ mc.execution[k] # None /\ mc.execution[k].state = "active"
               /\ mc'.execution[k] = execution
        <4>1. PICK dispatched \in SUBSET {j \in CommandId :
                       /\ mc.execution[j] # None
                       /\ mc.execution[j].state = "active"} :
                 mc' = [mc EXCEPT !.session = 0, !.restarts = @ + 1, !.execution =
                          [j \in CommandId |->
                              IF j \in dispatched
                              THEN [mc.execution[j] EXCEPT !.state = "uncertain"]
                              ELSE mc.execution[j]]]
          BY <2>2 DEF RestartMc
        <4>2. mc'.execution = [j \in CommandId |->
                                 IF j \in dispatched
                                 THEN [mc.execution[j] EXCEPT !.state = "uncertain"]
                                 ELSE mc.execution[j]]
          BY <4>1 DEF CoreInvariant, TypeOK
        <4> QED BY <4>2
      <3>2. mc.execution[k] # None => execution \in Execution
        BY DEF CoreInvariant, TypeOK, Execution
      <3> HIDE DEF execution
      <3> QED BY <3>1, <3>2, AbsenceAssumption
    <2> QED BY <2>1, <2>2
  <1>3. JournalTruthful' /\ SeenTrue'
    BY <1>1, <1>2 DEF JournalInvariant, JournalTruthful, SeenTrue
  <1>4. \A j \in CommandId : IdentityJournalled(j)'
    BY <1>1, <1>2 DEF JournalInvariant, Journalled, IdentityJournalled
  <1>5. ASSUME NEW call \in Calls' PROVE CallJournalled(call)' /\ CallOnce(call)'
    <2>1. call \in Calls /\ CallJournalled(call) /\ CallOnce(call)
      BY <1>1 DEF JournalInvariant, Journalled, DispatchedOnce
    <2> QED BY <1>1, <2>1 DEF CallJournalled, CallOnce, ForMc
  <1>6. \A t \in Thread : ThreadJournalled(t)' /\ ThreadOnce(t)'
    BY <1>1 DEF JournalInvariant, Journalled, DispatchedOnce, ThreadJournalled,
                ThreadOnce, Cmd, Op
  <1>7. AttemptsUnique'
    BY <1>1 DEF JournalInvariant, AttemptsUnique, Cmd
  <1> QED BY <1>1, <1>3, <1>4, <1>5, <1>6, <1>7
     DEF JournalInvariant, Journalled, DispatchedOnce

LEMMA AdapterJournal ==
  ASSUME CoreInvariant, CoreInvariant', JournalInvariant, AdapterStep
  PROVE  JournalInvariant'
  <1>1. ASSUME NEW call \in wire \cup taken, DccAdmits(call)
        PROVE  JournalInvariant'
    BY <1>1, DeclinedJournal DEF DccAdmits, CoreAside, Declines, Calls
  <1>2. ASSUME NEW call \in wire \cup taken, DccRefuses(call)
        PROVE  JournalInvariant'
    BY <1>2, DeclinedJournal DEF DccRefuses, CoreAside, Declines, Calls
  <1>3. ASSUME NEW call \in wire \cup taken, McRefuses(call)
        PROVE  JournalInvariant'
    <2>1. mc'.execution = mc.execution
      BY <1>3 DEF McRefuses, CoreInvariant, TypeOK
    <2> QED BY <1>3, <2>1, DeclinedJournal
            DEF McRefuses, CoreAside, Declines, Calls
  <1> QED BY <1>1, <1>2, <1>3, DccActsJournal, McAcceptsJournal,
             McResolvesJournal, RestartJournal
          DEF AdapterStep, Calls

LEMMA JournalStep ==
  ASSUME CoreInvariant, CoreInvariant', JournalInvariant, [Next]_vars
  PROVE  JournalInvariant'
  <1>1. ASSUME NEW t \in Thread, CommandStep(t) PROVE JournalInvariant'
    BY <1>1, CommandJournal
  <1>2. ASSUME NEW t \in Thread, NEW c \in Commands, Arrive(t, c)
        PROVE  JournalInvariant'
    BY <1>2, ArriveJournal
  <1>3. CASE AdapterStep
    BY <1>3, AdapterJournal
  <1>4. CASE Crash
    BY <1>4, CrashJournal
  <1>5. CASE ReadExecutions \/ ReconcileMc
    BY <1>5, ReadJournal, ReconcileJournal
  <1>6. CASE \/ Boot \/ StartDcc \/ StartMc \/ Resume \/ OwnerEdits
             \/ (\E r \in late : LateRequest(r)) \/ UNCHANGED vars
    <2>1. /\ UNCHANGED <<row, pc, work, reply, arrivals, wire, taken, acts, seen>>
          /\ mc'.execution = mc.execution
      BY <1>6 DEF Boot, StartDcc, StartMc, Resume, OwnerEdits, LateRequest,
                  CoreInvariant, TypeOK
    <2> QED BY <2>1, AsideJournal
  <1> QED BY <1>1, <1>2, <1>3, <1>4, <1>5, <1>6 DEF Next, ProcessStep

(* Every step keeps what journal, threads, calls and adapters say of each   *)
(* command in agreement.                                                   *)
THEOREM JournalCorrect == Spec => []JournalInvariant
  <1>1. /\ CoreInvariant /\ CoreInvariant' /\ JournalInvariant /\ [Next]_vars
        => JournalInvariant'
    BY JournalStep
  <1> QED BY <1>1, InitJournal, CoreCorrect, PTL DEF Spec

(* No identity is executed twice, over repeated requests, timeouts, crashes *)
(* of Core between any two steps and calls that arrive late (ExecutedOnce). *)
THEOREM CommandsExecutedOnce == Spec => []ExecutedOnce
  <1>1. JournalInvariant /\ CoreInvariant => ExecutedOnce
    <2> SUFFICES ASSUME JournalInvariant, CoreInvariant, NEW k \in CommandId
                 PROVE  /\ acts[k] > 0 => row[k] # None
                        /\ (row[k] # None /\ row[k].command.op # "program")
                               => acts[k] <= 1
      BY DEF ExecutedOnce
    <2>1. IdentityJournalled(k)
      BY DEF JournalInvariant, Journalled
    <2>2. ASSUME row[k] # None, row[k].command.op # "program"
          PROVE  row[k].command.op \in Dispatched \cup {"stationary"}
      BY <2>2, CommandsAssumption
      DEF CoreInvariant, TypeOK, Row, Command, Operation, Dispatched
    <2> QED BY <2>1, <2>2
            DEF IdentityJournalled, JournalInvariant, DispatchedOnce
  <1> QED BY <1>1, JournalCorrect, CoreCorrect, PTL

(* What the journal reports is what happened, also after the heartbeat      *)
(* reconciled entries with executions it read earlier (JournalTruthful).    *)
THEOREM JournalIsTruthful == Spec => []JournalTruthful
  <1>1. JournalInvariant => JournalTruthful
    BY DEF JournalInvariant
  <1> QED BY <1>1, JournalCorrect, PTL

(* A completed entry has no thread left that could write it, and is none of *)
(* MC's.                                                                   *)
LEMMA FinalStep ==
  ASSUME CoreInvariant, JournalInvariant, Next, NEW k \in CommandId,
         row[k] # None, row[k].state = "completed",
         row[k].command.op \in Dispatched
  PROVE  row'[k] = row[k]
  <1>1. ASSUME NEW t \in Thread, pc[t] \in Entered
        PROVE  Cmd(t).id # k
    <2>1. row[Cmd(t).id].command = Cmd(t)
      BY <1>1 DEF JournalInvariant, Journalled, ThreadJournalled
    <2>2. Op(t) \in Dispatched => row[Cmd(t).id].state = "accepted"
      BY <1>1 DEF JournalInvariant, DispatchedOnce, ThreadOnce
    <2> QED BY <2>1, <2>2 DEF Op, Cmd
  <1>2. ASSUME NEW t \in Thread, NEW result \in BOOLEAN, pc[t] \in Entered,
               NEW s \in {"accepted", "completed", "uncertain"},
               FinishAs(t, s, result)
        PROVE  row'[k] = row[k]
    BY <1>1, <1>2 DEF FinishAs, CoreInvariant, TypeOK
  <1>3. ASSUME NEW t \in Thread, CommandStep(t) PROVE row'[k] = row[k]
    <2>1. CASE Begin(t)
      BY <2>1 DEF Begin, CoreInvariant, TypeOK
    <2>2. CASE Confirmed(t)
      BY <1>2, <2>2 DEF Confirmed, At, Entered
    <2>3. CASE FinishUncertain(t) \/ CommitUnanswered(t) \/ FinishProgrammed(t)
      <3>1. (Op(t) = "program") \in BOOLEAN
        OBVIOUS
      <3>2. /\ pc[t] \in Entered
            /\ \E s \in {"accepted", "completed", "uncertain"} :
                  \E result \in BOOLEAN : FinishAs(t, s, result)
        BY <2>3, <3>1 DEF FinishUncertain, CommitUnanswered, FinishProgrammed,
                          At, Entered
      <3> QED BY <1>2, <3>2
    <2>4. CASE Lookup(t) \/ ReadAsset(t) \/ ChooseReservation(t)
               \/ RequestLease(t) \/ CheckReservation(t) \/ HoldReservation(t)
               \/ Refuse(t) \/ LeaseUnanswered(t) \/ SendCall(t)
               \/ CommitAddress(t) \/ ReleaseReservation(t)
      <3>1. UNCHANGED row
        BY <2>4
        DEF Lookup, ReadAsset, ChooseReservation, RequestLease,
            CheckReservation, HoldReservation, Refuse, LeaseUnanswered,
            SendCall, CommitAddress, ReleaseReservation
      <3> QED BY <3>1
    <2> QED BY <1>3, <2>1, <2>2, <2>3, <2>4 DEF CommandStep
  <1>4. CASE ReconcileMc
    BY <1>4 DEF ReconcileMc, Reconciled, Dispatched
  <1>5. ASSUME ~ReconcileMc, \A t \in Thread : ~CommandStep(t)
        PROVE  UNCHANGED row
    BY <1>5 DEF Next, ProcessStep, Boot, StartDcc, StartMc, Crash, Resume,
                ReadExecutions, Arrive, AdapterStep, DccAdmits, DccActs,
                DccRefuses, McAccepts, McRefuses, McResolves, RestartDcc,
                RestartMc, CoreAside, OwnerEdits, LateRequest
  <1> QED BY <1>3, <1>4, <1>5

(* A result, once journalled, is never taken back by a thread that is late  *)
(* or by the heartbeat (FinalResult).                                      *)
THEOREM ResultsAreFinal == Spec => FinalResult
  <1> DEFINE Final ==
        \A k \in CommandId :
          (/\ row[k] # None /\ row[k].state = "completed"
           /\ row[k].command.op \in Dispatched) => row'[k] = row[k]
  <1>1. CoreInvariant /\ JournalInvariant /\ [Next]_vars => [Final]_vars
    BY FinalStep
  <1> QED BY <1>1, JournalCorrect, CoreCorrect, PTL DEF Spec, FinalResult

-----------------------------------------------------------------------------
(* That a decoder's address is known.                                       *)


(* A programming command of asset a that will not be completed by a thread  *)
(* already past its commit: the decoder may have what it asked for.         *)
Past == {"release", "done"}
Completing(k) == \E t \in Thread : pc[t] \in Past /\ Cmd(t).id = k
Programs(k, a) ==
    row[k] # None /\ row[k].command.op = "program" /\ row[k].command.asset = a
Stuck(k, a) ==
    /\ Programs(k, a)
    /\ \/ row[k].state \in {"accepted", "uncertain"} /\ ~Completing(k)
       \/ acts[k] > 1

(* A commit is conditional on the revision that was read, and there is one  *)
(* revision per entry: what was committed cannot be committed again.        *)
ThreadRead(t) ==
    /\ pc[t] # "idle" => work[t].revision <= asset[Cmd(t).asset].revision
    /\ (pc[t] \in Entered /\ Op(t) = "program") =>
           row[Cmd(t).id].revision = work[t].revision
    /\ pc[t] \in Past => work[t].revision < asset[Cmd(t).asset].revision
RevisionsRead ==
    /\ \A t \in Thread : ThreadRead(t)
    /\ \A k \in CommandId : \A a \in Asset : Programs(k, a) =>
          /\ row[k].state # "failed"
          /\ row[k].state = "completed" => row[k].revision < asset[a].revision
    /\ \A r \in late : r.op = "commit" =>
          \E k \in CommandId : /\ Programs(k, r.asset)
                               /\ row[k].revision = r.revision

(* What a thread holds for verified is so, unless another command may have  *)
(* changed it since.                                                       *)
Overwritten(t) ==
    \/ acts[Cmd(t).id] > 1
    \/ \E k \in CommandId \ {Cmd(t).id} : Stuck(k, Cmd(t).asset)
VerifiedBy(t) ==
    \/ /\ pc[t] = "waiting" /\ reply[t] = "ok" /\ Op(t) = "program"
    \/ pc[t] = "commit"
AddressesTrue ==
    /\ \A t \in Thread :
          (VerifiedBy(t) /\ work[t].revision >= asset[Cmd(t).asset].revision)
              => \/ dcc.decoder[Cmd(t).asset] = Cmd(t).value
                 \/ Overwritten(t)
    /\ \A t \in Thread : pc[t] \in Past =>
          \/ dcc.decoder[Cmd(t).asset] = asset[Cmd(t).asset].address
          \/ Overwritten(t)

AddressInvariant == RevisionsRead /\ AddressesTrue /\ DecoderKnown

(* Most steps keep what the addresses depend on.                            *)
ProgramsKept ==
    \A k \in CommandId : \A a \in Asset :
        /\ Programs(k, a) => /\ Programs(k, a)'
                             /\ row'[k].revision = row[k].revision
                             /\ row'[k].state \in {row[k].state, "uncertain"}
        /\ (Programs(k, a)' /\ ~Programs(k, a)) => row'[k].state = "accepted"
AssetsGrow == \A a \in Asset : asset'[a].revision >= asset[a].revision
ActsGrow == \A k \in CommandId : acts'[k] >= acts[k]
PlacesKept ==
    \A a \in Asset : /\ asset'[a].address = asset[a].address
                     /\ dcc'.decoder[a] = dcc.decoder[a]
LateKept ==
    \A r \in late' \ late : r.op = "commit" =>
        \E k \in CommandId : Programs(k, r.asset) /\ row[k].revision = r.revision
SameWork(t) == Cmd(t)' = Cmd(t) /\ work'[t].revision = work[t].revision
VerifiedKept ==
    \A t \in Thread :
        /\ pc'[t] \in Past => pc[t] \in Past /\ SameWork(t)
        /\ VerifiedBy(t)' => VerifiedBy(t) /\ SameWork(t)

LEMMA AddressTyped ==
  ASSUME CoreInvariant
  PROVE  /\ \A a \in Asset : asset[a].revision \in Nat
         /\ \A k \in CommandId : acts[k] \in Nat
         /\ \A k \in CommandId : row[k] # None => row[k].revision \in Nat
         /\ \A t \in Thread : pc[t] # "idle" =>
               /\ Cmd(t).id \in CommandId /\ Cmd(t).asset \in Asset
               /\ work[t].revision \in Nat
         /\ \A r \in late : r.asset \in Asset /\ r.revision \in Nat
  <1>1. \A t \in Thread : pc[t] # "idle" =>
               /\ Cmd(t).id \in CommandId /\ Cmd(t).asset \in Asset
               /\ work[t].revision \in Nat
    BY Working DEF Work
  <1>2. \A k \in CommandId : row[k] # None => row[k].revision \in Nat
    BY DEF CoreInvariant, TypeOK, Row
  <1> QED BY <1>1, <1>2
          DEF CoreInvariant, TypeOK, RegistryTypeOK, AssetRecord, Request

LEMMA StuckKept ==
  ASSUME CoreInvariant, CoreInvariant', ProgramsKept, ActsGrow, VerifiedKept,
         NEW k \in CommandId, NEW a \in Asset, Stuck(k, a)
  PROVE  Stuck(k, a)'
  <1>1. Completing(k)' => Completing(k)
    BY DEF Completing, VerifiedKept, SameWork
  <1>2. acts[k] > 1 => acts'[k] > 1
    BY AddressTyped DEF ActsGrow, CoreInvariant, TypeOK
  <1> QED BY <1>1, <1>2 DEF Stuck, ProgramsKept

LEMMA OverwrittenKept ==
  ASSUME CoreInvariant, CoreInvariant', ProgramsKept, ActsGrow, VerifiedKept,
         NEW t \in Thread, pc[t] # "idle", SameWork(t), Overwritten(t)
  PROVE  Overwritten(t)'
  <1>1. /\ Cmd(t).id \in CommandId /\ Cmd(t).asset \in Asset
        /\ acts[Cmd(t).id] > 1 => acts'[Cmd(t).id] > 1
    BY AddressTyped DEF ActsGrow, CoreInvariant, TypeOK
  <1>2. CASE acts[Cmd(t).id] > 1
    BY <1>1, <1>2 DEF Overwritten, SameWork
  <1>3. ASSUME NEW k \in CommandId, k # Cmd(t).id, NEW a \in Asset,
               a = Cmd(t).asset, Stuck(k, a)
        PROVE  Overwritten(t)'
    <2>1. Stuck(k, a)'
      BY <1>3, StuckKept
    <2>2. Cmd(t)'.id # k /\ Cmd(t)'.asset = a
      BY <1>3 DEF SameWork
    <2> QED BY <2>1, <2>2 DEF Overwritten
  <1> QED BY <1>1, <1>2, <1>3 DEF Overwritten

(* A step that keeps them keeps the invariant.                              *)
LEMMA AddressKept ==
  ASSUME CoreInvariant, CoreInvariant', AddressInvariant,
         ProgramsKept, AssetsGrow, ActsGrow, PlacesKept, LateKept, VerifiedKept,
         \A t \in Thread : ThreadRead(t)'
  PROVE  AddressInvariant'
  <1>1. \A a \in Asset : asset[a].revision \in Nat /\ asset'[a].revision \in Nat
    BY AddressTyped DEF CoreInvariant, TypeOK, RegistryTypeOK, AssetRecord
  <1>2. ASSUME NEW k \in CommandId, NEW a \in Asset, Programs(k, a)'
        PROVE  /\ row'[k].state # "failed"
               /\ row'[k].state = "completed" =>
                      row'[k].revision < asset'[a].revision
    <2>1. CASE Programs(k, a)
      <3>1. /\ row[k].state # "failed" /\ row[k].revision \in Nat
            /\ row[k].state = "completed" => row[k].revision < asset[a].revision
        BY <2>1, AddressTyped DEF AddressInvariant, RevisionsRead, Programs
      <3>2. /\ row'[k].revision = row[k].revision
            /\ row'[k].state \in {row[k].state, "uncertain"}
        BY <2>1 DEF ProgramsKept
      <3> QED BY <1>1, <3>1, <3>2 DEF AssetsGrow
    <2>2. CASE ~Programs(k, a)
      BY <1>2, <2>2 DEF ProgramsKept
    <2> QED BY <2>1, <2>2
  <1>3. ASSUME NEW r \in late', r.op = "commit"
        PROVE  \E k \in CommandId :
                  Programs(k, r.asset)' /\ row'[k].revision = r.revision
    <2>1. r.asset \in Asset
      BY DEF CoreInvariant, TypeOK, Request
    <2>2. PICK k \in CommandId :
              Programs(k, r.asset) /\ row[k].revision = r.revision
      BY <1>3 DEF LateKept, AddressInvariant, RevisionsRead
    <2> QED BY <2>1, <2>2 DEF ProgramsKept
  <1>4. RevisionsRead'
    BY <1>2, <1>3 DEF RevisionsRead
  <1>5. ASSUME NEW t \in Thread, NEW a \in Asset, a = Cmd(t)'.asset,
               VerifiedBy(t)', work'[t].revision >= asset'[a].revision
        PROVE  dcc'.decoder[a] = Cmd(t)'.value \/ Overwritten(t)'
    <2>1. VerifiedBy(t) /\ SameWork(t)
      BY <1>5 DEF VerifiedKept
    <2>2. a = Cmd(t).asset /\ pc[t] # "idle" /\ work[t].revision \in Nat
      BY <1>5, <2>1, AddressTyped DEF SameWork, VerifiedBy
    <2>3. work[t].revision >= asset[a].revision
      BY <1>1, <1>5, <2>1, <2>2 DEF SameWork, AssetsGrow
    <2>4. dcc.decoder[a] = Cmd(t).value \/ Overwritten(t)
      BY <2>1, <2>2, <2>3 DEF AddressInvariant, AddressesTrue
    <2> QED BY <2>1, <2>2, <2>4, OverwrittenKept DEF PlacesKept, SameWork
  <1>6. ASSUME NEW t \in Thread, NEW a \in Asset, a = Cmd(t)'.asset,
               pc'[t] \in Past
        PROVE  dcc'.decoder[a] = asset'[a].address \/ Overwritten(t)'
    <2>1. pc[t] \in Past /\ SameWork(t)
      BY <1>6 DEF VerifiedKept
    <2>2. a = Cmd(t).asset /\ pc[t] # "idle"
      BY <1>6, <2>1 DEF SameWork, Past
    <2>3. dcc.decoder[a] = asset[a].address \/ Overwritten(t)
      BY <2>1, <2>2 DEF AddressInvariant, AddressesTrue
    <2> QED BY <2>1, <2>2, <2>3, OverwrittenKept DEF PlacesKept
  <1>7. \A t \in Thread : VerifiedBy(t)' \/ pc'[t] \in Past =>
            Cmd(t)'.asset \in Asset
    <2>1. ASSUME NEW t \in Thread, VerifiedBy(t)' \/ pc'[t] \in Past
          PROVE  Cmd(t)'.asset \in Asset
      <3>1. SameWork(t) /\ pc[t] # "idle"
        BY <2>1 DEF VerifiedKept, VerifiedBy, Past
      <3> QED BY <3>1, AddressTyped DEF SameWork
    <2> QED BY <2>1
  <1>8. AddressesTrue'
    BY <1>5, <1>6, <1>7 DEF AddressesTrue
  <1>9. ASSUME NEW a \in Asset, dcc'.decoder[a] # asset'[a].address
        PROVE  Unresolved(a)'
    <2>1. PICK k \in CommandId :
              /\ Programs(k, a)
              /\ row[k].state \in {"accepted", "uncertain"} \/ acts[k] > 1
      BY <1>9 DEF PlacesKept, AddressInvariant, DecoderKnown, Unresolved, Programs
    <2>2. acts[k] > 1 => acts'[k] > 1
      BY AddressTyped DEF ActsGrow, CoreInvariant, TypeOK
    <2> QED BY <2>1, <2>2 DEF ProgramsKept, Unresolved, Programs
  <1> QED BY <1>4, <1>8, <1>9 DEF AddressInvariant, DecoderKnown

(* Threads that the step does not concern.                                  *)
LEMMA ReadKept ==
  ASSUME CoreInvariant, CoreInvariant', JournalInvariant, AddressInvariant,
         ProgramsKept, AssetsGrow, NEW t \in Thread,
         pc'[t] = "idle" \/ (pc'[t] = pc[t] /\ work'[t] = work[t])
  PROVE  ThreadRead(t)'
  <1>1. CASE pc'[t] = "idle"
    BY <1>1 DEF ThreadRead, Entered, Past
  <1>2. CASE pc'[t] # "idle" /\ pc'[t] = pc[t] /\ work'[t] = work[t]
    <2>1. PICK a \in Asset : a = Cmd(t).asset /\ Cmd(t)' = Cmd(t)
      BY <1>2, AddressTyped DEF Cmd
    <2>2. /\ asset[a].revision \in Nat /\ asset'[a].revision \in Nat
          /\ asset'[a].revision >= asset[a].revision
          /\ work[t].revision \in Nat /\ ThreadRead(t)
      BY <1>2, <2>1, AddressTyped
      DEF AssetsGrow, CoreInvariant, TypeOK, RegistryTypeOK, AssetRecord,
          AddressInvariant, RevisionsRead
    <2>3. ASSUME pc[t] \in Entered, Op(t) = "program"
          PROVE  row'[Cmd(t).id].revision = row[Cmd(t).id].revision
      <3>1. PICK k \in CommandId : k = Cmd(t).id
        BY <1>2, AddressTyped
      <3>2. Programs(k, a)
        BY <2>1, <2>3, <3>1
        DEF Programs, CoreInvariant, JournalInvariant, Journalled,
            ThreadJournalled, Cmd, Op
      <3> QED BY <3>1, <3>2 DEF ProgramsKept
    <2> QED BY <1>2, <2>1, <2>2, <2>3 DEF ThreadRead, Op, Cmd
  <1> QED BY <1>1, <1>2

(* Only the thread that steps changes.                                      *)
LEMMA CommandOthers ==
  ASSUME CoreInvariant, NEW t \in Thread, CommandStep(t)
  PROVE  OthersStay(t)
  <1>1. pc \in [Thread -> Stage] /\ DOMAIN work = Thread /\ DOMAIN reply = Thread
    BY DEF CoreInvariant, TypeOK
  <1> DEFINE Steps(f) == \E w : f' = [f EXCEPT ![t] = w]
  <1>2. Steps(pc)
    BY DEF CommandStep, Lookup, ReadAsset, ChooseReservation, RequestLease,
           CheckReservation, HoldReservation, Refuse, LeaseUnanswered, Begin,
           SendCall, Confirmed, FinishUncertain, CommitAddress,
           CommitUnanswered, ReleaseReservation, FinishProgrammed, Answer,
           Advance, GoTo, Elsewhere
  <1>3. Steps(work) \/ UNCHANGED work
    BY DEF CommandStep, Lookup, ReadAsset, ChooseReservation, RequestLease,
           CheckReservation, HoldReservation, Refuse, LeaseUnanswered, Begin,
           SendCall, Confirmed, FinishUncertain, CommitAddress,
           CommitUnanswered, ReleaseReservation, FinishProgrammed, Answer
  <1>4. Steps(reply) \/ UNCHANGED reply
    BY DEF CommandStep, Lookup, ReadAsset, ChooseReservation, RequestLease,
           CheckReservation, HoldReservation, Refuse, LeaseUnanswered, Begin,
           SendCall, Confirmed, FinishUncertain, CommitAddress,
           CommitUnanswered, ReleaseReservation, FinishProgrammed, Answer,
           Advance
  <1> QED BY <1>1, <1>2, <1>3, <1>4 DEF OthersStay

LEMMA SamePrograms ==
  ASSUME UNCHANGED row
  PROVE  ProgramsKept
  BY DEF ProgramsKept, Programs

(* What is finished is the entry of the thread's own command.               *)
LEMMA FinishedEntry ==
  ASSUME CoreInvariant, JournalInvariant, NEW t \in Thread, pc[t] \in Entered,
         NEW s \in {"accepted", "completed", "uncertain"},
         NEW result \in BOOLEAN, FinishAs(t, s, result)
  PROVE  \E j \in CommandId :
            /\ j = Cmd(t).id /\ row[j] # None /\ row'[j] # None
            /\ row[j].command = Cmd(t) /\ row'[j].command = Cmd(t)
            /\ row'[j].state = s /\ row'[j].revision = row[j].revision
            /\ \A k \in CommandId \ {j} : row'[k] = row[k]
  <1>1. PICK j \in CommandId : j = Cmd(t).id
    BY AddressTyped DEF Entered
  <1>2. /\ row[j] \in Row /\ row[j].command = Cmd(t)
        /\ row' = [row EXCEPT ![j] =
                      [row[j] EXCEPT !.state = s, !.result = result]]
    <2>1. row \in [CommandId -> Row \cup {None}]
      BY DEF CoreInvariant, TypeOK
    <2>2. row[j] # None
      BY <1>1 DEF CoreInvariant, Cmd
    <2>3. row[j].command = Cmd(t)
      BY <1>1 DEF JournalInvariant, Journalled, ThreadJournalled
    <2> QED BY <1>1, <2>1, <2>2, <2>3 DEF FinishAs
  <1>3. /\ row'[j].command = Cmd(t) /\ row'[j].state = s /\ row'[j] # None
        /\ row'[j].revision = row[j].revision /\ row[j] # None
    <2>1. row'[j] = [row[j] EXCEPT !.state = s, !.result = result]
      BY <1>1, <1>2 DEF CoreInvariant, TypeOK
    <2>2. row[j] # None
      BY <1>2, AbsenceAssumption
    <2>3. row'[j] # None
      <3>1. RowsKept
        <4>1. s \in {"accepted", "completed", "failed", "uncertain"}
          OBVIOUS
        <4> QED BY <4>1, FinishTyped
      <3> QED BY <2>2, <3>1 DEF RowsKept
    <2>4. /\ row'[j].state = s /\ row'[j].command = row[j].command
          /\ row'[j].revision = row[j].revision
      <3> DEFINE r == row[j]
                 q == [r EXCEPT !.state = s, !.result = result]
      <3>1. r \in Row /\ row'[j] = q
        BY <1>2, <2>1
      <3> HIDE DEF r
      <3>2. q.state = s
        BY <3>1 DEF Row
      <3>3. q.command = r.command
        BY <3>1 DEF Row
      <3>4. q.revision = r.revision
        BY <3>1 DEF Row
      <3> QED BY <3>1, <3>2, <3>3, <3>4 DEF r
    <2> QED BY <1>2, <2>2, <2>3, <2>4
  <1>4. \A k \in CommandId \ {j} : row'[k] = row[k]
    BY <1>2 DEF CoreInvariant, TypeOK
  <1> QED BY <1>1, <1>2, <1>3, <1>4

LEMMA FinishPrograms ==
  ASSUME CoreInvariant, JournalInvariant, NEW t \in Thread, pc[t] \in Entered,
         NEW s \in {"accepted", "completed", "uncertain"},
         NEW result \in BOOLEAN, FinishAs(t, s, result),
         s = "uncertain" \/ Op(t) # "program"
  PROVE  ProgramsKept
  <1>1. PICK j \in CommandId :
            /\ j = Cmd(t).id /\ row[j] # None /\ row'[j] # None
            /\ row[j].command = Cmd(t) /\ row'[j].command = Cmd(t)
            /\ row'[j].state = s /\ row'[j].revision = row[j].revision
            /\ \A k \in CommandId \ {j} : row'[k] = row[k]
    BY FinishedEntry
  <1>2. Op(t) = Cmd(t).op
    BY DEF Op, Cmd
  <1>3. ASSUME NEW k \in CommandId, NEW a \in Asset
        PROVE  /\ Programs(k, a) => /\ Programs(k, a)'
                                    /\ row'[k].revision = row[k].revision
                                    /\ row'[k].state \in {row[k].state, "uncertain"}
               /\ Programs(k, a)' => Programs(k, a)
    <2>1. CASE k = j
      BY <1>1, <1>2, <2>1 DEF Programs
    <2>2. CASE k # j
      BY <1>1, <2>2 DEF Programs
    <2> QED BY <2>1, <2>2
  <1> QED BY <1>3 DEF ProgramsKept

LEMMA BeginPrograms ==
  ASSUME CoreInvariant, NEW t \in Thread, Begin(t)
  PROVE  ProgramsKept
  <1>1. CASE UNCHANGED row
    BY <1>1, SamePrograms
  <1>2. ASSUME NEW j \in CommandId, j = Cmd(t).id, row[j] = None,
               row' = [row EXCEPT ![j] = Entry(t)]
        PROVE  ProgramsKept
    <2>1. row'[j] = Entry(t) /\ \A k \in CommandId \ {j} : row'[k] = row[k]
      BY <1>2 DEF CoreInvariant, TypeOK
    <2>2. row'[j].state = "accepted"
      BY <2>1 DEF Entry
    <2> QED BY <1>2, <2>1, <2>2 DEF ProgramsKept, Programs
  <1>3. pc[t] # "idle" /\ Cmd(t).id \in CommandId
    BY AddressTyped DEF Begin, At
  <1> QED BY <1>1, <1>2, <1>3 DEF Begin

(* What a thread has read is not newer than the asset.                      *)
LEMMA MovedRead ==
  ASSUME CoreInvariant, CoreInvariant', JournalInvariant, AddressInvariant,
         ProgramsKept, AssetsGrow, NEW t \in Thread,
         pc[t] # "idle", pc'[t] # "idle", Cmd(t)' = Cmd(t),
         work'[t].revision \in
             {work[t].revision, asset[Cmd(t).asset].revision},
         pc'[t] \in Past => pc[t] \in Past,
         pc'[t] \in Entered =>
             /\ work'[t].revision = work[t].revision
             /\ \/ pc[t] \in Entered
                \/ Op(t) = "program" =>
                       row'[Cmd(t).id].revision = work[t].revision
  PROVE  ThreadRead(t)'
  <1>1. PICK a \in Asset, j \in CommandId :
            a = Cmd(t).asset /\ j = Cmd(t).id
    BY AddressTyped
  <1>2. /\ asset[a].revision \in Nat /\ asset'[a].revision \in Nat
        /\ asset'[a].revision >= asset[a].revision
        /\ work[t].revision \in Nat /\ ThreadRead(t)
    BY <1>1, AddressTyped
    DEF AssetsGrow, CoreInvariant, TypeOK, RegistryTypeOK, AssetRecord,
        AddressInvariant, RevisionsRead
  <1>3. Op(t) = Cmd(t).op /\ Op(t)' = Op(t)
    BY DEF Op, Cmd
  <1>4. ASSUME pc[t] \in Entered, Op(t) = "program"
        PROVE  row'[j].revision = row[j].revision
    <2>1. Programs(j, a)
      BY <1>1, <1>3, <1>4
      DEF Programs, CoreInvariant, JournalInvariant, Journalled,
          ThreadJournalled, Cmd
    <2> QED BY <2>1 DEF ProgramsKept
  <1>5. work'[t].revision <= asset'[a].revision
    BY <1>1, <1>2 DEF ThreadRead
  <1>6. (pc'[t] \in Entered /\ Op(t) = "program") =>
            row'[j].revision = work'[t].revision
    BY <1>1, <1>2, <1>4 DEF ThreadRead
  <1>7. pc'[t] \in Past => work'[t].revision < asset'[a].revision
    BY <1>1, <1>2 DEF ThreadRead, Past, Entered
  <1> QED BY <1>1, <1>3, <1>5, <1>6, <1>7 DEF ThreadRead

(* A step of one thread that changes neither record nor decoder.            *)
GoesOn(t) ==
    /\ Moved(t)
    /\ work'[t].revision \in {work[t].revision, asset[Cmd(t).asset].revision}
    /\ pc'[t] \in Past => pc[t] \in Past
    /\ pc'[t] = "commit" => VerifiedBy(t)
    /\ pc'[t] = "waiting" => pc[t] = "waiting" \/ reply[t] = None
    /\ pc'[t] \in Entered =>
          /\ work'[t].revision = work[t].revision
          /\ \/ pc[t] \in Entered
             \/ Op(t) = "program" =>
                    row'[Cmd(t).id].revision = work[t].revision

LEMMA StepAddress ==
  ASSUME CoreInvariant, CoreInvariant', JournalInvariant, AddressInvariant,
         NEW t \in Thread, OthersStay(t), Left(t) \/ GoesOn(t),
         ProgramsKept, LateKept, UNCHANGED <<asset, dcc, acts>>
  PROVE  AddressInvariant'
  <1>1. AssetsGrow /\ ActsGrow /\ PlacesKept
    BY AddressTyped DEF AssetsGrow, ActsGrow, PlacesKept
  <1>2. \A u \in Thread : ThreadRead(u)'
    <2>1. ASSUME NEW u \in Thread \ {t} PROVE ThreadRead(u)'
      BY <1>1, <2>1, ReadKept DEF OthersStay
    <2>2. CASE Left(t)
      BY <1>1, <2>1, <2>2, ReadKept DEF Left
    <2>3. CASE GoesOn(t)
      <3>1. Cmd(t)' = Cmd(t)
        BY <2>3 DEF GoesOn, Moved, Cmd
      <3> QED BY <1>1, <2>1, <2>3, <3>1, MovedRead DEF GoesOn, Moved
    <2> QED BY <2>2, <2>3
  <1>3. VerifiedKept
    <2>1. ASSUME NEW u \in Thread
          PROVE  /\ pc'[u] \in Past => pc[u] \in Past /\ SameWork(u)
                 /\ VerifiedBy(u)' => VerifiedBy(u) /\ SameWork(u)
      <3>1. CASE u # t
        BY <2>1, <3>1 DEF OthersStay, SameWork, VerifiedBy, Cmd, Op
      <3>2. CASE u = t /\ Left(t)
        BY <3>2 DEF Left, Past, VerifiedBy
      <3>3. CASE u = t /\ GoesOn(t)
        <4>1. /\ Op(t)' = Op(t) /\ Cmd(t)' = Cmd(t) /\ reply'[t] = reply[t]
          BY <3>3 DEF GoesOn, Moved, Op, Cmd
        <4>2. pc'[t] \in Entered => SameWork(t)
          BY <3>3, <4>1 DEF GoesOn, SameWork
        <4>3. None # "ok"
          BY AbsenceAssumption
        <4>4. VerifiedBy(t)' => VerifiedBy(t)
          BY <3>3, <4>1, <4>3 DEF GoesOn, VerifiedBy
        <4> QED BY <3>3, <4>2, <4>4 DEF GoesOn, Past, Entered, VerifiedBy
      <3> QED BY <3>1, <3>2, <3>3
    <2> QED BY <2>1 DEF VerifiedKept
  <1> QED BY <1>1, <1>2, <1>3, AddressKept

LEMMA SameLate ==
  ASSUME \A r \in late' \ late : r.op # "commit"
  PROVE  LateKept
  BY DEF LateKept

LEMMA EarlyAddress ==
  ASSUME CoreInvariant, CoreInvariant', JournalInvariant, AddressInvariant,
         NEW t \in Thread,
         Lookup(t) \/ ReadAsset(t) \/ ChooseReservation(t) \/ RequestLease(t)
         \/ CheckReservation(t) \/ HoldReservation(t) \/ Refuse(t)
         \/ LeaseUnanswered(t)
  PROVE  AddressInvariant'
  <1>1. /\ pc[t] \in {"lookup", "read", "choose", "lease", "reserve", "hold",
                      "begin"}
        /\ UNCHANGED <<row, asset, dcc, acts>>
    BY DEF Lookup, ReadAsset, ChooseReservation, RequestLease, AcquireLease,
           CheckReservation, HoldReservation, Refuse, LeaseUnanswered,
           At, Elsewhere
  <1>2. pc[t] # "idle"
    BY <1>1
  <1>3. ProgramsKept
    BY <1>1, SamePrograms
  <1>4. \A r \in late' \ late : r.op # "commit"
    BY DEF Lookup, ReadAsset, ChooseReservation, RequestLease,
           CheckReservation, HoldReservation, Refuse, LeaseUnanswered,
           LeaveLate, Elsewhere
  <1>5. LateKept
    BY <1>4, SameLate
  <1>6. CASE Answer(t)
    BY <1>1, <1>3, <1>5, <1>6, AnswerLeaves, StepAddress
  <1>7. ASSUME ~Answer(t) PROVE OthersStay(t) /\ GoesOn(t)
    <2>1. work[t] \in Work
      BY <1>2, CommandsTyped
    <2>2. \E stage \in Stage \ ({"idle"} \cup Entered) : GoTo(t, stage)
      <3>1. CASE pc[t] \in {"lookup", "read", "lease"} /\ Advance(t)
        BY <3>1, Working, FollowingStage DEF Advance, CoreInvariant, Op
      <3>2. CASE \/ GoTo(t, "read") \/ GoTo(t, "begin") \/ GoTo(t, "hold")
        BY <3>2 DEF Stage, Entered
      <3> QED BY <1>7, <3>1, <3>2
              DEF Lookup, ReadAsset, ChooseReservation, RequestLease,
                  CheckReservation, HoldReservation, Refuse, LeaseUnanswered,
                  At
    <2>3. UNCHANGED reply
      BY <1>7
      DEF Lookup, ReadAsset, ChooseReservation, RequestLease,
          CheckReservation, HoldReservation, Refuse, LeaseUnanswered, Elsewhere
    <2>4. /\ \A u \in Thread \ {t} : work'[u] = work[u]
          /\ work'[t].command = work[t].command
          /\ work'[t].attempt = work[t].attempt
          /\ work'[t].revision \in
                 {work[t].revision, asset[Cmd(t).asset].revision}
      BY <1>7, <2>1
      DEF Lookup, ReadAsset, ChooseReservation, RequestLease,
          CheckReservation, HoldReservation, Refuse, LeaseUnanswered, Work,
          CoreInvariant, TypeOK
    <2>5. pc'[t] \notin Entered /\ pc'[t] # "idle"
      BY <2>2 DEF GoTo, CoreInvariant, TypeOK
    <2> QED BY <1>2, <2>2, <2>3, <2>4, <2>5
            DEF GoTo, OthersStay, GoesOn, Moved, Past, Entered, Cmd,
                CoreInvariant, TypeOK
  <1> QED BY <1>1, <1>3, <1>5, <1>6, <1>7, StepAddress

(* A thread that only goes to its next stage.                               *)
LEMMA GoesOnTo ==
  ASSUME CoreInvariant, NEW t \in Thread, pc[t] # "idle",
         NEW stage \in Stage \ {"idle"}, GoTo(t, stage),
         UNCHANGED <<work, reply>>,
         stage \in Past => pc[t] \in Past,
         stage = "commit" => VerifiedBy(t),
         stage = "waiting" => reply[t] = None,
         \/ pc[t] \in Entered
         \/ Op(t) = "program" =>
                row'[Cmd(t).id].revision = work[t].revision
  PROVE  OthersStay(t) /\ GoesOn(t)
  BY GoToMoves DEF GoesOn

LEMMA BeginAddress ==
  ASSUME CoreInvariant, CoreInvariant', JournalInvariant, AddressInvariant,
         NEW t \in Thread, Begin(t)
  PROVE  AddressInvariant'
  <1>1. /\ pc[t] = "begin" /\ UNCHANGED <<asset, late, dcc, acts>>
    BY DEF Begin, At, Elsewhere
  <1>2. ProgramsKept
    BY BeginPrograms
  <1>3. LateKept
    BY <1>1, SameLate
  <1>4. CASE Answer(t)
    BY <1>1, <1>2, <1>3, <1>4, AnswerLeaves, StepAddress
  <1>5. CASE ~Answer(t)
    <2>1. /\ GoTo(t, "call") /\ UNCHANGED <<work, reply>>
          /\ \/ row' = [row EXCEPT ![Cmd(t).id] = Entry(t)]
             \/ UNCHANGED row /\ SameCommand(row[Cmd(t).id], t)
      BY <1>5 DEF Begin
    <2>2. Cmd(t).id \in CommandId
      BY <1>1, AddressTyped
    <2>3. row'[Cmd(t).id].revision = Entry(t).revision
      BY <2>1, <2>2 DEF SameCommand, CoreInvariant, TypeOK
    <2>4. Op(t) = "program" => row'[Cmd(t).id].revision = work[t].revision
      BY <2>3 DEF Entry
    <2>5. OthersStay(t) /\ GoesOn(t)
      BY <1>1, <2>1, <2>4, GoesOnTo DEF Stage, Past
    <2> QED BY <1>1, <1>2, <1>3, <2>5, StepAddress
  <1> QED BY <1>4, <1>5

LEMMA SentAddress ==
  ASSUME CoreInvariant, CoreInvariant', JournalInvariant, AddressInvariant,
         NEW t \in Thread,
         \/ SendCall(t) \/ ReleaseReservation(t)
         \/ (Confirmed(t) /\ Op(t) = "program")
  PROVE  AddressInvariant'
  <1>1. UNCHANGED <<row, asset, late, dcc, acts, work, reply>>
    BY DEF SendCall, ReleaseReservation, Confirmed, Elsewhere
  <1>2. ProgramsKept /\ LateKept
    BY <1>1, SamePrograms, SameLate
  <1>3. OthersStay(t) /\ GoesOn(t)
    <2>1. CASE SendCall(t)
      <3>1. pc[t] = "call" /\ reply[t] = None
        BY <2>1 DEF SendCall, At, JournalInvariant, Journalled,
                    ThreadJournalled, Sent
      <3> QED BY <1>1, <2>1, <3>1, GoesOnTo DEF SendCall, Stage, Past, Entered
    <2>2. CASE ReleaseReservation(t)
      BY <1>1, <2>2, GoesOnTo DEF ReleaseReservation, At, Stage, Past, Entered
    <2>3. CASE Confirmed(t) /\ Op(t) = "program"
      BY <1>1, <2>3, GoesOnTo
      DEF Confirmed, At, Stage, Past, Entered, VerifiedBy
    <2> QED BY <2>1, <2>2, <2>3
  <1> QED BY <1>1, <1>2, <1>3, StepAddress

LEMMA FinishAddress ==
  ASSUME CoreInvariant, CoreInvariant', JournalInvariant, AddressInvariant,
         NEW t \in Thread, pc[t] \in Entered, Answer(t),
         NEW s \in {"accepted", "completed", "uncertain"},
         NEW result \in BOOLEAN, FinishAs(t, s, result),
         s = "uncertain" \/ Op(t) # "program",
         LateKept, UNCHANGED <<asset, dcc, acts>>
  PROVE  AddressInvariant'
  <1>1. ProgramsKept
    BY FinishPrograms
  <1> QED BY <1>1, AnswerLeaves, StepAddress

LEMMA OutcomeAddress ==
  ASSUME CoreInvariant, CoreInvariant', JournalInvariant, AddressInvariant,
         NEW t \in Thread,
         \/ FinishUncertain(t) \/ CommitUnanswered(t)
         \/ (Confirmed(t) /\ Op(t) # "program")
  PROVE  AddressInvariant'
  <1>1. /\ pc[t] \in Entered /\ Answer(t) /\ UNCHANGED <<asset, dcc, acts>>
    BY DEF FinishUncertain, CommitUnanswered, Confirmed, At, Entered, Elsewhere
  <1>2. LateKept
    <2>1. CASE UNCHANGED late
      BY <2>1, SameLate
    <2>2. CASE CommitUnanswered(t)
      <3>1. PICK a \in Asset, j \in CommandId :
                a = Cmd(t).asset /\ j = Cmd(t).id
        BY <1>1, AddressTyped DEF Entered
      <3>2. pc[t] = "commit"
        BY <2>2 DEF CommitUnanswered, At
      <3>3. Op(t) = "program" /\ ThreadRead(t)
        BY <3>2 DEF JournalInvariant, Journalled, ThreadJournalled, Sent,
                    AddressInvariant, RevisionsRead
      <3>4. Programs(j, a) /\ row[j].revision = work[t].revision
        BY <1>1, <3>1, <3>3
        DEF Programs, CoreInvariant, JournalInvariant, Journalled,
            ThreadJournalled, ThreadRead, Cmd, Op
      <3>5. \A r \in late' \ late : r.asset = a /\ r.revision = work[t].revision
        BY <2>2, <3>1 DEF CommitUnanswered, LeaveLate
      <3> QED BY <3>4, <3>5 DEF LateKept
    <2> QED BY <2>1, <2>2 DEF FinishUncertain, Confirmed, Elsewhere
  <1>3. CASE FinishUncertain(t) \/ CommitUnanswered(t)
    <2>1. TRUE \in BOOLEAN /\ (Op(t) = "program") \in BOOLEAN
      OBVIOUS
    <2>2. \E result \in BOOLEAN : FinishAs(t, "uncertain", result)
      BY <1>3, <2>1 DEF FinishUncertain, CommitUnanswered
    <2> QED BY <1>1, <1>2, <2>2, FinishAddress
  <1>4. CASE Confirmed(t) /\ Op(t) # "program"
    <2>1. TRUE \in BOOLEAN
      OBVIOUS
    <2>2. \E s \in {"accepted", "completed", "uncertain"} : FinishAs(t, s, TRUE)
      BY <1>4 DEF Confirmed
    <2> QED BY <1>1, <1>2, <1>4, <2>1, <2>2, FinishAddress
  <1> QED BY <1>3, <1>4

(* Steps that leave threads, journal and railway alone.                     *)
LEMMA QuietAddress ==
  ASSUME CoreInvariant, CoreInvariant', JournalInvariant, AddressInvariant,
         UNCHANGED <<pc, work, reply, acts>>, ProgramsKept,
         late' \subseteq late, AssetsGrow, PlacesKept
  PROVE  AddressInvariant'
  <1>1. ActsGrow
    BY AddressTyped DEF ActsGrow
  <1>2. VerifiedKept
    BY DEF VerifiedKept, VerifiedBy, SameWork, Cmd, Op
  <1>3. \A t \in Thread : ThreadRead(t)'
    BY ReadKept
  <1> QED BY <1>1, <1>2, <1>3, SameLate, AddressKept

LEMMA AsideAddress ==
  ASSUME CoreInvariant, CoreInvariant', JournalInvariant, AddressInvariant,
         \/ Boot \/ StartDcc \/ StartMc \/ Resume \/ ReadExecutions
         \/ (\E k \in CommandId : McResolves(k)) \/ RestartDcc \/ RestartMc
         \/ UNCHANGED vars
  PROVE  AddressInvariant'
  <1>1. /\ UNCHANGED <<row, pc, work, reply, acts, late, asset>>
        /\ dcc'.decoder = dcc.decoder
    BY DEF Boot, StartDcc, StartMc, Resume, ReadExecutions, McResolves,
           RestartDcc, RestartMc, CoreInvariant, TypeOK
  <1>2. AssetsGrow /\ PlacesKept
    BY <1>1, AddressTyped DEF AssetsGrow, PlacesKept
  <1> QED BY <1>1, <1>2, SamePrograms, QuietAddress

LEMMA ReconcileAddress ==
  ASSUME CoreInvariant, CoreInvariant', JournalInvariant, AddressInvariant,
         ReconcileMc
  PROVE  AddressInvariant'
  <1>1. UNCHANGED <<pc, work, reply, acts, late, asset, dcc>>
    BY DEF ReconcileMc
  <1>2. AssetsGrow /\ PlacesKept
    BY <1>1, AddressTyped DEF AssetsGrow, PlacesKept
  <1>3. ASSUME NEW k \in CommandId, NEW a \in Asset
        PROVE  /\ Programs(k, a) => Programs(k, a)' /\ row'[k] = row[k]
               /\ Programs(k, a)' => Programs(k, a)
    <2>1. row'[k] = Reconciled(k) /\ row[k] \in Row \cup {None}
      BY DEF ReconcileMc, CoreInvariant, TypeOK
    <2>2. CASE row'[k] = row[k]
      BY <2>2 DEF Programs
    <2>3. CASE row'[k] # row[k]
      <3>1. /\ row[k] # None /\ row[k].command.op = "stationary"
            /\ row'[k] = [row[k] EXCEPT !.state = seen[k].state]
        BY <2>1, <2>3 DEF Reconciled
      <3>2. row'[k].command = row[k].command
        BY <2>1, <3>1 DEF Row
      <3> QED BY <3>1, <3>2 DEF Programs
    <2> QED BY <2>2, <2>3
  <1>4. ProgramsKept
    BY <1>3 DEF ProgramsKept
  <1> QED BY <1>1, <1>2, <1>4, QuietAddress

LEMMA OwnerAddress ==
  ASSUME CoreInvariant, CoreInvariant', JournalInvariant, AddressInvariant,
         OwnerEdits
  PROVE  AddressInvariant'
  <1>1. UNCHANGED <<row, pc, work, reply, acts, late, dcc>>
    BY DEF OwnerEdits
  <1>2. \A a \in Asset : /\ asset'[a].revision >= asset[a].revision
                         /\ asset'[a].address = asset[a].address
    BY AddressTyped DEF OwnerEdits, EditDescription, EditOperatingView,
                        CoreInvariant, TypeOK, RegistryTypeOK, AssetRecord
  <1>3. AssetsGrow /\ PlacesKept
    BY <1>1, <1>2 DEF AssetsGrow, PlacesKept
  <1> QED BY <1>1, <1>3, SamePrograms, QuietAddress

LEMMA CrashAddress ==
  ASSUME CoreInvariant, CoreInvariant', JournalInvariant, AddressInvariant,
         Crash
  PROVE  AddressInvariant'
  <1>1. /\ UNCHANGED <<row, acts, late, asset, dcc>>
        /\ \A t \in Thread : pc'[t] = "idle"
    BY DEF Crash
  <1>2. AssetsGrow /\ PlacesKept /\ ActsGrow /\ ProgramsKept /\ LateKept
    BY <1>1, AddressTyped, SamePrograms, SameLate
    DEF AssetsGrow, PlacesKept, ActsGrow
  <1>3. VerifiedKept
    BY <1>1 DEF VerifiedKept, VerifiedBy, Past
  <1>4. \A t \in Thread : ThreadRead(t)'
    BY <1>1, <1>2, ReadKept
  <1> QED BY <1>2, <1>3, <1>4, AddressKept

LEMMA ArriveAddress ==
  ASSUME CoreInvariant, CoreInvariant', JournalInvariant, AddressInvariant,
         NEW t \in Thread, NEW c \in Commands, Arrive(t, c)
  PROVE  AddressInvariant'
  <1>1. UNCHANGED <<row, acts, late, asset, dcc>>
    BY DEF Arrive
  <1>2. AssetsGrow /\ PlacesKept /\ ActsGrow /\ ProgramsKept /\ LateKept
    BY <1>1, AddressTyped, SamePrograms, SameLate
    DEF AssetsGrow, PlacesKept, ActsGrow
  <1>3. pc'[t] \in Stage \ ({"idle"} \cup Entered)
    <2>1. c.op \in Operation /\ OnPath(c.op, "arrive")
      BY CommandsAssumption DEF Command, OnPath
    <2> QED BY <2>1, FollowingStage DEF Arrive, GoTo, CoreInvariant, TypeOK
  <1>4. \A u \in Thread \ {t} :
            pc'[u] = pc[u] /\ work'[u] = work[u] /\ reply'[u] = reply[u]
    BY DEF Arrive, GoTo, CoreInvariant, TypeOK
  <1>5. VerifiedKept
    BY <1>3, <1>4 DEF VerifiedKept, VerifiedBy, Past, Entered, SameWork, Cmd, Op
  <1>6. ThreadRead(t)'
    <2>1. /\ work'[t].revision = 0 /\ work'[t].command = c
          /\ c.asset \in Asset
      BY CommandsAssumption DEF Arrive, Command, CoreInvariant, TypeOK
    <2>2. asset'[c.asset].revision \in Nat
      BY <1>1, <2>1, AddressTyped
    <2> QED BY <1>3, <2>1, <2>2 DEF ThreadRead, Past, Entered, Cmd
  <1>7. \A u \in Thread : ThreadRead(u)'
    BY <1>2, <1>4, <1>6, ReadKept
  <1> QED BY <1>2, <1>5, <1>7, AddressKept

(* Calls that program nothing.                                              *)
LEMMA AdapterKeeps ==
  ASSUME CoreInvariant, CoreInvariant', JournalInvariant, AddressInvariant,
         NEW call \in Calls, UNCHANGED <<row, pc, work, late, asset>>,
         dcc'.decoder = dcc.decoder,
         Declines(call) \/ (Executes(call) /\ call.command.op # "program")
  PROVE  AddressInvariant'
  <1>1. \A k \in CommandId : acts'[k] >= acts[k]
    BY CommandsTyped DEF Declines, Executes, CoreInvariant, TypeOK
  <1>2. AssetsGrow /\ PlacesKept /\ ActsGrow /\ ProgramsKept /\ LateKept
    BY <1>1, AddressTyped, SamePrograms, SameLate
    DEF AssetsGrow, PlacesKept, ActsGrow
  <1>3. ASSUME NEW t \in Thread, pc[t] = "waiting", Op(t) = "program",
               reply'[t] = "ok"
        PROVE  reply[t] = "ok"
    <2>1. SUFFICES ASSUME reply[t] # "ok" PROVE FALSE
      OBVIOUS
    <2>2. ~Declines(call) /\ work[t].attempt = call.attempt
      BY <1>3, <2>1 DEF Executes, Declines, Tell, CoreInvariant, TypeOK
    <2>3. call.command = Cmd(t)
      BY <1>3, <2>2 DEF JournalInvariant, AttemptsUnique
    <2> QED BY <1>3, <2>2, <2>3 DEF Op, Cmd
  <1>4. VerifiedKept
    BY <1>3 DEF VerifiedKept, VerifiedBy, SameWork, Cmd, Op
  <1>5. \A t \in Thread : ThreadRead(t)'
    BY <1>2, ReadKept
  <1> QED BY <1>2, <1>4, <1>5, AddressKept

LEMMA ThreadPrograms ==
  ASSUME CoreInvariant, JournalInvariant, NEW t \in Thread,
         VerifiedBy(t) \/ pc[t] \in Past
  PROVE  /\ Programs(Cmd(t).id, Cmd(t).asset)
         /\ Op(t) = "program" /\ pc[t] \in Entered /\ acts[Cmd(t).id] > 0
         /\ Cmd(t).id \in CommandId /\ Cmd(t).asset \in Asset
  <1>1. pc[t] \in Entered /\ Op(t) = "program" /\ acts[Cmd(t).id] > 0
    BY DEF VerifiedBy, Past, Entered, JournalInvariant, Journalled,
           ThreadJournalled, Sent
  <1> QED BY <1>1, AddressTyped
      DEF Programs, CoreInvariant, JournalInvariant, Journalled,
          ThreadJournalled, Cmd, Op, Entered

LEMMA OverwrittenUnresolved ==
  ASSUME CoreInvariant, JournalInvariant, NEW t \in Thread,
         VerifiedBy(t) \/ pc[t] \in Past, Overwritten(t)
  PROVE  Unresolved(Cmd(t).asset)
  BY ThreadPrograms DEF Overwritten, Stuck, Programs, Unresolved

(* The record changes: it was read by nobody who has still to commit.       *)
LEMMA OthersOverwritten ==
  ASSUME NEW t \in Thread, Cmd(t)' = Cmd(t), Overwritten(t),
         acts' = acts,
         \A k \in CommandId \ {Cmd(t).id} :
            Stuck(k, Cmd(t).asset) => Stuck(k, Cmd(t).asset)'
  PROVE  Overwritten(t)'
  BY DEF Overwritten

LEMMA CommitsAddress ==
  ASSUME CoreInvariant, CoreInvariant', JournalInvariant, AddressInvariant,
         NEW t \in Thread, CommitAddress(t)
  PROVE  AddressInvariant'
  <1>1. /\ pc[t] = "commit" /\ pc'[t] = "release" /\ VerifiedBy(t)
        /\ UNCHANGED <<row, work, reply, late, dcc, acts>>
        /\ \A u \in Thread \ {t} : pc'[u] = pc[u]
        /\ \A u \in Thread : Cmd(u)' = Cmd(u) /\ Op(u)' = Op(u)
    <2>1. pc[t] = "commit" /\ UNCHANGED <<row, work, reply, late, dcc, acts>>
      BY DEF CommitAddress, At, Elsewhere
    <2>2. /\ pc'[t] = "release"
          /\ \A u \in Thread \ {t} : pc'[u] = pc[u]
      BY DEF CommitAddress, GoTo, CoreInvariant, TypeOK
    <2>3. \A u \in Thread : Cmd(u)' = Cmd(u) /\ Op(u)' = Op(u)
      BY <2>1 DEF Cmd, Op
    <2> QED BY <2>1, <2>2, <2>3 DEF VerifiedBy
  <1>2. PICK a \in Asset, j \in CommandId :
            a = Cmd(t).asset /\ j = Cmd(t).id /\ Programs(j, a)
    BY <1>1, ThreadPrograms
  <1>3. /\ asset[a].revision = work[t].revision
        /\ asset[a].revision \in Nat
        /\ asset'[a].revision = asset[a].revision + 1
        /\ asset'[a].address = Cmd(t).value
        /\ \A b \in Asset \ {a} : asset'[b] = asset[b]
    BY <1>2 DEF CommitAddress, UpdateProgrammedAddress, CoreInvariant, TypeOK,
                RegistryTypeOK, AssetRecord
  <1>4. \A b \in Asset : /\ asset[b].revision \in Nat
                         /\ asset'[b].revision \in Nat
                         /\ asset'[b].revision >= asset[b].revision
    <2>1. ASSUME NEW b \in Asset
          PROVE  /\ asset[b].revision \in Nat
                 /\ b = a => asset'[b].revision = asset[b].revision + 1
                 /\ b # a => asset'[b].revision = asset[b].revision
      BY <1>3, AddressTyped
    <2> QED BY <2>1
  <1>5. \A u \in Thread : ThreadRead(u)'
    <2>1. AssetsGrow /\ ProgramsKept
      BY <1>1, <1>4, SamePrograms DEF AssetsGrow
    <2>2. \A u \in Thread \ {t} : ThreadRead(u)'
      BY <1>1, <2>1, ReadKept
    <2>3. ThreadRead(t) /\ work[t].revision \in Nat
      BY <1>1, AddressTyped DEF AddressInvariant, RevisionsRead
    <2>4. ThreadRead(t)'
      BY <1>1, <1>2, <1>3, <2>3 DEF ThreadRead, Past, Entered
    <2> QED BY <2>2, <2>4
  <1>6. RevisionsRead'
    <2>1. \A k \in CommandId : \A b \in Asset : Programs(k, b)' => Programs(k, b)
      BY <1>1 DEF Programs
    <2>2. ASSUME NEW k \in CommandId, NEW b \in Asset, Programs(k, b)
          PROVE  /\ row'[k].state # "failed"
                 /\ row'[k].state = "completed" =>
                        row'[k].revision < asset'[b].revision
      <3>1. row[k].revision \in Nat
        BY <2>2, AddressTyped DEF Programs
      <3> QED BY <1>1, <1>4, <2>2, <3>1 DEF AddressInvariant, RevisionsRead
    <2>3. \A r \in late' : r.op = "commit" =>
             \E k \in CommandId :
                Programs(k, r.asset)' /\ row'[k].revision = r.revision
      BY <1>1 DEF AddressInvariant, RevisionsRead, Programs
    <2> QED BY <1>5, <2>1, <2>2, <2>3 DEF RevisionsRead
  <1>7. dcc.decoder[a] = Cmd(t).value \/ Overwritten(t)
    <2>1. work[t].revision >= asset[a].revision
      BY <1>3
    <2> QED BY <1>1, <1>2, <2>1 DEF AddressInvariant, AddressesTrue
  <1>8. ASSUME NEW k \in CommandId, NEW b \in Asset, Stuck(k, b),
               k # j \/ acts[k] > 1
        PROVE  Stuck(k, b)'
    <2>1. k # j => (Completing(k)' => Completing(k))
      BY <1>1, <1>2 DEF Completing
    <2> QED BY <1>1, <1>8, <2>1 DEF Stuck, Programs
  <1>9. ASSUME NEW u \in Thread, VerifiedBy(u) \/ pc[u] \in Past,
               Cmd(u).asset # a, Overwritten(u)
        PROVE  Overwritten(u)'
    <2>1. \A k \in CommandId : Stuck(k, Cmd(u).asset) => k # j
      BY <1>2, <1>9 DEF Stuck, Programs
    <2>2. Cmd(u).asset \in Asset
      BY <1>9, ThreadPrograms
    <2> QED BY <1>1, <1>8, <1>9, <2>1, <2>2, OthersOverwritten
  <1>10. ASSUME NEW u \in Thread, VerifiedBy(u)',
                work'[u].revision >= asset'[Cmd(u)'.asset].revision
         PROVE  dcc'.decoder[Cmd(u)'.asset] = Cmd(u)'.value \/ Overwritten(u)'
    <2>1. u # t
      BY <1>1, <1>10 DEF VerifiedBy
    <2>2. VerifiedBy(u) /\ pc[u] # "idle" /\ Cmd(u).asset \in Asset
      BY <1>1, <1>10, <2>1, ThreadPrograms DEF VerifiedBy
    <2>3. Cmd(u).asset # a
      <3>1. ThreadRead(u) /\ work[u].revision \in Nat
        BY <2>2, AddressTyped DEF AddressInvariant, RevisionsRead
      <3> QED BY <1>1, <1>3, <1>10, <2>2, <3>1 DEF ThreadRead
    <2>4. dcc.decoder[Cmd(u).asset] = Cmd(u).value \/ Overwritten(u)
      BY <1>1, <1>3, <1>10, <2>2, <2>3 DEF AddressInvariant, AddressesTrue
    <2> QED BY <1>1, <1>9, <2>2, <2>3, <2>4
  <1>11. Overwritten(t) => Overwritten(t)'
    BY <1>1, <1>2, <1>8, OthersOverwritten
  <1>12. ASSUME NEW u \in Thread, pc'[u] \in Past
         PROVE  \/ dcc'.decoder[Cmd(u)'.asset] = asset'[Cmd(u)'.asset].address
                \/ Overwritten(u)'
    <2>1. CASE u = t
      BY <1>1, <1>2, <1>3, <1>7, <1>11, <2>1
    <2>2. CASE u # t
      <3>1. pc[u] \in Past /\ Cmd(u).asset \in Asset /\ Cmd(u).id \in CommandId
        BY <1>1, <1>12, <2>2, ThreadPrograms
      <3>2. CASE Cmd(u).asset # a
        BY <1>1, <1>3, <1>9, <3>1, <3>2 DEF AddressInvariant, AddressesTrue
      <3>3. CASE Cmd(u).asset = a
        <4>1. CASE dcc.decoder[a] = Cmd(t).value
          BY <1>1, <1>3, <3>3, <4>1
        <4>2. CASE acts[Cmd(u).id] > 1
          BY <1>1, <4>2 DEF Overwritten
        <4>3. CASE acts[j] > 1 /\ Cmd(u).id # j
          <5>1. Stuck(j, a)
            BY <1>2, <4>3 DEF Stuck
          <5> QED BY <1>1, <1>8, <3>3, <4>3, <5>1 DEF Overwritten
        <4>4. ASSUME NEW k \in CommandId \ {j}, Stuck(k, a),
                     acts[Cmd(u).id] <= 1
              PROVE  Overwritten(u)'
          <5>1. k # Cmd(u).id
            BY <3>1, <4>4, AddressTyped DEF Stuck, Completing
          <5> QED BY <1>1, <1>8, <3>3, <4>4, <5>1 DEF Overwritten
        <4>5. acts[Cmd(u).id] \in Nat /\ acts[j] \in Nat
          BY <1>2, <3>1, AddressTyped
        <4> QED BY <1>2, <1>7, <4>1, <4>2, <4>3, <4>4, <4>5 DEF Overwritten
      <3> QED BY <3>2, <3>3
    <2> QED BY <2>1, <2>2
  <1>13. DecoderKnown'
    <2>1. \A b \in Asset : Unresolved(b) => Unresolved(b)'
      BY <1>1 DEF Unresolved
    <2>2. ASSUME NEW b \in Asset, dcc'.decoder[b] # asset'[b].address
          PROVE  Unresolved(b)
      <3>1. CASE b = a
        BY <1>1, <1>2, <1>3, <1>7, <2>2, <3>1, OverwrittenUnresolved
      <3>2. CASE b # a
        BY <1>1, <1>3, <2>2, <3>2 DEF AddressInvariant, DecoderKnown
      <3> QED BY <3>1, <3>2
    <2> QED BY <2>1, <2>2 DEF DecoderKnown
  <1> QED BY <1>6, <1>10, <1>12, <1>13 DEF AddressInvariant, AddressesTrue

(* A commit that comes late: the journal calls its command unresolved.      *)
LEMMA LateAddress ==
  ASSUME CoreInvariant, CoreInvariant', JournalInvariant, AddressInvariant,
         NEW r \in late, LateRequest(r)
  PROVE  AddressInvariant'
  <1>1. /\ UNCHANGED <<row, pc, work, reply, dcc, acts>> /\ late' \subseteq late
    BY DEF LateRequest
  <1>2. CASE AcquireLease(r.asset, r.revision, r.session)
    <2>1. UNCHANGED asset
      BY <1>2 DEF AcquireLease
    <2>2. AssetsGrow /\ PlacesKept
      BY <1>1, <2>1, AddressTyped DEF AssetsGrow, PlacesKept
    <2> QED BY <1>1, <2>2, SamePrograms, QuietAddress
  <1>3. ASSUME r.op = "commit",
               UpdateProgrammedAddress(r.asset, r.revision, r.address)
        PROVE  AddressInvariant'
    <2>1. PICK a \in Asset, k \in CommandId :
              a = r.asset /\ Programs(k, a) /\ row[k].revision = r.revision
      BY <1>3, AddressTyped DEF AddressInvariant, RevisionsRead
    <2>2. /\ asset[a].revision = row[k].revision
          /\ asset[a].revision \in Nat
          /\ asset'[a].revision = asset[a].revision + 1
          /\ \A b \in Asset \ {a} : asset'[b] = asset[b]
      BY <1>3, <2>1 DEF UpdateProgrammedAddress, CoreInvariant, TypeOK,
                        RegistryTypeOK, AssetRecord
    <2>3. \A b \in Asset : /\ asset[b].revision \in Nat
                           /\ asset'[b].revision \in Nat
                           /\ asset'[b].revision >= asset[b].revision
      <3>1. ASSUME NEW b \in Asset
            PROVE  /\ asset[b].revision \in Nat
                   /\ b = a => asset'[b].revision = asset[b].revision + 1
                   /\ b # a => asset'[b].revision = asset[b].revision
        BY <2>2, AddressTyped
      <3> QED BY <3>1
    <2>4. row[k].state \in {"accepted", "uncertain"}
      <3>1. row[k].state \in {"accepted", "completed", "failed", "uncertain"}
        BY <2>1 DEF Programs, CoreInvariant, TypeOK, Row
      <3> QED BY <2>1, <2>2, <3>1 DEF AddressInvariant, RevisionsRead
    <2>5. ~Completing(k)
      <3>1. SUFFICES ASSUME NEW t \in Thread, pc[t] \in Past, Cmd(t).id = k
                     PROVE  FALSE
        BY DEF Completing
      <3>2. Programs(k, Cmd(t).asset) /\ Op(t) = "program" /\ pc[t] \in Entered
        BY <3>1, ThreadPrograms
      <3>3. Cmd(t).asset = a
        BY <2>1, <3>2 DEF Programs
      <3>4. ThreadRead(t) /\ work[t].revision \in Nat
        BY <3>1, AddressTyped DEF Past, AddressInvariant, RevisionsRead
      <3> QED BY <2>2, <3>1, <3>2, <3>3, <3>4 DEF ThreadRead
    <2>6. Stuck(k, a)
      BY <2>1, <2>4, <2>5 DEF Stuck
    <2>7. /\ \A i \in CommandId : \A b \in Asset :
                /\ Programs(i, b)' = Programs(i, b)
                /\ Stuck(i, b)' = Stuck(i, b)
                /\ Unresolved(b)' = Unresolved(b)
          /\ \A t \in Thread : /\ Overwritten(t)' = Overwritten(t)
                               /\ VerifiedBy(t)' = VerifiedBy(t)
                               /\ Cmd(t)' = Cmd(t)
      BY <1>1 DEF Programs, Stuck, Completing, Unresolved, Overwritten,
                  VerifiedBy, Cmd, Op
    <2>8. \A t \in Thread : ThreadRead(t)'
      <3>1. AssetsGrow /\ ProgramsKept
        BY <1>1, <2>3, SamePrograms DEF AssetsGrow
      <3> QED BY <1>1, <3>1, ReadKept
    <2>9. RevisionsRead'
      <3>1. ASSUME NEW i \in CommandId, NEW b \in Asset, Programs(i, b)
            PROVE  /\ row'[i].state # "failed"
                   /\ row'[i].state = "completed" =>
                          row'[i].revision < asset'[b].revision
        <4>1. row[i].revision \in Nat
          BY <3>1, AddressTyped DEF Programs
        <4> QED BY <1>1, <2>3, <3>1, <4>1 DEF AddressInvariant, RevisionsRead
      <3>2. \A q \in late' : q.op = "commit" =>
               \E i \in CommandId :
                  Programs(i, q.asset)' /\ row'[i].revision = q.revision
        BY <1>1 DEF AddressInvariant, RevisionsRead, Programs
      <3> QED BY <2>7, <2>8, <3>1, <3>2 DEF RevisionsRead
    <2>10. ASSUME NEW t \in Thread, VerifiedBy(t),
                  work[t].revision >= asset'[Cmd(t).asset].revision
           PROVE  dcc.decoder[Cmd(t).asset] = Cmd(t).value \/ Overwritten(t)
      <3>1. ThreadRead(t) /\ work[t].revision \in Nat /\ pc[t] # "idle"
            /\ Cmd(t).asset \in Asset
        BY <2>10, AddressTyped DEF AddressInvariant, RevisionsRead, VerifiedBy
      <3>2. Cmd(t).asset # a
        BY <2>2, <2>10, <3>1 DEF ThreadRead
      <3> QED BY <2>2, <2>10, <3>1, <3>2 DEF AddressInvariant, AddressesTrue
    <2>11. ASSUME NEW t \in Thread, pc[t] \in Past
           PROVE  \/ dcc.decoder[Cmd(t).asset] = asset'[Cmd(t).asset].address
                  \/ Overwritten(t)
      <3>1. Cmd(t).asset \in Asset
        BY <2>11, ThreadPrograms
      <3>2. CASE Cmd(t).asset = a
        <4>1. Cmd(t).id # k
          BY <2>5, <2>11 DEF Completing
        <4> QED BY <2>6, <3>2, <4>1 DEF Overwritten
      <3>3. CASE Cmd(t).asset # a
        BY <2>2, <2>11, <3>1, <3>3 DEF AddressInvariant, AddressesTrue
      <3> QED BY <3>2, <3>3
    <2>12. AddressesTrue'
      BY <1>1, <2>7, <2>10, <2>11 DEF AddressesTrue
    <2>13. ASSUME NEW b \in Asset, dcc.decoder[b] # asset'[b].address
           PROVE  Unresolved(b)
      <3>1. CASE b = a
        BY <2>1, <2>4, <3>1 DEF Unresolved, Programs
      <3>2. CASE b # a
        BY <2>2, <2>13, <3>2 DEF AddressInvariant, DecoderKnown
      <3> QED BY <3>1, <3>2
    <2> QED BY <1>1, <2>7, <2>9, <2>12, <2>13
            DEF AddressInvariant, DecoderKnown
  <1> QED BY <1>2, <1>3 DEF LateRequest

(* A program command is completed.                                          *)
LEMMA CompletedAddress ==
  ASSUME CoreInvariant, CoreInvariant', JournalInvariant, AddressInvariant,
         NEW t \in Thread, FinishProgrammed(t)
  PROVE  AddressInvariant'
  <1>1. /\ pc[t] = "done" /\ Answer(t) /\ FinishAs(t, "completed", TRUE)
        /\ UNCHANGED <<asset, late, dcc, acts>>
    BY DEF FinishProgrammed, At, Elsewhere
  <1>2. OthersStay(t) /\ Left(t)
    BY <1>1, AnswerLeaves
  <1>3. PICK a \in Asset : a = Cmd(t).asset
    BY <1>1, AddressTyped
  <1>4. PICK j \in CommandId :
            /\ j = Cmd(t).id /\ row[j] # None /\ row'[j] # None
            /\ row[j].command = Cmd(t) /\ row'[j].command = Cmd(t)
            /\ row'[j].state = "completed" /\ row'[j].revision = row[j].revision
            /\ \A k \in CommandId \ {j} : row'[k] = row[k]
    <2>1. pc[t] \in Entered /\ TRUE \in BOOLEAN
      BY <1>1 DEF Entered
    <2> QED BY <1>1, <2>1, FinishedEntry
  <1>5. /\ Programs(j, a) /\ row[j].revision < asset[a].revision
        /\ row[j].revision = work[t].revision
    <2>1. Programs(j, a) /\ Op(t) = "program" /\ pc[t] \in Entered
      BY <1>1, <1>3, <1>4, ThreadPrograms DEF Past
    <2>2. ThreadRead(t)
      BY DEF AddressInvariant, RevisionsRead
    <2> QED BY <1>1, <1>3, <1>4, <2>1, <2>2 DEF ThreadRead, Past
  <1>6. \A k \in CommandId : \A b \in Asset :
            /\ Programs(k, b)' = Programs(k, b)
            /\ row[k] # None => row'[k].revision = row[k].revision
    BY <1>4 DEF Programs
  <1>7. \A u \in Thread : ThreadRead(u)'
    <2>1. ASSUME NEW u \in Thread \ {t} PROVE ThreadRead(u)'
      <3>1. ThreadRead(u)
        BY <2>1 DEF AddressInvariant, RevisionsRead
      <3>2. pc[u] \in Entered => Cmd(u).id \in CommandId /\ row[Cmd(u).id] # None
        BY <2>1, AddressTyped DEF CoreInvariant, Cmd, Entered
      <3> QED BY <1>1, <1>2, <1>6, <2>1, <3>1, <3>2
              DEF ThreadRead, OthersStay, Cmd, Op
    <2>2. ThreadRead(t)'
      BY <1>2 DEF Left, ThreadRead, Entered, Past
    <2> QED BY <2>1, <2>2
  <1>8. RevisionsRead'
    <2>1. ASSUME NEW k \in CommandId, NEW b \in Asset, Programs(k, b)
          PROVE  /\ row'[k].state # "failed"
                 /\ row'[k].state = "completed" =>
                        row'[k].revision < asset'[b].revision
      <3>1. CASE k = j
        <4>1. b = a
          BY <1>5, <2>1, <3>1 DEF Programs
        <4> QED BY <1>1, <1>4, <1>5, <3>1, <4>1
      <3>2. CASE k # j
        BY <1>1, <1>4, <2>1, <3>2 DEF AddressInvariant, RevisionsRead
      <3> QED BY <3>1, <3>2
    <2>2. ASSUME NEW r \in late', r.op = "commit"
          PROVE  \E k \in CommandId :
                    Programs(k, r.asset)' /\ row'[k].revision = r.revision
      <3>1. r.asset \in Asset
        BY <1>1, <2>2, AddressTyped
      <3>2. PICK k \in CommandId :
                Programs(k, r.asset) /\ row[k].revision = r.revision
        BY <1>1, <2>2 DEF AddressInvariant, RevisionsRead
      <3> QED BY <1>6, <3>1, <3>2 DEF Programs
    <2> QED BY <1>6, <1>7, <2>1, <2>2 DEF RevisionsRead
  <1>9. ASSUME NEW k \in CommandId, NEW b \in Asset, Stuck(k, b)
        PROVE  Stuck(k, b)'
    <2>1. CASE acts[k] > 1
      BY <1>1, <1>6, <1>9, <2>1 DEF Stuck
    <2>2. ASSUME acts[k] <= 1 PROVE Stuck(k, b)'
      <3>1. /\ row[k].state \in {"accepted", "uncertain"} /\ ~Completing(k)
        BY <1>9, <2>2, AddressTyped DEF Stuck
      <3>2. k # j
        BY <1>1, <1>4, <3>1 DEF Completing, Past
      <3>3. ~Completing(k)'
        BY <1>2, <3>1 DEF Completing, OthersStay, Left, Past, Cmd
      <3> QED BY <1>4, <1>6, <1>9, <3>1, <3>2, <3>3 DEF Stuck
    <2> QED BY <2>1, <2>2, AddressTyped
  <1>10. ASSUME NEW u \in Thread, VerifiedBy(u)' \/ pc'[u] \in Past
         PROVE  /\ u # t /\ pc'[u] = pc[u] /\ work'[u] = work[u]
                /\ Cmd(u)' = Cmd(u) /\ Cmd(u).asset \in Asset
                /\ VerifiedBy(u)' = VerifiedBy(u)
                /\ Overwritten(u) => Overwritten(u)'
    <2>1. u # t
      BY <1>2, <1>10 DEF Left, VerifiedBy, Past
    <2>2. /\ pc'[u] = pc[u] /\ work'[u] = work[u] /\ Cmd(u)' = Cmd(u)
          /\ VerifiedBy(u)' = VerifiedBy(u)
      BY <1>2, <2>1 DEF OthersStay, Cmd, Op, VerifiedBy
    <2>3. Cmd(u).asset \in Asset
      BY <1>10, <2>2, ThreadPrograms
    <2> QED BY <1>1, <1>9, <2>1, <2>2, <2>3, OthersOverwritten
  <1>11. AddressesTrue'
    BY <1>1, <1>10 DEF AddressInvariant, AddressesTrue
  <1>12. ASSUME NEW b \in Asset, dcc.decoder[b] # asset[b].address
         PROVE  Unresolved(b)'
    <2>1. PICK k \in CommandId :
              /\ Programs(k, b)
              /\ row[k].state \in {"accepted", "uncertain"} \/ acts[k] > 1
      BY <1>12 DEF AddressInvariant, DecoderKnown, Unresolved, Programs
    <2>2. CASE acts[k] > 1 \/ k # j
      BY <1>1, <1>4, <1>6, <2>1, <2>2 DEF Unresolved, Programs
    <2>3. CASE k = j
      <3>1. b = a
        BY <1>5, <2>1, <2>3 DEF Programs
      <3>2. Overwritten(t)
        BY <1>1, <1>3, <1>12, <3>1 DEF AddressInvariant, AddressesTrue, Past
      <3>3. PICK i \in CommandId :
                Programs(i, a) /\ (acts[i] > 1 \/ (i # j /\ Stuck(i, a)))
        BY <1>3, <1>4, <1>5, <3>2 DEF Overwritten, Stuck
      <3> QED BY <1>1, <1>4, <1>6, <3>1, <3>3 DEF Unresolved, Programs, Stuck
    <2> QED BY <2>2, <2>3
  <1> QED BY <1>1, <1>8, <1>11, <1>12 DEF AddressInvariant, DecoderKnown

(* DCC writes an address: it is the one of the thread that hears of it, and *)
(* whoever else relies on the decoder has been overwritten.                 *)
LEMMA WrittenAddress ==
  ASSUME CoreInvariant, CoreInvariant', JournalInvariant, AddressInvariant,
         NEW call \in taken, DccActs(call), call.command.op = "program"
  PROVE  AddressInvariant'
  <1> DEFINE k == call.command.id
             a == call.command.asset
  <1>1. /\ k \in CommandId /\ a \in Asset /\ call.command \in Commands
        /\ call \in Calls /\ call.command.value \in Address
    BY CommandsTyped, CommandsAssumption DEF Calls, Command
  <1>2. UNCHANGED <<row, pc, work, late, asset>>
    BY DEF DccActs, CoreAside
  <1>3. /\ acts[k] \in Nat /\ acts'[k] = acts[k] + 1
        /\ \A i \in CommandId \ {k} : acts'[i] = acts[i]
    BY <1>1 DEF DccActs, CoreInvariant, TypeOK
  <1>4. /\ dcc'.decoder[a] = call.command.value
        /\ \A b \in Asset \ {a} : dcc'.decoder[b] = dcc.decoder[b]
    BY <1>1 DEF DccActs, DecodersAfter, CoreInvariant, TypeOK
  <1>5. /\ row[k] # None /\ row[k].command = call.command /\ Programs(k, a)
    BY <1>1 DEF JournalInvariant, Journalled, CallJournalled, Programs
  <1> HIDE DEF k, a
  <1>6. \A i \in CommandId : acts[i] > 1 => acts'[i] > 1
    BY <1>3, AddressTyped
  <1>7. /\ \A i \in CommandId : \A b \in Asset :
              /\ Programs(i, b)' = Programs(i, b)
              /\ Stuck(i, b) => Stuck(i, b)'
              /\ Unresolved(b) => Unresolved(b)'
        /\ \A t \in Thread : Cmd(t)' = Cmd(t) /\ Op(t)' = Op(t)
    BY <1>2, <1>6 DEF Programs, Stuck, Completing, Unresolved, Cmd, Op
  <1>8. row[k].state \in {"accepted", "uncertain"} \/ acts'[k] > 1
    <2>1. row[k].state \in {"accepted", "completed", "failed", "uncertain"}
      BY <1>1, <1>5 DEF CoreInvariant, TypeOK, Row
    <2>2. row[k].state # "failed"
      BY <1>1, <1>5 DEF AddressInvariant, RevisionsRead
    <2>3. row[k].state = "completed" => acts[k] > 0
      BY <1>1, <1>5 DEF JournalInvariant, JournalTruthful, Programs
    <2> QED BY <1>3, <2>1, <2>2, <2>3
  <1>9. Stuck(k, a)'
    <2>1. ASSUME Completing(k) PROVE acts'[k] > 1
      <3>1. acts[k] > 0
        BY <2>1, ThreadPrograms DEF Completing
      <3> QED BY <1>3, <3>1
    <2>2. Completing(k)' = Completing(k)
      BY <1>2 DEF Completing, Cmd
    <2> QED BY <1>1, <1>2, <1>5, <1>7, <1>8, <2>1, <2>2 DEF Stuck
  <1>10. ASSUME NEW t \in Thread, VerifiedBy(t) \/ pc[t] \in Past,
                Cmd(t).asset = a
         PROVE  Overwritten(t)'
    <2>1. CASE Cmd(t).id = k
      <3>1. acts[k] > 0
        BY <1>10, <2>1, ThreadPrograms
      <3>2. acts'[k] > 1
        BY <1>3, <3>1
      <3> QED BY <1>7, <2>1, <3>2 DEF Overwritten
    <2>2. CASE Cmd(t).id # k
      BY <1>1, <1>7, <1>9, <1>10, <2>2 DEF Overwritten
    <2> QED BY <2>1, <2>2
  <1>11. ASSUME NEW t \in Thread, VerifiedBy(t) \/ pc[t] \in Past,
                Overwritten(t)
         PROVE  Overwritten(t)'
    <2>1. Cmd(t).id \in CommandId /\ Cmd(t).asset \in Asset
      BY <1>11, ThreadPrograms
    <2> QED BY <1>6, <1>7, <1>11, <2>1 DEF Overwritten
  <1>12. ASSUME NEW t \in Thread, VerifiedBy(t)', ~VerifiedBy(t)
         PROVE  Cmd(t) = call.command
    <2>1. /\ pc[t] = "waiting" /\ reply'[t] = "ok" /\ reply[t] # "ok"
      BY <1>2, <1>7, <1>12 DEF VerifiedBy
    <2>2. work[t].attempt = call.attempt
      BY <2>1 DEF DccActs, Tell, CoreInvariant, TypeOK
    <2> QED BY <1>1, <2>1, <2>2 DEF JournalInvariant, AttemptsUnique
  <1>13. ASSUME NEW t \in Thread, VerifiedBy(t)',
                work'[t].revision >= asset'[Cmd(t)'.asset].revision
         PROVE  dcc'.decoder[Cmd(t)'.asset] = Cmd(t)'.value \/ Overwritten(t)'
    <2>1. CASE ~VerifiedBy(t)
      BY <1>4, <1>7, <1>12, <1>13, <2>1 DEF a
    <2>2. CASE VerifiedBy(t) /\ Cmd(t).asset = a
      BY <1>10, <2>2
    <2>3. CASE VerifiedBy(t) /\ Cmd(t).asset # a
      <3>1. Cmd(t).asset \in Asset
        BY <2>3, ThreadPrograms
      <3>2. dcc.decoder[Cmd(t).asset] = Cmd(t).value \/ Overwritten(t)
        BY <1>2, <1>7, <1>13, <2>3 DEF AddressInvariant, AddressesTrue
      <3> QED BY <1>4, <1>7, <1>11, <2>3, <3>1, <3>2
    <2> QED BY <2>1, <2>2, <2>3
  <1>14. ASSUME NEW t \in Thread, pc'[t] \in Past
         PROVE  \/ dcc'.decoder[Cmd(t)'.asset] = asset'[Cmd(t)'.asset].address
                \/ Overwritten(t)'
    <2>1. pc[t] \in Past
      BY <1>2, <1>14
    <2>2. CASE Cmd(t).asset = a
      BY <1>10, <2>1, <2>2
    <2>3. CASE Cmd(t).asset # a
      <3>1. Cmd(t).asset \in Asset
        BY <2>1, ThreadPrograms
      <3> QED BY <1>2, <1>4, <1>7, <1>11, <2>1, <2>3, <3>1
              DEF AddressInvariant, AddressesTrue
    <2> QED BY <2>2, <2>3
  <1>15. RevisionsRead'
    <2>1. AssetsGrow /\ ProgramsKept
      BY <1>2, AddressTyped, SamePrograms DEF AssetsGrow
    <2>2. \A t \in Thread : ThreadRead(t)'
      BY <1>2, <2>1, ReadKept
    <2> QED BY <1>2, <2>2 DEF AddressInvariant, RevisionsRead, Programs
  <1>16. ASSUME NEW b \in Asset, dcc'.decoder[b] # asset'[b].address
         PROVE  Unresolved(b)'
    <2>1. CASE b = a
      BY <1>1, <1>2, <1>5, <1>8, <2>1 DEF Unresolved, Programs
    <2>2. CASE b # a
      BY <1>2, <1>4, <1>7, <1>1, <1>16, <2>2 DEF AddressInvariant, DecoderKnown
    <2> QED BY <2>1, <2>2
  <1> QED BY <1>13, <1>14, <1>15, <1>16
          DEF AddressInvariant, AddressesTrue, DecoderKnown

LEMMA AdapterAddress ==
  ASSUME CoreInvariant, CoreInvariant', JournalInvariant, AddressInvariant,
         AdapterStep
  PROVE  AddressInvariant'
  <1>1. ASSUME NEW call \in wire \cup taken,
               DccAdmits(call) \/ DccRefuses(call) \/ McRefuses(call)
        PROVE  AddressInvariant'
    <2>1. /\ UNCHANGED <<row, pc, work, late, asset>> /\ Declines(call)
          /\ dcc'.decoder = dcc.decoder
      BY <1>1 DEF DccAdmits, DccRefuses, McRefuses, CoreAside, Declines,
                  CoreInvariant, TypeOK
    <2> QED BY <1>1, <2>1, AdapterKeeps DEF Calls
  <1>2. ASSUME NEW call \in wire \cup taken, McAccepts(call)
        PROVE  AddressInvariant'
    <2>1. /\ UNCHANGED <<row, pc, work, late, asset, dcc>> /\ Executes(call)
          /\ call.command.op = "stationary"
      BY <1>2 DEF McAccepts, ForMc, CoreAside, Executes
    <2> QED BY <1>2, <2>1, AdapterKeeps DEF Calls
  <1>3. ASSUME NEW call \in wire \cup taken, DccActs(call)
        PROVE  AddressInvariant'
    <2>1. call \in taken
      BY <1>3 DEF DccActs
    <2>2. CASE call.command.op = "program"
      BY <1>3, <2>1, <2>2, WrittenAddress
    <2>3. CASE call.command.op # "program"
      <3>1. /\ UNCHANGED <<row, pc, work, late, asset>> /\ Executes(call)
            /\ dcc'.decoder = dcc.decoder
        BY <1>3, <2>3 DEF DccActs, DecodersAfter, CoreAside, Executes,
                          CoreInvariant, TypeOK
      <3> QED BY <1>3, <2>3, <3>1, AdapterKeeps DEF Calls
    <2> QED BY <2>2, <2>3
  <1> QED BY <1>1, <1>2, <1>3, AsideAddress DEF AdapterStep

LEMMA CommandAddress ==
  ASSUME CoreInvariant, CoreInvariant', JournalInvariant, AddressInvariant,
         NEW t \in Thread, CommandStep(t)
  PROVE  AddressInvariant'
  BY EarlyAddress, BeginAddress, SentAddress, OutcomeAddress, CommitsAddress,
     CompletedAddress
  DEF CommandStep

LEMMA AddressStep ==
  ASSUME CoreInvariant, CoreInvariant', JournalInvariant, AddressInvariant,
         [Next]_vars
  PROVE  AddressInvariant'
  <1>1. CASE UNCHANGED vars
    BY <1>1, AsideAddress
  <1>2. CASE Next
    BY <1>2, AsideAddress, ReconcileAddress, OwnerAddress, CrashAddress,
       ArriveAddress, LateAddress, AdapterAddress, CommandAddress
    DEF Next, ProcessStep
  <1> QED BY <1>1, <1>2

LEMMA InitAddress == Init => AddressInvariant
  <1> SUFFICES ASSUME Init PROVE AddressInvariant
    OBVIOUS
  <1>1. /\ \A t \in Thread : pc[t] = "idle"
        /\ \A k \in CommandId : row[k] = None
        /\ late = {}
        /\ \A a \in Asset : dcc.decoder[a] = asset[a].address
    BY DEF Init
  <1>2. RevisionsRead
    BY <1>1 DEF RevisionsRead, ThreadRead, Entered, Past, Programs
  <1>3. AddressesTrue
    BY <1>1 DEF AddressesTrue, VerifiedBy, Past
  <1> QED BY <1>1, <1>2, <1>3 DEF AddressInvariant, DecoderKnown

(* Whatever calls and commits are late, repeated or lost, and however often *)
(* Core crashes, decoder and record agree unless the journal holds a        *)
(* programming command that is unresolved or was executed twice             *)
(* (DecoderKnown).                                                         *)
THEOREM DecoderIsKnown == Spec => []DecoderKnown
  <1>1. CoreInvariant /\ CoreInvariant' /\ JournalInvariant
            /\ AddressInvariant /\ [Next]_vars
        => AddressInvariant'
    BY AddressStep
  <1>2. AddressInvariant => DecoderKnown
    BY DEF AddressInvariant
  <1> QED BY <1>1, <1>2, InitAddress, JournalCorrect, CoreCorrect, PTL DEF Spec

-----------------------------------------------------------------------------
(* That a call to move reaches the locomotive it was meant for.             *)

(* The calls to move an asset, with the token and the address they carry:   *)
(* of threads that have a lease and of calls in flight that DCC would take, *)
(* as long as DCC remembers its fences.                                     *)
Driving == {"reserve", "hold", "begin", "call"}
Place == Address \cup {None}
Moving(a, n, d) ==
    /\ ~dcc.forgot
    /\ \/ \E t \in Thread :
             /\ pc[t] \in Driving /\ Op(t) = "throttle" /\ Cmd(t).asset = a
             /\ work[t].token = n /\ work[t].address = d
       \/ \E call \in wire :
             /\ call.session = dcc.session
             /\ call.command.op = "throttle" /\ call.command.asset = a
             /\ call.token = n /\ call.address = d
Behind(a, n) == \A m \in Nat : \A d \in Place : Moving(a, m, d) => m < n

(* What has another address than the asset's is fenced off.                 *)
MovesFenced ==
    \A a \in Asset : \A n \in Nat : \A d \in Place :
        (Moving(a, n, d) /\ d # asset[a].address) => n < dcc.fence[a]

(* In maintenance nobody is allowed to move, so that whatever moves has an  *)
(* older token than the lease, and than a programming that read the asset   *)
(* as it still is; so does, once DCC has seen that token, its fence.        *)
LeaseAhead ==
    \A a \in Asset : (asset[a].mode = "maintenance" /\ lease[a] # None)
                         => Behind(a, lease[a].token)
Granted == {"lookup", "reserve", "hold", "begin", "call", "waiting", "commit"}
Current(t) ==
    pc[t] # "idle" /\ work[t].revision = asset[Cmd(t).asset].revision
ReadTrue(t) ==
    (Current(t) /\ Op(t) \in {"throttle", "program"}) =>
        /\ asset[Cmd(t).asset].mode = RequiredMode(Op(t))
        /\ work[t].address = asset[Cmd(t).asset].address
ProgramAhead(t) ==
    (Current(t) /\ Op(t) = "program" /\ pc[t] \in Granted)
        => Behind(Cmd(t).asset, work[t].token)
ProgramPassed(t) ==
    (VerifiedBy(t) /\ ~dcc.forgot)
        => work[t].token <= dcc.fence[Cmd(t).asset]
ThreadAhead(t) == ReadTrue(t) /\ ProgramAhead(t) /\ ProgramPassed(t)
CommitAhead(r) ==
    /\ r.revision <= asset[r.asset].revision
    /\ r.revision = asset[r.asset].revision =>
          /\ asset[r.asset].mode = "maintenance"
          /\ Behind(r.asset, dcc.fence[r.asset])

(* A thread's call carries the thread's token, and what DCC has taken its   *)
(* fence has seen.                                                         *)
CallsOwn(t) ==
    \A call \in Calls : (pc[t] # "idle" /\ work[t].attempt = call.attempt) =>
        pc[t] \in Sent /\ work[t].token = call.token
CallsPassed ==
    \A call \in taken :
        Fenced(call) => call.token <= dcc.fence[call.command.asset]

FenceInvariant ==
    /\ MovesFenced /\ LeaseAhead /\ CallsPassed
    /\ \A t \in Thread : ThreadAhead(t) /\ CallsOwn(t)
    /\ \A r \in late : r.op = "commit" => CommitAhead(r)

(* Where Core and DCC are with their session: what needs a started Core     *)
(* runs in one, a call carries the session of its Core, and DCC has the     *)
(* session of a started Core unless it was restarted since.                 *)
SessionInvariant ==
    /\ \A t \in Thread :
          (pc[t] # "idle" /\ Op(t) \notin {"cv", "emergency"}) => phase = "up"
    /\ \A call \in wire :
          /\ call.session <= epoch
          /\ (call.command.op = "throttle" /\ call.session = epoch)
                 => phase \in {"up", "down"}
    /\ (phase \in {"dcc", "up"} /\ ~dcc.forgot) => dcc.session = epoch

(* What steps keep.  Only an asset in service gets new calls to move, and   *)
(* they are for the address it has.                                         *)
MovesKept ==
    \A a \in Asset : \A n \in Nat : \A d \in Place : Moving(a, n, d)' =>
        \/ Moving(a, n, d)
        \/ asset[a].mode = "active" /\ d = asset[a].address
RecordsGrow ==
    \A a \in Asset :
        asset'[a] = asset[a] \/ asset'[a].revision > asset[a].revision
FencesAdvance ==
    ~dcc'.forgot =>
        /\ ~dcc.forgot /\ dcc'.session = dcc.session
        /\ \A a \in Asset : dcc'.fence[a] >= dcc.fence[a]
Proceeds(t) ==
    /\ pc[t] # "idle" /\ work'[t] = work[t]
    /\ (Op(t) = "program" /\ pc'[t] \in Granted) => pc[t] \in Granted
    /\ VerifiedBy(t)' => VerifiedBy(t)

LEMMA FenceTyped ==
  ASSUME CoreInvariant
  PROVE  /\ \A t \in Thread : pc[t] # "idle" =>
               /\ work[t] \in Work /\ Cmd(t).asset \in Asset
               /\ work[t].token \in Nat /\ work[t].revision \in Nat
               /\ work[t].address \in Place
         /\ \A call \in Calls : /\ call.command.asset \in Asset
                                /\ call.token \in Nat /\ call.address \in Place
         /\ \A a \in Asset : /\ dcc.fence[a] \in Nat /\ fence[a] \in Nat
                             /\ asset[a].revision \in Nat
                             /\ asset[a].mode \in Mode
                             /\ lease[a] # None => lease[a].token \in Nat
         /\ \A r \in late : r.asset \in Asset /\ r.revision \in Nat
  <1>1. \A t \in Thread : pc[t] # "idle" =>
               /\ work[t] \in Work /\ Cmd(t).asset \in Asset
               /\ work[t].token \in Nat /\ work[t].revision \in Nat
               /\ work[t].address \in Place
    BY Working DEF Work, Place
  <1>2. ASSUME NEW call \in Calls
        PROVE  /\ call.command.asset \in Asset
               /\ call.token \in Nat /\ call.address \in Place
    <2>1. call \in Call /\ call.command \in Command
      BY CommandsTyped, CommandsAssumption
    <2> QED BY <2>1 DEF Call, Command, Place
  <1>3. \A a \in Asset : /\ dcc.fence[a] \in Nat /\ fence[a] \in Nat
                         /\ asset[a].revision \in Nat /\ asset[a].mode \in Mode
                         /\ lease[a] # None => lease[a].token \in Nat
    BY DEF CoreInvariant, TypeOK, RegistryTypeOK, AssetRecord, Lease
  <1>4. \A r \in late : r.asset \in Asset /\ r.revision \in Nat
    BY AddressTyped
  <1> QED BY <1>1, <1>2, <1>3, <1>4

LEMMA NextFenceTyped ==
  ASSUME CoreInvariant'
  PROVE  \A a \in Asset : /\ dcc'.fence[a] \in Nat /\ asset'[a].revision \in Nat
                          /\ lease'[a] # None => lease'[a].token \in Nat
  BY DEF CoreInvariant, TypeOK, RegistryTypeOK, AssetRecord, Lease

(* Nobody gets ahead of what he was behind of, while the asset is in        *)
(* maintenance.                                                            *)
LEMMA BehindKept ==
  ASSUME NEW a \in Asset, asset[a].mode = "maintenance", MovesKept,
         NEW m \in Nat, NEW n \in Nat, m <= n, Behind(a, m)
  PROVE  Behind(a, n)'
  <1>1. ASSUME NEW k \in Nat, NEW d \in Place, Moving(a, k, d)'
        PROVE  k < n
    <2>1. Moving(a, k, d)
      BY <1>1 DEF MovesKept
    <2> QED BY <2>1 DEF Behind
  <1> QED BY <1>1 DEF Behind

LEMMA ThreadKept ==
  ASSUME CoreInvariant, CoreInvariant', AddressInvariant, FenceInvariant,
         RecordsGrow, FencesAdvance, MovesKept, NEW t \in Thread,
         pc'[t] = "idle" \/ Proceeds(t)
  PROVE  ThreadAhead(t)'
  <1>1. CASE pc'[t] = "idle"
    BY <1>1 DEF ThreadAhead, ReadTrue, ProgramAhead, ProgramPassed, Current,
                VerifiedBy
  <1>2. CASE pc'[t] # "idle" /\ Proceeds(t)
    <2>1. PICK a \in Asset : a = Cmd(t).asset
      BY <1>2, FenceTyped DEF Proceeds
    <2>2. Cmd(t)' = Cmd(t) /\ Op(t)' = Op(t) /\ work'[t] = work[t] /\ pc[t] # "idle"
      BY <1>2 DEF Proceeds, Cmd, Op
    <2>3. ThreadAhead(t) /\ ThreadRead(t)
      BY DEF FenceInvariant, AddressInvariant, RevisionsRead
    <2>4. Current(t)' => Current(t) /\ asset'[a] = asset[a]
      <3>1. /\ work[t].revision \in Nat /\ work[t].revision <= asset[a].revision
            /\ asset[a].revision \in Nat /\ asset'[a].revision \in Nat
        BY <2>1, <2>2, <2>3, FenceTyped, NextFenceTyped DEF ThreadRead
      <3> QED BY <2>1, <2>2, <3>1 DEF Current, RecordsGrow
    <2>5. ReadTrue(t)'
      BY <2>1, <2>2, <2>3, <2>4 DEF ThreadAhead, ReadTrue
    <2>6. ProgramAhead(t)'
      <3> SUFFICES ASSUME Current(t)', Op(t) = "program", pc'[t] \in Granted
                   PROVE  Behind(a, work[t].token)'
        BY <2>1, <2>2 DEF ProgramAhead
      <3>1. Behind(a, work[t].token) /\ asset[a].mode = "maintenance"
        BY <1>2, <2>1, <2>3, <2>4
        DEF Proceeds, ThreadAhead, ProgramAhead, ReadTrue, RequiredMode
      <3>2. PICK n \in Nat : n = work[t].token
        BY <2>2, FenceTyped
      <3>3. Behind(a, n)'
        BY <3>1, <3>2, BehindKept
      <3> QED BY <2>2, <3>2, <3>3 DEF Behind
    <2>7. ProgramPassed(t)'
      <3>1. /\ work[t].token \in Nat /\ dcc.fence[a] \in Nat
            /\ dcc'.fence[a] \in Nat
            /\ ~dcc'.forgot => ~dcc.forgot /\ dcc'.fence[a] >= dcc.fence[a]
        BY <2>1, <2>2, FenceTyped, NextFenceTyped DEF FencesAdvance
      <3> QED BY <1>2, <2>1, <2>2, <2>3, <3>1
              DEF Proceeds, ThreadAhead, ProgramPassed
    <2> QED BY <2>5, <2>6, <2>7 DEF ThreadAhead
  <1> QED BY <1>1, <1>2

(* The conjuncts about calls, assets and late commits. *)
LEMMA CallsOwned ==
  ASSUME FenceInvariant, Calls' \subseteq Calls,
         \A t \in Thread : pc'[t] # "idle" =>
            /\ pc[t] # "idle" /\ work'[t].attempt = work[t].attempt
            /\ pc[t] \in Sent => pc'[t] \in Sent /\ work'[t].token = work[t].token
  PROVE  \A t \in Thread : CallsOwn(t)'
  <1>1. ASSUME NEW t \in Thread, NEW call \in Calls', pc'[t] # "idle",
               work'[t].attempt = call.attempt
        PROVE  pc'[t] \in Sent /\ work'[t].token = call.token
    <2>1. CallsOwn(t)
      BY DEF FenceInvariant
    <2> QED BY <1>1, <2>1 DEF CallsOwn
  <1> QED BY <1>1 DEF CallsOwn

LEMMA FencedKept ==
  ASSUME CoreInvariant, CoreInvariant', FenceInvariant, MovesKept, FencesAdvance,
         NEW a \in Asset, asset'[a].address = asset[a].address
  PROVE  \A n \in Nat : \A d \in Place :
            (Moving(a, n, d)' /\ d # asset'[a].address) => n < dcc'.fence[a]
  <1>1. ASSUME NEW n \in Nat, NEW d \in Place, Moving(a, n, d)',
               d # asset'[a].address
        PROVE  n < dcc'.fence[a]
    <2>1. Moving(a, n, d)
      BY <1>1 DEF MovesKept
    <2>2. n < dcc.fence[a]
      BY <1>1, <2>1 DEF FenceInvariant, MovesFenced
    <2>3. /\ dcc.fence[a] \in Nat /\ dcc'.fence[a] \in Nat
          /\ dcc'.fence[a] >= dcc.fence[a]
      BY <1>1, FenceTyped, NextFenceTyped DEF FencesAdvance, Moving
    <2> QED BY <2>2, <2>3
  <1> QED BY <1>1

LEMMA LeaseKept ==
  ASSUME CoreInvariant, FenceInvariant, MovesKept, NEW a \in Asset,
         \/ lease'[a] = lease[a] /\ asset'[a].mode = asset[a].mode
         \/ lease'[a] = None
  PROVE  (asset'[a].mode = "maintenance" /\ lease'[a] # None)
            => Behind(a, lease[a].token)' 
  <1> SUFFICES ASSUME asset'[a].mode = "maintenance", lease'[a] # None
               PROVE  Behind(a, lease[a].token)'
    OBVIOUS
  <1>1. /\ lease'[a] = lease[a] /\ asset[a].mode = "maintenance"
        /\ Behind(a, lease[a].token)
    BY DEF FenceInvariant, LeaseAhead
  <1>2. PICK n \in Nat : n = lease[a].token
    BY <1>1, FenceTyped
  <1>3. Behind(a, n)'
    BY <1>1, <1>2, BehindKept
  <1> QED BY <1>1, <1>2, <1>3 DEF Behind

LEMMA CommitKept ==
  ASSUME CoreInvariant, CoreInvariant', RecordsGrow, MovesKept, FencesAdvance,
         NEW r, r.asset \in Asset, r.revision \in Nat, CommitAhead(r)
  PROVE  CommitAhead(r)'
  <1> DEFINE a == r.asset
  <1>1. /\ asset[a].revision \in Nat /\ asset'[a].revision \in Nat
        /\ dcc.fence[a] \in Nat /\ dcc'.fence[a] \in Nat
        /\ ~dcc'.forgot => dcc.fence[a] <= dcc'.fence[a]
    BY FenceTyped, NextFenceTyped DEF FencesAdvance
  <1>2. /\ r.revision <= asset[a].revision
        /\ asset'[a] = asset[a] \/ asset'[a].revision > asset[a].revision
    BY DEF CommitAhead, RecordsGrow
  <1>3. r.revision <= asset'[a].revision
    BY <1>1, <1>2
  <1>4. ASSUME r.revision = asset'[a].revision
        PROVE  asset'[a].mode = "maintenance" /\ Behind(a, dcc.fence[a])'
    <2>1. asset'[a] = asset[a]
      BY <1>1, <1>2, <1>4
    <2>2. asset[a].mode = "maintenance" /\ Behind(a, dcc.fence[a])
      BY <1>4, <2>1 DEF CommitAhead
    <2>3. PICK m \in Nat, n \in Nat : m = dcc.fence[a] /\ n = dcc'.fence[a]
      BY <1>1
    <2>4. CASE dcc'.forgot
      BY <2>1, <2>2, <2>4 DEF Behind, Moving
    <2>5. CASE ~dcc'.forgot
      <3>1. Behind(a, n)'
        BY <1>1, <2>2, <2>3, <2>5, BehindKept
      <3> QED BY <2>1, <2>2, <2>3, <3>1 DEF Behind
    <2> QED BY <2>4, <2>5
  <1> QED BY <1>3, <1>4 DEF CommitAhead

(* A step that neither edits the registry nor brings DCC calls.             *)
LEMMA FencesKept ==
  ASSUME CoreInvariant, CoreInvariant', AddressInvariant, FenceInvariant,
         UNCHANGED <<asset, lease>>, FencesAdvance, MovesKept, CallsPassed',
         \A t \in Thread : ThreadAhead(t)' /\ CallsOwn(t)',
         \A r \in late' \ late : r.op = "commit" => CommitAhead(r)
  PROVE  FenceInvariant'
  <1>1. MovesFenced'
    BY FencedKept DEF MovesFenced
  <1>2. LeaseAhead'
    BY LeaseKept DEF LeaseAhead
  <1>3. ASSUME NEW r \in late', r.op = "commit"
        PROVE  CommitAhead(r)'
    <2>1. r.asset \in Asset /\ r.revision \in Nat
      BY DEF CoreInvariant, TypeOK, Request
    <2>2. CommitAhead(r)
      BY <1>3 DEF FenceInvariant
    <2>3. RecordsGrow
      BY DEF RecordsGrow
    <2> QED BY <2>1, <2>2, <2>3, CommitKept
  <1> QED BY <1>1, <1>2, <1>3 DEF FenceInvariant

(* Threads that go on with the token they have. *)
LEMMA MovesFrom ==
  ASSUME wire' \subseteq wire, FencesAdvance,
         \A t \in Thread : (pc'[t] \in Driving /\ Op(t)' = "throttle") =>
            pc[t] \in Driving /\ work'[t] = work[t]
  PROVE  MovesKept
  <1>1. ASSUME NEW a \in Asset, NEW n \in Nat, NEW d \in Place, Moving(a, n, d)'
        PROVE  Moving(a, n, d)
    <2>1. CASE \E call \in wire' :
                  /\ call.session = dcc'.session
                  /\ call.command.op = "throttle" /\ call.command.asset = a
                  /\ call.token = n /\ call.address = d
      BY <1>1, <2>1 DEF Moving, FencesAdvance
    <2>2. ASSUME NEW t \in Thread, pc'[t] \in Driving, Op(t)' = "throttle",
                 Cmd(t)'.asset = a, work'[t].token = n, work'[t].address = d
          PROVE  Moving(a, n, d)
      <3>1. pc[t] \in Driving /\ work'[t] = work[t]
        BY <2>2
      <3>2. /\ Op(t) = "throttle" /\ Cmd(t).asset = a
            /\ work[t].token = n /\ work[t].address = d
        BY <2>2, <3>1 DEF Op, Cmd
      <3> QED BY <1>1, <3>1, <3>2 DEF Moving, FencesAdvance
    <2> QED BY <1>1, <2>1, <2>2 DEF Moving
  <1> QED BY <1>1 DEF MovesKept

Moves(t) ==
    /\ Moved(t)
    /\ (pc'[t] \in Driving /\ Op(t) = "throttle") =>
           pc[t] \in Driving /\ work'[t] = work[t]
    /\ pc[t] \in Sent => pc'[t] \in Sent /\ work'[t].token = work[t].token
    /\ Proceeds(t) \/ ThreadAhead(t)'

LEMMA StepMoves ==
  ASSUME NEW t \in Thread, OthersStay(t), Left(t) \/ Moves(t),
         wire' \subseteq wire, FencesAdvance
  PROVE  MovesKept
  <1>1. ASSUME NEW u \in Thread, pc'[u] \in Driving, Op(u)' = "throttle"
        PROVE  pc[u] \in Driving /\ work'[u] = work[u]
    <2>1. CASE u # t
      BY <1>1, <2>1 DEF OthersStay
    <2>2. CASE u = t
      <3>1. pc'[t] # "idle"
        BY <1>1, <2>2 DEF Driving
      <3>2. Moves(t)
        BY <3>1 DEF Left
      <3>3. Op(t)' = Op(t)
        BY <3>2 DEF Moves, Moved, Op, Cmd
      <3> QED BY <1>1, <2>2, <3>2, <3>3 DEF Moves
    <2> QED BY <2>1, <2>2
  <1> QED BY <1>1, MovesFrom

(* A step of one thread. *)
LEMMA StepThreads ==
  ASSUME CoreInvariant, CoreInvariant', AddressInvariant, FenceInvariant,
         NEW t \in Thread, OthersStay(t), Left(t) \/ Moves(t),
         RecordsGrow, FencesAdvance, UNCHANGED <<wire, taken>>
  PROVE  /\ MovesKept
         /\ \A u \in Thread : ThreadAhead(u)' /\ CallsOwn(u)'
  <1>1. MovesKept
    BY StepMoves
  <1>2. ASSUME NEW u \in Thread PROVE ThreadAhead(u)'
    <2>1. CASE u # t
      BY <1>1, <2>1, ThreadKept DEF OthersStay, Proceeds, VerifiedBy, Op, Cmd
    <2>2. CASE u = t
      BY <1>1, <2>2, ThreadKept DEF Left, Moves
    <2> QED BY <2>1, <2>2
  <1>3. \A u \in Thread : CallsOwn(u)'
    <2>1. Calls' \subseteq Calls
      BY DEF Calls
    <2>2. ASSUME NEW u \in Thread, pc'[u] # "idle"
          PROVE  /\ pc[u] # "idle" /\ work'[u].attempt = work[u].attempt
                 /\ pc[u] \in Sent => /\ pc'[u] \in Sent
                                     /\ work'[u].token = work[u].token
      BY <2>2 DEF OthersStay, Left, Moves, Moved
    <2> QED BY <2>1, <2>2, CallsOwned
  <1> QED BY <1>1, <1>2, <1>3

LEMMA StepFences ==
  ASSUME CoreInvariant, CoreInvariant', AddressInvariant, FenceInvariant,
         NEW t \in Thread, OthersStay(t), Left(t) \/ Moves(t),
         UNCHANGED <<asset, lease, wire, taken, dcc>>,
         \A r \in late' \ late : r.op = "commit" => CommitAhead(r)
  PROVE  FenceInvariant'
  <1>1. RecordsGrow /\ FencesAdvance
    BY FenceTyped DEF RecordsGrow, FencesAdvance
  <1>2. CallsPassed'
    BY DEF FenceInvariant, CallsPassed, Fenced
  <1> QED BY <1>1, <1>2, StepThreads, FencesKept

(* A thread that keeps its work, and the stages it may go to. *)
LEMMA MovesOn ==
  ASSUME CoreInvariant, NEW t \in Thread, pc[t] # "idle",
         NEW stage \in Stage \ {"idle"}, GoTo(t, stage),
         UNCHANGED <<work, reply>>,
         (Op(t) = "program" /\ stage \in Granted) => pc[t] \in Granted,
         (Op(t) = "throttle" /\ stage \in Driving) => pc[t] \in Driving,
         pc[t] \in Sent => stage \in Sent,
         stage = "commit" => VerifiedBy(t),
         stage # "waiting"
  PROVE  OthersStay(t) /\ Moves(t)
  <1>1. OthersStay(t) /\ Moved(t) /\ pc'[t] = stage
    BY GoToMoves
  <1>2. Proceeds(t)
    <2>1. VerifiedBy(t)' => VerifiedBy(t)
      BY <1>1 DEF VerifiedBy
    <2> QED BY <1>1, <2>1 DEF Proceeds
  <1> QED BY <1>1, <1>2 DEF Moves

LEMMA EarlyFences ==
  ASSUME CoreInvariant, CoreInvariant', JournalInvariant, AddressInvariant,
         FenceInvariant, NEW t \in Thread,
         Lookup(t) \/ CheckReservation(t) \/ HoldReservation(t) \/ Refuse(t)
         \/ LeaseUnanswered(t) \/ Begin(t)
  PROVE  FenceInvariant'
  <1>1. /\ pc[t] \in {"lookup", "read", "choose", "lease", "reserve", "hold",
                      "begin"}
        /\ UNCHANGED <<asset, lease, wire, taken, dcc>>
    <2>1. CASE Begin(t)
      BY <2>1 DEF Begin, At, Elsewhere
    <2>2. CASE ~Begin(t)
      BY <2>2 DEF Lookup, CheckReservation, HoldReservation, Refuse,
                  LeaseUnanswered, At, Elsewhere
    <2> QED BY <2>1, <2>2
  <1>2. pc[t] # "idle"
    BY <1>1
  <1>3. \A r \in late' \ late : r.op # "commit"
    BY DEF Lookup, CheckReservation, HoldReservation, Refuse, LeaseUnanswered,
           Begin, LeaveLate, Elsewhere
  <1>4. CASE Answer(t)
    BY <1>1, <1>3, <1>4, AnswerLeaves, StepFences
  <1>5. ASSUME ~Answer(t) PROVE OthersStay(t) /\ Moves(t)
    <2>1. UNCHANGED <<work, reply>>
      BY <1>5 DEF Lookup, CheckReservation, HoldReservation, Refuse,
                  LeaseUnanswered, Begin, Elsewhere
    <2>2. CASE Lookup(t)
      <3>1. Advance(t) /\ pc[t] = "lookup" /\ Op(t) \in Operation
        BY <1>2, <1>5, <2>2, Working DEF Lookup, At
      <3>2. OnPath(Op(t), "lookup")
        BY <3>1 DEF CoreInvariant, Op
      <3>3. PICK stage \in Stage \ ({"idle"} \cup Entered) :
                stage = Following[Op(t)]["lookup"]
        BY <3>1, <3>2, FollowingStage
      <3>4. Op(t) = "throttle" => stage = "read"
        BY <3>3 DEF Following
      <3> QED BY <1>2, <2>1, <3>1, <3>3, <3>4, MovesOn
              DEF Advance, Granted, Driving, Sent, Entered
    <2>3. CASE CheckReservation(t) \/ HoldReservation(t) \/ Begin(t)
      <3>1. PICK stage \in {"hold", "begin", "call"} : GoTo(t, stage)
        BY <1>5, <2>3 DEF CheckReservation, HoldReservation, Begin
      <3>2. pc[t] \in {"reserve", "hold", "begin"}
        BY <2>3 DEF CheckReservation, HoldReservation, Begin, At
      <3> QED BY <2>1, <3>1, <3>2, MovesOn DEF Granted, Driving, Sent, Stage
    <2> QED BY <1>5, <2>2, <2>3 DEF Refuse, LeaseUnanswered
  <1> QED BY <1>1, <1>3, <1>4, <1>5, StepFences

LEMMA ReadFences ==
  ASSUME CoreInvariant, CoreInvariant', JournalInvariant, AddressInvariant,
         FenceInvariant, NEW t \in Thread, ReadAsset(t) \/ ChooseReservation(t)
  PROVE  FenceInvariant'
  <1>1. /\ pc[t] \in {"read", "choose"}
        /\ UNCHANGED <<asset, lease, wire, taken, dcc, late>>
    BY DEF ReadAsset, ChooseReservation, At, Elsewhere
  <1>2. CASE Answer(t)
    BY <1>1, <1>2, AnswerLeaves, StepFences
  <1>3. ASSUME ~Answer(t) PROVE OthersStay(t) /\ Moves(t)
    <2>1. /\ pc[t] # "idle" /\ work[t] \in Work /\ Op(t) \in Operation
          /\ Cmd(t).asset \in Asset
      BY <1>1, Working
    <2>2. ASSUME ReadAsset(t) PROVE OthersStay(t) /\ Moves(t)
      <3>1. /\ Advance(t) /\ pc[t] = "read" /\ UNCHANGED <<reply, asset>>
            /\ asset[Cmd(t).asset].mode = RequiredMode(Op(t))
            /\ work' = [work EXCEPT
                          ![t].revision = asset[Cmd(t).asset].revision,
                          ![t].address = asset[Cmd(t).asset].address]
        BY <1>3, <2>2 DEF ReadAsset, At
      <3>2. OnPath(Op(t), "read")
        BY <3>1 DEF CoreInvariant, Op
      <3>3. PICK stage \in Stage \ ({"idle"} \cup Entered) :
                stage = Following[Op(t)]["read"]
        BY <2>1, <3>2, FollowingStage
      <3>4. Op(t) \in {"throttle", "program"} => stage = "lease"
        BY <3>3 DEF Following
      <3>5. /\ OthersStay(t) /\ Moved(t) /\ pc'[t] = stage
            /\ work'[t].address = asset[Cmd(t).asset].address
        <4>1. /\ pc'[t] = stage /\ \A u \in Thread \ {t} : pc'[u] = pc[u]
          BY <3>1, <3>3 DEF Advance, GoTo, CoreInvariant, TypeOK
        <4>2. /\ \A u \in Thread \ {t} : work'[u] = work[u]
              /\ work'[t].command = work[t].command
              /\ work'[t].attempt = work[t].attempt
              /\ work'[t].address = asset[Cmd(t).asset].address
          <5> DEFINE b == asset[Cmd(t).asset]
                     w == [work[t] EXCEPT !.revision = b.revision,
                                          !.address = b.address]
          <5>1. work' = [work EXCEPT ![t] = w]
            BY <3>1 DEF CoreInvariant, TypeOK
          <5>2. /\ w.command = work[t].command /\ w.attempt = work[t].attempt
                /\ w.address = b.address
            BY <2>1 DEF Work
          <5> HIDE DEF w, b
          <5>3. b = asset[Cmd(t).asset]
            BY DEF b
          <5> QED BY <5>1, <5>2, <5>3 DEF CoreInvariant, TypeOK
        <4> QED BY <2>1, <3>1, <3>3, <4>1, <4>2 DEF OthersStay, Moved, Cmd
      <3>6. Cmd(t)' = Cmd(t) /\ Op(t)' = Op(t)
        BY <3>5 DEF Moved, Cmd, Op
      <3>7. ThreadAhead(t)'
        <4>1. ReadTrue(t)'
          BY <3>1, <3>5, <3>6 DEF ReadTrue
        <4>2. ProgramAhead(t)'
          BY <3>4, <3>5, <3>6 DEF ProgramAhead, Granted
        <4>3. ProgramPassed(t)'
          BY <3>3, <3>5 DEF ProgramPassed, VerifiedBy, Entered
        <4> QED BY <4>1, <4>2, <4>3 DEF ThreadAhead
      <3> QED BY <3>1, <3>4, <3>5, <3>7 DEF Moves, Driving, Sent
    <2>3. ASSUME ChooseReservation(t) PROVE OthersStay(t) /\ Moves(t)
      <3>1. pc[t] = "choose" /\ UNCHANGED reply
        BY <2>3 DEF ChooseReservation, At
      <3>2. Op(t) = "stop"
        BY <3>1 DEF CoreInvariant, OnPath, Op
      <3>3. PICK stage \in {"read", "begin"} : GoTo(t, stage)
        BY <2>3 DEF ChooseReservation
      <3>4. /\ \A u \in Thread \ {t} : work'[u] = work[u]
            /\ work'[t].command = work[t].command
            /\ work'[t].attempt = work[t].attempt
        BY <2>1, <2>3 DEF ChooseReservation, CoreInvariant, TypeOK, Work
      <3>5. OthersStay(t) /\ Moved(t) /\ pc'[t] = stage
        BY <2>1, <3>1, <3>3, <3>4
        DEF GoTo, OthersStay, Moved, CoreInvariant, TypeOK, Cmd
      <3>6. Op(t)' = "stop"
        BY <3>2, <3>5 DEF Moved, Cmd, Op
      <3>7. ThreadAhead(t)'
        BY <3>5, <3>6 DEF ThreadAhead, ReadTrue, ProgramAhead, ProgramPassed,
                          VerifiedBy
      <3> QED BY <3>1, <3>2, <3>5, <3>7 DEF Moves, Driving, Sent
    <2> QED BY <2>2, <2>3
  <1> QED BY <1>1, <1>2, <1>3, StepFences

(* What is behind a token that DCC has seen is behind its fence.            *)
LEMMA PassedBehind ==
  ASSUME NEW a \in Asset, NEW n, n \in Nat, dcc.fence[a] \in Nat,
         Behind(a, n), ~dcc.forgot => n <= dcc.fence[a]
  PROVE  Behind(a, dcc.fence[a])
  <1>1. CASE dcc.forgot
    BY <1>1 DEF Behind, Moving
  <1>2. CASE ~dcc.forgot
    BY <1>2 DEF Behind
  <1> QED BY <1>1, <1>2

LEMMA SentFences ==
  ASSUME CoreInvariant, CoreInvariant', JournalInvariant, AddressInvariant,
         FenceInvariant, NEW t \in Thread,
         Confirmed(t) \/ FinishUncertain(t) \/ CommitUnanswered(t)
         \/ ReleaseReservation(t) \/ FinishProgrammed(t)
  PROVE  FenceInvariant'
  <1>1. /\ pc[t] \in Sent /\ pc[t] # "idle"
        /\ UNCHANGED <<asset, lease, wire, taken, dcc>>
    BY DEF Confirmed, FinishUncertain, CommitUnanswered, ReleaseReservation,
           FinishProgrammed, At, Elsewhere, Sent
  <1>2. ASSUME NEW r \in late' \ late
        PROVE  CommitAhead(r)
    <2>1. pc[t] = "commit" /\ LeaveLate(t, "commit", Cmd(t).value)
      BY <1>2 DEF Confirmed, FinishUncertain, CommitUnanswered,
                  ReleaseReservation, FinishProgrammed, At, Elsewhere
    <2>2. Op(t) = "program"
      BY <2>1 DEF JournalInvariant, Journalled, ThreadJournalled, Sent
    <2>3. PICK a \in Asset : a = Cmd(t).asset
      BY <1>1, FenceTyped
    <2>4. r.asset = a /\ r.revision = work[t].revision
      BY <1>2, <2>1, <2>3 DEF LeaveLate
    <2>5. ThreadRead(t) /\ ThreadAhead(t) /\ VerifiedBy(t)
      BY <2>1 DEF AddressInvariant, RevisionsRead, FenceInvariant, VerifiedBy
    <2>6. r.revision <= asset[a].revision
      BY <1>1, <2>3, <2>4, <2>5 DEF ThreadRead
    <2>7. ASSUME r.revision = asset[a].revision
          PROVE  asset[a].mode = "maintenance" /\ Behind(a, dcc.fence[a])
      <3>1. Current(t)
        BY <1>1, <2>3, <2>4, <2>7 DEF Current
      <3>2. asset[a].mode = "maintenance"
        BY <2>2, <2>3, <2>5, <3>1 DEF ThreadAhead, ReadTrue, RequiredMode
      <3>3. /\ Behind(a, work[t].token)
            /\ ~dcc.forgot => work[t].token <= dcc.fence[a]
        BY <2>1, <2>2, <2>3, <2>5, <3>1
        DEF ThreadAhead, ProgramAhead, ProgramPassed, Granted
      <3>4. dcc.fence[a] \in Nat /\ work[t].token \in Nat
        BY <1>1, FenceTyped
      <3> QED BY <3>2, <3>3, <3>4, PassedBehind
    <2> QED BY <2>4, <2>6, <2>7 DEF CommitAhead
  <1>3. CASE Answer(t)
    BY <1>1, <1>2, <1>3, AnswerLeaves, StepFences
  <1>4. ASSUME ~Answer(t) PROVE OthersStay(t) /\ Moves(t)
    <2>1. \/ GoTo(t, "commit") /\ VerifiedBy(t)
          \/ GoTo(t, "done")
      BY <1>4 DEF Confirmed, FinishUncertain, CommitUnanswered,
                  ReleaseReservation, FinishProgrammed, VerifiedBy, At
    <2>2. UNCHANGED <<work, reply>>
      BY <1>4 DEF Confirmed, FinishUncertain, CommitUnanswered,
                  ReleaseReservation, FinishProgrammed
    <2>3. VerifiedBy(t) => pc[t] \in Granted
      BY DEF VerifiedBy, Granted
    <2>4. CASE GoTo(t, "commit") /\ VerifiedBy(t)
      BY <1>1, <2>2, <2>3, <2>4, MovesOn DEF Driving, Sent, Stage
    <2>5. CASE GoTo(t, "done")
      BY <1>1, <2>2, <2>5, MovesOn DEF Granted, Driving, Sent, Stage
    <2> QED BY <2>1, <2>4, <2>5
  <1> QED BY <1>1, <1>2, <1>3, <1>4, StepFences

(* The call leaves with what the thread carries. *)
LEMMA SendFences ==
  ASSUME CoreInvariant, CoreInvariant', JournalInvariant, AddressInvariant,
         FenceInvariant, NEW t \in Thread, SendCall(t)
  PROVE  FenceInvariant'
  <1> DEFINE sent == [command |-> Cmd(t), attempt |-> work[t].attempt,
                      session |-> epoch, token |-> work[t].token,
                      address |-> work[t].address]
  <1>1. /\ pc[t] = "call" /\ GoTo(t, "waiting") /\ wire' = wire \cup {sent}
        /\ UNCHANGED <<asset, lease, taken, dcc, late, work, reply>>
    BY DEF SendCall, At
  <1>2. /\ sent.command = Cmd(t) /\ sent.attempt = work[t].attempt
        /\ sent.token = work[t].token /\ sent.address = work[t].address
    OBVIOUS
  <1> HIDE DEF sent
  <1>3. OthersStay(t) /\ Moved(t) /\ pc'[t] = "waiting"
    BY <1>1, GoToMoves DEF Stage
  <1>4. RecordsGrow /\ FencesAdvance
    BY <1>1, FenceTyped DEF RecordsGrow, FencesAdvance
  <1>5. \A u \in Thread : Cmd(u)' = Cmd(u) /\ Op(u)' = Op(u)
    BY <1>1 DEF Cmd, Op
  <1>6. MovesKept
    <2>1. ASSUME NEW a \in Asset, NEW n \in Nat, NEW d \in Place, Moving(a, n, d)'
          PROVE  Moving(a, n, d)
      <3>0. ~dcc.forgot
        BY <1>1, <2>1 DEF Moving
      <3>1. ASSUME NEW u \in Thread, pc'[u] \in Driving, Op(u)' = "throttle",
                   Cmd(u)'.asset = a, work'[u].token = n, work'[u].address = d
            PROVE  Moving(a, n, d)
        <4>1. u # t
          BY <1>3, <3>1 DEF Driving
        <4> QED BY <1>1, <1>3, <1>5, <3>0, <3>1, <4>1 DEF OthersStay, Moving
      <3>2. ASSUME NEW call \in wire', call.session = dcc'.session,
                   call.command.op = "throttle",
                   call.command.asset = a, call.token = n, call.address = d
            PROVE  Moving(a, n, d)
        <4>1. CASE call \in wire
          BY <1>1, <3>0, <3>2, <4>1 DEF Moving
        <4>2. CASE call = sent
          <5>1. /\ pc[t] \in Driving /\ Op(t) = "throttle" /\ Cmd(t).asset = a
                /\ work[t].token = n /\ work[t].address = d
            BY <1>1, <1>2, <3>2, <4>2 DEF Driving, Op, Cmd
          <5> QED BY <3>0, <5>1 DEF Moving
        <4> QED BY <1>1, <3>2, <4>1, <4>2
      <3> QED BY <2>1, <3>1, <3>2 DEF Moving
    <2> QED BY <2>1 DEF MovesKept
  <1>7. ASSUME NEW u \in Thread PROVE ThreadAhead(u)'
    <2>1. CASE u # t
      BY <1>3, <1>4, <1>6, <2>1, ThreadKept
      DEF OthersStay, Proceeds, VerifiedBy, Op, Cmd
    <2>2. CASE u = t
      <3>1. reply[t] # "ok"
        BY <1>1, AbsenceAssumption
        DEF JournalInvariant, Journalled, ThreadJournalled, Sent
      <3>2. Proceeds(t)
        BY <1>1, <1>3, <3>1 DEF Proceeds, VerifiedBy, Granted
      <3> QED BY <1>4, <1>6, <2>2, <3>2, ThreadKept
    <2> QED BY <2>1, <2>2
  <1>8. ASSUME NEW u \in Thread, NEW call \in Calls', pc'[u] # "idle",
               work'[u].attempt = call.attempt
        PROVE  pc'[u] \in Sent /\ work'[u].token = call.token
    <2>1. CASE call \in Calls
      <3>1. pc[u] \in Sent /\ work[u].token = call.token
        BY <1>1, <1>3, <1>8, <2>1 DEF FenceInvariant, CallsOwn, OthersStay
      <3> QED BY <1>1, <1>3, <3>1 DEF OthersStay, Sent
    <2>2. CASE call = sent
      <3>1. u = t
        BY <1>1, <1>2, <1>3, <1>8, <2>2
        DEF JournalInvariant, AttemptsUnique, OthersStay
      <3> QED BY <1>1, <1>2, <1>3, <2>2, <3>1 DEF Sent
    <2> QED BY <1>1, <1>8, <2>1, <2>2 DEF Calls
  <1>9. CallsPassed'
    BY <1>1 DEF FenceInvariant, CallsPassed, Fenced
  <1> QED BY <1>1, <1>4, <1>6, <1>7, <1>8, <1>9, FencesKept DEF CallsOwn

(* A lease comes with a token newer than that of whatever moves, unless the *)
(* holder renews it.                                                       *)
LEMMA MovingIssued ==
  ASSUME CoreInvariant, TokensIssued, NEW a \in Asset, NEW n \in Nat,
         NEW d \in Place, Moving(a, n, d)
  PROVE  n <= fence[a]
  <1>1. \A t \in Thread : pc[t] \in Driving => work[t] # None
    BY DEF Driving, CoreInvariant, TypeOK
  <1>2. ASSUME NEW t \in Thread, pc[t] \in Driving, Cmd(t).asset = a,
               work[t].token = n
        PROVE  n <= fence[a]
    BY <1>1, <1>2 DEF TokensIssued, Cmd
  <1>3. ASSUME NEW call \in wire, call.command.asset = a, call.token = n
        PROVE  n <= fence[a]
    BY <1>3 DEF TokensIssued
  <1> QED BY <1>2, <1>3 DEF Moving

LEMMA GrantAhead ==
  ASSUME CoreInvariant, CoreInvariant', TokensIssued, FenceInvariant, MovesKept,
         NEW a \in Asset, NEW s \in Session, NEW v \in Nat,
         AcquireLease(a, v, s)
  PROVE  LeaseAhead'
  <1>1. /\ UNCHANGED asset
        /\ \A b \in Asset \ {a} : lease'[b] = lease[b]
        /\ lease'[a] = [token |-> GrantedToken(a, s), session |-> s]
    BY DEF AcquireLease, CoreInvariant, TypeOK, RegistryTypeOK
  <1>2. ASSUME NEW b \in Asset, asset'[b].mode = "maintenance", lease'[b] # None
        PROVE  Behind(b, lease[b].token)'
    <2>1. CASE lease'[b] = lease[b]
      BY <1>1, <1>2, <2>1, LeaseKept
    <2>2. CASE lease'[b] # lease[b]
      <3>1. b = a /\ lease'[a].token = GrantedToken(a, s)
        BY <1>1, <2>2
      <3>2. CASE Renews(a, s)
        <4>1. /\ lease[a] # None /\ lease'[a].token = lease[a].token
              /\ asset[a].mode = "maintenance" /\ lease[a].token \in Nat
          BY <1>1, <1>2, <3>1, <3>2, FenceTyped DEF Renews, GrantedToken
        <4>2. PICK n \in Nat : n = lease[a].token
          BY <4>1
        <4>3. Behind(a, n)
          BY <4>1, <4>2 DEF FenceInvariant, LeaseAhead
        <4>4. Behind(a, n)'
          BY <4>1, <4>2, <4>3, BehindKept
        <4> QED BY <3>1, <4>1, <4>2, <4>4 DEF Behind
      <3>3. CASE ~Renews(a, s)
        <4>1. /\ lease'[a].token = fence[a] + 1 /\ fence[a] \in Nat
              /\ asset[a].mode = "maintenance"
          BY <1>1, <1>2, <3>1, <3>3, FenceTyped DEF GrantedToken
        <4>2. PICK n \in Nat : n = fence[a] + 1
          BY <4>1
        <4>3. Behind(a, n)
          BY <4>1, <4>2, MovingIssued DEF Behind
        <4>4. Behind(a, n)'
          BY <4>1, <4>2, <4>3, BehindKept
        <4> QED BY <3>1, <4>1, <4>2, <4>4 DEF Behind
      <3> QED BY <3>2, <3>3
    <2> QED BY <2>1, <2>2
  <1> QED BY <1>2 DEF LeaseAhead

LEMMA RequestFences ==
  ASSUME CoreInvariant, CoreInvariant', JournalInvariant, AddressInvariant,
         TokensIssued, FenceInvariant, NEW t \in Thread, RequestLease(t)
  PROVE  FenceInvariant'
  <1>1. /\ pc[t] = "lease" /\ pc[t] # "idle" /\ work[t] \in Work
        /\ Op(t) \in Operation /\ epoch \in Session
    BY Working DEF RequestLease, At
  <1>2. PICK a \in Asset : a = Cmd(t).asset
    BY <1>1, FenceTyped
  <1>3. /\ AcquireLease(a, work[t].revision, epoch)
        /\ work' = [work EXCEPT ![t].token = GrantedToken(a, epoch)]
        /\ Advance(t) /\ UNCHANGED <<reply, wire, taken, dcc, late>>
    BY <1>2 DEF RequestLease, Elsewhere
  <1>4. /\ UNCHANGED asset /\ asset[a].revision = work[t].revision
        /\ work[t].revision \in Nat
        /\ lease'[a].token = GrantedToken(a, epoch) /\ lease'[a] # None
    <2>1. /\ UNCHANGED asset /\ asset[a].revision = work[t].revision
          /\ work[t].revision \in Nat
          /\ lease'[a] = [token |-> GrantedToken(a, epoch), session |-> epoch]
      BY <1>1, <1>3, FenceTyped
      DEF AcquireLease, MayAcquire, CoreInvariant, TypeOK, RegistryTypeOK
    <2>2. GrantedToken(a, epoch) \in Nat \ {0}
      BY DEF GrantedToken, Renews, CoreInvariant, TypeOK, RegistryTypeOK, Lease
    <2>3. lease'[a] \in Lease
      BY <1>1, <2>1, <2>2 DEF Lease
    <2> QED BY <2>1, <2>3, NoneAssumption
  <1>5. PICK stage \in Stage \ ({"idle"} \cup Entered) :
            stage = Following[Op(t)]["lease"]
    BY <1>1, FollowingStage DEF CoreInvariant, Op
  <1>6. OthersStay(t) /\ Moved(t) /\ pc'[t] = stage
    <2>1. /\ pc'[t] = stage /\ \A u \in Thread \ {t} : pc'[u] = pc[u]
      BY <1>1, <1>3, <1>5 DEF Advance, GoTo, CoreInvariant, TypeOK
    <2>2. /\ \A u \in Thread \ {t} : work'[u] = work[u]
          /\ work'[t].command = work[t].command
          /\ work'[t].attempt = work[t].attempt
      BY <1>1, <1>3 DEF CoreInvariant, TypeOK, Work
    <2> QED BY <1>1, <1>3, <1>5, <2>1, <2>2 DEF OthersStay, Moved, Cmd
  <1>7. /\ work'[t].token = lease'[a].token
        /\ work'[t].address = work[t].address
        /\ work'[t].revision = work[t].revision
    BY <1>1, <1>3, <1>4 DEF CoreInvariant, TypeOK, Work
  <1>8. Cmd(t)' = Cmd(t) /\ Op(t)' = Op(t)
    BY <1>6 DEF Moved, Cmd, Op
  <1>9. /\ Current(t) /\ ReadTrue(t)
        /\ Op(t) = "throttle" =>
              asset[a].mode = "active" /\ work[t].address = asset[a].address
    BY <1>1, <1>2, <1>4
    DEF Current, FenceInvariant, ThreadAhead, ReadTrue, RequiredMode
  <1>10. RecordsGrow /\ FencesAdvance
    BY <1>3, <1>4, FenceTyped DEF RecordsGrow, FencesAdvance
  <1>11. MovesKept
    <2>1. ASSUME NEW b \in Asset, NEW n \in Nat, NEW d \in Place,
                 Moving(b, n, d)', ~Moving(b, n, d)
          PROVE  asset[b].mode = "active" /\ d = asset[b].address
      <3>1. PICK u \in Thread :
               /\ pc'[u] \in Driving /\ Op(u)' = "throttle"
               /\ Cmd(u)'.asset = b
               /\ work'[u].token = n /\ work'[u].address = d
        BY <1>3, <2>1 DEF Moving
      <3>2. u = t
        BY <1>3, <1>6, <2>1, <3>1 DEF OthersStay, Moving, Op, Cmd
      <3> QED BY <1>2, <1>7, <1>8, <1>9, <3>1, <3>2
    <2> QED BY <2>1 DEF MovesKept
  <1>12. LeaseAhead'
    BY <1>1, <1>3, <1>4, <1>11, GrantAhead
  <1>13. ThreadAhead(t)'
    <2>1. ReadTrue(t)'
      BY <1>2, <1>4, <1>7, <1>8, <1>9 DEF ReadTrue
    <2>2. ProgramAhead(t)'
      <3>1. Op(t) = "program" => asset[a].mode = "maintenance"
        BY <1>2, <1>9 DEF ReadTrue, RequiredMode
      <3>2. Op(t) = "program" => Behind(a, lease[a].token)'
        BY <1>4, <1>12, <3>1 DEF LeaseAhead
      <3> QED BY <1>2, <1>7, <1>8, <3>2 DEF ProgramAhead, Behind
    <2>3. ProgramPassed(t)'
      BY <1>5, <1>6 DEF ProgramPassed, VerifiedBy, Entered
    <2> QED BY <2>1, <2>2, <2>3 DEF ThreadAhead
  <1>14. ASSUME NEW u \in Thread PROVE ThreadAhead(u)'
    <2>1. CASE u # t
      BY <1>6, <1>10, <1>11, <2>1, ThreadKept
      DEF OthersStay, Proceeds, VerifiedBy, Op, Cmd
    <2> QED BY <1>13, <2>1
  <1>15. \A u \in Thread : CallsOwn(u)'
    <2>1. Calls' \subseteq Calls
      BY <1>3 DEF Calls
    <2>2. ASSUME NEW u \in Thread, pc'[u] # "idle"
          PROVE  /\ pc[u] # "idle" /\ work'[u].attempt = work[u].attempt
                 /\ pc[u] \in Sent => /\ pc'[u] \in Sent
                                     /\ work'[u].token = work[u].token
      BY <1>1, <1>6, <2>2 DEF OthersStay, Moved, Sent
    <2> QED BY <2>1, <2>2, CallsOwned
  <1>16. CallsPassed'
    BY <1>3 DEF FenceInvariant, CallsPassed, Fenced
  <1>17. MovesFenced'
    BY <1>4, <1>10, <1>11, FencedKept DEF MovesFenced
  <1>18. ASSUME NEW r \in late', r.op = "commit"
         PROVE  CommitAhead(r)'
    <2>1. /\ r.asset \in Asset /\ r.revision \in Nat /\ CommitAhead(r)
      <3>1. r \in late
        BY <1>3
      <3> QED BY <1>18, <3>1, FenceTyped DEF FenceInvariant
    <2> QED BY <1>10, <1>11, <2>1, CommitKept
  <1> QED BY <1>12, <1>14, <1>15, <1>16, <1>17, <1>18 DEF FenceInvariant

(* Steps that leave the threads alone. *)
LEMMA QuietThreads ==
  ASSUME CoreInvariant, CoreInvariant', AddressInvariant, FenceInvariant,
         UNCHANGED <<pc, work>>, wire' \subseteq wire, Calls' \subseteq Calls,
         \A t \in Thread : VerifiedBy(t)' => VerifiedBy(t),
         RecordsGrow, FencesAdvance
  PROVE  /\ MovesKept
         /\ \A t \in Thread : ThreadAhead(t)' /\ CallsOwn(t)'
  <1>1. MovesKept
    BY MovesFrom
  <1>2. ASSUME NEW t \in Thread PROVE ThreadAhead(t)'
    <2>1. pc'[t] = "idle" \/ Proceeds(t)
      BY DEF Proceeds
    <2> QED BY <1>1, <2>1, ThreadKept
  <1> QED BY <1>1, <1>2, CallsOwned

(* Edits and leases, with the threads as they are or one past its commit.   *)
LEMMA RegistryFences ==
  ASSUME CoreInvariant, CoreInvariant', FenceInvariant, RecordsGrow,
         FencesAdvance, MovesKept, UNCHANGED <<taken, dcc>>, late' \subseteq late,
         \A t \in Thread : ThreadAhead(t)' /\ CallsOwn(t)',
         MovesFenced', LeaseAhead'
  PROVE  FenceInvariant'
  <1>1. CallsPassed'
    BY DEF FenceInvariant, CallsPassed, Fenced
  <1>2. ASSUME NEW r \in late', r.op = "commit"
        PROVE  CommitAhead(r)'
    <2>1. r \in late
      OBVIOUS
    <2>2. r.asset \in Asset /\ r.revision \in Nat /\ CommitAhead(r)
      BY <1>2, <2>1, FenceTyped DEF FenceInvariant
    <2> QED BY <2>2, CommitKept
  <1> QED BY <1>1, <1>2 DEF FenceInvariant

(* The commit moves the address away from whatever is fenced off by then.   *)
LEMMA UpdateGrows ==
  ASSUME CoreInvariant, NEW a \in Asset, NEW v \in Nat, NEW d \in Address,
         UpdateProgrammedAddress(a, v, d)
  PROVE  /\ RecordsGrow /\ lease'[a] = None
         /\ \A b \in Asset \ {a} : asset'[b] = asset[b] /\ lease'[b] = lease[b]
  <1>1. /\ asset'[a].revision = asset[a].revision + 1
        /\ \A b \in Asset \ {a} : asset'[b] = asset[b] /\ lease'[b] = lease[b]
        /\ lease'[a] = None
    BY DEF UpdateProgrammedAddress, RetireLease, CoreInvariant, TypeOK,
           RegistryTypeOK, AssetRecord
  <1>2. asset[a].revision \in Nat
    BY FenceTyped
  <1> QED BY <1>1, <1>2 DEF RecordsGrow

LEMMA UpdateFences ==
  ASSUME CoreInvariant, CoreInvariant', FenceInvariant,
         NEW a \in Asset, NEW v \in Nat, NEW d \in Address,
         UpdateProgrammedAddress(a, v, d),
         asset[a].mode = "maintenance", Behind(a, dcc.fence[a]),
         MovesKept, UNCHANGED <<taken, dcc>>, late' \subseteq late,
         \A t \in Thread : ThreadAhead(t)' /\ CallsOwn(t)'
  PROVE  FenceInvariant'
  <1>1. FencesAdvance
    BY FenceTyped DEF FencesAdvance
  <1>2. MovesFenced'
    <2>1. ASSUME NEW b \in Asset, b # a, NEW n \in Nat, NEW e \in Place,
                 Moving(b, n, e)', e # asset'[b].address
          PROVE  n < dcc'.fence[b]
      <3>1. asset'[b].address = asset[b].address
        BY <2>1, UpdateGrows
      <3> QED BY <1>1, <2>1, <3>1, FencedKept
    <2>2. PICK m \in Nat : m = dcc.fence[a]
      BY FenceTyped
    <2>3. Behind(a, m)'
      BY <2>2, BehindKept
    <2> QED BY <2>1, <2>2, <2>3 DEF MovesFenced, Behind
  <1>3. LeaseAhead'
    <2>1. ASSUME NEW b \in Asset
          PROVE  (asset'[b].mode = "maintenance" /\ lease'[b] # None)
                    => Behind(b, lease[b].token)'
      BY UpdateGrows, LeaseKept
    <2> QED BY <2>1 DEF LeaseAhead
  <1> QED BY <1>1, <1>2, <1>3, UpdateGrows, RegistryFences

LEMMA CommitFences ==
  ASSUME CoreInvariant, CoreInvariant', JournalInvariant, AddressInvariant,
         FenceInvariant, NEW t \in Thread, CommitAddress(t)
  PROVE  FenceInvariant'
  <1>1. /\ pc[t] = "commit" /\ pc[t] # "idle" /\ GoTo(t, "release")
        /\ UNCHANGED <<work, reply, wire, taken, dcc, late>>
    BY DEF CommitAddress, At, Elsewhere
  <1>2. PICK a \in Asset : a = Cmd(t).asset
    BY <1>1, FenceTyped
  <1>3. PICK v \in Nat, d \in Address :
            v = work[t].revision /\ UpdateProgrammedAddress(a, v, d)
    BY <1>1, <1>2, Working, FenceTyped DEF CommitAddress
  <1>4. OthersStay(t) /\ Moves(t)
    BY <1>1, MovesOn DEF Stage, Granted, Driving, Sent
  <1>5. FencesAdvance
    BY <1>1, FenceTyped DEF FencesAdvance
  <1>6. MovesKept /\ \A u \in Thread : ThreadAhead(u)' /\ CallsOwn(u)'
    BY <1>1, <1>3, <1>4, <1>5, UpdateGrows, StepThreads
  <1>7. asset[a].mode = "maintenance" /\ Behind(a, dcc.fence[a])
    <2>1. Op(t) = "program" /\ VerifiedBy(t)
      BY <1>1 DEF JournalInvariant, Journalled, ThreadJournalled, Sent, VerifiedBy
    <2>2. Current(t)
      BY <1>1, <1>2, <1>3 DEF UpdateProgrammedAddress, Current
    <2>3. /\ asset[a].mode = "maintenance" /\ Behind(a, work[t].token)
          /\ ~dcc.forgot => work[t].token <= dcc.fence[a]
      BY <1>1, <1>2, <2>1, <2>2
      DEF FenceInvariant, ThreadAhead, ReadTrue, RequiredMode, ProgramAhead,
          ProgramPassed, Granted
    <2>4. dcc.fence[a] \in Nat /\ work[t].token \in Nat
      BY <1>1, FenceTyped
    <2> QED BY <2>3, <2>4, PassedBehind
  <1> QED BY <1>1, <1>3, <1>6, <1>7, UpdateFences

LEMMA LateFences ==
  ASSUME CoreInvariant, CoreInvariant', JournalInvariant, AddressInvariant,
         TokensIssued, FenceInvariant, NEW r \in late, LateRequest(r)
  PROVE  FenceInvariant'
  <1>1. /\ UNCHANGED <<pc, work, reply, wire, taken, dcc>>
        /\ late' \subseteq late
    BY DEF LateRequest
  <1>2. PICK a \in Asset, v \in Nat, s \in Session, d \in Address :
            /\ a = r.asset /\ v = r.revision /\ s = r.session
            /\ d = r.address
    BY FenceTyped DEF CoreInvariant, TypeOK, Request
  <1>3. FencesAdvance
    BY <1>1, FenceTyped DEF FencesAdvance
  <1>4. /\ Calls' \subseteq Calls
        /\ \A t \in Thread : VerifiedBy(t)' => VerifiedBy(t)
    BY <1>1 DEF Calls, VerifiedBy, Op
  <1>5. CASE r.op = "commit" /\ UpdateProgrammedAddress(a, v, d)
    <2>1. MovesKept /\ \A t \in Thread : ThreadAhead(t)' /\ CallsOwn(t)'
      BY <1>1, <1>3, <1>4, <1>5, UpdateGrows, QuietThreads
    <2>2. asset[a].mode = "maintenance" /\ Behind(a, dcc.fence[a])
      BY <1>2, <1>5
      DEF UpdateProgrammedAddress, FenceInvariant, CommitAhead
    <2> QED BY <1>1, <1>5, <2>1, <2>2, UpdateFences
  <1>6. CASE AcquireLease(a, v, s)
    <2>1. UNCHANGED asset
      BY <1>6 DEF AcquireLease
    <2>2. RecordsGrow
      BY <2>1 DEF RecordsGrow
    <2>3. MovesKept /\ \A t \in Thread : ThreadAhead(t)' /\ CallsOwn(t)'
      BY <1>1, <1>3, <1>4, <2>2, QuietThreads
    <2>4. LeaseAhead'
      BY <1>6, <2>3, GrantAhead
    <2>5. MovesFenced'
      BY <1>3, <2>1, <2>3, FencedKept DEF MovesFenced
    <2> QED BY <1>1, <1>3, <2>2, <2>3, <2>4, <2>5, RegistryFences
  <1> QED BY <1>2, <1>5, <1>6 DEF LateRequest

LEMMA OwnerFences ==
  ASSUME CoreInvariant, CoreInvariant', AddressInvariant, FenceInvariant,
         OwnerEdits
  PROVE  FenceInvariant'
  <1>1. UNCHANGED <<pc, work, reply, wire, taken, dcc, late>>
    BY DEF OwnerEdits
  <1>2. PICK a \in Asset : EditDescription(a) \/ EditOperatingView(a)
    BY DEF OwnerEdits
  <1>3. /\ asset'[a].revision = asset[a].revision + 1
        /\ asset'[a].address = asset[a].address
        /\ \/ lease'[a] = lease[a] /\ asset'[a].mode = asset[a].mode
           \/ lease'[a] = None
        /\ \A b \in Asset \ {a} : asset'[b] = asset[b] /\ lease'[b] = lease[b]
    BY <1>2 DEF EditDescription, EditOperatingView, RetireLease,
                CoreInvariant, TypeOK, RegistryTypeOK, AssetRecord
  <1>4. RecordsGrow /\ FencesAdvance
    BY <1>1, <1>3, FenceTyped DEF RecordsGrow, FencesAdvance
  <1>5. /\ Calls' \subseteq Calls
        /\ \A t \in Thread : VerifiedBy(t)' => VerifiedBy(t)
    BY <1>1 DEF Calls, VerifiedBy, Op
  <1>6. MovesKept /\ \A t \in Thread : ThreadAhead(t)' /\ CallsOwn(t)'
    BY <1>1, <1>4, <1>5, QuietThreads
  <1>7. MovesFenced'
    <2>1. \A b \in Asset : asset'[b].address = asset[b].address
      BY <1>3
    <2> QED BY <1>4, <1>6, <2>1, FencedKept DEF MovesFenced
  <1>8. LeaseAhead'
    <2>1. \A b \in Asset : \/ lease'[b] = lease[b] /\ asset'[b].mode = asset[b].mode
                           \/ lease'[b] = None
      BY <1>3
    <2> QED BY <1>6, <2>1, LeaseKept DEF LeaseAhead
  <1> QED BY <1>1, <1>4, <1>6, <1>7, <1>8, RegistryFences

(* Steps that touch neither registry nor calls. *)
LEMMA AsideFences ==
  ASSUME CoreInvariant, CoreInvariant', AddressInvariant, FenceInvariant,
         SessionInvariant,
         \/ Boot \/ (StartDcc /\ phase # "booted") \/ StartMc \/ Crash
         \/ Resume \/ ReadExecutions \/ ReconcileMc
         \/ (\E k \in CommandId : McResolves(k))
         \/ RestartDcc \/ RestartMc \/ UNCHANGED vars
  PROVE  FenceInvariant'
  <1>1. /\ UNCHANGED <<asset, lease, wire, late>> /\ taken' \subseteq taken
        /\ UNCHANGED <<pc, work, reply>> \/ (\A t \in Thread : pc'[t] = "idle")
    BY DEF Boot, StartDcc, StartMc, Crash, Resume, ReadExecutions, ReconcileMc,
           McResolves, RestartDcc, RestartMc, CoreInvariant, TypeOK
  <1>2. FencesAdvance /\ CallsPassed'
    <2>1. CASE UNCHANGED dcc
      BY <1>1, <2>1, FenceTyped
      DEF FenceInvariant, CallsPassed, Fenced, FencesAdvance
    <2>2. CASE StartDcc /\ phase # "booted"
      <3>1. /\ phase \in {"dcc", "up"} /\ dcc'.session = epoch
            /\ dcc'.fence = dcc.fence /\ dcc'.forgot = dcc.forgot
            /\ UNCHANGED taken
        BY <2>2 DEF StartDcc, CoreInvariant, TypeOK
      <3>2. FencesAdvance
        BY <3>1, FenceTyped DEF SessionInvariant, FencesAdvance
      <3> QED BY <3>1, <3>2 DEF FenceInvariant, CallsPassed, Fenced
    <2>3. CASE RestartDcc
      BY <2>3 DEF RestartDcc, CallsPassed, FencesAdvance, CoreInvariant, TypeOK
    <2> QED BY <2>1, <2>2, <2>3
            DEF Boot, StartMc, Crash, Resume, ReadExecutions, ReconcileMc,
                McResolves, RestartMc
  <1>3. RecordsGrow /\ Calls' \subseteq Calls
    BY <1>1 DEF RecordsGrow, Calls
  <1>4. CASE UNCHANGED <<pc, work, reply>>
    <2>1. \A t \in Thread : VerifiedBy(t)' => VerifiedBy(t)
      BY <1>4 DEF VerifiedBy, Op
    <2>2. MovesKept /\ \A t \in Thread : ThreadAhead(t)' /\ CallsOwn(t)'
      BY <1>1, <1>2, <1>3, <1>4, <2>1, QuietThreads
    <2> QED BY <1>1, <1>2, <2>2, FencesKept
  <1>5. CASE \A t \in Thread : pc'[t] = "idle"
    <2>1. MovesKept
      BY <1>1, <1>2, <1>5, MovesFrom DEF Driving
    <2>2. \A t \in Thread : ThreadAhead(t)' /\ CallsOwn(t)'
      BY <1>2, <1>3, <1>5, <2>1, ThreadKept DEF CallsOwn
    <2> QED BY <1>1, <1>2, <2>1, <2>2, FencesKept
  <1> QED BY <1>1, <1>4, <1>5

(* A new process of Core has its session with DCC: whatever moves is of an  *)
(* older one, and nobody has anything to program.                          *)
LEMMA StartFences ==
  ASSUME CoreInvariant, CoreInvariant', JournalInvariant, FenceInvariant,
         SessionInvariant, StartDcc, phase = "booted"
  PROVE  FenceInvariant'
  <1>1. /\ UNCHANGED <<asset, lease, pc, work, reply, wire, taken, late>>
        /\ dcc'.session = epoch /\ dcc'.fence = dcc.fence
    BY DEF StartDcc, CoreInvariant, TypeOK
  <1>2. \A t \in Thread :
           (pc[t] # "idle" /\ Op(t) \in {"throttle", "program"}) => FALSE
    BY DEF SessionInvariant
  <1>3. ASSUME NEW a, NEW n, NEW d PROVE ~Moving(a, n, d)'
    BY <1>1, <1>2 DEF Moving, Driving, SessionInvariant, Op
  <1>4. ASSUME NEW t \in Thread PROVE ThreadAhead(t)' /\ CallsOwn(t)'
    <2>1. Cmd(t)' = Cmd(t) /\ Op(t)' = Op(t) /\ Calls' = Calls
      BY <1>1 DEF Cmd, Op, Calls
    <2>2. ReadTrue(t)' /\ ProgramAhead(t)'
      BY <1>1, <1>2, <2>1 DEF ReadTrue, ProgramAhead, Current
    <2>3. ~VerifiedBy(t)'
      BY <1>1, <1>2, <2>1
      DEF VerifiedBy, JournalInvariant, Journalled, ThreadJournalled, Sent
    <2> QED BY <1>1, <2>1, <2>2, <2>3
            DEF ThreadAhead, ProgramPassed, FenceInvariant, CallsOwn
  <1>5. \A r \in late' : r.op = "commit" => CommitAhead(r)'
    BY <1>1, <1>3 DEF FenceInvariant, CommitAhead, Behind
  <1>6. CallsPassed'
    BY <1>1 DEF FenceInvariant, CallsPassed, Fenced
  <1> QED BY <1>3, <1>4, <1>5, <1>6
          DEF FenceInvariant, MovesFenced, LeaseAhead, Behind

LEMMA ArriveFences ==
  ASSUME CoreInvariant, CoreInvariant', JournalInvariant, AddressInvariant,
         FenceInvariant, NEW t \in Thread, NEW c \in Commands, Arrive(t, c)
  PROVE  FenceInvariant'
  <1>1. /\ UNCHANGED <<asset, lease, wire, taken, dcc, late>>
        /\ pc[t] = "idle"
    BY DEF Arrive, At
  <1>2. PICK stage \in Stage \ ({"idle"} \cup Entered) :
            stage = Following[c.op].arrive
    <2>1. c.op \in Operation /\ OnPath(c.op, "arrive")
      BY CommandsAssumption DEF Command, OnPath
    <2> QED BY <2>1, FollowingStage
  <1>3. c.op = "throttle" => stage = "lookup"
    BY <1>2 DEF Following
  <1>4. /\ pc'[t] = stage /\ work'[t].command = c /\ work'[t].revision = 0
        /\ work'[t].attempt = arrivals /\ c.asset \in Asset
        /\ \A u \in Thread \ {t} :
              pc'[u] = pc[u] /\ work'[u] = work[u] /\ reply'[u] = reply[u]
    BY <1>2, CommandsAssumption
    DEF Arrive, GoTo, Command, CoreInvariant, TypeOK
  <1>5. RecordsGrow /\ FencesAdvance /\ Calls' = Calls
    BY <1>1, FenceTyped DEF RecordsGrow, FencesAdvance, Calls
  <1>6. MovesKept
    <2>1. ASSUME NEW u \in Thread, pc'[u] \in Driving, Op(u)' = "throttle"
          PROVE  pc[u] \in Driving /\ work'[u] = work[u]
      <3>1. u # t
        BY <1>3, <1>4, <2>1 DEF Driving, Op
      <3> QED BY <1>4, <2>1, <3>1
    <2> QED BY <1>1, <1>5, <2>1, MovesFrom
  <1>7. ~Current(t)'
    <2>1. asset[c.asset] \in AssetRecord
      BY <1>4 DEF CoreInvariant, TypeOK, RegistryTypeOK
    <2> QED BY <1>1, <1>4, <2>1 DEF Current, Cmd, AssetRecord
  <1>8. ASSUME NEW u \in Thread PROVE ThreadAhead(u)'
    <2>1. CASE u # t
      BY <1>4, <1>5, <1>6, <2>1, ThreadKept DEF Proceeds, VerifiedBy, Op, Cmd
    <2>2. CASE u = t
      BY <1>2, <1>4, <1>7, <2>2
      DEF ThreadAhead, ReadTrue, ProgramAhead, ProgramPassed, VerifiedBy, Entered
    <2> QED BY <2>1, <2>2
  <1>9. ASSUME NEW u \in Thread PROVE CallsOwn(u)'
    <2>1. CASE u # t
      BY <1>4, <1>5, <2>1 DEF FenceInvariant, CallsOwn
    <2>2. CASE u = t
      <3>1. ASSUME NEW call \in Calls PROVE work'[t].attempt # call.attempt
        <4>1. call.attempt < arrivals /\ call.attempt \in Nat /\ arrivals \in Nat
          BY CommandsTyped DEF JournalInvariant, AttemptsUnique
        <4> QED BY <1>4, <4>1
      <3> QED BY <1>5, <2>2, <3>1 DEF CallsOwn
    <2> QED BY <2>1, <2>2
  <1>10. CallsPassed'
    BY <1>1 DEF FenceInvariant, CallsPassed, Fenced
  <1> QED BY <1>1, <1>5, <1>6, <1>8, <1>9, <1>10, FencesKept

(* The adapters.  A fence goes only forward, and a call that was taken has  *)
(* moved it at least to its token.                                         *)
LEMMA AnswerPassed ==
  ASSUME CoreInvariant, JournalInvariant, FenceInvariant, NEW call \in Calls,
         UNCHANGED <<pc, work>>, Calls' \subseteq Calls, wire' \subseteq wire,
         AddressInvariant, CoreInvariant', UNCHANGED <<asset, lease, late>>,
         FencesAdvance, CallsPassed',
         \/ UNCHANGED reply
         \/ Tell(call, "error")
         \/ /\ \E answer \in {"ok", "error"} : Tell(call, answer)
            /\ \/ ForMc(call)
               \/ call \in taken /\ UNCHANGED <<dcc.fence>>
  PROVE  FenceInvariant'
  <1>1. RecordsGrow
    BY DEF RecordsGrow
  <1>2. MovesKept
    BY MovesFrom
  <1>3. \A t \in Thread : CallsOwn(t)'
    BY CallsOwned
  <1>4. ASSUME NEW t \in Thread PROVE ThreadAhead(t)'
    <2>1. Cmd(t)' = Cmd(t) /\ Op(t)' = Op(t)
      BY DEF Cmd, Op
    <2>2. CASE pc[t] = "idle" \/ (VerifiedBy(t)' => VerifiedBy(t))
      BY <1>1, <1>2, <2>2, ThreadKept DEF Proceeds
    <2>3. ASSUME pc[t] # "idle", VerifiedBy(t)', ~VerifiedBy(t)
          PROVE  ThreadAhead(t)'
      <3>1. /\ pc[t] = "waiting" /\ Op(t) = "program"
            /\ reply'[t] = "ok" /\ reply[t] # "ok"
        BY <2>1, <2>3 DEF VerifiedBy
      <3>2. /\ work[t].attempt = call.attempt
            /\ ForMc(call) \/ (call \in taken /\ UNCHANGED <<dcc.fence>>)
        BY <3>1 DEF Tell, At, CoreInvariant, TypeOK
      <3>3. call.command = Cmd(t) /\ work[t].token = call.token
        BY <2>3, <3>2
        DEF JournalInvariant, AttemptsUnique, FenceInvariant, CallsOwn
      <3>4. call \in taken /\ Fenced(call) /\ dcc'.fence = dcc.fence
        BY <3>1, <3>2, <3>3 DEF ForMc, Fenced, Leased, Op, Cmd
      <3>5. ProgramPassed(t)'
        BY <2>1, <3>3, <3>4 DEF ProgramPassed, FenceInvariant, CallsPassed
      <3>6. ThreadAhead(t)
        BY DEF FenceInvariant
      <3>7. ReadTrue(t)'
        BY <2>1, <3>6 DEF ThreadAhead, ReadTrue, Current
      <3>8. ProgramAhead(t)'
        <4> SUFFICES ASSUME Current(t)
                     PROVE  Behind(Cmd(t).asset, work[t].token)'
          BY <2>1 DEF ProgramAhead, Current
        <4>1. PICK a \in Asset, n \in Nat :
                  a = Cmd(t).asset /\ n = work[t].token
          BY <2>3, FenceTyped
        <4>2. asset[a].mode = "maintenance" /\ Behind(a, n)
          BY <3>1, <3>6, <4>1
          DEF ThreadAhead, ReadTrue, ProgramAhead, RequiredMode, Granted
        <4>3. Behind(a, n)'
          BY <1>2, <4>2, BehindKept
        <4> QED BY <2>1, <4>1, <4>3 DEF Behind
      <3> QED BY <3>5, <3>7, <3>8 DEF ThreadAhead
    <2> QED BY <2>2, <2>3
  <1> QED BY <1>2, <1>3, <1>4, FencesKept

LEMMA AdmitsAdvance ==
  ASSUME CoreInvariant, CoreInvariant', FenceInvariant, NEW call \in wire,
         DccAdmits(call)
  PROVE  FencesAdvance /\ CallsPassed'
  <1>1. PICK a \in Asset, n \in Nat : a = call.command.asset /\ n = call.token
    BY FenceTyped DEF Calls
  <1>2. /\ dcc'.fence = Advanced(dcc, call) /\ taken' = taken \cup {call}
        /\ Fenced(call) => n >= dcc.fence[a]
    BY <1>1 DEF DccAdmits, AcceptsSession, Fenced, Leased, CoreInvariant, TypeOK
  <1>3. \A b \in Asset : dcc'.fence[b] = IF Fenced(call) /\ b = a THEN n
                                        ELSE dcc.fence[b]
    BY <1>1, <1>2 DEF Advanced, CoreInvariant, TypeOK
  <1>4. \A b \in Asset : dcc'.fence[b] >= dcc.fence[b]
    BY <1>2, <1>3, FenceTyped
  <1>5. ASSUME NEW other \in taken', Fenced(other)
        PROVE  other.token <= dcc'.fence[other.command.asset]
    <2>1. CASE other = call
      BY <1>1, <1>3, <1>5, <2>1
    <2>2. CASE other # call
      <3>1. other \in taken
        BY <1>2, <2>2
      <3>2. /\ other.command.asset \in Asset /\ other.token \in Nat
            /\ dcc.fence[other.command.asset] \in Nat
            /\ dcc'.fence[other.command.asset] \in Nat
            /\ other.token <= dcc.fence[other.command.asset]
        BY <1>5, <3>1, FenceTyped, NextFenceTyped
        DEF FenceInvariant, CallsPassed, Calls
      <3> QED BY <1>4, <3>2
    <2> QED BY <2>1, <2>2
  <1>6. dcc'.session = dcc.session /\ dcc'.forgot = dcc.forgot
    BY DEF DccAdmits, CoreInvariant, TypeOK
  <1> QED BY <1>4, <1>5, <1>6 DEF CallsPassed, Fenced, FencesAdvance

LEMMA AdapterFences ==
  ASSUME CoreInvariant, CoreInvariant', JournalInvariant, AddressInvariant,
         FenceInvariant, SessionInvariant, AdapterStep
  PROVE  FenceInvariant'
  <1>1. ASSUME NEW call \in wire \cup taken, DccAdmits(call)
        PROVE  FenceInvariant'
    <2>1. /\ call \in wire /\ call \in Calls /\ UNCHANGED <<pc, work, reply>>
          /\ UNCHANGED <<asset, lease, late>>
          /\ wire' \subseteq wire /\ Calls' \subseteq Calls
      BY <1>1 DEF DccAdmits, CoreAside, Calls
    <2> QED BY <1>1, <2>1, AdmitsAdvance, AnswerPassed
  <1>2. ASSUME NEW call \in wire \cup taken,
               DccActs(call) \/ DccRefuses(call) \/ McAccepts(call)
               \/ McRefuses(call)
        PROVE  FenceInvariant'
    <2>1. /\ call \in Calls /\ UNCHANGED <<pc, work>>
          /\ UNCHANGED <<asset, lease, late>> /\ dcc'.fence = dcc.fence
          /\ dcc'.session = dcc.session /\ dcc'.forgot = dcc.forgot
          /\ taken' \subseteq taken /\ wire' \subseteq wire
      BY <1>2 DEF DccActs, DccRefuses, McAccepts, McRefuses, CoreAside, Calls,
                  CoreInvariant, TypeOK
    <2>2. FencesAdvance
      BY <2>1, FenceTyped DEF FencesAdvance
    <2>3. CallsPassed'
      BY <2>1 DEF FenceInvariant, CallsPassed, Fenced
    <2>4. Calls' \subseteq Calls
      BY <2>1 DEF Calls
    <2>5. \/ Tell(call, "error")
          \/ /\ \E answer \in {"ok", "error"} : Tell(call, answer)
             /\ ForMc(call) \/ call \in taken
      BY <1>2 DEF DccActs, DccRefuses, McAccepts, McRefuses
    <2> QED BY <2>1, <2>2, <2>3, <2>4, <2>5, AnswerPassed
  <1> QED BY <1>1, <1>2, AsideFences DEF AdapterStep

LEMMA FenceStep ==
  ASSUME CoreInvariant, CoreInvariant', JournalInvariant, AddressInvariant,
         TokensIssued, FenceInvariant, SessionInvariant, [Next]_vars
  PROVE  FenceInvariant'
  <1>1. ASSUME NEW t \in Thread, CommandStep(t) PROVE FenceInvariant'
    BY <1>1, EarlyFences, ReadFences, RequestFences, SendFences, SentFences,
       CommitFences
    DEF CommandStep
  <1>2. CASE UNCHANGED vars
    BY <1>2, AsideFences
  <1>3. CASE Next
    BY <1>1, <1>3, AsideFences, StartFences, ArriveFences, AdapterFences,
       OwnerFences, LateFences
    DEF Next, ProcessStep
  <1> QED BY <1>2, <1>3

LEMMA InitFences == Init => FenceInvariant
  <1> SUFFICES ASSUME Init PROVE FenceInvariant
    OBVIOUS
  <1>1. /\ \A t \in Thread : pc[t] = "idle"
        /\ wire = {} /\ taken = {} /\ late = {}
        /\ \A a \in Asset : lease[a] = None
    BY DEF Init, RegistryInit
  <1>2. \A a, n, d : ~Moving(a, n, d)
    BY <1>1 DEF Moving, Driving
  <1>3. \A t \in Thread : ThreadAhead(t) /\ CallsOwn(t)
    BY <1>1 DEF ThreadAhead, ReadTrue, ProgramAhead, ProgramPassed, Current,
                VerifiedBy, CallsOwn
  <1> QED BY <1>1, <1>2, <1>3
          DEF FenceInvariant, MovesFenced, LeaseAhead, CallsPassed

LEMMA CommandKeepsOp ==
  ASSUME CoreInvariant, NEW t \in Thread, CommandStep(t),
         NEW u \in Thread, pc'[u] # "idle"
  PROVE  pc[u] # "idle" /\ Op(u)' = Op(u)
  <1>1. CASE u # t
    BY <1>1, CommandOthers DEF OthersStay, Op
  <1>2. CASE u = t
    <2>1. pc[t] # "idle"
      BY DEF CommandStep, Lookup, ReadAsset, ChooseReservation, RequestLease,
             CheckReservation, HoldReservation, Refuse, LeaseUnanswered, Begin,
             SendCall, Confirmed, FinishUncertain, CommitAddress,
             CommitUnanswered, ReleaseReservation, FinishProgrammed, At
    <2>2. work[t] \in Work
      BY <2>1, CommandsTyped
    <2>3. ~Answer(t)
      BY <1>2, AnswerLeaves DEF Left
    <2>4. CASE UNCHANGED work
      BY <1>2, <2>1, <2>4 DEF Op
    <2>5. CASE ReadAsset(t) \/ ChooseReservation(t) \/ RequestLease(t)
      <3>1. work'[t].command = work[t].command
        BY <2>2, <2>3, <2>5
        DEF ReadAsset, ChooseReservation, RequestLease, Work,
            CoreInvariant, TypeOK
      <3> QED BY <1>2, <2>1, <3>1 DEF Op
    <2> QED BY <2>3, <2>4, <2>5
            DEF CommandStep, Lookup, CheckReservation, HoldReservation, Refuse,
                LeaseUnanswered, Begin, SendCall, Confirmed, FinishUncertain,
                CommitAddress, CommitUnanswered, ReleaseReservation,
                FinishProgrammed
  <1> QED BY <1>1, <1>2

LEMMA InitSession == Init => SessionInvariant
  BY DEF Init, SessionInvariant

LEMMA SessionStep ==
  ASSUME CoreInvariant, SessionInvariant, [Next]_vars
  PROVE  SessionInvariant'
  <1>1. CASE UNCHANGED vars
    BY <1>1 DEF SessionInvariant, Op
  <1>2. CASE Boot
    BY <1>2, CommandsTyped
    DEF Boot, SessionInvariant, Op, CoreInvariant, TypeOK, Call, Session, Calls
  <1>3. CASE StartDcc
    BY <1>3 DEF StartDcc, SessionInvariant, Op, CoreInvariant, TypeOK
  <1>4. CASE StartMc
    BY <1>4 DEF StartMc, SessionInvariant, Op
  <1>5. CASE Crash
    BY <1>5 DEF Crash, SessionInvariant
  <1>6. CASE \/ Resume \/ ReadExecutions \/ ReconcileMc \/ OwnerEdits
             \/ (\E r \in late : LateRequest(r))
    BY <1>6 DEF Resume, ReadExecutions, ReconcileMc, OwnerEdits, LateRequest,
                SessionInvariant, Op
  <1>7. ASSUME NEW t \in Thread, NEW c \in Commands, Arrive(t, c)
        PROVE  SessionInvariant'
    <2>1. /\ UNCHANGED <<phase, epoch, dcc, wire>> /\ work'[t].command = c
          /\ c.op \notin {"cv", "emergency"} => phase = "up"
          /\ \A u \in Thread \ {t} : pc'[u] = pc[u] /\ work'[u] = work[u]
      BY <1>7 DEF Arrive, Admits, GoTo, CoreInvariant, TypeOK
    <2> QED BY <2>1 DEF SessionInvariant, Op
  <1>8. ASSUME NEW t \in Thread, CommandStep(t) PROVE SessionInvariant'
    <2>1. UNCHANGED <<phase, epoch, dcc>>
      BY <1>8
      DEF CommandStep, Lookup, ReadAsset, ChooseReservation, RequestLease,
          CheckReservation, HoldReservation, Refuse, LeaseUnanswered, Begin,
          SendCall, Confirmed, FinishUncertain, CommitAddress,
          CommitUnanswered, ReleaseReservation, FinishProgrammed, Elsewhere
    <2>2. ASSUME NEW u \in Thread, pc'[u] # "idle"
          PROVE  pc[u] # "idle" /\ Op(u)' = Op(u)
      BY <1>8, <2>2, CommandKeepsOp
    <2>3. ASSUME NEW call \in wire' \ wire
          PROVE  /\ call.session = epoch
                 /\ call.command.op = "throttle" => phase = "up"
      <3>1. SendCall(t) \/ UNCHANGED wire
        BY <1>8
        DEF CommandStep, Lookup, ReadAsset, ChooseReservation, RequestLease,
            CheckReservation, HoldReservation, Refuse, LeaseUnanswered, Begin,
            Confirmed, FinishUncertain, CommitAddress, CommitUnanswered,
            ReleaseReservation, FinishProgrammed, Elsewhere
      <3>2. /\ pc[t] = "call" /\ call.session = epoch /\ call.command = Cmd(t)
        BY <2>3, <3>1 DEF SendCall, At
      <3> QED BY <3>2 DEF SessionInvariant, Op, Cmd
    <2>4. epoch \in Nat
      BY DEF CoreInvariant, TypeOK
    <2> QED BY <2>1, <2>2, <2>3, <2>4 DEF SessionInvariant
  <1>9. CASE AdapterStep
    <2>1. /\ UNCHANGED <<phase, epoch, pc, work>> /\ wire' \subseteq wire
          /\ \/ dcc'.session = dcc.session /\ dcc'.forgot = dcc.forgot
             \/ dcc'.forgot
      BY <1>9
      DEF AdapterStep, DccAdmits, DccActs, DccRefuses, McAccepts, McRefuses,
          McResolves, RestartDcc, RestartMc, CoreAside, CoreInvariant, TypeOK
    <2> QED BY <2>1 DEF SessionInvariant, Op
  <1> QED BY <1>1, <1>2, <1>3, <1>4, <1>5, <1>6, <1>7, <1>8, <1>9
          DEF Next, ProcessStep

LEMMA SessionCorrect == Spec => []SessionInvariant
  <1>1. CoreInvariant /\ SessionInvariant /\ [Next]_vars => SessionInvariant'
    BY SessionStep
  <1> QED BY <1>1, InitSession, CoreCorrect, PTL DEF Spec

(* What DCC takes has passed the fence, so it is not for another address.   *)
LEMMA TakenRight ==
  ASSUME CoreInvariant, AddressInvariant, FenceInvariant, [Next]_vars,
         NEW call \in taken' \ taken, call.command.op = "throttle"
  PROVE  Meant(call) \/ dcc.forgot
  <1> SUFFICES ASSUME ~dcc.forgot PROVE Meant(call)
    OBVIOUS
  <1>1. call \in wire /\ AcceptsSession(dcc, call)
    <2>1. taken' \ taken # {} =>
              \E other \in wire \cup taken : DccAdmits(other)
      BY DEF Next, ProcessStep, Boot, StartDcc, StartMc, Crash, Resume,
             ReadExecutions, ReconcileMc, OwnerEdits, LateRequest, Arrive,
             CommandStep, Lookup, ReadAsset, ChooseReservation, RequestLease,
             CheckReservation, HoldReservation, Refuse, LeaseUnanswered, Begin,
             SendCall, Confirmed, FinishUncertain, CommitAddress,
             CommitUnanswered, ReleaseReservation, FinishProgrammed, Elsewhere,
             AdapterStep, DccActs, DccRefuses, McAccepts, McRefuses,
             McResolves, RestartDcc, RestartMc
    <2> QED BY <2>1 DEF DccAdmits
  <1>2. PICK a \in Asset, n \in Nat, d \in Place :
            a = call.command.asset /\ n = call.token /\ d = call.address
    BY <1>1, FenceTyped DEF Calls
  <1>3. n >= dcc.fence[a] /\ dcc.fence[a] \in Nat
    BY <1>1, <1>2, FenceTyped DEF AcceptsSession, Fenced, Leased
  <1>4. Moving(a, n, d)
    BY <1>1, <1>2 DEF Moving, AcceptsSession
  <1>5. d = asset[a].address
    BY <1>3, <1>4 DEF FenceInvariant, MovesFenced
  <1> QED BY <1>2, <1>5 DEF AddressInvariant, DecoderKnown, Meant

(* No call to move, however late, lost or retried, is taken for a decoder   *)
(* that has changed its address since: the fence, which a programming moves *)
(* past every token issued before it, keeps such calls back, unless an      *)
(* address is unresolved or DCC was restarted under the running Core, which *)
(* starts its session again (RightLocomotive).                             *)
THEOREM LocomotivesRight == Spec => RightLocomotive
  <1>1. CoreInvariant /\ CoreInvariant' /\ JournalInvariant
            /\ AddressInvariant /\ TokensIssued /\ FenceInvariant
            /\ SessionInvariant /\ [Next]_vars
        => FenceInvariant'
    BY FenceStep
  <1>2. CoreInvariant /\ CoreInvariant' /\ JournalInvariant
            /\ AddressInvariant /\ [Next]_vars
        => AddressInvariant'
    BY AddressStep
  <1>3. CoreInvariant /\ AddressInvariant /\ FenceInvariant /\ [Next]_vars
        => [\A call \in taken' \ taken :
              call.command.op = "throttle" => Meant(call) \/ dcc.forgot]_vars
    BY TakenRight
  <1> QED BY <1>1, <1>2, <1>3, InitFences, InitAddress, JournalCorrect,
             SessionCorrect, CoreCorrect, CoreTokensIssued, PTL
          DEF Spec, RightLocomotive
=============================================================================
