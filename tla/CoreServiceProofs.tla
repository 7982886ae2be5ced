-------------------------- MODULE CoreServiceProofs --------------------------
(* Theorems about AssetLease and about CoreService, for every set of        *)
(* threads, assets, addresses, identities and commands and every bound.    *)
EXTENDS CoreService, TLAPS

----------------------------------------------------------------------------
(* The asset service alone (AssetLease) *)

(* What a step of the registry preserves. *)
LeaseInvariant == RegistryTypeOK /\ LeaseNewest

LEMMA InitInvariant == RegistryInit => LeaseInvariant
  BY NoneAssumption DEF RegistryInit, LeaseInvariant, RegistryTypeOK,
                        LeaseNewest, AssetRecord, Mode

(* A grant continues the counter or repeats its newest token. *)
LEMMA GrantNewest ==
  ASSUME LeaseInvariant, NEW a \in Asset, NEW s \in Session
  PROVE  /\ GrantedToken(a, s) \in Nat \ {0}
         /\ Renews(a, s) => GrantedToken(a, s) = fence[a]
         /\ ~Renews(a, s) => GrantedToken(a, s) = fence[a] + 1
  <1>1. CASE Renews(a, s)
    <2>1. lease[a] \in Lease
      BY <1>1 DEF Renews, LeaseInvariant, RegistryTypeOK
    <2>2. lease[a].token = fence[a]
      BY <1>1 DEF Renews, LeaseInvariant, LeaseNewest
    <2> QED BY <1>1, <2>1, <2>2 DEF GrantedToken, Lease
  <1>2. CASE ~Renews(a, s)
    BY <1>2 DEF GrantedToken, LeaseInvariant, RegistryTypeOK
  <1> QED BY <1>1, <1>2

LEMMA AcquireInvariant ==
  ASSUME LeaseInvariant, NEW a \in Asset, NEW revision, NEW s \in Session,
         AcquireLease(a, revision, s)
  PROVE  LeaseInvariant'
  <1> DEFINE granted == [token |-> GrantedToken(a, s), session |-> s]
  <1>1. granted \in Lease
    BY GrantNewest DEF Lease
  <1>2. RegistryTypeOK'
    BY <1>1 DEF AcquireLease, LeaseInvariant, RegistryTypeOK
  <1>3. ASSUME NEW b \in Asset, lease'[b] # None
        PROVE  lease'[b].token = fence'[b]
    <2>1. CASE b = a
      <3>1. lease'[b].token = GrantedToken(a, s)
        BY <2>1 DEF AcquireLease, LeaseInvariant, RegistryTypeOK
      <3>2. fence'[b] = GrantedToken(a, s)
        BY <2>1, GrantNewest DEF AcquireLease, LeaseInvariant, RegistryTypeOK
      <3> QED BY <3>1, <3>2
    <2>2. CASE b # a
      <3>1. lease'[b] = lease[b] /\ fence'[b] = fence[b]
        BY <2>2 DEF AcquireLease, LeaseInvariant, RegistryTypeOK
      <3> QED BY <3>1, <1>3 DEF LeaseInvariant, LeaseNewest
    <2> QED BY <2>1, <2>2
  <1> QED BY <1>2, <1>3 DEF LeaseInvariant, LeaseNewest

LEMMA EditInvariant ==
  ASSUME LeaseInvariant, NEW a \in Asset,
         \/ EditDescription(a) \/ EditOperatingView(a)
         \/ \E d \in Address : \E r : UpdateProgrammedAddress(a, r, d)
  PROVE  LeaseInvariant'
  <1>1. asset' \in [Asset -> AssetRecord]
    BY DEF LeaseInvariant, RegistryTypeOK, EditDescription, EditOperatingView,
           UpdateProgrammedAddress, AssetRecord, Mode
  <1>2. /\ fence' = fence
        /\ \/ lease' = lease
           \/ lease' = [lease EXCEPT ![a] = None]
    BY DEF EditDescription, EditOperatingView, UpdateProgrammedAddress,
           RetireLease
  <1> QED BY <1>1, <1>2 DEF LeaseInvariant, RegistryTypeOK, LeaseNewest

LEMMA NextInvariant == LeaseInvariant /\ [RegistryNext]_registry => LeaseInvariant'
  <1> SUFFICES ASSUME LeaseInvariant, [RegistryNext]_registry
               PROVE  LeaseInvariant'
    OBVIOUS
  <1>1. CASE UNCHANGED registry
    BY <1>1 DEF registry, LeaseInvariant, RegistryTypeOK, LeaseNewest
  <1>2. ASSUME NEW a \in Asset,
               \/ EditDescription(a) \/ EditOperatingView(a)
               \/ \E d \in Address :
                      UpdateProgrammedAddress(a, asset[a].revision, d)
        PROVE  LeaseInvariant'
    BY <1>2, EditInvariant
  <1>3. ASSUME NEW a \in Asset, NEW s \in Session,
               AcquireLease(a, asset[a].revision, s)
        PROVE  LeaseInvariant'
    BY <1>3, AcquireInvariant
  <1> QED BY <1>1, <1>2, <1>3 DEF RegistryNext

(* The registry stays well typed and a lease that is held carries the       *)
(* newest token of its asset.                                               *)
THEOREM LeasesCorrect == RegistrySpec => []LeaseInvariant
  BY InitInvariant, NextInvariant, PTL DEF RegistrySpec

(* LeaseNewest for every registry: the holder is never fenced out.          *)
THEOREM NewestLease == RegistrySpec => []LeaseNewest
  <1>1. LeaseInvariant => LeaseNewest
    BY DEF LeaseInvariant
  <1> QED BY <1>1, LeasesCorrect, PTL

(* One step of TokenUnique. *)
TokenStep ==
  \A a \in Asset :
      /\ fence'[a] >= fence[a]
      /\ (lease'[a] # None /\ lease'[a] # lease[a])
             => lease'[a].token > fence[a]
      /\ (lease'[a] # None /\ lease'[a] = lease[a])
             => /\ asset'[a].mode = asset[a].mode
                /\ asset'[a].address = asset[a].address

(* A grant numbers its lease above every earlier token, or repeats the      *)
(* lease of its holder.                                                     *)
LEMMA AcquireToken ==
  ASSUME LeaseInvariant, NEW a \in Asset, NEW revision, NEW s \in Session,
         AcquireLease(a, revision, s)
  PROVE  TokenStep
  <1> SUFFICES ASSUME NEW b \in Asset
               PROVE  /\ fence'[b] >= fence[b]
                      /\ (lease'[b] # None /\ lease'[b] # lease[b])
                             => lease'[b].token > fence[b]
    BY DEF TokenStep, AcquireLease
  <1>1. CASE b # a
    BY <1>1 DEF AcquireLease, LeaseInvariant, RegistryTypeOK
  <1>2. CASE b = a /\ Renews(a, s)
    <2>1. lease[a] \in Lease /\ lease[a].session = s
      BY <1>2 DEF Renews, LeaseInvariant, RegistryTypeOK
    <2>2. lease'[a] = [token |-> lease[a].token, session |-> s]
      BY <1>2 DEF AcquireLease, GrantedToken, LeaseInvariant, RegistryTypeOK
    <2>3. lease'[a] = lease[a]
      BY <2>1, <2>2 DEF Lease
    <2>4. fence' = fence /\ fence[a] \in Nat
      BY <1>2 DEF AcquireLease, LeaseInvariant, RegistryTypeOK
    <2> QED BY <1>2, <2>3, <2>4
  <1>3. CASE b = a /\ ~Renews(a, s)
    <2>1. fence[a] \in Nat /\ fence'[a] = fence[a] + 1
      BY <1>3 DEF AcquireLease, LeaseInvariant, RegistryTypeOK
    <2>2. lease'[a] = [token |-> GrantedToken(a, s), session |-> s]
      BY DEF AcquireLease, LeaseInvariant, RegistryTypeOK
    <2>3. lease'[a].token = fence[a] + 1
      BY <2>2, <1>3, GrantNewest
    <2> QED BY <1>3, <2>1, <2>3
  <1> QED BY <1>1, <1>2, <1>3

(* An edit issues no token, and the lease of the edited asset goes whenever *)
(* its mode or address does.                                               *)
LEMMA EditToken ==
  ASSUME LeaseInvariant, NEW a \in Asset,
         \/ EditDescription(a) \/ EditOperatingView(a)
         \/ \E d \in Address : \E r : UpdateProgrammedAddress(a, r, d)
  PROVE  TokenStep
  <1> SUFFICES ASSUME NEW b \in Asset
               PROVE  /\ fence'[b] >= fence[b]
                      /\ (lease'[b] # None /\ lease'[b] # lease[b])
                             => lease'[b].token > fence[b]
                      /\ (lease'[b] # None /\ lease'[b] = lease[b])
                             => /\ asset'[b].mode = asset[b].mode
                                /\ asset'[b].address = asset[b].address
    BY DEF TokenStep
  <1>1. fence' = fence /\ fence[b] \in Nat
    BY DEF EditDescription, EditOperatingView, UpdateProgrammedAddress,
           RetireLease, LeaseInvariant, RegistryTypeOK
  <1>2. CASE EditDescription(a)
    <2>1. lease' = lease
      BY <1>2 DEF EditDescription
    <2>2. asset'[b].mode = asset[b].mode /\ asset'[b].address = asset[b].address
      BY <1>2 DEF EditDescription, LeaseInvariant, RegistryTypeOK, AssetRecord
    <2> QED BY <1>1, <2>1, <2>2
  <1>3. CASE ~EditDescription(a)
    <2>1. lease' = [lease EXCEPT ![a] = None]
      BY <1>3 DEF EditOperatingView, UpdateProgrammedAddress, RetireLease
    <2>2. lease'[b] # None => b # a /\ lease'[b] = lease[b]
      BY <2>1 DEF LeaseInvariant, RegistryTypeOK
    <2>3. b # a => asset'[b] = asset[b]
      BY <1>3 DEF EditOperatingView, UpdateProgrammedAddress,
                  LeaseInvariant, RegistryTypeOK
    <2> QED BY <1>1, <2>2, <2>3
  <1> QED BY <1>2, <1>3

LEMMA NextToken == LeaseInvariant /\ [RegistryNext]_registry => [TokenStep]_registry
  <1> SUFFICES ASSUME LeaseInvariant, RegistryNext
               PROVE  TokenStep
    OBVIOUS
  <1>1. ASSUME NEW a \in Asset,
               \/ EditDescription(a) \/ EditOperatingView(a)
               \/ \E d \in Address :
                      UpdateProgrammedAddress(a, asset[a].revision, d)
        PROVE  TokenStep
    BY <1>1, EditToken
  <1>2. ASSUME NEW a \in Asset, NEW s \in Session,
               AcquireLease(a, asset[a].revision, s)
        PROVE  TokenStep
    BY <1>2, AcquireToken
  <1> QED BY <1>1, <1>2 DEF RegistryNext

(* No token is issued twice and no lease outlives the operating view it     *)
(* was granted for, whatever follows what.                                  *)
THEOREM TokensUnique == RegistrySpec => TokenUnique
  <1>1. [][TokenStep]_registry => TokenUnique
    BY PTL DEF TokenUnique, TokenStep
  <1> QED BY <1>1, LeasesCorrect, NextToken, PTL DEF RegistrySpec

----------------------------------------------------------------------------
(* Types, and the asset service in use *)


(* The stages that only some operations pass. *)
OnPath(op, stage) ==
    /\ stage = "lookup" => op \notin {"cv", "emergency"}
    /\ stage \in {"read", "lease"} => op \in Leased
    /\ stage = "choose" => op = "stop"

(* A thread works only while the process lives, and from its journal entry  *)
(* on the entry is there.                                                  *)
Entered == {"call", "waiting", "commit", "release", "done"}
CoreInvariant ==
    /\ TypeOK
    /\ \A t \in Thread : pc[t] # "idle" => phase # "down"
    /\ \A t \in Thread : pc[t] \in Entered => row[work[t].command.id] # None
    /\ \A t \in Thread : pc[t] # "idle" => OnPath(work[t].command.op, pc[t])

USE DEF registry, process, journal, threads, adapters, vars

LEMMA InitCore == Init => CoreInvariant
  <1> SUFFICES ASSUME Init PROVE CoreInvariant
    OBVIOUS
  <1>1. RegistryTypeOK
    BY InitInvariant DEF Init, LeaseInvariant
  <1>2. /\ pc \in [Thread -> Stage] /\ \A t \in Thread : pc[t] = "idle"
        /\ work \in [Thread -> Work \cup {None}]
        /\ \A t \in Thread : work[t] = None
        /\ reply \in [Thread -> {"ok", "error", None}]
    BY DEF Init, Stage
  <1>3. dcc \in [session : 0..MaxSession, fence : [Asset -> Nat],
                 forgot : BOOLEAN, restarts : 0..MaxDccRestarts,
                 decoder : [Asset -> Address], moving : SUBSET Asset]
    BY <1>1, LeaseBoundsAssumption, RestartsAssumption
    DEF Init, RegistryTypeOK, AssetRecord
  <1>4. mc \in [session : 0..MaxSession, fence : [Asset -> Nat],
                restarts : 0..MaxMcRestarts,
                execution : [CommandId -> Execution \cup {None}]]
    BY LeaseBoundsAssumption, RestartsAssumption DEF Init
  <1>5. latched \in BOOLEAN
    BY DEF Init
  <1>6. /\ row \in [CommandId -> Row \cup {None}]
        /\ reservation \in [Asset -> Reservation \cup {None}]
        /\ acts \in [CommandId -> Nat]
    BY DEF Init
  <1>7. /\ phase \in {"down", "booted", "dcc", "up"}
        /\ epoch \in 0..MaxSession /\ (phase # "down" => epoch > 0)
        /\ arrivals \in 0..MaxArrivals
        /\ wire \in SUBSET Call /\ taken \in SUBSET Call
        /\ late \in SUBSET Request
        /\ seen \in [CommandId -> Execution \cup {None}] \cup {None}
    BY LeaseBoundsAssumption, ArrivalsAssumption DEF Init
  <1>8. TypeOK
    BY <1>1, <1>2, <1>3, <1>4, <1>5, <1>6, <1>7 DEF TypeOK
  <1> QED BY <1>2, <1>8 DEF CoreInvariant, Entered

(* What a thread works on. *)
LEMMA Working ==
  ASSUME CoreInvariant, NEW t \in Thread, pc[t] # "idle"
  PROVE  /\ work[t] \in Work
         /\ Cmd(t) \in Command /\ Op(t) \in Operation
         /\ Cmd(t).id \in CommandId /\ Cmd(t).asset \in Asset
         /\ Cmd(t).value \in Address
         /\ phase # "down" /\ epoch \in Session
  BY CommandsAssumption
  DEF CoreInvariant, TypeOK, Work, Cmd, Op, Command, Session

LEMMA ProcessCore == CoreInvariant /\ ProcessStep => CoreInvariant'
  <1> SUFFICES ASSUME CoreInvariant PROVE ProcessStep => CoreInvariant'
    OBVIOUS
  <1>1. Boot => CoreInvariant'
    BY LeaseBoundsAssumption DEF Boot, CoreInvariant, TypeOK, RegistryTypeOK
  <1>2. ASSUME StartDcc PROVE CoreInvariant'
    <2>1. dcc' \in [session : 0..MaxSession, fence : [Asset -> Nat],
                    forgot : BOOLEAN, restarts : 0..MaxDccRestarts,
                    decoder : [Asset -> Address], moving : SUBSET Asset]
      BY <1>2 DEF StartDcc, CoreInvariant, TypeOK
    <2>2. phase' \in {"dcc", "up"} /\ phase # "down" /\ epoch' = epoch
      BY <1>2 DEF StartDcc
    <2> QED BY <1>2, <2>1, <2>2 DEF StartDcc, CoreInvariant, TypeOK, RegistryTypeOK
  <1>3. StartMc => CoreInvariant'
    BY DEF StartMc, CoreInvariant, TypeOK, RegistryTypeOK
  <1>4. ASSUME Crash PROVE CoreInvariant'
    <2>1. /\ pc' \in [Thread -> Stage] /\ \A t \in Thread : pc'[t] = "idle"
          /\ work' \in [Thread -> Work \cup {None}]
          /\ \A t \in Thread : work'[t] = None
          /\ reply' \in [Thread -> {"ok", "error", None}]
      BY <1>4 DEF Crash, Stage
    <2>2. TypeOK'
      BY <1>4, <2>1 DEF Crash, CoreInvariant, TypeOK, RegistryTypeOK
    <2> QED BY <2>1, <2>2 DEF CoreInvariant, Entered
  <1> QED BY <1>1, <1>2, <1>3, <1>4 DEF ProcessStep

LEMMA FollowingStage ==
  ASSUME NEW op \in Operation, NEW stage \in {"arrive", "lookup", "read", "lease"},
         OnPath(op, stage)
  PROVE  /\ Following[op][stage] \in Stage \ ({"idle"} \cup Entered)
         /\ OnPath(op, Following[op][stage])
  <1>1. CASE op = "throttle"
    BY <1>1 DEF Following, Stage, Entered, OnPath, Leased
  <1>2. CASE op = "stop"
    BY <1>2 DEF Following, Stage, Entered, OnPath, Leased
  <1>3. CASE op = "program"
    BY <1>3 DEF Following, Stage, Entered, OnPath, Leased
  <1>4. CASE op = "cv"
    BY <1>4 DEF Following, Stage, Entered, OnPath, Leased
  <1>5. CASE op = "stationary"
    BY <1>5 DEF Following, Stage, Entered, OnPath, Leased
  <1>6. CASE op = "power"
    BY <1>6 DEF Following, Stage, Entered, OnPath, Leased
  <1>7. CASE op = "emergency"
    BY <1>7 DEF Following, Stage, Entered, OnPath, Leased
  <1> QED BY <1>1, <1>2, <1>3, <1>4, <1>5, <1>6, <1>7 DEF Operation

(* Nothing of the threads is ill typed, and what they work on agrees with   *)
(* their stage.                                                            *)
ThreadsTyped ==
    /\ pc \in [Thread -> Stage]
    /\ work \in [Thread -> Work \cup {None}]
    /\ \A t \in Thread : pc[t] = "idle" <=> work[t] = None
    /\ reply \in [Thread -> {"ok", "error", None}]
    /\ \A t \in Thread : pc[t] # "idle" => phase # "down"
    /\ \A t \in Thread : pc[t] \in Entered => row[work[t].command.id] # None
    /\ \A t \in Thread : pc[t] # "idle" => OnPath(work[t].command.op, pc[t])

(* Rows only appear. *)
RowsKept == \A k \in CommandId : row[k] # None => row'[k] # None

LEMMA IdsTyped ==
  ASSUME CoreInvariant
  PROVE  \A t \in Thread : pc[t] # "idle" => work[t].command.id \in CommandId
  BY Working DEF Cmd

LEMMA AnswerTyped ==
  ASSUME CoreInvariant, NEW t \in Thread, Answer(t), RowsKept, UNCHANGED phase
  PROVE  ThreadsTyped'
  <1>1. /\ pc' \in [Thread -> Stage] /\ work' \in [Thread -> Work \cup {None}]
        /\ reply' \in [Thread -> {"ok", "error", None}]
    BY DEF Answer, CoreInvariant, TypeOK, Stage
  <1>2. ASSUME NEW u \in Thread
        PROVE  /\ u = t => pc'[u] = "idle" /\ work'[u] = None
               /\ u # t => pc'[u] = pc[u] /\ work'[u] = work[u]
    BY DEF Answer, CoreInvariant, TypeOK
  <1> QED BY <1>1, <1>2, IdsTyped
          DEF ThreadsTyped, CoreInvariant, TypeOK, RowsKept, Entered

LEMMA MoveTyped ==
  ASSUME CoreInvariant, NEW t \in Thread, pc[t] # "idle",
         NEW stage \in Stage \ {"idle"}, GoTo(t, stage),
         NEW w \in Work, w.command = work[t].command,
         work' = [work EXCEPT ![t] = w],
         stage \in Entered => row'[work[t].command.id] # None,
         OnPath(work[t].command.op, stage),
         UNCHANGED reply, RowsKept, UNCHANGED phase
  PROVE  ThreadsTyped'
  <1>1. pc' \in [Thread -> Stage] /\ work' \in [Thread -> Work \cup {None}]
    BY DEF GoTo, CoreInvariant, TypeOK
  <1>2. ASSUME NEW u \in Thread
        PROVE  /\ u = t => pc'[u] = stage /\ work'[u] = w
               /\ u # t => pc'[u] = pc[u] /\ work'[u] = work[u]
    BY DEF GoTo, CoreInvariant, TypeOK
  <1>3. w # None
    BY AbsenceAssumption
  <1>4. ASSUME NEW u \in Thread
        PROVE  /\ pc'[u] = "idle" <=> work'[u] = None
               /\ pc'[u] # "idle" => phase' # "down"
               /\ pc'[u] \in Entered => row'[work'[u].command.id] # None
               /\ pc'[u] # "idle" => OnPath(work'[u].command.op, pc'[u])
    <2>1. CASE u = t
      BY <2>1, <1>2, <1>3 DEF CoreInvariant, TypeOK
    <2>2. CASE u # t
      <3>1. pc'[u] = pc[u] /\ work'[u] = work[u]
        BY <2>2, <1>2
      <3>2. pc[u] \in Entered => row'[work[u].command.id] # None
        BY IdsTyped DEF CoreInvariant, RowsKept, Entered
      <3> QED BY <3>1, <3>2 DEF CoreInvariant, TypeOK
    <2> QED BY <2>1, <2>2
  <1> QED BY <1>1, <1>4 DEF ThreadsTyped, CoreInvariant, TypeOK

LEMMA GoToTyped ==
  ASSUME CoreInvariant, NEW t \in Thread, pc[t] # "idle",
         NEW stage \in Stage \ {"idle"}, GoTo(t, stage),
         stage \in Entered => row'[work[t].command.id] # None,
         OnPath(work[t].command.op, stage),
         UNCHANGED <<work, reply>>, RowsKept, UNCHANGED phase
  PROVE  ThreadsTyped'
  <1>1. work[t] \in Work /\ work' = [work EXCEPT ![t] = work[t]]
    BY DEF CoreInvariant, TypeOK
  <1> QED BY <1>1, MoveTyped

(* A step of a thread leaves the rest alone. *)
LEMMA CommandAssembled ==
  ASSUME CoreInvariant, ThreadsTyped', RegistryTypeOK',
         row' \in [CommandId -> Row \cup {None}],
         reservation' \in [Asset -> Reservation \cup {None}],
         late' \in SUBSET Request, wire' \in SUBSET Call,
         UNCHANGED <<process, arrivals, taken, dcc, mc, seen, acts>>
  PROVE  CoreInvariant'
  BY DEF CoreInvariant, TypeOK, ThreadsTyped

(* What a step does not touch keeps its type. *)
LEMMA RestTyped ==
  ASSUME CoreInvariant
  PROVE  /\ UNCHANGED registry => RegistryTypeOK'
         /\ UNCHANGED row => row' \in [CommandId -> Row \cup {None}] /\ RowsKept
         /\ UNCHANGED reservation =>
                reservation' \in [Asset -> Reservation \cup {None}]
         /\ UNCHANGED late => late' \in SUBSET Request
         /\ UNCHANGED wire => wire' \in SUBSET Call
  BY DEF CoreInvariant, TypeOK, RegistryTypeOK, RowsKept

LEMMA FinishTyped ==
  ASSUME CoreInvariant, NEW t \in Thread, pc[t] \in Entered,
         NEW s \in {"accepted", "completed", "failed", "uncertain"},
         NEW result \in BOOLEAN, FinishAs(t, s, result)
  PROVE  row' \in [CommandId -> Row \cup {None}] /\ RowsKept
  <1> DEFINE k == Cmd(t).id
             r == [row[k] EXCEPT !.state = s, !.result = result]
  <1>1. k \in CommandId /\ row[k] \in Row
    BY Working DEF Entered, CoreInvariant, TypeOK, Cmd
  <1>2. r \in Row
    BY <1>1 DEF Row
  <1>3. row' = [row EXCEPT ![k] = r]
    BY <1>1 DEF FinishAs, CoreInvariant, TypeOK
  <1>4. r # None
    BY <1>2, AbsenceAssumption
  <1> HIDE DEF k, r
  <1> QED BY <1>1, <1>2, <1>3, <1>4 DEF CoreInvariant, TypeOK, RowsKept

LEMMA AdvanceTyped ==
  ASSUME CoreInvariant, NEW t \in Thread, pc[t] \in {"lookup", "read", "lease"},
         Advance(t),
         NEW w \in Work, w.command = work[t].command,
         work' = [work EXCEPT ![t] = w], UNCHANGED reply,
         RowsKept, UNCHANGED phase
  PROVE  ThreadsTyped'
  <1> DEFINE next == Following[Op(t)][pc[t]]
  <1>1. /\ next \in Stage \ ({"idle"} \cup Entered) /\ OnPath(Op(t), next)
        /\ GoTo(t, next)
    BY Working, FollowingStage DEF Advance, CoreInvariant, Op
  <1> HIDE DEF next
  <1> QED BY <1>1, MoveTyped DEF Op

LEMMA LookupCore ==
  ASSUME CoreInvariant, NEW t \in Thread, Lookup(t)
  PROVE  CoreInvariant'
  <1>1. /\ pc[t] = "lookup" /\ RowsKept /\ UNCHANGED phase
    BY RestTyped DEF Lookup, At, Elsewhere
  <1>2. CASE Advance(t) /\ UNCHANGED <<work, reply>>
    <2>1. work[t] \in Work /\ work' = [work EXCEPT ![t] = work[t]]
      BY <1>1, <1>2 DEF CoreInvariant, TypeOK
    <2>2. ThreadsTyped'
      BY <1>1, <1>2, <2>1, AdvanceTyped
    <2> QED BY <2>2, RestTyped, CommandAssembled DEF Lookup, Elsewhere
  <1>3. CASE Answer(t)
    <2>1. ThreadsTyped'
      BY <1>1, <1>3, AnswerTyped
    <2> QED BY <2>1, RestTyped, CommandAssembled DEF Lookup, Elsewhere
  <1> QED BY <1>2, <1>3 DEF Lookup

LEMMA ReadAssetCore ==
  ASSUME CoreInvariant, NEW t \in Thread, ReadAsset(t)
  PROVE  CoreInvariant'
  <1>1. /\ pc[t] = "read" /\ RowsKept /\ UNCHANGED phase
    BY RestTyped DEF ReadAsset, At, Elsewhere
  <1>2. ASSUME NEW a, a = asset[Cmd(t).asset], Advance(t),
               work' = [work EXCEPT ![t].revision = a.revision,
                                    ![t].address = a.address],
               UNCHANGED reply
        PROVE  CoreInvariant'
    <2> DEFINE w == [work[t] EXCEPT !.revision = a.revision,
                                    !.address = a.address]
    <2>1. a.revision \in Nat /\ a.address \in Address
      BY <1>1, <1>2, Working
      DEF CoreInvariant, TypeOK, RegistryTypeOK, AssetRecord
    <2>2. w \in Work /\ w.command = work[t].command
      BY <1>1, <2>1, Working DEF Work
    <2>3. work' = [work EXCEPT ![t] = w]
      BY <1>2 DEF CoreInvariant, TypeOK
    <2> HIDE DEF w
    <2>4. ThreadsTyped'
      BY <1>1, <1>2, <2>2, <2>3, AdvanceTyped
    <2> QED BY <2>4, RestTyped, CommandAssembled DEF ReadAsset, Elsewhere
  <1>3. CASE Answer(t)
    <2>1. ThreadsTyped'
      BY <1>1, <1>3, AnswerTyped
    <2> QED BY <2>1, RestTyped, CommandAssembled DEF ReadAsset, Elsewhere
  <1> QED BY <1>2, <1>3 DEF ReadAsset

LEMMA ChooseReservationCore ==
  ASSUME CoreInvariant, NEW t \in Thread, ChooseReservation(t)
  PROVE  CoreInvariant'
  <1>1. /\ pc[t] = "choose" /\ RowsKept /\ UNCHANGED <<phase, reply>>
        /\ work[t] \in Work /\ Cmd(t).asset \in Asset
        /\ work[t].command.op = "stop"
    BY RestTyped, Working DEF ChooseReservation, At, Elsewhere, CoreInvariant,
                              OnPath
  <1>2. CASE GoTo(t, "read") /\ UNCHANGED work
    <2>1. ThreadsTyped'
      BY <1>1, <1>2, GoToTyped DEF Stage, Entered, OnPath, Leased
    <2> QED BY <2>1, RestTyped, CommandAssembled
            DEF ChooseReservation, Elsewhere
  <1>3. ASSUME NEW r, r = reservation[Cmd(t).asset], r # None,
               GoTo(t, "begin"),
               work' = [work EXCEPT ![t].token = r.token,
                                    ![t].address = r.address]
        PROVE  CoreInvariant'
    <2> DEFINE w == [work[t] EXCEPT !.token = r.token, !.address = r.address]
    <2>1. r \in Reservation
      BY <1>1, <1>3 DEF CoreInvariant, TypeOK
    <2>2. w \in Work /\ w.command = work[t].command
      BY <1>1, <2>1 DEF Work, Reservation
    <2>3. work' = [work EXCEPT ![t] = w]
      BY <1>3 DEF CoreInvariant, TypeOK
    <2> HIDE DEF w
    <2>4. /\ "begin" \in Stage \ {"idle"} /\ "begin" \notin Entered
          /\ OnPath(work[t].command.op, "begin") /\ pc[t] # "idle"
      BY <1>1 DEF Stage, Entered, OnPath
    <2>5. ThreadsTyped'
      BY <1>1, <1>3, <2>2, <2>3, <2>4, MoveTyped
    <2> QED BY <2>5, RestTyped, CommandAssembled
            DEF ChooseReservation, Elsewhere
  <1> QED BY <1>2, <1>3 DEF ChooseReservation

LEMMA RequestLeaseCore ==
  ASSUME CoreInvariant, NEW t \in Thread, LeaseInvariant, RequestLease(t)
  PROVE  CoreInvariant'
  <1> DEFINE a == Cmd(t).asset
             w == [work[t] EXCEPT !.token = GrantedToken(a, epoch)]
  <1>1. /\ pc[t] = "lease" /\ RowsKept /\ UNCHANGED <<phase, reply>>
        /\ work[t] \in Work /\ a \in Asset /\ epoch \in Session
        /\ AcquireLease(a, work[t].revision, epoch) /\ Advance(t)
    BY RestTyped, Working DEF RequestLease, At, Elsewhere
  <1>2. GrantedToken(a, epoch) \in Nat
    BY <1>1, GrantNewest
  <1>3. w \in Work /\ w.command = work[t].command
    BY <1>1, <1>2 DEF Work
  <1>4. work' = [work EXCEPT ![t] = w]
    BY <1>1 DEF RequestLease, CoreInvariant, TypeOK
  <1> HIDE DEF a, w
  <1>5. ThreadsTyped'
    BY <1>1, <1>3, <1>4, AdvanceTyped
  <1>6. RegistryTypeOK'
    BY <1>1, AcquireInvariant DEF LeaseInvariant
  <1> QED BY <1>5, <1>6, RestTyped, CommandAssembled
          DEF RequestLease, Elsewhere

LEMMA CheckReservationCore ==
  ASSUME CoreInvariant, NEW t \in Thread, CheckReservation(t)
  PROVE  CoreInvariant'
  <1>1. /\ pc[t] = "reserve" /\ RowsKept /\ UNCHANGED <<phase, work, reply>>
        /\ GoTo(t, "hold")
    BY RestTyped DEF CheckReservation, At, Elsewhere
  <1>2. ThreadsTyped'
    BY <1>1, GoToTyped DEF Stage, Entered, OnPath
  <1> QED BY <1>2, RestTyped, CommandAssembled DEF CheckReservation, Elsewhere

LEMMA HoldReservationCore ==
  ASSUME CoreInvariant, NEW t \in Thread, HoldReservation(t)
  PROVE  CoreInvariant'
  <1>1. /\ pc[t] = "hold" /\ RowsKept /\ UNCHANGED <<phase, work, reply>>
        /\ GoTo(t, "begin")
    BY RestTyped DEF HoldReservation, At, Elsewhere
  <1>2. ThreadsTyped'
    BY <1>1, GoToTyped DEF Stage, Entered, OnPath
  <1>3. [token |-> work[t].token, address |-> work[t].address] \in Reservation
    BY <1>1, Working DEF Reservation, Work
  <1>4. reservation' \in [Asset -> Reservation \cup {None}]
    BY <1>3 DEF HoldReservation, CoreInvariant, TypeOK
  <1> QED BY <1>2, <1>4, RestTyped, CommandAssembled
          DEF HoldReservation, Elsewhere

LEMMA RefuseCore ==
  ASSUME CoreInvariant, NEW t \in Thread, Refuse(t)
  PROVE  CoreInvariant'
  <1>1. ThreadsTyped'
    BY RestTyped, AnswerTyped DEF Refuse, Elsewhere
  <1> QED BY <1>1, RestTyped, CommandAssembled DEF Refuse, Elsewhere

(* A request left to the asset service is one it can take. *)
LEMMA LateTyped ==
  ASSUME CoreInvariant, NEW t \in Thread, pc[t] # "idle",
         NEW op \in {"lease", "commit"}, LeaveLate(t, op, Cmd(t).value)
  PROVE  late' \in SUBSET Request
  BY Working DEF LeaveLate, Request, Work, CoreInvariant, TypeOK

LEMMA LeaseUnansweredCore ==
  ASSUME CoreInvariant, NEW t \in Thread, LeaseUnanswered(t)
  PROVE  CoreInvariant'
  <1>1. ThreadsTyped'
    BY RestTyped, AnswerTyped DEF LeaseUnanswered
  <1>2. late' \in SUBSET Request
    BY LateTyped DEF LeaseUnanswered, At
  <1> QED BY <1>1, <1>2, RestTyped, CommandAssembled DEF LeaseUnanswered

LEMMA BeginCore ==
  ASSUME CoreInvariant, NEW t \in Thread, Begin(t)
  PROVE  CoreInvariant'
  <1> DEFINE k == Cmd(t).id
  <1>1. /\ pc[t] = "begin" /\ UNCHANGED phase
        /\ work[t] \in Work /\ k \in CommandId /\ work[t].command.id = k
    BY Working DEF Begin, At, Elsewhere, Cmd
  <1>2. ASSUME row[k] = None, row' = [row EXCEPT ![k] = Entry(t)],
               GoTo(t, "call"), UNCHANGED <<work, reply>>
        PROVE  CoreInvariant'
    <2>1. Entry(t) \in Row /\ Entry(t) # None
      <3>1. /\ Cmd(t) \in Commands
            /\ (IF Op(t) = "program" THEN work[t].revision ELSE 0) \in Nat
        BY <1>1 DEF Work, Cmd
      <3>2. Entry(t) \in Row
        BY <3>1 DEF Entry, Row
      <3> QED BY <3>2, AbsenceAssumption
    <2>2. row' \in [CommandId -> Row \cup {None}] /\ RowsKept /\ row'[k] # None
      BY <1>1, <1>2, <2>1 DEF CoreInvariant, TypeOK, RowsKept
    <2>3. ThreadsTyped'
      BY <1>1, <1>2, <2>2, GoToTyped DEF Stage, Entered, OnPath
    <2> QED BY <2>2, <2>3, RestTyped, CommandAssembled DEF Begin, Elsewhere
  <1>3. CASE UNCHANGED row /\ Answer(t)
    <2>1. ThreadsTyped'
      BY <1>1, <1>3, RestTyped, AnswerTyped
    <2> QED BY <1>3, <2>1, RestTyped, CommandAssembled DEF Begin, Elsewhere
  <1>4. CASE /\ row[k] # None /\ UNCHANGED row
             /\ GoTo(t, "call") /\ UNCHANGED <<work, reply>>
    <2>1. RowsKept /\ row'[k] # None
      BY <1>4, RestTyped
    <2>2. ThreadsTyped'
      BY <1>1, <1>4, <2>1, GoToTyped DEF Stage, Entered, OnPath
    <2> QED BY <1>4, <2>2, RestTyped, CommandAssembled DEF Begin, Elsewhere
  <1> HIDE DEF k
  <1> QED BY <1>2, <1>3, <1>4 DEF Begin, k

LEMMA SendCallCore ==
  ASSUME CoreInvariant, NEW t \in Thread, SendCall(t)
  PROVE  CoreInvariant'
  <1>1. /\ pc[t] = "call" /\ RowsKept /\ UNCHANGED <<phase, work, reply, row>>
        /\ GoTo(t, "waiting") /\ row[work[t].command.id] # None
    BY RestTyped DEF SendCall, At, CoreInvariant, Entered
  <1>2. ThreadsTyped'
    BY <1>1, GoToTyped DEF Stage, Entered, OnPath
  <1> DEFINE call == [command |-> Cmd(t), attempt |-> work[t].attempt,
                      session |-> epoch, token |-> work[t].token,
                      address |-> work[t].address]
  <1>3. call \in Call
    BY <1>1, Working DEF Call, Work, Cmd
  <1>4. wire' = wire \cup {call}
    BY DEF SendCall
  <1> HIDE DEF call
  <1>5. wire' \in SUBSET Call
    BY <1>3, <1>4 DEF CoreInvariant, TypeOK
  <1> QED BY <1>2, <1>5, RestTyped, CommandAssembled DEF SendCall

LEMMA ConfirmedCore ==
  ASSUME CoreInvariant, NEW t \in Thread, Confirmed(t)
  PROVE  CoreInvariant'
  <1>1. /\ pc[t] = "waiting" /\ pc[t] \in Entered /\ UNCHANGED phase
        /\ row[work[t].command.id] # None
    BY DEF Confirmed, At, Elsewhere, CoreInvariant, Entered
  <1>2. CASE GoTo(t, "commit") /\ UNCHANGED <<row, work, reply>>
    <2>1. ThreadsTyped'
      BY <1>1, <1>2, RestTyped, GoToTyped DEF Stage, Entered, OnPath
    <2> QED BY <1>2, <2>1, RestTyped, CommandAssembled DEF Confirmed, Elsewhere
  <1>3. ASSUME NEW s \in {"accepted", "completed"}, FinishAs(t, s, TRUE),
               Answer(t)
        PROVE  CoreInvariant'
    <2>1. row' \in [CommandId -> Row \cup {None}] /\ RowsKept
      BY <1>1, <1>3, FinishTyped
    <2>2. ThreadsTyped'
      BY <1>1, <1>3, <2>1, AnswerTyped
    <2> QED BY <2>1, <2>2, RestTyped, CommandAssembled DEF Confirmed, Elsewhere
  <1> QED BY <1>2, <1>3 DEF Confirmed

LEMMA FinishUncertainCore ==
  ASSUME CoreInvariant, NEW t \in Thread, FinishUncertain(t)
  PROVE  CoreInvariant'
  <1>1. (Op(t) = "program") \in BOOLEAN
    OBVIOUS
  <1>2. pc[t] \in Entered /\ UNCHANGED phase /\ Answer(t)
    BY DEF FinishUncertain, Entered, Elsewhere
  <1>3. row' \in [CommandId -> Row \cup {None}] /\ RowsKept
    BY <1>1, <1>2, FinishTyped DEF FinishUncertain
  <1>4. ThreadsTyped'
    BY <1>2, <1>3, AnswerTyped
  <1> QED BY <1>3, <1>4, RestTyped, CommandAssembled
          DEF FinishUncertain, Elsewhere

LEMMA CommitAddressCore ==
  ASSUME CoreInvariant, LeaseInvariant, NEW t \in Thread, CommitAddress(t)
  PROVE  CoreInvariant'
  <1>1. /\ pc[t] = "commit" /\ RowsKept /\ UNCHANGED <<phase, work, reply, row>>
        /\ GoTo(t, "release") /\ row[work[t].command.id] # None
    BY RestTyped DEF CommitAddress, At, Elsewhere, CoreInvariant, Entered
  <1>2. ThreadsTyped'
    BY <1>1, GoToTyped DEF Stage, Entered, OnPath
  <1>3. RegistryTypeOK'
    BY <1>1, Working, EditInvariant DEF CommitAddress, LeaseInvariant
  <1> QED BY <1>2, <1>3, RestTyped, CommandAssembled
          DEF CommitAddress, Elsewhere

LEMMA CommitUnansweredCore ==
  ASSUME CoreInvariant, NEW t \in Thread, CommitUnanswered(t)
  PROVE  CoreInvariant'
  <1>1. /\ pc[t] = "commit" /\ pc[t] \in Entered /\ UNCHANGED phase
        /\ Answer(t)
    BY DEF CommitUnanswered, At, Entered
  <1>2. row' \in [CommandId -> Row \cup {None}] /\ RowsKept
    BY <1>1, FinishTyped DEF CommitUnanswered
  <1>3. ThreadsTyped'
    BY <1>1, <1>2, AnswerTyped
  <1>4. late' \in SUBSET Request
    BY <1>1, LateTyped DEF CommitUnanswered
  <1> QED BY <1>2, <1>3, <1>4, RestTyped, CommandAssembled
          DEF CommitUnanswered

LEMMA ReleaseReservationCore ==
  ASSUME CoreInvariant, NEW t \in Thread, ReleaseReservation(t)
  PROVE  CoreInvariant'
  <1>1. /\ pc[t] = "release" /\ RowsKept /\ UNCHANGED <<phase, work, reply, row>>
        /\ GoTo(t, "done") /\ row[work[t].command.id] # None
    BY RestTyped DEF ReleaseReservation, At, Elsewhere, CoreInvariant, Entered
  <1>2. ThreadsTyped'
    BY <1>1, GoToTyped DEF Stage, Entered, OnPath
  <1>3. reservation' \in [Asset -> Reservation \cup {None}]
    BY DEF ReleaseReservation, CoreInvariant, TypeOK
  <1> QED BY <1>2, <1>3, RestTyped, CommandAssembled
          DEF ReleaseReservation, Elsewhere

LEMMA FinishProgrammedCore ==
  ASSUME CoreInvariant, NEW t \in Thread, FinishProgrammed(t)
  PROVE  CoreInvariant'
  <1>1. pc[t] \in Entered /\ UNCHANGED phase /\ Answer(t)
    BY DEF FinishProgrammed, At, Entered, Elsewhere
  <1>2. row' \in [CommandId -> Row \cup {None}] /\ RowsKept
    BY <1>1, FinishTyped DEF FinishProgrammed
  <1>3. ThreadsTyped'
    BY <1>1, <1>2, AnswerTyped
  <1> QED BY <1>2, <1>3, RestTyped, CommandAssembled
          DEF FinishProgrammed, Elsewhere

LEMMA CommandCore ==
  ASSUME CoreInvariant, LeaseInvariant, NEW t \in Thread, CommandStep(t)
  PROVE  CoreInvariant'
  BY LookupCore, ReadAssetCore, ChooseReservationCore, RequestLeaseCore,
     CheckReservationCore, HoldReservationCore, RefuseCore,
     LeaseUnansweredCore, BeginCore, SendCallCore, ConfirmedCore,
     FinishUncertainCore, CommitAddressCore, CommitUnansweredCore,
     ReleaseReservationCore, FinishProgrammedCore
  DEF CommandStep

LEMMA ArriveCore ==
  ASSUME CoreInvariant, NEW t \in Thread, NEW c \in Commands, Arrive(t, c)
  PROVE  CoreInvariant'
  <1> DEFINE next == Following[c.op].arrive
             w == [command |-> c, attempt |-> arrivals, revision |-> 0,
                   address |-> None, token |-> 0]
  <1>1. /\ next \in Stage \ ({"idle"} \cup Entered) /\ OnPath(c.op, next)
    <2>1. c.op \in Operation /\ OnPath(c.op, "arrive")
      BY CommandsAssumption DEF Command, OnPath
    <2> QED BY <2>1, FollowingStage
  <1>2. w \in Work /\ w # None /\ w.command = c
    <2>1. w \in Work
      BY ArrivalsAssumption DEF Work, CoreInvariant, TypeOK
    <2> QED BY <2>1, AbsenceAssumption
  <1>3. /\ pc' = [pc EXCEPT ![t] = next] /\ work' = [work EXCEPT ![t] = w]
        /\ phase # "down" /\ UNCHANGED <<phase, row, reply>>
    BY DEF Arrive, GoTo, Admits
  <1> HIDE DEF next, w
  <1>4. /\ pc' \in [Thread -> Stage] /\ work' \in [Thread -> Work \cup {None}]
    BY <1>1, <1>2, <1>3 DEF CoreInvariant, TypeOK
  <1>5. ASSUME NEW u \in Thread
        PROVE  /\ pc'[u] = "idle" <=> work'[u] = None
               /\ pc'[u] # "idle" => phase' # "down"
               /\ pc'[u] \in Entered => row'[work'[u].command.id] # None
               /\ pc'[u] # "idle" => OnPath(work'[u].command.op, pc'[u])
    <2>1. CASE u = t
      <3>1. pc'[u] = next /\ work'[u] = w
        BY <2>1, <1>3 DEF CoreInvariant, TypeOK
      <3> QED BY <3>1, <1>1, <1>2, <1>3
    <2>2. CASE u # t
      <3>1. pc'[u] = pc[u] /\ work'[u] = work[u]
        BY <2>2, <1>3 DEF CoreInvariant, TypeOK
      <3> QED BY <3>1, <1>3 DEF CoreInvariant, TypeOK
    <2> QED BY <2>1, <2>2
  <1>6. arrivals' \in 0..MaxArrivals
    BY ArrivalsAssumption DEF Arrive, CoreInvariant, TypeOK
  <1>7. latched' \in BOOLEAN
    BY DEF Arrive
  <1> QED BY <1>4, <1>5, <1>6, <1>7, RestTyped
          DEF Arrive, CoreInvariant, TypeOK

LEMMA ResumeCore == CoreInvariant /\ Resume => CoreInvariant'
  <1> SUFFICES ASSUME CoreInvariant, Resume PROVE CoreInvariant'
    OBVIOUS
  <1>1. latched' \in BOOLEAN
    BY DEF Resume
  <1> QED BY <1>1, RestTyped DEF Resume, CoreInvariant, TypeOK

LEMMA ReadExecutionsCore == CoreInvariant /\ ReadExecutions => CoreInvariant'
  BY RestTyped DEF ReadExecutions, CoreInvariant, TypeOK

LEMMA ReconcileMcCore == CoreInvariant /\ ReconcileMc => CoreInvariant'
  <1> SUFFICES ASSUME CoreInvariant, ReconcileMc PROVE CoreInvariant'
    OBVIOUS
  <1>1. ASSUME NEW k \in CommandId
        PROVE  /\ Reconciled(k) \in Row \cup {None}
               /\ row[k] # None => Reconciled(k) # None
    <2>1. CASE Reconciled(k) = row[k]
      BY <2>1 DEF CoreInvariant, TypeOK
    <2>2. CASE Reconciled(k) # row[k]
      <3>1. /\ row[k] \in Row /\ seen[k] \in Execution
            /\ Reconciled(k) = [row[k] EXCEPT !.state = seen[k].state]
            /\ seen[k].state # "active"
        BY <2>2 DEF Reconciled, ReconcileMc, CoreInvariant, TypeOK
      <3>2. Reconciled(k) \in Row
        BY <3>1 DEF Row, Execution
      <3> QED BY <3>2, AbsenceAssumption
    <2> QED BY <2>1, <2>2
  <1>2. row' \in [CommandId -> Row \cup {None}] /\ RowsKept
    BY <1>1 DEF ReconcileMc, RowsKept
  <1>3. seen' = None
    BY DEF ReconcileMc
  <1>4. ASSUME NEW t \in Thread, pc[t] \in Entered
        PROVE  row'[work[t].command.id] # None
    BY <1>2, <1>4, IdsTyped DEF RowsKept, CoreInvariant, Entered
  <1> QED BY <1>2, <1>3, <1>4, RestTyped DEF ReconcileMc, CoreInvariant, TypeOK

(* What an adapter remembers and answers has its type. *)
LEMMA TellTyped ==
  ASSUME CoreInvariant, NEW call, NEW answer \in {"ok", "error"},
         Tell(call, answer)
  PROVE  reply' \in [Thread -> {"ok", "error", None}]
  BY DEF Tell, CoreInvariant, TypeOK

LEMMA CallTyped ==
  ASSUME NEW call \in Call
  PROVE  /\ call.command \in Command /\ call.command \in Commands
         /\ call.command.id \in CommandId /\ call.command.asset \in Asset
         /\ call.command.value \in Address /\ call.token \in Nat
  BY CommandsAssumption DEF Call, Command

LEMMA AdvancedTyped ==
  ASSUME NEW adapter, adapter.fence \in [Asset -> Nat], NEW call \in Call
  PROVE  Advanced(adapter, call) \in [Asset -> Nat]
  BY CallTyped DEF Advanced

LEMMA AdapterAssembled ==
  ASSUME CoreInvariant, UNCHANGED <<registry, late, CoreAside>>,
         wire' \in SUBSET Call, taken' \in SUBSET Call,
         dcc' \in [session : 0..MaxSession, fence : [Asset -> Nat],
                   forgot : BOOLEAN, restarts : 0..MaxDccRestarts,
                   decoder : [Asset -> Address], moving : SUBSET Asset],
         mc' \in [session : 0..MaxSession, fence : [Asset -> Nat],
                  restarts : 0..MaxMcRestarts,
                  execution : [CommandId -> Execution \cup {None}]],
         acts' \in [CommandId -> Nat],
         reply' \in [Thread -> {"ok", "error", None}]
  PROVE  CoreInvariant'
  BY RestTyped DEF CoreAside, CoreInvariant, TypeOK

LEMMA DccAdmitsCore ==
  ASSUME CoreInvariant, NEW call \in wire \cup taken, DccAdmits(call)
  PROVE  CoreInvariant'
  <1>1. call \in Call
    BY DEF CoreInvariant, TypeOK
  <1>2. Advanced(dcc, call) \in [Asset -> Nat]
    BY <1>1, AdvancedTyped DEF CoreInvariant, TypeOK
  <1> QED BY <1>1, <1>2, AdapterAssembled DEF DccAdmits, CoreInvariant, TypeOK

LEMMA DccActsCore ==
  ASSUME CoreInvariant, NEW call \in wire \cup taken, DccActs(call)
  PROVE  CoreInvariant'
  <1>1. call \in Call
    BY DEF CoreInvariant, TypeOK
  <1>2. DecodersAfter(call) \in [Asset -> Address]
    BY <1>1, CallTyped DEF DecodersAfter, CoreInvariant, TypeOK
  <1>3. MovingAfter(call) \in SUBSET Asset
    BY <1>1, CallTyped DEF MovingAfter, CoreInvariant, TypeOK
  <1>4. acts' \in [CommandId -> Nat]
    BY <1>1, CallTyped DEF DccActs, CoreInvariant, TypeOK
  <1>5. dcc' \in [session : 0..MaxSession, fence : [Asset -> Nat],
                  forgot : BOOLEAN, restarts : 0..MaxDccRestarts,
                  decoder : [Asset -> Address], moving : SUBSET Asset]
    BY <1>2, <1>3 DEF DccActs, CoreInvariant, TypeOK
  <1>6. reply' \in [Thread -> {"ok", "error", None}]
    BY TellTyped DEF DccActs
  <1> QED BY <1>4, <1>5, <1>6, AdapterAssembled
          DEF DccActs, CoreInvariant, TypeOK

LEMMA DccRefusesCore ==
  ASSUME CoreInvariant, NEW call \in wire \cup taken, DccRefuses(call)
  PROVE  CoreInvariant'
  <1>1. reply' \in [Thread -> {"ok", "error", None}]
    BY TellTyped DEF DccRefuses
  <1> QED BY <1>1, AdapterAssembled DEF DccRefuses, CoreInvariant, TypeOK

LEMMA McAcceptsCore ==
  ASSUME CoreInvariant, NEW call \in wire \cup taken, McAccepts(call)
  PROVE  CoreInvariant'
  <1> DEFINE execution == [command |-> call.command, state |-> "active"]
             executions == [mc.execution EXCEPT ![call.command.id] = execution]
  <1>1. call \in Call
    BY DEF CoreInvariant, TypeOK
  <1>2. Advanced(mc, call) \in [Asset -> Nat]
    BY <1>1, AdvancedTyped DEF CoreInvariant, TypeOK
  <1>3. execution \in Execution
    BY <1>1, CallTyped DEF Execution
  <1>4. executions \in [CommandId -> Execution \cup {None}]
    BY <1>1, <1>3, CallTyped DEF CoreInvariant, TypeOK
  <1>5. mc' = [mc EXCEPT !.fence = Advanced(mc, call), !.execution = executions]
    BY DEF McAccepts, CoreInvariant, TypeOK
  <1>6. acts' \in [CommandId -> Nat]
    BY <1>1, CallTyped DEF McAccepts, CoreInvariant, TypeOK
  <1>7. reply' \in [Thread -> {"ok", "error", None}]
    BY TellTyped DEF McAccepts
  <1> HIDE DEF execution, executions
  <1>8. mc' \in [session : 0..MaxSession, fence : [Asset -> Nat],
                 restarts : 0..MaxMcRestarts,
                 execution : [CommandId -> Execution \cup {None}]]
    BY <1>2, <1>4, <1>5 DEF CoreInvariant, TypeOK
  <1> QED BY <1>6, <1>7, <1>8, AdapterAssembled
          DEF McAccepts, CoreInvariant, TypeOK

LEMMA McRefusesCore ==
  ASSUME CoreInvariant, NEW call \in wire \cup taken, McRefuses(call)
  PROVE  CoreInvariant'
  <1>1. call \in Call
    BY DEF CoreInvariant, TypeOK
  <1>2. Advanced(mc, call) \in [Asset -> Nat]
    BY <1>1, AdvancedTyped DEF CoreInvariant, TypeOK
  <1>3. reply' \in [Thread -> {"ok", "error", None}]
    BY TellTyped DEF McRefuses
  <1> QED BY <1>2, <1>3, AdapterAssembled DEF McRefuses, CoreInvariant, TypeOK

LEMMA McResolvesCore ==
  ASSUME CoreInvariant, NEW k \in CommandId, McResolves(k)
  PROVE  CoreInvariant'
  <1>1. mc.execution[k] \in Execution
    BY DEF McResolves, Outstanding, CoreInvariant, TypeOK
  <1>2. PICK s \in {"completed", "failed", "uncertain"} :
            mc' = [mc EXCEPT !.execution[k].state = s]
    BY DEF McResolves
  <1> DEFINE execution == [mc.execution[k] EXCEPT !.state = s]
             executions == [mc.execution EXCEPT ![k] = execution]
  <1>3. execution \in Execution
    BY <1>1 DEF Execution
  <1>4. executions \in [CommandId -> Execution \cup {None}]
    BY <1>3 DEF CoreInvariant, TypeOK
  <1>5. mc' = [mc EXCEPT !.execution = executions]
    BY <1>2 DEF CoreInvariant, TypeOK
  <1> HIDE DEF execution, executions
  <1>6. mc' \in [session : 0..MaxSession, fence : [Asset -> Nat],
                 restarts : 0..MaxMcRestarts,
                 execution : [CommandId -> Execution \cup {None}]]
    BY <1>4, <1>5 DEF CoreInvariant, TypeOK
  <1> QED BY <1>6, RestTyped, AdapterAssembled
          DEF McResolves, CoreInvariant, TypeOK, CoreAside

LEMMA RestartCore ==
  ASSUME CoreInvariant, RestartDcc \/ RestartMc
  PROVE  CoreInvariant'
  <1>1. CASE RestartDcc
    <2>0. dcc.restarts + 1 \in 0..MaxDccRestarts /\ 0 \in 0..MaxSession
      BY <1>1, LeaseBoundsAssumption, RestartsAssumption
      DEF RestartDcc, CoreInvariant, TypeOK
    <2>1. dcc' \in [session : 0..MaxSession, fence : [Asset -> Nat],
                    forgot : BOOLEAN, restarts : 0..MaxDccRestarts,
                    decoder : [Asset -> Address], moving : SUBSET Asset]
      BY <1>1, <2>0 DEF RestartDcc, CoreInvariant, TypeOK
    <2> QED BY <1>1, <2>1, RestTyped, AdapterAssembled
            DEF RestartDcc, CoreInvariant, TypeOK, CoreAside
  <1>2. CASE RestartMc
    <2>1. PICK dispatched \in SUBSET {k \in CommandId :
                   mc.execution[k] # None /\ mc.execution[k].state = "active"} :
              mc' = [mc EXCEPT !.session = 0, !.restarts = @ + 1, !.execution =
                       [k \in CommandId |->
                          IF k \in dispatched
                          THEN [mc.execution[k] EXCEPT !.state = "uncertain"]
                          ELSE mc.execution[k]]]
      BY <1>2 DEF RestartMc
    <2> DEFINE executions == [k \in CommandId |->
                                IF k \in dispatched
                                THEN [mc.execution[k] EXCEPT !.state = "uncertain"]
                                ELSE mc.execution[k]]
    <2>2. executions \in [CommandId -> Execution \cup {None}]
      BY <2>1 DEF CoreInvariant, TypeOK, Execution
    <2>3. mc' = [session |-> 0, fence |-> mc.fence,
                 restarts |-> mc.restarts + 1, execution |-> executions]
      BY <2>1 DEF CoreInvariant, TypeOK
    <2> HIDE DEF executions
    <2>4. mc.restarts + 1 \in 0..MaxMcRestarts /\ 0 \in 0..MaxSession
      <3>1. mc.restarts < MaxMcRestarts
        BY <1>2 DEF RestartMc
      <3>2. mc.restarts \in 0..MaxMcRestarts
        BY DEF CoreInvariant, TypeOK
      <3> QED BY <3>1, <3>2, LeaseBoundsAssumption, RestartsAssumption
    <2>5. mc' \in [session : 0..MaxSession, fence : [Asset -> Nat],
                   restarts : 0..MaxMcRestarts,
                   execution : [CommandId -> Execution \cup {None}]]
      BY <2>2, <2>3, <2>4 DEF CoreInvariant, TypeOK
    <2> QED BY <1>2, <2>5, RestTyped, AdapterAssembled
            DEF RestartMc, CoreInvariant, TypeOK, CoreAside
  <1> QED BY <1>1, <1>2

LEMMA OwnerEditsCore ==
  ASSUME CoreInvariant, LeaseInvariant, OwnerEdits
  PROVE  CoreInvariant'
  <1>1. RegistryTypeOK'
    BY EditInvariant DEF OwnerEdits, LeaseInvariant
  <1> QED BY <1>1, RestTyped DEF OwnerEdits, CoreInvariant, TypeOK

LEMMA LateRequestCore ==
  ASSUME CoreInvariant, LeaseInvariant, NEW r \in late, LateRequest(r)
  PROVE  CoreInvariant'
  <1>1. r \in Request
    BY DEF CoreInvariant, TypeOK
  <1>2. RegistryTypeOK'
    BY <1>1, EditInvariant, AcquireInvariant
    DEF LateRequest, LeaseInvariant, Request
  <1> QED BY <1>2, RestTyped DEF LateRequest, CoreInvariant, TypeOK

(* Core uses the registry as its owner allows: every step of Core is a step *)
(* of the registry or leaves it alone.                                     *)
LEMMA CommandRegistry ==
  ASSUME CoreInvariant, NEW t \in Thread, CommandStep(t)
  PROVE  [RegistryNext]_registry
  <1>1. CASE RequestLease(t)
    <2>1. /\ Cmd(t).asset \in Asset /\ epoch \in Session
          /\ AcquireLease(Cmd(t).asset, work[t].revision, epoch)
      BY <1>1, Working DEF RequestLease, At
    <2>2. asset[Cmd(t).asset].revision = work[t].revision
      BY <2>1 DEF AcquireLease, MayAcquire
    <2> QED BY <2>1, <2>2 DEF RegistryNext
  <1>2. CASE CommitAddress(t)
    <2>1. /\ Cmd(t).asset \in Asset /\ Cmd(t).value \in Address
          /\ UpdateProgrammedAddress(Cmd(t).asset, work[t].revision,
                                     Cmd(t).value)
      BY <1>2, Working DEF CommitAddress, At
    <2>2. asset[Cmd(t).asset].revision = work[t].revision
      BY <2>1 DEF UpdateProgrammedAddress
    <2> QED BY <2>1, <2>2 DEF RegistryNext
  <1>3. CASE ~RequestLease(t) /\ ~CommitAddress(t)
    BY <1>3 DEF CommandStep, Lookup, ReadAsset, ChooseReservation,
       CheckReservation, HoldReservation, Refuse, LeaseUnanswered, Begin,
       SendCall, Confirmed, FinishUncertain, CommitUnanswered,
       ReleaseReservation, FinishProgrammed
  <1> QED BY <1>1, <1>2, <1>3

LEMMA LateRegistry ==
  ASSUME CoreInvariant, NEW r \in late, LateRequest(r)
  PROVE  RegistryNext
  <1>1. /\ r.asset \in Asset /\ r.session \in Session /\ r.address \in Address
    BY DEF CoreInvariant, TypeOK, Request
  <1>2. asset[r.asset].revision = r.revision
    BY DEF LateRequest, AcquireLease, MayAcquire, UpdateProgrammedAddress
  <1> QED BY <1>1, <1>2 DEF LateRequest, RegistryNext

LEMMA CoreStep ==
  ASSUME CoreInvariant, LeaseInvariant, [Next]_vars
  PROVE  CoreInvariant' /\ [RegistryNext]_registry
  <1>1. CASE ProcessStep
    BY <1>1, ProcessCore DEF ProcessStep, Boot, StartDcc, StartMc, Crash
  <1>2. CASE Resume \/ ReadExecutions \/ ReconcileMc
    BY <1>2, ResumeCore, ReadExecutionsCore, ReconcileMcCore
    DEF Resume, ReadExecutions, ReconcileMc
  <1>3. ASSUME NEW t \in Thread, CommandStep(t)
        PROVE  CoreInvariant' /\ [RegistryNext]_registry
    BY <1>3, CommandCore, CommandRegistry
  <1>4. ASSUME NEW t \in Thread, NEW c \in Commands, Arrive(t, c)
        PROVE  CoreInvariant' /\ [RegistryNext]_registry
    BY <1>4, ArriveCore DEF Arrive
  <1>5. CASE AdapterStep
    <2>1. CoreInvariant'
      BY <1>5, DccAdmitsCore, DccActsCore, DccRefusesCore, McAcceptsCore,
         McRefusesCore, McResolvesCore, RestartCore DEF AdapterStep
    <2> QED BY <1>5, <2>1 DEF AdapterStep, DccAdmits, DccActs, DccRefuses,
                              McAccepts, McRefuses, McResolves, RestartDcc,
                              RestartMc
  <1>6. CASE OwnerEdits
    <2>1. RegistryNext
      BY <1>6 DEF OwnerEdits, RegistryNext
    <2> QED BY <1>6, <2>1, OwnerEditsCore
  <1>7. ASSUME NEW r \in late, LateRequest(r)
        PROVE  CoreInvariant' /\ [RegistryNext]_registry
    BY <1>7, LateRequestCore, LateRegistry
  <1>8. CASE UNCHANGED vars
    <2>1. /\ UNCHANGED registry
          /\ UNCHANGED <<phase, epoch, latched, row, reservation, pc, work>>
          /\ UNCHANGED <<reply, arrivals, late, seen, wire, taken, dcc, mc, acts>>
      BY <1>8
    <2>2. CoreInvariant'
      BY <2>1, RestTyped DEF CoreInvariant, TypeOK
    <2> QED BY <2>1, <2>2
  <1> QED BY <1>1, <1>2, <1>3, <1>4, <1>5, <1>6, <1>7, <1>8 DEF Next

(* Every step preserves the invariant of Core together with that of the     *)
(* registry.                                                               *)
THEOREM CoreCorrect == Spec => [](CoreInvariant /\ LeaseInvariant)
  <1>1. Init => CoreInvariant /\ LeaseInvariant
    BY InitCore, InitInvariant DEF Init
  <1>2. /\ CoreInvariant /\ LeaseInvariant /\ [Next]_vars
        => CoreInvariant' /\ LeaseInvariant'
    BY CoreStep, NextInvariant
  <1> QED BY <1>1, <1>2, PTL DEF Spec

(* TypeOK of CoreService for every instance: no reachable state confuses a  *)
(* missing entry with an entry, or an idle thread with one at work.         *)
THEOREM CoreTypeCorrect == Spec => []TypeOK
  <1>1. CoreInvariant => TypeOK
    BY DEF CoreInvariant
  <1> QED BY <1>1, CoreCorrect, PTL

(* Core implements a client of the registry: whatever its threads, late     *)
(* requests and crashes do, assets, fences and leases follow RegistrySpec.  *)
THEOREM CoreUsesRegistry == Spec => RegistrySpec
  <1>1. Init => RegistryInit
    BY DEF Init
  <1>2. CoreInvariant /\ LeaseInvariant /\ [Next]_vars => [RegistryNext]_registry
    BY CoreStep
  <1> QED BY <1>1, <1>2, CoreCorrect, PTL DEF Spec, RegistrySpec

(* The holder of a lease has the newest token of the asset (LeaseNewest).   *)
THEOREM CoreNewestLease == Spec => []LeaseNewest
  BY CoreUsesRegistry, NewestLease

(* No token is issued twice and no lease outlives the operating view it was *)
(* granted for (TokenUnique).                                              *)
THEOREM CoreTokensUnique == Spec => TokenUnique
  BY CoreUsesRegistry, TokensUnique

(* Where tokens come from: a thread has one from the registry, from a       *)
(* reservation or none; reservations and calls have it from a thread; an    *)
(* adapter has it from a call.                                             *)
FencesGrow == \A a \in Asset : fence'[a] \in Nat /\ fence'[a] >= fence[a]
WorkIssued ==
    \A t \in Thread : \/ work'[t] = work[t] \/ work'[t] = None
                      \/ work'[t].token <= fence'[work'[t].command.asset]
ReservationsIssued ==
    \A a \in Asset : \/ reservation'[a] = reservation[a] \/ reservation'[a] = None
                     \/ reservation'[a].token <= fence'[a]
CallsIssued ==
    \A call \in wire' : call \in wire \/ call.token <= fence'[call.command.asset]
FencesFrom(old, new) ==
    \A a \in Asset : \/ new.fence[a] \in {0, old.fence[a]}
                     \/ \E call \in wire : /\ call.command.asset = a
                                           /\ new.fence[a] = call.token

LEMMA IssuedAssembled ==
  ASSUME CoreInvariant, CoreInvariant', TokensIssued, FencesGrow, WorkIssued,
         ReservationsIssued, CallsIssued, FencesFrom(dcc, dcc'),
         FencesFrom(mc, mc')
  PROVE  TokensIssued'
  <1>1. \A a \in Asset : fence[a] \in Nat /\ fence'[a] \in Nat /\ fence'[a] >= fence[a]
    BY DEF FencesGrow, CoreInvariant, TypeOK, RegistryTypeOK
  <1>2. ASSUME NEW t \in Thread, work'[t] # None
        PROVE  work'[t].token <= fence'[work'[t].command.asset]
    <2>1. CASE work'[t] = work[t]
      <3>1. work[t] \in Work /\ work[t].command.asset \in Asset
        BY <1>2, <2>1, CommandsAssumption DEF CoreInvariant, TypeOK, Work, Command
      <3> QED BY <3>1, <2>1, <1>1, <1>2 DEF TokensIssued, Work
    <2> QED BY <1>2, <2>1 DEF WorkIssued
  <1>3. ASSUME NEW a \in Asset, reservation'[a] # None
        PROVE  reservation'[a].token <= fence'[a]
    <2>1. CASE reservation'[a] = reservation[a]
      <3>1. reservation[a] \in Reservation
        BY <1>3, <2>1 DEF CoreInvariant, TypeOK
      <3> QED BY <3>1, <2>1, <1>1, <1>3 DEF TokensIssued, Reservation
    <2> QED BY <1>3, <2>1 DEF ReservationsIssued
  <1>4. ASSUME NEW call \in wire
        PROVE  /\ call.command.asset \in Asset /\ call.token \in Nat
               /\ call.token <= fence[call.command.asset]
               /\ call.token <= fence'[call.command.asset]
    <2>1. /\ call.command.asset \in Asset /\ call.token \in Nat
      BY CallTyped DEF CoreInvariant, TypeOK
    <2> QED BY <2>1, <1>1 DEF TokensIssued
  <1>5. \A call \in wire' : call.token <= fence'[call.command.asset]
    BY <1>4 DEF CallsIssued
  <1>6. ASSUME NEW a \in Asset
        PROVE  dcc'.fence[a] <= fence'[a] /\ mc'.fence[a] <= fence'[a]
    <2>1. /\ dcc.fence[a] \in Nat /\ mc.fence[a] \in Nat
          /\ dcc.fence[a] <= fence[a] /\ mc.fence[a] <= fence[a]
      BY DEF CoreInvariant, TypeOK, TokensIssued, HolderPasses
    <2> QED BY <2>1, <1>1, <1>4 DEF FencesFrom
  <1> QED BY <1>2, <1>3, <1>5, <1>6 DEF TokensIssued, HolderPasses

LEMMA CommandIssued ==
  ASSUME CoreInvariant, LeaseInvariant, TokensIssued, FencesGrow,
         NEW t \in Thread, CommandStep(t)
  PROVE  /\ WorkIssued /\ ReservationsIssued /\ CallsIssued
         /\ dcc' = dcc /\ mc' = mc
  <1>0. /\ \A a \in Asset : fence[a] \in Nat /\ fence'[a] \in Nat
                           /\ fence'[a] >= fence[a]
        /\ pc[t] # "idle" => /\ Cmd(t).asset \in Asset /\ work[t] \in Work
                             /\ work[t] # None
                             /\ work[t].token <= fence[Cmd(t).asset]
    BY Working, AbsenceAssumption
    DEF FencesGrow, CoreInvariant, TypeOK, RegistryTypeOK, TokensIssued, Cmd
  <1>1. ASSUME NEW w, pc[t] # "idle", work' = [work EXCEPT ![t] = w],
               w.command = work[t].command, w.token <= fence'[Cmd(t).asset]
        PROVE  WorkIssued
    BY <1>1 DEF WorkIssued, CoreInvariant, TypeOK, Cmd
  <1>2. UNCHANGED work => WorkIssued
    BY DEF WorkIssued
  <1>3. Answer(t) => WorkIssued
    BY DEF WorkIssued, Answer, CoreInvariant, TypeOK
  <1>4. ASSUME ReadAsset(t), work' # work, ~Answer(t)
        PROVE  WorkIssued
    <2> DEFINE w == [work[t] EXCEPT !.revision = asset[Cmd(t).asset].revision,
                                    !.address = asset[Cmd(t).asset].address]
    <2>1. pc[t] # "idle" /\ work' = [work EXCEPT ![t] = w]
      BY <1>4 DEF ReadAsset, At, CoreInvariant, TypeOK
    <2>2. w.command = work[t].command /\ w.token = work[t].token
      BY <2>1, <1>0 DEF Work
    <2>3. w.token <= fence'[Cmd(t).asset]
      BY <2>1, <2>2, <1>0 DEF Work
    <2> HIDE DEF w
    <2> QED BY <2>1, <2>2, <2>3, <1>1
  <1>5. ASSUME ChooseReservation(t), work' # work
        PROVE  WorkIssued
    <2> DEFINE r == reservation[Cmd(t).asset]
               w == [work[t] EXCEPT !.token = r.token, !.address = r.address]
    <2>1. /\ pc[t] # "idle" /\ work' = [work EXCEPT ![t] = w] /\ r # None
      BY <1>5 DEF ChooseReservation, At, CoreInvariant, TypeOK
    <2>2. w.command = work[t].command /\ w.token = r.token
      BY <2>1, <1>0 DEF Work
    <2>3. r.token \in Nat /\ r.token <= fence[Cmd(t).asset]
      BY <2>1, <1>0 DEF TokensIssued, CoreInvariant, TypeOK, Reservation
    <2>4. w.token <= fence'[Cmd(t).asset]
      BY <2>1, <2>2, <2>3, <1>0
    <2> HIDE DEF w
    <2> QED BY <2>1, <2>2, <2>4, <1>1
  <1>6. ASSUME RequestLease(t) PROVE WorkIssued
    <2> DEFINE a == Cmd(t).asset
               w == [work[t] EXCEPT !.token = GrantedToken(a, epoch)]
    <2>1. /\ pc[t] # "idle" /\ work' = [work EXCEPT ![t] = w]
          /\ epoch \in Session /\ AcquireLease(a, work[t].revision, epoch)
      BY <1>6, Working DEF RequestLease, At, CoreInvariant, TypeOK
    <2>2. w.command = work[t].command /\ w.token = GrantedToken(a, epoch)
      BY <2>1, <1>0 DEF Work
    <2>3. GrantedToken(a, epoch) <= fence'[a]
      BY <2>1, <1>0, GrantNewest
      DEF AcquireLease, LeaseInvariant, RegistryTypeOK
    <2> HIDE DEF w
    <2> QED BY <2>1, <2>2, <2>3, <1>1
  <1>7. WorkIssued
    BY <1>2, <1>3, <1>4, <1>5, <1>6
    DEF CommandStep, Lookup, ReadAsset, ChooseReservation, CheckReservation,
        HoldReservation, Refuse, LeaseUnanswered, Begin, SendCall, Confirmed,
        FinishUncertain, CommitAddress, CommitUnanswered, ReleaseReservation,
        FinishProgrammed
  <1>8. ReservationsIssued
    <2>1. CASE HoldReservation(t)
      <3>1. pc[t] # "idle" /\ work[t].token <= fence'[Cmd(t).asset]
        BY <2>1, <1>0 DEF HoldReservation, At, Work
      <3> QED BY <2>1, <3>1, <1>0
              DEF HoldReservation, ReservationsIssued, CoreInvariant, TypeOK
    <2>2. CASE ReleaseReservation(t)
      BY <2>2 DEF ReleaseReservation, ReservationsIssued, CoreInvariant, TypeOK
    <2>3. CASE UNCHANGED reservation
      BY <2>3 DEF ReservationsIssued
    <2> QED BY <2>1, <2>2, <2>3
        DEF CommandStep, Lookup, ReadAsset, ChooseReservation, RequestLease,
            CheckReservation, Refuse, LeaseUnanswered, Begin, SendCall,
            Confirmed, FinishUncertain, CommitAddress, CommitUnanswered,
            FinishProgrammed
  <1>9. CallsIssued
    <2>1. CASE SendCall(t)
      <3>1. pc[t] # "idle" /\ work[t].token <= fence'[Cmd(t).asset]
        BY <2>1, <1>0 DEF SendCall, At, Work
      <3> QED BY <2>1, <3>1 DEF SendCall, CallsIssued
    <2>2. CASE UNCHANGED wire
      BY <2>2 DEF CallsIssued
    <2> QED BY <2>1, <2>2
        DEF CommandStep, Lookup, ReadAsset, ChooseReservation, RequestLease,
            CheckReservation, HoldReservation, Refuse, LeaseUnanswered, Begin,
            Confirmed, FinishUncertain, CommitAddress, CommitUnanswered,
            ReleaseReservation, FinishProgrammed, Elsewhere
  <1>10. dcc' = dcc /\ mc' = mc
    BY DEF CommandStep, Lookup, ReadAsset, ChooseReservation, RequestLease,
            CheckReservation, HoldReservation, Refuse, LeaseUnanswered, Begin,
            SendCall, Confirmed, FinishUncertain, CommitAddress,
            CommitUnanswered, ReleaseReservation, FinishProgrammed, Elsewhere
  <1> QED BY <1>7, <1>8, <1>9, <1>10

(* Arrivals, the heartbeat and the adapters pass on what is there. *)
LEMMA ArriveIssued ==
  ASSUME CoreInvariant, FencesGrow,
         NEW t \in Thread, NEW c \in Commands, Arrive(t, c)
  PROVE  WorkIssued
  <1> DEFINE w == work'[t]
  <1>1. /\ w.token = 0 /\ w.command = c /\ c.asset \in Asset
        /\ \A u \in Thread : u # t => work'[u] = work[u]
    BY CommandsAssumption DEF Arrive, CoreInvariant, TypeOK, Command
  <1>2. w.token <= fence'[w.command.asset]
    BY <1>1 DEF FencesGrow
  <1> QED BY <1>1, <1>2 DEF WorkIssued

LEMMA AdvancedIssued ==
  ASSUME CoreInvariant, NEW call \in wire, NEW a \in Asset
  PROVE  /\ \/ Advanced(dcc, call)[a] = dcc.fence[a]
            \/ call.command.asset = a /\ Advanced(dcc, call)[a] = call.token
         /\ \/ Advanced(mc, call)[a] = mc.fence[a]
            \/ call.command.asset = a /\ Advanced(mc, call)[a] = call.token
  BY DEF Advanced, CoreInvariant, TypeOK

LEMMA AdapterIssued ==
  ASSUME CoreInvariant, AdapterStep
  PROVE  FencesFrom(dcc, dcc') /\ FencesFrom(mc, mc') /\ wire' \subseteq wire
  <1>1. ASSUME NEW call \in wire \cup taken, DccAdmits(call)
        PROVE  FencesFrom(dcc, dcc') /\ FencesFrom(mc, mc') /\ wire' \subseteq wire
    <2>1. call \in wire /\ wire' \subseteq wire /\ mc' = mc
      BY <1>1 DEF DccAdmits
    <2>2. dcc'.fence = Advanced(dcc, call)
      BY <1>1 DEF DccAdmits, CoreInvariant, TypeOK
    <2> QED BY <2>1, <2>2, AdvancedIssued DEF FencesFrom
  <1>2. ASSUME NEW call \in wire \cup taken, DccActs(call)
        PROVE  FencesFrom(dcc, dcc') /\ FencesFrom(mc, mc') /\ wire' \subseteq wire
    BY <1>2 DEF DccActs, FencesFrom, CoreInvariant, TypeOK
  <1>3. ASSUME NEW call \in wire \cup taken, DccRefuses(call)
        PROVE  FencesFrom(dcc, dcc') /\ FencesFrom(mc, mc') /\ wire' \subseteq wire
    BY <1>3 DEF DccRefuses, FencesFrom
  <1>4. ASSUME NEW call \in wire \cup taken, McAccepts(call)
        PROVE  FencesFrom(dcc, dcc') /\ FencesFrom(mc, mc') /\ wire' \subseteq wire
    <2>1. call \in wire /\ wire' \subseteq wire /\ dcc' = dcc
      BY <1>4 DEF McAccepts
    <2>2. mc'.fence = Advanced(mc, call)
      BY <1>4 DEF McAccepts, CoreInvariant, TypeOK
    <2> QED BY <2>1, <2>2, AdvancedIssued DEF FencesFrom
  <1>5. ASSUME NEW call \in wire \cup taken, McRefuses(call)
        PROVE  FencesFrom(dcc, dcc') /\ FencesFrom(mc, mc') /\ wire' \subseteq wire
    <2>1. call \in wire /\ wire' \subseteq wire /\ dcc' = dcc
      BY <1>5 DEF McRefuses, CoreInvariant, TypeOK
    <2>2. mc' = mc \/ mc'.fence = Advanced(mc, call)
      BY <1>5 DEF McRefuses, CoreInvariant, TypeOK
    <2> QED BY <2>1, <2>2, AdvancedIssued DEF FencesFrom
  <1>6. ASSUME NEW k \in CommandId, McResolves(k)
        PROVE  FencesFrom(dcc, dcc') /\ FencesFrom(mc, mc') /\ wire' \subseteq wire
    BY <1>6 DEF McResolves, FencesFrom, CoreInvariant, TypeOK
  <1>7. ASSUME RestartDcc \/ RestartMc
        PROVE  FencesFrom(dcc, dcc') /\ FencesFrom(mc, mc') /\ wire' \subseteq wire
    <2>1. CASE RestartDcc
      <3>1. \A a \in Asset : dcc'.fence[a] = 0
        BY <2>1 DEF RestartDcc, CoreInvariant, TypeOK
      <3> QED BY <2>1, <3>1 DEF RestartDcc, FencesFrom
    <2>2. CASE RestartMc
      <3>1. mc'.fence = mc.fence
        BY <2>2 DEF RestartMc, CoreInvariant, TypeOK
      <3> QED BY <2>2, <3>1 DEF RestartMc, FencesFrom
    <2> QED BY <1>7, <2>1, <2>2
  <1> QED BY <1>1, <1>2, <1>3, <1>4, <1>5, <1>6, <1>7 DEF AdapterStep

LEMMA ProcessIssued ==
  ASSUME CoreInvariant, ProcessStep
  PROVE  /\ WorkIssued /\ UNCHANGED <<reservation, wire>>
         /\ FencesFrom(dcc, dcc') /\ FencesFrom(mc, mc')
  BY DEF ProcessStep, Boot, StartDcc, StartMc, Crash, WorkIssued, FencesFrom,
         CoreInvariant, TypeOK

LEMMA IssuedStep ==
  ASSUME CoreInvariant, LeaseInvariant, TokensIssued, [Next]_vars
  PROVE  TokensIssued'
  <1>1. /\ CoreInvariant' /\ [RegistryNext]_registry
        /\ FencesGrow
    <2>1. CoreInvariant' /\ [RegistryNext]_registry
      BY CoreStep
    <2>2. [TokenStep]_registry
      BY <2>1, NextToken
    <2>3. CASE TokenStep
      BY <2>1, <2>3 DEF TokenStep, FencesGrow, CoreInvariant, TypeOK,
                        RegistryTypeOK
    <2>4. CASE UNCHANGED registry
      BY <2>1, <2>4 DEF FencesGrow, CoreInvariant, TypeOK, RegistryTypeOK
    <2> QED BY <2>1, <2>2, <2>3, <2>4
  <1>2. /\ UNCHANGED work => WorkIssued
        /\ UNCHANGED reservation => ReservationsIssued
        /\ wire' \subseteq wire => CallsIssued
        /\ UNCHANGED dcc => FencesFrom(dcc, dcc')
        /\ UNCHANGED mc => FencesFrom(mc, mc')
    BY DEF WorkIssued, ReservationsIssued, CallsIssued, FencesFrom
  <1>3. ASSUME NEW t \in Thread, CommandStep(t) PROVE TokensIssued'
    BY <1>1, <1>2, <1>3, CommandIssued, IssuedAssembled
  <1>4. ASSUME NEW t \in Thread, NEW c \in Commands, Arrive(t, c)
        PROVE  TokensIssued'
    <2>1. WorkIssued
      BY <1>1, <1>4, ArriveIssued
    <2>2. UNCHANGED <<reservation, wire, dcc, mc>>
      BY <1>4 DEF Arrive
    <2> QED BY <1>1, <1>2, <2>1, <2>2, IssuedAssembled
  <1>5. CASE AdapterStep
    <2>1. UNCHANGED <<work, reservation>>
      BY <1>5 DEF AdapterStep, DccAdmits, DccActs, DccRefuses, McAccepts,
                  McRefuses, McResolves, RestartDcc, RestartMc, CoreAside
    <2> QED BY <1>1, <1>2, <1>5, <2>1, AdapterIssued, IssuedAssembled
  <1>6. CASE ProcessStep
    BY <1>1, <1>2, <1>6, ProcessIssued, IssuedAssembled
  <1>7. CASE \/ Resume \/ ReadExecutions \/ ReconcileMc \/ OwnerEdits
             \/ (\E r \in late : LateRequest(r)) \/ UNCHANGED vars
    <2>1. UNCHANGED <<work, reservation, wire, dcc, mc>>
      BY <1>7 DEF Resume, ReadExecutions, ReconcileMc, OwnerEdits, LateRequest
    <2> QED BY <1>1, <1>2, <2>1, IssuedAssembled
  <1> QED BY <1>3, <1>4, <1>5, <1>6, <1>7 DEF Next

(* Every token on its way to an adapter was issued for the asset it is used *)
(* for, over restarts, late calls and borrowed reservations (TokensIssued). *)
THEOREM CoreTokensIssued == Spec => []TokensIssued
  <1>1. Init => TokensIssued
    BY DEF Init, RegistryInit, TokensIssued, HolderPasses
  <1>2. /\ CoreInvariant /\ LeaseInvariant /\ TokensIssued /\ [Next]_vars
        => TokensIssued'
    BY IssuedStep
  <1> QED BY <1>1, <1>2, CoreCorrect, PTL DEF Spec

(* So the holder of the newest lease passes every fence (HolderPasses). *)
THEOREM CoreHolderPasses == Spec => []HolderPasses
  <1>1. TokensIssued => HolderPasses
    BY DEF TokensIssued
  <1> QED BY <1>1, CoreTokensIssued, PTL
=============================================================================
