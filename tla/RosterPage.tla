----------------------------- MODULE RosterPage -----------------------------
(***************************************************************************)
(* The Asset library page of roster.js in one browser, the handlers of     *)
(* mtos_asset it calls, and the edits other clients make meanwhile: the    *)
(* list of cards with its filters and pages, and the editor with its form, *)
(* its modes and the record it works on (current).                         *)
(*                                                                         *)
(* A click starts an asynchronous function; the page goes on while it      *)
(* waits, and no request has a timeout.  A request is answered by Asset in *)
(* one step and the answer arrives in another, so answers may be           *)
(* overtaken, and any wait may end in an error instead.                    *)
(*                                                                         *)
(* Of an asset: its revision, whether it is active, its other form fields  *)
(* as one note, and what the form does not show (components, relations,    *)
(* variable attributes) as one hidden value.                               *)
(***************************************************************************)
EXTENDS Integers, FiniteSets

CONSTANTS
    Job,          \* identities of the page's asynchronous functions, in order
    Asset,        \* identities of assets
    Stored,       \* those that exist at first
    Value,        \* contents of a note, and of the hidden part
    Blank,        \* the one a new asset begins with
    Filter,       \* search text, family and status of the list, as one
    NoFilter,     \* what they are at first
    None,
    LastPage,     \* bound: pages of the list
    Scenarios     \* bound: see scenario

ASSUME JobAssumption == Job \subseteq Nat /\ IsFiniteSet(Job)
ASSUME AssetAssumption == Stored \subseteq Asset /\ None \notin Asset
ASSUME ValueAssumption == Blank \in Value /\ None \notin Value
ASSUME PageAssumption == NoFilter \in Filter /\ LastPage \in Nat

Status == {"active", "stored"}
Record == [rev : Nat, status : Status, note : Value, hidden : Value]
Current == [id : Asset, rev : Nat, status : Status, hidden : Value]
Form == [id : Asset \cup {None}, status : Status, note : Value]

(* The asset and revision a form was filled from; None for a new asset's,   *)
(* and once current was replaced under the form.                            *)
Source == [id : Asset, rev : Nat] \cup {None}

ASSUME NoneAssumption == None \notin Record \cup Current

Payload == [id : Asset, rev : Nat \cup {None}, status : Status, note : Value,
            hidden : Value, of : Source]
Query == [filter : Filter, page : 0..LastPage]

OpenKind == {"open", "cancel"}
SearchKind == {"back", "previous", "next", "filter"}
Kind == OpenKind \cup SearchKind \cup {"add", "family", "submit", "photo"}

(* What a behaviour is bounded by: the clicks and their order, and how many *)
(* edits other clients make.                                                *)
Scenario == [clicks : [Job -> Kind \cup {None}], edits : Nat]

ASSUME ScenarioAssumption == Scenarios \subseteq Scenario

VARIABLES
    scenario,    \* bound: the scenario this behaviour follows
    edits,       \* edits of other clients so far
    db,          \* the assets of the database
    step,        \* what each function waits for
    about,       \* the asset its request names
    answer,      \* whether the answer is on its way, and what it says
    found,       \* the asset or identity it brings
    payload,     \* the body of its POST or PATCH
    query,       \* the list it asked for
    screen,      \* library or editor
    mode,        \* view, edit, or add
    current,     \* the record the editor works on
    form,        \* the fields of the form
    filter,      \* the fields of the list's filters
    timer,       \* the debounce timer is running
    offset,      \* in pages
    newest,      \* searchGeneration: the last search started
    cards,       \* the list shown, as the query it answers
    summary,     \* the page the summary line names
    more,        \* whether the next button is enabled
    filled,      \* ghost: what the form was last filled from
    asked        \* ghost: the asset whose operation state a submit asked for

assetVars == <<edits, db>>
jobVars == <<step, about, answer, found, payload, query>>
editorVars == <<screen, mode, current, form, filled>>
listVars == <<filter, timer, offset, newest, cards, summary, more>>

vars == <<scenario, assetVars, jobVars, editorVars, listVars, asked>>

TypeOK ==
    /\ scenario \in Scenarios
    /\ edits \in Nat
    /\ db \in [Asset -> Record \cup {None}]
    /\ step \in [Job -> {"unused", "get", "next id", "ask", "save", "upload",
                         "refresh", "family id", "search", "ended", "failed"}]
    /\ about \in [Job -> Asset \cup {None}]
    /\ answer \in [Job -> {"none", "ok", "refused", "held"}]
    /\ found \in [Job -> Record \cup Asset \cup {None}]
    /\ payload \in [Job -> Payload \cup {None}]
    /\ query \in [Job -> Query \cup {None}]
    /\ screen \in {"library", "editor"}
    /\ mode \in {"view", "edit", "add"}
    /\ current \in Current \cup {None}
    /\ form \in Form
    /\ filter \in Filter
    /\ timer \in BOOLEAN
    /\ offset \in 0..LastPage
    /\ newest \in Job \cup {None}
    /\ cards \in Query
    /\ summary \in 0..LastPage
    /\ more \in BOOLEAN
    /\ filled \in Source
    /\ asked \in [Job -> Asset \cup {None}]

EmptyForm == [id |-> None, status |-> "stored", note |-> Blank]

(* The page has loaded its first list.                                      *)
Init ==
    /\ scenario \in Scenarios
    /\ edits = 0
    /\ db \in [Asset -> {None} \cup
                [rev : {1}, status : Status, note : {Blank}, hidden : {Blank}]]
    /\ \A a \in Asset : db[a] = None <=> a \notin Stored
    /\ step = [j \in Job |-> "unused"]
    /\ about = [j \in Job |-> None]
    /\ answer = [j \in Job |-> "none"]
    /\ found = [j \in Job |-> None]
    /\ payload = [j \in Job |-> None]
    /\ query = [j \in Job |-> None]
    /\ screen = "library"
    /\ mode = "view"
    /\ current = None
    /\ form = EmptyForm
    /\ filter = NoFilter
    /\ timer = FALSE
    /\ offset = 0
    /\ newest = None
    /\ cards = [filter |-> NoFilter, page |-> 0]
    /\ summary = 0
    /\ more \in BOOLEAN
    /\ filled = None
    /\ asked = [j \in Job |-> None]

Waiting(j) == step[j] \notin {"unused", "ended", "failed"}
Submitting == \E j \in Job : Waiting(j) /\ scenario.clicks[j] = "submit"

Clicked(j, kind) ==
    /\ step[j] = "unused"
    /\ \A k \in Job : k < j => step[k] # "unused"
    /\ scenario.clicks[j] = kind

(* The function goes on to wait for the answer to another request.          *)
Request(j, to, asset) ==
    /\ step' = [step EXCEPT ![j] = to]
    /\ about' = [about EXCEPT ![j] = asset]
    /\ answer' = [answer EXCEPT ![j] = "none"]
    /\ found' = [found EXCEPT ![j] = None]

Ended(j) ==
    /\ step' = [step EXCEPT ![j] = "ended"]
    /\ answer' = [answer EXCEPT ![j] = "none"]
    /\ found' = [found EXCEPT ![j] = None]
    /\ UNCHANGED <<about, payload, query>>

-----------------------------------------------------------------------------
(* mtos_asset. *)

Answer(j, word) == answer' = [answer EXCEPT ![j] = word] /\ UNCHANGED found

Bring(j, what) ==
    /\ answer' = [answer EXCEPT ![j] = "ok"]
    /\ found' = [found EXCEPT ![j] = what]

Unserved(j, kind) == step[j] = kind /\ answer[j] = "none"

ServeAsset(j) ==
    /\ Unserved(j, "get") \/ Unserved(j, "refresh")
    /\ Bring(j, db[about[j]])
    /\ UNCHANGED <<scenario, assetVars, step, about, payload, query, editorVars,
                   listVars, asked>>

ServeNextId(j) ==
    /\ Unserved(j, "next id") \/ Unserved(j, "family id")
    /\ \E a \in Asset : db[a] = None /\ Bring(j, a)
    /\ UNCHANGED <<scenario, assetVars, step, about, payload, query, editorVars,
                   listVars, asked>>

(* operation_state: leases come and go, so either answer.                   *)
ServeOperation(j) ==
    /\ Unserved(j, "ask")
    /\ \E held \in {"ok", "held"} : Answer(j, held)
    /\ asked' = [asked EXCEPT ![j] = about[j]]
    /\ UNCHANGED <<scenario, assetVars, step, about, payload, query, editorVars,
                   listVars>>

(* Mutant: the revision is not compared. *)
AcceptableUnchecked(p) ==
    IF p.rev = None THEN db[p.id] = None ELSE db[p.id] # None

(* save: a new asset's identity is free, an update names the revision.      *)
Acceptable(p) ==
    IF p.rev = None THEN db[p.id] = None
    ELSE db[p.id] # None /\ db[p.id].rev = p.rev

Saved(j) ==
    LET p == payload[j] IN
    /\ Acceptable(p)
    /\ db' = [db EXCEPT ![p.id] =
                [rev |-> IF p.rev = None THEN 1 ELSE db[p.id].rev + 1,
                 status |-> p.status, note |-> p.note, hidden |-> p.hidden]]
    /\ Answer(j, "ok")

(* Acceptable payloads may still fail validation.                           *)
ServeSave(j) ==
    /\ Unserved(j, "save")
    /\ Saved(j) \/ (Answer(j, "refused") /\ UNCHANGED db)
    /\ UNCHANGED <<scenario, edits, step, about, payload, query, editorVars,
                   listVars, asked>>

(* put_media leaves the revision alone.                                     *)
ServeUpload(j) ==
    /\ Unserved(j, "upload")
    /\ \E result \in {"ok", "refused"} : Answer(j, result)
    /\ UNCHANGED <<scenario, assetVars, step, about, payload, query, editorVars,
                   listVars, asked>>

ServeSearch(j) ==
    /\ Unserved(j, "search")
    /\ Answer(j, "ok")
    /\ UNCHANGED <<scenario, assetVars, step, about, payload, query, editorVars,
                   listVars, asked>>

(* Another client edits an asset: a technician its hidden part, another     *)
(* page or the programming of a decoder address its fields.                 *)
EditElsewhere(a, status, note, hidden) ==
    /\ edits < scenario.edits
    /\ db[a] # None
    /\ edits' = edits + 1
    /\ db' = [db EXCEPT ![a] = [rev |-> db[a].rev + 1, status |-> status,
                                note |-> note, hidden |-> hidden]]
    /\ UNCHANGED <<scenario, jobVars, editorVars, listVars, asked>>

-----------------------------------------------------------------------------
(* The library screen. *)

(* Mutant: the answer to an older search is shown too. *)
IsNewestAlways(j) == TRUE

IsNewest(j) == j = newest

(* load(): the query is what the fields and offset say now.                 *)
Load(j, page) ==
    /\ offset' = page
    /\ newest' = j
    /\ query' = [query EXCEPT ![j] = [filter |-> filter, page |-> page]]
    /\ Request(j, "search", None)
    /\ UNCHANGED <<scenario, assetVars, payload, filter, cards, summary, more, asked>>

PageBefore == IF offset = 0 THEN 0 ELSE offset - 1

PressPrevious(j) ==
    /\ Clicked(j, "previous")
    /\ screen = "library"
    /\ summary # 0
    /\ Load(j, PageBefore)
    /\ UNCHANGED <<editorVars, timer>>

PressNext(j) ==
    /\ Clicked(j, "next")
    /\ screen = "library"
    /\ more
    /\ offset < LastPage
    /\ Load(j, offset + 1)
    /\ UNCHANGED <<editorVars, timer>>

ChangeFilter(f) ==
    /\ screen = "library"
    /\ \E j \in Job : Clicked(j, "filter")
    /\ f # filter
    /\ filter' = f
    /\ timer' = TRUE
    /\ UNCHANGED <<scenario, assetVars, jobVars, editorVars, offset, newest,
                   cards, summary, more, asked>>

FilterTimer(j) ==
    /\ Clicked(j, "filter")
    /\ timer
    /\ timer' = FALSE
    /\ Load(j, 0)
    /\ UNCHANGED editorVars

(* The summary and the buttons are made from offset, not from the answer.   *)
ListArrives(j) ==
    /\ step[j] = "search"
    /\ answer[j] # "none"
    /\ Ended(j)
    /\ IF IsNewest(j)
       THEN /\ cards' = query[j]
            /\ summary' = offset
            /\ more' \in BOOLEAN
       ELSE UNCHANGED <<cards, summary, more>>
    /\ UNCHANGED <<scenario, assetVars, editorVars, filter, timer, offset, newest,
                   asked>>

-----------------------------------------------------------------------------
(* The editor. *)

OpenCard(j, a) ==
    /\ Clicked(j, "open")
    /\ screen = "library"
    /\ db[a] # None
    /\ Request(j, "get", a)
    /\ UNCHANGED <<scenario, assetVars, payload, query, editorVars, listVars, asked>>

(* edit() of a new asset, up to its wait for an identity.                   *)
PressAdd(j) ==
    /\ Clicked(j, "add")
    /\ screen = "library"
    /\ current' = None
    /\ form' = EmptyForm
    /\ filled' = None
    /\ Request(j, "next id", None)
    /\ UNCHANGED <<scenario, assetVars, payload, query, screen, mode, listVars, asked>>

PressBack(j) ==
    /\ Clicked(j, "back")
    /\ screen = "editor"
    /\ screen' = "library"
    /\ Load(j, offset)
    /\ UNCHANGED <<mode, current, form, filled, timer>>

(* edit-toggle, hidden while adding.                                        *)
PressEdit ==
    /\ screen = "editor"
    /\ mode = "view"
    /\ current # None
    /\ mode' = "edit"
    /\ UNCHANGED <<scenario, assetVars, jobVars, screen, current, form, filled,
                   listVars, asked>>

PressCancel(j) ==
    /\ Clicked(j, "cancel")
    /\ screen = "editor"
    /\ mode = "edit"
    /\ current # None
    /\ Request(j, "get", current.id)
    /\ UNCHANGED <<scenario, assetVars, payload, query, editorVars, listVars, asked>>

(* field('family').onchange: a new asset's identity follows its family.     *)
ChangeFamily(j) ==
    /\ Clicked(j, "family")
    /\ screen = "editor"
    /\ mode # "view"
    /\ current = None
    /\ Request(j, "family id", None)
    /\ UNCHANGED <<scenario, assetVars, payload, query, editorVars, listVars, asked>>

FamilyIdArrives(j) ==
    /\ step[j] = "family id"
    /\ answer[j] # "none"
    /\ form' = [form EXCEPT !.id = found[j]]
    /\ Ended(j)
    /\ UNCHANGED <<scenario, assetVars, screen, mode, current, filled, listVars,
                   asked>>

(* The operator's changes, for a submit to come.                            *)
ChangeForm(status, note) ==
    /\ screen = "editor"
    /\ mode # "view"
    /\ \E j \in Job : step[j] = "unused" /\ scenario.clicks[j] = "submit"
    /\ form' = [form EXCEPT !.status = status, !.note = note]
    /\ form' # form
    /\ UNCHANGED <<scenario, assetVars, jobVars, screen, mode, current, filled,
                   listVars, asked>>

(* The rest of edit(id): current and the form are set together.             *)
AssetArrives(j) ==
    /\ step[j] = "get"
    /\ answer[j] # "none"
    /\ LET a == found[j] IN
       /\ current' = [id |-> about[j], rev |-> a.rev, status |-> a.status,
                      hidden |-> a.hidden]
       /\ form' = [id |-> about[j], status |-> a.status, note |-> a.note]
       /\ filled' = [id |-> about[j], rev |-> a.rev]
    /\ screen' = "editor"
    /\ mode' = "view"
    /\ Ended(j)
    /\ UNCHANGED <<scenario, assetVars, listVars, asked>>

NextIdArrives(j) ==
    /\ step[j] = "next id"
    /\ answer[j] # "none"
    /\ form' = [form EXCEPT !.id = found[j]]
    /\ screen' = "editor"
    /\ mode' = "add"
    /\ Ended(j)
    /\ UNCHANGED <<scenario, assetVars, current, filled, listVars, asked>>

(* Mutant: what the form does not show starts empty. *)
BodyWithoutHidden(c) ==
    [id |-> IF c = None THEN form.id ELSE c.id,
     rev |-> IF c = None THEN None ELSE c.rev,
     status |-> form.status, note |-> form.note, hidden |-> Blank,
     of |-> filled]

(* The form's fields, and the rest as current has it.                       *)
Body(c) ==
    [id |-> IF c = None THEN form.id ELSE c.id,
     rev |-> IF c = None THEN None ELSE c.rev,
     status |-> form.status, note |-> form.note,
     hidden |-> IF c = None THEN Blank ELSE c.hidden,
     of |-> filled]

Save(j) ==
    /\ payload' = [payload EXCEPT ![j] = Body(current)]
    /\ Request(j, "save", Body(current).id)
    /\ UNCHANGED query

(* Mutant: the operation state is never asked for. *)
LeavesActiveNever == FALSE

LeavesActive == current # None /\ current.status = "active" /\ form.status # "active"

(* form.onsubmit; the button is disabled until its function ends.           *)
PressSave(j) ==
    /\ Clicked(j, "submit")
    /\ screen = "editor"
    /\ ~Submitting
    /\ current = None => form.id # None
    /\ IF LeavesActive
       THEN Request(j, "ask", current.id) /\ UNCHANGED <<payload, query>>
       ELSE Save(j)
    /\ UNCHANGED <<scenario, assetVars, editorVars, listVars, asked>>

(* Not held, or the operator confirms: the body is made from the form and   *)
(* current as they are now.                                                 *)
OperationArrives(j) ==
    /\ step[j] = "ask"
    /\ answer[j] # "none"
    /\ Save(j) /\ (current = None => form.id # None)
    /\ UNCHANGED <<scenario, assetVars, editorVars, listVars, asked>>

Dismissed(j) ==
    /\ step[j] = "ask"
    /\ answer[j] = "held"
    /\ Ended(j)
    /\ UNCHANGED <<scenario, assetVars, editorVars, listVars, asked>>

SaveArrives(j) ==
    /\ step[j] = "save"
    /\ answer[j] # "none"
    /\ IF answer[j] = "ok"
       THEN Request(j, "get", payload[j].id) /\ UNCHANGED <<payload, query>>
       ELSE Ended(j)
    /\ UNCHANGED <<scenario, assetVars, editorVars, listVars, asked>>

PressUpload(j) ==
    /\ Clicked(j, "photo")
    /\ screen = "editor"
    /\ mode = "edit"
    /\ current # None
    /\ Request(j, "upload", current.id)
    /\ UNCHANGED <<scenario, assetVars, payload, query, editorVars, listVars, asked>>

(* The asset read again is the one that is current now.                     *)
UploadArrives(j) ==
    /\ step[j] = "upload"
    /\ answer[j] # "none"
    /\ IF answer[j] = "ok" /\ current # None
       THEN Request(j, "refresh", current.id) /\ UNCHANGED <<payload, query>>
       ELSE Ended(j)
    /\ UNCHANGED <<scenario, assetVars, editorVars, listVars, asked>>

(* current is replaced, the form stays.                                     *)
RefreshArrives(j) ==
    /\ step[j] = "refresh"
    /\ answer[j] # "none"
    /\ current' = [id |-> about[j], rev |-> found[j].rev,
                   status |-> found[j].status, hidden |-> found[j].hidden]
    /\ filled' = None
    /\ Ended(j)
    /\ UNCHANGED <<scenario, assetVars, screen, mode, form, listVars, asked>>

(* Any request may fail, before or after it was served.                     *)
RequestFails(j) ==
    /\ Waiting(j)
    /\ step' = [step EXCEPT ![j] = "failed"]
    /\ answer' = [answer EXCEPT ![j] = "none"]
    /\ found' = [found EXCEPT ![j] = None]
    /\ UNCHANGED <<about, payload, query>>
    /\ UNCHANGED <<scenario, assetVars, editorVars, listVars, asked>>
-----------------------------------------------------------------------------
Serve(j) ==
    \/ ServeAsset(j)
    \/ ServeNextId(j)
    \/ ServeOperation(j)
    \/ ServeSave(j)
    \/ ServeUpload(j)
    \/ ServeSearch(j)

LibraryStep(j) ==
    \/ PressPrevious(j)
    \/ PressNext(j)
    \/ FilterTimer(j)
    \/ ListArrives(j)
    \/ PressAdd(j)
    \/ \E a \in Asset : OpenCard(j, a)

EditorStep(j) ==
    \/ PressBack(j)
    \/ PressCancel(j)
    \/ AssetArrives(j)
    \/ NextIdArrives(j)
    \/ ChangeFamily(j)
    \/ FamilyIdArrives(j)
    \/ PressSave(j)
    \/ OperationArrives(j)
    \/ Dismissed(j)
    \/ SaveArrives(j)
    \/ PressUpload(j)
    \/ UploadArrives(j)
    \/ RefreshArrives(j)

Next ==
    \/ \E j \in Job : Serve(j) \/ LibraryStep(j) \/ EditorStep(j) \/ RequestFails(j)
    \/ \E f \in Filter : ChangeFilter(f)
    \/ PressEdit
    \/ \E status \in Status, note \in Value : ChangeForm(status, note)
    \/ \E a \in Asset, status \in Status, note, hidden \in Value :
            EditElsewhere(a, status, note, hidden)

Spec == Init /\ [][Next]_vars

-----------------------------------------------------------------------------
(* Properties. *)

(* When the newest search has been answered and the filters have not been   *)
(* touched since, the cards and the summary line are those of the filters   *)
(* and the page the operator is on, whatever answers arrive late.           *)
CardsCurrent ==
    newest # None /\ ~timer /\ step[newest] = "ended" =>
            cards = [filter |-> filter, page |-> offset] /\ summary = offset

(* Asset accepts the save of j in this step.                                *)
Accepts(j) == step[j] = "save" /\ answer[j] = "none" /\ answer'[j] = "ok"

(* ADR-008 "ordinary edits preserve those values": a save of this page      *)
(* never changes what its form does not show, however old the record was    *)
(* that the form was filled from.                                           *)
HiddenKept ==
    [][\A j \in Job :
        Accepts(j) /\ payload[j].rev # None =>
            db'[payload[j].id].hidden = db[payload[j].id].hidden]_vars

(* A save puts a form over the asset and the revision it was filled from,   *)
(* so it undoes nobody's edit, unless a photo was uploaded with the form    *)
(* open: the page then takes over the revision and keeps the old fields.    *)
NothingLost ==
    [][\A j \in Job :
        Accepts(j) =>
            LET p == payload[j] IN
            IF p.rev = None THEN db[p.id] = None
            ELSE p.of \in {[id |-> p.id, rev |-> db[p.id].rev], None}]_vars

(* No save takes an asset out of use unless its operator had the chance to  *)
(* be warned: the submit asked for the operation state first.               *)
AskedFirst ==
    [][\A j \in Job :
        Accepts(j) /\ payload[j].rev # None =>
            (db[payload[j].id].status = "active"
                /\ db'[payload[j].id].status # "active" => asked[j] # None)]_vars
=============================================================================
