-------------------------- MODULE RosterPageProofs --------------------------
(***************************************************************************)
(* Theorems about RosterPage, for any assets, clicks and edits of others.  *)
(* The argument: every copy of a record on the page or under way is the    *)
(* one of some revision, and a revision never comes back (Copies); so what *)
(* Asset accepts, by comparing the revision alone, agrees with the record  *)
(* it replaces in everything the page did not mean to change.              *)
(***************************************************************************)
EXTENDS RosterPage, TLAPS

USE DEF assetVars, jobVars, editorVars, listVars, vars

(* The waits whose request names an asset that exists.                      *)
Named == {"get", "refresh", "ask", "upload"}
Reads == {"get", "refresh"}
Ids == {"next id", "family id"}

(* A function at each of its waits.                                         *)
Fits(j) ==
    /\ step[j] \in Named => about[j] \in Asset /\ db[about[j]] \in Record
    /\ step[j] \in Reads /\ answer[j] # "none" => found[j] \in Record
    /\ step[j] \in Ids /\ answer[j] # "none" => found[j] \in Asset
    /\ step[j] = "ask" /\ answer[j] # "none" => asked[j] # None
    /\ step[j] = "save" => payload[j] \in Payload
    /\ step[j] = "save" /\ answer[j] = "ok" => db[payload[j].id] \in Record
    /\ step[j] = "search" => query[j] \in Query

CurrentExists == current # None => db[current.id] \in Record

Typed == TypeOK /\ CurrentExists /\ \A j \in Job : Fits(j)

LEMMA InitTyped == Init => Typed
  <1> SUFFICES ASSUME Init PROVE Typed
    OBVIOUS
  <1>1. db \in [Asset -> Record \cup {None}]
    BY ValueAssumption DEF Init, Record
  <1>2. form \in Form /\ cards \in Query /\ 0 \in 0..LastPage
    BY ValueAssumption, PageAssumption DEF Init, EmptyForm, Form, Status, Query
  <1>3. TypeOK
    BY <1>1, <1>2, PageAssumption DEF Init, TypeOK, Source
  <1>4. \A j \in Job : Fits(j)
    BY DEF Init, Fits, Named, Reads, Ids
  <1> QED BY <1>3, <1>4 DEF Typed, CurrentExists, Init

(* The database only grows. *)
Grows == \A a \in Asset : db[a] \in Record => db'[a] \in Record

(* A step of one function: the others do not see it. *)
Local(j) ==
    \A k \in Job : k # j =>
        /\ step'[k] = step[k] /\ about'[k] = about[k]
        /\ answer'[k] = answer[k] /\ found'[k] = found[k]
        /\ payload'[k] = payload[k] /\ query'[k] = query[k]
        /\ asked'[k] = asked[k]

LEMMA StaysTyped ==
  ASSUME Typed, TypeOK', CurrentExists', NEW j \in Job, Grows, Local(j), Fits(j)'
  PROVE  Typed'
  <1> SUFFICES ASSUME NEW k \in Job, k # j PROVE Fits(k)'
    BY DEF Typed
  <1>1. Fits(k)
    BY DEF Typed
  <1>2. step[k] = "save" => payload[k].id \in Asset
    BY <1>1 DEF Fits, Payload
  <1> QED BY <1>1, <1>2 DEF Fits, Grows, Local

LEMMA ServeKeeps ==
  ASSUME Typed, NEW j \in Job, Serve(j)
  PROVE  Typed' /\ Grows
  <1>1. TypeOK /\ Fits(j)
    BY DEF Typed
  <1>2. ASSUME UNCHANGED <<scenario, edits, step, about, payload, query>>,
               UNCHANGED <<screen, mode, current, form, filled>>,
               UNCHANGED <<filter, timer, offset, newest, cards, summary, more>>,
               NEW word \in {"ok", "refused", "held"},
               answer' = [answer EXCEPT ![j] = word],
               found' \in [Job -> Record \cup Asset \cup {None}],
               asked' \in [Job -> Asset \cup {None}],
               db' \in [Asset -> Record \cup {None}], Grows,
               \A k \in Job : k # j => found'[k] = found[k] /\ asked'[k] = asked[k],
               Fits(j)'
        PROVE  Typed' /\ Grows
    <2>1. TypeOK'
      BY <1>1, <1>2 DEF TypeOK
    <2>2. Local(j)
      BY <1>1, <1>2 DEF Local, TypeOK
    <2>3. CurrentExists'
      BY <1>2 DEF Typed, TypeOK, CurrentExists, Current, Grows
    <2> QED BY <1>2, <2>1, <2>2, <2>3, StaysTyped
  <1>3. CASE ServeAsset(j)
    <2>1. /\ step[j] \in Reads /\ about[j] \in Asset /\ db[about[j]] \in Record
      BY <1>1, <1>3 DEF ServeAsset, Unserved, Fits, Named, Reads, TypeOK
    <2>2. /\ UNCHANGED <<db, asked, step, about, payload, query>>
          /\ answer' = [answer EXCEPT ![j] = "ok"]
          /\ found' = [found EXCEPT ![j] = db[about[j]]]
      BY <1>3 DEF ServeAsset, Bring
    <2>3. Fits(j)'
      BY <1>1, <2>1, <2>2 DEF Fits, TypeOK, Named, Reads, Ids
    <2>4. /\ found' \in [Job -> Record \cup Asset \cup {None}]
          /\ \A k \in Job : k # j => found'[k] = found[k]
      BY <1>1, <2>1, <2>2 DEF TypeOK
    <2> QED BY <1>1, <1>2, <1>3, <2>2, <2>3, <2>4 DEF ServeAsset, Grows, TypeOK
  <1>4. CASE ServeNextId(j)
    <2>1. PICK a \in Asset : Bring(j, a)
      BY <1>4 DEF ServeNextId
    <2>2. /\ UNCHANGED <<db, asked, step, about, payload, query>> /\ step[j] \in Ids
          /\ answer' = [answer EXCEPT ![j] = "ok"]
          /\ found' = [found EXCEPT ![j] = a]
      BY <1>4, <2>1 DEF ServeNextId, Bring, Unserved, Ids
    <2>3. Fits(j)'
      BY <1>1, <2>1, <2>2 DEF Fits, TypeOK, Named, Reads, Ids
    <2>4. /\ found' \in [Job -> Record \cup Asset \cup {None}]
          /\ \A k \in Job : k # j => found'[k] = found[k]
      BY <1>1, <2>1, <2>2 DEF TypeOK
    <2> QED BY <1>1, <1>2, <1>4, <2>2, <2>3, <2>4 DEF ServeNextId, Grows, TypeOK
  <1>5. CASE ServeOperation(j)
    <2>1. /\ UNCHANGED <<db, found, step, about, payload, query>>
          /\ step[j] = "ask" /\ about[j] \in Asset
          /\ asked' = [asked EXCEPT ![j] = about[j]]
          /\ \E word \in {"ok", "held"} : answer' = [answer EXCEPT ![j] = word]
      BY <1>1, <1>5 DEF ServeOperation, Answer, Unserved, Fits, Named
    <2>2. Fits(j)'
      BY <1>1, <2>1, AssetAssumption DEF Fits, TypeOK, Named, Reads, Ids
    <2>3. /\ asked' \in [Job -> Asset \cup {None}]
          /\ \A k \in Job : k # j => asked'[k] = asked[k]
      BY <1>1, <2>1 DEF TypeOK
    <2> QED BY <1>1, <1>2, <1>5, <2>1, <2>2, <2>3 DEF ServeOperation, Grows, TypeOK
  <1>6. CASE ServeSave(j)
    <2>1. /\ UNCHANGED <<asked, found, step, about, payload, query>>
          /\ step[j] = "save" /\ payload[j] \in Payload
      BY <1>1, <1>6 DEF ServeSave, Saved, Answer, Unserved, Fits
    <2>2. CASE Saved(j)
      <3> DEFINE p == payload[j]
                 r == [rev |-> IF p.rev = None THEN 1 ELSE db[p.id].rev + 1,
                       status |-> p.status, note |-> p.note, hidden |-> p.hidden]
      <3>1. /\ answer' = [answer EXCEPT ![j] = "ok"]
            /\ db' = [db EXCEPT ![p.id] = r]
            /\ Acceptable(p)
        BY <2>2 DEF Saved, Answer
      <3>a. p.rev # None => db[p.id].rev \in Nat
        BY <1>1, <2>1, <3>1 DEF Acceptable, Payload, Record, TypeOK
      <3>2. p.id \in Asset /\ r \in Record
        BY <2>1, <3>a DEF Payload, Record
      <3>3. db' \in [Asset -> Record \cup {None}] /\ Grows /\ db'[p.id] \in Record
        <4> HIDE DEF r
        <4> QED BY <1>1, <3>1, <3>2 DEF TypeOK, Grows
      <3>4. Fits(j)'
        BY <1>1, <2>1, <3>1, <3>3 DEF Fits, TypeOK, Named, Reads, Ids
      <3> QED BY <1>1, <1>2, <1>6, <2>1, <3>1, <3>3, <3>4 DEF ServeSave, TypeOK
    <2>3. CASE Answer(j, "refused") /\ UNCHANGED db
      <3>1. Fits(j)'
        BY <1>1, <2>1, <2>3 DEF Fits, TypeOK, Named, Reads, Ids, Answer
      <3> QED BY <1>1, <1>2, <1>6, <2>1, <2>3, <3>1 DEF ServeSave, TypeOK, Grows, Answer
    <2> QED BY <1>6, <2>2, <2>3 DEF ServeSave
  <1>7. CASE ServeUpload(j) \/ ServeSearch(j)
    <2>1. /\ UNCHANGED <<db, asked, found, step, about, payload, query>>
          /\ step[j] \in {"upload", "search"}
          /\ \E word \in {"ok", "refused"} : answer' = [answer EXCEPT ![j] = word]
      BY <1>7 DEF ServeUpload, ServeSearch, Answer, Unserved
    <2>2. Fits(j)'
      BY <1>1, <2>1 DEF Fits, TypeOK, Named, Reads, Ids
    <2> QED
      BY <1>1, <1>2, <1>7, <2>1, <2>2 DEF ServeUpload, ServeSearch, TypeOK, Grows
  <1> QED BY <1>3, <1>4, <1>5, <1>6, <1>7 DEF Serve

(* What the page shows is well typed. *)
EditorOK ==
    /\ screen \in {"library", "editor"}
    /\ mode \in {"view", "edit", "add"}
    /\ current \in Current \cup {None}
    /\ form \in Form
    /\ filled \in Source
    /\ CurrentExists

ListOK ==
    /\ filter \in Filter
    /\ timer \in BOOLEAN
    /\ offset \in 0..LastPage
    /\ newest \in Job \cup {None}
    /\ cards \in Query
    /\ summary \in 0..LastPage
    /\ more \in BOOLEAN

LEMMA Shown ==
  ASSUME Typed
  PROVE  EditorOK /\ ListOK
  BY DEF Typed, TypeOK, EditorOK, ListOK

LEMMA ShownSame ==
  ASSUME Typed
  PROVE  /\ UNCHANGED <<editorVars, db>> => EditorOK'
         /\ UNCHANGED listVars => ListOK'
  BY DEF Typed, TypeOK, EditorOK, ListOK, CurrentExists

(* A function sends a request. *)
LEMMA RequestKeeps ==
  ASSUME Typed, NEW j \in Job, NEW a \in Asset \cup {None},
         NEW to \in Named \cup Ids \cup {"save", "search"},
         Request(j, to, a),
         UNCHANGED <<scenario, edits, db, asked>>,
         to \in Named => a \in Asset /\ db[a] \in Record,
         UNCHANGED payload \/
            (to = "save" /\ \E p \in Payload : payload' = [payload EXCEPT ![j] = p]),
         UNCHANGED query \/
            (to = "search" /\ \E q \in Query : query' = [query EXCEPT ![j] = q]),
         to = "save" => payload'[j] \in Payload,
         to = "search" => query'[j] \in Query,
         EditorOK', ListOK'
  PROVE  Typed'
  <1>1. TypeOK
    BY DEF Typed
  <1>2. /\ step' = [step EXCEPT ![j] = to] /\ about' = [about EXCEPT ![j] = a]
        /\ answer' = [answer EXCEPT ![j] = "none"]
        /\ found' = [found EXCEPT ![j] = None]
    BY DEF Request
  <1>3. payload' \in [Job -> Payload \cup {None}] /\ query' \in [Job -> Query \cup {None}]
    BY <1>1 DEF TypeOK
  <1>4. TypeOK'
    BY <1>1, <1>2, <1>3 DEF TypeOK, EditorOK, ListOK, Named, Ids
  <1>5. Local(j) /\ Grows
    BY <1>1, <1>2 DEF Local, Grows, TypeOK
  <1>6. Fits(j)'
    BY <1>1, <1>2 DEF Fits, TypeOK, Named, Reads, Ids
  <1> QED BY <1>4, <1>5, <1>6, StaysTyped DEF EditorOK

(* A function ends. *)
LEMMA EndKeeps ==
  ASSUME Typed, NEW j \in Job, Ended(j) \/ RequestFails(j),
         UNCHANGED <<scenario, edits, db, asked>>, EditorOK', ListOK'
  PROVE  Typed'
  <1>1. TypeOK
    BY DEF Typed
  <1>2. /\ \E s \in {"ended", "failed"} : step' = [step EXCEPT ![j] = s]
        /\ answer' = [answer EXCEPT ![j] = "none"]
        /\ found' = [found EXCEPT ![j] = None]
        /\ UNCHANGED <<about, payload, query>>
    BY DEF Ended, RequestFails
  <1>3. TypeOK'
    BY <1>1, <1>2 DEF TypeOK, EditorOK, ListOK
  <1>4. Local(j) /\ Grows
    BY <1>1, <1>2 DEF Local, Grows, TypeOK
  <1>5. Fits(j)'
    BY <1>1, <1>2 DEF Fits, TypeOK, Named, Reads, Ids
  <1> QED BY <1>3, <1>4, <1>5, StaysTyped DEF EditorOK

(* The library screen. *)
LEMMA LoadKeeps ==
  ASSUME Typed, NEW j \in Job, NEW page \in 0..LastPage, Load(j, page),
         UNCHANGED timer \/ timer' = FALSE, EditorOK'
  PROVE  Typed'
  <1>1. TypeOK
    BY DEF Typed
  <1>2. [filter |-> filter, page |-> page] \in Query
    BY <1>1 DEF TypeOK, Query
  <1>3. query' = [query EXCEPT ![j] = [filter |-> filter, page |-> page]]
    BY DEF Load
  <1>4. query'[j] \in Query
    BY <1>1, <1>2, <1>3 DEF TypeOK
  <1>5. ListOK'
    BY <1>1 DEF Load, ListOK, TypeOK
  <1>6. /\ Request(j, "search", None)
        /\ UNCHANGED <<scenario, edits, db, asked, payload>>
    BY DEF Load
  <1> QED
    BY <1>2, <1>3, <1>4, <1>5, <1>6, RequestKeeps DEF Named

LEMMA LibraryKeeps ==
  ASSUME Typed, NEW j \in Job, LibraryStep(j)
  PROVE  Typed'
  <1>1. TypeOK /\ EditorOK /\ ListOK /\ Fits(j)
    BY Shown DEF Typed
  <1>a. offset \in 0..LastPage /\ LastPage \in Nat
    BY <1>1, PageAssumption DEF ListOK
  <1>2. CASE PressPrevious(j)
    <2>1. PageBefore \in 0..LastPage
      BY <1>a DEF PageBefore
    <2> QED BY <1>1, <1>2, <2>1, LoadKeeps, ShownSame DEF PressPrevious, Load
  <1>3. CASE PressNext(j)
    <2>1. offset + 1 \in 0..LastPage
      BY <1>3, <1>a DEF PressNext
    <2> QED BY <1>1, <1>3, <2>1, LoadKeeps, ShownSame DEF PressNext, Load
  <1>4. CASE FilterTimer(j)
    <2>1. 0 \in 0..LastPage
      BY PageAssumption
    <2> QED BY <1>1, <1>4, <2>1, LoadKeeps, ShownSame DEF FilterTimer, Load
  <1>5. CASE ListArrives(j)
    <2>1. Ended(j) /\ UNCHANGED <<scenario, edits, db, asked>> /\ EditorOK'
      BY <1>1, <1>5, ShownSame DEF ListArrives
    <2>2. query[j] \in Query
      BY <1>1, <1>5 DEF ListArrives, Fits
    <2>3. cards' \in {cards, query[j]} /\ summary' \in {summary, offset}
      BY <1>5 DEF ListArrives
    <2>4. more' \in BOOLEAN
      BY <1>1, <1>5 DEF ListArrives, TypeOK
    <2>5. ListOK'
      BY <1>1, <1>5, <2>2, <2>3, <2>4 DEF ListArrives, ListOK
    <2> QED BY <2>1, <2>5, EndKeeps
  <1>6. CASE PressAdd(j)
    <2>1. form' \in Form
      BY <1>6, ValueAssumption DEF PressAdd, EmptyForm, Form, Status
    <2>2. EditorOK' /\ ListOK'
      BY <1>1, <1>6, <2>1, ShownSame DEF PressAdd, EditorOK, Source, CurrentExists
    <2>3. Request(j, "next id", None) /\ UNCHANGED <<scenario, edits, db, asked, payload, query>>
      BY <1>6 DEF PressAdd
    <2> QED BY <2>2, <2>3, RequestKeeps DEF Named, Ids
  <1>7. ASSUME NEW a \in Asset, OpenCard(j, a) PROVE Typed'
    <2>1. /\ Request(j, "get", a) /\ db[a] \in Record
          /\ UNCHANGED <<scenario, edits, db, asked, payload, query>>
      BY <1>1, <1>7 DEF OpenCard, TypeOK
    <2>2. EditorOK' /\ ListOK'
      BY <1>1, <1>7, ShownSame DEF OpenCard
    <2> QED BY <2>1, <2>2, RequestKeeps DEF Named, Ids
  <1> QED BY <1>2, <1>3, <1>4, <1>5, <1>6, <1>7 DEF LibraryStep

(* The editor. *)
LEMMA BodyTyped ==
  ASSUME EditorOK, current = None => form.id # None
  PROVE  Body(current) \in Payload
  <1>1. form.status \in Status /\ form.note \in Value
    BY DEF EditorOK, Form
  <1>2. CASE current = None
    BY <1>1, <1>2, ValueAssumption DEF Body, EditorOK, Form, Payload
  <1>3. CASE current # None
    BY <1>1, <1>3 DEF Body, EditorOK, Current, Payload
  <1> QED BY <1>2, <1>3

LEMMA SaveKeeps ==
  ASSUME Typed, NEW j \in Job, Save(j), current = None => form.id # None,
         UNCHANGED <<scenario, edits, db, asked>>, UNCHANGED <<editorVars, listVars>>
  PROVE  Typed'
  <1>1. TypeOK /\ EditorOK /\ ListOK
    BY Shown DEF Typed
  <1>2. Body(current) \in Payload /\ Body(current).id \in Asset
    BY <1>1, BodyTyped DEF Payload
  <1>3. payload' = [payload EXCEPT ![j] = Body(current)] /\ UNCHANGED query
    BY DEF Save
  <1>4. payload'[j] \in Payload
    BY <1>1, <1>2, <1>3 DEF TypeOK
  <1>5. Request(j, "save", Body(current).id)
    BY DEF Save
  <1>6. EditorOK' /\ ListOK'
    BY <1>1, ShownSame
  <1> HIDE DEF Body, Payload
  <1> QED BY <1>2, <1>3, <1>4, <1>5, <1>6, RequestKeeps DEF Named

LEMMA ArrivalKeeps ==
  ASSUME Typed, NEW j \in Job,
         AssetArrives(j) \/ NextIdArrives(j) \/ FamilyIdArrives(j) \/ RefreshArrives(j)
  PROVE  Typed'
  <1>1. TypeOK /\ EditorOK /\ ListOK /\ Fits(j)
    BY Shown DEF Typed
  <1>2. Ended(j) /\ UNCHANGED <<scenario, edits, db, asked>> /\ UNCHANGED listVars
    BY DEF AssetArrives, NextIdArrives, FamilyIdArrives, RefreshArrives
  <1>3. CASE AssetArrives(j)
    <2>1. about[j] \in Asset /\ found[j] \in Record
      BY <1>1, <1>3 DEF AssetArrives, Fits, Named, Reads
    <2>2. /\ current' = [id |-> about[j], rev |-> found[j].rev,
                         status |-> found[j].status, hidden |-> found[j].hidden]
          /\ form' = [id |-> about[j], status |-> found[j].status,
                      note |-> found[j].note]
          /\ filled' = [id |-> about[j], rev |-> found[j].rev]
          /\ screen' = "editor" /\ mode' = "view"
      BY <1>3 DEF AssetArrives
    <2>0. UNCHANGED db /\ db[about[j]] \in Record
      BY <1>1, <1>2, <1>3 DEF AssetArrives, Fits, Named, Reads
    <2>3. EditorOK'
      BY <2>0, <2>1, <2>2 DEF EditorOK, CurrentExists, Record, Current, Form, Source
    <2> QED BY <1>1, <1>2, <2>3, EndKeeps, ShownSame
  <1>4. CASE NextIdArrives(j) \/ FamilyIdArrives(j)
    <2>1. found[j] \in Asset
      BY <1>1, <1>4 DEF NextIdArrives, FamilyIdArrives, Fits, Ids
    <2>2. /\ form' = [form EXCEPT !.id = found[j]] /\ UNCHANGED <<current, filled>>
          /\ screen' \in {screen, "editor"} /\ mode' \in {mode, "add"}
      BY <1>4 DEF NextIdArrives, FamilyIdArrives
    <2>3. form' \in Form
      BY <1>1, <2>1, <2>2 DEF EditorOK, Form
    <2>4. EditorOK'
      BY <1>1, <1>2, <2>2, <2>3 DEF EditorOK, CurrentExists
    <2> QED BY <1>1, <1>2, <2>4, EndKeeps, ShownSame
  <1>5. CASE RefreshArrives(j)
    <2>1. about[j] \in Asset /\ found[j] \in Record
      BY <1>1, <1>5 DEF RefreshArrives, Fits, Named, Reads
    <2>2. /\ current' = [id |-> about[j], rev |-> found[j].rev,
                         status |-> found[j].status, hidden |-> found[j].hidden]
          /\ filled' = None /\ UNCHANGED <<screen, mode, form>>
      BY <1>5 DEF RefreshArrives
    <2>0. UNCHANGED db /\ db[about[j]] \in Record
      BY <1>1, <1>2, <1>5 DEF RefreshArrives, Fits, Named, Reads
    <2>3. EditorOK'
      BY <1>1, <2>0, <2>1, <2>2 DEF EditorOK, CurrentExists, Record, Current, Source
    <2> QED BY <1>1, <1>2, <2>3, EndKeeps, ShownSame
  <1> QED BY <1>3, <1>4, <1>5

LEMMA EditorKeeps ==
  ASSUME Typed, NEW j \in Job, EditorStep(j)
  PROVE  Typed'
  <1>1. TypeOK /\ EditorOK /\ ListOK /\ Fits(j)
    BY Shown DEF Typed
  <1>2. \A a \in Asset : db[a] # None => db[a] \in Record
    BY <1>1 DEF TypeOK
  <1>3. current # None => current.id \in Asset /\ db[current.id] \in Record
    BY <1>1 DEF EditorOK, Current, CurrentExists
  <1>4. CASE PressBack(j)
    <2>1. offset \in 0..LastPage /\ Load(j, offset) /\ UNCHANGED timer
      BY <1>1, <1>4 DEF PressBack, ListOK
    <2>2. EditorOK'
      BY <1>1, <1>4 DEF PressBack, Load, EditorOK, CurrentExists
    <2> QED BY <2>1, <2>2, LoadKeeps
  <1>5. ASSUME Ended(j), UNCHANGED <<scenario, edits, db, asked>>,
               UNCHANGED <<editorVars, listVars>>
        PROVE  Typed'
    BY <1>1, <1>5, EndKeeps, ShownSame
  <1>6. ASSUME NEW to \in Named \cup Ids, NEW a \in Asset \cup {None},
               Request(j, to, a), to \in Named => a \in Asset /\ db[a] \in Record,
               UNCHANGED <<scenario, edits, db, asked, payload, query>>,
               UNCHANGED <<editorVars, listVars>>
        PROVE  Typed'
    <2>1. EditorOK' /\ ListOK'
      BY <1>1, <1>6, ShownSame
    <2> QED BY <1>6, <2>1, RequestKeeps DEF Named, Ids
  <1>7. CASE PressCancel(j)
    BY <1>3, <1>6, <1>7 DEF PressCancel, Named
  <1>8. CASE ChangeFamily(j)
    BY <1>6, <1>8 DEF ChangeFamily, Named, Ids
  <1>9. CASE PressUpload(j)
    BY <1>3, <1>6, <1>9 DEF PressUpload, Named
  <1>10. CASE PressSave(j)
    <2>1. CASE LeavesActive
      BY <1>3, <1>6, <1>10, <2>1 DEF PressSave, LeavesActive, Named
    <2>2. CASE ~LeavesActive
      BY <1>10, <2>2, SaveKeeps DEF PressSave
    <2> QED BY <2>1, <2>2
  <1>11. CASE OperationArrives(j)
    BY <1>11, SaveKeeps DEF OperationArrives
  <1>12. CASE Dismissed(j)
    BY <1>5, <1>12 DEF Dismissed
  <1>13. CASE SaveArrives(j)
    <2>1. CASE answer[j] = "ok"
      <3>1. payload[j].id \in Asset /\ db[payload[j].id] \in Record
        BY <1>1, <1>13, <2>1 DEF SaveArrives, Fits, Payload
      <3> QED BY <1>6, <1>13, <2>1, <3>1 DEF SaveArrives, Named
    <2>2. CASE answer[j] # "ok"
      BY <1>5, <1>13, <2>2 DEF SaveArrives
    <2> QED BY <2>1, <2>2
  <1>14. CASE UploadArrives(j)
    <2>1. CASE answer[j] = "ok" /\ current # None
      BY <1>3, <1>6, <1>14, <2>1 DEF UploadArrives, Named
    <2>2. CASE ~(answer[j] = "ok" /\ current # None)
      BY <1>5, <1>14, <2>2 DEF UploadArrives
    <2> QED BY <2>1, <2>2
  <1>15. CASE AssetArrives(j) \/ NextIdArrives(j) \/ FamilyIdArrives(j) \/ RefreshArrives(j)
    BY <1>15, ArrivalKeeps
  <1> QED
    BY <1>4, <1>7, <1>8, <1>9, <1>10, <1>11, <1>12, <1>13, <1>14, <1>15
    DEF EditorStep

LEMMA NextTyped == Typed /\ [Next]_vars => Typed'
  <1> SUFFICES ASSUME Typed, [Next]_vars PROVE Typed'
    OBVIOUS
  <1>1. TypeOK /\ EditorOK /\ ListOK
    BY Shown DEF Typed
  <1>2. ASSUME UNCHANGED <<edits, step, about, answer, found, payload, query, asked>>,
               db' = db, TypeOK', UNCHANGED <<scenario, current>>
        PROVE  Typed'
    BY <1>2 DEF Typed, Fits, CurrentExists
  <1>3. ASSUME NEW j \in Job,
               Serve(j) \/ LibraryStep(j) \/ EditorStep(j) \/ RequestFails(j)
        PROVE  Typed'
    <2>1. CASE RequestFails(j)
      BY <1>1, <2>1, EndKeeps, ShownSame DEF RequestFails
    <2> QED BY <1>3, <2>1, ServeKeeps, LibraryKeeps, EditorKeeps
  <1>4. ASSUME NEW f \in Filter, ChangeFilter(f) PROVE Typed'
    BY <1>1, <1>2, <1>4 DEF ChangeFilter, TypeOK
  <1>5. CASE PressEdit
    BY <1>1, <1>2, <1>5 DEF PressEdit, TypeOK
  <1>6. ASSUME NEW status \in Status, NEW note \in Value, ChangeForm(status, note)
        PROVE  Typed'
    <2>1. form' = [form EXCEPT !.status = status, !.note = note]
      BY <1>6 DEF ChangeForm
    <2>2. form' \in Form
      BY <1>1, <2>1 DEF EditorOK, Form
    <2> QED BY <1>1, <1>2, <1>6, <2>2 DEF ChangeForm, TypeOK
  <1>7. ASSUME NEW a \in Asset, NEW status \in Status, NEW note \in Value,
               NEW hidden \in Value, EditElsewhere(a, status, note, hidden)
        PROVE  Typed'
    <2> DEFINE r == [rev |-> db[a].rev + 1, status |-> status, note |-> note,
                     hidden |-> hidden]
    <2>1. /\ UNCHANGED <<scenario, step, about, answer, found, payload, query, asked>>
          /\ UNCHANGED <<screen, mode, current, form, filled>> /\ UNCHANGED listVars
          /\ db' = [db EXCEPT ![a] = r] /\ edits' = edits + 1 /\ db[a] # None
      BY <1>7 DEF EditElsewhere
    <2>0. db[a] \in Record /\ edits \in Nat
      BY <1>1, <2>1 DEF TypeOK
    <2>2. r \in Record /\ edits' \in Nat
      BY <2>0, <2>1 DEF Record
    <2> HIDE DEF r
    <2>3. Grows /\ db' \in [Asset -> Record \cup {None}]
      BY <1>1, <2>1, <2>2 DEF TypeOK, Grows
    <2>4. TypeOK'
      BY <1>1, <2>1, <2>2, <2>3 DEF TypeOK
    <2>5. CurrentExists'
      BY <1>1, <2>1, <2>3 DEF EditorOK, CurrentExists, Grows, Current
    <2>6. ASSUME NEW j \in Job PROVE Fits(j)'
      BY <2>1, <2>3, <2>6 DEF Typed, Fits, Grows, Payload
    <2> QED BY <2>4, <2>5, <2>6 DEF Typed
  <1>8. CASE UNCHANGED vars
    BY <1>1, <1>2, <1>8 DEF TypeOK
  <1> QED BY <1>3, <1>4, <1>5, <1>6, <1>7, <1>8 DEF Next

(* Every state of the page and of the database is well typed.               *)
THEOREM RosterTypeCorrect == Spec => []TypeOK
  <1>1. Typed => TypeOK
    BY DEF Typed
  <1> QED BY <1>1, InitTyped, NextTyped, PTL DEF Spec

(* The list.  The newest search asked for what the page stands at now.      *)
ListInvariant ==
    newest # None =>
        /\ step[newest] \in {"search", "ended", "failed"}
        /\ query[newest] \in Query
        /\ query[newest].page = offset
        /\ ~timer => query[newest].filter = filter
        /\ step[newest] = "ended" => cards = query[newest] /\ summary = offset

LEMMA ListSame ==
  ASSUME ListInvariant, UNCHANGED listVars,
         newest # None => step'[newest] = step[newest] /\ query'[newest] = query[newest]
  PROVE  ListInvariant'
  BY DEF ListInvariant

LEMMA LoadLists ==
  ASSUME Typed, NEW j \in Job, NEW page \in 0..LastPage, Load(j, page),
         UNCHANGED timer \/ timer' = FALSE
  PROVE  ListInvariant'
  <1>1. TypeOK
    BY DEF Typed
  <1>2. /\ newest' = j /\ offset' = page /\ UNCHANGED filter
        /\ step' = [step EXCEPT ![j] = "search"]
        /\ query' = [query EXCEPT ![j] = [filter |-> filter, page |-> page]]
    BY DEF Load, Request
  <1>3. query'[j] = [filter |-> filter, page |-> page] /\ step'[j] = "search"
    BY <1>1, <1>2 DEF TypeOK
  <1>5. filter \in Filter
    BY <1>1 DEF TypeOK
  <1>4. query'[j] \in Query
    BY <1>3, <1>5 DEF Query
  <1> QED BY <1>2, <1>3, <1>4 DEF ListInvariant

LEMMA EditorLists ==
  ASSUME Typed, ListInvariant, NEW j \in Job, EditorStep(j) \/ RequestFails(j)
  PROVE  ListInvariant'
  <1>1. TypeOK /\ ListOK
    BY Shown DEF Typed
  <1>2. ASSUME UNCHANGED listVars, UNCHANGED query,
               step[j] \notin {"search", "ended", "failed"},
               \E s : step' = [step EXCEPT ![j] = s]
        PROVE  ListInvariant'
    <2>1. newest # None => newest \in Job /\ newest # j
      BY <1>1, <1>2 DEF ListInvariant, ListOK
    <2> QED BY <1>1, <1>2, <2>1, ListSame DEF TypeOK
  <1>3. CASE PressBack(j)
    <2>1. offset \in 0..LastPage /\ Load(j, offset) /\ UNCHANGED timer
      BY <1>1, <1>3 DEF PressBack, ListOK
    <2> QED BY <2>1, LoadLists
  <1>4. CASE RequestFails(j)
    <2>1. /\ UNCHANGED listVars /\ UNCHANGED query
          /\ step' = [step EXCEPT ![j] = "failed"]
          /\ step[j] \notin {"ended", "failed"}
      BY <1>4 DEF RequestFails, Waiting
    <2>2. newest # None => newest \in Job
      BY <1>1 DEF ListOK
    <2>3. newest # None => step'[newest] = step[newest] \/ step'[newest] = "failed"
      BY <1>1, <2>1, <2>2 DEF TypeOK
    <2> QED BY <2>1, <2>2, <2>3 DEF ListInvariant
  <1>5. ASSUME \/ PressCancel(j) \/ AssetArrives(j) \/ NextIdArrives(j)
               \/ ChangeFamily(j) \/ FamilyIdArrives(j) \/ PressSave(j)
               \/ OperationArrives(j) \/ Dismissed(j) \/ SaveArrives(j)
               \/ PressUpload(j) \/ UploadArrives(j) \/ RefreshArrives(j)
        PROVE  ListInvariant'
    <2>1. UNCHANGED listVars /\ UNCHANGED query
      BY <1>5 DEF PressCancel, AssetArrives, NextIdArrives, ChangeFamily,
         FamilyIdArrives, PressSave, OperationArrives, Dismissed, SaveArrives,
         PressUpload, UploadArrives, RefreshArrives, Save, Ended
    <2>2. step[j] \notin {"search", "ended", "failed"}
      BY <1>5 DEF PressCancel, AssetArrives, NextIdArrives, ChangeFamily,
         FamilyIdArrives, PressSave, OperationArrives, Dismissed, SaveArrives,
         PressUpload, UploadArrives, RefreshArrives, Clicked
    <2>3. \E s : step' = [step EXCEPT ![j] = s]
      BY <1>5 DEF PressCancel, AssetArrives, NextIdArrives, ChangeFamily,
         FamilyIdArrives, PressSave, OperationArrives, Dismissed, SaveArrives,
         PressUpload, UploadArrives, RefreshArrives, Save, Ended, Request
    <2> QED BY <1>2, <2>1, <2>2, <2>3
  <1> QED BY <1>3, <1>4, <1>5 DEF EditorStep

LEMMA NextLists == Typed /\ ListInvariant /\ [Next]_vars => ListInvariant'
  <1> SUFFICES ASSUME Typed, ListInvariant, [Next]_vars PROVE ListInvariant'
    OBVIOUS
  <1>1. TypeOK /\ ListOK /\ \A j \in Job : Fits(j)
    BY Shown DEF Typed
  <1>2. ASSUME UNCHANGED <<step, query>>, UNCHANGED listVars PROVE ListInvariant'
    BY <1>2, ListSame
  <1>3. ASSUME NEW j \in Job, Serve(j) PROVE ListInvariant'
    BY <1>2, <1>3 DEF Serve, ServeAsset, ServeNextId, ServeOperation, ServeSave,
       ServeUpload, ServeSearch
  <1>4. ASSUME NEW j \in Job, LibraryStep(j) PROVE ListInvariant'
    <2>1. offset \in 0..LastPage /\ LastPage \in Nat
      BY <1>1, PageAssumption DEF ListOK
    <2>2. CASE PressPrevious(j)
      <3>1. PageBefore \in 0..LastPage
        BY <2>1 DEF PageBefore
      <3> QED BY <2>2, <3>1, LoadLists DEF PressPrevious
    <2>3. CASE PressNext(j)
      <3>1. offset + 1 \in 0..LastPage
        BY <2>1, <2>3 DEF PressNext
      <3> QED BY <2>3, <3>1, LoadLists DEF PressNext
    <2>4. CASE FilterTimer(j)
      <3>1. 0 \in 0..LastPage
        BY <2>1
      <3> QED BY <2>4, <3>1, LoadLists DEF FilterTimer
    <2>5. CASE ListArrives(j)
      <3>1. /\ step[j] = "search" /\ step' = [step EXCEPT ![j] = "ended"]
            /\ UNCHANGED <<query, newest, offset, timer, filter>>
            /\ IF j = newest THEN cards' = query[j] /\ summary' = offset
               ELSE UNCHANGED <<cards, summary>>
        BY <2>5 DEF ListArrives, Ended, IsNewest
      <3>2. newest # None => newest \in Job
        BY <1>1 DEF ListOK
      <3>3. newest # None /\ newest # j => step'[newest] = step[newest]
        BY <1>1, <3>1, <3>2 DEF TypeOK
      <3>4. step'[j] = "ended"
        BY <1>1, <3>1 DEF TypeOK
      <3> QED BY <3>1, <3>2, <3>3, <3>4 DEF ListInvariant
    <2>6. CASE PressAdd(j) \/ \E a \in Asset : OpenCard(j, a)
      <3>1. /\ step[j] = "unused" /\ UNCHANGED query /\ UNCHANGED listVars
            /\ \E s : step' = [step EXCEPT ![j] = s]
        BY <2>6 DEF PressAdd, OpenCard, Clicked, Request
      <3>2. newest # None => newest \in Job /\ newest # j
        BY <1>1, <3>1 DEF ListInvariant, ListOK
      <3> QED BY <1>1, <3>1, <3>2, ListSame DEF TypeOK
    <2> QED BY <1>4, <2>2, <2>3, <2>4, <2>5, <2>6 DEF LibraryStep
  <1>5. ASSUME NEW f \in Filter, ChangeFilter(f) PROVE ListInvariant'
    BY <1>5 DEF ChangeFilter, ListInvariant
  <1>6. ASSUME PressEdit \/ (\E status \in Status, note \in Value : ChangeForm(status, note))
        PROVE  ListInvariant'
    BY <1>2, <1>6 DEF PressEdit, ChangeForm
  <1>7. ASSUME \E a \in Asset, status \in Status, note, hidden \in Value :
                   EditElsewhere(a, status, note, hidden)
        PROVE  ListInvariant'
    BY <1>2, <1>7 DEF EditElsewhere
  <1>8. CASE UNCHANGED vars
    BY <1>2, <1>8
  <1> QED BY <1>3, <1>4, <1>5, <1>6, <1>7, <1>8, EditorLists DEF Next

(* However the answers to searches overtake each other, the cards that stay *)
(* are those the operator asked for last.                                   *)
THEOREM CardsAreCurrent == Spec => []CardsCurrent
  <1>1. Init => ListInvariant
    BY DEF Init, ListInvariant
  <1>2. ListInvariant => CardsCurrent
    BY DEF ListInvariant, CardsCurrent, Query
  <1> QED BY <1>1, <1>2, InitTyped, NextTyped, NextLists, PTL DEF Spec

(* A copy of some revision of an asset that exists: not newer than the      *)
(* asset, and the same as it where the revisions are equal.                 *)
Agrees(a, rev, status, hidden) ==
    /\ db[a] \in Record
    /\ rev <= db[a].rev
    /\ rev = db[a].rev => status = db[a].status /\ hidden = db[a].hidden

CurrentCopy ==
    /\ current # None =>
            Agrees(current.id, current.rev, current.status, current.hidden)
    /\ filled # None =>
            current # None /\ filled = [id |-> current.id, rev |-> current.rev]

(* A save under way that names a revision. *)
Carries(j) ==
    LET p == payload[j] IN
    /\ db[p.id] \in Record
    /\ p.rev <= db[p.id].rev
    /\ p.of \in {None, [id |-> p.id, rev |-> p.rev]}
    /\ p.rev = db[p.id].rev =>
            /\ p.hidden = db[p.id].hidden
            /\ db[p.id].status = "active" /\ p.status # "active" => asked[j] # None

Copy(j) ==
    /\ step[j] \in Reads /\ answer[j] # "none" =>
            Agrees(about[j], found[j].rev, found[j].status, found[j].hidden)
    /\ step[j] = "save" /\ answer[j] = "none" /\ payload[j].rev # None => Carries(j)

Copies == CurrentCopy /\ \A j \in Job : Copy(j)

(* A record only gives way to one of a later revision. *)
Advances ==
    \A a \in Asset : db[a] \in Record =>
        db'[a] \in Record /\ (db'[a] = db[a] \/ db'[a].rev > db[a].rev)

LEMMA SameAdvances == UNCHANGED db => Advances
  BY DEF Advances

LEMMA CurrentStays ==
  ASSUME Typed, Copies, Advances, UNCHANGED <<current, filled>>
  PROVE  CurrentCopy'
  <1>1. CurrentCopy
    BY DEF Copies
  <1>2. current # None =>
            current.id \in Asset /\ current.rev \in Nat /\ db[current.id] \in Record
    BY <1>1 DEF Typed, TypeOK, Current, CurrentExists
  <1>3. current # None => db[current.id].rev \in Nat /\ db'[current.id].rev \in Nat
    BY <1>2 DEF Advances, Record
  <1> QED BY <1>1, <1>2, <1>3 DEF CurrentCopy, Agrees, Advances

LEMMA OthersStay ==
  ASSUME Typed, Copies, Advances, NEW j \in Job, Local(j), Copy(j)', CurrentCopy'
  PROVE  Copies'
  <1> SUFFICES ASSUME NEW k \in Job, k # j PROVE Copy(k)'
    BY DEF Copies
  <1>1. Copy(k) /\ Fits(k)
    BY DEF Copies, Typed
  <1>2. /\ step'[k] = step[k] /\ about'[k] = about[k] /\ answer'[k] = answer[k]
        /\ found'[k] = found[k] /\ payload'[k] = payload[k] /\ asked'[k] = asked[k]
    BY DEF Local
  <1>3. ASSUME step[k] \in Reads, answer[k] # "none"
        PROVE  Agrees(about[k], found[k].rev, found[k].status, found[k].hidden)'
    <2>1. /\ about[k] \in Asset /\ found[k].rev \in Nat
          /\ Agrees(about[k], found[k].rev, found[k].status, found[k].hidden)
      BY <1>1, <1>3 DEF Copy, Fits, Reads, Named, Record
    <2>2. db[about[k]].rev \in Nat /\ db'[about[k]].rev \in Nat
      BY <2>1 DEF Agrees, Advances, Record
    <2> QED BY <1>2, <2>1, <2>2 DEF Agrees, Advances
  <1>4. ASSUME step[k] = "save", answer[k] = "none", payload[k].rev # None
        PROVE  Carries(k)'
    <2>1. payload[k].id \in Asset /\ payload[k].rev \in Nat /\ Carries(k)
      BY <1>1, <1>4 DEF Copy, Fits, Payload
    <2>2. db[payload[k].id].rev \in Nat /\ db'[payload[k].id].rev \in Nat
      BY <2>1 DEF Carries, Advances, Record
    <2> QED BY <1>2, <2>1, <2>2 DEF Carries, Advances
  <1> QED BY <1>2, <1>3, <1>4 DEF Copy

(* A function sends another request, or ends. *)
LEMMA MovesOn ==
  ASSUME Typed, Copies, NEW j \in Job, UNCHANGED <<db, asked>>,
         \E s : step' = [step EXCEPT ![j] = s],
         \E a : about' = [about EXCEPT ![j] = a],
         answer' = [answer EXCEPT ![j] = "none"],
         found' = [found EXCEPT ![j] = None],
         \E p : payload' = [payload EXCEPT ![j] = p],
         \E q : query' = [query EXCEPT ![j] = q],
         step'[j] = "save" /\ payload'[j].rev # None => Carries(j)',
         CurrentCopy'
  PROVE  Copies'
  <1>1. TypeOK
    BY DEF Typed
  <1>2. Local(j)
    BY <1>1 DEF Local, TypeOK
  <1>3. answer'[j] = "none"
    BY <1>1 DEF TypeOK
  <1>4. Copy(j)'
    BY <1>3 DEF Copy
  <1> QED BY <1>2, <1>4, OthersStay, SameAdvances

LEMMA Same ==
  ASSUME Typed, NEW j \in Job
  PROVE  /\ UNCHANGED payload => \E p : payload' = [payload EXCEPT ![j] = p]
         /\ UNCHANGED query => \E q : query' = [query EXCEPT ![j] = q]
         /\ UNCHANGED about => \E a : about' = [about EXCEPT ![j] = a]
  <1>1. TypeOK
    BY DEF Typed
  <1>2. /\ payload = [payload EXCEPT ![j] = payload[j]]
        /\ query = [query EXCEPT ![j] = query[j]]
        /\ about = [about EXCEPT ![j] = about[j]]
    BY <1>1 DEF TypeOK
  <1> QED BY <1>2

(* The body of a save made now. *)
LEMMA BodyCarries ==
  ASSUME Typed, Copies, NEW j \in Job, Save(j), UNCHANGED <<db, asked>>,
         LeavesActive => asked[j] # None,
         payload'[j].rev # None
  PROVE  Carries(j)'
  <1>1. TypeOK /\ CurrentCopy
    BY DEF Typed, Copies
  <1>2. payload'[j] = Body(current)
    BY <1>1 DEF Save, TypeOK
  <1>a. payload'[j].rev = IF current = None THEN None ELSE current.rev
    BY <1>2 DEF Body
  <1>3. current # None /\ current \in Current
    <2>1. current \in Current \cup {None}
      BY <1>1 DEF TypeOK
    <2> QED BY <1>a, <2>1
  <1> DEFINE p == payload'[j]
  <1>4. /\ p.id = current.id /\ p.rev = current.rev /\ p.status = form.status
        /\ p.hidden = current.hidden /\ p.of = filled
    BY <1>2, <1>3 DEF Body
  <1>5. Agrees(current.id, current.rev, current.status, current.hidden)
    BY <1>1, <1>3 DEF CurrentCopy
  <1>6. p.of \in {None, [id |-> p.id, rev |-> p.rev]}
    BY <1>1, <1>4 DEF CurrentCopy
  <1>7. db[current.id].status = "active" /\ p.rev = db[current.id].rev
            /\ p.status # "active" => asked[j] # None
    BY <1>3, <1>4, <1>5 DEF Agrees, LeavesActive
  <1> HIDE DEF p
  <1>8. /\ db[p.id] \in Record /\ p.rev <= db[p.id].rev
        /\ p.rev = db[p.id].rev => p.hidden = db[p.id].hidden
    BY <1>4, <1>5 DEF Agrees
  <1> QED BY <1>4, <1>6, <1>7, <1>8 DEF Carries, p


LEMMA ServeCopies ==
  ASSUME Typed, Copies, NEW j \in Job, Serve(j)
  PROVE  Copies'
  <1>1. TypeOK /\ Fits(j) /\ Copy(j)
    BY DEF Typed, Copies
  <1>2. /\ UNCHANGED <<step, about, payload, query, current, filled>>
        /\ \E word : answer' = [answer EXCEPT ![j] = word]
        /\ UNCHANGED found \/ \E what : found' = [found EXCEPT ![j] = what]
        /\ UNCHANGED asked \/ asked' = [asked EXCEPT ![j] = about[j]]
        /\ answer'[j] # "none"
    BY <1>1 DEF Serve, ServeAsset, ServeNextId, ServeOperation, ServeSave, Saved,
       ServeUpload, ServeSearch, Answer, Bring, TypeOK
  <1>3. Local(j)
    BY <1>1, <1>2 DEF Local, TypeOK
  <1>4. Advances
    <2>1. CASE Saved(j) /\ step[j] = "save"
      <3> DEFINE p == payload[j]
                 r == [rev |-> IF p.rev = None THEN 1 ELSE db[p.id].rev + 1,
                       status |-> p.status, note |-> p.note, hidden |-> p.hidden]
      <3>1. db' = [db EXCEPT ![p.id] = r] /\ Acceptable(p)
        BY <2>1 DEF Saved
      <3>2. p \in Payload /\ p.id \in Asset
        BY <1>1, <2>1 DEF Fits, Payload
      <3>3. db[p.id] \in Record => p.rev # None
        BY <3>1, NoneAssumption DEF Acceptable
      <3>4. db[p.id] \in Record => r \in Record /\ r.rev > db[p.id].rev
        BY <3>2, <3>3 DEF Record, Payload
      <3> HIDE DEF r, p
      <3> QED BY <1>1, <3>1, <3>2, <3>4 DEF Advances, TypeOK
    <2>2. CASE UNCHANGED db
      BY <2>2, SameAdvances
    <2> QED
      BY <2>1, <2>2 DEF Serve, ServeAsset, ServeNextId, ServeOperation, ServeSave,
         ServeUpload, ServeSearch, Unserved
  <1>5. Copy(j)'
    <2>1. CASE ServeAsset(j)
      <3>1. /\ step[j] \in Reads /\ db[about[j]] \in Record /\ found'[j] = db[about[j]]
            /\ UNCHANGED <<db, step, about>>
        BY <1>1, <2>1 DEF ServeAsset, Bring, Unserved, Reads, Named, Fits, TypeOK
      <3>2. db[about[j]].rev \in Nat
        BY <3>1 DEF Record
      <3> QED BY <1>2, <3>1, <3>2 DEF Copy, Agrees, Reads
    <2>2. CASE step[j] \notin Reads
      BY <1>2, <2>2 DEF Copy
    <2> QED
      BY <2>1, <2>2 DEF Serve, ServeNextId, ServeOperation, ServeSave, ServeUpload,
         ServeSearch, Unserved, Reads
  <1> QED BY <1>2, <1>3, <1>4, <1>5, CurrentStays, OthersStay

(* A step that leaves current alone and sends no save. *)
LEMMA QuietCopies ==
  ASSUME Typed, Copies, NEW j \in Job, UNCHANGED <<db, asked, payload>>,
         Ended(j) \/ RequestFails(j) \/ (\E page : Load(j, page))
            \/ (\E to \in Named \cup Ids : \E a : Request(j, to, a) /\ UNCHANGED query),
         CurrentCopy'
  PROVE  Copies'
  <1>1. TypeOK
    BY DEF Typed
  <1>2. /\ \E s : s # "save" /\ step' = [step EXCEPT ![j] = s]
        /\ \E a : about' = [about EXCEPT ![j] = a]
        /\ answer' = [answer EXCEPT ![j] = "none"]
        /\ found' = [found EXCEPT ![j] = None]
        /\ \E q : query' = [query EXCEPT ![j] = q]
    <2>1. CASE Ended(j)
      BY <2>1, Same DEF Ended
    <2>2. CASE RequestFails(j)
      BY <2>2, Same DEF RequestFails
    <2>3. CASE \E page : Load(j, page)
      BY <2>3, Same DEF Load, Request
    <2>4. CASE \E to \in Named \cup Ids : \E a : Request(j, to, a) /\ UNCHANGED query
      BY <2>4, Same DEF Request, Named, Ids
    <2> QED BY <2>1, <2>2, <2>3, <2>4
  <1>3. step'[j] # "save"
    BY <1>1, <1>2 DEF TypeOK
  <1>4. \E p : payload' = [payload EXCEPT ![j] = p]
    BY Same
  <1> QED BY <1>2, <1>3, <1>4, MovesOn

LEMMA SaveCopies ==
  ASSUME Typed, Copies, NEW j \in Job, Save(j),
         UNCHANGED <<db, asked, current, filled>>,
         LeavesActive => asked[j] # None
  PROVE  Copies'
  <1>1. /\ step' = [step EXCEPT ![j] = "save"]
        /\ \E a : about' = [about EXCEPT ![j] = a]
        /\ answer' = [answer EXCEPT ![j] = "none"]
        /\ found' = [found EXCEPT ![j] = None]
        /\ \E p : payload' = [payload EXCEPT ![j] = p]
        /\ \E q : query' = [query EXCEPT ![j] = q]
    BY Same DEF Save, Request
  <1>2. payload'[j].rev # None => Carries(j)'
    BY BodyCarries
  <1> QED BY <1>1, <1>2, CurrentStays, SameAdvances, MovesOn

(* An answer fills the form, or replaces current under it. *)
LEMMA ArrivalCopies ==
  ASSUME Typed, Copies, NEW j \in Job, AssetArrives(j) \/ RefreshArrives(j)
  PROVE  Copies'
  <1>1. /\ step[j] \in Reads /\ answer[j] # "none"
        /\ Ended(j) /\ UNCHANGED <<db, asked, payload>>
        /\ current' = [id |-> about[j], rev |-> found[j].rev,
                       status |-> found[j].status, hidden |-> found[j].hidden]
        /\ filled' \in {None, [id |-> about[j], rev |-> found[j].rev]}
    BY DEF AssetArrives, RefreshArrives, Ended, Reads
  <1>2. Agrees(about[j], found[j].rev, found[j].status, found[j].hidden)
    BY <1>1 DEF Copies, Copy
  <1>3. current' # None
    <2>1. about[j] \in Asset /\ found[j] \in Record
      BY <1>1 DEF Typed, Fits, Named, Reads
    <2>2. current' \in Current
      BY <1>1, <2>1 DEF Current, Record
    <2> QED BY <2>2, NoneAssumption
  <1>4. CurrentCopy'
    BY <1>1, <1>2, <1>3 DEF CurrentCopy, Agrees
  <1> QED BY <1>1, <1>4, QuietCopies

LEMMA PageCopies ==
  ASSUME Typed, Copies, NEW j \in Job,
         LibraryStep(j) \/ EditorStep(j) \/ RequestFails(j)
  PROVE  Copies'
  <1>1. Fits(j)
    BY DEF Typed
  <1>2. ASSUME UNCHANGED <<db, asked, current, filled>>, UNCHANGED payload,
               Ended(j) \/ RequestFails(j) \/ (\E page : Load(j, page))
                 \/ (\E to \in Named \cup Ids : \E a : Request(j, to, a) /\ UNCHANGED query)
        PROVE  Copies'
    BY <1>2, CurrentStays, SameAdvances, QuietCopies
  <1>3. CASE PressAdd(j)
    <2>1. CurrentCopy'
      BY <1>3 DEF PressAdd, CurrentCopy
    <2>2. \E to \in Named \cup Ids : \E a : Request(j, to, a) /\ UNCHANGED query
      BY <1>3 DEF PressAdd, Ids
    <2> QED BY <1>3, <2>1, <2>2, QuietCopies DEF PressAdd
  <1>4. CASE PressPrevious(j) \/ PressNext(j) \/ FilterTimer(j) \/ PressBack(j)
    <2>1. /\ \E page : Load(j, page)
          /\ UNCHANGED <<db, asked, current, filled>> /\ UNCHANGED payload
      BY <1>4 DEF PressPrevious, PressNext, FilterTimer, PressBack, Load
    <2> QED BY <1>2, <2>1
  <1>5. CASE ListArrives(j) \/ FamilyIdArrives(j) \/ NextIdArrives(j) \/ Dismissed(j)
              \/ RequestFails(j)
    <2>1. /\ Ended(j) \/ RequestFails(j)
          /\ UNCHANGED <<db, asked, current, filled>> /\ UNCHANGED payload
      BY <1>5 DEF ListArrives, FamilyIdArrives, NextIdArrives, Dismissed,
         RequestFails, Ended
    <2> QED BY <1>2, <2>1
  <1>6. CASE (\E a \in Asset : OpenCard(j, a)) \/ PressCancel(j) \/ ChangeFamily(j)
              \/ PressUpload(j)
    <2>1. /\ \E to \in Named \cup Ids : \E a : Request(j, to, a) /\ UNCHANGED query
          /\ UNCHANGED <<db, asked, current, filled>> /\ UNCHANGED payload
      BY <1>6 DEF OpenCard, PressCancel, ChangeFamily, PressUpload, Named, Ids
    <2> QED BY <1>2, <2>1
  <1>7. CASE SaveArrives(j) \/ UploadArrives(j)
    <2>1. /\ Ended(j) \/ \E to \in Named \cup Ids : \E a : Request(j, to, a) /\ UNCHANGED query
          /\ UNCHANGED <<db, asked, current, filled>> /\ UNCHANGED payload
      BY <1>7 DEF SaveArrives, UploadArrives, Ended, Named
    <2> QED BY <1>2, <2>1
  <1>8. CASE PressSave(j)
    <2>1. CASE LeavesActive
      <3>1. /\ \E to \in Named \cup Ids : \E a : Request(j, to, a) /\ UNCHANGED query
            /\ UNCHANGED <<db, asked, current, filled>> /\ UNCHANGED payload
        BY <1>8, <2>1 DEF PressSave, Named
      <3> QED BY <1>2, <3>1
    <2>2. CASE ~LeavesActive
      BY <1>8, <2>2, SaveCopies DEF PressSave
    <2> QED BY <2>1, <2>2
  <1>9. CASE OperationArrives(j)
    BY <1>1, <1>9, SaveCopies DEF OperationArrives, Fits
  <1>10. CASE AssetArrives(j) \/ RefreshArrives(j)
    BY <1>10, ArrivalCopies
  <1> QED
    BY <1>3, <1>4, <1>5, <1>6, <1>7, <1>8, <1>9, <1>10 DEF LibraryStep, EditorStep

LEMMA InitCopies == Init => Copies
  BY DEF Init, Copies, CurrentCopy, Copy, Reads

LEMMA NextCopies == Typed /\ Copies /\ [Next]_vars => Copies'
  <1> SUFFICES ASSUME Typed, Copies, [Next]_vars PROVE Copies'
    OBVIOUS
  <1>1. TypeOK
    BY DEF Typed
  <1>2. ASSUME Advances, UNCHANGED <<current, filled>>, UNCHANGED jobVars, UNCHANGED asked
        PROVE  Copies'
    <2>1. CurrentCopy'
      BY <1>2, CurrentStays
    <2>2. ASSUME NEW j \in Job PROVE Copy(j)'
      <3>1. Copy(j) /\ Fits(j)
        BY DEF Copies, Typed
      <3>2. step[j] \in Reads /\ answer[j] # "none" =>
                /\ about[j] \in Asset /\ found[j].rev \in Nat
                /\ db[about[j]].rev \in Nat /\ db'[about[j]].rev \in Nat
        BY <1>2, <3>1 DEF Copy, Fits, Reads, Named, Record, Agrees, Advances
      <3>3. step[j] = "save" /\ answer[j] = "none" /\ payload[j].rev # None =>
                /\ payload[j].id \in Asset /\ payload[j].rev \in Nat
                /\ db[payload[j].id].rev \in Nat /\ db'[payload[j].id].rev \in Nat
        BY <1>2, <3>1 DEF Copy, Fits, Payload, Record, Carries, Advances
      <3> QED BY <1>2, <3>1, <3>2, <3>3 DEF Copy, Agrees, Carries, Advances, Fits,
                 Payload, Reads, Named
    <2> QED BY <2>1, <2>2 DEF Copies
  <1>3. ASSUME NEW j \in Job,
               Serve(j) \/ LibraryStep(j) \/ EditorStep(j) \/ RequestFails(j)
        PROVE  Copies'
    BY <1>3, ServeCopies, PageCopies
  <1>4. ASSUME (\E f \in Filter : ChangeFilter(f)) \/ PressEdit \/ UNCHANGED vars
               \/ \E status \in Status, note \in Value : ChangeForm(status, note)
        PROVE  Copies'
    BY <1>2, <1>4, SameAdvances DEF ChangeFilter, PressEdit, ChangeForm
  <1>5. ASSUME NEW a \in Asset, NEW status \in Status, NEW note \in Value,
               NEW hidden \in Value, EditElsewhere(a, status, note, hidden)
        PROVE  Copies'
    <2> DEFINE r == [rev |-> db[a].rev + 1, status |-> status, note |-> note,
                     hidden |-> hidden]
    <2>1. db' = [db EXCEPT ![a] = r] /\ db[a] \in Record
      BY <1>1, <1>5 DEF EditElsewhere, TypeOK
    <2>2. r \in Record /\ r.rev > db[a].rev
      BY <2>1 DEF Record
    <2> HIDE DEF r
    <2>3. Advances
      BY <1>1, <2>1, <2>2 DEF Advances, TypeOK
    <2> QED BY <1>2, <1>5, <2>3 DEF EditElsewhere
  <1> QED BY <1>3, <1>4, <1>5 DEF Next

(* What Asset accepts agrees with the record it replaces. *)
LEMMA Accepted ==
  ASSUME Typed, Copies, [Next]_vars, NEW j \in Job, Accepts(j)
  PROVE  /\ payload[j] \in Payload /\ Acceptable(payload[j])
         /\ db'[payload[j].id].status = payload[j].status
         /\ db'[payload[j].id].hidden = payload[j].hidden
         /\ payload[j].rev # None => Carries(j)
  <1>1. TypeOK /\ Fits(j) /\ Copy(j)
    BY DEF Typed, Copies
  <1>2. step[j] = "save" /\ answer[j] = "none" /\ answer'[j] = "ok"
    BY DEF Accepts
  <1>3. Saved(j)
    <2>1. ASSUME NEW k \in Job, Serve(k) PROVE Saved(j)
      <3>1. CASE k = j
        BY <1>1, <1>2, <2>1, <3>1 DEF Serve, ServeAsset, ServeNextId, ServeOperation,
           ServeSave, ServeUpload, ServeSearch, Unserved, Answer, TypeOK
      <3>2. CASE k # j
        <4>1. \E word : answer' = [answer EXCEPT ![k] = word]
          BY <2>1 DEF Serve, ServeAsset, ServeNextId, ServeOperation, ServeSave,
             Saved, ServeUpload, ServeSearch, Answer, Bring
        <4> QED BY <1>1, <1>2, <3>2, <4>1 DEF TypeOK
      <3> QED BY <3>1, <3>2
    <2>2. ASSUME NEW k \in Job, answer' = [answer EXCEPT ![k] = "none"] PROVE FALSE
      BY <1>1, <1>2, <2>2 DEF TypeOK
    <2>3. ASSUME NEW k \in Job, LibraryStep(k) \/ EditorStep(k) \/ RequestFails(k)
          PROVE  answer' = [answer EXCEPT ![k] = "none"]
      BY <2>3 DEF LibraryStep, PressPrevious, PressNext, FilterTimer, ListArrives,
         PressAdd, OpenCard, EditorStep, PressBack, PressCancel, AssetArrives,
         NextIdArrives, ChangeFamily, FamilyIdArrives, PressSave, OperationArrives,
         Dismissed, SaveArrives, PressUpload, UploadArrives, RefreshArrives,
         RequestFails, Load, Save, Request, Ended
    <2>4. ASSUME UNCHANGED answer PROVE FALSE
      BY <1>2, <2>4
    <2> QED
      BY <2>1, <2>2, <2>3, <2>4 DEF Next, ChangeFilter, PressEdit, ChangeForm,
         EditElsewhere
  <1>4. payload[j] \in Payload /\ payload[j].id \in Asset
    BY <1>1, <1>2 DEF Fits, Payload
  <1>5. /\ db'[payload[j].id].status = payload[j].status
        /\ db'[payload[j].id].hidden = payload[j].hidden
    BY <1>1, <1>3, <1>4 DEF Saved, TypeOK
  <1> QED BY <1>1, <1>2, <1>3, <1>4, <1>5 DEF Saved, Copy

(* A save never changes what its form does not show.                        *)
THEOREM HiddenIsKept == Spec => HiddenKept
  <1>1. ASSUME Typed, Copies, [Next]_vars, NEW j \in Job, Accepts(j),
               payload[j].rev # None
        PROVE  db'[payload[j].id].hidden = db[payload[j].id].hidden
    BY <1>1, Accepted DEF Acceptable, Carries
  <1>2. Typed /\ Copies /\ [Next]_vars =>
            [\A j \in Job :
                Accepts(j) /\ payload[j].rev # None =>
                    db'[payload[j].id].hidden = db[payload[j].id].hidden]_vars
    BY <1>1
  <1> QED BY <1>2, InitTyped, NextTyped, InitCopies, NextCopies, PTL
          DEF Spec, HiddenKept

(* A save replaces the revision its form was filled from, or its form       *)
(* survived an upload.                                                      *)
THEOREM NothingIsLost == Spec => NothingLost
  <1>1. ASSUME Typed, Copies, [Next]_vars, NEW j \in Job, Accepts(j)
        PROVE  LET p == payload[j] IN
               IF p.rev = None THEN db[p.id] = None
               ELSE p.of \in {[id |-> p.id, rev |-> db[p.id].rev], None}
    BY <1>1, Accepted DEF Acceptable, Carries
  <1>2. Typed /\ Copies /\ [Next]_vars =>
            [\A j \in Job :
                Accepts(j) =>
                    LET p == payload[j] IN
                    IF p.rev = None THEN db[p.id] = None
                    ELSE p.of \in {[id |-> p.id, rev |-> db[p.id].rev], None}]_vars
    BY <1>1
  <1> QED BY <1>2, InitTyped, NextTyped, InitCopies, NextCopies, PTL
          DEF Spec, NothingLost

(* A save that takes an asset out of use asked for its operation state.     *)
THEOREM IsAskedFirst == Spec => AskedFirst
  <1>1. ASSUME Typed, Copies, [Next]_vars, NEW j \in Job, Accepts(j),
               payload[j].rev # None, db[payload[j].id].status = "active",
               db'[payload[j].id].status # "active"
        PROVE  asked[j] # None
    BY <1>1, Accepted DEF Acceptable, Carries
  <1>2. Typed /\ Copies /\ [Next]_vars =>
            [\A j \in Job :
                Accepts(j) /\ payload[j].rev # None =>
                    (db[payload[j].id].status = "active"
                        /\ db'[payload[j].id].status # "active" => asked[j] # None)]_vars
    BY <1>1
  <1> QED BY <1>2, InitTyped, NextTyped, InitCopies, NextCopies, PTL
          DEF Spec, AskedFirst
=============================================================================
