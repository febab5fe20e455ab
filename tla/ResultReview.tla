---------------------------- MODULE ResultReview ----------------------------
(***************************************************************************)
(* Members reviewing one captured result, each on a screen of their own    *)
(* (ElectionDaySection.jsx, OcrReviewPanel and "Verify result"): the photo *)
(* is read by OCR in the browser, the reading is recorded, a human         *)
(* confirms or corrects it, and every screen shows the fold of the events  *)
(* some read of the log returned (domains/election/projections.js).        *)
(*                                                                         *)
(* A panel keeps its rows from the moment it appears on the screen: a new  *)
(* fold does not make them again. Preparing changes nothing, so a draft is *)
(* there from the click; a panel that awaits the answer to Approve is one  *)
(* whose answer has not come, or never will.                               *)
(*                                                                         *)
(* The log is ordered by created_at, the time its insert began; it may be  *)
(* stored later than one that began after it (electionContext.js:140 reads *)
(* in the first order, a read sees what the second one has come to). An    *)
(* insert that is never stored leaves nothing.                             *)
(***************************************************************************)
EXTENDS Naturals, Sequences, FiniteSetsExt

CONSTANTS Member, Field, Value,
          None,             \* null, or an empty text
          Verification,     \* the decisions there are
          Captured,         \* what may have been typed when it was captured
          Readings,         \* what an OCR run may make of the photo
          MaxDrafts,        \* bound: drafts prepared
          MaxEdits          \* bound: rows edited, added or removed

Figure == [field : Field, value : Value]

ASSUME ReviewAssumption == /\ MaxDrafts \in Nat /\ MaxEdits \in Nat
                           /\ None \notin Value \cup Field
                           /\ Captured \cup Readings \subseteq Seq(Figure)

VARIABLES captured,
          begun,            \* the inserts of the result's events, in the order they began
          stored,           \* those that are stored, by their place in begun, in the order they came to be
          sent,             \* drafts Approve was clicked on
          screen,           \* the fold a member's screen shows
          rows,             \* the rows of the panel
          draft,            \* the drafts on the screen, by kind
          drafted, edits

reviewVars == <<captured, begun, stored, sent, screen, rows, draft, drafted, edits>>

Kind == {"ocr", "review", "plain"}
OcrStatus == {"COMPLETE", "FAILED"}
Source == {"manual", "ocr_confirmed", "ocr_corrected"}

Row == [field : Field \cup {None}, ocrValue : Value \cup {None},
        value : Value \cup {None}, source : Source]
Rows == Seq(Row)
Reading == Seq(Figure)

Event == [id : 1 .. MaxDrafts, type : {"ocr"}, status : OcrStatus, entries : Reading \cup {None}]
    \cup [id : 1 .. MaxDrafts, type : {"verify"}, status : Verification, entries : Rows \cup {None}]
View == [ocr : OcrStatus \cup {"NOT_RUN"}, reading : Reading \cup {None},
         verification : Verification \cup {"PENDING"}, fields : Rows]

ReviewTypeOK == /\ captured \in Captured
                /\ begun \in Seq(Event)
                /\ stored \in Seq(DOMAIN begun)
                /\ sent \subseteq Event
                /\ screen \in [Member -> View]
                /\ rows \in [Member -> Rows]
                /\ draft \in [Member -> [Kind -> Event \cup {None}]]
                /\ drafted \in 0 .. MaxDrafts /\ edits \in 0 .. MaxEdits
-----------------------------------------------------------------------------
\* proposeCaptureResult: what is typed at the capture is manual.
Typed == [i \in DOMAIN captured |-> [field |-> captured[i].field, ocrValue |-> None,
                                     value |-> captured[i].value, source |-> "manual"]]

JustCaptured == [ocr |-> "NOT_RUN", reading |-> None,
                 verification |-> "PENDING", fields |-> Typed]

\* b ?? a
Or(b, a) == IF b = None THEN a ELSE b

\* A variation: a run of OCR starts the review over.
FoldStepAnew(v, e) ==
    IF e.type = "ocr"
    THEN [v EXCEPT !.ocr = e.status, !.reading = Or(e.entries, @), !.verification = "PENDING"]
    ELSE [v EXCEPT !.verification = e.status, !.fields = Or(e.entries, @)]

FoldStep(v, e) ==
    IF e.type = "ocr"
    THEN [v EXCEPT !.ocr = e.status, !.reading = Or(e.entries, @)]
    ELSE [v EXCEPT !.verification = e.status, !.fields = Or(e.entries, @)]

\* What a read saw when n inserts were stored.
Seen(n) == {stored[k] : k \in 1 .. n}
InLog == Seen(Len(stored))

\* The fold of what was seen, oldest first.
Fold(seen) == LET view[i \in 0 .. Len(begun)] ==
                    IF i = 0 THEN JustCaptured
                    ELSE IF i \in seen THEN FoldStep(view[i - 1], begun[i]) ELSE view[i - 1]
              IN  view[Len(begun)]

(* The panel's first rows, one for each figure read: as the human record    *)
(* has its field - the last of that name - or else as it was read.          *)
RowsOf(v) ==
    LET rowOf(figure) ==
            LET existing == {k \in DOMAIN v.fields : v.fields[k].field = figure.field} IN
            [field |-> figure.field, ocrValue |-> figure.value,
             value |-> IF existing = {} THEN figure.value ELSE v.fields[Max(existing)].value,
             source |-> IF existing = {} THEN "ocr_confirmed" ELSE v.fields[Max(existing)].source]
    IN  IF v.reading = None THEN <<>> ELSE [i \in DOMAIN v.reading |-> rowOf(v.reading[i])]

NoDrafts == [k \in Kind |-> None]

ReviewInit == /\ captured \in Captured
              /\ begun = <<>> /\ stored = <<>> /\ sent = {}
              /\ screen = [m \in Member |-> JustCaptured]
              /\ rows = [m \in Member |-> <<>>]
              /\ draft = [m \in Member |-> NoDrafts]
              /\ drafted = 0 /\ edits = 0
-----------------------------------------------------------------------------
Prepare(m, k, type, status, entries) ==
    /\ draft[m][k] = None
    /\ drafted < MaxDrafts
    /\ drafted' = drafted + 1
    /\ draft' = [draft EXCEPT ![m][k] = [id |-> drafted + 1, type |-> type,
                                         status |-> status, entries |-> entries]]
    /\ UNCHANGED <<captured, begun, stored, sent, screen, rows, edits>>

(* "Extract from image": offered until the screen says COMPLETE. A reading  *)
(* without a field, or of a failed run, is sent as null.                    *)
Extract(m, status, entries) ==
    /\ screen[m].ocr # "COMPLETE"
    /\ entries # None => status = "COMPLETE" /\ entries # <<>>
    /\ Prepare(m, "ocr", "ocr", status, entries)

Reviewing(m) == screen[m].ocr = "COMPLETE"

\* The rows are on the screen and change. (So they may while a review is prepared; but
\* it shows in the next one only, if there is one, and may as well wait until then.)
Edit(m, list) ==
    /\ Reviewing(m)
    /\ draft[m]["review"] = None /\ drafted < MaxDrafts /\ edits < MaxEdits
    /\ edits' = edits + 1
    /\ rows' = [rows EXCEPT ![m] = list]
    /\ UNCHANGED <<captured, begun, stored, sent, screen, draft, drafted>>

\* A variation: the row forgets what OCR read.
EditedReading(row, val) == {[row EXCEPT !.ocrValue = IF @ = None THEN None ELSE val, !.value = val]}

\* A variation: an edited row stays what it was.
EditedInPlace(row, val) == {[row EXCEPT !.value = val]}

(* updateRowValue tells the source anew, from the text as it is typed; it   *)
(* is trimmed when the review is prepared, so the reading with a blank      *)
(* around it is a correction.                                               *)
Edited(row, val) ==
    {[row EXCEPT !.value = val, !.source = s] :
        s \in IF row.ocrValue = None THEN {"manual"}
              ELSE {"ocr_corrected"} \cup IF val = row.ocrValue THEN {"ocr_confirmed"} ELSE {}}

\* updateRowField: the name of a manual row is an input, whether OCR read it or not.
Renamed(row) ==
    {row} \cup IF row.source = "manual" THEN {[row EXCEPT !.field = f] : f \in Field \cup {None}} ELSE {}

\* A row after any edits of its name and its value.
EditsOf(row) == Renamed(row) \cup UNION {Edited(r, val) : r \in Renamed(row), val \in Value \cup {None}}

EditRow(m, i) == \E row \in EditsOf(rows[m][i]) : Edit(m, [rows[m] EXCEPT ![i] = row])

\* The row is added empty; it is filled in before anything is prepared, or not sent.
AddManualRow(m, f, val) ==
    Edit(m, Append(rows[m], [field |-> f, ocrValue |-> None, value |-> val, source |-> "manual"]))

RemoveRow(m, i) == Edit(m, SubSeq(rows[m], 1, i - 1) \o SubSeq(rows[m], i + 1, Len(rows[m])))

\* The rows that have a name and a value. (One of blanks alone would pass as well and be
\* trimmed to nothing: that is not modelled.)
Filled(list) ==
    LET kept[n \in 0 .. Len(list)] ==
            IF n = 0 THEN <<>>
            ELSE IF list[n].field # None /\ list[n].value # None THEN Append(kept[n - 1], list[n])
            ELSE kept[n - 1]
    IN  kept[Len(list)]

(* prepareReview: without a row it is a plain decision.                     *)
PrepareReview(m, status) ==
    /\ Reviewing(m)
    /\ LET reviewed == Filled(rows[m])
       IN  Prepare(m, "review", "verify", status, IF reviewed = <<>> THEN None ELSE reviewed)

(* "Verify result", on any screen                                           *)
PrepareVerify(m, status) == Prepare(m, "plain", "verify", status, None)

\* The panel shows the one draft or the other.
Shown(m, k) == \/ k = "plain"
               \/ k = "ocr" /\ ~Reviewing(m)
               \/ k = "review" /\ Reviewing(m)

CancelDraft(m, k) == /\ Shown(m, k) /\ draft[m][k] # None
                     /\ draft' = [draft EXCEPT ![m][k] = None]
                     /\ UNCHANGED <<captured, begun, stored, sent, screen, rows, drafted, edits>>

(* Approve, for the first time or again: the draft is sent under the id it  *)
(* was prepared with.                                                       *)
ApproveDraft(m, k) == /\ Shown(m, k) /\ draft[m][k] # None
                      /\ sent' = sent \cup {draft[m][k]}
                      /\ UNCHANGED <<captured, begun, stored, screen, rows, draft, drafted, edits>>

IsBegun(id) == \E i \in DOMAIN begun : begun[i].id = id
IsStored(id) == \E i \in InLog : begun[i].id = id

(* insertEvent, when and if a request gets to the server. event_id is       *)
(* unique: a second insert waits for the first and then meets it, or takes  *)
(* its place, and has begun only then.                                      *)
InsertEvent(e) == /\ e \in sent /\ ~IsBegun(e.id)
                  /\ begun' = Append(begun, e)
                  /\ UNCHANGED <<captured, stored, sent, screen, rows, draft, drafted, edits>>

Commit(i) == /\ i \notin InLog
             /\ stored' = Append(stored, i)
             /\ UNCHANGED <<captured, begun, sent, screen, rows, draft, drafted, edits>>

(* The answer that it is stored, now or before; it may as well never come,  *)
(* and the draft stays. The refresh that follows is a read like any other.  *)
Answer(m, k) == /\ draft[m][k] # None /\ IsStored(draft[m][k].id)
                /\ draft' = [draft EXCEPT ![m][k] = None]
                /\ UNCHANGED <<captured, begun, stored, sent, screen, rows, drafted, edits>>

(* refresh sets what its read returned when that comes, whatever was read   *)
(* after it: the read saw the first n events stored, for some n.            *)
Refresh(m, n) == /\ screen' = [screen EXCEPT ![m] = Fold(Seen(n))]
                 /\ UNCHANGED <<captured, begun, stored, sent, rows, draft, drafted, edits>>

(* The section is left and opened again, while a draft is left that may     *)
(* take the new rows.                                                       *)
Mount(m) == /\ drafted < MaxDrafts
            /\ rows' = [rows EXCEPT ![m] = RowsOf(screen[m])]
            /\ draft' = [draft EXCEPT ![m] = NoDrafts]
            /\ UNCHANGED <<captured, begun, stored, sent, screen, drafted, edits>>

ReviewNext ==
    \/ \E m \in Member :
          \/ \E s \in OcrStatus, r \in Readings \cup {None} : Extract(m, s, r)
          \/ \E i \in DOMAIN rows[m] : EditRow(m, i) \/ RemoveRow(m, i)
          \/ \E f \in Field, val \in Value : AddManualRow(m, f, val)
          \/ \E s \in Verification : PrepareReview(m, s) \/ PrepareVerify(m, s)
          \/ \E k \in Kind : CancelDraft(m, k) \/ ApproveDraft(m, k) \/ Answer(m, k)
          \/ \E n \in 0 .. Len(stored) : Refresh(m, n)
          \/ Mount(m)
    \/ \E e \in sent : InsertEvent(e)
    \/ \E i \in DOMAIN begun : Commit(i)

ReviewSpec == ReviewInit /\ [][ReviewNext]_reviewVars
-----------------------------------------------------------------------------
Earlier(i) == {j \in InLog : j < i}
IsRun(i) == begun[i].type = "ocr"
IsDecision(i) == begun[i].type = "verify"
Runs(S) == {i \in S : IsRun(i)}
Decisions(S) == {i \in S : IsDecision(i)}
WithEntries(S) == {i \in S : begun[i].entries # None}
Reviews == WithEntries(Decisions(InLog))

\* What runs of OCR among S read, in any field, and what S says was read of field f:
\* its runs, and its reviews for them.
EntriesIn(S) == UNION {Range(begun[i].entries) : i \in WithEntries(S)}
In(entries, f) == {x \in entries : x.field = f}
Read(S) == {x.value : x \in EntriesIn(Runs(S))}
ReadAs(S, f) == ({x.value : x \in In(EntriesIn(Runs(S)), f)}
                    \cup {x.ocrValue : x \in In(EntriesIn(Decisions(S)), f)}) \ {None}

(* What a recorded review says OCR read, and any figure it calls confirmed, *)
(* a run of OCR recorded before it did read off the photo: no edit, no      *)
(* correction over a correction, no stale screen and no answer out of order *)
(* makes one up. In which field it was read is another matter.              *)
ReadingsAreReal ==
    \A i \in Reviews : \A k \in DOMAIN begun[i].entries :
        LET row == begun[i].entries[k] IN
        /\ row.ocrValue # None => row.ocrValue \in Read(Earlier(i))
        /\ row.source = "ocr_confirmed" => row.value \in Read(Earlier(i))

(* A figure recorded as confirmed is the reading recorded beside it,        *)
(* through any number of reviews by any members - as long as one reading    *)
(* only was given for its field, by OCR or by the renaming of a row.        *)
SourceTellsTheTruth ==
    \A i \in Reviews : \A k \in DOMAIN begun[i].entries :
        LET row == begun[i].entries[k] IN
        row.source = "ocr_confirmed" /\ ReadAs(Earlier(i), row.field) \subseteq {row.ocrValue}
            => row.value = row.ocrValue

Last(S) == begun[Max(S)]

Says(S) ==
    LET reads == WithEntries(Runs(S))
        reviews == WithEntries(Decisions(S))
    IN  [ocr |-> IF Runs(S) = {} THEN "NOT_RUN" ELSE Last(Runs(S)).status,
         reading |-> IF reads = {} THEN None ELSE Last(reads).entries,
         verification |-> IF Decisions(S) = {} THEN "PENDING" ELSE Last(Decisions(S)).status,
         fields |-> IF reviews = {} THEN Typed ELSE Last(reviews).entries]

(* A screen shows what the log said at some time: the decision, the         *)
(* reviewed figures and the reading that began last, each whatever came     *)
(* between; a run of OCR never touches the human record.                    *)
ScreensTellTheLog == \A m \in Member : \E n \in 0 .. Len(stored) : screen[m] = Says(Seen(n))

(* Not what the code does - OcrReviewPanel: "Once OCR is COMPLETE, the      *)
(* review rows below are editable".                                         *)
ReadingsCanBeReviewed ==
    [][\A m \in Member : ~Reviewing(m) /\ (Reviewing(m) /\ screen[m].reading # None)'
                             => rows'[m] # <<>>]_reviewVars

(* Not what the code does - OcrReviewPanel: "confirming or correcting a     *)
(* value is itself a second PREPARE -> APPROVE ..., preserving `ocrValue`   *)
(* untouched": a row renamed takes its reading to another field.            *)
ReadingsKeepTheirField ==
    \A i \in Reviews : \A k \in DOMAIN begun[i].entries :
        LET row == begun[i].entries[k] IN
        row.ocrValue # None =>
            [field |-> row.field, value |-> row.ocrValue] \in EntriesIn(Runs(Earlier(i)))
=============================================================================
