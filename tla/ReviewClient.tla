---------------------------- MODULE ReviewClient ----------------------------
(***************************************************************************)
(* The review workflow seen from the members' screens                      *)
(* (pages/election/Communications.jsx). A screen shows the row it loaded   *)
(* last; buttons are offered by what the screen shows, and the functions   *)
(* of ReviewWorkflow decide by what the row is. No function receives the   *)
(* text or the updated_at its caller was looking at.                       *)
(***************************************************************************)
EXTENDS ReviewWorkflow

CONSTANT Blank      \* a screen that has not loaded the variant

VARIABLES
    screen,     \* the variant as each member's screen shows it
    exporting,  \* the row re-read by an export under way, or Blank
    exported    \* texts that have left as a PNG

clientVars == <<vars, screen, exporting, exported>>

Row == [status : Statuses, text : Text, reviewer : Person \cup {Nobody},
        verdict : {"none", "approved", "rejected"}]

ClientTypeOK ==
    /\ TypeOK
    /\ screen \in [Person -> Row \cup {Blank}]
    /\ exporting \in [Person -> Row \cup {Blank}]
    /\ exported \subseteq Text

-----------------------------------------------------------------------------
\* listLanguageVariants and listReviews: the row with its newest review of all.
CurrentRow ==
    [status |-> status, text |-> text,
     reviewer |-> IF reviews = {} THEN Nobody ELSE Newest(reviews).by,
     verdict |-> IF reviews = {} THEN "none" ELSE Newest(reviews).verdict]

Shows(p, s) == screen[p] # Blank /\ screen[p].status = s

ShowsEditable(p) == Shows(p, "draft") \/ Shows(p, "changes_requested")

ClientInit ==
    /\ Init
    /\ screen = [p \in Person |-> Blank]
    /\ exporting = [p \in Person |-> Blank]
    /\ exported = {}

(* load(): on mount, and at the end of every action the server accepted.    *)
Reload(p) == screen' = [screen EXCEPT ![p] = CurrentRow']

LoadScreen(p) ==
    /\ p \in active
    /\ UNCHANGED <<vars, exporting, exported>>
    /\ Reload(p)

(* The buttons of VariantRow, each offered by what the screen shows. A call *)
(* the server refuses changes nothing but an error message.                *)
ClickEdit(p) ==
    /\ ShowsEditable(p)
    /\ \E t \in ClientClock : EditText(p, t)
    /\ Reload(p)
    /\ UNCHANGED <<exporting, exported>>

ClickSubmit(p) ==
    /\ ShowsEditable(p)
    /\ Submit(p)
    /\ Reload(p)
    /\ UNCHANGED <<exporting, exported>>

ClickReview(p, verdict) ==
    /\ Shows(p, "in_review")
    /\ RecordReview(p, verdict)
    /\ Reload(p)
    /\ UNCHANGED <<exporting, exported>>

ClickApprove(p) ==
    /\ Shows(p, "in_review")
    /\ screen[p].verdict = "approved" /\ screen[p].reviewer # p
    /\ RecordApproval(p)
    /\ Reload(p)
    /\ UNCHANGED <<exporting, exported>>

ClickRevoke(p) ==
    /\ Shows(p, "approved")
    /\ RevokeApproval(p)
    /\ Reload(p)
    /\ UNCHANGED <<exporting, exported>>

(* onExportVariant: the row is read again, whatever the screen shows ...    *)
ClickExport(p) ==
    /\ Shows(p, "approved")
    /\ p \in active
    /\ exporting[p] = Blank
    /\ exporting' = [exporting EXCEPT ![p] = CurrentRow]
    /\ UNCHANGED <<vars, screen, exported>>

\* A variation: an export that does not look at the status of the row it has read.
ExportUnchecked(p) ==
    /\ exporting[p] # Blank
    /\ exported' = exported \cup {exporting[p].text}
    /\ screen' = [screen EXCEPT ![p] = exporting[p]]
    /\ exporting' = [exporting EXCEPT ![p] = Blank]
    /\ UNCHANGED vars

(* ... and exportApprovedVariant renders that row if it was approved then.  *)
FinishExport(p) ==
    /\ exporting[p] # Blank
    /\ IF exporting[p].status = "approved"
       THEN /\ exported' = exported \cup {exporting[p].text}
            /\ screen' = [screen EXCEPT ![p] = exporting[p]]
       ELSE UNCHANGED <<exported, screen>>
    /\ exporting' = [exporting EXCEPT ![p] = Blank]
    /\ UNCHANGED vars

ClientNext ==
    \E p \in Person :
      \/ LoadScreen(p)
      \/ ClickEdit(p) \/ ClickSubmit(p) \/ ClickApprove(p) \/ ClickRevoke(p)
      \/ \E v \in {"approved", "rejected"} : ClickReview(p, v)
      \/ ClickExport(p) \/ FinishExport(p)

ClientSpec == ClientInit /\ [][ClientNext]_clientVars

-----------------------------------------------------------------------------
(* However old the screen the export was started from, what is exported had *)
(* been approved, as the text it is.                                       *)
ExportedTextWasApproved ==
    \A t \in exported : \E a \in approvals : a.kind = "approved" /\ a.text = t
=============================================================================
