--------------------------- MODULE ReviewWorkflow ---------------------------
(***************************************************************************)
(* The native review and approval workflow of one language variant         *)
(* (migration 20260907000000, on the tables of 20260906000000).            *)
(*                                                                         *)
(* A variant is a mutable row (text, status, updated_at).  Its reviews and *)
(* approvals are append-only ledgers.  Four SECURITY DEFINER functions     *)
(* move the status; members edit the text through a row level policy.      *)
(* In this module every function call is one atomic step, which is how the *)
(* migration's comments argue about it; ReviewInterleaved splits the calls *)
(* into the statements PostgreSQL runs under READ COMMITTED.               *)
(*                                                                         *)
(* One variant is enough: every function reads and writes the rows of the  *)
(* one variant it is given, plus the campaign's membership.                *)
(***************************************************************************)
EXTENDS Integers

CONSTANTS
    Person,     \* people with a campaign_members row in this campaign
    Role,       \* member_role of each of them; no code path ever changes it
    Drafter,    \* created_by of the variant
    Nobody,     \* no person: the variant does not stand
    ClientClock,\* what the members' own clocks may read when they save an edit
    MaxText,    \* bound: number of edits of the text
    MaxTime     \* bound: number of time-stamped transactions

Roles == {"owner", "manager", "staff"}

ASSUME RoleAssumption == Role \in [Person -> Roles]
ASSUME DrafterAssumption == Drafter \in Person /\ Nobody \notin Person
ASSUME BoundAssumption == MaxText \in Nat /\ MaxTime \in Nat
ASSUME ClientClockAssumption == ClientClock \subseteq 0..MaxTime

VARIABLES
    active,      \* people whose membership status is 'active'
    capable,     \* people with a campaign_member_languages row for the language
    status,      \* language_variants.status
    text,        \* language_variants.text, as the number of the edit that wrote it
    author,      \* who wrote that text (history: no column records it)
    updatedAt,   \* language_variants.updated_at
    reviews,     \* the rows of reviews
    approvals,   \* the rows of approvals
    now          \* the next value of now()

vars == <<active, capable, status, text, author, updatedAt, reviews, approvals, now>>

Statuses == {"draft", "in_review", "changes_requested", "approved"}
Text     == 0..MaxText
Time     == 0..MaxTime

(* A row of reviews and a row of approvals. "text" is not a column: it is   *)
(* the text that was on the variant when the row was inserted.             *)
Review   == [by : Person, verdict : {"approved", "rejected"}, at : Time, text : Text]
Approval == [by : Person, kind : {"approved", "revoked"}, at : Time, text : Text]

TypeOK ==
    /\ active \subseteq Person
    /\ capable \subseteq Person
    /\ status \in Statuses
    /\ text \in Text
    /\ author \in Person
    /\ updatedAt \in Time
    /\ reviews \subseteq Review
    /\ approvals \subseteq Approval
    /\ now \in Time

-----------------------------------------------------------------------------
(***************************************************************************)
(* Reads of the campaign and of the ledgers                                *)
(***************************************************************************)

\* is_campaign_owner_or_manager()
OwnerOrManager(p) == p \in active /\ Role[p] \in {"owner", "manager"}

\* Authority to review: owner or manager, or a declared capability.
MayReview(p) == OwnerOrManager(p) \/ p \in capable

\* The row may be reached by a client UPDATE.
Editable == status \in {"draft", "changes_requested"}

\* A variation: the qualifying review is looked for among all reviews ever made.
AllReviews == reviews

\* The reviews that belong to the current in_review cycle.
CycleReviews == {r \in reviews : r.at >= updatedAt}

\* e is the newest entry of the ledger.
IsNewest(e, ledger) == e \in ledger /\ \A f \in ledger : f.at <= e.at

Newest(ledger) == CHOOSE e \in ledger : IsNewest(e, ledger)

\* The transaction's now(); no two transactions share a microsecond.
Stamp == now < MaxTime /\ now' = now + 1

-----------------------------------------------------------------------------
Init ==
    /\ active = Person
    /\ capable = {}
    /\ status = "draft"
    /\ text = 0
    /\ author = Drafter
    /\ updatedAt = 0
    /\ reviews = {}
    /\ approvals = {}
    /\ now = 0

(***************************************************************************)
(* updateLanguageVariant: any active member rewrites the text while the    *)
(* row is editable. updated_at comes from the caller's own clock.          *)
(***************************************************************************)
EditText(p, clientClock) ==
    /\ p \in active
    /\ Editable
    /\ text < MaxText
    /\ text' = text + 1
    /\ author' = p
    /\ updatedAt' = clientClock
    /\ UNCHANGED <<active, capable, status, reviews, approvals, now>>

(***************************************************************************)
(* submit_language_variant_for_review: the drafter only. A repeat call     *)
(* while in_review returns without a change.                               *)
(***************************************************************************)
Submit(p) ==
    /\ p \in active
    /\ p = Drafter
    /\ Editable
    /\ Stamp
    /\ status' = "in_review"
    /\ updatedAt' = now
    /\ UNCHANGED <<active, capable, text, author, reviews, approvals>>

\* record_review: what a reviewer must satisfy.
ReviewGuard(p) ==
    /\ p \in active
    /\ p # Drafter
    /\ MayReview(p)
    /\ status = "in_review"

(***************************************************************************)
(* record_review: one new row per pass. A rejection returns the variant to *)
(* its drafter, an approval leaves it in review.                           *)
(***************************************************************************)
RecordReview(p, verdict) ==
    /\ ReviewGuard(p)
    /\ Stamp
    /\ reviews' = reviews \cup
         {[by |-> p, verdict |-> verdict, at |-> now, text |-> text]}
    /\ \/ /\ verdict = "rejected"
          /\ status' = "changes_requested"
          /\ updatedAt' = now
       \/ /\ verdict = "approved"
          /\ UNCHANGED <<status, updatedAt>>
    /\ UNCHANGED <<active, capable, text, author, approvals>>

\* A variation: a drafter who leads the campaign may approve.
ApprovalByDrafter(p) ==
    /\ OwnerOrManager(p)
    /\ status = "in_review"

\* record_approval: what an approver must satisfy.
ApprovalGuard(p) ==
    /\ OwnerOrManager(p)
    /\ p # Drafter
    /\ status = "in_review"

\* The review record_approval relies on: the newest of the current cycle.
QualifyingReview(r) == IsNewest(r, CycleReviews) /\ r.verdict = "approved"

(***************************************************************************)
(* record_approval: the only statement that sets 'approved'.               *)
(***************************************************************************)
RecordApproval(p) ==
    /\ ApprovalGuard(p)
    /\ \E r \in reviews : QualifyingReview(r) /\ r.by # p
    /\ Stamp
    /\ approvals' = approvals \cup
         {[by |-> p, kind |-> "approved", at |-> now, text |-> text]}
    /\ status' = "approved"
    /\ updatedAt' = now
    /\ UNCHANGED <<active, capable, text, author, reviews>>

\* A variation: a revocation that inserts no row into the approvals ledger.
RevokeUnrecorded(p) ==
    /\ OwnerOrManager(p)
    /\ status = "approved"
    /\ Stamp
    /\ status' = "changes_requested"
    /\ updatedAt' = now
    /\ UNCHANGED <<active, capable, text, author, reviews, approvals>>

\* A variation: the status is set to the ledger's word, which the table does not know.
RevokeToRevoked(p) ==
    /\ OwnerOrManager(p)
    /\ status = "approved"
    /\ Stamp
    /\ approvals' = approvals \cup
         {[by |-> p, kind |-> "revoked", at |-> now, text |-> text]}
    /\ status' = "revoked"
    /\ updatedAt' = now
    /\ UNCHANGED <<active, capable, text, author, reviews>>

(***************************************************************************)
(* revoke_approval: a new ledger row, and back to changes_requested.       *)
(***************************************************************************)
RevokeApproval(p) ==
    /\ OwnerOrManager(p)
    /\ status = "approved"
    /\ Stamp
    /\ approvals' = approvals \cup
         {[by |-> p, kind |-> "revoked", at |-> now, text |-> text]}
    /\ status' = "changes_requested"
    /\ updatedAt' = now
    /\ UNCHANGED <<active, capable, text, author, reviews>>

(***************************************************************************)
(* revoke_campaign_member: never oneself, never an owner; a manager only   *)
(* staff. Nothing ever makes a revoked member active again.                *)
(***************************************************************************)
RevokeMember(p, target) ==
    /\ OwnerOrManager(p)
    /\ target # p
    /\ target \in active
    /\ Role[target] # "owner"
    /\ Role[p] = "manager" => Role[target] = "staff"
    /\ active' = active \ {target}
    /\ UNCHANGED <<capable, status, text, author, updatedAt, reviews, approvals, now>>

(***************************************************************************)
(* grantMemberLanguage and revokeMemberLanguage, under the insert and      *)
(* delete policies of campaign_member_languages.                           *)
(***************************************************************************)
GrantLanguage(p, grantee) ==
    /\ OwnerOrManager(p)
    /\ grantee \notin capable
    /\ capable' = capable \cup {grantee}
    /\ UNCHANGED <<active, status, text, author, updatedAt, reviews, approvals, now>>

WithdrawLanguage(p, grantee) ==
    /\ OwnerOrManager(p)
    /\ grantee \in capable
    /\ capable' = capable \ {grantee}
    /\ UNCHANGED <<active, status, text, author, updatedAt, reviews, approvals, now>>

Workflow(p) ==
    \/ \E t \in ClientClock : EditText(p, t)
    \/ Submit(p)
    \/ \E v \in {"approved", "rejected"} : RecordReview(p, v)
    \/ RecordApproval(p)
    \/ RevokeApproval(p)

Membership(p) ==
    \E q \in Person : RevokeMember(p, q) \/ GrantLanguage(p, q) \/ WithdrawLanguage(p, q)

Next == \E p \in Person : Workflow(p) \/ Membership(p)

Spec == Init /\ [][Next]_vars

-----------------------------------------------------------------------------
(***************************************************************************)
(* Properties                                                              *)
(***************************************************************************)

\* r is a review that was approved, a an approval, both of the text t, given
\* by two people of whom neither is the drafter, the review first.
Endorses(r, a, t) ==
    /\ r.verdict = "approved" /\ a.kind = "approved"
    /\ r.text = t /\ a.text = t
    /\ r.by # a.by /\ r.by # Drafter /\ a.by # Drafter
    /\ r.at < a.at

(* Whenever the variant is approved, the very text it now holds was         *)
(* reviewed by one person and approved by another, neither of them the     *)
(* drafter, no rejection came after that review and no other approval row  *)
(* after that approval.                                                    *)
ApprovedTextWasReviewed ==
    status = "approved" =>
        \E r \in reviews, a \in approvals :
            /\ Endorses(r, a, text)
            /\ \A s \in reviews : s.at > r.at => s.verdict = "approved"
            /\ IsNewest(a, approvals)

(* The status is a projection of the ledger as far as approval goes: the    *)
(* variant is approved exactly when the newest approvals row says so.      *)
StatusFollowsLedger ==
    (status = "approved") <=>
        \E a \in approvals : IsNewest(a, approvals) /\ a.kind = "approved"

(* A second approval needs a revocation and then a review of its own: what  *)
(* was reviewed before a revocation never carries a later approval.        *)
FreshReviewPerApproval ==
    \A a, b \in approvals :
        (a.kind = "approved" /\ b.kind = "approved" /\ a.at < b.at) =>
            \E v \in approvals, r \in reviews :
                /\ v.kind = "revoked" /\ a.at < v.at /\ v.at < r.at
                /\ Endorses(r, b, b.text)

(* What record_review's message says; does not hold, as any member may       *)
(* rewrite the text: the reviewer of an approved text did not write it.     *)
ReviewerDidNotWriteText ==
    status = "approved" =>
        \E r \in reviews, a \in approvals :
            Endorses(r, a, text) /\ r.by # author
-----------------------------------------------------------------------------
(***************************************************************************)
(* The inductive invariant: what the steps need to know of each other for  *)
(* the properties above to be kept.                                        *)
(***************************************************************************)

\* Ledger rows carry distinct past timestamps; the drafter endorses nothing.
LedgerOrder ==
    /\ \A r \in reviews : r.at < now /\ r.by # Drafter
    /\ \A a \in approvals : a.at < now /\ (a.kind = "approved" => a.by # Drafter)
    /\ \A r, s \in reviews : r.at = s.at => r = s
    /\ \A a, b \in approvals : a.at = b.at => a = b

\* The cycle began after every approval, and its reviews are all in favour of
\* the text as it is.
CycleIsClean ==
    status = "in_review" =>
        /\ updatedAt < now
        /\ \A r \in CycleReviews : r.verdict = "approved" /\ r.text = text
        /\ \A a \in approvals : a.at < updatedAt

\* Unless the variant is approved, every approval was revoked since.
NoStandingApproval ==
    status # "approved" =>
        \A a \in approvals : a.kind = "approved" =>
            \E v \in approvals : v.kind = "revoked" /\ v.at > a.at

(* The conjunction that every step preserves; it implies the properties of  *)
(* the workflow stated above.                                              *)
IInv ==
    /\ TypeOK
    /\ LedgerOrder
    /\ CycleIsClean
    /\ NoStandingApproval
    /\ ApprovedTextWasReviewed
    /\ FreshReviewPerApproval

-----------------------------------------------------------------------------
(***************************************************************************)
(* What the workflow implements. Reviews of the open cycle vouch for the   *)
(* text; the newest approvals row is the endorsement it stands on.         *)
(***************************************************************************)
Vouchers == IF status = "in_review" THEN {r.by : r \in CycleReviews} ELSE {}

Standing ==
    IF status = "approved"
    THEN Newest(approvals).by
    ELSE Nobody

Governance == INSTANCE ContentGovernance WITH
    People <- Person, Contents <- Text, Writer <- Drafter, None <- Nobody,
    content <- text, vouchers <- Vouchers, standing <- Standing

(* The workflow of atomic calls implements the governance promise.          *)
ImplementsGovernance == Governance!GovSpec
=============================================================================
