---------------------------- MODULE ReviewProofs ----------------------------
(***************************************************************************)
(* Theorems about the review workflow, for every campaign and every bound: *)
(* with atomic calls (ReviewWorkflow) the inductive invariant, the safety  *)
(* properties it implies and the refinement of ContentGovernance; with     *)
(* calls that overlap statement by statement (ReviewInterleaved); and with *)
(* members who act by what their screens show (ReviewClient).              *)
(***************************************************************************)
EXTENDS ReviewInterleaved, ReviewClient, WellFoundedInduction, TLAPS

USE DEF Roles, Statuses, Text, Time, Review, Approval

(* The initial state satisfies the inductive invariant.                     *)
LEMMA InitIInv == Init => IInv
  BY DrafterAssumption, BoundAssumption
  DEF Init, IInv, TypeOK, LedgerOrder, CycleIsClean, CycleReviews,
      NoStandingApproval, ApprovedTextWasReviewed, FreshReviewPerApproval

(* Every step keeps the variables in their types.                           *)
LEMMA StepTypeOK == TypeOK /\ [Next]_vars => TypeOK'
<1> SUFFICES ASSUME TypeOK, [Next]_vars PROVE TypeOK'
  OBVIOUS
<1> USE RoleAssumption, DrafterAssumption, BoundAssumption, ClientClockAssumption DEF TypeOK, Stamp
<1>1. ASSUME NEW p \in Person, NEW t \in ClientClock, EditText(p, t) PROVE TypeOK'
  BY <1>1 DEF EditText
<1>2. ASSUME NEW p \in Person, Submit(p) PROVE TypeOK'
  BY <1>2 DEF Submit
<1>3. ASSUME NEW p \in Person, NEW v \in {"approved", "rejected"}, RecordReview(p, v)
      PROVE TypeOK'
  BY <1>3 DEF RecordReview
<1>4. ASSUME NEW p \in Person, RecordApproval(p) PROVE TypeOK'
  BY <1>4 DEF RecordApproval
<1>5. ASSUME NEW p \in Person, RevokeApproval(p) PROVE TypeOK'
  BY <1>5 DEF RevokeApproval
<1>6. ASSUME NEW p \in Person, Membership(p) PROVE TypeOK'
  BY <1>6 DEF Membership, RevokeMember, GrantLanguage, WithdrawLanguage
<1>7. CASE UNCHANGED vars
  BY <1>7 DEF vars
<1> QED
  BY <1>1, <1>2, <1>3, <1>4, <1>5, <1>6, <1>7 DEF Next, Workflow

(* Steps that leave the variant and its ledgers alone keep the invariant.   *)
LEMMA QuietStep ==
  ASSUME IInv, TypeOK', now <= now',
         UNCHANGED <<status, text, updatedAt, reviews, approvals>>
  PROVE  IInv'
<1>1. \A x \in Time : x < now => x < now'
  BY DEF IInv, TypeOK
<1>2. LedgerOrder'
  BY <1>1 DEF IInv, TypeOK, LedgerOrder
<1>3. CycleIsClean'
  BY <1>1 DEF IInv, TypeOK, CycleIsClean, CycleReviews
<1> QED
  BY <1>2, <1>3 DEF IInv, NoStandingApproval, ApprovedTextWasReviewed,
                    FreshReviewPerApproval, Endorses, IsNewest

LEMMA ClockStands == TypeOK /\ now' = now => now <= now'
  BY DEF TypeOK

(* An edit happens while nothing is in review or approved.                  *)
LEMMA EditStep ==
  ASSUME IInv, TypeOK', NEW p \in Person, NEW t \in ClientClock, EditText(p, t)
  PROVE  IInv'
<1> USE DEF EditText, Editable
<1>1. LedgerOrder'
  BY DEF IInv, LedgerOrder
<1>2. CycleIsClean' /\ ApprovedTextWasReviewed'
  BY DEF CycleIsClean, ApprovedTextWasReviewed
<1>3. NoStandingApproval' /\ FreshReviewPerApproval'
  BY DEF IInv, NoStandingApproval, FreshReviewPerApproval, Endorses
<1> QED
  BY <1>1, <1>2, <1>3 DEF IInv

(***************************************************************************)
(* The writes of the four functions.  Each is stamped with the now() of its *)
(* transaction, which here is any moment newer than what is written: the   *)
(* atomic call takes the current one, an interleaved call the one at which *)
(* it began.                                                               *)
(***************************************************************************)
Newer(at) ==
    /\ \A r \in reviews : r.at < at
    /\ \A a \in approvals : a.at < at
    /\ status = "in_review" => updatedAt < at

(* What every write starts from: a new stamp that the clock has passed.     *)
Stamped(at) ==
    /\ IInv /\ TypeOK'
    /\ at \in Time /\ Newer(at)
    /\ at < now' /\ now <= now'
    /\ text' = text

LEMMA NewerNow == IInv => Newer(now)
  BY DEF IInv, LedgerOrder, CycleIsClean, Newer

LEMMA StampedNow == IInv /\ TypeOK' /\ Stamp /\ text' = text => Stamped(now)
  BY NewerNow, BoundAssumption DEF IInv, TypeOK, Stamp, Stamped

LEMMA LedgerKept ==
  ASSUME NEW at, Stamped(at)
  PROVE  /\ \A r \in reviews : r.at < now' /\ r.by # Drafter
         /\ \A a \in approvals : a.at < now' /\ (a.kind = "approved" => a.by # Drafter)
  BY DEF Stamped, Newer, IInv, LedgerOrder, TypeOK

(* A submission opens a cycle: every review and approval is older than it.  *)
LEMMA OpensCycle ==
  ASSUME NEW at, Stamped(at), Editable, UNCHANGED <<reviews, approvals>>,
         status' = "in_review", updatedAt' = at
  PROVE  IInv'
<1>1. LedgerOrder'
  BY LedgerKept DEF Stamped, IInv, LedgerOrder
<1>2. CycleIsClean'
  <2>1. CycleReviews' = {}
    BY DEF Stamped, IInv, TypeOK, CycleReviews, Newer
  <2> QED
    BY <2>1 DEF Stamped, Newer, CycleIsClean
<1>3. ApprovedTextWasReviewed'
  BY DEF ApprovedTextWasReviewed
<1>4. NoStandingApproval' /\ FreshReviewPerApproval'
  BY DEF Stamped, Editable, IInv, NoStandingApproval, FreshReviewPerApproval, Endorses
<1> QED
  BY <1>1, <1>2, <1>3, <1>4 DEF Stamped, IInv

(* A review adds a row to the open cycle, or closes the cycle.              *)
LEMMA AddsReview ==
  ASSUME NEW at, Stamped(at), NEW p \in Person, p # Drafter, status = "in_review",
         NEW v \in {"approved", "rejected"},
         reviews' = reviews \cup {[by |-> p, verdict |-> v, at |-> at, text |-> text]},
         approvals' = approvals,
         \/ v = "rejected" /\ status' = "changes_requested"
         \/ v = "approved" /\ UNCHANGED <<status, updatedAt>>
  PROVE  IInv'
<1> DEFINE row == [by |-> p, verdict |-> v, at |-> at, text |-> text]
<1>0. /\ IInv /\ TypeOK /\ TypeOK' /\ at \in Int /\ at < now'
      /\ \A r \in reviews : r.at < at
  BY DEF Stamped, Newer, IInv, TypeOK
<1>1. LedgerOrder'
  <2>1. \A r \in reviews' : r.at < now' /\ r.by # Drafter
    BY <1>0, LedgerKept
  <2>2. \A r, s \in reviews' : r.at = s.at => r = s
    BY <1>0 DEF IInv, LedgerOrder, TypeOK
  <2> QED
    BY <1>0, <2>1, <2>2, LedgerKept DEF IInv, LedgerOrder
<1>2. CycleIsClean'
  <2>1. CASE v = "rejected"
    BY <2>1 DEF CycleIsClean
  <2>2. CASE v = "approved"
    <3>1. updatedAt' = updatedAt /\ updatedAt < now'
      BY <1>0, <2>2 DEF Stamped, IInv, CycleIsClean, TypeOK
    <3>2. \A r \in CycleReviews' : r.verdict = "approved" /\ r.text = text
      BY <1>0, <2>2, <3>1 DEF IInv, CycleIsClean, CycleReviews
    <3>3. \A a \in approvals' : a.at < updatedAt'
      BY <1>0, <3>1 DEF IInv, CycleIsClean
    <3> QED
      BY <3>1, <3>2, <3>3 DEF CycleIsClean, Stamped
  <2> QED
    BY <2>1, <2>2
<1>3. status' # "approved"
  OBVIOUS
<1>4. ApprovedTextWasReviewed'
  BY <1>3 DEF ApprovedTextWasReviewed
<1>5. NoStandingApproval'
  BY <1>0 DEF IInv, NoStandingApproval
<1>6. FreshReviewPerApproval'
  BY <1>0 DEF IInv, FreshReviewPerApproval, Endorses
<1> QED
  BY <1>0, <1>1, <1>2, <1>4, <1>5, <1>6 DEF IInv

(* An approval rests on a review of the same text from the same cycle, and  *)
(* every earlier approval was revoked before that cycle began.             *)
LEMMA AddsApproval ==
  ASSUME NEW at, Stamped(at), NEW p \in Person, p # Drafter, status = "in_review",
         NEW q \in reviews, QualifyingReview(q), q.by # p,
         approvals' = approvals \cup
           {[by |-> p, kind |-> "approved", at |-> at, text |-> text]},
         reviews' = reviews, status' = "approved"
  PROVE  IInv'
<1> DEFINE row == [by |-> p, kind |-> "approved", at |-> at, text |-> text]
<1>0. /\ IInv /\ TypeOK /\ TypeOK' /\ at \in Int /\ at < now' /\ text' = text
      /\ \A r \in reviews : r.at < at
      /\ \A a \in approvals : a.at < at
  BY DEF Stamped, Newer, IInv, TypeOK
<1>1. /\ q.verdict = "approved" /\ q.text = text /\ q.by # Drafter
      /\ q.at >= updatedAt /\ q.at < at /\ q.at \in Int
      /\ \A s \in reviews : s.at >= updatedAt => s.at <= q.at
  BY <1>0 DEF QualifyingReview, IsNewest, CycleReviews, IInv, CycleIsClean, LedgerOrder, TypeOK
<1>2. Endorses(q, row, text)
  BY <1>1 DEF Endorses
<1>3. LedgerOrder'
  <2>1. \A a \in approvals' : a.at < now' /\ (a.kind = "approved" => a.by # Drafter)
    BY <1>0, LedgerKept
  <2>2. \A a, b \in approvals' : a.at = b.at => a = b
    BY <1>0 DEF IInv, LedgerOrder, TypeOK
  <2> QED
    BY <1>0, <2>1, <2>2, LedgerKept DEF IInv, LedgerOrder
<1>4. CycleIsClean' /\ NoStandingApproval'
  BY DEF CycleIsClean, NoStandingApproval
<1>5. ApprovedTextWasReviewed'
  <2>1. \A s \in reviews : s.at > q.at => s.verdict = "approved"
    BY <1>0, <1>1 DEF TypeOK
  <2>2. IsNewest(row, approvals')
    BY <1>0 DEF IsNewest, TypeOK
  <2> QED
    BY <1>0, <1>2, <2>1, <2>2 DEF ApprovedTextWasReviewed, Endorses
<1>6. FreshReviewPerApproval'
  <2> SUFFICES ASSUME NEW a \in approvals', NEW b \in approvals',
                      a.kind = "approved", b.kind = "approved", a.at < b.at
               PROVE  \E v \in approvals', r \in reviews' :
                        /\ v.kind = "revoked" /\ a.at < v.at /\ v.at < r.at
                        /\ Endorses(r, b, b.text)'
    BY DEF FreshReviewPerApproval
  <2>1. CASE b \in approvals
    <3>1. a \in approvals
      BY <1>0, <2>1 DEF TypeOK
    <3> QED
      BY <1>0, <2>1, <3>1 DEF IInv, FreshReviewPerApproval, Endorses
  <2>2. CASE b = row
    <3>1. a \in approvals
      BY <1>0, <2>2
    <3>2. PICK v \in approvals : v.kind = "revoked" /\ v.at > a.at
      BY <1>0, <3>1 DEF IInv, NoStandingApproval
    <3>3. v.at < q.at
      BY <1>0, <1>1, <3>2 DEF IInv, CycleIsClean, TypeOK
    <3> QED
      BY <1>0, <1>2, <2>2, <3>2, <3>3 DEF Endorses
  <2> QED
    BY <2>1, <2>2
<1> QED
  BY <1>0, <1>3, <1>4, <1>5, <1>6 DEF IInv

(* A revocation is newer than every approval.                               *)
LEMMA AddsRevocation ==
  ASSUME NEW at, Stamped(at), NEW p \in Person,
         approvals' = approvals \cup
           {[by |-> p, kind |-> "revoked", at |-> at, text |-> text]},
         reviews' = reviews, status' = "changes_requested"
  PROVE  IInv'
<1> DEFINE row == [by |-> p, kind |-> "revoked", at |-> at, text |-> text]
<1>0. /\ IInv /\ TypeOK /\ TypeOK' /\ at \in Int /\ at < now'
      /\ \A a \in approvals : a.at < at
  BY DEF Stamped, Newer, IInv, TypeOK
<1>1. LedgerOrder'
  <2>1. \A a \in approvals' : a.at < now' /\ (a.kind = "approved" => a.by # Drafter)
    BY <1>0, LedgerKept
  <2>2. \A a, b \in approvals' : a.at = b.at => a = b
    BY <1>0 DEF IInv, LedgerOrder, TypeOK
  <2> QED
    BY <1>0, <2>1, <2>2, LedgerKept DEF IInv, LedgerOrder
<1>2. CycleIsClean' /\ ApprovedTextWasReviewed'
  BY DEF CycleIsClean, ApprovedTextWasReviewed
<1>3. NoStandingApproval'
  <2>1. row \in approvals' /\ row.kind = "revoked" /\ row.at = at
    OBVIOUS
  <2>2. \A a \in approvals' : a.kind = "approved" => at > a.at
    BY <1>0 DEF TypeOK
  <2> QED
    BY <2>1, <2>2 DEF NoStandingApproval
<1>4. FreshReviewPerApproval'
  BY <1>0 DEF IInv, FreshReviewPerApproval, Endorses
<1> QED
  BY <1>0, <1>1, <1>2, <1>3, <1>4 DEF IInv

(* The atomic calls.                                                        *)
LEMMA SubmitStep ==
  ASSUME IInv, TypeOK', NEW p \in Person, Submit(p)
  PROVE  IInv'
  BY StampedNow, OpensCycle DEF Submit

LEMMA ReviewStep ==
  ASSUME IInv, TypeOK', NEW p \in Person, NEW v \in {"approved", "rejected"},
         RecordReview(p, v)
  PROVE  IInv'
<1>1. Stamped(now) /\ p # Drafter /\ status = "in_review" /\ approvals' = approvals
  BY StampedNow DEF RecordReview, ReviewGuard
<1>2. reviews' = reviews \cup {[by |-> p, verdict |-> v, at |-> now, text |-> text]}
  BY DEF RecordReview
<1>3. \/ v = "rejected" /\ status' = "changes_requested"
      \/ v = "approved" /\ UNCHANGED <<status, updatedAt>>
  BY DEF RecordReview
<1> QED
  BY <1>1, <1>2, <1>3, AddsReview

LEMMA ApprovalStep ==
  ASSUME IInv, TypeOK', NEW p \in Person, RecordApproval(p)
  PROVE  IInv'
<1>1. Stamped(now) /\ p # Drafter /\ status = "in_review" /\ reviews' = reviews
      /\ status' = "approved"
  BY StampedNow DEF RecordApproval, ApprovalGuard
<1>2. PICK q \in reviews : QualifyingReview(q) /\ q.by # p
  BY DEF RecordApproval
<1>3. approvals' = approvals \cup {[by |-> p, kind |-> "approved", at |-> now, text |-> text]}
  BY DEF RecordApproval
<1> QED
  BY <1>1, <1>2, <1>3, AddsApproval

LEMMA RevokeStep ==
  ASSUME IInv, TypeOK', NEW p \in Person, RevokeApproval(p)
  PROVE  IInv'
<1>1. Stamped(now) /\ reviews' = reviews /\ status' = "changes_requested"
  BY StampedNow DEF RevokeApproval
<1>2. approvals' = approvals \cup {[by |-> p, kind |-> "revoked", at |-> now, text |-> text]}
  BY DEF RevokeApproval
<1> QED
  BY <1>1, <1>2, AddsRevocation

(* The inductive step, one action at a time.                                *)
LEMMA NextIInv == IInv /\ [Next]_vars => IInv'
<1> SUFFICES ASSUME IInv, [Next]_vars PROVE IInv'
  OBVIOUS
<1>0. TypeOK'
  BY StepTypeOK DEF IInv
<1>1. ASSUME NEW p \in Person, Workflow(p) PROVE IInv'
  BY <1>0, <1>1, EditStep, SubmitStep, ReviewStep, ApprovalStep, RevokeStep DEF Workflow
<1>2. ASSUME NEW p \in Person, Membership(p) PROVE IInv'
  BY <1>0, <1>2, QuietStep, ClockStands DEF IInv, Membership, RevokeMember, GrantLanguage, WithdrawLanguage
<1>3. CASE UNCHANGED vars
  BY <1>0, <1>3, QuietStep, ClockStands DEF IInv, vars
<1> QED
  BY <1>1, <1>2, <1>3 DEF Next

(* The invariant implies that the status follows the ledger.                *)
LEMMA LedgerLemma == IInv => StatusFollowsLedger
  BY DEF IInv, TypeOK, NoStandingApproval, ApprovedTextWasReviewed,
         StatusFollowsLedger, Endorses, IsNewest

(* The inductive invariant holds in every reachable state.                  *)
THEOREM Invariant == Spec => []IInv
  BY InitIInv, NextIInv, PTL DEF Spec

(* In every reachable state the variables have their types: rows of the     *)
(* tables 20260906 and 20260907 declare.                                   *)
THEOREM TypeCorrect == Spec => []TypeOK
<1>1. IInv => TypeOK
  BY DEF IInv
<1> QED
  BY <1>1, Invariant, PTL

(* record_approval: approved text was reviewed by one person and approved   *)
(* by another, neither the drafter, with no rejection since.               *)
THEOREM Reviewed == Spec => []ApprovedTextWasReviewed
<1>1. IInv => ApprovedTextWasReviewed
  BY DEF IInv
<1> QED
  BY <1>1, Invariant, PTL

(* language_variants.status says 'approved' exactly when the newest row of  *)
(* approvals does.                                                         *)
THEOREM Projection == Spec => []StatusFollowsLedger
  BY LedgerLemma, Invariant, PTL

(* No review made before a revocation carries an approval made after it.    *)
THEOREM FreshReview == Spec => []FreshReviewPerApproval
<1>1. IInv => FreshReviewPerApproval
  BY DEF IInv
<1> QED
  BY <1>1, Invariant, PTL

-----------------------------------------------------------------------------
(***************************************************************************)
(* Refinement                                                              *)
(***************************************************************************)

(* A ledger in timestamp order has one newest entry.                        *)
LEMMA NewestIs ==
  ASSUME NEW ledger, NEW e \in ledger, IsNewest(e, ledger),
         \A f \in ledger : f.at \in Int,
         \A f, g \in ledger : f.at = g.at => f = g
  PROVE  Newest(ledger) = e
<1> DEFINE c == Newest(ledger)
<1>1. c \in ledger /\ IsNewest(c, ledger)
  BY DEF Newest
<1>2. c.at = e.at
  BY <1>1 DEF IsNewest
<1> QED
  BY <1>1, <1>2

(* An approved variant stands on a person.                                  *)
LEMMA StandsOnSomebody ==
  ASSUME IInv, status = "approved"
  PROVE  Standing \in Person
<1>1. PICK a \in approvals : IsNewest(a, approvals)
  BY DEF IInv, ApprovedTextWasReviewed
<1> QED
  BY <1>1, NewestIs DEF IInv, TypeOK, LedgerOrder, Standing

(* Initially nobody vouches and nothing stands.                             *)
LEMMA InitGovernance == Init => Governance!GovInit
  BY BoundAssumption DEF Init, Governance!GovInit, Vouchers, Standing

(* Every step of the workflow is a governance step or changes nothing that  *)
(* governance sees.                                                        *)
LEMMA StepGovernance ==
  ASSUME IInv, IInv', [Next]_vars
  PROVE  [Governance!GovNext]_(Governance!govVars)
<1> USE DEF Governance!govVars
<1>1. ASSUME UNCHANGED <<status, text, updatedAt, reviews, approvals>>
      PROVE  UNCHANGED Governance!govVars
  BY <1>1 DEF Vouchers, Standing, CycleReviews, IsNewest
<1>2. ASSUME NEW p \in Person, NEW t \in ClientClock, EditText(p, t)
      PROVE  Governance!Rewrite
  <2>1. status # "approved" /\ status # "in_review" /\ status' = status
    BY <1>2 DEF EditText, Editable
  <2>2. text' \in Text
    BY DEF IInv, TypeOK
  <2> QED
    BY <2>1, <2>2 DEF Governance!Rewrite, Vouchers, Standing
<1>3. ASSUME NEW p \in Person, Submit(p)
      PROVE  Governance!Object
  <2>1. status # "approved" /\ status' = "in_review" /\ text' = text /\ reviews' = reviews
        /\ updatedAt' = now
    BY <1>3 DEF Submit, Editable
  <2>2. CycleReviews' = {}
    BY <2>1 DEF CycleReviews, IInv, LedgerOrder, TypeOK
  <2> QED
    BY <2>1, <2>2 DEF Governance!Object, Vouchers, Standing
<1>4. ASSUME NEW p \in Person, RecordReview(p, "rejected")
      PROVE  Governance!Object
  BY <1>4 DEF RecordReview, ReviewGuard, Governance!Object, Vouchers, Standing
<1>5. ASSUME NEW p \in Person, RecordReview(p, "approved")
      PROVE  Governance!Vouch(p)
  <2> DEFINE row == [by |-> p, verdict |-> "approved", at |-> now, text |-> text]
  <2>1. /\ status = "in_review" /\ p # Drafter
        /\ UNCHANGED <<status, updatedAt, text>>
        /\ reviews' = reviews \cup {row}
    BY <1>5 DEF RecordReview, ReviewGuard
  <2>2. row.by = p /\ row.at >= updatedAt
    BY <2>1 DEF IInv, CycleIsClean, TypeOK
  <2> HIDE DEF row
  <2>3. CycleReviews' = CycleReviews \cup {row}
    BY <2>1, <2>2 DEF CycleReviews
  <2>4. {r.by : r \in CycleReviews \cup {row}} = {r.by : r \in CycleReviews} \cup {p}
    BY <2>2
  <2>5. Vouchers' = Vouchers \cup {p}
    BY <2>1, <2>3, <2>4 DEF Vouchers
  <2> QED
    BY <2>1, <2>5 DEF Governance!Vouch, Standing
<1>6. ASSUME NEW p \in Person, RecordApproval(p)
      PROVE  Governance!Endorse(p)
  <2> DEFINE row == [by |-> p, kind |-> "approved", at |-> now, text |-> text]
  <2>1. /\ status = "in_review" /\ p # Drafter /\ status' = "approved"
        /\ text' = text /\ approvals' = approvals \cup {row}
    BY <1>6 DEF RecordApproval, ApprovalGuard
  <2>2. PICK q \in reviews : QualifyingReview(q) /\ q.by # p
    BY <1>6 DEF RecordApproval
  <2>3. q.by \in Vouchers \ {p}
    BY <2>1, <2>2 DEF QualifyingReview, IsNewest, Vouchers
  <2>4. IsNewest(row, approvals')
    BY <2>1 DEF IsNewest, IInv, LedgerOrder, TypeOK
  <2>5. LedgerOrder' /\ TypeOK'
    BY DEF IInv
  <2>6. Standing' = p
    <3>1. Newest(approvals') = row
      BY <2>1, <2>4, <2>5, NewestIs DEF LedgerOrder, TypeOK
    <3> QED
      BY <2>1, <3>1 DEF Standing
  <2> QED
    BY <2>1, <2>3, <2>6 DEF Governance!Endorse, Vouchers, Standing
<1>7. ASSUME NEW p \in Person, RevokeApproval(p)
      PROVE  Governance!Retract
  <2>1. status = "approved" /\ status' = "changes_requested" /\ text' = text
    BY <1>7 DEF RevokeApproval
  <2>2. Standing # Nobody
    BY <2>1, StandsOnSomebody, DrafterAssumption
  <2> QED
    BY <2>1, <2>2 DEF Governance!Retract, Vouchers, Standing
<1>8. ASSUME NEW p \in Person, Workflow(p) PROVE Governance!GovNext
  BY <1>8, <1>2, <1>3, <1>4, <1>5, <1>6, <1>7 DEF Workflow, Governance!GovNext
<1>9. ASSUME NEW p \in Person, Membership(p) PROVE UNCHANGED Governance!govVars
  BY <1>1, <1>9 DEF Membership, RevokeMember, GrantLanguage, WithdrawLanguage
<1>10. CASE UNCHANGED vars
  BY <1>1, <1>10 DEF vars
<1> QED
  BY <1>8, <1>9, <1>10 DEF Next

(* The workflow of the four functions keeps the governance promise: a text  *)
(* stands only on a reviewer and an approver, both other than the drafter, *)
(* and never changes while it stands.                                      *)
THEOREM Refinement == Spec => ImplementsGovernance
  BY InitGovernance, StepGovernance, Invariant, PTL
     DEF Spec, ImplementsGovernance, Governance!GovSpec
-----------------------------------------------------------------------------
(***************************************************************************)
(* Calls that overlap statement by statement                               *)
(***************************************************************************)
Seconded(p) == \E r \in reviews : r.verdict = "approved" /\ r.by \notin {p, Drafter}

(* The calls that judge the text; the drafter is refused all of them.      *)
Judging == {"approve", "approve_review", "reject_review"}

(* What a call has checked stays checked, whatever commits in between:      *)
(* that its caller is not the drafter, and that somebody else approved.    *)
Checked == \A s \in Session :
    /\ call[s].step \in {"loaded", "checked"} /\ call[s].op \in Judging => call[s].by # Drafter
    /\ call[s].step = "checked" /\ call[s].op = "approve" => Seconded(call[s].by)

CallIInv == /\ CallTypeOK
            /\ \A r \in reviews : r.by # Drafter
            /\ Checked
            /\ TwoPeopleBehindEveryApproval

USE DEF Time, Text, Statuses

LEMMA StampTyped == TypeOK /\ Stamp => now \in Time /\ now' \in Time
BY BoundAssumption DEF TypeOK, Stamp

LEMMA CallStepTyped ==
  ASSUME CallTypeOK, NEW s \in Session, NEW c \in Call, call' = [call EXCEPT ![s] = c]
  PROVE  call' \in [Session -> Call] /\ call'[s] = c /\ \A o \in Session \ {s} : call'[o] = call[o]
<1> HIDE DEF Call
<1> QED
  BY DEF CallTypeOK

LEMMA InitCallIInv == CallInit => CallIInv
<1> SUFFICES ASSUME CallInit PROVE CallIInv
  OBVIOUS
<1>1. TypeOK
  BY InitIInv DEF CallInit, IInv
<1>2. CallTypeOK
  BY <1>1 DEF CallInit, CallTypeOK, Call
<1>3. reviews = {} /\ approvals = {} /\ \A s \in Session : call[s].step = "idle"
  BY DEF CallInit, Init, Idle
<1> QED
  BY <1>2, <1>3 DEF CallIInv, Checked, TwoPeopleBehindEveryApproval

(* A step that leaves the ledgers alone and checks at most for one call.    *)
LEMMA QuietCall ==
  ASSUME CallIInv, UNCHANGED vars, NEW s \in Session, NEW c \in Call,
         call' = [call EXCEPT ![s] = c], UNCHANGED overlapped,
         c.step \in {"loaded", "checked"} /\ c.op \in Judging => c.by # Drafter,
         c.step = "checked" /\ c.op = "approve" => Seconded(c.by)
  PROVE  CallIInv'
<1>1. call' \in [Session -> Call] /\ call'[s] = c /\ \A o \in Session \ {s} : call'[o] = call[o]
  BY CallStepTyped DEF CallIInv
<1>2. UNCHANGED <<reviews, approvals>> /\ TypeOK'
  BY DEF vars, CallIInv, CallTypeOK, TypeOK
<1>3. CallTypeOK'
  BY <1>1, <1>2 DEF CallIInv, CallTypeOK
<1> HIDE DEF Call
<1>4. Checked'
  BY <1>1, <1>2 DEF CallIInv, Checked, Seconded
<1> QED
  BY <1>2, <1>3, <1>4 DEF CallIInv, TwoPeopleBehindEveryApproval

LEMMA BeginStep ==
  ASSUME CallIInv, NEW s \in Session, NEW p \in Person, NEW op \in Op, Begin(s, p, op)
  PROVE  CallIInv'
<1> DEFINE c == [step |-> "begun", op |-> op, by |-> p, start |-> now]
<1>1. now \in Time /\ now' \in Time
  BY StampTyped DEF Begin, CallIInv, CallTypeOK
<1>2. c \in Call
  BY <1>1 DEF Call
<1>3. UNCHANGED <<active, capable, status, text, author, updatedAt, reviews, approvals, overlapped>>
  BY DEF Begin
<1>4. call' = [call EXCEPT ![s] = c] /\ c.step = "begun"
  BY DEF Begin
<1> HIDE DEF c
<1>5. call' \in [Session -> Call] /\ call'[s] = c /\ \A o \in Session \ {s} : call'[o] = call[o]
  BY <1>2, <1>4, CallStepTyped DEF CallIInv
<1>6. CallTypeOK'
  BY <1>1, <1>3, <1>5 DEF CallIInv, CallTypeOK, TypeOK
<1> HIDE DEF Call
<1>7. Checked'
  BY <1>3, <1>4, <1>5 DEF CallIInv, Checked, Seconded
<1> QED
  BY <1>3, <1>6, <1>7 DEF CallIInv, TwoPeopleBehindEveryApproval

LEMMA LoadStep ==
  ASSUME CallIInv, NEW s \in Session, Load(s)
  PROVE  CallIInv'
<1> DEFINE c == call[s]
<1> DEFINE d == IF c.op = "approve"
                THEN [step |-> "loaded", op |-> c.op, by |-> c.by, start |-> c.start,
                      cycle |-> updatedAt]
                ELSE [c EXCEPT !.step = "checked"]
<1>1. /\ c \in [step : {"begun", "checked"}, op : Op, by : Person, start : Time]
      /\ MayProceed(c.op, c.by) /\ updatedAt \in Time
      /\ call' = [call EXCEPT ![s] = d] /\ UNCHANGED vars /\ UNCHANGED overlapped
  BY DEF Load, CallIInv, CallTypeOK, TypeOK, Call, Idle
<1>2. c.op \in Judging => c.by # Drafter
  BY <1>1 DEF MayProceed, ApprovalGuard, ReviewGuard, Judging
<1>3. d \in Call /\ d.op = c.op /\ d.by = c.by /\ (d.step = "checked" => d.op # "approve")
  BY <1>1 DEF Call
<1> HIDE DEF d
<1> QED
  BY <1>1, <1>2, <1>3, QuietCall

LEMMA QualifyStep ==
  ASSUME CallIInv, NEW s \in Session, Qualify(s)
  PROVE  CallIInv'
<1> DEFINE c == call[s]
<1> DEFINE d == [step |-> "checked", op |-> c.op, by |-> c.by, start |-> c.start]
<1>1. /\ c \in [step : {"loaded"}, op : {"approve"}, by : Person, start : Time, cycle : Time]
      /\ call' = [call EXCEPT ![s] = d] /\ UNCHANGED vars /\ UNCHANGED overlapped
  BY DEF Qualify, CallIInv, CallTypeOK, Call, Idle
<1>2. PICK r \in reviews : Relied(c, r)
  BY DEF Qualify
<1>3. Seconded(c.by)
  BY <1>2 DEF Seconded, Relied, CallIInv
<1>4. c.by # Drafter
  BY <1>1 DEF CallIInv, Checked, Judging
<1>5. d \in Call
  BY <1>1 DEF Call, Op
<1> QED
  BY <1>1, <1>3, <1>4, <1>5, QuietCall

LEMMA RefuseStep ==
  ASSUME CallIInv, NEW s \in Session, Refuse(s)
  PROVE  CallIInv'
<1>1. Idle \in Call /\ Idle.step = "idle"
  BY DEF Call, Idle
<1> QED
  BY <1>1, QuietCall DEF Refuse

LEMMA CommitStep ==
  ASSUME CallIInv, NEW s \in Session, Commit(s)
  PROVE  CallIInv'
<1> DEFINE c == call[s]
<1>1. c \in [step : {"begun", "checked"}, op : Op, by : Person, start : Time]
      /\ c.step = "checked"
  BY DEF Commit, CallIInv, CallTypeOK, Call, Idle
<1>2. /\ c.op \in Judging => c.by # Drafter
      /\ c.op = "approve" => Seconded(c.by)
  BY <1>1 DEF CallIInv, Checked
<1>3. Idle \in Call /\ Idle.step = "idle" /\ call' = [call EXCEPT ![s] = Idle]
  BY DEF Call, Idle, Commit
<1>4. call' \in [Session -> Call] /\ call'[s] = Idle /\ \A o \in Session \ {s} : call'[o] = call[o]
  BY <1>3, CallStepTyped DEF CallIInv
<1>5. /\ reviews' \in {reviews, reviews \cup {ReviewRow(c)}}
      /\ reviews' # reviews => c.op \in {"approve_review", "reject_review"}
      /\ approvals' \in {approvals, approvals \cup {ApprovalRow(c)}}
      /\ approvals' # approvals => c.op \in {"approve", "revoke"}
  BY DEF Commit
<1>6. TypeOK
  BY DEF CallIInv, CallTypeOK
<1>7. reviews' \subseteq Review
  BY <1>1, <1>5, <1>6 DEF TypeOK, ReviewRow, Review
<1>8. approvals' \subseteq Approval
  BY <1>1, <1>5, <1>6 DEF TypeOK, ApprovalRow, Approval
<1>9. status' \in Statuses /\ updatedAt' \in Time
  BY <1>1, <1>6 DEF Commit, NewStatus, TypeOK
<1>10. UNCHANGED <<active, capable, text, author, now>> /\ overlapped' \in BOOLEAN
  <2>1. UNCHANGED <<active, capable, text, author, now>>
    BY DEF Commit
  <2>2. overlapped' \in BOOLEAN
    BY Zenon DEF Commit, CallIInv, CallTypeOK
  <2> QED
    BY <2>1, <2>2
<1>11. CallTypeOK'
  BY <1>4, <1>6, <1>7, <1>8, <1>9, <1>10 DEF CallTypeOK, TypeOK
<1>12. \A r \in reviews' : r.by # Drafter
  BY <1>2, <1>5 DEF CallIInv, ReviewRow, Judging
<1>13. \A p : Seconded(p) => Seconded(p)'
  BY <1>5 DEF Seconded
<1> HIDE DEF Call
<1>14. Checked'
  BY <1>3, <1>4, <1>13 DEF CallIInv, Checked
<1>15. TwoPeopleBehindEveryApproval'
  <2> SUFFICES ASSUME NEW a \in approvals', a.kind = "approved"
               PROVE  a.by # Drafter /\ Seconded(a.by)'
    BY DEF TwoPeopleBehindEveryApproval, Seconded
  <2>1. CASE a \in approvals
    BY <2>1, <1>13 DEF CallIInv, TwoPeopleBehindEveryApproval, Seconded
  <2>2. CASE a \notin approvals
    <3>1. a = ApprovalRow(c) /\ c.op \in {"approve", "revoke"}
      BY <1>5, <2>2
    <3>2. c.op = "approve" /\ a.by = c.by
      BY <3>1 DEF ApprovalRow
    <3> QED
      BY <3>2, <1>2, <1>13 DEF Judging
  <2> QED
    BY <2>1, <2>2
<1> QED
  BY <1>11, <1>12, <1>14, <1>15 DEF CallIInv

(* The edits and removals between the statements of a call.                 *)
LEMMA StatementStep ==
  ASSUME CallIInv, NEW p \in Person, OneStatement(p)
  PROVE  CallIInv'
<1>1. UNCHANGED <<reviews, approvals, call>>
  BY DEF OneStatement, EditText, RevokeMember
<1>2. TypeOK'
  <2>1. Next
    BY DEF OneStatement, Next, Workflow, Membership
  <2> QED
    BY <2>1, StepTypeOK DEF CallIInv, CallTypeOK
<1>3. overlapped' \in BOOLEAN
  BY Zenon DEF OneStatement, CallIInv, CallTypeOK
<1> HIDE DEF Call
<1>4. CallTypeOK'
  BY <1>1, <1>2, <1>3 DEF CallIInv, CallTypeOK
<1>5. Checked' /\ TwoPeopleBehindEveryApproval'
  BY <1>1 DEF CallIInv, Checked, Seconded, TwoPeopleBehindEveryApproval
<1> QED
  BY <1>1, <1>4, <1>5 DEF CallIInv

LEMMA NextCallIInv == CallIInv /\ [CallNext]_allVars => CallIInv'
<1> SUFFICES ASSUME CallIInv, [CallNext]_allVars PROVE CallIInv'
  OBVIOUS
<1>1. CASE UNCHANGED allVars
  BY <1>1 DEF allVars, vars, CallIInv, CallTypeOK, TypeOK, Checked, Seconded,
              TwoPeopleBehindEveryApproval
<1>2. ASSUME NEW s \in Session, NEW p \in Person, NEW op \in OpsOf(p), Begin(s, p, op)
      PROVE  CallIInv'
  BY <1>2, BeginStep DEF OpsOf, Op
<1>3. ASSUME CallNext PROVE CallIInv'
  BY <1>2, <1>3, LoadStep, QualifyStep, RefuseStep, CommitStep, StatementStep DEF CallNext
<1> QED
  BY <1>1, <1>3

(***************************************************************************)
(* Calls that meet no other.  While nothing was written behind the back of *)
(* a call, what it has read is still so when it commits, and its stamp is   *)
(* still newer than every row, though other calls may have begun since.    *)
(***************************************************************************)
StillTrue(c) ==
    /\ Newer(c.start) /\ c.start < now
    /\ c.step # "begun" => MayProceed(c.op, c.by)
    /\ c.step = "loaded" => c.cycle = updatedAt
    /\ c.step = "checked" /\ c.op = "approve" =>
          \E q \in reviews : QualifyingReview(q) /\ q.by # c.by

Current == {c \in Call : StillTrue(c)}

SerialIInv == ~overlapped => IInv /\ \A s \in Session : InFlight(s) => call[s] \in Current

LEMMA StaysTrue ==
  ASSUME TypeOK, TypeOK', now <= now',
         UNCHANGED <<active, capable, status, updatedAt, reviews>>, approvals' = approvals,
         NEW c \in Current, c # Idle
  PROVE  c \in Current'
<1>1. c.start \in Time /\ c \in Call /\ StillTrue(c)
  BY DEF Call, Current
<1>2. c.start < now' /\ Newer(c.start)'
  <2> HIDE DEF Call
  <2> QED
    BY <1>1 DEF StillTrue, Newer, TypeOK
<1>3. MayProceed(c.op, c.by) => MayProceed(c.op, c.by)'
  BY DEF MayProceed, Editable, ApprovalGuard, ReviewGuard, OwnerOrManager, MayReview
<1>4. \A q : QualifyingReview(q) => QualifyingReview(q)'
  BY DEF QualifyingReview, CycleReviews, IsNewest
<1> HIDE DEF Call
<1> QED
  BY <1>1, <1>2, <1>3, <1>4 DEF StillTrue, Current

(* A step of one call that writes no row: it may begin, read or give up.    *)
LEMMA SerialQuiet ==
  ASSUME CallIInv, CallIInv', SerialIInv, now <= now', overlapped' = overlapped,
         UNCHANGED <<active, capable, status, text, updatedAt, reviews, approvals>>,
         NEW s \in Session, NEW c, call' = [call EXCEPT ![s] = c],
         ~overlapped /\ c # Idle => c \in Current'
  PROVE  SerialIInv'
<1>1. ~overlapped => IInv /\ \A o \in Session : InFlight(o) => call[o] \in Current
  BY DEF SerialIInv
<1>2. TypeOK /\ TypeOK' /\ call \in [Session -> Call]
  BY DEF CallIInv, CallTypeOK
<1>3. IInv => IInv'
  BY <1>2, QuietStep
<1> HIDE DEF Call
<1>4. call'[s] = c /\ \A o \in Session \ {s} : call'[o] = call[o]
  BY <1>2
<1>5. ASSUME ~overlapped, NEW o \in Session, call'[o] # Idle PROVE call'[o] \in Current'
  <2>1. CASE o = s
    BY <1>4, <1>5, <2>1
  <2>2. CASE o # s
    <3>1. call'[o] = call[o] /\ call[o] \in Current
      BY <1>1, <1>4, <1>5, <2>2 DEF InFlight
    <3> QED
      BY <1>2, <1>5, <3>1, StaysTrue
  <2> QED
    BY <2>1, <2>2
<1> QED
  BY <1>1, <1>3, <1>5 DEF SerialIInv, InFlight

LEMMA SerialBegin ==
  ASSUME CallIInv, CallIInv', SerialIInv,
         NEW s \in Session, NEW p \in Person, NEW op \in Op, Begin(s, p, op)
  PROVE  SerialIInv'
<1>0. PICK c : c = [step |-> "begun", op |-> op, by |-> p, start |-> now]
  OBVIOUS
<1>1. now \in Time /\ now' \in Time /\ now' = now + 1
  BY StampTyped DEF Begin, Stamp, CallIInv, CallTypeOK
<1>2. /\ UNCHANGED <<active, capable, status, text, updatedAt, reviews, approvals>>
      /\ overlapped' = overlapped /\ call' = [call EXCEPT ![s] = c]
  BY <1>0 DEF Begin
<1>3. c \in Call /\ c.start = now /\ c.step = "begun"
  BY <1>0, <1>1 DEF Call
<1>4. ASSUME ~overlapped PROVE c \in Current'
  <2>1. Newer(now)
    BY <1>4, NewerNow DEF SerialIInv
  <2>2. Newer(c.start)' /\ c.start < now'
    BY <1>1, <1>2, <1>3, <2>1 DEF Newer
  <2> HIDE DEF Call
  <2>3. StillTrue(c)'
    BY <1>3, <2>2 DEF StillTrue
  <2> QED
    BY <1>3, <2>3 DEF Current
<1>5. now <= now'
  BY <1>1
<1> QED
  BY <1>2, <1>4, <1>5, SerialQuiet

(* A read of one call: what it saw is what the rows say.                    *)
LEMMA SerialRead ==
  ASSUME CallIInv, CallIInv', SerialIInv, UNCHANGED vars, overlapped' = overlapped,
         NEW s \in Session, call[s] # Idle, NEW c \in Call, call' = [call EXCEPT ![s] = c],
         c.start = call[s].start,
         ~overlapped => MayProceed(c.op, c.by),
         ~overlapped /\ c.step = "loaded" => c.cycle = updatedAt,
         ~overlapped => (c.step = "checked" /\ c.op = "approve" =>
            \E q \in reviews : QualifyingReview(q) /\ q.by # c.by)
  PROVE  SerialIInv'
<1>1. TypeOK /\ TypeOK' /\ now <= now'
  BY ClockStands DEF CallIInv, CallTypeOK, vars
<1>2. ASSUME ~overlapped PROVE c \in Current
  <2>1. StillTrue(call[s])
    BY <1>2 DEF SerialIInv, InFlight, Current
  <2> HIDE DEF Call
  <2> QED
    BY <1>2, <2>1 DEF StillTrue, Current
<1>3. UNCHANGED <<active, capable, status, text, updatedAt, reviews, approvals>>
  BY DEF vars
<1>4. ~overlapped /\ c # Idle => c \in Current'
  BY <1>1, <1>2, <1>3, StaysTrue
<1> QED
  BY <1>1, <1>3, <1>4, SerialQuiet

LEMMA SerialLoad ==
  ASSUME CallIInv, CallIInv', SerialIInv, NEW s \in Session, Load(s)
  PROVE  SerialIInv'
<1> DEFINE c == call[s]
<1> DEFINE d == IF c.op = "approve"
                THEN [step |-> "loaded", op |-> c.op, by |-> c.by, start |-> c.start,
                      cycle |-> updatedAt]
                ELSE [c EXCEPT !.step = "checked"]
<1>1. /\ c \in [step : {"begun", "checked"}, op : Op, by : Person, start : Time]
      /\ MayProceed(c.op, c.by) /\ updatedAt \in Time /\ c # Idle
      /\ call' = [call EXCEPT ![s] = d] /\ UNCHANGED vars /\ overlapped' = overlapped
  BY DEF Load, CallIInv, CallTypeOK, TypeOK, Call, Idle
<1>2. /\ d \in Call /\ d.op = c.op /\ d.by = c.by /\ d.start = c.start
      /\ d.step = "checked" => d.op # "approve"
      /\ d.step = "loaded" => d.cycle = updatedAt
  BY <1>1 DEF Call
<1>3. MayProceed(d.op, d.by)
  BY <1>1, <1>2
<1> HIDE DEF d, Call
<1> QED
  BY <1>1, <1>2, <1>3, SerialRead

LEMMA SerialQualify ==
  ASSUME CallIInv, CallIInv', SerialIInv, NEW s \in Session, Qualify(s)
  PROVE  SerialIInv'
<1> DEFINE c == call[s]
<1> DEFINE d == [step |-> "checked", op |-> c.op, by |-> c.by, start |-> c.start]
<1>1. /\ c \in [step : {"loaded"}, op : {"approve"}, by : Person, start : Time, cycle : Time]
      /\ call' = [call EXCEPT ![s] = d] /\ UNCHANGED vars /\ overlapped' = overlapped
      /\ c # Idle
  BY DEF Qualify, CallIInv, CallTypeOK, Call, Idle
<1>2. PICK r \in reviews : Relied(c, r)
  BY DEF Qualify
<1>3. ~overlapped => StillTrue(c)
  BY <1>1 DEF SerialIInv, InFlight, Current
<1>4. ~overlapped => MayProceed(c.op, c.by) /\ c.cycle = updatedAt
  BY <1>1, <1>3 DEF StillTrue
<1>5. ~overlapped => QualifyingReview(r) /\ r.by # c.by
  BY <1>2, <1>4 DEF Relied, QualifyingReview, CycleReviews
<1>6. d \in Call /\ d.step = "checked" /\ d.start = c.start /\ d.op = c.op /\ d.by = c.by
  BY <1>1 DEF Call, Op
<1>7. ~overlapped => MayProceed(d.op, d.by)
  BY <1>4, <1>6
<1> HIDE DEF d, Call
<1> QED
  BY <1>1, <1>5, <1>6, <1>7, SerialRead

LEMMA SerialRefuse ==
  ASSUME CallIInv, CallIInv', SerialIInv, NEW s \in Session, Refuse(s)
  PROVE  SerialIInv'
<1>1. /\ UNCHANGED <<active, capable, status, text, updatedAt, reviews, approvals, now>>
      /\ overlapped' = overlapped /\ call' = [call EXCEPT ![s] = Idle]
  BY DEF Refuse, vars
<1>2. now <= now'
  BY <1>1, ClockStands DEF CallIInv, CallTypeOK
<1> QED
  BY <1>1, <1>2, SerialQuiet

(* A call that commits alone writes what the atomic call would have written *)
(* at the moment it began.                                                 *)
LEMMA SerialCommit ==
  ASSUME CallIInv, CallIInv', SerialIInv, NEW s \in Session, Commit(s)
  PROVE  SerialIInv'
<1> SUFFICES ASSUME ~overlapped' PROVE SerialIInv'
  BY Zenon DEF SerialIInv
<1> DEFINE c == call[s]
<1>1. c \in [step : {"begun", "checked"}, op : Op, by : Person, start : Time]
      /\ c.step = "checked" /\ c # Idle
  BY DEF Commit, CallIInv, CallTypeOK, Call, Idle
<1>2. ~overlapped /\ \A o \in Session \ {s} : ~InFlight(o)
  BY DEF Commit
<1>3. call' = [call EXCEPT ![s] = Idle] /\ call \in [Session -> Call]
  BY DEF Commit, CallIInv, CallTypeOK
<1>4. \A o \in Session : call'[o] = Idle
  <2> HIDE DEF Call
  <2> QED
    BY <1>2, <1>3 DEF InFlight
<1>5. IInv /\ StillTrue(c)
  BY <1>1, <1>2 DEF SerialIInv, InFlight, Current
<1>6. TypeOK' /\ text' = text /\ now' = now
  BY DEF CallIInv, CallTypeOK, Commit
<1>7. Stamped(c.start)
  BY <1>1, <1>5, <1>6, ClockStands DEF StillTrue, Stamped, IInv
<1>8. MayProceed(c.op, c.by)
  BY <1>1, <1>5 DEF StillTrue
<1>9. IInv'
  <2> HIDE DEF Call, c
  <2>1. CASE c.op = "submit"
    <3>1. UNCHANGED <<reviews, approvals>> /\ status' = "in_review" /\ updatedAt' = c.start
      BY <2>1 DEF Commit, NewStatus, c
    <3> QED
      BY <1>7, <1>8, <2>1, <3>1, OpensCycle DEF MayProceed
  <2>2. CASE c.op \in {"approve_review", "reject_review"}
    <3> DEFINE v == IF c.op = "approve_review" THEN "approved" ELSE "rejected"
    <3>1. /\ reviews' = reviews \cup {[by |-> c.by, verdict |-> v, at |-> c.start, text |-> text]}
          /\ approvals' = approvals
          /\ \/ v = "rejected" /\ status' = "changes_requested"
             \/ v = "approved" /\ UNCHANGED <<status, updatedAt>>
          /\ v \in {"approved", "rejected"}
      BY <2>2 DEF Commit, NewStatus, ReviewRow, c
    <3>2. c.by \in Person /\ c.by # Drafter /\ status = "in_review"
      BY <1>1, <1>8, <2>2 DEF MayProceed, ReviewGuard
    <3> HIDE DEF v
    <3> QED
      BY <1>1, <1>7, <3>1, <3>2, AddsReview
  <2>3. CASE c.op = "approve"
    <3>1. PICK q \in reviews : QualifyingReview(q) /\ q.by # c.by
      BY <1>1, <1>5, <2>3 DEF StillTrue
    <3>2. c.by \in Person /\ c.by # Drafter /\ status = "in_review"
      BY <1>1, <1>8, <2>3 DEF MayProceed, ApprovalGuard
    <3>3. /\ approvals' = approvals \cup
               {[by |-> c.by, kind |-> "approved", at |-> c.start, text |-> text]}
          /\ reviews' = reviews /\ status' = "approved"
      BY <2>3 DEF Commit, NewStatus, ApprovalRow, c
    <3> QED
      BY <1>7, <3>1, <3>2, <3>3, AddsApproval
  <2>4. CASE c.op = "revoke"
    <3>1. /\ approvals' = approvals \cup
               {[by |-> c.by, kind |-> "revoked", at |-> c.start, text |-> text]}
          /\ reviews' = reviews /\ status' = "changes_requested" /\ c.by \in Person
      BY <1>1, <2>4 DEF Commit, NewStatus, ApprovalRow, c
    <3> QED
      BY <1>7, <3>1, AddsRevocation
  <2> QED
    BY <1>1, <2>1, <2>2, <2>3, <2>4 DEF Op
<1> QED
  BY <1>4, <1>9 DEF SerialIInv, InFlight

(* An edit or a removal with no call in flight is a step of the workflow.    *)
LEMMA SerialStatement ==
  ASSUME CallIInv, SerialIInv, NEW p \in Person, OneStatement(p)
  PROVE  SerialIInv'
<1> SUFFICES ASSUME ~overlapped' PROVE SerialIInv'
  BY Zenon DEF SerialIInv
<1>1. ~overlapped /\ \A o \in Session : ~InFlight(o)
  BY DEF OneStatement
<1>2. Next /\ call' = call
  BY DEF OneStatement, Next, Workflow, Membership
<1>3. IInv'
  BY <1>1, <1>2, NextIInv DEF SerialIInv
<1> QED
  BY <1>1, <1>2, <1>3 DEF SerialIInv, InFlight

LEMMA NextSerialIInv == CallIInv /\ SerialIInv /\ [CallNext]_allVars => SerialIInv'
<1> SUFFICES ASSUME CallIInv, SerialIInv, [CallNext]_allVars PROVE SerialIInv'
  OBVIOUS
<1>1. CallIInv'
  BY NextCallIInv
<1>2. CASE UNCHANGED allVars
  <2>1. UNCHANGED <<vars, call, overlapped>> /\ UNCHANGED <<now, active, capable, status, text, updatedAt, reviews, approvals>>
    BY <1>2 DEF allVars, vars
  <2>2. TypeOK /\ TypeOK' /\ now <= now'
    BY <1>1, <2>1, ClockStands DEF CallIInv, CallTypeOK
  <2>3. \A c : c \in Current /\ c # Idle => c \in Current'
    BY <2>1, <2>2, StaysTrue DEF Current
  <2>4. IInv => IInv'
    BY <2>1, <2>2, QuietStep
  <2> QED
    BY <2>1, <2>3, <2>4 DEF SerialIInv, InFlight
<1>3. ASSUME NEW s \in Session, NEW p \in Person, NEW op \in OpsOf(p), Begin(s, p, op)
      PROVE  SerialIInv'
  BY <1>1, <1>3, SerialBegin DEF OpsOf, Op
<1>4. ASSUME CallNext PROVE SerialIInv'
  BY <1>1, <1>3, <1>4, SerialLoad, SerialQualify, SerialRefuse, SerialCommit, SerialStatement
     DEF CallNext
<1> QED
  BY <1>2, <1>4

LEMMA InitSerialIInv == CallInit => SerialIInv
  BY InitIInv DEF CallInit, SerialIInv, InFlight

(* The types of a call in flight and of the rows it writes.                 *)
THEOREM CallsTyped == CallSpec => []CallTypeOK
<1>1. CallIInv => CallTypeOK
  BY DEF CallIInv
<1> QED
  BY <1>1, InitCallIInv, NextCallIInv, PTL DEF CallSpec

(* record_approval and record_review: however their statements and those of *)
(* any number of other calls interleave, an approval has two people behind  *)
(* it and the drafter is neither.                                          *)
THEOREM TwoPeople == CallSpec => []TwoPeopleBehindEveryApproval
<1>1. CallIInv => TwoPeopleBehindEveryApproval
  BY DEF CallIInv
<1> QED
  BY <1>1, InitCallIInv, NextCallIInv, PTL DEF CallSpec

(* submit, record_review, record_approval and revoke_approval: as long as    *)
(* nothing is written between the statements of any call, their two-person *)
(* promise and the status as a projection of the ledger hold as they do of *)
(* atomic calls, though calls may wait for each other half way.            *)
THEOREM SerialCalls == CallSpec => []SerialCallsKeepThePromise
<1>1. SerialIInv => SerialCallsKeepThePromise
  BY LedgerLemma DEF SerialIInv, SerialCallsKeepThePromise, IInv
<1> QED
  BY <1>1, InitCallIInv, NextCallIInv, InitSerialIInv, NextSerialIInv, PTL DEF CallSpec

-----------------------------------------------------------------------------
(***************************************************************************)
(* What the members' screens do: every click is a step of the workflow or   *)
(* leaves its rows alone.                                                  *)
(***************************************************************************)
ApprovedOnce(t) == \E a \in approvals : a.kind = "approved" /\ a.text = t

(* An export under way holds a row that, if it says approved, was.          *)
ExportsInHand ==
    \A p \in Person : \A t :
        exporting[p] # Blank /\ exporting[p].status = "approved" /\ t = exporting[p].text
            => ApprovedOnce(t)

ClientIInv ==
    /\ IInv
    /\ ClientTypeOK
    /\ ExportsInHand
    /\ ExportedTextWasApproved

(* The newest review exists: the latest of finitely many timestamps.        *)
LEMMA NewestExists ==
  ASSUME TypeOK, reviews # {}
  PROVE  Newest(reviews) \in reviews
<1> DEFINE Ages == {MaxTime - r.at : r \in reviews}
<1>1. Ages \subseteq Nat /\ Ages # {}
  BY BoundAssumption DEF TypeOK, Review
<1>2. PICK m \in Ages : \A k \in Ages : ~(<<k, m>> \in OpToRel(<, Nat))
  <2> HIDE DEF Ages
  <2> QED
    BY <1>1, NatLessThanWellFounded, WFMin
<1>3. \A k \in Ages : ~(k < m)
  BY <1>1, <1>2 DEF OpToRel
<1>4. PICK e \in reviews : m = MaxTime - e.at
  OBVIOUS
<1>5. \A f \in reviews : f.at <= e.at
  <2> SUFFICES ASSUME NEW f \in reviews PROVE f.at <= e.at
    OBVIOUS
  <2>1. f.at \in Nat /\ e.at \in Nat /\ MaxTime \in Nat
    BY BoundAssumption DEF TypeOK, Review
  <2>2. ~(MaxTime - f.at < MaxTime - e.at)
    BY <1>3, <1>4
  <2> QED
    BY <2>1, <2>2
<1> QED
  BY <1>5 DEF Newest, IsNewest

LEMMA CurrentRowTyped == TypeOK => CurrentRow \in Row
<1> SUFFICES ASSUME TypeOK PROVE CurrentRow \in Row
  OBVIOUS
<1>1. CASE reviews = {}
  BY <1>1 DEF CurrentRow, Row, TypeOK
<1>2. CASE reviews # {}
  <2>1. Newest(reviews) \in Review
    BY <1>2, NewestExists DEF TypeOK
  <2> QED
    BY <1>2, <2>1 DEF CurrentRow, Row, TypeOK, Review
<1> QED
  BY <1>1, <1>2

LEMMA NextRowTyped == TypeOK' => (CurrentRow \in Row)'
  BY CurrentRowTyped, PTL

LEMMA InitClientIInv == ClientInit => ClientIInv
<1> SUFFICES ASSUME ClientInit PROVE ClientIInv
  OBVIOUS
<1>1. IInv
  BY InitIInv DEF ClientInit
<1> QED
  BY <1>1 DEF ClientInit, ClientIInv, ClientTypeOK, IInv, ExportedTextWasApproved, ExportsInHand

(* Approvals are never taken back from the ledger.                          *)
LEMMA ApprovalsGrow == [Next]_vars => approvals \subseteq approvals'
  BY DEF Next, Workflow, Membership, EditText, Submit, RecordReview, RecordApproval,
         RevokeApproval, RevokeMember, GrantLanguage, WithdrawLanguage, vars

(* The variant that stands approved has an approval row for its text.       *)
LEMMA ApprovedHasRow == IInv /\ status = "approved" => ApprovedOnce(text)
  BY DEF IInv, ApprovedTextWasReviewed, Endorses, ApprovedOnce

(* Every click but those of an export.                                      *)
LEMMA ScreenStep ==
  ASSUME ClientIInv, [Next]_vars, UNCHANGED <<exporting, exported>>,
         NEW p \in Person, Reload(p)
  PROVE  ClientIInv'
<1>1. IInv' /\ TypeOK'
  BY NextIInv DEF ClientIInv, IInv
<1>2. approvals \subseteq approvals'
  BY ApprovalsGrow
<1>3. CurrentRow' \in Row
  BY <1>1, NextRowTyped
<1> HIDE DEF Row
<1>4. ClientTypeOK'
  BY <1>1, <1>3 DEF ClientIInv, ClientTypeOK, Reload
<1>5. \A t : ApprovedOnce(t) => ApprovedOnce(t)'
  BY <1>2 DEF ApprovedOnce
<1>6. ExportedTextWasApproved'
  BY <1>2 DEF ClientIInv, ExportedTextWasApproved
<1>7. ExportsInHand'
  BY <1>5 DEF ClientIInv, ExportsInHand
<1> QED
  BY <1>1, <1>4, <1>6, <1>7 DEF ClientIInv

LEMMA ClickExportStep ==
  ASSUME ClientIInv, NEW p \in Person, ClickExport(p)
  PROVE  ClientIInv'
<1>1. /\ UNCHANGED <<screen, exported, approvals, status, text, reviews>>
      /\ exporting' = [exporting EXCEPT ![p] = CurrentRow]
      /\ UNCHANGED vars
  BY DEF ClickExport, vars
<1>2. IInv' /\ TypeOK'
  BY <1>1, NextIInv DEF ClientIInv, IInv
<1>3. CurrentRow \in Row /\ CurrentRow.status = status /\ CurrentRow.text = text
  BY CurrentRowTyped DEF ClientIInv, IInv, CurrentRow
<1> HIDE DEF Row
<1>4. ClientTypeOK'
  BY <1>1, <1>2, <1>3 DEF ClientIInv, ClientTypeOK
<1>5. \A t : ApprovedOnce(t) => ApprovedOnce(t)'
  BY <1>1 DEF ApprovedOnce
<1>6. \A q \in Person : exporting'[q] = IF q = p THEN CurrentRow ELSE exporting[q]
  BY <1>1 DEF ClientIInv, ClientTypeOK
<1>7. CurrentRow.status = "approved" => ApprovedOnce(CurrentRow.text)
  BY <1>3, ApprovedHasRow DEF ClientIInv
<1>8. ExportsInHand'
  <2> SUFFICES ASSUME NEW q \in Person, NEW t, exporting'[q] # Blank,
                      exporting'[q].status = "approved", t = exporting'[q].text
               PROVE  ApprovedOnce(t)'
    BY DEF ExportsInHand
  <2>1. ApprovedOnce(t)
    BY <1>6, <1>7 DEF ClientIInv, ExportsInHand
  <2> QED
    BY <1>5, <2>1
<1>9. ExportedTextWasApproved'
  BY <1>1 DEF ClientIInv, ExportedTextWasApproved
<1> QED
  BY <1>2, <1>4, <1>8, <1>9 DEF ClientIInv

LEMMA FinishExportStep ==
  ASSUME ClientIInv, NEW p \in Person, FinishExport(p)
  PROVE  ClientIInv'
<1>1. /\ UNCHANGED vars /\ UNCHANGED approvals
      /\ exporting' = [exporting EXCEPT ![p] = Blank]
  BY DEF FinishExport, vars
<1>2. IInv' /\ TypeOK'
  BY <1>1, NextIInv DEF ClientIInv, IInv
<1> HIDE DEF Row
<1>3. exporting[p] \in Row
  BY DEF FinishExport, ClientIInv, ClientTypeOK
<1>4. exporting[p].text \in Text
  BY <1>3 DEF Row
<1>5. ClientTypeOK'
  BY <1>1, <1>2, <1>3, <1>4 DEF FinishExport, ClientIInv, ClientTypeOK
<1>6. \A t : ApprovedOnce(t) => ApprovedOnce(t)'
  BY <1>1 DEF ApprovedOnce
<1>7. ExportsInHand'
  <2> SUFFICES ASSUME NEW q \in Person, NEW t, exporting'[q] # Blank,
                      exporting'[q].status = "approved", t = exporting'[q].text
               PROVE  ApprovedOnce(t)'
    BY DEF ExportsInHand
  <2>1. q # p /\ exporting'[q] = exporting[q]
    BY <1>1 DEF ClientIInv, ClientTypeOK
  <2>2. ApprovedOnce(t)
    BY <2>1 DEF ClientIInv, ExportsInHand
  <2> QED
    BY <1>6, <2>2
<1>8. ExportedTextWasApproved'
  <2>1. \A t \in exported' : t \in exported \/
            (t = exporting[p].text /\ exporting[p].status = "approved" /\ exporting[p] # Blank)
    BY DEF FinishExport
  <2>2. \A t \in exported' : ApprovedOnce(t)
    BY <2>1 DEF ClientIInv, ExportedTextWasApproved, ExportsInHand, ApprovedOnce
  <2> QED
    BY <2>2, <1>1 DEF ExportedTextWasApproved, ApprovedOnce
<1> QED
  BY <1>2, <1>5, <1>7, <1>8 DEF ClientIInv

LEMMA NextClientIInv == ClientIInv /\ [ClientNext]_clientVars => ClientIInv'
<1> SUFFICES ASSUME ClientIInv, [ClientNext]_clientVars PROVE ClientIInv'
  OBVIOUS
<1>1. CASE UNCHANGED clientVars
  <2>1. IInv' /\ TypeOK'
    BY <1>1, NextIInv DEF clientVars, ClientIInv, IInv
  <2>2. UNCHANGED <<approvals, screen, exporting, exported>>
    BY <1>1 DEF clientVars, vars
  <2> QED
    BY <2>1, <2>2 DEF ClientIInv, ClientTypeOK, ApprovedOnce, ExportedTextWasApproved, ExportsInHand
<1>2. ASSUME NEW p \in Person, LoadScreen(p) PROVE ClientIInv'
  BY <1>2, ScreenStep DEF LoadScreen
<1>3. ASSUME NEW p \in Person, ClickEdit(p) PROVE ClientIInv'
  BY <1>3, ScreenStep DEF ClickEdit, Next, Workflow
<1>4. ASSUME NEW p \in Person, ClickSubmit(p) PROVE ClientIInv'
  BY <1>4, ScreenStep DEF ClickSubmit, Next, Workflow
<1>5. ASSUME NEW p \in Person, NEW v \in {"approved", "rejected"}, ClickReview(p, v)
      PROVE  ClientIInv'
  BY <1>5, ScreenStep DEF ClickReview, Next, Workflow
<1>6. ASSUME NEW p \in Person, ClickApprove(p) PROVE ClientIInv'
  BY <1>6, ScreenStep DEF ClickApprove, Next, Workflow
<1>7. ASSUME NEW p \in Person, ClickRevoke(p) PROVE ClientIInv'
  BY <1>7, ScreenStep DEF ClickRevoke, Next, Workflow
<1>8. ASSUME ClientNext PROVE ClientIInv'
  BY <1>2, <1>3, <1>4, <1>5, <1>6, <1>7, <1>8, ClickExportStep, FinishExportStep DEF ClientNext
<1> QED
  BY <1>1, <1>8

(* The rows the screens and the exports hold are rows of the workflow.      *)
THEOREM ScreensTyped == ClientSpec => []ClientTypeOK
<1>1. ClientIInv => ClientTypeOK
  BY DEF ClientIInv
<1> QED
  BY <1>1, InitClientIInv, NextClientIInv, PTL DEF ClientSpec

(* onExportVariant and exportApprovedVariant: nothing leaves as a PNG that  *)
(* was not approved word for word, however stale the screen it was asked   *)
(* from and whatever happened while it was rendered.                       *)
THEOREM ExportsWereApproved == ClientSpec => []ExportedTextWasApproved
<1>1. ClientIInv => ExportedTextWasApproved
  BY DEF ClientIInv
<1> QED
  BY <1>1, InitClientIInv, NextClientIInv, PTL DEF ClientSpec
=============================================================================
