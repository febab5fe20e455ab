------------------------- MODULE ReviewInterleaved -------------------------
(***************************************************************************)
(* The review functions as PostgreSQL runs them under READ COMMITTED: a    *)
(* call takes its now() when its transaction begins, checks what it reads  *)
(* with plain selects (no row lock), and inserts and updates by primary    *)
(* key afterwards; both writes appear together when it commits.  Between   *)
(* the reads and the commit other calls may commit.  A client's edit is a  *)
(* single UPDATE whose policy is re-checked against the newest row version,*)
(* so EditText stays one step.                                             *)
(***************************************************************************)
EXTENDS ReviewWorkflow

CONSTANT Session    \* calls that may be in flight at the same time

VARIABLES
    call,       \* what each session is doing
    overlapped  \* history: some call was in flight while another committed

allVars == <<vars, call, overlapped>>

Op == {"submit", "approve_review", "reject_review", "approve", "revoke"}

Idle == [step |-> "idle"]

Call ==
    {Idle}
    \cup [step : {"begun", "checked"}, op : Op, by : Person, start : Time]
    \cup [step : {"loaded"}, op : {"approve"}, by : Person, start : Time, cycle : Time]

InFlight(s) == call[s] # Idle

CallTypeOK ==
    /\ TypeOK
    /\ call \in [Session -> Call]
    /\ overlapped \in BOOLEAN

-----------------------------------------------------------------------------
CallInit == Init /\ call = [s \in Session |-> Idle] /\ overlapped = FALSE

(* The drafter submits and the others review and approve; anybody else who  *)
(* tries is refused whatever the variant's state. Any of them may revoke.   *)
OpsOf(p) == {"revoke"} \cup IF p = Drafter THEN {"submit"} ELSE Op \ {"submit"}

(* The request arrives: begin, which fixes now().                           *)
Begin(s, p, op) ==
    /\ call[s] = Idle
    /\ p \in active
    /\ Stamp
    /\ call' = [call EXCEPT ![s] = [step |-> "begun", op |-> op, by |-> p, start |-> now]]
    /\ UNCHANGED <<active, capable, status, text, author, updatedAt, reviews, approvals,
                   overlapped>>

\* The checks of each function against the rows it selects.
MayProceed(op, p) ==
    CASE op = "submit"  -> p \in active /\ p = Drafter /\ Editable
      [] op = "approve" -> ApprovalGuard(p)
      [] op = "revoke"  -> OwnerOrManager(p) /\ status = "approved"
      [] OTHER          -> ReviewGuard(p)

(* select * into v_variant, and the checks on it.  record_approval still    *)
(* has its reviews to read, from the updated_at it has seen.               *)
Load(s) ==
    LET c == call[s] IN
    /\ c.step = "begun"
    /\ MayProceed(c.op, c.by)
    /\ call' = [call EXCEPT ![s] =
         IF c.op = "approve"
         THEN [step |-> "loaded", op |-> c.op, by |-> c.by, start |-> c.start, cycle |-> updatedAt]
         ELSE [c EXCEPT !.step = "checked"]]
    /\ UNCHANGED <<vars, overlapped>>

\* A variation: the approver may rely on a review of their own.
ReliedOnAny(c, r) ==
    /\ IsNewest(r, {q \in reviews : q.at >= c.cycle})
    /\ r.verdict = "approved"

\* select * into v_latest_review: the newest review since the cycle it saw.
Relied(c, r) ==
    /\ IsNewest(r, {q \in reviews : q.at >= c.cycle})
    /\ r.verdict = "approved"
    /\ r.by # c.by

Qualify(s) ==
    LET c == call[s] IN
    /\ c.step = "loaded"
    /\ \E r \in reviews : Relied(c, r)
    /\ call' = [call EXCEPT ![s] =
         [step |-> "checked", op |-> c.op, by |-> c.by, start |-> c.start]]
    /\ UNCHANGED <<vars, overlapped>>

(* A check fails: the exception (or the idempotent return of a repeated     *)
(* submission) ends the call with nothing written.                         *)
Refuse(s) ==
    /\ \/ call[s].step = "begun" /\ ~MayProceed(call[s].op, call[s].by)
       \/ call[s].step = "loaded" /\ ~ \E r \in reviews : Relied(call[s], r)
    /\ call' = [call EXCEPT ![s] = Idle]
    /\ UNCHANGED <<vars, overlapped>>

\* The rows a call inserts, with now() as its timestamp.
ReviewRow(c) ==
    [by |-> c.by, verdict |-> IF c.op = "approve_review" THEN "approved" ELSE "rejected",
     at |-> c.start, text |-> text]

\* A variation: every row of the ledger is an approval.
ApprovalRowUnkinded(c) ==
    [by |-> c.by, kind |-> "approved", at |-> c.start, text |-> text]

ApprovalRow(c) ==
    [by |-> c.by, kind |-> IF c.op = "approve" THEN "approved" ELSE "revoked",
     at |-> c.start, text |-> text]

\* The status an update sets; approving a review updates nothing.
NewStatus(op) ==
    CASE op = "submit" -> "in_review"
      [] op = "approve" -> "approved"
      [] OTHER -> "changes_requested"

(* insert ... ; update language_variants ... where id = p_variant_id; commit *)
Commit(s) ==
    LET c == call[s] IN
    /\ c.step = "checked"
    /\ reviews' = IF c.op \in {"approve_review", "reject_review"}
                  THEN reviews \cup {ReviewRow(c)} ELSE reviews
    /\ approvals' = IF c.op \in {"approve", "revoke"}
                    THEN approvals \cup {ApprovalRow(c)} ELSE approvals
    /\ IF c.op = "approve_review"
       THEN UNCHANGED <<status, updatedAt>>
       ELSE status' = NewStatus(c.op) /\ updatedAt' = c.start
    /\ call' = [call EXCEPT ![s] = Idle]
    /\ overlapped' = (overlapped \/ \E o \in Session \ {s} : InFlight(o))
    /\ UNCHANGED <<active, capable, text, author, now>>

(* Steps that are one statement each, or lock the row they check: they may  *)
(* fall between a call's reads and its commit. Language grants are left to *)
(* ReviewWorkflow; they only decide whether Load proceeds.                 *)
OneStatement(p) ==
    /\ \/ \E t \in ClientClock : EditText(p, t)
       \/ \E q \in Person : RevokeMember(p, q)
    /\ overlapped' = (overlapped \/ \E o \in Session : InFlight(o))
    /\ UNCHANGED call

CallNext ==
    \/ \E s \in Session :
         \/ \E p \in Person : \E op \in OpsOf(p) : Begin(s, p, op)
         \/ Load(s) \/ Qualify(s) \/ Refuse(s) \/ Commit(s)
    \/ \E p \in Person : OneStatement(p)

CallSpec == CallInit /\ [][CallNext]_allVars

-----------------------------------------------------------------------------
(* Whatever overlaps, every approval row rests on an approving review by    *)
(* somebody else, and neither of the two is the drafter.                   *)
TwoPeopleBehindEveryApproval ==
    \A a \in approvals : a.kind = "approved" =>
        /\ a.by # Drafter
        /\ \E r \in reviews : r.verdict = "approved" /\ r.by \notin {a.by, Drafter}

(* As long as no call was in flight while something else was written, the   *)
(* guarantees of the atomic workflow hold of the statements too.           *)
SerialCallsKeepThePromise ==
    ~overlapped =>
        ApprovedTextWasReviewed /\ StatusFollowsLedger

(* Claimed by record_approval's own comment, and does not hold when calls   *)
(* overlap: content that nobody reviewed never becomes approved.           *)
ApprovedTextHasAReview ==
    status = "approved" =>
        \E r \in reviews : r.verdict = "approved" /\ r.text = text
=============================================================================
