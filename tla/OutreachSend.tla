---------------------------- MODULE OutreachSend ----------------------------
(***************************************************************************)
(* send_message and reconcile_send_claim of the outreach-gmail function.   *)
(* Every request is one run of the handler, as the reads and writes it     *)
(* awaits; requests for one idempotency key overlap, any write may fail or *)
(* take effect with its reply lost, and a run may be killed anywhere.      *)
(*                                                                         *)
(* A provider message id is modelled by the request whose call made Gmail  *)
(* take the message: a run calls Gmail at most once.                       *)
(***************************************************************************)
CONSTANTS Key,     \* send:<contact>:<confirmationId>
          Request, \* runs of the handler
          NoId

ASSUME NoIdAssumption == NoId \notin Request

VARIABLES claim,    \* rows of outreach_message_send_claims, by key
          aged,     \* keys whose claim is older than the lease
          evidence, \* provider_message_id of the evidence row, by key
          gmail,    \* what became of a request's call of Gmail
          call      \* the runs

vars == <<claim, aged, evidence, gmail, call>>

Id == Request \cup {NoId}
Status == {"CLAIMED", "SENT", "FAILED", "UNKNOWN"}
Claim == [status : Status \cup {"none"}, id : Id]
NoClaim == [status |-> "none", id |-> NoId]

\* send_message, or a reconciliation by what the operator asserts
Op == {"send", "sent", "not_sent"}

SendSteps == {"claim", "lost", "classify", "expire", "holding", "gmail",
              "failing", "unresolved", "unsaved", "resolve"}
ReconcileSteps == {"look", "decide", "settle", "reread"}
Answers == {"none", "claim_outcome_unknown", "needs_reconciliation",
            "already_sent", "previously_failed", "in_progress", "refused",
            "outcome_unknown", "evidence_failed", "sent", "not_sent",
            "not_found", "conflict", "already_resolved", "overtaken",
            "reconcile_unknown"}

Call == [op : Op, key : Key, id : Id, seen : Claim, answer : Answers,
         at : SendSteps \cup ReconcileSteps \cup {"new", "evidence", "done", "dead"}]

TypeOK == /\ claim \in [Key -> Claim]
          /\ aged \subseteq Key
          /\ evidence \in [Key -> Id]
          /\ gmail \in [Request -> {"none", "pending", "accepted", "refused"}]
          /\ call \in [Request -> Call]

Init == /\ claim = [k \in Key |-> NoClaim]
        /\ aged = {}
        /\ evidence = [k \in Key |-> NoId]
        /\ gmail = [r \in Request |-> "none"]
        /\ call \in [Request -> [op : {"send"}, key : Key, id : {NoId}, seen : {NoClaim},
                                 answer : {"none"}, at : {"new"}]]
-----------------------------------------------------------------------------
At(r, step) == call[r].at = step
KeyOf(r) == call[r].key

Go(r, step) == call' = [call EXCEPT ![r].at = step]
Answer(r, a) == call' = [call EXCEPT ![r].at = "done", ![r].answer = a]

\* A select whose error is ignored: the row, or nothing.
Reading(row, nothing) == {row, nothing}

\* A variation: the update by id alone.
UpdateAnyway(k, from, row) == claim' = [claim EXCEPT ![k] = row]

\* updateClaimConditional: the row moves if its status is one of from.
Update(k, from, row) ==
    claim' = IF claim[k].status \in from THEN [claim EXCEPT ![k] = row] ELSE claim

\* The same where the handler ignores the result: it may also have failed.
TryUpdate(k, from, row) == Update(k, from, row) \/ UNCHANGED claim

Marked(k, status) == [claim[k] EXCEPT !.status = status]
MarkedWith(k, status, m) == [status |-> status, id |-> m]

\* The messages Gmail took for a key.
Mail(k) == {r \in Request : gmail[r] = "accepted" /\ KeyOf(r) = k}
-----------------------------------------------------------------------------
(* send_message *)

Send(r) ==
    /\ At(r, "new")
    /\ Go(r, "claim")
    /\ UNCHANGED <<claim, aged, evidence, gmail>>

\* A variation: an upsert, which no second run loses.
UpsertClaim(r) ==
    /\ At(r, "claim")
    /\ claim' = [claim EXCEPT ![KeyOf(r)] = [status |-> "CLAIMED", id |-> NoId]]
    /\ Go(r, "holding")
    /\ UNCHANGED <<aged, evidence, gmail>>

\* One insert under the unique index. A thrown request ends the run whether
\* the row landed or not; any structured error leads to the existing row.
InsertClaim(r) ==
    /\ At(r, "claim")
    /\ \/ /\ claim[KeyOf(r)] = NoClaim
          /\ claim' = [claim EXCEPT ![KeyOf(r)] = [status |-> "CLAIMED", id |-> NoId]]
          /\ Go(r, "holding") \/ Answer(r, "claim_outcome_unknown")
       \/ /\ Go(r, "lost") \/ Answer(r, "claim_outcome_unknown")
          /\ UNCHANGED claim
    /\ UNCHANGED <<aged, evidence, gmail>>

ReadClaim(r) ==
    /\ At(r, "lost")
    /\ \E row \in Reading(claim[KeyOf(r)], NoClaim) :
          call' = [call EXCEPT ![r].seen = row, ![r].at = "classify"]
    /\ UNCHANGED <<claim, aged, evidence, gmail>>

\* classifyExistingClaim: evidence before the claim's own status.
Classify(r) ==
    /\ At(r, "classify")
    /\ \E row \in Reading(evidence[KeyOf(r)], NoId) :
          LET seen == call[r].seen.status IN
          \/ /\ seen = "none" \/ (row = NoId /\ seen = "UNKNOWN")
             /\ Answer(r, "needs_reconciliation")
          \/ /\ seen # "none" /\ (row # NoId \/ seen = "SENT")
             /\ Answer(r, "already_sent")
          \/ /\ row = NoId /\ seen = "FAILED"
             /\ Answer(r, "previously_failed")
          \/ /\ row = NoId /\ seen = "CLAIMED" /\ KeyOf(r) \notin aged
             /\ Answer(r, "in_progress")
          \/ /\ row = NoId /\ seen = "CLAIMED" /\ KeyOf(r) \in aged
             /\ Go(r, "expire")
    /\ UNCHANGED <<claim, aged, evidence, gmail>>

Expire(r) ==
    /\ At(r, "expire")
    /\ TryUpdate(KeyOf(r), {"CLAIMED"}, Marked(KeyOf(r), "UNKNOWN"))
    /\ Answer(r, "needs_reconciliation")
    /\ UNCHANGED <<aged, evidence, gmail>>

\* No access token, or the sender is not a verified alias.
Preflight(r) ==
    /\ At(r, "holding")
    /\ Go(r, "failing")
    /\ UNCHANGED <<claim, aged, evidence, gmail>>

CallGmail(r) ==
    /\ At(r, "holding")
    /\ gmail' = [gmail EXCEPT ![r] = "pending"]
    /\ Go(r, "gmail")
    /\ UNCHANGED <<claim, aged, evidence>>

ReplyAccepted(r) ==
    /\ At(r, "gmail") /\ gmail[r] = "accepted"
    /\ call' = [call EXCEPT ![r].id = r, ![r].at = "evidence"]
    /\ UNCHANGED <<claim, aged, evidence, gmail>>

\* A reply that is no success: any error status, or a 2xx without an id. The
\* body of a real success that breaks off reads as null, and so as the latter;
\* behind a server's error status Gmail may have taken the message, or still
\* be at work on it.
ReplyRefused(r) ==
    /\ At(r, "gmail")
    /\ Go(r, "failing")
    /\ UNCHANGED <<claim, aged, evidence, gmail>>

\* Aborted after 15 seconds, or the connection broke.
NoReply(r) ==
    /\ At(r, "gmail")
    /\ Go(r, "unresolved")
    /\ UNCHANGED <<claim, aged, evidence, gmail>>

MarkFailed(r) ==
    /\ At(r, "failing")
    /\ TryUpdate(KeyOf(r), {"CLAIMED"}, Marked(KeyOf(r), "FAILED"))
    /\ Answer(r, "refused")
    /\ UNCHANGED <<aged, evidence, gmail>>

\* A variation: a request without a reply counts as a definite failure.
MarkUnknownFailed(r) ==
    /\ At(r, "unresolved")
    /\ TryUpdate(KeyOf(r), {"CLAIMED"}, Marked(KeyOf(r), "FAILED"))
    /\ Answer(r, "outcome_unknown")
    /\ UNCHANGED <<aged, evidence, gmail>>

MarkUnknown(r) ==
    /\ At(r, "unresolved")
    /\ TryUpdate(KeyOf(r), {"CLAIMED"}, Marked(KeyOf(r), "UNKNOWN"))
    /\ Answer(r, "outcome_unknown")
    /\ UNCHANGED <<aged, evidence, gmail>>

\* insertEvidenceIdempotent, for a send and for a reconciliation: a row that
\* is there already counts as success.
Recorded(r) == evidence' = IF evidence[KeyOf(r)] = NoId
                             THEN [evidence EXCEPT ![KeyOf(r)] = call[r].id]
                             ELSE evidence

\* A variation: the result of the insert is not looked at.
InsertEvidenceUnchecked(r) ==
    /\ At(r, "evidence")
    /\ Recorded(r) \/ UNCHANGED evidence
    /\ IF call[r].op = "send" THEN Go(r, "resolve") ELSE Answer(r, "sent")
    /\ UNCHANGED <<claim, aged, gmail>>

InsertEvidence(r) ==
    /\ At(r, "evidence")
    /\ \/ /\ Recorded(r)
          /\ IF call[r].op = "send" THEN Go(r, "resolve") ELSE Answer(r, "sent")
       \/ /\ Recorded(r) \/ UNCHANGED evidence
          /\ IF call[r].op = "send" THEN Go(r, "unsaved") ELSE Answer(r, "evidence_failed")
    /\ UNCHANGED <<claim, aged, gmail>>

KeepId(r) ==
    /\ At(r, "unsaved")
    /\ TryUpdate(KeyOf(r), {"CLAIMED"}, MarkedWith(KeyOf(r), "UNKNOWN", call[r].id))
    /\ Answer(r, "evidence_failed")
    /\ UNCHANGED <<aged, evidence, gmail>>

Resolve(r) ==
    /\ At(r, "resolve")
    /\ TryUpdate(KeyOf(r), {"CLAIMED"}, MarkedWith(KeyOf(r), "SENT", call[r].id))
    /\ Answer(r, "sent")
    /\ UNCHANGED <<aged, evidence, gmail>>
-----------------------------------------------------------------------------
(* reconcile_send_claim *)

\* The operator has looked into the Sent folder: SENT carries the id of a
\* message found there, NOT_SENT the confirmed absence of one.
Reconcile(r) ==
    /\ At(r, "new")
    /\ \/ \E m \in Mail(KeyOf(r)) :
             call' = [call EXCEPT ![r].op = "sent", ![r].id = m, ![r].at = "look"]
       \/ /\ Mail(KeyOf(r)) = {}
          /\ call' = [call EXCEPT ![r].op = "not_sent", ![r].at = "look"]
    /\ UNCHANGED <<claim, aged, evidence, gmail>>

LookUpClaim(r) ==
    /\ At(r, "look")
    /\ \E row \in Reading(claim[KeyOf(r)], NoClaim) :
          call' = [call EXCEPT ![r].seen = row, ![r].at = "decide"]
    /\ UNCHANGED <<claim, aged, evidence, gmail>>

\* decideReconciliation: evidence, then the claim as it was read.
Decide(r) ==
    /\ At(r, "decide")
    /\ \E row \in Reading(evidence[KeyOf(r)], NoId) :
          LET seen == call[r].seen
              sent == call[r].op = "sent"
          IN
          \/ seen.status = "none" /\ Answer(r, "not_found")
          \/ /\ seen.status # "none" /\ row # NoId
             /\ Answer(r, IF sent /\ row = call[r].id THEN "sent" ELSE "conflict")
          \/ /\ seen.status = "SENT" /\ row = NoId
             /\ IF sent /\ seen.id = call[r].id
                  THEN Go(r, "evidence")
                  ELSE Answer(r, "already_resolved")
          \/ /\ seen.status \in {"CLAIMED", "FAILED", "UNKNOWN"} /\ row = NoId
             /\ Go(r, "settle")
    /\ UNCHANGED <<claim, aged, evidence, gmail>>

Unsettled == {"CLAIMED", "FAILED", "UNKNOWN"}

\* A thrown update is sent once more: it may have taken effect and then find
\* the row as SENT, or have no known outcome.
SettleSent(r) ==
    LET k == KeyOf(r) IN
    /\ At(r, "settle") /\ call[r].op = "sent"
    /\ \/ /\ claim[k].status \in Unsettled
          /\ Update(k, Unsettled, MarkedWith(k, "SENT", call[r].id))
          /\ Go(r, "evidence")
       \/ /\ TryUpdate(k, Unsettled, MarkedWith(k, "SENT", call[r].id))
          /\ Go(r, "reread") \/ Answer(r, "reconcile_unknown")
    /\ UNCHANGED <<aged, evidence, gmail>>

\* The same, but a run that finds no row to move, or gets a structured error,
\* reports a race it lost: its update may have landed before.
SettleNotSent(r) ==
    LET k == KeyOf(r) IN
    /\ At(r, "settle") /\ call[r].op = "not_sent"
    /\ \/ /\ claim[k].status \in Unsettled
          /\ Update(k, Unsettled, Marked(k, "FAILED"))
          /\ Answer(r, "not_sent")
       \/ /\ TryUpdate(k, Unsettled, Marked(k, "FAILED"))
          /\ Answer(r, "reconcile_unknown") \/ Answer(r, "overtaken")
    /\ UNCHANGED <<aged, evidence, gmail>>

\* The update matched no row, or failed: the evidence has the last word.
Reread(r) ==
    /\ At(r, "reread")
    /\ \E row \in Reading(evidence[KeyOf(r)], NoId) :
          Answer(r, IF row = call[r].id THEN "sent" ELSE "overtaken")
    /\ UNCHANGED <<claim, aged, evidence, gmail>>
-----------------------------------------------------------------------------
(* The surroundings *)

\* Gmail takes or refuses a message at any time after the call, also when
\* the caller has stopped waiting.
GmailTakes(r) ==
    /\ gmail[r] = "pending"
    /\ \E outcome \in {"accepted", "refused"} : gmail' = [gmail EXCEPT ![r] = outcome]
    /\ UNCHANGED <<claim, aged, evidence, call>>

LeaseRunsOut(k) ==
    /\ claim[k] # NoClaim
    /\ aged' = aged \cup {k}
    /\ UNCHANGED <<claim, evidence, gmail, call>>

\* The platform kills the run.
Killed(r) ==
    /\ call[r].at \notin {"new", "done", "dead"}
    /\ Go(r, "dead")
    /\ UNCHANGED <<claim, aged, evidence, gmail>>

SendStep(r) ==
    \/ InsertClaim(r) \/ ReadClaim(r) \/ Classify(r) \/ Expire(r)
    \/ Preflight(r) \/ CallGmail(r) \/ ReplyAccepted(r) \/ ReplyRefused(r)
    \/ NoReply(r) \/ MarkFailed(r) \/ MarkUnknown(r)
    \/ InsertEvidence(r) \/ KeepId(r) \/ Resolve(r)

ReconcileStep(r) ==
    \/ LookUpClaim(r) \/ Decide(r) \/ SettleSent(r) \/ SettleNotSent(r) \/ Reread(r)

Next == \/ \E r \in Request : \/ Send(r) \/ SendStep(r)
                              \/ Reconcile(r) \/ ReconcileStep(r)
                              \/ GmailTakes(r) \/ Killed(r)
        \/ \E k \in Key : LeaseRunsOut(k)

Spec == Init /\ [][Next]_vars
-----------------------------------------------------------------------------
(* Properties *)

NotSentVerdict(k) ==
    \E r \in Request : /\ KeyOf(r) = k /\ call[r].op = "not_sent" /\ At(r, "done")
                       /\ call[r].answer \in {"not_sent", "reconcile_unknown", "overtaken"}

SentVerdict(k) ==
    \E r \in Request : /\ KeyOf(r) = k /\ call[r].op = "sent"
                       /\ call[r].at \in {"evidence", "reread", "done", "dead"}

\* Nobody is told that a message went out unless the ledger shows it: a fresh
\* success always has its evidence row, and a repeated request may rely on a
\* claim marked SENT without one only where an operator's SENT verdict, which
\* marks the claim first, has not got that far or has failed to.
SuccessIsRecorded ==
    \A r \in Request : LET k == KeyOf(r) IN
        /\ call[r].answer = "sent" => evidence[k] # NoId
        /\ call[r].answer = "already_sent" => evidence[k] # NoId \/ SentVerdict(k)
        /\ claim[k].status = "SENT" => evidence[k] # NoId \/ SentVerdict(k)

\* A FAILED claim invites a second attempt under a new key. Unless an operator
\* found the Sent folder without the message, the message went out then, or
\* still may, only if Gmail had replied to the run with an error, or with
\* something the run could not read: no timeout, crash, failed write, expired
\* lease or retry leads there.
FailedDespiteMail ==
    \A k \in Key : claim[k].status = "FAILED" /\ ~NotSentVerdict(k) =>
        \A r \in Request : KeyOf(r) = k /\ gmail[r] \in {"pending", "accepted"} =>
            call[r].answer = "refused"

\* The ledger and the mailbox keep the promise of MailLedger: one message per
\* approved attempt, evidence only of a message that went out, and never
\* rewritten, whatever overlaps, fails or dies.
Ledger == INSTANCE MailLedger WITH MessageId <- Request, recorded <- evidence,
                                   sent <- [k \in Key |-> Mail(k)]
ImplementsLedger == Ledger!Spec

\* A claim that is SENT stays SENT with its id: of the writers that overlap,
\* none undoes a resolution.
SentIsFinal ==
    [][\A k \in Key : claim[k].status = "SENT" => claim'[k] = claim[k]]_vars

\* Does not hold (FailedDespiteMail names the two ways round it):
\* "FAILED -- resolved: ... a DEFINITE negative answer. Nothing was sent."
\* (20261014000000_election_outreach_message_activity.sql:146-149)
FailedMeansNotSent ==
    \A k \in Key : claim[k].status = "FAILED" => Mail(k) = {}
-----------------------------------------------------------------------------
(* The inductive invariant *)

HoldingSteps == {"holding", "gmail", "failing", "unresolved", "evidence", "unsaved", "resolve"}

\* Runs that won the insert for their key and go on towards Gmail, or have
\* been there, or were refused on the way.
Holding(r) == /\ call[r].op = "send"
              /\ \/ call[r].at \in HoldingSteps
                 \/ gmail[r] # "none"
                 \/ call[r].answer = "refused"

OneHolder ==
    /\ \A r \in Request : Holding(r) => claim[KeyOf(r)].status # "none"
    /\ \A r, s \in Request : Holding(r) /\ Holding(s) /\ KeyOf(r) = KeyOf(s) => r = s

StepsFit ==
    \A r \in Request :
        /\ gmail[r] # "none" => /\ call[r].op = "send"
                                /\ call[r].at \in (HoldingSteps \ {"holding"}) \cup {"done", "dead"}
        /\ At(r, "new") => call[r].op = "send"
        /\ call[r].at \in SendSteps => call[r].op = "send"
        /\ call[r].at \in ReconcileSteps => call[r].op # "send"
        /\ call[r].at \in {"evidence", "reread"} => call[r].op # "not_sent"
        /\ call[r].answer # "none" => At(r, "done")

IdsAreReal ==
    /\ \A k \in Key : {evidence[k], claim[k].id} \subseteq Mail(k) \cup {NoId}
    /\ \A k \in Key : claim[k].status = "SENT" => claim[k].id # NoId
    /\ \A r \in Request :
          /\ call[r].id \in Mail(KeyOf(r)) \cup {NoId}
          /\ call[r].op = "sent" \/ call[r].at \in {"evidence", "unsaved", "resolve"} =>
                 call[r].id # NoId

SeenIsPast ==
    \A r \in Request : LET k == KeyOf(r) IN
        /\ call[r].seen.status # "none" => claim[k].status # "none"
        /\ call[r].seen.status = "SENT" => claim[k] = call[r].seen
        /\ At(r, "resolve") => evidence[k] # NoId
        /\ call[r].answer = "already_sent" => evidence[k] # NoId \/ claim[k].status = "SENT"

\* A FAILED claim has a run that was refused, or a verdict, behind it.
FailedHasCause ==
    \A k \in Key : claim[k].status = "FAILED" =>
        \/ NotSentVerdict(k)
        \/ \E r \in Request : /\ KeyOf(r) = k /\ call[r].op = "send"
                              /\ call[r].answer = "refused"

IInv == /\ TypeOK /\ StepsFit /\ OneHolder /\ IdsAreReal /\ SeenIsPast
        /\ SuccessIsRecorded /\ FailedHasCause
=============================================================================
