------------------------- MODULE OutreachSendProofs -------------------------
(***************************************************************************)
(* Theorems about OutreachSend: for any number of keys, and of runs of     *)
(* send_message and reconcile_send_claim that overlap on them.             *)
(***************************************************************************)
EXTENDS OutreachSend, TLAPS

USE DEF Id, Status, Claim, NoClaim, Op, SendSteps, ReconcileSteps, HoldingSteps, Answers, Call

(* What a conditional update does to the claims.                            *)
LEMMA Tried ==
  ASSUME TypeOK, NEW k \in Key, NEW from, NEW row \in Claim, TryUpdate(k, from, row)
  PROVE  /\ claim' \in [Key -> Claim]
         /\ \A j \in Key : j # k => claim'[j] = claim[j]
         /\ \/ claim'[k] = claim[k]
            \/ claim[k].status \in from /\ claim'[k] = row
<1>1. claim \in [Key -> Claim]
  BY DEF TypeOK
<1>2. CASE UNCHANGED claim
  BY <1>1, <1>2
<1>3. CASE claim' = [claim EXCEPT ![k] = row] /\ claim[k].status \in from
  BY <1>1, <1>3
<1> QED
  BY <1>2, <1>3 DEF TryUpdate, Update

(* The rows an update writes.                                               *)
LEMMA Rows ==
  ASSUME TypeOK, NEW k \in Key, NEW status \in Status, NEW m \in Id
  PROVE  /\ Marked(k, status) \in Claim /\ MarkedWith(k, status, m) \in Claim
         /\ Marked(k, status).status = status /\ Marked(k, status).id = claim[k].id
         /\ MarkedWith(k, status, m).status = status /\ MarkedWith(k, status, m).id = m
<1>1. claim[k] \in Claim
  BY DEF TypeOK
<1> QED
  BY <1>1 DEF Marked, MarkedWith

(* One run is replaced.                                                     *)
LEMMA Replaced ==
  ASSUME TypeOK, NEW r \in Request, NEW c \in Call, call' = [call EXCEPT ![r] = c]
  PROVE  /\ call' \in [Request -> Call]
         /\ \A s \in Request \ {r} : call'[s] = call[s]
         /\ call'[r] = c
<1>1. call \in [Request -> Call]
  BY DEF TypeOK
<1> HIDE DEF Call
<1> QED
  BY <1>1

(* A run moves on, or answers, and nothing else about any run changes.      *)
LEMMA Went ==
  ASSUME TypeOK, NEW r \in Request, NEW step \in SendSteps \cup ReconcileSteps \cup {"evidence", "dead"},
         Go(r, step)
  PROVE  /\ call' \in [Request -> Call]
         /\ \A s \in Request \ {r} : call'[s] = call[s]
         /\ call'[r].op = call[r].op /\ call'[r].key = call[r].key
         /\ call'[r].id = call[r].id /\ call'[r].seen = call[r].seen
         /\ call'[r].answer = call[r].answer /\ call'[r].at = step
  BY DEF TypeOK, Go

LEMMA Answered ==
  ASSUME TypeOK, NEW r \in Request, NEW a \in Answers, Answer(r, a)
  PROVE  /\ call' \in [Request -> Call]
         /\ \A s \in Request \ {r} : call'[s] = call[s]
         /\ call'[r].op = call[r].op /\ call'[r].key = call[r].key
         /\ call'[r].id = call[r].id /\ call'[r].seen = call[r].seen
         /\ call'[r].answer = a /\ call'[r].at = "done"
<1>1. call[r] \in Call /\ call \in [Request -> Call]
  BY DEF TypeOK
<1> DEFINE c == [call[r] EXCEPT !.at = "done", !.answer = a]
<1>2. call' = [call EXCEPT ![r] = c]
  BY <1>1 DEF Answer
<1>3. /\ c.op = call[r].op /\ c.key = call[r].key /\ c.id = call[r].id
      /\ c.seen = call[r].seen /\ c.answer = a /\ c.at = "done"
  BY <1>1
<1>4. c \in Call
  BY <1>1
<1> HIDE DEF c, Call
<1> QED
  BY <1>2, <1>3, <1>4, Replaced

(* What a run reads has its type.                                           *)
LEMMA ReadRow ==
  ASSUME TypeOK, NEW r \in Request, NEW row \in Reading(claim[KeyOf(r)], NoClaim)
  PROVE  KeyOf(r) \in Key /\ row \in Claim
<1>1. KeyOf(r) \in Key
  BY DEF TypeOK, KeyOf
<1>2. NoClaim \in Claim /\ claim[KeyOf(r)] \in Claim
  BY <1>1 DEF TypeOK
<1> QED
  BY <1>1, <1>2 DEF Reading

(* A run keeps the claim it has read.                                       *)
LEMMA Saw ==
  ASSUME TypeOK, NEW r \in Request, NEW row \in Claim, NEW step \in {"classify", "decide"},
         call' = [call EXCEPT ![r].seen = row, ![r].at = step]
  PROVE  /\ call' \in [Request -> Call]
         /\ \A s \in Request \ {r} : call'[s] = call[s]
         /\ call'[r].op = call[r].op /\ call'[r].key = call[r].key /\ call'[r].id = call[r].id
         /\ call'[r].seen = row /\ call'[r].answer = call[r].answer /\ call'[r].at = step
<1>1. call[r] \in Call /\ call \in [Request -> Call]
  BY DEF TypeOK
<1> DEFINE c == [call[r] EXCEPT !.seen = row, !.at = step]
<1>2. call' = [call EXCEPT ![r] = c]
  BY <1>1
<1>3. /\ c.op = call[r].op /\ c.key = call[r].key /\ c.id = call[r].id
      /\ c.seen = row /\ c.answer = call[r].answer /\ c.at = step
  BY <1>1
<1>4. c \in Call
  BY <1>1
<1> HIDE DEF c, Call
<1> QED
  BY <1>2, <1>3, <1>4, Replaced

(* A run keeps the id Gmail replied with.                                   *)
LEMMA Took ==
  ASSUME TypeOK, NEW r \in Request, NEW m \in Request,
         call' = [call EXCEPT ![r].id = m, ![r].at = "evidence"]
  PROVE  /\ call' \in [Request -> Call]
         /\ \A s \in Request \ {r} : call'[s] = call[s]
         /\ call'[r].op = call[r].op /\ call'[r].key = call[r].key /\ call'[r].id = m
         /\ call'[r].seen = call[r].seen /\ call'[r].answer = call[r].answer /\ call'[r].at = "evidence"
<1>1. call[r] \in Call /\ call \in [Request -> Call]
  BY DEF TypeOK
<1> DEFINE c == [call[r] EXCEPT !.id = m, !.at = "evidence"]
<1>2. call' = [call EXCEPT ![r] = c]
  BY <1>1
<1>3. /\ c.op = call[r].op /\ c.key = call[r].key /\ c.id = m
      /\ c.seen = call[r].seen /\ c.answer = call[r].answer /\ c.at = "evidence"
  BY <1>1
<1>4. c \in Call
  BY <1>1
<1> HIDE DEF c, Call
<1> QED
  BY <1>2, <1>3, <1>4, Replaced

(* An operator has found the message.                                       *)
LEMMA Found ==
  ASSUME TypeOK, NEW r \in Request, NEW m \in Request,
         call' = [call EXCEPT ![r].op = "sent", ![r].id = m, ![r].at = "look"]
  PROVE  /\ call' \in [Request -> Call]
         /\ \A s \in Request \ {r} : call'[s] = call[s]
         /\ call'[r].op = "sent" /\ call'[r].key = call[r].key /\ call'[r].id = m
         /\ call'[r].seen = call[r].seen /\ call'[r].answer = call[r].answer /\ call'[r].at = "look"
<1>1. call[r] \in Call /\ call \in [Request -> Call]
  BY DEF TypeOK
<1> DEFINE c == [call[r] EXCEPT !.op = "sent", !.id = m, !.at = "look"]
<1>2. call' = [call EXCEPT ![r] = c]
  BY <1>1
<1>3. /\ c.op = "sent" /\ c.key = call[r].key /\ c.id = m
      /\ c.seen = call[r].seen /\ c.answer = call[r].answer /\ c.at = "look"
  BY <1>1
<1>4. c \in Call
  BY <1>1
<1> HIDE DEF c, Call
<1> QED
  BY <1>2, <1>3, <1>4, Replaced

(* An operator has found that there is none.                                *)
LEMMA Missed ==
  ASSUME TypeOK, NEW r \in Request,
         call' = [call EXCEPT ![r].op = "not_sent", ![r].at = "look"]
  PROVE  /\ call' \in [Request -> Call]
         /\ \A s \in Request \ {r} : call'[s] = call[s]
         /\ call'[r].op = "not_sent" /\ call'[r].key = call[r].key /\ call'[r].id = call[r].id
         /\ call'[r].seen = call[r].seen /\ call'[r].answer = call[r].answer /\ call'[r].at = "look"
<1>1. call[r] \in Call /\ call \in [Request -> Call]
  BY DEF TypeOK
<1> DEFINE c == [call[r] EXCEPT !.op = "not_sent", !.at = "look"]
<1>2. call' = [call EXCEPT ![r] = c]
  BY <1>1
<1>3. /\ c.op = "not_sent" /\ c.key = call[r].key /\ c.id = call[r].id
      /\ c.seen = call[r].seen /\ c.answer = call[r].answer /\ c.at = "look"
  BY <1>1
<1>4. c \in Call
  BY <1>1
<1> HIDE DEF c, Call
<1> QED
  BY <1>2, <1>3, <1>4, Replaced

\* What no step undoes.
Onward ==
    /\ \A k \in Key : claim[k].status # "none" => claim'[k].status # "none"
    /\ \A k \in Key : claim[k].status = "SENT" => claim'[k] = claim[k]
    /\ \A k \in Key : evidence[k] # NoId => evidence'[k] = evidence[k]
    /\ \A s \in Request : gmail[s] \notin {"none", "pending"} => gmail'[s] = gmail[s]
    /\ \A s \in Request : /\ call'[s].key = call[s].key
                          /\ At(s, "done") => call'[s] = call[s]
                          /\ At(s, "dead") => call'[s] = call[s]

\* The rows of every key are as they were, and only r has moved.
Quiet(r) == /\ call' \in [Request -> Call]
            /\ \A s \in Request \ {r} : call'[s] = call[s]
            /\ call'[r].key = call[r].key
            /\ UNCHANGED <<claim, aged, evidence, gmail>>

LEMMA QuietSteps ==
  ASSUME TypeOK, NEW r \in Request,
         \/ Send(r) \/ ReadClaim(r) \/ Classify(r) \/ Preflight(r) \/ ReplyAccepted(r)
         \/ ReplyRefused(r) \/ NoReply(r) \/ Reconcile(r) \/ LookUpClaim(r) \/ Decide(r)
         \/ Reread(r) \/ Killed(r)
  PROVE  Quiet(r)
<1> USE Went, Answered DEF TypeOK, At, Quiet
<1>1. CASE Send(r) BY <1>1 DEF Send
<1>2. CASE ReadClaim(r)
  <2>1. PICK row \in Claim : call' = [call EXCEPT ![r].seen = row, ![r].at = "classify"]
    <3> HIDE DEF Claim, NoClaim
    <3> QED
      BY <1>2, ReadRow DEF ReadClaim
  <2> QED
    BY <1>2, <2>1, Saw DEF ReadClaim
<1>3. CASE Classify(r) BY <1>3 DEF Classify
<1>4. CASE Preflight(r) BY <1>4 DEF Preflight
<1>5. CASE ReplyAccepted(r) BY <1>5, Took DEF ReplyAccepted
<1>6. CASE ReplyRefused(r) BY <1>6 DEF ReplyRefused
<1>7. CASE NoReply(r) BY <1>7 DEF NoReply
<1>8. CASE Reconcile(r)
  <2>1. CASE \E m \in Request : call' = [call EXCEPT ![r].op = "sent", ![r].id = m, ![r].at = "look"]
    <3>1. PICK m \in Request : call' = [call EXCEPT ![r].op = "sent", ![r].id = m, ![r].at = "look"]
      BY <2>1
    <3> QED
      BY <1>8, <3>1, Found DEF Reconcile
  <2>2. CASE call' = [call EXCEPT ![r].op = "not_sent", ![r].at = "look"]
    BY <1>8, <2>2, Missed DEF Reconcile
  <2> QED
    BY <1>8, <2>1, <2>2 DEF Reconcile, Mail
<1>9. CASE LookUpClaim(r)
  <2>1. PICK row \in Claim : call' = [call EXCEPT ![r].seen = row, ![r].at = "decide"]
    <3> HIDE DEF Claim, NoClaim
    <3> QED
      BY <1>9, ReadRow DEF LookUpClaim
  <2> QED
    BY <1>9, <2>1, Saw DEF LookUpClaim
<1>10. CASE Decide(r) BY <1>10 DEF Decide
<1>11. CASE Reread(r) BY <1>11 DEF Reread
<1>12. CASE Killed(r) BY <1>12 DEF Killed
<1> QED BY <1>1, <1>2, <1>3, <1>4, <1>5, <1>6, <1>7, <1>8, <1>9, <1>10, <1>11, <1>12

\* The rows of every key and the calls of Gmail are as they were.
Rest == UNCHANGED <<claim, aged, evidence, gmail>>

\* Only r has moved among the runs: to step with the answer a.
Moves(r, step, a) ==
    /\ call' \in [Request -> Call]
    /\ \A s \in Request \ {r} : call'[s] = call[s]
    /\ call'[r].op = call[r].op /\ call'[r].key = call[r].key
    /\ call'[r].id = call[r].id /\ call'[r].seen = call[r].seen
    /\ call'[r].answer = a /\ call'[r].at = step

\* r moves to step with the answer a. Of the claims only that of its key may
\* have moved, from a status in from to the given status and id.
Marks(r, from, status, m, step, a) ==
    /\ Moves(r, step, a)
    /\ claim' \in [Key -> Claim]
    /\ \A j \in Key : j # KeyOf(r) => claim'[j] = claim[j]
    /\ \/ claim'[KeyOf(r)] = claim[KeyOf(r)]
       \/ /\ claim[KeyOf(r)].status \in from
          /\ claim'[KeyOf(r)].status = status /\ claim'[KeyOf(r)].id = m
    /\ UNCHANGED <<aged, evidence, gmail>>

(* A conditional update together with an answer, or with a move.           *)
LEMMA Marking ==
  ASSUME TypeOK, NEW r \in Request, NEW from, NEW status \in Status, NEW m \in Id,
         NEW row \in Claim, row.status = status, row.id = m,
         TryUpdate(KeyOf(r), from, row), UNCHANGED <<aged, evidence, gmail>>
  PROVE  /\ \A a \in Answers : Answer(r, a) => Marks(r, from, status, m, "done", a)
         /\ \A step \in {"evidence", "reread"} :
               Go(r, step) => Marks(r, from, status, m, step, call[r].answer)
<1>1. KeyOf(r) \in Key
  BY DEF TypeOK, KeyOf
<1> HIDE DEF Claim, Call, Answers, Id, Status
<1>2. /\ claim' \in [Key -> Claim]
      /\ \A j \in Key : j # KeyOf(r) => claim'[j] = claim[j]
      /\ \/ claim'[KeyOf(r)] = claim[KeyOf(r)]
         \/ claim[KeyOf(r)].status \in from /\ claim'[KeyOf(r)] = row
  BY <1>1, Tried
<1>3. \A a \in Answers : Answer(r, a) => Moves(r, "done", a)
  BY Answered DEF Moves
<1>4. \A step \in {"evidence", "reread"} : Go(r, step) => Moves(r, step, call[r].answer)
  BY Went DEF Moves
<1> QED
  BY <1>2, <1>3, <1>4 DEF Marks

(* The steps that update a claim and answer, and what they write.          *)
LEMMA MarkSteps ==
  ASSUME TypeOK, NEW r \in Request
  PROVE  LET old == claim[KeyOf(r)].id IN
         /\ Expire(r) => /\ At(r, "expire")
                         /\ Marks(r, {"CLAIMED"}, "UNKNOWN", old, "done", "needs_reconciliation")
         /\ MarkFailed(r) => /\ At(r, "failing")
                             /\ Marks(r, {"CLAIMED"}, "FAILED", old, "done", "refused")
         /\ MarkUnknown(r) => /\ At(r, "unresolved")
                              /\ Marks(r, {"CLAIMED"}, "UNKNOWN", old, "done", "outcome_unknown")
         /\ KeepId(r) => /\ At(r, "unsaved")
                         /\ Marks(r, {"CLAIMED"}, "UNKNOWN", call[r].id, "done", "evidence_failed")
         /\ Resolve(r) => /\ At(r, "resolve")
                          /\ Marks(r, {"CLAIMED"}, "SENT", call[r].id, "done", "sent")
<1> DEFINE k == KeyOf(r)
<1>1. k \in Key /\ call[r].id \in Id /\ claim[k].id \in Id
  BY DEF TypeOK, KeyOf
<1>2. \A st \in Status : /\ Marked(k, st) \in Claim /\ Marked(k, st).status = st
                         /\ Marked(k, st).id = claim[k].id
                         /\ MarkedWith(k, st, call[r].id) \in Claim
                         /\ MarkedWith(k, st, call[r].id).status = st
                         /\ MarkedWith(k, st, call[r].id).id = call[r].id
  BY <1>1, Rows
<1>3. {"UNKNOWN", "FAILED", "SENT"} \subseteq Status
      /\ {"needs_reconciliation", "refused", "outcome_unknown", "evidence_failed", "sent"} \subseteq Answers
  OBVIOUS
<1> HIDE DEF Claim, Status, Answers, Id, Call
<1>4. Expire(r) => Marks(r, {"CLAIMED"}, "UNKNOWN", claim[k].id, "done", "needs_reconciliation")
  BY <1>1, <1>2, <1>3, Marking DEF Expire
<1>5. MarkFailed(r) => Marks(r, {"CLAIMED"}, "FAILED", claim[k].id, "done", "refused")
  BY <1>1, <1>2, <1>3, Marking DEF MarkFailed
<1>6. MarkUnknown(r) => Marks(r, {"CLAIMED"}, "UNKNOWN", claim[k].id, "done", "outcome_unknown")
  BY <1>1, <1>2, <1>3, Marking DEF MarkUnknown
<1>7. KeepId(r) => Marks(r, {"CLAIMED"}, "UNKNOWN", call[r].id, "done", "evidence_failed")
  BY <1>1, <1>2, <1>3, Marking DEF KeepId
<1>8. Resolve(r) => Marks(r, {"CLAIMED"}, "SENT", call[r].id, "done", "sent")
  BY <1>1, <1>2, <1>3, Marking DEF Resolve
<1> QED
  BY <1>4, <1>5, <1>6, <1>7, <1>8 DEF Expire, MarkFailed, MarkUnknown, KeepId, Resolve

(* The same for the two steps that settle a reconciliation.                *)
LEMMA SettleSteps ==
  ASSUME TypeOK, NEW r \in Request
  PROVE  /\ SettleSent(r) =>
              /\ At(r, "settle") /\ call[r].op = "sent"
              /\ \/ Marks(r, Unsettled, "SENT", call[r].id, "evidence", call[r].answer)
                 \/ Marks(r, Unsettled, "SENT", call[r].id, "reread", call[r].answer)
                 \/ Marks(r, Unsettled, "SENT", call[r].id, "done", "reconcile_unknown")
         /\ SettleNotSent(r) =>
              /\ At(r, "settle") /\ call[r].op = "not_sent"
              /\ \/ Marks(r, Unsettled, "FAILED", claim[KeyOf(r)].id, "done", "not_sent")
                 \/ Marks(r, Unsettled, "FAILED", claim[KeyOf(r)].id, "done", "reconcile_unknown")
                 \/ Marks(r, Unsettled, "FAILED", claim[KeyOf(r)].id, "done", "overtaken")
<1> DEFINE k == KeyOf(r)
           S == MarkedWith(k, "SENT", call[r].id)
           F == Marked(k, "FAILED")
<1>1. k \in Key /\ call[r].id \in Id /\ claim[k].id \in Id
  BY DEF TypeOK, KeyOf
<1>2. /\ S \in Claim /\ S.status = "SENT" /\ S.id = call[r].id
      /\ F \in Claim /\ F.status = "FAILED" /\ F.id = claim[k].id
  BY <1>1, Rows
<1>3. {"SENT", "FAILED"} \subseteq Status /\ {"not_sent", "reconcile_unknown", "overtaken"} \subseteq Answers
  OBVIOUS
<1>4. \A row : Update(k, Unsettled, row) \/ UNCHANGED claim => TryUpdate(k, Unsettled, row)
  BY DEF TryUpdate
<1> HIDE DEF k, S, F, Claim, Status, Answers, Id, Call
<1>5. ASSUME TryUpdate(k, Unsettled, S), UNCHANGED <<aged, evidence, gmail>>
      PROVE  /\ Go(r, "evidence") => Marks(r, Unsettled, "SENT", call[r].id, "evidence", call[r].answer)
             /\ Go(r, "reread") => Marks(r, Unsettled, "SENT", call[r].id, "reread", call[r].answer)
             /\ Answer(r, "reconcile_unknown") =>
                   Marks(r, Unsettled, "SENT", call[r].id, "done", "reconcile_unknown")
  BY <1>1, <1>2, <1>3, <1>5, Marking DEF k
<1>6. ASSUME TryUpdate(k, Unsettled, F), UNCHANGED <<aged, evidence, gmail>>, NEW a \in Answers, Answer(r, a)
      PROVE  Marks(r, Unsettled, "FAILED", claim[k].id, "done", a)
  BY <1>1, <1>2, <1>3, <1>6, Marking DEF k
<1>7. ASSUME SettleSent(r)
      PROVE  \/ Marks(r, Unsettled, "SENT", call[r].id, "evidence", call[r].answer)
             \/ Marks(r, Unsettled, "SENT", call[r].id, "reread", call[r].answer)
             \/ Marks(r, Unsettled, "SENT", call[r].id, "done", "reconcile_unknown")
  BY <1>4, <1>5, <1>7 DEF SettleSent, k, S
<1>8. ASSUME SettleNotSent(r)
      PROVE  \/ Marks(r, Unsettled, "FAILED", claim[k].id, "done", "not_sent")
             \/ Marks(r, Unsettled, "FAILED", claim[k].id, "done", "reconcile_unknown")
             \/ Marks(r, Unsettled, "FAILED", claim[k].id, "done", "overtaken")
  BY <1>3, <1>4, <1>6, <1>8 DEF SettleNotSent, k, F
<1> QED
  BY <1>7, <1>8 DEF SettleSent, SettleNotSent, k

\* r has the key's claim to itself.
Claims(r) == /\ claim[KeyOf(r)] = NoClaim
             /\ claim' \in [Key -> Claim]
             /\ \A j \in Key : j # KeyOf(r) => claim'[j] = claim[j]
             /\ claim'[KeyOf(r)] = [status |-> "CLAIMED", id |-> NoId]

(* The step that makes a claim.                                            *)
LEMMA InsertSteps ==
  ASSUME TypeOK, NEW r \in Request, InsertClaim(r)
  PROVE  /\ At(r, "claim")
         /\ UNCHANGED <<aged, evidence, gmail>>
         /\ \/ Claims(r) /\ Moves(r, "holding", call[r].answer)
            \/ Claims(r) /\ Moves(r, "done", "claim_outcome_unknown")
            \/ UNCHANGED claim /\ Moves(r, "lost", call[r].answer)
            \/ UNCHANGED claim /\ Moves(r, "done", "claim_outcome_unknown")
<1>1. KeyOf(r) \in Key /\ claim \in [Key -> Claim]
  BY DEF TypeOK, KeyOf
<1>2. [status |-> "CLAIMED", id |-> NoId] \in Claim
  OBVIOUS
<1>3. /\ Go(r, "holding") => Moves(r, "holding", call[r].answer)
      /\ Go(r, "lost") => Moves(r, "lost", call[r].answer)
      /\ Answer(r, "claim_outcome_unknown") => Moves(r, "done", "claim_outcome_unknown")
  BY Went, Answered DEF Moves
<1>4. claim' = [claim EXCEPT ![KeyOf(r)] = [status |-> "CLAIMED", id |-> NoId]]
      /\ claim[KeyOf(r)] = NoClaim => Claims(r)
  <2> HIDE DEF NoClaim, Claim
  <2> QED
    BY <1>1, <1>2 DEF Claims
<1> HIDE DEF NoClaim, Claim
<1> QED
  BY <1>3, <1>4 DEF InsertClaim

(* The step that writes evidence.                                          *)
LEMMA EvidenceSteps ==
  ASSUME TypeOK, NEW r \in Request, InsertEvidence(r)
  PROVE  /\ At(r, "evidence")
         /\ UNCHANGED <<claim, aged, gmail>>
         /\ evidence' \in [Key -> Id]
         /\ \A j \in Key : j # KeyOf(r) \/ evidence[j] # NoId => evidence'[j] = evidence[j]
         /\ evidence'[KeyOf(r)] \in {evidence[KeyOf(r)], call[r].id}
         /\ \/ /\ evidence[KeyOf(r)] = NoId => evidence'[KeyOf(r)] = call[r].id
               /\ IF call[r].op = "send" THEN Moves(r, "resolve", call[r].answer)
                                         ELSE Moves(r, "done", "sent")
            \/ IF call[r].op = "send" THEN Moves(r, "unsaved", call[r].answer)
                                      ELSE Moves(r, "done", "evidence_failed")
<1>1. KeyOf(r) \in Key /\ evidence \in [Key -> Id] /\ call[r].id \in Id
  BY DEF TypeOK, KeyOf
<1>2. /\ Go(r, "resolve") => Moves(r, "resolve", call[r].answer)
      /\ Go(r, "unsaved") => Moves(r, "unsaved", call[r].answer)
      /\ Answer(r, "sent") => Moves(r, "done", "sent")
      /\ Answer(r, "evidence_failed") => Moves(r, "done", "evidence_failed")
  BY Went, Answered DEF Moves
<1>3. Recorded(r) => /\ evidence' \in [Key -> Id]
                     /\ \A j \in Key : j # KeyOf(r) \/ evidence[j] # NoId => evidence'[j] = evidence[j]
                     /\ evidence'[KeyOf(r)] \in {evidence[KeyOf(r)], call[r].id}
                     /\ evidence[KeyOf(r)] = NoId => evidence'[KeyOf(r)] = call[r].id
  BY <1>1 DEF Recorded
<1> QED
  BY <1>1, <1>2, <1>3 DEF InsertEvidence

(* The two steps about Gmail.                                              *)
LEMMA GmailSteps ==
  ASSUME TypeOK, NEW r \in Request
  PROVE  /\ CallGmail(r) => /\ At(r, "holding")
                            /\ Moves(r, "gmail", call[r].answer)
                            /\ gmail' = [gmail EXCEPT ![r] = "pending"]
                            /\ UNCHANGED <<claim, aged, evidence>>
         /\ GmailTakes(r) => /\ gmail[r] = "pending"
                             /\ gmail' \in {[gmail EXCEPT ![r] = "accepted"], [gmail EXCEPT ![r] = "refused"]}
                             /\ UNCHANGED <<claim, aged, evidence, call>>
<1>1. Go(r, "gmail") => Moves(r, "gmail", call[r].answer)
  BY Went DEF Moves
<1> QED
  BY <1>1 DEF CallGmail, GmailTakes

(* How the steps that leave the rows alone move their run.                 *)
LEMMA QuietMoves ==
  ASSUME TypeOK, NEW r \in Request
  PROVE  /\ Send(r) => Rest /\ At(r, "new") /\ Moves(r, "claim", call[r].answer)
         /\ Classify(r) => /\ Rest /\ At(r, "classify")
                           /\ \/ Moves(r, "expire", call[r].answer)
                              \/ \E a \in {"needs_reconciliation", "previously_failed", "in_progress"} :
                                    Moves(r, "done", a)
                              \/ /\ evidence[KeyOf(r)] # NoId \/ call[r].seen.status = "SENT"
                                 /\ Moves(r, "done", "already_sent")
         /\ Preflight(r) => Rest /\ At(r, "holding") /\ Moves(r, "failing", call[r].answer)
         /\ ReplyRefused(r) => /\ Rest /\ At(r, "gmail")
                               /\ Moves(r, "failing", call[r].answer)
         /\ NoReply(r) => Rest /\ At(r, "gmail") /\ Moves(r, "unresolved", call[r].answer)
         /\ Killed(r) => /\ Rest /\ call[r].at \notin {"new", "done", "dead"}
                         /\ Moves(r, "dead", call[r].answer)
<1> USE Went, Answered DEF Moves
<1>1. Send(r) => Rest /\ At(r, "new") /\ Moves(r, "claim", call[r].answer)
  BY DEF Send, Rest
<1>2. Classify(r) => /\ Rest /\ At(r, "classify")
                     /\ \/ Moves(r, "expire", call[r].answer)
                        \/ \E a \in {"needs_reconciliation", "previously_failed", "in_progress"} :
                              Moves(r, "done", a)
                        \/ /\ evidence[KeyOf(r)] # NoId \/ call[r].seen.status = "SENT"
                           /\ Moves(r, "done", "already_sent")
  BY DEF Classify, Rest, Reading
<1>3. Preflight(r) => Rest /\ At(r, "holding") /\ Moves(r, "failing", call[r].answer)
  BY DEF Preflight, Rest
<1>4. ReplyRefused(r) => /\ Rest /\ At(r, "gmail")
                         /\ Moves(r, "failing", call[r].answer)
  BY DEF ReplyRefused, Rest
<1>5. NoReply(r) => Rest /\ At(r, "gmail") /\ Moves(r, "unresolved", call[r].answer)
  BY DEF NoReply, Rest
<1>6. Killed(r) => /\ Rest /\ call[r].at \notin {"new", "done", "dead"}
                   /\ Moves(r, "dead", call[r].answer)
  BY DEF Killed, Rest
<1> QED
  BY <1>1, <1>2, <1>3, <1>4, <1>5, <1>6

(* The same for the steps of a reconciliation.                             *)
LEMMA ReconcileMoves ==
  ASSUME TypeOK, NEW r \in Request
  PROVE  /\ Decide(r) => /\ Rest /\ At(r, "decide")
                         /\ \/ Moves(r, "settle", call[r].answer)
                            \/ \E a \in {"not_found", "conflict", "already_resolved"} : Moves(r, "done", a)
                            \/ /\ evidence[KeyOf(r)] # NoId
                               /\ Moves(r, "done", "sent")
                            \/ /\ call[r].op = "sent"
                               /\ Moves(r, "evidence", call[r].answer)
         /\ Reread(r) => /\ Rest /\ At(r, "reread")
                         /\ \/ Moves(r, "done", "overtaken")
                            \/ /\ evidence[KeyOf(r)] # NoId \/ call[r].id = NoId
                               /\ Moves(r, "done", "sent")
<1> USE Went, Answered DEF Moves
<1>1. Decide(r) => /\ Rest /\ At(r, "decide")
                   /\ \/ Moves(r, "settle", call[r].answer)
                      \/ \E a \in {"not_found", "conflict", "already_resolved"} : Moves(r, "done", a)
                      \/ /\ evidence[KeyOf(r)] # NoId
                         /\ Moves(r, "done", "sent")
                      \/ /\ call[r].op = "sent"
                         /\ Moves(r, "evidence", call[r].answer)
  BY DEF Decide, Rest, Reading
<1>2. Reread(r) => /\ Rest /\ At(r, "reread")
                   /\ \/ Moves(r, "done", "overtaken")
                      \/ /\ evidence[KeyOf(r)] # NoId \/ call[r].id = NoId
                         /\ Moves(r, "done", "sent")
  BY DEF Reread, Rest, Reading
<1> QED
  BY <1>1, <1>2

\* Only r has moved, to step, and it keeps its key and its answer.
Notes(r, step) == /\ call' \in [Request -> Call]
                  /\ \A s \in Request \ {r} : call'[s] = call[s]
                  /\ call'[r].key = call[r].key /\ call'[r].answer = call[r].answer
                  /\ call'[r].at = step

\* r has read its key's claim.
Reads(r, step) == /\ Notes(r, step)
                  /\ call'[r].op = call[r].op /\ call'[r].id = call[r].id
                  /\ call'[r].seen \in {claim[KeyOf(r)], NoClaim}

(* The steps in which a run learns something.                              *)
LEMMA NoteSteps ==
  ASSUME TypeOK, NEW r \in Request
  PROVE  /\ ReadClaim(r) => Rest /\ At(r, "lost") /\ Reads(r, "classify")
         /\ LookUpClaim(r) => Rest /\ At(r, "look") /\ Reads(r, "decide")
         /\ ReplyAccepted(r) => /\ Rest /\ At(r, "gmail") /\ gmail[r] = "accepted"
                                /\ Notes(r, "evidence")
                                /\ call'[r].op = call[r].op /\ call'[r].seen = call[r].seen
                                /\ call'[r].id = r
         /\ Reconcile(r) => /\ Rest /\ At(r, "new")
                            /\ Notes(r, "look")
                            /\ call'[r].seen = call[r].seen
                            /\ \/ call'[r].op = "sent" /\ call'[r].id \in Mail(KeyOf(r))
                               \/ /\ call'[r].op = "not_sent" /\ call'[r].id = call[r].id
                                  /\ Mail(KeyOf(r)) = {}
<1>1. ReadClaim(r) => Rest /\ At(r, "lost") /\ Reads(r, "classify")
  <2> SUFFICES ASSUME ReadClaim(r) PROVE Rest /\ At(r, "lost") /\ Reads(r, "classify")
    OBVIOUS
  <2> HIDE DEF Claim, NoClaim
  <2>1. PICK row \in Reading(claim[KeyOf(r)], NoClaim) :
          call' = [call EXCEPT ![r].seen = row, ![r].at = "classify"]
    BY DEF ReadClaim, Rest
  <2>2. row \in Claim
    BY ReadRow
  <2>3. /\ call' \in [Request -> Call]
        /\ \A s \in Request \ {r} : call'[s] = call[s]
        /\ call'[r].op = call[r].op /\ call'[r].key = call[r].key /\ call'[r].id = call[r].id
        /\ call'[r].seen = row /\ call'[r].answer = call[r].answer /\ call'[r].at = "classify"
    <3> HIDE DEF Call
    <3> QED
      BY <2>1, <2>2, Saw
  <2> HIDE DEF Call
  <2> QED
    BY <2>3 DEF ReadClaim, Rest, Reads, Notes, Reading
<1>2. LookUpClaim(r) => Rest /\ At(r, "look") /\ Reads(r, "decide")
  <2> SUFFICES ASSUME LookUpClaim(r) PROVE Rest /\ At(r, "look") /\ Reads(r, "decide")
    OBVIOUS
  <2> HIDE DEF Claim, NoClaim
  <2>1. PICK row \in Reading(claim[KeyOf(r)], NoClaim) :
          call' = [call EXCEPT ![r].seen = row, ![r].at = "decide"]
    BY DEF LookUpClaim, Rest
  <2>2. row \in Claim
    BY ReadRow
  <2>3. /\ call' \in [Request -> Call]
        /\ \A s \in Request \ {r} : call'[s] = call[s]
        /\ call'[r].op = call[r].op /\ call'[r].key = call[r].key /\ call'[r].id = call[r].id
        /\ call'[r].seen = row /\ call'[r].answer = call[r].answer /\ call'[r].at = "decide"
    <3> HIDE DEF Call
    <3> QED
      BY <2>1, <2>2, Saw
  <2> HIDE DEF Call
  <2> QED
    BY <2>3 DEF LookUpClaim, Rest, Reads, Notes, Reading
<1>3. ReplyAccepted(r) => /\ Rest /\ At(r, "gmail") /\ gmail[r] = "accepted"
                          /\ Notes(r, "evidence")
                          /\ call'[r].op = call[r].op /\ call'[r].seen = call[r].seen
                          /\ call'[r].id = r
  BY Took DEF ReplyAccepted, Rest, Notes
<1>4. Reconcile(r) => /\ Rest /\ At(r, "new")
                      /\ Notes(r, "look")
                      /\ call'[r].seen = call[r].seen
                      /\ \/ call'[r].op = "sent" /\ call'[r].id \in Mail(KeyOf(r))
                         \/ /\ call'[r].op = "not_sent" /\ call'[r].id = call[r].id
                            /\ Mail(KeyOf(r)) = {}
  <2>1. CASE \E m \in Mail(KeyOf(r)) :
               call' = [call EXCEPT ![r].op = "sent", ![r].id = m, ![r].at = "look"]
    <3>1. PICK m \in Mail(KeyOf(r)) :
             call' = [call EXCEPT ![r].op = "sent", ![r].id = m, ![r].at = "look"]
      BY <2>1
    <3>2. m \in Request
      BY DEF Mail
    <3> HIDE DEF Call
    <3>3. /\ call' \in [Request -> Call]
          /\ \A s \in Request \ {r} : call'[s] = call[s]
          /\ call'[r].op = "sent" /\ call'[r].key = call[r].key /\ call'[r].id = m
          /\ call'[r].seen = call[r].seen /\ call'[r].answer = call[r].answer /\ call'[r].at = "look"
      BY <3>1, <3>2, Found
    <3> QED
      BY <3>3 DEF Reconcile, Rest, Notes
  <2>2. CASE Mail(KeyOf(r)) = {} /\ call' = [call EXCEPT ![r].op = "not_sent", ![r].at = "look"]
    BY <2>2, Missed DEF Reconcile, Rest, Notes
  <2> QED
    BY <2>1, <2>2 DEF Reconcile, Rest
<1> QED
  BY <1>1, <1>2, <1>3, <1>4
-----------------------------------------------------------------------------
(* Preservation *)

HIDE DEF Id, Status, Claim, NoClaim, Op, Answers, Call

(* Every step preserves the types.                                         *)
LEMMA TypeStep ==
  ASSUME TypeOK, [Next]_vars
  PROVE  TypeOK'
<1>1. ASSUME NEW r \in Request, 
              \/ Send(r) \/ ReadClaim(r) \/ Classify(r) \/ Preflight(r)
              \/ ReplyAccepted(r) \/ ReplyRefused(r) \/ NoReply(r)
              \/ Reconcile(r) \/ LookUpClaim(r) \/ Decide(r) \/ Reread(r)
              \/ Killed(r)
      PROVE  TypeOK'
  BY <1>1, QuietSteps DEF TypeOK, Quiet
<1>2. ASSUME NEW r \in Request, 
              \/ Expire(r) \/ MarkFailed(r) \/ MarkUnknown(r)
              \/ KeepId(r) \/ Resolve(r) \/ SettleSent(r)
              \/ SettleNotSent(r)
      PROVE  TypeOK'
  BY <1>2, MarkSteps, SettleSteps DEF TypeOK, Unsettled, Moves, Notes, Reads, Claims, Marks
<1>3. ASSUME NEW r \in Request, InsertClaim(r)
      PROVE  TypeOK'
  BY <1>3, InsertSteps DEF TypeOK, Unsettled, Moves, Notes, Reads, Claims
<1>4. ASSUME NEW r \in Request, InsertEvidence(r)
      PROVE  TypeOK'
  BY <1>4, EvidenceSteps DEF TypeOK, Unsettled, Moves, Notes, Reads, Claims
<1>5. ASSUME NEW r \in Request, CallGmail(r)
      PROVE  TypeOK'
  BY <1>5, GmailSteps DEF TypeOK, Unsettled, Moves, Notes, Reads, Claims
<1>6. ASSUME NEW r \in Request, GmailTakes(r)
      PROVE  TypeOK'
  BY <1>6, GmailSteps DEF TypeOK, Unsettled, Moves, Notes, Reads, Claims
<1>7. CASE UNCHANGED vars
  BY <1>7 DEF vars, TypeOK, Unsettled
<1>8. ASSUME NEW k \in Key, LeaseRunsOut(k)
      PROVE  TypeOK'
  BY <1>8 DEF LeaseRunsOut, TypeOK, Unsettled
<1> QED
  BY <1>1, <1>2, <1>3, <1>4, <1>5, <1>6, <1>7, <1>8 DEF Next, SendStep, ReconcileStep

(* Every step preserves the fit of steps, operations and answers.          *)
LEMMA StepsFitStep ==
  ASSUME TypeOK, StepsFit, [Next]_vars
  PROVE  StepsFit'
<1>1. ASSUME NEW r \in Request, Send(r)
      PROVE  StepsFit'
  BY <1>1, QuietMoves DEF StepsFit, Unsettled, Moves, Notes, Reads, Rest, At, TypeOK
<1>2. ASSUME NEW r \in Request, InsertClaim(r)
      PROVE  StepsFit'
  BY <1>2, InsertSteps DEF StepsFit, Unsettled, Moves, Notes, Reads, Rest, At, TypeOK
<1>3. ASSUME NEW r \in Request, ReadClaim(r)
      PROVE  StepsFit'
  BY <1>3, NoteSteps DEF StepsFit, Unsettled, Moves, Notes, Reads, Rest, At, TypeOK
<1>4. ASSUME NEW r \in Request, Classify(r)
      PROVE  StepsFit'
  BY <1>4, QuietMoves DEF StepsFit, Unsettled, Moves, Notes, Reads, Rest, At, TypeOK
<1>5. ASSUME NEW r \in Request, Expire(r)
      PROVE  StepsFit'
  BY <1>5, MarkSteps DEF StepsFit, Unsettled, Moves, Notes, Reads, Rest, At, TypeOK, Marks
<1>6. ASSUME NEW r \in Request, Preflight(r)
      PROVE  StepsFit'
  BY <1>6, QuietMoves DEF StepsFit, Unsettled, Moves, Notes, Reads, Rest, At, TypeOK
<1>7. ASSUME NEW r \in Request, CallGmail(r)
      PROVE  StepsFit'
  BY <1>7, GmailSteps DEF StepsFit, Unsettled, Moves, Notes, Reads, Rest, At, TypeOK
<1>8. ASSUME NEW r \in Request, ReplyAccepted(r)
      PROVE  StepsFit'
  BY <1>8, NoteSteps DEF StepsFit, Unsettled, Moves, Notes, Reads, Rest, At, TypeOK
<1>9. ASSUME NEW r \in Request, ReplyRefused(r)
      PROVE  StepsFit'
  BY <1>9, QuietMoves DEF StepsFit, Unsettled, Moves, Notes, Reads, Rest, At, TypeOK
<1>10. ASSUME NEW r \in Request, NoReply(r)
      PROVE  StepsFit'
  BY <1>10, QuietMoves DEF StepsFit, Unsettled, Moves, Notes, Reads, Rest, At, TypeOK
<1>11. ASSUME NEW r \in Request, MarkFailed(r)
      PROVE  StepsFit'
  BY <1>11, MarkSteps DEF StepsFit, Unsettled, Moves, Notes, Reads, Rest, At, TypeOK, Marks
<1>12. ASSUME NEW r \in Request, MarkUnknown(r)
      PROVE  StepsFit'
  BY <1>12, MarkSteps DEF StepsFit, Unsettled, Moves, Notes, Reads, Rest, At, TypeOK, Marks
<1>13. ASSUME NEW r \in Request, InsertEvidence(r)
      PROVE  StepsFit'
  BY <1>13, EvidenceSteps DEF StepsFit, Unsettled, Moves, Notes, Reads, Rest, At, TypeOK
<1>14. ASSUME NEW r \in Request, KeepId(r)
      PROVE  StepsFit'
  BY <1>14, MarkSteps DEF StepsFit, Unsettled, Moves, Notes, Reads, Rest, At, TypeOK, Marks
<1>15. ASSUME NEW r \in Request, Resolve(r)
      PROVE  StepsFit'
  BY <1>15, MarkSteps DEF StepsFit, Unsettled, Moves, Notes, Reads, Rest, At, TypeOK, Marks
<1>16. ASSUME NEW r \in Request, Reconcile(r)
      PROVE  StepsFit'
  BY <1>16, NoteSteps DEF StepsFit, Unsettled, Moves, Notes, Reads, Rest, At, TypeOK
<1>17. ASSUME NEW r \in Request, LookUpClaim(r)
      PROVE  StepsFit'
  BY <1>17, NoteSteps DEF StepsFit, Unsettled, Moves, Notes, Reads, Rest, At, TypeOK
<1>18. ASSUME NEW r \in Request, Decide(r)
      PROVE  StepsFit'
  BY <1>18, ReconcileMoves DEF StepsFit, Unsettled, Moves, Notes, Reads, Rest, At, TypeOK
<1>19. ASSUME NEW r \in Request, SettleSent(r)
      PROVE  StepsFit'
  BY <1>19, SettleSteps DEF StepsFit, Unsettled, Moves, Notes, Reads, Rest, At, TypeOK, Marks
<1>20. ASSUME NEW r \in Request, SettleNotSent(r)
      PROVE  StepsFit'
  BY <1>20, SettleSteps DEF StepsFit, Unsettled, Moves, Notes, Reads, Rest, At, TypeOK, Marks
<1>21. ASSUME NEW r \in Request, Reread(r)
      PROVE  StepsFit'
  BY <1>21, ReconcileMoves DEF StepsFit, Unsettled, Moves, Notes, Reads, Rest, At, TypeOK
<1>22. ASSUME NEW r \in Request, GmailTakes(r)
      PROVE  StepsFit'
  BY <1>22, GmailSteps DEF StepsFit, Unsettled, Moves, Notes, Reads, Rest, At, TypeOK
<1>23. ASSUME NEW r \in Request, Killed(r)
      PROVE  StepsFit'
  BY <1>23, QuietMoves DEF StepsFit, Unsettled, Moves, Notes, Reads, Rest, At, TypeOK
<1>24. CASE UNCHANGED vars
  BY <1>24 DEF vars, StepsFit, Unsettled, At, TypeOK
<1>25. ASSUME NEW k \in Key, LeaseRunsOut(k)
      PROVE  StepsFit'
  BY <1>25 DEF LeaseRunsOut, StepsFit, Unsettled, At, TypeOK
<1> QED
  BY <1>1, <1>2, <1>3, <1>4, <1>5, <1>6, <1>7, <1>8, <1>9, <1>10, <1>11, <1>12, <1>13,
     <1>14, <1>15, <1>16, <1>17, <1>18, <1>19, <1>20, <1>21, <1>22, <1>23, <1>24, <1>25 DEF
     Next, SendStep, ReconcileStep

(* No step undoes what Onward names.                                       *)
LEMMA OnwardStep ==
  ASSUME TypeOK, StepsFit, [Next]_vars
  PROVE  Onward
<1>1. ASSUME NEW r \in Request, Send(r)
      PROVE  Onward
  BY <1>1, QuietMoves DEF Onward, Unsettled, Moves, Notes, Reads, Rest, Claims, At, TypeOK, NoClaim
<1>2. ASSUME NEW r \in Request, InsertClaim(r)
      PROVE  Onward
  BY <1>2, InsertSteps DEF Onward, Unsettled, Moves, Notes, Reads, Rest, Claims, At, TypeOK, NoClaim
<1>3. ASSUME NEW r \in Request, ReadClaim(r)
      PROVE  Onward
  BY <1>3, NoteSteps DEF Onward, Unsettled, Moves, Notes, Reads, Rest, Claims, At, TypeOK, NoClaim
<1>4. ASSUME NEW r \in Request, Classify(r)
      PROVE  Onward
  BY <1>4, QuietMoves DEF Onward, Unsettled, Moves, Notes, Reads, Rest, Claims, At, TypeOK, NoClaim
<1>5. ASSUME NEW r \in Request, Expire(r)
      PROVE  Onward
  BY <1>5, MarkSteps DEF Onward, Unsettled, Moves, Notes, Reads, Rest, Claims, At, TypeOK,
     NoClaim, Marks
<1>6. ASSUME NEW r \in Request, Preflight(r)
      PROVE  Onward
  BY <1>6, QuietMoves DEF Onward, Unsettled, Moves, Notes, Reads, Rest, Claims, At, TypeOK, NoClaim
<1>7. ASSUME NEW r \in Request, CallGmail(r)
      PROVE  Onward
  BY <1>7, GmailSteps DEF Onward, StepsFit, HoldingSteps, Moves, At, TypeOK
<1>8. ASSUME NEW r \in Request, ReplyAccepted(r)
      PROVE  Onward
  BY <1>8, NoteSteps DEF Onward, Unsettled, Moves, Notes, Reads, Rest, Claims, At, TypeOK, NoClaim
<1>9. ASSUME NEW r \in Request, ReplyRefused(r)
      PROVE  Onward
  BY <1>9, QuietMoves DEF Onward, Unsettled, Moves, Notes, Reads, Rest, Claims, At, TypeOK, NoClaim
<1>10. ASSUME NEW r \in Request, NoReply(r)
      PROVE  Onward
  BY <1>10, QuietMoves DEF Onward, Unsettled, Moves, Notes, Reads, Rest, Claims, At, TypeOK, NoClaim
<1>11. ASSUME NEW r \in Request, MarkFailed(r)
      PROVE  Onward
  BY <1>11, MarkSteps DEF Onward, Unsettled, Moves, Notes, Reads, Rest, Claims, At, TypeOK,
     NoClaim, Marks
<1>12. ASSUME NEW r \in Request, MarkUnknown(r)
      PROVE  Onward
  BY <1>12, MarkSteps DEF Onward, Unsettled, Moves, Notes, Reads, Rest, Claims, At, TypeOK,
     NoClaim, Marks
<1>13. ASSUME NEW r \in Request, InsertEvidence(r)
      PROVE  Onward
  BY <1>13, EvidenceSteps DEF Onward, Unsettled, Moves, Notes, Reads, Rest, Claims, At,
     TypeOK, NoClaim
<1>14. ASSUME NEW r \in Request, KeepId(r)
      PROVE  Onward
  BY <1>14, MarkSteps DEF Onward, Unsettled, Moves, Notes, Reads, Rest, Claims, At, TypeOK,
     NoClaim, Marks
<1>15. ASSUME NEW r \in Request, Resolve(r)
      PROVE  Onward
  BY <1>15, MarkSteps DEF Onward, Unsettled, Moves, Notes, Reads, Rest, Claims, At, TypeOK,
     NoClaim, Marks
<1>16. ASSUME NEW r \in Request, Reconcile(r)
      PROVE  Onward
  BY <1>16, NoteSteps DEF Onward, Unsettled, Moves, Notes, Reads, Rest, Claims, At, TypeOK, NoClaim
<1>17. ASSUME NEW r \in Request, LookUpClaim(r)
      PROVE  Onward
  BY <1>17, NoteSteps DEF Onward, Unsettled, Moves, Notes, Reads, Rest, Claims, At, TypeOK, NoClaim
<1>18. ASSUME NEW r \in Request, Decide(r)
      PROVE  Onward
  BY <1>18, ReconcileMoves DEF Onward, Unsettled, Moves, Notes, Reads, Rest, Claims, At,
     TypeOK, NoClaim
<1>19. ASSUME NEW r \in Request, SettleSent(r)
      PROVE  Onward
  BY <1>19, SettleSteps DEF Onward, Unsettled, Moves, Notes, Reads, Rest, Claims, At,
     TypeOK, NoClaim, Marks
<1>20. ASSUME NEW r \in Request, SettleNotSent(r)
      PROVE  Onward
  BY <1>20, SettleSteps DEF Onward, Unsettled, Moves, Notes, Reads, Rest, Claims, At,
     TypeOK, NoClaim, Marks
<1>21. ASSUME NEW r \in Request, Reread(r)
      PROVE  Onward
  BY <1>21, ReconcileMoves DEF Onward, Unsettled, Moves, Notes, Reads, Rest, Claims, At,
     TypeOK, NoClaim
<1>22. ASSUME NEW r \in Request, GmailTakes(r)
      PROVE  Onward
  BY <1>22, GmailSteps DEF Onward, Unsettled, Moves, Notes, Reads, Rest, Claims, At, TypeOK, NoClaim
<1>23. ASSUME NEW r \in Request, Killed(r)
      PROVE  Onward
  BY <1>23, QuietMoves DEF Onward, Unsettled, Moves, Notes, Reads, Rest, Claims, At, TypeOK, NoClaim
<1>24. CASE UNCHANGED vars
  BY <1>24 DEF vars, Onward, Unsettled, At, TypeOK, NoClaim
<1>25. ASSUME NEW k \in Key, LeaseRunsOut(k)
      PROVE  Onward
  BY <1>25 DEF LeaseRunsOut, Onward, Unsettled, At, TypeOK, NoClaim
<1> QED
  BY <1>1, <1>2, <1>3, <1>4, <1>5, <1>6, <1>7, <1>8, <1>9, <1>10, <1>11, <1>12, <1>13,
     <1>14, <1>15, <1>16, <1>17, <1>18, <1>19, <1>20, <1>21, <1>22, <1>23, <1>24, <1>25 DEF
     Next, SendStep, ReconcileStep

\* At most one run becomes a holder, and it has just made the claim.
OneNewHolder == \E r \in Request : \A s \in Request :
                   Holding(s)' => \/ Holding(s)
                                  \/ s = r /\ claim[KeyOf(r)] = NoClaim /\ claim'[KeyOf(r)].status # "none"

(* No other step adds a holder.                                            *)
LEMMA HoldersStep ==
  ASSUME TypeOK, StepsFit, [Next]_vars
  PROVE  OneNewHolder \/ Request = {}
<1>1. ASSUME NEW r \in Request, Send(r)
      PROVE  OneNewHolder \/ Request = {}
  BY <1>1, QuietMoves DEF OneNewHolder, Holding, StepsFit, HoldingSteps, Moves, Notes,
     Reads, Rest, Claims, Marks, At, TypeOK
<1>2. ASSUME NEW r \in Request, InsertClaim(r)
      PROVE  OneNewHolder \/ Request = {}
  BY <1>2, InsertSteps DEF OneNewHolder, Holding, StepsFit, HoldingSteps, Moves, Notes,
     Reads, Rest, Claims, Marks, At, TypeOK
<1>3. ASSUME NEW r \in Request, ReadClaim(r)
      PROVE  OneNewHolder \/ Request = {}
  BY <1>3, NoteSteps DEF OneNewHolder, Holding, StepsFit, HoldingSteps, Moves, Notes, Reads,
     Rest, Claims, Marks, At, TypeOK
<1>4. ASSUME NEW r \in Request, Classify(r)
      PROVE  OneNewHolder \/ Request = {}
  BY <1>4, QuietMoves DEF OneNewHolder, Holding, StepsFit, HoldingSteps, Moves, Notes,
     Reads, Rest, Claims, Marks, At, TypeOK
<1>5. ASSUME NEW r \in Request, Expire(r)
      PROVE  OneNewHolder \/ Request = {}
  BY <1>5, MarkSteps DEF OneNewHolder, Holding, StepsFit, HoldingSteps, Moves, Notes, Reads,
     Rest, Claims, Marks, At, TypeOK, Marks
<1>6. ASSUME NEW r \in Request, Preflight(r)
      PROVE  OneNewHolder \/ Request = {}
  BY <1>6, QuietMoves DEF OneNewHolder, Holding, StepsFit, HoldingSteps, Moves, Notes,
     Reads, Rest, Claims, Marks, At, TypeOK
<1>7. ASSUME NEW r \in Request, CallGmail(r)
      PROVE  OneNewHolder \/ Request = {}
  BY <1>7, GmailSteps DEF OneNewHolder, Holding, StepsFit, HoldingSteps, Moves, Notes,
     Reads, Rest, Claims, Marks, At, TypeOK
<1>8. ASSUME NEW r \in Request, ReplyAccepted(r)
      PROVE  OneNewHolder \/ Request = {}
  BY <1>8, NoteSteps DEF OneNewHolder, Holding, StepsFit, HoldingSteps, Moves, Notes, Reads,
     Rest, Claims, Marks, At, TypeOK
<1>9. ASSUME NEW r \in Request, ReplyRefused(r)
      PROVE  OneNewHolder \/ Request = {}
  BY <1>9, QuietMoves DEF OneNewHolder, Holding, StepsFit, HoldingSteps, Moves, Notes,
     Reads, Rest, Claims, Marks, At, TypeOK
<1>10. ASSUME NEW r \in Request, NoReply(r)
      PROVE  OneNewHolder \/ Request = {}
  BY <1>10, QuietMoves DEF OneNewHolder, Holding, StepsFit, HoldingSteps, Moves, Notes,
     Reads, Rest, Claims, Marks, At, TypeOK
<1>11. ASSUME NEW r \in Request, MarkFailed(r)
      PROVE  OneNewHolder \/ Request = {}
  BY <1>11, MarkSteps DEF OneNewHolder, Holding, StepsFit, HoldingSteps, Moves, Notes,
     Reads, Rest, Claims, Marks, At, TypeOK, Marks
<1>12. ASSUME NEW r \in Request, MarkUnknown(r)
      PROVE  OneNewHolder \/ Request = {}
  BY <1>12, MarkSteps DEF OneNewHolder, Holding, StepsFit, HoldingSteps, Moves, Notes,
     Reads, Rest, Claims, Marks, At, TypeOK, Marks
<1>13. ASSUME NEW r \in Request, InsertEvidence(r)
      PROVE  OneNewHolder \/ Request = {}
  BY <1>13, EvidenceSteps DEF OneNewHolder, Holding, StepsFit, HoldingSteps, Moves, Notes,
     Reads, Rest, Claims, Marks, At, TypeOK
<1>14. ASSUME NEW r \in Request, KeepId(r)
      PROVE  OneNewHolder \/ Request = {}
  BY <1>14, MarkSteps DEF OneNewHolder, Holding, StepsFit, HoldingSteps, Moves, Notes,
     Reads, Rest, Claims, Marks, At, TypeOK, Marks
<1>15. ASSUME NEW r \in Request, Resolve(r)
      PROVE  OneNewHolder \/ Request = {}
  BY <1>15, MarkSteps DEF OneNewHolder, Holding, StepsFit, HoldingSteps, Moves, Notes,
     Reads, Rest, Claims, Marks, At, TypeOK, Marks
<1>16. ASSUME NEW r \in Request, Reconcile(r)
      PROVE  OneNewHolder \/ Request = {}
  BY <1>16, NoteSteps DEF OneNewHolder, Holding, StepsFit, HoldingSteps, Moves, Notes,
     Reads, Rest, Claims, Marks, At, TypeOK
<1>17. ASSUME NEW r \in Request, LookUpClaim(r)
      PROVE  OneNewHolder \/ Request = {}
  BY <1>17, NoteSteps DEF OneNewHolder, Holding, StepsFit, HoldingSteps, Moves, Notes,
     Reads, Rest, Claims, Marks, At, TypeOK
<1>18. ASSUME NEW r \in Request, Decide(r)
      PROVE  OneNewHolder \/ Request = {}
  BY <1>18, ReconcileMoves DEF OneNewHolder, Holding, StepsFit, HoldingSteps, Moves, Notes,
     Reads, Rest, Claims, Marks, At, TypeOK
<1>19. ASSUME NEW r \in Request, SettleSent(r)
      PROVE  OneNewHolder \/ Request = {}
  BY <1>19, SettleSteps DEF OneNewHolder, Holding, StepsFit, HoldingSteps, Moves, Notes,
     Reads, Rest, Claims, Marks, At, TypeOK, Marks
<1>20. ASSUME NEW r \in Request, SettleNotSent(r)
      PROVE  OneNewHolder \/ Request = {}
  BY <1>20, SettleSteps DEF OneNewHolder, Holding, StepsFit, HoldingSteps, Moves, Notes,
     Reads, Rest, Claims, Marks, At, TypeOK, Marks
<1>21. ASSUME NEW r \in Request, Reread(r)
      PROVE  OneNewHolder \/ Request = {}
  BY <1>21, ReconcileMoves DEF OneNewHolder, Holding, StepsFit, HoldingSteps, Moves, Notes,
     Reads, Rest, Claims, Marks, At, TypeOK
<1>22. ASSUME NEW r \in Request, GmailTakes(r)
      PROVE  OneNewHolder \/ Request = {}
  BY <1>22, GmailSteps DEF OneNewHolder, Holding, StepsFit, HoldingSteps, Moves, Notes,
     Reads, Rest, Claims, Marks, At, TypeOK
<1>23. ASSUME NEW r \in Request, Killed(r)
      PROVE  OneNewHolder \/ Request = {}
  BY <1>23, QuietMoves DEF OneNewHolder, Holding, StepsFit, HoldingSteps, Moves, Notes,
     Reads, Rest, Claims, Marks, At, TypeOK
<1>24. CASE UNCHANGED vars
  BY <1>24 DEF vars, OneNewHolder, Holding, StepsFit, HoldingSteps, Marks, At, TypeOK
<1>25. ASSUME NEW k \in Key, LeaseRunsOut(k)
      PROVE  OneNewHolder \/ Request = {}
  BY <1>25 DEF LeaseRunsOut, OneNewHolder, Holding, StepsFit, HoldingSteps, Marks, At, TypeOK
<1> QED
  BY <1>1, <1>2, <1>3, <1>4, <1>5, <1>6, <1>7, <1>8, <1>9, <1>10, <1>11, <1>12, <1>13,
     <1>14, <1>15, <1>16, <1>17, <1>18, <1>19, <1>20, <1>21, <1>22, <1>23, <1>24, <1>25 DEF
     Next, SendStep, ReconcileStep

(* A key keeps one holder.                                                 *)
LEMMA OneHolderStep ==
  ASSUME TypeOK, StepsFit, OneHolder, [Next]_vars
  PROVE  OneHolder'
<1>1. Onward
  BY OnwardStep
<1>2. OneNewHolder \/ Request = {}
  BY HoldersStep
<1>3. \A s \in Request : KeyOf(s)' = KeyOf(s) /\ KeyOf(s) \in Key
  BY <1>1 DEF Onward, KeyOf, TypeOK, Call
<1>4. CASE Request = {}
  BY <1>4 DEF OneHolder
<1>5. CASE OneNewHolder
  <2>1. PICK r \in Request : \A s \in Request :
            Holding(s)' => \/ Holding(s)
                           \/ s = r /\ claim[KeyOf(r)] = NoClaim /\ claim'[KeyOf(r)].status # "none"
    BY <1>5 DEF OneNewHolder
  <2>2. \A s \in Request : Holding(s)' => claim'[KeyOf(s)].status # "none"
    BY <1>1, <1>3, <2>1 DEF OneHolder, Onward
  <2>3. \A s, t \in Request : Holding(s)' /\ Holding(t)' /\ KeyOf(s) = KeyOf(t) => s = t
    BY <1>3, <2>1 DEF OneHolder, NoClaim
  <2> QED
    BY <1>3, <2>2, <2>3 DEF OneHolder
<1> QED
  BY <1>2, <1>4, <1>5

\* Every id that is kept is NoId or that of a message which had gone out for
\* its key before the step.
KeptIds ==
    /\ \A k \in Key : /\ evidence'[k] \in Mail(k) \cup {NoId}
                      /\ claim'[k].id \in Mail(k) \cup {NoId}
                      /\ claim'[k].status = "SENT" => claim'[k].id # NoId
    /\ \A s \in Request :
          /\ call'[s].id \in Mail(KeyOf(s)) \cup {NoId}
          /\ call'[s].op = "sent" \/ call'[s].at \in {"evidence", "unsaved", "resolve"} =>
                 call'[s].id # NoId

(* A step keeps no other ids.                                              *)
LEMMA KeptIdsStep ==
  ASSUME TypeOK, StepsFit, IdsAreReal, [Next]_vars
  PROVE  KeptIds
<1>k. \A s \in Request : KeyOf(s) \in Key
  BY DEF TypeOK, KeyOf, Call
<1>r. \A k \in Key : /\ NoId \notin Mail(k)
                     /\ \A s \in Request : gmail[s] = "accepted" /\ KeyOf(s) = k => s \in Mail(k)
  BY NoIdAssumption DEF Mail
<1>1. ASSUME NEW r \in Request, Send(r)
      PROVE  KeptIds
  BY <1>1, <1>k, QuietMoves DEF Moves, Rest, At, KeptIds, IdsAreReal, StepsFit, SendSteps
<1>2. ASSUME NEW r \in Request, InsertClaim(r)
      PROVE  KeptIds
  BY <1>2, <1>k, InsertSteps DEF Moves, Rest, At, KeptIds, IdsAreReal, Claims
<1>3. ASSUME NEW r \in Request, ReadClaim(r)
      PROVE  KeptIds
  BY <1>3, <1>k, NoteSteps DEF Moves, Rest, At, KeptIds, IdsAreReal, Reads, Notes
<1>4. ASSUME NEW r \in Request, Classify(r)
      PROVE  KeptIds
  BY <1>4, <1>k, QuietMoves DEF Moves, Rest, At, KeptIds, IdsAreReal, StepsFit, SendSteps
<1>5. ASSUME NEW r \in Request, Expire(r)
      PROVE  KeptIds
  <2>1. At(r, "expire") /\ Marks(r, {"CLAIMED"}, "UNKNOWN", claim[KeyOf(r)].id, "done", "needs_reconciliation")
    BY <1>5, MarkSteps
  <2> QED
    BY <2>1, <1>k DEF Moves, At, KeptIds, IdsAreReal, Marks
<1>6. ASSUME NEW r \in Request, Preflight(r)
      PROVE  KeptIds
  BY <1>6, <1>k, QuietMoves DEF Moves, Rest, At, KeptIds, IdsAreReal, StepsFit, SendSteps
<1>7. ASSUME NEW r \in Request, CallGmail(r)
      PROVE  KeptIds
  BY <1>7, <1>k, GmailSteps DEF Moves, Rest, At, KeptIds, IdsAreReal
<1>8. ASSUME NEW r \in Request, ReplyAccepted(r)
      PROVE  KeptIds
  BY <1>8, <1>k, <1>r, NoteSteps DEF Moves, Rest, At, KeptIds, IdsAreReal, Notes, StepsFit,
     SendSteps
<1>9. ASSUME NEW r \in Request, ReplyRefused(r)
      PROVE  KeptIds
  BY <1>9, <1>k, QuietMoves DEF Moves, Rest, At, KeptIds, IdsAreReal, StepsFit, SendSteps
<1>10. ASSUME NEW r \in Request, NoReply(r)
      PROVE  KeptIds
  BY <1>10, <1>k, QuietMoves DEF Moves, Rest, At, KeptIds, IdsAreReal, StepsFit, SendSteps
<1>11. ASSUME NEW r \in Request, MarkFailed(r)
      PROVE  KeptIds
  <2>1. At(r, "failing") /\ Marks(r, {"CLAIMED"}, "FAILED", claim[KeyOf(r)].id, "done", "refused")
    BY <1>11, MarkSteps
  <2> QED
    BY <2>1, <1>k DEF Moves, At, KeptIds, IdsAreReal, Marks
<1>12. ASSUME NEW r \in Request, MarkUnknown(r)
      PROVE  KeptIds
  <2>1. At(r, "unresolved") /\ Marks(r, {"CLAIMED"}, "UNKNOWN", claim[KeyOf(r)].id, "done", "outcome_unknown")
    BY <1>12, MarkSteps
  <2> QED
    BY <2>1, <1>k DEF Moves, At, KeptIds, IdsAreReal, Marks
<1>13. ASSUME NEW r \in Request, InsertEvidence(r)
      PROVE  KeptIds
  BY <1>13, <1>k, EvidenceSteps DEF Moves, Rest, At, KeptIds, IdsAreReal
<1>14. ASSUME NEW r \in Request, KeepId(r)
      PROVE  KeptIds
  <2>1. At(r, "unsaved") /\ Marks(r, {"CLAIMED"}, "UNKNOWN", call[r].id, "done", "evidence_failed")
    BY <1>14, MarkSteps
  <2> QED
    BY <2>1, <1>k DEF Moves, At, KeptIds, IdsAreReal, Marks
<1>15. ASSUME NEW r \in Request, Resolve(r)
      PROVE  KeptIds
  <2>1. At(r, "resolve") /\ Marks(r, {"CLAIMED"}, "SENT", call[r].id, "done", "sent")
    BY <1>15, MarkSteps
  <2> QED
    BY <2>1, <1>k DEF Moves, At, KeptIds, IdsAreReal, Marks
<1>16. ASSUME NEW r \in Request, Reconcile(r)
      PROVE  KeptIds
  BY <1>16, <1>k, <1>r, NoteSteps DEF Moves, Rest, At, KeptIds, IdsAreReal, Notes, StepsFit
<1>17. ASSUME NEW r \in Request, LookUpClaim(r)
      PROVE  KeptIds
  BY <1>17, <1>k, NoteSteps DEF Moves, Rest, At, KeptIds, IdsAreReal, Reads, Notes
<1>18. ASSUME NEW r \in Request, Decide(r)
      PROVE  KeptIds
  BY <1>18, <1>k, ReconcileMoves DEF Moves, Rest, At, KeptIds, IdsAreReal
<1>19. ASSUME NEW r \in Request, SettleSent(r)
      PROVE  KeptIds
  BY <1>19, <1>k, SettleSteps DEF Moves, Rest, At, KeptIds, IdsAreReal, Marks, Unsettled
<1>20. ASSUME NEW r \in Request, SettleNotSent(r)
      PROVE  KeptIds
  BY <1>20, <1>k, SettleSteps DEF Moves, Rest, At, KeptIds, IdsAreReal, Marks, Unsettled
<1>21. ASSUME NEW r \in Request, Reread(r)
      PROVE  KeptIds
  BY <1>21, <1>k, ReconcileMoves DEF Moves, Rest, At, KeptIds, IdsAreReal
<1>22. ASSUME NEW r \in Request, GmailTakes(r)
      PROVE  KeptIds
  BY <1>22, <1>k, GmailSteps DEF Moves, Rest, At, KeptIds, IdsAreReal
<1>23. ASSUME NEW r \in Request, Killed(r)
      PROVE  KeptIds
  BY <1>23, <1>k, QuietMoves DEF Moves, Rest, At, KeptIds, IdsAreReal, StepsFit, SendSteps
<1>24. CASE UNCHANGED vars
  BY <1>24 DEF vars, KeptIds, IdsAreReal, At
<1>25. ASSUME NEW k \in Key, LeaseRunsOut(k)
      PROVE  KeptIds
  BY <1>25 DEF LeaseRunsOut, KeptIds, IdsAreReal, At
<1> QED
  BY <1>1, <1>2, <1>3, <1>4, <1>5, <1>6, <1>7, <1>8, <1>9, <1>10, <1>11, <1>12, <1>13,
     <1>14, <1>15, <1>16, <1>17, <1>18, <1>19, <1>20, <1>21, <1>22, <1>23, <1>24, <1>25 DEF
     Next, SendStep, ReconcileStep

(* Every id that is kept stays the id of a message of that key.            *)
LEMMA IdsAreRealStep ==
  ASSUME TypeOK, StepsFit, IdsAreReal, [Next]_vars
  PROVE  IdsAreReal'
<1>1. KeptIds
  BY KeptIdsStep
<1>2. \A s \in Request : KeyOf(s) \in Key /\ call'[s].key = KeyOf(s)
  BY OnwardStep DEF Onward, TypeOK, KeyOf, Call
<1>3. \A k \in Key, s \in Request : gmail[s] = "accepted" /\ KeyOf(s) = k =>
                                     gmail'[s] = "accepted" /\ call'[s].key = k
  BY <1>2, OnwardStep DEF Onward
<1>4. \A k \in Key : \A m \in Mail(k) : m \in Request /\ gmail'[m] = "accepted" /\ call'[m].key = k
  BY <1>3 DEF Mail
<1>5. \A s \in Request : \A m \in Mail(KeyOf(s)) :
         m \in Request /\ gmail'[m] = "accepted" /\ call'[m].key = call'[s].key
  BY <1>2, <1>4
<1> QED
  BY <1>1, <1>4, <1>5 DEF KeptIds, IdsAreReal, Mail, KeyOf

\* What a run has seen, and what it may have answered.
Truthful ==
    \A s \in Request :
        /\ call'[s].seen \in {call[s].seen, NoClaim, claim[KeyOf(s)]}
        /\ call'[s].at = "resolve" => call[s].at = "resolve" \/ evidence'[KeyOf(s)] # NoId
        /\ call'[s].answer = "sent" => call[s].answer = "sent" \/ evidence'[KeyOf(s)] # NoId
        /\ call'[s].answer = "already_sent" => \/ call[s].answer = "already_sent"
                                               \/ evidence[KeyOf(s)] # NoId
                                               \/ claim[KeyOf(s)].status = "SENT"
        /\ call[s].op = "sent" /\ call[s].at \in {"evidence", "reread", "done", "dead"} =>
               call'[s].op = "sent" /\ call'[s].at \in {"evidence", "reread", "done", "dead"}

(* A step adds no other answers.                                           *)
LEMMA TruthfulStep ==
  ASSUME TypeOK, StepsFit, IdsAreReal, SeenIsPast, [Next]_vars
  PROVE  Truthful
<1>1. ASSUME NEW r \in Request, Send(r)
      PROVE  Truthful
  BY <1>1, QuietMoves DEF Moves, Rest, At, Truthful, StepsFit, SeenIsPast, SendSteps
<1>2. ASSUME NEW r \in Request, InsertClaim(r)
      PROVE  Truthful
  BY <1>2, InsertSteps DEF Moves, Rest, At, Truthful, StepsFit, Claims, SendSteps
<1>3. ASSUME NEW r \in Request, ReadClaim(r)
      PROVE  Truthful
  BY <1>3, NoteSteps DEF Moves, Rest, At, Truthful, StepsFit, Reads, Notes, SendSteps,
     ReconcileSteps
<1>4. ASSUME NEW r \in Request, Classify(r)
      PROVE  Truthful
  BY <1>4, QuietMoves DEF Moves, Rest, At, Truthful, StepsFit, SeenIsPast, SendSteps
<1>5. ASSUME NEW r \in Request, Expire(r)
      PROVE  Truthful
  BY <1>5, MarkSteps DEF Moves, Rest, At, Truthful, StepsFit, Marks, SeenIsPast, SendSteps
<1>6. ASSUME NEW r \in Request, Preflight(r)
      PROVE  Truthful
  BY <1>6, QuietMoves DEF Moves, Rest, At, Truthful, StepsFit, SeenIsPast, SendSteps
<1>7. ASSUME NEW r \in Request, CallGmail(r)
      PROVE  Truthful
  BY <1>7, GmailSteps DEF Moves, Rest, At, Truthful, StepsFit, SendSteps
<1>8. ASSUME NEW r \in Request, ReplyAccepted(r)
      PROVE  Truthful
  BY <1>8, NoteSteps DEF Moves, Rest, At, Truthful, StepsFit, Notes, SendSteps
<1>9. ASSUME NEW r \in Request, ReplyRefused(r)
      PROVE  Truthful
  BY <1>9, QuietMoves DEF Moves, Rest, At, Truthful, StepsFit, SeenIsPast, SendSteps
<1>10. ASSUME NEW r \in Request, NoReply(r)
      PROVE  Truthful
  BY <1>10, QuietMoves DEF Moves, Rest, At, Truthful, StepsFit, SeenIsPast, SendSteps
<1>11. ASSUME NEW r \in Request, MarkFailed(r)
      PROVE  Truthful
  BY <1>11, MarkSteps DEF Moves, Rest, At, Truthful, StepsFit, Marks, SeenIsPast, SendSteps
<1>12. ASSUME NEW r \in Request, MarkUnknown(r)
      PROVE  Truthful
  BY <1>12, MarkSteps DEF Moves, Rest, At, Truthful, StepsFit, Marks, SeenIsPast, SendSteps
<1>13. ASSUME NEW r \in Request, InsertEvidence(r)
      PROVE  Truthful
  BY <1>13, EvidenceSteps DEF Moves, Rest, At, Truthful, StepsFit, IdsAreReal
<1>14. ASSUME NEW r \in Request, KeepId(r)
      PROVE  Truthful
  BY <1>14, MarkSteps DEF Moves, Rest, At, Truthful, StepsFit, Marks, SeenIsPast, SendSteps
<1>15. ASSUME NEW r \in Request, Resolve(r)
      PROVE  Truthful
  BY <1>15, MarkSteps DEF Moves, Rest, At, Truthful, StepsFit, Marks, SeenIsPast, SendSteps
<1>16. ASSUME NEW r \in Request, Reconcile(r)
      PROVE  Truthful
  BY <1>16, NoteSteps DEF Moves, Rest, At, Truthful, StepsFit, Notes, SendSteps
<1>17. ASSUME NEW r \in Request, LookUpClaim(r)
      PROVE  Truthful
  BY <1>17, NoteSteps DEF Moves, Rest, At, Truthful, StepsFit, Reads, Notes, SendSteps,
     ReconcileSteps
<1>18. ASSUME NEW r \in Request, Decide(r)
      PROVE  Truthful
  BY <1>18, ReconcileMoves DEF Moves, Rest, At, Truthful, StepsFit, ReconcileSteps
<1>19. ASSUME NEW r \in Request, SettleSent(r)
      PROVE  Truthful
  BY <1>19, SettleSteps DEF Moves, Rest, At, Truthful, StepsFit, Marks, SeenIsPast, SendSteps
<1>20. ASSUME NEW r \in Request, SettleNotSent(r)
      PROVE  Truthful
  BY <1>20, SettleSteps DEF Moves, Rest, At, Truthful, StepsFit, Marks, SeenIsPast, SendSteps
<1>21. ASSUME NEW r \in Request, Reread(r)
      PROVE  Truthful
  <2>1. Rest /\ call[r].at = "reread"
    BY <1>21, ReconcileMoves DEF At
  <2>2. call[r].op \in Op
    BY DEF TypeOK, Call
  <2>3. call[r].op = "sent"
    BY <2>1, <2>2 DEF StepsFit, ReconcileSteps, Op
  <2>4. call[r].id # NoId
    BY <2>3 DEF IdsAreReal
  <2>5. PICK a \in {"overtaken", "sent"} :
           Moves(r, "done", a) /\ (a = "sent" => evidence[KeyOf(r)] # NoId)
    BY <1>21, <2>4, ReconcileMoves
  <2> QED
    BY <2>1, <2>3, <2>5 DEF Moves, Rest, Truthful
<1>22. ASSUME NEW r \in Request, GmailTakes(r)
      PROVE  Truthful
  BY <1>22, GmailSteps DEF Moves, Rest, At, Truthful, StepsFit
<1>23. ASSUME NEW r \in Request, Killed(r)
      PROVE  Truthful
  BY <1>23, QuietMoves DEF Moves, Rest, At, Truthful, StepsFit, SeenIsPast, SendSteps
<1>24. CASE UNCHANGED vars
  BY <1>24 DEF vars, Truthful, At
<1>25. ASSUME NEW k \in Key, LeaseRunsOut(k)
      PROVE  Truthful
  BY <1>25 DEF LeaseRunsOut, Truthful, At
<1> QED
  BY <1>1, <1>2, <1>3, <1>4, <1>5, <1>6, <1>7, <1>8, <1>9, <1>10, <1>11, <1>12, <1>13,
     <1>14, <1>15, <1>16, <1>17, <1>18, <1>19, <1>20, <1>21, <1>22, <1>23, <1>24, <1>25 DEF
     Next, SendStep, ReconcileStep

\* How a claim becomes SENT or FAILED.
Caused ==
    \A k \in Key :
        /\ claim'[k].status = "SENT" =>
              \/ claim[k].status = "SENT" \/ evidence'[k] # NoId
              \/ \E s \in Request : /\ KeyOf(s) = k /\ call'[s].op = "sent"
                                    /\ call'[s].at \in {"evidence", "reread", "done", "dead"}
        /\ claim'[k].status = "FAILED" =>
              \/ claim[k].status = "FAILED"
              \/ \E s \in Request : /\ KeyOf(s) = k /\ call'[s].at = "done"
                                    /\ \/ call'[s].op = "send" /\ call'[s].answer = "refused"
                                       \/ /\ call'[s].op = "not_sent"
                                          /\ call'[s].answer \in {"not_sent", "reconcile_unknown", "overtaken"}

(* A claim becomes SENT or FAILED in no other way.                         *)
LEMMA CausedStep ==
  ASSUME TypeOK, StepsFit, SeenIsPast, [Next]_vars
  PROVE  Caused
<1>1. ASSUME NEW r \in Request, Send(r)
      PROVE  Caused
  BY <1>1, QuietMoves DEF Moves, Rest, At, Caused
<1>2. ASSUME NEW r \in Request, InsertClaim(r)
      PROVE  Caused
  BY <1>2, InsertSteps DEF Moves, Rest, At, Caused, Claims, NoClaim
<1>3. ASSUME NEW r \in Request, ReadClaim(r)
      PROVE  Caused
  BY <1>3, NoteSteps DEF Moves, Rest, At, Caused
<1>4. ASSUME NEW r \in Request, Classify(r)
      PROVE  Caused
  BY <1>4, QuietMoves DEF Moves, Rest, At, Caused
<1>5. ASSUME NEW r \in Request, Expire(r)
      PROVE  Caused
  BY <1>5, MarkSteps DEF Moves, Rest, At, Caused, Marks, SeenIsPast, StepsFit, SendSteps
<1>6. ASSUME NEW r \in Request, Preflight(r)
      PROVE  Caused
  BY <1>6, QuietMoves DEF Moves, Rest, At, Caused
<1>7. ASSUME NEW r \in Request, CallGmail(r)
      PROVE  Caused
  BY <1>7, GmailSteps DEF Moves, Rest, At, Caused
<1>8. ASSUME NEW r \in Request, ReplyAccepted(r)
      PROVE  Caused
  BY <1>8, NoteSteps DEF Moves, Rest, At, Caused
<1>9. ASSUME NEW r \in Request, ReplyRefused(r)
      PROVE  Caused
  BY <1>9, QuietMoves DEF Moves, Rest, At, Caused
<1>10. ASSUME NEW r \in Request, NoReply(r)
      PROVE  Caused
  BY <1>10, QuietMoves DEF Moves, Rest, At, Caused
<1>11. ASSUME NEW r \in Request, MarkFailed(r)
      PROVE  Caused
  BY <1>11, MarkSteps DEF Moves, Rest, At, Caused, Marks, SeenIsPast, StepsFit, SendSteps
<1>12. ASSUME NEW r \in Request, MarkUnknown(r)
      PROVE  Caused
  BY <1>12, MarkSteps DEF Moves, Rest, At, Caused, Marks, SeenIsPast, StepsFit, SendSteps
<1>13. ASSUME NEW r \in Request, InsertEvidence(r)
      PROVE  Caused
  BY <1>13, EvidenceSteps DEF Moves, Rest, At, Caused
<1>14. ASSUME NEW r \in Request, KeepId(r)
      PROVE  Caused
  BY <1>14, MarkSteps DEF Moves, Rest, At, Caused, Marks, SeenIsPast, StepsFit, SendSteps
<1>15. ASSUME NEW r \in Request, Resolve(r)
      PROVE  Caused
  BY <1>15, MarkSteps DEF Moves, Rest, At, Caused, Marks, SeenIsPast, StepsFit, SendSteps
<1>16. ASSUME NEW r \in Request, Reconcile(r)
      PROVE  Caused
  BY <1>16, NoteSteps DEF Moves, Rest, At, Caused
<1>17. ASSUME NEW r \in Request, LookUpClaim(r)
      PROVE  Caused
  BY <1>17, NoteSteps DEF Moves, Rest, At, Caused
<1>18. ASSUME NEW r \in Request, Decide(r)
      PROVE  Caused
  BY <1>18, ReconcileMoves DEF Moves, Rest, At, Caused
<1>19. ASSUME NEW r \in Request, SettleSent(r)
      PROVE  Caused
  BY <1>19, SettleSteps DEF Moves, Rest, At, Caused, Marks, SeenIsPast, StepsFit, SendSteps
<1>20. ASSUME NEW r \in Request, SettleNotSent(r)
      PROVE  Caused
  BY <1>20, SettleSteps DEF Moves, Rest, At, Caused, Marks, SeenIsPast, StepsFit, SendSteps
<1>21. ASSUME NEW r \in Request, Reread(r)
      PROVE  Caused
  BY <1>21, ReconcileMoves DEF Moves, Rest, At, Caused
<1>22. ASSUME NEW r \in Request, GmailTakes(r)
      PROVE  Caused
  BY <1>22, GmailSteps DEF Moves, Rest, At, Caused
<1>23. ASSUME NEW r \in Request, Killed(r)
      PROVE  Caused
  BY <1>23, QuietMoves DEF Moves, Rest, At, Caused
<1>24. CASE UNCHANGED vars
  BY <1>24 DEF vars, Caused, At
<1>25. ASSUME NEW k \in Key, LeaseRunsOut(k)
      PROVE  Caused
  BY <1>25 DEF LeaseRunsOut, Caused, At
<1> QED
  BY <1>1, <1>2, <1>3, <1>4, <1>5, <1>6, <1>7, <1>8, <1>9, <1>10, <1>11, <1>12, <1>13,
     <1>14, <1>15, <1>16, <1>17, <1>18, <1>19, <1>20, <1>21, <1>22, <1>23, <1>24, <1>25 DEF
     Next, SendStep, ReconcileStep

(* What a run has seen of its key's claim stays true.                      *)
LEMMA SeenIsPastStep ==
  ASSUME TypeOK, StepsFit, IdsAreReal, SeenIsPast, [Next]_vars
  PROVE  SeenIsPast'
<1>1. Truthful /\ Onward
  BY TruthfulStep, OnwardStep
<1>2. \A s \in Request : KeyOf(s) \in Key /\ KeyOf(s)' = KeyOf(s)
  BY <1>1 DEF Onward, TypeOK, KeyOf, Call
<1> QED
  BY <1>1, <1>2 DEF Truthful, Onward, SeenIsPast, NoClaim, At

(* Verdicts stand.                                                         *)
LEMMA VerdictsStand ==
  ASSUME TypeOK, StepsFit, IdsAreReal, SeenIsPast, [Next]_vars, NEW k \in Key
  PROVE  /\ SentVerdict(k) => SentVerdict(k)'
         /\ NotSentVerdict(k) => NotSentVerdict(k)'
<1>1. Truthful /\ Onward
  BY TruthfulStep, OnwardStep
<1>2. \A s \in Request : KeyOf(s)' = KeyOf(s)
  BY <1>1 DEF Onward, KeyOf
<1>3. SentVerdict(k) => SentVerdict(k)'
  BY <1>1, <1>2 DEF Truthful, SentVerdict
<1>4. NotSentVerdict(k) => NotSentVerdict(k)'
  BY <1>1, <1>2 DEF Onward, NotSentVerdict, At
<1> QED
  BY <1>3, <1>4

(* No step makes an unrecorded success.                                    *)
LEMMA SuccessIsRecordedStep ==
  ASSUME TypeOK, StepsFit, IdsAreReal, SeenIsPast, SuccessIsRecorded, [Next]_vars
  PROVE  SuccessIsRecorded'
<1>1. Truthful /\ Caused /\ Onward
  BY TruthfulStep, CausedStep, OnwardStep
<1>2. \A s \in Request : KeyOf(s) \in Key /\ KeyOf(s)' = KeyOf(s)
  BY <1>1 DEF Onward, TypeOK, KeyOf, Call
<1>3. \A k \in Key : claim'[k].status = "SENT" =>
          claim[k].status = "SENT" \/ evidence'[k] # NoId \/ SentVerdict(k)'
  BY <1>1, <1>2 DEF Caused, SentVerdict
<1>4. \A k \in Key : SentVerdict(k) => SentVerdict(k)'
  BY VerdictsStand
<1>5. \A k \in Key : evidence[k] # NoId => evidence'[k] # NoId
  BY <1>1 DEF Onward
<1> HIDE DEF SentVerdict
<1> QED
  BY <1>1, <1>2, <1>3, <1>4, <1>5 DEF Truthful, SuccessIsRecorded

(* No step makes a FAILED claim without a cause.                           *)
LEMMA FailedHasCauseStep ==
  ASSUME TypeOK, StepsFit, IdsAreReal, SeenIsPast, FailedHasCause, [Next]_vars
  PROVE  FailedHasCause'
<1>1. Caused /\ Onward
  BY CausedStep, OnwardStep
<1>2. \A s \in Request : KeyOf(s)' = KeyOf(s)
  BY <1>1 DEF Onward, KeyOf
<1>3. \A s \in Request : call[s].answer = "refused" => call'[s] = call[s]
  BY <1>1 DEF Onward, StepsFit
<1> SUFFICES ASSUME NEW k \in Key, claim'[k].status = "FAILED"
             PROVE  \/ NotSentVerdict(k)'
                    \/ \E r \in Request : /\ KeyOf(r)' = k /\ call'[r].op = "send"
                                          /\ call'[r].answer = "refused"
  BY DEF FailedHasCause
<1>4. NotSentVerdict(k) => NotSentVerdict(k)'
  BY VerdictsStand
<1>5. CASE claim[k].status = "FAILED"
  BY <1>2, <1>3, <1>4, <1>5 DEF FailedHasCause
<1>6. CASE claim[k].status # "FAILED"
  BY <1>1, <1>2, <1>6 DEF Caused, NotSentVerdict, At
<1> QED
  BY <1>5, <1>6

-----------------------------------------------------------------------------
(* Theorems *)

(* Nothing has been claimed, sent or recorded.                             *)
LEMMA InitIInv == Init => IInv
<1> SUFFICES ASSUME Init PROVE IInv
  OBVIOUS
<1> USE DEF Init
<1>1. TypeOK
  BY DEF TypeOK, Id, Status, Claim, NoClaim, Op, Answers, Call
<1>2. \A r \in Request : /\ call[r].op = "send" /\ call[r].id = NoId /\ call[r].seen = NoClaim
                         /\ call[r].answer = "none" /\ call[r].at = "new" /\ KeyOf(r) \in Key
  BY DEF KeyOf
<1>3. StepsFit /\ OneHolder
  BY <1>2 DEF StepsFit, OneHolder, Holding, HoldingSteps, SendSteps, ReconcileSteps, At
<1>4. IdsAreReal /\ SeenIsPast /\ SuccessIsRecorded /\ FailedHasCause
  BY <1>2 DEF IdsAreReal, SeenIsPast, SuccessIsRecorded, FailedHasCause, NoClaim, At
<1> QED
  BY <1>1, <1>3, <1>4 DEF IInv

LEMMA NextIInv == IInv /\ [Next]_vars => IInv'
  BY TypeStep, StepsFitStep, OneHolderStep, IdsAreRealStep, SeenIsPastStep,
     SuccessIsRecordedStep, FailedHasCauseStep DEF IInv

(* The invariant of sending and reconciling: types, the fit of a run's      *)
(* step with what it holds, one holder for a key, ids that are those of     *)
(* messages, and a cause for every verdict.                                *)
THEOREM Invariant == Spec => []IInv
  BY InitIInv, NextIInv, PTL DEF Spec

(* Every variable keeps its type.                                          *)
THEOREM TypeCorrect == Spec => []TypeOK
<1>1. IInv => TypeOK
  BY DEF IInv
<1> QED
  BY <1>1, Invariant, PTL

(* Nobody is told that a message went out unless the ledger shows it, or    *)
(* an operator has said so.                                                *)
THEOREM Honest == Spec => []SuccessIsRecorded
<1>1. IInv => SuccessIsRecorded
  BY DEF IInv
<1> QED
  BY <1>1, Invariant, PTL

(* The holder of a FAILED claim is the run that was refused, and nobody     *)
(* else can have reached Gmail.                                            *)
LEMMA FailedIsRefused == IInv => FailedDespiteMail
<1> SUFFICES ASSUME IInv, NEW k \in Key, claim[k].status = "FAILED", ~NotSentVerdict(k),
                    NEW s \in Request, KeyOf(s) = k, gmail[s] # "none"
             PROVE  call[s].answer = "refused"
  BY DEF FailedDespiteMail
<1>1. PICK r \in Request : KeyOf(r) = k /\ call[r].op = "send" /\ call[r].answer = "refused"
  BY DEF IInv, FailedHasCause
<1>2. Holding(r) /\ Holding(s)
  BY <1>1 DEF IInv, StepsFit, Holding
<1>3. r = s
  BY <1>1, <1>2 DEF IInv, OneHolder
<1> QED
  BY <1>1, <1>3

(* A claim is FAILED although a message went out, or still may, only by an  *)
(* operator's verdict, or where Gmail's reply was an error or unreadable.  *)
THEOREM Failed == Spec => []FailedDespiteMail
  BY FailedIsRefused, Invariant, PTL

(* A claim that is SENT stays as it is.                                    *)
THEOREM Final == Spec => SentIsFinal
<1>1. IInv /\ [Next]_vars => [\A k \in Key : claim[k].status = "SENT" => claim'[k] = claim[k]]_vars
  BY OnwardStep DEF IInv, Onward
<1> QED
  BY <1>1, Invariant, PTL DEF Spec, SentIsFinal

LEMMA InitLedger == Init => Ledger!Init
<1> SUFFICES ASSUME Init PROVE Ledger!Init
  OBVIOUS
<1>1. \A k \in Key : Mail(k) = {}
  BY DEF Init, Mail
<1> QED
  BY <1>1 DEF Init, Ledger!Init

(* Gmail takes the message of a key's only holder.                         *)
LEMMA FirstMail ==
  ASSUME IInv, NEW r \in Request, gmail[r] = "pending"
  PROVE  Mail(KeyOf(r)) = {}
<1> SUFFICES ASSUME NEW s \in Mail(KeyOf(r)) PROVE FALSE
  OBVIOUS
<1>1. s \in Request /\ gmail[s] = "accepted" /\ KeyOf(s) = KeyOf(r)
  BY DEF Mail
<1>2. Holding(r) /\ Holding(s)
  BY <1>1 DEF IInv, StepsFit, Holding
<1> QED
  BY <1>1, <1>2 DEF IInv, OneHolder

(* Every step is a delivery, a record, or nothing to the ledger.           *)
LEMMA StepLedger ==
  ASSUME IInv, IInv', [Next]_vars
  PROVE  [Ledger!Next]_<<[k \in Key |-> Mail(k)], evidence>>
<1> DEFINE Goal == [Ledger!Next]_<<[k \in Key |-> Mail(k)], evidence>>
<1>k. \A s \in Request : KeyOf(s) \in Key /\ KeyOf(s)' = KeyOf(s) /\ call'[s].key = call[s].key
  BY OnwardStep DEF IInv, Onward, TypeOK, KeyOf, Call
<1>m. ASSUME \A s \in Request : gmail'[s] = "accepted" <=> gmail[s] = "accepted"
      PROVE  [k \in Key |-> Mail(k)]' = [k \in Key |-> Mail(k)]
  BY <1>k, <1>m DEF Mail, KeyOf
<1>1. CASE UNCHANGED <<evidence, gmail>>
  BY <1>1, <1>m
<1>2. ASSUME NEW r \in Request, CallGmail(r) PROVE Goal
  <2>1. /\ gmail' = [gmail EXCEPT ![r] = "pending"] /\ UNCHANGED evidence
        /\ At(r, "holding")
    BY <1>2 DEF CallGmail
  <2>2. gmail[r] = "none" /\ gmail \in [Request -> {"none", "pending", "accepted", "refused"}]
    BY <2>1 DEF IInv, TypeOK, StepsFit, HoldingSteps, At
  <2>3. \A s \in Request : gmail'[s] = "accepted" <=> gmail[s] = "accepted"
    BY <2>1, <2>2
  <2> QED
    BY <1>m, <2>1, <2>3
<1>3. ASSUME NEW r \in Request, GmailTakes(r) PROVE Goal
  <2>1. gmail[r] = "pending" /\ UNCHANGED <<evidence, call>>
    BY <1>3 DEF GmailTakes
  <2>2. gmail \in [Request -> {"none", "pending", "accepted", "refused"}]
    BY DEF IInv, TypeOK
  <2>3. CASE gmail' = [gmail EXCEPT ![r] = "refused"]
    <3>1. \A s \in Request : gmail'[s] = "accepted" <=> gmail[s] = "accepted"
      BY <2>1, <2>2, <2>3
    <3> QED
      BY <1>m, <2>1, <3>1
  <2>4. CASE gmail' = [gmail EXCEPT ![r] = "accepted"]
    <3>1. Mail(KeyOf(r)) = {}
      BY <2>1, FirstMail
    <3>2. \A s \in Request : gmail'[s] = "accepted" <=> gmail[s] = "accepted" \/ s = r
      BY <2>1, <2>2, <2>4
    <3>3. \A k \in Key : Mail(k)' = IF k = KeyOf(r) THEN {r} ELSE Mail(k)
      BY <1>k, <3>1, <3>2 DEF Mail, KeyOf
    <3>4. [k \in Key |-> Mail(k)]' = [[k \in Key |-> Mail(k)] EXCEPT ![KeyOf(r)] = {r}]
      BY <1>k, <3>3
    <3>5. Ledger!Deliver(KeyOf(r))
      BY <1>k, <2>1, <3>1, <3>4 DEF Ledger!Deliver
    <3> QED
      BY <1>k, <3>5 DEF Ledger!Next
  <2> QED
    BY <1>3, <2>3, <2>4 DEF GmailTakes
<1>4. ASSUME NEW r \in Request, InsertEvidence(r) PROVE Goal
  <2>1. At(r, "evidence") /\ UNCHANGED gmail /\ (Recorded(r) \/ UNCHANGED evidence)
    BY <1>4 DEF InsertEvidence
  <2>2. [k \in Key |-> Mail(k)]' = [k \in Key |-> Mail(k)]
    BY <1>m, <2>1
  <2>3. call[r].id \in Mail(KeyOf(r))
    BY <2>1 DEF IInv, IdsAreReal, At
  <2>4. CASE UNCHANGED evidence
    BY <2>2, <2>4
  <2>5. CASE evidence' = [evidence EXCEPT ![KeyOf(r)] = call[r].id] /\ evidence[KeyOf(r)] = NoId
    <3>1. Ledger!Record(KeyOf(r))
      BY <1>k, <2>2, <2>3, <2>5 DEF Ledger!Record
    <3> QED
      BY <1>k, <3>1 DEF Ledger!Next
  <2> QED
    BY <2>1, <2>4, <2>5 DEF Recorded
<1>5. ASSUME NEW r \in Request,
             \/ Send(r) \/ InsertClaim(r) \/ ReadClaim(r) \/ Classify(r) \/ Expire(r) \/ Preflight(r)
             \/ ReplyAccepted(r) \/ ReplyRefused(r) \/ NoReply(r) \/ MarkFailed(r) \/ MarkUnknown(r)
             \/ KeepId(r) \/ Resolve(r) \/ Reconcile(r) \/ ReconcileStep(r) \/ Killed(r)
      PROVE  UNCHANGED <<evidence, gmail>>
  BY <1>5 DEF Send, InsertClaim, ReadClaim, Classify, Expire, Preflight, ReplyAccepted,
     ReplyRefused,
              NoReply, MarkFailed, MarkUnknown, KeepId, Resolve, Reconcile, ReconcileStep, LookUpClaim,
              Decide, SettleSent, SettleNotSent, Reread, Killed
<1>6. (\E k \in Key : LeaseRunsOut(k)) \/ UNCHANGED vars => UNCHANGED <<evidence, gmail>>
  BY DEF LeaseRunsOut, vars
<1> QED
  BY <1>1, <1>2, <1>3, <1>4, <1>5, <1>6 DEF Next, SendStep

(* Sending and reconciling keep the promise of the ledger.                 *)
THEOREM Refinement == Spec => ImplementsLedger
  BY InitLedger, StepLedger, Invariant, PTL DEF Spec, ImplementsLedger, Ledger!Spec

=============================================================================
