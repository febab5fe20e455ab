------------------------ MODULE ResponsibilityProofs ------------------------
(***************************************************************************)
(* Theorems about ResponsibilityWrites: for any number of calls running at *)
(* the same time, any geography, any invitations and any roster.           *)
(***************************************************************************)
EXTENDS ResponsibilityWrites, TLAPS

USE DEF Fresh, Time, EventId, Occupant, Row, Event, Request, Call, Idle, InFlight

(* The initial state satisfies the inductive invariant.                     *)
LEMMA InitIInv == Init => IInv
<1> SUFFICES ASSUME Init PROVE IInv
  OBVIOUS
<1> USE DEF Init, NoRow
<1>1. TypeOK
  <2>1. overlapped \in BOOLEAN
    OBVIOUS
  <2>2. fresh \in 0..MaxRequest /\ now \in Time
    BY LimitAssumption
  <2>3. slots \in [Slot -> Row] /\ call \in [Session -> Call]
    OBVIOUS
  <2> QED
    BY <2>1, <2>2, <2>3 DEF TypeOK
<1>2. RequestsInOrder /\ CallsInOrder /\ LogInOrder
  BY DEF RequestsInOrder, CallsInOrder, LogInOrder
<1>3. SerialCalls
  BY DEF SerialCalls
<1>4. OneIdentityPerSlot
  BY DEF OneIdentityPerSlot
<1>5. AnsweredWasDone /\ WrittenWithAuthority /\ answered \subseteq sent
  BY DEF AnsweredWasDone, WrittenWithAuthority
<1>6. SerialWritesFollowLog
  BY DEF SerialWritesFollowLog, RowsFollowLog, HandoverChain
<1> QED
  BY <1>1, <1>2, <1>3, <1>4, <1>5, <1>6 DEF IInv

\* A request some client may send, or has sent before.
Sendable(r) ==
    \/ fresh < MaxRequest /\ \E u \in User : r \in Prepared(u)
    \/ \E u \in User : r \in Accepting(u)
    \/ r \in sent

(* A request prepared in the UI has a fresh id and claims an office.        *)
LEMMA PreparedRequest ==
  ASSUME TypeOK, NEW u \in User, NEW r \in Prepared(u), fresh < MaxRequest
  PROVE  r \in Request /\ r.id = fresh + 1 /\ r.id \in Fresh /\ r.by = u /\ r.via = "office"
<1>1. r.id = fresh + 1 /\ r.by = u /\ r.via = "office" /\ r.slot \in Slot
  BY DEF Prepared
<1>2. fresh + 1 \in Fresh
  BY LimitAssumption DEF TypeOK
<1>3. r \in [id : {fresh + 1}, by : {u}, slot : Slot, to : Occupant, expected : Occupant,
            via : {"office"}]
  BY DEF Prepared
<1>4. r \in Request
  BY <1>2, <1>3
<1> QED
  BY <1>1, <1>2, <1>4

(* Accepting an invitation asks for a slot for oneself, with one's own id.  *)
LEMMA AcceptingRequest ==
  ASSUME NEW u \in User, NEW r \in Accepting(u)
  PROVE  /\ r \in Request /\ r.id = u /\ r.by = u /\ r.to = u /\ r.expected = Nobody
         /\ r.via = "invitation" /\ <<u, r.slot>> \in Granted
  BY PeopleAssumption DEF Accepting

(* Requests are equal when their fields are.                                *)
LEMMA SameRequest ==
  ASSUME NEW r \in Request, NEW q \in Request, r.id = q.id, r.by = q.by, r.slot = q.slot,
         r.to = q.to, r.expected = q.expected, r.via = q.via
  PROVE  r = q
  OBVIOUS

(* The ids of the two kinds of request never meet.                          *)
LEMMA SentIds ==
  ASSUME TypeOK, RequestsInOrder, NEW q \in sent
  PROVE  /\ q \in Request
         /\ q.via = "office" => q.id \in 1..fresh /\ q.id \notin User
         /\ q.via = "invitation" => q.id \in User /\ q.id \notin Fresh
         /\ q.via \in {"office", "invitation"}
<1>1. q \in Request
  BY DEF TypeOK
<1>2. CASE q.via = "office"
  <2>1. q.id \in 1..fresh
    BY <1>2 DEF RequestsInOrder
  <2>2. q.id \in Fresh
    BY <2>1, LimitAssumption DEF TypeOK
  <2>3. q.id \notin User
    BY <2>2, IdAssumption
  <2> QED
    BY <1>1, <1>2, <2>1, <2>3
<1>3. CASE q.via = "invitation"
  <2>1. q.id \in User
    BY <1>1, <1>3 DEF RequestsInOrder
  <2> QED
    BY <1>1, <1>3, <2>1, IdAssumption
<1> QED
  BY <1>1, <1>2, <1>3

(* A sendable request is well formed, and keeps the requests in order.      *)
LEMMA SendableRequest ==
  ASSUME TypeOK, RequestsInOrder, NEW r, Sendable(r),
         sent' = sent \cup {r},
         fresh' = IF r.via = "invitation" \/ r \in sent THEN fresh ELSE fresh + 1
  PROVE  /\ r \in Request /\ fresh' \in 0..MaxRequest /\ fresh <= fresh'
         /\ RequestsInOrder'
<1>1. ASSUME fresh < MaxRequest, NEW u \in User, r \in Prepared(u)
      PROVE  /\ r \in Request /\ fresh' \in 0..MaxRequest /\ fresh <= fresh'
             /\ RequestsInOrder'
  <2>1. r \in Request /\ r.id = fresh + 1 /\ r.id \in Fresh /\ r.via = "office"
    BY <1>1, PreparedRequest
  <2>2. \A q \in sent : q.id # r.id
    <3> SUFFICES ASSUME NEW q \in sent, q.id = r.id PROVE FALSE
      OBVIOUS
    <3>1. q.via = "office" /\ q.id \in 1..fresh
      BY <2>1, SentIds
    <3> QED
      BY <2>1, <3>1 DEF TypeOK
  <2>3. r \notin sent
    BY <2>2
  <2>4. fresh' = fresh + 1
    BY <2>1, <2>3
  <2>5. ASSUME NEW q \in sent'
        PROVE  /\ q.via = "office" => q.id \in 1..fresh'
               /\ q.via = "invitation" => /\ q.id = q.by /\ q.to = q.by /\ q.expected = Nobody
                                         /\ <<q.by, q.slot>> \in Granted
    <3>1. CASE q = r
      BY <2>1, <2>4, <3>1 DEF TypeOK
    <3>2. CASE q \in sent
      BY <2>4, <3>2 DEF RequestsInOrder, TypeOK
    <3> QED
      BY <3>1, <3>2
  <2>6. \A q, p \in sent' : q.id = p.id /\ q.slot = p.slot => q = p
    BY <2>2 DEF RequestsInOrder
  <2>7. RequestsInOrder'
    BY <2>5, <2>6 DEF RequestsInOrder
  <2> QED
    BY <1>1, <2>1, <2>4, <2>7 DEF TypeOK
<1>2. ASSUME NEW u \in User, r \in Accepting(u)
      PROVE  /\ r \in Request /\ fresh' \in 0..MaxRequest /\ fresh <= fresh'
             /\ RequestsInOrder'
  <2>1. /\ r \in Request /\ r.id = u /\ r.by = u /\ r.to = u /\ r.expected = Nobody
        /\ r.via = "invitation" /\ <<u, r.slot>> \in Granted
    BY <1>2, AcceptingRequest
  <2>2. ASSUME NEW q \in sent, q.id = r.id, q.slot = r.slot PROVE q = r
    <3>1. q \in Request /\ q.via = "invitation"
      BY <2>1, <2>2, SentIds
    <3>2. q.by = u /\ q.to = u /\ q.expected = Nobody
      BY <2>1, <2>2, <3>1 DEF RequestsInOrder
    <3> QED
      BY <2>1, <2>2, <3>1, <3>2, SameRequest
  <2>3. fresh' = fresh
    BY <2>1
  <2>4. ASSUME NEW q \in sent'
        PROVE  /\ q.via = "office" => q.id \in 1..fresh'
               /\ q.via = "invitation" => /\ q.id = q.by /\ q.to = q.by /\ q.expected = Nobody
                                         /\ <<q.by, q.slot>> \in Granted
    <3>1. CASE q = r
      BY <2>1, <3>1
    <3>2. CASE q \in sent
      BY <2>3, <3>2 DEF RequestsInOrder
    <3> QED
      BY <3>1, <3>2
  <2>5. \A q, p \in sent' : q.id = p.id /\ q.slot = p.slot => q = p
    BY <2>2 DEF RequestsInOrder
  <2>6. RequestsInOrder'
    BY <2>4, <2>5 DEF RequestsInOrder
  <2> QED
    BY <2>1, <2>3, <2>6 DEF TypeOK
<1>3. CASE r \in sent
  <2>1. sent' = sent /\ fresh' = fresh
    BY <1>3
  <2> QED
    BY <1>3, <2>1 DEF RequestsInOrder, TypeOK
<1> QED
  BY <1>1, <1>2, <1>3 DEF Sendable

(* A running call has one of the two shapes.                                *)
LEMMA CallShape ==
  ASSUME TypeOK, NEW s \in Session
  PROVE  \/ call[s] = Idle /\ call[s].step = "idle"
         \/ /\ call[s].step = "authorised" /\ call[s] # Idle
            /\ call[s].req \in Request /\ call[s].at \in Time
         \/ /\ call[s].step = "decided" /\ call[s] # Idle
            /\ call[s].req \in Request /\ call[s].at \in Time
            /\ call[s].previous \in Occupant /\ call[s].resp \in EventId
            /\ call[s].kind \in {"assigned", "reassigned"}
<1>1. call[s] \in Call
  BY DEF TypeOK
<1> QED
  BY <1>1

(* Beginning a call keeps the types.                                        *)
LEMMA BeginTypeOK ==
  ASSUME TypeOK, RequestsInOrder, NEW s \in Session, NEW r, Sendable(r), Begin(s, r)
  PROVE  TypeOK'
<1>1. r \in Request /\ fresh' \in 0..MaxRequest
  BY SendableRequest DEF Begin
<1>2. now \in Time /\ now' \in Time
  BY LimitAssumption DEF Begin, TypeOK
<1>3. call' \in [Session -> Call]
  <2>1. [step |-> "authorised", req |-> r, at |-> now] \in Call
    BY <1>1, <1>2
  <2> QED
    BY <2>1 DEF Begin, TypeOK
<1>4. sent' \subseteq Request /\ stale' \subseteq Request
  BY <1>1 DEF Begin, TypeOK
<1> QED
  BY <1>1, <1>2, <1>3, <1>4 DEF Begin, TypeOK

(* Deciding keeps the types.                                                *)
LEMMA DecideTypeOK ==
  ASSUME TypeOK, NEW s \in Session, Decide(s)
  PROVE  TypeOK'
<1>1. call[s].req \in Request /\ call[s].at \in Time
  BY CallShape DEF Decide
<1>2. slots[call[s].req.slot] \in Row
  BY <1>1 DEF TypeOK
<1>3. call' \in [Session -> Call]
  <2> DEFINE c == call[s]
             row == slots[c.req.slot]
             d == [step |-> "decided", req |-> c.req, at |-> c.at, previous |-> row.holder,
                   kind |-> IF row.resp = Nobody THEN "assigned" ELSE "reassigned",
                   resp |-> IF row.resp = Nobody THEN c.req.id ELSE row.resp]
  <2>1. c.req.id \in EventId
    BY <1>1
  <2>2. d.resp \in EventId /\ d.kind \in {"assigned", "reassigned"}
    BY <1>2, <2>1
  <2>3. d \in Call
    BY <1>1, <1>2, <2>2
  <2>4. call' = [call EXCEPT ![s] = d]
    BY DEF Decide
  <2> QED
    BY <2>3, <2>4 DEF TypeOK
<1> QED
  BY <1>3 DEF Decide, TypeOK

(* The event of a decided call is an event.                                 *)
LEMMA EventOfType ==
  ASSUME TypeOK, NEW s \in Session, call[s].step = "decided"
  PROVE  EventOf(call[s]) \in Event
  BY CallShape DEF EventOf

(* Committing keeps the types.                                              *)
LEMMA CommitTypeOK ==
  ASSUME TypeOK, NEW s \in Session, Commit(s)
  PROVE  TypeOK'
<1>1. /\ call[s].req \in Request /\ call[s].resp \in EventId
  BY CallShape DEF Commit
<1>2. log' \subseteq Event
  BY EventOfType DEF Commit, TypeOK
<1>3. slots' \in [Slot -> Row]
  <2> DEFINE q == call[s].req
             row == [resp |-> IF slots[q.slot].resp = Nobody THEN call[s].resp
                              ELSE slots[q.slot].resp,
                     holder |-> q.to, event |-> q.id]
  <2>1. slots[q.slot] \in Row
    BY <1>1 DEF TypeOK
  <2>2. row \in Row
    BY <1>1, <2>1
  <2>3. slots' = [slots EXCEPT ![q.slot] = row]
    BY DEF Commit
  <2> QED
    BY <2>2, <2>3 DEF TypeOK
<1>4. answered' \subseteq Request /\ call' \in [Session -> Call]
  BY <1>1 DEF Commit, TypeOK
<1>5. overlapped' \in BOOLEAN
  BY DEF Commit, TypeOK
<1> QED
  BY <1>2, <1>3, <1>4, <1>5 DEF Commit, TypeOK

(* Ending a call without writing keeps the types.                           *)
LEMMA OtherTypeOK ==
  ASSUME TypeOK, NEW s \in Session, AnswerRetry(s) \/ Rollback(s)
  PROVE  TypeOK'
<1>1. call' \in [Session -> Call]
  BY DEF AnswerRetry, Rollback, TypeOK
<1>2. answered' \subseteq Request
  BY CallShape DEF AnswerRetry, Rollback, TypeOK
<1> QED
  BY <1>1, <1>2 DEF AnswerRetry, Rollback, TypeOK

(* What warrants a request that was authorised.                             *)
LEMMA AuthorisedIsWarranted ==
  ASSUME IInv, NEW r \in Request, Authorised(r), r.via = "invitation" => r.to = r.by
  PROVE  Warranted(r.by, r.slot, r.to)
<1>1. CASE r.via = "invitation"
  BY <1>1 DEF Authorised, Warranted
<1>2. CASE r.by \in Leader
  BY <1>2 DEF Warranted
<1>3. CASE r.via # "invitation" /\ r.by \notin Leader
  <2>1. /\ Level[r.slot] \in {"ward", "polling_unit"}
        /\ Holds(r.by, Parent[r.slot]) \/ FirstAssigned(r.by, Parent[r.slot])
    BY <1>3 DEF Authorised, Delegated
  <2>2. r.by \in Person /\ r.by # Nobody
    BY PeopleAssumption
  <2>3. CASE Holds(r.by, Parent[r.slot])
    <3>1. Parent[r.slot] \in Slot /\ slots[Parent[r.slot]].holder = r.by
      BY <2>3 DEF Holds
    <3>2. slots[Parent[r.slot]].resp # Nobody
      BY <2>2, <3>1 DEF IInv, LogInOrder
    <3>3. \E e \in log : e.slot = Parent[r.slot] /\ e.holder = slots[Parent[r.slot]].holder
      BY <3>1, <3>2 DEF IInv, OneIdentityPerSlot
    <3> QED
      BY <3>1, <3>3 DEF Warranted
  <2>4. CASE FirstAssigned(r.by, Parent[r.slot])
    BY <2>4 DEF FirstAssigned, Warranted
  <2> QED
    BY <2>1, <2>3, <2>4
<1> QED
  BY <1>1, <1>2, <1>3

(* Beginning a call.                                                        *)
LEMMA BeginIInv ==
  ASSUME IInv, NEW s \in Session, NEW r, Sendable(r), Begin(s, r)
  PROVE  IInv'
<1> USE DEF IInv
<1>1. TypeOK'
  BY BeginTypeOK
<1>2. r \in Request /\ RequestsInOrder' /\ sent' = sent \cup {r}
  BY SendableRequest DEF Begin
<1>3. now' = now + 1 /\ now \in Int /\ log' = log /\ slots' = slots
  BY DEF Begin, TypeOK
<1>4. call' = [call EXCEPT ![s] = [step |-> "authorised", req |-> r, at |-> now]]
  BY DEF Begin
<1>5. CallsInOrder'
  <2>1. Warranted(r.by, r.slot, r.to)
    <3>1. r.via = "invitation" => r.to = r.by
      BY <1>2 DEF RequestsInOrder
    <3> QED
      BY <1>2, <3>1, AuthorisedIsWarranted DEF Begin
  <2> SUFFICES ASSUME NEW o \in Session, call'[o] # Idle
               PROVE  /\ call'[o].req \in sent' /\ call'[o].at < now'
                      /\ Warranted(call'[o].req.by, call'[o].req.slot, call'[o].req.to)
                      /\ call'[o].step = "decided" =>
                           /\ call'[o].previous = call'[o].req.expected
                           /\ IF call'[o].kind = "assigned"
                              THEN call'[o].resp = call'[o].req.id
                              ELSE /\ call'[o].resp = slots[call'[o].req.slot].resp
                                   /\ call'[o].resp # Nobody
    BY <1>3 DEF CallsInOrder, Warranted
  <2>2. CASE o = s
    <3>1. call'[o] = [step |-> "authorised", req |-> r, at |-> now]
      BY <1>4, <2>2 DEF TypeOK
    <3> QED
      BY <1>2, <1>3, <2>1, <3>1
  <2>3. CASE o # s
    <3>1. call'[o] = call[o] /\ InFlight(o)
      BY <1>4, <2>3 DEF TypeOK
    <3>2. call[o].at \in Int
      BY <3>1, CallShape
    <3> QED
      BY <1>2, <1>3, <3>1, <3>2 DEF CallsInOrder
  <2> QED
    BY <2>2, <2>3
<1>6. LogInOrder'
  <2>1. \A e \in log : e.at \in Int
    BY DEF TypeOK
  <2> QED
    BY <1>2, <1>3, <2>1 DEF LogInOrder
<1>7. SerialCalls'
  <2> SUFFICES ASSUME ~overlapped, NEW o \in Session, call'[o] # Idle
               PROVE  /\ \A e \in log : e.at < call'[o].at
                      /\ call'[o].step = "decided" =>
                           call'[o].previous = slots[call'[o].req.slot].holder
    BY <1>3 DEF SerialCalls, Begin
  <2>1. CASE o = s
    <3>1. call'[o] = [step |-> "authorised", req |-> r, at |-> now]
      BY <1>4, <2>1 DEF TypeOK
    <3> QED
      BY <3>1 DEF LogInOrder
  <2>2. CASE o # s
    <3>1. call'[o] = call[o] /\ InFlight(o)
      BY <1>4, <2>2 DEF TypeOK
    <3> QED
      BY <3>1 DEF SerialCalls
  <2> QED
    BY <2>1, <2>2
<1>8. OneIdentityPerSlot' /\ WrittenWithAuthority'
  BY <1>3 DEF OneIdentityPerSlot, WrittenWithAuthority, Warranted
<1>9. AnsweredWasDone' /\ answered' \subseteq sent'
  BY <1>3 DEF AnsweredWasDone, Begin
<1>10. SerialWritesFollowLog'
  BY <1>3 DEF SerialWritesFollowLog, RowsFollowLog, HandoverChain, Folded, IsNewest, Begin
<1> QED
  BY <1>1, <1>2, <1>5, <1>6, <1>7, <1>8, <1>9, <1>10

(* Steps that leave the log and the slots alone and end a call.             *)
LEMMA EndIInv ==
  ASSUME IInv, NEW s \in Session, AnswerRetry(s) \/ Rollback(s)
  PROVE  IInv'
<1> USE DEF IInv
<1>1. TypeOK'
  BY OtherTypeOK
<1>2. UNCHANGED <<slots, log, sent, fresh, now, overlapped>>
  BY DEF AnswerRetry, Rollback
<1>3. \A o \in Session : call'[o] # Idle => call'[o] = call[o] /\ InFlight(o)
  BY DEF AnswerRetry, Rollback, TypeOK
<1>4. RequestsInOrder' /\ LogInOrder' /\ OneIdentityPerSlot' /\ WrittenWithAuthority'
  BY <1>2 DEF RequestsInOrder, LogInOrder, OneIdentityPerSlot, WrittenWithAuthority, Warranted
<1>5. CallsInOrder'
  BY <1>2, <1>3 DEF CallsInOrder, Warranted
<1>6. SerialCalls'
  BY <1>2, <1>3 DEF SerialCalls
<1>7. AnsweredWasDone' /\ answered' \subseteq sent'
  <2>1. CASE Rollback(s)
    BY <2>1 DEF Rollback, AnsweredWasDone
  <2>2. CASE AnswerRetry(s)
    <3> DEFINE r == call[s].req
    <3>1. r \in sent
      <4>1. InFlight(s)
        BY <2>2, CallShape DEF AnswerRetry
      <4> QED
        BY <4>1 DEF CallsInOrder
    <3>2. PICK e \in log : e.id = r.id /\ e.slot = r.slot /\ e.actor = r.by
      BY <2>2 DEF AnswerRetry, Recorded
    <3>3. PICK q \in sent : /\ e.id = q.id /\ e.slot = q.slot /\ e.actor = q.by
                            /\ e.holder = q.to /\ e.previous = q.expected
      BY DEF LogInOrder
    <3>4. q = r
      BY <3>1, <3>2, <3>3 DEF RequestsInOrder
    <3>5. \A f \in log : f.id = r.id => f = e
      BY <3>2 DEF LogInOrder
    <3>6. answered' = answered \cup {r} /\ log' = log /\ sent' = sent
      BY <2>2 DEF AnswerRetry
    <3> QED
      BY <3>1, <3>2, <3>3, <3>4, <3>5, <3>6 DEF AnsweredWasDone
  <2> QED
    BY <2>1, <2>2
<1>8. SerialWritesFollowLog'
  BY <1>2 DEF SerialWritesFollowLog, RowsFollowLog, HandoverChain, Folded, IsNewest
<1> QED
  BY <1>1, <1>4, <1>5, <1>6, <1>7, <1>8

(* Deciding what to write.                                                  *)
LEMMA DecideIInv ==
  ASSUME IInv, NEW s \in Session, Decide(s)
  PROVE  IInv'
<1> DEFINE r == call[s].req
           row == slots[r.slot]
<1> USE DEF IInv
<1>1. TypeOK'
  BY DecideTypeOK
<1>2. UNCHANGED <<slots, log, sent, answered, fresh, now, overlapped>>
  BY DEF Decide
<1>3. \A o \in Session : o # s => call'[o] = call[o]
  BY DEF Decide, TypeOK
<1>4. call'[s] = [step |-> "decided", req |-> r, at |-> call[s].at, previous |-> row.holder,
                  kind |-> IF row.resp = Nobody THEN "assigned" ELSE "reassigned",
                  resp |-> IF row.resp = Nobody THEN r.id ELSE row.resp]
  BY DEF Decide, TypeOK
<1>5. InFlight(s) /\ r.expected = row.holder
  BY CallShape DEF Decide, Believed
<1>6. CallsInOrder'
  <2> SUFFICES ASSUME NEW o \in Session, call'[o] # Idle
               PROVE  /\ call'[o].req \in sent /\ call'[o].at < now
                      /\ Warranted(call'[o].req.by, call'[o].req.slot, call'[o].req.to)
                      /\ call'[o].step = "decided" =>
                           /\ call'[o].previous = call'[o].req.expected
                           /\ IF call'[o].kind = "assigned"
                              THEN call'[o].resp = call'[o].req.id
                              ELSE /\ call'[o].resp = slots[call'[o].req.slot].resp
                                   /\ call'[o].resp # Nobody
    BY <1>2 DEF CallsInOrder, Warranted
  <2>1. CASE o = s
    <3>1. r \in sent /\ call[s].at < now /\ Warranted(r.by, r.slot, r.to)
      BY <1>5 DEF CallsInOrder
    <3> QED
      BY <1>4, <1>5, <2>1, <3>1
  <2>2. CASE o # s
    BY <1>3, <2>2 DEF CallsInOrder
  <2> QED
    BY <2>1, <2>2
<1>7. SerialCalls'
  <2> SUFFICES ASSUME ~overlapped, NEW o \in Session, call'[o] # Idle
               PROVE  /\ \A e \in log : e.at < call'[o].at
                      /\ call'[o].step = "decided" =>
                           call'[o].previous = slots[call'[o].req.slot].holder
    BY <1>2 DEF SerialCalls
  <2>1. CASE o = s
    <3>1. \A e \in log : e.at < call[s].at
      BY <1>5 DEF SerialCalls
    <3> QED
      BY <1>4, <2>1, <3>1
  <2>2. CASE o # s
    BY <1>3, <2>2 DEF SerialCalls
  <2> QED
    BY <2>1, <2>2
<1>8. RequestsInOrder' /\ LogInOrder' /\ OneIdentityPerSlot' /\ WrittenWithAuthority'
  BY <1>2 DEF RequestsInOrder, LogInOrder, OneIdentityPerSlot, WrittenWithAuthority, Warranted
<1>9. AnsweredWasDone' /\ answered' \subseteq sent'
  BY <1>2 DEF AnsweredWasDone
<1>10. SerialWritesFollowLog'
  BY <1>2 DEF SerialWritesFollowLog, RowsFollowLog, HandoverChain, Folded, IsNewest
<1> QED
  BY <1>1, <1>6, <1>7, <1>8, <1>9, <1>10

(* Two slots never share an identity.                                       *)
LEMMA DistinctIdentity ==
  ASSUME LogInOrder, OneIdentityPerSlot, NEW x \in Slot, NEW y \in Slot,
         slots[x].resp = slots[y].resp, slots[x].resp # Nobody
  PROVE  x = y
<1>1. PICK a \in log : a.slot = x /\ a.kind = "assigned"
  BY DEF LogInOrder
<1>2. PICK b \in log : b.slot = y /\ b.kind = "assigned"
  BY DEF LogInOrder
<1>3. a.id = slots[x].resp /\ b.id = slots[y].resp
  BY <1>1, <1>2 DEF OneIdentityPerSlot
<1>4. a = b
  BY <1>3 DEF LogInOrder
<1> QED
  BY <1>1, <1>2, <1>4

(* A commit that does not collide: an assignment opens the slot's row, a    *)
(* reassignment keeps its identity.                                        *)
LEMMA CommitIdentity ==
  ASSUME IInv, NEW s \in Session, Commit(s)
  PROVE  /\ call[s].req \in sent /\ InFlight(s)
         /\ call[s].resp \in EventId /\ call[s].resp # Nobody
         /\ call[s].kind \in {"assigned", "reassigned"}
         /\ call[s].kind = "assigned" <=> slots[call[s].req.slot].resp = Nobody
         /\ call[s].kind = "reassigned" => call[s].resp = slots[call[s].req.slot].resp
         /\ call[s].kind = "assigned" => call[s].resp = call[s].req.id
<1> DEFINE c == call[s]
<1> USE DEF IInv
<1>1. /\ c.req \in Request /\ c.resp \in EventId /\ InFlight(s)
      /\ c.kind \in {"assigned", "reassigned"} /\ c.step = "decided"
  BY CallShape DEF Commit
<1>2. c.resp # Nobody
  BY <1>1, PeopleAssumption, IdAssumption
<1>3. /\ c.req \in sent
      /\ IF c.kind = "assigned" THEN c.resp = c.req.id
         ELSE c.resp = slots[c.req.slot].resp /\ c.resp # Nobody
  BY <1>1 DEF CallsInOrder
<1>4. ASSUME c.kind = "assigned", slots[c.req.slot].resp # Nobody PROVE FALSE
  <2>1. c.req.slot \in Slot
    BY <1>1
  <2>2. \E e \in log : e.slot = c.req.slot /\ e.kind = "assigned"
    BY <1>4, <2>1 DEF LogInOrder
  <2> QED
    BY <1>4, <2>2 DEF Commit, Collides
<1> QED
  BY <1>1, <1>2, <1>3, <1>4

(* Committing keeps the log, the rows and the answers in order.             *)
LEMMA CommitKeepsOrder ==
  ASSUME IInv, NEW s \in Session, Commit(s)
  PROVE  /\ RequestsInOrder' /\ CallsInOrder' /\ LogInOrder' /\ SerialCalls'
         /\ answered' \subseteq sent' /\ AnsweredWasDone'
         /\ OneIdentityPerSlot' /\ WrittenWithAuthority'
<1> DEFINE c == call[s]
           x == c.req.slot
           ne == [id |-> c.req.id, kind |-> c.kind, slot |-> c.req.slot, actor |-> c.req.by,
                  previous |-> c.previous, holder |-> c.req.to, resp |-> c.resp, at |-> c.at]
<1> USE DEF IInv
<1>1. /\ c.req \in sent /\ InFlight(s) /\ c.resp # Nobody
      /\ c.kind \in {"assigned", "reassigned"}
      /\ c.kind = "assigned" <=> slots[x].resp = Nobody
      /\ c.kind = "reassigned" => c.resp = slots[x].resp
      /\ c.kind = "assigned" => c.resp = c.req.id
  BY CommitIdentity
<1>2. /\ x \in Slot /\ c.at \in Int /\ c.at < now /\ c.previous = c.req.expected
      /\ Warranted(c.req.by, x, c.req.to)
  <2>1. c.step = "decided" /\ c.req \in Request /\ c.at \in Time
    BY CallShape DEF Commit
  <2> QED
    BY <1>1, <2>1 DEF CallsInOrder
<1>3. /\ log' = log \cup {ne} /\ answered' = answered \cup {c.req}
      /\ UNCHANGED <<sent, fresh, now>>
      /\ \A e \in log : e.id # ne.id
  BY DEF Commit, EventOf, Collides
<1>3a. ne \in log' /\ ne.slot = x /\ ne.kind = c.kind /\ ne.id = c.req.id /\ ne.resp = c.resp
       /\ ne.holder = c.req.to /\ ne.actor = c.req.by
  BY <1>3
<1>4. /\ slots'[x] = [resp |-> c.resp, holder |-> c.req.to, event |-> c.req.id]
      /\ \A y \in Slot : y # x => slots'[y] = slots[y]
  BY <1>1, <1>2 DEF Commit, TypeOK
<1>5. \A o \in Session : call'[o] # Idle => o # s /\ call'[o] = call[o] /\ InFlight(o)
  BY DEF Commit, TypeOK
<1>6. RequestsInOrder'
  BY <1>3 DEF RequestsInOrder
<1>7. CallsInOrder'
  <2> SUFFICES ASSUME NEW o \in Session, call'[o] # Idle
               PROVE  /\ call'[o].req \in sent' /\ call'[o].at < now'
                      /\ \/ call'[o].req.by \in Leader
                         \/ /\ <<call'[o].req.by, call'[o].req.slot>> \in Granted
                            /\ call'[o].req.to = call'[o].req.by
                         \/ \E f \in log' : /\ f.slot = Parent[call'[o].req.slot]
                                            /\ f.holder = call'[o].req.by
                      /\ call'[o].step = "decided" =>
                           /\ call'[o].previous = call'[o].req.expected
                           /\ IF call'[o].kind = "assigned"
                              THEN call'[o].resp = call'[o].req.id
                              ELSE /\ call'[o].resp = slots'[call'[o].req.slot].resp
                                   /\ call'[o].resp # Nobody
    BY DEF CallsInOrder, Warranted
  <2> DEFINE d == call[o]
  <2>1. call'[o] = d /\ InFlight(o)
    BY <1>5
  <2>2. /\ d.req \in sent /\ d.at < now /\ Warranted(d.req.by, d.req.slot, d.req.to)
        /\ d.step = "decided" =>
             /\ d.previous = d.req.expected
             /\ IF d.kind = "assigned" THEN d.resp = d.req.id
                ELSE d.resp = slots[d.req.slot].resp /\ d.resp # Nobody
    BY <2>1 DEF CallsInOrder
  <2>3. \/ d.req.by \in Leader
        \/ <<d.req.by, d.req.slot>> \in Granted /\ d.req.to = d.req.by
        \/ \E f \in log' : f.slot = Parent[d.req.slot] /\ f.holder = d.req.by
    BY <1>3, <2>2 DEF Warranted
  <2>4. slots[d.req.slot].resp # Nobody => slots'[d.req.slot].resp = slots[d.req.slot].resp
    <3>1. d.req.slot \in Slot
      BY <2>2 DEF TypeOK
    <3> QED
      BY <1>1, <1>4, <3>1
  <2> QED
    BY <1>3, <2>1, <2>2, <2>3, <2>4
<1>8. LogInOrder'
  <2>1. \A e, f \in log' : e.id = f.id => e = f
    BY <1>3 DEF LogInOrder
  <2>2. \A e \in log' : e.at < now' /\ \E r \in sent' :
           /\ e.id = r.id /\ e.slot = r.slot /\ e.actor = r.by
           /\ e.holder = r.to /\ e.previous = r.expected
    BY <1>1, <1>2, <1>3 DEF LogInOrder
  <2>3. ASSUME NEW y \in Slot
        PROVE  IF slots'[y].resp = Nobody THEN slots'[y].holder = Nobody
               ELSE \E e \in log' : e.slot = y /\ e.kind = "assigned"
    <3>1. CASE y = x /\ c.kind = "assigned"
      <4>1. ne.slot = y /\ ne.kind = "assigned" /\ slots'[y].resp # Nobody
        BY <1>1, <1>4, <1>3a, <3>1
      <4> HIDE DEF ne
      <4> QED
        BY <1>3a, <4>1
    <3>2. CASE y = x /\ c.kind = "reassigned"
      BY <1>1, <1>2, <1>3, <1>4, <3>2 DEF LogInOrder
    <3>3. CASE y # x
      BY <1>3, <1>4, <3>3 DEF LogInOrder
    <3> QED
      BY <1>1, <3>1, <3>2, <3>3
  <2> QED
    BY <2>1, <2>2, <2>3 DEF LogInOrder
<1>9. SerialCalls'
  BY <1>5 DEF SerialCalls, Commit
<1>10. answered' \subseteq sent' /\ AnsweredWasDone'
  <2>1. ASSUME NEW r \in answered
        PROVE  \E e \in log' :
                 /\ e.id = r.id /\ e.slot = r.slot /\ e.actor = r.by
                 /\ e.holder = r.to /\ e.previous = r.expected
                 /\ \A f \in log' : f.id = r.id => f = e
    BY <1>3 DEF AnsweredWasDone
  <2>2. \E e \in log' :
          /\ e.id = c.req.id /\ e.slot = c.req.slot /\ e.actor = c.req.by
          /\ e.holder = c.req.to /\ e.previous = c.req.expected
          /\ \A f \in log' : f.id = c.req.id => f = e
    BY <1>2, <1>3
  <2> QED
    BY <1>1, <1>3, <2>1, <2>2 DEF AnsweredWasDone
<1>11. OneIdentityPerSlot'
  <2> SUFFICES ASSUME NEW y \in Slot
               PROVE  /\ \A e \in log' : e.slot = y =>
                           e.resp = slots'[y].resp /\ (e.kind = "assigned" => e.id = e.resp)
                      /\ slots'[y].resp # Nobody => \E e \in log' :
                           /\ e.id = slots'[y].event /\ e.slot = y
                           /\ e.holder = slots'[y].holder
    BY DEF OneIdentityPerSlot
  <2>1. CASE y = x
    <3>1. \A e \in log : e.slot = x => e.resp = slots'[x].resp
      <4>1. CASE c.kind = "reassigned"
        BY <1>1, <1>2, <1>4, <4>1 DEF OneIdentityPerSlot
      <4>2. CASE c.kind = "assigned"
        <5> SUFFICES ASSUME NEW e \in log, e.slot = x PROVE FALSE
          OBVIOUS
        <5>1. e.resp = Nobody
          BY <1>1, <1>2, <4>2 DEF OneIdentityPerSlot
        <5>2. e.resp \in EventId
          BY DEF TypeOK
        <5> QED
          BY <5>1, <5>2, PeopleAssumption, IdAssumption
      <4> QED
        BY <1>1, <4>1, <4>2
    <3>2. \A e \in log : e.slot = x /\ e.kind = "assigned" => e.id = e.resp
      BY <1>2 DEF OneIdentityPerSlot
    <3>3. ne.resp = slots'[x].resp /\ (ne.kind = "assigned" => ne.id = ne.resp)
      BY <1>1, <1>4, <1>3a
    <3>4. ne.id = slots'[x].event /\ ne.holder = slots'[x].holder
      BY <1>4, <1>3a
    <3>5. \A e \in log' : e \in log \/ e = ne
      BY <1>3
    <3> HIDE DEF ne
    <3> QED
      BY <1>3a, <2>1, <3>1, <3>2, <3>3, <3>4, <3>5
  <2>2. CASE y # x
    BY <1>3, <1>4, <2>2 DEF OneIdentityPerSlot
  <2> QED
    BY <2>1, <2>2
<1>12. WrittenWithAuthority'
  <2>1. \A e \in log : \/ e.actor \in Leader
                       \/ <<e.actor, e.slot>> \in Granted /\ e.holder = e.actor
                       \/ \E f \in log' : f.slot = Parent[e.slot] /\ f.holder = e.actor
    BY <1>3 DEF WrittenWithAuthority, Warranted
  <2>2. \/ ne.actor \in Leader
        \/ <<ne.actor, ne.slot>> \in Granted /\ ne.holder = ne.actor
        \/ \E f \in log' : f.slot = Parent[ne.slot] /\ f.holder = ne.actor
    BY <1>2, <1>3, <1>3a DEF Warranted
  <2>3. \A e \in log' : e \in log \/ e = ne
    BY <1>3
  <2> HIDE DEF ne
  <2> QED
    BY <2>1, <2>2, <2>3 DEF WrittenWithAuthority, Warranted
<1> QED
  BY <1>6, <1>7, <1>8, <1>9, <1>10, <1>11, <1>12

(* A commit that overlaps nothing leaves the row the fold of the log.       *)
LEMMA CommitSerial ==
  ASSUME IInv, NEW s \in Session, Commit(s)
  PROVE  SerialWritesFollowLog'
<1> DEFINE c == call[s]
           x == c.req.slot
           ne == [id |-> c.req.id, kind |-> c.kind, slot |-> c.req.slot, actor |-> c.req.by,
                  previous |-> c.previous, holder |-> c.req.to, resp |-> c.resp, at |-> c.at]
<1> USE DEF IInv
<1> SUFFICES ASSUME ~overlapped PROVE RowsFollowLog' /\ HandoverChain'
  <2>1. overlapped' \/ ~overlapped
    BY DEF Commit, TypeOK
  <2> QED
    BY <2>1 DEF SerialWritesFollowLog
<1>1. /\ c.req \in sent /\ InFlight(s) /\ c.resp # Nobody
      /\ c.kind \in {"assigned", "reassigned"}
      /\ c.kind = "assigned" <=> slots[x].resp = Nobody
      /\ c.kind = "reassigned" => c.resp = slots[x].resp
      /\ c.kind = "assigned" => c.resp = c.req.id
  BY CommitIdentity
<1>2. x \in Slot /\ c.at \in Int /\ c.step = "decided"
  BY CallShape DEF Commit
<1>3. log' = log \cup {ne} /\ \A e \in log : e.id # ne.id
  BY DEF Commit, EventOf, Collides
<1>3a. ne \in log' /\ ne.resp = c.resp /\ ne.holder = c.req.to /\ ne.at = c.at
  BY <1>3
<1>4. /\ slots'[x] = [resp |-> c.resp, holder |-> c.req.to, event |-> c.req.id]
      /\ \A y \in Slot : y # x => slots'[y] = slots[y]
  BY <1>1, <1>2 DEF Commit, TypeOK
<1>5. RowsFollowLog /\ HandoverChain
  BY DEF SerialWritesFollowLog
<1>6. (\A e \in log : e.at < c.at) /\ c.previous = slots[x].holder
  BY <1>1, <1>2 DEF SerialCalls
<1>7. \A e \in log : e.at \in Int /\ e.slot \in Slot /\ e.resp \in EventId /\ e.resp # Nobody
  BY PeopleAssumption, IdAssumption DEF TypeOK
<1>8. \A e \in log : e.resp = slots[e.slot].resp
  BY <1>7 DEF OneIdentityPerSlot
<1>9. RowsFollowLog'
  <2> SUFFICES ASSUME NEW y \in Slot, slots'[y].resp # Nobody
               PROVE  \E e \in log' :
                        /\ e.resp = slots'[y].resp /\ e.holder = slots'[y].holder
                        /\ \A f \in log' : f.resp = slots'[y].resp => f.at <= e.at
    BY DEF RowsFollowLog, Folded, IsNewest
  <2>1. CASE y = x
    <3>1. \A f \in log' : f.at <= ne.at
      BY <1>2, <1>3, <1>6, <1>7
    <3>2. ne.resp = slots'[x].resp /\ ne.holder = slots'[x].holder
      BY <1>4, <1>3a
    <3> HIDE DEF ne
    <3> QED
      BY <1>3a, <2>1, <3>1, <3>2
  <2>2. CASE y # x
    <3>1. slots'[y] = slots[y]
      BY <1>4, <2>2
    <3>2. ne.resp # slots[y].resp
      <4> SUFFICES ASSUME c.resp = slots[y].resp PROVE FALSE
        OBVIOUS
      <4>1. CASE c.kind = "reassigned"
        BY <1>1, <1>2, <2>2, <4>1, DistinctIdentity
      <4>2. CASE c.kind = "assigned"
        <5>1. PICK a \in log : a.slot = y /\ a.kind = "assigned"
          BY <1>1 DEF LogInOrder
        <5>2. a.id = slots[y].resp
          BY <5>1 DEF OneIdentityPerSlot
        <5> QED
          BY <1>1, <1>3, <4>2, <5>2
      <4> QED
        BY <1>1, <4>1, <4>2
    <3>3. PICK e \in log : /\ e.resp = slots[y].resp /\ e.holder = slots[y].holder
                           /\ \A f \in log : f.resp = slots[y].resp => f.at <= e.at
      BY <1>5, <3>1 DEF RowsFollowLog, Folded, IsNewest
    <3> QED
      BY <1>3, <3>1, <3>2, <3>3
  <2> QED
    BY <2>1, <2>2
<1>10. HandoverChain'
  <2> SUFFICES ASSUME NEW e \in log', e.kind = "reassigned"
               PROVE  \E f \in log' :
                        /\ f.slot = e.slot /\ f.at < e.at /\ f.holder = e.previous
                        /\ \A g \in log' : g.slot = e.slot /\ g.at < e.at => g.at <= f.at
    BY DEF HandoverChain, IsNewest
  <2>1. CASE e \in log
    <3>1. PICK f \in log : /\ f.slot = e.slot /\ f.at < e.at /\ f.holder = e.previous
                           /\ \A g \in log : g.slot = e.slot /\ g.at < e.at => g.at <= f.at
      BY <1>5, <2>1 DEF HandoverChain, IsNewest
    <3>2. ~(ne.at < e.at)
      BY <1>2, <1>6, <1>7, <2>1
    <3> QED
      BY <1>3, <3>1, <3>2
  <2>2. CASE e = ne
    <3>1. slots[x].resp # Nobody
      BY <1>1, <2>2
    <3>2. PICK f \in log : /\ f.resp = slots[x].resp /\ f.holder = slots[x].holder
                           /\ \A g \in log : g.resp = slots[x].resp => g.at <= f.at
      BY <1>2, <1>5, <3>1 DEF RowsFollowLog, Folded, IsNewest
    <3>3. f.slot = x
      BY <1>2, <1>7, <1>8, <3>1, <3>2, DistinctIdentity
    <3>4. \A g \in log' : g.slot = x /\ g.at < ne.at => g.at <= f.at
      BY <1>2, <1>3, <1>8, <3>2
    <3> QED
      BY <1>3, <1>6, <2>2, <3>2, <3>3, <3>4
  <2> QED
    BY <1>3, <2>1, <2>2
<1> QED
  BY <1>9, <1>10

(* Every step preserves the inductive invariant.                            *)
LEMMA StepIInv == IInv /\ [Next]_vars => IInv'
<1> SUFFICES ASSUME IInv, [Next]_vars PROVE IInv'
  OBVIOUS
<1>1. ASSUME NEW s \in Session, NEW u \in User, Send(s, u) PROVE IInv'
  <2>1. PICK r : Sendable(r) /\ Begin(s, r)
    BY <1>1 DEF Send, Sendable
  <2> QED
    BY <2>1, BeginIInv
<1>2. ASSUME NEW s \in Session, Resend(s) PROVE IInv'
  <2>1. PICK r : Sendable(r) /\ Begin(s, r)
    BY <1>2 DEF Resend, Sendable
  <2> QED
    BY <2>1, BeginIInv
<1>3. ASSUME NEW s \in Session, AnswerRetry(s) \/ Rollback(s) PROVE IInv'
  BY <1>3, EndIInv
<1>4. ASSUME NEW s \in Session, Decide(s) PROVE IInv'
  BY <1>4, DecideIInv
<1>5. ASSUME NEW s \in Session, Commit(s) PROVE IInv'
  <2>1. TypeOK'
    BY <1>5, CommitTypeOK DEF IInv
  <2>2. SerialWritesFollowLog'
    BY <1>5, CommitSerial
  <2> QED
    BY <1>5, <2>1, <2>2, CommitKeepsOrder DEF IInv
<1>6. ASSUME active' \subseteq User, UNCHANGED <<slots, log, sent, answered, call, fresh, now,
                                              overlapped, stale>>
      PROVE  IInv'
  <2>1. TypeOK' /\ RequestsInOrder' /\ CallsInOrder' /\ LogInOrder' /\ SerialCalls'
    BY <1>6 DEF IInv, TypeOK, RequestsInOrder, CallsInOrder, LogInOrder, SerialCalls, Warranted
  <2>2. OneIdentityPerSlot' /\ AnsweredWasDone' /\ WrittenWithAuthority'
    BY <1>6 DEF IInv, OneIdentityPerSlot, AnsweredWasDone, WrittenWithAuthority, Warranted
  <2>3. SerialWritesFollowLog'
    BY <1>6 DEF IInv, SerialWritesFollowLog, RowsFollowLog, HandoverChain, Folded, IsNewest
  <2> QED
    BY <1>6, <2>1, <2>2, <2>3 DEF IInv
<1>7. ASSUME NEW u \in User, NEW target \in User, RevokeMember(u, target) PROVE IInv'
  BY <1>6, <1>7 DEF RevokeMember, IInv, TypeOK
<1>8. CASE UNCHANGED vars
  BY <1>6, <1>8 DEF vars, IInv, TypeOK
<1> QED
  BY <1>1, <1>2, <1>3, <1>4, <1>5, <1>7, <1>8 DEF Next

-----------------------------------------------------------------------------
(* The inductive invariant holds in every reachable state of                *)
(* write_responsibility's calls, however they interleave.                  *)
THEOREM Invariant == Spec => []IInv
  BY InitIInv, StepIInv, PTL DEF Spec

(* Whatever runs concurrently, a slot keeps one identity and its row names  *)
(* a holder that the row's own event gave it.                              *)
THEOREM Identity == Spec => []OneIdentityPerSlot
<1>1. IInv => OneIdentityPerSlot
  BY DEF IInv
<1> QED
  BY <1>1, Invariant, PTL

(* No call is answered with success unless what it asked for was done once, *)
(* on the holder its sender believed in.                                   *)
THEOREM NoFalseSuccess == Spec => []AnsweredWasDone
<1>1. IInv => AnsweredWasDone
  BY DEF IInv
<1> QED
  BY <1>1, Invariant, PTL

(* Every responsibility event was written by a leader, by an invited member *)
(* for themself, or by a member once made coordinator of the geography     *)
(* above.                                                                  *)
THEOREM Authority == Spec => []WrittenWithAuthority
<1>1. IInv => WrittenWithAuthority
  BY DEF IInv
<1> QED
  BY <1>1, Invariant, PTL

(* As long as no commit overlaps another call, rows are the fold of the log *)
(* and the handovers of a slot form a chain.                               *)
THEOREM SerialFold == Spec => []SerialWritesFollowLog
<1>1. IInv => SerialWritesFollowLog
  BY DEF IInv
<1> QED
  BY <1>1, Invariant, PTL
=============================================================================
