------------------------ MODULE ResponsibilityWrites ------------------------
(***************************************************************************)
(* Who answers for a geography: write_responsibility() of migration        *)
(* 20260903000000, the one function that assigns, reassigns and vacates a  *)
(* slot (a campaign's LGA, ward or polling unit).  It appends an event to  *)
(* the log and upserts the slot's row in one transaction, after a          *)
(* compare-and-swap on the holder its caller believed in.                  *)
(*                                                                         *)
(* PostgreSQL runs the function under READ COMMITTED and it locks no row   *)
(* before its writes, so a call is three steps here: the authority it      *)
(* reads when it begins, the event and the row it decides on, its commit.  *)
(* The answer may be lost; the client then sends the same request again,   *)
(* with the same event id, perhaps while the first is still running.       *)
(***************************************************************************)
EXTENDS Integers

CONSTANTS
    Person,     \* roster entries; those of signed-in accounts are in User
    User,       \* accounts, each named as its roster entry 'invite:<campaign>:<uid>'
    Leader,     \* accounts that own or manage the campaign, the others are staff
    Nobody,     \* null: no holder, no event
    Slot, Level,\* the geographies and the level of each
    Parent,     \* the LGA of a ward, the ward of a polling unit, or NoSlot
    NoSlot,
    Granted,    \* <<u, s>>: u has accepted an invitation to s
    Session,    \* calls that may be running at the same time
    MaxRequest, \* bound: number of requests prepared in the UI
    MaxTime     \* bound: number of calls

Fresh   == 1..MaxRequest
Time    == 0..MaxTime
EventId == Fresh \cup User
Occupant == Person \cup {Nobody}

ASSUME PeopleAssumption == User \subseteq Person /\ Leader \subseteq User /\ Nobody \notin Person
ASSUME IdAssumption == User \cap Fresh = {} /\ Nobody \notin Fresh
ASSUME SlotAssumption ==
    /\ Parent \in [Slot -> Slot \cup {NoSlot}] /\ NoSlot \notin Slot
    /\ Level \in [Slot -> {"constituency", "lga", "ward", "polling_unit"}]
    /\ \A s \in Slot : Level[s] \in {"ward", "polling_unit"} => Parent[s] \in Slot
ASSUME GrantAssumption == Granted \subseteq User \X Slot
ASSUME LimitAssumption == MaxRequest \in Nat /\ MaxTime \in Nat

VARIABLES
    active,     \* accounts whose membership is active
    slots,      \* responsibility_slots
    log,        \* the responsibility events of election_events
    sent,       \* requests the clients have sent; any of them may be sent again
    answered,   \* requests answered with success
    call,       \* what each session is doing
    fresh,      \* number of event ids the UI has minted
    now,        \* the next value of now()
    overlapped, \* history: a call committed while another was running
    stale       \* history: requests admitted for an office their sender had lost

vars == <<active, slots, log, sent, answered, call, fresh, now, overlapped, stale>>

\* A row of responsibility_slots; resp is Nobody while there is no row.
Row == [resp : EventId \cup {Nobody}, holder : Occupant, event : EventId \cup {Nobody}]
NoRow == [resp |-> Nobody, holder |-> Nobody, event |-> Nobody]

\* responsibility.assigned and responsibility.reassigned; at is created_at, the
\* start of the transaction.
Event == [id : EventId, kind : {"assigned", "reassigned"}, slot : Slot, actor : User,
          previous : Occupant, holder : Occupant, resp : EventId, at : Time]

\* The arguments of a call; via: what the caller claims, an office or the invitation
\* it cites.
Request == [id : EventId, by : User, slot : Slot, to : Occupant, expected : Occupant,
            via : {"office", "invitation"}]

Idle == [step |-> "idle"]
Call ==
    {Idle}
    \cup [step : {"authorised"}, req : Request, at : Time]
    \cup [step : {"decided"}, req : Request, at : Time, previous : Occupant,
          kind : {"assigned", "reassigned"}, resp : EventId]

TypeOK ==
    /\ active \subseteq User
    /\ slots \in [Slot -> Row]
    /\ log \subseteq Event
    /\ sent \subseteq Request
    /\ answered \subseteq Request
    /\ call \in [Session -> Call]
    /\ fresh \in 0..MaxRequest
    /\ now \in Time
    /\ overlapped \in BOOLEAN
    /\ stale \subseteq Request

-----------------------------------------------------------------------------
Init ==
    /\ active = User
    /\ slots = [s \in Slot |-> NoRow]
    /\ log = {}
    /\ sent = {}
    /\ answered = {}
    /\ call = [s \in Session |-> Idle]
    /\ fresh = 0
    /\ now = 0
    /\ overlapped = FALSE
    /\ stale = {}

(***************************************************************************)
(* Requests                                                                *)
(***************************************************************************)

\* The holders a screen may show for a slot, however old it is.
Seen(s) == {Nobody} \cup {e.holder : e \in {f \in log : f.slot = s}}

\* proposeAssignResponsibility and proposeReassignResponsibility, with the event
\* id minted when the draft was prepared; handing over to the holder is a NO_OP, but
\* vacating is not, be it a slot that nobody ever held.
Prepared(u) ==
    {r \in [id : {fresh + 1}, by : {u}, slot : Slot, to : Occupant, expected : Occupant,
            via : {"office"}] : r.expected \in Seen(r.slot) /\ (r.to = Nobody \/ r.to # r.expected)}

\* acceptInvitation's last step: its event id depends on the account alone.
Accepting(u) ==
    {r \in [id : {u}, by : {u}, slot : Slot, to : {u}, expected : {Nobody},
            via : {"invitation"}] : <<u, r.slot>> \in Granted}

(***************************************************************************)
(* Authority                                                               *)
(***************************************************************************)
Holds(u, s) == s \in Slot /\ slots[s].holder = u

\* The LGA coordinator named by the log's first assignment, whoever came later.
FirstAssigned(u, s) ==
    \E e \in log : e.kind = "assigned" /\ e.slot = s /\ e.holder = u

\* A variation: whoever holds a slot may hand that slot on.
DelegatedByHolder(u, s) ==
    \/ u \in Leader
    \/ Level[s] \in {"ward", "polling_unit"} /\ Holds(u, s)

Delegated(u, s) ==
    \/ u \in Leader
    \/ Level[s] = "ward" /\ (Holds(u, Parent[s]) \/ FirstAssigned(u, Parent[s]))
    \/ Level[s] = "polling_unit" /\ Holds(u, Parent[s])

Authorised(r) ==
    /\ r.by \in active
    /\ IF r.via = "invitation" THEN <<r.by, r.slot>> \in Granted ELSE Delegated(r.by, r.slot)

OutOfOffice(r) == r.via = "office" /\ r.by \notin Leader /\ ~Holds(r.by, Parent[r.slot])

(***************************************************************************)
(* A call                                                                  *)
(***************************************************************************)
InFlight(s) == call[s] # Idle

(* The transaction begins, and its caller is authorised. A request that is  *)
(* not leaves no trace.                                                    *)
Begin(s, r) ==
    /\ call[s] = Idle
    /\ now < MaxTime
    /\ Authorised(r)
    /\ call' = [call EXCEPT ![s] = [step |-> "authorised", req |-> r, at |-> now]]
    /\ now' = now + 1
    /\ sent' = sent \cup {r}
    /\ fresh' = IF r.via = "invitation" \/ r \in sent THEN fresh ELSE fresh + 1
    /\ stale' = IF OutOfOffice(r) THEN stale \cup {r} ELSE stale
    /\ UNCHANGED <<active, slots, log, answered, overlapped>>

Send(s, u) ==
    \/ fresh < MaxRequest /\ \E r \in Prepared(u) : Begin(s, r)
    \/ \E r \in Accepting(u) : Begin(s, r)

Resend(s) == \E r \in sent : Begin(s, r)

\* A variation: any event of this id and this caller is taken for a retry.
RecordedAnywhere(r) == \E e \in log : e.id = r.id /\ e.actor = r.by

\* The event of this id is this caller's, for this slot: a retry.
Recorded(r) == \E e \in log : e.id = r.id /\ e.slot = r.slot /\ e.actor = r.by

(* The idempotency check answers a retry with the slot's row.               *)
AnswerRetry(s) ==
    LET r == call[s].req IN
    /\ call[s].step = "authorised"
    /\ Recorded(r)
    /\ answered' = answered \cup {r}
    /\ call' = [call EXCEPT ![s] = Idle]
    /\ UNCHANGED <<active, slots, log, sent, fresh, now, overlapped, stale>>

\* Compare-and-swap: the caller's belief is the holder (no row reads as null), and a
\* row is not written for the holder it has.
Believed(r) ==
    LET row == slots[r.slot] IN r.expected = row.holder /\ (row.resp # Nobody => r.to # row.holder)

(* The slot is read; no row makes it a first assignment.                    *)
Decide(s) ==
    LET c == call[s] IN
    /\ c.step = "authorised"
    /\ ~Recorded(c.req)
    /\ Believed(c.req)
    /\ LET row == slots[c.req.slot] IN
       call' = [call EXCEPT ![s] =
         [step |-> "decided", req |-> c.req, at |-> c.at, previous |-> row.holder,
          kind |-> IF row.resp = Nobody THEN "assigned" ELSE "reassigned",
          resp |-> IF row.resp = Nobody THEN c.req.id ELSE row.resp]]
    /\ UNCHANGED <<active, slots, log, sent, answered, fresh, now, overlapped, stale>>

\* A variation: without the unique index on the slot of a first assignment.
CollidesOnId(c) == \E e \in log : e.id = c.req.id

\* The two unique indexes of election_events.
Collides(c) ==
    \E e \in log :
        \/ e.id = c.req.id
        \/ c.kind = "assigned" /\ e.kind = "assigned" /\ e.slot = c.req.slot

EventOf(c) ==
    [id |-> c.req.id, kind |-> c.kind, slot |-> c.req.slot, actor |-> c.req.by,
     previous |-> c.previous, holder |-> c.req.to, resp |-> c.resp, at |-> c.at]

\* A variation: the upsert does nothing where there is a row already.
CommitKeepingRow(s) ==
    LET c == call[s] IN
    /\ c.step = "decided"
    /\ ~Collides(c)
    /\ log' = log \cup {EventOf(c)}
    /\ slots' = [slots EXCEPT ![c.req.slot] =
         IF @.resp = Nobody
         THEN [resp |-> c.resp, holder |-> c.req.to, event |-> c.req.id] ELSE @]
    /\ answered' = answered \cup {c.req}
    /\ call' = [call EXCEPT ![s] = Idle]
    /\ overlapped' = (overlapped \/ \E o \in Session \ {s} : InFlight(o))
    /\ UNCHANGED <<active, sent, fresh, now, stale>>

(* The event is inserted and the row upserted, which keeps its              *)
(* responsibility_id. Another writer of the same slot waits for the commit.*)
Commit(s) ==
    LET c == call[s] IN
    /\ c.step = "decided"
    /\ ~Collides(c)
    /\ log' = log \cup {EventOf(c)}
    /\ slots' = [slots EXCEPT ![c.req.slot] =
         [resp |-> IF @.resp = Nobody THEN c.resp ELSE @.resp,
          holder |-> c.req.to, event |-> c.req.id]]
    /\ answered' = answered \cup {c.req}
    /\ call' = [call EXCEPT ![s] = Idle]
    /\ overlapped' = (overlapped \/ \E o \in Session \ {s} : InFlight(o))
    /\ UNCHANGED <<active, sent, fresh, now, stale>>

(* Everything is rolled back: a belief that is out of date, a unique index, *)
(* or a connection that broke.                                             *)
Rollback(s) ==
    /\ InFlight(s)
    /\ call' = [call EXCEPT ![s] = Idle]
    /\ UNCHANGED <<active, slots, log, sent, answered, fresh, now, overlapped, stale>>

(* revoke_campaign_member, of staff by a leader; it leaves the slots alone. *)
RevokeMember(u, target) ==
    /\ u \in active \cap Leader
    /\ target \in active \ Leader
    /\ active' = active \ {target}
    /\ UNCHANGED <<slots, log, sent, answered, call, fresh, now, overlapped, stale>>

Next ==
    \/ \E s \in Session :
         \/ \E u \in User : Send(s, u)
         \/ Resend(s) \/ AnswerRetry(s) \/ Decide(s) \/ Commit(s) \/ Rollback(s)
    \/ \E u, target \in User : RevokeMember(u, target)

Spec == Init /\ [][Next]_vars

-----------------------------------------------------------------------------
(***************************************************************************)
(* Properties                                                              *)
(***************************************************************************)

\* What projectElection folds for a responsibility: the newest event's holder.
IsNewest(e, events) == e \in events /\ \A f \in events : f.at <= e.at

Folded(resp, p) == \E e \in log : IsNewest(e, {f \in log : f.resp = resp}) /\ e.holder = p

(* Whatever runs concurrently, a slot keeps one identity: all its events    *)
(* carry the id of its one assignment, which is its row's; and the row     *)
(* names a holder that its own current event gave it.                      *)
OneIdentityPerSlot ==
    \A s \in Slot :
        /\ \A e \in log : e.slot = s =>
             e.resp = slots[s].resp /\ (e.kind = "assigned" => e.id = e.resp)
        /\ slots[s].resp # Nobody =>
             \E e \in log : e.id = slots[s].event /\ e.slot = s /\ e.holder = slots[s].holder

(* No false success: a request answered with success was carried out, once, *)
(* as it was sent and on the holder its sender believed in, though it may  *)
(* have been sent many times.                                              *)
AnsweredWasDone ==
    \A r \in answered : \E e \in log :
        /\ e.id = r.id /\ e.slot = r.slot /\ e.actor = r.by
        /\ e.holder = r.to /\ e.previous = r.expected
        /\ \A f \in log : f.id = r.id => f = e

(* Every event was written by a leader, by an invited member for themself,  *)
(* or by a member whom an earlier event had made coordinator above.        *)
Warranted(by, s, to) ==
    \/ by \in Leader
    \/ <<by, s>> \in Granted /\ to = by
    \/ \E f \in log : f.slot = Parent[s] /\ f.holder = by

WrittenWithAuthority == \A e \in log : Warranted(e.actor, e.slot, e.holder)

(* The row is the fold of the log, as the migration says of every row.      *)
RowsFollowLog ==
    \A s \in Slot : slots[s].resp # Nobody => Folded(slots[s].resp, slots[s].holder)

(* Each handover takes the slot from the person the event before it left    *)
(* it with.                                                                *)
HandoverChain ==
    \A e \in log : e.kind = "reassigned" =>
        \E f \in log : /\ IsNewest(f, {g \in log : g.slot = e.slot /\ g.at < e.at})
                       /\ f.holder = e.previous

(* As long as no call committed while another ran, both hold.               *)
SerialWritesFollowLog == ~overlapped => RowsFollowLog /\ HandoverChain

(* Claimed by the comment on the ward delegation, and does not hold: a      *)
(* coordinator who was replaced writes nothing more below that office.      *)
WritersHoldTheirOffice == \A e \in log : \A r \in stale : e.id # r.id
-----------------------------------------------------------------------------
(***************************************************************************)
(* The inductive invariant                                                 *)
(***************************************************************************)

\* Fresh ids belong to one request, invitation ids to one account.
RequestsInOrder ==
    /\ \A r \in sent :
         /\ r.via = "office" => r.id \in 1..fresh
         /\ r.via = "invitation" => /\ r.id = r.by /\ r.to = r.by /\ r.expected = Nobody
                                   /\ <<r.by, r.slot>> \in Granted
    /\ \A r, q \in sent : r.id = q.id /\ r.slot = q.slot => r = q

\* A running call was warranted, and what it decided is still what its commit
\* writes, or the commit will collide.
CallsInOrder ==
    \A s \in Session : InFlight(s) =>
        LET c == call[s] IN
        /\ c.req \in sent /\ c.at < now
        /\ Warranted(c.req.by, c.req.slot, c.req.to)
        /\ c.step = "decided" =>
             /\ c.previous = c.req.expected
             /\ IF c.kind = "assigned" THEN c.resp = c.req.id
                ELSE c.resp = slots[c.req.slot].resp /\ c.resp # Nobody

\* Every event carries out one request; every row was opened by an assignment.
LogInOrder ==
    /\ \A e, f \in log : e.id = f.id => e = f
    /\ \A e \in log : e.at < now /\ \E r \in sent :
         /\ e.id = r.id /\ e.slot = r.slot /\ e.actor = r.by
         /\ e.holder = r.to /\ e.previous = r.expected
    /\ \A s \in Slot : IF slots[s].resp = Nobody THEN slots[s].holder = Nobody
                       ELSE \E e \in log : e.slot = s /\ e.kind = "assigned"

\* Until calls overlap, a running call is newer than the log and knows the row.
SerialCalls ==
    ~overlapped => \A s \in Session : InFlight(s) =>
        /\ \A e \in log : e.at < call[s].at
        /\ call[s].step = "decided" => call[s].previous = slots[call[s].req.slot].holder

(* What every step preserves.                                               *)
IInv ==
    /\ TypeOK
    /\ RequestsInOrder
    /\ CallsInOrder
    /\ LogInOrder
    /\ SerialCalls
    /\ answered \subseteq sent
    /\ OneIdentityPerSlot
    /\ AnsweredWasDone
    /\ WrittenWithAuthority
    /\ SerialWritesFollowLog
=============================================================================
