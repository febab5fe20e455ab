------------------------------ MODULE LaunchMail ------------------------------
(***************************************************************************)
(* The launch mailing: signing up, confirming and opting out through the   *)
(* launch-subscribe, launch-confirm and launch-unsubscribe functions, and  *)
(* the batches of launch-send-campaign-email. Each runs as the statements  *)
(* and provider calls it awaits; runs overlap and may die anywhere.        *)
(*                                                                         *)
(* Sequence 1 is the only one whose content is ready. A signup refused by  *)
(* the rate limit leaves nothing behind that the mailing reads.            *)
(***************************************************************************)
EXTENDS Naturals, FiniteSets

CONSTANTS Address,
          Run,        \* runs of the three public functions
          Batch,      \* runs of the mail-out
          MaxToken,   \* bound: tokens minted
          BatchLimit, \* BATCH_LIMIT
          MaxTrouble, \* bound: faults of the mail-out
          NoRow, Nobody

ASSUME LimitAssumption == /\ BatchLimit \in Nat \ {0}
                          /\ MaxToken \in Nat /\ MaxTrouble \in Nat
ASSUME AddressAssumption == IsFiniteSet(Address) /\ Nobody \notin Address
ASSUME BatchAssumption == IsFiniteSet(Batch)

VARIABLES row,      \* launch_subscribers, by address
          minted,   \* tokens minted so far
          inbox,    \* the links in the mail the provider took
          contact,  \* what Brevo holds on an address
          call,     \* the runs
          batch,    \* the mail-outs
          mails,    \* sequence mails the provider took, by address
          excused,  \* faults after which an address may be mailed again
          trouble,  \* all faults of the mail-out
          clicked,  \* addresses whose owner followed a confirmation link
          optedOut  \* addresses out of the sequence by their owner's wish

web == <<row, minted, inbox, contact, call, clicked, optedOut>>
mailing == <<batch, mails, excused, trouble>>
vars == <<web, mailing>>

Token == 1 .. MaxToken
Row == [status : {"pending", "confirmed", "unsubscribed"}, token : Token,
        sent : BOOLEAN, rank : Nat]
ASSUME RowAssumption == NoRow \notin Row
Link == [kind : {"confirm", "sequence"}, to : Address, token : Token]
Call == [at : {"idle", "insert", "update", "mail", "confirm", "sync",
               "unsubscribe", "block"},
         of : Address \cup {Nobody}, token : 0 .. MaxToken]
Idle == [at |-> "idle", of |-> Nobody, token |-> 0]
Todo == [to : Address, token : Token]
NoBatch == [at |-> "idle", todo |-> {}, on |-> Nobody]

TypeOK == /\ row \in [Address -> Row \cup {NoRow}]
          /\ minted \in 0 .. MaxToken
          /\ inbox \subseteq Link
          /\ contact \in [Address -> {"none", "listed", "blocked"}]
          /\ call \in [Run -> Call]
          /\ batch \in [Batch -> [at : {"idle", "next", "stamp"}, todo : SUBSET Todo,
                                  on : Address \cup {Nobody}]]
          /\ mails \in [Address -> Nat]
          /\ excused \in [Address -> Nat]
          /\ trouble \in 0 .. MaxTrouble
          /\ clicked \subseteq Address
          /\ optedOut \subseteq Address

Init == /\ row = [a \in Address |-> NoRow]
        /\ minted = 0
        /\ inbox = {}
        /\ contact = [a \in Address |-> "none"]
        /\ call = [r \in Run |-> Idle]
        /\ batch = [b \in Batch |-> NoBatch]
        /\ mails = [a \in Address |-> 0]
        /\ excused = [a \in Address |-> 0]
        /\ trouble = 0
        /\ clicked = {}
        /\ optedOut = {}
-----------------------------------------------------------------------------
Subscribed == {a \in Address : row[a] # NoRow}
Status(a) == IF row[a] = NoRow THEN "none" ELSE row[a].status

\* token is unique: at most one row answers to a link.
Answers(m, a) == row[a] # NoRow /\ row[a].token = m.token

At(r, step) == call[r].at = step
Of(r) == call[r].of
Go(r, step) == call' = [call EXCEPT ![r].at = step]
End(r) == call' = [call EXCEPT ![r] = Idle]
-----------------------------------------------------------------------------
(* launch-subscribe *)

\* The row is selected and a token minted; a failed select reads as no row. An
\* address that is confirmed is acknowledged, and nothing more is done.
Subscribe(r, a) ==
    /\ At(r, "idle")
    /\ minted < MaxToken
    /\ minted' = minted + 1
    /\ \E step \in {"insert", "update"} :
          /\ step = "update" => Status(a) \in {"pending", "unsubscribed"}
          /\ call' = [call EXCEPT ![r] = [at |-> step, of |-> a, token |-> minted + 1]]
    /\ UNCHANGED <<row, inbox, contact, clicked, optedOut>>

\* email is unique. A failed insert is refused, and no mail goes out.
InsertSubscriber(r) ==
    /\ At(r, "insert")
    /\ \/ /\ row[Of(r)] = NoRow
          /\ row' = [row EXCEPT ![Of(r)] =
                        [status |-> "pending", token |-> call[r].token, sent |-> FALSE,
                         rank |-> Cardinality(Subscribed) + 1]]
          /\ Go(r, "mail")
       \/ End(r) /\ UNCHANGED row
    /\ UNCHANGED <<minted, inbox, contact, clicked, optedOut>>

Renewed(rw, t) == [rw EXCEPT !.status = "pending", !.token = t]

\* By id, whatever the row has become; its result is ignored.
UpdateSubscriber(r) ==
    /\ At(r, "update")
    /\ \/ row' = [row EXCEPT ![Of(r)] = Renewed(row[Of(r)], call[r].token)]
       \/ UNCHANGED row
    /\ Go(r, "mail")
    /\ UNCHANGED <<minted, inbox, contact, clicked, optedOut>>

\* The answer is the same whether the provider takes the mail or not.
MailLink(r) ==
    /\ At(r, "mail")
    /\ \/ /\ contact[Of(r)] # "blocked"
          /\ inbox' = inbox \cup {[kind |-> "confirm", to |-> Of(r), token |-> call[r].token]}
       \/ UNCHANGED inbox
    /\ End(r)
    /\ UNCHANGED <<row, minted, contact, clicked, optedOut>>
-----------------------------------------------------------------------------
(* launch-confirm *)

\* A variation: only a confirmed row is left as it is.
ConfirmableAgain(rw) == rw.status # "confirmed"

\* An unsubscribed row is refused, a confirmed one answered as it is.
Confirmable(rw) == rw.status = "pending"

\* The owner follows a link that was mailed; the row is selected by its token.
\* One that opted out and then signed up again asks for the mail again.
SelectToConfirm(r) ==
    /\ At(r, "idle")
    /\ \E m \in inbox, a \in Address :
          /\ m.kind = "confirm"
          /\ Answers(m, a)
          /\ Confirmable(row[a])
          /\ clicked' = clicked \cup {m.to}
          /\ optedOut' = IF Status(a) = "pending" THEN optedOut \ {a} ELSE optedOut
          /\ call' = [call EXCEPT ![r] = [at |-> "confirm", of |-> a, token |-> m.token]]
    /\ UNCHANGED <<row, minted, inbox, contact>>

\* The row was not locked: the update by id is of what it has become.
Confirm(r) ==
    /\ At(r, "confirm")
    /\ row' = [row EXCEPT ![Of(r)].status = "confirmed"]
    /\ Go(r, "sync")
    /\ UNCHANGED <<minted, inbox, contact, clicked, optedOut>>

\* Read again by token, then an upsert of the contact; both are best effort.
SyncContact(r) ==
    /\ At(r, "sync")
    /\ \/ /\ row[Of(r)].token = call[r].token
          /\ contact' = [contact EXCEPT ![Of(r)] = IF @ = "none" THEN "listed" ELSE @]
       \/ UNCHANGED contact
    /\ End(r)
    /\ UNCHANGED <<row, minted, inbox, clicked, optedOut>>
-----------------------------------------------------------------------------
(* launch-unsubscribe *)

SelectToUnsubscribe(r) ==
    /\ At(r, "idle")
    /\ \E m \in inbox, a \in Address :
          /\ m.kind = "sequence"
          /\ Answers(m, a)
          /\ call' = [call EXCEPT ![r] = [at |-> "unsubscribe", of |-> a, token |-> m.token]]
    /\ UNCHANGED <<row, minted, inbox, contact, clicked, optedOut>>

\* Runs that have found the row of a to be pending and have not updated it yet.
Confirming(a) == {r \in Run : At(r, "confirm") /\ Of(r) = a}

\* Opted out, unless a confirmation that found the row pending is still to write.
Unsubscribe(r) ==
    /\ At(r, "unsubscribe")
    /\ row' = [row EXCEPT ![Of(r)].status = "unsubscribed"]
    /\ optedOut' = IF Confirming(Of(r)) = {} THEN optedOut \cup {Of(r)} ELSE optedOut
    /\ Go(r, "block")
    /\ UNCHANGED <<minted, inbox, contact, clicked>>

\* Nothing is there to block when the contact was never made.
BlockContact(r) ==
    /\ At(r, "block")
    /\ \/ contact' = [contact EXCEPT ![Of(r)] = IF @ = "listed" THEN "blocked" ELSE @]
       \/ UNCHANGED contact
    /\ End(r)
    /\ UNCHANGED <<row, minted, inbox, clicked, optedOut>>

Die(r) ==
    /\ ~At(r, "idle")
    /\ End(r)
    /\ UNCHANGED <<row, minted, inbox, contact, clicked, optedOut>>

\* Brevo refuses an address on its own after a hard bounce or a complaint.
Bounce(a) ==
    /\ contact' = [contact EXCEPT ![a] = "blocked"]
    /\ UNCHANGED <<row, minted, inbox, call, clicked, optedOut>>
-----------------------------------------------------------------------------
(* launch-send-campaign-email *)

\* A variation: the filter on the status is left out.
Unsent(a) == row[a] # NoRow /\ ~row[a].sent

\* A variation: the filter on the stamp is left out.
Confirmed(a) == Status(a) = "confirmed"

Due(a) == Status(a) = "confirmed" /\ ~row[a].sent
Ahead(a) == {c \in Address : Due(c) /\ row[c].rank < row[a].rank}

\* A variation: the newest first.
RecipientsNewestFirst ==
    {a \in Address : Due(a) /\ Cardinality({c \in Address : Due(c) /\ a \in Ahead(c)}) < BatchLimit}

\* Due, oldest first, BATCH_LIMIT at most.
Recipients == {a \in Address : Due(a) /\ Cardinality(Ahead(a)) < BatchLimit}

ListOf(b) == {m.to : m \in batch[b].todo} \cup ({batch[b].on} \cap Address)
Held == UNION {ListOf(b) : b \in Batch}

Fault(S) ==
    /\ trouble < MaxTrouble
    /\ trouble' = trouble + 1
    /\ excused' = [a \in Address |-> excused[a] + IF a \in S THEN 1 ELSE 0]

\* A recipient another invocation has on its list may get the mail twice.
ReadRecipients(b) ==
    /\ batch[b].at = "idle"
    /\ Recipients # {}
    /\ batch' = [batch EXCEPT ![b] =
                    [at |-> "next", on |-> Nobody,
                     todo |-> {[to |-> a, token |-> row[a].token] : a \in Recipients}]]
    /\ IF Recipients \cap Held = {} THEN UNCHANGED <<excused, trouble>>
                                    ELSE Fault(Recipients \cap Held)
    /\ UNCHANGED <<web, mails>>

\* The next recipient of the list, which is in the order it was read in.
First(b) == {m \in batch[b].todo :
                  \A n \in batch[b].todo : row[m.to].rank <= row[n.to].rank}

Took(m) == /\ mails' = [mails EXCEPT ![m.to] = @ + 1]
           /\ inbox' = inbox \cup {[kind |-> "sequence", to |-> m.to, token |-> m.token]}
Skipped(b, m) == [batch EXCEPT ![b].todo = @ \ {m}]

\* The provider takes the mail, and says so in time.
SendMail(b) ==
    /\ batch[b].at = "next"
    /\ \E m \in First(b) :
          /\ contact[m.to] # "blocked"
          /\ Took(m)
          /\ batch' = [Skipped(b, m) EXCEPT ![b].at = "stamp", ![b].on = m.to]
    /\ UNCHANGED <<row, minted, contact, call, clicked, optedOut, excused, trouble>>

\* It takes the mail, but the answer is late or broken: counted as failed.
SendMailUnanswered(b) ==
    /\ batch[b].at = "next"
    /\ \E m \in First(b) :
          /\ contact[m.to] # "blocked"
          /\ Took(m)
          /\ batch' = Skipped(b, m)
          /\ Fault({m.to})
    /\ UNCHANGED <<row, minted, contact, call, clicked, optedOut>>

\* It refuses: always for a blocked address, now and then for any other.
RefuseMail(b) ==
    /\ batch[b].at = "next"
    /\ \E m \in First(b) :
          /\ IF contact[m.to] = "blocked" THEN UNCHANGED <<excused, trouble>> ELSE Fault({})
          /\ batch' = Skipped(b, m)
    /\ UNCHANGED <<web, mails>>

\* sequence_1_sent_at; the result of the update is ignored.
Stamp(b) ==
    /\ batch[b].at = "stamp"
    /\ batch' = [batch EXCEPT ![b].at = "next", ![b].on = Nobody]
    /\ \/ /\ row' = [row EXCEPT ![batch[b].on].sent = TRUE]
          /\ UNCHANGED <<excused, trouble>>
       \/ /\ Fault({batch[b].on})
          /\ UNCHANGED row
    /\ UNCHANGED <<minted, inbox, contact, call, clicked, optedOut, mails>>

FinishBatch(b) ==
    /\ batch[b].at = "next" /\ batch[b].todo = {}
    /\ batch' = [batch EXCEPT ![b] = NoBatch]
    /\ UNCHANGED <<web, mails, excused, trouble>>

KillBatch(b) ==
    /\ batch[b].at # "idle"
    /\ Fault({batch[b].on} \cap Address)
    /\ batch' = [batch EXCEPT ![b] = NoBatch]
    /\ UNCHANGED <<web, mails>>
-----------------------------------------------------------------------------
Visit == \/ \E r \in Run :
               \/ \E a \in Address : Subscribe(r, a)
               \/ InsertSubscriber(r) \/ UpdateSubscriber(r) \/ MailLink(r)
               \/ SelectToConfirm(r) \/ Confirm(r) \/ SyncContact(r)
               \/ SelectToUnsubscribe(r) \/ Unsubscribe(r) \/ BlockContact(r)
               \/ Die(r)
         \/ \E a \in Address : Bounce(a)

Working(b) == \/ SendMail(b) \/ SendMailUnanswered(b) \/ RefuseMail(b)
              \/ Stamp(b) \/ FinishBatch(b)

Next == \/ Visit /\ UNCHANGED mailing
        \/ \E b \in Batch : ReadRecipients(b) \/ Working(b) \/ KillBatch(b)

\* A batch that runs goes on, and the owner runs one again while mail is due.
Fairness == /\ WF_vars(\E b \in Batch : ReadRecipients(b))
            /\ \A b \in Batch : WF_vars(Working(b))

Spec == Init /\ [][Next]_vars
FairSpec == Spec /\ Fairness
-----------------------------------------------------------------------------
(* No sequence mail goes to an address whose owner never followed the link  *)
(* of a confirmation mail, whatever the interleaving of signups.           *)
NoMailWithoutOptIn == \A a \in Address : mails[a] > 0 => a \in clicked

(* An opt-out stands until its owner signs up and confirms again: neither a *)
(* link of an old mail nor a signup of somebody else brings the mail back.  *)
OptOutStands == \A a \in optedOut : Status(a) # "confirmed"

(* A second copy of the mail has a cause: a late answer, a lost stamp, a    *)
(* death between mail and stamp, or two invocations at once.               *)
TwiceHasACause == \A a \in Address : mails[a] <= 1 + excused[a]

(* A list that is read after an opt-out does not have its address.         *)
NoListTakesInAnOptOut ==
    [][\A a \in optedOut \cap optedOut', b \in Batch :
          a \in ListOf(b)' => a \in ListOf(b)]_vars

Refused(a) == {c \in Address : /\ Status(c) = "confirmed" /\ contact[c] = "blocked"
                               /\ row[c].rank < row[a].rank}

(* Who stays confirmed and is not refused by the provider gets the mail, in *)
(* a finite number of invocations, unless BATCH_LIMIT addresses that the    *)
(* provider refuses are ahead of them in the order every invocation reads.  *)
EveryoneIsMailed ==
    \A a \in Address :
       <>[](Due(a) /\ contact[a] # "blocked")
          => []<>(row[a] # NoRow /\ Cardinality(Refused(a)) >= BatchLimit)

(* launch-unsubscribe says of this code: UNSUBSCRIBED USERS MUST NOT        *)
(* RECEIVE FUTURE LAUNCH EMAILS.  Does not hold of a list already read.     *)
NoMailAfterOptOut == [][\A a \in optedOut : mails'[a] = mails[a]]_vars
=============================================================================
