--------------------------- MODULE LaunchMailProofs ---------------------------
(***************************************************************************)
(* Theorems about the launch mailing, for any number of addresses, of runs *)
(* of the public functions and of mail-outs that overlap.                  *)
(***************************************************************************)
EXTENDS LaunchMail, FiniteSetTheorems, TLAPS

(* A run that is under way is about an address, and has a row to go by once *)
(* it was found; rows are never removed.                                   *)
Placed == /\ \A r \in Run : ~At(r, "idle") => Of(r) \in Address /\ call[r].token \in Token
          /\ \A r \in Run : call[r].at \in {"update", "confirm", "sync", "unsubscribe", "block"}
                               => row[Of(r)] # NoRow

(* A mail-out at rest has no list, and one that waits for an answer knows   *)
(* whose; the recipients of a list are different and have rows.            *)
Listed == \A b \in Batch :
             /\ batch[b].at = "idle" => batch[b].todo = {} /\ batch[b].on = Nobody
             /\ batch[b].at = "next" => batch[b].on = Nobody
             /\ batch[b].at = "stamp" => batch[b].on \in Address
             /\ batch[b].on \in Address => row[batch[b].on] # NoRow
             /\ \A m \in batch[b].todo : row[m.to] # NoRow
             /\ \A m, n \in batch[b].todo : m.to = n.to => m = n

(* Somebody has the token t for the address a: a row, a run, a link in a    *)
(* mail, or a list.                                                        *)
Has(t, a) == \/ row[a] # NoRow /\ row[a].token = t
             \/ \E r \in Run : Of(r) = a /\ call[r].token = t
             \/ \E m \in inbox : m.to = a /\ m.token = t
             \/ \E b \in Batch : \E m \in batch[b].todo : m.to = a /\ m.token = t

(* A token was minted, and for one address.                                 *)
OneOwner == \A t \in Token, a \in Address : Has(t, a) =>
               /\ t <= minted
               /\ \A c \in Address : Has(t, c) => c = a

(* Whoever is confirmed, is about to be, or is on a list opted in.          *)
OptedIn == /\ \A a \in Address : Status(a) = "confirmed" => a \in clicked
           /\ \A r \in Run : At(r, "confirm") => Of(r) \in clicked
           /\ \A b \in Batch : \A m \in batch[b].todo : m.to \in clicked
           /\ NoMailWithoutOptIn

OptedOut == /\ OptOutStands
            /\ \A r \in Run : At(r, "confirm") => Of(r) \notin optedOut
-----------------------------------------------------------------------------
USE DEF Token, Row, Link, Call, Idle, Todo, NoBatch

(* What the runs of the public functions do to the runs.                    *)
LEMMA Went ==
  ASSUME TypeOK, NEW r \in Run, NEW step, Go(r, step),
         step \in {"insert", "update", "mail", "confirm", "sync", "unsubscribe", "block"}
  PROVE  /\ call' \in [Run -> Call]
         /\ \A q \in Run \ {r} : call'[q] = call[q]
         /\ call'[r].at = step /\ call'[r].of = call[r].of /\ call'[r].token = call[r].token
BY DEF TypeOK, Go

LEMMA Ended ==
  ASSUME TypeOK, NEW r \in Run, End(r)
  PROVE  /\ call' \in [Run -> Call]
         /\ \A q \in Run \ {r} : call'[q] = call[q]
         /\ call'[r] = Idle
<1>1. Idle \in Call
  BY LimitAssumption
<1> HIDE DEF Call, Idle
<1> QED
  BY <1>1 DEF TypeOK, End

LEMMA Began ==
  ASSUME TypeOK, NEW r \in Run, NEW a \in Address, NEW t \in Token, NEW step,
         step \in {"insert", "update", "confirm", "unsubscribe"},
         call' = [call EXCEPT ![r] = [at |-> step, of |-> a, token |-> t]]
  PROVE  /\ call' \in [Run -> Call]
         /\ \A q \in Run \ {r} : call'[q] = call[q]
         /\ call'[r].at = step /\ call'[r].of = a /\ call'[r].token = t
BY DEF TypeOK

(* What a statement does to the table: nothing, or one row that was there   *)
(* keeps its rank and its stamp.                                           *)
Rewritten(a, status, t) ==
    /\ row[a] # NoRow
    /\ row' \in [Address -> Row \cup {NoRow}]
    /\ \A c \in Address \ {a} : row'[c] = row[c]
    /\ row'[a] \in Row /\ row'[a].status = status /\ row'[a].token = t
    /\ row'[a].sent = row[a].sent /\ row'[a].rank = row[a].rank

LEMMA Restatus ==
  ASSUME TypeOK, NEW a \in Address, NEW status \in {"pending", "confirmed", "unsubscribed"},
         row[a] # NoRow, row' = [row EXCEPT ![a].status = status]
  PROVE  Rewritten(a, status, row[a].token)
BY RowAssumption DEF TypeOK, Rewritten

LEMMA Renew ==
  ASSUME TypeOK, NEW a \in Address, NEW t \in Token,
         row[a] # NoRow, row' = [row EXCEPT ![a] = Renewed(row[a], t)]
  PROVE  Rewritten(a, "pending", t)
<1>1. row \in [Address -> Row \cup {NoRow}] /\ row[a] \in Row
  BY DEF TypeOK
<1> DEFINE new == Renewed(row[a], t)
<1>2. /\ new \in Row /\ new.status = "pending" /\ new.token = t
      /\ new.sent = row[a].sent /\ new.rank = row[a].rank
  BY <1>1 DEF Renewed
<1>3. row' = [row EXCEPT ![a] = new]
  OBVIOUS
<1> HIDE DEF new, Row
<1> QED
  BY <1>1, <1>2, <1>3 DEF Rewritten
-----------------------------------------------------------------------------
Base == TypeOK /\ Placed /\ Listed

(* A step of one run of the public functions keeps the base if what it does *)
(* to its run and to the tables does.                                      *)
LEMMA WebKeeps ==
  ASSUME Base, UNCHANGED mailing, NEW r \in Run,
         row' \in [Address -> Row \cup {NoRow}],
         \A a \in Address : row[a] # NoRow => row'[a] # NoRow,
         minted' \in 0 .. MaxToken, inbox' \subseteq Link,
         contact' \in [Address -> {"none", "listed", "blocked"}],
         clicked' \subseteq Address, optedOut' \subseteq Address,
         call' \in [Run -> Call], \A q \in Run \ {r} : call'[q] = call[q],
         call'[r].at # "idle" => call'[r].of \in Address /\ call'[r].token \in Token,
         call'[r].at \in {"update", "confirm", "sync", "unsubscribe", "block"}
            => row'[call'[r].of] # NoRow
  PROVE  Base'
<1> USE DEF Base
<1>1. TypeOK'
  BY DEF TypeOK, mailing
<1>2. Placed'
  <2>1. ASSUME NEW q \in Run \ {r}
        PROVE  /\ ~At(q, "idle")' => Of(q)' \in Address /\ call'[q].token \in Token
               /\ call'[q].at \in {"update", "confirm", "sync", "unsubscribe", "block"}
                     => row'[call'[q].of] # NoRow
    BY <2>1 DEF Placed, At, Of
  <2> QED
    BY <2>1 DEF Placed, At, Of
<1>3. Listed'
  <2>1. \A b \in Batch : /\ batch[b].todo \subseteq Todo
                         /\ batch[b].on \in Address \cup {Nobody}
    BY DEF TypeOK
  <2>2. batch' = batch
    BY DEF mailing
  <2> HIDE DEF Row, Todo
  <2>3. ASSUME NEW b \in Batch, NEW m \in batch[b].todo
        PROVE  row'[m.to] # NoRow
    BY <2>1, <2>3 DEF Listed, Todo
  <2> QED
    BY <2>1, <2>2, <2>3 DEF Listed
<1> QED
  BY <1>1, <1>2, <1>3

LEMMA Minting == TypeOK /\ minted < MaxToken => minted + 1 \in Token /\ minted + 1 \in 0 .. MaxToken
BY LimitAssumption DEF TypeOK

LEMMA SubscribeKeeps ==
  ASSUME Base, UNCHANGED mailing, NEW r \in Run, NEW a \in Address, Subscribe(r, a)
  PROVE  Base'
<1>1. PICK step \in {"insert", "update"} :
        /\ step = "update" => Status(a) \in {"pending", "unsubscribed"}
        /\ call' = [call EXCEPT ![r] = [at |-> step, of |-> a, token |-> minted + 1]]
  BY DEF Subscribe
<1>2. minted + 1 \in Token /\ minted' \in 0 .. MaxToken
  BY Minting DEF Base, Subscribe
<1>3. /\ call' \in [Run -> Call] /\ \A q \in Run \ {r} : call'[q] = call[q]
      /\ call'[r].at = step /\ call'[r].of = a /\ call'[r].token = minted + 1
  BY <1>1, <1>2, Began DEF Base
<1>4. step = "update" => row[a] # NoRow
  BY <1>1 DEF Status
<1>5. row' = row /\ inbox' = inbox /\ contact' = contact /\ clicked' = clicked /\ optedOut' = optedOut
  BY DEF Subscribe
<1> QED
  BY <1>1, <1>2, <1>3, <1>4, <1>5, WebKeeps DEF Base, TypeOK

LEMMA NewRow ==
  ASSUME Base, NEW r \in Run, At(r, "insert"), row[Of(r)] = NoRow,
         row' = [row EXCEPT ![Of(r)] = [status |-> "pending", token |-> call[r].token,
                                        sent |-> FALSE, rank |-> Cardinality(Subscribed) + 1]]
  PROVE  /\ Of(r) \in Address
         /\ row' \in [Address -> Row \cup {NoRow}]
         /\ \A c \in Address \ {Of(r)} : row'[c] = row[c]
         /\ row'[Of(r)] \in Row /\ row'[Of(r)].status = "pending"
         /\ row'[Of(r)].token = call[r].token /\ ~row'[Of(r)].sent
<1>1. Subscribed \subseteq Address
  BY DEF Subscribed
<1>2. Cardinality(Subscribed) \in Nat
  BY <1>1, AddressAssumption, FS_Subset, FS_CardinalityType
<1>3. Of(r) \in Address /\ call[r].token \in Token
  BY DEF Base, Placed, At
<1> DEFINE new == [status |-> "pending", token |-> call[r].token,
                   sent |-> FALSE, rank |-> Cardinality(Subscribed) + 1]
<1>4. new \in Row
  BY <1>2, <1>3
<1>5. new.status = "pending" /\ new.token = call[r].token /\ ~new.sent
  OBVIOUS
<1>6. row' = [row EXCEPT ![Of(r)] = new]
  OBVIOUS
<1>7. row \in [Address -> Row \cup {NoRow}]
  BY DEF Base, TypeOK
<1> HIDE DEF new, Row
<1> QED
  BY <1>3, <1>4, <1>5, <1>6, <1>7

LEMMA InsertKeeps ==
  ASSUME Base, UNCHANGED mailing, NEW r \in Run, InsertSubscriber(r)
  PROVE  Base'
<1>1. /\ minted' = minted /\ inbox' = inbox /\ contact' = contact
      /\ clicked' = clicked /\ optedOut' = optedOut
  BY DEF InsertSubscriber
<1>2. At(r, "insert") /\ Of(r) \in Address /\ call[r].token \in Token
  BY DEF InsertSubscriber, Base, Placed, At
<1>3. CASE End(r) /\ UNCHANGED row
  BY <1>1, <1>3, Ended, WebKeeps DEF Base, TypeOK
<1>4. CASE /\ row[Of(r)] = NoRow
           /\ row' = [row EXCEPT ![Of(r)] = [status |-> "pending", token |-> call[r].token,
                                             sent |-> FALSE, rank |-> Cardinality(Subscribed) + 1]]
           /\ Go(r, "mail")
  <2>1. /\ row' \in [Address -> Row \cup {NoRow}]
        /\ \A a \in Address : row[a] # NoRow => row'[a] # NoRow
    BY <1>2, <1>4, NewRow
  <2>2. /\ call' \in [Run -> Call] /\ \A q \in Run \ {r} : call'[q] = call[q]
        /\ call'[r].at = "mail" /\ call'[r].of = Of(r) /\ call'[r].token = call[r].token
    BY <1>4, Went DEF Base, Of
  <2>3. /\ minted' \in 0 .. MaxToken /\ inbox' \subseteq Link
        /\ contact' \in [Address -> {"none", "listed", "blocked"}]
        /\ clicked' \subseteq Address /\ optedOut' \subseteq Address
    BY <1>1 DEF Base, TypeOK
  <2> HIDE DEF Row, Call, Link
  <2> QED
    BY <1>2, <2>1, <2>2, <2>3, WebKeeps
<1> QED
  BY <1>3, <1>4 DEF InsertSubscriber

LEMMA RewrittenKeepsRows ==
  ASSUME NEW a \in Address, NEW status, NEW t, Rewritten(a, status, t)
  PROVE  \A c \in Address : row[c] # NoRow <=> row'[c] # NoRow
BY RowAssumption DEF Rewritten

LEMMA UpdateKeeps ==
  ASSUME Base, UNCHANGED mailing, NEW r \in Run, UpdateSubscriber(r)
  PROVE  Base'
<1>1. /\ minted' = minted /\ inbox' = inbox /\ contact' = contact
      /\ clicked' = clicked /\ optedOut' = optedOut /\ Go(r, "mail")
  BY DEF UpdateSubscriber
<1>2. Of(r) \in Address /\ call[r].token \in Token /\ row[Of(r)] # NoRow
  BY DEF UpdateSubscriber, Base, Placed, At
<1>3. /\ row' \in [Address -> Row \cup {NoRow}]
      /\ \A a \in Address : row[a] # NoRow => row'[a] # NoRow
  BY <1>2, Renew, RewrittenKeepsRows DEF UpdateSubscriber, Base, TypeOK, Rewritten
<1> HIDE DEF Row
<1> QED
  BY <1>1, <1>2, <1>3, Went, WebKeeps DEF Base, TypeOK, Of

LEMMA MailKeeps ==
  ASSUME Base, UNCHANGED mailing, NEW r \in Run, MailLink(r)
  PROVE  Base'
<1>1. /\ minted' = minted /\ row' = row /\ contact' = contact
      /\ clicked' = clicked /\ optedOut' = optedOut /\ End(r)
  BY DEF MailLink
<1>2. Of(r) \in Address /\ call[r].token \in Token
  BY DEF MailLink, Base, Placed, At
<1>3. inbox' \subseteq Link
  BY <1>2 DEF MailLink, Base, TypeOK
<1> QED
  BY <1>1, <1>2, <1>3, Ended, WebKeeps DEF Base, TypeOK

LEMMA SelectKeeps ==
  ASSUME Base, UNCHANGED mailing, NEW r \in Run, SelectToConfirm(r) \/ SelectToUnsubscribe(r)
  PROVE  Base'
<1>1. PICK m \in inbox, a \in Address, step \in {"confirm", "unsubscribe"} :
        /\ Answers(m, a)
        /\ clicked' \subseteq clicked \cup {m.to} /\ optedOut' \subseteq optedOut
        /\ call' = [call EXCEPT ![r] = [at |-> step, of |-> a, token |-> m.token]]
  BY DEF SelectToConfirm, SelectToUnsubscribe
<1>2. m.to \in Address /\ m.token \in Token
  BY DEF Base, TypeOK
<1>3. row' = row /\ minted' = minted /\ inbox' = inbox /\ contact' = contact
  BY DEF SelectToConfirm, SelectToUnsubscribe
<1>4. /\ call' \in [Run -> Call] /\ \A q \in Run \ {r} : call'[q] = call[q]
      /\ call'[r].at = step /\ call'[r].of = a /\ call'[r].token = m.token
  BY <1>1, <1>2, Began DEF Base
<1> HIDE DEF Row
<1> QED
  BY <1>1, <1>2, <1>3, <1>4, WebKeeps DEF Base, TypeOK, Answers

LEMMA RestatusKeeps ==
  ASSUME Base, UNCHANGED mailing, NEW r \in Run, Confirm(r) \/ Unsubscribe(r)
  PROVE  Base'
<1>1. PICK status \in {"confirmed", "unsubscribed"}, step \in {"sync", "block"} :
         row' = [row EXCEPT ![Of(r)].status = status] /\ Go(r, step)
  BY DEF Confirm, Unsubscribe
<1>2. Of(r) \in Address /\ call[r].token \in Token /\ row[Of(r)] # NoRow
  BY DEF Confirm, Unsubscribe, Base, Placed, At
<1>3. /\ minted' = minted /\ inbox' = inbox /\ contact' = contact /\ clicked' = clicked
      /\ optedOut' \subseteq Address
  BY <1>2 DEF Confirm, Unsubscribe, Base, TypeOK
<1>4. Rewritten(Of(r), status, row[Of(r)].token)
  BY <1>1, <1>2, Restatus DEF Base
<1>5. /\ row' \in [Address -> Row \cup {NoRow}]
      /\ \A a \in Address : row[a] # NoRow => row'[a] # NoRow
  BY <1>2, <1>4, RewrittenKeepsRows DEF Rewritten
<1> HIDE DEF Row
<1> QED
  BY <1>1, <1>2, <1>3, <1>5, Went, WebKeeps DEF Base, TypeOK, Of

LEMMA EndKeeps ==
  ASSUME Base, UNCHANGED mailing, NEW r \in Run, SyncContact(r) \/ BlockContact(r) \/ Die(r)
  PROVE  Base'
<1>1. /\ row' = row /\ minted' = minted /\ inbox' = inbox
      /\ clicked' = clicked /\ optedOut' = optedOut /\ End(r)
  BY DEF SyncContact, BlockContact, Die
<1>2. contact' \in [Address -> {"none", "listed", "blocked"}]
  BY DEF SyncContact, BlockContact, Die, Base, TypeOK
<1> QED
  BY <1>1, <1>2, Ended, WebKeeps DEF Base, TypeOK

LEMMA BounceKeeps ==
  ASSUME Base, UNCHANGED mailing, NEW a \in Address, Bounce(a)
  PROVE  Base'
<1>1. TypeOK' /\ row' = row /\ call' = call /\ batch' = batch
  BY DEF Bounce, Base, TypeOK, mailing
<1> QED
  BY <1>1 DEF Base, Placed, Listed, At, Of

LEMMA VisitKeeps ==
  ASSUME Base, UNCHANGED mailing, Visit
  PROVE  Base'
BY SubscribeKeeps, InsertKeeps, UpdateKeeps, MailKeeps, SelectKeeps, RestatusKeeps, EndKeeps,
   BounceKeeps DEF Visit
-----------------------------------------------------------------------------
BatchRec == [at : {"idle", "next", "stamp"}, todo : SUBSET Todo, on : Address \cup {Nobody}]

(* What a step of one mail-out may do to its own state.                     *)
BatchSound(new) ==
    /\ new \in BatchRec
    /\ new.at = "idle" => new.todo = {} /\ new.on = Nobody
    /\ new.at = "next" => new.on = Nobody
    /\ new.at = "stamp" => new.on \in Address
    /\ new.on \in Address => row[new.on] # NoRow
    /\ \A m \in new.todo : row[m.to] # NoRow
    /\ \A m, n \in new.todo : m.to = n.to => m = n

LEMMA MailingKeeps ==
  ASSUME Base, NEW b \in Batch, NEW new, BatchSound(new), batch' = [batch EXCEPT ![b] = new],
         UNCHANGED <<minted, contact, call, clicked, optedOut>>, inbox' \subseteq Link,
         row' \in [Address -> Row \cup {NoRow}],
         \A a \in Address : row[a] # NoRow <=> row'[a] # NoRow,
         mails' \in [Address -> Nat], excused' \in [Address -> Nat], trouble' \in 0 .. MaxTrouble
  PROVE  Base' /\ batch'[b] = new /\ \A c \in Batch \ {b} : batch'[c] = batch[c]
<1> USE DEF Base
<1>1. batch \in [Batch -> BatchRec]
  BY DEF TypeOK, BatchRec
<1>2. batch' \in [Batch -> BatchRec] /\ batch'[b] = new /\ \A c \in Batch \ {b} : batch'[c] = batch[c]
  <2> HIDE DEF BatchRec
  <2> QED
    BY <1>1 DEF BatchSound
<1>3. TypeOK'
  BY <1>2 DEF TypeOK, BatchRec
<1>4. Placed'
  BY DEF Placed, At, Of, TypeOK
<1>5. Listed'
  <2> SUFFICES ASSUME NEW c \in Batch
               PROVE  /\ batch'[c].at = "idle" => batch'[c].todo = {} /\ batch'[c].on = Nobody
                      /\ batch'[c].at = "next" => batch'[c].on = Nobody
                      /\ batch'[c].at = "stamp" => batch'[c].on \in Address
                      /\ batch'[c].on \in Address => row'[batch'[c].on] # NoRow
                      /\ \A m \in batch'[c].todo : row'[m.to] # NoRow
                      /\ \A m, n \in batch'[c].todo : m.to = n.to => m = n
    BY DEF Listed
  <2>1. \A m \in batch'[c].todo : m.to \in Address
    BY <1>2 DEF BatchRec
  <2>2. BatchSound(batch'[c])
    BY <1>1, <1>2 DEF BatchSound, Listed
  <2> HIDE DEF BatchRec, Todo, Row
  <2> QED
    BY <2>1, <2>2 DEF BatchSound
<1> QED
  BY <1>2, <1>3, <1>4, <1>5

(* A fault of the mail-out excuses those it struck.                         *)
LEMMA Struck ==
  ASSUME TypeOK, NEW S, Fault(S)
  PROVE  /\ trouble' \in 0 .. MaxTrouble /\ excused' \in [Address -> Nat]
         /\ \A a \in Address : excused'[a] = excused[a] + IF a \in S THEN 1 ELSE 0
BY LimitAssumption DEF TypeOK, Fault

LEMMA Untouched ==
  ASSUME TypeOK, UNCHANGED <<excused, trouble>>
  PROVE  /\ trouble' \in 0 .. MaxTrouble /\ excused' \in [Address -> Nat]
         /\ \A a \in Address : excused'[a] = excused[a]
BY DEF TypeOK

LEMMA Counted ==
  ASSUME TypeOK, NEW m \in Todo, Took(m)
  PROVE  /\ mails' \in [Address -> Nat] /\ inbox' \subseteq Link
         /\ mails'[m.to] = mails[m.to] + 1
         /\ \A a \in Address \ {m.to} : mails'[a] = mails[a]
BY DEF TypeOK, Took

(* The list a mail-out reads.                                               *)
ListRead == {[to |-> a, token |-> row[a].token] : a \in Recipients}

LEMMA ReadingEffect ==
  ASSUME Base, NEW b \in Batch, ReadRecipients(b)
  PROVE  /\ Base' /\ batch[b].todo = {} /\ batch[b].on = Nobody
         /\ batch'[b] = [at |-> "next", on |-> Nobody, todo |-> ListRead]
         /\ \A c \in Batch \ {b} : batch'[c] = batch[c]
         /\ UNCHANGED <<web, mails>>
         /\ Recipients \subseteq {a \in Address : Due(a)}
         /\ \A a \in Address : excused'[a] = excused[a] + IF a \in Recipients \cap Held THEN 1 ELSE 0
<1> DEFINE new == [at |-> "next", on |-> Nobody, todo |-> ListRead]
<1>1. Recipients \subseteq {a \in Address : Due(a)}
  BY DEF Recipients
<1>2. \A a \in Recipients : row[a] \in Row
  BY <1>1 DEF Due, Status, Base, TypeOK
<1>3. ListRead \subseteq Todo
  BY <1>1, <1>2 DEF ListRead
<1>4. BatchSound(new)
  <2>1. \A m \in ListRead : row[m.to] # NoRow
    BY <1>2, RowAssumption DEF ListRead
  <2>2. \A m, n \in ListRead : m.to = n.to => m = n
    BY DEF ListRead
  <2>3. new \in BatchRec
    BY <1>3 DEF BatchRec
  <2> QED
    BY <2>1, <2>2, <2>3, AddressAssumption DEF BatchSound
<1>5. batch' = [batch EXCEPT ![b] = new] /\ UNCHANGED <<web, mails>>
  BY DEF ReadRecipients, ListRead
<1>6. batch[b].todo = {} /\ batch[b].on = Nobody
  BY DEF ReadRecipients, Base, Listed
<1>7. /\ trouble' \in 0 .. MaxTrouble /\ excused' \in [Address -> Nat]
      /\ \A a \in Address : excused'[a] = excused[a] + IF a \in Recipients \cap Held THEN 1 ELSE 0
  <2>1. CASE Recipients \cap Held = {}
    <3>1. UNCHANGED <<excused, trouble>>
      BY <2>1 DEF ReadRecipients
    <3>2. excused \in [Address -> Nat]
      BY DEF Base, TypeOK
    <3> QED
      BY <2>1, <3>1, <3>2, Untouched DEF Base
  <2>2. CASE Recipients \cap Held # {}
    <3>1. Fault(Recipients \cap Held)
      BY <2>2 DEF ReadRecipients
    <3> QED
      BY <3>1, Struck DEF Base
  <2> QED
    BY <2>1, <2>2
<1> HIDE DEF new
<1>8. Base' /\ batch'[b] = new /\ \A c \in Batch \ {b} : batch'[c] = batch[c]
  BY <1>4, <1>5, <1>7, MailingKeeps DEF web, Base, TypeOK
<1> QED
  BY <1>1, <1>5, <1>6, <1>7, <1>8 DEF new

(* One mail of a list is dealt with; what is left of the list.              *)
LEMMA Left ==
  ASSUME Base, NEW b \in Batch, batch[b].at = "next", NEW m \in batch[b].todo
  PROVE  /\ m \in Todo /\ m.to \in Address /\ row[m.to] # NoRow
         /\ Skipped(b, m) = [batch EXCEPT ![b] = [at |-> "next", on |-> Nobody, todo |-> batch[b].todo \ {m}]]
         /\ [Skipped(b, m) EXCEPT ![b].at = "stamp", ![b].on = m.to]
              = [batch EXCEPT ![b] = [at |-> "stamp", on |-> m.to, todo |-> batch[b].todo \ {m}]]
         /\ BatchSound([at |-> "next", on |-> Nobody, todo |-> batch[b].todo \ {m}])
         /\ BatchSound([at |-> "stamp", on |-> m.to, todo |-> batch[b].todo \ {m}])
<1>1. batch \in [Batch -> BatchRec] /\ batch[b] \in BatchRec
  BY DEF Base, TypeOK, BatchRec
<1>2. m \in Todo /\ m.to \in Address
  BY <1>1 DEF BatchRec
<1>3. row[m.to] # NoRow /\ batch[b].on = Nobody
  BY DEF Base, Listed
<1>4. Skipped(b, m) = [batch EXCEPT ![b] = [at |-> "next", on |-> Nobody, todo |-> batch[b].todo \ {m}]]
  <2>1. batch[b] = [at |-> "next", on |-> Nobody, todo |-> batch[b].todo]
    BY <1>1, <1>3 DEF BatchRec
  <2>2. [batch[b] EXCEPT !.todo = @ \ {m}] = [at |-> "next", on |-> Nobody, todo |-> batch[b].todo \ {m}]
    BY <2>1
  <2> QED
    BY <2>2 DEF Skipped
<1>5. [Skipped(b, m) EXCEPT ![b].at = "stamp", ![b].on = m.to]
        = [batch EXCEPT ![b] = [at |-> "stamp", on |-> m.to, todo |-> batch[b].todo \ {m}]]
  BY <1>1, <1>4 DEF BatchRec
<1>6. /\ batch[b].todo \ {m} \subseteq Todo
      /\ \A n \in batch[b].todo \ {m} : row[n.to] # NoRow
      /\ \A n, k \in batch[b].todo \ {m} : n.to = k.to => n = k
  BY <1>1 DEF BatchRec, Base, Listed
<1>7. /\ [at |-> "next", on |-> Nobody, todo |-> batch[b].todo \ {m}] \in BatchRec
      /\ [at |-> "stamp", on |-> m.to, todo |-> batch[b].todo \ {m}] \in BatchRec
  BY <1>2, <1>6 DEF BatchRec
<1> QED
  BY <1>2, <1>3, <1>4, <1>5, <1>6, <1>7, AddressAssumption DEF BatchSound

(* What a step of the mail-out b does to the batches.                       *)
Becomes(b, at, on, todo) ==
    /\ batch'[b] = [at |-> at, on |-> on, todo |-> todo]
    /\ \A c \in Batch \ {b} : batch'[c] = batch[c]

LEMMA SendingEffect ==
  ASSUME Base, NEW b \in Batch, SendMail(b)
  PROVE  /\ Base' /\ UNCHANGED <<row, excused, clicked, optedOut, minted, call>>
         /\ \E m \in batch[b].todo : /\ m \in Todo /\ Took(m)
                                     /\ Becomes(b, "stamp", m.to, batch[b].todo \ {m})
<1>1. PICK m \in batch[b].todo :
        /\ Took(m) /\ batch[b].at = "next"
        /\ batch' = [Skipped(b, m) EXCEPT ![b].at = "stamp", ![b].on = m.to]
  BY DEF SendMail, First
<1>2. UNCHANGED <<row, minted, contact, call, clicked, optedOut, excused, trouble>>
  BY DEF SendMail
<1> DEFINE new == [at |-> "stamp", on |-> m.to, todo |-> batch[b].todo \ {m}]
<1>3. m \in Todo /\ BatchSound(new) /\ batch' = [batch EXCEPT ![b] = new]
  BY <1>1, Left
<1>4. mails' \in [Address -> Nat] /\ inbox' \subseteq Link
  BY <1>1, <1>3, Counted DEF Base
<1> HIDE DEF new
<1>5. Base' /\ batch'[b] = new /\ \A c \in Batch \ {b} : batch'[c] = batch[c]
  BY <1>2, <1>3, <1>4, Untouched, MailingKeeps DEF Base, TypeOK
<1> QED
  BY <1>1, <1>2, <1>3, <1>5 DEF new, Becomes

LEMMA UnansweredEffect ==
  ASSUME Base, NEW b \in Batch, SendMailUnanswered(b)
  PROVE  /\ Base' /\ UNCHANGED <<row, clicked, optedOut, minted, call>>
         /\ \E m \in batch[b].todo : /\ m \in Todo /\ Took(m)
                                     /\ Becomes(b, "next", Nobody, batch[b].todo \ {m})
                                     /\ \A a \in Address : excused'[a] = excused[a] + IF a = m.to THEN 1 ELSE 0
<1>1. PICK m \in batch[b].todo :
        /\ Took(m) /\ batch[b].at = "next" /\ Fault({m.to})
        /\ batch' = Skipped(b, m)
  BY DEF SendMailUnanswered, First
<1>2. UNCHANGED <<row, minted, contact, call, clicked, optedOut>>
  BY DEF SendMailUnanswered
<1> DEFINE new == [at |-> "next", on |-> Nobody, todo |-> batch[b].todo \ {m}]
<1>3. m \in Todo /\ BatchSound(new) /\ batch' = [batch EXCEPT ![b] = new]
  BY <1>1, Left
<1>4. mails' \in [Address -> Nat] /\ inbox' \subseteq Link
  BY <1>1, <1>3, Counted DEF Base
<1>5. /\ trouble' \in 0 .. MaxTrouble /\ excused' \in [Address -> Nat]
      /\ \A a \in Address : excused'[a] = excused[a] + IF a = m.to THEN 1 ELSE 0
  BY <1>1, Struck DEF Base
<1> HIDE DEF new
<1>6. Base' /\ batch'[b] = new /\ \A c \in Batch \ {b} : batch'[c] = batch[c]
  BY <1>2, <1>3, <1>4, <1>5, MailingKeeps DEF Base, TypeOK
<1> QED
  BY <1>1, <1>2, <1>3, <1>5, <1>6 DEF new, Becomes

LEMMA RefusingEffect ==
  ASSUME Base, NEW b \in Batch, RefuseMail(b)
  PROVE  /\ Base' /\ UNCHANGED <<row, inbox, mails, clicked, optedOut, minted, call>>
         /\ \E m \in batch[b].todo : m \in Todo /\ Becomes(b, "next", Nobody, batch[b].todo \ {m})
         /\ \A a \in Address : excused'[a] = excused[a]
<1>1. PICK m \in batch[b].todo :
        /\ Fault({}) \/ UNCHANGED <<excused, trouble>>
        /\ batch' = Skipped(b, m)
  BY DEF RefuseMail, First
<1>2. UNCHANGED <<web, mails>> /\ batch[b].at = "next"
  BY DEF RefuseMail
<1> DEFINE new == [at |-> "next", on |-> Nobody, todo |-> batch[b].todo \ {m}]
<1>3. m \in Todo /\ BatchSound(new) /\ batch' = [batch EXCEPT ![b] = new]
  BY <1>1, <1>2, Left
<1>4. excused \in [Address -> Nat]
  BY DEF Base, TypeOK
<1>5. /\ trouble' \in 0 .. MaxTrouble /\ excused' \in [Address -> Nat]
      /\ \A a \in Address : excused'[a] = excused[a]
  <2>1. CASE Fault({})
    BY <2>1, <1>4, Struck DEF Base
  <2> QED
    BY <1>1, <2>1, Untouched DEF Base
<1> HIDE DEF new
<1>6. Base' /\ batch'[b] = new /\ \A c \in Batch \ {b} : batch'[c] = batch[c]
  BY <1>2, <1>3, <1>5, MailingKeeps DEF Base, TypeOK, web
<1> QED
  BY <1>1, <1>2, <1>3, <1>5, <1>6 DEF new, Becomes, web

LEMMA StampingEffect ==
  ASSUME Base, NEW b \in Batch, Stamp(b)
  PROVE  /\ Base' /\ UNCHANGED <<inbox, mails, clicked, optedOut, minted, call>>
         /\ batch[b].on \in Address /\ Becomes(b, "next", Nobody, batch[b].todo)
         /\ \/ /\ row' = [row EXCEPT ![batch[b].on].sent = TRUE]
               /\ row[batch[b].on] # NoRow
               /\ \A a \in Address : excused'[a] = excused[a]
            \/ /\ row' = row
               /\ \A a \in Address : excused'[a] = excused[a] + IF a = batch[b].on THEN 1 ELSE 0
<1> DEFINE a == batch[b].on
           new == [at |-> "next", on |-> Nobody, todo |-> batch[b].todo]
<1>1. batch[b].at = "stamp" /\ a \in Address /\ row[a] # NoRow
  BY DEF Stamp, Base, Listed
<1>2. UNCHANGED <<minted, inbox, contact, call, clicked, optedOut, mails>>
  BY DEF Stamp
<1>3. batch \in [Batch -> BatchRec] /\ batch[b] \in BatchRec
  BY DEF Base, TypeOK, BatchRec
<1>4. batch' = [batch EXCEPT ![b] = new]
  <2>1. batch' = [batch EXCEPT ![b].at = "next", ![b].on = Nobody]
    BY DEF Stamp
  <2>2. batch'[b] \in BatchRec /\ batch'[b].at = "next" /\ batch'[b].on = Nobody
        /\ batch'[b].todo = batch[b].todo
    BY <1>3, <2>1, AddressAssumption DEF BatchRec
  <2>3. batch'[b] = new
    BY <2>2 DEF BatchRec
  <2> QED
    BY <1>3, <2>1, <2>3
<1>5. BatchSound(new)
  BY <1>3, AddressAssumption DEF BatchSound, BatchRec, Base, Listed
<1>6. /\ trouble' \in 0 .. MaxTrouble /\ excused' \in [Address -> Nat]
      /\ \/ /\ row' = [row EXCEPT ![a].sent = TRUE]
            /\ \A c \in Address : excused'[c] = excused[c]
         \/ /\ row' = row
            /\ \A c \in Address : excused'[c] = excused[c] + IF c = a THEN 1 ELSE 0
  <2>1. CASE Fault({a}) /\ UNCHANGED row
    <3>1. /\ trouble' \in 0 .. MaxTrouble /\ excused' \in [Address -> Nat]
          /\ \A c \in Address : excused'[c] = excused[c] + IF c \in {a} THEN 1 ELSE 0
      BY <2>1, Struck DEF Base
    <3> QED
      BY <2>1, <3>1
  <2>2. CASE row' = [row EXCEPT ![a].sent = TRUE] /\ UNCHANGED <<excused, trouble>>
    BY <2>2, Untouched DEF Base
  <2> QED
    BY <2>1, <2>2 DEF Stamp
<1>7. /\ row' \in [Address -> Row \cup {NoRow}]
      /\ \A c \in Address : row[c] # NoRow <=> row'[c] # NoRow
  <2>1. row \in [Address -> Row \cup {NoRow}] /\ row[a] \in Row
    BY <1>1 DEF Base, TypeOK
  <2>2. [row[a] EXCEPT !.sent = TRUE] \in Row
    BY <2>1
  <2> HIDE DEF Row
  <2> QED
    BY <1>1, <1>6, <2>1, <2>2, RowAssumption
<1> HIDE DEF new
<1>8. Base' /\ batch'[b] = new /\ \A c \in Batch \ {b} : batch'[c] = batch[c]
  BY <1>2, <1>4, <1>5, <1>6, <1>7, MailingKeeps DEF Base, TypeOK
<1> QED
  BY <1>1, <1>2, <1>6, <1>8 DEF new, Becomes

LEMMA EndingEffect ==
  ASSUME Base, NEW b \in Batch, FinishBatch(b) \/ KillBatch(b)
  PROVE  /\ Base' /\ UNCHANGED <<row, inbox, mails, clicked, optedOut, minted, call>>
         /\ Becomes(b, "idle", Nobody, {})
         /\ FinishBatch(b) => batch[b].todo = {} /\ batch[b].on = Nobody
         /\ FinishBatch(b) => \A a \in Address : excused'[a] = excused[a]
         /\ KillBatch(b) => \A a \in Address : excused'[a] = excused[a] + IF a = batch[b].on THEN 1 ELSE 0
<1> DEFINE new == [at |-> "idle", on |-> Nobody, todo |-> {}]
<1>1. UNCHANGED <<web, mails>> /\ batch' = [batch EXCEPT ![b] = new]
  BY DEF FinishBatch, KillBatch
<1>2. BatchSound(new)
  BY AddressAssumption DEF BatchSound, BatchRec
<1>3. ASSUME KillBatch(b)
      PROVE  /\ trouble' \in 0 .. MaxTrouble /\ excused' \in [Address -> Nat]
             /\ \A a \in Address : excused'[a] = excused[a] + IF a = batch[b].on THEN 1 ELSE 0
  <2>1. /\ trouble' \in 0 .. MaxTrouble /\ excused' \in [Address -> Nat]
        /\ \A a \in Address : excused'[a] = excused[a] + IF a \in {batch[b].on} \cap Address THEN 1 ELSE 0
    BY <1>3, Struck DEF KillBatch, Base
  <2> QED
    BY <2>1
<1>4. ASSUME FinishBatch(b)
      PROVE  /\ trouble' \in 0 .. MaxTrouble /\ excused' \in [Address -> Nat]
             /\ \A a \in Address : excused'[a] = excused[a]
             /\ batch[b].todo = {} /\ batch[b].on = Nobody
  BY <1>4, Untouched DEF FinishBatch, Base, Listed
<1> HIDE DEF new
<1>5. Base' /\ batch'[b] = new /\ \A c \in Batch \ {b} : batch'[c] = batch[c]
  BY <1>1, <1>2, <1>3, <1>4, MailingKeeps DEF Base, TypeOK, web
<1> QED
  BY <1>1, <1>3, <1>4, <1>5 DEF new, Becomes, web

LEMMA BaseStep == Base /\ [Next]_vars => Base'
<1> SUFFICES ASSUME Base, [Next]_vars PROVE Base'
  OBVIOUS
<1>1. CASE Visit /\ UNCHANGED mailing
  BY <1>1, VisitKeeps
<1>2. ASSUME NEW b \in Batch, ReadRecipients(b) \/ Working(b) \/ KillBatch(b)
      PROVE  Base'
  BY <1>2, ReadingEffect, SendingEffect, UnansweredEffect, RefusingEffect, StampingEffect,
     EndingEffect DEF Working
<1>3. CASE UNCHANGED vars
  BY <1>3 DEF vars, web, mailing, Base, TypeOK, Placed, Listed, At, Of
<1> QED
  BY <1>1, <1>2, <1>3 DEF Next
-----------------------------------------------------------------------------
(* A mail-out changes no status, and no token.                              *)
LEMMA MailingLeaves ==
  ASSUME Base, NEW b \in Batch, ReadRecipients(b) \/ Working(b) \/ KillBatch(b)
  PROVE  /\ UNCHANGED <<minted, call, clicked, optedOut>>
         /\ \A a \in Address : /\ row'[a] # NoRow <=> row[a] # NoRow
                               /\ row[a] # NoRow => row'[a].token = row[a].token
                               /\ Status(a)' = Status(a)
<1>1. CASE Stamp(b)
  <2>1. UNCHANGED <<minted, call, clicked, optedOut>> /\ batch[b].on \in Address
    BY <1>1, StampingEffect
  <2>2. CASE row' = row
    BY <2>1, <2>2 DEF Status
  <2>3. CASE /\ row' = [row EXCEPT ![batch[b].on].sent = TRUE]
             /\ row[batch[b].on] # NoRow
    <3>1. row \in [Address -> Row \cup {NoRow}] /\ row[batch[b].on] \in Row
      BY <2>1, <2>3 DEF Base, TypeOK
    <3>2. [row[batch[b].on] EXCEPT !.sent = TRUE] \in Row
      BY <3>1
    <3>3. /\ row'[batch[b].on] # NoRow
          /\ row'[batch[b].on].token = row[batch[b].on].token
          /\ row'[batch[b].on].status = row[batch[b].on].status
      BY <2>1, <2>3, <3>1, <3>2, RowAssumption
    <3>4. \A a \in Address \ {batch[b].on} : row'[a] = row[a]
      BY <2>3, <3>1
    <3> HIDE DEF Row
    <3> QED
      BY <2>1, <2>3, <3>3, <3>4 DEF Status
  <2> QED
    BY <1>1, <2>2, <2>3, StampingEffect
<1>2. CASE ReadRecipients(b)
  BY <1>2, ReadingEffect DEF web, Status
<1>3. CASE SendMail(b) \/ SendMailUnanswered(b) \/ RefuseMail(b) \/ FinishBatch(b) \/ KillBatch(b)
  BY <1>3, SendingEffect, UnansweredEffect, RefusingEffect, EndingEffect DEF Status
<1> QED
  BY <1>1, <1>2, <1>3 DEF Working

(* What a rewritten or a new row changes about statuses.                    *)
LEMMA Statuses ==
  ASSUME NEW a \in Address, NEW status, NEW t, Rewritten(a, status, t)
  PROVE  Status(a)' = status /\ \A c \in Address \ {a} : Status(c)' = Status(c)
BY RowAssumption DEF Rewritten, Status

LEMMA NewStatus ==
  ASSUME Base, NEW r \in Run, InsertSubscriber(r)
  PROVE  \A c \in Address : Status(c)' \in {Status(c), "pending"}
<1>1. CASE UNCHANGED row
  BY <1>1 DEF Status
<1>2. CASE /\ At(r, "insert") /\ row[Of(r)] = NoRow
           /\ row' = [row EXCEPT ![Of(r)] = [status |-> "pending", token |-> call[r].token,
                                             sent |-> FALSE, rank |-> Cardinality(Subscribed) + 1]]
  <2>1. /\ \A c \in Address \ {Of(r)} : row'[c] = row[c]
        /\ row'[Of(r)] # NoRow /\ row'[Of(r)].status = "pending"
    BY <1>2, NewRow, RowAssumption
  <2> QED
    BY <2>1 DEF Status
<1> QED
  BY <1>1, <1>2 DEF InsertSubscriber

(* The update of a run by the id of a row it found.                         *)
LEMMA Updates ==
  ASSUME Base, NEW r \in Run
  PROVE  /\ UpdateSubscriber(r) => row' = row \/ Rewritten(Of(r), "pending", call[r].token)
         /\ Confirm(r) => Rewritten(Of(r), "confirmed", row[Of(r)].token)
         /\ Unsubscribe(r) => Rewritten(Of(r), "unsubscribed", row[Of(r)].token)
         /\ UpdateSubscriber(r) \/ Confirm(r) \/ Unsubscribe(r) => Of(r) \in Address /\ call[r].token \in Token
<1>1. ASSUME UpdateSubscriber(r) \/ Confirm(r) \/ Unsubscribe(r)
      PROVE  Of(r) \in Address /\ call[r].token \in Token /\ row[Of(r)] # NoRow
  BY <1>1 DEF UpdateSubscriber, Confirm, Unsubscribe, Base, Placed, At
<1> QED
  BY <1>1, Renew, Restatus DEF UpdateSubscriber, Confirm, Unsubscribe, Base

(* Only a selection makes a run that is about to confirm.                   *)
LEMMA ToConfirm ==
  ASSUME Base, NEW r \in Run,
         \/ \E a \in Address : Subscribe(r, a)
         \/ InsertSubscriber(r) \/ UpdateSubscriber(r) \/ MailLink(r) \/ Confirm(r) \/ SyncContact(r)
         \/ SelectToUnsubscribe(r) \/ Unsubscribe(r) \/ BlockContact(r) \/ Die(r)
  PROVE  \A q \in Run : At(q, "confirm")' => At(q, "confirm") /\ Of(q)' = Of(q) /\ q # r
<1>1. CASE \/ InsertSubscriber(r) \/ MailLink(r) \/ SyncContact(r) \/ BlockContact(r) \/ Die(r)
           \/ UpdateSubscriber(r) \/ Confirm(r) \/ Unsubscribe(r)
  <2>1. End(r) \/ \E step \in {"mail", "sync", "block"} : Go(r, step)
    BY <1>1 DEF InsertSubscriber, MailLink, SyncContact, BlockContact, Die, UpdateSubscriber, Confirm, Unsubscribe
  <2> QED
    BY <2>1, Ended, Went DEF Base, At, Of
<1>2. CASE \E a \in Address : Subscribe(r, a)
  <2>1. PICK a \in Address, step \in {"insert", "update"} :
          call' = [call EXCEPT ![r] = [at |-> step, of |-> a, token |-> minted + 1]]
    BY <1>2 DEF Subscribe
  <2> QED
    BY <1>2, <2>1, Minting, Began DEF Subscribe, Base, At, Of
<1>3. CASE SelectToUnsubscribe(r)
  <2>1. PICK m \in inbox, a \in Address :
          call' = [call EXCEPT ![r] = [at |-> "unsubscribe", of |-> a, token |-> m.token]]
    BY <1>3 DEF SelectToUnsubscribe
  <2>2. m.token \in Token
    BY DEF Base, TypeOK
  <2> QED
    BY <2>1, <2>2, Began DEF Base, At, Of
<1> QED
  BY <1>1, <1>2, <1>3

LEMMA Selecting ==
  ASSUME Base, NEW r \in Run, SelectToConfirm(r)
  PROVE  /\ row' = row
         /\ \E m \in inbox, a \in Address :
              /\ m.to \in Address /\ m.token \in Token
              /\ Answers(m, a) /\ Status(a) = "pending"
              /\ clicked' = clicked \cup {m.to} /\ optedOut' = optedOut \ {a}
              /\ \A q \in Run : At(q, "confirm")' => \/ At(q, "confirm") /\ Of(q)' = Of(q)
                                                     \/ Of(q)' = a
<1>1. PICK m \in inbox, a \in Address :
        /\ Answers(m, a) /\ Confirmable(row[a])
        /\ clicked' = clicked \cup {m.to}
        /\ optedOut' = IF Status(a) = "pending" THEN optedOut \ {a} ELSE optedOut
        /\ call' = [call EXCEPT ![r] = [at |-> "confirm", of |-> a, token |-> m.token]]
  BY DEF SelectToConfirm
<1>2. m.to \in Address /\ m.token \in Token
  BY DEF Base, TypeOK
<1>3. Status(a) = "pending"
  BY <1>1 DEF Status, Confirmable, Answers
<1>4. \A q \in Run : At(q, "confirm")' => \/ At(q, "confirm") /\ Of(q)' = Of(q)
                                          \/ Of(q)' = a
  BY <1>1, <1>2, Began DEF Base, At, Of
<1> QED
  BY <1>1, <1>2, <1>3, <1>4 DEF SelectToConfirm

LEMMA OptedOutStep == Base /\ OptedOut /\ [Next]_vars => OptedOut'
<1> SUFFICES ASSUME Base, OptedOut, [Next]_vars PROVE OptedOut'
  OBVIOUS
<1> USE DEF OptedOut, OptOutStands
<1>1. ASSUME NEW r \in Run, NEW a \in Address, Subscribe(r, a) PROVE OptedOut'
  <2>1. row' = row /\ optedOut' = optedOut
    BY <1>1 DEF Subscribe
  <2> QED
    BY <1>1, <2>1, ToConfirm DEF Status
<1>2. ASSUME NEW r \in Run, InsertSubscriber(r) PROVE OptedOut'
  <2>1. optedOut' = optedOut /\ optedOut \subseteq Address
    BY <1>2 DEF InsertSubscriber, Base, TypeOK
  <2> QED
    BY <1>2, <2>1, ToConfirm, NewStatus
<1>3. ASSUME NEW r \in Run, UpdateSubscriber(r) PROVE OptedOut'
  <2>1. optedOut' = optedOut /\ optedOut \subseteq Address
    BY <1>3 DEF UpdateSubscriber, Base, TypeOK
  <2>2. \A c \in Address : Status(c)' \in {Status(c), "pending"}
    BY <1>3, Updates, Statuses DEF Status
  <2> QED
    BY <1>3, <2>1, <2>2, ToConfirm
<1>4. ASSUME NEW r \in Run, Confirm(r) PROVE OptedOut'
  <2>1. optedOut' = optedOut /\ optedOut \subseteq Address /\ Of(r) \notin optedOut
    BY <1>4 DEF Confirm, Base, TypeOK
  <2> QED
    BY <1>4, <2>1, Updates, Statuses, ToConfirm
<1>5. ASSUME NEW r \in Run, Unsubscribe(r) PROVE OptedOut'
  <2>1. optedOut' = IF Confirming(Of(r)) = {} THEN optedOut \cup {Of(r)} ELSE optedOut
    BY <1>5 DEF Unsubscribe
  <2>2. optedOut \subseteq Address
    BY DEF Base, TypeOK
  <2>3. \A q \in Run : At(q, "confirm")' => Of(q)' \notin optedOut'
    BY <1>5, <2>1, ToConfirm DEF Confirming
  <2> QED
    BY <1>5, <2>1, <2>2, <2>3, Updates, Statuses
<1>6. ASSUME NEW r \in Run, SelectToConfirm(r) PROVE OptedOut'
  BY <1>6, Selecting DEF Status
<1>7. ASSUME NEW r \in Run, MailLink(r) \/ SyncContact(r) \/ SelectToUnsubscribe(r) \/ BlockContact(r) \/ Die(r)
      PROVE  OptedOut'
  <2>1. row' = row /\ optedOut' = optedOut
    BY <1>7 DEF MailLink, SyncContact, SelectToUnsubscribe, BlockContact, Die
  <2> QED
    BY <1>7, <2>1, ToConfirm DEF Status
<1>8. ASSUME NEW a \in Address, Bounce(a) PROVE OptedOut'
  BY <1>8 DEF Bounce, Status, At, Of
<1>9. ASSUME NEW b \in Batch, ReadRecipients(b) \/ Working(b) \/ KillBatch(b) PROVE OptedOut'
  BY <1>9, MailingLeaves DEF At, Of, Base, TypeOK
<1>10. CASE UNCHANGED vars
  BY <1>10 DEF vars, web, Status, At, Of
<1> QED
  BY <1>1, <1>2, <1>3, <1>4, <1>5, <1>6, <1>7, <1>8, <1>9, <1>10 DEF Next, Visit
-----------------------------------------------------------------------------
(* Nobody has a token for an address that nobody had for it before, other   *)
(* than the one a signup mints.                                            *)
NoNewHolder == \A t \in Token, a \in Address : Has(t, a)' => Has(t, a)

LEMMA HoldersOfVisits ==
  ASSUME Base, NEW r \in Run, UNCHANGED mailing,
         \/ InsertSubscriber(r) \/ UpdateSubscriber(r) \/ MailLink(r) \/ Confirm(r) \/ SyncContact(r)
         \/ SelectToConfirm(r) \/ SelectToUnsubscribe(r) \/ Unsubscribe(r) \/ BlockContact(r) \/ Die(r)
  PROVE  NoNewHolder /\ minted' = minted
<1>1. batch' = batch
  BY DEF mailing
<1>2. CASE InsertSubscriber(r) \/ UpdateSubscriber(r) \/ Confirm(r) \/ Unsubscribe(r)
  <2>1. inbox' = inbox /\ minted' = minted
    BY <1>2 DEF InsertSubscriber, UpdateSubscriber, Confirm, Unsubscribe
  <2>2. End(r) \/ \E step \in {"mail", "sync", "block"} : Go(r, step)
    BY <1>2 DEF InsertSubscriber, UpdateSubscriber, Confirm, Unsubscribe
  <2>3. \A q \in Run, a \in Address : Of(q)' = a => Of(q) = a /\ call'[q].token = call[q].token
    BY <2>2, Ended, Went, AddressAssumption DEF Base, Of
  <2>4. \A a \in Address : row'[a] # NoRow =>
           \/ row[a] # NoRow /\ row'[a].token = row[a].token
           \/ Of(r) = a /\ row'[a].token = call[r].token
    <3>1. CASE row' = row
      BY <3>1
    <3>2. CASE Rewritten(Of(r), "pending", call[r].token)
      BY <3>2 DEF Rewritten
    <3>3. CASE \E s \in {"confirmed", "unsubscribed"} : Rewritten(Of(r), s, row[Of(r)].token)
      BY <3>3 DEF Rewritten
    <3>4. CASE /\ At(r, "insert") /\ row[Of(r)] = NoRow
               /\ row' = [row EXCEPT ![Of(r)] = [status |-> "pending", token |-> call[r].token,
                                                 sent |-> FALSE, rank |-> Cardinality(Subscribed) + 1]]
      <4>1. /\ \A c \in Address \ {Of(r)} : row'[c] = row[c]
            /\ row'[Of(r)].token = call[r].token
        BY <3>4, NewRow
      <4> QED
        BY <4>1
    <3> QED
      BY <1>2, <3>1, <3>2, <3>3, <3>4, Updates DEF InsertSubscriber
  <2> QED
    BY <1>1, <2>1, <2>3, <2>4 DEF Has, NoNewHolder
<1>3. CASE MailLink(r)
  <2>1. row' = row /\ minted' = minted /\ End(r)
    BY <1>3 DEF MailLink
  <2>2. \A m \in inbox' : m \in inbox \/ (m.to = Of(r) /\ m.token = call[r].token)
    <3>1. \/ inbox' = inbox
          \/ inbox' = inbox \cup {[kind |-> "confirm", to |-> Of(r), token |-> call[r].token]}
      BY <1>3 DEF MailLink
    <3> QED
      BY <3>1
  <2>3. \A q \in Run, a \in Address : Of(q)' = a => Of(q) = a /\ call'[q].token = call[q].token
    BY <2>1, Ended, AddressAssumption DEF Base, Of
  <2> QED
    BY <1>1, <2>1, <2>2, <2>3 DEF Has, NoNewHolder
<1>4. CASE SyncContact(r) \/ BlockContact(r) \/ Die(r)
  <2>1. row' = row /\ minted' = minted /\ inbox' = inbox /\ End(r)
    BY <1>4 DEF SyncContact, BlockContact, Die
  <2>2. \A q \in Run, a \in Address : Of(q)' = a => Of(q) = a /\ call'[q].token = call[q].token
    BY <2>1, Ended, AddressAssumption DEF Base, Of
  <2> QED
    BY <1>1, <2>1, <2>2 DEF Has, NoNewHolder
<1>5. CASE SelectToConfirm(r) \/ SelectToUnsubscribe(r)
  <2>1. row' = row /\ minted' = minted /\ inbox' = inbox
    BY <1>5 DEF SelectToConfirm, SelectToUnsubscribe
  <2>2. PICK m \in inbox, c \in Address, step \in {"confirm", "unsubscribe"} :
          /\ Answers(m, c)
          /\ call' = [call EXCEPT ![r] = [at |-> step, of |-> c, token |-> m.token]]
    BY <1>5 DEF SelectToConfirm, SelectToUnsubscribe
  <2>3. m.token \in Token
    BY DEF Base, TypeOK
  <2>4. \A q \in Run, a \in Address : Of(q)' = a =>
          \/ Of(q) = a /\ call'[q].token = call[q].token
          \/ a = c /\ call'[q].token = row[c].token /\ row[c] # NoRow
    BY <2>2, <2>3, Began DEF Base, Of, Answers
  <2> QED
    BY <1>1, <2>1, <2>4 DEF Has, NoNewHolder
<1> QED
  BY <1>2, <1>3, <1>4, <1>5

(* A mail-out at work only ever shortens its list.                          *)
LEMMA ListsShrink ==
  ASSUME Base, NEW b \in Batch, Working(b) \/ KillBatch(b)
  PROVE  \A c \in Batch : batch'[c].todo \subseteq batch[c].todo
<1>1. CASE SendMail(b) \/ SendMailUnanswered(b) \/ RefuseMail(b)
  <2>1. PICK m \in batch[b].todo, at \in {"next", "stamp"}, on \in Address \cup {Nobody} :
          Becomes(b, at, on, batch[b].todo \ {m})
    BY <1>1, SendingEffect, UnansweredEffect, RefusingEffect
  <2> QED
    BY <2>1 DEF Becomes
<1>2. CASE Stamp(b)
  <2>1. Becomes(b, "next", Nobody, batch[b].todo)
    BY <1>2, StampingEffect
  <2> QED
    BY <2>1 DEF Becomes
<1>3. CASE FinishBatch(b) \/ KillBatch(b)
  BY <1>3, EndingEffect DEF Becomes
<1> QED
  BY <1>1, <1>2, <1>3 DEF Working

LEMMA HoldersOfMailings ==
  ASSUME Base, NEW b \in Batch, ReadRecipients(b) \/ Working(b) \/ KillBatch(b)
  PROVE  NoNewHolder /\ minted' = minted
<1>1. /\ minted' = minted /\ call' = call
      /\ \A a \in Address : row'[a] # NoRow => row[a] # NoRow /\ row'[a].token = row[a].token
  BY MailingLeaves
<1>2. CASE ReadRecipients(b)
  <2>1. inbox' = inbox
    BY <1>2, ReadingEffect DEF web
  <2>2. \A a \in Recipients : a \in Address /\ row[a] # NoRow
    BY <1>2, ReadingEffect DEF Due, Status
  <2>3. \A m \in ListRead : m.to \in Address /\ row[m.to] # NoRow /\ m.token = row[m.to].token
    BY <2>2 DEF ListRead
  <2>4. \A c \in Batch : \A m \in batch'[c].todo : m \in batch[c].todo \/ m \in ListRead
    BY <1>2, ReadingEffect
  <2> QED
    BY <1>1, <2>1, <2>3, <2>4 DEF Has, NoNewHolder, Of
<1>3. CASE Working(b) \/ KillBatch(b)
  <2>1. \A c \in Batch : batch'[c].todo \subseteq batch[c].todo
    BY <1>3, ListsShrink
  <2>2. \A m \in inbox' : \/ m \in inbox
                          \/ \E n \in batch[b].todo : m.to = n.to /\ m.token = n.token
    <3>1. CASE SendMail(b) \/ SendMailUnanswered(b)
      <4>1. PICK n \in batch[b].todo : Took(n)
        BY <3>1, SendingEffect, UnansweredEffect
      <4>2. inbox' = inbox \cup {[kind |-> "sequence", to |-> n.to, token |-> n.token]}
        BY <4>1 DEF Took
      <4> QED
        BY <4>2
    <3> QED
      BY <1>3, <3>1, RefusingEffect, StampingEffect, EndingEffect DEF Working
  <2> QED
    BY <1>1, <2>1, <2>2 DEF Has, NoNewHolder, Of
<1> QED
  BY <1>2, <1>3

LEMMA OneOwnerStep == Base /\ OneOwner /\ [Next]_vars => OneOwner'
<1> SUFFICES ASSUME Base, OneOwner, [Next]_vars PROVE OneOwner'
  OBVIOUS
<1>1. ASSUME NoNewHolder, minted' = minted PROVE OneOwner'
  BY <1>1 DEF OneOwner, NoNewHolder
<1>2. ASSUME NEW r \in Run, NEW c \in Address, Subscribe(r, c), UNCHANGED mailing PROVE OneOwner'
  <2>1. /\ minted' = minted + 1 /\ minted \in Nat /\ minted + 1 \in Token
        /\ row' = row /\ inbox' = inbox /\ batch' = batch
    BY <1>2, Minting DEF Subscribe, mailing, Base, TypeOK
  <2>2. PICK step \in {"insert", "update"} :
          call' = [call EXCEPT ![r] = [at |-> step, of |-> c, token |-> minted + 1]]
    BY <1>2 DEF Subscribe
  <2>3. \A q \in Run : \/ call'[q] = call[q]
                       \/ Of(q)' = c /\ call'[q].token = minted + 1
    BY <2>1, <2>2, Began DEF Base, Of
  <2>4. \A t \in Token, a \in Address : Has(t, a)' => (Has(t, a) \/ (t = minted + 1 /\ a = c))
    <3> SUFFICES ASSUME NEW t \in Token, NEW a \in Address, Has(t, a)', ~Has(t, a)
                 PROVE  t = minted + 1 /\ a = c
      OBVIOUS
    <3>1. PICK q \in Run : Of(q)' = a /\ call'[q].token = t
      BY <2>1 DEF Has
    <3>2. call'[q] # call[q]
      BY <3>1 DEF Has, Of
    <3> QED
      BY <2>3, <3>1, <3>2
  <2> SUFFICES ASSUME NEW t \in Token, NEW a \in Address, Has(t, a)'
               PROVE  /\ t <= minted'
                      /\ \A d \in Address : Has(t, d)' => d = a
    BY DEF OneOwner
  <2>5. CASE Has(t, a)
    <3>1. t <= minted /\ \A d \in Address : Has(t, d) => d = a
      BY <2>5 DEF OneOwner
    <3> QED
      BY <2>1, <2>4, <3>1
  <2>6. CASE t = minted + 1 /\ a = c
    <3>1. \A d \in Address : ~Has(t, d)
      BY <2>1, <2>6 DEF OneOwner
    <3> QED
      BY <2>1, <2>4, <2>6, <3>1
  <2> QED
    BY <2>4, <2>5, <2>6
<1>3. ASSUME NEW a \in Address, Bounce(a), UNCHANGED mailing PROVE OneOwner'
  BY <1>3 DEF Bounce, mailing, OneOwner, Has, Of
<1>4. CASE UNCHANGED vars
  BY <1>4 DEF vars, web, mailing, OneOwner, Has, Of
<1>5. CASE Visit /\ UNCHANGED mailing
  BY <1>1, <1>2, <1>3, <1>5, HoldersOfVisits DEF Visit
<1>6. ASSUME NEW b \in Batch, ReadRecipients(b) \/ Working(b) \/ KillBatch(b) PROVE OneOwner'
  BY <1>1, <1>6, HoldersOfMailings
<1> QED
  BY <1>4, <1>5, <1>6 DEF Next
-----------------------------------------------------------------------------
(* Every link and every run is about the address it was mailed to or found. *)
LEMMA OwnersAgree ==
  ASSUME Base, OneOwner, NEW m \in inbox, NEW a \in Address, Answers(m, a)
  PROVE  m.to = a
<1>1. m.to \in Address /\ m.token \in Token
  BY DEF Base, TypeOK
<1>2. Has(m.token, m.to) /\ Has(m.token, a)
  BY DEF Has, Answers
<1> QED
  BY <1>1, <1>2 DEF OneOwner

LEMMA OptedInStep == Base /\ OneOwner /\ OptedIn /\ [Next]_vars => OptedIn'
<1> SUFFICES ASSUME Base, OneOwner, OptedIn, [Next]_vars PROVE OptedIn'
  OBVIOUS
<1> USE DEF OptedIn, NoMailWithoutOptIn
<1>1. ASSUME UNCHANGED mailing, clicked \subseteq clicked',
             \A a \in Address : Status(a)' = "confirmed" => a \in clicked',
             \A r \in Run : At(r, "confirm")' => Of(r)' \in clicked'
      PROVE  OptedIn'
  BY <1>1 DEF mailing
<1>2. ASSUME NEW r \in Run, UNCHANGED mailing,
             \/ \E a \in Address : Subscribe(r, a)
             \/ InsertSubscriber(r) \/ UpdateSubscriber(r) \/ MailLink(r) \/ Confirm(r) \/ SyncContact(r)
             \/ SelectToUnsubscribe(r) \/ Unsubscribe(r) \/ BlockContact(r) \/ Die(r)
      PROVE  OptedIn'
  <2>1. clicked' = clicked
    BY <1>2 DEF Subscribe, InsertSubscriber, UpdateSubscriber, MailLink, Confirm, SyncContact,
       SelectToUnsubscribe, Unsubscribe, BlockContact, Die
  <2>2. \A q \in Run : At(q, "confirm")' => Of(q)' \in clicked
    BY <1>2, ToConfirm
  <2>3. \A a \in Address : Status(a)' = "confirmed" => a \in clicked
    <3>1. CASE InsertSubscriber(r)
      BY <3>1, NewStatus
    <3>2. CASE UpdateSubscriber(r) \/ Unsubscribe(r)
      BY <3>2, Updates, Statuses DEF Status
    <3>3. CASE Confirm(r)
      <4>1. Of(r) \in clicked
        BY <3>3 DEF Confirm
      <4> QED
        BY <3>3, <4>1, Updates, Statuses
    <3>4. CASE \/ \E a \in Address : Subscribe(r, a)
               \/ MailLink(r) \/ SyncContact(r) \/ SelectToUnsubscribe(r) \/ BlockContact(r) \/ Die(r)
      <4>1. row' = row
        BY <3>4 DEF Subscribe, MailLink, SyncContact, SelectToUnsubscribe, BlockContact, Die
      <4> QED
        BY <4>1 DEF Status
    <3> QED
      BY <1>2, <3>1, <3>2, <3>3, <3>4
  <2> QED
    BY <1>1, <1>2, <2>1, <2>2, <2>3
<1>3. ASSUME NEW r \in Run, UNCHANGED mailing, SelectToConfirm(r) PROVE OptedIn'
  <2>1. PICK m \in inbox, a \in Address :
              /\ Answers(m, a) /\ clicked' = clicked \cup {m.to}
              /\ \A q \in Run : At(q, "confirm")' => \/ At(q, "confirm") /\ Of(q)' = Of(q)
                                                     \/ Of(q)' = a
    BY <1>3, Selecting
  <2>2. m.to = a
    BY <2>1, OwnersAgree
  <2>3. row' = row
    BY <1>3, Selecting
  <2>4. \A b \in Address : Status(b)' = Status(b)
    BY <2>3 DEF Status
  <2>5. \A q \in Run : At(q, "confirm")' => Of(q)' \in clicked'
    BY <2>1, <2>2
  <2> QED
    BY <1>1, <1>3, <2>1, <2>4, <2>5
<1>4. ASSUME NEW a \in Address, Bounce(a), UNCHANGED mailing PROVE OptedIn'
  BY <1>1, <1>4 DEF Bounce, Status, At, Of
<1>5. ASSUME NEW b \in Batch, ReadRecipients(b) \/ Working(b) \/ KillBatch(b) PROVE OptedIn'
  <2>1. /\ call' = call /\ clicked' = clicked
        /\ \A a \in Address : Status(a)' = Status(a)
    BY <1>5, MailingLeaves
  <2>2. \A q \in Run : At(q, "confirm")' => Of(q)' \in clicked'
    BY <2>1 DEF At, Of
  <2>3. CASE ReadRecipients(b)
    <3>1. mails' = mails /\ \A a \in Recipients : a \in Address /\ Status(a) = "confirmed"
      BY <2>3, ReadingEffect DEF Due
    <3>2. \A m \in ListRead : m.to \in clicked
      BY <3>1 DEF ListRead
    <3>3. \A c \in Batch : \A m \in batch'[c].todo : m \in batch[c].todo \/ m \in ListRead
      BY <2>3, ReadingEffect
    <3> QED
      BY <2>1, <2>2, <3>1, <3>2, <3>3
  <2>4. CASE Working(b) \/ KillBatch(b)
    <3>1. \A c \in Batch : batch'[c].todo \subseteq batch[c].todo
      BY <2>4, ListsShrink
    <3>2. NoMailWithoutOptIn'
      <4>1. CASE SendMail(b) \/ SendMailUnanswered(b)
        <5>1. PICK m \in batch[b].todo : m \in Todo /\ Took(m)
          BY <4>1, SendingEffect, UnansweredEffect
        <5>2. m.to \in clicked /\ \A a \in Address \ {m.to} : mails'[a] = mails[a]
          BY <5>1, Counted DEF Base
        <5> QED
          BY <2>1, <5>2
      <4>2. CASE RefuseMail(b) \/ Stamp(b) \/ FinishBatch(b) \/ KillBatch(b)
        <5>1. mails' = mails
          BY <4>2, RefusingEffect, StampingEffect, EndingEffect
        <5> QED
          BY <2>1, <5>1
      <4> QED
        BY <2>4, <4>1, <4>2 DEF Working
    <3> QED
      BY <2>1, <2>2, <3>1, <3>2
  <2> QED
    BY <1>5, <2>3, <2>4
<1>6. CASE UNCHANGED vars
  BY <1>6 DEF vars, web, mailing, Status, At, Of
<1> QED
  BY <1>2, <1>3, <1>4, <1>5, <1>6 DEF Next, Visit
-----------------------------------------------------------------------------
(* How many lists an address is on, and whether a mail to it awaits its     *)
(* stamp: a copy that may still go out, or has just gone, is accounted for  *)
(* before it is counted.                                                   *)
Holding(a) == {b \in Batch : \E m \in batch[b].todo : m.to = a}
InHand(a) == \E b \in Batch : batch[b].on = a
NotSent(a) == row[a] = NoRow \/ ~row[a].sent

Accounted == \A a \in Address :
    /\ mails[a] + Cardinality(Holding(a)) <= 1 + excused[a]
    /\ NotSent(a) /\ Holding(a) = {} /\ ~InHand(a) => mails[a] <= excused[a]

LEMMA HoldingCounts ==
  ASSUME NEW a, NEW b \in Batch
  PROVE  /\ IsFiniteSet(Holding(a)) /\ Cardinality(Holding(a)) \in Nat
         /\ Cardinality(Holding(a)) = 0 <=> Holding(a) = {}
         /\ b \in Holding(a) => /\ Cardinality(Holding(a)) >= 1
                                /\ Cardinality(Holding(a) \ {b}) = Cardinality(Holding(a)) - 1
         /\ b \notin Holding(a) => Cardinality(Holding(a) \cup {b}) = Cardinality(Holding(a)) + 1
<1>1. Holding(a) \subseteq Batch
  BY DEF Holding
<1>2. IsFiniteSet(Holding(a))
  BY <1>1, BatchAssumption, FS_Subset
<1>3. Cardinality(Holding(a)) \in Nat /\ (Cardinality(Holding(a)) = 0 <=> Holding(a) = {})
  BY <1>2, FS_CardinalityType, FS_EmptySet
<1>4. b \in Holding(a) => Cardinality(Holding(a) \ {b}) = Cardinality(Holding(a)) - 1
  BY <1>2, FS_RemoveElement
<1>5. b \notin Holding(a) => Cardinality(Holding(a) \cup {b}) = Cardinality(Holding(a)) + 1
  BY <1>2, FS_AddElement
<1> QED
  BY <1>2, <1>3, <1>4, <1>5

LEMMA Numbers ==
  ASSUME Base, NEW a \in Address
  PROVE  mails[a] \in Nat /\ excused[a] \in Nat
BY DEF Base, TypeOK

LEMMA QuietAccounts ==
  ASSUME Accounted, UNCHANGED mailing, \A a \in Address : NotSent(a)' => NotSent(a)
  PROVE  Accounted'
<1>1. \A a \in Address : Holding(a)' = Holding(a) /\ InHand(a)' = InHand(a)
  BY DEF Holding, InHand, mailing
<1> QED
  BY <1>1 DEF Accounted, mailing

LEMMA VisitAccounts ==
  ASSUME Base, Accounted, Visit, UNCHANGED mailing
  PROVE  Accounted'
<1>1. CASE row' = row
  BY <1>1, QuietAccounts DEF NotSent
<1>2. ASSUME NEW r \in Run, NEW status, NEW t, Of(r) \in Address, Rewritten(Of(r), status, t)
      PROVE  Accounted'
  <2>1. \A a \in Address : NotSent(a)' => NotSent(a)
    <3>1. \A a \in Address \ {Of(r)} : row'[a] = row[a]
      BY <1>2 DEF Rewritten
    <3>2. row[Of(r)] # NoRow /\ row'[Of(r)] # NoRow /\ row'[Of(r)].sent = row[Of(r)].sent
      BY <1>2, RowAssumption DEF Rewritten
    <3> QED
      BY <3>1, <3>2, Zenon DEF NotSent
  <2> QED
    BY <2>1, QuietAccounts
<1>3. ASSUME NEW r \in Run, InsertSubscriber(r), row' # row PROVE Accounted'
  <2>1. /\ At(r, "insert") /\ row[Of(r)] = NoRow
        /\ row' = [row EXCEPT ![Of(r)] = [status |-> "pending", token |-> call[r].token,
                                          sent |-> FALSE, rank |-> Cardinality(Subscribed) + 1]]
    BY <1>3 DEF InsertSubscriber
  <2>2. \A c \in Address \ {Of(r)} : row'[c] = row[c]
    BY <2>1, NewRow
  <2>3. \A a \in Address : NotSent(a)' => NotSent(a)
    BY <2>1, <2>2 DEF NotSent
  <2> QED
    BY <2>3, QuietAccounts
<1>4. ASSUME NEW r \in Run, UpdateSubscriber(r) \/ Confirm(r) \/ Unsubscribe(r), row' # row
      PROVE  Accounted'
  BY <1>2, <1>4, Updates
<1>5. ASSUME \/ \E r \in Run : \/ \E a \in Address : Subscribe(r, a)
                               \/ MailLink(r) \/ SelectToConfirm(r) \/ SyncContact(r)
                               \/ SelectToUnsubscribe(r) \/ BlockContact(r) \/ Die(r)
             \/ \E a \in Address : Bounce(a)
      PROVE  row' = row
  BY <1>5 DEF Subscribe, MailLink, SelectToConfirm, SyncContact, SelectToUnsubscribe, BlockContact,
     Die, Bounce
<1> QED
  BY <1>1, <1>3, <1>4, <1>5 DEF Visit

LEMMA ReadingAccounts ==
  ASSUME Base, Accounted, NEW b \in Batch, ReadRecipients(b)
  PROVE  Accounted'
<1>1. /\ batch[b].todo = {} /\ batch[b].on = Nobody
      /\ batch'[b] = [at |-> "next", on |-> Nobody, todo |-> ListRead]
      /\ \A c \in Batch \ {b} : batch'[c] = batch[c]
      /\ row' = row /\ mails' = mails
      /\ \A a \in Address : excused'[a] = excused[a] + IF a \in Recipients \cap Held THEN 1 ELSE 0
  BY ReadingEffect DEF web
<1>2. Recipients \subseteq {a \in Address : Due(a)}
  BY ReadingEffect
<1> SUFFICES ASSUME NEW a \in Address
             PROVE  /\ mails'[a] + Cardinality(Holding(a))' <= 1 + excused'[a]
                    /\ NotSent(a)' /\ Holding(a)' = {} /\ ~InHand(a)' => mails'[a] <= excused'[a]
  BY DEF Accounted
<1>3. b \notin Holding(a)
  BY <1>1 DEF Holding
<1>4. InHand(a)' = InHand(a) /\ NotSent(a)' = NotSent(a)
  BY <1>1 DEF InHand, NotSent
<1>5. CASE a \in Recipients
  <2>1. Holding(a)' = Holding(a) \cup {b}
    <3>1. [to |-> a, token |-> row[a].token] \in ListRead
      BY <1>5 DEF ListRead
    <3> QED
      BY <1>1, <3>1 DEF Holding
  <2>2. Cardinality(Holding(a))' = Cardinality(Holding(a)) + 1 /\ Cardinality(Holding(a)) \in Nat
    BY <1>3, <2>1, HoldingCounts
  <2>3. CASE a \in Held
    BY <1>1, <1>5, <2>1, <2>2, <2>3, Numbers DEF Accounted
  <2>4. CASE a \notin Held
    <3>1. Holding(a) = {} /\ ~InHand(a)
      BY <2>4 DEF Held, ListOf, Holding, InHand
    <3>2. NotSent(a)
      BY <1>2, <1>5 DEF Due, NotSent
    <3>3. Cardinality(Holding(a)) = 0
      BY <3>1, HoldingCounts
    <3> QED
      BY <1>1, <2>1, <2>2, <2>4, <3>1, <3>2, <3>3, Numbers DEF Accounted
  <2> QED
    BY <2>3, <2>4
<1>6. CASE a \notin Recipients
  <2>1. Holding(a)' = Holding(a)
    <3>1. \A m \in ListRead : m.to # a
      BY <1>6 DEF ListRead
    <3> QED
      BY <1>1, <3>1 DEF Holding
  <2> QED
    BY <1>1, <1>4, <1>6, <2>1, Numbers DEF Accounted
<1> QED
  BY <1>5, <1>6

(* The list of b is shorter by the mail m.                                  *)
LEMMA Shorter ==
  ASSUME Base, NEW b \in Batch, NEW m \in batch[b].todo, NEW at, NEW on,
         Becomes(b, at, on, batch[b].todo \ {m}), NEW a \in Address
  PROVE  /\ a = m.to => b \in Holding(a) /\ Holding(a)' = Holding(a) \ {b}
         /\ a # m.to => Holding(a)' = Holding(a)
<1>1. \A n \in batch[b].todo : n.to = m.to => n = m
  BY DEF Base, Listed
<1>2. a = m.to => ~ \E n \in batch'[b].todo : n.to = a
  BY <1>1 DEF Becomes
<1>3. a # m.to => ((\E n \in batch'[b].todo : n.to = a) <=> (\E n \in batch[b].todo : n.to = a))
  BY DEF Becomes
<1>4. \A c \in Batch \ {b} : batch'[c] = batch[c]
  BY DEF Becomes
<1> QED
  BY <1>2, <1>3, <1>4 DEF Holding

LEMMA MailAccounts ==
  ASSUME Base, Accounted, NEW b \in Batch, SendMail(b) \/ SendMailUnanswered(b) \/ RefuseMail(b)
  PROVE  Accounted'
<1>1. PICK m \in batch[b].todo, at \in {"next", "stamp"}, on \in Address \cup {Nobody} :
        /\ m \in Todo
        /\ Becomes(b, at, on, batch[b].todo \ {m})
        /\ \/ Took(m) /\ on = m.to /\ excused' = excused
           \/ Took(m) /\ on = Nobody /\ \A a \in Address : excused'[a] = excused[a] + IF a = m.to THEN 1 ELSE 0
           \/ mails' = mails /\ on = Nobody /\ \A a \in Address : excused'[a] = excused[a]
  BY SendingEffect, UnansweredEffect, RefusingEffect
<1>2. row' = row
  BY SendingEffect, UnansweredEffect, RefusingEffect
<1>3. batch[b].on = Nobody
  BY DEF SendMail, SendMailUnanswered, RefuseMail, Base, Listed
<1> SUFFICES ASSUME NEW a \in Address
             PROVE  /\ mails'[a] + Cardinality(Holding(a))' <= 1 + excused'[a]
                    /\ NotSent(a)' /\ Holding(a)' = {} /\ ~InHand(a)' => mails'[a] <= excused'[a]
  BY DEF Accounted
<1>4. mails[a] \in Nat /\ excused[a] \in Nat /\ Cardinality(Holding(a)) \in Nat
  BY Numbers, HoldingCounts
<1>5. CASE a = m.to
  <2>1. /\ Cardinality(Holding(a))' = Cardinality(Holding(a)) - 1
        /\ Cardinality(Holding(a)) >= 1
    <3>1. b \in Holding(a) /\ Holding(a)' = Holding(a) \ {b}
      BY <1>1, <1>5, Shorter
    <3> QED
      BY <3>1, HoldingCounts
  <2>2. Took(m) => mails'[a] = mails[a] + 1
    BY <1>1, <1>5, Counted DEF Base
  <2>3. on = m.to => InHand(a)'
    BY <1>1, <1>5 DEF InHand, Becomes
  <2> QED
    BY <1>1, <1>4, <1>5, <2>1, <2>2, <2>3 DEF Accounted
<1>6. CASE a # m.to
  <2>1. Holding(a)' = Holding(a)
    BY <1>1, <1>6, Shorter
  <2>2. InHand(a)' = InHand(a) /\ NotSent(a)' = NotSent(a)
    BY <1>1, <1>2, <1>3, <1>6, AddressAssumption DEF InHand, NotSent, Becomes
  <2>3. mails'[a] = mails[a] /\ excused'[a] = excused[a]
    <3>1. Took(m) => mails'[a] = mails[a]
      BY <1>1, <1>6, Counted DEF Base
    <3> QED
      BY <1>1, <1>4, <1>6, <3>1
  <2> QED
    BY <2>1, <2>2, <2>3 DEF Accounted
<1> QED
  BY <1>5, <1>6

LEMMA StampAccounts ==
  ASSUME Base, Accounted, NEW b \in Batch, Stamp(b)
  PROVE  Accounted'
<1>1. /\ mails' = mails /\ batch[b].on \in Address
      /\ Becomes(b, "next", Nobody, batch[b].todo)
  BY StampingEffect
<1> SUFFICES ASSUME NEW a \in Address
             PROVE  /\ mails'[a] + Cardinality(Holding(a))' <= 1 + excused'[a]
                    /\ NotSent(a)' /\ Holding(a)' = {} /\ ~InHand(a)' => mails'[a] <= excused'[a]
  BY DEF Accounted
<1>2. Holding(a)' = Holding(a)
  BY <1>1 DEF Holding, Becomes
<1>3. a # batch[b].on => InHand(a)' = InHand(a)
  BY <1>1, AddressAssumption DEF InHand, Becomes
<1>4. mails[a] \in Nat /\ excused[a] \in Nat /\ Cardinality(Holding(a)) \in Nat
  BY Numbers, HoldingCounts
<1>5. CASE /\ row' = row
           /\ \A c \in Address : excused'[c] = excused[c] + IF c = batch[b].on THEN 1 ELSE 0
  <2>1. CASE a = batch[b].on
    <3>1. excused'[a] = excused[a] + 1
      BY <1>5, <2>1
    <3>2. mails[a] + Cardinality(Holding(a)) <= 1 + excused[a]
      BY DEF Accounted
    <3> QED
      BY <1>1, <1>2, <1>4, <3>1, <3>2
  <2>2. CASE a # batch[b].on
    <3>1. excused'[a] = excused[a]
      BY <1>4, <1>5, <2>2
    <3> QED
      BY <1>1, <1>2, <1>3, <1>5, <2>2, <3>1 DEF Accounted, NotSent
  <2> QED
    BY <2>1, <2>2
<1>6. CASE /\ row' = [row EXCEPT ![batch[b].on].sent = TRUE]
           /\ row[batch[b].on] # NoRow
           /\ \A c \in Address : excused'[c] = excused[c]
  <2>1. row \in [Address -> Row \cup {NoRow}] /\ row[batch[b].on] \in Row
    BY <1>1, <1>6 DEF Base, TypeOK
  <2>2. a # batch[b].on => row'[a] = row[a]
    BY <1>6, <2>1
  <2>3. a = batch[b].on => ~NotSent(a)'
    <3>1. [row[batch[b].on] EXCEPT !.sent = TRUE] \in Row /\ [row[batch[b].on] EXCEPT !.sent = TRUE].sent
      BY <2>1
    <3> HIDE DEF Row
    <3> QED
      BY <1>1, <1>6, <2>1, <3>1, RowAssumption DEF NotSent
  <2> QED
    BY <1>1, <1>2, <1>3, <1>6, <2>2, <2>3 DEF Accounted, NotSent
<1> QED
  BY <1>5, <1>6, StampingEffect

LEMMA EndAccounts ==
  ASSUME Base, Accounted, NEW b \in Batch, FinishBatch(b) \/ KillBatch(b)
  PROVE  Accounted'
<1>1. /\ mails' = mails /\ row' = row /\ Becomes(b, "idle", Nobody, {})
      /\ \/ /\ batch[b].todo = {} /\ batch[b].on = Nobody
            /\ \A a \in Address : excused'[a] = excused[a]
         \/ \A a \in Address : excused'[a] = excused[a] + IF a = batch[b].on THEN 1 ELSE 0
  BY EndingEffect
<1> SUFFICES ASSUME NEW a \in Address
             PROVE  /\ mails'[a] + Cardinality(Holding(a))' <= 1 + excused'[a]
                    /\ NotSent(a)' /\ Holding(a)' = {} /\ ~InHand(a)' => mails'[a] <= excused'[a]
  BY DEF Accounted
<1>2. Holding(a)' = Holding(a) \ {b} /\ NotSent(a)' = NotSent(a)
  BY <1>1 DEF Holding, Becomes, NotSent
<1>3. a # batch[b].on => InHand(a)' = InHand(a)
  BY <1>1, AddressAssumption DEF InHand, Becomes
<1>4. mails[a] \in Nat /\ excused[a] \in Nat /\ Cardinality(Holding(a)) \in Nat
  BY Numbers, HoldingCounts
<1>5. excused'[a] >= excused[a] /\ (a = batch[b].on => excused'[a] = excused[a] + 1)
  BY <1>1, <1>4, AddressAssumption
<1>6. excused'[a] \in Nat
  BY <1>1, <1>4
<1>7. CASE b \in Holding(a)
  <2>1. /\ Cardinality(Holding(a))' = Cardinality(Holding(a)) - 1
        /\ Cardinality(Holding(a)) >= 1
    BY <1>2, <1>7, HoldingCounts
  <2>2. mails[a] + Cardinality(Holding(a)) <= 1 + excused[a]
    BY DEF Accounted
  <2> QED
    BY <1>1, <1>4, <1>5, <1>6, <2>1, <2>2
<1>8. CASE b \notin Holding(a)
  <2>1. Holding(a)' = Holding(a)
    BY <1>2, <1>8
  <2>2. /\ mails[a] + Cardinality(Holding(a)) <= 1 + excused[a]
        /\ NotSent(a) /\ Holding(a) = {} /\ ~InHand(a) => mails[a] <= excused[a]
    BY DEF Accounted
  <2>3. mails'[a] = mails[a] /\ excused'[a] \in Nat /\ mails[a] \in Nat
    BY <1>1, <1>4, <1>6
  <2>4. mails'[a] + Cardinality(Holding(a))' <= 1 + excused'[a]
    BY <1>4, <1>5, <2>1, <2>2, <2>3
  <2>5. ASSUME NotSent(a)', Holding(a)' = {}, ~InHand(a)'
        PROVE  mails'[a] <= excused'[a]
    <3>1. CASE a = batch[b].on
      <4>1. Cardinality(Holding(a))' = 0
        BY <2>1, <2>5, FS_EmptySet
      <4> QED
        BY <2>3, <2>4, <4>1, <1>5, <3>1, <1>4, <2>1, <2>2
    <3>2. CASE a # batch[b].on
      <4>1. mails[a] <= excused[a]
        BY <1>2, <1>3, <2>1, <2>2, <2>5, <3>2
      <4> QED
        BY <1>4, <1>5, <2>3, <4>1
    <3> QED
      BY <3>1, <3>2
  <2> QED
    BY <2>4, <2>5
<1> QED
  BY <1>7, <1>8

LEMMA AccountedStep == Base /\ Accounted /\ [Next]_vars => Accounted'
<1> SUFFICES ASSUME Base, Accounted, [Next]_vars PROVE Accounted'
  OBVIOUS
<1>1. CASE Visit /\ UNCHANGED mailing
  BY <1>1, VisitAccounts
<1>2. ASSUME NEW b \in Batch, ReadRecipients(b) \/ Working(b) \/ KillBatch(b) PROVE Accounted'
  BY <1>2, ReadingAccounts, MailAccounts, StampAccounts, EndAccounts DEF Working
<1>3. CASE UNCHANGED vars
  BY <1>3, QuietAccounts DEF vars, web, NotSent
<1> QED
  BY <1>1, <1>2, <1>3 DEF Next
-----------------------------------------------------------------------------
(* The inductive invariant.                                                 *)
IInv == /\ Base
        /\ OneOwner
        /\ OptedIn
        /\ OptedOut
        /\ Accounted

LEMMA InitHolds == Init => IInv
<1> SUFFICES ASSUME Init PROVE IInv
  OBVIOUS
<1>1. Base
  BY LimitAssumption, AddressAssumption DEF Init, Base, TypeOK, Placed, Listed, At
<1>2. OneOwner
  BY AddressAssumption DEF Init, OneOwner, Has, Of
<1>3. OptedIn /\ OptedOut
  BY DEF Init, OptedIn, NoMailWithoutOptIn, OptedOut, OptOutStands, Status, At
<1>4. Accounted
  <2>1. \A a \in Address : Holding(a) = {}
    BY DEF Init, Holding
  <2>2. \A a \in Address : Cardinality(Holding(a)) = 0
    BY <2>1, FS_EmptySet
  <2>3. \A a \in Address : mails[a] = 0 /\ excused[a] = 0
    BY DEF Init
  <2> QED
    BY <2>2, <2>3 DEF Accounted
<1> QED
  BY <1>1, <1>2, <1>3, <1>4 DEF IInv

LEMMA StepHolds == IInv /\ [Next]_vars => IInv'
BY BaseStep, OneOwnerStep, OptedInStep, OptedOutStep, AccountedStep DEF IInv

(* Every state of the mailing satisfies the invariant the others rest on.   *)
THEOREM Invariant == Spec => []IInv
BY InitHolds, StepHolds, PTL DEF Spec

(* The types of every variable of the launch mailing.                       *)
THEOREM TypeCorrect == Spec => []TypeOK
<1>1. IInv => TypeOK
  BY DEF IInv, Base
<1> QED
  BY <1>1, Invariant, PTL

(* Sequence mail only goes to addresses whose owner followed a link.        *)
THEOREM OptInComesFirst == Spec => []NoMailWithoutOptIn
<1>1. IInv => NoMailWithoutOptIn
  BY DEF IInv, OptedIn
<1> QED
  BY <1>1, Invariant, PTL

(* Nobody but its owner undoes an opt-out.                                  *)
THEOREM OptOutIsKept == Spec => []OptOutStands
<1>1. IInv => OptOutStands
  BY DEF IInv, OptedOut
<1> QED
  BY <1>1, Invariant, PTL

(* A second copy of a mail has a fault behind it, for any number of         *)
(* overlapping mail-outs.                                                  *)
THEOREM SecondCopies == Spec => []TwiceHasACause
<1>1. IInv => TwiceHasACause
  <2> SUFFICES ASSUME IInv, NEW a \in Address PROVE mails[a] <= 1 + excused[a]
    BY DEF TwiceHasACause
  <2>1. mails[a] \in Nat /\ excused[a] \in Nat
    BY Numbers DEF IInv
  <2>2. Cardinality(Holding(a)) \in Nat
    <3>1. Holding(a) \subseteq Batch
      BY DEF Holding
    <3> QED
      BY <3>1, BatchAssumption, FS_Subset, FS_CardinalityType
  <2>3. mails[a] + Cardinality(Holding(a)) <= 1 + excused[a]
    BY DEF IInv, Accounted
  <2> QED
    BY <2>1, <2>2, <2>3
<1> QED
  BY <1>1, Invariant, PTL

LEMMA ListsLeaveOut ==
  ASSUME Base, OptOutStands, [Next]_vars, NEW a \in optedOut, NEW b \in Batch, a \in ListOf(b)'
  PROVE  a \in ListOf(b)
<1>1. a \in Address
  BY DEF Base, TypeOK
<1>2. CASE UNCHANGED mailing
  BY <1>2 DEF mailing, ListOf
<1>3. ASSUME NEW c \in Batch, ReadRecipients(c) PROVE a \in ListOf(b)
  <2>1. /\ batch'[c] = [at |-> "next", on |-> Nobody, todo |-> ListRead]
        /\ \A d \in Batch \ {c} : batch'[d] = batch[d]
        /\ a \notin Recipients
    BY <1>1, <1>3, ReadingEffect DEF Due, OptOutStands
  <2>2. \A m \in ListRead : m.to # a
    BY <2>1 DEF ListRead
  <2> QED
    BY <1>1, <2>1, <2>2, AddressAssumption DEF ListOf
<1>4. ASSUME NEW c \in Batch, Working(c) \/ KillBatch(c) PROVE a \in ListOf(b)
  <2>1. batch'[b].todo \subseteq batch[b].todo
    BY <1>4, ListsShrink
  <2>2. batch'[b].on \in {batch[b].on, Nobody} \cup {m.to : m \in batch[b].todo}
    <3>1. PICK at \in {"idle", "next", "stamp"}, on \in Address \cup {Nobody}, todo \in SUBSET Todo :
             /\ Becomes(c, at, on, todo)
             /\ on \in {Nobody} \cup {m.to : m \in batch[c].todo}
      <4>1. CASE SendMail(c) \/ SendMailUnanswered(c) \/ RefuseMail(c)
        <5>1. PICK m \in batch[c].todo, at \in {"next", "stamp"} :
                \/ Becomes(c, at, m.to, batch[c].todo \ {m})
                \/ Becomes(c, at, Nobody, batch[c].todo \ {m})
          BY <4>1, SendingEffect, UnansweredEffect, RefusingEffect
        <5>2. batch[c].todo \ {m} \subseteq Todo /\ m.to \in Address
          BY DEF Base, TypeOK
        <5> QED
          BY <5>1, <5>2
      <4>2. CASE Stamp(c)
        <5>1. Becomes(c, "next", Nobody, batch[c].todo) /\ batch[c].todo \subseteq Todo
          BY <4>2, StampingEffect DEF Base, TypeOK
        <5> QED
          BY <5>1
      <4>3. CASE FinishBatch(c) \/ KillBatch(c)
        BY <4>3, EndingEffect
      <4> QED
        BY <1>4, <4>1, <4>2, <4>3 DEF Working
    <3> QED
      BY <3>1 DEF Becomes
  <2> QED
    BY <1>1, <2>1, <2>2, AddressAssumption DEF ListOf
<1> QED
  BY <1>2, <1>3, <1>4 DEF Next, vars

(* A list read after an opt-out does not take the address in.               *)
THEOREM ListsLeaveOptOutsOut == Spec => NoListTakesInAnOptOut
<1>1. IInv /\ [Next]_vars =>
        [\A a \in optedOut \cap optedOut', b \in Batch : a \in ListOf(b)' => a \in ListOf(b)]_vars
  BY ListsLeaveOut DEF IInv, OptedOut
<1> QED
  BY <1>1, Invariant, PTL DEF Spec, NoListTakesInAnOptOut
=============================================================================
