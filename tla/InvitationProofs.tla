--------------------------- MODULE InvitationProofs ---------------------------
(***************************************************************************)
(* Theorems about CampaignInvitations: for any accounts, any geography,    *)
(* any number of invitations and any number of tabs.                       *)
(***************************************************************************)
EXTENDS CampaignInvitations, TLAPS

(***************************************************************************)
(* The initial state                                                       *)
(***************************************************************************)
LEMMA InitIInv == Init => IInv
<1> SUFFICES ASSUME Init PROVE IInv
  OBVIOUS
<1> USE DEF Init, NoInvitation
<1>1. TypeOK
  <2>1. member \in [Account -> Membership]
    BY DEF Membership
  <2>2. invitations \in [Id -> Invitation]
    BY DEF Invitation
  <2>3. created \in 0..MaxInvitation /\ minted \in 0..MaxOffice
    BY LimitAssumption
  <2>4. screen \in [Tab -> Screen]
    BY DEF Screen, Closed
  <2> QED
    BY <2>1, <2>2, <2>3, <2>4 DEF TypeOK, Person
<1>2. InvitationsFit
  <2>1. \A i \in Id : invitations[i].status = "none"
    OBVIOUS
  <2>2. \A i \in Id : ~(i <= created)
    BY LimitAssumption DEF Id
  <2> QED
    BY <2>1, <2>2 DEF InvitationsFit, Sent
<1>3. RowsComeFromLog /\ HoldersAreRostered
  BY PeopleAssumption DEF RowsComeFromLog, HoldersAreRostered
<1>4. ScreensFit
  BY DEF ScreensFit, Closed
<1>5. OffersComeFromAbove /\ EveryGrantWasOffered /\ ConfirmedWasRecorded
  BY DEF OffersComeFromAbove, EveryGrantWasOffered, ConfirmedWasRecorded, Sent
<1> QED
  BY <1>1, <1>2, <1>3, <1>4, <1>5 DEF IInv

(***************************************************************************)
(* Types                                                                   *)
(***************************************************************************)

(* A tab past the preview has a user and an invitation.                     *)
LEMMA OpenTab ==
  ASSUME TypeOK, NEW t \in Tab, screen[t].step # "closed"
  PROVE  screen[t].by \in Account /\ screen[t].id \in Id
BY DEF TypeOK, Screen, Closed

LEMMA ShowTypes ==
  ASSUME TypeOK, NEW t \in Tab, screen[t].step # "closed",
         NEW step \in {"offered", "joined", "rostered"}, Show(t, step)
  PROVE  screen' \in [Tab -> Screen]
<1> DEFINE r == [screen[t] EXCEPT !.step = step]
<1>1. screen[t] \in [step : {"offered", "joined", "rostered"}, by : Account, id : Id]
  BY DEF TypeOK, Screen, Closed
<1>2. r \in Screen
  BY <1>1 DEF Screen
<1>3. screen' = [screen EXCEPT ![t] = r]
  BY DEF Show
<1> QED
  BY <1>2, <1>3 DEF TypeOK

LEMMA CloseTypes ==
  ASSUME TypeOK, NEW t \in Tab, Close(t)
  PROVE  screen' \in [Tab -> Screen]
BY DEF TypeOK, Close, Screen

LEMMA WrittenTypes ==
  ASSUME TypeOK, NEW id \in Account \cup Minted, NEW s \in Slot,
         NEW holder \in Person \cup {Nobody}, Written(id, s, holder)
  PROVE  slots' \in [Slot -> Person \cup {Nobody, Unassigned}] /\ log' \subseteq Event
BY DEF TypeOK, Written, Event

(* The answer of an acceptance closes the tab or goes on.                   *)
LEMMA AnsweredTypes ==
  ASSUME TypeOK, NEW t \in Tab, screen[t].step = "offered", Answered(t) \/ Lost
  PROVE  screen' \in [Tab -> Screen] /\ confirmed' \subseteq Account \X Id
<1>1. screen[t].by \in Account /\ screen[t].id \in Id
  BY OpenTab
<1>2. CASE Lost
  BY <1>2 DEF Lost, TypeOK
<1>3. CASE Answered(t)
  <2>1. CASE invitations[screen[t].id].slot = NoSlot
    BY <1>1, <1>3, <2>1, CloseTypes DEF Answered, TypeOK
  <2>2. CASE invitations[screen[t].id].slot # NoSlot
    BY <1>3, <2>2, ShowTypes DEF Answered, TypeOK
  <2> QED
    BY <2>1, <2>2
<1> QED
  BY <1>2, <1>3

(* An invitation cited to the database is an accepted one, for a slot.      *)
LEMMA CitedSlot ==
  ASSUME ScreensFit, NEW t \in Tab, NEW u, NEW i, Cited(t, u, i)
  PROVE  AcceptedBy(i, u) /\ invitations[i].slot \in Slot /\ u \in roster
BY DEF ScreensFit, Cited

(* Every step keeps the types.                                              *)
LEMMA StepTypes == ASSUME TypeOK, ScreensFit, Next PROVE TypeOK'
<1> USE DEF TypeOK
<1>1. ASSUME NEW u \in Account, NEW to \in Account, NEW role \in {"manager", "staff"},
             NEW s \in Slot \cup {NoSlot}, Invite(u, to, role, s)
      PROVE  TypeOK'
  <2> DEFINE r == [status |-> "pending", by |-> u, to |-> to, role |-> role, slot |-> s,
                   acceptedBy |-> Nobody]
  <2>1. created' \in 0..MaxInvitation
    BY <1>1, LimitAssumption DEF Invite
  <2>2. r \in Invitation
    BY DEF Invitation
  <2>3. invitations' = [invitations EXCEPT ![created + 1] = r]
    BY <1>1 DEF Invite
  <2>4. invitations' \in [Id -> Invitation]
    BY <2>2, <2>3
  <2> QED
    BY <1>1, <2>1, <2>4 DEF Invite
<1>2. ASSUME NEW u \in Account, NEW i \in Id, RevokeInvitation(u, i)
      PROVE  TypeOK'
  BY <1>2 DEF RevokeInvitation, Invitation
<1>3. ASSUME NEW i \in Id, Lapse(i)
      PROVE  TypeOK'
  BY <1>3 DEF Lapse
<1>4. ASSUME NEW u \in Account, NEW a \in Account, RevokeMember(u, a)
      PROVE  TypeOK'
  BY <1>4 DEF RevokeMember, Membership
<1>5. ASSUME NEW u \in Account, NEW s \in Slot, NEW to \in Person \cup {Nobody},
             Assign(u, s, to)
      PROVE  TypeOK'
  <2>1. minted' \in 0..MaxOffice /\ minted + 1 \in Minted
    BY <1>5, LimitAssumption DEF Assign, Minted
  <2>2. slots' \in [Slot -> Person \cup {Nobody, Unassigned}] /\ log' \subseteq Event
    BY <1>5, <2>1, WrittenTypes DEF Assign
  <2> QED
    BY <1>5, <2>1, <2>2 DEF Assign
<1>6. ASSUME NEW t \in Tab, NEW u \in Account, NEW i \in Id, Open(t, u, i)
      PROVE  TypeOK'
  BY <1>6 DEF Open, Screen
<1>7. ASSUME NEW t \in Tab, Accept(t)
      PROVE  TypeOK'
  <2>1. screen[t].by \in Account /\ screen[t].id \in Id
    BY <1>7, OpenTab DEF Accept
  <2>2. screen' \in [Tab -> Screen] /\ confirmed' \subseteq Account \X Id
    BY <1>7, AnsweredTypes DEF Accept
  <2>3. Joined(screen[t].by, screen[t].id) \in Membership
    BY <2>1 DEF Joined, Membership, Invitation
  <2>4. member' \in [Account -> Membership]
    BY <1>7, <2>1, <2>3 DEF Accept
  <2>5. invitations' \in [Id -> Invitation]
    BY <1>7, <2>1 DEF Accept, Invitation
  <2> QED
    BY <1>7, <2>2, <2>4, <2>5 DEF Accept
<1>8. ASSUME NEW t \in Tab, AcceptAgain(t)
      PROVE  TypeOK'
  <2>1. screen' \in [Tab -> Screen] /\ confirmed' \subseteq Account \X Id
    BY <1>8, AnsweredTypes DEF AcceptAgain
  <2> QED
    BY <1>8, <2>1 DEF AcceptAgain
<1>9. ASSUME NEW t \in Tab, AddToRoster(t)
      PROVE  TypeOK'
  <2>1. screen[t].by \in Account
    BY <1>9, OpenTab DEF AddToRoster
  <2>2. screen' \in [Tab -> Screen]
    BY <1>9, ShowTypes, CloseTypes DEF AddToRoster
  <2> QED
    BY <1>9, <2>1, <2>2 DEF AddToRoster, Person
<1>10. ASSUME NEW t \in Tab, NEW u \in Account, NEW i \in Id, TakeOffice(t, u, i)
       PROVE  TypeOK'
  <2>1. slots' \in [Slot -> Person \cup {Nobody, Unassigned}] /\ log' \subseteq Event
    BY <1>10, CitedSlot, WrittenTypes DEF TakeOffice, Person
  <2>2. screen' \in [Tab -> Screen]
    BY <1>10, CloseTypes DEF TakeOffice
  <2>3. confirmed' \subseteq Account \X Id
    BY <1>10 DEF TakeOffice
  <2> QED
    BY <1>10, <2>1, <2>2, <2>3 DEF TakeOffice
<1>11. ASSUME NEW t \in Tab, NEW u \in Account, NEW i \in Id, TakeOfficeAgain(t, u, i)
       PROVE  TypeOK'
  <2>1. screen' \in [Tab -> Screen]
    BY <1>11, CloseTypes DEF TakeOfficeAgain
  <2> QED
    BY <1>11, <2>1 DEF TakeOfficeAgain
<1>12. ASSUME NEW t \in Tab, Leave(t)
       PROVE  TypeOK'
  BY <1>12, CloseTypes DEF Leave
<1> QED
  BY <1>1, <1>2, <1>3, <1>4, <1>5, <1>6, <1>7, <1>8, <1>9, <1>10, <1>11, <1>12
  DEF Next, Administration, Acceptance

(***************************************************************************)
(* What no step takes back                                                 *)
(***************************************************************************)

RolesKept ==
    \A a \in Account : member[a].role # "none" => member'[a].role = member[a].role

OffersKept ==
    \A i \in Id : Sent(i) =>
        /\ Sent(i)'
        /\ invitations'[i].by = invitations[i].by /\ invitations'[i].to = invitations[i].to
        /\ invitations'[i].role = invitations[i].role
        /\ invitations'[i].slot = invitations[i].slot

AcceptedKept ==
    \A i \in Id : invitations[i].status = "accepted" => invitations'[i] = invitations[i]

RecordsKept == log \subseteq log' /\ roster \subseteq roster' /\ confirmed \subseteq confirmed'

(* A new invitation has a row of its own.                                   *)
LEMMA NewRow ==
  ASSUME TypeOK, InvitationsFit, created < MaxInvitation
  PROVE  created + 1 \in Id /\ invitations[created + 1].status = "none"
<1>1. created + 1 \in Id /\ ~(created + 1 <= created)
  BY LimitAssumption DEF TypeOK, Id
<1> QED
  BY <1>1 DEF InvitationsFit, Sent

(* What an acceptance by the account addressed does to the rows.            *)
LEMMA AcceptRows ==
  ASSUME TypeOK, NEW t \in Tab, Accept(t)
  PROVE  \E u \in Account, i \in Id :
            /\ screen[t].by = u /\ screen[t].id = i
            /\ invitations[i].status = "pending" /\ invitations[i].to = u
            /\ member' = [member EXCEPT ![u] = Joined(u, i)]
            /\ invitations' = [invitations EXCEPT ![i].status = "accepted", ![i].acceptedBy = u]
            /\ UNCHANGED <<created, lapsed, roster, slots, log, minted>>
            /\ Answered(t) \/ Lost
<1>1. screen[t].by \in Account /\ screen[t].id \in Id
  BY OpenTab DEF Accept
<1> QED
  BY <1>1 DEF Accept

LEMMA StepKeeps ==
  ASSUME TypeOK, InvitationsFit, Next
  PROVE  RolesKept /\ OffersKept /\ AcceptedKept /\ RecordsKept
<1> USE DEF RolesKept, OffersKept, AcceptedKept, RecordsKept, Sent
<1>1. ASSUME NEW u \in Account, NEW to \in Account, NEW role \in {"manager", "staff"},
             NEW s \in Slot \cup {NoSlot}, Invite(u, to, role, s)
      PROVE  RolesKept /\ OffersKept /\ AcceptedKept /\ RecordsKept
  <2>1. \A i \in Id : invitations[i].status # "none" => invitations'[i] = invitations[i]
    BY <1>1, NewRow DEF Invite, TypeOK
  <2> QED
    BY <1>1, <2>1 DEF Invite
<1>2. ASSUME NEW u \in Account, NEW i \in Id, RevokeInvitation(u, i)
      PROVE  RolesKept /\ OffersKept /\ AcceptedKept /\ RecordsKept
  BY <1>2 DEF RevokeInvitation, TypeOK, Invitation
<1>3. ASSUME NEW u \in Account, NEW a \in Account, RevokeMember(u, a)
      PROVE  RolesKept /\ OffersKept /\ AcceptedKept /\ RecordsKept
  BY <1>3 DEF RevokeMember, TypeOK, Membership
<1>4. ASSUME NEW u \in Account, NEW s \in Slot, NEW to \in Person \cup {Nobody},
             Assign(u, s, to)
      PROVE  RolesKept /\ OffersKept /\ AcceptedKept /\ RecordsKept
  BY <1>4 DEF Assign, Written
<1>5. ASSUME NEW t \in Tab, Accept(t)
      PROVE  RolesKept /\ OffersKept /\ AcceptedKept /\ RecordsKept
  <2>1. PICK u \in Account, i \in Id :
           /\ invitations[i].status = "pending"
           /\ member' = [member EXCEPT ![u] = Joined(u, i)]
           /\ invitations' = [invitations EXCEPT ![i].status = "accepted", ![i].acceptedBy = u]
           /\ UNCHANGED <<roster, log>>
           /\ Answered(t) \/ Lost
    BY <1>5, AcceptRows
  <2>2. RolesKept
    BY <2>1 DEF TypeOK, Joined
  <2>3. OffersKept /\ AcceptedKept
    BY <2>1 DEF TypeOK, Invitation
  <2>4. RecordsKept
    BY <2>1 DEF Answered, Lost
  <2> QED
    BY <2>2, <2>3, <2>4
<1>6. ASSUME NEW t \in Tab, AcceptAgain(t)
      PROVE  RolesKept /\ OffersKept /\ AcceptedKept /\ RecordsKept
  BY <1>6 DEF AcceptAgain, Answered
<1>7. ASSUME NEW t \in Tab, NEW u \in Account, NEW i \in Id, TakeOffice(t, u, i)
      PROVE  RolesKept /\ OffersKept /\ AcceptedKept /\ RecordsKept
  BY <1>7 DEF TakeOffice, Written
<1>8. ASSUME NEW t \in Tab, AddToRoster(t) \/ Leave(t)
                            \/ \E u \in Account, i \in Id : Open(t, u, i) \/ TakeOfficeAgain(t, u, i)
      PROVE  RolesKept /\ OffersKept /\ AcceptedKept /\ RecordsKept
  BY <1>8 DEF AddToRoster, Leave, Open, TakeOfficeAgain
<1>9. ASSUME NEW i \in Id, Lapse(i)
      PROVE  RolesKept /\ OffersKept /\ AcceptedKept /\ RecordsKept
  BY <1>9 DEF Lapse
<1> QED
  BY <1>1, <1>2, <1>3, <1>4, <1>5, <1>6, <1>7, <1>8, <1>9 DEF Next, Administration, Acceptance

(***************************************************************************)
(* What a step adds                                                        *)
(***************************************************************************)

(* Who is new in the campaign accepted an invitation to it in this step.    *)
NewMembersAccepted ==
    \A a \in Account : member[a].role = "none" /\ member'[a].role # "none" =>
        \E i \in Id : /\ AcceptedBy(i, a)'
                      /\ invitations'[i].to = a /\ invitations'[i].role = member'[a].role

(* An invitation accepted in this step was accepted by a member, the one    *)
(* it was addressed to.                                                     *)
NewAcceptancesFit ==
    \A i \in Id : invitations[i].status # "accepted" /\ invitations'[i].status = "accepted" =>
        /\ Sent(i) /\ invitations'[i].to \in Account
        /\ invitations'[i].acceptedBy = invitations'[i].to
        /\ member'[invitations'[i].to].role # "none"

(* A new invitation comes from who may send it.                             *)
NewOffersFit ==
    /\ created' \in {created, created + 1}
    /\ \A i \in Id : Sent(i)' /\ ~Sent(i) =>
          /\ i = created + 1 /\ created' = created + 1
          /\ invitations'[i].by \in Account /\ invitations'[i].to \in Account
          /\ MayInvite(invitations'[i].by, invitations'[i].role, invitations'[i].slot)
          /\ invitations'[i].role = "staff" => invitations'[i].slot \in Slot
    /\ created' = created + 1 => created + 1 \in Id /\ invitations'[created + 1].status # "none"

(* What an acceptance joins to the members.                                 *)
LEMMA JoinedRole ==
  ASSUME TypeOK, NEW u \in Account, NEW i \in Id
  PROVE  /\ Joined(u, i).role # "none"
         /\ member[u].role = "none" => Joined(u, i).role = invitations[i].role
BY DEF TypeOK, Joined, Membership, Invitation

LEMMA AcceptAdds ==
  ASSUME TypeOK, NEW t \in Tab, Accept(t)
  PROVE  NewMembersAccepted /\ NewAcceptancesFit
<1>1. PICK u \in Account, i \in Id :
         /\ invitations[i].status = "pending" /\ invitations[i].to = u
         /\ member' = [member EXCEPT ![u] = Joined(u, i)]
         /\ invitations' = [invitations EXCEPT ![i].status = "accepted", ![i].acceptedBy = u]
  BY AcceptRows
<1>2. /\ invitations'[i].status = "accepted" /\ invitations'[i].acceptedBy = u
      /\ invitations'[i].to = u /\ invitations'[i].role = invitations[i].role
      /\ \A j \in Id \ {i} : invitations'[j] = invitations[j]
  BY <1>1 DEF TypeOK, Invitation
<1>3. member'[u] = Joined(u, i) /\ \A a \in Account \ {u} : member'[a] = member[a]
  BY <1>1 DEF TypeOK
<1>4. NewMembersAccepted
  BY <1>2, <1>3, JoinedRole DEF NewMembersAccepted, AcceptedBy
<1>5. NewAcceptancesFit
  <2> SUFFICES ASSUME NEW j \in Id,
                      invitations[j].status # "accepted", invitations'[j].status = "accepted"
               PROVE  /\ Sent(j) /\ invitations'[j].to \in Account
                      /\ invitations'[j].acceptedBy = invitations'[j].to
                      /\ member'[invitations'[j].to].role # "none"
    BY DEF NewAcceptancesFit
  <2>1. j = i
    BY <1>2
  <2>2. member'[u].role # "none"
    BY <1>3, JoinedRole
  <2> QED
    BY <1>1, <1>2, <2>1, <2>2 DEF Sent
<1> QED
  BY <1>4, <1>5

LEMMA StepAddsMembers ==
  ASSUME TypeOK, InvitationsFit, Next
  PROVE  NewMembersAccepted /\ NewAcceptancesFit
<1> USE DEF NewMembersAccepted, NewAcceptancesFit
<1>1. ASSUME UNCHANGED <<member, invitations>>
      PROVE  NewMembersAccepted /\ NewAcceptancesFit
  BY <1>1
<1>2. ASSUME NEW u \in Account, NEW to \in Account, NEW role \in {"manager", "staff"},
             NEW s \in Slot \cup {NoSlot}, Invite(u, to, role, s)
      PROVE  NewMembersAccepted /\ NewAcceptancesFit
  <2>1. \A i \in Id : invitations'[i].status = "accepted" => invitations'[i] = invitations[i]
    BY <1>2, NewRow DEF Invite, TypeOK
  <2> QED
    BY <1>2, <2>1 DEF Invite
<1>3. ASSUME NEW u \in Account, NEW i \in Id, RevokeInvitation(u, i)
      PROVE  NewMembersAccepted /\ NewAcceptancesFit
  BY <1>3 DEF RevokeInvitation, TypeOK, Invitation
<1>4. ASSUME NEW u \in Account, NEW a \in Account, RevokeMember(u, a)
      PROVE  NewMembersAccepted /\ NewAcceptancesFit
  BY <1>4 DEF RevokeMember, TypeOK, Membership
<1>5. ASSUME NEW t \in Tab, Accept(t)
      PROVE  NewMembersAccepted /\ NewAcceptancesFit
  BY <1>5, AcceptAdds
<1> QED
  BY <1>1, <1>2, <1>3, <1>4, <1>5
  DEF Next, Administration, Acceptance, Lapse, Assign, Open, AcceptAgain, AddToRoster, TakeOffice,
      TakeOfficeAgain, Leave

LEMMA StepAddsOffers ==
  ASSUME TypeOK, InvitationsFit, Next
  PROVE  NewOffersFit
<1>1. ASSUME UNCHANGED created, \A i \in Id : Sent(i)' => Sent(i)
      PROVE  NewOffersFit
  BY <1>1 DEF NewOffersFit, TypeOK
<1>2. ASSUME NEW u \in Account, NEW to \in Account, NEW role \in {"manager", "staff"},
             NEW s \in Slot \cup {NoSlot}, Invite(u, to, role, s)
      PROVE  NewOffersFit
  <2>1. created + 1 \in Id
    BY <1>2, NewRow DEF Invite
  <2>2. /\ invitations'[created + 1] = [status |-> "pending", by |-> u, to |-> to, role |-> role,
                                        slot |-> s, acceptedBy |-> Nobody]
        /\ \A i \in Id \ {created + 1} : invitations'[i] = invitations[i]
    BY <1>2, <2>1 DEF Invite, TypeOK
  <2>3. /\ created' = created + 1 /\ MayInvite(u, role, s)
        /\ role = "staff" => s \in Slot
    BY <1>2 DEF Invite
  <2>4. invitations'[created + 1].status # "none" /\ \A i \in Id : Sent(i)' /\ ~Sent(i) => i = created + 1
    BY <2>2 DEF Sent
  <2> QED
    BY <2>1, <2>2, <2>3, <2>4 DEF NewOffersFit
<1>3. ASSUME NEW u \in Account, NEW i \in Id, RevokeInvitation(u, i)
      PROVE  NewOffersFit
  <2>1. \A j \in Id : Sent(j)' => Sent(j)
    BY <1>3 DEF RevokeInvitation, TypeOK, Sent
  <2> QED
    BY <1>1, <1>3, <2>1 DEF RevokeInvitation
<1>4. ASSUME NEW t \in Tab, Accept(t)
      PROVE  NewOffersFit
  <2>1. PICK u \in Account, i \in Id :
           /\ invitations[i].status = "pending" /\ UNCHANGED created
           /\ invitations' = [invitations EXCEPT ![i].status = "accepted", ![i].acceptedBy = u]
    BY <1>4, AcceptRows
  <2>2. \A j \in Id : Sent(j)' => Sent(j)
    BY <2>1 DEF TypeOK, Sent
  <2> QED
    BY <1>1, <2>1, <2>2
<1>5. ASSUME UNCHANGED <<invitations, created>>
      PROVE  NewOffersFit
  BY <1>1, <1>5 DEF Sent
<1> QED
  BY <1>2, <1>3, <1>4, <1>5
  DEF Next, Administration, Acceptance, Lapse, RevokeMember, Assign, Open, AcceptAgain, AddToRoster,
      TakeOffice, TakeOfficeAgain, Leave

(* A new event names a holder who is on the roster; if it was written for   *)
(* an invitation, its user accepted that one for this slot. Rows change     *)
(* with an event.                                                           *)
NewEventsFit ==
    /\ \A e \in log' \ log :
          /\ e.holder \in Person => e.holder \in roster
          /\ e.id \in Account =>
                /\ e.holder = e.id
                /\ \E i \in Id : AcceptedBy(i, e.id) /\ invitations[i].slot = e.slot
    /\ \A s \in Slot : slots'[s] # slots[s] =>
          \E e \in log' : e.slot = s /\ e.holder = slots'[s]

LEMMA StepAddsEvents ==
  ASSUME TypeOK, ScreensFit, Next
  PROVE  NewEventsFit
<1>1. ASSUME UNCHANGED <<slots, log>>
      PROVE  NewEventsFit
  BY <1>1 DEF NewEventsFit
<1>2. ASSUME NEW id, NEW s \in Slot, NEW holder, Written(id, s, holder),
             holder \in Person => holder \in roster,
             id \in Account => /\ holder = id
                               /\ \E i \in Id : AcceptedBy(i, id) /\ invitations[i].slot = s
      PROVE  NewEventsFit
  <2>1. \A r \in Slot \ {s} : slots'[r] = slots[r]
    BY <1>2 DEF TypeOK, Written
  <2>2. slots'[s] = holder
    BY <1>2 DEF TypeOK, Written
  <2> DEFINE e == [id |-> id, slot |-> s, holder |-> holder,
                   kind |-> IF slots[s] = Unassigned THEN "assigned" ELSE "reassigned"]
  <2>3. log' = log \cup {e} /\ e.id = id /\ e.slot = s /\ e.holder = holder
    BY <1>2 DEF Written
  <2> HIDE DEF e
  <2> QED
    BY <1>2, <2>1, <2>2, <2>3 DEF NewEventsFit
<1>3. ASSUME NEW u \in Account, NEW s \in Slot, NEW to \in Person \cup {Nobody},
             Assign(u, s, to)
      PROVE  NewEventsFit
  <2>1. minted + 1 \notin Account
    BY <1>3, IdAssumption, LimitAssumption DEF Assign, Minted, TypeOK
  <2>2. to \in Person => to \in roster
    BY <1>3, PeopleAssumption DEF Assign
  <2> QED
    BY <1>2, <1>3, <2>1, <2>2 DEF Assign
<1>4. ASSUME NEW t \in Tab, NEW u \in Account, NEW i \in Id, TakeOffice(t, u, i)
      PROVE  NewEventsFit
  <2>1. AcceptedBy(i, u) /\ invitations[i].slot \in Slot /\ u \in roster
    BY <1>4, CitedSlot DEF TakeOffice
  <2> QED
    BY <1>2, <1>4, <2>1 DEF TakeOffice
<1> QED
  BY <1>1, <1>3, <1>4
  DEF Next, Administration, Acceptance, Invite, RevokeInvitation, Lapse, RevokeMember, Open, Accept,
      AcceptAgain, AddToRoster, TakeOfficeAgain, Leave

(***************************************************************************)
(* The parts of the invariant                                              *)
(***************************************************************************)
LEMMA InvitationsFitStep ==
  ASSUME TypeOK, InvitationsFit, Next
  PROVE  InvitationsFit'
<1>1. RolesKept /\ OffersKept /\ AcceptedKept
  BY StepKeeps
<1>2. NewAcceptancesFit
  BY StepAddsMembers
<1>3. NewOffersFit
  BY StepAddsOffers
<1>4. ASSUME NEW i \in Id
      PROVE  Sent(i)' <=> i <= created'
  <2>1. i \in Nat /\ created \in Nat /\ (Sent(i) <=> i <= created)
    BY DEF TypeOK, Id, InvitationsFit
  <2>2. CASE created' = created
    <3>1. Sent(i)' <=> Sent(i)
      BY <1>1, <1>3, <2>1, <2>2 DEF NewOffersFit, OffersKept
    <3> QED
      BY <2>1, <2>2, <3>1
  <2>3. CASE created' = created + 1
    <3>1. i = created + 1 => Sent(i)'
      BY <1>3, <2>3 DEF NewOffersFit, Sent
    <3>2. i # created + 1 => (Sent(i)' <=> Sent(i))
      BY <1>1, <1>3 DEF NewOffersFit, OffersKept
    <3> QED
      BY <2>1, <2>3, <3>1, <3>2
  <2> QED
    BY <1>3, <2>2, <2>3 DEF NewOffersFit
<1>5. ASSUME NEW i \in Id, Sent(i)'
      PROVE  invitations'[i].by \in Account /\ invitations'[i].to \in Account
  BY <1>1, <1>3, <1>5 DEF InvitationsFit, OffersKept, NewOffersFit
<1>6. ASSUME NEW i \in Id, invitations'[i].status = "accepted"
      PROVE  /\ invitations'[i].acceptedBy = invitations'[i].to
             /\ member'[invitations'[i].to].role # "none"
  <2>1. CASE invitations[i].status = "accepted"
    <3>1. Sent(i) /\ invitations'[i] = invitations[i]
      BY <1>1, <2>1 DEF Sent, AcceptedKept
    <3>2. invitations[i].to \in Account /\ member[invitations[i].to].role # "none"
          /\ invitations[i].acceptedBy = invitations[i].to
      BY <2>1, <3>1 DEF InvitationsFit
    <3> QED
      BY <1>1, <3>1, <3>2 DEF RolesKept
  <2>2. CASE invitations[i].status # "accepted"
    BY <1>2, <1>6, <2>2 DEF NewAcceptancesFit
  <2> QED
    BY <2>1, <2>2
<1> QED
  BY <1>4, <1>5, <1>6 DEF InvitationsFit

LEMMA RowsComeFromLogStep ==
  ASSUME TypeOK, ScreensFit, InvitationsFit, RowsComeFromLog, Next
  PROVE  RowsComeFromLog'
<1>1. RecordsKept /\ NewEventsFit
  BY StepKeeps, StepAddsEvents
<1> QED
  BY <1>1 DEF RowsComeFromLog, RecordsKept, NewEventsFit, EverHeld

(* Who acts on what stands above a slot was named by an event.              *)
LEMMA AboveEverHeld ==
  ASSUME TypeOK, RowsComeFromLog, NEW u \in Account, NEW s \in Slot, Above(u, s)
  PROVE  EverHeld(u, Parent[s])
<1>1. u \in Person
  BY DEF Person
<1>2. CASE Holds(u, Parent[s])
  BY <1>1, <1>2 DEF Holds, RowsComeFromLog
<1>3. CASE FirstAssigned(u, Parent[s])
  BY <1>3 DEF FirstAssigned, EverHeld
<1> QED
  BY <1>2, <1>3 DEF Above

LEMMA OffersStep ==
  ASSUME TypeOK, InvitationsFit, RowsComeFromLog, ScreensFit, OffersComeFromAbove, Next
  PROVE  OffersComeFromAbove'
<1>1. RolesKept /\ OffersKept /\ RecordsKept /\ NewOffersFit
  BY StepKeeps, StepAddsOffers
<1>2. \A a \in Account : Leads(a) => Leads(a)'
  BY <1>1 DEF RolesKept, Leads
<1>3. \A a, s : EverHeld(a, s) => \E e \in log' : e.slot = s /\ e.holder = a
  BY <1>1 DEF RecordsKept, EverHeld
<1> SUFFICES ASSUME NEW i \in Id, Sent(i)'
             PROVE  \/ member'[invitations'[i].by].role \in {"owner", "manager"}
                    \/ /\ invitations'[i].role = "staff" /\ invitations'[i].slot \in Slot
                       /\ \E e \in log' : /\ e.slot = Parent[invitations'[i].slot]
                                          /\ e.holder = invitations'[i].by
  BY DEF OffersComeFromAbove, EverHeld, Leads
<1>4. CASE Sent(i)
  <2>1. /\ invitations'[i].by = invitations[i].by /\ invitations'[i].role = invitations[i].role
        /\ invitations'[i].slot = invitations[i].slot /\ invitations[i].by \in Account
    BY <1>1, <1>4 DEF OffersKept, InvitationsFit
  <2>2. \/ Leads(invitations[i].by)
        \/ /\ invitations[i].role = "staff" /\ invitations[i].slot \in Slot
           /\ EverHeld(invitations[i].by, Parent[invitations[i].slot])
    BY <1>4 DEF OffersComeFromAbove
  <2> QED
    BY <1>1, <1>3, <2>1, <2>2 DEF Leads, RolesKept
<1>5. CASE ~Sent(i)
  <2>1. /\ invitations'[i].by \in Account
        /\ MayInvite(invitations'[i].by, invitations'[i].role, invitations'[i].slot)
        /\ invitations'[i].role = "staff" => invitations'[i].slot \in Slot
    BY <1>1, <1>5 DEF NewOffersFit
  <2>2. CASE Leads(invitations'[i].by)
    BY <1>1, <2>1, <2>2 DEF Leads, RolesKept
  <2>3. CASE invitations'[i].role = "staff" /\ Above(invitations'[i].by, invitations'[i].slot)
    BY <1>3, <2>1, <2>3, AboveEverHeld
  <2> QED
    BY <2>1, <2>2, <2>3 DEF MayInvite
<1> QED
  BY <1>4, <1>5

LEMMA GrantsStep ==
  ASSUME TypeOK, InvitationsFit, ScreensFit, EveryGrantWasOffered, Next
  PROVE  EveryGrantWasOffered'
<1>1. RolesKept /\ OffersKept /\ AcceptedKept /\ RecordsKept
  BY StepKeeps
<1>2. NewMembersAccepted /\ NewEventsFit
  BY StepAddsMembers, StepAddsEvents
<1>3. \A i \in Id : \A a : AcceptedBy(i, a) =>
         AcceptedBy(i, a)' /\ invitations'[i] = invitations[i]
  BY <1>1 DEF AcceptedKept, AcceptedBy
<1>4. ASSUME NEW a \in Account \ {Founder}, member'[a].role # "none"
      PROVE  \E i \in Id : /\ AcceptedBy(i, a)' /\ invitations'[i].to = a
                           /\ invitations'[i].role = member'[a].role
  <2>1. CASE member[a].role = "none"
    BY <1>2, <1>4, <2>1 DEF NewMembersAccepted
  <2>2. CASE member[a].role # "none"
    <3>1. member'[a].role = member[a].role
      BY <1>1, <2>2 DEF RolesKept
    <3>2. PICK i \in Id : /\ AcceptedBy(i, a) /\ invitations[i].to = a
                          /\ invitations[i].role = member[a].role
      BY <2>2 DEF EveryGrantWasOffered
    <3> QED
      BY <1>3, <3>1, <3>2
  <2> QED
    BY <2>1, <2>2
<1>5. ASSUME NEW e \in log', e.id \in Account
      PROVE  /\ e.holder = e.id
             /\ \E i \in Id : AcceptedBy(i, e.id)' /\ invitations'[i].slot = e.slot
  <2>1. /\ e.holder = e.id
        /\ \E i \in Id : AcceptedBy(i, e.id) /\ invitations[i].slot = e.slot
    BY <1>2, <1>5 DEF EveryGrantWasOffered, NewEventsFit
  <2> QED
    BY <1>3, <2>1
<1> QED
  BY <1>4, <1>5 DEF EveryGrantWasOffered

LEMMA HoldersStep ==
  ASSUME TypeOK, InvitationsFit, ScreensFit, HoldersAreRostered, Next
  PROVE  HoldersAreRostered'
<1>1. RecordsKept /\ NewEventsFit
  BY StepKeeps, StepAddsEvents
<1>2. \A e \in log' : e.holder \in Person => e.holder \in roster'
  BY <1>1 DEF RecordsKept, NewEventsFit, HoldersAreRostered
<1>3. ASSUME NEW s \in Slot, slots'[s] \in Person
      PROVE  slots'[s] \in roster'
  <2>1. CASE slots'[s] = slots[s]
    BY <1>1, <1>3, <2>1 DEF RecordsKept, HoldersAreRostered
  <2>2. CASE slots'[s] # slots[s]
    BY <1>1, <1>2, <1>3, <2>2 DEF NewEventsFit
  <2> QED
    BY <2>1, <2>2
<1> QED
  BY <1>2, <1>3 DEF HoldersAreRostered

(* What ScreensFit says of one tab.                                         *)
ScreenFits(t) ==
    screen[t].step \in {"joined", "rostered"} =>
        /\ AcceptedBy(screen[t].id, screen[t].by)
        /\ invitations[screen[t].id].slot \in Slot
        /\ screen[t].step = "rostered" => screen[t].by \in roster

(* A tab that does not change goes on fitting.                              *)
LEMMA ScreenStays ==
  ASSUME TypeOK, InvitationsFit, ScreensFit, Next, NEW t \in Tab, screen'[t] = screen[t]
  PROVE  ScreenFits(t)'
<1> SUFFICES ASSUME screen[t].step \in {"joined", "rostered"}
             PROVE  /\ AcceptedBy(screen[t].id, screen[t].by)'
                    /\ invitations'[screen[t].id].slot \in Slot
                    /\ screen[t].step = "rostered" => screen[t].by \in roster'
  BY DEF ScreenFits, AcceptedBy
<1>1. screen[t].id \in Id
  BY OpenTab
<1>2. /\ AcceptedBy(screen[t].id, screen[t].by) /\ invitations[screen[t].id].slot \in Slot
      /\ screen[t].step = "rostered" => screen[t].by \in roster
  BY DEF ScreensFit
<1>3. AcceptedKept /\ RecordsKept
  BY StepKeeps
<1>4. invitations'[screen[t].id] = invitations[screen[t].id]
  BY <1>1, <1>2, <1>3 DEF AcceptedKept, AcceptedBy
<1> QED
  BY <1>2, <1>3, <1>4 DEF AcceptedBy, RecordsKept

(* The answer of an acceptance moves one tab, to a screen that fits.        *)
LEMMA AnsweredFits ==
  ASSUME TypeOK, InvitationsFit, ScreensFit, Next, NEW t \in Tab, NEW u \in Account, NEW i \in Id,
         screen[t].by = u, screen[t].id = i, screen[t].step = "offered", Answered(t),
         AcceptedBy(i, u)', invitations'[i].slot = invitations[i].slot
  PROVE  \A s \in Tab : ScreenFits(s)'
<1>1. \A s \in Tab \ {t} : screen'[s] = screen[s]
  BY DEF Answered, Close, Show, TypeOK
<1>2. ScreenFits(t)'
  <2>1. CASE invitations[i].slot = NoSlot
    <3>1. screen'[t].step = "closed"
      BY <2>1 DEF Answered, Close, Closed, TypeOK
    <3> QED
      BY <3>1 DEF ScreenFits
  <2>2. CASE invitations[i].slot # NoSlot
    <3>1. screen'[t].step = "joined" /\ screen'[t].by = u /\ screen'[t].id = i
      BY <2>2 DEF Answered, Show, TypeOK, Screen, Closed
    <3>2. invitations[i].slot \in Slot
      BY <2>2 DEF TypeOK, Invitation
    <3> QED
      BY <3>1, <3>2 DEF ScreenFits, AcceptedBy
  <2> QED
    BY <2>1, <2>2
<1> QED
  BY <1>1, <1>2, ScreenStays

LEMMA ScreensFitStep ==
  ASSUME TypeOK, InvitationsFit, ScreensFit, Next
  PROVE  ScreensFit'
<1> SUFFICES \A s \in Tab : ScreenFits(s)'
  BY DEF ScreensFit, ScreenFits
<1>1. ASSUME UNCHANGED screen
      PROVE  \A s \in Tab : ScreenFits(s)'
  BY <1>1, ScreenStays
<1>2. ASSUME NEW t \in Tab, Close(t)
      PROVE  \A s \in Tab : ScreenFits(s)'
  <2>1. screen'[t].step = "closed" /\ \A s \in Tab \ {t} : screen'[s] = screen[s]
    BY <1>2 DEF Close, Closed, TypeOK
  <2>2. ScreenFits(t)'
    BY <2>1 DEF ScreenFits
  <2> QED
    BY <2>1, <2>2, ScreenStays
<1>3. ASSUME NEW t \in Tab, NEW u \in Account, NEW i \in Id, Open(t, u, i)
      PROVE  \A s \in Tab : ScreenFits(s)'
  <2>1. screen'[t].step = "offered" /\ \A s \in Tab \ {t} : screen'[s] = screen[s]
    BY <1>3 DEF Open, TypeOK
  <2>2. ScreenFits(t)'
    BY <2>1 DEF ScreenFits
  <2> QED
    BY <2>1, <2>2, ScreenStays
<1>4. ASSUME NEW t \in Tab, Accept(t)
      PROVE  \A s \in Tab : ScreenFits(s)'
  <2>1. PICK u \in Account, i \in Id :
           /\ screen[t].by = u /\ screen[t].id = i
           /\ invitations' = [invitations EXCEPT ![i].status = "accepted", ![i].acceptedBy = u]
           /\ Answered(t) \/ Lost
    BY <1>4, AcceptRows
  <2>2. AcceptedBy(i, u)' /\ invitations'[i].slot = invitations[i].slot
    BY <2>1 DEF TypeOK, Invitation, AcceptedBy
  <2>3. CASE Answered(t)
    BY <1>4, <2>1, <2>2, <2>3, AnsweredFits DEF Accept
  <2>4. CASE Lost
    BY <1>1, <2>4 DEF Lost
  <2> QED
    BY <2>1, <2>3, <2>4
<1>5. ASSUME NEW t \in Tab, AcceptAgain(t)
      PROVE  \A s \in Tab : ScreenFits(s)'
  <2>1. PICK u \in Account, i \in Id : screen[t].by = u /\ screen[t].id = i
    BY <1>5, OpenTab DEF AcceptAgain
  <2>2. screen[t].step = "offered" /\ Answered(t) /\ UNCHANGED invitations /\ AcceptedBy(i, u)
    BY <1>5, <2>1 DEF AcceptAgain, AcceptedBy
  <2>3. AcceptedBy(i, u)'
    BY <2>2 DEF AcceptedBy
  <2> QED
    BY <2>1, <2>2, <2>3, AnsweredFits
<1>6. ASSUME NEW t \in Tab, AddToRoster(t)
      PROVE  \A s \in Tab : ScreenFits(s)'
  <2>1. CASE Show(t, "rostered")
    <3>1. screen[t].step = "joined" /\ roster' = roster \cup {screen[t].by} /\ UNCHANGED invitations
      BY <1>6 DEF AddToRoster
    <3>2. /\ screen'[t].by = screen[t].by /\ screen'[t].id = screen[t].id
          /\ \A s \in Tab \ {t} : screen'[s] = screen[s]
      BY <2>1, <3>1 DEF Show, TypeOK, Screen, Closed
    <3>3. ScreenFits(t)'
      BY <3>1, <3>2 DEF ScreensFit, ScreenFits, AcceptedBy
    <3> QED
      BY <3>2, <3>3, ScreenStays
  <2>2. CASE Close(t)
    BY <1>2, <2>2
  <2> QED
    BY <1>6, <2>1, <2>2 DEF AddToRoster
<1>7. ASSUME NEW t \in Tab, NEW u \in Account, NEW i \in Id,
             TakeOffice(t, u, i) \/ TakeOfficeAgain(t, u, i)
      PROVE  \A s \in Tab : ScreenFits(s)'
  BY <1>2, <1>7 DEF TakeOffice, TakeOfficeAgain
<1>8. ASSUME NEW t \in Tab, Leave(t)
      PROVE  \A s \in Tab : ScreenFits(s)'
  BY <1>2, <1>8 DEF Leave
<1> QED
  BY <1>1, <1>3, <1>4, <1>5, <1>6, <1>7, <1>8
  DEF Next, Administration, Acceptance, Invite, RevokeInvitation, Lapse, RevokeMember, Assign

(* What a confirmation says of the database.                                *)
Vouched(u, i) ==
    /\ AcceptedBy(i, u)
    /\ member[u].role # "none"
    /\ invitations[i].slot \in Slot => EverHeld(u, invitations[i].slot) /\ u \in roster

(* It stays true.                                                           *)
LEMMA VouchedStays ==
  ASSUME TypeOK, InvitationsFit, Next, NEW u \in Account, NEW i \in Id, Vouched(u, i)
  PROVE  Vouched(u, i)'
<1>1. RolesKept /\ AcceptedKept /\ RecordsKept
  BY StepKeeps
<1>2. AcceptedBy(i, u) /\ invitations'[i] = invitations[i]
  BY <1>1 DEF Vouched, AcceptedBy, AcceptedKept
<1> QED
  BY <1>1, <1>2 DEF Vouched, AcceptedBy, RolesKept, RecordsKept, EverHeld

(* Whose invitation is accepted is a member.                                *)
LEMMA AcceptedMember ==
  ASSUME InvitationsFit, NEW i \in Id, NEW u, AcceptedBy(i, u)
  PROVE  member[u].role # "none"
BY DEF InvitationsFit, AcceptedBy

(* A written event names its holder.                                        *)
LEMMA WrittenNames ==
  ASSUME NEW id, NEW s, NEW holder, Written(id, s, holder)
  PROVE  \E e \in log' : e.slot = s /\ e.holder = holder
<1> DEFINE e == [id |-> id, slot |-> s, holder |-> holder,
                 kind |-> IF slots[s] = Unassigned THEN "assigned" ELSE "reassigned"]
<1>1. e \in log' /\ e.slot = s /\ e.holder = holder
  BY DEF Written
<1> QED
  BY <1>1

LEMMA ConfirmedStep ==
  ASSUME TypeOK, InvitationsFit, ScreensFit, EveryGrantWasOffered, ConfirmedWasRecorded, Next
  PROVE  ConfirmedWasRecorded'
<1> SUFFICES ASSUME NEW u \in Account, NEW i \in Id, <<u, i>> \in confirmed'
             PROVE  Vouched(u, i)'
  BY StepTypes DEF ConfirmedWasRecorded, Vouched, TypeOK
<1>1. CASE <<u, i>> \in confirmed
  BY <1>1, VouchedStays DEF ConfirmedWasRecorded, Vouched
<1>2. ASSUME NEW t \in Tab, Answered(t), <<u, i>> \notin confirmed
      PROVE  u = screen[t].by /\ i = screen[t].id /\ invitations[i].slot = NoSlot
  BY <1>2 DEF Answered
<1>3. InvitationsFit'
  BY InvitationsFitStep
<1>4. ASSUME NEW t \in Tab, Accept(t), <<u, i>> \notin confirmed
      PROVE  Vouched(u, i)'
  <2>1. /\ u = screen[t].by /\ i = screen[t].id /\ invitations[i].slot = NoSlot
        /\ invitations' = [invitations EXCEPT ![i].status = "accepted", ![i].acceptedBy = u]
    BY <1>2, <1>4 DEF Accept, Lost
  <2>2. AcceptedBy(i, u)' /\ invitations'[i].slot = NoSlot
    BY <2>1 DEF TypeOK, Invitation, AcceptedBy
  <2>3. member'[u].role # "none"
    BY <1>3, <2>2 DEF InvitationsFit, AcceptedBy
  <2> QED
    BY <2>2, <2>3, SlotAssumption DEF Vouched
<1>5. ASSUME NEW t \in Tab, AcceptAgain(t), <<u, i>> \notin confirmed
      PROVE  Vouched(u, i)'
  <2>1. AcceptedBy(i, u) /\ invitations[i].slot = NoSlot
    BY <1>2, <1>5 DEF AcceptAgain, AcceptedBy
  <2>2. Vouched(u, i)
    BY <2>1, AcceptedMember, SlotAssumption DEF Vouched
  <2> QED
    BY <2>2, VouchedStays
<1>6. ASSUME NEW t \in Tab, NEW v \in Account, NEW j \in Id, TakeOffice(t, v, j),
             <<u, i>> \notin confirmed
      PROVE  Vouched(u, i)'
  <2>1. u = v /\ i = j
    BY <1>6 DEF TakeOffice
  <2>2. AcceptedBy(i, u) /\ invitations[i].slot \in Slot /\ u \in roster
    BY <1>6, <2>1, CitedSlot DEF TakeOffice
  <2>3. /\ UNCHANGED <<member, invitations, roster>>
        /\ Written(u, invitations[i].slot, u)
    BY <1>6, <2>1 DEF TakeOffice
  <2>4. EverHeld(u, invitations[i].slot)'
    BY <2>3, WrittenNames DEF EverHeld
  <2>5. member[u].role # "none"
    BY <2>2, AcceptedMember
  <2> QED
    BY <2>2, <2>3, <2>4, <2>5 DEF Vouched, AcceptedBy
<1>7. ASSUME NEW t \in Tab, NEW v \in Account, NEW j \in Id, TakeOfficeAgain(t, v, j),
             <<u, i>> \notin confirmed
      PROVE  Vouched(u, i)'
  <2>1. u = v /\ i = j
    BY <1>7 DEF TakeOfficeAgain
  <2>2. AcceptedBy(i, u) /\ invitations[i].slot \in Slot /\ u \in roster
    BY <1>7, <2>1, CitedSlot DEF TakeOfficeAgain
  <2>3. EverHeld(u, invitations[i].slot)
    BY <1>7, <2>1 DEF TakeOfficeAgain, Recorded, EveryGrantWasOffered, EverHeld
  <2>4. Vouched(u, i)
    BY <2>2, <2>3, AcceptedMember DEF Vouched
  <2> QED
    BY <2>4, VouchedStays
<1> QED
  BY <1>1, <1>4, <1>5, <1>6, <1>7
  DEF Next, Administration, Acceptance, Invite, RevokeInvitation, Lapse, RevokeMember, Assign, Open,
      AddToRoster, Leave

LEMMA NextIInv == IInv /\ [Next]_vars => IInv'
<1> SUFFICES ASSUME IInv, [Next]_vars
             PROVE  IInv'
  OBVIOUS
<1>1. CASE Next
  BY <1>1, StepTypes, InvitationsFitStep, RowsComeFromLogStep, ScreensFitStep, OffersStep,
     GrantsStep, HoldersStep, ConfirmedStep DEF IInv
<1>2. CASE UNCHANGED vars
  <2> USE <1>2 DEF vars, IInv
  <2>1. TypeOK' /\ InvitationsFit' /\ RowsComeFromLog' /\ ScreensFit'
    BY DEF TypeOK, InvitationsFit, RowsComeFromLog, ScreensFit, Sent, AcceptedBy, EverHeld
  <2>2. OffersComeFromAbove' /\ EveryGrantWasOffered'
    BY DEF OffersComeFromAbove, EveryGrantWasOffered, Sent, Leads, AcceptedBy, EverHeld
  <2>3. HoldersAreRostered' /\ ConfirmedWasRecorded'
    BY DEF HoldersAreRostered, ConfirmedWasRecorded, AcceptedBy, EverHeld
  <2> QED
    BY <2>1, <2>2, <2>3
<1> QED
  BY <1>1, <1>2

-----------------------------------------------------------------------------
(* The inductive invariant holds through every sequence of invitations,     *)
(* acceptances (in any number of tabs, failing at any call), handovers and  *)
(* revocations.                                                             *)
THEOREM Invariant == Spec => []IInv
  BY InitIInv, NextIInv, PTL DEF Spec

(* Rows, events and screens keep their types.                               *)
THEOREM TypeCorrect == Spec => []TypeOK
<1>1. IInv => TypeOK
  BY DEF IInv
<1> QED
  BY <1>1, Invariant, PTL

(* Behind every invitation create_campaign_invitation wrote stands a leader *)
(* or who was named for the slot above.                                     *)
THEOREM Downwards == Spec => []OffersComeFromAbove
<1>1. IInv => OffersComeFromAbove
  BY DEF IInv
<1> QED
  BY <1>1, Invariant, PTL

(* Behind every membership and every responsibility taken on behalf of an   *)
(* invitation stands one that this person accepted, was sent and that says  *)
(* so.                                                                      *)
THEOREM Offered == Spec => []EveryGrantWasOffered
<1>1. IInv => EveryGrantWasOffered
  BY DEF IInv
<1> QED
  BY <1>1, Invariant, PTL

(* The roster has everyone who holds or held a slot, whichever call of an   *)
(* acceptance failed.                                                       *)
THEOREM Rostered == Spec => []HoldersAreRostered
<1>1. IInv => HoldersAreRostered
  BY DEF IInv
<1> QED
  BY <1>1, Invariant, PTL

(* Who is told that an acceptance went through is a member who accepted and *)
(* was given what was offered.                                              *)
THEOREM Truthful == Spec => []ConfirmedWasRecorded
<1>1. IInv => ConfirmedWasRecorded
  BY DEF IInv
<1> QED
  BY <1>1, Invariant, PTL

(* A member becomes active again in no step.                                *)
LEMMA ActiveEnds ==
  ASSUME TypeOK, Next, NEW a \in Account, member[a].role # "none", member'[a].active
  PROVE  member[a].active
<1>1. ASSUME NEW t \in Tab, Accept(t)
      PROVE  member[a].active
  <2>1. PICK u \in Account, i \in Id : member' = [member EXCEPT ![u] = Joined(u, i)]
    BY <1>1, AcceptRows
  <2> QED
    BY <2>1 DEF TypeOK, Joined
<1>2. ASSUME NEW u \in Account, NEW b \in Account, RevokeMember(u, b)
      PROVE  member[a].active
  BY <1>2 DEF RevokeMember, TypeOK, Membership
<1> QED
  BY <1>1, <1>2
  DEF Next, Administration, Acceptance, Invite, RevokeInvitation, Lapse, Assign, Open, AcceptAgain,
      AddToRoster, TakeOffice, TakeOfficeAgain, Leave

(* No invitation changes a member's role or undoes a revocation of them.    *)
THEOREM NoReturn == Spec => StandingOnlyEnds
<1> DEFINE Ends == \A a \in Account : member[a].role # "none" =>
                      /\ member'[a].role = member[a].role
                      /\ member'[a].active => member[a].active
<1>1. IInv /\ [Next]_vars => [Ends]_vars
  <2> SUFFICES ASSUME IInv, Next
               PROVE  Ends
    OBVIOUS
  <2>1. RolesKept
    BY StepKeeps DEF IInv
  <2> QED
    BY <2>1, ActiveEnds DEF RolesKept, IInv
<1>2. Spec => [][Ends]_vars
  BY <1>1, Invariant, PTL DEF Spec
<1> QED
  BY <1>2 DEF StandingOnlyEnds
=============================================================================
