-------------------------- MODULE CampaignInvitations --------------------------
(***************************************************************************)
(* How people come into a campaign: invitations, their acceptance and the  *)
(* end of a membership.  create_, accept_ and revoke_campaign_invitation   *)
(* are functions of the database, one transaction each: acceptance locks   *)
(* the invitation's row and revocation is one conditional update.          *)
(* Acceptance as the client performs it (invitations/write.js) is a        *)
(* sequence of calls: the membership, an entry on the roster, the          *)
(* responsibility.  Each may fail, or take effect while its answer is      *)
(* lost, and a person may have invitations open in several tabs.           *)
(*                                                                         *)
(* A slot changes hands in one step here; ResponsibilityWrites takes that  *)
(* step apart.                                                             *)
(***************************************************************************)
EXTENDS Integers

CONSTANTS
    Account,    \* signed-in people, also the ids of their roster entries
    Founder,    \* the account that founded the campaign, its owner
    Volunteer,  \* roster entries of people without an account
    Nobody,     \* null
    Unassigned, \* the holder of a slot that has no row yet
    Slot, Level,\* the geographies and the level of each
    Parent,     \* the LGA of a ward, the ward of a polling unit, or NoSlot
    NoSlot,
    Tab,        \* browser tabs in which an invitation may be open
    MaxInvitation, \* bound: number of invitations
    MaxOffice   \* bound: number of assignments made in the UI

Id == 1..MaxInvitation
Minted == 1..MaxOffice
Person == Account \cup Volunteer

ASSUME PeopleAssumption ==
    /\ Founder \in Account /\ Account \cap Volunteer = {}
    /\ Nobody \notin Person /\ Unassigned \notin Person /\ Unassigned # Nobody
ASSUME IdAssumption == Account \cap Minted = {}
ASSUME SlotAssumption ==
    /\ Parent \in [Slot -> Slot \cup {NoSlot}] /\ NoSlot \notin Slot
    /\ Level \in [Slot -> {"constituency", "lga", "ward", "polling_unit"}]
    /\ \A s \in Slot : Level[s] \in {"ward", "polling_unit"} => Parent[s] \in Slot
ASSUME LimitAssumption == MaxInvitation \in Nat /\ MaxOffice \in Nat

VARIABLES
    member,     \* campaign_members
    invitations,\* campaign_invitations
    created,    \* number of invitations created
    lapsed,     \* invitations whose expires_at has passed
    roster,     \* person.added events
    slots,      \* responsibility_slots: the holder
    log,        \* responsibility events
    minted,     \* number of event ids the UI has minted
    screen,     \* what each tab is doing
    confirmed   \* history: <<u, i>>, u was told that i is accepted and nothing failed

vars == <<member, invitations, created, lapsed, roster, slots, log, minted, screen, confirmed>>

Membership == [role : {"none", "owner", "manager", "staff"}, active : BOOLEAN]

\* An invitation without a slot is a Director's.
Invitation ==
    [status : {"none", "pending", "accepted", "revoked"}, by : Account \cup {Nobody},
     to : Account \cup {Nobody}, role : {"manager", "staff"}, slot : Slot \cup {NoSlot},
     acceptedBy : Account \cup {Nobody}]
NoInvitation ==
    [status |-> "none", by |-> Nobody, to |-> Nobody, role |-> "staff", slot |-> NoSlot,
     acceptedBy |-> Nobody]

\* The event of an accepted invitation has an id made of the account.
Event == [id : Account \cup Minted, kind : {"assigned", "reassigned"}, slot : Slot,
          holder : Person \cup {Nobody}]

Closed == [step |-> "closed"]
Screen == {Closed} \cup [step : {"offered", "joined", "rostered"}, by : Account, id : Id]

TypeOK ==
    /\ member \in [Account -> Membership]
    /\ invitations \in [Id -> Invitation]
    /\ created \in 0..MaxInvitation
    /\ lapsed \subseteq Id
    /\ roster \subseteq Person
    /\ slots \in [Slot -> Person \cup {Nobody, Unassigned}]
    /\ log \subseteq Event
    /\ minted \in 0..MaxOffice
    /\ screen \in [Tab -> Screen]
    /\ confirmed \subseteq Account \X Id

-----------------------------------------------------------------------------
Init ==
    /\ member = [a \in Account |->
         IF a = Founder THEN [role |-> "owner", active |-> TRUE]
                        ELSE [role |-> "none", active |-> FALSE]]
    /\ invitations = [i \in Id |-> NoInvitation]
    /\ created = 0
    /\ lapsed = {}
    /\ roster = Volunteer
    /\ slots = [s \in Slot |-> Unassigned]
    /\ log = {}
    /\ minted = 0
    /\ screen = [t \in Tab |-> Closed]
    /\ confirmed = {}

(***************************************************************************)
(* Authority                                                               *)
(***************************************************************************)
Leads(a) == member[a].role \in {"owner", "manager"}

Holds(u, s) == s \in Slot /\ slots[s] = u

\* The holder named by the slot's first assignment, whoever came later.
FirstAssigned(u, s) ==
    \E e \in log : e.kind = "assigned" /\ e.slot = s /\ e.holder = u

\* Staff act one level below what they hold.
Above(u, s) ==
    \/ Level[s] = "ward" /\ (Holds(u, Parent[s]) \/ FirstAssigned(u, Parent[s]))
    \/ Level[s] = "polling_unit" /\ Holds(u, Parent[s])

\* A variation: a coordinator may also invite a Director.
MayInviteAnyone(u, role, s) ==
    /\ member[u].active
    /\ Leads(u) \/ (IF s \in Slot THEN Above(u, s) ELSE \E p \in Slot : Holds(u, p))

MayInvite(u, role, s) ==
    /\ member[u].active
    /\ Leads(u) \/ (role = "staff" /\ s \in Slot /\ Above(u, s))

MayAssign(u, s) == member[u].active /\ (Leads(u) \/ Above(u, s))

(***************************************************************************)
(* Invitations                                                             *)
(***************************************************************************)

(* create_campaign_invitation, with the combinations the wizard offers: a   *)
(* Director without a responsibility, or staff with one.                   *)
Invite(u, to, role, s) ==
    /\ created < MaxInvitation
    /\ (role = "manager") <=> (s = NoSlot)
    /\ MayInvite(u, role, s)
    /\ created' = created + 1
    /\ invitations' = [invitations EXCEPT ![created + 1] =
         [status |-> "pending", by |-> u, to |-> to, role |-> role, slot |-> s,
          acceptedBy |-> Nobody]]
    /\ UNCHANGED <<member, lapsed, roster, slots, log, minted, screen, confirmed>>

\* revoke_campaign_invitation tests a role that is null for who is no active member,
\* and a test on null does not raise.
MayRevoke(u) == member[u].active => Leads(u)

\* A variation: the update does not look at the status.
RevokeWhatever(u, i) ==
    /\ MayRevoke(u)
    /\ invitations[i].status # "none"
    /\ invitations' = [invitations EXCEPT ![i].status = "revoked"]
    /\ UNCHANGED <<member, created, lapsed, roster, slots, log, minted, screen, confirmed>>

(* Where the invitation is not pending nothing is updated, and the answer   *)
(* is the same.                                                            *)
RevokeInvitation(u, i) ==
    /\ MayRevoke(u)
    /\ invitations[i].status = "pending"
    /\ invitations' = [invitations EXCEPT ![i].status = "revoked"]
    /\ UNCHANGED <<member, created, lapsed, roster, slots, log, minted, screen, confirmed>>

(* Time passes. The function never records it: its update to 'expired' is   *)
(* rolled back by the exception raised after it.                           *)
Lapse(i) ==
    /\ invitations[i].status = "pending" /\ i \notin lapsed
    /\ lapsed' = lapsed \cup {i}
    /\ UNCHANGED <<member, invitations, created, roster, slots, log, minted, screen, confirmed>>

(***************************************************************************)
(* Acceptance                                                              *)
(***************************************************************************)
Show(t, step) == screen' = [screen EXCEPT ![t].step = step]
Close(t) == screen' = [screen EXCEPT ![t] = Closed]

(* The preview is shown to whoever has the link, and offers a button while  *)
(* the status reads pending.                                               *)
Open(t, u, i) ==
    /\ screen[t] = Closed
    /\ invitations[i].status = "pending"
    /\ screen' = [screen EXCEPT ![t] = [step |-> "offered", by |-> u, id |-> i]]
    /\ UNCHANGED <<member, invitations, created, lapsed, roster, slots, log, minted, confirmed>>

\* The answer of accept_campaign_invitation arrives: a Director's acceptance is done.
Answered(t) ==
    LET u == screen[t].by  i == screen[t].id IN
    IF invitations[i].slot = NoSlot
    THEN Close(t) /\ confirmed' = confirmed \cup {<<u, i>>}
    ELSE Show(t, "joined") /\ UNCHANGED confirmed

\* Or is lost, and the button stays.
Lost == UNCHANGED <<screen, confirmed>>

\* A variation: a conflict updates the row.
JoinedAnew(u, i) == [role |-> invitations[i].role, active |-> TRUE]

\* A variation: the member's role is read from the wrong column.
JoinedAsOffice(u, i) ==
    IF member[u].role # "none" THEN member[u]
    ELSE [active |-> TRUE,
          role |-> IF invitations[i].slot \in Slot THEN Level[invitations[i].slot]
                                                   ELSE invitations[i].role]

\* insert ... on conflict do nothing: a row there is stays as it is, revoked or not.
Joined(u, i) ==
    IF member[u].role = "none" THEN [role |-> invitations[i].role, active |-> TRUE]
                               ELSE member[u]

(* accept_campaign_invitation, by the account it was addressed to.          *)
Accept(t) ==
    LET u == screen[t].by  i == screen[t].id IN
    /\ screen[t].step = "offered"
    /\ invitations[i].status = "pending" /\ i \notin lapsed
    /\ invitations[i].to = u
    /\ member' = [member EXCEPT ![u] = Joined(u, i)]
    /\ invitations' = [invitations EXCEPT ![i].status = "accepted", ![i].acceptedBy = u]
    /\ Answered(t) \/ Lost
    /\ UNCHANGED <<created, lapsed, roster, slots, log, minted>>

(* The same, by who accepted it before: nothing changes, the answer is      *)
(* given again.                                                            *)
AcceptAgain(t) ==
    LET u == screen[t].by  i == screen[t].id IN
    /\ screen[t].step = "offered"
    /\ invitations[i].status = "accepted" /\ invitations[i].acceptedBy = u
    /\ Answered(t)
    /\ UNCHANGED <<member, invitations, created, lapsed, roster, slots, log, minted>>

\* A variation: acceptance goes on although the entry was not written.
AddToRosterUnchecked(t) ==
    /\ screen[t].step = "joined"
    /\ roster' \in {roster, roster \cup {screen[t].by}}
    /\ Show(t, "rostered")
    /\ UNCHANGED <<member, invitations, created, lapsed, slots, log, minted, confirmed>>

(* executeAddPerson, under row level security; an entry that is there       *)
(* counts as success. A lost answer ends the acceptance.                   *)
AddToRoster(t) ==
    /\ screen[t].step = "joined"
    /\ member[screen[t].by].active
    /\ roster' = roster \cup {screen[t].by}
    /\ Show(t, "rostered") \/ Close(t)
    /\ UNCHANGED <<member, invitations, created, lapsed, slots, log, minted, confirmed>>

\* write_responsibility on behalf of an invitation the caller has accepted.
Cited(t, u, i) ==
    /\ screen[t].step = "rostered" /\ screen[t].by = u /\ screen[t].id = i
    /\ member[u].active
    /\ invitations[i].status = "accepted" /\ invitations[i].acceptedBy = u

\* A variation: any event of this id is taken for a retry.
RecordedAnywhere(u, s) == \E e \in log : e.id = u

\* The event of this account's acceptance, for this slot.
Recorded(u, s) == \E e \in log : e.id = u /\ e.slot = s

Written(id, s, holder) ==
    /\ slots' = [slots EXCEPT ![s] = holder]
    /\ log' = log \cup {[id |-> id, slot |-> s, holder |-> holder,
         kind |-> IF slots[s] = Unassigned THEN "assigned" ELSE "reassigned"]}

(* The slot is free, and the account's event id too. A lost answer is       *)
(* reported as a failure.                                                  *)
TakeOffice(t, u, i) ==
    LET s == invitations[i].slot IN
    /\ Cited(t, u, i)
    /\ ~Recorded(u, s)
    /\ slots[s] \in {Unassigned, Nobody}
    /\ \A e \in log : e.id # u
    /\ Written(u, s, u)
    /\ confirmed' \in {confirmed, confirmed \cup {<<u, i>>}}
    /\ Close(t)
    /\ UNCHANGED <<member, invitations, created, lapsed, roster, minted>>

(* A retry of what was written before, whoever holds the slot by now.       *)
TakeOfficeAgain(t, u, i) ==
    /\ Cited(t, u, i)
    /\ Recorded(u, invitations[i].slot)
    /\ confirmed' = confirmed \cup {<<u, i>>}
    /\ Close(t)
    /\ UNCHANGED <<member, invitations, created, lapsed, roster, slots, log, minted>>

(* A call that fails, a territory that cannot be read, a tab that is closed.*)
Leave(t) ==
    /\ screen[t] # Closed
    /\ Close(t)
    /\ UNCHANGED <<member, invitations, created, lapsed, roster, slots, log, minted, confirmed>>

(***************************************************************************)
(* Members and offices                                                     *)
(***************************************************************************)

(* revoke_campaign_member: of staff by a leader, of a manager by the owner. *)
RevokeMember(u, a) ==
    /\ u # a
    /\ member[u].active /\ Leads(u)
    /\ member[a].active /\ member[a].role # "owner"
    /\ member[u].role = "manager" => member[a].role = "staff"
    /\ member' = [member EXCEPT ![a].active = FALSE]
    /\ UNCHANGED <<invitations, created, lapsed, roster, slots, log, minted, screen, confirmed>>

(* write_responsibility from the UI: an assignment, a handover, a vacancy.  *)
Assign(u, s, to) ==
    /\ minted < MaxOffice
    /\ MayAssign(u, s)
    /\ to \in roster \cup {Nobody}
    /\ slots[s] # to /\ ~(slots[s] = Unassigned /\ to = Nobody)
    /\ minted' = minted + 1
    /\ Written(minted + 1, s, to)
    /\ UNCHANGED <<member, invitations, created, lapsed, roster, screen, confirmed>>

-----------------------------------------------------------------------------
Administration ==
    \/ \E u, to \in Account, role \in {"manager", "staff"}, s \in Slot \cup {NoSlot} :
          Invite(u, to, role, s)
    \/ \E u \in Account, i \in Id : RevokeInvitation(u, i)
    \/ \E i \in Id : Lapse(i)
    \/ \E u, a \in Account : RevokeMember(u, a)
    \/ \E u \in Account, s \in Slot, to \in Person \cup {Nobody} : Assign(u, s, to)

Acceptance(t) ==
    \/ \E u \in Account, i \in Id : Open(t, u, i)
    \/ Accept(t)
    \/ AcceptAgain(t)
    \/ AddToRoster(t)
    \/ \E u \in Account, i \in Id : TakeOffice(t, u, i)
    \/ \E u \in Account, i \in Id : TakeOfficeAgain(t, u, i)
    \/ Leave(t)

Next == Administration \/ \E t \in Tab : Acceptance(t)

Spec == Init /\ [][Next]_vars

-----------------------------------------------------------------------------
(***************************************************************************)
(* Properties                                                              *)
(***************************************************************************)
Sent(i) == invitations[i].status # "none"

AcceptedBy(i, a) == invitations[i].status = "accepted" /\ invitations[i].acceptedBy = a

\* u is named by an event as the holder of s: holds it or once did.
EverHeld(u, s) == \E e \in log : e.slot = s /\ e.holder = u

\* Nobody invites beyond what they are given to hand on (create_campaign_invitation):
\* behind an invitation of staff stands a leader, or who held the slot above, behind
\* a Director's a leader; through any sequence of acceptances, handovers and
\* revocations.
OffersComeFromAbove ==
    \A i \in Id : Sent(i) =>
        LET v == invitations[i] IN
        \/ Leads(v.by)
        \/ v.role = "staff" /\ v.slot \in Slot /\ EverHeld(v.by, Parent[v.slot])

\* Every membership but the founder's, and every responsibility written on behalf of
\* an invitation, goes back to an invitation that this person accepted, that was
\* addressed to them and that names this role or this slot
\* (accept_campaign_invitation, write_responsibility).
EveryGrantWasOffered ==
    /\ \A a \in Account \ {Founder} : member[a].role # "none" =>
          \E i \in Id : /\ AcceptedBy(i, a) /\ invitations[i].to = a
                        /\ invitations[i].role = member[a].role
    /\ \A e \in log : e.id \in Account =>
          /\ e.holder = e.id
          /\ \E i \in Id : AcceptedBy(i, e.id) /\ invitations[i].slot = e.slot

\* Who holds a slot, or ever did, is on the roster, whatever step of an acceptance
\* failed: the screens show holders by their roster entry (invitations/write.js).
HoldersAreRostered ==
    /\ \A s \in Slot : slots[s] \in Person => slots[s] \in roster
    /\ \A e \in log : e.holder \in Person => e.holder \in roster

\* Who is told that an acceptance went through has accepted that invitation, has a
\* membership, and was at some time given the slot it names (acceptInvitation).
ConfirmedWasRecorded ==
    \A c \in confirmed :
        LET u == c[1]  i == c[2] IN
        /\ AcceptedBy(i, u)
        /\ member[u].role # "none"
        /\ invitations[i].slot \in Slot => EverHeld(u, invitations[i].slot) /\ u \in roster

\* No sequence of invitations changes the role of a member or brings back one who was
\* revoked: a membership only ends (on conflict do nothing).
StandingOnlyEnds ==
    [][\A a \in Account : member[a].role # "none" =>
          /\ member'[a].role = member[a].role
          /\ member'[a].active => member[a].active]_vars

\* What acceptInvitation says of its answer: the responsibility it names was just
\* granted. Does not hold: a retry is answered whoever holds the slot by now, and
\* who is invited again to a slot they had before meets the event of the first time.
ConfirmedOfficeIsHeld ==
    [][\A c \in confirmed' \ confirmed :
          LET s == invitations[c[2]].slot IN s \in Slot => slots'[s] = c[1]]_vars

-----------------------------------------------------------------------------
(***************************************************************************)
(* The inductive invariant                                                 *)
(***************************************************************************)

\* Rows beyond created are untouched; an accepted one was accepted by whom it was
\* addressed to, who is a member since.
InvitationsFit ==
    /\ \A i \in Id : Sent(i) <=> i <= created
    /\ \A i \in Id : Sent(i) => invitations[i].by \in Account /\ invitations[i].to \in Account
    /\ \A i \in Id : invitations[i].status = "accepted" =>
          /\ invitations[i].acceptedBy = invitations[i].to
          /\ member[invitations[i].to].role # "none"

\* A slot's holder was named by an event.
RowsComeFromLog == \A s \in Slot : slots[s] \in Person => EverHeld(slots[s], s)

\* A screen past the first call shows an invitation its user accepted, for a slot;
\* past the second, its user is on the roster.
ScreensFit ==
    \A t \in Tab : screen[t].step \in {"joined", "rostered"} =>
        /\ AcceptedBy(screen[t].id, screen[t].by)
        /\ invitations[screen[t].id].slot \in Slot
        /\ screen[t].step = "rostered" => screen[t].by \in roster

IInv ==
    /\ TypeOK
    /\ InvitationsFit
    /\ RowsComeFromLog
    /\ ScreensFit
    /\ OffersComeFromAbove
    /\ EveryGrantWasOffered
    /\ HoldersAreRostered
    /\ ConfirmedWasRecorded
=============================================================================
