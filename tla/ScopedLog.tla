------------------------------- MODULE ScopedLog -------------------------------
(***************************************************************************)
(* What a coordinator may read of the campaign's log, and what the screens *)
(* make of it: the restrictive policy of migration 20260930000000, the     *)
(* one query of loadElectionLog and the fold of projectElection over the   *)
(* rows it returns.  The policy folds the log too, in SQL, to find out who *)
(* holds what; the client folds what the policy left, and narrows it once  *)
(* more with resolveEffectiveScope and scopedPeople.                       *)
(*                                                                         *)
(* A read is one query and changes nothing, so it is no action here: the   *)
(* properties speak of every read that could be made of every log.  A      *)
(* response holds at most RowCap rows, the newest: PostgREST's limit,      *)
(* which geography-import/paginated-read.mjs pages around and              *)
(* loadElectionLog does not.                                               *)
(***************************************************************************)
EXTENDS Integers, Sequences, FiniteSets

CONSTANTS
    Person,     \* who may be on the roster; accounts by their entry 'invite:<campaign>:<uid>'
    Member,     \* those with an account
    Leader,     \* the campaign's owner and the managers who stay
    Nobody,     \* null: a vacated slot
    Slot, Level,\* the geographies and the level of each
    Parent,     \* the LGA of a ward, the ward of a polling unit, or NoSlot
    NoSlot,
    RowCap,     \* rows of one response of the log
    RefCap,     \* rows of one of the geography: the same limit, met at another size
    MaxEvent    \* bound: length of the log

ASSUME PeopleAssumption == Member \subseteq Person /\ Leader \subseteq Member /\ Nobody \notin Person
ASSUME SlotAssumption ==
    /\ NoSlot \notin Slot
    /\ Parent \in [Slot -> Slot \cup {NoSlot}]
    /\ Level \in [Slot -> {"constituency", "lga", "ward", "polling_unit"}]
ASSUME LimitAssumption == RowCap \in Nat /\ RefCap \in Nat /\ MaxEvent \in Nat

VARIABLES
    log,        \* election_events of the campaign, by created_at
    active      \* members whose membership is active

vars == <<log, active>>

Holder == Person \cup {Nobody}
Resp   == 1..MaxEvent       \* a responsibility has the id of its first assignment

\* The payloads the policy tells apart. geo is NoSlot where geographyRef is null;
\* who is the person added, or the new holder; territory stands for every other
\* type, none of which has a geographyRef.
Event ==
    [kind : {"territory"}, geo : {NoSlot}]
    \cup [kind : {"person"}, geo : {NoSlot}, who : Person]
    \cup [kind : {"status"}, geo : {NoSlot}, resp : Resp]
    \cup [kind : {"assigned", "reassigned"}, geo : Slot, resp : Resp, who : Holder]

TypeOK == log \in Seq(Event) /\ Len(log) <= MaxEvent /\ active \subseteq Member

Numbers == DOMAIN log
Writes  == {n \in Numbers : log[n].kind \in {"assigned", "reassigned"}}

-----------------------------------------------------------------------------
(***************************************************************************)
(* The log grows                                                           *)
(***************************************************************************)
Init == log = <<>> /\ active = Member

Record(e) ==
    /\ Len(log) < MaxEvent
    /\ log' = Append(log, e)
    /\ UNCHANGED active

\* Whatever is written here the owner may write, whose membership does not end; who
\* else may is the business of ResponsibilityWrites.
AddPerson(p) ==
    /\ \A n \in Numbers : log[n].kind = "person" => log[n].who # p
    /\ Record([kind |-> "person", geo |-> NoSlot, who |-> p])

SetTerritory == Record([kind |-> "territory", geo |-> NoSlot])

WritesOf(s) == {n \in Writes : log[n].geo = s}
Newest(ns) == CHOOSE n \in ns : \A k \in ns : k <= n

(* write_responsibility: the first write of a slot names it, every later one *)
(* keeps the name and carries the whole geography again.                    *)
Assign(s, p) ==
    /\ WritesOf(s) = {}
    /\ Record([kind |-> "assigned", geo |-> s, resp |-> Len(log) + 1, who |-> p])

Reassign(s, to) ==
    /\ WritesOf(s) # {}
    /\ LET row == log[Newest(WritesOf(s))] IN
       /\ to # row.who
       /\ Record([kind |-> "reassigned", geo |-> s, resp |-> row.resp, who |-> to])

\* A status or training update, of a responsibility that a screen shows.
ChangeStatus(r) ==
    /\ \E n \in Writes : log[n].resp = r
    /\ Record([kind |-> "status", geo |-> NoSlot, resp |-> r])

\* revoke_campaign_member: the log and the slots stay as they are.
Revoke(u) ==
    /\ u \in active \ Leader
    /\ active' = active \ {u}
    /\ UNCHANGED log

Next ==
    \/ \E p \in Person : AddPerson(p)
    \/ SetTerritory
    \/ \E s \in Slot, p \in Holder : Assign(s, p) \/ Reassign(s, p)
    \/ \E r \in Resp : ChangeStatus(r)
    \/ \E u \in Member : Revoke(u)

Spec == Init /\ [][Next]_vars

-----------------------------------------------------------------------------
(***************************************************************************)
(* The policy's own fold, in SQL                                           *)
(***************************************************************************)
Known == {log[n].resp : n \in Writes}

\* A variation: a slot is its first assignee's.
CurrentFirst(r) == log[CHOOSE n \in Writes : log[n].resp = r /\ \A k \in Writes : log[k].resp = r => n <= k]

\* current_slots: the newest assignment or reassignment of a responsibility.
Current(r) == log[Newest({n \in Writes : log[n].resp = r})]

\* current_responsibility_geography
GeographyOf(p) == {Current(r).geo : r \in {k \in Known : Current(k).who = p}}

\* current_responsibility_slot_geography
SlotGeography(r) == IF r \in Known THEN {Current(r).geo} ELSE {}

ScopedLevel == {"lga", "ward", "polling_unit"}

\* caller_scoped_responsibility before its 'limit 1', which has no order: the caller
\* is narrowed to one of these, the database chooses which.
ScopedSlots(u) == {s \in GeographyOf(u) : Level[s] \in ScopedLevel}

\* scope_geography_refs, one branch of the union each
Refs(s) ==
    {s} \cup {w \in Slot : Level[s] = "lga" /\ Level[w] = "ward" /\ Parent[w] = s}
        \cup {t \in Slot : /\ Level[s] = "lga" /\ Level[t] = "polling_unit"
                           /\ \E w \in Slot : Level[w] = "ward" /\ Parent[w] = s /\ Parent[t] = w}
        \cup {t \in Slot : Level[s] = "ward" /\ Level[t] = "polling_unit" /\ Parent[t] = s}

\* A variation: whatever has no geographyRef is for everyone.
VisibleWithoutRef(e, s) == e.geo = NoSlot \/ e.geo \in Refs(s)

\* The restrictive policy for a caller narrowed to s.
Visible(e, s) ==
    \/ e.geo = NoSlot /\ e.kind \notin {"person", "status"}
    \/ e.geo \in Refs(s)
    \/ e.kind = "person" /\ GeographyOf(e.who) \cap Refs(s) # {}
    \/ e.kind = "status" /\ SlotGeography(e.resp) \cap Refs(s) # {}

\* What the caller may be narrowed to; NoSlot: nothing.
Narrowing(u) == IF u \in Leader \/ ScopedSlots(u) = {} THEN {NoSlot} ELSE ScopedSlots(u)

Readable(d) == IF d = NoSlot THEN Numbers ELSE {n \in Numbers : Visible(log[n], d)}

-----------------------------------------------------------------------------
(***************************************************************************)
(* The client                                                              *)
(***************************************************************************)
\* A variation: the oldest rows, as an ascending query would return them.
ResponseOldest(ns) == {n \in ns : Cardinality({k \in ns : k <= n}) <= RowCap}

\* loadElectionLog: newest first, so a capped response lacks the oldest rows.
Response(ns) == {n \in ns : Cardinality({k \in ns : k >= n}) <= RowCap}

NoView == [territory |-> 0, people |-> {}, slots |-> <<>>]

\* RESPONSIBILITY_DEFAULT
Default == [who |-> Nobody, geo |-> NoSlot, status |-> 0, history |-> <<>>]

Before(v, r) == IF r \in DOMAIN v.slots THEN v.slots[r] ELSE Default
Put(v, r, slot) ==
    [v EXCEPT !.slots = [k \in DOMAIN v.slots \cup {r} |-> IF k = r THEN slot ELSE v.slots[k]]]

\* One event of projectElection's fold; a status and a history entry are the number of
\* the event they come from.
Step(v, n) ==
    LET e == log[n] IN
    CASE e.kind = "territory" -> [v EXCEPT !.territory = n]
      [] e.kind = "person"    -> [v EXCEPT !.people = @ \cup {e.who}]
      [] e.kind = "assigned"  -> Put(v, e.resp, [Before(v, e.resp) EXCEPT !.who = e.who, !.geo = e.geo])
      [] e.kind = "status"    ->
            Put(v, e.resp, [Before(v, e.resp) EXCEPT !.status = n, !.history = Append(@, n)])
      [] e.kind = "reassigned" ->
            Put(v, e.resp, [Before(v, e.resp) EXCEPT !.who = e.who, !.geo = e.geo, !.history = Append(@, n)])

\* projectElection over the rows ns, oldest first
Project(ns) ==
    LET fold[n \in 0..Len(log)] ==
            IF n = 0 THEN NoView ELSE IF n \in ns THEN Step(fold[n - 1], n) ELSE fold[n - 1]
    IN  fold[Len(log)]

OfPerson(v, p) == {r \in DOMAIN v.slots : v.slots[r].who = p}

\* The rows that are about responsibility r: its place in the view is the first's.
Met(ns, r) ==
    {n \in ns : log[n].kind \in {"assigned", "reassigned", "status"} /\ log[n].resp = r}

\* resolveMyResponsibility: the first of the view's responsibilities that is u's.
Mine(v, ns, u) ==
    {r \in OfPerson(v, u) :
        \E n \in Met(ns, r) : \A k \in OfPerson(v, u) : \A i \in Met(ns, k) : n <= i}

\* A Map of them, by person, keeps the last of p's.
LastOf(v, ns, p) ==
    {r \in OfPerson(v, p) :
        \A k \in OfPerson(v, p) \ {r} : \A n \in Met(ns, r) : \E i \in Met(ns, k) : i < n}

WardsOf(l) == {w \in Slot : Level[w] = "ward" /\ Parent[w] = l}
UnitsOf(wards) == {t \in Slot : Level[t] = "polling_unit" /\ Parent[t] \in wards}

\* What a query that is neither ordered nor paged may return of its rows.
Answers(rows) ==
    IF Cardinality(rows) <= RefCap THEN {rows} ELSE {kept \in SUBSET rows : Cardinality(kept) = RefCap}

\* A variation: the wards are collected, their polling units forgotten.
ScopeWithoutUnits(s) ==
    {[refs |-> {s} \cup wards, error |-> FALSE] : wards \in Answers(WardsOf(s))}

\* The query for the polling units of the wards, if there are any; it may fail.
WithUnits(refs, wards) ==
    IF wards = {} THEN {[refs |-> refs, error |-> FALSE]}
    ELSE {[refs |-> refs \cup units, error |-> FALSE] : units \in Answers(UnitsOf(wards))}
            \cup {[refs |-> refs, error |-> TRUE]}

\* getScopeGeographyRefs: the wards first, then the units of all of them. Whatever was
\* collected when a query fails is returned beside the error.
ScopeGeographyRefs(s) ==
    CASE Level[s] = "lga" ->
            {[refs |-> {s}, error |-> TRUE]}
                \cup UNION {WithUnits({s} \cup wards, wards) : wards \in Answers(WardsOf(s))}
      [] Level[s] = "ward" -> WithUnits({s}, {s})
      [] OTHER -> {[refs |-> {s}, error |-> FALSE]}

CampaignWide == Slot \cup {NoSlot}

\* resolveEffectiveScope, whatever its queries come to: the geographies the screen
\* keeps to. It looks at no member role, and at no error: that is here for the
\* properties only.
EffectiveScope(v, ns, u) ==
    LET mine == {v.slots[r].geo : r \in Mine(v, ns, u)}
    IN  IF \E s \in mine \cap Slot : Level[s] \in ScopedLevel
        THEN UNION {ScopeGeographyRefs(s) : s \in mine \cap Slot}
        ELSE {[refs |-> CampaignWide, error |-> FALSE]}

\* scopedPeople: everyone, until a scope is resolved and if it is campaign-wide; or
\* else those whose last geography is one of the scope's.
Shown(v, ns, refs) ==
    IF refs = CampaignWide THEN v.people
    ELSE {p \in v.people : \E r \in LastOf(v, ns, p) : v.slots[r].geo \in refs}

-----------------------------------------------------------------------------
(***************************************************************************)
(* Properties                                                              *)
(***************************************************************************)
Whole == Project(Numbers)

(* A coordinator reads its own geography whole and nothing of another: the  *)
(* fold of its rows is the campaign's own on every slot in scope - holder,  *)
(* status and the whole history, even of what was written before its time - *)
(* knows no other slot, has the territory, and its roster is exactly the    *)
(* people who now hold a slot in scope.  This is what the six branches of   *)
(* the policy add up to; it is said of responses the row limit left whole.  *)
OwnGeographyIsWhole ==
    \A u \in active : \A d \in Narrowing(u) \ {NoSlot} :
        Cardinality(Readable(d)) <= RowCap =>
            LET v  == Project(Response(Readable(d)))
                in == {r \in Known : Current(r).geo \in Refs(d)}
            IN  /\ DOMAIN v.slots = in
                /\ \A r \in in : v.slots[r] = Whole.slots[r]
                /\ v.territory = Whole.territory
                /\ v.people = {p \in Whole.people : \E r \in in : Current(r).who = p}

(* The two folds agree: the SQL one, which decides what a person may read,  *)
(* names for every responsibility the holder and the geography that the     *)
(* client's fold of the log names ("Mirrors projectElection() exactly").    *)
SqlMirrorsTheFold ==
    /\ Known = DOMAIN Whole.slots
    /\ \A r \in Known : Whole.slots[r].who = Current(r).who /\ Whole.slots[r].geo = Current(r).geo

(* What the row limit cannot break: however short the response and whoever  *)
(* asks, a holder the screen names is the slot's holder now, never a former *)
(* one.  (A slot whose assignments fell off the end may look vacant.)       *)
NamedHolderIsCurrent ==
    \A u \in active : \A d \in Narrowing(u) :
        LET v == Project(Response(Readable(d)))
        IN  \A r \in DOMAIN v.slots : v.slots[r].who # Nobody => v.slots[r].who = Current(r).who

\* The geography of d fits the responses it is read by.
GeographyFits(d) ==
    \A level \in {"ward", "polling_unit"} :
        Cardinality({t \in Refs(d) \ {d} : Level[t] = level}) <= RefCap

(* The database and the screen decide the same, each on its own fold, once  *)
(* the scope of the view that is shown is resolved: whom the policy narrows *)
(* the screen narrows, to a scope within the policy's own, whatever its     *)
(* reads of the geography lose; of a member with one scoped slot it keeps   *)
(* that slot's holder, and hides nobody who was read, if no query failed or *)
(* was cut short. A member the policy does not narrow sees everyone; said   *)
(* of members other than leaders, whom the screen narrows although the      *)
(* policy does not.                                                         *)
ScreenAgreesWithPolicy ==
    \A u \in active \ Leader : \A d \in Narrowing(u) :
        Cardinality(Readable(d)) <= RowCap =>
            LET rows == Response(Readable(d))
                v    == Project(rows)
            IN  \A scope \in EffectiveScope(v, rows, u) :
                    LET people == Shown(v, rows, scope.refs) IN
                    IF d = NoSlot THEN people = v.people
                    ELSE /\ scope.refs \subseteq Refs(d)
                         /\ ScopedSlots(u) = {d} =>
                                /\ v.people \cap {u} \subseteq people
                                /\ ~scope.error /\ GeographyFits(d) =>
                                        scope.refs = Refs(d) /\ people = v.people
=============================================================================
