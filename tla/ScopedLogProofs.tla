--------------------------- MODULE ScopedLogProofs ---------------------------
(***************************************************************************)
(* Theorems about the two folds of the log, for every roster, every tree   *)
(* of geographies, every row limit and any length of the log.              *)
(*                                                                         *)
(* The client's fold is a recursive function of the rows: what it makes of *)
(* a prefix (Tells) is shown by going through the log (Upto), and so is    *)
(* that two sets of rows which hold the same rows of a responsibility make *)
(* the same of it.  What carries the properties is that the writes of a    *)
(* slot share one responsibility and the writes of a responsibility share  *)
(* one slot, so the policy hides all of them or none.                      *)
(***************************************************************************)
EXTENDS ScopedLog, FiniteSetTheorems, WellFoundedInduction, TLAPS

WritesAgree == \A n, k \in Writes : log[n].geo = log[k].geo <=> log[n].resp = log[k].resp

RespOfItsTime == \A n \in Writes : log[n].resp <= n

StatusOfAWrite ==
    \A n \in Numbers : log[n].kind = "status" => \E k \in Writes : log[k].resp = log[n].resp

LogInv == TypeOK /\ WritesAgree /\ RespOfItsTime /\ StatusOfAWrite

SlotKind == {"assigned", "reassigned", "status"}

LEMMA Rowed ==
  ASSUME TypeOK
  PROVE  /\ Len(log) \in Nat /\ Numbers = 1 .. Len(log)
         /\ Writes = {n \in 1 .. Len(log) : log[n].kind \in {"assigned", "reassigned"}}
         /\ \A n \in Numbers :
              /\ log[n].kind \in SlotKind \cup {"territory", "person"}
              /\ log[n].kind \in {"assigned", "reassigned"} =>
                   log[n].geo \in Slot /\ log[n].resp \in Resp /\ log[n].who \in Holder
              /\ log[n].kind \notin {"assigned", "reassigned"} => log[n].geo = NoSlot
              /\ log[n].kind = "person" => log[n].who \in Person
              /\ log[n].kind = "status" => log[n].resp \in Resp
<1>1. Len(log) \in Nat /\ Numbers = 1 .. Len(log)
  BY DEF TypeOK, Numbers
<1>2. \A n \in Numbers : log[n] \in Event
  BY DEF TypeOK, Numbers
<1> QED
  BY <1>1, <1>2 DEF Event, SlotKind, Writes

-----------------------------------------------------------------------------
(***************************************************************************)
(* The log                                                                 *)
(***************************************************************************)
LEMMA Recorded ==
  ASSUME TypeOK, NEW e \in Event, Record(e)
  PROVE  /\ TypeOK'
         /\ Len(log)' = Len(log) + 1 /\ log'[Len(log) + 1] = e
         /\ \A n \in Numbers : log'[n] = log[n]
         /\ Numbers' = Numbers \cup {Len(log) + 1} /\ Len(log) + 1 \notin Numbers
         /\ Writes' = Writes \cup (IF e.kind \in {"assigned", "reassigned"} THEN {Len(log) + 1} ELSE {})
<1>1. log' = Append(log, e) /\ active' = active /\ Len(log) < MaxEvent
  BY DEF Record
<1>2. /\ Len(log) \in Nat /\ Numbers = 1 .. Len(log) /\ log \in Seq(Event)
      /\ active \subseteq Member /\ MaxEvent \in Nat
  BY Rowed, LimitAssumption DEF TypeOK
<1>3. /\ log' \in Seq(Event) /\ Len(log') = Len(log) + 1 /\ log'[Len(log) + 1] = e
      /\ \A n \in 1 .. Len(log) : log'[n] = log[n]
  BY <1>1, <1>2
<1>4. DOMAIN log' = 1 .. Len(log) + 1
  BY <1>3
<1>5. Numbers' = Numbers \cup {Len(log) + 1} /\ Len(log) + 1 \notin Numbers
  BY <1>2, <1>4 DEF Numbers
<1>6. TypeOK'
  BY <1>1, <1>2, <1>3 DEF TypeOK
<1>7. Writes' = Writes \cup (IF e.kind \in {"assigned", "reassigned"} THEN {Len(log) + 1} ELSE {})
  BY <1>2, <1>3, <1>5 DEF Writes
<1> QED
  BY <1>2, <1>3, <1>5, <1>6, <1>7

LEMMA NewestIs ==
  ASSUME NEW L \in Nat, NEW S \in SUBSET (0 .. L), S # {}
  PROVE  Newest(S) \in S /\ \A k \in S : k <= Newest(S)
<1> DEFINE Ages == {L - k : k \in S}
<1>1. Ages \subseteq Nat /\ Ages # {}
  <2>1. \A k \in S : k \in 0 .. L /\ L - k \in Nat
    OBVIOUS
  <2>2. PICK k \in S : TRUE
    OBVIOUS
  <2>3. L - k \in Ages
    OBVIOUS
  <2> QED
    BY <2>1, <2>3
<1>2. PICK m \in Ages : \A n \in Ages : ~(<<n, m>> \in OpToRel(<, Nat))
  <2> HIDE DEF Ages
  <2> QED
    BY <1>1, NatLessThanWellFounded, WFMin
<1>3. \A n \in Ages : ~(n < m)
  BY <1>1, <1>2 DEF OpToRel
<1>4. PICK k \in S : m = L - k
  OBVIOUS
<1>5. ASSUME NEW j \in S PROVE j <= k
  <2>1. ~(L - j < L - k)
    BY <1>3, <1>4
  <2> QED
    BY <2>1
<1> QED
  BY <1>5 DEF Newest

LEMMA InitLog == Init => LogInv
  BY LimitAssumption DEF Init, LogInv, TypeOK, WritesAgree, RespOfItsTime, StatusOfAWrite, Writes, Numbers

LEMMA NextLog == LogInv /\ [Next]_vars => LogInv'
<1> SUFFICES ASSUME LogInv, [Next]_vars PROVE LogInv'
  OBVIOUS
<1>0. TypeOK /\ WritesAgree /\ RespOfItsTime /\ StatusOfAWrite
  BY DEF LogInv
<1>1. /\ Len(log) \in Nat /\ Numbers = 1 .. Len(log) /\ MaxEvent \in Nat
      /\ \A n \in Writes : n \in Numbers /\ log[n].geo \in Slot /\ log[n].resp \in Resp
      /\ Numbers \subseteq Nat
  BY <1>0, Rowed, LimitAssumption DEF Writes
<1>2. ASSUME NEW e \in Event, Record(e), e.kind \in {"territory", "person"} PROVE LogInv'
  BY <1>0, <1>2, Recorded DEF LogInv, WritesAgree, RespOfItsTime, StatusOfAWrite, Writes
<1>3. ASSUME NEW p \in Person, AddPerson(p) PROVE LogInv'
  <2>1. [kind |-> "person", geo |-> NoSlot, who |-> p] \in Event
    BY DEF Event
  <2> QED
    BY <1>2, <1>3, <2>1 DEF AddPerson
<1>4. CASE SetTerritory
  <2>1. [kind |-> "territory", geo |-> NoSlot] \in Event
    BY DEF Event
  <2> QED
    BY <1>2, <1>4, <2>1 DEF SetTerritory
<1>5. ASSUME NEW s \in Slot, NEW p \in Holder, Assign(s, p) PROVE LogInv'
  <2> DEFINE e == [kind |-> "assigned", geo |-> s, resp |-> Len(log) + 1, who |-> p]
  <2>1. e \in Event /\ Record(e)
    BY <1>1, <1>5 DEF Assign, Record, Event, Resp, Holder
  <2>2. e.kind = "assigned" /\ e.geo = s /\ e.resp = Len(log) + 1
    OBVIOUS
  <2>3. \A n \in Writes : log[n].geo # s /\ log[n].resp <= n
    BY <1>0, <1>5 DEF Assign, WritesOf, RespOfItsTime
  <2> HIDE DEF e
  <2>4. /\ Writes' = Writes \cup {Len(log) + 1} /\ log'[Len(log) + 1] = e /\ TypeOK'
        /\ \A n \in Numbers : log'[n] = log[n]
        /\ Numbers' = Numbers \cup {Len(log) + 1}
    BY <1>0, <1>1, <2>1, <2>2, Recorded
  <2>5. \A n \in Writes : log[n].resp # Len(log) + 1 /\ log[n].resp <= n
    BY <1>1, <2>3, LimitAssumption DEF Resp
  <2>6. RespOfItsTime'
    BY <1>1, <2>2, <2>4, <2>5 DEF RespOfItsTime
  <2>7. WritesAgree'
    BY <1>0, <1>1, <2>2, <2>3, <2>4, <2>5 DEF WritesAgree
  <2>8. StatusOfAWrite'
    BY <1>0, <1>1, <2>2, <2>4 DEF StatusOfAWrite
  <2> QED
    BY <2>4, <2>6, <2>7, <2>8 DEF LogInv
<1>6. ASSUME NEW s \in Slot, NEW to \in Holder, Reassign(s, to) PROVE LogInv'
  <2>1. WritesOf(s) # {} /\ WritesOf(s) \in SUBSET (0 .. Len(log))
    BY <1>1, <1>6 DEF Reassign, WritesOf
  <2>2. PICK m : m = Newest(WritesOf(s)) /\ m \in WritesOf(s)
    BY <1>1, <2>1, NewestIs
  <2>a. m \in Writes /\ log[m].geo = s
    BY <2>2 DEF WritesOf
  <2> DEFINE e == [kind |-> "reassigned", geo |-> s, resp |-> log[m].resp, who |-> to]
  <2>3. e \in Event /\ Record(e)
    BY <1>1, <1>6, <2>2, <2>a DEF Reassign, Event
  <2>4. e.kind = "reassigned" /\ e.geo = s /\ e.resp = log[m].resp
    OBVIOUS
  <2> HIDE DEF e
  <2>5. log[m].resp <= Len(log) + 1 /\ log[m].resp \in Nat
    BY <1>0, <1>1, <2>a, LimitAssumption DEF RespOfItsTime, Resp
  <2>b. /\ Writes' = Writes \cup {Len(log) + 1} /\ log'[Len(log) + 1] = e
        /\ \A n \in Writes : log'[n] = log[n]
    BY <1>0, <1>1, <2>3, <2>4, Recorded
  <2>6. RespOfItsTime'
    BY <1>0, <1>1, <2>b, <2>4, <2>5 DEF RespOfItsTime
  <2>7. WritesAgree'
    BY <1>0, <1>1, <2>a, <2>b, <2>4 DEF WritesAgree
  <2> QED
    BY <1>0, <1>1, <2>3, <2>4, <2>6, <2>7, Recorded DEF LogInv, StatusOfAWrite
<1>7. ASSUME NEW r \in Resp, ChangeStatus(r) PROVE LogInv'
  <2> DEFINE e == [kind |-> "status", geo |-> NoSlot, resp |-> r]
  <2>1. e \in Event /\ Record(e)
    BY <1>7 DEF ChangeStatus, Event
  <2>2. e.kind = "status" /\ e.resp = r
    OBVIOUS
  <2>3. PICK w \in Writes : log[w].resp = r
    BY <1>7 DEF ChangeStatus
  <2> HIDE DEF e
  <2>4. /\ Writes' = Writes /\ log'[Len(log) + 1] = e /\ TypeOK'
        /\ \A n \in Numbers : log'[n] = log[n]
        /\ Numbers' = Numbers \cup {Len(log) + 1}
    BY <1>0, <1>1, <2>1, <2>2, Recorded
  <2>5. \A n \in Writes : log'[n] = log[n]
    BY <1>1, <2>4
  <2>6. WritesAgree' /\ RespOfItsTime'
    BY <1>0, <2>4, <2>5 DEF WritesAgree, RespOfItsTime
  <2>7. StatusOfAWrite'
    BY <1>0, <2>2, <2>3, <2>4, <2>5 DEF StatusOfAWrite
  <2> QED
    BY <2>4, <2>6, <2>7 DEF LogInv
<1>8. ASSUME NEW u \in Member, Revoke(u) PROVE LogInv'
  BY <1>0, <1>8 DEF Revoke, LogInv, TypeOK, WritesAgree, RespOfItsTime, StatusOfAWrite, Writes, Numbers
<1>9. CASE UNCHANGED vars
  BY <1>0, <1>9 DEF vars, LogInv, TypeOK, WritesAgree, RespOfItsTime, StatusOfAWrite, Writes, Numbers
<1> QED
  BY <1>3, <1>4, <1>5, <1>6, <1>7, <1>8, <1>9 DEF Next

LEMMA Logged == Spec => []LogInv
  BY InitLog, NextLog, PTL DEF Spec

-----------------------------------------------------------------------------
(***************************************************************************)
(* What the client's fold makes of a prefix of the log                     *)
(***************************************************************************)
LEMMA Upto ==
  ASSUME NEW L \in Nat, NEW S, 0 \in S, \A n \in 1 .. L : n - 1 \in S => n \in S
  PROVE  \A n \in 0 .. L : n \in S
<1> DEFINE Missed == {n \in 0 .. L : n \notin S}
<1> SUFFICES ASSUME Missed # {} PROVE FALSE
  OBVIOUS
<1>1. Missed \subseteq Nat
  OBVIOUS
<1>2. PICK m \in Missed : \A n \in Missed : ~(<<n, m>> \in OpToRel(<, Nat))
  <2> HIDE DEF Missed
  <2> QED
    BY <1>1, NatLessThanWellFounded, WFMin
<1>3. \A n \in Missed : ~(n < m)
  BY <1>1, <1>2 DEF OpToRel
<1>4. m \in 1 .. L
  OBVIOUS
<1>5. m - 1 \notin Missed
  BY <1>3, <1>4
<1> QED
  BY <1>4, <1>5

Taken(f, ns, n) == IF n \in ns THEN Step(f[n - 1], n) ELSE f[n - 1]
FoldTo(f, ns, m) == f = [n \in 0 .. m |-> IF n = 0 THEN NoView ELSE Taken(f, ns, n)]
FoldOf(ns) == CHOOSE f : FoldTo(f, ns, Len(log))

LEMMA Folds ==
  ASSUME NEW L \in Nat, NEW ns
  PROVE  \E f : FoldTo(f, ns, L)
<1> DEFINE S == {m \in 0 .. L : \E f : FoldTo(f, ns, m)}
<1>1. 0 \in S
  <2> DEFINE f == [n \in 0 .. 0 |-> NoView]
  <2>1. FoldTo(f, ns, 0)
    BY DEF FoldTo
  <2> QED
    BY <2>1
<1>2. ASSUME NEW m \in 1 .. L, m - 1 \in S PROVE m \in S
  <2>1. PICK f : FoldTo(f, ns, m - 1)
    BY <1>2
  <2> DEFINE g == [n \in 0 .. m |-> IF n = m THEN Taken(f, ns, m) ELSE f[n]]
  <2>2. \A n \in 0 .. m - 1 : g[n] = f[n]
    OBVIOUS
  <2>3. \A n \in 1 .. m : Taken(g, ns, n) = Taken(f, ns, n)
    BY <2>2 DEF Taken
  <2>4. \A n \in 0 .. m - 1 : f[n] = IF n = 0 THEN NoView ELSE Taken(f, ns, n)
    BY <2>1 DEF FoldTo
  <2>5. \A n \in 0 .. m : g[n] = IF n = 0 THEN NoView ELSE Taken(g, ns, n)
    BY <2>2, <2>3, <2>4
  <2>6. g = [n \in 0 .. m |-> g[n]]
    OBVIOUS
  <2> HIDE DEF g
  <2>7. FoldTo(g, ns, m)
    BY <2>5, <2>6 DEF FoldTo
  <2> QED
    BY <2>7
<1>3. L \in S
  <2> HIDE DEF S
  <2> QED
    BY <1>1, <1>2, Upto
<1> QED
  BY <1>3

LEMMA Projected ==
  ASSUME TypeOK, NEW ns
  PROVE  /\ Project(ns) = FoldOf(ns)[Len(log)]
         /\ FoldOf(ns)[0] = NoView
         /\ \A n \in 1 .. Len(log) : FoldOf(ns)[n] = Taken(FoldOf(ns), ns, n)
<1>1. Len(log) \in Nat
  BY Rowed
<1>2. FoldTo(FoldOf(ns), ns, Len(log))
  BY <1>1, Folds DEF FoldOf
<1>3. Project(ns) = FoldOf(ns)[Len(log)]
  BY DEF Project, FoldOf, FoldTo, Taken
<1> QED
  BY <1>1, <1>2, <1>3 DEF FoldTo

(* A view, and an entry of its slots.                                       *)
Entries(b) == b = [who |-> b.who, geo |-> b.geo, status |-> b.status, history |-> b.history]
Formed(v) ==
    /\ v = [territory |-> v.territory, people |-> v.people, slots |-> v.slots]
    /\ \A r \in DOMAIN v.slots : Entries(v.slots[r])

\* What an event of a responsibility makes of its entry.
Entry(b, n) ==
    IF log[n].kind = "status"
    THEN [who |-> b.who, geo |-> b.geo, status |-> n, history |-> Append(b.history, n)]
    ELSE [who |-> log[n].who, geo |-> log[n].geo, status |-> b.status,
          history |-> IF log[n].kind = "assigned" THEN b.history ELSE Append(b.history, n)]

LEMMA Stepped ==
  ASSUME TypeOK, NEW n \in Numbers, NEW v, Formed(v)
  PROVE  /\ Formed(Step(v, n))
         /\ Step(v, n).territory = (IF log[n].kind = "territory" THEN n ELSE v.territory)
         /\ Step(v, n).people = (IF log[n].kind = "person" THEN v.people \cup {log[n].who} ELSE v.people)
         /\ log[n].kind \notin SlotKind => Step(v, n).slots = v.slots
         /\ log[n].kind \in SlotKind =>
              /\ DOMAIN Step(v, n).slots = DOMAIN v.slots \cup {log[n].resp}
              /\ Step(v, n).slots[log[n].resp] = Entry(Before(v, log[n].resp), n)
              /\ \A r \in DOMAIN v.slots : r # log[n].resp => Step(v, n).slots[r] = v.slots[r]
<1>1. log[n].kind \in SlotKind \cup {"territory", "person"}
  BY Rowed
<1>2. v = [territory |-> v.territory, people |-> v.people, slots |-> v.slots]
  BY DEF Formed
<1>3. CASE log[n].kind = "territory"
  <2>1. Step(v, n) = [v EXCEPT !.territory = n]
    BY <1>3 DEF Step
  <2>2. Step(v, n) = [territory |-> n, people |-> v.people, slots |-> v.slots]
    BY <1>2, <2>1
  <2> QED
    BY <1>3, <2>2 DEF Formed, SlotKind
<1>4. CASE log[n].kind = "person"
  <2>1. Step(v, n) = [v EXCEPT !.people = @ \cup {log[n].who}]
    BY <1>4 DEF Step
  <2>2. Step(v, n) = [territory |-> v.territory, people |-> v.people \cup {log[n].who}, slots |-> v.slots]
    BY <1>2, <2>1
  <2> QED
    BY <1>4, <2>2 DEF Formed, SlotKind
<1>5. CASE log[n].kind \in SlotKind
  <2> DEFINE r == log[n].resp
             b == Before(v, r)
             s == [k \in DOMAIN v.slots \cup {r} |-> IF k = r THEN Entry(b, n) ELSE v.slots[k]]
  <2>1. Entries(b)
    BY DEF Before, Default, Formed, Entries
  <2>a. b = [who |-> b.who, geo |-> b.geo, status |-> b.status, history |-> b.history]
    BY <2>1 DEF Entries
  <2>2. Step(v, n) = Put(v, r, Entry(b, n))
    <3>1. CASE log[n].kind = "assigned"
      <4> DEFINE q == [b EXCEPT !.who = log[n].who, !.geo = log[n].geo]
      <4>1. Step(v, n) = Put(v, r, q)
        BY <3>1 DEF Step
      <4>2. q = [b EXCEPT !.who = log[n].who, !.geo = log[n].geo]
        OBVIOUS
      <4> HIDE DEF q, b
      <4>3. q = [who |-> log[n].who, geo |-> log[n].geo, status |-> b.status, history |-> b.history]
        BY <2>a, <4>2
      <4>4. q = Entry(b, n)
        BY <3>1, <4>3 DEF Entry
      <4> QED
        BY <4>1, <4>4
    <3>2. CASE log[n].kind = "status"
      <4> DEFINE q == [b EXCEPT !.status = n, !.history = Append(@, n)]
      <4>1. Step(v, n) = Put(v, r, q)
        BY <3>2 DEF Step
      <4>2. q = [b EXCEPT !.status = n, !.history = Append(@, n)]
        OBVIOUS
      <4> HIDE DEF q, b
      <4>3. q = [who |-> b.who, geo |-> b.geo, status |-> n, history |-> Append(b.history, n)]
        BY <2>a, <4>2
      <4>4. q = Entry(b, n)
        BY <3>2, <4>3 DEF Entry
      <4> QED
        BY <4>1, <4>4
    <3>3. CASE log[n].kind = "reassigned"
      <4> DEFINE q == [b EXCEPT !.who = log[n].who, !.geo = log[n].geo, !.history = Append(@, n)]
      <4>1. Step(v, n) = Put(v, r, q)
        BY <3>3 DEF Step
      <4>2. q = [b EXCEPT !.who = log[n].who, !.geo = log[n].geo, !.history = Append(@, n)]
        OBVIOUS
      <4> HIDE DEF q, b
      <4>3. q = [who |-> log[n].who, geo |-> log[n].geo, status |-> b.status,
               history |-> Append(b.history, n)]
        BY <2>a, <4>2
      <4>4. q = Entry(b, n)
        BY <3>3, <4>3 DEF Entry
      <4> QED
        BY <4>1, <4>4
    <3> QED
      BY <1>5, <3>1, <3>2, <3>3 DEF SlotKind
  <2>3. Step(v, n) = [v EXCEPT !.slots = s]
    BY <2>2 DEF Put
  <2> HIDE DEF s
  <2>4. Step(v, n) = [territory |-> v.territory, people |-> v.people, slots |-> s]
    BY <1>2, <2>3
  <2>5. Entries(Entry(b, n))
    BY DEF Entries, Entry
  <2>6. \A k \in DOMAIN s : Entries(s[k])
    BY <2>5 DEF Formed, s
  <2>7. Formed(Step(v, n))
    BY <2>4, <2>6 DEF Formed
  <2> QED
    BY <1>5, <2>4, <2>7 DEF SlotKind, s
<1> QED
  BY <1>1, <1>3, <1>4, <1>5

\* Which of the rows ns up to n speak of a responsibility, and which write it.
About(ns, n, r) == {k \in ns : k <= n /\ log[k].kind \in SlotKind /\ log[k].resp = r}
Writing(ns, n, r) == {k \in ns : k <= n /\ k \in Writes /\ log[k].resp = r}

Tells(v, ns, n) ==
    /\ Formed(v)
    /\ v.people = {log[k].who : k \in {k \in ns : k <= n /\ log[k].kind = "person"}}
    /\ \A r : r \in DOMAIN v.slots <=> About(ns, n, r) # {}
    /\ \A r \in DOMAIN v.slots :
         /\ Writing(ns, n, r) = {} => v.slots[r].who = Nobody
         /\ \A k \in Writing(ns, n, r) :
              (\A j \in Writing(ns, n, r) : j <= k)
                => v.slots[r].who = log[k].who /\ v.slots[r].geo = log[k].geo

LEMMA Told ==
  ASSUME TypeOK, NEW ns, ns \subseteq Numbers
  PROVE  Tells(Project(ns), ns, Len(log))
<1> DEFINE f == FoldOf(ns)
           L == Len(log)
           S == {n \in 0 .. L : Tells(f[n], ns, n)}
<1>1. /\ L \in Nat /\ Numbers = 1 .. L
      /\ Project(ns) = f[L] /\ f[0] = NoView
      /\ \A n \in 1 .. L : f[n] = IF n \in ns THEN Step(f[n - 1], n) ELSE f[n - 1]
  BY Rowed, Projected DEF Taken
<1>2. Writes \subseteq Numbers /\ \A k \in Writes : log[k].kind \in {"assigned", "reassigned"}
  BY DEF Writes
<1> HIDE DEF f, L
<1>3. 0 \in S
  <2>1. Formed(NoView) /\ NoView.people = {} /\ DOMAIN NoView.slots = {}
    BY DEF Formed, NoView
  <2>2. \A k \in ns : ~(k <= 0)
    BY <1>1
  <2>3. \A r : About(ns, 0, r) = {}
    BY <2>2 DEF About
  <2> QED
    BY <1>1, <2>1, <2>2, <2>3 DEF Tells
<1>4. ASSUME NEW n \in 1 .. L, n - 1 \in S PROVE n \in S
  <2> DEFINE v == f[n - 1]
             w == f[n]
  <2>1. Tells(v, ns, n - 1)
    BY <1>4
  <2>2. CASE n \notin ns
    <3>1. w = v
      BY <1>1, <2>2
    <3>2. \A k \in ns : k <= n <=> k <= n - 1
      BY <1>1, <2>2
    <3>3. \A r : About(ns, n, r) = About(ns, n - 1, r) /\ Writing(ns, n, r) = Writing(ns, n - 1, r)
      BY <3>2 DEF About, Writing
    <3>4. {k \in ns : k <= n /\ log[k].kind = "person"}
            = {k \in ns : k <= n - 1 /\ log[k].kind = "person"}
      BY <3>2
    <3>5. Tells(w, ns, n)
      BY <2>1, <3>1, <3>3, <3>4 DEF Tells
    <3> QED
      BY <3>5
  <2>3. CASE n \in ns
    <3>1. w = Step(v, n)
      BY <1>1, <2>3
    <3>2. \A k \in ns : k <= n <=> k <= n - 1 \/ k = n
      BY <1>1, <2>3
    <3> HIDE DEF v, w
    <3>3. Formed(v) /\ n \in Numbers
      BY <1>1, <2>1 DEF Tells
    <3>4. /\ Formed(w)
          /\ w.people = (IF log[n].kind = "person" THEN v.people \cup {log[n].who} ELSE v.people)
          /\ log[n].kind \notin SlotKind => w.slots = v.slots
          /\ log[n].kind \in SlotKind =>
              /\ DOMAIN w.slots = DOMAIN v.slots \cup {log[n].resp}
              /\ w.slots[log[n].resp] = Entry(Before(v, log[n].resp), n)
              /\ \A r \in DOMAIN v.slots : r # log[n].resp => w.slots[r] = v.slots[r]
      BY <3>1, <3>3, Stepped
    <3>5. w.people = {log[k].who : k \in {k \in ns : k <= n /\ log[k].kind = "person"}}
      BY <2>1, <2>3, <3>2, <3>4 DEF Tells
    <3>6. \A r : r \in DOMAIN w.slots <=> About(ns, n, r) # {}
      <4>1. \A r : About(ns, n, r) = About(ns, n - 1, r) \cup
                     (IF log[n].kind \in SlotKind /\ log[n].resp = r THEN {n} ELSE {})
        BY <2>3, <3>2 DEF About
      <4>2. \A r : r \in DOMAIN v.slots <=> About(ns, n - 1, r) # {}
        BY <2>1 DEF Tells
      <4> QED
        BY <3>4, <4>1, <4>2
    <3>7. ASSUME NEW r \in DOMAIN w.slots
          PROVE  /\ Writing(ns, n, r) = {} => w.slots[r].who = Nobody
                 /\ \A k \in Writing(ns, n, r) :
                      (\A j \in Writing(ns, n, r) : j <= k)
                        => w.slots[r].who = log[k].who /\ w.slots[r].geo = log[k].geo
      <4>1. CASE n \in Writes /\ log[n].resp = r
        <5>1. n \in Writing(ns, n, r)
          BY <1>1, <2>3, <4>1 DEF Writing
        <5>2. w.slots[r].who = log[n].who /\ w.slots[r].geo = log[n].geo
          BY <1>2, <3>4, <4>1 DEF Entry, SlotKind
        <5>3. \A k \in Writing(ns, n, r) : (\A j \in Writing(ns, n, r) : j <= k) => k = n
          <6>0. \A k \in ns : k \in Int
            BY <1>1
          <6>1. \A k \in Writing(ns, n, r) : k \in Int /\ k <= n
            BY <6>0 DEF Writing
          <6>2. n \in Int
            BY <1>1
          <6> QED
            BY <5>1, <6>1, <6>2
        <5> QED
          BY <5>1, <5>2, <5>3
      <4>2. CASE ~(n \in Writes /\ log[n].resp = r)
        <5>1. Writing(ns, n, r) = Writing(ns, n - 1, r)
          BY <2>3, <3>2, <4>2 DEF Writing
        <5>2. CASE r \in DOMAIN v.slots
          <6>1. w.slots[r].who = v.slots[r].who /\ w.slots[r].geo = v.slots[r].geo
            <7>1. CASE log[n].kind = "status" /\ log[n].resp = r
              BY <3>4, <5>2, <7>1 DEF SlotKind, Entry, Before
            <7>2. CASE ~(log[n].kind = "status" /\ log[n].resp = r)
              BY <3>3, <3>4, <4>2, <5>2, <7>2 DEF SlotKind, Writes
            <7> QED
              BY <7>1, <7>2
          <6> QED
            BY <2>1, <5>1, <5>2, <6>1 DEF Tells
        <5>3. CASE r \notin DOMAIN v.slots
          <6>1. log[n].kind \in SlotKind /\ log[n].resp = r
            BY <3>4, <5>3
          <6>2. log[n].kind = "status"
            BY <3>3, <4>2, <6>1 DEF SlotKind, Writes
          <6>3. w.slots[r].who = Nobody
            BY <3>4, <5>3, <6>1, <6>2 DEF Entry, Before, Default
          <6>4. Writing(ns, n - 1, r) = {}
            BY <1>2, <2>1, <5>3 DEF Tells, About, Writing, SlotKind
          <6> QED
            BY <5>1, <6>3, <6>4
        <5> QED
          BY <5>2, <5>3
      <4> QED
        BY <4>1, <4>2
    <3>8. Tells(w, ns, n)
      BY <3>4, <3>5, <3>6, <3>7 DEF Tells
    <3> QED
      BY <3>8 DEF w
  <2> QED
    BY <2>2, <2>3
<1>5. L \in S
  <2> HIDE DEF S
  <2> QED
    BY <1>1, <1>3, <1>4, Upto
<1> QED
  BY <1>1, <1>5 DEF L

(* Two sets of rows with the same events of a responsibility make the same  *)
(* of it.                                                                   *)
SameEntry(v, w, r) ==
    /\ r \in DOMAIN v.slots <=> r \in DOMAIN w.slots
    /\ r \in DOMAIN v.slots => v.slots[r] = w.slots[r]

LEMMA StepSame ==
  ASSUME TypeOK, NEW n \in Numbers, NEW v, Formed(v), NEW r,
         ~(log[n].kind \in SlotKind /\ log[n].resp = r)
  PROVE  SameEntry(Step(v, n), v, r)
<1>1. CASE log[n].kind \notin SlotKind
  BY <1>1, Stepped DEF SameEntry
<1>2. CASE log[n].kind \in SlotKind
  <2>1. /\ DOMAIN Step(v, n).slots = DOMAIN v.slots \cup {log[n].resp}
        /\ \A k \in DOMAIN v.slots : k # log[n].resp => Step(v, n).slots[k] = v.slots[k]
    BY <1>2, Stepped
  <2> QED
    BY <1>2, <2>1 DEF SameEntry
<1> QED
  BY <1>1, <1>2

LEMMA SameRows ==
  ASSUME TypeOK, NEW ns, ns \subseteq Numbers, NEW ms, ms \subseteq Numbers, NEW r,
         \A k \in Numbers : log[k].kind \in SlotKind /\ log[k].resp = r => (k \in ns <=> k \in ms)
  PROVE  SameEntry(Project(ns), Project(ms), r)
<1> DEFINE f == FoldOf(ns)
           g == FoldOf(ms)
           L == Len(log)
           S == {n \in 0 .. L : Formed(f[n]) /\ Formed(g[n]) /\ SameEntry(f[n], g[n], r)}
<1>1. /\ L \in Nat /\ Numbers = 1 .. L
      /\ Project(ns) = f[L] /\ f[0] = NoView /\ Project(ms) = g[L] /\ g[0] = NoView
      /\ \A n \in 1 .. L : /\ f[n] = IF n \in ns THEN Step(f[n - 1], n) ELSE f[n - 1]
                          /\ g[n] = IF n \in ms THEN Step(g[n - 1], n) ELSE g[n - 1]
  BY Rowed, Projected DEF Taken
<1> HIDE DEF f, g, L
<1>2. 0 \in S
  BY <1>1 DEF Formed, NoView, SameEntry
<1>3. ASSUME NEW n \in 1 .. L, n - 1 \in S PROVE n \in S
  <2> DEFINE v == f[n - 1]
             w == g[n - 1]
             x == f[n]
             y == g[n]
  <2>1. Formed(v) /\ Formed(w) /\ SameEntry(v, w, r) /\ n \in Numbers
    BY <1>1, <1>3
  <2>2. x = (IF n \in ns THEN Step(v, n) ELSE v) /\ y = (IF n \in ms THEN Step(w, n) ELSE w)
    BY <1>1
  <2> HIDE DEF v, w, x, y
  <2>3. Formed(x) /\ Formed(y)
    BY <2>1, <2>2, Stepped
  <2>4. ASSUME log[n].kind \in SlotKind /\ log[n].resp = r PROVE SameEntry(x, y, r)
    <3>1. n \in ns <=> n \in ms
      BY <2>1, <2>4
    <3>2. Before(v, r) = Before(w, r)
      BY <2>1 DEF SameEntry, Before
    <3>3. n \in ns => SameEntry(x, y, r)
      <4> SUFFICES ASSUME n \in ns PROVE SameEntry(x, y, r)
        OBVIOUS
      <4>1. x = Step(v, n) /\ y = Step(w, n)
        BY <2>2, <3>1
      <4>2. /\ DOMAIN x.slots = DOMAIN v.slots \cup {r} /\ x.slots[r] = Entry(Before(v, r), n)
            /\ DOMAIN y.slots = DOMAIN w.slots \cup {r} /\ y.slots[r] = Entry(Before(w, r), n)
        BY <2>1, <2>4, <4>1, Stepped
      <4> QED
        BY <3>2, <4>2 DEF SameEntry
    <3> QED
      BY <2>1, <2>2, <3>1, <3>3
  <2>5. ASSUME ~(log[n].kind \in SlotKind /\ log[n].resp = r) PROVE SameEntry(x, y, r)
    <3>1. SameEntry(Step(v, n), v, r) /\ SameEntry(Step(w, n), w, r)
      BY <2>1, <2>5, StepSame
    <3>2. SameEntry(x, v, r) /\ SameEntry(y, w, r)
      BY <2>2, <3>1 DEF SameEntry
    <3> QED
      BY <2>1, <3>2 DEF SameEntry
  <2>6. Formed(x) /\ Formed(y) /\ SameEntry(x, y, r)
    BY <2>3, <2>4, <2>5
  <2> QED
    BY <2>6 DEF x, y
<1>4. L \in S
  <2>1. L \in Nat /\ L \in 0 .. L
    BY <1>1
  <2> HIDE DEF S
  <2>2. \A n \in 0 .. L : n \in S
    BY <1>2, <1>3, <2>1, Upto
  <2> QED
    BY <2>1, <2>2
<1> QED
  BY <1>1, <1>4

LEMMA SameTerritory ==
  ASSUME TypeOK, NEW ns, ns \subseteq Numbers, NEW ms, ms \subseteq Numbers,
         \A k \in Numbers : log[k].kind = "territory" => (k \in ns <=> k \in ms)
  PROVE  Project(ns).territory = Project(ms).territory
<1> DEFINE f == FoldOf(ns)
           g == FoldOf(ms)
           L == Len(log)
           S == {n \in 0 .. L : Formed(f[n]) /\ Formed(g[n]) /\ f[n].territory = g[n].territory}
<1>1. /\ L \in Nat /\ Numbers = 1 .. L
      /\ Project(ns) = f[L] /\ f[0] = NoView /\ Project(ms) = g[L] /\ g[0] = NoView
      /\ \A n \in 1 .. L : /\ f[n] = IF n \in ns THEN Step(f[n - 1], n) ELSE f[n - 1]
                          /\ g[n] = IF n \in ms THEN Step(g[n - 1], n) ELSE g[n - 1]
  BY Rowed, Projected DEF Taken
<1> HIDE DEF f, g, L
<1>2. 0 \in S
  BY <1>1 DEF Formed, NoView
<1>3. ASSUME NEW n \in 1 .. L, n - 1 \in S PROVE n \in S
  <2> DEFINE v == f[n - 1]
             w == g[n - 1]
             x == f[n]
             y == g[n]
  <2>1. Formed(v) /\ Formed(w) /\ v.territory = w.territory /\ n \in Numbers
    BY <1>1, <1>3
  <2>2. x = (IF n \in ns THEN Step(v, n) ELSE v) /\ y = (IF n \in ms THEN Step(w, n) ELSE w)
    BY <1>1
  <2> HIDE DEF v, w, x, y
  <2>3. /\ Formed(Step(v, n)) /\ Formed(Step(w, n))
        /\ Step(v, n).territory = (IF log[n].kind = "territory" THEN n ELSE v.territory)
        /\ Step(w, n).territory = (IF log[n].kind = "territory" THEN n ELSE w.territory)
    BY <2>1, Stepped
  <2>4. log[n].kind = "territory" => (n \in ns <=> n \in ms)
    BY <2>1
  <2>5. Formed(x) /\ Formed(y) /\ x.territory = y.territory
    BY <2>1, <2>2, <2>3, <2>4
  <2> QED
    BY <2>5 DEF x, y
<1>4. L \in S
  <2>1. L \in Nat /\ L \in 0 .. L
    BY <1>1
  <2> HIDE DEF S
  <2>2. \A n \in 0 .. L : n \in S
    BY <1>2, <1>3, <2>1, Upto
  <2> QED
    BY <2>1, <2>2
<1> QED
  BY <1>1, <1>4

-----------------------------------------------------------------------------
(***************************************************************************)
(* The policy                                                              *)
(***************************************************************************)
LEMMA CurrentIs ==
  ASSUME LogInv, NEW r \in Known
  PROVE  \E n \in Writes : /\ Current(r) = log[n] /\ log[n].resp = r
                           /\ \A k \in Writes : log[k].resp = r => k <= n
<1> DEFINE ws == {n \in Writes : log[n].resp = r}
<1>1. ws # {} /\ ws \in SUBSET (0 .. Len(log)) /\ Len(log) \in Nat
  BY Rowed DEF LogInv, Known
<1>2. PICK n : n = Newest(ws) /\ n \in ws /\ \A k \in ws : k <= n
  <2> HIDE DEF ws
  <2> QED
    BY <1>1, NewestIs
<1>3. Current(r) = log[n]
  BY <1>2 DEF Current
<1> QED
  BY <1>2, <1>3

LEMMA CurrentSlot ==
  ASSUME LogInv
  PROVE  /\ \A r \in Known : Current(r).geo \in Slot /\ Current(r).who \in Holder
         /\ \A n \in Writes : log[n].resp \in Known /\ log[n].geo = Current(log[n].resp).geo
         /\ \A n \in Numbers : log[n].kind \in SlotKind => log[n].resp \in Known
<1>1. TypeOK /\ WritesAgree /\ StatusOfAWrite
  BY DEF LogInv
<1>2. \A n \in Writes : /\ n \in Numbers /\ log[n].kind \in {"assigned", "reassigned"}
                        /\ log[n].resp \in Known
  BY DEF Writes, Known
<1>3. \A r \in Known : Current(r).geo \in Slot /\ Current(r).who \in Holder
  BY <1>1, <1>2, CurrentIs, Rowed
<1>4. ASSUME NEW n \in Writes PROVE log[n].geo = Current(log[n].resp).geo
  <2>1. PICK k \in Writes : Current(log[n].resp) = log[k] /\ log[k].resp = log[n].resp
    BY <1>2, CurrentIs
  <2> QED
    BY <1>1, <2>1 DEF WritesAgree
<1>5. ASSUME NEW n \in Numbers, log[n].kind \in SlotKind PROVE log[n].resp \in Known
  BY <1>1, <1>2, <1>5 DEF StatusOfAWrite, SlotKind, Writes
<1> QED
  BY <1>2, <1>3, <1>4, <1>5

LEMMA Mirrors == LogInv => SqlMirrorsTheFold
<1> SUFFICES ASSUME LogInv PROVE SqlMirrorsTheFold
  OBVIOUS
<1>1. Tells(Whole, Numbers, Len(log))
  BY Told DEF LogInv, Whole
<1>2. Len(log) \in Nat /\ Numbers = 1 .. Len(log)
  BY Rowed DEF LogInv
<1>3. \A r : r \in DOMAIN Whole.slots <=> About(Numbers, Len(log), r) # {}
  BY <1>1 DEF Tells
<1>4. ASSUME NEW r \in Known PROVE r \in DOMAIN Whole.slots
  <2>1. PICK n \in Writes : log[n].resp = r
    BY DEF Known
  <2>2. n \in About(Numbers, Len(log), r)
    BY <1>2, <2>1 DEF About, Writes, SlotKind
  <2> QED
    BY <1>3, <2>2
<1>5. ASSUME NEW r \in DOMAIN Whole.slots PROVE r \in Known
  <2>1. PICK n \in About(Numbers, Len(log), r) : TRUE
    BY <1>3
  <2> QED
    BY CurrentSlot DEF About
<1>6. ASSUME NEW r \in Known
      PROVE  Whole.slots[r].who = Current(r).who /\ Whole.slots[r].geo = Current(r).geo
  <2>1. PICK n \in Writes : /\ Current(r) = log[n] /\ log[n].resp = r
                            /\ \A k \in Writes : log[k].resp = r => k <= n
    BY CurrentIs
  <2>2. n \in Writing(Numbers, Len(log), r) /\ \A k \in Writing(Numbers, Len(log), r) : k <= n
    BY <1>2, <2>1 DEF Writing, Writes
  <2> QED
    BY <1>1, <1>4, <2>1, <2>2 DEF Tells
<1> QED
  BY <1>4, <1>5, <1>6 DEF SqlMirrorsTheFold

(* "Mirrors projectElection() exactly": the policy's fold in SQL names for  *)
(* every responsibility the holder and the geography that the client's fold *)
(* of the same log names (current_slots of migration 20260930000000).       *)
THEOREM FoldsAgree == Spec => []SqlMirrorsTheFold
  BY Logged, Mirrors, PTL

LEMMA Scope ==
  /\ \A s \in Slot : Refs(s) \subseteq Slot /\ NoSlot \notin Refs(s) /\ s \in Refs(s)
  /\ \A s \in Slot : \A t \in Refs(s) : t # s => Level[t] \in ScopedLevel
  BY SlotAssumption DEF Refs, ScopedLevel

(* The rows of a narrowed reader: the policy takes every row of a           *)
(* responsibility or none.                                                  *)
InScope(d) == {r \in Known : Current(r).geo \in Refs(d)}

LEMMA ReadableRows ==
  ASSUME LogInv, NEW d \in Slot
  PROVE  /\ Readable(d) \subseteq Numbers
         /\ \A n \in Numbers :
              /\ log[n].kind = "territory" => n \in Readable(d)
              /\ log[n].kind = "person" =>
                   (n \in Readable(d) <=> \E r \in InScope(d) : Current(r).who = log[n].who)
              /\ log[n].kind \in SlotKind => (n \in Readable(d) <=> log[n].resp \in InScope(d))
<1>1. /\ d # NoSlot /\ NoSlot \notin Refs(d)
      /\ Readable(d) = {n \in Numbers : Visible(log[n], d)}
  BY SlotAssumption, Scope DEF Readable
<1>2. \A n \in Numbers :
        log[n].kind \notin {"assigned", "reassigned"} => log[n].geo = NoSlot
  BY Rowed DEF LogInv
<1>3. ASSUME NEW n \in Numbers, log[n].kind = "territory" PROVE n \in Readable(d)
  BY <1>1, <1>2, <1>3 DEF Visible
<1>4. ASSUME NEW n \in Numbers, log[n].kind = "person"
      PROVE  n \in Readable(d) <=> \E r \in InScope(d) : Current(r).who = log[n].who
  <2>1. n \in Readable(d) <=> GeographyOf(log[n].who) \cap Refs(d) # {}
    BY <1>1, <1>2, <1>4 DEF Visible
  <2> QED
    BY <2>1 DEF GeographyOf, InScope
<1>5. ASSUME NEW n \in Numbers, log[n].kind \in SlotKind
      PROVE  n \in Readable(d) <=> log[n].resp \in InScope(d)
  <2>1. CASE log[n].kind = "status"
    <3>1. n \in Readable(d) <=> SlotGeography(log[n].resp) \cap Refs(d) # {}
      BY <1>1, <1>2, <2>1 DEF Visible
    <3> QED
      BY <3>1 DEF SlotGeography, InScope
  <2>2. CASE log[n].kind \in {"assigned", "reassigned"}
    <3>1. n \in Writes
      BY <2>2 DEF Writes
    <3>2. /\ log[n].resp \in Known /\ log[n].geo = Current(log[n].resp).geo
          /\ Current(log[n].resp).geo \in Slot
      BY <3>1, CurrentSlot
    <3>3. n \in Readable(d) <=> log[n].geo \in Refs(d)
      BY <1>1, <2>2, <3>2, SlotAssumption DEF Visible
    <3> QED
      BY <3>2, <3>3 DEF InScope
  <2> QED
    BY <1>5, <2>1, <2>2 DEF SlotKind
<1> QED
  BY <1>1, <1>3, <1>4, <1>5

(* A response that the row limit left whole, and one that it cut.           *)
LEMMA Responses ==
  ASSUME TypeOK, NEW ns, ns \subseteq Numbers
  PROVE  /\ IsFiniteSet(ns) /\ Response(ns) \subseteq ns
         /\ Cardinality(ns) <= RowCap => Response(ns) = ns
         /\ \A n \in Response(ns), k \in ns : n <= k => k \in Response(ns)
<1>1. Numbers = 1 .. Len(log) /\ Len(log) \in Nat
  BY Rowed
<1>2. IsFiniteSet(ns)
  <2>1. IsFiniteSet(1 .. Len(log))
    BY <1>1, FS_Interval
  <2> QED
    BY <1>1, <2>1, FS_Subset
<1>3. \A s \in SUBSET ns : /\ IsFiniteSet(s) /\ Cardinality(s) \in Nat
                          /\ Cardinality(s) <= Cardinality(ns)
  BY <1>2, FS_Subset, FS_CardinalityType
<1>4. ASSUME Cardinality(ns) <= RowCap PROVE Response(ns) = ns
  <2>1. ASSUME NEW n \in ns PROVE n \in Response(ns)
    <3>1. Cardinality({k \in ns : k >= n}) <= RowCap
      <4> DEFINE s == {k \in ns : k >= n}
      <4>1. s \in SUBSET ns
        OBVIOUS
      <4> HIDE DEF s
      <4>2. Cardinality(s) \in Nat /\ Cardinality(s) <= Cardinality(ns) /\ Cardinality(ns) \in Nat
        BY <1>3, <4>1
      <4> QED
        BY <1>4, <4>2, LimitAssumption DEF s
    <3> QED
      BY <3>1 DEF Response
  <2> QED
    BY <2>1 DEF Response
<1>5. ASSUME NEW n \in Response(ns), NEW k \in ns, n <= k PROVE k \in Response(ns)
  <2> DEFINE s == {j \in ns : j >= k}
             t == {j \in ns : j >= n}
  <2>1. \A j \in ns : j \in Nat
    BY <1>1
  <2>2. s \subseteq t /\ t \in SUBSET ns /\ s \in SUBSET ns
    BY <1>5, <2>1 DEF Response
  <2>3. Cardinality(t) <= RowCap
    BY DEF Response
  <2>4. Cardinality(s) <= RowCap
    <3> HIDE DEF s, t
    <3>1. Cardinality(s) <= Cardinality(t) /\ Cardinality(s) \in Nat /\ Cardinality(t) \in Nat
      BY <1>3, <2>2, FS_Subset
    <3> QED
      BY <2>3, <3>1, LimitAssumption
  <2> QED
    BY <2>4 DEF Response
<1> QED
  BY <1>2, <1>4, <1>5 DEF Response

(* What a narrowed reader's fold shows.                                     *)
LEMMA OwnView ==
  ASSUME LogInv, NEW d \in Slot, Cardinality(Readable(d)) <= RowCap
  PROVE  LET v == Project(Response(Readable(d)))
         IN  /\ DOMAIN v.slots = InScope(d)
             /\ \A r \in InScope(d) : /\ v.slots[r] = Whole.slots[r]
                                     /\ v.slots[r].who = Current(r).who
                                     /\ v.slots[r].geo = Current(r).geo
             /\ v.territory = Whole.territory
             /\ v.people = {p \in Whole.people : \E r \in InScope(d) : Current(r).who = p}
             /\ Response(Readable(d)) = Readable(d)
<1> DEFINE ns == Readable(d)
           v == Project(ns)
<1>1. TypeOK /\ ns \subseteq Numbers /\ Response(ns) = ns /\ Len(log) \in Nat /\ Numbers = 1 .. Len(log)
  BY ReadableRows, Responses, Rowed DEF LogInv
<1>2. \A n \in Numbers :
        /\ log[n].kind = "territory" => n \in ns
        /\ log[n].kind = "person" => (n \in ns <=> \E r \in InScope(d) : Current(r).who = log[n].who)
        /\ log[n].kind \in SlotKind => (n \in ns <=> log[n].resp \in InScope(d))
  BY ReadableRows
<1> HIDE DEF ns
<1>3. Tells(v, ns, Len(log)) /\ Tells(Whole, Numbers, Len(log))
  BY <1>1, Told DEF Whole
<1>4. \A r \in Known : /\ r \in DOMAIN Whole.slots /\ Whole.slots[r].who = Current(r).who
                       /\ Whole.slots[r].geo = Current(r).geo
  BY Mirrors DEF SqlMirrorsTheFold
<1>5. ASSUME NEW r \in InScope(d) PROVE r \in DOMAIN v.slots /\ v.slots[r] = Whole.slots[r]
  <2>1. \A k \in Numbers : log[k].kind \in SlotKind /\ log[k].resp = r => (k \in ns <=> k \in Numbers)
    BY <1>2
  <2>2. SameEntry(v, Whole, r)
    BY <1>1, <2>1, SameRows DEF Whole
  <2> QED
    BY <1>4, <2>2 DEF SameEntry, InScope
<1>6. ASSUME NEW r \in DOMAIN v.slots PROVE r \in InScope(d)
  <2>1. PICK n \in About(ns, Len(log), r) : TRUE
    BY <1>3 DEF Tells
  <2> QED
    BY <1>1, <1>2, <2>1 DEF About
<1>7. v.territory = Whole.territory
  BY <1>1, <1>2, SameTerritory DEF Whole
<1>8. v.people = {p \in Whole.people : \E r \in InScope(d) : Current(r).who = p}
  <2>1. /\ v.people = {log[k].who : k \in {k \in ns : k <= Len(log) /\ log[k].kind = "person"}}
        /\ Whole.people = {log[k].who : k \in {k \in Numbers : k <= Len(log) /\ log[k].kind = "person"}}
    BY <1>3 DEF Tells
  <2>2. \A k \in Numbers : k <= Len(log)
    BY <1>1
  <2> QED
    BY <1>1, <1>2, <2>1, <2>2
<1>9. \A r \in InScope(d) : r \in Known
  BY DEF InScope
<1> QED
  BY <1>1, <1>4, <1>5, <1>6, <1>7, <1>8, <1>9 DEF ns

LEMMA Narrowed ==
  ASSUME LogInv, NEW u, NEW d \in Narrowing(u)
  PROVE  /\ d # NoSlot => /\ d \in Slot /\ u \notin Leader /\ Level[d] \in ScopedLevel
                          /\ \E r \in Known : Current(r).who = u /\ Current(r).geo = d
         /\ d = NoSlot /\ u \notin Leader => ScopedSlots(u) = {}
<1>1. ScopedSlots(u) \subseteq Slot /\ NoSlot \notin ScopedSlots(u)
  BY CurrentSlot, SlotAssumption DEF ScopedSlots, GeographyOf
<1> QED
  BY <1>1 DEF Narrowing, ScopedSlots, GeographyOf

(* A coordinator reads its own geography whole and nothing of another: the  *)
(* fold of its rows is the campaign's own on every slot in scope, knows no  *)
(* other, has the territory, and its roster is exactly the people who hold  *)
(* a slot in scope (the restrictive policy of migration 20260930000000).    *)
THEOREM OwnGeography == Spec => []OwnGeographyIsWhole
<1>1. ASSUME LogInv, NEW u, NEW d \in Narrowing(u) \ {NoSlot}, Cardinality(Readable(d)) <= RowCap
      PROVE  LET v  == Project(Response(Readable(d)))
                 in == {r \in Known : Current(r).geo \in Refs(d)}
             IN  /\ DOMAIN v.slots = in
                 /\ \A r \in in : v.slots[r] = Whole.slots[r]
                 /\ v.territory = Whole.territory
                 /\ v.people = {p \in Whole.people : \E r \in in : Current(r).who = p}
  <2>1. d \in Slot
    BY <1>1, Narrowed
  <2> QED
    BY <1>1, <2>1, OwnView DEF InScope
<1>2. LogInv => OwnGeographyIsWhole
  BY <1>1 DEF OwnGeographyIsWhole
<1> QED
  BY <1>2, Logged, PTL

(* However short the response and whoever asks, a holder the screen names   *)
(* is the slot's holder now: the rows that a capped response of             *)
(* loadElectionLog lacks are the oldest ones.                               *)
THEOREM NamedHolder == Spec => []NamedHolderIsCurrent
<1>1. ASSUME LogInv, NEW u, NEW d \in Narrowing(u),
             NEW r \in DOMAIN Project(Response(Readable(d))).slots,
             Project(Response(Readable(d))).slots[r].who # Nobody
      PROVE  Project(Response(Readable(d))).slots[r].who = Current(r).who
  <2> DEFINE all == Readable(d)
             ns == Response(all)
             v == Project(ns)
  <2>1. TypeOK /\ Len(log) \in Nat /\ Numbers = 1 .. Len(log)
    BY <1>1, Rowed DEF LogInv
  <2>2. all \subseteq Numbers
    BY DEF Readable
  <2>3. \A n, k \in Writes : log[n].resp = log[k].resp => (n \in all <=> k \in all)
    <3>1. CASE d = NoSlot
      BY <3>1 DEF Readable, Writes
    <3>2. CASE d # NoSlot
      <4>1. d \in Slot
        BY <1>1, <3>2, Narrowed
      <4> QED
        BY <1>1, <4>1, ReadableRows DEF Writes, SlotKind
    <3> QED
      BY <3>1, <3>2
  <2> HIDE DEF all
  <2>4. /\ ns \subseteq all
        /\ \A n \in ns, k \in all : n <= k => k \in ns
    BY <2>1, <2>2, Responses
  <2> HIDE DEF ns
  <2>5. Tells(v, ns, Len(log))
    BY <2>1, <2>2, <2>4, Told
  <2>6. PICK n \in Writing(ns, Len(log), r) : TRUE
    BY <1>1, <2>5 DEF Tells, ns, all
  <2>7. n \in ns /\ n \in Writes /\ log[n].resp = r /\ r \in Known
    BY DEF Writing, Known
  <2>8. PICK m \in Writes : /\ Current(r) = log[m] /\ log[m].resp = r
                            /\ \A k \in Writes : log[k].resp = r => k <= m
    BY <1>1, <2>7, CurrentIs
  <2>9. m \in Writing(ns, Len(log), r)
    BY <2>1, <2>3, <2>4, <2>7, <2>8 DEF Writing, Writes
  <2>10. \A k \in Writing(ns, Len(log), r) : k <= m
    BY <2>8 DEF Writing
  <2>11. v.slots[r].who = log[m].who
    BY <1>1, <2>5, <2>9, <2>10 DEF Tells, ns, all
  <2> QED
    BY <2>8, <2>11 DEF ns, all
<1>2. LogInv => NamedHolderIsCurrent
  BY <1>1 DEF NamedHolderIsCurrent
<1> QED
  BY <1>2, Logged, PTL

(* Whatever the queries lose, a scope keeps its own geography and collects  *)
(* nothing of another; if they lose nothing it is the policy's.             *)
LEMMA Collected ==
  ASSUME NEW refs, NEW wards, NEW o \in WithUnits(refs, wards)
  PROVE  /\ refs \subseteq o.refs /\ o.refs \subseteq refs \cup UnitsOf(wards)
         /\ ~o.error /\ Cardinality(UnitsOf(wards)) <= RefCap => o.refs = refs \cup UnitsOf(wards)
<1>1. \A units \in Answers(UnitsOf(wards)) :
        /\ units \subseteq UnitsOf(wards)
        /\ Cardinality(UnitsOf(wards)) <= RefCap => units = UnitsOf(wards)
  BY DEF Answers
<1>2. wards = {} => UnitsOf(wards) = {}
  BY DEF UnitsOf
<1> QED
  BY <1>1, <1>2 DEF WithUnits

LEMMA ScreenScope ==
  ASSUME NEW d \in Slot, Level[d] \in ScopedLevel
  PROVE  /\ \A s \in Refs(d) : \A o \in ScopeGeographyRefs(s) : s \in o.refs /\ o.refs \subseteq Refs(d)
         /\ \A o \in ScopeGeographyRefs(d) : ~o.error /\ GeographyFits(d) => o.refs = Refs(d)
<1>1. ASSUME NEW o \in ScopeGeographyRefs(d)
      PROVE  /\ d \in o.refs /\ o.refs \subseteq Refs(d)
             /\ ~o.error /\ GeographyFits(d) => o.refs = Refs(d)
  <2>1. CASE Level[d] = "lga"
    <3>1. Refs(d) = {d} \cup WardsOf(d) \cup UnitsOf(WardsOf(d))
      BY <2>1 DEF Refs, WardsOf, UnitsOf
    <3>2. ScopeGeographyRefs(d) = {[refs |-> {d}, error |-> TRUE]}
            \cup UNION {WithUnits({d} \cup wards, wards) : wards \in Answers(WardsOf(d))}
      BY <2>1 DEF ScopeGeographyRefs
    <3>3. CASE o = [refs |-> {d}, error |-> TRUE]
      BY <3>1, <3>3
    <3>4. ASSUME NEW wards \in Answers(WardsOf(d)), o \in WithUnits({d} \cup wards, wards)
          PROVE  /\ d \in o.refs /\ o.refs \subseteq Refs(d)
                 /\ ~o.error /\ GeographyFits(d) => o.refs = Refs(d)
      <4>1. /\ {d} \cup wards \subseteq o.refs /\ o.refs \subseteq ({d} \cup wards) \cup UnitsOf(wards)
            /\ ~o.error /\ Cardinality(UnitsOf(wards)) <= RefCap
                 => o.refs = ({d} \cup wards) \cup UnitsOf(wards)
        BY <3>4, Collected
      <4>2. /\ wards \subseteq WardsOf(d)
            /\ Cardinality(WardsOf(d)) <= RefCap => wards = WardsOf(d)
        BY DEF Answers
      <4>3. UnitsOf(wards) \subseteq UnitsOf(WardsOf(d))
        BY <4>2 DEF UnitsOf
      <4>4. GeographyFits(d) => /\ Cardinality(WardsOf(d)) <= RefCap
                                /\ Cardinality(UnitsOf(WardsOf(d))) <= RefCap
        <5>1. /\ {t \in Refs(d) \ {d} : Level[t] = "ward"} = WardsOf(d)
              /\ {t \in Refs(d) \ {d} : Level[t] = "polling_unit"} = UnitsOf(WardsOf(d))
          BY <2>1, <3>1 DEF WardsOf, UnitsOf
        <5> QED
          BY <5>1 DEF GeographyFits
      <4> QED
        BY <3>1, <4>1, <4>2, <4>3, <4>4
    <3> QED
      BY <3>2, <3>3, <3>4
  <2>2. CASE Level[d] = "ward"
    <3>1. Refs(d) = {d} \cup UnitsOf({d})
      BY <2>2 DEF Refs, UnitsOf
    <3>2. o \in WithUnits({d}, {d})
      BY <2>2 DEF ScopeGeographyRefs
    <3>3. GeographyFits(d) => Cardinality(UnitsOf({d})) <= RefCap
      <4>1. {t \in Refs(d) \ {d} : Level[t] = "polling_unit"} = UnitsOf({d})
        BY <2>2, <3>1 DEF UnitsOf
      <4> QED
        BY <4>1 DEF GeographyFits
    <3>4. /\ {d} \subseteq o.refs /\ o.refs \subseteq {d} \cup UnitsOf({d})
          /\ ~o.error /\ Cardinality(UnitsOf({d})) <= RefCap => o.refs = {d} \cup UnitsOf({d})
      BY <3>2, Collected
    <3> QED
      BY <3>1, <3>3, <3>4
  <2>3. CASE Level[d] = "polling_unit"
    <3>1. Refs(d) = {d} /\ o = [refs |-> {d}, error |-> FALSE]
      BY <2>3 DEF Refs, ScopeGeographyRefs
    <3> QED
      BY <3>1
  <2> QED
    BY <2>1, <2>2, <2>3 DEF ScopedLevel
<1>2. ASSUME NEW s \in Refs(d), s # d, NEW o \in ScopeGeographyRefs(s)
      PROVE  s \in o.refs /\ o.refs \subseteq Refs(d)
  <2>1. s \in Slot /\ Level[s] \in {"ward", "polling_unit"}
    BY <1>2 DEF Refs
  <2>2. CASE Level[s] = "polling_unit"
    <3>1. o = [refs |-> {s}, error |-> FALSE]
      BY <1>2, <2>2 DEF ScopeGeographyRefs
    <3> QED
      BY <3>1
  <2>3. CASE Level[s] = "ward"
    <3>1. Level[d] = "lga" /\ Parent[s] = d
      BY <1>2, <2>3 DEF Refs
    <3>2. UnitsOf({s}) \subseteq Refs(d)
      BY <2>1, <2>3, <3>1 DEF UnitsOf, Refs
    <3>3. o \in WithUnits({s}, {s})
      BY <1>2, <2>3 DEF ScopeGeographyRefs
    <3>4. {s} \subseteq o.refs /\ o.refs \subseteq {s} \cup UnitsOf({s})
      BY <3>3, Collected
    <3> QED
      BY <3>2, <3>4
  <2> QED
    BY <2>1, <2>2, <2>3
<1> QED
  BY <1>1, <1>2

(* A set of numbers that is not empty has a least one.                      *)
LEMMA LeastIs ==
  ASSUME NEW S, S \subseteq Nat, S # {}
  PROVE  \E n \in S : \A i \in S : n <= i
<1>1. PICK n \in S : \A i \in S : ~(<<i, n>> \in OpToRel(<, Nat))
  BY NatLessThanWellFounded, WFMin
<1>2. \A i \in S : i \in Nat /\ n \in Nat /\ ~(i < n)
  BY <1>1 DEF OpToRel
<1> QED
  BY <1>2

(* The fold met one of a person's responsibilities first, and one of them   *)
(* last.                                                                    *)
LEMMA MineFound ==
  ASSUME TypeOK, NEW v, NEW ns, ns \subseteq Numbers, NEW u,
         \A r \in DOMAIN v.slots : About(ns, Len(log), r) # {},
         OfPerson(v, u) # {}
  PROVE  Mine(v, ns, u) # {} /\ LastOf(v, ns, u) # {}
<1> DEFINE own == OfPerson(v, u)
           ages == UNION {Met(ns, r) : r \in own}
           firsts == {n \in ages : \A i \in Met(ns, log[n].resp) : n <= i}
<1>1. Len(log) \in Nat /\ Numbers = 1 .. Len(log)
  BY Rowed
<1>2. \A r \in own : Met(ns, r) # {}
  BY DEF OfPerson, About, Met, SlotKind
<1>3. /\ \A r : Met(ns, r) \subseteq ns /\ \A n \in Met(ns, r) : log[n].resp = r
      /\ \A n \in ns : n \in Nat /\ n \in 0 .. Len(log)
  BY <1>1 DEF Met
<1>4. \A n \in ages : /\ n \in Nat /\ n \in 0 .. Len(log)
                      /\ log[n].resp \in own /\ n \in Met(ns, log[n].resp)
  BY <1>3
<1>5. ages # {}
  BY <1>2
<1>6. Mine(v, ns, u) # {}
  <2>1. PICK n \in ages : \A i \in ages : n <= i
    <3> HIDE DEF ages
    <3> QED
      BY <1>4, <1>5, LeastIs
  <2>2. PICK r \in own : n \in Met(ns, r)
    OBVIOUS
  <2>3. \A k \in own : \A i \in Met(ns, k) : n <= i
    BY <2>1
  <2> QED
    BY <2>2, <2>3 DEF Mine
<1>7. ASSUME NEW k \in own PROVE \E n \in firsts : n \in Met(ns, k) /\ \A i \in Met(ns, k) : n <= i
  <2>1. Met(ns, k) \subseteq Nat
    BY <1>3
  <2>2. PICK n \in Met(ns, k) : \A i \in Met(ns, k) : n <= i
    BY <1>2, <2>1, LeastIs
  <2>3. n \in ages /\ log[n].resp = k
    BY <1>3
  <2> QED
    BY <2>2, <2>3
<1>8. LastOf(v, ns, u) # {}
  <2>1. firsts # {} /\ firsts \in SUBSET (0 .. Len(log))
    <3> HIDE DEF ages
    <3> QED
      BY <1>4, <1>7
  <2>2. PICK n \in firsts : \A i \in firsts : i <= n
    <3> HIDE DEF firsts
    <3> QED
      BY <1>1, <2>1, NewestIs
  <2>3. PICK r : r = log[n].resp
    OBVIOUS
  <2>4. r \in own /\ n \in Met(ns, r) /\ n \in Nat /\ \A i \in Met(ns, r) : n <= i
    BY <1>4, <2>2, <2>3
  <2>5. ASSUME NEW k \in own \ {r}, NEW j \in Met(ns, r) PROVE \E i \in Met(ns, k) : i < j
    <3>1. PICK i \in firsts : i \in Met(ns, k)
      BY <1>7
    <3>2. log[i].resp = k /\ log[n].resp = r
      BY <1>3, <2>4, <3>1
    <3>3. i <= n /\ i # n /\ n <= j /\ i \in Nat /\ j \in Nat
      BY <1>3, <2>2, <2>4, <2>5, <3>1, <3>2
    <3> QED
      BY <2>4, <3>1, <3>3
  <2>6. r \in LastOf(v, ns, u)
    BY <2>4, <2>5 DEF LastOf
  <2> QED
    BY <2>6
<1> QED
  BY <1>6, <1>8

LEMMA ScreenAgrees ==
  ASSUME LogInv, NEW u, u \notin Leader, NEW d \in Narrowing(u), Cardinality(Readable(d)) <= RowCap
  PROVE  LET rows == Response(Readable(d))
             v    == Project(rows)
         IN  \A scope \in EffectiveScope(v, rows, u) :
                 LET people == Shown(v, rows, scope.refs) IN
                 IF d = NoSlot THEN people = v.people
                 ELSE /\ scope.refs \subseteq Refs(d)
                      /\ ScopedSlots(u) = {d} =>
                             /\ v.people \cap {u} \subseteq people
                             /\ ~scope.error /\ GeographyFits(d) =>
                                     scope.refs = Refs(d) /\ people = v.people
<1> DEFINE rows == Response(Readable(d))
           v == Project(rows)
           mine == {v.slots[r].geo : r \in Mine(v, rows, u)}
<1> SUFFICES ASSUME NEW scope \in EffectiveScope(v, rows, u)
             PROVE  LET people == Shown(v, rows, scope.refs) IN
                    IF d = NoSlot THEN people = v.people
                    ELSE /\ scope.refs \subseteq Refs(d)
                         /\ ScopedSlots(u) = {d} =>
                                /\ v.people \cap {u} \subseteq people
                                /\ ~scope.error /\ GeographyFits(d) =>
                                        scope.refs = Refs(d) /\ people = v.people
  OBVIOUS
<1> DEFINE people == Shown(v, rows, scope.refs)
<1>1. TypeOK /\ Readable(d) \subseteq Numbers
  BY DEF LogInv, Readable
<1>2. rows \subseteq Numbers
  BY <1>1, Responses
<1>3. scope \in IF \E s \in mine \cap Slot : Level[s] \in ScopedLevel
                THEN UNION {ScopeGeographyRefs(s) : s \in mine \cap Slot}
                ELSE {[refs |-> CampaignWide, error |-> FALSE]}
  BY DEF EffectiveScope
<1>4. \A r \in Mine(v, rows, u) : r \in DOMAIN v.slots /\ v.slots[r].who = u
  BY DEF Mine, OfPerson
<1>5. ASSUME d = NoSlot PROVE people = v.people
  <2>1. Readable(d) = Numbers /\ ScopedSlots(u) = {}
    BY <1>5, Narrowed DEF Readable
  <2>2. v = Whole
    BY <1>1, <2>1, Responses DEF Whole
  <2>3. \A r \in Mine(v, rows, u) : r \in Known /\ Current(r).who = u /\ v.slots[r].geo = Current(r).geo
    BY <1>4, <2>2, Mirrors DEF SqlMirrorsTheFold
  <2>4. \A s \in mine : Level[s] \notin ScopedLevel
    BY <2>1, <2>3 DEF ScopedSlots, GeographyOf
  <2>5. scope.refs = CampaignWide
    BY <1>3, <2>4
  <2> QED
    BY <2>5 DEF Shown
<1>6. ASSUME d # NoSlot
      PROVE  /\ scope.refs \subseteq Refs(d)
             /\ ScopedSlots(u) = {d} =>
                    /\ v.people \cap {u} \subseteq people
                    /\ ~scope.error /\ GeographyFits(d) =>
                            scope.refs = Refs(d) /\ people = v.people
  <2>1. /\ d \in Slot /\ Level[d] \in ScopedLevel
        /\ \E r \in Known : Current(r).who = u /\ Current(r).geo = d
    BY <1>6, Narrowed
  <2>2. /\ DOMAIN v.slots = InScope(d)
        /\ \A r \in InScope(d) : v.slots[r].who = Current(r).who /\ v.slots[r].geo = Current(r).geo
        /\ v.people = {p \in Whole.people : \E r \in InScope(d) : Current(r).who = p}
    BY <2>1, OwnView
  <2>3. \A r \in DOMAIN v.slots : About(rows, Len(log), r) # {}
    BY <1>1, <1>2, Told DEF Tells
  <2> HIDE DEF rows, v
  <2>4. ASSUME NEW p, OfPerson(v, p) # {}
        PROVE  Mine(v, rows, p) # {} /\ LastOf(v, rows, p) # {}
    BY <1>1, <1>2, <2>3, <2>4, MineFound
  <2>5. OfPerson(v, u) # {}
    BY <2>1, <2>2, Scope DEF InScope, OfPerson
  <2>6. mine # {} /\ mine \subseteq Refs(d) /\ mine \subseteq Slot
    BY <1>4, <2>1, <2>2, <2>4, <2>5, Scope DEF InScope
  <2>7. \A s \in mine : Level[s] \in ScopedLevel
    BY <2>1, <2>6, Scope
  <2>8. PICK s \in mine : scope \in ScopeGeographyRefs(s)
    BY <1>3, <2>6, <2>7
  <2>9. s \in scope.refs /\ scope.refs \subseteq Refs(d)
    BY <2>1, <2>6, <2>8, ScreenScope
  <2>10. scope.refs # CampaignWide
    BY <2>1, <2>9, Scope DEF CampaignWide
  <2>11. people = {p \in v.people : \E r \in LastOf(v, rows, p) : v.slots[r].geo \in scope.refs}
    BY <2>10 DEF Shown
  <2>12. \A p : \A r \in LastOf(v, rows, p) :
           r \in InScope(d) /\ v.slots[r].who = p /\ v.slots[r].geo = Current(r).geo
    BY <2>2 DEF LastOf, OfPerson
  <2>13. ASSUME ScopedSlots(u) = {d} PROVE s = d /\ v.people \cap {u} \subseteq people
    <3>1. \A r \in InScope(d) : Current(r).who = u => Current(r).geo = d
      BY <2>1, <2>13, Scope DEF ScopedSlots, GeographyOf, InScope
    <3>2. s = d
      BY <1>4, <2>2, <2>8, <3>1
    <3>3. PICK r \in LastOf(v, rows, u) : TRUE
      BY <2>4, <2>5
    <3>4. v.slots[r].geo = d
      BY <2>2, <2>12, <3>1, <3>3
    <3> QED
      BY <2>9, <2>11, <3>2, <3>3, <3>4
  <2>14. ASSUME scope.refs = Refs(d) PROVE people = v.people
    <3>1. ASSUME NEW p \in v.people PROVE \E r \in LastOf(v, rows, p) : v.slots[r].geo \in Refs(d)
      <4>1. OfPerson(v, p) # {}
        BY <2>2, <3>1 DEF OfPerson
      <4> QED
        BY <2>4, <2>12, <4>1 DEF InScope
    <3> QED
      BY <2>11, <2>14, <3>1
  <2>15. ASSUME ScopedSlots(u) = {d}, ~scope.error, GeographyFits(d)
         PROVE  scope.refs = Refs(d)
    BY <2>1, <2>8, <2>13, <2>15, ScreenScope
  <2> QED
    BY <2>9, <2>13, <2>14, <2>15
<1> QED
  BY <1>5, <1>6

(* The database and the screen decide the same, each on its own fold, once  *)
(* the scope is resolved: whom the policy narrows the screen narrows, to a  *)
(* scope within the policy's, whatever its reads of the geography lose; of  *)
(* a member with one scoped slot it keeps the holder of that slot, and if   *)
(* they lose nothing it hides nobody who was read; a member the policy does *)
(* not narrow sees everyone (resolveEffectiveScope, getScopeGeographyRefs,  *)
(* scopedPeople).                                                           *)
THEOREM ScreenAndPolicy == Spec => []ScreenAgreesWithPolicy
<1>1. TypeOK => active \subseteq Member
  BY DEF TypeOK
<1>2. LogInv => ScreenAgreesWithPolicy
  BY <1>1, ScreenAgrees DEF ScreenAgreesWithPolicy
<1> QED
  BY <1>2, Logged, PTL

(* The log is a sequence of its events, within its bound, and the active    *)
(* are members.                                                             *)
THEOREM TypeCorrect == Spec => []TypeOK
  BY Logged, PTL DEF LogInv
=============================================================================
