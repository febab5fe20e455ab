--------------------------- MODULE GeographyProofs ---------------------------
(***************************************************************************)
(* Theorems about the crawl and the import, for every tree of places, any  *)
(* number of runs, crashes and failed requests.                            *)
(*                                                                         *)
(* A clean manifest speaks of a complete snapshot.  What carries that      *)
(* proof is that a result without failed requests holds everything below   *)
(* its state (Honest), for the results in memory as for those on disk, and *)
(* that between the two last writes of a crawl the snapshot is what is in  *)
(* memory.                                                                 *)
(*                                                                         *)
(* An import that completes has brought its snapshot into the database,    *)
(* and no place is there twice.  What carries these is what every run      *)
(* knows at each of its steps (RunInv), which the inserts of other runs    *)
(* cannot take away: tables only grow, and a read misses no row that was   *)
(* there when it began.                                                    *)
(***************************************************************************)
EXTENDS GeographyImport, FiniteSetTheorems, SequenceTheorems, WellFoundedInduction, TLAPS

Honest(s, result) ==
    result.failedRequests = 0 =>
        /\ result.lgas = LgasOf[s]
        /\ result.wards = UNION {WardsOf[l] : l \in LgasOf[s]}
        /\ result.pus = UNION {PusOf[w] : w \in UNION {WardsOf[l] : l \in LgasOf[s]}}

HonestStates(states) ==
    /\ DOMAIN states \subseteq States
    /\ \A s \in DOMAIN states : Honest(s, states[s])

ToolFits ==
    /\ tool = [pc |-> tool.pc, mem |-> tool.mem]
    /\ tool.pc \in {"crawl", "manifest"} => HonestStates(tool.mem)
    /\ tool.pc = "manifest" => snapshot = tool.mem /\ DOMAIN tool.mem = States

FileInv ==
    /\ ToolFits
    /\ Readable(checkpoint) => HonestStates(checkpoint)
    /\ CleanMeansComplete

(* A result in which nothing failed has everything below its state.        *)
LEMMA ResultIsHonest ==
    ASSUME NEW s \in States, NEW F \in SUBSET Asked(s, {})
    PROVE  Honest(s, Result(s, F))
<1>1. Asked(s, {}) \subseteq {s} \cup Lgas \cup Wards
  BY DEF Asked, LgasFound, WardsFound, Lgas, Wards
<1>2. IsFiniteSet({s} \cup Lgas \cup Wards)
  BY PlacesAssumption, FS_Singleton, FS_Union
<1>3. IsFiniteSet(F)
  BY <1>1, <1>2, FS_Subset
<1>4. Cardinality(F) = 0 => F = {}
  BY <1>3, FS_EmptySet
<1>5. LgasFound(s, {}) = LgasOf[s]
  BY DEF LgasFound
<1>6. WardsFound(s, {}) = UNION {WardsOf[l] : l \in LgasOf[s]}
  BY <1>5 DEF WardsFound
<1>7. UNION {PusOf[w] : w \in WardsFound(s, {}) \ {}}
        = UNION {PusOf[w] : w \in UNION {WardsOf[l] : l \in LgasOf[s]}}
  BY <1>6
<1>8. /\ Result(s, F).failedRequests = Cardinality(F)
      /\ Result(s, F).lgas = LgasFound(s, F)
      /\ Result(s, F).wards = WardsFound(s, F)
      /\ Result(s, F).pus = UNION {PusOf[w] : w \in WardsFound(s, F) \ F}
  BY DEF Result
<1>. QED
  BY <1>4, <1>5, <1>6, <1>7, <1>8 DEF Honest

LEMMA OldIsHonest ==
    ASSUME NEW s \in States
    PROVE  Honest(s, OldResult(s))
<1>1. Honest(s, Result(s, {}))
  BY ResultIsHonest
<1>2. /\ OldResult(s).failedRequests = Result(s, {}).failedRequests
      /\ OldResult(s).lgas = Result(s, {}).lgas
      /\ OldResult(s).wards = Result(s, {}).wards
      /\ OldResult(s).pus = Result(s, {}).pus
  BY DEF OldResult, Result
<1>. QED  BY <1>1, <1>2 DEF Honest

(* Honest results of all states, none with a failed request, are complete. *)
LEMMA HonestAndCleanIsComplete ==
    ASSUME NEW states, HonestStates(states), DOMAIN states = States, Clean(states)
    PROVE  /\ SnapLgas(states) = Lgas
           /\ SnapWards(states) = Wards
           /\ SnapPus(states) = Pus
<1>1. \A s \in States :
        /\ states[s].lgas = LgasOf[s]
        /\ states[s].wards = UNION {WardsOf[l] : l \in LgasOf[s]}
        /\ states[s].pus = UNION {PusOf[w] : w \in UNION {WardsOf[l] : l \in LgasOf[s]}}
  BY DEF HonestStates, Honest, Clean
<1>2. SnapLgas(states) = Lgas
  BY <1>1 DEF SnapLgas, Lgas
<1>3. SnapWards(states) = Wards
  <2>1. SnapWards(states) \subseteq Wards
    BY <1>1 DEF SnapWards, Wards, Lgas
  <2>2. ASSUME NEW w \in Wards PROVE w \in SnapWards(states)
    <3>1. PICK s \in States : \E l \in LgasOf[s] : w \in WardsOf[l]
      BY DEF Wards, Lgas
    <3>2. w \in states[s].wards
      BY <1>1, <3>1
    <3>. QED  BY <3>2 DEF SnapWards
  <2>. QED  BY <2>1, <2>2
<1>4. SnapPus(states) = Pus
  <2>1. ASSUME NEW p \in SnapPus(states) PROVE p \in Pus
    <3>1. PICK s \in States : p \in states[s].pus
      BY DEF SnapPus
    <3>2. PICK l \in LgasOf[s] : \E w \in WardsOf[l] : p \in PusOf[w]
      BY <1>1, <3>1
    <3>3. l \in Lgas
      BY DEF Lgas
    <3>. QED  BY <3>2, <3>3 DEF Pus, Wards
  <2>2. ASSUME NEW p \in Pus PROVE p \in SnapPus(states)
    <3>1. PICK s \in States : \E l \in LgasOf[s] : \E w \in WardsOf[l] : p \in PusOf[w]
      BY DEF Pus, Wards, Lgas
    <3>2. p \in states[s].pus
      BY <1>1, <3>1
    <3>. QED  BY <3>2 DEF SnapPus
  <2>. QED  BY <2>1, <2>2
<1>. QED  BY <1>2, <1>3, <1>4

LEMMA InitHolds == ImportInit => FileInv
<1> SUFFICES ASSUME ImportInit PROVE FileInv
  OBVIOUS
<1>1. ToolFits
  BY DEF ImportInit, Init, Idle, ToolFits
<1>2. HonestStates(Old) /\ DOMAIN Old = States
  BY OldIsHonest DEF Old, HonestStates
<1>3. \A s \in States : OldResult(s).failedRequests = 0
  BY FS_EmptySet DEF OldResult, Result
<1>4. Clean(Old)
  BY <1>3 DEF Clean, Old
<1>5. /\ SnapLgas(Old) = Lgas
      /\ SnapWards(Old) = Wards
      /\ SnapPus(Old) = Pus
  BY <1>2, <1>4, HonestAndCleanIsComplete
<1>6. CASE checkpoint = NoFile /\ manifest = NoFile
  BY <1>1, <1>6 DEF FileInv, Readable, CleanMeansComplete
<1>7. CASE checkpoint = Old /\ manifest = [clean |-> TRUE, sha256 |-> Old, repaired |-> FALSE]
  BY <1>1, <1>2, <1>5, <1>7 DEF FileInv, CleanMeansComplete
<1>. QED  BY <1>6, <1>7 DEF ImportInit, Init

LEMMA ToolStep ==
    ASSUME FileInv, Tool
    PROVE  FileInv'
<1>. USE DEF FileInv
<1>1. ASSUME NEW forceRefresh \in BOOLEAN, StartAcquisition(forceRefresh)
      PROVE  FileInv'
  <2>1. HonestStates(StartingCheckpoint(forceRefresh))
    <3>1. HonestStates(NoStates)
      BY DEF HonestStates, NoStates
    <3>2. checkpoint # NoFile => HonestStates(checkpoint)
      BY <1>1 DEF StartAcquisition, Readable
    <3>. QED  BY <3>1, <3>2 DEF StartingCheckpoint
  <2>2. ToolFits'
    BY <1>1, <2>1 DEF StartAcquisition, ToolFits, HonestStates
  <2>. QED  BY <1>1, <2>2 DEF StartAcquisition, CleanMeansComplete, HonestStates
<1>2. CASE CrawlState
  <2>1. tool.pc = "crawl" /\ UNCHANGED <<snapshot, manifest, started>>
    BY <1>2 DEF CrawlState
  <2>2. PICK i \in Remaining : \E F \in SUBSET Asked(StateIds[i], {}) :
          /\ checkpoint' = RecordStateComplete(StateIds[i], Result(StateIds[i], F))
          /\ tool' = [tool EXCEPT !.mem = checkpoint']
    BY <1>2 DEF CrawlState
  <2>. DEFINE s == StateIds[i]
  <2>3. s \in States
    BY <2>2 DEF Remaining, States
  <2>4. PICK F \in SUBSET Asked(s, {}) :
          /\ checkpoint' = RecordStateComplete(s, Result(s, F))
          /\ tool' = [tool EXCEPT !.mem = checkpoint']
    BY <2>2
  <2>5. Honest(s, Result(s, F))
    BY <2>3, ResultIsHonest
  <2>6. HonestStates(tool.mem)
    BY <2>1 DEF ToolFits
  <2>. HIDE DEF s
  <2>7. HonestStates(checkpoint')
    BY <2>4, <2>3, <2>5, <2>6 DEF HonestStates, RecordStateComplete
  <2>8. tool' = [pc |-> "crawl", mem |-> checkpoint']
    BY <2>1, <2>4 DEF ToolFits
  <2>9. ToolFits'
    BY <2>7, <2>8 DEF ToolFits, HonestStates
  <2>. QED  BY <2>1, <2>7, <2>9 DEF CleanMeansComplete, HonestStates
<1>3. CASE WriteSnapshot
  <2>1. tool' = [pc |-> "manifest", mem |-> tool.mem] /\ snapshot' = tool.mem
    BY <1>3 DEF WriteSnapshot, ToolFits
  <2>2. HonestStates(tool.mem) /\ tool.pc = "crawl" /\ Remaining = {}
    BY <1>3 DEF WriteSnapshot, ToolFits
  <2>3. DOMAIN tool.mem = States
    BY <2>2 DEF HonestStates, Remaining, States
  <2>4. ToolFits'
    BY <2>1, <2>2, <2>3 DEF ToolFits, HonestStates
  <2>. QED  BY <1>3, <2>4 DEF WriteSnapshot, CleanMeansComplete, HonestStates
<1>4. CASE WriteManifest
  <2>1. /\ HonestStates(tool.mem) /\ DOMAIN tool.mem = States /\ snapshot = tool.mem
        /\ manifest' = [clean |-> Clean(tool.mem), sha256 |-> snapshot, repaired |-> FALSE]
    BY <1>4 DEF WriteManifest, ToolFits
  <2>2. CleanMeansComplete'
    BY <2>1, HonestAndCleanIsComplete DEF CleanMeansComplete
  <2>3. ToolFits'
    BY <1>4 DEF WriteManifest, ToolFits, Idle
  <2>. QED  BY <1>4, <2>2, <2>3 DEF WriteManifest, HonestStates
<1>5. CASE StartRepair
  <2>1. ToolFits'
    BY <1>5 DEF StartRepair, ToolFits
  <2>. QED  BY <1>5, <2>1 DEF StartRepair, CleanMeansComplete, HonestStates
<1>6. CASE WritePatchedSnapshot
  <2>1. ToolFits'
    BY <1>6 DEF WritePatchedSnapshot, ToolFits
  <2>. QED  BY <1>6, <2>1 DEF WritePatchedSnapshot, CleanMeansComplete, HonestStates
<1>7. CASE WritePatchedManifest
  <2>1. ToolFits'
    BY <1>7 DEF WritePatchedManifest, ToolFits, Idle
  <2>2. CleanMeansComplete'
    <3>1. CASE Readable(manifest)
      <4>1. manifest' = [manifest EXCEPT !.sha256 = tool.mem, !.repaired = TRUE]
        BY <1>7, <3>1 DEF WritePatchedManifest
      <4>. QED  BY <4>1 DEF CleanMeansComplete
    <3>2. CASE ~Readable(manifest)
      BY <1>7, <3>2 DEF WritePatchedManifest, CleanMeansComplete
    <3>. QED  BY <3>1, <3>2
  <2>. QED  BY <1>7, <2>1, <2>2 DEF WritePatchedManifest, HonestStates
<1>8. CASE Crash
  <2>1. ToolFits'
    BY <1>8 DEF Crash, Die, ToolFits, Idle
  <2>. QED  BY <1>8, <2>1 DEF Crash, Die, CleanMeansComplete, HonestStates
<1>9. CASE CrashWhileWriting
  <2>1. ToolFits'
    BY <1>9 DEF CrashWhileWriting, Die, ToolFits, Idle
  <2>2. Readable(checkpoint') => checkpoint' = checkpoint
    BY <1>9 DEF CrashWhileWriting, Readable
  <2>3. Readable(manifest') => manifest' = manifest
    BY <1>9 DEF CrashWhileWriting, Readable
  <2>. QED  BY <2>1, <2>2, <2>3 DEF CleanMeansComplete, HonestStates, Readable
<1>. QED  BY <1>1, <1>2, <1>3, <1>4, <1>5, <1>6, <1>7, <1>8, <1>9 DEF Tool

(* Nothing else looks at the files but to read them.                       *)
LEMMA OtherStep ==
    ASSUME FileInv, UNCHANGED <<checkpoint, snapshot, manifest, tool>>
    PROVE  FileInv'
BY DEF FileInv, ToolFits, HonestStates, CleanMeansComplete

LEMMA StepHolds == FileInv /\ [Next]_vars => FileInv'
<1> SUFFICES ASSUME FileInv, [Next]_vars PROVE FileInv'
  OBVIOUS
<1>1. CASE Tool
  BY <1>1, ToolStep
<1>2. ASSUME NEW i \in Importers,
             StartImport(i) \/ ReadPage(i) \/ WriteRow(i) \/ WriteNothing(i) \/ CrashImport(i)
      PROVE  FileInv'
  BY <1>2, OtherStep DEF StartImport, ReadPage, WriteRow, WriteNothing, CrashImport, filevars
<1>3. CASE UNCHANGED vars
  BY <1>3, OtherStep DEF vars, filevars
<1>. QED  BY <1>1, <1>2, <1>3 DEF Next

(* acquire-national-snapshot.mjs: an empty list never means "we do not     *)
(* know" in a snapshot whose manifest says CLEAN.                          *)
THEOREM CleanSnapshots == Spec => []CleanMeansComplete
<1>1. FileInv => CleanMeansComplete
  BY DEF FileInv
<1>. QED  BY <1>1, InitHolds, StepHolds, PTL DEF Spec

-----------------------------------------------------------------------------
(***************************************************************************)
(* Tables, and the pages they are read by                                  *)
(***************************************************************************)
IsTable(table) == table \in Seq(Rows(table))
KeysOf(rows) == {Key(row) : row \in rows}

(* The rows of a table that a read has still before it, and all it will    *)
(* have seen at its end of those that are there now: as rows are only      *)
(* inserted, none slips behind the offset unread.                          *)
Ahead(table, from) == {table[k] : k \in {j \in DOMAIN table : j > from}}
Known(run, table) == Rows(run.read) \cup Ahead(table, run.from)

LEMMA TableShape ==
  ASSUME NEW t, IsTable(t)
  PROVE  /\ Len(t) \in Nat /\ DOMAIN t = 1 .. Len(t)
         /\ \A k \in 1 .. Len(t) : t[k] \in Rows(t)
  BY DEF IsTable, Rows

LEMMA InsertedRows ==
  ASSUME NEW t, IsTable(t), NEW k \in 0 .. Len(t), NEW row
  PROVE  /\ IsTable(InsertedAt(row, k, t))
         /\ Rows(InsertedAt(row, k, t)) = Rows(t) \cup {row}
         /\ Len(InsertedAt(row, k, t)) = Len(t) + 1
         /\ \A j \in 1 .. Len(t) + 1 : InsertedAt(row, k, t)[j] =
              IF j <= k THEN t[j] ELSE IF j = k + 1 THEN row ELSE t[j - 1]
<1> DEFINE S == Rows(t) \cup {row}
           u == InsertedAt(row, k, t)
           a == SubSeq(t, 1, k)
           b == SubSeq(t, k + 1, Len(t))
<1>1. t \in Seq(S) /\ Len(t) \in Nat /\ DOMAIN t = 1 .. Len(t)
  BY DEF IsTable, Rows
<1>2. /\ a \in Seq(S) /\ Len(a) = k /\ \A j \in 1 .. k : a[j] = t[j]
      /\ b \in Seq(S) /\ Len(b) = Len(t) - k /\ \A j \in 1 .. Len(t) - k : b[j] = t[k + j]
  <2>1. \A j \in 1 .. Len(t) : t[j] \in S
    BY <1>1
  <2>2. /\ a \in Seq(S) /\ Len(a) = IF 1 <= k THEN k - 1 + 1 ELSE 0
        /\ \A j \in 1 .. k - 1 + 1 : a[j] = t[1 + j - 1]
    <3> HIDE DEF S
    <3>1. \A j \in 1 .. k : t[j] \in S
      BY <1>1, <2>1
    <3> QED
      BY <3>1, SubSeqProperties
  <2>3. /\ b \in Seq(S) /\ Len(b) = IF k + 1 <= Len(t) THEN Len(t) - (k + 1) + 1 ELSE 0
        /\ \A j \in 1 .. Len(t) - (k + 1) + 1 : b[j] = t[(k + 1) + j - 1]
    <3> HIDE DEF S
    <3>1. \A j \in k + 1 .. Len(t) : t[j] \in S
      BY <1>1, <2>1
    <3>2. k + 1 \in Int /\ Len(t) \in Int
      BY <1>1
    <3> QED
      BY <3>1, <3>2, SubSeqProperties
  <2> HIDE DEF a, b, S
  <2>4. a \in Seq(S) /\ Len(a) = k /\ \A j \in 1 .. k : a[j] = t[j]
    BY <2>2
  <2>5. b \in Seq(S) /\ Len(b) = Len(t) - k
    <3>1. Len(t) \in Nat /\ k \in Nat /\ k <= Len(t)
      BY <1>1
    <3>2. k + 1 <= Len(t) => Len(t) - (k + 1) + 1 = Len(t) - k
      BY <3>1
    <3>3. ~(k + 1 <= Len(t)) => 0 = Len(t) - k
      BY <3>1
    <3> QED
      BY <2>3, <3>2, <3>3
  <2>6. ASSUME NEW j \in 1 .. Len(t) - k PROVE b[j] = t[k + j]
    <3>1. j \in 1 .. Len(t) - (k + 1) + 1 /\ (k + 1) + j - 1 = k + j
      BY <1>1
    <3> QED
      BY <2>3, <3>1
  <2> QED
    BY <2>4, <2>5, <2>6
<1>3. /\ a \o <<row>> \in Seq(S) /\ Len(a \o <<row>>) = k + 1
      /\ \A j \in 1 .. k + 1 : (a \o <<row>>)[j] = IF j <= k THEN t[j] ELSE row
  <2>1. <<row>> \in Seq(S) /\ Len(<<row>>) = 1 /\ <<row>>[1] = row
    OBVIOUS
  <2> HIDE DEF a, b, S
  <2> QED
    BY <1>2, <2>1, ConcatProperties
<1>4. /\ u \in Seq(S) /\ Len(u) = Len(t) + 1
      /\ \A j \in 1 .. Len(t) + 1 : u[j] =
           IF j <= k + 1 THEN (a \o <<row>>)[j] ELSE b[j - (k + 1)]
  <2> DEFINE c == a \o <<row>>
  <2>1. u = c \o b
    BY DEF InsertedAt
  <2>2. c \in Seq(S) /\ Len(c) = k + 1
    BY <1>3
  <2> HIDE DEF a, b, c, u, S
  <2>3. /\ c \o b \in Seq(S) /\ Len(c \o b) = Len(c) + Len(b)
        /\ \A j \in 1 .. Len(c) + Len(b) : (c \o b)[j] =
             IF j <= Len(c) THEN c[j] ELSE b[j - Len(c)]
    BY <1>2, <2>2, ConcatProperties
  <2>4. Len(c) + Len(b) = Len(t) + 1
    BY <1>1, <1>2, <2>2
  <2>5. u \in Seq(S) /\ Len(u) = Len(t) + 1
        /\ \A j \in 1 .. Len(t) + 1 : u[j] = IF j <= k + 1 THEN c[j] ELSE b[j - (k + 1)]
    BY <2>1, <2>2, <2>3, <2>4
  <2> QED
    BY <2>5 DEF c
<1>5. \A j \in 1 .. Len(t) + 1 : u[j] =
           IF j <= k THEN t[j] ELSE IF j = k + 1 THEN row ELSE t[j - 1]
  <2> SUFFICES ASSUME NEW j \in 1 .. Len(t) + 1
               PROVE  u[j] = IF j <= k THEN t[j] ELSE IF j = k + 1 THEN row ELSE t[j - 1]
    OBVIOUS
  <2> HIDE DEF a, b, u, S
  <2>1. CASE j <= k + 1
    BY <1>1, <1>3, <1>4, <2>1
  <2>2. CASE j > k + 1
    <3>1. j - (k + 1) \in 1 .. Len(t) - k /\ k + (j - (k + 1)) = j - 1
      BY <1>1, <2>2
    <3>2. b[j - (k + 1)] = t[j - 1]
      BY <1>2, <3>1
    <3>3. u[j] = b[j - (k + 1)]
      BY <1>1, <1>4, <2>2
    <3> QED
      BY <1>1, <2>2, <3>2, <3>3
  <2> QED
    BY <1>1, <2>1, <2>2
<1> HIDE DEF a, b, u
<1>6. DOMAIN u = 1 .. Len(t) + 1
  BY <1>1, <1>4
<1>7. Rows(u) = S
  <2>1. Rows(u) \subseteq S
    BY <1>4, <1>6 DEF Rows
  <2>2. row \in Rows(u)
    <3>1. k + 1 \in DOMAIN u /\ u[k + 1] = row
      BY <1>1, <1>5, <1>6
    <3> QED
      BY <3>1 DEF Rows
  <2>3. ASSUME NEW x \in Rows(t) PROVE x \in Rows(u)
    <3>1. PICK j \in 1 .. Len(t) : t[j] = x
      BY <1>1 DEF Rows
    <3>2. CASE j <= k
      BY <1>1, <1>5, <1>6, <3>1, <3>2 DEF Rows
    <3>3. CASE j > k
      <4>1. j + 1 \in DOMAIN u /\ u[j + 1] = x
        BY <1>1, <1>5, <1>6, <3>1, <3>3
      <4> QED
        BY <4>1 DEF Rows
    <3> QED
      BY <3>2, <3>3
  <2> QED
    BY <2>1, <2>2, <2>3
<1> QED
  BY <1>4, <1>5, <1>7 DEF IsTable, u

(* A row with a key of its own makes no twins.                              *)
LEMMA InsertedKeys ==
  ASSUME NEW t, IsTable(t), NEW k \in 0 .. Len(t), NEW row,
         \A i, j \in DOMAIN t : Key(t[i]) = Key(t[j]) => i = j,
         Key(row) \notin KeysOf(Rows(t)),
         NEW i \in DOMAIN InsertedAt(row, k, t), NEW j \in DOMAIN InsertedAt(row, k, t),
         Key(InsertedAt(row, k, t)[i]) = Key(InsertedAt(row, k, t)[j])
  PROVE  i = j
<1> DEFINE u == InsertedAt(row, k, t)
           before(m) == IF m <= k THEN m ELSE m - 1
<1>1. /\ IsTable(u) /\ Len(u) = Len(t) + 1 /\ Len(t) \in Nat /\ DOMAIN t = 1 .. Len(t)
      /\ \A m \in 1 .. Len(t) + 1 : u[m] =
           IF m <= k THEN t[m] ELSE IF m = k + 1 THEN row ELSE t[m - 1]
  BY InsertedRows, TableShape
<1> HIDE DEF u
<1>2. DOMAIN u = 1 .. Len(t) + 1
  BY <1>1, TableShape
<1>3. i \in 1 .. Len(t) + 1 /\ j \in 1 .. Len(t) + 1 /\ Key(u[i]) = Key(u[j])
  BY <1>2 DEF u
<1>4. \A m \in 1 .. Len(t) + 1 : m # k + 1 =>
         before(m) \in DOMAIN t /\ u[m] = t[before(m)] /\ u[m] \in Rows(t)
  BY <1>1 DEF Rows
<1>5. \A m \in 1 .. Len(t) + 1 : m # k + 1 => Key(u[m]) # Key(row)
  BY <1>4 DEF KeysOf
<1>6. CASE i = k + 1 \/ j = k + 1
  BY <1>1, <1>3, <1>5, <1>6
<1>7. CASE i # k + 1 /\ j # k + 1
  <2>1. before(i) = before(j)
    BY <1>3, <1>4, <1>7
  <2> QED
    BY <1>1, <1>3, <1>7, <2>1
<1> QED
  BY <1>6, <1>7

LEMMA AheadKept ==
  ASSUME NEW t, IsTable(t), NEW k \in 0 .. Len(t), NEW row, NEW from \in Nat
  PROVE  Ahead(t, from) \subseteq Ahead(InsertedAt(row, k, t), from)
<1> DEFINE u == InsertedAt(row, k, t)
<1>1. /\ IsTable(u) /\ Len(u) = Len(t) + 1 /\ Len(t) \in Nat /\ DOMAIN t = 1 .. Len(t)
      /\ \A m \in 1 .. Len(t) + 1 : u[m] =
           IF m <= k THEN t[m] ELSE IF m = k + 1 THEN row ELSE t[m - 1]
  BY InsertedRows, TableShape
<1> HIDE DEF u
<1>2. DOMAIN u = 1 .. Len(t) + 1
  BY <1>1, TableShape
<1>3. ASSUME NEW x \in Ahead(t, from) PROVE x \in Ahead(u, from)
  <2>1. PICK j \in 1 .. Len(t) : j > from /\ t[j] = x
    BY <1>1 DEF Ahead
  <2>2. CASE j <= k
    BY <1>1, <1>2, <2>1, <2>2 DEF Ahead
  <2>3. CASE j > k
    <3>1. j + 1 \in DOMAIN u /\ j + 1 > from /\ u[j + 1] = x
      BY <1>1, <1>2, <2>1, <2>3
    <3> QED
      BY <3>1 DEF Ahead
  <2> QED
    BY <1>1, <2>1, <2>2, <2>3
<1> QED
  BY <1>3 DEF u

(* A page has rows of the table, and none between it and the next is lost.  *)
LEMMA PageRows ==
  ASSUME NEW t, IsTable(t), NEW from \in Nat
  PROVE  /\ IsTable(Page(t, from)) /\ Rows(Page(t, from)) \subseteq Rows(t)
         /\ Ahead(t, from) \subseteq Rows(Page(t, from)) \cup Ahead(t, from + PageSize)
         /\ LastPage(Page(t, from)) => Ahead(t, from) \subseteq Rows(Page(t, from))
<1> DEFINE p == Page(t, from)
           n == IF Len(t) < from + PageSize THEN Len(t) ELSE from + PageSize
<1>1. Len(t) \in Nat /\ DOMAIN t = 1 .. Len(t) /\ t \in Seq(Rows(t)) /\ PageSize \in Nat \ {0}
  BY TableShape, PageAssumption DEF IsTable
<1>2. n \in Nat /\ n <= Len(t) /\ p = SubSeq(t, from + 1, n)
  BY <1>1 DEF Page
<1> HIDE DEF p
<1>3. /\ p \in Seq(Rows(t))
      /\ Len(p) = IF from + 1 <= n THEN n - from ELSE 0
      /\ \A j \in 1 .. Len(p) : p[j] = t[from + j]
  <2> HIDE DEF n
  <2> QED
    BY <1>1, <1>2
<1>4. DOMAIN p = 1 .. Len(p) /\ Len(p) \in Nat
  BY <1>3
<1>5. IsTable(p) /\ Rows(p) \subseteq Rows(t)
  <2>1. p \in [1 .. Len(p) -> Rows(p)]
    BY <1>3, <1>4 DEF Rows
  <2>2. p \in Seq(Rows(p))
    BY <1>4, <2>1
  <2>3. \A j \in 1 .. Len(p) : p[j] \in Rows(t)
    BY <1>3, <1>4
  <2> QED
    BY <1>4, <2>2, <2>3 DEF IsTable, Rows
<1>6. ASSUME NEW x \in Ahead(t, from)
      PROVE  /\ x \in Rows(p) \cup Ahead(t, from + PageSize)
             /\ LastPage(p) => x \in Rows(p)
  <2>1. PICK j \in 1 .. Len(t) : j > from /\ t[j] = x
    BY <1>1 DEF Ahead
  <2>2. CASE j <= from + PageSize
    <3>1. j - from \in DOMAIN p /\ p[j - from] = x
      BY <1>1, <1>2, <1>3, <1>4, <2>1, <2>2
    <3> QED
      BY <3>1 DEF Rows
  <2>3. CASE j > from + PageSize
    <3>1. x \in Ahead(t, from + PageSize)
      BY <1>1, <2>1, <2>3 DEF Ahead
    <3>2. Len(p) = PageSize
      <4>1. n = from + PageSize
        BY <1>1, <2>1, <2>3
      <4>2. from + 1 <= n /\ n - from = PageSize
        BY <1>1, <4>1
      <4> HIDE DEF n
      <4> QED
        BY <1>3, <4>2
    <3> QED
      BY <1>1, <3>1, <3>2 DEF LastPage
  <2> QED
    BY <1>1, <2>1, <2>2, <2>3
<1> QED
  BY <1>5, <1>6 DEF p

LEMMA AppendedRows ==
  ASSUME NEW r, IsTable(r), NEW p, IsTable(p)
  PROVE  IsTable(r \o p) /\ Rows(r \o p) = Rows(r) \cup Rows(p)
<1> DEFINE S == Rows(r) \cup Rows(p)
           q == r \o p
<1>1. r \in Seq(S) /\ p \in Seq(S)
  BY DEF IsTable
<1>2. /\ q \in Seq(S) /\ Len(q) = Len(r) + Len(p) /\ Len(r) \in Nat /\ Len(p) \in Nat
      /\ \A j \in 1 .. Len(q) : q[j] = IF j <= Len(r) THEN r[j] ELSE p[j - Len(r)]
  <2> HIDE DEF S
  <2> QED
    BY <1>1
<1>3. DOMAIN r = 1 .. Len(r) /\ DOMAIN p = 1 .. Len(p) /\ DOMAIN q = 1 .. Len(q)
  BY <1>1, <1>2
<1> HIDE DEF q
<1>4. \A x \in Rows(r) : x \in Rows(q)
  BY <1>2, <1>3 DEF Rows
<1>5. ASSUME NEW x \in Rows(p) PROVE x \in Rows(q)
  <2>1. PICK j \in 1 .. Len(p) : p[j] = x
    BY <1>3 DEF Rows
  <2>2. Len(r) + j \in DOMAIN q /\ q[Len(r) + j] = x
    BY <1>2, <1>3, <2>1
  <2> QED
    BY <2>2 DEF Rows
<1>6. Rows(q) \subseteq S
  BY <1>2, <1>3 DEF Rows
<1>7. Rows(q) = S
  BY <1>4, <1>5, <1>6
<1> QED
  BY <1>2, <1>7 DEF IsTable, q

(* resolveIds finds a row for every key that some row has.                  *)
LEMMA RowForKey ==
  ASSUME NEW read, IsTable(read), NEW key \in Keys(read)
  PROVE  RowFor(key, read) \in Rows(read) /\ Key(RowFor(key, read)) = key
<1> DEFINE Behind == {Len(read) - i : i \in {j \in DOMAIN read : Key(read[j]) = key}}
<1>1. Len(read) \in Nat /\ DOMAIN read = 1 .. Len(read)
  BY TableShape
<1>2. Behind \subseteq Nat /\ Behind # {}
  BY <1>1 DEF Keys, Rows
<1>3. PICK m \in Behind : \A n \in Behind : ~(<<n, m>> \in OpToRel(<, Nat))
  <2> HIDE DEF Behind
  <2> QED
    BY <1>2, NatLessThanWellFounded, WFMin
<1>4. \A n \in Behind : ~(n < m)
  BY <1>2, <1>3 DEF OpToRel
<1>5. PICK i \in DOMAIN read : Key(read[i]) = key /\ m = Len(read) - i
  OBVIOUS
<1>6. ASSUME NEW j \in DOMAIN read, Key(read[j]) = key PROVE j <= i
  <2>1. ~(Len(read) - j < Len(read) - i)
    BY <1>4, <1>5, <1>6
  <2> QED
    BY <1>1, <2>1
<1> DEFINE c == CHOOSE k \in DOMAIN read :
                  /\ Key(read[k]) = key
                  /\ \A j \in DOMAIN read : Key(read[j]) = key => j <= k
<1>7. c \in DOMAIN read /\ Key(read[c]) = key
  BY <1>5, <1>6
<1>8. RowFor(key, read) = read[c]
  BY DEF RowFor
<1> QED
  BY <1>7, <1>8 DEF Rows

-----------------------------------------------------------------------------
(***************************************************************************)
(* What the files hold: results that name no place without its parent      *)
(***************************************************************************)
RootedResult(s, result) ==
    /\ result = [lgas |-> result.lgas, wards |-> result.wards, pus |-> result.pus,
                 uncoded |-> result.uncoded, failedRequests |-> result.failedRequests]
    /\ result.lgas \subseteq LgasOf[s]
    /\ \A w \in result.wards : \E l \in result.lgas : w \in WardsOf[l]
    /\ \A p \in result.pus : \E w \in result.wards : p \in PusOf[w]

Rooted(states) == \A s \in DOMAIN states : s \in States /\ RootedResult(s, states[s])

RootInv ==
    /\ tool = [pc |-> tool.pc, mem |-> tool.mem]
    /\ Rooted(tool.mem)
    /\ Readable(checkpoint) => Rooted(checkpoint)
    /\ Readable(snapshot) => Rooted(snapshot)

LEMMA Parents ==
  /\ \A s \in States : \A l \in LgasOf[s] : l \in Lgas /\ StateOf(l) = s
  /\ \A l \in Lgas : \A w \in WardsOf[l] : w \in Wards /\ LgaOf(w) = l
  /\ \A w \in Wards : \A p \in PusOf[w] : WardOf(p) = w
<1>1. ASSUME NEW s \in States, NEW l \in LgasOf[s] PROVE l \in Lgas /\ StateOf(l) = s
  <2>1. \A t \in States : l \in LgasOf[t] => t = s
    BY OneParentAssumption
  <2> QED
    BY <2>1 DEF Lgas, StateOf
<1>2. ASSUME NEW l \in Lgas, NEW w \in WardsOf[l] PROVE w \in Wards /\ LgaOf(w) = l
  <2>1. \A m \in Lgas : w \in WardsOf[m] => m = l
    BY OneParentAssumption
  <2> QED
    BY <2>1 DEF Wards, LgaOf
<1>3. ASSUME NEW w \in Wards, NEW p \in PusOf[w] PROVE WardOf(p) = w
  <2>1. \A v \in Wards : p \in PusOf[v] => v = w
    BY OneParentAssumption
  <2> QED
    BY <2>1 DEF WardOf
<1> QED
  BY <1>1, <1>2, <1>3

LEMMA RootedPlaces ==
  ASSUME NEW snap, Rooted(snap)
  PROVE  /\ SnapLgas(snap) \subseteq Lgas
         /\ \A w \in SnapWards(snap) : w \in Wards /\ LgaOf(w) \in SnapLgas(snap)
         /\ \A p \in SnapPus(snap) : WardOf(p) \in SnapWards(snap)
<1>1. \A s \in DOMAIN snap :
        /\ s \in States /\ snap[s].lgas \subseteq LgasOf[s]
        /\ \A w \in snap[s].wards : \E l \in snap[s].lgas : w \in WardsOf[l]
        /\ \A p \in snap[s].pus : \E w \in snap[s].wards : p \in PusOf[w]
  BY DEF Rooted, RootedResult
<1>2. SnapLgas(snap) \subseteq Lgas
  BY <1>1, Parents DEF SnapLgas
<1>3. ASSUME NEW s \in DOMAIN snap, NEW w \in snap[s].wards
      PROVE  w \in Wards /\ LgaOf(w) \in SnapLgas(snap)
  <2>1. PICK l \in snap[s].lgas : w \in WardsOf[l]
    BY <1>1
  <2>2. l \in SnapLgas(snap) /\ l \in Lgas
    BY <1>2 DEF SnapLgas
  <2> QED
    BY <2>1, <2>2, Parents
<1>4. ASSUME NEW s \in DOMAIN snap, NEW p \in snap[s].pus
      PROVE  WardOf(p) \in SnapWards(snap)
  <2>1. PICK w \in snap[s].wards : p \in PusOf[w]
    BY <1>1
  <2>2. WardOf(p) = w
    BY <1>3, <2>1, Parents
  <2> QED
    BY <2>2 DEF SnapWards
<1> QED
  BY <1>2, <1>3, <1>4 DEF SnapWards, SnapPus

LEMMA ResultRooted ==
  ASSUME NEW s \in States, NEW F
  PROVE  RootedResult(s, Result(s, F)) /\ RootedResult(s, OldResult(s))
<1>1. \A G : /\ LgasFound(s, G) \subseteq LgasOf[s]
             /\ \A w \in WardsFound(s, G) : \E l \in LgasFound(s, G) : w \in WardsOf[l]
  BY DEF LgasFound, WardsFound
<1>2. \A G : RootedResult(s, Result(s, G))
  BY <1>1 DEF Result, RootedResult
<1>3. RootedResult(s, OldResult(s))
  <2> DEFINE u == Result(s, {}).pus \cap Wrapped
  <2>1. OldResult(s) = [Result(s, {}) EXCEPT !.uncoded = u]
    BY DEF OldResult
  <2>2. RootedResult(s, Result(s, {}))
    BY <1>2
  <2> HIDE DEF u
  <2> QED
    BY <2>1, <2>2 DEF RootedResult
<1> QED
  BY <1>2, <1>3

LEMMA InitRoot == Init => RootInv
<1> SUFFICES ASSUME Init PROVE RootInv
  OBVIOUS
<1>1. Rooted(NoStates)
  BY DEF Rooted, NoStates
<1>2. Rooted(Old)
  BY ResultRooted DEF Rooted, Old
<1> QED
  BY <1>1, <1>2 DEF Init, Idle, RootInv, Readable

LEMMA StepRoot == RootInv /\ Tool => RootInv'
<1> SUFFICES ASSUME RootInv, Tool PROVE RootInv'
  OBVIOUS
<1> USE DEF RootInv
<1>0. Rooted(NoStates)
  BY DEF Rooted, NoStates
<1>1. ASSUME NEW forceRefresh \in BOOLEAN, StartAcquisition(forceRefresh) PROVE RootInv'
  <2>1. Rooted(StartingCheckpoint(forceRefresh))
    BY <1>0, <1>1 DEF StartAcquisition, StartingCheckpoint, Readable
  <2> QED
    BY <1>1, <2>1 DEF StartAcquisition
<1>2. CASE CrawlState
  <2>1. PICK i \in Remaining : \E F :
          /\ checkpoint' = RecordStateComplete(StateIds[i], Result(StateIds[i], F))
          /\ tool' = [tool EXCEPT !.mem = checkpoint']
    BY <1>2 DEF CrawlState
  <2>2. StateIds[i] \in States
    BY DEF Remaining, States
  <2>3. Rooted(checkpoint')
    BY <2>1, <2>2, ResultRooted DEF Rooted, RecordStateComplete
  <2>4. tool' = [pc |-> tool.pc, mem |-> checkpoint'] /\ snapshot' = snapshot
    BY <1>2, <2>1 DEF CrawlState
  <2> QED
    BY <2>3, <2>4
<1>3. CASE WriteSnapshot
  BY <1>3 DEF WriteSnapshot
<1>4. CASE WriteManifest
  BY <1>0, <1>4 DEF WriteManifest, Idle
<1>5. CASE StartRepair
  <2>1. PICK refetched : tool' = [pc |-> "patch", mem |-> Patched(snapshot, refetched)]
    BY <1>5 DEF StartRepair
  <2>2. Rooted(snapshot)
    BY <1>5 DEF StartRepair
  <2>3. Rooted(Patched(snapshot, refetched))
    BY <2>2 DEF Rooted, RootedResult, Patched
  <2> QED
    BY <1>5, <2>1, <2>3 DEF StartRepair
<1>6. CASE WritePatchedSnapshot
  BY <1>6 DEF WritePatchedSnapshot
<1>7. CASE WritePatchedManifest
  BY <1>0, <1>7 DEF WritePatchedManifest, Idle
<1>8. CASE Crash
  BY <1>0, <1>8 DEF Crash, Die, Idle
<1>9. CASE CrashWhileWriting
  BY <1>0, <1>9 DEF CrashWhileWriting, Die, Idle, Readable
<1> QED
  BY <1>1, <1>2, <1>3, <1>4, <1>5, <1>6, <1>7, <1>8, <1>9 DEF Tool

-----------------------------------------------------------------------------
(***************************************************************************)
(* The inductive invariant of the import                                   *)
(***************************************************************************)
Twinless(table) == \A i, j \in DOMAIN table : Key(table[i]) = Key(table[j]) => i = j

(* Local governments as the importer spells them; the others were there    *)
(* before it.                                                              *)
Spelt == {<<StateOf(l), NameOf[l]>> : l \in Lgas}
Foreign == Rows(lgas) \ Spelt

Wanted(snap) == SnapWards(snap) \ Quarantined
WardRow(w, run) == <<run.lgaIdMap[LgaOf(w)], NameOf[w]>>
WantedPus(snap) == {p \in SnapPus(snap) : WardOf(p) \notin Quarantined}
PuRow(p, run) == <<run.wardIdMap[WardOf(p)], CodeOf[p]>>

AfterLgas == {"planWards", "writeWards", "resolveWards", "planPus", "writePus", "done"}
AfterWards == {"planPus", "writePus", "done"}
Writing == {"writeLgas", "writeWards", "writePus"}

RunShape(run) ==
    /\ run = [pc |-> run.pc, snap |-> run.snap, read |-> run.read, from |-> run.from,
              todo |-> run.todo, lgaIdMap |-> run.lgaIdMap, wardIdMap |-> run.wardIdMap]
    /\ run.pc \in Reading \cup Writing \cup {"idle", "done"}
    /\ Rooted(run.snap)
    /\ run.from \in Nat /\ IsTable(run.read)
    /\ run.pc \notin Reading => run.read = <<>> /\ run.from = 0

(* What a run knows of the local governments, the wards and the polling    *)
(* units, from the step at which it needs to know it.                      *)
LgasKnown(run) ==
    /\ run.pc = "planLgas" => Foreign \subseteq Known(run, lgas)
    /\ run.pc = "writeLgas" =>
         run.todo \subseteq Spelt /\ KeysOf(run.todo) \cap KeysOf(Foreign) = {}
    /\ run.pc = "resolveLgas" => Rows(run.read) \subseteq Rows(lgas)
    /\ run.pc \in AfterLgas => \A l \in SnapLgas(run.snap) :
         /\ l \in DOMAIN run.lgaIdMap
         /\ run.lgaIdMap[l] \in Rows(lgas) /\ Key(run.lgaIdMap[l]) = LgaKey(l)

WardsKnown(run) ==
    /\ run.pc = "planWards" => Rows(run.read) \subseteq Rows(wards)
    /\ run.pc = "writeWards" =>
         /\ \A row \in run.todo : \E w \in Wanted(run.snap) : row = WardRow(w, run)
         /\ \A w \in Wanted(run.snap) :
              WardKey(w, run.lgaIdMap) \in KeysOf(Rows(wards)) \cup KeysOf(run.todo)
    /\ run.pc = "resolveWards" =>
         /\ Rows(run.read) \subseteq Rows(wards)
         /\ \A w \in Wanted(run.snap) : WardKey(w, run.lgaIdMap) \in KeysOf(Known(run, wards))
    /\ run.pc \in AfterWards => \A w \in Wanted(run.snap) :
         /\ w \in DOMAIN run.wardIdMap
         /\ run.wardIdMap[w] \in Rows(wards)
         /\ Key(run.wardIdMap[w]) = WardKey(w, run.lgaIdMap)

PusKnown(run) ==
    /\ run.pc = "planPus" => Rows(run.read) \subseteq Rows(pus)
    /\ run.pc = "writePus" =>
         \A p \in WantedPus(run.snap) : PuRow(p, run) \in Rows(pus) \cup run.todo
    /\ run.pc = "done" => \A p \in WantedPus(run.snap) : PuRow(p, run) \in Rows(pus)

RunInv(run) == RunShape(run) /\ LgasKnown(run) /\ WardsKnown(run) /\ PusKnown(run)

(* A ward row hangs under the row of the local government it belongs to.   *)
WardRowsRooted ==
    \A row \in Rows(wards) : \E w \in Wards \ Quarantined :
        /\ row = <<row[1], NameOf[w]>>
        /\ row[1] \in Rows(lgas) /\ Key(row[1]) = LgaKey(LgaOf(w))

TablesInv ==
    /\ IsTable(lgas) /\ IsTable(wards) /\ IsTable(pus)
    /\ Twinless(lgas) /\ Twinless(wards)
    /\ WardRowsRooted

RunsInv ==
    /\ imp = [i \in Importers |-> imp[i]]
    /\ \A i \in Importers : RunInv(imp[i])

ImportInv == RootInv /\ TablesInv /\ RunsInv

LEMMA EmptyTable ==
  /\ IsTable(<<>>) /\ Rows(<<>>) = {} /\ Twinless(<<>>)
  /\ \A table : IsTable(table) => Ahead(table, 0) = Rows(table)
<1>1. IsTable(<<>>) /\ Rows(<<>>) = {} /\ Twinless(<<>>)
  BY DEF IsTable, Rows, Twinless
<1>2. ASSUME NEW table, IsTable(table) PROVE Ahead(table, 0) = Rows(table)
  <2>1. Len(table) \in Nat /\ DOMAIN table = 1 .. Len(table)
    BY <1>2, TableShape
  <2> QED
    BY <2>1 DEF Ahead, Rows
<1> QED
  BY <1>1, <1>2

(* An upsert leaves a table that has grown by at most its row.              *)
LEMMA UpsertedRows ==
  ASSUME NEW t, IsTable(t), NEW row, NEW u \in Upserted(row, t)
  PROVE  /\ IsTable(u) /\ Rows(u) = Rows(t) \cup {row}
         /\ \A from \in Nat : Ahead(t, from) \subseteq Ahead(u, from)
         /\ Twinless(t) /\ (row \notin Rows(t) => Key(row) \notin KeysOf(Rows(t))) => Twinless(u)
<1>1. CASE row \in Rows(t)
  BY <1>1 DEF Upserted
<1>2. CASE row \notin Rows(t)
  <2>1. PICK k \in 0 .. Len(t) : u = InsertedAt(row, k, t)
    BY <1>2 DEF Upserted
  <2>2. IsTable(u) /\ Rows(u) = Rows(t) \cup {row}
    BY <2>1, InsertedRows
  <2>3. \A from \in Nat : Ahead(t, from) \subseteq Ahead(u, from)
    BY <2>1, AheadKept
  <2>4. Twinless(t) /\ Key(row) \notin KeysOf(Rows(t)) => Twinless(u)
    BY <2>1, InsertedKeys DEF Twinless
  <2> QED
    BY <1>2, <2>2, <2>3, <2>4
<1> QED
  BY <1>1, <1>2

(* What a run knows stays true while tables grow, and no row that differs   *)
(* from the importer's spelling joins the local governments.               *)
LEMMA KnowledgeKept ==
  ASSUME NEW run, RunInv(run),
         Rows(lgas) \subseteq Rows(lgas)', Rows(wards) \subseteq Rows(wards)',
         Rows(pus) \subseteq Rows(pus)', Foreign' \subseteq Foreign,
         Ahead(lgas, run.from) \subseteq Ahead(lgas, run.from)',
         Ahead(wards, run.from) \subseteq Ahead(wards, run.from)'
  PROVE  RunInv(run)'
<1>1. RunShape(run)'
  BY DEF RunInv, RunShape
<1>2. Known(run, lgas) \subseteq Known(run, lgas)' /\ Known(run, wards) \subseteq Known(run, wards)'
  BY DEF Known
<1>3. LgasKnown(run)'
  <2>1. KeysOf(Foreign)' \subseteq KeysOf(Foreign)
    BY DEF KeysOf
  <2> QED
    BY <1>2, <2>1 DEF RunInv, LgasKnown
<1>4. WardsKnown(run)'
  <2>1. /\ KeysOf(Rows(wards)) \subseteq KeysOf(Rows(wards))'
        /\ KeysOf(Known(run, wards)) \subseteq KeysOf(Known(run, wards))'
    BY <1>2 DEF KeysOf
  <2> QED
    BY <1>2, <2>1 DEF RunInv, WardsKnown, WardRow
<1>5. PusKnown(run)'
  BY DEF RunInv, PusKnown, PuRow
<1> QED
  BY <1>1, <1>3, <1>4, <1>5 DEF RunInv

(* A step of one run: the others keep what they know.                       *)
LEMMA RunSteps ==
  ASSUME RunsInv, \A run : RunInv(run) => RunInv(run)', NEW i \in Importers,
         NEW r, RunInv(r)', imp' = [imp EXCEPT ![i] = r]
  PROVE  RunsInv'
<1>1. imp'[i] = r /\ \A o \in Importers \ {i} : imp'[o] = imp[o]
  BY DEF RunsInv
<1>2. ASSUME NEW o \in Importers PROVE RunInv(imp[o])'
  <2>1. PICK q : q = imp'[o] /\ (RunInv(q) \/ q = r)
    BY <1>1 DEF RunsInv
  <2> QED
    BY <2>1
<1>3. imp' = [o \in Importers |-> imp'[o]]
  BY DEF RunsInv
<1> QED
  BY <1>2, <1>3 DEF RunsInv

(* It writes no row.                                                        *)
LEMMA RunMoves ==
  ASSUME RunsInv, TablesInv, UNCHANGED dbvars, NEW i \in Importers, NEW r, RunInv(r),
         imp' = [imp EXCEPT ![i] = r]
  PROVE  RunsInv' /\ TablesInv'
<1>1. \A run : RunInv(run) => RunInv(run)'
  BY KnowledgeKept DEF dbvars, Foreign
<1>2. TablesInv'
  BY DEF TablesInv, WardRowsRooted, dbvars
<1> QED
  BY <1>1, <1>2, RunSteps

LEMMA NoRunInv == RunInv(NoRun) /\ RunInv(NoRun)'
<1>1. Rooted(NoStates)
  BY DEF Rooted, NoStates
<1> QED
  BY <1>1, EmptyTable
     DEF NoRun, RunInv, RunShape, LgasKnown, WardsKnown, PusKnown, Reading, Writing, AfterLgas, AfterWards

(* A page and, when it is the last, all that a read has seen.               *)
LEMMA ReadPageRows ==
  ASSUME NEW t, IsTable(t), NEW run, RunShape(run)
  PROVE  LET page == Page(t, run.from)
             read == run.read \o page
         IN  /\ IsTable(read) /\ Rows(read) = Rows(run.read) \cup Rows(page)
             /\ Rows(page) \subseteq Rows(t)
             /\ Known(run, t) \subseteq Rows(read) \cup Ahead(t, run.from + PageSize)
             /\ LastPage(page) => Known(run, t) \subseteq Rows(read)
<1> DEFINE page == Page(t, run.from)
           read == run.read \o page
<1>1. IsTable(run.read) /\ run.from \in Nat
  BY DEF RunShape
<1>2. /\ IsTable(page) /\ Rows(page) \subseteq Rows(t)
      /\ Ahead(t, run.from) \subseteq Rows(page) \cup Ahead(t, run.from + PageSize)
      /\ LastPage(page) => Ahead(t, run.from) \subseteq Rows(page)
  BY <1>1, PageRows
<1>3. IsTable(read) /\ Rows(read) = Rows(run.read) \cup Rows(page)
  BY <1>1, <1>2, AppendedRows
<1> QED
  BY <1>2, <1>3 DEF Known

LEMMA ReadOn ==
  ASSUME TablesInv, NEW run, RunInv(run), run.pc \in Reading
  PROVE  RunInv([run EXCEPT !.read = run.read \o Page(Table(run.pc), run.from),
                            !.from = run.from + PageSize])
<1> DEFINE page == Page(Table(run.pc), run.from)
           read == run.read \o page
           from == run.from + PageSize
           r == [run EXCEPT !.read = run.read \o page, !.from = run.from + PageSize]
<1>1. RunShape(run) /\ LgasKnown(run) /\ WardsKnown(run) /\ PusKnown(run)
  BY DEF RunInv
<1>2. Table(run.pc) = IF run.pc \in {"planLgas", "resolveLgas"} THEN lgas
                      ELSE IF run.pc \in {"planWards", "resolveWards"} THEN wards ELSE pus
  BY DEF Table, Reading
<1>3. IsTable(Table(run.pc))
  BY <1>2 DEF TablesInv
<1>4. /\ IsTable(read) /\ Rows(read) = Rows(run.read) \cup Rows(page)
      /\ Rows(page) \subseteq Rows(Table(run.pc))
      /\ Known(run, Table(run.pc)) \subseteq Rows(read) \cup Ahead(Table(run.pc), from)
  BY <1>1, <1>3, ReadPageRows
<1>5. r = [pc |-> run.pc, snap |-> run.snap, read |-> read, from |-> from,
           todo |-> run.todo, lgaIdMap |-> run.lgaIdMap, wardIdMap |-> run.wardIdMap]
  <2>1. run = [pc |-> run.pc, snap |-> run.snap, read |-> run.read, from |-> run.from,
               todo |-> run.todo, lgaIdMap |-> run.lgaIdMap, wardIdMap |-> run.wardIdMap]
    BY <1>1 DEF RunShape
  <2>2. r = [run EXCEPT !.read = read, !.from = from]
    OBVIOUS
  <2> HIDE DEF r, read, from, page
  <2> QED
    BY <2>1, <2>2
<1>a. r = [run EXCEPT !.read = run.read \o Page(Table(run.pc), run.from),
                      !.from = run.from + PageSize]
  OBVIOUS
<1> HIDE DEF r, read, from, page
<1>6. from \in Nat
  BY <1>1, PageAssumption DEF RunShape, from
<1>7. RunShape(r)
  BY <1>1, <1>4, <1>5, <1>6 DEF RunShape
<1>8. Known(run, Table(run.pc)) \subseteq Known(r, Table(run.pc))
  BY <1>4, <1>5 DEF Known
<1>9. LgasKnown(r)
  BY <1>1, <1>2, <1>4, <1>5, <1>8 DEF LgasKnown
<1>10. WardsKnown(r)
  <2>1. KeysOf(Known(run, Table(run.pc))) \subseteq KeysOf(Known(r, Table(run.pc)))
    BY <1>8 DEF KeysOf
  <2>2. CASE run.pc = "planWards"
    BY <1>1, <1>2, <1>4, <1>5, <2>2 DEF WardsKnown, AfterWards
  <2>3. CASE run.pc = "resolveWards"
    BY <1>1, <1>2, <1>4, <1>5, <2>1, <2>3 DEF WardsKnown, AfterWards
  <2>4. CASE run.pc \notin {"planWards", "resolveWards"}
    BY <1>1, <1>5, <2>4 DEF WardsKnown, WardRow
  <2> QED
    BY <2>2, <2>3, <2>4
<1>11. PusKnown(r)
  BY <1>1, <1>2, <1>4, <1>5 DEF PusKnown, PuRow
<1> QED
  BY <1>a, <1>7, <1>9, <1>10, <1>11 DEF RunInv

(* The wards and polling units a run wants have their parents in its maps.  *)
LEMMA WantedParents ==
  ASSUME NEW run, RunInv(run), run.pc \in AfterLgas
  PROVE  /\ \A w \in Wanted(run.snap) :
              /\ w \in Wards \ Quarantined /\ LgaOf(w) \in DOMAIN run.lgaIdMap
              /\ run.lgaIdMap[LgaOf(w)] \in Rows(lgas)
              /\ Key(run.lgaIdMap[LgaOf(w)]) = LgaKey(LgaOf(w))
         /\ \A p \in WantedPus(run.snap) : WardOf(p) \in Wanted(run.snap)
  BY RootedPlaces DEF RunInv, RunShape, LgasKnown, Wanted, WantedPus

LEMMA ReadEnds ==
  ASSUME TablesInv, NEW run, RunInv(run), run.pc \in Reading,
         LastPage(Page(Table(run.pc), run.from))
  PROVE  RunInv(AfterRead(run, run.read \o Page(Table(run.pc), run.from)))
<1> DEFINE T == Table(run.pc)
           page == Page(T, run.from)
           read == run.read \o page
<1>1. RunShape(run) /\ LgasKnown(run) /\ WardsKnown(run) /\ PusKnown(run)
  BY DEF RunInv
<1>2. /\ run.pc \in {"planLgas", "resolveLgas"} => T = lgas
      /\ run.pc \in {"planWards", "resolveWards"} => T = wards
      /\ run.pc = "planPus" => T = pus
  BY DEF Table
<1>3. IsTable(T)
  BY <1>2 DEF TablesInv, Reading
<1>4. /\ IsTable(read) /\ Rows(read) = Rows(run.read) \cup Rows(page)
      /\ Rows(page) \subseteq Rows(T)
      /\ Known(run, T) \subseteq Rows(read)
  BY <1>1, <1>3, ReadPageRows
<1> HIDE DEF read, T, page
<1>5. /\ Keys(read) = KeysOf(Rows(read))
      /\ \A key \in Keys(read) : RowFor(key, read) \in Rows(read) /\ Key(RowFor(key, read)) = key
  BY <1>4, RowForKey DEF Keys, KeysOf
<1>6. CASE run.pc = "planLgas"
  <2> DEFINE plan == PlanLgas(run.snap, read)
             r == [pc |-> "writeLgas", snap |-> run.snap, read |-> <<>>, from |-> 0,
                   todo |-> plan, lgaIdMap |-> run.lgaIdMap, wardIdMap |-> run.wardIdMap]
  <2>1. AfterRead(run, read) \in {NoRun, r}
    BY <1>1, <1>6 DEF AfterRead, RunShape
  <2>2. RunShape(r)
    BY <1>1, EmptyTable DEF RunShape, Reading, Writing
  <2>3. SnapLgas(run.snap) \subseteq Lgas
    BY <1>1, RootedPlaces DEF RunShape
  <2>4. plan \subseteq Spelt
    BY <2>3 DEF PlanLgas, Spelt
  <2>5. KeysOf(plan) \cap Keys(read) = {}
    <3>1. ASSUME NEW row \in plan PROVE Key(row) \notin Keys(read)
      <4>1. PICK l : row = <<StateOf(l), NameOf[l]>> /\ LgaKey(l) \notin Keys(read)
        BY DEF PlanLgas
      <4>2. Key(row) = LgaKey(l)
        BY <4>1 DEF Key, LgaKey
      <4> QED
        BY <4>1, <4>2
    <3> QED
      BY <3>1 DEF KeysOf
  <2>6. Foreign \subseteq Rows(read)
    BY <1>1, <1>2, <1>4, <1>6 DEF LgasKnown
  <2>7. KeysOf(plan) \cap KeysOf(Foreign) = {}
    BY <1>5, <2>5, <2>6 DEF KeysOf
  <2> HIDE DEF plan
  <2>8. RunInv(r)
    BY <2>2, <2>4, <2>7 DEF RunInv, LgasKnown, WardsKnown, PusKnown, AfterLgas, AfterWards
  <2> QED
    BY <2>1, <2>8, NoRunInv DEF read, page, T
<1>7. CASE run.pc = "resolveLgas"
  <2> DEFINE map == ResolveLgas(run.snap, read)
             r == [pc |-> "planWards", snap |-> run.snap, read |-> <<>>, from |-> 0,
                   todo |-> run.todo, lgaIdMap |-> map, wardIdMap |-> run.wardIdMap]
  <2>1. \/ AfterRead(run, read) = NoRun
        \/ AfterRead(run, read) = r /\ SnapLgas(run.snap) = DOMAIN map
    <3> HIDE DEF map, r
    <3>1. SnapLgas(run.snap) # DOMAIN map => AfterRead(run, read) = NoRun
      BY <1>7 DEF AfterRead, map
    <3>2. ASSUME SnapLgas(run.snap) = DOMAIN map PROVE AfterRead(run, read) = r
      <4>1. AfterRead(run, read) = [[run EXCEPT !.read = <<>>, !.from = 0]
                                       EXCEPT !.pc = "planWards", !.lgaIdMap = map]
        BY <1>7, <3>2 DEF AfterRead, map
      <4> QED
        BY <1>1, <4>1 DEF RunShape, r
    <3> QED
      BY <3>1, <3>2
  <2>2. RunShape(r)
    BY <1>1, EmptyTable DEF RunShape, Reading, Writing
  <2>3. Rows(read) \subseteq Rows(lgas)
    BY <1>1, <1>2, <1>4, <1>7 DEF LgasKnown
  <2>4. \A l \in DOMAIN map : map[l] \in Rows(lgas) /\ Key(map[l]) = LgaKey(l)
    BY <1>5, <2>3 DEF ResolveLgas
  <2> HIDE DEF map
  <2>5. SnapLgas(run.snap) = DOMAIN map => RunInv(r)
    BY <2>2, <2>4, EmptyTable DEF RunInv, LgasKnown, WardsKnown, PusKnown, AfterWards
  <2> QED
    BY <2>1, <2>5, NoRunInv DEF read, page, T
<1>8. CASE run.pc = "planWards"
  <2> DEFINE plan == PlanWards(run, read)
             r == [pc |-> "writeWards", snap |-> run.snap, read |-> <<>>, from |-> 0,
                   todo |-> plan, lgaIdMap |-> run.lgaIdMap, wardIdMap |-> run.wardIdMap]
  <2>1. AfterRead(run, read) = r
    BY <1>1, <1>8 DEF AfterRead, RunShape
  <2>2. RunShape(r)
    BY <1>1, EmptyTable DEF RunShape, Reading, Writing
  <2>3. Rows(read) \subseteq Rows(wards)
    BY <1>1, <1>2, <1>4, <1>8 DEF WardsKnown
  <2>4. \A row \in plan : \E w \in Wanted(run.snap) : row = WardRow(w, run)
    BY DEF PlanWards, Wanted, WardRow
  <2>5. ASSUME NEW w \in Wanted(run.snap)
        PROVE  WardKey(w, run.lgaIdMap) \in KeysOf(Rows(wards)) \cup KeysOf(plan)
    <3>1. LgaOf(w) \in DOMAIN run.lgaIdMap
      BY <1>8, WantedParents DEF AfterLgas
    <3>2. CASE WardKey(w, run.lgaIdMap) \in Keys(read)
      BY <1>5, <2>3, <3>2 DEF KeysOf
    <3>3. CASE WardKey(w, run.lgaIdMap) \notin Keys(read)
      <4>1. WardRow(w, run) \in plan
        BY <3>1, <3>3 DEF PlanWards, Wanted, WardRow
      <4>2. Key(WardRow(w, run)) = WardKey(w, run.lgaIdMap)
        BY DEF Key, WardRow, WardKey
      <4> QED
        BY <4>1, <4>2 DEF KeysOf
    <3> QED
      BY <3>2, <3>3
  <2> HIDE DEF plan
  <2>6. LgasKnown(r)
    BY <1>1, <1>8 DEF LgasKnown, AfterLgas
  <2>7. WardsKnown(r) /\ PusKnown(r)
    BY <2>4, <2>5 DEF WardsKnown, PusKnown, WardRow, AfterWards
  <2> QED
    BY <2>1, <2>2, <2>6, <2>7 DEF RunInv, read, page, T
<1>9. CASE run.pc = "resolveWards"
  <2> DEFINE map == ResolveWards(run, read)
             r == [pc |-> "planPus", snap |-> run.snap, read |-> <<>>, from |-> 0,
                   todo |-> run.todo, lgaIdMap |-> run.lgaIdMap, wardIdMap |-> map]
  <2>1. AfterRead(run, read) = r
    BY <1>1, <1>9 DEF AfterRead, RunShape
  <2>2. RunShape(r)
    BY <1>1, EmptyTable DEF RunShape, Reading, Writing
  <2>3. Rows(read) \subseteq Rows(wards) /\ Known(run, wards) \subseteq Rows(read)
    BY <1>1, <1>2, <1>4, <1>9 DEF WardsKnown
  <2>4. ASSUME NEW w \in Wanted(run.snap)
        PROVE  w \in DOMAIN map /\ map[w] \in Rows(wards) /\ Key(map[w]) = WardKey(w, run.lgaIdMap)
    <3>1. LgaOf(w) \in DOMAIN run.lgaIdMap
      BY <1>9, WantedParents DEF AfterLgas
    <3>2. WardKey(w, run.lgaIdMap) \in Keys(read)
      BY <1>1, <1>5, <1>9, <2>3 DEF WardsKnown, KeysOf
    <3>3. w \in DOMAIN map /\ map[w] = RowFor(WardKey(w, run.lgaIdMap), read)
      BY <3>1, <3>2 DEF ResolveWards, Wanted
    <3> QED
      BY <1>5, <2>3, <3>2, <3>3
  <2> HIDE DEF map
  <2>5. LgasKnown(r)
    BY <1>1, <1>9 DEF LgasKnown, AfterLgas
  <2>6. WardsKnown(r) /\ PusKnown(r)
    BY <2>4, EmptyTable DEF WardsKnown, PusKnown, AfterWards
  <2> QED
    BY <2>1, <2>2, <2>5, <2>6 DEF RunInv, read, page, T
<1>10. CASE run.pc = "planPus"
  <2> DEFINE plan == PlanPus(run, read)
             r == [pc |-> "writePus", snap |-> run.snap, read |-> <<>>, from |-> 0,
                   todo |-> plan, lgaIdMap |-> run.lgaIdMap, wardIdMap |-> run.wardIdMap]
  <2>1. AfterRead(run, read) = r
    BY <1>1, <1>10 DEF AfterRead, RunShape
  <2>2. RunShape(r)
    BY <1>1, EmptyTable DEF RunShape, Reading, Writing
  <2>3. Rows(read) \subseteq Rows(pus)
    BY <1>1, <1>2, <1>4, <1>10 DEF PusKnown
  <2>4. ASSUME NEW p \in WantedPus(run.snap) PROVE PuRow(p, run) \in Rows(pus) \cup plan
    <3>1. WardOf(p) \in DOMAIN run.wardIdMap /\ p \in SnapPus(run.snap)
      BY <1>1, <1>10, WantedParents DEF WardsKnown, WantedPus, AfterWards, AfterLgas
    <3> QED
      BY <2>3, <3>1 DEF PlanPus, PuRow
  <2> HIDE DEF plan
  <2>5. LgasKnown(r) /\ WardsKnown(r)
    BY <1>1, <1>10 DEF LgasKnown, WardsKnown, AfterLgas, AfterWards
  <2>6. PusKnown(r)
    BY <2>4 DEF PusKnown, PuRow
  <2> QED
    BY <2>1, <2>2, <2>5, <2>6 DEF RunInv, read, page, T
<1> QED
  BY <1>6, <1>7, <1>8, <1>9, <1>10 DEF Reading

(* Rows of the list leave it when they are in the table, and the run goes   *)
(* on when none is left.                                                    *)
WrittenKnown ==
    \A run, todo, pc :
        /\ RunInv(run) /\ run.pc \in Writing /\ todo \subseteq run.todo
        /\ run.pc = "writeWards" => run.todo \ todo \subseteq Rows(wards)
        /\ run.pc = "writePus" => run.todo \ todo \subseteq Rows(pus)
        /\ \/ pc = run.pc
           \/ /\ todo = {}
              /\ <<run.pc, pc>> \in {<<"writeLgas", "resolveLgas">>,
                                     <<"writeWards", "resolveWards">>, <<"writePus", "done">>}
        => RunInv([run EXCEPT !.todo = todo, !.pc = pc])

LEMMA WritesKnown == TablesInv => WrittenKnown
<1> SUFFICES ASSUME TablesInv, NEW run, NEW todo, NEW pc,
                    RunInv(run), run.pc \in Writing, todo \subseteq run.todo,
                    run.pc = "writeWards" => run.todo \ todo \subseteq Rows(wards),
                    run.pc = "writePus" => run.todo \ todo \subseteq Rows(pus),
                    \/ pc = run.pc
                    \/ /\ todo = {}
                       /\ <<run.pc, pc>> \in {<<"writeLgas", "resolveLgas">>,
                            <<"writeWards", "resolveWards">>, <<"writePus", "done">>}
             PROVE  RunInv([run EXCEPT !.todo = todo, !.pc = pc])
  BY DEF WrittenKnown
<1> DEFINE r == [run EXCEPT !.todo = todo, !.pc = pc]
<1>1. RunShape(run) /\ LgasKnown(run) /\ WardsKnown(run) /\ PusKnown(run)
  BY DEF RunInv
<1>2. r = [pc |-> pc, snap |-> run.snap, read |-> <<>>, from |-> 0,
           todo |-> todo, lgaIdMap |-> run.lgaIdMap, wardIdMap |-> run.wardIdMap]
  <2>1. run = [pc |-> run.pc, snap |-> run.snap, read |-> run.read, from |-> run.from,
               todo |-> run.todo, lgaIdMap |-> run.lgaIdMap, wardIdMap |-> run.wardIdMap]
    BY <1>1 DEF RunShape
  <2>2. run.read = <<>> /\ run.from = 0
    BY <1>1 DEF RunShape, Reading, Writing
  <2>3. r = [run EXCEPT !.todo = todo, !.pc = pc]
    OBVIOUS
  <2> HIDE DEF r
  <2>4. r = [pc |-> pc, snap |-> run.snap, read |-> run.read, from |-> run.from,
             todo |-> todo, lgaIdMap |-> run.lgaIdMap, wardIdMap |-> run.wardIdMap]
    BY <2>1, <2>3
  <2> QED
    BY <2>2, <2>4
<1>a. r = [run EXCEPT !.todo = todo, !.pc = pc]
  OBVIOUS
<1> HIDE DEF r
<1>3. RunShape(r)
  BY <1>1, <1>2, EmptyTable DEF RunShape, Reading, Writing
<1>4. /\ \A S : S \subseteq run.todo => KeysOf(S) \subseteq KeysOf(run.todo)
      /\ KeysOf(run.todo) \subseteq KeysOf(todo) \cup KeysOf(run.todo \ todo)
      /\ KeysOf({}) = {}
      /\ run.pc = "writeWards" => KeysOf(run.todo \ todo) \subseteq KeysOf(Rows(wards))
  BY DEF KeysOf
<1>5. Known(r, wards) = Rows(wards)
  BY <1>2, EmptyTable DEF Known, TablesInv
<1>6. LgasKnown(r)
  BY <1>1, <1>2, <1>4, EmptyTable DEF LgasKnown, Writing, AfterLgas
<1>7. WardsKnown(r)
  <2>1. CASE run.pc = "writeWards"
    <3>1. \A w \in Wanted(run.snap) :
            WardKey(w, run.lgaIdMap) \in KeysOf(Rows(wards)) \cup KeysOf(todo)
      BY <1>1, <1>4, <2>1 DEF WardsKnown
    <3>2. \A row \in todo : \E w \in Wanted(run.snap) : row = WardRow(w, run)
      BY <1>1, <2>1 DEF WardsKnown
    <3>3. CASE pc = run.pc
      BY <1>2, <2>1, <3>1, <3>2, <3>3 DEF WardsKnown, WardRow, AfterWards
    <3>4. CASE pc = "resolveWards" /\ todo = {}
      BY <1>2, <1>4, <1>5, <3>1, <3>4, EmptyTable DEF WardsKnown, AfterWards
    <3> QED
      BY <2>1, <3>3, <3>4
  <2>2. CASE run.pc # "writeWards"
    BY <1>1, <1>2, <2>2 DEF WardsKnown, Writing, AfterWards
  <2> QED
    BY <2>1, <2>2
<1>8. PusKnown(r)
  BY <1>1, <1>2 DEF PusKnown, PuRow, Writing
<1> QED
  BY <1>a, <1>3, <1>6, <1>7, <1>8 DEF RunInv

(* The row a run writes is there already or no row has its key.             *)
LEMMA FreshLga ==
  ASSUME RunsInv, NEW i \in Importers, imp[i].pc = "writeLgas",
         NEW row \in imp[i].todo, row \notin Rows(lgas)
  PROVE  row \in Spelt /\ Key(row) \notin KeysOf(Rows(lgas))
<1>1. row \in Spelt /\ Key(row) \notin KeysOf(Foreign)
  BY DEF RunsInv, RunInv, LgasKnown, KeysOf
<1>2. \A other \in Spelt : Key(other) = Key(row) => other = row
  BY <1>1, NamesAssumption DEF Spelt, Key, LgaKey
<1> QED
  BY <1>1, <1>2 DEF KeysOf, Foreign

LEMMA FreshWard ==
  ASSUME RunsInv, TablesInv, NEW i \in Importers, imp[i].pc = "writeWards",
         NEW row \in imp[i].todo
  PROVE  /\ row \notin Rows(wards) => Key(row) \notin KeysOf(Rows(wards))
         /\ \E w \in Wards \ Quarantined :
              /\ row = <<row[1], NameOf[w]>>
              /\ row[1] \in Rows(lgas) /\ Key(row[1]) = LgaKey(LgaOf(w))
<1>1. RunInv(imp[i])
  BY DEF RunsInv
<1>2. PICK w \in Wanted(imp[i].snap) : row = WardRow(w, imp[i])
  BY <1>1 DEF RunInv, WardsKnown
<1>3. /\ w \in Wards \ Quarantined /\ row = <<row[1], NameOf[w]>>
      /\ row[1] \in Rows(lgas) /\ Key(row[1]) = LgaKey(LgaOf(w))
  BY <1>1, <1>2, WantedParents DEF AfterLgas, WardRow
<1>4. ASSUME NEW other \in Rows(wards), Key(other) = Key(row) PROVE other = row
  <2>1. PICK v \in Wards \ Quarantined :
          /\ other = <<other[1], NameOf[v]>> /\ Key(other[1]) = LgaKey(LgaOf(v))
    BY DEF TablesInv, WardRowsRooted
  <2>2. other[1] = row[1] /\ Canonical[NameOf[v]] = Canonical[NameOf[w]]
    BY <1>3, <1>4, <2>1 DEF Key
  <2>3. LgaOf(v) \in Lgas /\ LgaOf(w) \in Lgas
    BY <1>3, <2>1, Parents DEF Wards
  <2>4. LgaOf(v) = LgaOf(w)
    BY <1>3, <2>1, <2>2, <2>3, NamesAssumption
  <2>5. v = w
    BY <1>3, <2>1, <2>2, <2>4, NamesAssumption
  <2> QED
    BY <1>3, <2>1, <2>2, <2>5
<1> QED
  BY <1>3, <1>4 DEF KeysOf

LEMMA WriteRowInv ==
  ASSUME TablesInv, RunsInv, NEW i \in Importers, WriteRow(i)
  PROVE  TablesInv' /\ RunsInv'
<1>1. PICK run : run = imp[i] /\ RunInv(run)
  BY DEF RunsInv
<1>2. PICK row \in run.todo :
        /\ imp' = [imp EXCEPT ![i] = Written(@, row)]
        /\ CASE run.pc = "writeLgas" -> lgas' \in Upserted(row, lgas) /\ UNCHANGED <<wards, pus>>
             [] run.pc = "writeWards" -> wards' \in Upserted(row, wards) /\ UNCHANGED <<lgas, pus>>
             [] run.pc = "writePus" -> pus' \in Upserted(row, pus) /\ UNCHANGED <<lgas, wards>>
  BY <1>1 DEF WriteRow
<1>3. run.pc \in Writing
  BY <1>1 DEF WriteRow, Writing
<1>4. /\ run.pc = "writeLgas" => lgas' \in Upserted(row, lgas) /\ wards' = wards /\ pus' = pus
      /\ run.pc = "writeWards" => wards' \in Upserted(row, wards) /\ lgas' = lgas /\ pus' = pus
      /\ run.pc = "writePus" => pus' \in Upserted(row, pus) /\ lgas' = lgas /\ wards' = wards
  BY <1>2
<1>5. IsTable(lgas) /\ IsTable(wards) /\ IsTable(pus) /\ Twinless(lgas) /\ Twinless(wards)
  BY DEF TablesInv
<1> DEFINE Grown == /\ Rows(lgas) \subseteq Rows(lgas)' /\ Rows(wards) \subseteq Rows(wards)'
                    /\ Rows(pus) \subseteq Rows(pus)' /\ Foreign' \subseteq Foreign
                    /\ \A from \in Nat : /\ Ahead(lgas, from) \subseteq Ahead(lgas, from)'
                                        /\ Ahead(wards, from) \subseteq Ahead(wards, from)'
           Landed == /\ run.pc = "writeWards" => row \in Rows(wards)'
                     /\ run.pc = "writePus" => row \in Rows(pus)'
<1>6. ASSUME run.pc = "writeLgas" PROVE Grown /\ Landed /\ TablesInv'
  <2>1. row \in Spelt /\ (row \notin Rows(lgas) => Key(row) \notin KeysOf(Rows(lgas)))
    BY <1>1, <1>6, FreshLga DEF RunInv, LgasKnown
  <2>2. /\ IsTable(lgas)' /\ Rows(lgas)' = Rows(lgas) \cup {row} /\ Twinless(lgas)'
        /\ \A from \in Nat : Ahead(lgas, from) \subseteq Ahead(lgas, from)'
    BY <1>4, <1>5, <1>6, <2>1, UpsertedRows
  <2>3. Foreign' = Foreign
    BY <2>1, <2>2 DEF Foreign, Spelt
  <2> QED
    BY <1>4, <1>5, <1>6, <2>2, <2>3 DEF TablesInv, WardRowsRooted
<1>7. ASSUME run.pc = "writeWards" PROVE Grown /\ Landed /\ TablesInv'
  <2>1. /\ row \notin Rows(wards) => Key(row) \notin KeysOf(Rows(wards))
        /\ \E w \in Wards \ Quarantined :
              /\ row = <<row[1], NameOf[w]>>
              /\ row[1] \in Rows(lgas) /\ Key(row[1]) = LgaKey(LgaOf(w))
    BY <1>1, <1>7, FreshWard
  <2>2. /\ IsTable(wards)' /\ Rows(wards)' = Rows(wards) \cup {row} /\ Twinless(wards)'
        /\ \A from \in Nat : Ahead(wards, from) \subseteq Ahead(wards, from)'
    BY <1>4, <1>5, <1>7, <2>1, UpsertedRows
  <2>3. lgas' = lgas /\ pus' = pus
    BY <1>4, <1>7
  <2>4. WardRowsRooted'
    BY <2>1, <2>2, <2>3 DEF TablesInv, WardRowsRooted
  <2>5. Foreign' = Foreign
    BY <2>3 DEF Foreign, Spelt
  <2> QED
    BY <1>5, <1>7, <2>2, <2>3, <2>4, <2>5 DEF TablesInv
<1>8. ASSUME run.pc = "writePus" PROVE Grown /\ Landed /\ TablesInv'
  <2>1. IsTable(pus)' /\ Rows(pus)' = Rows(pus) \cup {row}
    BY <1>4, <1>5, <1>8, UpsertedRows
  <2> QED
    BY <1>4, <1>5, <1>8, <2>1 DEF TablesInv, WardRowsRooted, Foreign, Spelt
<1>9. Grown /\ Landed /\ TablesInv'
  BY <1>3, <1>6, <1>7, <1>8 DEF Writing
<1>10. \A r : RunInv(r) => RunInv(r)'
  BY <1>9, KnowledgeKept DEF RunInv, RunShape
<1>11. RunInv(Written(run, row))'
  <2>1. WrittenKnown'
    BY <1>9, WritesKnown, PTL
  <2>2. PICK pc :
          /\ Written(run, row) = [run EXCEPT !.todo = run.todo \ {row}, !.pc = pc]
          /\ \/ pc = run.pc
             \/ /\ run.todo \ {row} = {}
                /\ <<run.pc, pc>> \in {<<"writeLgas", "resolveLgas">>,
                                       <<"writeWards", "resolveWards">>, <<"writePus", "done">>}
    BY <1>3 DEF Written, Writing
  <2>3. RunInv(run)'
    BY <1>1, <1>10
  <2>4. PICK todo : todo = run.todo \ {row}
    OBVIOUS
  <2>6. todo \subseteq run.todo /\ run.todo \ todo = {row}
    BY <1>2, <2>4
  <2>7. /\ run.pc = "writeWards" => run.todo \ todo \subseteq Rows(wards)'
        /\ run.pc = "writePus" => run.todo \ todo \subseteq Rows(pus)'
    BY <1>9, <2>6
  <2>8. \/ pc = run.pc
        \/ /\ todo = {}
           /\ <<run.pc, pc>> \in {<<"writeLgas", "resolveLgas">>,
                                  <<"writeWards", "resolveWards">>, <<"writePus", "done">>}
    BY <2>2, <2>4
  <2>5. RunInv([run EXCEPT !.todo = todo, !.pc = pc])'
    BY <1>3, <2>1, <2>3, <2>6, <2>7, <2>8 DEF WrittenKnown
  <2> QED
    BY <2>2, <2>4, <2>5
<1> QED
  BY <1>1, <1>2, <1>9, <1>10, <1>11, RunSteps

LEMMA WriteNothingInv ==
  ASSUME TablesInv, RunsInv, NEW i \in Importers, WriteNothing(i)
  PROVE  TablesInv' /\ RunsInv'
<1>1. PICK run : run = imp[i] /\ RunInv(run)
  BY DEF RunsInv
<1>2. run.pc \in Writing /\ run.todo = {}
  BY <1>1 DEF WriteNothing, Writing
<1>3. PICK pc :
        /\ imp' = [imp EXCEPT ![i].pc = pc]
        /\ <<run.pc, pc>> \in {<<"writeLgas", "resolveLgas">>,
                               <<"writeWards", "resolveWards">>, <<"writePus", "done">>}
  BY <1>1, <1>2 DEF WriteNothing, Writing
<1>4. imp' = [imp EXCEPT ![i] = [run EXCEPT !.todo = {}, !.pc = pc]]
  BY <1>1, <1>2, <1>3 DEF RunsInv, RunInv, RunShape
<1>5. RunInv([run EXCEPT !.todo = {}, !.pc = pc])
  BY <1>1, <1>2, <1>3, WritesKnown DEF WrittenKnown
<1> QED
  BY <1>4, <1>5, RunMoves DEF WriteNothing

LEMMA InitImportInv == ImportInit => ImportInv
<1> SUFFICES ASSUME ImportInit PROVE ImportInv
  OBVIOUS
<1>1. RootInv
  BY InitRoot DEF ImportInit
<1>2. PICK k \in 0 .. Len(Legacy) : lgas = SubSeq(Legacy, 1, k)
  BY DEF ImportInit, DbInit
<1>3. IsTable(lgas) /\ Twinless(lgas)
  <2> DEFINE S == Rows(Legacy)
  <2>1. Legacy \in Seq(S) /\ Len(Legacy) \in Nat /\ DOMAIN Legacy = 1 .. Len(Legacy)
    BY LegacyAssumption
  <2> HIDE DEF S
  <2>2. /\ lgas \in Seq(S) /\ Len(lgas) = k
        /\ \A j \in 1 .. k : lgas[j] = Legacy[j]
    BY <1>2, <2>1, SubSeqProperties
  <2>3. DOMAIN lgas = 1 .. k
    BY <2>2
  <2>4. lgas \in Seq(Rows(lgas))
    BY <2>2, <2>3 DEF Rows
  <2>5. Twinless(lgas)
    BY <1>2, <2>1, <2>2, <2>3, LegacyAssumption DEF Twinless
  <2> QED
    BY <2>4, <2>5 DEF IsTable
<1>4. TablesInv
  BY <1>3, EmptyTable DEF ImportInit, DbInit, TablesInv, WardRowsRooted
<1>5. RunsInv
  BY NoRunInv DEF ImportInit, DbInit, RunsInv
<1> QED
  BY <1>1, <1>4, <1>5 DEF ImportInv

LEMMA NextImportInv == ImportInv /\ [Next]_vars => ImportInv'
<1> SUFFICES ASSUME ImportInv, [Next]_vars PROVE ImportInv'
  OBVIOUS
<1>1. RootInv /\ TablesInv /\ RunsInv
  BY DEF ImportInv
<1>2. UNCHANGED <<dbvars, imp>> => TablesInv' /\ RunsInv'
  <2> SUFFICES ASSUME UNCHANGED <<dbvars, imp>> PROVE TablesInv' /\ RunsInv'
    OBVIOUS
  <2>1. TablesInv'
    BY <1>1 DEF TablesInv, WardRowsRooted, dbvars
  <2>2. \A run : RunInv(run) => RunInv(run)'
    BY <1>1, KnowledgeKept DEF dbvars, Foreign
  <2>3. ASSUME NEW o \in Importers PROVE RunInv(imp[o])'
    <3>1. PICK q : q = imp'[o] /\ RunInv(q)
      BY <1>1 DEF RunsInv
    <3> QED
      BY <2>2, <3>1
  <2> QED
    BY <1>1, <2>1, <2>3 DEF RunsInv
<1>3. CASE Tool /\ UNCHANGED <<dbvars, imp, imports>>
  BY <1>1, <1>2, <1>3, StepRoot DEF ImportInv
<1>4. UNCHANGED <<checkpoint, snapshot, tool>> => RootInv'
  BY <1>1 DEF RootInv
<1>5. ASSUME NEW i \in Importers, StartImport(i) PROVE ImportInv'
  <2> DEFINE r == [NoRun EXCEPT !.pc = "planLgas", !.snap = snapshot]
  <2>1. Rooted(snapshot)
    BY <1>1, <1>5 DEF StartImport, RootInv
  <2>2. r = [pc |-> "planLgas", snap |-> snapshot, read |-> <<>>, from |-> 0,
             todo |-> {}, lgaIdMap |-> NoMap, wardIdMap |-> NoMap]
    <3>1. NoRun = [pc |-> "idle", snap |-> NoStates, read |-> <<>>, from |-> 0,
                   todo |-> {}, lgaIdMap |-> NoMap, wardIdMap |-> NoMap]
      BY DEF NoRun
    <3>2. r = [NoRun EXCEPT !.pc = "planLgas", !.snap = snapshot]
      OBVIOUS
    <3> HIDE DEF r
    <3> QED
      BY <3>1, <3>2
  <2>a. imp' = [imp EXCEPT ![i] = r]
    BY <1>5 DEF StartImport
  <2> HIDE DEF r
  <2>3. Known(r, lgas) = Rows(lgas)
    BY <1>1, <2>2, EmptyTable DEF Known, TablesInv
  <2>4. RunShape(r)
    BY <2>1, <2>2, EmptyTable DEF RunShape, Reading
  <2>5. RunInv(r)
    BY <2>2, <2>3, <2>4 DEF RunInv, LgasKnown, WardsKnown, PusKnown, AfterLgas, AfterWards, Foreign
  <2>6. PICK q : q = r
    OBVIOUS
  <2> QED
    BY <1>1, <1>4, <1>5, <2>a, <2>5, <2>6, RunMoves DEF StartImport, ImportInv, filevars
<1>6. ASSUME NEW i \in Importers, ReadPage(i) PROVE ImportInv'
  <2>1. PICK run : run = imp[i] /\ RunInv(run) /\ run.pc \in Reading
    BY <1>1, <1>6 DEF RunsInv, ReadPage
  <2>2. \E r : imp' = [imp EXCEPT ![i] = r] /\ RunInv(r)
    <3>1. CASE LastPage(Page(Table(run.pc), run.from))
      BY <1>1, <1>6, <2>1, <3>1, ReadEnds DEF ReadPage
    <3>2. CASE ~LastPage(Page(Table(run.pc), run.from))
      BY <1>1, <1>6, <2>1, <3>2, ReadOn DEF ReadPage
    <3> QED
      BY <3>1, <3>2
  <2>3. PICK r : imp' = [imp EXCEPT ![i] = r] /\ RunInv(r)
    BY <2>2
  <2> QED
    BY <1>1, <1>4, <1>6, <2>3, RunMoves DEF ReadPage, ImportInv, filevars
<1>7. ASSUME NEW i \in Importers, WriteRow(i) PROVE ImportInv'
  BY <1>1, <1>4, <1>7, WriteRowInv DEF WriteRow, ImportInv, filevars
<1>8. ASSUME NEW i \in Importers, WriteNothing(i) PROVE ImportInv'
  BY <1>1, <1>4, <1>8, WriteNothingInv DEF WriteNothing, ImportInv, filevars
<1>9. ASSUME NEW i \in Importers, CrashImport(i) PROVE ImportInv'
  <2>1. PICK r : r = NoRun /\ RunInv(r)
    BY NoRunInv
  <2> QED
    BY <1>1, <1>4, <1>9, <2>1, RunMoves DEF CrashImport, ImportInv
<1>10. CASE UNCHANGED vars
  BY <1>1, <1>2, <1>4, <1>10 DEF vars, filevars, ImportInv
<1> QED
  BY <1>3, <1>5, <1>6, <1>7, <1>8, <1>9, <1>10 DEF Next

LEMMA Imports == Spec => []ImportInv
  BY InitImportInv, NextImportInv, PTL DEF Spec

(* No place is in the database twice, under two spellings of its name or    *)
(* two rows of its local government: whatever runs overlap, die and start   *)
(* again (import-plan.mjs, the 744 duplicates).                             *)
THEOREM OneRowPerPlace == Spec => []NoTwins
<1>1. ImportInv => NoTwins
  BY DEF ImportInv, TablesInv, NoTwins, Twinless
<1> QED
  BY <1>1, Imports, PTL

(* A run that prints IMPORT COMPLETE has brought every place of the         *)
(* snapshot it read into the database, the quarantined wards apart          *)
(* (import-national-geography.mjs).                                         *)
THEOREM CompleteImport == Spec => []CompleteImportHoldsSnapshot
<1>1. ASSUME ImportInv, NEW i \in Importers, imp[i].pc = "done"
      PROVE  /\ \A l \in SnapLgas(imp[i].snap) : \E row \in Rows(lgas) : LgaStands(l, row)
             /\ \A w \in SnapWards(imp[i].snap) \ Quarantined :
                  \E row \in Rows(wards) : row[1] \in Rows(lgas) /\ WardStands(w, row)
             /\ \A p \in SnapPus(imp[i].snap) :
                  WardOf(p) \notin Quarantined =>
                    \E row \in Rows(pus) : row[1] \in Rows(wards) /\ PuStands(p, row)
  <2>1. PICK run : run = imp[i] /\ RunInv(run) /\ run.pc = "done"
    BY <1>1 DEF ImportInv, RunsInv
  <2>2. \A l \in SnapLgas(run.snap) : \E row \in Rows(lgas) : LgaStands(l, row)
    BY <2>1 DEF RunInv, LgasKnown, AfterLgas, LgaStands
  <2>3. /\ \A w \in Wanted(run.snap) :
            /\ LgaOf(w) \in DOMAIN run.lgaIdMap
            /\ run.lgaIdMap[LgaOf(w)] \in Rows(lgas)
            /\ Key(run.lgaIdMap[LgaOf(w)]) = LgaKey(LgaOf(w))
        /\ \A p \in WantedPus(run.snap) : WardOf(p) \in Wanted(run.snap)
    BY <2>1, WantedParents DEF AfterLgas
  <2>4. ASSUME NEW w \in Wanted(run.snap)
        PROVE  /\ run.wardIdMap[w] \in Rows(wards)
               /\ run.wardIdMap[w][1] \in Rows(lgas) /\ WardStands(w, run.wardIdMap[w])
    <3>1. run.wardIdMap[w] \in Rows(wards) /\ Key(run.wardIdMap[w]) = WardKey(w, run.lgaIdMap)
      BY <2>1 DEF RunInv, WardsKnown, AfterWards
    <3>2. /\ run.wardIdMap[w][1] = run.lgaIdMap[LgaOf(w)]
          /\ Canonical[run.wardIdMap[w][2]] = Canonical[NameOf[w]]
      BY <3>1 DEF Key, WardKey
    <3> QED
      BY <2>3, <3>1, <3>2 DEF WardStands, LgaStands
  <2>5. ASSUME NEW p \in WantedPus(run.snap)
        PROVE  \E row \in Rows(pus) : row[1] \in Rows(wards) /\ PuStands(p, row)
    <3>1. PuRow(p, run) \in Rows(pus)
      BY <2>1 DEF RunInv, PusKnown
    <3>2. PuRow(p, run)[1] = run.wardIdMap[WardOf(p)] /\ PuRow(p, run)[2] = CodeOf[p]
      BY DEF PuRow
    <3> QED
      BY <2>3, <2>4, <3>1, <3>2 DEF PuStands
  <2> QED
    BY <2>1, <2>2, <2>4, <2>5 DEF Wanted, WantedPus
<1>2. ImportInv => CompleteImportHoldsSnapshot
  BY <1>1 DEF CompleteImportHoldsSnapshot
<1> QED
  BY <1>2, Imports, PTL
=============================================================================
