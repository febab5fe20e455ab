--------------------------- MODULE GeographyImport ---------------------------
(***************************************************************************)
(* import-national-geography.mjs: the snapshot file made into rows of      *)
(* geography_lgas, geography_wards and geography_polling_units, by runs    *)
(* that may overlap, die anywhere and be started again, while the files    *)
(* they read are crawled and repaired (SnapshotAcquisition).               *)
(*                                                                         *)
(* A table is the sequence of its rows in the order of their ids, which    *)
(* are random: a new row lands anywhere in it.  A row is identified by its *)
(* unique key, the parent row and a name or a code.  A paginated read is a *)
(* step per page, an upsert a step per row: finer than batches of 500, so  *)
(* that every state between two batches is covered.  computePlan's reads   *)
(* of wards and polling units go into its report alone and are left out.   *)
(***************************************************************************)
EXTENDS SnapshotAcquisition

CONSTANTS
    Importers,   \* runs of the importer that may overlap
    NameOf,      \* the name of a local government or a ward
    Canonical,   \* normalizeGeographyName and toLowerCase, as a function on names
    CodeOf,      \* the code of a polling unit within its ward
    Quarantined, \* QUARANTINED_WARD_IDS
    Legacy,      \* rows of geography_lgas written by the earlier importer
    PageSize,    \* DEFAULT_PAGE_SIZE
    MaxImports   \* how many runs are started

VARIABLES
    lgas,        \* geography_lgas: <<state, name>>
    wards,       \* geography_wards: <<row of geography_lgas, name>>
    pus,         \* geography_polling_units: <<row of geography_wards, code>>
    imp,         \* each importer: where it is and what it remembers
    imports      \* runs started so far
dbvars == <<lgas, wards, pus>>
vars == <<filevars, dbvars, imp, imports>>

Rows(table) == {table[i] : i \in DOMAIN table}
NoMap == [x \in {} |-> x]
NoRun == [pc |-> "idle", snap |-> NoStates, read |-> <<>>, from |-> 0,
          todo |-> {}, lgaIdMap |-> NoMap, wardIdMap |-> NoMap]

DbInit ==
    /\ \E k \in 0 .. Len(Legacy) : lgas = SubSeq(Legacy, 1, k)
    /\ wards = <<>>
    /\ pus = <<>>
    /\ imp = [i \in Importers |-> NoRun]
    /\ imports = 0
-----------------------------------------------------------------------------
(* flattenSnapshot                                                         *)
SnapLgas(snap) == UNION {snap[s].lgas : s \in DOMAIN snap}
SnapWards(snap) == UNION {snap[s].wards : s \in DOMAIN snap}
SnapPus(snap) == UNION {snap[s].pus : s \in DOMAIN snap}

StateOf(l) == CHOOSE s \in States : l \in LgasOf[s]
LgaOf(w) == CHOOSE l \in Lgas : w \in WardsOf[l]

(* The keys rows are compared by: the parent's id and the canonical name.  *)
Key(row) == <<row[1], Canonical[row[2]]>>
LgaKey(l) == <<StateOf(l), Canonical[NameOf[l]]>>
WardKey(w, lgaIdMap) == <<lgaIdMap[LgaOf(w)], Canonical[NameOf[w]]>>

(* The integrity report of the acquired snapshot: no two local governments *)
(* of a state and, but for the quarantined one, no two wards of a local    *)
(* government have one name.                                               *)
ASSUME NamesAssumption ==
    /\ \A l, m \in Lgas : LgaKey(l) = LgaKey(m) => l = m
    /\ \A w, v \in Wards \ Quarantined :
         LgaOf(w) = LgaOf(v) /\ Canonical[NameOf[w]] = Canonical[NameOf[v]] => w = v

(* The rows the importer finds were made of one list, each name once.      *)
ASSUME LegacyAssumption ==
    /\ Legacy \in Seq(Rows(Legacy))
    /\ \A i, j \in DOMAIN Legacy : Key(Legacy[i]) = Key(Legacy[j]) => i = j

ASSUME PageAssumption == PageSize \in Nat \ {0}

(* resolveIds: of several rows with one key the last one read is kept.     *)
RowFor(key, read) ==
    read[CHOOSE i \in DOMAIN read :
           /\ Key(read[i]) = key
           /\ \A j \in DOMAIN read : Key(read[j]) = key => j <= i]
Keys(read) == {Key(row) : row \in Rows(read)}

(* A variation: by the name alone, whatever the state.                     *)
ResolveLgasByName(snap, read) ==
    [l \in {l \in SnapLgas(snap) : \E key \in Keys(read) : key[2] = LgaKey(l)[2]} |->
        RowFor(CHOOSE key \in Keys(read) : key[2] = LgaKey(l)[2], read)]

ResolveLgas(snap, read) ==
    [l \in {l \in SnapLgas(snap) : LgaKey(l) \in Keys(read)} |-> RowFor(LgaKey(l), read)]

ResolveWards(run, read) ==
    LET known == {w \in SnapWards(run.snap) \ Quarantined :
                    /\ LgaOf(w) \in DOMAIN run.lgaIdMap
                    /\ WardKey(w, run.lgaIdMap) \in Keys(read)}
    IN  [w \in known |-> RowFor(WardKey(w, run.lgaIdMap), read)]

(* A variation: names are compared as they are spelt.                      *)
PlanLgasAsSpelt(snap, read) ==
    {<<StateOf(l), NameOf[l]>> : l \in SnapLgas(snap)} \ Rows(read)

(* planLgaImport, planWardImport, planPuImport: the rows to insert.        *)
PlanLgas(snap, read) ==
    {<<StateOf(l), NameOf[l]>> : l \in {l \in SnapLgas(snap) : LgaKey(l) \notin Keys(read)}}

PlanWards(run, read) ==
    LET candidates == {w \in SnapWards(run.snap) \ Quarantined : LgaOf(w) \in DOMAIN run.lgaIdMap}
    IN  {<<run.lgaIdMap[LgaOf(w)], NameOf[w]>> :
           w \in {w \in candidates : WardKey(w, run.lgaIdMap) \notin Keys(read)}}

PlanPus(run, read) ==
    {<<run.wardIdMap[WardOf(p)], CodeOf[p]>> :
       p \in {p \in SnapPus(run.snap) : WardOf(p) \in DOMAIN run.wardIdMap}} \ Rows(read)
-----------------------------------------------------------------------------
(* main: the snapshot is read once; a missing or torn file ends the run.   *)
StartImport(i) ==
    /\ imp[i].pc \in {"idle", "done"}
    /\ imports < MaxImports
    /\ Readable(snapshot)
    /\ imp' = [imp EXCEPT ![i] = [NoRun EXCEPT !.pc = "planLgas", !.snap = snapshot]]
    /\ imports' = imports + 1
    /\ UNCHANGED <<filevars, dbvars>>

Table(pc) ==
    CASE pc \in {"planLgas", "resolveLgas"} -> lgas
      [] pc \in {"planWards", "resolveWards"} -> wards
      [] pc = "planPus" -> pus

(* fetchAllRows: the rows of the page that starts at offset from, in order *)
(* of id; a page with fewer rows than asked for is the last.               *)
Page(table, from) ==
    SubSeq(table, from + 1, IF Len(table) < from + PageSize THEN Len(table) ELSE from + PageSize)
LastPage(page) == Len(page) < PageSize

(* What a run does with the rows it has read, up to its next statement.    *)
(* hasFatalIssues is asked before the first write: a polling unit without  *)
(* a code ends the run.  A local government that did not resolve ends it   *)
(* too (SAFETY STOP); wards and polling units that do not are passed over. *)
AfterRead(run, read) ==
    LET next == [run EXCEPT !.read = <<>>, !.from = 0]
    IN  CASE run.pc = "planLgas" ->
               IF Uncoded(run.snap) # {} THEN NoRun
               ELSE [next EXCEPT !.pc = "writeLgas", !.todo = PlanLgas(run.snap, read)]
          [] run.pc = "resolveLgas" ->
               IF SnapLgas(run.snap) # DOMAIN ResolveLgas(run.snap, read) THEN NoRun
               ELSE [next EXCEPT !.pc = "planWards", !.lgaIdMap = ResolveLgas(run.snap, read)]
          [] run.pc = "planWards" ->
               [next EXCEPT !.pc = "writeWards", !.todo = PlanWards(run, read)]
          [] run.pc = "resolveWards" ->
               [next EXCEPT !.pc = "planPus", !.wardIdMap = ResolveWards(run, read)]
          [] run.pc = "planPus" ->
               [next EXCEPT !.pc = "writePus", !.todo = PlanPus(run, read)]

Reading == {"planLgas", "resolveLgas", "planWards", "resolveWards", "planPus"}

ReadPage(i) ==
    /\ imp[i].pc \in Reading
    /\ LET run == imp[i]
           page == Page(Table(run.pc), run.from)
           read == run.read \o page
       IN  imp' = [imp EXCEPT ![i] =
                     IF LastPage(page) THEN AfterRead(run, read)
                     ELSE [run EXCEPT !.read = read, !.from = run.from + PageSize]]
    /\ UNCHANGED <<filevars, dbvars, imports>>

(* upsert with ignoreDuplicates: ON CONFLICT DO NOTHING on the unique key  *)
(* of the table, the row as it is spelt.                                   *)
InsertedAt(row, k, table) ==
    SubSeq(table, 1, k) \o <<row>> \o SubSeq(table, k + 1, Len(table))

Upserted(row, table) ==
    IF row \in Rows(table) THEN {table}
    ELSE {InsertedAt(row, k, table) : k \in 0 .. Len(table)}

Written(run, row) ==
    LET done == run.todo = {row}
    IN  [run EXCEPT !.todo = @ \ {row},
                    !.pc = IF ~done THEN @
                           ELSE CASE @ = "writeLgas" -> "resolveLgas"
                                  [] @ = "writeWards" -> "resolveWards"
                                  [] @ = "writePus" -> "done"]

WriteRow(i) ==
    /\ imp[i].pc \in {"writeLgas", "writeWards", "writePus"}
    /\ imp[i].todo # {}
    /\ LET row == CHOOSE row \in imp[i].todo : TRUE
       IN  /\ imp' = [imp EXCEPT ![i] = Written(@, row)]
           /\ CASE imp[i].pc = "writeLgas" ->
                     lgas' \in Upserted(row, lgas) /\ UNCHANGED <<wards, pus>>
                [] imp[i].pc = "writeWards" ->
                     wards' \in Upserted(row, wards) /\ UNCHANGED <<lgas, pus>>
                [] imp[i].pc = "writePus" ->
                     pus' \in Upserted(row, pus) /\ UNCHANGED <<lgas, wards>>
    /\ UNCHANGED <<filevars, imports>>

(* Nothing to insert at this level.                                        *)
WriteNothing(i) ==
    /\ imp[i].pc \in {"writeLgas", "writeWards", "writePus"}
    /\ imp[i].todo = {}
    /\ imp' = [imp EXCEPT ![i].pc = CASE @ = "writeLgas" -> "resolveLgas"
                                      [] @ = "writeWards" -> "resolveWards"
                                      [] @ = "writePus" -> "done"]
    /\ UNCHANGED <<filevars, dbvars, imports>>

(* The process dies, or a read or an upsert throws: what was written stays. *)
CrashImport(i) ==
    /\ imp[i].pc \notin {"idle", "done"}
    /\ faults < MaxFaults
    /\ imp' = [imp EXCEPT ![i] = NoRun]
    /\ faults' = faults + 1
    /\ UNCHANGED <<checkpoint, snapshot, manifest, tool, started, dbvars, imports>>
-----------------------------------------------------------------------------
ImportInit == Init /\ DbInit

Next ==
    \/ Tool /\ UNCHANGED <<dbvars, imp, imports>>
    \/ \E i \in Importers :
         StartImport(i) \/ ReadPage(i) \/ WriteRow(i) \/ WriteNothing(i) \/ CrashImport(i)

Spec == ImportInit /\ [][Next]_vars
-----------------------------------------------------------------------------
(* A manifest that says CLEAN, of a snapshot nobody has patched since,     *)
(* speaks of a snapshot that holds every place the source has: an empty    *)
(* list never means "we do not know", through failed requests, crashes,    *)
(* resumed runs and forced refreshes (acquire-national-snapshot.mjs).      *)
CleanMeansComplete ==
    Readable(manifest) /\ manifest.clean /\ ~manifest.repaired =>
        /\ SnapLgas(manifest.sha256) = Lgas
        /\ SnapWards(manifest.sha256) = Wards
        /\ SnapPus(manifest.sha256) = Pus

(* A place of the snapshot is in the database under its own parent.        *)
LgaStands(l, row) == Key(row) = LgaKey(l)
WardStands(w, row) == LgaStands(LgaOf(w), row[1]) /\ Canonical[row[2]] = Canonical[NameOf[w]]
PuStands(p, row) == WardStands(WardOf(p), row[1]) /\ row[2] = CodeOf[p]

(* A run that prints IMPORT COMPLETE has brought every place of the        *)
(* snapshot it read, the quarantined wards apart, into the database under  *)
(* its own local government and ward: whatever ran beside it, and wherever *)
(* earlier runs had stopped (import-national-geography.mjs).               *)
CompleteImportHoldsSnapshot ==
    \A i \in Importers : imp[i].pc = "done" =>
        /\ \A l \in SnapLgas(imp[i].snap) : \E row \in Rows(lgas) : LgaStands(l, row)
        /\ \A w \in SnapWards(imp[i].snap) \ Quarantined :
             \E row \in Rows(wards) : row[1] \in Rows(lgas) /\ WardStands(w, row)
        /\ \A p \in SnapPus(imp[i].snap) :
             WardOf(p) \notin Quarantined =>
               \E row \in Rows(pus) : row[1] \in Rows(wards) /\ PuStands(p, row)

(* No place is there twice under two spellings of one name, and no wards   *)
(* hang under two rows of one local government: what the database's own    *)
(* unique constraints cannot see (import-plan.mjs, the 744 duplicates).    *)
NoTwins ==
    \A table \in {lgas, wards} : \A i, j \in DOMAIN table :
        Key(table[i]) = Key(table[j]) => i = j
=============================================================================
