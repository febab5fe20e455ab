------------------------- MODULE SnapshotAcquisition -------------------------
(***************************************************************************)
(* The local files of supabase/geography-import: checkpoint.json,          *)
(* national-snapshot.json and manifest.json, as acquire-national-          *)
(* snapshot.mjs and repair-snapshot-pu-codes.mjs read and write them.      *)
(*                                                                         *)
(* The crawl asks the source for the local governments of every state, the *)
(* wards of every local government and the polling units of every ward,    *)
(* and writes the checkpoint after every state.  What a crash leaves of a  *)
(* run is what it wrote, so the requests of one state are one step: none   *)
(* of them leaves a trace before the state is saved.  A request fails only *)
(* after its retries (harden.mjs); a failed one is counted, marked and     *)
(* passed over.  A place is its id at the source; of what the parser makes *)
(* of a label only this matters here: has its polling unit got a code.     *)
(*                                                                         *)
(* An operator runs one of the two tools at a time, as often as            *)
(* MaxTools and MaxFaults allow; either may die at any point, also while   *)
(* a file is being written (writeFileSync truncates it first).             *)
(***************************************************************************)
EXTENDS FiniteSets, Sequences, Naturals

CONSTANTS
    StateIds,    \* INEC_STATE_IDS: the states, in the order they are crawled
    LgasOf,      \* the local governments of a state
    WardsOf,     \* the wards of a local government
    PusOf,       \* the polling units of a ward
    Wrapped,     \* polling units whose label the old parser could not read
    NoFile,      \* there is no such file
    Torn,        \* a file cut short by a crash: JSON.parse throws
    MaxTools,    \* how many times the operator starts a tool
    MaxFaults    \* requests that fail for good, and crashes

States == {StateIds[i] : i \in DOMAIN StateIds}

VARIABLES
    checkpoint,  \* checkpoint.json: the result of every completed state
    snapshot,    \* national-snapshot.json
    manifest,    \* manifest.json
    tool,        \* the running tool: its point of execution and its memory
    started,     \* tools started so far
    faults       \* faults so far
filevars == <<checkpoint, snapshot, manifest, tool, started, faults>>

Lgas == UNION {LgasOf[s] : s \in States}
Wards == UNION {WardsOf[l] : l \in Lgas}
Pus == UNION {PusOf[w] : w \in Wards}

ASSUME PlacesAssumption == IsFiniteSet(Lgas) /\ IsFiniteSet(Wards)

(* INEC gives every place an id of its own: the integrity report counts no *)
(* duplicate ids of local governments, wards or polling units.             *)
ASSUME OneParentAssumption ==
    /\ \A s, t \in States : s # t => LgasOf[s] \cap LgasOf[t] = {}
    /\ \A l, m \in Lgas : l # m => WardsOf[l] \cap WardsOf[m] = {}
    /\ \A w, v \in Wards : w # v => PusOf[w] \cap PusOf[v] = {}
-----------------------------------------------------------------------------
(* What the crawl of one state learns when the requests in F fail, and the *)
(* requests it makes: for the state, and for each place it has learnt of.  *)
LgasFound(s, F) == IF s \in F THEN {} ELSE LgasOf[s]
WardsFound(s, F) == UNION {WardsOf[l] : l \in LgasFound(s, F) \ F}
Asked(s, F) == {s} \cup LgasFound(s, F) \cup WardsFound(s, F)

(* A variation: a state is returned before its own request is counted.     *)
ResultUntallied(s, F) ==
    [lgas |-> LgasFound(s, F), wards |-> WardsFound(s, F),
     pus |-> UNION {PusOf[w] : w \in WardsFound(s, F) \ F},
     uncoded |-> {}, failedRequests |-> Cardinality(F \ {s})]

Result(s, F) ==
    [lgas |-> LgasFound(s, F), wards |-> WardsFound(s, F),
     pus |-> UNION {PusOf[w] : w \in WardsFound(s, F) \ F},
     uncoded |-> {}, failedRequests |-> Cardinality(F)]

(* The same with nothing failing, read with the parser that lost the code  *)
(* of a label that wraps onto a second line.                               *)
OldResult(s) ==
    [Result(s, {}) EXCEPT !.uncoded = Result(s, {}).pus \cap Wrapped]

NoStates == [s \in {} |-> {}]
Old == [s \in States |-> OldResult(s)]
Idle == [pc |-> "idle", mem |-> NoStates]
Readable(file) == file \notin {NoFile, Torn}

(* validation_status: no request of any state of the checkpoint failed.    *)
Clean(states) == \A s \in DOMAIN states : states[s].failedRequests = 0

(* The disk is empty, or holds a crawl made before the parser was fixed.   *)
Init ==
    /\ tool = Idle
    /\ started = 0
    /\ faults = 0
    /\ \/ /\ checkpoint = NoFile
          /\ snapshot = NoFile
          /\ manifest = NoFile
       \/ /\ checkpoint = Old
          /\ snapshot = Old
          /\ manifest = [clean |-> TRUE, sha256 |-> Old, repaired |-> FALSE]
-----------------------------------------------------------------------------
(* main: FORCE_REFRESH starts from an empty checkpoint in memory, but only *)
(* after the file was read, so a torn one stops either kind of run.        *)
StartingCheckpoint(forceRefresh) ==
    IF forceRefresh \/ checkpoint = NoFile THEN NoStates ELSE checkpoint

StartAcquisition(forceRefresh) ==
    /\ tool.pc = "idle"
    /\ started < MaxTools
    /\ checkpoint # Torn
    /\ tool' = [pc |-> "crawl", mem |-> StartingCheckpoint(forceRefresh)]
    /\ started' = started + 1
    /\ UNCHANGED <<checkpoint, snapshot, manifest, faults>>

Remaining == {i \in DOMAIN StateIds : StateIds[i] \notin DOMAIN tool.mem}

(* recordStateComplete and saveCheckpoint, whatever failed on the way.     *)
RecordStateComplete(s, result) ==
    [t \in DOMAIN tool.mem \cup {s} |-> IF t = s THEN result ELSE tool.mem[t]]

CrawlState ==
    /\ tool.pc = "crawl"
    /\ \E i \in Remaining :
         /\ \A j \in Remaining : i <= j
         /\ LET s == StateIds[i]
            IN  \E F \in SUBSET Asked(s, {}) :
                  /\ F \subseteq Asked(s, F)
                  /\ faults + Cardinality(F) <= MaxFaults
                  /\ faults' = faults + Cardinality(F)
                  /\ checkpoint' = RecordStateComplete(s, Result(s, F))
                  /\ tool' = [tool EXCEPT !.mem = checkpoint']
    /\ UNCHANGED <<snapshot, manifest, started>>

(* A snapshot has no failure marks anybody downstream reads: it is the     *)
(* checkpoint's states.                                                    *)
WriteSnapshot ==
    /\ tool.pc = "crawl"
    /\ Remaining = {}
    /\ snapshot' = tool.mem
    /\ tool' = [tool EXCEPT !.pc = "manifest"]
    /\ UNCHANGED <<checkpoint, manifest, started, faults>>

WriteManifest ==
    /\ tool.pc = "manifest"
    /\ manifest' = [clean |-> Clean(tool.mem), sha256 |-> snapshot, repaired |-> FALSE]
    /\ tool' = Idle
    /\ UNCHANGED <<checkpoint, snapshot, started, faults>>
-----------------------------------------------------------------------------
(* repair-snapshot-pu-codes.mjs: asks again for the wards of the polling   *)
(* units without a code (refetched wards answer, the others fail) and      *)
(* patches the snapshot, never the checkpoint.                             *)
Uncoded(states) == UNION {states[s].uncoded : s \in DOMAIN states}
WardOf(p) == CHOOSE w \in Wards : p \in PusOf[w]

Patched(states, refetched) ==
    [s \in DOMAIN states |->
        [states[s] EXCEPT !.uncoded = {p \in @ : WardOf(p) \notin refetched}]]

StartRepair ==
    /\ tool.pc = "idle"
    /\ started < MaxTools
    /\ Readable(snapshot)
    /\ Uncoded(snapshot) # {}
    /\ LET affected == {WardOf(p) : p \in Uncoded(snapshot)}
       IN  \E refetched \in SUBSET affected :
             /\ refetched # {}
             /\ faults + Cardinality(affected \ refetched) <= MaxFaults
             /\ faults' = faults + Cardinality(affected \ refetched)
             /\ tool' = [pc |-> "patch", mem |-> Patched(snapshot, refetched)]
    /\ started' = started + 1
    /\ UNCHANGED <<checkpoint, snapshot, manifest>>

WritePatchedSnapshot ==
    /\ tool.pc = "patch"
    /\ snapshot' = tool.mem
    /\ tool' = [tool EXCEPT !.pc = "patchManifest"]
    /\ UNCHANGED <<checkpoint, manifest, started, faults>>

(* The manifest keeps its validation_status and gets the new checksum; a   *)
(* torn one ends the run, a missing one is not made.                       *)
WritePatchedManifest ==
    /\ tool.pc = "patchManifest"
    /\ manifest' = IF Readable(manifest)
                   THEN [manifest EXCEPT !.sha256 = tool.mem, !.repaired = TRUE]
                   ELSE manifest
    /\ tool' = Idle
    /\ UNCHANGED <<checkpoint, snapshot, started, faults>>
-----------------------------------------------------------------------------
(* The process dies between two writes, or in the middle of one.           *)
Die ==
    /\ tool.pc # "idle"
    /\ faults < MaxFaults
    /\ tool' = Idle
    /\ faults' = faults + 1
    /\ UNCHANGED started

Crash == Die /\ UNCHANGED <<checkpoint, snapshot, manifest>>

CrashWhileWriting ==
    /\ Die
    /\ \/ /\ tool.pc = "crawl" /\ Remaining # {}
          /\ checkpoint' = Torn
          /\ UNCHANGED <<snapshot, manifest>>
       \/ /\ tool.pc \in {"crawl", "patch"} /\ (tool.pc = "crawl" => Remaining = {})
          /\ snapshot' = Torn
          /\ UNCHANGED <<checkpoint, manifest>>
       \/ /\ tool.pc \in {"manifest", "patchManifest"}
          /\ manifest' = Torn
          /\ UNCHANGED <<checkpoint, snapshot>>

Tool ==
    \/ \E forceRefresh \in BOOLEAN : StartAcquisition(forceRefresh)
    \/ CrawlState
    \/ WriteSnapshot
    \/ WriteManifest
    \/ StartRepair
    \/ WritePatchedSnapshot
    \/ WritePatchedManifest
    \/ Crash
    \/ CrashWhileWriting
=============================================================================
