---------------------------- MODULE ResultCapture ----------------------------
(***************************************************************************)
(* One browser capturing results on election day: the photo of the result  *)
(* sheet goes to the evidence bucket, and the event that names it goes to  *)
(* the log (pages/election/ElectionDaySection.jsx, CaptureResultPanel).    *)
(*                                                                         *)
(* An asynchronous function of the panel goes on with the state of the     *)
(* render its button was clicked in, while what it sets is set on the      *)
(* panel of the moment; the file input and "Retry upload" stay enabled     *)
(* while it waits. At most one upload by "Retry upload" runs at a time.    *)
(***************************************************************************)
EXTENDS Naturals

CONSTANTS Photo, NoPhoto,
          MaxId,            \* bound: ids minted by crypto.randomUUID
          NoDraft, NoTask

ASSUME CaptureAssumption == MaxId \in Nat /\ NoPhoto \notin Photo

VARIABLES photo,            \* the photo on the screen
          uploadState, evidenceImagePath, evidenceHash, confirmationId,
          prepared,         \* the draft on the screen
          task,             \* doPrepare or doApprove under way: the panel is busy
          retry,            \* an upload that "Retry upload" started
          storage,          \* the evidence bucket, by the id in the path
          log,              \* the RESULT_CAPTURED events of this browser
          active,           \* is its user an active member?
          minted, approved, \* ids minted; drafts that Approve was clicked on
          told,             \* drafts the panel was told are recorded
          stray             \* the panel holds an upload of a photo not on it

fields == <<photo, uploadState, evidenceImagePath, evidenceHash, confirmationId, stray>>
server == <<storage, log, active>>
vars == <<fields, prepared, task, retry, server, minted, approved, told>>

Id == 1 .. MaxId
NoId == 0
AnyId == 0 .. MaxId
AnyPhoto == Photo \cup {NoPhoto}

\* A path is <campaign>/<id>/result.<ext>; its id stands for it.
Click == [id : AnyId, path : AnyId, hash : AnyPhoto, shown : AnyPhoto, stray : BOOLEAN]
Draft == {d \in Click : d.id # NoId}
ASSUME DraftAssumption == NoDraft \notin Draft
Upload == [photo : Photo, id : Id]

TypeOK == /\ photo \in AnyPhoto
          /\ uploadState \in {"IDLE", "QUEUED", "UPLOADING", "UPLOADED", "FAILED"}
          /\ evidenceImagePath \in AnyId
          /\ evidenceHash \in AnyPhoto
          /\ confirmationId \in AnyId
          /\ stray \in BOOLEAN
          /\ prepared \in Draft \cup {NoDraft}
          /\ task \in [at : {"upload"}, draft : Click]
                   \cup [at : {"prepare", "approve"}, draft : Draft] \cup {NoTask}
          /\ retry \in Upload \cup {NoTask}
          /\ storage \in [Id -> AnyPhoto]
          /\ log \subseteq Draft
          /\ active \in BOOLEAN
          /\ minted \in AnyId
          /\ approved \subseteq Draft
          /\ told \subseteq Draft

Init == /\ photo = NoPhoto /\ uploadState = "IDLE"
        /\ evidenceImagePath = NoId /\ evidenceHash = NoPhoto
        /\ confirmationId = NoId /\ stray = FALSE
        /\ prepared = NoDraft
        /\ task = NoTask /\ retry = NoTask
        /\ storage = [i \in Id |-> NoPhoto]
        /\ log = {} /\ active = TRUE
        /\ minted = 0 /\ approved = {} /\ told = {}
-----------------------------------------------------------------------------
\* crypto.randomUUID()
Fresh(i) == /\ minted < MaxId
            /\ minted' = minted + 1
            /\ i = minted + 1

\* confirmationId ?? crypto.randomUUID()
IdOr(known, i) == IF known # NoId THEN i = known /\ UNCHANGED minted ELSE Fresh(i)

\* A variation: a new photo beside the hash of the one before.
BlankButHash(file, state) == /\ photo' = file
                             /\ uploadState' = state
                             /\ evidenceImagePath' = NoId /\ UNCHANGED evidenceHash
                             /\ confirmationId' = NoId
                             /\ stray' = FALSE

Blank(file, state) == /\ photo' = file
                      /\ uploadState' = state
                      /\ evidenceImagePath' = NoId /\ evidenceHash' = NoPhoto
                      /\ confirmationId' = NoId
                      /\ stray' = FALSE

(* onPhoto: also while an upload or a preparation is under way.             *)
PickPhoto(p) == /\ prepared = NoDraft
                /\ Blank(p, "QUEUED")
                /\ UNCHANGED <<prepared, task, retry, server, minted, approved, told>>

\* A variation: the next result takes over the id of this one.
ResetKeepingId == /\ photo' = NoPhoto /\ uploadState' = "IDLE"
                  /\ evidenceImagePath' = NoId /\ evidenceHash' = NoPhoto
                  /\ UNCHANGED confirmationId
                  /\ stray' = FALSE
                  /\ prepared' = NoDraft

(* reset                                                                    *)
Reset == /\ Blank(NoPhoto, "IDLE")
         /\ prepared' = NoDraft

\* runUpload up to its first await, for an upload at i.
BeginUpload(i) == /\ IdOr(confirmationId, i)
                  /\ uploadState' = "UPLOADING"
                  /\ confirmationId' = i
                  /\ UNCHANGED <<photo, evidenceImagePath, evidenceHash, stray>>

\* The end of runUpload, on whatever the panel holds by then.
UploadSucceeds(u) == /\ uploadState' = "UPLOADED"
                     /\ evidenceImagePath' = u.id
                     /\ evidenceHash' = u.photo
                     /\ stray' = (photo # u.photo)
                     /\ UNCHANGED <<photo, confirmationId>>

\* A variation: the path is on the panel whether or not the upload went well.
UploadFailsWithPath(u) == /\ uploadState' = "FAILED"
                          /\ evidenceImagePath' = u.id
                          /\ UNCHANGED <<photo, evidenceHash, confirmationId, stray>>

UploadFails(u) == /\ uploadState' = "FAILED"
                  /\ UNCHANGED <<photo, evidenceImagePath, evidenceHash, confirmationId, stray>>

\* uploadResultEvidence with upsert: false, and the bucket's insert policy.
Stored(u) == /\ active /\ storage[u.id] = NoPhoto
             /\ storage' = [storage EXCEPT ![u.id] = u.photo]

\* Refused, unreachable, or taken with the answer lost.
StoredOrNot(u) == Stored(u) \/ UNCHANGED storage
-----------------------------------------------------------------------------
(* "Retry upload", offered with FAILED whatever else is under way.          *)
RetryUpload == /\ prepared = NoDraft
               /\ photo # NoPhoto /\ uploadState = "FAILED" /\ retry = NoTask
               /\ \E i \in Id : /\ BeginUpload(i)
                                /\ retry' = [photo |-> photo, id |-> i]
               /\ UNCHANGED <<prepared, task, server, approved, told>>

RetrySucceeds == /\ retry # NoTask
                 /\ Stored(retry) /\ UploadSucceeds(retry)
                 /\ retry' = NoTask
                 /\ UNCHANGED <<prepared, task, log, active, minted, approved, told>>

RetryFails == /\ retry # NoTask
              /\ StoredOrNot(retry) /\ UploadFails(retry)
              /\ retry' = NoTask
              /\ UNCHANGED <<prepared, task, log, active, minted, approved, told>>

(* doPrepare. What is read of the panel is read at the click.               *)
ClickPrepare == /\ prepared = NoDraft /\ task = NoTask
                /\ uploadState # "UPLOADING"

AtClick(path) == [id |-> confirmationId, path |-> path, hash |-> evidenceHash,
                  shown |-> photo, stray |-> stray]

PrepareUploading == /\ ClickPrepare
                    /\ photo # NoPhoto /\ uploadState # "UPLOADED"
                    /\ \E i \in Id :
                         /\ BeginUpload(i)
                         /\ task' = [at |-> "upload", draft |-> AtClick(i)]
                    /\ UNCHANGED <<prepared, retry, server, approved, told>>

TaskUpload == [photo |-> task.draft.shown, id |-> task.draft.path]

PrepareUploaded == /\ task # NoTask /\ task.at = "upload"
                   /\ Stored(TaskUpload) /\ UploadSucceeds(TaskUpload)
                   /\ \E i \in Id : /\ IdOr(task.draft.id, i)
                                    /\ task' = [at |-> "prepare",
                                                draft |-> [task.draft EXCEPT !.id = i]]
                   /\ UNCHANGED <<prepared, retry, log, active, approved, told>>

PrepareNotUploaded == /\ task # NoTask /\ task.at = "upload"
                      /\ StoredOrNot(TaskUpload) /\ UploadFails(TaskUpload)
                      /\ task' = NoTask
                      /\ UNCHANGED <<prepared, retry, log, active, minted, approved, told>>

PrepareAtOnce == /\ ClickPrepare
                 /\ photo = NoPhoto \/ uploadState = "UPLOADED"
                 /\ \E i \in Id :
                      /\ IdOr(confirmationId, i)
                      /\ task' = [at |-> "prepare",
                                  draft |-> [AtClick(evidenceImagePath) EXCEPT !.id = i]]
                 /\ UNCHANGED <<fields, prepared, retry, server, approved, told>>

(* prepareStructuredWrite: session, scope and Canon are read, or not.       *)
Propose == /\ task # NoTask /\ task.at = "prepare"
           /\ task' = NoTask
           /\ prepared' = task.draft /\ active
           /\ UNCHANGED <<fields, retry, server, minted, approved, told>>

ProposeRefused == /\ task # NoTask /\ task.at = "prepare"
                  /\ task' = NoTask
                  /\ UNCHANGED <<fields, prepared, retry, server, minted, approved, told>>

Cancel == /\ prepared # NoDraft /\ task = NoTask
          /\ Reset
          /\ UNCHANGED <<task, retry, server, minted, approved, told>>

(* doApprove                                                                *)
Approve == /\ prepared # NoDraft /\ task = NoTask
           /\ task' = [at |-> "approve", draft |-> prepared]
           /\ approved' = approved \cup {prepared}
           /\ UNCHANGED <<fields, prepared, retry, server, minted, told>>

Recorded(i) == \E e \in log : e.id = i

\* insertEvent under the log's insert policy; event_id is unique.
Insert(d) == /\ active /\ ~Recorded(d.id)
             /\ log' = log \cup {d}

ApproveSucceeds == /\ task # NoTask /\ task.at = "approve"
                   /\ \/ Insert(task.draft)
                      \/ active /\ Recorded(task.draft.id) /\ UNCHANGED log
                   /\ told' = told \cup {task.draft}
                   /\ Reset
                   /\ task' = NoTask
                   /\ UNCHANGED <<retry, storage, active, minted, approved>>

ApproveFails == /\ task # NoTask /\ task.at = "approve"
                /\ Insert(task.draft) \/ UNCHANGED log
                /\ task' = NoTask
                /\ UNCHANGED <<fields, prepared, retry, storage, active, minted, approved, told>>

(* revoke_campaign_member                                                   *)
Revoke == /\ active /\ active' = FALSE
          /\ UNCHANGED <<fields, prepared, task, retry, storage, log, minted, approved, told>>

Next == \/ \E p \in Photo : PickPhoto(p)
        \/ RetryUpload \/ RetrySucceeds \/ RetryFails
        \/ PrepareUploading \/ PrepareUploaded \/ PrepareNotUploaded \/ PrepareAtOnce
        \/ Propose \/ ProposeRefused \/ Cancel
        \/ Approve \/ ApproveSucceeds \/ ApproveFails
        \/ Revoke

Spec == Init /\ [][Next]_vars
-----------------------------------------------------------------------------
(* An event that names a photo names one the bucket holds, however its      *)
(* upload, its retries and their answers went.                              *)
EvidenceIsPreserved ==
    \A e \in log : e.path # NoId => storage[e.path] # NoPhoto

(* A result is recorded with the photo that was on the screen when Prepare  *)
(* was clicked, with none if there was none, and with no other photo's      *)
(* hash - unless the panel held an upload that had finished after its       *)
(* photo was replaced or cancelled.                                         *)
PhotoOfTheScreen ==
    \A e \in log : ~e.stray =>
        /\ IF e.path = NoId THEN e.shown = NoPhoto ELSE storage[e.path] = e.shown
        /\ e.hash \in {NoPhoto, e.shown}

(* Each id is recorded once, as a draft its user approved, and a panel that *)
(* was told so is right about the draft, not merely about its id.           *)
RecordedAsApproved ==
    /\ \A d, e \in log : d.id = e.id => d = e
    /\ log \subseteq approved
    /\ told \subseteq log

(* Not what the code does - electionDay/evidence.js: the id in the path is  *)
(* "the confirmationId the caller will use for the matching RESULT_CAPTURED *)
(* event".                                                                  *)
EvidenceIsTied == \A e \in log : e.path \in {NoId, e.id}
=============================================================================
