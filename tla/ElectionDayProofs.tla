-------------------------- MODULE ElectionDayProofs --------------------------
(***************************************************************************)
(* Theorems about election day: a result captured in one browser, for any  *)
(* photos and any number of ids minted, and its review, for any members,   *)
(* fields, values, readings and any number of drafts. The two models share *)
(* no variable; each has its own specification (Spec, ReviewSpec).         *)
(***************************************************************************)
EXTENDS ResultCapture, ResultReview, WellFoundedInduction, TLAPS

USE DEF Id, NoId, AnyId, AnyPhoto

Doing(step) == task # NoTask /\ task.at = step

(* While a preparation is under way nothing is prepared, and what is        *)
(* approved is what is on the screen.                                      *)
Panel == /\ Doing("upload") \/ Doing("prepare") => prepared = NoDraft
         /\ Doing("approve") => task.draft = prepared /\ prepared # NoDraft /\ prepared \in approved
         /\ Doing("upload") => task.draft.path # NoId /\ task.draft.shown # NoPhoto
         /\ uploadState = "UPLOADED" => evidenceImagePath # NoId

(* What the panel holds of an upload that belongs to its photo, and what a  *)
(* draft holds of one that belongs to the photo it was prepared from.      *)
Holds(path, hash, shown) ==
    /\ path # NoId => storage[path] = shown
    /\ hash \in {NoPhoto, shown}

Kept(path) == path # NoId => storage[path] # NoPhoto

Good(d) == /\ Kept(d.path)
           /\ ~d.stray => /\ Holds(d.path, d.hash, d.shown)
                          /\ d.path = NoId => d.shown = NoPhoto

Evidence == /\ Kept(evidenceImagePath)
            /\ ~stray => Holds(evidenceImagePath, evidenceHash, photo)
            /\ Doing("upload") => (~task.draft.stray => task.draft.hash \in {NoPhoto, task.draft.shown})
            /\ Doing("prepare") => Good(task.draft)
            /\ prepared # NoDraft => Good(prepared)
            /\ \A e \in log : Good(e)

(* Ids are minted once, and a draft that was approved keeps its id to       *)
(* itself: the panel has another one unless the draft is still on it.      *)
Ids == /\ confirmationId <= minted
       /\ task # NoTask => task.draft.id <= minted
       /\ prepared # NoDraft => prepared.id <= minted
       /\ \A d \in approved :
             /\ d.id <= minted
             /\ \/ prepared = d
                \/ confirmationId # d.id /\ (Doing("upload") \/ Doing("prepare") => task.draft.id # d.id)
             /\ prepared # NoDraft /\ prepared.id = d.id => prepared = d
             /\ \A e \in approved : d.id = e.id => d = e

Record == /\ log \subseteq approved
          /\ told \subseteq log

IInv == TypeOK /\ Panel /\ Evidence /\ Ids /\ Record
-----------------------------------------------------------------------------
LEMMA InitHolds == Init => IInv
<1> SUFFICES ASSUME Init PROVE IInv
  OBVIOUS
<1>1. TypeOK
  <2>1. 0 \in AnyId /\ storage \in [Id -> AnyPhoto]
    BY CaptureAssumption DEF Init
  <2>2. task \in {NoTask} /\ retry \in {NoTask} /\ prepared \in {NoDraft}
    BY DEF Init
  <2> QED
    BY <2>1, <2>2 DEF Init, TypeOK
<1>2. Panel /\ Record
  BY DEF Init, Panel, Record, Doing
<1>3. Evidence
  BY DEF Init, Evidence, Doing, Kept, Holds
<1>4. Ids
  BY DEF Init, Ids, Doing
<1> QED
  BY <1>1, <1>2, <1>3, <1>4 DEF IInv

TaskType == [at : {"upload"}, draft : Click] \cup [at : {"prepare", "approve"}, draft : Draft]

LEMMA Tasks ==
  ASSUME TypeOK, task # NoTask
  PROVE  /\ task \in TaskType /\ task.draft \in Click
         /\ task.at # "upload" => task.draft \in Draft
BY DEF TypeOK, TaskType, Draft

LEMMA Drafts ==
  ASSUME TypeOK, prepared # NoDraft
  PROVE  prepared \in Draft /\ prepared \in Click /\ prepared.id # NoId
BY DEF TypeOK, Draft

(* What a bucket holds it keeps.                                            *)
LEMMA StoredKeeps ==
  ASSUME TypeOK, NEW u \in Upload, Stored(u) \/ UNCHANGED storage
  PROVE  /\ storage' \in [Id -> AnyPhoto]
         /\ \A i \in Id : storage[i] # NoPhoto => storage'[i] = storage[i]
         /\ Stored(u) => storage'[u.id] = u.photo /\ u.photo # NoPhoto
BY CaptureAssumption DEF TypeOK, Stored, Upload

LEMMA Minting ==
  ASSUME TypeOK, NEW i \in Id, NEW known \in AnyId, IdOr(known, i)
  PROVE  /\ minted' \in AnyId /\ minted <= minted'
         /\ \/ i = known /\ known # NoId /\ minted' = minted
            \/ i = minted + 1 /\ minted' = minted + 1
BY CaptureAssumption DEF TypeOK, IdOr, Fresh

(* A draft stays good as long as the bucket keeps what it has.              *)
LEMMA GoodStays ==
  ASSUME TypeOK, NEW d \in Click, Good(d),
         \A i \in Id : storage[i] # NoPhoto => storage'[i] = storage[i]
  PROVE  Good(d)'
<1>1. d.path \in AnyId
  BY DEF Click
<1>2. d.path # NoId => storage'[d.path] = storage[d.path]
  BY <1>1 DEF Good, Kept
<1> QED
  BY <1>2 DEF Good, Kept, Holds
-----------------------------------------------------------------------------
LEMMA Clicked ==
  ASSUME TypeOK, NEW path \in AnyId
  PROVE  /\ AtClick(path) \in Click
         /\ AtClick(path).id = confirmationId /\ AtClick(path).path = path
         /\ AtClick(path).hash = evidenceHash /\ AtClick(path).shown = photo
         /\ AtClick(path).stray = stray
BY DEF TypeOK, AtClick, Click

(* A draft of which only the id is given.                                   *)
LEMMA Named ==
  ASSUME NEW c \in Click, NEW i \in Id
  PROVE  LET d == [c EXCEPT !.id = i]
         IN  /\ d \in Draft /\ d \in Click /\ d.id = i /\ d.path = c.path /\ d.hash = c.hash
             /\ d.shown = c.shown /\ d.stray = c.stray
BY DEF Click, Draft

(* The step of each action, as what it does to the task, the draft on the   *)
(* screen and the ledger.                                                  *)
TypedFields == /\ photo' \in AnyPhoto
               /\ uploadState' \in {"IDLE", "QUEUED", "UPLOADING", "UPLOADED", "FAILED"}
               /\ evidenceImagePath' \in AnyId
               /\ evidenceHash' \in AnyPhoto
               /\ confirmationId' \in AnyId
               /\ stray' \in BOOLEAN

LEMMA FieldsTyped ==
  ASSUME TypeOK
  PROVE  /\ UNCHANGED fields => TypedFields
         /\ \A file \in AnyPhoto, s \in {"IDLE", "QUEUED"} : Blank(file, s) => TypedFields
         /\ \A i \in Id : BeginUpload(i) => TypedFields
         /\ \A u \in Upload : UploadSucceeds(u) \/ UploadFails(u) => TypedFields
<1>1. UNCHANGED fields => TypedFields
  BY DEF TypeOK, TypedFields, fields
<1>2. \A file \in AnyPhoto, s \in {"IDLE", "QUEUED"} : Blank(file, s) => TypedFields
  <2> SUFFICES ASSUME NEW file \in AnyPhoto, NEW s \in {"IDLE", "QUEUED"}, Blank(file, s)
               PROVE  TypedFields
    OBVIOUS
  <2>1. stray' \in BOOLEAN
    BY DEF Blank
  <2>2. 0 \in AnyId
    BY CaptureAssumption
  <2> QED
    BY <2>1, <2>2 DEF TypedFields, Blank
<1>3. \A i \in Id : BeginUpload(i) => TypedFields
  BY DEF TypeOK, TypedFields, BeginUpload
<1>4. \A u \in Upload : UploadSucceeds(u) \/ UploadFails(u) => TypedFields
  <2> SUFFICES ASSUME NEW u \in Upload, UploadSucceeds(u) \/ UploadFails(u)
               PROVE  TypedFields
    OBVIOUS
  <2>1. stray' \in BOOLEAN
    BY Zenon DEF UploadSucceeds, UploadFails, TypeOK
  <2>2. u.photo \in AnyPhoto /\ u.id \in AnyId
    BY DEF Upload
  <2> QED
    BY <2>1, <2>2 DEF TypedFields, TypeOK, UploadSucceeds, UploadFails
<1> QED
  BY <1>1, <1>2, <1>3, <1>4

LEMMA UploadOfTask ==
  ASSUME TypeOK, Panel, Doing("upload")
  PROVE  /\ TaskUpload \in Upload
         /\ TaskUpload.id = task.draft.path /\ TaskUpload.photo = task.draft.shown
<1>1. task.draft \in Click
  BY Tasks DEF Doing
<1>2. task.draft.path # NoId /\ task.draft.shown # NoPhoto
  BY DEF Panel
<1> QED
  BY <1>1, <1>2 DEF TaskUpload, Upload, Click

LEMMA TypeStep == TypeOK /\ Panel /\ [Next]_vars => TypeOK'
<1> SUFFICES ASSUME TypeOK, Panel, [Next]_vars PROVE TypeOK'
  OBVIOUS
<1> USE DEF TypeOK
<1>1. ASSUME NEW p \in Photo, PickPhoto(p) PROVE TypeOK'
  <2>1. TypedFields
    BY <1>1, FieldsTyped DEF PickPhoto
  <2> QED
    BY <1>1, <2>1 DEF PickPhoto, TypedFields, server
<1>2. CASE RetryUpload
  <2>1. PICK i \in Id : BeginUpload(i) /\ retry' = [photo |-> photo, id |-> i]
    BY <1>2 DEF RetryUpload
  <2>2. TypedFields /\ retry' \in Upload
    BY <1>2, <2>1, FieldsTyped DEF RetryUpload, Upload
  <2>3. minted' \in AnyId
    BY <2>1, Minting DEF BeginUpload
  <2> QED
    BY <1>2, <2>2, <2>3 DEF RetryUpload, TypedFields, server
<1>3. CASE RetrySucceeds \/ RetryFails
  <2>1. retry \in Upload
    BY <1>3 DEF RetrySucceeds, RetryFails
  <2>2. TypedFields
    BY <1>3, <2>1, FieldsTyped DEF RetrySucceeds, RetryFails
  <2>3. storage' \in [Id -> AnyPhoto]
    BY <1>3, <2>1, StoredKeeps DEF RetrySucceeds, RetryFails, StoredOrNot
  <2> QED
    BY <1>3, <2>2, <2>3 DEF RetrySucceeds, RetryFails, TypedFields
<1>4. CASE PrepareUploading
  <2>1. PICK i \in Id : BeginUpload(i) /\ task' = [at |-> "upload", draft |-> AtClick(i)]
    BY <1>4 DEF PrepareUploading
  <2>2. TypedFields
    BY <2>1, FieldsTyped
  <2>3. minted' \in AnyId
    BY <2>1, Minting DEF BeginUpload
  <2>4. AtClick(i) \in Click
    BY Clicked
  <2> HIDE DEF Click
  <2>5. task' \in [at : {"upload"}, draft : Click]
    BY <2>1, <2>4
  <2> QED
    BY <1>4, <2>2, <2>3, <2>5 DEF PrepareUploading, TypedFields, server
<1>5. CASE PrepareUploaded
  <2>1. Doing("upload")
    BY <1>5 DEF PrepareUploaded, Doing
  <2>2. PICK i \in Id : IdOr(task.draft.id, i)
                        /\ task' = [at |-> "prepare", draft |-> [task.draft EXCEPT !.id = i]]
    BY <1>5 DEF PrepareUploaded
  <2>3. task.draft \in Click /\ task.draft.id \in AnyId
    BY <2>1, Tasks DEF Doing, Click
  <2>4. [task.draft EXCEPT !.id = i] \in Draft
    BY <2>3, Named
  <2>5. minted' \in AnyId
    BY <2>2, <2>3, Minting
  <2>6. TypedFields /\ storage' \in [Id -> AnyPhoto]
    BY <1>5, <2>1, UploadOfTask, FieldsTyped, StoredKeeps DEF PrepareUploaded
  <2>7. task' \in [at : {"prepare", "approve"}, draft : Draft]
    BY <2>2, <2>4
  <2> QED
    BY <1>5, <2>5, <2>6, <2>7 DEF PrepareUploaded, TypedFields
<1>6. CASE PrepareNotUploaded
  <2>1. Doing("upload")
    BY <1>6 DEF PrepareNotUploaded, Doing
  <2>2. TypedFields /\ storage' \in [Id -> AnyPhoto]
    BY <1>6, <2>1, UploadOfTask, FieldsTyped, StoredKeeps DEF PrepareNotUploaded, StoredOrNot
  <2> QED
    BY <1>6, <2>2 DEF PrepareNotUploaded, TypedFields
<1>7. CASE PrepareAtOnce
  <2>1. PICK i \in Id : IdOr(confirmationId, i)
          /\ task' = [at |-> "prepare", draft |-> [AtClick(evidenceImagePath) EXCEPT !.id = i]]
    BY <1>7 DEF PrepareAtOnce
  <2>2. minted' \in AnyId
    BY <2>1, Minting
  <2>3. [AtClick(evidenceImagePath) EXCEPT !.id = i] \in Draft
    BY Clicked, Named
  <2>4. task' \in [at : {"prepare", "approve"}, draft : Draft]
    BY <2>1, <2>3
  <2> QED
    BY <1>7, <2>2, <2>4 DEF PrepareAtOnce, fields, server
<1>8. CASE Propose \/ ProposeRefused
  <2>1. task.draft \in Draft
    BY <1>8, Tasks DEF Propose, ProposeRefused
  <2> QED
    BY <1>8, <2>1 DEF Propose, ProposeRefused, fields, server
<1>9. CASE Cancel
  <2>1. TypedFields /\ prepared' = NoDraft
    BY <1>9, FieldsTyped DEF Cancel, Reset
  <2> QED
    BY <1>9, <2>1 DEF Cancel, TypedFields, server
<1>10. CASE Approve
  <2>1. prepared \in Draft
    BY <1>10, Drafts DEF Approve
  <2>2. task' \in [at : {"prepare", "approve"}, draft : Draft] /\ approved' \subseteq Draft
    BY <1>10, <2>1 DEF Approve
  <2> QED
    BY <1>10, <2>2 DEF Approve, fields, server
<1>11. CASE ApproveSucceeds \/ ApproveFails
  <2>1. task.draft \in Draft
    BY <1>11, Tasks DEF ApproveSucceeds, ApproveFails
  <2>2. log' \subseteq Draft /\ told' \subseteq Draft
    BY <1>11, <2>1 DEF ApproveSucceeds, ApproveFails, Insert
  <2>3. TypedFields /\ prepared' \in {prepared, NoDraft}
    BY <1>11, FieldsTyped DEF ApproveSucceeds, ApproveFails, Reset
  <2> QED
    BY <1>11, <2>2, <2>3 DEF ApproveSucceeds, ApproveFails, TypedFields
<1>12. CASE Revoke
  BY <1>12 DEF Revoke, fields
<1>13. CASE UNCHANGED vars
  BY <1>13 DEF vars, fields, server
<1> QED
  BY <1>1, <1>2, <1>3, <1>4, <1>5, <1>6, <1>7, <1>8, <1>9, <1>10, <1>11, <1>12, <1>13 DEF Next
-----------------------------------------------------------------------------
LEMMA PanelStep == TypeOK /\ Panel /\ [Next]_vars => Panel'
<1> SUFFICES ASSUME TypeOK, Panel, [Next]_vars PROVE Panel'
  OBVIOUS
<1> USE DEF Panel, Doing
<1>1. ASSUME NEW p \in Photo, PickPhoto(p) PROVE Panel'
  BY <1>1 DEF PickPhoto, Blank
<1>2. CASE RetryUpload
  BY <1>2 DEF RetryUpload, BeginUpload
<1>3. CASE RetrySucceeds \/ RetryFails
  <2>1. retry \in Upload
    BY <1>3 DEF RetrySucceeds, RetryFails, TypeOK
  <2> QED
    BY <1>3, <2>1 DEF RetrySucceeds, RetryFails, UploadSucceeds, UploadFails, Upload
<1>4. CASE PrepareUploading
  <2>1. PICK i \in Id : BeginUpload(i) /\ task' = [at |-> "upload", draft |-> AtClick(i)]
    BY <1>4 DEF PrepareUploading
  <2>2. AtClick(i).path # NoId /\ AtClick(i).shown # NoPhoto
    BY <1>4, Clicked DEF PrepareUploading
  <2> QED
    BY <1>4, <2>1, <2>2 DEF PrepareUploading, ClickPrepare, BeginUpload
<1>5. CASE PrepareUploaded
  <2>1. PICK d \in Click : task' = [at |-> "prepare", draft |-> d]
    BY <1>5, Tasks, Named, UploadOfTask DEF PrepareUploaded
  <2>2. TaskUpload.id # NoId
    BY <1>5, UploadOfTask DEF PrepareUploaded
  <2> QED
    BY <1>5, <2>1, <2>2 DEF PrepareUploaded, UploadSucceeds
<1>6. CASE PrepareNotUploaded
  BY <1>6 DEF PrepareNotUploaded, UploadFails
<1>7. CASE PrepareAtOnce
  BY <1>7 DEF PrepareAtOnce, ClickPrepare, fields
<1>8. CASE Propose \/ ProposeRefused
  BY <1>8 DEF Propose, ProposeRefused, fields
<1>9. CASE Cancel
  BY <1>9 DEF Cancel, Reset, Blank
<1>10. CASE Approve
  BY <1>10 DEF Approve, fields
<1>11. CASE ApproveSucceeds
  BY <1>11 DEF ApproveSucceeds, Reset, Blank
<1>12. CASE ApproveFails \/ Revoke
  BY <1>12 DEF ApproveFails, Revoke, fields
<1>13. CASE UNCHANGED vars
  BY <1>13 DEF vars, fields
<1> QED
  BY <1>1, <1>2, <1>3, <1>4, <1>5, <1>6, <1>7, <1>8, <1>9, <1>10, <1>11, <1>12, <1>13 DEF Next

(* The drafts a step leaves are good if the ones before are, unless it makes *)
(* one.                                                                     *)
LEMMA EvidenceStays ==
  ASSUME TypeOK, Evidence,
         \A i \in Id : storage[i] # NoPhoto => storage'[i] = storage[i],
         UNCHANGED <<photo, evidenceImagePath, evidenceHash, stray>> \/ \E s \in {"IDLE", "QUEUED"} : Blank(photo', s),
         Doing("upload")' => Doing("upload") /\ task' = task,
         Doing("prepare")' => Doing("prepare") /\ task' = task,
         prepared' \in {prepared, NoDraft},
         log' = log
  PROVE  Evidence'
<1> USE DEF Evidence
<1>1. Kept(evidenceImagePath)' /\ (~stray' => Holds(evidenceImagePath, evidenceHash, photo)')
  <2>1. CASE UNCHANGED <<photo, evidenceImagePath, evidenceHash, stray>>
    <3>1. evidenceImagePath # NoId => storage'[evidenceImagePath] = storage[evidenceImagePath]
      BY DEF TypeOK, Kept
    <3> QED
      BY <2>1, <3>1 DEF Kept, Holds
  <2>2. CASE \E s \in {"IDLE", "QUEUED"} : Blank(photo', s)
    BY <2>2 DEF Blank, Kept, Holds
  <2> QED
    BY <2>1, <2>2
<1>2. Doing("upload")' => (~task'.draft.stray => task'.draft.hash \in {NoPhoto, task'.draft.shown})
  BY DEF Doing
<1>3. Doing("prepare")' => Good(task.draft)' /\ task' = task
  BY Tasks, GoodStays DEF Doing
<1>4. prepared' # NoDraft => Good(prepared)' /\ prepared' = prepared
  BY Drafts, GoodStays
<1>5. \A e \in log' : Good(e)'
  <2>1. \A e \in log : e \in Click
    BY DEF TypeOK, Draft
  <2> QED
    BY <2>1, GoodStays
<1> QED
  BY <1>1, <1>2, <1>3, <1>4, <1>5 DEF Good, Kept, Holds

LEMMA EvidenceStep == TypeOK /\ Panel /\ Evidence /\ [Next]_vars => Evidence'
<1> SUFFICES ASSUME TypeOK, Panel, Evidence, [Next]_vars PROVE Evidence'
  OBVIOUS
<1>1. ASSUME NEW p \in Photo, PickPhoto(p) PROVE Evidence'
  BY <1>1, EvidenceStays DEF PickPhoto, Blank, server, Doing
<1>2. CASE RetryUpload
  BY <1>2, EvidenceStays DEF RetryUpload, BeginUpload, server, Doing
<1>3. ASSUME NEW u \in Upload, Stored(u) \/ UNCHANGED storage
      PROVE  \A i \in Id : storage[i] # NoPhoto => storage'[i] = storage[i]
  BY <1>3, StoredKeeps
<1>4. CASE RetryFails
  <2>1. retry \in Upload
    BY <1>4 DEF RetryFails, TypeOK
  <2> QED
    BY <1>3, <1>4, <2>1, EvidenceStays DEF RetryFails, StoredOrNot, UploadFails, Doing
<1>5. CASE PrepareNotUploaded
  <2>1. TaskUpload \in Upload
    BY <1>5, UploadOfTask DEF PrepareNotUploaded, Doing
  <2> QED
    BY <1>3, <1>5, <2>1, EvidenceStays DEF PrepareNotUploaded, StoredOrNot, UploadFails, Doing
<1>6. CASE ProposeRefused \/ Revoke
  BY <1>6, EvidenceStays DEF ProposeRefused, Revoke, fields, server, Doing
<1>7. CASE Cancel
  BY <1>7, EvidenceStays DEF Cancel, Reset, Blank, server, Doing
<1>8. CASE Approve
  BY <1>8, EvidenceStays DEF Approve, fields, server, Doing
<1>9. CASE UNCHANGED vars
  BY <1>9, EvidenceStays DEF vars, fields, server, Doing
<1>10. ASSUME NEW u \in Upload, Stored(u), UploadSucceeds(u)
       PROVE  /\ Kept(evidenceImagePath)' /\ (~stray' => Holds(evidenceImagePath, evidenceHash, photo)')
              /\ \A d \in Click : Good(d) => Good(d)'
              /\ storage'[u.id] = u.photo /\ u.photo # NoPhoto
  <2>1. /\ storage'[u.id] = u.photo /\ u.photo # NoPhoto
        /\ \A i \in Id : storage[i] # NoPhoto => storage'[i] = storage[i]
    BY <1>10, StoredKeeps
  <2> QED
    BY <1>10, <2>1, GoodStays DEF UploadSucceeds, Kept, Holds
<1>11. \A e \in log : e \in Click /\ Good(e)
  BY DEF Evidence, TypeOK, Draft
<1>12. CASE RetrySucceeds
  <2>1. retry \in Upload /\ Stored(retry) /\ UploadSucceeds(retry)
    BY <1>12 DEF RetrySucceeds, TypeOK
  <2>2. UNCHANGED <<prepared, task, log>>
    BY <1>12 DEF RetrySucceeds
  <2>3. Doing("prepare") => Good(task.draft)'
    BY <1>10, <2>1, <2>2, Tasks DEF Doing, Evidence
  <2>4. prepared # NoDraft => Good(prepared)'
    BY <1>10, <2>1, <2>2, Drafts DEF Evidence
  <2> QED
    BY <1>10, <1>11, <2>1, <2>2, <2>3, <2>4 DEF Evidence, Doing, Good, Kept, Holds
<1>13. CASE PrepareUploaded
  <2>1. TaskUpload \in Upload /\ Stored(TaskUpload) /\ UploadSucceeds(TaskUpload) /\ Doing("upload")
    BY <1>13, UploadOfTask DEF PrepareUploaded, Doing
  <2>2. task.draft \in Click
    BY <1>13, Tasks DEF PrepareUploaded
  <2>3. PICK d \in Click :
          /\ task' = [at |-> "prepare", draft |-> d]
          /\ d.path = task.draft.path /\ d.hash = task.draft.hash
          /\ d.shown = task.draft.shown /\ d.stray = task.draft.stray
    BY <1>13, <2>2, Named DEF PrepareUploaded
  <2>4. storage'[d.path] = d.shown /\ d.shown # NoPhoto /\ d.path # NoId
    BY <1>10, <2>1, <2>3, UploadOfTask DEF Panel
  <2>5. ~d.stray => d.hash \in {NoPhoto, d.shown}
    BY <2>1, <2>3 DEF Evidence
  <2>6. UNCHANGED <<prepared, log>>
    BY <1>13 DEF PrepareUploaded
  <2>7. prepared # NoDraft => Good(prepared)'
    BY <1>10, <2>1, <2>6, Drafts DEF Evidence
  <2>8. Good(d)'
    BY <2>4, <2>5 DEF Good, Kept, Holds
  <2> QED
    BY <1>10, <1>11, <2>1, <2>3, <2>6, <2>7, <2>8 DEF Evidence, Doing, Good, Kept, Holds
<1>14. CASE PrepareUploading
  <2>1. PICK i \in Id : BeginUpload(i) /\ task' = [at |-> "upload", draft |-> AtClick(i)]
    BY <1>14 DEF PrepareUploading
  <2>2. ~AtClick(i).stray => AtClick(i).hash \in {NoPhoto, AtClick(i).shown}
    BY Clicked DEF Evidence, Holds
  <2>3. /\ UNCHANGED <<photo, evidenceImagePath, evidenceHash, stray, storage, log, prepared>>
        /\ prepared = NoDraft
    BY <1>14, <2>1 DEF PrepareUploading, ClickPrepare, BeginUpload, server
  <2> QED
    BY <2>1, <2>2, <2>3 DEF Evidence, Doing, Good, Kept, Holds
<1>15. CASE PrepareAtOnce
  <2>1. PICK i \in Id : task' = [at |-> "prepare", draft |-> [AtClick(evidenceImagePath) EXCEPT !.id = i]]
    BY <1>15 DEF PrepareAtOnce
  <2> DEFINE d == [AtClick(evidenceImagePath) EXCEPT !.id = i]
  <2>2. /\ d.path = evidenceImagePath /\ d.hash = evidenceHash
        /\ d.shown = photo /\ d.stray = stray
    BY Clicked, Named DEF TypeOK
  <2>3. /\ UNCHANGED <<photo, evidenceImagePath, evidenceHash, stray, storage, log, prepared>>
        /\ prepared = NoDraft
        /\ photo = NoPhoto \/ evidenceImagePath # NoId
    BY <1>15 DEF PrepareAtOnce, ClickPrepare, fields, server, Panel
  <2>4. task' = [at |-> "prepare", draft |-> d]
    BY <2>1
  <2> HIDE DEF d
  <2>5. Good(d)
    BY <2>2, <2>3 DEF Evidence, Good, Kept, Holds
  <2> QED
    BY <2>3, <2>4, <2>5 DEF Evidence, Doing, Good, Kept, Holds
<1>16. CASE Propose
  <2>1. Good(task.draft) /\ prepared' = task.draft /\ task' = NoTask
    BY <1>16 DEF Propose, Evidence, Doing
  <2> QED
    BY <1>16, <2>1 DEF Propose, fields, server, Evidence, Doing, Good, Kept, Holds
<1>17. CASE ApproveSucceeds \/ ApproveFails
  <2>1. Good(task.draft) /\ task' = NoTask /\ storage' = storage
    BY <1>17 DEF ApproveSucceeds, ApproveFails, Evidence, Doing, Panel
  <2>2. \A e \in log' : e \in log \/ e = task.draft
    BY <1>17 DEF ApproveSucceeds, ApproveFails, Insert
  <2>3. prepared' \in {prepared, NoDraft}
    BY <1>17 DEF ApproveSucceeds, ApproveFails, Reset
  <2>4. \/ UNCHANGED <<photo, evidenceImagePath, evidenceHash, stray>>
        \/ evidenceImagePath' = NoId /\ evidenceHash' = NoPhoto
    BY <1>17 DEF ApproveSucceeds, ApproveFails, Reset, Blank, fields
  <2> QED
    BY <2>1, <2>2, <2>3, <2>4 DEF Evidence, Doing, Good, Kept, Holds
<1> QED
  BY <1>1, <1>2, <1>4, <1>5, <1>6, <1>7, <1>8, <1>9, <1>12, <1>13, <1>14, <1>15, <1>16, <1>17 DEF Next
-----------------------------------------------------------------------------
(* A step that approves nothing keeps the ids apart, if the id the panel    *)
(* takes, or a preparation takes, is fresh or was there before.            *)
Other(i, d) == i # d.id

LEMMA IdsStay ==
  ASSUME TypeOK, Ids, minted <= minted', minted' \in Nat, approved' = approved,
         confirmationId' <= minted',
         task' # NoTask => task'.draft.id <= minted',
         prepared' # NoDraft => prepared'.id <= minted',
         \A d \in approved : prepared' = d \/ Other(confirmationId', d),
         \A d \in approved : prepared' = d \/ (Doing("upload")' \/ Doing("prepare")' => Other(task'.draft.id, d)),
         \A d \in approved : prepared' # NoDraft /\ prepared'.id = d.id => prepared' = d
  PROVE  Ids'
<1>1. \A d \in approved : d.id \in Nat /\ d.id <= minted /\ minted \in Nat
  BY DEF TypeOK, Ids, Draft, Click
<1>2. \A d \in approved : d.id <= minted'
  BY <1>1
<1>3. \A d, e \in approved : d.id = e.id => d = e
  BY DEF Ids
<1> QED
  BY <1>2, <1>3 DEF Ids, Other

LEMMA Known ==
  ASSUME TypeOK, Ids
  PROVE  /\ minted \in Nat /\ confirmationId \in Nat
         /\ task # NoTask => task.draft.id \in Nat
         /\ \A d \in approved : d.id \in Nat /\ d.id # NoId /\ d.id <= minted /\ d # NoDraft
<1>1. \A d \in approved : d.id \in Nat /\ d.id # NoId /\ d.id <= minted /\ d # NoDraft
  <2>1. \A d \in approved : d # NoDraft
    BY DraftAssumption DEF TypeOK
  <2> QED
    BY <2>1 DEF TypeOK, Ids, Draft, Click
<1>2. task # NoTask => task.draft.id \in Nat
  BY Tasks DEF Click
<1> QED
  BY <1>1, <1>2 DEF TypeOK

LEMMA IdsStep == TypeOK /\ Panel /\ Ids /\ [Next]_vars => Ids'
<1> SUFFICES ASSUME TypeOK, Panel, Ids, [Next]_vars PROVE Ids'
  OBVIOUS
<1> USE Known
<1>1. ASSUME confirmationId' \in {confirmationId, NoId}, approved' = approved, minted' = minted,
             \/ task' = task /\ prepared' = prepared
             \/ /\ task' = NoTask /\ prepared' \in {prepared, NoDraft}
                /\ prepared' = NoDraft => prepared = NoDraft \/ confirmationId' = NoId
      PROVE  Ids'
  <2>1. \A d \in approved : prepared' = d \/ Other(confirmationId', d)
    BY <1>1 DEF Ids, Other
  <2>2. \A d \in approved :
          prepared' = d \/ (Doing("upload")' \/ Doing("prepare")' => Other(task'.draft.id, d))
    BY <1>1 DEF Ids, Other, Doing
  <2>3. \A d \in approved : prepared' # NoDraft /\ prepared'.id = d.id => prepared' = d
    BY <1>1 DEF Ids
  <2>4. /\ confirmationId' <= minted' /\ (task' # NoTask => task'.draft.id <= minted')
        /\ (prepared' # NoDraft => prepared'.id <= minted')
    BY <1>1 DEF Ids
  <2> QED
    BY <1>1, <2>1, <2>2, <2>3, <2>4, IdsStay
<1>2. ASSUME NEW p \in Photo, PickPhoto(p) PROVE Ids'
  BY <1>1, <1>2 DEF PickPhoto, Blank
<1>3. CASE RetrySucceeds \/ RetryFails
  BY <1>1, <1>3 DEF RetrySucceeds, RetryFails, UploadSucceeds, UploadFails
<1>4. CASE PrepareNotUploaded
  BY <1>1, <1>4 DEF PrepareNotUploaded, UploadFails
<1>5. CASE ProposeRefused \/ Cancel \/ ApproveSucceeds \/ ApproveFails \/ Revoke \/ UNCHANGED vars
  BY <1>1, <1>5 DEF ProposeRefused, Cancel, ApproveSucceeds, ApproveFails, Revoke, Reset, Blank, fields, vars
<1>6. ASSUME NEW i \in Id, BeginUpload(i), prepared = NoDraft
      PROVE  /\ minted' \in Nat /\ minted <= minted' /\ confirmationId' = i /\ i <= minted'
             /\ \A d \in approved : Other(i, d)
  <2>1. \/ i = confirmationId /\ minted' = minted
        \/ i = minted + 1 /\ minted' = minted + 1
    BY <1>6, Minting DEF BeginUpload, TypeOK
  <2> QED
    BY <1>6, <2>1, Drafts DEF BeginUpload, Ids, Other, TypeOK
<1>7. CASE RetryUpload
  <2>1. PICK i \in Id : BeginUpload(i)
    BY <1>7 DEF RetryUpload
  <2>2. prepared = NoDraft /\ UNCHANGED <<prepared, task, approved>>
    BY <1>7 DEF RetryUpload
  <2>3. \A d \in approved : prepared' = d \/ Other(confirmationId', d)
    BY <1>6, <2>1, <2>2
  <2>4. \A d \in approved :
          prepared' = d \/ (Doing("upload")' \/ Doing("prepare")' => Other(task'.draft.id, d))
    BY <2>2 DEF Ids, Other, Doing
  <2>5. task' # NoTask => task'.draft.id <= minted'
    BY <1>6, <2>1, <2>2 DEF Ids
  <2> QED
    BY <1>6, <2>1, <2>2, <2>3, <2>4, <2>5, IdsStay
<1>8. CASE PrepareUploading
  <2>1. PICK i \in Id : BeginUpload(i) /\ task' = [at |-> "upload", draft |-> AtClick(i)]
    BY <1>8 DEF PrepareUploading
  <2>2. prepared = NoDraft /\ UNCHANGED <<prepared, approved>>
    BY <1>8 DEF PrepareUploading, ClickPrepare
  <2>3. task'.draft.id = confirmationId
    BY <2>1, Clicked
  <2>4. \A d \in approved : prepared' = d \/ Other(confirmationId', d)
    BY <1>6, <2>1, <2>2
  <2>5. \A d \in approved : prepared' = d \/ Other(task'.draft.id, d)
    BY <2>2, <2>3, Drafts DEF Ids, Other
  <2>6. task'.draft.id <= minted'
    BY <1>6, <2>1, <2>2, <2>3 DEF Ids
  <2> QED
    BY <1>6, <2>1, <2>2, <2>4, <2>5, <2>6, IdsStay
<1>9. ASSUME NEW i \in Id, NEW known \in AnyId, IdOr(known, i), prepared = NoDraft,
             known <= minted, \A d \in approved : prepared = d \/ Other(known, d)
      PROVE  /\ minted' \in Nat /\ minted <= minted' /\ i <= minted'
             /\ \A d \in approved : prepared = d \/ Other(i, d)
  <2>1. \/ i = known /\ minted' = minted
        \/ i = minted + 1 /\ minted' = minted + 1
    BY <1>9, Minting
  <2> QED
    BY <1>9, <2>1 DEF Other
<1>10. CASE PrepareUploaded
  <2>1. task.draft \in Click /\ task.draft.id \in AnyId /\ Doing("upload") /\ prepared = NoDraft
    BY <1>10, Tasks DEF PrepareUploaded, Click, Doing, Panel
  <2>2. PICK i \in Id : IdOr(task.draft.id, i)
                        /\ task' = [at |-> "prepare", draft |-> [task.draft EXCEPT !.id = i]]
    BY <1>10 DEF PrepareUploaded
  <2>3. task'.draft.id = i
    BY <2>1, <2>2, Named
  <2>4. UNCHANGED <<prepared, approved, confirmationId>>
    BY <1>10 DEF PrepareUploaded, UploadSucceeds
  <2>5. /\ minted' \in Nat /\ minted <= minted' /\ i <= minted'
        /\ \A d \in approved : prepared = d \/ Other(i, d)
    BY <1>9, <2>1, <2>2 DEF Ids, Other, Doing
  <2>6. \A d \in approved : prepared' = d \/ Other(confirmationId', d)
    BY <2>4 DEF Ids, Other
  <2>7. confirmationId' <= minted'
    BY <2>4, <2>5 DEF Ids
  <2> QED
    BY <2>1, <2>3, <2>4, <2>5, <2>6, <2>7, IdsStay
<1>11. CASE PrepareAtOnce
  <2>1. PICK i \in Id : IdOr(confirmationId, i)
          /\ task' = [at |-> "prepare", draft |-> [AtClick(evidenceImagePath) EXCEPT !.id = i]]
    BY <1>11 DEF PrepareAtOnce
  <2>2. UNCHANGED <<prepared, approved, confirmationId>> /\ prepared = NoDraft
    BY <1>11 DEF PrepareAtOnce, ClickPrepare, fields
  <2>3. task'.draft.id = i
    BY <2>1, Clicked, Named DEF TypeOK
  <2>4. \A d \in approved : prepared' = d \/ Other(confirmationId', d)
    BY <2>2 DEF Ids, Other
  <2>5. /\ minted' \in Nat /\ minted <= minted' /\ i <= minted'
        /\ \A d \in approved : prepared = d \/ Other(i, d)
    BY <1>9, <2>1, <2>2 DEF Ids, Other, TypeOK
  <2>6. confirmationId' <= minted'
    BY <2>2, <2>5 DEF Ids
  <2> QED
    BY <2>2, <2>3, <2>4, <2>5, <2>6, IdsStay
<1>12. CASE Propose
  <2>1. /\ UNCHANGED <<approved, confirmationId, minted>> /\ task' = NoTask
        /\ prepared' = task.draft /\ Doing("prepare") /\ prepared = NoDraft
    BY <1>12 DEF Propose, fields, Doing, Panel
  <2>2. \A d \in approved : prepared' = d \/ Other(confirmationId', d)
    BY <2>1 DEF Ids, Other
  <2>3. \A d \in approved : prepared' # NoDraft /\ prepared'.id = d.id => prepared' = d
    BY <2>1 DEF Ids
  <2>4. prepared'.id <= minted' /\ confirmationId' <= minted'
    BY <2>1 DEF Ids, Doing
  <2> QED
    BY <2>1, <2>2, <2>3, <2>4, IdsStay DEF Doing
<1>13. CASE Approve
  <2>1. /\ UNCHANGED <<prepared, confirmationId, minted>> /\ prepared # NoDraft
        /\ task' = [at |-> "approve", draft |-> prepared]
        /\ approved' = approved \cup {prepared} /\ prepared.id <= minted
    BY <1>13 DEF Approve, fields, Ids
  <2>2. ~Doing("upload")' /\ ~Doing("prepare")'
    BY <2>1 DEF Doing
  <2>3. \A d \in approved' : d.id <= minted /\ (prepared.id = d.id => prepared = d)
    BY <2>1 DEF Ids
  <2>4. \A d, e \in approved' : d.id = e.id => d = e
    BY <2>1, <2>3 DEF Ids
  <2>5. \A d \in approved' : prepared = d \/ confirmationId # d.id
    BY <2>1 DEF Ids
  <2> QED
    BY <2>1, <2>2, <2>3, <2>4, <2>5 DEF Ids
<1> QED
  BY <1>2, <1>3, <1>4, <1>5, <1>7, <1>8, <1>10, <1>11, <1>12, <1>13 DEF Next

LEMMA RecordStep == TypeOK /\ Panel /\ Ids /\ Record /\ [Next]_vars => Record'
<1> SUFFICES ASSUME TypeOK, Panel, Ids, Record, [Next]_vars PROVE Record'
  OBVIOUS
<1> USE DEF Record
<1>1. CASE UNCHANGED <<log, told>> /\ approved \subseteq approved'
  BY <1>1
<1>2. CASE ApproveSucceeds \/ ApproveFails
  <2>1. task.draft \in approved /\ approved' = approved
    BY <1>2 DEF ApproveSucceeds, ApproveFails, Panel, Doing
  <2>2. /\ log' \subseteq approved /\ log \subseteq log'
        /\ told' \subseteq told \cup {task.draft}
    BY <1>2, <2>1 DEF ApproveSucceeds, ApproveFails, Insert
  <2>3. CASE told' = told
    BY <2>1, <2>2, <2>3
  <2>4. CASE ApproveSucceeds
    <3>1. task.draft \in log'
      <4>1. CASE Insert(task.draft)
        BY <4>1 DEF Insert
      <4>2. CASE Recorded(task.draft.id) /\ UNCHANGED log
        BY <2>1, <4>2 DEF Recorded, Ids
      <4> QED
        BY <2>4, <4>1, <4>2 DEF ApproveSucceeds
    <3> QED
      BY <2>1, <2>2, <3>1
  <2> QED
    BY <1>2, <2>3, <2>4 DEF ApproveFails
<1>3. ASSUME ~ApproveSucceeds, ~ApproveFails PROVE UNCHANGED <<log, told>> /\ approved \subseteq approved'
  BY <1>3 DEF Next, vars, server, PickPhoto, RetryUpload, RetrySucceeds, RetryFails, PrepareUploading,
     PrepareUploaded, PrepareNotUploaded, PrepareAtOnce, Propose, ProposeRefused, Cancel, Approve, Revoke
<1> QED
  BY <1>1, <1>2, <1>3
-----------------------------------------------------------------------------
(* Every state of the panel and the log satisfies the invariant.            *)
THEOREM Invariant == Spec => []IInv
<1>1. IInv /\ [Next]_vars => IInv'
  BY TypeStep, PanelStep, EvidenceStep, IdsStep, RecordStep DEF IInv
<1> QED
  BY <1>1, InitHolds, PTL DEF Spec

(* The types of every variable.                                             *)
THEOREM TypeCorrect == Spec => []TypeOK
<1>1. IInv => TypeOK
  BY DEF IInv
<1> QED
  BY <1>1, Invariant, PTL

(* The bucket holds the photo of every recorded result that names one.      *)
THEOREM Preserved == Spec => []EvidenceIsPreserved
<1>1. IInv => EvidenceIsPreserved
  BY DEF IInv, Evidence, Good, Kept, EvidenceIsPreserved
<1> QED
  BY <1>1, Invariant, PTL

(* A result is recorded with the photo its user was looking at.             *)
THEOREM RightPhoto == Spec => []PhotoOfTheScreen
<1>1. IInv => PhotoOfTheScreen
  BY DEF IInv, Evidence, Good, Holds, PhotoOfTheScreen
<1> QED
  BY <1>1, Invariant, PTL

(* One record for each id, of a draft that was approved, and what the panel *)
(* was told is so.                                                         *)
THEOREM OneRecord == Spec => []RecordedAsApproved
<1>1. IInv => RecordedAsApproved
  <2> SUFFICES ASSUME IInv PROVE RecordedAsApproved
    OBVIOUS
  <2>1. log \subseteq approved /\ told \subseteq log
    BY DEF IInv, Record
  <2>2. \A d, e \in approved : d.id = e.id => d = e
    BY DEF IInv, Ids
  <2> QED
    BY <2>1, <2>2 DEF RecordedAsApproved
<1> QED
  BY <1>1, Invariant, PTL
(***************************************************************************)
(* Reviewing a result                                                      *)
(***************************************************************************)
(* What the log says was read, in any field and as a field's: all of it and *)
(* what began before its i-th event.                                        *)
ReadNow == Read(InLog)
ReadAsNow(f) == ReadAs(InLog, f)
ReadBefore(i) == Read(Earlier(i))
ReadAsBefore(i, f) == ReadAs(Earlier(i), f)

(* What a row says is true of what was read; a row that names no reading is *)
(* manual.                                                                  *)
Sound(row, read, readAs) ==
    /\ row.ocrValue # None => row.ocrValue \in read
    /\ row.ocrValue = None => row.source = "manual"
    /\ row.source = "ocr_confirmed" => row.value \in read
    /\ row.source = "ocr_confirmed" /\ readAs \subseteq {row.ocrValue} => row.value = row.ocrValue

SoundNow(row) == Sound(row, ReadNow, ReadAsNow(row.field))
SoundRows(list) == \A k \in DOMAIN list : SoundNow(list[k])
SoundEvent(e) == e.type = "verify" /\ e.entries # None => SoundRows(e.entries)

(* The rows on the screens, the drafts and what was sent are true of what   *)
(* the log holds; a review, of what it holds before it.                     *)
RowsSound ==
    /\ \A m \in Member : SoundRows(rows[m])
    /\ \A m \in Member, k \in Kind : draft[m][k] # None => SoundEvent(draft[m][k])
    /\ \A e \in sent : SoundEvent(e)

LogSound ==
    \A i \in DOMAIN begun :
        begun[i].type = "verify" /\ begun[i].entries # None =>
            \A k \in DOMAIN begun[i].entries :
                LET row == begun[i].entries[k] IN
                Sound(row, ReadBefore(i), ReadAsBefore(i, row.field))

ReviewInv == ReviewTypeOK /\ ScreensTellTheLog /\ RowsSound /\ LogSound
-----------------------------------------------------------------------------
(* Induction up to L, over a set: what holds at 0 and at every next number. *)
LEMMA UpTo ==
  ASSUME NEW L \in Nat, NEW S, 0 \in S, \A n \in 1 .. L : n - 1 \in S => n \in S
  PROVE  \A n \in 0 .. L : n \in S
<1> DEFINE Missed == {n \in 0 .. L : n \notin S}
<1> SUFFICES ASSUME Missed # {} PROVE FALSE
  OBVIOUS
<1>1. Missed \subseteq Nat
  OBVIOUS
<1>2. PICK m \in Missed : \A n \in Missed : ~(<<n, m>> \in OpToRel(<, Nat))
  <2> HIDE DEF Missed
  <2> QED
    BY <1>1, NatLessThanWellFounded, WFMin
<1>3. \A n \in Missed : ~(n < m)
  BY <1>1, <1>2 DEF OpToRel
<1>4. m \in 1 .. L
  OBVIOUS
<1>5. m - 1 \notin Missed
  BY <1>3, <1>4
<1> QED
  BY <1>4, <1>5

(* A set of numbers up to L that is not empty has a greatest one.           *)
LEMMA MaxIs ==
  ASSUME NEW L \in Nat, NEW S \in SUBSET (1 .. L), S # {}
  PROVE  Max(S) \in S /\ \A k \in S : k <= Max(S)
<1> DEFINE Ages == {L - k : k \in S}
<1>1. Ages \subseteq Nat /\ Ages # {}
  <2>1. \A k \in S : k \in 1 .. L /\ L - k \in Nat
    OBVIOUS
  <2>2. PICK k \in S : TRUE
    OBVIOUS
  <2>3. L - k \in Ages
    OBVIOUS
  <2> QED
    BY <2>1, <2>3
<1>2. PICK m \in Ages : \A n \in Ages : ~(<<n, m>> \in OpToRel(<, Nat))
  <2> HIDE DEF Ages
  <2> QED
    BY <1>1, NatLessThanWellFounded, WFMin
<1>3. \A n \in Ages : ~(n < m)
  BY <1>1, <1>2 DEF OpToRel
<1>4. PICK k \in S : m = L - k
  OBVIOUS
<1>5. ASSUME NEW j \in S PROVE j <= k /\ k >= j
  <2>1. ~(L - j < L - k)
    BY <1>3, <1>4
  <2> QED
    BY <2>1
<1> QED
  BY <1>5 DEF Max


LEMMA Logs ==
  ASSUME ReviewTypeOK
  PROVE  /\ Len(begun) \in Nat /\ DOMAIN begun = 1 .. Len(begun)
         /\ Len(stored) \in Nat /\ InLog \subseteq DOMAIN begun
         /\ \A n \in 0 .. Len(stored) : Seen(n) \subseteq InLog
         /\ \A i \in DOMAIN begun :
              /\ begun[i] \in Event
              /\ begun[i].type \in {"ocr", "verify"}
              /\ begun[i].type = "ocr" =>
                   /\ begun[i].status \in OcrStatus
                   /\ begun[i].entries \in Reading \cup {None}
              /\ begun[i].type = "verify" =>
                   /\ begun[i].status \in Verification
                   /\ begun[i].entries \in Rows \cup {None}
<1>1. /\ Len(begun) \in Nat /\ DOMAIN begun = 1 .. Len(begun)
      /\ \A i \in DOMAIN begun : begun[i] \in Event
  BY DEF ReviewTypeOK
<1>2. \A e \in Event :
        /\ e.type \in {"ocr", "verify"}
        /\ e.type = "ocr" => e.status \in OcrStatus /\ e.entries \in Reading \cup {None}
        /\ e.type = "verify" => e.status \in Verification /\ e.entries \in Rows \cup {None}
  BY DEF Event
<1>3. Len(stored) \in Nat /\ \A k \in 1 .. Len(stored) : stored[k] \in DOMAIN begun
  BY DEF ReviewTypeOK
<1>4. InLog \subseteq DOMAIN begun
  BY <1>3 DEF InLog, Seen
<1>5. \A n \in 0 .. Len(stored) : Seen(n) \subseteq InLog
  <2>1. \A n \in 0 .. Len(stored) : \A k \in 1 .. n : k \in 1 .. Len(stored)
    BY <1>3
  <2> QED
    BY <2>1 DEF InLog, Seen
<1> QED
  BY <1>1, <1>2, <1>3, <1>4, <1>5

(* What was read, and what was read as a field's, event by event.           *)
LEMMA ReadIs ==
  ASSUME NEW S, NEW x
  PROVE  x \in Read(S) <=>
           \E i \in S : /\ begun[i].type = "ocr" /\ begun[i].entries # None
                        /\ \E k \in DOMAIN begun[i].entries : x = begun[i].entries[k].value
<1>1. x \in Read(S) <=> \E y \in EntriesIn(Runs(S)) : x = y.value
  BY DEF Read
<1>2. \A y : y \in EntriesIn(Runs(S)) <=>
           \E i \in S : /\ begun[i].type = "ocr" /\ begun[i].entries # None
                        /\ \E k \in DOMAIN begun[i].entries : y = begun[i].entries[k]
  BY DEF EntriesIn, WithEntries, Runs, IsRun, Range
<1> QED
  BY <1>1, <1>2

LEMMA ReadAsIs ==
  ASSUME NEW S, NEW f, NEW x
  PROVE  x \in ReadAs(S, f) <=>
           /\ x # None
           /\ \E i \in S :
                /\ begun[i].entries # None
                /\ \E k \in DOMAIN begun[i].entries :
                     /\ begun[i].entries[k].field = f
                     /\ \/ begun[i].type = "ocr" /\ x = begun[i].entries[k].value
                        \/ begun[i].type = "verify" /\ x = begun[i].entries[k].ocrValue
<1>1. x \in ReadAs(S, f) <=>
        /\ x # None
        /\ \/ \E y \in EntriesIn(Runs(S)) : y.field = f /\ x = y.value
           \/ \E y \in EntriesIn(Decisions(S)) : y.field = f /\ x = y.ocrValue
  BY DEF ReadAs, In
<1>2. \A y : y \in EntriesIn(Runs(S)) <=>
           \E i \in S : /\ begun[i].type = "ocr" /\ begun[i].entries # None
                        /\ \E k \in DOMAIN begun[i].entries : y = begun[i].entries[k]
  BY DEF EntriesIn, WithEntries, Runs, IsRun, Range
<1>3. \A y : y \in EntriesIn(Decisions(S)) <=>
           \E i \in S : /\ begun[i].type = "verify" /\ begun[i].entries # None
                        /\ \E k \in DOMAIN begun[i].entries : y = begun[i].entries[k]
  BY DEF EntriesIn, WithEntries, Decisions, IsDecision, Range
<1> QED
  BY <1>1, <1>2, <1>3

(* What the log says was read, with the log as it is then.                  *)
Reads(read, S) ==
    \A x : x \in read <=>
        \E i \in S : /\ begun[i].type = "ocr" /\ begun[i].entries # None
                     /\ \E k \in DOMAIN begun[i].entries : x = begun[i].entries[k].value
ReadsAs(read, S, f) ==
    \A x : x \in read <=>
        /\ x # None
        /\ \E i \in S :
             /\ begun[i].entries # None
             /\ \E k \in DOMAIN begun[i].entries :
                  /\ begun[i].entries[k].field = f
                  /\ \/ begun[i].type = "ocr" /\ x = begun[i].entries[k].value
                     \/ begun[i].type = "verify" /\ x = begun[i].entries[k].ocrValue

LEMMA ReadsAre ==
  /\ Reads(ReadNow, InLog) /\ \A f : ReadsAs(ReadAsNow(f), InLog, f)
  /\ \A i : Reads(ReadBefore(i), Earlier(i)) /\ \A f : ReadsAs(ReadAsBefore(i, f), Earlier(i), f)
  BY ReadIs, ReadAsIs DEF Reads, ReadsAs, ReadNow, ReadAsNow, ReadBefore, ReadAsBefore

(* What was read stays read as the log grows.                               *)
LEMMA ReadsGrow ==
  ASSUME InLog \subseteq InLog', \A i \in InLog : begun'[i] = begun[i]
  PROVE  /\ ReadNow \subseteq ReadNow' /\ \A f : ReadAsNow(f) \subseteq ReadAsNow(f)'
         /\ \A i : /\ ReadBefore(i) \subseteq ReadBefore(i)'
                   /\ \A f : ReadAsBefore(i, f) \subseteq ReadAsBefore(i, f)'
<1> DEFINE Now == Reads(ReadNow, InLog) /\ \A f : ReadsAs(ReadAsNow(f), InLog, f)
           Then == \A i : Reads(ReadBefore(i), Earlier(i))
                          /\ \A f : ReadsAs(ReadAsBefore(i, f), Earlier(i), f)
<1>1. Now /\ Then
  BY ReadsAre
<1>2. Now' /\ Then'
  BY ReadsAre, PTL
<1>3. \A i : Earlier(i) \subseteq Earlier(i)' /\ \A j \in Earlier(i) : begun'[j] = begun[j]
  BY DEF Earlier
<1>4. ReadNow \subseteq ReadNow' /\ \A f : ReadAsNow(f) \subseteq ReadAsNow(f)'
  BY <1>1, <1>2 DEF Reads, ReadsAs
<1>5. \A i : /\ ReadBefore(i) \subseteq ReadBefore(i)'
             /\ \A f : ReadAsBefore(i, f) \subseteq ReadAsBefore(i, f)'
  BY <1>1, <1>2, <1>3 DEF Reads, ReadsAs
<1> QED
  BY <1>4, <1>5

LEMMA StillSound ==
  ASSUME NEW row, NEW read, NEW readAs, NEW more, NEW moreAs,
         read \subseteq more, readAs \subseteq moreAs, Sound(row, read, readAs)
  PROVE  Sound(row, more, moreAs)
  BY DEF Sound

(* The event that comes last speaks for the set.                            *)
LEMMA LastIs ==
  ASSUME ReviewTypeOK, NEW n \in 1 .. Len(begun), NEW S \in SUBSET (1 .. n - 1)
  PROVE  Last(S \cup {n}) = begun[n]
<1> DEFINE T == S \cup {n}
<1>1. n \in Nat \ {0}
  BY Logs
<1>a. T \in SUBSET (1 .. n) /\ n \in T
  BY <1>1
<1> HIDE DEF T
<1>b. Max(T) \in 1 .. n /\ n <= Max(T)
  BY <1>1, <1>a, MaxIs
<1>2. Max(S \cup {n}) = n
  BY <1>1, <1>b DEF T
<1> QED
  BY <1>2 DEF Last

(* One event more of those seen is one step more of the fold.               *)
LEMMA SaysNext ==
  ASSUME ReviewTypeOK, NEW V, NEW n \in V, n \in 1 .. Len(begun)
  PROVE  Says(V \cap (1 .. n)) = FoldStep(Says(V \cap (1 .. n - 1)), begun[n])
<1> DEFINE e == begun[n]
           now == V \cap (1 .. n)
           then == V \cap (1 .. n - 1)
           before == Says(then)
<1>1. n \in Nat /\ e.type \in {"ocr", "verify"}
  BY Logs
<1>2. \A i : i \in now <=> i \in then \/ i = n
  BY <1>1
<1>3. /\ Runs(then) \in SUBSET (1 .. n - 1) /\ Decisions(then) \in SUBSET (1 .. n - 1)
      /\ WithEntries(Runs(then)) \in SUBSET (1 .. n - 1)
      /\ WithEntries(Decisions(then)) \in SUBSET (1 .. n - 1)
  BY DEF Runs, Decisions, WithEntries
<1> HIDE DEF now, then
<1>4. before = [ocr |-> before.ocr, reading |-> before.reading,
                verification |-> before.verification, fields |-> before.fields]
  BY DEF Says
<1>5. CASE e.type = "ocr"
  <2>1. /\ Runs(now) = Runs(then) \cup {n} /\ Decisions(now) = Decisions(then)
        /\ WithEntries(Runs(now)) = WithEntries(Runs(then)) \cup (IF e.entries = None THEN {} ELSE {n})
    BY <1>2, <1>5 DEF Runs, Decisions, WithEntries, IsRun, IsDecision
  <2>2. Says(now) = [ocr |-> e.status, reading |-> IF e.entries = None THEN before.reading ELSE e.entries,
                   verification |-> before.verification, fields |-> before.fields]
    BY <1>3, <2>1, LastIs DEF Says
  <2>3. FoldStep(before, e) = [before EXCEPT !.ocr = e.status, !.reading = Or(e.entries, @)]
    BY <1>5 DEF FoldStep
  <2> HIDE DEF before, e
  <2>4. FoldStep(before, e) = [ocr |-> e.status,
                   reading |-> IF e.entries = None THEN before.reading ELSE e.entries,
                   verification |-> before.verification, fields |-> before.fields]
    BY <1>4, <2>3 DEF Or
  <2> QED
    BY <2>2, <2>4 DEF before, e, now, then
<1>6. CASE e.type = "verify"
  <2>1. /\ Decisions(now) = Decisions(then) \cup {n} /\ Runs(now) = Runs(then)
        /\ WithEntries(Decisions(now))
             = WithEntries(Decisions(then)) \cup (IF e.entries = None THEN {} ELSE {n})
    BY <1>2, <1>6 DEF Runs, Decisions, WithEntries, IsRun, IsDecision
  <2>2. Says(now) = [ocr |-> before.ocr, reading |-> before.reading, verification |-> e.status,
                   fields |-> IF e.entries = None THEN before.fields ELSE e.entries]
    BY <1>3, <2>1, LastIs DEF Says
  <2>3. FoldStep(before, e) = [before EXCEPT !.verification = e.status, !.fields = Or(e.entries, @)]
    BY <1>6 DEF FoldStep
  <2> HIDE DEF before, e
  <2>4. FoldStep(before, e) = [ocr |-> before.ocr, reading |-> before.reading,
                   verification |-> e.status,
                   fields |-> IF e.entries = None THEN before.fields ELSE e.entries]
    BY <1>4, <2>3 DEF Or
  <2> QED
    BY <2>2, <2>4 DEF before, e, now, then
<1> QED
  BY <1>1, <1>5, <1>6

(* The function that Fold defines, by its equation.                         *)
Viewed(f, seen, m) ==
    f = [i \in 0 .. m |-> IF i = 0 THEN JustCaptured
                          ELSE IF i \in seen THEN FoldStep(f[i - 1], begun[i]) ELSE f[i - 1]]

(* The fold of what was seen is what its events say.                        *)
LEMMA Folded ==
  ASSUME ReviewTypeOK, NEW V \in SUBSET DOMAIN begun
  PROVE  Fold(V) = Says(V)
<1> DEFINE L == Len(begun)
           f == [n \in 0 .. L |-> Says(V \cap (1 .. n))]
           g == CHOOSE g : Viewed(g, V, L)
<1>1. L \in Nat /\ DOMAIN begun = 1 .. L
  BY Logs
<1>2. Says(V \cap (1 .. 0)) = JustCaptured
  <2>0. V \cap (1 .. 0) = {}
    OBVIOUS
  <2>1. Runs({}) = {} /\ Decisions({}) = {} /\ WithEntries({}) = {}
    BY DEF Runs, Decisions, WithEntries
  <2> QED
    BY <2>0, <2>1 DEF Says, JustCaptured
<1>3. \A n \in 1 .. L : /\ n \in 0 .. L /\ n - 1 \in 0 .. L /\ n # 0
                        /\ f[n] = IF n \in V THEN FoldStep(f[n - 1], begun[n]) ELSE f[n - 1]
  <2>1. \A n \in 1 .. L : n \in 0 .. L /\ n - 1 \in 0 .. L /\ n # 0
    BY <1>1
  <2>2. \A n \in 1 .. L : n \notin V => V \cap (1 .. n) = V \cap (1 .. n - 1)
    BY <1>1
  <2>3. ASSUME NEW n \in 1 .. L
        PROVE  f[n] = IF n \in V THEN FoldStep(f[n - 1], begun[n]) ELSE f[n - 1]
    <3>1. CASE n \in V
      BY <2>1, <3>1, SaysNext
    <3>2. CASE n \notin V
      BY <2>1, <2>2, <3>2
    <3> QED
      BY <3>1, <3>2
  <2> HIDE DEF f
  <2> QED
    BY <2>1, <2>3
<1>4. Viewed(f, V, L)
  <2>1. f = [n \in 0 .. L |-> f[n]] /\ f[0] = JustCaptured
    BY <1>1, <1>2
  <2>2. \A n \in 0 .. L : f[n] = IF n = 0 THEN JustCaptured
                                 ELSE IF n \in V THEN FoldStep(f[n - 1], begun[n]) ELSE f[n - 1]
    <3> HIDE DEF f
    <3>1. \A n \in 0 .. L : n = 0 \/ n \in 1 .. L
      BY <1>1
    <3> QED
      BY <1>3, <2>1, <3>1
  <2> HIDE DEF f, L
  <2> QED
    BY <2>1, <2>2 DEF Viewed
<1>5. Viewed(g, V, L)
  BY <1>4
<1>6. Fold(V) = g[L]
  BY DEF Fold, Viewed
<1> DEFINE S == {n \in 0 .. L : g[n] = Says(V \cap (1 .. n))}
<1> HIDE DEF g
<1>7. 0 \in S
  BY <1>1, <1>2, <1>5 DEF Viewed
<1>8. \A n \in 1 .. L : n - 1 \in S => n \in S
  <2>1. \A n \in 1 .. L : /\ n \in 0 .. L /\ n - 1 \in 0 .. L /\ n # 0
                          /\ f[n] = Says(V \cap (1 .. n)) /\ f[n - 1] = Says(V \cap (1 .. n - 1))
                          /\ f[n] = IF n \in V THEN FoldStep(f[n - 1], begun[n]) ELSE f[n - 1]
    BY <1>3
  <2> HIDE DEF f
  <2>2. \A n \in 1 .. L : g[n] = IF n \in V THEN FoldStep(g[n - 1], begun[n]) ELSE g[n - 1]
    BY <1>1, <1>5, <2>1 DEF Viewed
  <2> QED
    BY <2>1, <2>2
<1>9. L \in S
  <2> HIDE DEF S, L
  <2> QED
    BY <1>1, <1>7, <1>8, UpTo
<1>10. V \cap (1 .. L) = V
  BY <1>1
<1> QED
  BY <1>6, <1>9, <1>10

LEMMA Captures == captured \in Captured => Typed \in Rows
<1> SUFFICES ASSUME captured \in Captured PROVE Typed \in Rows
  OBVIOUS
<1>1. captured \in Seq(Figure)
  BY ReviewAssumption
<1>2. /\ Len(captured) \in Nat /\ DOMAIN captured = 1 .. Len(captured)
      /\ \A i \in DOMAIN captured : captured[i] \in Figure
  BY <1>1
<1>3. \A i \in DOMAIN captured :
        [field |-> captured[i].field, ocrValue |-> None, value |-> captured[i].value, source |-> "manual"]
          \in Row
  BY <1>2 DEF Figure, Row, Source
<1> QED
  BY <1>2, <1>3 DEF Typed, Rows

LEMMA Viewable ==
  ASSUME ReviewTypeOK, NEW V \in SUBSET DOMAIN begun
  PROVE  Says(V) \in View
<1>0. Len(begun) \in Nat /\ DOMAIN begun = 1 .. Len(begun)
  BY Logs
<1>1. /\ Runs(V) \in SUBSET DOMAIN begun /\ Decisions(V) \in SUBSET DOMAIN begun
      /\ WithEntries(Runs(V)) \in SUBSET Runs(V) /\ WithEntries(Decisions(V)) \in SUBSET Decisions(V)
  BY DEF Runs, Decisions, WithEntries
<1>2. \A S \in SUBSET DOMAIN begun : S # {} => Max(S) \in S
  BY <1>0, MaxIs
<1>3. Runs(V) # {} => Last(Runs(V)).status \in OcrStatus
  BY <1>1, <1>2, Logs DEF Last, Runs, IsRun
<1>4. WithEntries(Runs(V)) # {} => Last(WithEntries(Runs(V))).entries \in Reading \cup {None}
  BY <1>1, <1>2, Logs DEF Last, Runs, IsRun
<1>5. Decisions(V) # {} => Last(Decisions(V)).status \in Verification
  BY <1>1, <1>2, Logs DEF Last, Decisions, IsDecision
<1>6. WithEntries(Decisions(V)) # {} => Last(WithEntries(Decisions(V))).entries \in Rows
  <2>1. ASSUME NEW i \in WithEntries(Decisions(V)) PROVE begun[i].entries \in Rows
    BY <1>1, <2>1, Logs DEF WithEntries, Decisions, IsDecision
  <2> QED
    BY <1>1, <1>2, <2>1 DEF Last
<1>7. Typed \in Rows
  BY Captures DEF ReviewTypeOK
<1> QED
  BY <1>3, <1>4, <1>5, <1>6, <1>7 DEF Says, View

(* A screen that was loaded shows what the log said when it was read.       *)
LEMMA Loaded ==
  ASSUME ReviewTypeOK, NEW n \in 0 .. Len(stored)
  PROVE  Fold(Seen(n)) \in View /\ Fold(Seen(n)) = Says(Seen(n))
<1>1. Seen(n) \in SUBSET DOMAIN begun
  BY Logs
<1> QED
  BY <1>1, Folded, Viewable

(* The function that Filled defines, by its equation.                       *)
Sifted(f, list, m) ==
    f = [n \in 0 .. m |->
            IF n = 0 THEN <<>>
            ELSE IF list[n].field # None /\ list[n].value # None THEN Append(f[n - 1], list[n])
            ELSE f[n - 1]]

LEMMA SiftedIs ==
  ASSUME NEW L \in Nat, NEW list
  PROVE  \E f : Sifted(f, list, L)
<1> DEFINE S == {m \in 0 .. L : \E f : Sifted(f, list, m)}
<1>1. 0 \in S
  <2> DEFINE f == [n \in 0 .. 0 |-> <<>>]
  <2>1. \A n \in 0 .. 0 : n = 0
    OBVIOUS
  <2>2. Sifted(f, list, 0)
    BY <2>1 DEF Sifted
  <2> QED
    BY <2>2
<1>2. ASSUME NEW m \in 1 .. L, m - 1 \in S PROVE m \in S
  <2>1. PICK f : Sifted(f, list, m - 1)
    BY <1>2
  <2> DEFINE next == IF list[m].field # None /\ list[m].value # None
                     THEN Append(f[m - 1], list[m]) ELSE f[m - 1]
             h == [n \in 0 .. m |-> IF n = m THEN next ELSE f[n]]
  <2>2. /\ m \in Nat /\ m # 0 /\ m - 1 \in 0 .. m /\ m - 1 # m
        /\ \A n \in 0 .. m : n = m \/ (n \in 0 .. m - 1 /\ n # m)
        /\ \A n \in 0 .. m - 1 : n # 0 => n - 1 \in 0 .. m - 1 /\ n - 1 \in 0 .. m /\ n - 1 # m
    OBVIOUS
  <2>3. h[m - 1] = f[m - 1] /\ h[m] = next
    BY <2>2
  <2>4. \A n \in 0 .. m - 1 : /\ h[n] = f[n]
                              /\ n # 0 => h[n - 1] = f[n - 1]
    BY <2>2
  <2>5. \A n \in 0 .. m - 1 :
          f[n] = IF n = 0 THEN <<>>
                 ELSE IF list[n].field # None /\ list[n].value # None THEN Append(f[n - 1], list[n])
                 ELSE f[n - 1]
    BY <2>1 DEF Sifted
  <2>6. h = [n \in 0 .. m |-> h[n]]
    OBVIOUS
  <2> HIDE DEF h
  <2>7. \A n \in 0 .. m :
          h[n] = IF n = 0 THEN <<>>
                 ELSE IF list[n].field # None /\ list[n].value # None THEN Append(h[n - 1], list[n])
                 ELSE h[n - 1]
    BY <2>2, <2>3, <2>4, <2>5
  <2>8. Sifted(h, list, m)
    BY <2>6, <2>7 DEF Sifted
  <2> QED
    BY <2>8
<1>3. L \in S
  <2> HIDE DEF S
  <2> QED
    BY <1>1, <1>2, UpTo
<1> QED
  BY <1>3

(* What is sent of a panel are rows of the panel.                           *)
LEMMA FilledIs ==
  ASSUME NEW list \in Rows
  PROVE  /\ Filled(list) \in Rows
         /\ \A k \in DOMAIN Filled(list) : \E i \in DOMAIN list : Filled(list)[k] = list[i]
<1> DEFINE L == Len(list)
           T == {list[i] : i \in DOMAIN list}
           g == CHOOSE g : Sifted(g, list, L)
           From == {n \in 0 .. L : g[n] \in Seq(T)}
<1>1. L \in Nat /\ DOMAIN list = 1 .. L /\ \A i \in 1 .. L : list[i] \in Row /\ list[i] \in T
  BY DEF Rows
<1>2. Sifted(g, list, L)
  <2> HIDE DEF L
  <2> QED
    BY <1>1, SiftedIs
<1>3. Filled(list) = g[L]
  BY DEF Filled, Sifted
<1>4. T \subseteq Row
  BY <1>1
<1>4a. \A n \in 1 .. L : list[n] \in T
  BY <1>1
<1> HIDE DEF g, T
<1>5. 0 \in From
  BY <1>1, <1>2 DEF Sifted
<1>6. \A n \in 1 .. L : n - 1 \in From => n \in From
  <2> HIDE DEF L
  <2>1. ASSUME NEW n \in 1 .. L, n - 1 \in From PROVE n \in From
    <3>1. n \in 0 .. L /\ n # 0 /\ g[n - 1] \in Seq(T) /\ list[n] \in T
      BY <1>1, <1>4a, <2>1
    <3>2. g[n] = IF list[n].field # None /\ list[n].value # None THEN Append(g[n - 1], list[n])
                 ELSE g[n - 1]
      BY <1>2, <3>1 DEF Sifted
    <3>3. Append(g[n - 1], list[n]) \in Seq(T)
      BY <3>1
    <3> QED
      BY <3>1, <3>2, <3>3
  <2> QED
    BY <2>1
<1>7. L \in From
  <2> HIDE DEF From, L
  <2> QED
    BY <1>1, <1>5, <1>6, UpTo
<1>8. Filled(list) \in Seq(T)
  BY <1>3, <1>7
<1>9. /\ Filled(list) \in Seq(Row)
      /\ \A k \in DOMAIN Filled(list) : Filled(list)[k] \in T
  BY <1>4, <1>8
<1> QED
  BY <1>9 DEF T, Rows

(* The first rows of a panel: one for each figure read.                     *)
LEMMA RowsAre ==
  ASSUME NEW v \in View, v.reading # None, NEW i \in DOMAIN v.reading
  PROVE  LET existing == {k \in DOMAIN v.fields : v.fields[k].field = v.reading[i].field} IN
         /\ i \in DOMAIN RowsOf(v)
         /\ existing # {} => Max(existing) \in existing
         /\ RowsOf(v)[i] =
              [field |-> v.reading[i].field, ocrValue |-> v.reading[i].value,
               value |-> IF existing = {} THEN v.reading[i].value ELSE v.fields[Max(existing)].value,
               source |-> IF existing = {} THEN "ocr_confirmed" ELSE v.fields[Max(existing)].source]
<1> DEFINE existing == {k \in DOMAIN v.fields : v.fields[k].field = v.reading[i].field}
<1>1. v.fields \in Seq(Row)
  BY DEF View, Rows
<1>2. existing # {} => Max(existing) \in existing
  <2>1. Len(v.fields) \in Nat /\ existing \in SUBSET (1 .. Len(v.fields))
    BY <1>1
  <2> HIDE DEF existing
  <2> QED
    BY <2>1, MaxIs
<1> QED
  BY <1>2 DEF RowsOf

LEMMA RowsMade ==
  ASSUME NEW v \in View
  PROVE  RowsOf(v) \in Rows
<1>1. v.reading \in Reading \cup {None} /\ v.fields \in Seq(Row)
  BY DEF View, Rows
<1>2. CASE v.reading = None
  BY <1>2 DEF RowsOf, Rows
<1>3. CASE v.reading # None
  <2>1. /\ Len(v.reading) \in Nat /\ DOMAIN v.reading = 1 .. Len(v.reading)
        /\ \A i \in DOMAIN v.reading : v.reading[i] \in Figure
    BY <1>1, <1>3 DEF Reading
  <2>2. RowsOf(v) = [i \in 1 .. Len(v.reading) |-> RowsOf(v)[i]]
    BY <1>3, <2>1 DEF RowsOf
  <2>3. ASSUME NEW i \in DOMAIN v.reading PROVE RowsOf(v)[i] \in Row
    <3> DEFINE existing == {k \in DOMAIN v.fields : v.fields[k].field = v.reading[i].field}
    <3>1. existing # {} => v.fields[Max(existing)] \in Row
      <4>1. existing # {} => Max(existing) \in existing
        BY <1>3, RowsAre
      <4>2. \A k \in DOMAIN v.fields : v.fields[k] \in Row
        BY <1>1
      <4> QED
        BY <4>1, <4>2
    <3>2. RowsOf(v)[i] =
            [field |-> v.reading[i].field, ocrValue |-> v.reading[i].value,
             value |-> IF existing = {} THEN v.reading[i].value ELSE v.fields[Max(existing)].value,
             source |-> IF existing = {} THEN "ocr_confirmed" ELSE v.fields[Max(existing)].source]
      BY <1>3, RowsAre
    <3>3. v.reading[i].field \in Field /\ v.reading[i].value \in Value
      BY <2>1 DEF Figure
    <3> HIDE DEF existing
    <3> QED
      BY <3>1, <3>2, <3>3 DEF Row, Source
  <2> QED
    BY <2>1, <2>2, <2>3 DEF Rows
<1> QED
  BY <1>2, <1>3

LEMMA InitReview == ReviewInit => ReviewInv
<1> SUFFICES ASSUME ReviewInit PROVE ReviewInv
  OBVIOUS
<1>1. /\ captured \in Captured /\ begun = <<>> /\ stored = <<>> /\ sent = {}
      /\ screen = [m \in Member |-> JustCaptured] /\ rows = [m \in Member |-> <<>>]
      /\ draft = [m \in Member |-> NoDrafts] /\ drafted = 0 /\ edits = 0
  BY DEF ReviewInit
<1>2. JustCaptured \in View
  BY <1>1, Captures DEF JustCaptured, View
<1>3. ReviewTypeOK
  <2>1. <<>> \in Rows /\ begun \in Seq(Event) /\ stored \in Seq(DOMAIN begun)
    BY <1>1 DEF Rows
  <2> QED
    BY <1>1, <1>2, <2>1, ReviewAssumption DEF ReviewTypeOK, NoDrafts
<1>4. Len(stored) = 0 /\ Says(Seen(0)) = JustCaptured
  <2>1. Len(stored) = 0 /\ Seen(0) = {}
    BY <1>1 DEF Seen
  <2>2. Runs({}) = {} /\ Decisions({}) = {} /\ WithEntries({}) = {}
    BY DEF Runs, Decisions, WithEntries
  <2> QED
    BY <2>1, <2>2 DEF Says, JustCaptured
<1>5. ScreensTellTheLog
  <2>1. 0 \in 0 .. Len(stored) /\ \A m \in Member : screen[m] = Says(Seen(0))
    BY <1>1, <1>4
  <2> QED
    BY <2>1 DEF ScreensTellTheLog
<1>6. RowsSound /\ LogSound
  <2>1. SoundRows(<<>>)
    BY DEF SoundRows
  <2> QED
    BY <1>1, <2>1 DEF RowsSound, LogSound, NoDrafts
<1> QED
  BY <1>3, <1>5, <1>6 DEF ReviewInv
-----------------------------------------------------------------------------
(* The log says what it said while the inserts that were seen are the same. *)
LEMMA SaysSame ==
  ASSUME ReviewTypeOK, captured' = captured, NEW V \in SUBSET DOMAIN begun,
         \A i \in DOMAIN begun : begun'[i] = begun[i]
  PROVE  Says(V)' = Says(V)
<1>1. \A i \in V : begun'[i] = begun[i]
  OBVIOUS
<1>2. Runs(V)' = Runs(V) /\ Decisions(V)' = Decisions(V)
  BY <1>1 DEF Runs, Decisions, IsRun, IsDecision
<1>3. /\ WithEntries(Runs(V))' = WithEntries(Runs(V))
      /\ WithEntries(Decisions(V))' = WithEntries(Decisions(V))
  BY <1>1, <1>2 DEF WithEntries, Runs, Decisions
<1>4. /\ Runs(V) \in SUBSET V /\ Decisions(V) \in SUBSET V
      /\ WithEntries(Runs(V)) \in SUBSET V /\ WithEntries(Decisions(V)) \in SUBSET V
  BY DEF Runs, Decisions, WithEntries
<1>5. \A T \in SUBSET V : T # {} => begun'[Max(T)] = begun[Max(T)]
  <2>1. ASSUME NEW T \in SUBSET V, T # {} PROVE Max(T) \in T
    BY <2>1, Logs, MaxIs
  <2> QED
    BY <1>1, <2>1
<1>6. /\ Runs(V) # {} => Last(Runs(V))' = Last(Runs(V))
      /\ Decisions(V) # {} => Last(Decisions(V))' = Last(Decisions(V))
      /\ WithEntries(Runs(V)) # {} => Last(WithEntries(Runs(V)))' = Last(WithEntries(Runs(V)))
      /\ WithEntries(Decisions(V)) # {}
           => Last(WithEntries(Decisions(V)))' = Last(WithEntries(Decisions(V)))
  BY <1>2, <1>3, <1>4, <1>5 DEF Last
<1>7. Typed' = Typed
  BY DEF Typed
<1> QED
  BY <1>2, <1>3, <1>6, <1>7 DEF Says

(* What was read before an event is part of what was read.                  *)
LEMMA ReadEarlier ==
  \A i : ReadBefore(i) \subseteq ReadNow /\ \A f : ReadAsBefore(i, f) \subseteq ReadAsNow(f)
<1>1. \A i : Earlier(i) \subseteq InLog
  BY DEF Earlier
<1> QED
  BY <1>1, ReadsAre DEF Reads, ReadsAs

(* The first rows of a panel say what is true of the log.                   *)
LEMMA RowsOfSound ==
  ASSUME ReviewTypeOK, LogSound, NEW V \in SUBSET InLog, NEW v \in View, v = Says(V)
  PROVE  SoundRows(RowsOf(v))
<1>0. InLog \subseteq DOMAIN begun /\ Len(begun) \in Nat /\ DOMAIN begun = 1 .. Len(begun)
  BY Logs
<1>1. \A S \in SUBSET V : S # {} => Max(S) \in S
  BY <1>0, MaxIs
<1>2. v.reading # None => \E i \in InLog :
        begun[i].type = "ocr" /\ begun[i].entries # None /\ v.reading = begun[i].entries
  <2> DEFINE S == WithEntries(Runs(V))
  <2>1. S \in SUBSET V
    BY DEF Runs, WithEntries
  <2>2. v.reading = IF S = {} THEN None ELSE begun[Max(S)].entries
    BY DEF Says, Last
  <2>3. v.reading # None => Max(S) \in S
    BY <1>1, <2>1, <2>2
  <2> QED
    BY <2>2, <2>3 DEF Runs, WithEntries, IsRun
<1>3. \/ v.fields = Typed
      \/ \E j \in InLog :
           begun[j].type = "verify" /\ begun[j].entries # None /\ v.fields = begun[j].entries
  <2> DEFINE S == WithEntries(Decisions(V))
  <2>1. S \in SUBSET V
    BY DEF Decisions, WithEntries
  <2>2. v.fields = IF S = {} THEN Typed ELSE begun[Max(S)].entries
    BY DEF Says, Last
  <2>3. v.fields # Typed => Max(S) \in S
    BY <1>1, <2>1, <2>2
  <2> QED
    BY <2>2, <2>3 DEF Decisions, WithEntries, IsDecision
<1>4. ASSUME v.reading # None, NEW n \in DOMAIN v.reading PROVE SoundNow(RowsOf(v)[n])
  <2> DEFINE existing == {k \in DOMAIN v.fields : v.fields[k].field = v.reading[n].field}
             row == RowsOf(v)[n]
             read == v.reading[n].value
             f == v.reading[n].field
             was == v.fields[Max(existing)]
  <2>1. /\ existing # {} => Max(existing) \in existing
        /\ row = [field |-> f, ocrValue |-> read,
                  value |-> IF existing = {} THEN read ELSE was.value,
                  source |-> IF existing = {} THEN "ocr_confirmed" ELSE was.source]
    BY <1>4, RowsAre
  <2>2. read \in ReadNow /\ read # None
    <3>1. PICK i \in InLog :
            begun[i].type = "ocr" /\ begun[i].entries # None /\ v.reading = begun[i].entries
      BY <1>2, <1>4
    <3>2. v.reading[n] \in Figure
      BY <1>4 DEF View, Reading
    <3> QED
      BY <1>4, <3>1, <3>2, ReadsAre, ReviewAssumption DEF Reads, Figure
  <2>a. existing # {} => Max(existing) \in DOMAIN v.fields /\ was.field = f
    BY <2>1
  <2> HIDE DEF row, read, existing, f
  <2>3. CASE existing = {}
    <3>1. row.ocrValue = read /\ row.value = read /\ row.source = "ocr_confirmed"
      BY <2>1, <2>3
    <3> QED
      BY <2>2, <3>1 DEF SoundNow, Sound, row
  <2>4. CASE existing # {}
    <3>1. CASE v.fields = Typed
      <4>1. was.source = "manual"
        BY <2>4, <2>a, <3>1 DEF Typed
      <4>2. row.ocrValue = read /\ row.source = "manual"
        BY <2>1, <2>4, <4>1
      <4> QED
        BY <2>2, <4>2 DEF SoundNow, Sound, row
    <3>2. ASSUME NEW j \in InLog, begun[j].type = "verify", begun[j].entries # None,
                 v.fields = begun[j].entries
          PROVE  SoundNow(row)
      <4>1. Sound(was, ReadBefore(j), ReadAsBefore(j, f))
        BY <1>0, <2>4, <2>a, <3>2 DEF LogSound
      <4>3. Sound(was, ReadNow, ReadAsNow(f))
        BY <4>1, ReadEarlier, StillSound
      <4>4. was.ocrValue # None => was.ocrValue \in ReadAsNow(f)
        BY <2>4, <2>a, <3>2, ReadsAre DEF ReadsAs
      <4> HIDE DEF was
      <4>5. ASSUME was.source = "ocr_confirmed", ReadAsNow(f) \subseteq {read}
            PROVE  was.value = read
        <5>1. was.ocrValue = read
          BY <4>3, <4>4, <4>5 DEF Sound
        <5> QED
          BY <2>4, <2>a, <4>3, <4>5, <5>1 DEF Sound
      <4>6. row.field = f /\ row.ocrValue = read /\ row.value = was.value /\ row.source = was.source
        BY <2>1, <2>4
      <4> QED
        BY <2>2, <4>3, <4>5, <4>6 DEF SoundNow, Sound
    <3> QED
      BY <1>3, <3>1, <3>2 DEF row
  <2> QED
    BY <2>3, <2>4 DEF row
<1>5. DOMAIN RowsOf(v) = IF v.reading = None THEN {} ELSE DOMAIN v.reading
  BY DEF RowsOf
<1> QED
  BY <1>4, <1>5 DEF SoundRows
-----------------------------------------------------------------------------
(* What is true of what was read stays true of it.                          *)
LEMMA SoundStays ==
  ASSUME InLog \subseteq InLog', \A i \in InLog : begun'[i] = begun[i]
  PROVE  /\ \A row : SoundNow(row) => Sound(row, ReadNow', ReadAsNow(row.field)')
         /\ \A i, row : Sound(row, ReadBefore(i), ReadAsBefore(i, row.field))
                           => Sound(row, ReadBefore(i)', ReadAsBefore(i, row.field)')
<1>1. /\ ReadNow \subseteq ReadNow' /\ \A f : ReadAsNow(f) \subseteq ReadAsNow(f)'
      /\ \A i : /\ ReadBefore(i) \subseteq ReadBefore(i)'
                /\ \A f : ReadAsBefore(i, f) \subseteq ReadAsBefore(i, f)'
  BY ReadsGrow
<1> QED
  BY <1>1, StillSound DEF SoundNow

(* Rows, drafts and what was sent stay true as the log grows.               *)
LEMMA RowsStay ==
  ASSUME RowsSound, InLog \subseteq InLog', \A i \in InLog : begun'[i] = begun[i],
         \A m \in Member : rows'[m] = rows[m] \/ SoundRows(rows'[m]),
         \A m \in Member, k \in Kind :
            draft'[m][k] # None => draft'[m][k] = draft[m][k] \/ SoundEvent(draft'[m][k]),
         \A e \in sent' : e \in sent \/ SoundEvent(e)
  PROVE  RowsSound'
<1>1. \A list : SoundRows(list) =>
        \A k \in DOMAIN list : Sound(list[k], ReadNow', ReadAsNow(list[k].field)')
  BY SoundStays DEF SoundRows
<1>2. \A e : SoundEvent(e) /\ e.type = "verify" /\ e.entries # None
        => \A k \in DOMAIN e.entries : Sound(e.entries[k], ReadNow', ReadAsNow(e.entries[k].field)')
  BY <1>1 DEF SoundEvent
<1>3. \A m \in Member : SoundRows(rows[m])'
  <2>1. \A m \in Member : SoundRows(rows'[m])
    BY DEF RowsSound
  <2> QED
    BY <1>1, <2>1 DEF SoundRows, SoundNow
<1>4. \A m \in Member, k \in Kind : draft'[m][k] # None => SoundEvent(draft[m][k])'
  <2>1. \A m \in Member, k \in Kind : draft'[m][k] # None => SoundEvent(draft'[m][k])
    BY DEF RowsSound
  <2> QED
    BY <1>2, <2>1 DEF SoundEvent, SoundRows, SoundNow
<1>5. \A e \in sent' : SoundEvent(e)'
  <2>1. \A e \in sent' : SoundEvent(e)
    BY DEF RowsSound
  <2> QED
    BY <1>2, <2>1 DEF SoundEvent, SoundRows, SoundNow
<1> QED
  BY <1>3, <1>4, <1>5 DEF RowsSound

(* A step that leaves the log alone keeps the invariant if what it puts on  *)
(* the screens, in the rows, the drafts and on the way is of the types and  *)
(* sound.                                                                   *)
LEMMA LogKept ==
  ASSUME ReviewInv, UNCHANGED <<captured, begun, stored>>,
         screen' \in [Member -> View], rows' \in [Member -> Rows],
         draft' \in [Member -> [Kind -> Event \cup {None}]],
         sent' \subseteq Event, drafted' \in 0 .. MaxDrafts, edits' \in 0 .. MaxEdits,
         \A m \in Member : \/ screen'[m] = screen[m]
                           \/ \E n \in 0 .. Len(stored) : screen'[m] = Says(Seen(n)),
         \A m \in Member : rows'[m] = rows[m] \/ SoundRows(rows'[m]),
         \A m \in Member, k \in Kind :
            draft'[m][k] # None => draft'[m][k] = draft[m][k] \/ SoundEvent(draft'[m][k]),
         \A e \in sent' : e \in sent \/ SoundEvent(e)
  PROVE  ReviewInv'
<1>1. ReviewTypeOK /\ ScreensTellTheLog /\ RowsSound /\ LogSound
  BY DEF ReviewInv
<1>2. ReviewTypeOK'
  BY <1>1 DEF ReviewTypeOK
<1>3. InLog' = InLog /\ \A n : Seen(n)' = Seen(n)
  BY DEF InLog, Seen
<1>4. ScreensTellTheLog'
  <2>1. \A m \in Member : \E n \in 0 .. Len(stored) : screen'[m] = Says(Seen(n))
    BY <1>1 DEF ScreensTellTheLog
  <2>2. ASSUME NEW m \in Member
        PROVE  \E n \in 0 .. Len(stored') : screen'[m] = Says(Seen(n))'
    <3>1. PICK n \in 0 .. Len(stored) : screen'[m] = Says(Seen(n))
      BY <2>1
    <3>2. Says(Seen(n))' = Says(Seen(n))
      BY DEF Says, Runs, Decisions, IsRun, IsDecision, WithEntries, Last, Typed, Seen
    <3> QED
      BY <3>1, <3>2
  <2> QED
    BY <2>2 DEF ScreensTellTheLog
<1>5. RowsSound'
  BY <1>1, <1>3, RowsStay
<1>6. LogSound'
  <2>1. \A i, row : Sound(row, ReadBefore(i), ReadAsBefore(i, row.field))
                       => Sound(row, ReadBefore(i)', ReadAsBefore(i, row.field)')
    BY <1>3, SoundStays
  <2> QED
    BY <1>1, <2>1 DEF LogSound
<1> QED
  BY <1>2, <1>4, <1>5, <1>6 DEF ReviewInv

(* A draft of a sound event, over rows that are sound.                      *)
LEMMA Prepared ==
  ASSUME ReviewInv, NEW m \in Member, NEW k \in Kind, NEW type, NEW status, NEW entries,
         Prepare(m, k, type, status, entries),
         \/ type = "ocr" /\ status \in OcrStatus /\ entries \in Reading \cup {None}
         \/ type = "verify" /\ status \in Verification /\ entries \in Rows \cup {None},
         type = "verify" /\ entries # None => SoundRows(entries)
  PROVE  ReviewInv'
<1> DEFINE e == [id |-> drafted + 1, type |-> type, status |-> status, entries |-> entries]
<1>1. ReviewTypeOK
  BY DEF ReviewInv
<1>2. /\ drafted < MaxDrafts /\ drafted' = drafted + 1
      /\ draft' = [draft EXCEPT ![m][k] = e]
      /\ UNCHANGED <<captured, begun, stored, sent, screen, rows, edits>>
  BY DEF Prepare
<1>3. drafted + 1 \in 1 .. MaxDrafts
  BY <1>1, <1>2, ReviewAssumption DEF ReviewTypeOK
<1>4. e \in Event
  BY <1>3 DEF Event
<1>5. SoundEvent(e)
  BY DEF SoundEvent
<1> HIDE DEF e
<1>6. draft' \in [Member -> [Kind -> Event \cup {None}]]
  BY <1>1, <1>2, <1>4 DEF ReviewTypeOK
<1>7. \A n \in Member, j \in Kind : draft'[n][j] = draft[n][j] \/ draft'[n][j] = e
  BY <1>1, <1>2 DEF ReviewTypeOK
<1>8. /\ screen' \in [Member -> View] /\ rows' \in [Member -> Rows] /\ sent' \subseteq Event
      /\ drafted' \in 0 .. MaxDrafts /\ edits' \in 0 .. MaxEdits
  BY <1>1, <1>2, <1>3 DEF ReviewTypeOK
<1> QED
  BY <1>2, <1>5, <1>6, <1>7, <1>8, LogKept

LEMMA Extracted ==
  ASSUME ReviewInv, NEW m \in Member, NEW s \in OcrStatus, NEW r \in Readings \cup {None},
         Extract(m, s, r)
  PROVE  ReviewInv'
<1>1. r \in Reading \cup {None}
  BY ReviewAssumption DEF Reading
<1>2. Prepare(m, "ocr", "ocr", s, r)
  BY DEF Extract
<1> QED
  BY <1>1, <1>2, Prepared DEF Kind

(* The edits of a row keep it sound: the source is told anew, and a row     *)
(* that may be renamed confirms nothing.                                    *)
LEMMA RenamedSound ==
  ASSUME NEW row \in Row, SoundNow(row), NEW edit \in Renamed(row)
  PROVE  edit \in Row /\ SoundNow(edit)
<1>1. CASE edit = row
  BY <1>1
<1>2. ASSUME row.source = "manual", NEW f \in Field \cup {None}, edit = [row EXCEPT !.field = f]
      PROVE  edit \in Row /\ SoundNow(edit)
  <2>1. edit = [field |-> f, ocrValue |-> row.ocrValue, value |-> row.value, source |-> "manual"]
    BY <1>2 DEF Row
  <2>2. edit \in Row /\ edit.ocrValue = row.ocrValue /\ edit.source = "manual"
    BY <2>1 DEF Row, Source
  <2> QED
    BY <2>2 DEF SoundNow, Sound
<1> QED
  BY <1>1, <1>2 DEF Renamed

LEMMA EditedSound ==
  ASSUME NEW row \in Row, SoundNow(row), NEW val \in Value \cup {None}, NEW edit \in Edited(row, val)
  PROVE  edit \in Row /\ SoundNow(edit)
<1>1. PICK s \in IF row.ocrValue = None THEN {"manual"}
                 ELSE {"ocr_corrected"} \cup IF val = row.ocrValue THEN {"ocr_confirmed"} ELSE {} :
        edit = [row EXCEPT !.value = val, !.source = s]
  BY DEF Edited
<1>2. /\ s \in Source /\ (row.ocrValue = None => s = "manual")
      /\ s = "ocr_confirmed" => val = row.ocrValue /\ val # None
  BY <1>1 DEF Source
<1>3. edit = [field |-> row.field, ocrValue |-> row.ocrValue, value |-> val, source |-> s]
  <2>1. row = [field |-> row.field, ocrValue |-> row.ocrValue, value |-> row.value,
               source |-> row.source]
    BY DEF Row
  <2> QED
    BY <1>1, <2>1
<1>4. edit \in Row
  BY <1>2, <1>3 DEF Row
<1>5. /\ edit.field = row.field /\ edit.ocrValue = row.ocrValue
      /\ edit.value = val /\ edit.source = s
  BY <1>3
<1> QED
  BY <1>2, <1>4, <1>5 DEF SoundNow, Sound

LEMMA EditsSound ==
  ASSUME NEW row \in Row, SoundNow(row), NEW edit \in EditsOf(row)
  PROVE  edit \in Row /\ SoundNow(edit)
<1>1. \A r \in Renamed(row) : r \in Row /\ SoundNow(r)
  BY RenamedSound
<1>2. \A r \in Renamed(row), val \in Value \cup {None} : \A e \in Edited(r, val) :
        e \in Row /\ SoundNow(e)
  BY <1>1, EditedSound
<1> QED
  BY <1>1, <1>2 DEF EditsOf

(* New rows of a panel, all of them sound.                                  *)
LEMMA PanelEdited ==
  ASSUME ReviewInv, NEW m \in Member, NEW list \in Rows, SoundRows(list), Edit(m, list)
  PROVE  ReviewInv'
<1>1. /\ edits < MaxEdits /\ edits' = edits + 1 /\ rows' = [rows EXCEPT ![m] = list]
      /\ UNCHANGED <<captured, begun, stored, sent, screen, draft, drafted>>
  BY DEF Edit
<1>2. ReviewTypeOK
  BY DEF ReviewInv
<1>3. edits' \in 0 .. MaxEdits
  BY <1>1, <1>2, ReviewAssumption DEF ReviewTypeOK
<1>4. /\ rows' \in [Member -> Rows] /\ screen' \in [Member -> View]
      /\ draft' \in [Member -> [Kind -> Event \cup {None}]]
      /\ sent' \subseteq Event /\ drafted' \in 0 .. MaxDrafts
  BY <1>1, <1>2 DEF ReviewTypeOK
<1>5. \A n \in Member : rows'[n] = rows[n] \/ SoundRows(rows'[n])
  BY <1>1, <1>2 DEF ReviewTypeOK
<1> QED
  BY <1>1, <1>3, <1>4, <1>5, LogKept

LEMMA RowEdited ==
  ASSUME ReviewInv, NEW m \in Member, NEW i \in DOMAIN rows[m], EditRow(m, i)
  PROVE  ReviewInv'
<1>1. rows[m] \in Rows /\ SoundRows(rows[m])
  BY DEF ReviewInv, ReviewTypeOK, RowsSound
<1>2. PICK row \in EditsOf(rows[m][i]) : Edit(m, [rows[m] EXCEPT ![i] = row])
  BY DEF EditRow
<1> DEFINE list == [rows[m] EXCEPT ![i] = row]
<1>3. rows[m][i] \in Row /\ SoundNow(rows[m][i])
  BY <1>1 DEF Rows, SoundRows
<1>4. row \in Row /\ SoundNow(row)
  BY <1>3, EditsSound
<1>5. list \in Rows
  BY <1>1, <1>4 DEF Rows
<1>6. \A k \in DOMAIN list : k \in DOMAIN rows[m] /\ (list[k] = row \/ list[k] = rows[m][k])
  BY <1>1 DEF Rows
<1> HIDE DEF list
<1>7. SoundRows(list)
  BY <1>1, <1>4, <1>6 DEF SoundRows
<1> QED
  BY <1>2, <1>5, <1>7, PanelEdited DEF list

LEMMA RowAdded ==
  ASSUME ReviewInv, NEW m \in Member, NEW f \in Field, NEW val \in Value, AddManualRow(m, f, val)
  PROVE  ReviewInv'
<1> DEFINE row == [field |-> f, ocrValue |-> None, value |-> val, source |-> "manual"]
           list == Append(rows[m], row)
<1>1. rows[m] \in Rows /\ SoundRows(rows[m])
  BY DEF ReviewInv, ReviewTypeOK, RowsSound
<1>2. row \in Row /\ SoundNow(row)
  BY DEF Row, Source, SoundNow, Sound
<1> HIDE DEF row
<1>3. list \in Rows /\ \A k \in DOMAIN list : list[k] = row \/ (k \in DOMAIN rows[m] /\ list[k] = rows[m][k])
  BY <1>1, <1>2 DEF Rows
<1>4. Edit(m, list)
  BY DEF AddManualRow, row
<1> HIDE DEF list
<1>5. SoundRows(list)
  BY <1>1, <1>2, <1>3 DEF SoundRows
<1> QED
  BY <1>3, <1>4, <1>5, PanelEdited

LEMMA RowRemoved ==
  ASSUME ReviewInv, NEW m \in Member, NEW i \in DOMAIN rows[m], RemoveRow(m, i)
  PROVE  ReviewInv'
<1> DEFINE list == SubSeq(rows[m], 1, i - 1) \o SubSeq(rows[m], i + 1, Len(rows[m]))
<1>1. rows[m] \in Seq(Row) /\ SoundRows(rows[m])
  BY DEF ReviewInv, ReviewTypeOK, RowsSound, Rows
<1> DEFINE T == {rows[m][k] : k \in DOMAIN rows[m]}
<1>2. /\ T \subseteq Row /\ \A row \in T : SoundNow(row)
      /\ \A k \in 1 .. Len(rows[m]) : rows[m][k] \in T
  BY <1>1 DEF SoundRows
<1>3. Len(rows[m]) \in Nat /\ i \in 1 .. Len(rows[m]) /\ rows[m] \in Seq(T)
  <2>1. /\ Len(rows[m]) \in Nat /\ DOMAIN rows[m] = 1 .. Len(rows[m])
        /\ rows[m] = [k \in 1 .. Len(rows[m]) |-> rows[m][k]]
    BY <1>1
  <2> HIDE DEF T
  <2> QED
    BY <1>2, <2>1
<1> HIDE DEF T
<1>4. SubSeq(rows[m], 1, i - 1) \in Seq(T) /\ SubSeq(rows[m], i + 1, Len(rows[m])) \in Seq(T)
  BY <1>3
<1>5. list \in Seq(T)
  BY <1>4
<1> HIDE DEF list
<1>6. list \in Rows /\ \A k \in DOMAIN list : list[k] \in T
  BY <1>2, <1>5 DEF Rows
<1>7. SoundRows(list)
  BY <1>2, <1>6 DEF SoundRows
<1>8. Edit(m, list)
  BY DEF RemoveRow, list
<1> QED
  BY <1>6, <1>7, <1>8, PanelEdited

LEMMA ReviewPrepared ==
  ASSUME ReviewInv, NEW m \in Member, NEW s \in Verification, PrepareReview(m, s)
  PROVE  ReviewInv'
<1>1. rows[m] \in Rows /\ SoundRows(rows[m])
  BY DEF ReviewInv, ReviewTypeOK, RowsSound
<1> DEFINE reviewed == Filled(rows[m])
           entries == IF reviewed = <<>> THEN None ELSE reviewed
<1>2. Prepare(m, "review", "verify", s, entries)
  BY DEF PrepareReview
<1>3. /\ reviewed \in Rows
      /\ \A k \in DOMAIN reviewed : \E i \in DOMAIN rows[m] : reviewed[k] = rows[m][i]
  BY <1>1, FilledIs
<1> HIDE DEF reviewed
<1>4. SoundRows(reviewed)
  BY <1>1, <1>3 DEF SoundRows
<1>5. entries \in Rows \cup {None} /\ (entries # None => SoundRows(entries)) /\ "review" \in Kind
  BY <1>3, <1>4 DEF Kind
<1> HIDE DEF entries
<1> QED
  BY <1>2, <1>5, Prepared

LEMMA VerifyPrepared ==
  ASSUME ReviewInv, NEW m \in Member, NEW s \in Verification, PrepareVerify(m, s)
  PROVE  ReviewInv'
<1>1. Prepare(m, "plain", "verify", s, None)
  BY DEF PrepareVerify
<1> QED
  BY <1>1, Prepared DEF Kind

(* The screens stay true as inserts begin and are stored.                   *)
LEMMA ScreensStay ==
  ASSUME ReviewTypeOK, ScreensTellTheLog, captured' = captured, screen' = screen,
         \A i \in DOMAIN begun : begun'[i] = begun[i],
         Len(stored') \in Nat, Len(stored) <= Len(stored'),
         \A k \in 1 .. Len(stored) : stored'[k] = stored[k]
  PROVE  ScreensTellTheLog'
<1> SUFFICES ASSUME NEW m \in Member
             PROVE  \E n \in 0 .. Len(stored') : screen'[m] = Says(Seen(n))'
  BY DEF ScreensTellTheLog
<1>1. PICK n \in 0 .. Len(stored) : screen[m] = Says(Seen(n))
  BY DEF ScreensTellTheLog
<1>2. PICK V : V = Seen(n)
  OBVIOUS
<1>3. V \in SUBSET DOMAIN begun /\ Len(stored) \in Nat
  BY <1>2, Logs
<1>4. Says(V)' = Says(V)
  BY <1>3, SaysSame
<1>5. Seen(n)' = V
  <2>1. \A k \in 1 .. n : k \in 1 .. Len(stored)
    BY <1>3
  <2> QED
    BY <1>2, <2>1 DEF Seen
<1>6. n \in 0 .. Len(stored')
  BY <1>3
<1> QED
  BY <1>1, <1>2, <1>4, <1>5, <1>6

LEMMA Inserted ==
  ASSUME ReviewInv, NEW e \in sent, InsertEvent(e)
  PROVE  ReviewInv'
<1>1. ReviewTypeOK /\ ScreensTellTheLog /\ RowsSound /\ LogSound
  BY DEF ReviewInv
<1>2. /\ begun' = Append(begun, e)
      /\ UNCHANGED <<captured, stored, sent, screen, rows, draft, drafted, edits>>
  BY DEF InsertEvent
<1>3. /\ Len(begun) \in Nat /\ begun'[Len(begun) + 1] = e
      /\ DOMAIN begun = 1 .. Len(begun) /\ DOMAIN begun' = DOMAIN begun \cup {Len(begun) + 1}
      /\ \A i \in DOMAIN begun : begun'[i] = begun[i]
      /\ InLog' = InLog /\ InLog \subseteq DOMAIN begun
      /\ Len(stored') = Len(stored) /\ Len(stored) \in Nat
  <2>1. begun \in Seq(Event) /\ Len(begun) \in Nat
    BY <1>1 DEF ReviewTypeOK
  <2> QED
    BY <1>1, <1>2, <2>1, Logs DEF InLog, Seen
<1>4. ReviewTypeOK'
  <2>1. e \in Event
    BY <1>1 DEF ReviewTypeOK
  <2>2. begun' \in Seq(Event)
    BY <1>1, <1>2, <2>1 DEF ReviewTypeOK
  <2>3. stored' \in Seq(DOMAIN begun')
    <3>1. stored \in Seq(DOMAIN begun)
      BY <1>1 DEF ReviewTypeOK
    <3> QED
      BY <1>2, <1>3, <3>1
  <2> QED
    BY <1>1, <1>2, <2>2, <2>3 DEF ReviewTypeOK
<1>5. ScreensTellTheLog'
  BY <1>1, <1>2, <1>3, ScreensStay
<1>6. RowsSound'
  BY <1>1, <1>2, <1>3, RowsStay
<1>7. LogSound'
  <2>1. \A i, row : Sound(row, ReadBefore(i), ReadAsBefore(i, row.field))
                       => Sound(row, ReadBefore(i)', ReadAsBefore(i, row.field)')
    BY <1>3, SoundStays
  <2>2. ASSUME NEW i \in DOMAIN begun, begun[i].type = "verify", begun[i].entries # None,
               NEW k \in DOMAIN begun[i].entries, NEW row, row = begun[i].entries[k]
        PROVE  Sound(row, ReadBefore(i)', ReadAsBefore(i, row.field)')
    BY <1>1, <2>1, <2>2 DEF LogSound
  <2>3. PICK n : n = Len(begun) + 1
    OBVIOUS
  <2>4. ASSUME e.type = "verify", e.entries # None, NEW k \in DOMAIN e.entries
        PROVE  Sound(e.entries[k], ReadBefore(n)', ReadAsBefore(n, e.entries[k].field)')
    <3>1. Earlier(n) = InLog /\ Earlier(n)' = InLog'
      <4>1. \A j \in InLog : j < n
        BY <1>3, <2>3
      <4> QED
        BY <1>3, <4>1 DEF Earlier
    <3>2. ReadNow \subseteq ReadBefore(n)' /\ \A f : ReadAsNow(f) \subseteq ReadAsBefore(n, f)'
      <4>1. ReadNow \subseteq ReadNow' /\ \A f : ReadAsNow(f) \subseteq ReadAsNow(f)'
        BY <1>3, ReadsGrow
      <4>2. ReadNow' = ReadBefore(n)' /\ \A f : ReadAsNow(f)' = ReadAsBefore(n, f)'
        BY <3>1 DEF ReadNow, ReadAsNow, ReadBefore, ReadAsBefore
      <4> QED
        BY <4>1, <4>2
    <3>3. SoundNow(e.entries[k])
      BY <1>1, <2>4 DEF RowsSound, SoundEvent, SoundRows
    <3> QED
      BY <3>2, <3>3, StillSound DEF SoundNow
  <2>5. ASSUME NEW i \in DOMAIN begun', begun'[i].type = "verify", begun'[i].entries # None,
               NEW k \in DOMAIN begun'[i].entries
        PROVE  LET row == begun'[i].entries[k] IN
               Sound(row, ReadBefore(i)', ReadAsBefore(i, begun[i].entries[k].field)')
    <3>1. PICK row : row = begun'[i].entries[k]
      OBVIOUS
    <3>2. Sound(row, ReadBefore(i)', ReadAsBefore(i, row.field)')
      <4>1. CASE i \in DOMAIN begun
        BY <1>3, <2>2, <2>5, <3>1, <4>1
      <4>2. CASE i = n
        BY <1>3, <2>3, <2>4, <2>5, <3>1, <4>2
      <4> QED
        BY <1>3, <2>3, <4>1, <4>2
    <3> QED
      BY <3>1, <3>2
  <2> QED
    BY <2>5 DEF LogSound
<1> QED
  BY <1>4, <1>5, <1>6, <1>7 DEF ReviewInv

LEMMA Committed ==
  ASSUME ReviewInv, NEW i \in DOMAIN begun, Commit(i)
  PROVE  ReviewInv'
<1>1. ReviewTypeOK /\ ScreensTellTheLog /\ RowsSound /\ LogSound
  BY DEF ReviewInv
<1>2. /\ stored' = Append(stored, i)
      /\ UNCHANGED <<captured, begun, sent, screen, rows, draft, drafted, edits>>
  BY DEF Commit
<1>3. /\ stored \in Seq(DOMAIN begun) /\ stored' \in Seq(DOMAIN begun)
      /\ Len(stored) \in Nat /\ Len(stored') = Len(stored) + 1
      /\ \A k \in 1 .. Len(stored) : stored'[k] = stored[k]
  BY <1>1, <1>2 DEF ReviewTypeOK
<1>4. InLog \subseteq InLog' /\ \A j \in InLog : begun'[j] = begun[j]
  <2>1. \A k \in 1 .. Len(stored) : k \in 1 .. Len(stored')
    BY <1>3
  <2> QED
    BY <1>2, <1>3, <2>1 DEF InLog, Seen
<1>5. ReviewTypeOK'
  BY <1>1, <1>2, <1>3 DEF ReviewTypeOK
<1>6. ScreensTellTheLog'
  <2>1. Len(stored') \in Nat /\ Len(stored) <= Len(stored')
    BY <1>3
  <2> QED
    BY <1>1, <1>2, <1>3, <2>1, ScreensStay
<1>7. RowsSound'
  BY <1>1, <1>2, <1>4, RowsStay
<1>8. LogSound'
  <2>1. \A j, row : Sound(row, ReadBefore(j), ReadAsBefore(j, row.field))
                       => Sound(row, ReadBefore(j)', ReadAsBefore(j, row.field)')
    BY <1>4, SoundStays
  <2> QED
    BY <1>1, <1>2, <2>1 DEF LogSound
<1> QED
  BY <1>5, <1>6, <1>7, <1>8 DEF ReviewInv

LEMMA NextReview == ReviewInv /\ [ReviewNext]_reviewVars => ReviewInv'
<1> SUFFICES ASSUME ReviewInv, [ReviewNext]_reviewVars PROVE ReviewInv'
  OBVIOUS
<1>1. ReviewTypeOK /\ ScreensTellTheLog /\ RowsSound /\ LogSound
  BY DEF ReviewInv
<1>2. /\ screen \in [Member -> View] /\ rows \in [Member -> Rows] /\ sent \subseteq Event
      /\ draft \in [Member -> [Kind -> Event \cup {None}]]
      /\ drafted \in 0 .. MaxDrafts /\ edits \in 0 .. MaxEdits
  BY <1>1 DEF ReviewTypeOK
<1>3. ASSUME NEW m \in Member, NEW k \in Kind, CancelDraft(m, k) \/ Answer(m, k) PROVE ReviewInv'
  <2>1. /\ draft' = [draft EXCEPT ![m][k] = None]
        /\ UNCHANGED <<captured, begun, stored, sent, screen, rows, drafted, edits>>
    BY <1>3 DEF CancelDraft, Answer
  <2>2. /\ draft' \in [Member -> [Kind -> Event \cup {None}]]
        /\ \A n \in Member, j \in Kind : draft'[n][j] = draft[n][j] \/ draft'[n][j] = None
    BY <1>2, <2>1
  <2> QED
    BY <1>2, <2>1, <2>2, LogKept
<1>4. ASSUME NEW m \in Member, NEW k \in Kind, ApproveDraft(m, k) PROVE ReviewInv'
  <2>1. /\ draft[m][k] # None /\ sent' = sent \cup {draft[m][k]}
        /\ UNCHANGED <<captured, begun, stored, screen, rows, draft, drafted, edits>>
    BY <1>4 DEF ApproveDraft
  <2>2. draft[m][k] \in Event /\ SoundEvent(draft[m][k])
    BY <1>1, <1>2, <2>1 DEF RowsSound
  <2>3. sent' \subseteq Event /\ \A e \in sent' : e \in sent \/ SoundEvent(e)
    BY <1>2, <2>1, <2>2
  <2> QED
    BY <1>2, <2>1, <2>3, LogKept
<1>5. ASSUME NEW m \in Member, NEW n \in 0 .. Len(stored), Refresh(m, n) PROVE ReviewInv'
  <2>1. /\ screen' = [screen EXCEPT ![m] = Fold(Seen(n))]
        /\ UNCHANGED <<captured, begun, stored, sent, rows, draft, drafted, edits>>
    BY <1>5 DEF Refresh
  <2>2. Fold(Seen(n)) \in View /\ Fold(Seen(n)) = Says(Seen(n))
    BY <1>1, Loaded
  <2>3. /\ screen' \in [Member -> View]
        /\ \A j \in Member : screen'[j] = screen[j] \/ screen'[j] = Says(Seen(n))
    BY <1>2, <2>1, <2>2
  <2> QED
    BY <1>2, <2>1, <2>3, LogKept
<1>6. ASSUME NEW m \in Member, Mount(m) PROVE ReviewInv'
  <2>1. /\ rows' = [rows EXCEPT ![m] = RowsOf(screen[m])]
        /\ draft' = [draft EXCEPT ![m] = NoDrafts]
        /\ UNCHANGED <<captured, begun, stored, sent, screen, drafted, edits>>
    BY <1>6 DEF Mount
  <2>2. PICK n \in 0 .. Len(stored) : screen[m] = Says(Seen(n))
    BY <1>1 DEF ScreensTellTheLog
  <2>3. RowsOf(screen[m]) \in Rows /\ SoundRows(RowsOf(screen[m]))
    BY <1>1, <1>2, <2>2, Logs, RowsMade, RowsOfSound
  <2>4. /\ rows' \in [Member -> Rows]
        /\ \A j \in Member : rows'[j] = rows[j] \/ SoundRows(rows'[j])
    BY <1>2, <2>1, <2>3
  <2>5. /\ draft' \in [Member -> [Kind -> Event \cup {None}]]
        /\ \A j \in Member, k \in Kind : draft'[j][k] = draft[j][k] \/ draft'[j][k] = None
    BY <1>2, <2>1 DEF NoDrafts
  <2> QED
    BY <1>2, <2>1, <2>4, <2>5, LogKept
<1>7. ASSUME UNCHANGED reviewVars PROVE ReviewInv'
  BY <1>2, <1>7, LogKept DEF reviewVars
<1> QED
  BY <1>3, <1>4, <1>5, <1>6, <1>7, Extracted, RowEdited, RowAdded, RowRemoved, ReviewPrepared,
     VerifyPrepared, Inserted, Committed
     DEF ReviewNext

(* Every state of the log, the screens, the rows and the drafts satisfies   *)
(* the invariant.                                                           *)
LEMMA ReviewInvariant == ReviewSpec => []ReviewInv
<1> QED
  BY InitReview, NextReview, PTL DEF ReviewSpec

(* The types of every variable of the review, and of every draft and event. *)
THEOREM ReviewTypeCorrect == ReviewSpec => []ReviewTypeOK
<1>1. ReviewInv => ReviewTypeOK
  BY DEF ReviewInv
<1> QED
  BY <1>1, ReviewInvariant, PTL

LEMMA ReviewedRows ==
  ASSUME ReviewInv, NEW i \in Reviews, NEW k \in DOMAIN begun[i].entries
  PROVE  LET row == begun[i].entries[k] IN
         Sound(row, Read(Earlier(i)), ReadAs(Earlier(i), row.field))
<1>1. ReviewTypeOK /\ LogSound
  BY DEF ReviewInv
<1>2. i \in DOMAIN begun /\ begun[i].type = "verify" /\ begun[i].entries # None
  BY <1>1, Logs DEF Reviews, WithEntries, Decisions, IsDecision
<1> QED
  BY <1>1, <1>2 DEF LogSound, ReadBefore, ReadAsBefore

(* A recorded review names as OCR's reading, and calls confirmed, only what *)
(* a run recorded before it did read off the photo, in some field: no edit  *)
(* of value or name, no correction over a correction, no screen of any age  *)
(* and no answer out of order makes one up.                                 *)
THEOREM RealReadings == ReviewSpec => []ReadingsAreReal
<1>1. ReviewInv => ReadingsAreReal
  BY ReviewedRows DEF ReadingsAreReal, Sound
<1> QED
  BY <1>1, ReviewInvariant, PTL

(* A figure recorded as confirmed is the reading recorded beside it,        *)
(* whoever reviewed it, how often and under which names, as long as one     *)
(* reading only was given for its field - by OCR, or by a row renamed to it. *)
THEOREM TruthfulSource == ReviewSpec => []SourceTellsTheTruth
<1>1. ReviewInv => SourceTellsTheTruth
  BY ReviewedRows DEF SourceTellsTheTruth, Sound
<1> QED
  BY <1>1, ReviewInvariant, PTL

(* Every screen is what the events some read saw say: the decision, the     *)
(* reviewed figures and the reading that began last of them.                *)
THEOREM ScreensAndLog == ReviewSpec => []ScreensTellTheLog
<1>1. ReviewInv => ScreensTellTheLog
  BY DEF ReviewInv
<1> QED
  BY <1>1, ReviewInvariant, PTL
=============================================================================
