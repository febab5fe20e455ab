# TLA+ models of ElectionCanon

ElectionCanon is an election campaign room: a React client, some of it plain JavaScript
domains, over Supabase. The authority lies in PostgreSQL (row level security and `SECURITY
DEFINER` functions under `supabase/migrations`) and in a few edge functions
(`supabase/functions`) that talk to Gmail and to a mail provider. Nothing in it runs in a
single process: two members act from two browsers, every function call is a transaction under
READ COMMITTED that locks hardly anything, answers get lost, and an edge function may die
between two awaits. These modules model the parts where that matters, TLC checks them on
small instances, and TLAPS proves their invariants for every value of their constants.

Paths below are relative to the repository's root.

## Inventory

Every component is also listed in `PROJECT.json`, with its files.

| Component | State | Operations | Meets | Hard about it | What makes it correct |
|---|---|---|---|---|---|
| Communications review (`20260906000000`, `20260907000000`, `communications/api.js`) | a language variant (text, status, `updated_at`), append-only `reviews` and `approvals` | edit, submit, review, approve, revoke | membership (who may act) | checks are plain reads before an update by id; the review cycle is a timestamp, which clients also write | an approved text was reviewed and approved by two people other than its drafter; status follows ledger |
| Communications screen, export (`Communications.jsx`, `export.js`) | rows as loaded last | buttons, reload, export | the functions above | screens of any age; calls carry no version | exported texts were approved, as they are |
| Responsibility slots (`20260903000000`, `20260830000000`, `geography/write.js`) | `responsibility_slots` rows, events in the log | assign, reassign, vacate through `write_responsibility` | membership, invitations, event log | compare-and-swap without a lock, retries with one event id, invitation ids reused | one identity per slot, no false success, authority, row = fold of log |
| Outreach sending (`outreach-gmail`, `20261014000000`) | claim rows, evidence rows, the mailbox | `send_message`, `reconcile_send_claim` | Gmail, the operator | any await may fail half-way; the reply may be lost; the run may die; leases run out; the operator decides on what they saw | at most one message per approved attempt, truthful evidence, no false success |
| Membership and bootstrap (`20260823000000`, `electionBootstrap.js`, `electionContext.js`) | campaigns, members, roles | found a campaign, choose one, revoke a member | everything | two first visits at once; the founding sequence is several calls | one campaign per founder and name, an owner who is active |
| Invitations (`20260831000000` and later versions, `invitations/write.js`, `AcceptInvite.jsx`) | invitation rows | create, preview, accept (membership, roster, responsibility), revoke | membership, log, slots | acceptance is four calls, each may fail, and is repeated; expiry and revocation race with it | an accepted invitation gives what it says once, a revoked or expired one nothing |
| Event log and fold (`20260823000001`, `events.js`, `projections.js`) | `election_events` | idempotent insert, fold | every writer and reader | unique (campaign, type, confirmation id); order of `occurred_at` against commits; scoped readers fold a part | a retry adds nothing; the fold does not depend on retries |
| Prepare, approve, execute (`electionWebAdapter.js`, `Election.jsx`) | the draft on a screen | propose, approve, execute, cancel | event log | double clicks, lost answers, drafts that outlive the campaign in view | nothing is written that was not approved; once per approval |
| Election Day (`electionDay/*`, `ElectionDaySection.jsx`) | reports, evidence, incidents as events; stored files; the panels of the screen | capture, upload, retry, prepare, approve, OCR, review | event log, storage | upload and event are calls of two services; asynchronous functions outlive what the panel shows; reviewers on screens of any age | no event names a photo that is not stored, or another one than was shown; a review's readings were read |
| Campaign chat (`20260827…`, `chat/api.js`) | rooms, members, messages | ensure the national room, create, join, post | membership, slots | two first visits create the room; scoped rooms follow responsibilities | one national room; readers of a scoped room have had its responsibility |
| Scoped reads (`20260930000000`, `electionContext.js`, `electionScope.js`) | — | which events a member may read | log, slots | a fold of a part of the log, cut off at the API's row limit; the policy folds in SQL, the client in JavaScript | a coordinator's fold agrees with the full one on their geography; a holder shown is the current one |
| Launch distribution (`launch-*`, `20260921000000`) | subscribers, attempts; what the provider holds | subscribe, confirm, unsubscribe, mail a batch | mail provider | read-then-write everywhere; a batch runs for minutes and may die | mail only to confirmed addresses; an opt-out stands; a second copy has a cause; everyone is served |
| Outreach administration (`outreach-admin`, `domains/outreach`) | contacts, follow-ups, events | reconcile a list, edit, follow up | evidence rows | rows read and then updated by id; statuses derived from several tables | status agrees with the evidence |
| Geography import (`geography-import`) | checkpoint, snapshot and manifest files; geography tables | crawl, resume, repair, import | the source's web service, database | crashes between and inside file writes, failed requests, paged reads beside another run's inserts | a clean manifest means a complete snapshot; a finished import holds it; no place twice |
| Invitation email, voice, assistant, studio inference, design, pages | none of their own | — | — | text and layout | — |

## Plan

In the order of how much depends on it:

1. **ReviewWorkflow**, its abstract **ContentGovernance**, **ReviewInterleaved**,
   **ReviewClient** — done, proved.
2. **ResponsibilityWrites** — done, proved.
3. **OutreachSend**, its abstract **MailLedger** — done, proved.
4. **CampaignInvitations** — done, proved.
5. **LaunchMail** — done, with liveness; its safety is proved.
6. **ResultCapture** and **ResultReview** (Election Day: prepare, approve, execute and the fold of
   results) — done, proved.
7. **ScopedLog** (the fold of responsibilities, in SQL and in the client, over what the policy
   lets through) — done, proved.
8. **SnapshotAcquisition** and **GeographyImport** — done, proved: the files and the tables.

Left: founding a campaign, the chat rooms, the administration of outreach (contacts and
follow-ups), the other folds of the event log, and an abstract CampaignInvitations (a grant that is
used up once) and an abstract LaunchMail (consent) with their refinements.

## The modules

### Review workflow

`ReviewWorkflow` has one action per function of migration `20260907000000`
(`submit_language_variant_for_review`, `record_review`, `record_approval`, `revoke_approval`),
one for the members' edit of the text through its row level policy, and the membership changes
that decide who may act (`revoke_campaign_member`, the language grants). Each call is atomic,
which is how the migration's comments argue. `status`, `text`, `updatedAt`, `reviews` and
`approvals` are the columns and tables; a text is the number of the edit that wrote it, and rows
of the ledgers remember the text they were given on, which the code does not record. Timestamps
are those of transactions, all different; a client's own clock, which `api.js` writes to
`updated_at`, may read anything in `ClientClock`.

`ContentGovernance` is the promise without statuses, ledgers or clocks: a content stands only
when one person vouched for it and another endorsed it. ReviewWorkflow implements it with the
reviewers of the open cycle as vouchers and the newest approval as the endorsement.

`ReviewInterleaved` runs the same functions as PostgreSQL does: `now()` is fixed when the call
begins, the variant and the review are plain selects, and the commit updates by id whatever
happened since. Its edits, one `UPDATE` each, and revocations of members fall in between.
Language grants are left to the atomic module: they only decide whether a call goes on.

`ReviewClient` puts screens in front of ReviewWorkflow: what a member sees is the row as loaded
last, buttons follow what is seen, and an export reads the row again and renders that. A load is
one step (the row and its newest review are read together).

### Responsibility slots

`ResponsibilityWrites` is `write_responsibility()` as three steps (authority, decision, commit)
with up to two calls running, clients that believe what any earlier screen showed, lost answers
and any number of retries of the same event id; acceptance of an invitation calls the same
function with an id made of the account alone. `slots` is the table, `log` the responsibility
events; `sent`, `answered`, `overlapped` and `stale` are history. Two unique indexes decide
which commits collide. Accepted invitations (`Granted`) and roles do not change in this module.
A request that is refused leaves no trace and is no step.

### Outreach sending

`OutreachSend` is `send_message` and `reconcile_send_claim` of the edge function, await by await:
the claim inserted under its unique key, the call of Gmail, the evidence, the resolution of the
claim, and an operator's verdict with its two reads and one update. Any write may fail, or take
effect while its answer is lost; any read whose error the code ignores may find nothing; a run
may be killed anywhere; Gmail may take a message after its caller has gone; the lease of a claim
may run out. A provider message id is modelled by the run whose call made the message. A
`Request` is one run, and its key never changes. The operator is honest about the Sent folder:
SENT cites a message that is there and NOT_SENT that none was when they looked, which is what the
screen asks them to confirm; the message may still arrive later. A reply counts as a refusal if
it is anything but a readable success; what Gmail makes of the message is its own affair, also
after an error status, so a refused run may have a message that went out or still may
(`ReplyRefused`). A verdict that is told it lost a race ("overtaken") may have landed all the same.

`MailLedger` is the promise: the mailbox takes at most one message per key, and the evidence
names that message, once and for ever.

### Invitations

`CampaignInvitations` has one action per transaction of the database
(`create_campaign_invitation`, `accept_campaign_invitation`, `revoke_campaign_invitation`,
`revoke_campaign_member`, an assignment from the screens) and, per browser tab, the calls of
`acceptInvitation` in `invitations/write.js`: the membership, the roster entry, the
responsibility. Each call may fail (`Leave`) or take effect while its answer is lost. The first
call may be repeated from the same tab; the whole may be repeated from a tab opened earlier,
because the preview offers its button only while the invitation reads pending. Calls are atomic:
acceptance locks the invitation's row, revocation is one conditional update, and what
`write_responsibility` does when calls overlap is the subject of ResponsibilityWrites.
A status never becomes "expired" (`Lapse`): the function's update to it is rolled back by the
exception it raises next. A role that is null passes the test of `revoke_campaign_invitation`
(`MayRevoke`). Revoking an invitation that is not pending changes nothing and reports success,
so it is no step. `confirmed` is history: who was told that nothing failed.

Invitations reach who is revoked, or has another role, as well: "on conflict do nothing" leaves
the membership as it is, and a Director's acceptance is still reported as done. `StandingOnlyEnds`
says that much and no more; the run shows both sides.

### Launch mailing

`LaunchMail` has one action per statement and provider call that `launch-subscribe`,
`launch-confirm`, `launch-unsubscribe` and a batch of `launch-send-campaign-email` await. Runs of
the three public functions overlap and may die anywhere, results that the code ignores may be
failures, and the provider may refuse any address. `row` is `launch_subscribers`, a token is a
number and a link is a member of `inbox`, from which it can be followed at any time. `contact` is
what the provider holds: an address it blocks is refused, after a hard bounce too. A batch reads
its recipients once and then mails and stamps one after the other. `clicked` and `optedOut` are
history about the owner's wish, `excused` counts per address the faults after which a second copy
is possible, `trouble` bounds all of them. The rate limit is left out: what it refuses leaves
nothing that the mailing reads. A confirmation that found its row pending before the opt-out may
still write after it, so `optedOut` does not count an opt-out while one is pending
(`Confirming`); that an opt-out can be lost there is the code's behaviour.

### Capturing a result

`ResultCapture` is one browser with `CaptureResultPanel`. JavaScript runs to its next await, so an
action is what happens between two awaits; what an asynchronous function reads it has read from
the render its button was clicked in (the record in `task`), and what it sets is set on the panel
as it is by then. Uploads never overwrite (`upsert: false`), the log takes an event id once, and
the answers of both may be lost. An upload that ends after its photo was replaced leaves its path
beside the new photo: `stray` says so, and `PhotoOfTheScreen` is stated for every draft that is
not made of such a panel. The check for an active member stands for the insert policies.

### Reviewing a result

`ResultReview` is members reviewing one result, each with a screen (the fold of the events some
read of the log returned), the rows of a review panel (kept since it was mounted) and a draft per
panel. A click on Approve puts the draft among those sent; its insert begins whenever it does, at
most once per id, and the answer may never come. The log has two orders: `begun` is that of
`created_at`, in which every read returns it, `stored` that in which rows became visible. A read
sees what was stored at some time, and its answer is set on the screen whenever it comes, after
answers to later reads too (`Refresh`): `refresh` awaits its read and sets the result unguarded.

`FoldStep` is the reducer of `projections.js` for a result's two event types. `Edited` is the rule
by which a row is called confirmed or corrected; `Renamed` the name of a row, which is an input
wherever the row's source is manual - and a figure typed at the capture keeps that source when OCR
reads it too, so that the row can take its reading to another field. The next panel then pairs
that field's reading with the renamed row's figure and source. Hence the two halves of what is
promised: a recorded reading, or figure called confirmed, was read off the photo
(`ReadingsAreReal`), though not always in the field it stands beside (`ReadingsKeepTheirField`
does not hold); and a confirmed figure is the reading beside it where its field has been given one
reading only, by OCR or by a renaming (`SourceTellsTheTruth`). What a log says (`Says`) is stated
without the reducer: the last run, the last decision, the last of each that brought entries. A text
of blanks, and the cut at a maximal length, are left out; so is the row cap of the read, which
NamedHolderIsCurrent is about.

### The scoped log

`ScopedLog` grows a log by the writers that matter to its readers and states what every reader
would get of every log: a read is a query and changes nothing, so it is no action.
`Visible` is the restrictive policy with its six branches, over the SQL functions that fold the log
(`Current`, `GeographyOf`, `Refs`); `Response` is the single query of `loadElectionLog`, newest
first and cut off at `RowCap`; `Step` is the client's reducer, `EffectiveScope` and `Shown` what
the screen narrows to. A `limit 1` without an order is a choice (`Narrowing`). The scope
is resolved by queries of the geography that may fail, or return fewer rows than there are
(`RefCap`: they are neither ordered nor paged), so `ScopeGeographyRefs` is a set of outcomes: the
geographies collected, and the error beside them that `resolveEffectiveScope` discards
(`responsibility.js:92`). `ScreenAgreesWithPolicy` keeps apart what holds of all outcomes - the
screen narrows whom the policy narrows, never beyond the policy's scope, and keeps the holder of a
single slot - from what holds only where no query failed or was cut short: that nobody who was
read is hidden. It speaks of the scope of the view on the screen. Until that is resolved
(`MobilizeSection.jsx:367-376`) the screen shows everyone it was given, at first, or those of the
scope before: what it shows is always of what the policy let through.

### Geography import

`SnapshotAcquisition` is the three files and the two tools that write them, the crawl with its
checkpoint after every state and the repair of polling unit codes. Requests may fail for good,
a tool may die between writes or in the middle of one, which leaves a torn file. The operator
starts afresh (`FORCE_REFRESH`) or resumes, as often as the bounds allow, from an empty disk or
one that holds an old crawl. `GeographyImport` adds the tables and the import: runs that read
tables page by page, plan, insert row by row and resolve ids, overlapping and dying anywhere, on
top of rows of an earlier importer. A row's random id is its place in the table, so that an
insert by one run may shift the pages of another. Both tools are run one at a time, the source
does not change, and it answers truthfully or not at all: these are assumptions. So is what the
repository's own report of the national snapshot says of its names
(`national-acquisition-2026-09-01-integrity-report.txt:52-56`): no id is under two parents
(`OneParentAssumption`), and no two local governments of a state and no two wards of a local
government share a name, the one quarantined ward apart (`NamesAssumption`). The rows found at the
beginning have each name once (`LegacyAssumption`), and a page holds at least one row
(`PageAssumption`). Without the second, two places would want one row, and neither `NoTwins` nor
`CompleteImportHoldsSnapshot` could hold of both.

### Definitions beside the code

A definition named "Mutant" or "variation" is a plausible slip in the code (a dropped guard, an
upsert for an insert); no specification uses it. It stands beside the definition it varies so
that one can see that each property notices it.

## What the runs show

| Run | Instance | Shows |
|---|---|---|
| `review_workflow` | 3 people, the drafter a manager, 1 edit, 7 stamps | types, `ApprovedTextWasReviewed`, `StatusFollowsLedger`, `FreshReviewPerApproval`, and that the workflow implements ContentGovernance |
| `review_interleaved` | 3 people, the drafter a manager, 2 calls, 5 stamps | `TwoPeopleBehindEveryApproval` survives every interleaving; the rest holds while nothing overlaps (`SerialCallsKeepThePromise`) |
| `review_client` | 3 screens, 5 stamps | what is exported had been approved, as it is, however old the screen |
| `responsibility_writes` | LGA, ward, unit; 2 calls, 2 requests, 4 calls in all | `OneIdentityPerSlot`, `AnsweredWasDone`, `WrittenWithAuthority`, `SerialWritesFollowLog` |
| `outreach_send` | 1 key, 3 runs | `SuccessIsRecorded`, `FailedDespiteMail`, `SentIsFinal`, and that sending implements MailLedger |
| `campaign_invitations` | 3 accounts, a volunteer, LGA and ward, 2 tabs, 2 invitations, 1 assignment | types, `OffersComeFromAbove`, `EveryGrantWasOffered`, `HoldersAreRostered`, `ConfirmedWasRecorded`, `StandingOnlyEnds` |
| `launch_mail` | 2 addresses, 2 runs, 2 batches of 1, 2 tokens, 1 fault | `NoMailWithoutOptIn`, `OptOutStands`, `TwiceHasACause`, `NoListTakesInAnOptOut` |
| `launch_served` | the same with 1 run, fair | liveness: `EveryoneIsMailed`, unless refused addresses fill the head of the list |
| `result_capture` | 2 photos, 4 ids | `EvidenceIsPreserved`, `PhotoOfTheScreen`, `RecordedAsApproved` |
| `result_review` | 1 member, 2 fields, 2 figures, 3 drafts, 1 edit | `ReadingsAreReal`, `SourceTellsTheTruth`, `ScreensTellTheLog` |
| `scoped_log` | 3 people, 2 of them members, 5 geographies, 3 rows a response, 1 of the geography, 4 events | `OwnGeographyIsWhole`, `SqlMirrorsTheFold`, `NamedHolderIsCurrent`, `ScreenAgreesWithPolicy` |
| `geography_import` | 2 states, pages of 1 row, 2 tools, 2 imports, 2 faults | `CleanMeansComplete`, `CompleteImportHoldsSnapshot`, `NoTwins` |

### Bounds

Every bound is a constant of its module and stands in the guard it limits.

- *Review*: one variant, because no function reads another's rows. Two cycles (approve, revoke,
  edit, review, approve) take seven stamps: submit, review, approve, revoke, submit, review,
  approve. Three people are the fewest who can approve; making the drafter a manager gives them
  every authority but the one the rules take away. `ClientClock` holds a clock that is slow and
  one that is ahead. 317,000 states.
- *Interleaved*: a lost update needs two calls in flight; the drafter manages the campaign, so
  may revoke as well. 1.9 million states. *Client*: three screens of any age over
  five stamps, submit, review, approve, revoke and one more; 3.2 million states.
- *Responsibility*: three levels are the smallest chain in which every rule of delegation
  applies; two sessions overlap; two UI requests and the invitation's own make a first
  assignment, a reassignment, a retry of each and a race; four calls leave room for two retries.
- *Outreach*: no action touches the rows of two keys, so one key is enough. Three runs are a
  send, its retry and an operator, or two operators and a send. Four runs (1.1 million states) agree.
- *Invitations*: two invitations make the chain founder, LGA coordinator, ward coordinator, or an
  invitation and its repetition; two tabs make two people, or one person with an old tab and a new
  one; the assignment is a handover or a vacancy between them. 1.6 million states.
- *Launch mailing*: two addresses and a limit of one make the smallest list that somebody is kept
  out of; two runs are a confirmation and the opt-out it overlaps with; two batches overlap; two
  tokens are a signup and its repetition, or two people; one fault makes the second copy.
  490,000 states, 108,000 of the fair specification.
- *Capture*: the second photo replaces the first while it is uploaded; four ids are an upload, its
  retry, the event and a second result. 4.9 million states.
- *Reviewing*: three drafts are a reading and two reviews, or two readings and a review; two
  figures tell confirmed from corrected; two fields, read in either order of runs, let a row be
  renamed to the other, in its one edit. One member is enough: the screen shows a read of any age
  whenever it likes, panels are left and opened again, and what was approved arrives when its
  panel is long about something else, so one panel sends whatever two could. 1.6 million states.
- *Scoped log*: four events are two assignments, a reassignment and a status, or a person and
  their slots; a response of three rows leaves some whole and cuts others. An LGA, a ward and
  a unit are the chain of the policy, with a second ward and a constituency beside it; a query of
  the geography returns one row, so that the LGA's wards do not fit and the ward's unit does.
  670,000 states.
- *Geography*: a state each for what is complete and what is lost; equal names in both states;
  pages of one row, so that every table takes several requests; two tools are a crawl and its
  resumption or repair; two overlapping imports or one that died and its successor.
  2.5 million states.

Symmetry is used where the members of a set differ only in their names, and only for safety.
Deadlock is not checked: each system stops when its bounded numbers of edits, stamps, requests,
runs, ids, faults or invitations are used up.

### Fairness

Only the launch mailing has any. A batch that runs takes its next step unless it is killed (weak
fairness of `Working(b)` for each batch), because its loop has a timeout on the provider's call
and survives every error; and the owner invokes the mail-out again while mail is due (weak
fairness of `ReadRecipients` for some batch), which is how the function is meant to be used: an
invocation is bounded, and the next "picks up wherever it left off" (`index.ts:63-66`). Faults and
kills are bounded by `MaxTrouble`: with endlessly many nothing can be promised. `EveryoneIsMailed` has an exception that is the code's own: a refused address stays
due, and as many of them as a batch is long, at the head of the order, keep everybody else from
ever being mailed.

Elsewhere none is assumed and no liveness is claimed. Nobody must ever review, approve or accept,
retake a photo or start an import; nothing retries by itself; and `outreach-gmail` has awaits
without a timeout (the token fetch and the body of Gmail's reply) that only the platform ends.

## What is proved

For every set of people, roles, geography, keys, runs, photos, addresses and bounds:

| Module | Theorem | Says |
|---|---|---|
| `ReviewProofs` | `Invariant`, `TypeCorrect`, `Reviewed`, `Projection`, `FreshReview` | the invariant of the atomic workflow and the properties it implies |
| | `Refinement` | it implements ContentGovernance |
| | `CallsTyped`, `TwoPeople` | two people behind every approval, whatever overlaps |
| | `SerialCalls` | what holds of atomic calls holds of their statements while nothing is written in between |
| | `ScreensTyped`, `ExportsWereApproved` | what is exported had been approved |
| `ResponsibilityProofs` | `Invariant`, `Identity`, `NoFalseSuccess`, `Authority`, `SerialFold` | the invariant of interleaved calls and what it implies |
| `OutreachSendProofs` | `Invariant`, `Honest`, `Failed`, `Final` | the invariant of sending and reconciling and what it implies |
| | `Refinement` | it implements MailLedger |
| `InvitationProofs` | `Invariant`, `TypeCorrect`, `Downwards`, `Offered`, `Rostered`, `Truthful`, `NoReturn` | the invariant of invitations and acceptance and what it implies |
| `LaunchMailProofs` | `Invariant`, `TypeCorrect`, `OptInComesFirst`, `OptOutIsKept`, `SecondCopies`, `ListsLeaveOptOutsOut` | the invariant of the mailing and what it implies |
| `ElectionDayProofs` | `Invariant`, `TypeCorrect`, `Preserved`, `RightPhoto`, `OneRecord` | the invariant of the panel, the bucket and the log and what it implies |
| | `ReviewTypeCorrect`, `RealReadings`, `TruthfulSource`, `ScreensAndLog` | what a screen shows was the log, a recorded reading was read, a confirmed one is the reading beside it |
| `ScopedLogProofs` | `TypeCorrect`, `FoldsAgree` | the folds in SQL and in the client agree |
| | `OwnGeography`, `NamedHolder`, `ScreenAndPolicy` | what a scoped reader is given and shown |
| `GeographyProofs` | `CleanSnapshots` | a clean manifest means a complete snapshot |
| | `OneRowPerPlace`, `CompleteImport` | no place twice, and a finished import holds its snapshot |

The assumptions are those on the constants, by name, in the modules: roles are roles, the drafter
is a person, the geography's parents exist, ids of accounts and of requests differ, the places
and the addresses are finitely many, a batch takes at least one; and, for the import, those on the
snapshot's names and parents that are quoted above.

**Review.** "The approved text was reviewed" is not inductive: an approval looks at reviews newer
than `updated_at`, so one must know that all of those are in favour of the text as it is
(`CycleIsClean`: edits happen outside the cycle and submissions start one later than every review
before), that stamps are distinct and past (`LedgerOrder`), and that approvals before the cycle
were revoked (`NoStandingApproval`). A wrong client clock cannot hurt because only the stamp of a
submission counts when the variant is in review.

**Review, call by call.** When calls overlap, what is left is what a call's checks saw that nobody
takes back: reviews are never removed and nobody's exclusion ends, so that a call past its checks
(`Checked`) may still commit. While nothing overlaps, nothing was written since a call in flight
began, so that the row it has read is the row there is, its clock is later than every stamp, and the
review it holds is the newest (`Current`): its commit is then an action of the atomic workflow, and the
invariant of that one is kept (`SerialIInv`). The screens add one fact to the atomic invariant: an export in
hand was an approved text when it was read (`ExportsInHand`).

**Responsibility.** A commit relies on what its call decided earlier. `CallsInOrder` says that
what it decided is still what it will write, or that it will collide: a slot's `resp` never
changes once there is one, and a first assignment meets the unique index if another got there
first. `LogInOrder` ties each event to one request sent, which makes a retry of it harmless.
`SerialCalls` is what overlap destroys.

**Outreach.** `OneHolder` carries everything: of the runs for a key at most one has been past the
insert of its claim, and claims are never deleted, so at most one ever calls Gmail. `StepsFit`
relates a run's step to what it holds, `IdsAreReal` says that every id kept anywhere is that of a
message Gmail took for that key, `SeenIsPast` that what a run has read of a claim is still true
where it matters, `FailedHasCause` that a FAILED claim has a refused run or a verdict behind it.
The proof first states once per action how it moves its run and the rows (`Moves`, `Marks`,
`Claims`, ...), then goes through the actions once per part of the invariant.

**Invitations.** None of the properties is inductive alone. A responsibility is written by a tab
that only remembers which invitation it is about: `ScreensFit` says that a tab past the first call
shows an invitation its user accepted, for a slot, and past the second that the user is on the
roster. `InvitationsFit` says that rows not yet created are untouched and that an accepted one made
its addressee a member, `RowsComeFromLog` that a holder was named by an event, which turns the
authority an invitation was sent with into a fact about the log. The proof then has two halves:
what no step takes back (`RolesKept`, `OffersKept`, `AcceptedKept`, `RecordsKept`) and what a step
may add (`NewMembersAccepted`, `NewOffersFit`, `NewEventsFit`); each part of the invariant follows
from the two without looking at the actions again, except for what the screens show.

**Launch mailing.** Following a link is by token alone, so everything rests on `OneOwner`: a token
is for one address wherever it is (a row, a run, a link, a list). `OptedIn` carries the click from
the run that confirms over the row to the lists; `OptedOut` says that nobody who opted out is
confirmed or about to be, which is why an opt-out beside a pending confirmation does not count;
`Accounted` adds up, per address, the mails against the stamp, the batches that have it on their
list, and the faults.

**Capture.** `Evidence` says of everything an event may be made of (the panel, a preparation, a
draft) that its path is stored and is the photo it was shown with unless it is stray; `Ids` that a
draft once approved keeps its id to itself: the panel drops it before anything else is prepared.

**Reviewing.** `RowsSound` says of every row on a screen, in a draft and on its way what the two
properties say of a recorded one, of the readings up to now, and `LogSound` of each recorded row,
of the readings before it. More readings never make a sound row unsound, because a second,
different reading is what the promise excepts; edits of the value tell the source anew, and a new
name is only given to a manual row, of which nothing is promised until its value is edited too.
An event may be stored before one that began earlier, so soundness is of the readings its own
session had seen: those were stored when the draft was made, and what has begun later has a later
place. Only a panel that is mounted needs the log: its rows come from the screen, which is what
the log said of some of the events stored, so its reading was read and its figures are of a
recorded row. That one may be of another reading, but then there have been two. That the fold of
the events seen is what they say is shown by going through the places of the log one by one.

**Scoped log.** The client's fold is recursive; `Tells` states what it makes of any rows, shown by
going through them (`Upto`), and `SameRows` that rows which agree on a responsibility are folded to
the same holder of it. What carries the properties is an invariant of the writers: the writes of a
slot share one responsibility and those of a responsibility share one slot (`WritesAgree`), so the
policy lets through all of them or none; a responsibility is as old as its first write
(`RespOfItsTime`), and a status is of a responsibility that was written (`StatusOfAWrite`). That a
response cut short names no former holder needs less: it lacks the oldest rows, so that of a slot's
writes the newest is there or none is. For the screen, the responsibility a member is narrowed by is
the oldest of theirs in the view (`LeastIs`, `MineFound`), and whatever its queries return is
collected below that one's slot (`Collected`), inside the policy's scope and all of it where nothing
failed or was cut short (`ScreenScope`).

**Files.** `Honest` says of each state's result, in memory or in the checkpoint, that it holds all
below its state if no request failed; between the two writes at the end of a crawl the snapshot
is what is in memory (`ToolFits`). The importer leaves the files alone.

**Tables.** Rows are never removed, so what a run has learnt of them stays true. An insert by
another run may push a row to a page further on but never out of what is still to be read
(`AheadKept`), so a run gets every row that was there when it began to read the table (`Known`); what
it may miss are rows inserted since. Those cannot become twins: every importer spells a place alike,
so a row planned although another run has written it meets the unique constraint (`FreshLga`,
`FreshWard`), and the rows spelt otherwise (`Foreign`) were all there before. `RunInv` says step by
step what a run knows: no local government it writes is there under another spelling (`LgasKnown`),
every ward of its snapshot is in the table or still to be written (`WardsKnown`), the ids resolved
are those of rows with the right key, and the ward rows of every run hang under such a row
(`WardRowsRooted`).

**Only model-checked.** `EveryoneIsMailed`, the one liveness property: fairness and ENABLED are out
of the prover's reach. That each fold the modules define by recursion is what its properties
say is proved for sequences of every length, as above; no general principle of induction is
used, because those of the library take an operator as a parameter.

## What does not hold

Some of what the repository says of itself is not so. Where a module states it, the definition
carries the quotation and says that it does not hold; no run checks it.

| Said | Where | Definition | Why not |
|---|---|---|---|
| the drafter of a variant may not review their own work | `20260907000000…sql:291` | `ReviewerDidNotWriteText` | the check is on `created_by`, and any member may rewrite the text |
| never-actually-reviewed content cannot become approved | `20260907000000…sql:400` | `ApprovedTextHasAReview` | an approval may commit after a rejection, an edit and a resubmission it has not seen |
| only the coordinator in office assigns below | `20260903000000…sql:268` | `WritersHoldTheirOffice` | the safety net reads first assignments, which no reassignment takes back |
| a handover takes the slot from its holder | `20260903000000…sql:349` | `HandoverChain` | two reassignments that overlap both commit |
| FAILED means nothing was sent | `20261014000000…sql:166` | `FailedMeansNotSent` | the body of Gmail's success may break off, or Gmail go on after an error status; an operator may rule too early |
| the accepted responsibility was granted | `invitations/write.js` | `ConfirmedOfficeIsHeld` | a retry is answered whoever holds the slot by now |
| unsubscribed users must not receive future mail | `launch-unsubscribe/index.ts:11` | `NoMailAfterOptOut` | a batch mails the list it has read |
| the evidence path has the event's id | `electionDay/evidence.js:118` | `EvidenceIsTied` | the upload of a click mints an id of its own, the event another |
| a review preserves what OCR read untouched | `ElectionDaySection.jsx:468` | `ReadingsKeepTheirField` | a captured figure that OCR read can be renamed, and takes the reading with it |
| rows are editable once OCR is complete | `ElectionDaySection.jsx:466` | `ReadingsCanBeReviewed` | rows are made when the panel is mounted, before the reading |

Noticed while reading, and left out of the models or visible in them only:

- *Reads of the log.* `loadElectionLog` asks for the whole log in one query; beyond the API's row
  cap the oldest rows are missing, and a slot may look vacant. A leader who also holds a scoped
  slot is narrowed by the screen, though `20260930000000:134-139` argues that leaders never are.
- *Reads of the geography.* The error of a query below the coordinator's slot is discarded
  (`responsibility.js:92`), and its rows are capped like any other: the screen then hides people
  the policy let through, and says nothing.
- *Geography files.* A torn checkpoint stops every later run, `FORCE_REFRESH` too, and loses the
  whole crawl, not "at most one state's partial work" (`checkpoint.mjs:7`). A forced refresh that
  dies before its first save leaves the old checkpoint to be resumed. A state with failed requests
  counts as completed and is never asked for again. The repair renews the checksum and keeps
  the validation status.
- *Outreach.* The update that keeps Gmail's id on a claim ignores its own result
  (`outreach-gmail/index.ts:465`). In `outreach-admin`, contacts and follow-ups are read and then
  updated by id, so overlapping requests overwrite a final status or a cancellation; SENT to SENT
  counts a follow-up twice; reconciling a list twice at once can record a message twice, though
  the control room says it never does; errors of the inserts of events are ignored. `invokeFn`
  turns every exception into an answer, so the control room says that nothing was written when
  all that is known is that no answer came.
- *Founding.* `bootstrapCampaign` looks up and inserts without a constraint; two first visits make
  two campaigns, and from then on the lookup fails. Two members can open two rooms for one
  geography in the chat.
- *Signup.* The attempts of the rate limit are counted before the new one is inserted, so those
  that arrive together all pass.
- *Texts.* "Save edit" writes by id without a version: of two edits the first is lost.
- *Invitations.* The status "expired" is never kept, because the exception rolls it back.

## Not modelled

Founding a campaign, chat rooms, the administration of outreach, and the event families whose fold
is an assignment of the last value (studio, mobilization, check-ins, incidents): they could be
modelled, but are statements without a promise between them, or have the shape of what is modelled.
For good: the studio's language understanding in seven languages, inference and readiness checks,
creative design and rendering, navigation and translations (functions of text without state, and
the largest part of the code by lines), the invitation email and voice functions (one call of a
provider and an answer), the shell of the product family around the election room.
Within the modelled components: the reading of replies and the OAuth connection of
`outreach-gmail`; the rate limit, telemetry and summary of the launch mailing; compression and the
OCR providers; the first importer, the dry run and the reports of the geography import; the
rendering of an export; wording of answers; and everything the row level policies hide from people
outside a campaign.
