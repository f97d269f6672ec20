# Verification of the document platform

TLA+ specifications, TLC runs and TLAPS proofs kept beside the code of the
platform (Go services under `src/services`, shared packages under `src/pkg`,
command line tools under `src/cmd`). `PROJECT.json` lists the components, the
runs, the source lines behind each definition, the hazards and the theorems.

- Section 1: the system and the inventory of its parts.
- Sections 2 to 8: one section per modelled component.
- Section 9: what is proved, from what, and what is only model-checked.
- Section 10: where the code and its comments disagree.
- Section 11: what is not modelled, and the plan.

## 1. The system and its parts

The platform is a set of services over one PostgreSQL database (row-level
security per tenant), an object store (S3), a NATS JetStream broker, Temporal
for long-running workflows and Redis for caches. Services change state inside
database transactions and tell each other about it through the transactional
outbox: an event row is inserted by the transaction that makes the change, and
a publisher drains the rows to JetStream, from which the other services'
durable consumers read. Nothing spans the database and S3 or the database and
the broker: every such pair of steps can be cut in two by a crash, and most of
what is modelled here is about that.

| Part | State | Operations | What makes it hard | Modelled in |
|---|---|---|---|---|
| Outbox and publisher (`pkg/database`) | `outbox`, `outbox_dlq`, the stream | insert, drain, dead-letter, replay, cleanup | replicas, crashes between publish and commit, lost acknowledgements | `Outbox` |
| Uploads (`storage`) | `upload_sessions`, objects, new blob rows | initiate, complete, abort, expire | concurrent and repeated completions, overwrite in place, best-effort deletes | `Uploads` |
| Blob references (`storage`, `document`) | `content_blobs`, version links, objects | upload, link, copy, purge, clean up, reap | two services count and delete the same rows under READ COMMITTED | `BlobReferences` |
| Blob relocation (`storage`, `dms-admin`) | one blob's row, objects, retention, KEK | re-encrypt, WORM-lock, re-wrap, rotate | three long operations with compare-and-set at the end | `BlobRelocation` |
| Lifecycle, holds, records (`document`, `workflow`) | documents, holds, records, one folder | transition, hold, release, delete, restore, purge, declare, freeze, dispose | checks and writes of different transactions, with and without row locks | `DocumentHolds` |
| Audit (`audit`) | hash chain, checkpoints, dead letters | append, erase, re-baseline, checkpoint | replicas append to one chain while others rewrite it | `AuditChain` |
| Search (`search`) | index documents, pending permission updates | index, partial update, debounce | events late, twice, out of order; acknowledged before applied | planned |
| Connector (`connector`) | webhook deliveries, cursors, mailboxes | fan out, claim, deliver, finish, ingest | lease expiry against a late answer | `Webhooks` (deliveries) |
| Workflow (`workflow`) | Temporal histories, instances | approval, review, retention, data-subject requests | signals against timers, repeated activities | activities in `DocumentHolds` |
| Task (`task`) | tasks, links | transition, sweep | sweep against a user's transition | planned |
| Policy (`policy`) | grants, decision cache | grant, revoke, check | cached decision against a revoke | planned |
| Signature (`signature`, `signature-signer`) | envelopes, signers, seals | send, sign, decline, seal | signers in parallel, seal after crash | planned |
| Billing (`billing`) | subscriptions, usage | payment events, metering | events repeated and reordered | planned |
| Auth, notification, gateway, MCP server | sessions, keys, preferences | login, notify, read | little shared state | no |
| Preview, intelligence, collaboration | caches, job rows, rooms | render, OCR, CRDT | data processing | no |
| Web, mobile, extension, add-ins | client state | user interface | | no |

The seven modelled parts are the ones on which nothing may go wrong silently:
an event must not be lost, bytes must not be lost, a held document must not be
changed, the audit trail must stay one verifiable chain, and a receiver must not
be called twice for nothing. They interact through a few points only. `Uploads`
ends where `BlobReferences` begins, with a `content_blobs` row at count 1
(`UploadNew`, `UploadDuplicate`). `BlobReferences` treats a WORM lock as the
flip of the row's pointer, which `BlobRelocation` takes apart. A purge of
`DocumentHolds` (`HardDelete`) is the purge of `BlobReferences` seen from the
document. Every transaction of all of them may insert outbox rows, which is
`Outbox!Insert`; `AuditChain` and `Webhooks` consume from the stream that the
outbox fills, each through a durable consumer of its own.

Conventions. A handler is cut into one action per database transaction or S3
call, because those are the points where another actor can act or the process
can die; several statements of one transaction are separate actions where
another transaction can commit between them and it matters. A definition that
says "Mutant" or "Faulty variant" is a wrong version of the definition after
it: the runs find the property violated when it is put in its place. They are
used by no specification.

## 2. The outbox (`Outbox`, `EventDelivery`)

**State.** `outbox`, `attempts`, `transient`, `due`, `keep` are the columns of
the outbox table that the publisher reads (`published`, `attempts`,
`transient_failures`, `next_attempt_at`, `published_at`), `dlq` is
`outbox_dlq`. `tx[p]` is replica p's open drain transaction: which rows it
holds locks on and what it has recorded about each, visible to others only at
`Commit`. `stored` and `dup` are the stream and its duplicate window, `wire`
the publishes whose caller timed out.

**Actions.** `Insert` (`OutboxRepository.Insert` with the caller's commit),
`Claim` (begin and `outbox_claim_batch`), `publishOne` in its four outcomes
(acknowledged, timed out, timed out but stored, refused), `Commit`, `Rollback`
(crash or database error anywhere in the cycle), `cleanupOldEvents`,
`ReplayDLQ`, and `Tick`. `Arrive` is a late publish reaching the broker.

**Time** is kept as remaining ticks, so the model needs no clock. `now()` is
PostgreSQL's transaction start, which is why a deferral subtracts the ticks the
transaction has been open.

**Abstract specification.** `EventDelivery` is what the rest of the platform
relies on: a committed event is eventually with the broker, or parked until an
operator requeues it.

**Runs.** `outbox_safety`: two events, two replicas, one crash, one lost
acknowledgement, one replay, two attempts before an event is parked, a duplicate
window of one tick (a retry may fall inside or outside it). That is enough for a rollback after a publish, a late copy after a retry and a second
dead-lettering, and for the two replicas to split a batch. No two replicas hold
the same row (`ClaimedRowsExclusive`). `outbox_liveness`:
the older event always times out (`Poison`), and the younger one still leaves
the outbox; the run also checks the refinement of `EventDelivery` with its
fairness. There a crash is allowed and lost acknowledgements and replays, which
add only finite prefixes, are not.

**Fairness.** A replica polls on its ticker, a publish returns within
`PublishTimeout`, a transaction that can commit does, time passes, the cleanup
ticker fires: all weak. That the broker answers an event that is tried again
and again (strong fairness of `Answered`) is the assumption that the broker is
not down for ever; events of `Poison` are exempt from it.

**Left out.** `transientBackoff` caps each deferral at the duplicate window but
not their sum, so the window does not cover a row deferred several times;
`CopiesExplained` therefore counts lost acknowledgements instead of promising
deduplication. The gauges (`observe`) change no state.

## 3. Uploads (`Uploads`)

**State.** Per session its `status`, whether its validity `window` is open,
expired or past `ScanningGrace` as well, its declared content, and the bytes
under its object key: absent, the client's plaintext, or the number of the
data key that encrypted them. `rows` are the `content_blobs` rows by content
hash; `call` is the position of each request with what it has read. `deks` counts
the data keys, or says that no KeyManager is wired, and objects then stay
plaintext (`EncryptAtRest`).

**Actions.** `InitiateUpload`, the client's PUT, `Claim` and `ClaimExpired`
(the claim transaction of `CompleteUpload`), then one action per external step:
size check, fetch, hash and policy (`Reject`), scan, quarantine, encrypt and
overwrite, final transaction (`Persist`, `PersistQuarantined`,
`PersistFails`), `FailUpload`, and the object delete that follows
(`DropObject`). `AbortUpload`, `SweepExpiredUploads`, `Crash`. A transaction
whose commit took effect but whose answer was lost goes the failure path. A PUT
that reports an error may have overwritten the object.

**Runs.** `uploads`: two sessions that upload the same content, so that one may
be deduplicated into the other's row or be refused because a row is in another
region, two requests, two encryptions or none, clients that retry only after the
previous call returned or its process died (`RetryOverlap = FALSE`). Sessions of
different contents share nothing but the requests.
The same run checks that no claim lasts for ever, whatever dies
(`ScanningReleased`). That a session has one pipeline at a time is proved for
overlapping retries too (`PipelineExclusive`). `uploads_retry`: overlapping
retries on one session, see section 10.

**Fairness.** Time passes, the sweeper runs every five minutes and a running
request is not suspended for ever. Success is never assumed: every step of
`Complete` may be its failure.

## 4. Blob references (`BlobReferences`, `BlobStore`)

**State.** `Blobs` are row ids with their object keys, numbered in the order in
which a reap cycle meets their rows: tenant after tenant, and by `created_at`
within a tenant. Two blobs are two contents, or one content uploaded again after
its row went; the unique hash decides only whether an upload makes a row or
counts on one. `refs` is `reference_count`, `pending` the completed uploads not
linked yet (history), `links` the version rows, `object` the bytes,
`purging` and `seen` the open purge transactions with what their UPDATE's
snapshot saw, `released` and `locked` the cleanup after a purge, `listed` and
`condemned` the reapers' position.

**Actions.** The last transaction of an upload, `CreateDocument`,
`CreateVersion`, `CopyDocument`, `DeleteDocument`, `RestoreDocument`, the purge
in its two steps (statement snapshot, then row locks and commit), the cleanup
(`LockReleasedBlob`, `CleanupDeletesObject`, then `CleanupCommits`, or
`CleanupFails` before or after the S3 delete), the reaper
(`ListZeroRefOlderThan` with its batch, `HardDelete`, `DeleteObject`, crash),
`ApplyWORM`, `Age`.

**Locks.** Inserting a version takes a KEY SHARE lock on the blob row through
its foreign key; FOR UPDATE and DELETE conflict with it, a count update does
not. `Free(b)` is what linking, counting and deleting wait for.

**A row without bytes.** A cleanup deletes the row, then the object, then
commits. If it fails after the object is gone, the row comes back bare, and a
later identical upload dedups onto it. `deleteReleasedObjects` names this
residual; the model takes the step, and `BareByRollback` says that it is the
only way, and that nothing referenced the row at that moment. An S3 delete is
taken to act before the transaction ends or not at all.

**Abstract specification.** `BlobStore`: a blob is reclaimed, or loses its
bytes, only while no version points at it. The mapping takes as stored the blobs
with a free row and bytes, and as lost those with a free row and no bytes.

**Runs.** `blobs`: two documents, two blobs (so that one can be listed before
the other, or be the re-upload of the other's content), counts up to 2, and a
batch of one row, so that a row the reaper must skip can keep another out of the
batch. A WORM lock may fall between a reaper's listing and its delete:
`reapBlobs` tests the bucket it listed, and the row is deleted although the
bytes are retained. `WormRowsKept` says that this is the only way a WORM row
goes. `blobs_purges`: two documents that share one blob, see section 10.

**Liveness.** `QueueDrained`: an unreferenced row at count 0 is deleted, unless
it is referenced or locked meanwhile or is crowded out. The batch has no cursor:
unreferenced WORM rows, and rows linked at count 0, are listed again in every
cycle, and once a whole batch of them comes first, nothing behind them is reaped
(`Crowded`). The property says that nothing less stops the queue. Documents are
purged for good in the model, so links do not come and go for ever.

**Fairness.** Blobs get old, the hourly reaper lists what its batch holds, a
cleanup's transaction ends (its context times out), and a blob listed again and
again is tried at last: strong fairness of `HardDelete`, because its DELETE
queues for the row lock and because a reaper is assumed not to crash in every
cycle. The listing of all tenants is one step.

## 5. Blob relocation (`BlobRelocation`, `BlobPointer`)

**State.** One blob: its `row` (tier, region, object key, data key, KEK
version), the objects in S3, those under retention, the tenant's live KEK
version, and per request what it read. Every encryption makes a fresh object
key and a fresh data key, so ciphertext g is stored under key g and opened by
data key g. KEK version 0 stands for the regional alias.

**Actions.** `ReencryptBlob` (read the row, fetch and re-encrypt, put, flip the
row with `UpdateMigration`, delete the loser), `ApplyWORM` (copy, retain, flip),
`RewrapDEK` (read, re-wrap under the live KEK, `UpdateEnvelope`), `RotateKEK`,
`ExtendRetention` (of a blob that is locked already), `Crash`. The tier of a
migration is its caller's (`target_tier` of the request), so a migration may also end
in the WORM bucket; `hot` stands for every bucket without object lock. The
compare-and-set conditions are the columns the two UPDATEs repeat:
all of them in `UpdateMigration` and the WORM flip, the envelope only in
`UpdateEnvelope`.

**Abstract specification.** `BlobPointer` is what readers of the blob see: one
row that always points at a copy it opens and switches to another in one step
(`Migrate`, `Lock`, `Rewrap`), to a copy that is there already, newer each time
never out of the WORM bucket, and on a lock to a retained copy. Copies come and
go meanwhile (`Copy`), but not the one the row points at, and retention is not
taken back. The mapping is the identity on the row, the objects and the
retention; requests and key rotation are hidden.

**Retention.** `RetentionKept` is stated for what `ApplyWORM` does, and not for
every row in the WORM bucket: a migration with target tier `worm` puts a row
there with no retention until `ApplyWORM` is called on it.

**Runs.** `relocation`: two requests at a time of any kind, each of which may be
followed by others, two regions, two encryptions, two rotations (a re-wrap that
raced one of them meets the other). `relocation_ambiguous`: two
requests, commits whose answer may be lost, see section 10.

## 6. Lifecycle, holds and records (`DocumentHolds`)

**State.** Documents with lifecycle state, trash and version count; one folder
and the `cohort` its deletion took along; holds with origin, active flag,
bindings and remembered state; records with disposition state, freeze, cutoff
and certificate events; and `tx`, the open transactions with what they lock.

**Locks.** This is what the component is about, so the model keeps each
transaction's lock and the gap between its check and its write:

| Path | Lock before the check | Gap |
|---|---|---|
| lifecycle, delete, new version, purge (`LockDocument`) | document FOR UPDATE | closed |
| bind or edit a compliance hold (`LockForHold`) | document FOR SHARE, hold row | closed |
| certified disposition (`DisposeCheck`, `Dispose`) | record FOR UPDATE, not the document | open |
| folder delete (`ProtectedDocumentsInSubtree`, `SoftDeleteSubtree`) | none | open |
| restore a document (`RestoreCheck`, `RestoreDocument`) | none | open, the UPDATE repeats the trash test |
| declare, freeze | none | open, the INSERT and the UPDATE serialize |

Refusals that depend on permissions, dates or metadata, errors and crashes are
all `Abort`. The check of a locking writer is one step with its lock, since
nothing it reads can turn from allowed to refused in between without the lock.

**Runs.** `holds`: one document in the folder, two holds, two transactions of
any kind, one version. The check of a document reads only that document's rows,
so one document shows every race on it; a cohort of several documents and a
hold shared by several are covered by the proofs only. Two holds let an ended
one of either origin stay bound next to an active one, and two transactions
show every pair of a check and a write.
`holds_dispose`: see section 10.

## 7. The audit trail (`AuditChain`, `AuditLog`)

**State.** One tenant. `rows` is `audit_events`, in `(created_at, id)` order,
each with the hash it stores and the hash it links to; `checkpoint` is the
latest row of `audit_checkpoints`. `lock` is the tenant's advisory lock, `pc`
and `job` the position of each request or message handler, `draft`, `todo`,
`carry` and `differs` the private state of its transaction, and `stale` the rows
that changed since it read them. `num`, `acked` and `parked` are the stream and
its dead letters. `dropped`, `epoch`, `altered`, `raced` and `overtaken` are
history: events whose last handler died (of which nobody is told) or could not
park them (which is logged), rewrites committed, rows changed behind the
service's back, those changed between the two reads of an erasure, and
re-baselines that began before the latest checkpoint.

**Actions.** `Deliver` and `RecordAccessDenied` start an append:
`AppendChained` takes the lock and reads the head, `AppendCommit` commits, then
`Ack`, or `Park` for the last delivery. `AnonymizeAndRechain` (erasure) takes
the lock, reads the chain and verifies it; `RedactSubject` hides the actor and
reads the chain again. `RebaselineChain` takes the lock and reads once. Both
then walk what they read, one event per `Rechain`;
`EraseCommit` and `RebaseCommit` append the marker and commit, `EraseNothing`,
`RebaseRefuse` and `RebaseNothing` are the early returns. `ListAll`,
`LatestCheckpoint`, `HeadAndCount` and `InsertCheckpoint` are the steps of a
checkpoint, each a statement of its own outside the lock. `Fail`, `Crash` and
`Alter` are what goes wrong.

**Abstractions.** A hash is the record of what was hashed, so hashes collide for
equal content only. A payload is the form Postgres hands back, the raw envelope
that older builds hashed, or an altered one. Whoever alters a row takes no
advisory lock (`OverwriteSubjectPII` of the data-subject requests, which
updates `audit_events`, takes none) and waits only for rows that an open transaction has written, so an alteration
may fall between any two steps of a rewrite. A rewrite hashes the payload as it
read it (`Loaded`) and does not write it. The in-process mutex, which only keeps a replica
from queueing at the lock with itself, the dry run and the recreation of the
consumer are left out. A re-baseline's checkpoint is dated by the start of its
transaction, so one inserted meanwhile stays the latest (`overtaken`).

**Abstract specification.** `AuditLog` is what a tenant is promised: entries
are recorded one at a time, each dated after all others, and stay as they were
recorded. A rewrite gives them other links (`Relink`), an erasure also hides the
subject (`Erase`), and each leaves an entry of its own in the same step. The
mapping keeps of a row its id, stamp, event, actor and link, and forgets the
payload (what `AlteredShows` is about) and all private state, so that a walk
over the chain, however long and however it ends, is nothing to a reader until
it commits.

**An alteration during a rewrite.** If a row changes after the rewrite read it,
the new hash is over the old payload, and the alteration shows. If it changes
before the lock, an erasure refuses (`ErrChainTampered`). In between lies the
window that `AlteredShows` exempts (`raced`): `AnonymizeAndRechain` verifies its
first read and rehashes its second, so an alteration between the two is sealed
under a valid hash. A re-baseline reads once and has no such window. A row
created before the cutover is exempt as well: a re-baseline is there to rehash
those.

**Run.** `audit_chain`: two processes, one event delivered at most twice, a trail
that starts empty, with a legacy row or with a pre-fix row, and two requests of
any kind or one request and one fault (`Budget`). Two
requests are needed for a checkpoint, or a second rewrite, around a rewrite; one
fault for an altered row that a rewrite meets. The subject's events are the old
row and the denials, and the event of the stream is somebody else's
(`MCBy`, `Denied`): it may come after a subject's, and then an erasure has to
rehash it without redacting it.
The clock says one value only, so every later append goes through the clamp.

**Fairness.** A handler and a request run on, and the stream redelivers what is
not acknowledged (weak). `EventsSettle`: an event reaches the trail or the
dead-letter stream, unless its last handler died or could not park it.

**Observation.** `RebaselineChain` compares each row with the hash recomputed
from its recomputed predecessor (`rebaseline.go:86-102`). An event appended
after the fix onto a pre-fix head therefore counts as differing at or after the
cutover, and the tenant is refused, where
`docs/runbooks/audit-chain-rebaseline.md:45-47` expects it to verify. The model
follows the code.

## 8. Webhook deliveries (`Webhooks`)

**State.** One tenant of several. `subs` are the subscriptions, `rows` the
`webhook_deliveries` in `created_at` order with status, attempts and whether
`next_retry_at` is still ahead; `evt`, `sent` and `fan` are the fan-out consumer
and the message it is at; `claim`, `stage` and `result` the batch of each
worker, with the attempt count it read. `audience`, `skipped` and `posts` are
history: who was subscribed at publication, failed inserts, and the posts of a
row that were made, were accepted, or were hit by a fault.

**Actions.** `CreateWebhook`, `DeleteWebhook` (its foreign key refuses once rows
exist), `SendTestEvent`, `RedeliverDelivery`; the fan-out
(`GetActiveWebhooksForEvent`, one `FanoutInsert` per subscription, `FanoutAck`,
and its failures); a worker's `ClaimPendingDeliveries`, `GetWebhook`, the post
in its outcomes, `FinishDelivery` with its compare-and-set on the attempt count;
`Start` and `Crash`; and `Elapse`, `Overrun` for time. The receiver and the
stream are external.

**Abstractions.** Time is whether a row is due. A lease runs out under a live
worker only as a counted fault (`Overrun`), since a batch of `claimBatch` posts
fits into `claimLease`. The limit of a claim is shared by the tenants in turn,
so that a worker takes up to `n` rows of this one, for any `n` that those before
it may have left; when the claim of a later tenant fails, the whole batch is
given up with its leases taken, which is `Crash`. One message is fanned out at a
time, although each event family has a consumer of its own: two fan-outs share
only the rows they append, and no property is about the order of two events.
Secret rotation, URL checks and the matching of event names are left out, and
`active` does not change after creation, as nothing in the code changes it. A
failed insert of the fan-out is logged and the event is acknowledged all the
same (`skipped`); a failed read of the subscription dead-letters the row unsent
(`unread`). Both are what the code does, and the properties name them as
exceptions.

**Run.** `webhooks`: one event, two subscriptions, two workers, batches of two,
two attempts, two deliveries of the message, one fault. One subscription starts
with a row of an event family that may no longer be sent; that row is read and
dead-lettered, never posted. There is room for four rows as long as no worker
has started, and for two where workers run (`WorkRows`). Four let a fan-out to
both subscriptions fail between its two inserts, be redelivered, repeat the
first and be acknowledged: this is what `AckedFannedOut` is about, and the
fan-out does not depend on the workers. Two leave room for one row that is
posted beside the one that may not be sent, so that a batch holds it while the
worker is at the other. The fault may hit at any step of a worker or of the
fan-out, and the attempt it costs is made up by the other worker or a
redelivery. Several rows that are posted, and sequences of faults, are left to
the proofs.

**Fairness.** A worker that was started polls every five seconds and works
through its batch, and time passes (weak). That nothing has to start is why
`DeliveriesSettle` speaks of rows where a worker runs: each is delivered or
dead-lettered. For a tenant among others it also assumes that those before it do
not use up the limit of every claim, which the code does not prevent: tenants
are asked in the order in which the database lists them.

**Deadlock** is not checked for sections 3 to 8: a session may end, a document
be purged, a bound be used up, and then nothing is left to do. The outbox, which
has to keep ticking, is checked for it.

## 9. Proofs

Each proof module extends its component and proves, for every value of
the constants allowed by the named ASSUMEs, what the runs show on small
instances. Assumptions on the environment are hypotheses of the theorem.

- **`OutboxProofs`**. `IInv` adds to the invariants what makes them
  inductive: rows and messages come from committed events, an id in the
  duplicate window has a copy, what an open transaction recorded happened
  (`Recorded`), counted attempts are refusals, and a budget of copies
  (`CopyBudget`: copies and messages in flight are paid for by crashes, lost
  acknowledgements and at most one success that is remembered). Theorems
  `TypeCorrect`, `NothingLost`, `RowsExclusive`, `OneTable`,
  `RefusedBeforeDead`, `CopiesPaidFor`, and the step simulation
  `OutboxImplementsDelivery` of the safety part of `EventDelivery`.
- **`UploadsProofs`**. `Claims` holds for all clients: one owner per claim,
  and a claim that is owned was not released unless its grace ran out. It gives
  `UploadsTyped`, `PipelineExclusive`, `GraceHonoured`, `UploadsCounted`,
  `AbortFinal`, `TerminalForEver`. `Readable` needs clients that do not overlap
  their retries: then one request works on a session, and no request is about
  to delete an object that a row points at. It gives `RowsStayReadable`.
  Together with `Linked` (a session completes into the row of its own content)
  and the counts (a row that somebody completed into is there) it gives
  `CompletedStaysServed`: what `CompleteUpload` answered stays true.
- **`BlobReferencesProofs`**. `RowInv`: linked rows are free, a cleanup locks
  only present rows at count 0, and the reaper deletes bytes only after their
  row. It gives `BlobsTyped`, `LinkedStaysReadable`, `BareOnlyByRollback` and the refinement
  `StoreRefined`. `WormOut` (no cleanup holds a WORM row) gives `WormKept`.
  None of them has a hypothesis on how deletes or commits fail.
- **`BlobRelocationProofs`**. `LockInv`: migrations start outside the WORM
  bucket, a flip to WORM has a copied and retained target, the copy a migration
  makes is newer than the one it read, a re-wrap goes forward. It gives
  `RelocationTyped`, `WormIsRetained`, `WormForEver`, `KeysForward`. `ReadInv` (a generation belongs to one request, the target of
  a flip is stored before it, and what is deleted after a flip is an older
  generation than the row's) gives `RowStaysReadable`, from `~AmbiguousCommit`.
  From both, `PointerRefined`: a step that writes the row is one of the three
  switches of `BlobPointer`, because what the compare-and-set repeats is still
  what the request read, and every other step keeps the copy the row points at.
- **`DocumentHoldsProofs`**. `IInv`: `Locks` (what FOR UPDATE, FOR SHARE
  and the record and hold rows exclude), `Checked` (what a transaction found
  under its lock still holds when it writes), `HoldRows` (an active lifecycle
  hold is the only one of its document and remembers a holdable state) and
  `DisposedOnce`. `Moves` says what one step can do to a document; the four
  action properties follow from it. Theorems `HoldsTyped`,
  `LegalHoldIsBacked`, `DisposalHappensOnce`, `HeldStaysFrozen`,
  `ProtectedStaysOut`, `FrozenStays`, `DisposedIsFinal`.

- **`AuditChainProofs`**. The chain is not inductive by itself, because a
  rewrite replaces it while it is being read. `IInv` says: at most one process
  holds the lock, and only a holder has private rows (`LockInv`); what a process
  carries fits its position and its id is unused (`JobInv`, `IdInv`); the stored
  rows have distinct ids and stamps, each links to its predecessor and matches
  its hash or is known not to (`RowsInv`); a pending insert is still the row for
  the current head (`InsertInv`); the visited part of a walk is a linked prefix
  whose last hash is carried, over the same events as the table (`WalkInv`); an
  acknowledged event is recorded (`StreamInv`). For alterations under a rewrite
  it says what the rewrite knows: between its reads, an erasure's first read has
  shown no altered event but those of these very moments (`RedactInv`); during
  the walk, an event still to be visited that was altered before is among the
  `stale` ones, so that the hash to come is not over what is stored. The clamp
  of `created_at` is what makes the order one of stamps. Theorems `Typed`, `OneChain`,
  `AlterationShows`, `KeptEvents`, `KeptTrail`.
- **`AuditChainCheckpoints`** adds `CheckInv`: a checkpoint, and the head a
  request has read for one, is of this epoch only if it covers a prefix of the
  rows. An append adds a row after every other, so prefixes keep their
  size, and a rewrite starts a new epoch. It needs that tables are finite, which
  is why it is a module of its own. Theorem `CheckpointCovers`. The same module
  proves `TrailRefined`, the refinement of `AuditLog`: `WalkInv` says that a
  finished walk holds the same events as the table, with the subject hidden or
  not, and the append of its marker under the lock is the one step readers see.
- **`WebhooksProofs`**. `RowInv` and `WorkInv`: an open row has attempts left,
  attempts are never ahead of the posts made, and an outcome about to be
  recorded was earned. `EventInv`: a subscription still owed an event is among
  those left to the fan-out. `OnceUnlessFault` needs a count: a row may be
  accepted again only by a worker that holds it, or by one that can still claim
  it. `RightsInv` says that acceptances so far, plus those holders, plus one if
  the row is free to be claimed, are covered by one right and the faults that
  hit the row. Sizes are bounded by injections into 1..k (`Fits`), so the set of
  workers may be infinite. Theorems `DeliveriesTyped`, `FannedOut`,
  `DeliveredOnce`, `OutcomesTrue`, `OutcomesKept`.

Every safety property that a passing run checks has a theorem. Proved and in no
run: `OneTable`, `PipelineExclusive`, `AbortFinal`, `CompletedStaysServed`,
`LinkedStaysReadable`, `WormIsRetained`, `WormForEver`, `KeysForward`, `DisposedIsFinal`,
`KeptTrail`. The refinements `ImplementsBlobStore`, `ImplementsPointer` and
`ImplementsAuditLog` are proved whole, that of `EventDelivery` without its
fairness.

Only model-checked: the liveness properties `OutboxDrains`, `ScanningReleased`,
`QueueDrained`, `EventsSettle`, `DeliveriesSettle` and the fairness part of
`ImplementsDelivery` (liveness under fairness is outside the proof system's
reach).

## 10. Where code and comments disagree

Each of these is a run in which TLC reaches a state that a comment of the code
rules out. `PROJECT.json` quotes the comments.

| Run | Property | What happens |
|---|---|---|
| `uploads_retry` | `RowsReadable` | A rejected `CompleteUpload` records the failure and then deletes the object. A retry that claims the failed session in between completes, and its object is deleted. |
| `blobs_purges` | `UnreferencedQueued` | Concurrent purges of a document and its copy each see the other's version. The count stays at 1 with no version left, so nothing ever reclaims the blob. |
| `relocation_ambiguous` | `RowReadable` | A migration whose commit took effect but reported an error deletes the object the row now points at. |
| `holds_dispose` | `HeldNotDisposed` | A hold bound between the hold check of a certified disposition and its UPDATE does not stop it: the document row was not locked. |

The positive runs say what remains true in spite of them: `uploads` and
`RowsStayReadable` for clients that do not overlap retries, `relocation` and
`PointerRefined` when commits answer truthfully, `HeldFrozen` while no
disposition is under way, `ProtectedKept` outside folder deletions.

## 11. Not modelled, and the plan

Abstracted inside the modelled parts: permissions, quotas, file names, regions
other than as labels, metadata, event payloads, the second pooled connection
that `blockedByRecord` takes, folder trees (one folder is modelled), moves
between folders, the retention sweep's choice of documents.

Planned, in this order, each as a module with its invariants and proofs:

1. `PermissionIndex`: debounced permission updates against event order,
   crashes and failed flushes.
2. The retention sweep and the task and approval state machines.
3. A composition of `DocumentHolds` and `BlobReferences` over purges, and of
   `AuditChain` with `EventDelivery` as its input.

Out of reach or of little use to a state model: PDF and certificate processing
(`signature/internal/pades`), OCR, rendering and machine learning, provider
protocols, the CRDT library, user interfaces.
