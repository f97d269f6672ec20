------------------------------- MODULE Uploads -------------------------------
(***************************************************************************)
(* The upload pipeline of the storage service                              *)
(* (services/storage/internal/service/service.go, expiry.go and            *)
(* repository/uploads.go): upload sessions, the object each session's      *)
(* presigned URL writes, concurrent CompleteUpload and AbortUpload calls   *)
(* taken one storage or database step at a time, the expiry sweeper and    *)
(* crashes. Rows are only added here; BlobReferences.tla has the rest of a *)
(* blob's life.                                                            *)
(*                                                                         *)
(* A session's object key is its own, so objects are indexed by session.   *)
(* Bytes are Plain as the client PUT them, or the number of the data key   *)
(* (DEK) they were encrypted with.                                         *)
(***************************************************************************)
EXTENDS Integers, FiniteSets

CONSTANTS
  Sessions,       \* upload sessions
  Contents,       \* distinct plaintexts (SHA-256 values)
  None,           \* no session, no content
  Calls,          \* concurrent CompleteUpload / AbortUpload requests
  RetryOverlap,   \* may a client retry while its previous call still runs?
  MaxWrites       \* bound: ciphertexts written

ASSUME UploadsAssumption ==
  /\ IsFiniteSet(Sessions) /\ None \notin Sessions \cup Contents
  /\ RetryOverlap \in BOOLEAN /\ MaxWrites \in Nat

VARIABLES
  status,     \* session -> upload_sessions.status ("none" before it exists)
  window,     \* session -> "open", "expired" (past expires_at), "abandoned"
              \*            (past expires_at + ScanningGrace)
  content,    \* session -> the plaintext the client uploads
  blobOf,     \* session -> content of upload_sessions.content_blob_id
  object,     \* session -> Bytes under its key
  rows,       \* content -> content_blobs row, or NoRow
  call,       \* call -> where a request is
  deks,       \* data keys the KeyManager has generated; NoKMS: none is wired
  aborted     \* history: sessions whose AbortUpload committed

vars == <<status, window, content, blobOf, object, rows, call, deks, aborted>>

Absent == -1
Plain  == 0
Bytes  == {Absent, Plain} \cup (1..MaxWrites)

NoKMS     == -1
Generated == {NoKMS} \cup (0..MaxWrites)

\* Config.EncryptAtRest: a wired KeyManager turns it on, and it requires one.
EncryptAtRest == deks # NoKMS

NoRow     == [key |-> None, dek |-> 0, of |-> Absent, refs |-> 0]

Stages == {"claimed", "sized", "fetched", "infected", "moved", "clean", "written"}
InFlight == {"initiated", "scanning"}
\* A request that has done nothing yet on session s.
Begun(stage, s) == [at |-> stage, s |-> s, buf |-> Absent, dek |-> 0, drop |-> FALSE]
Idle == Begun("idle", None)

TypeOK ==
  /\ status \in [Sessions ->
       {"none", "initiated", "scanning", "completed", "quarantined", "failed"}]
  /\ window \in [Sessions -> {"open", "expired", "abandoned"}]
  /\ content \in [Sessions -> Contents \cup {None}]
  /\ blobOf \in [Sessions -> Contents \cup {None}]
  /\ object \in [Sessions -> Bytes]
  /\ rows \in [Contents -> [key : Sessions \cup {None}, dek : 0..MaxWrites,
                            of : Bytes, refs : 0..Cardinality(Sessions)]]
  /\ call \in [Calls -> [at : Stages \cup {"idle", "failing", "dropping"},
                         s : Sessions \cup {None}, buf : Bytes,
                         dek : 0..MaxWrites, drop : BOOLEAN]]
  /\ deks \in Generated
  /\ aborted \subseteq Sessions

Init ==
  /\ status = [s \in Sessions |-> "none"]
  /\ window = [s \in Sessions |-> "open"]
  /\ content = [s \in Sessions |-> None]
  /\ blobOf = [s \in Sessions |-> None]
  /\ object = [s \in Sessions |-> Absent]
  /\ rows = [h \in Contents |-> NoRow]
  /\ call = [c \in Calls |-> Idle]
  /\ deks \in {NoKMS, 0} /\ aborted = {}

At(c, stage)   == call[c].at = stage
Goto(c, stage) == call' = [call EXCEPT ![c].at = stage]
Return(c)      == call' = [call EXCEPT ![c] = Idle]
\* Leave the pipeline through failUpload; drop: then delete the object.
GiveUp(c, drop) == call' = [call EXCEPT ![c].at = "failing", ![c].drop = drop]

-----------------------------------------------------------------------------
(* The client and the clock *)

InitiateUpload(s, h) ==
  /\ status[s] = "none"
  /\ status' = [status EXCEPT ![s] = "initiated"]
  /\ content' = [content EXCEPT ![s] = h]
  /\ UNCHANGED <<window, blobOf, object, rows, call, deks, aborted>>

\* The presigned PUT, before the client asks for completion (again).
ClientPut(s) ==
  /\ status[s] \in {"initiated", "failed"} /\ window[s] = "open"
  /\ \A c \in Calls : call[c].s # s
  /\ object' = [object EXCEPT ![s] = Plain]
  /\ UNCHANGED <<status, window, content, blobOf, rows, call, deks, aborted>>

Expire(s) ==
  /\ status[s] # "none" /\ window[s] # "abandoned"
  /\ window' = [window EXCEPT ![s] = IF @ = "open" THEN "expired" ELSE "abandoned"]
  /\ UNCHANGED <<status, content, blobOf, object, rows, call, deks, aborted>>

\* Faulty variant: no grace for a scanning session.
sessionExpiredNoGrace(s) == window[s] # "open"

\* Faulty variant: a scanning session never expires.
sessionExpiredNotScanning(s) == status[s] # "scanning" /\ window[s] # "open"

\* sessionExpired: expires_at, plus ScanningGrace while scanning.
sessionExpired(s) ==
  IF status[s] = "scanning" THEN window[s] = "abandoned" ELSE window[s] # "open"

\* SweepExpiredUploads / MarkExpired, one tenant's transaction.
SweepExpiredUploads ==
  LET stale == {s \in Sessions : status[s] \in InFlight /\ sessionExpired(s)}
  IN  /\ stale # {}
      /\ status' = [s \in Sessions |-> IF s \in stale THEN "failed" ELSE status[s]]
      /\ UNCHANGED <<window, content, blobOf, object, rows, call, deks, aborted>>

-----------------------------------------------------------------------------
(* CompleteUpload: the claim transaction *)

\* Is another request of this session's client still being served?
Overlaps(s) == \E c \in Calls : call[c].s = s

\* An expired session is failed (if in flight) and the caller gets a 409.
ClaimExpired(c, s) ==
  /\ At(c, "idle") /\ sessionExpired(s) /\ status[s] \in InFlight
  /\ status' = [status EXCEPT ![s] = "failed"]
  /\ UNCHANGED <<window, content, blobOf, object, rows, call, deks, aborted>>

\* What the gate lets into the pipeline: a completed session is replayed, a
\* quarantined or scanning one refused, all without a change.
Claimable(s) == status[s] \in {"initiated", "failed"} /\ ~sessionExpired(s)

Claim(c, s) ==
  /\ At(c, "idle") /\ Claimable(s)
  /\ RetryOverlap \/ ~Overlaps(s)
  /\ status' = [status EXCEPT ![s] = "scanning"]
  /\ call' = [call EXCEPT ![c] = Begun("claimed", s)]
  /\ UNCHANGED <<window, content, blobOf, object, rows, deks, aborted>>

-----------------------------------------------------------------------------
(* CompleteUpload: the pipeline of the call that holds the claim *)

\* A storage, key-manager or scanner error, or a bucket outside the session's
\* region: the call fails the session and leaves the object alone.
StepFails(c) ==
  /\ call[c].at \in {"claimed", "sized", "fetched", "clean"}
  /\ GiveUp(c, FALSE)
  /\ UNCHANGED <<status, window, content, blobOf, object, rows, deks, aborted>>

\* Faulty variant: only the object's presence is checked.
SizeMatchesAny(s) == object[s] # Absent

\* The object exists and has the declared plaintext size. A ciphertext is
\* longer than its plaintext, so one left by an earlier attempt fails here.
SizeMatches(s) == object[s] = Plain

GetObjectInfo(c) ==
  /\ At(c, "claimed")
  /\ IF SizeMatches(call[c].s) THEN Goto(c, "sized") ELSE GiveUp(c, FALSE)
  /\ UNCHANGED <<status, window, content, blobOf, object, rows, deks, aborted>>

GetObject(c) ==
  /\ At(c, "sized")
  /\ IF object[call[c].s] = Absent
       THEN GiveUp(c, FALSE)
       ELSE call' = [call EXCEPT ![c].at = "fetched", ![c].buf = object[call[c].s]]
  /\ UNCHANGED <<status, window, content, blobOf, object, rows, deks, aborted>>

\* SHA-256 mismatch, or the upload policy refuses (or cannot be read): the
\* session is failed, then the object is deleted.
Reject(c) ==
  /\ At(c, "fetched")
  /\ GiveUp(c, TRUE)
  /\ UNCHANGED <<status, window, content, blobOf, object, rows, deks, aborted>>

ScanVerdict(c) ==
  /\ At(c, "fetched")
  /\ \E verdict \in {"clean", "infected"} : Goto(c, verdict)
  /\ UNCHANGED <<status, window, content, blobOf, object, rows, deks, aborted>>

\* Copy to the quarantine bucket, then delete from the hot one; the delete is
\* best effort, and a failed copy leaves the object where it is.
Quarantine(c) ==
  /\ At(c, "infected")
  /\ \E left \in {object[call[c].s], Absent} :
       object' = [object EXCEPT ![call[c].s] = left]
  /\ Goto(c, "moved")
  /\ UNCHANGED <<status, window, content, blobOf, rows, deks, aborted>>

\* Encrypt under a fresh DEK and overwrite the object with the ciphertext. A
\* PUT whose answer is lost has overwritten the object too.
PutObject(c) ==
  /\ At(c, "clean") /\ EncryptAtRest /\ deks < MaxWrites
  /\ deks' = deks + 1
  /\ object' = [object EXCEPT ![call[c].s] = deks + 1]
  /\ \/ call' = [call EXCEPT ![c].at = "written", ![c].dek = deks + 1]
     \/ GiveUp(c, FALSE)
  /\ UNCHANGED <<status, window, content, blobOf, rows, aborted>>

SkipEncryption(c) ==
  /\ At(c, "clean") /\ ~EncryptAtRest
  /\ Goto(c, "written")
  /\ UNCHANGED <<status, window, content, blobOf, object, rows, deks, aborted>>

-----------------------------------------------------------------------------
(* CompleteUpload: the final transaction and what follows it *)

PersistQuarantined(c) ==
  /\ At(c, "moved")
  /\ status' = [status EXCEPT ![call[c].s] = "quarantined"]
  /\ Return(c) \/ GiveUp(c, FALSE)
  /\ UNCHANGED <<window, content, blobOf, object, rows, deks, aborted>>

\* The row a first upload of a content inserts.
NewRow(c) == [key |-> call[c].s, dek |-> call[c].dek, of |-> call[c].buf, refs |-> 1]

\* Uploads.Complete only finalizes an in-flight session.
Completable(s) == status[s] \in InFlight

\* Faulty variant: the duplicate reuses the row without counting itself.
PersistedUncounted(c, h) ==
  IF rows[h] = NoRow THEN NewRow(c) ELSE rows[h]

\* Faulty variant: the duplicate counts itself twice.
PersistedDoubled(c, h) ==
  IF rows[h] = NoRow THEN NewRow(c) ELSE [rows[h] EXCEPT !.refs = @ + 2]

\* Insert, or on a duplicate hash IncrementRefCount on the existing row.
Persisted(c, h) ==
  IF rows[h] = NoRow THEN NewRow(c) ELSE [rows[h] EXCEPT !.refs = @ + 1]

\* The transaction commits. A call that reused a row deletes its own object
\* next. If the commit's answer is lost the call takes the failure path.
Persist(c) ==
  LET s == call[c].s
      h == content[s]
  IN  /\ At(c, "written") /\ Completable(s)
      /\ rows' = [rows EXCEPT ![h] = Persisted(c, h)]
      /\ status' = [status EXCEPT ![s] = "completed"]
      /\ blobOf' = [blobOf EXCEPT ![s] = h]
      /\ \/ GiveUp(c, FALSE)
         \/ IF rows[h] = NoRow THEN Return(c) ELSE Goto(c, "dropping")
      /\ UNCHANGED <<window, content, object, deks, aborted>>

\* The transaction rolls back: a database error, a session no longer in
\* flight, or (crossRegionDupe: delete the object) a row in another region,
\* which other uploads and the reaper make come and go.
PersistFails(c) ==
  /\ call[c].at \in {"moved", "written"}
  /\ \/ GiveUp(c, FALSE)
     \/ /\ At(c, "written") /\ rows[content[call[c].s]] = NoRow
        /\ GiveUp(c, TRUE)
  /\ UNCHANGED <<status, window, content, blobOf, object, rows, deks, aborted>>

\* Faulty variant: failUpload downgrades whatever status it finds.
FailedAny(s) == [status EXCEPT ![s] = "failed"]

\* Uploads.Fail: only an in-flight session.
Failed(s) == IF status[s] \in InFlight THEN [status EXCEPT ![s] = "failed"] ELSE status

\* failUpload; best effort, a database error is swallowed.
FailUpload(c) ==
  /\ At(c, "failing")
  /\ status' \in {status, Failed(call[c].s)}
  /\ IF call[c].drop THEN Goto(c, "dropping") ELSE Return(c)
  /\ UNCHANGED <<window, content, blobOf, object, rows, deks, aborted>>

\* DeleteObject after the outcome is settled; best effort.
DropObject(c) ==
  /\ At(c, "dropping")
  /\ \E left \in {object[call[c].s], Absent} :
       object' = [object EXCEPT ![call[c].s] = left]
  /\ Return(c)
  /\ UNCHANGED <<status, window, content, blobOf, rows, deks, aborted>>

\* The process dies in the middle of a request.
Crash(c) ==
  /\ ~At(c, "idle")
  /\ Return(c)
  /\ UNCHANGED <<status, window, content, blobOf, object, rows, deks, aborted>>

-----------------------------------------------------------------------------
(* AbortUpload *)

Abortable(s) == status[s] = "initiated"

\* expires_at = LEAST(expires_at, now).
ClosedWindow(s) == IF window[s] = "open" THEN "expired" ELSE window[s]

\* The transaction; the object is deleted after it commits.
AbortUpload(c, s) ==
  /\ At(c, "idle") /\ Abortable(s)
  /\ status' = [status EXCEPT ![s] = "failed"]
  /\ window' = [window EXCEPT ![s] = ClosedWindow(s)]
  /\ aborted' = aborted \cup {s}
  /\ call' = [call EXCEPT ![c] = Begun("dropping", s)]
  /\ UNCHANGED <<content, blobOf, object, rows, deks>>

-----------------------------------------------------------------------------
Complete(c) ==
  \/ StepFails(c) \/ GetObjectInfo(c) \/ GetObject(c) \/ Reject(c)
  \/ ScanVerdict(c) \/ Quarantine(c) \/ PutObject(c) \/ SkipEncryption(c)
  \/ PersistQuarantined(c) \/ Persist(c) \/ PersistFails(c)
  \/ FailUpload(c) \/ DropObject(c)

Next ==
  \/ \E s \in Sessions, h \in Contents : InitiateUpload(s, h)
  \/ \E s \in Sessions : ClientPut(s) \/ Expire(s)
  \/ SweepExpiredUploads
  \/ \E c \in Calls, s \in Sessions :
       ClaimExpired(c, s) \/ Claim(c, s) \/ AbortUpload(c, s)
  \/ \E c \in Calls : Complete(c) \/ Crash(c)

Spec == Init /\ [][Next]_vars

\* Time passes, the sweeper runs every five minutes, and a running request is
\* not suspended for ever. Clients, successes and crashes are not obliged.
Fairness ==
  /\ \A s \in Sessions : WF_vars(Expire(s))
  /\ WF_vars(SweepExpiredUploads)
  /\ \A c \in Calls : WF_vars(Complete(c))

FairSpec == Spec /\ Fairness

-----------------------------------------------------------------------------
(* Properties *)

Pipeline(c) == call[c].at \in Stages

\* A committed content_blobs row can always be read: the object it points at
\* is there, holds the encryption of the uploaded plaintext (never of an
\* earlier ciphertext), and the row's DEK is the one that encrypted it. Many
\* steps endanger it: the overwrite in place, retries after a failed attempt,
\* deletes after failUpload, after dedup and after an abort.
RowsReadable ==
  \A h \in Contents : rows[h] # NoRow =>
    /\ rows[h].of = Plain
    /\ object[rows[h].key] = rows[h].dek
    /\ EncryptAtRest => rows[h].dek # Plain

\* What CompleteUpload answered stays true: the content of every completed
\* session has a row, its own or the one it was deduplicated into, that can
\* be read, whatever failed, was retried or deleted before and since.
CompletedServed ==
  \A s \in Sessions : status[s] = "completed" =>
    LET row == rows[content[s]] IN row # NoRow /\ row.of = Plain /\ object[row.key] = row.dek

\* CompleteUpload's claim admits one pipeline per session at a time.
OnePipeline ==
  \A c, d \in Calls : Pipeline(c) /\ Pipeline(d) /\ call[c].s = call[d].s => c = d

\* Until ScanningGrace has run out, nobody fails a session under the pipeline
\* that holds its claim: not a retry, not the sweeper, not an abort.
LivePipelineKept ==
  \A c \in Calls : Pipeline(c) /\ window[call[c].s] # "abandoned"
                   => status[call[c].s] = "scanning"

\* A row's reference count is the number of sessions that completed into it,
\* whatever attempts failed, were retried, or lost the commit's answer.
RefsCountUploads ==
  \A h \in Contents :
    rows[h].refs = Cardinality({s \in Sessions : status[s] = "completed" /\ blobOf[s] = h})

\* An aborted session stays closed: no later CompleteUpload re-claims it.
AbortedStaysFailed == \A s \in aborted : status[s] = "failed"

\* Terminal sessions are never downgraded: not by failUpload after an
\* ambiguous commit, not by a late sweep or abort.
TerminalStays ==
  [][\A s \in Sessions :
       status[s] \in {"completed", "quarantined"} => status'[s] = status[s]]_vars

\* A claim is always released, even when its caller dies in the pipeline and
\* failUpload's own transaction is lost: no session is scanning for ever.
ScanningReleased ==
  \A s \in Sessions : status[s] = "scanning" ~> status[s] # "scanning"
=============================================================================
