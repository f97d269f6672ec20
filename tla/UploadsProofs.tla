--------------------------- MODULE UploadsProofs ---------------------------
(***************************************************************************)
(* Proofs about Uploads for every set of sessions, contents and requests.  *)
(* Claims (type correctness, one pipeline per session, the grace period,   *)
(* the reference counts, terminal sessions) hold whatever clients do;      *)
(* RowsReadable is proved for clients that wait for their previous call.   *)
(***************************************************************************)
EXTENDS Uploads, FiniteSetTheorems, TLAPS

CallRecord ==
  [at : Stages \cup {"idle", "failing", "dropping"}, s : Sessions \cup {None},
   buf : Bytes, dek : 0..MaxWrites, drop : BOOLEAN]

\* A request in the pipeline, or on its way to failUpload: it owns the claim.
Holds(c) == call[c].at \in Stages \cup {"failing"}

\* Exactly the requests that are not idle have a session.
Busy == \A c \in Calls : (call[c].at = "idle") <=> (call[c].s = None)

\* A session nobody claimed or aborted has no request at work on it.
FreshUntouched ==
  \A c \in Calls : call[c].s # None => status[call[c].s] \notin {"none", "initiated"}

OneHolder ==
  \A c, d \in Calls : Holds(c) /\ Holds(d) /\ call[c].s = call[d].s => c = d

\* A claim that is still owned was not released, unless its grace ran out.
HolderStatus ==
  \A c \in Calls : Holds(c) /\ window[call[c].s] # "abandoned"
    => status[call[c].s] \in {"scanning", "completed", "quarantined"}

\* A pipeline's session is scanning, or was swept after the grace period.
PipelineStatus ==
  \A c \in Calls : Pipeline(c) => status[call[c].s] \in {"scanning", "failed"}

\* The window of an aborted session is over, and nobody owns its claim.
AbortedClosed ==
  \A s \in aborted : /\ window[s] # "open"
                     /\ \A c \in Calls : Holds(c) => call[c].s # s

\* A session that exists knows its content.
StartedHasContent ==
  \A s \in Sessions : status[s] # "none" => content[s] \in Contents

Claims ==
  /\ TypeOK /\ Busy /\ FreshUntouched /\ OneHolder /\ HolderStatus
  /\ PipelineStatus /\ AbortedClosed /\ StartedHasContent
  /\ RefsCountUploads /\ AbortedStaysFailed

\* With patient clients, a session has one request at work on it.
OneCall ==
  \A c, d \in Calls : call[c].s # None /\ call[c].s = call[d].s => c = d

\* The session whose object a row points at has completed.
KeysCompleted ==
  \A h \in Contents : rows[h] # NoRow =>
    rows[h].key \in Sessions /\ status[rows[h].key] = "completed"

\* No request is about to delete an object that a row points at.
DropsUnreferenced ==
  \A c \in Calls : call[c].at = "dropping" \/ (call[c].at = "failing" /\ call[c].drop)
    => \A h \in Contents : rows[h].key # call[c].s

\* What a pipeline knows of the bytes it has checked, read and written.
PipelineBytes ==
  \A c \in Calls :
    /\ call[c].at \in {"sized", "fetched", "clean"} => object[call[c].s] = Plain
    /\ call[c].at \in {"fetched", "clean", "written"} => call[c].buf = Plain
    /\ call[c].at \in {"claimed", "sized", "fetched", "clean"} => call[c].dek = Plain
    /\ call[c].at \in Stages => ~call[c].drop
    /\ call[c].at = "written" => /\ object[call[c].s] = call[c].dek
                                 /\ EncryptAtRest => call[c].dek # Plain

Readable ==
  /\ OneCall /\ KeysCompleted /\ DropsUnreferenced /\ PipelineBytes
  /\ RowsReadable

-----------------------------------------------------------------------------
(* Initial states *)

LEMMA InitClaims == Init => Claims
<1> SUFFICES ASSUME Init PROVE Claims
  OBVIOUS
<1>1. MaxWrites \in Nat /\ IsFiniteSet(Sessions) /\ None \notin Sessions
  BY UploadsAssumption
<1>2. Cardinality(Sessions) \in Nat
  BY <1>1, FS_CardinalityType
<1>3. TypeOK
  BY <1>1, <1>2 DEF Init, TypeOK, Idle, Begun, NoRow, Bytes, Absent, Plain, Stages, Generated
<1>4. Busy /\ FreshUntouched /\ OneHolder /\ HolderStatus /\ PipelineStatus
  BY DEF Init, Busy, FreshUntouched, OneHolder, HolderStatus, PipelineStatus,
         Pipeline, Holds, Idle, Begun, Stages
<1>5. AbortedClosed /\ StartedHasContent /\ AbortedStaysFailed
  BY DEF Init, AbortedClosed, StartedHasContent, AbortedStaysFailed
<1>6. RefsCountUploads
  <2> SUFFICES ASSUME NEW h \in Contents
               PROVE rows[h].refs = Cardinality({s \in Sessions : status[s] = "completed" /\ blobOf[s] = h})
    BY DEF RefsCountUploads
  <2>1. {s \in Sessions : status[s] = "completed" /\ blobOf[s] = h} = {}
    BY DEF Init
  <2>2. rows[h].refs = 0
    BY DEF Init, NoRow
  <2> QED
    BY <2>1, <2>2, FS_EmptySet
<1> QED
  BY <1>3, <1>4, <1>5, <1>6 DEF Claims

LEMMA InitReadable == Init => Readable
BY UploadsAssumption DEF Init, Readable, OneCall, KeysCompleted, DropsUnreferenced,
   PipelineBytes, RowsReadable, Idle, Begun, NoRow, Stages

-----------------------------------------------------------------------------
(* Claims is inductive *)

\* Nothing completes: the counts stay right.
LEMMA SameCompleted ==
  ASSUME Claims, rows' = rows, blobOf' = blobOf,
         \A s \in Sessions : (status'[s] = "completed") <=> (status[s] = "completed")
  PROVE  RefsCountUploads'
<1> SUFFICES ASSUME NEW h \in Contents
             PROVE rows'[h].refs = Cardinality({s \in Sessions : status'[s] = "completed" /\ blobOf'[s] = h})
  BY DEF RefsCountUploads
<1>1. {s \in Sessions : status'[s] = "completed" /\ blobOf'[s] = h}
      = {s \in Sessions : status[s] = "completed" /\ blobOf[s] = h}
  OBVIOUS
<1> QED
  BY <1>1 DEF Claims, RefsCountUploads

\* A request moves on, down the pipeline or out of it, and no session changes.
Moves(c, r) ==
  /\ r \in CallRecord /\ call' = [call EXCEPT ![c] = r]
  /\ (r.at = "idle") <=> (r.s = None)
  /\ r.s # None => r.s = call[c].s
  /\ r.at \in Stages => call[c].at \in Stages
  /\ r.at = "failing" => Holds(c)
  /\ status' = status /\ window' = window /\ content' = content
  /\ blobOf' = blobOf /\ rows' = rows /\ aborted' = aborted

LEMMA MovesClaims ==
  ASSUME Claims, NEW c \in Calls, NEW r, Moves(c, r),
         object' \in [Sessions -> Bytes], deks' \in Generated
  PROVE  Claims'
<1>0. /\ r \in CallRecord
      /\ (r.at = "idle") <=> (r.s = None)
      /\ r.s # None => r.s = call[c].s
      /\ r.at \in Stages => call[c].at \in Stages
      /\ r.at = "failing" => Holds(c)
      /\ status' = status /\ window' = window /\ content' = content
      /\ blobOf' = blobOf /\ rows' = rows /\ aborted' = aborted
  BY DEF Moves
<1>1. call' = [call EXCEPT ![c] = r] /\ call \in [Calls -> CallRecord]
  BY DEF Moves, Claims, TypeOK, CallRecord
<1>2. \A d \in Calls : call'[d] = IF d = c THEN r ELSE call[d]
  BY Zenon, <1>1
<1>3. TypeOK'
  <2>1. call' \in [Calls -> CallRecord]
    BY <1>0, <1>1
  <2> QED
    BY <1>0, <2>1 DEF Claims, TypeOK, CallRecord
<1>4. Busy' /\ FreshUntouched'
  BY <1>0, <1>2 DEF Claims, Busy, FreshUntouched
<1>5. \A d \in Calls : Holds(d)' => Holds(d) /\ call'[d].s = call[d].s
  BY <1>0, <1>2 DEF Holds, Stages, Claims, Busy, CallRecord
<1>6. \A d \in Calls : Pipeline(d)' => Pipeline(d) /\ call'[d].s = call[d].s
  BY <1>0, <1>2 DEF Pipeline, Stages, CallRecord
<1>7. OneHolder' /\ HolderStatus' /\ PipelineStatus' /\ AbortedClosed'
  BY <1>0, <1>5, <1>6 DEF Claims, OneHolder, HolderStatus, PipelineStatus, AbortedClosed
<1>8. StartedHasContent' /\ AbortedStaysFailed'
  BY <1>0 DEF Claims, StartedHasContent, AbortedStaysFailed
<1>9. RefsCountUploads'
  BY <1>0, SameCompleted
<1> QED
  BY <1>3, <1>4, <1>7, <1>8, <1>9 DEF Claims

\* The steps of a request that change no session.
CallStep(c) ==
  \/ StepFails(c) \/ GetObjectInfo(c) \/ GetObject(c) \/ Reject(c)
  \/ ScanVerdict(c) \/ Quarantine(c) \/ PutObject(c) \/ SkipEncryption(c)
  \/ PersistFails(c) \/ DropObject(c) \/ Crash(c)

LEMMA CallStepMoves ==
  ASSUME Claims, NEW c \in Calls, CallStep(c)
  PROVE  /\ Moves(c, call'[c])
         /\ object' \in [Sessions -> Bytes] /\ deks' \in Generated
<1>1. /\ call \in [Calls -> CallRecord] /\ object \in [Sessions -> Bytes]
      /\ deks \in Generated
  BY DEF Claims, TypeOK, CallRecord
<1>2. MaxWrites \in Nat /\ None \notin Sessions
  BY UploadsAssumption
<1>3. call[c] \in CallRecord /\ ((call[c].at = "idle") <=> (call[c].s = None))
  BY <1>1 DEF Claims, Busy
<1>4. Idle \in CallRecord /\ Idle.at = "idle" /\ Idle.s = None
  BY <1>2 DEF Idle, Begun, CallRecord, Bytes, Absent
<1>5. /\ status' = status /\ window' = window /\ content' = content
      /\ blobOf' = blobOf /\ rows' = rows /\ aborted' = aborted
  BY Zenon DEF CallStep, StepFails, GetObjectInfo, GetObject, Reject, ScanVerdict,
         Quarantine, PutObject, SkipEncryption, PersistFails, DropObject, Crash
<1>6. CASE StepFails(c) \/ GetObjectInfo(c) \/ Reject(c) \/ ScanVerdict(c)
           \/ SkipEncryption(c) \/ PersistFails(c)
  <2>1. object' = object /\ deks' = deks
    BY Zenon, <1>6 DEF StepFails, GetObjectInfo, Reject, ScanVerdict, SkipEncryption, PersistFails
  <2>2. /\ call[c].at \in Stages
        /\ \E stage \in {"sized", "clean", "infected", "written", "failing"}, b \in BOOLEAN :
             \/ call' = [call EXCEPT ![c].at = stage]
             \/ call' = [call EXCEPT ![c].at = "failing", ![c].drop = b]
    BY Zenon, <1>6 DEF StepFails, GetObjectInfo, Reject, ScanVerdict, SkipEncryption,
                PersistFails, GiveUp, Goto, At, Stages
  <2>3. PICK stage \in {"sized", "clean", "infected", "written", "failing"}, b \in BOOLEAN :
             \/ call' = [call EXCEPT ![c].at = stage]
             \/ call' = [call EXCEPT ![c].at = "failing", ![c].drop = b]
    BY <2>2
  <2>4. /\ call'[c] \in CallRecord /\ call'[c].s = call[c].s
        /\ call'[c].at \in {"sized", "clean", "infected", "written", "failing"}
        /\ call' = [call EXCEPT ![c] = call'[c]]
    BY <1>1, <1>3, <2>3 DEF CallRecord, Stages
  <2> QED
    BY <1>1, <1>3, <1>5, <2>1, <2>2, <2>4 DEF Moves, Holds, Stages
<1>7. CASE GetObject(c)
  <2>1. object' = object /\ deks' = deks /\ call[c].at = "sized"
    BY <1>7 DEF GetObject, At
  <2>2. call[c].s \in Sessions
    BY <1>3, <2>1 DEF CallRecord
  <2>3. \/ call' = [call EXCEPT ![c].at = "failing", ![c].drop = FALSE]
        \/ call' = [call EXCEPT ![c].at = "fetched", ![c].buf = object[call[c].s]]
    BY <1>7 DEF GetObject, GiveUp
  <2>4. object[call[c].s] \in Bytes
    BY <1>1, <2>2
  <2>5. /\ call'[c] \in CallRecord /\ call'[c].s = call[c].s
        /\ call'[c].at \in {"fetched", "failing"}
        /\ call' = [call EXCEPT ![c] = call'[c]]
    BY <1>1, <1>3, <2>3, <2>4 DEF CallRecord, Stages
  <2> QED
    BY Zenon, <1>1, <1>3, <1>5, <2>1, <2>5 DEF Moves, Holds, Stages
<1>8. CASE Quarantine(c)
  <2>1. /\ deks' = deks /\ call[c].at = "infected"
        /\ call' = [call EXCEPT ![c].at = "moved"]
    BY <1>8 DEF Quarantine, At, Goto
  <2>2. object' \in [Sessions -> Bytes]
    BY Zenon, <1>1, <1>8 DEF Quarantine, Bytes
  <2>3. /\ call'[c] \in CallRecord /\ call'[c].s = call[c].s /\ call'[c].at = "moved"
        /\ call' = [call EXCEPT ![c] = call'[c]]
    BY <1>1, <1>3, <2>1 DEF CallRecord, Stages
  <2> QED
    BY <1>1, <1>3, <1>5, <2>1, <2>2, <2>3 DEF Moves, Holds, Stages
<1>9. CASE PutObject(c)
  <2>1. /\ deks # NoKMS /\ deks < MaxWrites /\ deks' = deks + 1 /\ call[c].at = "clean"
        /\ object' = [object EXCEPT ![call[c].s] = deks + 1]
        /\ \/ call' = [call EXCEPT ![c].at = "written", ![c].dek = deks + 1]
           \/ call' = [call EXCEPT ![c].at = "failing", ![c].drop = FALSE]
    BY <1>9 DEF PutObject, At, GiveUp, EncryptAtRest
  <2>2. deks + 1 \in 0..MaxWrites /\ deks + 1 \in Bytes /\ deks + 1 \in Generated
    BY <1>1, <1>2, <2>1 DEF Bytes, Generated
  <2>3. object' \in [Sessions -> Bytes]
    BY Zenon, <1>1, <2>1, <2>2
  <2>4. /\ call'[c] \in CallRecord /\ call'[c].s = call[c].s
        /\ call'[c].at \in {"written", "failing"}
        /\ call' = [call EXCEPT ![c] = call'[c]]
    BY <1>1, <1>3, <2>1, <2>2 DEF CallRecord, Stages
  <2> QED
    BY Zenon, <1>1, <1>3, <1>5, <2>1, <2>2, <2>3, <2>4 DEF Moves, Holds, Stages
<1>10. CASE DropObject(c) \/ Crash(c)
  <2>1. deks' = deks /\ call' = [call EXCEPT ![c] = Idle]
    BY <1>10 DEF DropObject, Crash, Return
  <2>2. object' \in [Sessions -> Bytes]
    BY <1>1, <1>10 DEF DropObject, Crash, Bytes
  <2>3. call'[c] = Idle /\ call' = [call EXCEPT ![c] = call'[c]]
    BY <1>1, <2>1
  <2> QED
    BY Zenon, <1>1, <1>4, <1>5, <2>1, <2>2, <2>3 DEF Moves, Holds, Stages
<1> QED
  BY <1>6, <1>7, <1>8, <1>9, <1>10 DEF CallStep

LEMMA InitiateClaims ==
  ASSUME Claims, NEW s \in Sessions, NEW h \in Contents, InitiateUpload(s, h)
  PROVE  Claims'
<1>0. /\ status[s] = "none" /\ status' = [status EXCEPT ![s] = "initiated"]
      /\ content' = [content EXCEPT ![s] = h]
      /\ UNCHANGED <<window, blobOf, object, rows, call, deks, aborted>>
  BY DEF InitiateUpload
<1>1. TypeOK'
  BY <1>0 DEF Claims, TypeOK
<1>2. \A t \in Sessions : status'[t] = IF t = s THEN "initiated" ELSE status[t]
  BY <1>0 DEF Claims, TypeOK
<1>3. \A c \in Calls : call[c].s \in Sessions \cup {None} /\ call[c].s # s
  BY <1>0, UploadsAssumption DEF Claims, TypeOK, FreshUntouched
<1>4. \A c \in Calls : Holds(c) => call[c].s \in Sessions
  BY <1>3 DEF Claims, Busy, Holds, Stages
<1>5. \A c \in Calls : (Holds(c)' <=> Holds(c)) /\ (Pipeline(c)' <=> Pipeline(c))
  BY <1>0 DEF Holds, Pipeline
<1>6. Busy' /\ FreshUntouched'
  BY Zenon, <1>0, <1>2, <1>3 DEF Claims, Busy, FreshUntouched
<1>7. OneHolder' /\ HolderStatus' /\ PipelineStatus' /\ AbortedClosed'
  BY <1>0, <1>2, <1>3, <1>4, <1>5
  DEF Claims, OneHolder, HolderStatus, PipelineStatus, AbortedClosed, Holds, Pipeline
<1>8. StartedHasContent' /\ AbortedStaysFailed'
  BY <1>0, <1>2 DEF Claims, TypeOK, StartedHasContent, AbortedStaysFailed
<1>9. RefsCountUploads'
  BY <1>0, <1>2, SameCompleted
<1> QED
  BY <1>1, <1>6, <1>7, <1>8, <1>9 DEF Claims

LEMMA PutClaims ==
  ASSUME Claims, NEW s \in Sessions, ClientPut(s)
  PROVE  Claims'
<1>0. /\ object' = [object EXCEPT ![s] = Plain]
      /\ UNCHANGED <<status, window, content, blobOf, rows, call, deks, aborted>>
  BY DEF ClientPut
<1>1. TypeOK'
  BY Zenon, <1>0, UploadsAssumption DEF Claims, TypeOK, Bytes, Plain
<1> QED
  BY <1>0, <1>1 DEF Claims, Busy, FreshUntouched, OneHolder, HolderStatus,
     PipelineStatus, AbortedClosed, StartedHasContent, RefsCountUploads,
     AbortedStaysFailed, Holds, Pipeline

LEMMA ExpireClaims ==
  ASSUME Claims, NEW s \in Sessions, Expire(s)
  PROVE  Claims'
<1>0. /\ window[s] # "abandoned"
      /\ window' = [window EXCEPT ![s] = IF @ = "open" THEN "expired" ELSE "abandoned"]
      /\ UNCHANGED <<status, content, blobOf, object, rows, call, deks, aborted>>
  BY DEF Expire
<1>1. TypeOK'
  BY <1>0 DEF Claims, TypeOK
<1>2. \A t \in Sessions : /\ window'[t] # "abandoned" => window[t] # "abandoned"
                          /\ window[t] # "open" => window'[t] # "open"
  BY <1>0 DEF Claims, TypeOK
<1>3. \A c \in Calls : Holds(c) => call[c].s \in Sessions
  BY DEF Claims, TypeOK, Busy, Holds, Stages
<1>4. HolderStatus' /\ AbortedClosed'
  BY <1>0, <1>2, <1>3 DEF Claims, TypeOK, HolderStatus, AbortedClosed, Holds
<1> QED
  BY <1>0, <1>1, <1>4 DEF Claims, Busy, FreshUntouched, OneHolder,
     PipelineStatus, StartedHasContent, RefsCountUploads, AbortedStaysFailed,
     Holds, Pipeline

\* The sweeper and an expired claim fail sessions past their window.
LEMMA FailExpired ==
  ASSUME Claims, NEW stale \in SUBSET Sessions,
         \A s \in stale : status[s] \in InFlight /\ sessionExpired(s),
         status' = [s \in Sessions |-> IF s \in stale THEN "failed" ELSE status[s]],
         UNCHANGED <<window, content, blobOf, object, rows, call, deks, aborted>>
  PROVE  Claims'
<1>1. TypeOK'
  BY DEF Claims, TypeOK
<1>2. \A s \in Sessions : status'[s] = IF s \in stale THEN "failed" ELSE status[s]
  OBVIOUS
<1>3. \A c \in Calls : call[c].s # None => call[c].s \in Sessions
  BY DEF Claims, TypeOK
<1>4. \A c \in Calls : Holds(c) => call[c].s \in Sessions
  BY Zenon, <1>3 DEF Claims, Busy, Holds, Stages
<1>5. \A c \in Calls : Pipeline(c) => Holds(c)
  BY Zenon DEF Pipeline, Holds
<1>6. Busy' /\ FreshUntouched'
  BY Zenon, <1>2, <1>3 DEF Claims, Busy, FreshUntouched
<1>7. OneHolder' /\ AbortedClosed'
  BY Zenon DEF Claims, OneHolder, AbortedClosed, Holds
<1>8. HolderStatus'
  <2> SUFFICES ASSUME NEW c \in Calls, Holds(c), window[call[c].s] # "abandoned"
               PROVE status'[call[c].s] \in {"scanning", "completed", "quarantined"}
    BY Zenon DEF HolderStatus, Holds
  <2>1. status[call[c].s] \in {"scanning", "completed", "quarantined"}
    BY DEF Claims, HolderStatus
  <2>2. call[c].s \notin stale
    BY Zenon, <2>1 DEF sessionExpired, InFlight
  <2> QED
    BY Zenon, <1>2, <1>4, <2>1, <2>2
<1>9. PipelineStatus'
  BY <1>2, <1>4, <1>5 DEF Claims, PipelineStatus, Pipeline
<1>10. StartedHasContent' /\ AbortedStaysFailed'
  BY <1>2 DEF Claims, TypeOK, StartedHasContent, AbortedStaysFailed, InFlight
<1>11. RefsCountUploads'
  BY <1>2, SameCompleted DEF InFlight
<1> QED
  BY Zenon, <1>1, <1>6, <1>7, <1>8, <1>9, <1>10, <1>11 DEF Claims

LEMMA SweepClaims == Claims /\ SweepExpiredUploads => Claims'
<1> SUFFICES ASSUME Claims, SweepExpiredUploads PROVE Claims'
  OBVIOUS
<1> DEFINE stale == {s \in Sessions : status[s] \in InFlight /\ sessionExpired(s)}
<1>1. /\ status' = [s \in Sessions |-> IF s \in stale THEN "failed" ELSE status[s]]
      /\ UNCHANGED <<window, content, blobOf, object, rows, call, deks, aborted>>
  BY DEF SweepExpiredUploads
<1>2. stale \in SUBSET Sessions /\ \A s \in stale : status[s] \in InFlight /\ sessionExpired(s)
  OBVIOUS
<1> QED
  BY Zenon, <1>1, <1>2, FailExpired

LEMMA ClaimExpiredClaims ==
  ASSUME Claims, NEW c \in Calls, NEW s \in Sessions, ClaimExpired(c, s)
  PROVE  Claims'
<1>1. /\ status[s] \in InFlight /\ sessionExpired(s)
      /\ status' = [status EXCEPT ![s] = "failed"]
      /\ UNCHANGED <<window, content, blobOf, object, rows, call, deks, aborted>>
  BY DEF ClaimExpired
<1>2. status' = [t \in Sessions |-> IF t \in {s} THEN "failed" ELSE status[t]]
  BY ZenonT(30), <1>1 DEF Claims, TypeOK
<1> QED
  BY Zenon, <1>1, <1>2, FailExpired

\* Claim: no request owns a claimable session's claim.
LEMMA ClaimClaims ==
  ASSUME Claims, NEW c \in Calls, NEW s \in Sessions, Claim(c, s)
  PROVE  Claims'
<1> DEFINE r == Begun("claimed", s)
<1>0. /\ call[c].at = "idle" /\ status[s] \in {"initiated", "failed"} /\ window[s] = "open"
      /\ status' = [status EXCEPT ![s] = "scanning"]
      /\ call' = [call EXCEPT ![c] = r]
      /\ UNCHANGED <<window, content, blobOf, object, rows, deks, aborted>>
  BY DEF Claim, Claimable, sessionExpired, At
<1>1. r \in CallRecord /\ r.at = "claimed" /\ r.s = s
  <2>1. 0 \in 0..MaxWrites /\ Absent \in Bytes
    BY UploadsAssumption DEF Bytes
  <2> QED
    BY <2>1 DEF CallRecord, Stages, Begun
<1>2. /\ call \in [Calls -> CallRecord]
      /\ status \in [Sessions -> {"none", "initiated", "scanning", "completed", "quarantined", "failed"}]
  BY DEF Claims, TypeOK, CallRecord
<1>3. \A d \in Calls : call'[d] = IF d = c THEN r ELSE call[d]
  BY <1>0, <1>2
<1>4. \A t \in Sessions : status'[t] = IF t = s THEN "scanning" ELSE status[t]
  BY Zenon, <1>0, <1>2
<1>5. TypeOK'
  <2>1. call' \in [Calls -> CallRecord]
    BY <1>0, <1>1, <1>2
  <2> QED
    BY Zenon, <1>0, <2>1 DEF Claims, TypeOK, CallRecord
<1>6. None \notin Sessions /\ \A d \in Calls : call[d].s # None => call[d].s \in Sessions
  BY Zenon, <1>2, UploadsAssumption DEF CallRecord
<1>7. Busy' /\ FreshUntouched'
  <2> HIDE DEF r
  <2>1. ASSUME NEW d \in Calls
        PROVE  (call'[d].at = "idle") <=> (call'[d].s = None)
    <3>1. CASE d = c
      BY Zenon, <1>1, <1>3, <1>6, <3>1
    <3>2. CASE d # c
      BY <1>3, <3>2 DEF Claims, Busy
    <3> QED BY <3>1, <3>2
  <2>2. ASSUME NEW d \in Calls, call'[d].s # None
        PROVE  status'[call'[d].s] \notin {"none", "initiated"}
    <3>1. CASE d = c
      BY Zenon, <1>1, <1>3, <1>4, <3>1
    <3>2. CASE d # c
      BY ZenonT(60), <1>3, <1>4, <1>6, <2>2, <3>2 DEF Claims, FreshUntouched
    <3> QED BY <3>1, <3>2
  <2> QED
    BY <2>1, <2>2 DEF Busy, FreshUntouched
<1>8. \A d \in Calls : Holds(d) => call[d].s \in Sessions /\ call[d].s # s
  BY <1>0, <1>6 DEF Claims, HolderStatus, Busy, Holds, Stages
<1>9. \A d \in Calls : /\ Holds(d)' <=> d = c \/ Holds(d)
                       /\ Pipeline(d)' <=> d = c \/ Pipeline(d)
  BY <1>1, <1>3 DEF Holds, Pipeline, Stages
<1>10. \A d \in Calls : Pipeline(d) => Holds(d)
  BY Zenon DEF Pipeline, Holds
<1>11. OneHolder'
  BY <1>1, <1>3, <1>8, <1>9 DEF Claims, OneHolder
<1>12. HolderStatus' /\ PipelineStatus'
  <2> HIDE DEF r
  <2>1. \A d \in Calls : Holds(d)' =>
          ((d = c /\ call'[d].s = s) \/ (Holds(d) /\ call'[d] = call[d]))
    BY Zenon, <1>1, <1>3, <1>9
  <2>2. \A d \in Calls : Pipeline(d)' =>
          ((d = c /\ call'[d].s = s) \/ (Pipeline(d) /\ call'[d] = call[d]))
    BY Zenon, <1>1, <1>3, <1>9
  <2>3. HolderStatus'
    BY <1>0, <1>4, <1>8, <2>1 DEF Claims, HolderStatus
  <2>4. PipelineStatus'
    BY <1>4, <1>8, <1>10, <2>2 DEF Claims, PipelineStatus
  <2> QED BY <2>3, <2>4
<1>13. AbortedClosed' /\ AbortedStaysFailed'
  BY <1>0, <1>1, <1>3, <1>4, <1>9 DEF Claims, TypeOK, AbortedClosed, AbortedStaysFailed
<1>14. StartedHasContent'
  BY <1>0, <1>4 DEF Claims, StartedHasContent
<1>15. RefsCountUploads'
  BY <1>0, <1>4, SameCompleted
<1> QED
  BY <1>5, <1>7, <1>11, <1>12, <1>13, <1>14, <1>15 DEF Claims

LEMMA FailUploadClaims ==
  ASSUME Claims, NEW c \in Calls, FailUpload(c)
  PROVE  Claims'
<1>0. /\ call[c].at = "failing"
      /\ status' \in {status, Failed(call[c].s)}
      /\ \/ call' = [call EXCEPT ![c].at = "dropping"]
         \/ call' = [call EXCEPT ![c] = Idle]
      /\ UNCHANGED <<window, content, blobOf, object, rows, deks, aborted>>
  BY DEF FailUpload, At, Goto, Return
<1>1. /\ call \in [Calls -> CallRecord] /\ call[c] \in CallRecord
      /\ status \in [Sessions -> {"none", "initiated", "scanning", "completed", "quarantined", "failed"}]
  BY DEF Claims, TypeOK, CallRecord
<1>2. None \notin Sessions /\ \A d \in Calls : call[d].s # None => call[d].s \in Sessions
  BY <1>1, UploadsAssumption DEF CallRecord
<1>3. call[c].s \in Sessions
  BY <1>0, <1>2 DEF Claims, Busy
<1>4. Idle \in CallRecord /\ Idle.at = "idle" /\ Idle.s = None
  BY UploadsAssumption DEF Idle, Begun, CallRecord, Bytes, Absent
<1>5. /\ call' \in [Calls -> CallRecord]
      /\ \A d \in Calls : d # c => call'[d] = call[d]
      /\ \/ call'[c].at = "dropping" /\ call'[c].s = call[c].s
         \/ call'[c].at = "idle" /\ call'[c].s = None
  BY <1>0, <1>1, <1>4 DEF CallRecord
<1>6. /\ status' \in [Sessions -> {"none", "initiated", "scanning", "completed", "quarantined", "failed"}]
      /\ \A t \in Sessions : \/ status'[t] = status[t]
                             \/ t = call[c].s /\ status[t] \in InFlight /\ status'[t] = "failed"
  BY <1>0, <1>1, <1>3 DEF Failed, InFlight
<1>7. TypeOK'
  BY <1>0, <1>5, <1>6 DEF Claims, TypeOK, CallRecord
<1>8. Busy' /\ FreshUntouched'
  <2>1. Busy'
    BY Zenon, <1>2, <1>3, <1>5 DEF Claims, Busy
  <2>2. FreshUntouched'
    BY <1>2, <1>3, <1>5, <1>6 DEF Claims, FreshUntouched
  <2> QED BY Zenon, <2>1, <2>2
<1>9. \A d \in Calls : Holds(d)' => d # c /\ Holds(d) /\ call'[d] = call[d]
  BY Zenon, <1>5 DEF Holds, Stages
<1>10. \A d \in Calls : Pipeline(d)' => d # c /\ Pipeline(d) /\ Holds(d) /\ call'[d] = call[d]
  BY Zenon, <1>5 DEF Holds, Pipeline, Stages
<1>11. \A d \in Calls : Holds(d) /\ d # c =>
         call[d].s # call[c].s /\ call[d].s \in Sessions
  BY <1>0, <1>2 DEF Claims, OneHolder, Holds, Busy, Stages
<1>12. OneHolder' /\ AbortedClosed'
  BY <1>0, <1>9 DEF Claims, OneHolder, AbortedClosed
<1>13. HolderStatus'
  BY <1>0, <1>6, <1>9, <1>11 DEF Claims, HolderStatus
<1>14. PipelineStatus'
  BY <1>6, <1>10, <1>11 DEF Claims, PipelineStatus
<1>15. StartedHasContent' /\ AbortedStaysFailed'
  BY <1>0, <1>6 DEF Claims, TypeOK, StartedHasContent, AbortedStaysFailed, InFlight
<1>16. RefsCountUploads'
  BY <1>0, <1>6, SameCompleted DEF InFlight
<1> QED
  BY <1>7, <1>8, <1>12, <1>13, <1>14, <1>15, <1>16 DEF Claims

\* What the two transactions that end a pipeline have in common.
Finishes(c, final) ==
  /\ call[c].at \in Stages /\ call[c].s \in Sessions
  /\ final \in {"completed", "quarantined"}
  /\ status' = [status EXCEPT ![call[c].s] = final]
  /\ call' \in [Calls -> CallRecord]
  /\ \A d \in Calls : d # c => call'[d] = call[d]
  /\ \/ call'[c].at \in {"failing", "dropping"} /\ call'[c].s = call[c].s
     \/ call'[c].at = "idle" /\ call'[c].s = None
  /\ UNCHANGED <<window, content, aborted>>

LEMMA FinishesClaims ==
  ASSUME Claims, NEW c \in Calls, NEW final, Finishes(c, final)
  PROVE  /\ Busy' /\ FreshUntouched' /\ OneHolder' /\ HolderStatus'
         /\ PipelineStatus' /\ AbortedClosed' /\ StartedHasContent'
         /\ AbortedStaysFailed'
<1>0. /\ call[c].at \in Stages /\ call[c].s \in Sessions
      /\ final \in {"completed", "quarantined"}
      /\ UNCHANGED <<window, content, aborted>>
  BY DEF Finishes
<1>1. \A d \in Calls : d # c => call'[d] = call[d]
  BY DEF Finishes
<1>2. \/ call'[c].at \in {"failing", "dropping"} /\ call'[c].s = call[c].s
      \/ call'[c].at = "idle" /\ call'[c].s = None
  BY DEF Finishes
<1>3. \A t \in Sessions : status'[t] = IF t = call[c].s THEN final ELSE status[t]
  BY DEF Finishes, Claims, TypeOK
<1>4. None \notin Sessions /\ \A d \in Calls : call[d].s # None => call[d].s \in Sessions
  BY Zenon, UploadsAssumption DEF Claims, TypeOK
<1>5. \A d \in Calls : Holds(d)' => Holds(d) /\ call'[d].s = call[d].s
  BY ZenonT(60), <1>0, <1>1, <1>2 DEF Holds, Stages
<1>6. \A d \in Calls : Pipeline(d)' => d # c /\ Pipeline(d) /\ Holds(d) /\ call'[d].s = call[d].s
  BY <1>0, <1>1, <1>2 DEF Holds, Pipeline, Stages
<1>7. \A d \in Calls : Holds(d) => call[d].s \in Sessions
  BY <1>4 DEF Claims, Busy, Holds, Stages
<1>8. \A d \in Calls : Holds(d) /\ d # c => call[d].s # call[c].s
  BY Zenon, <1>0 DEF Claims, OneHolder, Holds
<1>9. Busy'
  BY Zenon, <1>0, <1>1, <1>2, <1>4 DEF Claims, Busy
<1>10. FreshUntouched'
  BY <1>0, <1>1, <1>2, <1>3, <1>4 DEF Claims, FreshUntouched
<1>11. OneHolder' /\ AbortedClosed'
  BY Zenon, <1>0, <1>5 DEF Claims, OneHolder, AbortedClosed
<1>12. HolderStatus'
  BY ZenonT(60), <1>0, <1>3, <1>5, <1>7 DEF Claims, HolderStatus
<1>13. PipelineStatus'
  BY <1>3, <1>6, <1>7, <1>8 DEF Claims, PipelineStatus
<1>14. StartedHasContent'
  BY Zenon, <1>0, <1>3 DEF Claims, StartedHasContent, PipelineStatus, Pipeline
<1>15. AbortedStaysFailed'
  <2>1. call[c].s \notin aborted
    BY <1>0 DEF Claims, AbortedClosed, Holds
  <2> QED
    BY Zenon, <1>0, <1>3, <2>1 DEF Claims, TypeOK, AbortedStaysFailed
<1> QED
  BY Zenon, <1>9, <1>10, <1>11, <1>12, <1>13, <1>14, <1>15

LEMMA PersistQuarantinedClaims ==
  ASSUME Claims, NEW c \in Calls, PersistQuarantined(c)
  PROVE  Claims'
<1>0. /\ call[c].at = "moved"
      /\ status' = [status EXCEPT ![call[c].s] = "quarantined"]
      /\ \/ call' = [call EXCEPT ![c] = Idle]
         \/ call' = [call EXCEPT ![c].at = "failing", ![c].drop = FALSE]
      /\ UNCHANGED <<window, content, blobOf, object, rows, deks, aborted>>
  BY Zenon DEF PersistQuarantined, At, Return, GiveUp
<1>1. /\ call \in [Calls -> CallRecord] /\ call[c] \in CallRecord
      /\ Idle \in CallRecord /\ Idle.at = "idle" /\ Idle.s = None
  BY UploadsAssumption DEF Claims, TypeOK, CallRecord, Idle, Begun, Bytes, Absent
<1>2. call[c].s \in Sessions
  BY <1>0, <1>1 DEF Claims, Busy, CallRecord
<1>3. /\ call' \in [Calls -> CallRecord]
      /\ \A d \in Calls : d # c => call'[d] = call[d]
      /\ \/ call'[c].at \in {"failing", "dropping"} /\ call'[c].s = call[c].s
         \/ call'[c].at = "idle" /\ call'[c].s = None
  BY <1>0, <1>1 DEF CallRecord
<1>4. Finishes(c, "quarantined")
  BY Zenon, <1>0, <1>2, <1>3 DEF Finishes, Stages
<1>5. status[call[c].s] # "completed"
  BY <1>0 DEF Claims, PipelineStatus, Pipeline, Stages
<1>6. RefsCountUploads'
  BY Zenon, <1>0, <1>2, <1>5, SameCompleted DEF Claims, TypeOK
<1>7. TypeOK'
  BY <1>0, <1>2, <1>3 DEF Claims, TypeOK, CallRecord
<1> QED
  BY <1>4, <1>6, <1>7, FinishesClaims DEF Claims

LEMMA PersistClaims ==
  ASSUME Claims, NEW c \in Calls, Persist(c)
  PROVE  Claims'
<1> DEFINE s == call[c].s
           h == content[s]
<1>0. /\ call[c].at = "written"
      /\ rows' = [rows EXCEPT ![h] = Persisted(c, h)]
      /\ status' = [status EXCEPT ![s] = "completed"]
      /\ blobOf' = [blobOf EXCEPT ![s] = h]
      /\ \/ call' = [call EXCEPT ![c].at = "failing", ![c].drop = FALSE]
         \/ call' = [call EXCEPT ![c] = Idle]
         \/ call' = [call EXCEPT ![c].at = "dropping"]
      /\ UNCHANGED <<window, content, object, deks, aborted>>
  BY DEF Persist, At, Return, GiveUp, Goto
<1>1. /\ call \in [Calls -> CallRecord] /\ call[c] \in CallRecord
      /\ Idle \in CallRecord /\ Idle.at = "idle" /\ Idle.s = None
  BY UploadsAssumption DEF Claims, TypeOK, CallRecord, Idle, Begun, Bytes, Absent
<1>2. s \in Sessions /\ status[s] \in {"scanning", "failed"} /\ h \in Contents
  BY <1>0, <1>1 DEF Claims, Busy, CallRecord, PipelineStatus, Pipeline, Stages, StartedHasContent
<1>3. /\ call' \in [Calls -> CallRecord]
      /\ \A d \in Calls : d # c => call'[d] = call[d]
      /\ \/ call'[c].at \in {"failing", "dropping"} /\ call'[c].s = s
         \/ call'[c].at = "idle" /\ call'[c].s = None
  BY <1>0, <1>1 DEF CallRecord
<1>4. Finishes(c, "completed")
  BY Zenon, <1>0, <1>2, <1>3 DEF Finishes, Stages
<1> DEFINE Done(k) == {t \in Sessions : status[t] = "completed" /\ blobOf[t] = k}
<1>5. \A k \in Contents : /\ rows[k].refs = Cardinality(Done(k))
                          /\ IsFiniteSet(Done(k)) /\ s \notin Done(k)
  <2>1. \A k \in Contents : Done(k) \subseteq Sessions
    OBVIOUS
  <2> QED
    BY Zenon, <1>2, <2>1, UploadsAssumption, FS_Subset DEF Claims, RefsCountUploads
<1>6. /\ status \in [Sessions -> {"none", "initiated", "scanning", "completed", "quarantined", "failed"}]
      /\ blobOf \in [Sessions -> Contents \cup {None}]
      /\ rows \in [Contents -> [key : Sessions \cup {None}, dek : 0..MaxWrites,
                                of : Bytes, refs : 0..Cardinality(Sessions)]]
  BY DEF Claims, TypeOK
<1>7. \A k \in Contents : {t \in Sessions : status'[t] = "completed" /\ blobOf'[t] = k}
                          = IF k = h THEN Done(k) \cup {s} ELSE Done(k)
  BY <1>0, <1>2, <1>6
<1>8. Persisted(c, h).refs = Cardinality(Done(h)) + 1
  <2>1. CASE rows[h] = NoRow
    <3>1. rows[h].refs = 0
      BY <2>1 DEF NoRow
    <3>2. Persisted(c, h).refs = 1
      BY ZenonT(60), <2>1 DEF Persisted, NewRow
    <3> QED
      BY <1>2, <1>5, <3>1, <3>2
  <2>2. CASE rows[h] # NoRow
    <3>1. Persisted(c, h).refs = rows[h].refs + 1
      BY <1>2, <1>6, <2>2 DEF Persisted
    <3> QED
      BY <1>2, <1>5, <3>1
  <2> QED
    BY ZenonT(60), <2>1, <2>2
<1>9. Cardinality(Done(h) \cup {s}) = Cardinality(Done(h)) + 1
  BY Zenon, <1>2, <1>5, FS_AddElement
<1>10. RefsCountUploads'
  <2> SUFFICES ASSUME NEW k \in Contents
               PROVE rows'[k].refs = Cardinality({t \in Sessions : status'[t] = "completed" /\ blobOf'[t] = k})
    BY DEF RefsCountUploads
  <2>1. rows'[k] = IF k = h THEN Persisted(c, h) ELSE rows[k]
    BY <1>0, <1>2, <1>6
  <2>2. CASE k = h
    BY ZenonT(60), <1>7, <1>8, <1>9, <2>1, <2>2
  <2>3. CASE k # h
    BY <1>5, <1>7, <2>1, <2>3
  <2> QED
    BY Zenon, <2>2, <2>3
<1>11. Persisted(c, h) \in [key : Sessions \cup {None}, dek : 0..MaxWrites,
                            of : Bytes, refs : 0..Cardinality(Sessions)]
  <2>1. Done(h) \cup {s} \subseteq Sessions
    BY ZenonT(60), <1>2
  <2>2. /\ Cardinality(Done(h)) + 1 <= Cardinality(Sessions)
        /\ Cardinality(Done(h)) \in Nat /\ Cardinality(Sessions) \in Nat
    BY SMTT(30), <1>2, <1>5, <1>9, <2>1, FS_Subset, FS_CardinalityType, UploadsAssumption
  <2>3. Persisted(c, h).refs \in 0..Cardinality(Sessions)
    BY <1>8, <2>2
  <2>4. CASE rows[h] = NoRow
    BY ONLY <1>1, <1>2, <2>3, <2>4 DEF Persisted, NewRow, CallRecord
  <2>5. CASE rows[h] # NoRow
    BY SMTT(30), <1>2, <1>6, <2>3, <2>5 DEF Persisted
  <2> QED
    BY Zenon, <2>4, <2>5
<1>12. TypeOK'
  BY Zenon, <1>0, <1>2, <1>3, <1>6, <1>11 DEF Claims, TypeOK, CallRecord
<1> QED
  BY <1>4, <1>10, <1>12, FinishesClaims DEF Claims

LEMMA AbortClaims ==
  ASSUME Claims, NEW c \in Calls, NEW s \in Sessions, AbortUpload(c, s)
  PROVE  Claims'
<1> DEFINE r == Begun("dropping", s)
<1>0. /\ call[c].at = "idle" /\ status[s] = "initiated"
      /\ status' = [status EXCEPT ![s] = "failed"]
      /\ window' = [window EXCEPT ![s] = ClosedWindow(s)]
      /\ aborted' = aborted \cup {s}
      /\ call' = [call EXCEPT ![c] = r]
      /\ UNCHANGED <<content, blobOf, object, rows, deks>>
  BY DEF AbortUpload, Abortable, At
<1>1. r \in CallRecord /\ r.at = "dropping" /\ r.s = s
  <2>1. 0 \in 0..MaxWrites /\ Absent \in Bytes
    BY UploadsAssumption DEF Bytes
  <2> QED
    BY Zenon, <2>1 DEF CallRecord, Begun
<1>2. /\ call \in [Calls -> CallRecord]
      /\ status \in [Sessions -> {"none", "initiated", "scanning", "completed", "quarantined", "failed"}]
      /\ window \in [Sessions -> {"open", "expired", "abandoned"}]
  BY DEF Claims, TypeOK, CallRecord
<1> HIDE DEF r
<1>3. \A d \in Calls : call'[d] = IF d = c THEN r ELSE call[d]
  BY <1>0, <1>2
<1>4. /\ \A t \in Sessions : status'[t] = IF t = s THEN "failed" ELSE status[t]
      /\ \A t \in Sessions : t # s => window'[t] = window[t]
      /\ window'[s] \in {"expired", "abandoned"}
  BY Zenon, <1>0, <1>2 DEF ClosedWindow
<1>5. TypeOK'
  <2>1. call' \in [Calls -> CallRecord]
    BY <1>0, <1>1, <1>2
  <2>2. window' \in [Sessions -> {"open", "expired", "abandoned"}]
    BY <1>0, <1>2 DEF ClosedWindow
  <2> QED
    BY Zenon, <1>0, <2>1, <2>2 DEF Claims, TypeOK, CallRecord
<1>6. None \notin Sessions /\ \A d \in Calls : call[d].s # None => call[d].s \in Sessions
  BY <1>2, UploadsAssumption DEF CallRecord
<1>7. \A d \in Calls : call[d].s # s
  BY Zenon, <1>0, <1>6 DEF Claims, FreshUntouched
<1>8. \A d \in Calls : Holds(d)' => Holds(d) /\ call'[d] = call[d] /\ call[d].s \in Sessions
  BY Zenon, <1>1, <1>3, <1>6 DEF Claims, Busy, Holds, Stages
<1>9. \A d \in Calls : Pipeline(d)' =>
        Pipeline(d) /\ call'[d] = call[d] /\ call[d].s \in Sessions
  BY Zenon, <1>1, <1>3, <1>6 DEF Claims, Busy, Pipeline, Stages
<1>10. Busy'
  <2> SUFFICES ASSUME NEW d \in Calls
               PROVE (call'[d].at = "idle") <=> (call'[d].s = None)
    BY DEF Busy
  <2>1. CASE d = c
    BY Zenon, <1>1, <1>3, <1>6, <2>1
  <2>2. CASE d # c
    BY <1>3, <2>2 DEF Claims, Busy
  <2> QED BY <2>1, <2>2
<1>11. FreshUntouched'
  BY <1>1, <1>3, <1>4, <1>6 DEF Claims, FreshUntouched
<1>12. OneHolder'
  BY ZenonT(60), <1>8 DEF Claims, OneHolder
<1>13. HolderStatus'
  BY <1>4, <1>7, <1>8 DEF Claims, HolderStatus
<1>14. PipelineStatus'
  BY <1>4, <1>7, <1>9 DEF Claims, PipelineStatus
<1>15. AbortedClosed'
  BY <1>0, <1>4, <1>7, <1>8 DEF Claims, TypeOK, AbortedClosed
<1>16. StartedHasContent' /\ AbortedStaysFailed'
  BY <1>0, <1>4 DEF Claims, TypeOK, StartedHasContent, AbortedStaysFailed
<1>17. RefsCountUploads'
  BY <1>0, <1>4, SameCompleted
<1> QED
  BY <1>5, <1>10, <1>11, <1>12, <1>13, <1>14, <1>15, <1>16, <1>17 DEF Claims

LEMMA NextClaims == Claims /\ [Next]_vars => Claims'
<1> SUFFICES ASSUME Claims, [Next]_vars PROVE Claims'
  BY SMTT(30)
<1>1. CASE UNCHANGED vars
  <2>1. UNCHANGED <<status, window, content, blobOf, object, rows, call, deks, aborted>>
    BY Zenon, <1>1 DEF vars
  <2>2. TypeOK'
    BY Zenon, <2>1 DEF Claims, TypeOK
  <2>3. Busy' /\ FreshUntouched' /\ OneHolder' /\ HolderStatus' /\ PipelineStatus'
    BY Zenon, <2>1 DEF Claims, Busy, FreshUntouched, OneHolder, HolderStatus, PipelineStatus,
                       Holds, Pipeline
  <2>4. AbortedClosed' /\ StartedHasContent' /\ RefsCountUploads' /\ AbortedStaysFailed'
    BY Zenon, <2>1 DEF Claims, AbortedClosed, StartedHasContent, RefsCountUploads,
                       AbortedStaysFailed, Holds
  <2> QED BY Zenon, <2>2, <2>3, <2>4 DEF Claims
<1>2. ASSUME NEW s \in Sessions, NEW h \in Contents, InitiateUpload(s, h) PROVE Claims'
  BY <1>2, InitiateClaims
<1>3. ASSUME NEW s \in Sessions, ClientPut(s) \/ Expire(s) PROVE Claims'
  BY <1>3, PutClaims, ExpireClaims
<1>4. CASE SweepExpiredUploads
  BY <1>4, SweepClaims
<1>5. ASSUME NEW c \in Calls, NEW s \in Sessions,
             ClaimExpired(c, s) \/ Claim(c, s) \/ AbortUpload(c, s)
      PROVE  Claims'
  BY Zenon, <1>5, ClaimExpiredClaims, ClaimClaims, AbortClaims
<1>6. ASSUME NEW c \in Calls, Complete(c) \/ Crash(c) PROVE Claims'
  <2>1. CASE CallStep(c)
    BY <2>1, CallStepMoves, MovesClaims
  <2>2. CASE PersistQuarantined(c) \/ Persist(c) \/ FailUpload(c)
    BY <2>2, PersistQuarantinedClaims, PersistClaims, FailUploadClaims
  <2> QED
    BY <1>6, <2>1, <2>2 DEF Complete, CallStep
<1> QED
  BY <1>1, <1>2, <1>3, <1>4, <1>5, <1>6 DEF Next

LEMMA ClaimsInvariant == Spec => []Claims
<1>1. Init => Claims
  BY InitClaims
<1>2. Claims /\ [Next]_vars => Claims'
  BY NextClaims
<1> QED
  BY <1>1, <1>2, PTL DEF Spec

\* Every reachable state of the upload pipeline is well typed.
THEOREM UploadsTyped == Spec => []TypeOK
<1>1. Claims => TypeOK
  BY DEF Claims
<1> QED
  BY <1>1, ClaimsInvariant, PTL

\* CompleteUpload's claim admits one pipeline per session, for any number of
\* overlapping retries.
THEOREM PipelineExclusive == Spec => []OnePipeline
<1>1. Claims => OnePipeline
  BY DEF Claims, OnePipeline, OneHolder, Holds, Pipeline
<1> QED
  BY <1>1, ClaimsInvariant, PTL

\* Neither the sweeper nor a retry nor an abort fails a session under a live
\* pipeline within ScanningGrace.
THEOREM GraceHonoured == Spec => []LivePipelineKept
<1>1. Claims => LivePipelineKept
  BY DEF Claims, LivePipelineKept, HolderStatus, PipelineStatus, Holds, Pipeline
<1> QED
  BY <1>1, ClaimsInvariant, PTL

\* Each content_blobs row counts exactly the sessions that completed into it.
THEOREM UploadsCounted == Spec => []RefsCountUploads
<1>1. Claims => RefsCountUploads
  BY DEF Claims
<1> QED
  BY <1>1, ClaimsInvariant, PTL

\* An aborted session is never completed or quarantined.
THEOREM AbortFinal == Spec => []AbortedStaysFailed
<1>1. Claims => AbortedStaysFailed
  BY Zenon DEF Claims
<1> QED
  BY <1>1, ClaimsInvariant, PTL

-----------------------------------------------------------------------------
(* Terminal sessions *)

LEMMA NextTerminal ==
  Claims /\ [Next]_vars =>
    \A s \in Sessions : status[s] \in {"completed", "quarantined"} => status'[s] = status[s]
<1> SUFFICES ASSUME Claims, [Next]_vars, NEW s \in Sessions,
                    status[s] \in {"completed", "quarantined"}
             PROVE  status'[s] = status[s]
  OBVIOUS
<1>0. status \in [Sessions -> {"none", "initiated", "scanning", "completed", "quarantined", "failed"}]
  BY DEF Claims, TypeOK
<1>1. CASE UNCHANGED vars
  BY Zenon, <1>1 DEF vars
<1>2. ASSUME NEW t \in Sessions, NEW h \in Contents, InitiateUpload(t, h)
      PROVE  status'[s] = status[s]
  BY ZenonT(60), <1>0, <1>2 DEF InitiateUpload
<1>3. ASSUME NEW t \in Sessions, ClientPut(t) \/ Expire(t) PROVE status'[s] = status[s]
  BY <1>3 DEF ClientPut, Expire
<1>4. CASE SweepExpiredUploads
  BY <1>4 DEF SweepExpiredUploads, InFlight
<1>5. ASSUME NEW c \in Calls, NEW t \in Sessions,
             ClaimExpired(c, t) \/ Claim(c, t) \/ AbortUpload(c, t)
      PROVE  status'[s] = status[s]
  BY SMTT(30), <1>0, <1>5 DEF ClaimExpired, Claim, Claimable, AbortUpload, Abortable, InFlight
<1>6. ASSUME NEW c \in Calls, Complete(c) \/ Crash(c) PROVE status'[s] = status[s]
  <2>1. CASE CallStep(c)
    BY <2>1, CallStepMoves DEF Moves
  <2>2. CASE PersistQuarantined(c) \/ Persist(c)
    <3>1. Pipeline(c)
      BY ZenonT(30), <2>2 DEF PersistQuarantined, Persist, At, Pipeline, Stages
    <3>2. call[c].s # s
      BY <3>1 DEF Claims, PipelineStatus
    <3> QED
      BY Zenon, <1>0, <2>2, <3>2 DEF PersistQuarantined, Persist
  <2>3. CASE FailUpload(c)
    BY <1>0, <2>3 DEF FailUpload, Failed, InFlight
  <2> QED
    BY ZenonT(60), <1>6, <2>1, <2>2, <2>3 DEF Complete, CallStep
<1> QED
  BY Zenon, <1>1, <1>2, <1>3, <1>4, <1>5, <1>6 DEF Next

\* No step downgrades a completed or quarantined session: not failUpload after
\* a commit whose answer was lost, not a late sweep, retry or abort.
THEOREM TerminalForEver == Spec => TerminalStays
<1>1. Claims /\ [Next]_vars =>
        [\A s \in Sessions : status[s] \in {"completed", "quarantined"}
                             => status'[s] = status[s]]_vars
  BY NextTerminal
<1> QED
  BY <1>1, ClaimsInvariant, PTL DEF Spec, TerminalStays


-----------------------------------------------------------------------------
(* Committed rows stay readable while clients wait for their previous call: *)
(* Readable is inductive beside the Claims. *)

\* No step wires a KeyManager or takes it away.
LEMMA ConfigKept ==
  ASSUME Claims, [Next]_vars
  PROVE  EncryptAtRest' <=> EncryptAtRest
<1>1. deks' = deks \/ \E c \in Calls : PutObject(c)
  <2>1. CASE UNCHANGED vars
    BY <2>1 DEF vars
  <2>2. ASSUME NEW c \in Calls, Complete(c), ~PutObject(c) PROVE deks' = deks
    BY Zenon, <2>2 DEF Complete, StepFails, GetObjectInfo, GetObject, Reject, ScanVerdict,
         Quarantine, SkipEncryption, PersistQuarantined, Persist, PersistFails, FailUpload,
         DropObject
  <2>3. CASE Next /\ ~(\E c \in Calls : Complete(c))
    BY Zenon, <2>3 DEF Next, InitiateUpload, ClientPut, Expire, SweepExpiredUploads,
         ClaimExpired, Claim, AbortUpload, Crash
  <2> QED
    BY Zenon, <2>1, <2>2, <2>3
<1>2. ASSUME NEW c \in Calls, PutObject(c) PROVE EncryptAtRest /\ EncryptAtRest'
  <2>1. deks \in Generated /\ deks # NoKMS /\ deks' = deks + 1 /\ MaxWrites \in Nat
    BY <1>2, UploadsAssumption DEF PutObject, EncryptAtRest, Claims, TypeOK
  <2> QED
    BY <2>1 DEF EncryptAtRest, Generated, NoKMS
<1> QED
  BY <1>1, <1>2 DEF EncryptAtRest

\* A step that leaves the rows and the objects they point at alone.
LEMMA RowsKept ==
  ASSUME Claims, Readable, [Next]_vars, rows' = rows,
         \A h \in Contents : rows[h] # NoRow => object'[rows[h].key] = object[rows[h].key]
  PROVE  KeysCompleted' /\ RowsReadable'
<1>1. KeysCompleted'
  BY Zenon, NextTerminal DEF Readable, KeysCompleted
<1>2. RowsReadable'
  BY Zenon, ConfigKept DEF Readable, RowsReadable
<1> QED BY Zenon, <1>1, <1>2

\* The key of a row is not the session of a pipeline, nor of a fresh session.
LEMMA KeysElsewhere ==
  ASSUME Claims, Readable, NEW s \in Sessions, status[s] # "completed"
  PROVE  \A h \in Contents : rows[h].key # s
<1>1. None # s
  BY Zenon, UploadsAssumption
<1> QED
  BY <1>1 DEF Readable, KeysCompleted, NoRow

\* A step that changes neither rows nor requests, and objects only of
\* unfinished sessions nobody works on.
LEMMA QuietReadable ==
  ASSUME Claims, Readable, [Next]_vars, rows' = rows, call' = call, NEW s \in Sessions,
         \/ object' = object
         \/ /\ object' = [object EXCEPT ![s] = Plain] /\ status[s] # "completed"
            /\ \A c \in Calls : call[c].s # s
  PROVE  Readable'
<1>1. \A t \in Sessions : object'[t] = object[t] \/ (t = s /\ status[s] # "completed"
                                                    /\ \A c \in Calls : call[c].s # s)
  BY Zenon DEF Claims, TypeOK
<1>2. \A h \in Contents : rows[h] # NoRow => object'[rows[h].key] = object[rows[h].key]
  BY Zenon, <1>1, KeysElsewhere DEF Readable, KeysCompleted
<1>3. OneCall' /\ DropsUnreferenced'
  BY Zenon DEF Readable, OneCall, DropsUnreferenced
<1>4. \A c \in Calls : call[c].at \in {"sized", "fetched", "clean", "written"}
        => object'[call[c].s] = object[call[c].s]
  BY Zenon, <1>1 DEF Claims, TypeOK, Busy
<1>5. PipelineBytes'
  BY Zenon, <1>4, ConfigKept DEF Readable, PipelineBytes
<1> QED
  BY Zenon, <1>2, <1>3, <1>5, RowsKept DEF Readable

\* What PipelineBytes and DropsUnreferenced say of one request.
Sound(r, obj) ==
  /\ r.at \in {"sized", "fetched", "clean"} => obj[r.s] = Plain
  /\ r.at \in {"fetched", "clean", "written"} => r.buf = Plain
  /\ r.at \in {"claimed", "sized", "fetched", "clean"} => r.dek = Plain
  /\ r.at \in Stages => ~r.drop
  /\ r.at = "written" => obj[r.s] = r.dek /\ (EncryptAtRest => r.dek # Plain)
  /\ r.at = "dropping" \/ (r.at = "failing" /\ r.drop)
       => \A h \in Contents : rows[h].key # r.s

\* One request moves; only its own object changes, which no row points at.
LEMMA StepReadable ==
  ASSUME Claims, Readable, [Next]_vars, NEW c \in Calls, rows' = rows,
         \A d \in Calls : d # c => call'[d] = call[d],
         \/ call'[c].s \in {None, call[c].s}
         \/ \A d \in Calls : call[d].s # call'[c].s,
         \A t \in Sessions : \/ object'[t] = object[t]
                             \/ t = call[c].s /\ \A h \in Contents : rows[h].key # t,
         Sound(call'[c], object')
  PROVE  Readable'
<1>1. OneCall'
  BY DEF Readable, OneCall
<1>2. \A h \in Contents : rows[h] # NoRow => object'[rows[h].key] = object[rows[h].key]
  BY Zenon DEF Readable, KeysCompleted
<1>3. DropsUnreferenced'
  BY DEF Readable, DropsUnreferenced, Sound
<1>4. ASSUME NEW d \in Calls, d # c
      PROVE  /\ call'[d].at \in {"sized", "fetched", "clean"} => object'[call'[d].s] = Plain
             /\ call'[d].at = "written" => object'[call'[d].s] = call'[d].dek
  <2>1. call'[d] = call[d]
    BY ZenonT(60), <1>4
  <2>2. call[d].at \in {"sized", "fetched", "clean", "written"}
          => call[d].s \in Sessions /\ call[d].s # call[c].s
    BY <1>4 DEF Claims, TypeOK, Busy, Readable, OneCall
  <2> QED
    BY <2>1, <2>2 DEF Readable, PipelineBytes
<1>5. PipelineBytes'
  <2> SUFFICES ASSUME NEW d \in Calls
               PROVE  /\ call'[d].at \in {"sized", "fetched", "clean"} => object'[call'[d].s] = Plain
                      /\ call'[d].at \in {"fetched", "clean", "written"} => call'[d].buf = Plain
                      /\ call'[d].at \in {"claimed", "sized", "fetched", "clean"} => call'[d].dek = Plain
                      /\ call'[d].at \in Stages => ~call'[d].drop
                      /\ call'[d].at = "written" => /\ object'[call'[d].s] = call'[d].dek
                                                    /\ EncryptAtRest' => call'[d].dek # Plain
    BY Zenon DEF PipelineBytes
  <2>1. EncryptAtRest' <=> EncryptAtRest
    BY Zenon, ConfigKept
  <2>2. CASE d = c
    BY Zenon, <2>1, <2>2 DEF Sound
  <2>3. CASE d # c
    <3>1. call'[d] = call[d] /\ PipelineBytes
      BY Zenon, <2>3 DEF Readable
    <3>2. /\ call[d].at \in {"fetched", "clean", "written"} => call[d].buf = Plain
          /\ call[d].at \in {"claimed", "sized", "fetched", "clean"} => call[d].dek = Plain
          /\ call[d].at \in Stages => ~call[d].drop
          /\ call[d].at = "written" => (EncryptAtRest => call[d].dek # Plain)
      BY Zenon, <3>1 DEF PipelineBytes
    <3>3. /\ call'[d].at \in {"sized", "fetched", "clean"} => object'[call'[d].s] = Plain
          /\ call'[d].at = "written" => object'[call'[d].s] = call'[d].dek
      BY Zenon, <1>4, <2>3
    <3> QED BY ONLY <2>1, <3>1, <3>2, <3>3
  <2> QED BY Zenon, <2>2, <2>3
<1> QED
  BY ZenonT(60), <1>1, <1>2, <1>3, <1>5, RowsKept DEF Readable

LEMMA CallStepReadable ==
  ASSUME Claims, Readable, [Next]_vars, NEW c \in Calls, CallStep(c)
  PROVE  Readable'
<1>0. /\ call \in [Calls -> CallRecord] /\ call[c] \in CallRecord
      /\ object \in [Sessions -> Bytes] /\ deks \in Generated
      /\ MaxWrites \in Nat
  BY ZenonT(60), UploadsAssumption DEF Claims, TypeOK, CallRecord
<1>1. /\ call' = [call EXCEPT ![c] = call'[c]] /\ rows' = rows
      /\ call'[c].s \in {None, call[c].s}
  BY CallStepMoves DEF Moves
<1>2. \A d \in Calls : d # c => call'[d] = call[d]
  BY Zenon, <1>0, <1>1
<1>3. Pipeline(c) => call[c].s \in Sessions /\ \A h \in Contents : rows[h].key # call[c].s
  BY ZenonT(60), <1>0, KeysElsewhere DEF Claims, PipelineStatus, Pipeline, Busy, Stages, CallRecord
<1>4. Sound(call[c], object)
  BY DEF Readable, PipelineBytes, DropsUnreferenced, Sound
<1>5. (\A t \in Sessions : \/ object'[t] = object[t]
                           \/ t = call[c].s /\ \A h \in Contents : rows[h].key # t)
      /\ Sound(call'[c], object')
  <2>1. CASE StepFails(c) \/ Reject(c) \/ PersistFails(c)
    <3>1. object' = object /\ call[c].at \in Stages
      BY Zenon, <2>1 DEF StepFails, Reject, PersistFails, At, Stages
    <3>2. \E b \in BOOLEAN : call' = [call EXCEPT ![c].at = "failing", ![c].drop = b]
      BY ZenonT(30), <2>1 DEF StepFails, Reject, PersistFails, GiveUp
    <3>3. call'[c].at = "failing" /\ call'[c].s = call[c].s
      BY <1>0, <3>2 DEF CallRecord
    <3> QED
      BY <1>3, <3>1, <3>3 DEF Sound, Pipeline, Stages
  <2>2. CASE GetObjectInfo(c)
    <3>1. object' = object /\ call[c].at = "claimed"
      BY <2>2 DEF GetObjectInfo, At
    <3>2. \/ object[call[c].s] = Plain /\ call' = [call EXCEPT ![c].at = "sized"]
          \/ call' = [call EXCEPT ![c].at = "failing", ![c].drop = FALSE]
      BY <2>2 DEF GetObjectInfo, SizeMatches, Goto, GiveUp
    <3> QED
      BY <1>0, <1>4, <3>1, <3>2 DEF Sound, Stages, CallRecord
  <2>3. CASE GetObject(c)
    <3>1. object' = object /\ call[c].at = "sized"
      BY <2>3 DEF GetObject, At
    <3>2. \/ call' = [call EXCEPT ![c].at = "fetched", ![c].buf = object[call[c].s]]
          \/ call' = [call EXCEPT ![c].at = "failing", ![c].drop = FALSE]
      BY <2>3 DEF GetObject, GiveUp
    <3> QED
      BY <1>0, <1>4, <3>1, <3>2 DEF Sound, Stages, CallRecord
  <2>4. CASE ScanVerdict(c)
    <3>1. /\ object' = object /\ call[c].at = "fetched"
          /\ \E v \in {"clean", "infected"} : call' = [call EXCEPT ![c].at = v]
      BY Zenon, <2>4 DEF ScanVerdict, At, Goto
    <3> QED
      BY <1>0, <1>4, <3>1 DEF Sound, Stages, CallRecord
  <2>5. CASE SkipEncryption(c)
    <3>1. /\ object' = object /\ call[c].at = "clean" /\ ~EncryptAtRest
          /\ call' = [call EXCEPT ![c].at = "written"]
      BY <2>5 DEF SkipEncryption, At, Goto
    <3> QED
      BY <1>0, <1>4, <3>1 DEF Sound, Stages, CallRecord
  <2>6. CASE PutObject(c)
    <3>1. /\ object' = [object EXCEPT ![call[c].s] = deks + 1] /\ call[c].at = "clean"
          /\ \/ call' = [call EXCEPT ![c].at = "written", ![c].dek = deks + 1]
             \/ call' = [call EXCEPT ![c].at = "failing", ![c].drop = FALSE]
      BY <2>6 DEF PutObject, At, GiveUp
    <3>2. call[c].s \in Sessions /\ \A h \in Contents : rows[h].key # call[c].s
      BY <1>3, <3>1 DEF Pipeline, Stages
    <3>3. deks + 1 # Plain /\ object'[call[c].s] = deks + 1
      BY <1>0, <2>6, <3>1, <3>2 DEF Plain, PutObject, EncryptAtRest, Generated, NoKMS
    <3>4. Sound(call'[c], object')
      BY <1>0, <1>4, <3>1, <3>3 DEF Sound, Stages, CallRecord
    <3> QED
      BY <1>0, <3>1, <3>2, <3>4
  <2>7. CASE Quarantine(c)
    <3>1. /\ call[c].at = "infected" /\ call' = [call EXCEPT ![c].at = "moved"]
          /\ \E left : object' = [object EXCEPT ![call[c].s] = left]
      BY Zenon, <2>7 DEF Quarantine, At, Goto
    <3>2. call[c].s \in Sessions /\ \A h \in Contents : rows[h].key # call[c].s
      BY <1>3, <3>1 DEF Pipeline, Stages
    <3>3. Sound(call'[c], object')
      BY Zenon, <1>0, <1>4, <3>1 DEF Sound, Stages, CallRecord
    <3> QED
      BY <1>0, <3>1, <3>2, <3>3
  <2>8. CASE DropObject(c)
    <3>1. /\ call[c].at = "dropping" /\ call' = [call EXCEPT ![c] = Idle]
          /\ \E left : object' = [object EXCEPT ![call[c].s] = left]
      BY ZenonT(30), <2>8 DEF DropObject, At, Return
    <3>2. \A h \in Contents : rows[h].key # call[c].s
      BY Zenon, <1>4, <3>1 DEF Sound
    <3>3. Sound(call'[c], object')
      BY Zenon, <1>0, <3>1 DEF Sound, Stages, Idle, Begun
    <3> QED
      BY <1>0, <3>1, <3>2, <3>3
  <2>9. CASE Crash(c)
    <3>1. object' = object /\ call' = [call EXCEPT ![c] = Idle]
      BY <2>9 DEF Crash, Return
    <3> QED
      BY Zenon, <1>0, <3>1 DEF Sound, Stages, Idle, Begun
  <2> QED
    BY ZenonT(60), <2>1, <2>2, <2>3, <2>4, <2>5, <2>6, <2>7, <2>8, <2>9 DEF CallStep
<1> QED
  BY Zenon, <1>1, <1>2, <1>5, StepReadable

LEMMA OutcomeReadable ==
  ASSUME Claims, Readable, [Next]_vars, NEW c \in Calls,
         PersistQuarantined(c) \/ FailUpload(c)
  PROVE  Readable'
<1>0. call \in [Calls -> CallRecord] /\ call[c] \in CallRecord
  BY DEF Claims, TypeOK, CallRecord
<1>1. /\ object' = object /\ rows' = rows /\ call[c].at \in {"moved", "failing"}
      /\ \/ call' = [call EXCEPT ![c] = Idle]
         \/ call' = [call EXCEPT ![c].at = "failing", ![c].drop = FALSE]
         \/ /\ call[c].at = "failing" /\ call[c].drop
            /\ call' = [call EXCEPT ![c].at = "dropping"]
  BY DEF PersistQuarantined, FailUpload, At, Return, GiveUp, Goto
<1>2. (\A d \in Calls : d # c => call'[d] = call[d]) /\ call'[c].s \in {None, call[c].s}
  BY <1>0, <1>1 DEF CallRecord, Idle, Begun
<1>3. Sound(call'[c], object')
  BY <1>0, <1>1 DEF Sound, Stages, Idle, Begun, CallRecord, Readable, DropsUnreferenced
<1> QED
  BY Zenon, <1>1, <1>2, <1>3, StepReadable

LEMMA BeginReadable ==
  ASSUME Claims, Readable, [Next]_vars, ~RetryOverlap, NEW c \in Calls, NEW s \in Sessions,
         Claim(c, s) \/ AbortUpload(c, s)
  PROVE  Readable'
<1>0. call \in [Calls -> CallRecord] /\ None \notin Sessions
  BY UploadsAssumption DEF Claims, TypeOK, CallRecord
<1>1. /\ object' = object /\ rows' = rows
      /\ \/ call' = [call EXCEPT ![c] = Begun("claimed", s)]
         \/ call' = [call EXCEPT ![c] = Begun("dropping", s)]
      /\ status[s] # "completed"
  BY DEF Claim, Claimable, AbortUpload, Abortable
<1>2. \A d \in Calls : call[d].s # s
  BY Zenon, <1>0 DEF Claim, Overlaps, AbortUpload, Abortable, Claims, FreshUntouched
<1>3. (\A d \in Calls : d # c => call'[d] = call[d]) /\ call'[c].s = s
  BY <1>0, <1>1 DEF Begun
<1>4. Sound(call'[c], object')
  <2>1. \A h \in Contents : rows[h].key # s
    BY Zenon, <1>1, KeysElsewhere
  <2>2. /\ call'[c].at \in {"claimed", "dropping"} /\ call'[c].dek = Plain
        /\ call'[c].drop = FALSE
    BY <1>0, <1>1 DEF Begun, Plain
  <2> QED
    BY <1>3, <2>1, <2>2 DEF Sound, Stages
<1> QED
  BY ZenonT(60), <1>1, <1>2, <1>3, <1>4, StepReadable

\* What Persist's INSERT takes from the call.
LEMMA NewRowFields ==
  ASSUME NEW c \in Calls
  PROVE  /\ NewRow(c).key = call[c].s /\ NewRow(c).of = call[c].buf
         /\ NewRow(c).dek = call[c].dek
BY Zenon DEF NewRow

LEMMA PersistReadable ==
  ASSUME Claims, Readable, [Next]_vars, NEW c \in Calls, Persist(c)
  PROVE  Readable'
<1> DEFINE s == call[c].s
           h == content[s]
<1>0. /\ call[c].at = "written" /\ rows' = [rows EXCEPT ![h] = Persisted(c, h)]
      /\ status' = [status EXCEPT ![s] = "completed"] /\ object' = object
      /\ \/ call' = [call EXCEPT ![c].at = "failing", ![c].drop = FALSE]
         \/ rows[h] = NoRow /\ call' = [call EXCEPT ![c] = Idle]
         \/ rows[h] # NoRow /\ call' = [call EXCEPT ![c].at = "dropping"]
  BY Zenon DEF Persist, At, Return, GiveUp, Goto
<1>1. call \in [Calls -> CallRecord] /\ call[c] \in CallRecord /\ None \notin Sessions
  BY Zenon, UploadsAssumption DEF Claims, TypeOK, CallRecord
<1>2. s \in Sessions /\ status[s] \in {"scanning", "failed"} /\ h \in Contents
  BY Zenon, <1>0, <1>1 DEF Claims, Busy, CallRecord, PipelineStatus, Pipeline, Stages, StartedHasContent
<1>3. /\ \A d \in Calls : d # c => call'[d] = call[d] /\ call[d].s # s
      /\ \/ call'[c].s = s /\ call'[c].at = "failing" /\ ~call'[c].drop
         \/ call'[c].s = None /\ call'[c].at = "idle"
         \/ call'[c].s = s /\ call'[c].at = "dropping" /\ rows[h] # NoRow
  BY <1>0, <1>1, <1>2 DEF CallRecord, Idle, Begun, Readable, OneCall
<1>4. /\ call[c].buf = Plain /\ object[s] = call[c].dek
      /\ EncryptAtRest => call[c].dek # Plain
  BY Zenon, <1>0 DEF Readable, PipelineBytes
<1>5. rows \in [Contents -> [key : Sessions \cup {None}, dek : 0..MaxWrites,
                             of : Bytes, refs : 0..Cardinality(Sessions)]]
  BY DEF Claims, TypeOK
<1>6. \A k \in Contents : k # h => rows'[k] = rows[k]
  BY Zenon, <1>0, <1>5
<1>7. rows'[h] = Persisted(c, h)
  BY <1>0, <1>2, <1>5
<1>8. \/ /\ rows[h] = NoRow /\ rows'[h].key = s /\ rows'[h].of = call[c].buf
         /\ rows'[h].dek = call[c].dek
      \/ /\ rows[h] # NoRow /\ rows'[h].key = rows[h].key /\ rows'[h].of = rows[h].of
         /\ rows'[h].dek = rows[h].dek
  <2>1. CASE rows[h] = NoRow
    <3>1. rows'[h] = NewRow(c)
      BY <1>7, <2>1 DEF Persisted
    <3>2. rows'[h].key = s /\ rows'[h].of = call[c].buf /\ rows'[h].dek = call[c].dek
      BY <3>1, NewRowFields, ZenonT(30)
    <3> QED
      BY <2>1, <3>2, ZenonT(30)
  <2>2. CASE rows[h] # NoRow
    <3>1. rows'[h] = [rows[h] EXCEPT !.refs = @ + 1]
      BY Zenon, <1>7, <2>2 DEF Persisted
    <3>2. rows[h] \in [key : Sessions \cup {None}, dek : 0..MaxWrites,
                        of : Bytes, refs : 0..Cardinality(Sessions)]
      BY ZenonT(60), <1>2, <1>5
    <3>3. rows'[h].key = rows[h].key /\ rows'[h].of = rows[h].of /\ rows'[h].dek = rows[h].dek
      BY ONLY <3>1, <3>2
    <3> QED
      BY Zenon, <2>2, <3>3
  <2> QED BY Zenon, <2>1, <2>2
<1>9. \A k \in Contents : rows[k].key # s
  BY <1>2, KeysElsewhere
<1>10. status'[s] = "completed" /\ \A t \in Sessions : t # s => status'[t] = status[t]
  BY <1>0, <1>2 DEF Claims, TypeOK
<1>11. OneCall'
  <2>1. \A d \in Calls : call'[d].s = None \/ call'[d].s = call[d].s
    BY Zenon, <1>3
  <2> QED
    BY Zenon, <2>1 DEF Readable, OneCall
<1>12. \A k \in Contents : rows'[k].key = rows[k].key \/ (rows[h] = NoRow /\ k = h /\ rows'[k].key = s)
  BY Zenon, <1>6, <1>8
<1>13. KeysCompleted'
  <2> SUFFICES ASSUME NEW k \in Contents, rows'[k] # NoRow
               PROVE  rows'[k].key \in Sessions /\ status'[rows'[k].key] = "completed"
    BY Zenon DEF KeysCompleted
  <2>1. CASE k = h /\ rows[h] = NoRow
    BY Zenon, <1>2, <1>8, <1>10, <2>1
  <2>2. CASE rows[k] # NoRow
    <3>1. rows[k].key \in Sessions /\ status[rows[k].key] = "completed"
      BY <2>2 DEF Readable, KeysCompleted
    <3>2. rows'[k].key = rows[k].key
      BY <1>6, <1>8, <2>2, ZenonT(30)
    <3> QED
      BY ZenonT(60), <1>2, <1>10, <3>1, <3>2
  <2> QED
    BY Zenon, <1>6, <2>1, <2>2
<1>14. DropsUnreferenced'
  <2> SUFFICES ASSUME NEW d \in Calls, NEW k \in Contents,
                      call'[d].at = "dropping" \/ (call'[d].at = "failing" /\ call'[d].drop)
               PROVE rows'[k].key # call'[d].s
    BY Zenon DEF DropsUnreferenced
  <2>1. CASE d = c
    BY Zenon, <1>3, <1>9, <1>12, <2>1
  <2>2. CASE d # c
    <3>1. call'[d] = call[d] /\ call[d].s # s
      BY Zenon, <1>3, <2>2
    <3>2. rows[k].key # call[d].s
      BY Zenon, <3>1 DEF Readable, DropsUnreferenced
    <3> QED BY Zenon, <1>12, <3>1, <3>2
  <2> QED BY Zenon, <2>1, <2>2
<1>15. PipelineBytes'
  BY <1>0, <1>3, ConfigKept DEF Readable, PipelineBytes, Stages
<1>16. RowsReadable'
  <2> SUFFICES ASSUME NEW k \in Contents, rows'[k] # NoRow
               PROVE /\ rows'[k].of = Plain /\ object[rows'[k].key] = rows'[k].dek
                     /\ EncryptAtRest => rows'[k].dek # Plain
    BY Zenon, <1>0, ConfigKept DEF RowsReadable
  <2>1. CASE k = h /\ rows[h] = NoRow
    BY Zenon, <1>4, <1>8, <2>1
  <2>2. CASE rows[k] # NoRow
    <3>1. /\ rows'[k].of = rows[k].of /\ rows'[k].key = rows[k].key
          /\ rows'[k].dek = rows[k].dek
      BY Zenon, <1>6, <1>8, <2>2
    <3> QED
      BY Zenon, <2>2, <3>1 DEF Readable, RowsReadable
  <2> QED
    BY SMTT(30), <1>6, <2>1, <2>2
<1> QED
  BY Zenon, <1>11, <1>13, <1>14, <1>15, <1>16 DEF Readable

LEMMA NextReadable ==
  ASSUME ~RetryOverlap
  PROVE  Claims /\ Readable /\ [Next]_vars => Readable'
<1> SUFFICES ASSUME Claims, Readable, [Next]_vars PROVE Readable'
  BY Zenon
<1>1. CASE UNCHANGED vars
  BY Zenon, <1>1 DEF vars, Readable, OneCall, KeysCompleted, DropsUnreferenced, PipelineBytes,
              RowsReadable, EncryptAtRest
<1>2. ASSUME NEW s \in Sessions, NEW h \in Contents, InitiateUpload(s, h) PROVE Readable'
  <2>1. rows' = rows /\ call' = call /\ object' = object
    BY Zenon, <1>2 DEF InitiateUpload
  <2> QED
    BY <2>1, QuietReadable
<1>3. ASSUME NEW s \in Sessions, ClientPut(s) \/ Expire(s) PROVE Readable'
  <2>1. /\ rows' = rows /\ call' = call
        /\ \/ object' = object
           \/ /\ object' = [object EXCEPT ![s] = Plain] /\ status[s] # "completed"
              /\ \A c \in Calls : call[c].s # s
    BY Zenon, <1>3 DEF ClientPut, Expire
  <2> QED
    BY Zenon, <2>1, QuietReadable
<1>4. CASE SweepExpiredUploads
  <2>1. rows' = rows /\ call' = call /\ object' = object /\ \E s \in Sessions : TRUE
    BY <1>4 DEF SweepExpiredUploads
  <2> QED
    BY Zenon, <2>1, QuietReadable
<1>5. ASSUME NEW c \in Calls, NEW s \in Sessions,
             ClaimExpired(c, s) \/ Claim(c, s) \/ AbortUpload(c, s)
      PROVE  Readable'
  <2>1. CASE ClaimExpired(c, s)
    <3>1. rows' = rows /\ call' = call /\ object' = object
      BY <2>1 DEF ClaimExpired
    <3> QED
      BY <3>1, QuietReadable
  <2> QED
    BY <1>5, <2>1, BeginReadable
<1>6. ASSUME NEW c \in Calls, Complete(c) \/ Crash(c) PROVE Readable'
  <2>1. CASE CallStep(c)
    BY <2>1, CallStepReadable
  <2>2. CASE PersistQuarantined(c) \/ Persist(c) \/ FailUpload(c)
    BY <2>2, OutcomeReadable, PersistReadable
  <2> QED
    BY <1>6, <2>1, <2>2 DEF Complete, CallStep
<1> QED
  BY Zenon, <1>1, <1>2, <1>3, <1>4, <1>5, <1>6 DEF Next

\* When a client does not retry before its previous call has returned or died,
\* every committed row can be read: its object is there, encrypted from the
\* uploaded plaintext with the data key the row stores. Without that
\* assumption the run uploads_retry is a counterexample.
THEOREM RowsStayReadable ==
  ASSUME ~RetryOverlap
  PROVE  Spec => []RowsReadable
<1>1. Init => Readable
  BY InitReadable
<1>2. Claims /\ Readable /\ [Next]_vars => Readable'
  BY NextReadable
<1>3. Readable => RowsReadable
  BY DEF Readable
<1> QED
  BY <1>1, <1>2, <1>3, ClaimsInvariant, PTL DEF Spec

-----------------------------------------------------------------------------
(* What CompleteUpload answered stays true *)

\* A session completes into the row of its own content.
Linked == \A s \in Sessions : status[s] = "completed" => blobOf[s] = content[s]

\* Only the final transaction completes a session or links it to a row.
LEMMA LinkSteps ==
  ASSUME Claims, [Next]_vars, NEW s \in Sessions, status'[s] = "completed"
  PROVE  \/ status[s] = "completed" /\ content'[s] = content[s] /\ blobOf'[s] = blobOf[s]
         \/ content'[s] = content[s] /\ blobOf'[s] = content[s]
<1>0. /\ status \in [Sessions -> {"none", "initiated", "scanning", "completed", "quarantined", "failed"}]
      /\ content \in [Sessions -> Contents \cup {None}]
      /\ blobOf \in [Sessions -> Contents \cup {None}]
  BY DEF Claims, TypeOK
<1> DEFINE Stays == status[s] = "completed" /\ content'[s] = content[s] /\ blobOf'[s] = blobOf[s]
<1>1. CASE UNCHANGED vars
  BY <1>1, Zenon DEF vars
<1>2. ASSUME NEW t \in Sessions, NEW h \in Contents, InitiateUpload(t, h) PROVE Stays
  <2>1. t # s
    BY <1>0, <1>2 DEF InitiateUpload
  <2> QED
    BY Zenon, <1>0, <1>2, <2>1 DEF InitiateUpload
<1>3. ASSUME NEW t \in Sessions, ClientPut(t) \/ Expire(t) PROVE Stays
  BY <1>3, Zenon DEF ClientPut, Expire
<1>4. CASE SweepExpiredUploads
  BY Zenon, <1>4 DEF SweepExpiredUploads
<1>5. ASSUME NEW c \in Calls, NEW t \in Sessions,
             ClaimExpired(c, t) \/ Claim(c, t) \/ AbortUpload(c, t)
      PROVE  Stays
  BY <1>0, <1>5 DEF ClaimExpired, Claim, AbortUpload
<1>6. ASSUME NEW c \in Calls, CallStep(c) PROVE Stays
  BY <1>6, CallStepMoves, Zenon DEF Moves
<1>7. ASSUME NEW c \in Calls, PersistQuarantined(c) \/ FailUpload(c) PROVE Stays
  BY Zenon, <1>0, <1>7 DEF PersistQuarantined, FailUpload, Failed
<1>8. ASSUME NEW c \in Calls, Persist(c)
      PROVE  Stays \/ (content'[s] = content[s] /\ blobOf'[s] = content[s])
  BY Zenon, <1>0, <1>8 DEF Persist
<1>9. ASSUME NEW c \in Calls, Complete(c) \/ Crash(c)
      PROVE  CallStep(c) \/ PersistQuarantined(c) \/ FailUpload(c) \/ Persist(c)
  BY <1>9, Zenon DEF Complete, CallStep
<1> QED
  BY <1>1, <1>2, <1>3, <1>4, <1>5, <1>6, <1>7, <1>8, <1>9, ZenonT(60) DEF Next

LEMMA LinkedInvariant == Spec => []Linked
<1>1. Init => Linked
  BY DEF Init, Linked
<1>2. Claims /\ Linked /\ [Next]_vars => Linked'
  BY LinkSteps, Zenon DEF Linked
<1> QED
  BY <1>1, <1>2, ClaimsInvariant, PTL DEF Spec

\* A counted row is there: some session completed into it.
LEMMA CountedRow ==
  ASSUME Claims, Linked, NEW s \in Sessions, status[s] = "completed"
  PROVE  content[s] \in Contents /\ rows[content[s]] # NoRow
<1> DEFINE h == content[s]
           S == {t \in Sessions : status[t] = "completed" /\ blobOf[t] = h}
<1>1. h \in Contents
  BY Zenon DEF Claims, StartedHasContent
<1>2. IsFiniteSet(S) /\ S # {}
  <2>1. s \in S
    BY DEF Linked
  <2>2. S \subseteq Sessions /\ IsFiniteSet(Sessions)
    BY Zenon, UploadsAssumption
  <2> QED
    BY Zenon, <2>1, <2>2, FS_Subset
<1>3. Cardinality(S) # 0
  BY <1>2, FS_EmptySet
<1>4. rows[h].refs = Cardinality(S)
  BY <1>1 DEF Claims, RefsCountUploads
<1>5. NoRow.refs = 0
  BY ONLY DEF NoRow
<1> QED
  BY Zenon, <1>1, <1>3, <1>4, <1>5

\* CompletedServed: once CompleteUpload has answered, the content has a row
\* that can be read, and keeps it, whatever other sessions, retries, sweeps
\* and deletes do, if clients wait for their previous call.
THEOREM CompletedStaysServed ==
  ASSUME ~RetryOverlap
  PROVE  Spec => []CompletedServed
<1>1. Claims /\ Linked /\ RowsReadable => CompletedServed
  BY CountedRow DEF CompletedServed, RowsReadable
<1> QED
  BY <1>1, ClaimsInvariant, LinkedInvariant, RowsStayReadable, PTL
=============================================================================
