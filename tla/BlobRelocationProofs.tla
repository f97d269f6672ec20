------------------------ MODULE BlobRelocationProofs ------------------------
(***************************************************************************)
(* Proofs about BlobRelocation, for any requests, regions and bounds. The   *)
(* WORM and KEK properties hold whatever commits report; that the row stays *)
(* readable, and is to readers one pointer (BlobPointer), is proved for     *)
(* commits that report what they did.                                       *)
(***************************************************************************)
EXTENDS BlobRelocation, TLAPS

(* A migration starts from a blob outside the WORM bucket. *)
MigratesHot ==
  \A c \in Calls : At(c) \in {"get", "put", "migrate", "dropOld", "dropNew"}
    => Snap(c).tier = "hot"

(* A WORM lock flips the row only to a retained location. *)
LockReady == \A c \in Calls : At(c) = "lock" => WormLoc(c) \in retained

(* Generations in use were drawn, and a migration's is newer than its blob. *)
Drawing(c) == At(c) \in {"put", "migrate", "dropNew"}

GensDrawn ==
  /\ row.key <= drawn
  /\ \A c \in Calls : Snap(c).key <= drawn /\ call[c].gen <= drawn

GensAhead == \A c \in Calls : Drawing(c) => call[c].gen > Snap(c).key

(* A re-wrap goes from a base KEK to a later one. *)
WrapsForward ==
  /\ row.ver <= live
  /\ \A c \in Calls :
       /\ Snap(c).ver <= live
       /\ At(c) = "unwrap" => Snap(c).ver # 0
       /\ At(c) = "envelope" => Snap(c).ver # 0 /\ call[c].ver > Snap(c).ver
                                /\ call[c].ver <= live

LockInv == MigratesHot /\ LockReady /\ GensDrawn /\ GensAhead /\ WrapsForward

-----------------------------------------------------------------------------
(* What a step does to the requests *)

LEMMA MoveFacts ==
  ASSUME TypeOK, NEW c \in Calls, NEW stage \in Stages, Move(c, stage)
  PROVE  /\ call' \in [Calls -> CallStates]
         /\ \A d \in Calls : /\ call'[d].at = IF d = c THEN stage ELSE call[d].at
                             /\ call'[d].snap = call[d].snap
                             /\ call'[d].to = call[d].to
                             /\ call'[d].tier = call[d].tier
                             /\ call'[d].gen = call[d].gen
                             /\ call'[d].ver = call[d].ver
  BY DEF TypeOK, Move, CallStates

LEMMA IdleTyped == Idle \in CallStates /\ Uploaded \in Rows
  BY RelocationAssumption DEF Idle, Uploaded, CallStates, Rows, Stages, Tiers

LEMMA DoneFacts ==
  ASSUME TypeOK, NEW c \in Calls, Done(c)
  PROVE  /\ call' \in [Calls -> CallStates]
         /\ \A d \in Calls : call'[d] = IF d = c THEN Idle ELSE call[d]
  BY IdleTyped DEF TypeOK, Done

LEMMA EnterFacts ==
  ASSUME TypeOK, NEW c \in Calls, NEW r \in CallStates, Enter(c, r)
  PROVE  /\ call' \in [Calls -> CallStates]
         /\ \A d \in Calls : call'[d] = IF d = c THEN r ELSE call[d]
  BY DEF TypeOK, Enter

(* What a request is when it has read the row, or worked on it. *)
LEMMA ReadFacts ==
  ASSUME TypeOK, NEW stage \in Stages, NEW r \in Regions, NEW t \in Tiers
  PROVE  /\ Read(stage, r, t) \in CallStates
         /\ Read(stage, r, t).at = stage /\ Read(stage, r, t).snap = row
         /\ Read(stage, r, t).gen = 0
  BY RelocationAssumption DEF TypeOK, Read, CallStates

LEMMA StartFacts ==
  ASSUME TypeOK, NEW c \in Calls,
         \/ ApplyWORM(c) \/ RewrapDEK(c)
         \/ \E r \in Regions, t \in Tiers : ReencryptBlob(c, r, t)
  PROVE  /\ call' \in [Calls -> CallStates]
         /\ \A d \in Calls : d # c => call'[d] = call[d]
         /\ call'[c].snap = row /\ call'[c].gen = 0
         /\ \/ call'[c].at = "get" /\ row.tier # "worm"
            \/ call'[c].at \in {"copy", "extend"}
            \/ call'[c].at = "unwrap" /\ row.ver # 0
         /\ UNCHANGED <<row, object, retained, live, drawn>>
<1>0. row.region \in Regions /\ row.tier \in Tiers /\ "worm" \in Tiers
  BY DEF TypeOK, Rows, Tiers
<1> DEFINE Known(stage) ==
      \E r \in Regions, t \in Tiers : Enter(c, Read(stage, r, t))
<1>1. ASSUME NEW stage \in Stages, Known(stage)
      PROVE  /\ call' \in [Calls -> CallStates]
             /\ \A d \in Calls : d # c => call'[d] = call[d]
             /\ call'[c].snap = row /\ call'[c].gen = 0 /\ call'[c].at = stage
  <2>1. PICK r \in Regions, t \in Tiers : Enter(c, Read(stage, r, t))
    BY <1>1
  <2> QED
    BY <2>1, ReadFacts, EnterFacts
<1>2. {"get", "copy", "extend", "unwrap"} \subseteq Stages
  BY DEF Stages
<1>3. CASE ApplyWORM(c)
  <2>1. Known("extend") \/ Known("copy")
    BY Zenon, <1>0, <1>3 DEF ApplyWORM
  <2>2. UNCHANGED <<row, object, retained, live, drawn>>
    BY <1>3 DEF ApplyWORM
  <2> HIDE DEF Known
  <2> QED
    BY <1>1, <1>2, <2>1, <2>2
<1>4. CASE RewrapDEK(c)
  <2>1. Known("unwrap") /\ row.ver # 0
    BY Zenon, <1>0, <1>4 DEF RewrapDEK
  <2>2. UNCHANGED <<row, object, retained, live, drawn>>
    BY <1>4 DEF RewrapDEK
  <2> HIDE DEF Known
  <2> QED
    BY <1>1, <1>2, <2>1, <2>2
<1>5. CASE \E r \in Regions, t \in Tiers : ReencryptBlob(c, r, t)
  <2>1. Known("get") /\ row.tier # "worm"
    BY Zenon, <1>5 DEF ReencryptBlob
  <2>2. UNCHANGED <<row, object, retained, live, drawn>>
    BY <1>5 DEF ReencryptBlob
  <2> HIDE DEF Known
  <2> QED
    BY <1>1, <1>2, <2>1, <2>2
<1> QED
  BY <1>3, <1>4, <1>5

LEMMA WorkFacts ==
  ASSUME TypeOK, NEW c \in Calls, GetObject(c) \/ EncryptDataKey(c)
  PROVE  /\ call' \in [Calls -> CallStates]
         /\ \A d \in Calls : d # c => call'[d] = call[d]
         /\ call'[c].snap = call[c].snap
         /\ GetObject(c) => call'[c].at = "put" /\ call'[c].gen = drawn + 1
         /\ EncryptDataKey(c) => /\ call'[c].at = "envelope" /\ call'[c].ver = live
                                 /\ call'[c].gen = call[c].gen
<1>0. call[c] \in CallStates /\ live \in 0..MaxVersion
  BY RelocationAssumption DEF TypeOK
<1>1. CASE GetObject(c)
  <2>1. drawn + 1 \in 0..MaxGeneration /\ At(c) # "unwrap"
    BY <1>1, RelocationAssumption DEF GetObject, TypeOK
  <2> DEFINE r == [call[c] EXCEPT !.at = "put", !.gen = drawn + 1]
  <2>2. /\ r \in CallStates /\ r.at = "put" /\ r.gen = drawn + 1
        /\ r.snap = call[c].snap
    BY <1>0, <2>1 DEF CallStates, Stages
  <2>3. Enter(c, r)
    BY <1>1 DEF GetObject
  <2>4. ~EncryptDataKey(c)
    BY <2>1 DEF EncryptDataKey
  <2> HIDE DEF r
  <2> QED
    BY <2>2, <2>3, <2>4, EnterFacts
<1>2. CASE EncryptDataKey(c)
  <2> DEFINE r == [call[c] EXCEPT !.at = "envelope", !.ver = live]
  <2>2. /\ r \in CallStates /\ r.at = "envelope" /\ r.ver = live
        /\ r.snap = call[c].snap /\ r.gen = call[c].gen
    BY <1>0 DEF CallStates, Stages
  <2>3. Enter(c, r)
    BY <1>2 DEF EncryptDataKey
  <2>4. ~GetObject(c)
    BY <1>2 DEF EncryptDataKey, GetObject
  <2> HIDE DEF r
  <2> QED
    BY <2>2, <2>3, <2>4, EnterFacts
<1> QED
  BY <1>1, <1>2

-----------------------------------------------------------------------------
(* Types *)

LEMMA InitTypes == Init => TypeOK
  BY IdleTyped, RelocationAssumption
     DEF Init, TypeOK, Uploaded, LocOf, Locations, Tiers

LEMMA StepTypes == TypeOK /\ [Next]_vars => TypeOK'
<1> SUFFICES ASSUME TypeOK, [Next]_vars PROVE TypeOK'
  OBVIOUS
<1> USE RelocationAssumption
<1>1. CASE RotateKEK
  BY <1>1 DEF RotateKEK, TypeOK
<1>2. ASSUME NEW c \in Calls, Crash(c) PROVE TypeOK'
  BY <1>2, DoneFacts DEF Crash, TypeOK
<1>3. ASSUME NEW c \in Calls,
             \/ ApplyWORM(c) \/ RewrapDEK(c)
             \/ \E r \in Regions, t \in Tiers : ReencryptBlob(c, r, t)
      PROVE  TypeOK'
  BY <1>3, StartFacts DEF TypeOK
<1>6. ASSUME NEW c \in Calls, GetObject(c) \/ EncryptDataKey(c) PROVE TypeOK'
  <2>1. call' \in [Calls -> CallStates]
    BY <1>6, WorkFacts
  <2>2. drawn' \in 0..MaxGeneration /\ UNCHANGED <<row, object, retained, live>>
    BY <1>6 DEF GetObject, EncryptDataKey, TypeOK
  <2> QED
    BY <2>1, <2>2 DEF TypeOK
<1>8. ASSUME NEW c \in Calls, PutObject(c) PROVE TypeOK'
  <2>1. NewLoc(c) \in Locations
    BY DEF TypeOK, CallStates, NewLoc, Locations, Tiers
  <2>2. call' \in [Calls -> CallStates]
    BY <1>8, MoveFacts DEF PutObject, Stages
  <2> QED
    BY <1>8, <2>1, <2>2 DEF PutObject, TypeOK
<1>9. ASSUME NEW c \in Calls, UpdateMigration(c) PROVE TypeOK'
  <2>1. call' \in [Calls -> CallStates]
    BY <1>9, MoveFacts DEF UpdateMigration, Stages
  <2>2. row' \in Rows
    BY <1>9 DEF UpdateMigration, TypeOK, CallStates, Rows, Tiers
  <2> QED
    BY Zenon, <1>9, <2>1, <2>2 DEF UpdateMigration, TypeOK
<1>10. ASSUME NEW c \in Calls, DeleteNewObject(c) \/ DeleteOldObject(c) PROVE TypeOK'
  <2>1. call' \in [Calls -> CallStates]
    BY <1>10, DoneFacts DEF DeleteNewObject, DeleteOldObject
  <2>2. object' \subseteq object /\ retained' = retained
    BY <1>10 DEF DeleteNewObject, DeleteOldObject, TypeOK
  <2> QED
    BY <1>10, <2>1, <2>2 DEF DeleteNewObject, DeleteOldObject, TypeOK
<1>11. ASSUME NEW c \in Calls, CopyObject(c) PROVE TypeOK'
  <2>1. WormLoc(c) \in Locations
    BY DEF TypeOK, CallStates, WormLoc, Snap, Locations, Tiers, Rows
  <2>2. call' \in [Calls -> CallStates]
    BY <1>11, MoveFacts DEF CopyObject, Stages
  <2> QED
    BY <1>11, <2>1, <2>2 DEF CopyObject, TypeOK
<1>12. ASSUME NEW c \in Calls, SetObjectRetention(c) \/ ExtendRetention(c) PROVE TypeOK'
  <2>1. WormLoc(c) \in Locations
    BY DEF TypeOK, CallStates, WormLoc, Snap, Locations, Tiers, Rows
  <2>2. call' \in [Calls -> CallStates]
    BY <1>12, MoveFacts, DoneFacts DEF SetObjectRetention, ExtendRetention, Stages
  <2> QED
    BY <1>12, <2>1, <2>2 DEF SetObjectRetention, ExtendRetention, TypeOK
<1>13. ASSUME NEW c \in Calls, LockPointer(c) PROVE TypeOK'
  <2>1. row' \in Rows
    BY <1>13 DEF LockPointer, TypeOK, Rows, Tiers
  <2> QED
    BY <1>13, <2>1, DoneFacts DEF LockPointer, TypeOK
<1>14. ASSUME NEW c \in Calls, UpdateEnvelope(c) PROVE TypeOK'
  <2>1. row' \in Rows
    BY Zenon, <1>14 DEF UpdateEnvelope, TypeOK, Rows, CallStates, Snap
  <2> QED
    BY <1>14, <2>1, DoneFacts DEF UpdateEnvelope, TypeOK
<1>15. CASE UNCHANGED vars
  BY <1>15 DEF vars, TypeOK
<1> QED
  BY <1>1, <1>2, <1>3, <1>6, <1>8, <1>9, <1>10, <1>11, <1>12, <1>13, <1>14, <1>15
     DEF Next

-----------------------------------------------------------------------------
(* Writes of the row, and requests *)

(* The three writes of the row. *)
Migrates(c) ==
  /\ At(c) = "migrate" /\ row = Snap(c) /\ UpdateMigration(c)
  /\ row' = [tier |-> call[c].tier, region |-> call[c].to, key |-> call[c].gen,
             dek |-> call[c].gen, ver |-> 0]
Locks(c)    == /\ At(c) = "lock" /\ row = Snap(c) /\ UNCHANGED <<object, retained>>
               /\ row' = [row EXCEPT !.tier = "worm"]
Rewraps(c)  == /\ At(c) = "envelope" /\ row.dek = Snap(c).dek /\ row.ver = Snap(c).ver
               /\ row' = [row EXCEPT !.dek = Snap(c).dek, !.ver = call[c].ver]
               /\ UNCHANGED <<object, retained>>

LEMMA RowSteps ==
  [Next]_vars =>
    row' = row \/ \E c \in Calls : Migrates(c) \/ Locks(c) \/ Rewraps(c)
<1> SUFFICES ASSUME [Next]_vars
             PROVE  row' = row \/ \E c \in Calls : Migrates(c) \/ Locks(c) \/ Rewraps(c)
  OBVIOUS
<1>1. ASSUME NEW c \in Calls, Crash(c) \/ ApplyWORM(c) \/ RewrapDEK(c) \/ GetObject(c)
             \/ PutObject(c) \/ CopyObject(c) \/ SetObjectRetention(c)
             \/ EncryptDataKey(c) \/ DeleteNewObject(c) \/ DeleteOldObject(c)
             \/ ExtendRetention(c)
             \/ \E r \in Regions, t \in Tiers : ReencryptBlob(c, r, t)
      PROVE  row' = row
  BY <1>1 DEF Crash, ApplyWORM, RewrapDEK, GetObject, PutObject, CopyObject,
     SetObjectRetention, EncryptDataKey, DeleteNewObject, DeleteOldObject,
     ExtendRetention, ReencryptBlob
<1>2. ASSUME NEW c \in Calls, UpdateMigration(c) PROVE row' = row \/ Migrates(c)
  BY <1>2 DEF UpdateMigration, Migrates, Unmoved
<1>3. ASSUME NEW c \in Calls, LockPointer(c) PROVE row' = row \/ Locks(c)
  BY <1>3 DEF LockPointer, Locks, Unmoved
<1>4. ASSUME NEW c \in Calls, UpdateEnvelope(c) PROVE row' = row \/ Rewraps(c)
  BY <1>4 DEF UpdateEnvelope, Rewraps, SameEnvelope
<1>5. CASE RotateKEK \/ UNCHANGED vars
  BY <1>5 DEF RotateKEK, vars
<1> QED
  BY <1>1, <1>2, <1>3, <1>4, <1>5 DEF Next

(* What a step does to one request. *)
Starts(d) ==
  /\ call'[d].snap = row /\ call'[d].gen = 0
  /\ \/ call'[d].at = "get" /\ row.tier # "worm"
     \/ call'[d].at \in {"copy", "extend"}
     \/ call'[d].at = "unwrap" /\ row.ver # 0

Works(d) ==
  /\ call'[d].snap = call[d].snap
  /\ \/ GetObject(d) /\ call'[d].at = "put" /\ call'[d].gen = drawn + 1
     \/ /\ EncryptDataKey(d) /\ call'[d].at = "envelope" /\ call'[d].ver = live
        /\ call'[d].gen = call[d].gen

Moves(d) ==
  /\ call'[d].snap = call[d].snap /\ call'[d].gen = call[d].gen
  /\ call'[d].to = call[d].to /\ call'[d].tier = call[d].tier
  /\ \/ PutObject(d) /\ call'[d].at = "migrate"
     \/ UpdateMigration(d) /\ call'[d].at \in {"dropOld", "dropNew"}
     \/ CopyObject(d) /\ call'[d].at = "retain"
     \/ SetObjectRetention(d) /\ call'[d].at = "lock"

LEMMA CallSteps ==
  ASSUME TypeOK, [Next]_vars, NEW d \in Calls
  PROVE  \/ call'[d] = call[d] \/ call'[d] = Idle
         \/ Starts(d) \/ Works(d) \/ Moves(d)
<1>1. ASSUME NEW c \in Calls, Crash(c) \/ DeleteNewObject(c) \/ DeleteOldObject(c)
             \/ LockPointer(c) \/ UpdateEnvelope(c) \/ ExtendRetention(c)
      PROVE  call'[d] = Idle \/ call'[d] = call[d]
  <2>1. Done(c)
    BY Zenon, <1>1 DEF Crash, DeleteNewObject, DeleteOldObject, LockPointer,
       UpdateEnvelope, ExtendRetention
  <2> QED
    BY <2>1, DoneFacts
<1>2. ASSUME NEW c \in Calls, PutObject(c) \/ UpdateMigration(c) \/ CopyObject(c)
             \/ SetObjectRetention(c), d # c
      PROVE  call'[d] = call[d]
  BY ZenonT(60), <1>2 DEF PutObject, UpdateMigration, CopyObject, SetObjectRetention, Move, TypeOK
<1>3. ASSUME PutObject(d) \/ UpdateMigration(d) \/ CopyObject(d) \/ SetObjectRetention(d)
      PROVE  Moves(d)
  <2>1. /\ call'[d].snap = call[d].snap /\ call'[d].gen = call[d].gen
        /\ call'[d].to = call[d].to /\ call'[d].tier = call[d].tier
    BY <1>3, MoveFacts DEF PutObject, UpdateMigration, CopyObject, SetObjectRetention, Stages
  <2>2. PutObject(d) => call'[d].at = "migrate"
    BY MoveFacts DEF PutObject, Stages
  <2>3. UpdateMigration(d) => call'[d].at \in {"dropOld", "dropNew"}
    BY MoveFacts DEF UpdateMigration, Stages
  <2>4. CopyObject(d) => call'[d].at = "retain"
    BY MoveFacts DEF CopyObject, Stages
  <2>5. SetObjectRetention(d) => call'[d].at = "lock"
    BY MoveFacts DEF SetObjectRetention, Stages
  <2> QED
    BY Zenon, <1>3, <2>1, <2>2, <2>3, <2>4, <2>5 DEF Moves
<1>4. ASSUME NEW c \in Calls,
             \/ ApplyWORM(c) \/ RewrapDEK(c)
             \/ \E r \in Regions, t \in Tiers : ReencryptBlob(c, r, t)
      PROVE  call'[d] = call[d] \/ Starts(d)
  BY <1>4, StartFacts DEF Starts
<1>5. ASSUME NEW c \in Calls, GetObject(c) \/ EncryptDataKey(c)
      PROVE  call'[d] = call[d] \/ Works(d)
  BY <1>5, WorkFacts DEF Works
<1>6. RotateKEK \/ UNCHANGED vars => call'[d] = call[d]
  BY DEF RotateKEK, vars
<1> QED
  BY Zenon, <1>1, <1>2, <1>3, <1>4, <1>5, <1>6 DEF Next

LEMMA DrawnSteps ==
  ASSUME TypeOK, [Next]_vars
  PROVE  /\ drawn' \in Nat /\ drawn \in Nat /\ drawn' >= drawn
         /\ \A d \in Calls : GetObject(d) => drawn' = drawn + 1
<1>1. drawn' = drawn \/ \E d \in Calls : GetObject(d)
  BY Zenon DEF Next, vars, Crash, ApplyWORM, RewrapDEK, PutObject, UpdateMigration,
     CopyObject, SetObjectRetention, LockPointer, EncryptDataKey, UpdateEnvelope,
     DeleteNewObject, DeleteOldObject, ReencryptBlob, ExtendRetention, RotateKEK
<1>2. ASSUME NEW d \in Calls, GetObject(d) PROVE drawn' = drawn + 1
  BY <1>2 DEF GetObject
<1>3. drawn \in Nat
  BY RelocationAssumption DEF TypeOK
<1> QED
  BY <1>1, <1>2, <1>3

(* Numbers the arithmetic below is about. *)
LEMMA Numbers ==
  ASSUME TypeOK
  PROVE  /\ row.key \in Nat /\ drawn \in Nat
         /\ \A c \in Calls : Snap(c).key \in Nat /\ call[c].gen \in Nat
  BY RelocationAssumption DEF TypeOK, Rows, CallStates, Snap

LEMMA KeySteps ==
  ASSUME TypeOK, [Next]_vars
  PROVE  row'.key = row.key \/ \E c \in Calls : Migrates(c) /\ row'.key = call[c].gen
<1>1. ASSUME NEW c \in Calls, Locks(c) \/ Rewraps(c) PROVE row'.key = row.key
  BY Zenon, <1>1 DEF Locks, Rewraps, TypeOK, Rows
<1>2. ASSUME NEW c \in Calls, Migrates(c) PROVE row'.key = call[c].gen
  BY <1>2 DEF Migrates
<1> QED
  BY <1>1, <1>2, RowSteps

LEMMA StepDrawn == TypeOK /\ GensDrawn /\ [Next]_vars => GensDrawn'
<1> SUFFICES ASSUME TypeOK, GensDrawn, [Next]_vars PROVE GensDrawn'
  OBVIOUS
<1> USE DrawnSteps, Numbers DEF GensDrawn, Snap
<1>1. row'.key <= drawn'
  BY KeySteps
<1>2. ASSUME NEW d \in Calls PROVE call'[d].snap.key <= drawn' /\ call'[d].gen <= drawn'
  <2>1. Idle.snap.key = 0 /\ Idle.gen = 0
    BY Zenon DEF Idle, Uploaded
  <2> QED
    BY <2>1, CallSteps DEF Starts, Works, Moves
<1> QED
  BY <1>1, <1>2

(* A request that owns a generation had it before, or has just drawn it. *)
LEMMA DrawingSteps ==
  ASSUME TypeOK, [Next]_vars, NEW d \in Calls, Drawing(d)'
  PROVE  \/ /\ Drawing(d) /\ call'[d].gen = call[d].gen
            /\ call'[d].snap = call[d].snap
         \/ /\ GetObject(d) /\ call'[d].gen = drawn + 1
            /\ call'[d].snap = call[d].snap
<1>1. Idle.at = "idle"
  BY DEF Idle
<1>2. PutObject(d) \/ UpdateMigration(d) => Drawing(d)
  BY Zenon DEF PutObject, UpdateMigration, Drawing
<1> QED
  BY <1>1, <1>2, CallSteps DEF Drawing, At, Starts, Works, Moves

LEMMA StepAhead == TypeOK /\ GensDrawn /\ GensAhead /\ [Next]_vars => GensAhead'
  BY DrawingSteps, Numbers DEF GensDrawn, GensAhead, Snap

-----------------------------------------------------------------------------
(* WORM locks and key versions *)

LEMMA InitLocks == Init => LockInv
  BY RelocationAssumption DEF Init, LockInv, MigratesHot, LockReady, WrapsForward,
     GensDrawn, GensAhead, Drawing, Idle, Uploaded, At, Snap

LEMMA StepHot == TypeOK /\ MigratesHot /\ [Next]_vars => MigratesHot'
<1> SUFFICES ASSUME TypeOK, MigratesHot, [Next]_vars, NEW d \in Calls,
                    call'[d].at \in {"get", "put", "migrate", "dropOld", "dropNew"}
             PROVE  call'[d].snap.tier = "hot"
  BY DEF MigratesHot, At, Snap
<1>1. Idle.at = "idle"
  BY DEF Idle
<1>2. row.tier \in {"hot", "worm"}
  BY DEF TypeOK, Rows, Tiers
<1>3. GetObject(d) \/ PutObject(d) \/ UpdateMigration(d) => call[d].snap.tier = "hot"
  BY Zenon DEF GetObject, PutObject, UpdateMigration, MigratesHot, At, Snap
<1>4. call'[d] = call[d] => call'[d].snap.tier = "hot"
  BY Zenon DEF MigratesHot, At, Snap
<1> QED
  BY <1>1, <1>2, <1>3, <1>4, CallSteps DEF Starts, Works, Moves

LEMMA RetainedStay == [Next]_vars => retained \subseteq retained'
<1> SUFFICES ASSUME [Next]_vars PROVE retained \subseteq retained'
  OBVIOUS
<1>1. ASSUME NEW c \in Calls, Crash(c) \/ ApplyWORM(c) \/ RewrapDEK(c) \/ GetObject(c)
             \/ PutObject(c) \/ UpdateMigration(c) \/ CopyObject(c)
             \/ SetObjectRetention(c) \/ LockPointer(c) \/ EncryptDataKey(c)
             \/ UpdateEnvelope(c) \/ DeleteNewObject(c) \/ DeleteOldObject(c)
             \/ ExtendRetention(c)
      PROVE  retained \subseteq retained'
  BY <1>1 DEF Crash, ApplyWORM, RewrapDEK, GetObject, PutObject, UpdateMigration,
     CopyObject, SetObjectRetention, LockPointer, EncryptDataKey, UpdateEnvelope,
     DeleteNewObject, DeleteOldObject, ExtendRetention
<1>2. ASSUME NEW c \in Calls, \E r \in Regions, t \in Tiers : ReencryptBlob(c, r, t)
      PROVE  retained \subseteq retained'
  BY <1>2 DEF ReencryptBlob
<1>3. CASE RotateKEK \/ UNCHANGED vars
  BY Zenon, <1>3 DEF RotateKEK, vars
<1> QED
  BY <1>1, <1>2, <1>3 DEF Next

(* Where a request comes from when it enters one of the two WORM stages. *)
LEMMA LockStages ==
  ASSUME TypeOK, [Next]_vars, NEW d \in Calls, At(d)' \in {"retain", "lock"}
  PROVE  /\ Snap(d)' = Snap(d) /\ WormLoc(d)' = WormLoc(d)
         /\ \/ At(d)' = At(d)
            \/ At(d)' = "retain" /\ CopyObject(d)
            \/ At(d)' = "lock" /\ SetObjectRetention(d)
<1>1. Idle.at = "idle"
  BY DEF Idle
<1>2. /\ call'[d].snap = call[d].snap
      /\ \/ call'[d].at = call[d].at
         \/ call'[d].at = "retain" /\ CopyObject(d)
         \/ call'[d].at = "lock" /\ SetObjectRetention(d)
  BY <1>1, CallSteps DEF Starts, Works, Moves, At
<1> QED
  BY <1>2 DEF At, Snap, WormLoc

LEMMA StepReady == TypeOK /\ LockReady /\ [Next]_vars => LockReady'
<1> SUFFICES ASSUME TypeOK, LockReady, [Next]_vars, NEW d \in Calls, At(d)' = "lock"
             PROVE  WormLoc(d)' \in retained'
  BY DEF LockReady
<1>1. WormLoc(d)' = WormLoc(d)
  BY LockStages
<1>2. CASE At(d) = "lock"
  BY <1>1, <1>2, RetainedStay DEF LockReady
<1>3. CASE SetObjectRetention(d)
  BY <1>1, <1>3 DEF SetObjectRetention
<1> QED
  BY <1>2, <1>3, LockStages

LEMMA StepRetained ==
  TypeOK /\ LockInv /\ [Next]_vars =>
    /\ row.tier = "worm" => LocOf(row') = LocOf(row)
    /\ row.tier = "hot" /\ row' = [row EXCEPT !.tier = "worm"] => LocOf(row') \in retained
<1> SUFFICES ASSUME TypeOK, LockInv, [Next]_vars
             PROVE  /\ row.tier = "worm" => LocOf(row') = LocOf(row)
                    /\ row.tier = "hot" /\ row' = [row EXCEPT !.tier = "worm"]
                         => LocOf(row') \in retained
  OBVIOUS
<1> USE DEF LockInv, LocOf
<1>0. [row EXCEPT !.tier = "worm"].key = row.key /\ [row EXCEPT !.tier = "worm"].ver = row.ver
      /\ [row EXCEPT !.tier = "worm"].tier = "worm"
  BY DEF TypeOK, Rows
<1>1. CASE row' = row
  BY <1>0, <1>1
<1>2. ASSUME NEW c \in Calls, Migrates(c)
      PROVE  row.tier = "hot" /\ row' # [row EXCEPT !.tier = "worm"]
  <2>1. /\ row.tier = "hot" /\ row.key = Snap(c).key /\ row'.key = call[c].gen
        /\ call[c].gen > Snap(c).key
    BY <1>2 DEF Migrates, MigratesHot, GensAhead, Drawing
  <2>2. row'.key # row.key
    BY <2>1, Numbers
  <2> QED
    BY Zenon, <1>0, <2>1, <2>2
<1>3. ASSUME NEW c \in Calls, Locks(c)
      PROVE  /\ LocOf(row') \in retained
             /\ row.tier = "worm" => LocOf(row') = LocOf(row)
  <2>1. LocOf(row') = WormLoc(c)
    BY <1>3 DEF Locks, WormLoc, TypeOK, Rows
  <2>2. WormLoc(c) \in retained
    BY <1>3 DEF Locks, LockReady
  <2>3. row.tier = "worm" => LocOf(row') = LocOf(row)
    BY <1>3, <2>1 DEF Locks, WormLoc
  <2> QED
    BY <2>1, <2>2, <2>3
<1>4. ASSUME NEW c \in Calls, Rewraps(c)
      PROVE  LocOf(row') = LocOf(row) /\ row'.tier = row.tier
  BY <1>4 DEF Rewraps, TypeOK, Rows
<1> QED
  BY <1>0, <1>1, <1>2, <1>3, <1>4, RowSteps

LEMMA StepWraps ==
  TypeOK /\ LockInv /\ [Next]_vars =>
    /\ WrapsForward'
    /\ row'.ver # row.ver => row'.ver = 0 \/ (row.ver # 0 /\ row'.ver > row.ver)
<1> SUFFICES ASSUME TypeOK, LockInv, [Next]_vars
             PROVE  /\ WrapsForward'
                    /\ row'.ver # row.ver =>
                         row'.ver = 0 \/ (row.ver # 0 /\ row'.ver > row.ver)
  OBVIOUS
<1> USE RelocationAssumption DEF LockInv
<1>1. live' >= live /\ live' \in Nat /\ live \in Nat /\ row.ver \in Nat
  <2>1. CASE RotateKEK
    BY <2>1 DEF RotateKEK, TypeOK, Rows
  <2>2. CASE UNCHANGED live
    BY <2>2 DEF TypeOK, Rows
  <2>3. RotateKEK \/ UNCHANGED live
    BY ZenonT(30) DEF Next, vars, Crash, ApplyWORM, RewrapDEK, GetObject, PutObject, UpdateMigration,
       CopyObject, SetObjectRetention, LockPointer, EncryptDataKey, UpdateEnvelope,
       DeleteNewObject, DeleteOldObject, ReencryptBlob, ExtendRetention
  <2> QED
    BY <2>1, <2>2, <2>3
<1>2. /\ row'.ver <= live'
      /\ row'.ver # row.ver => row'.ver = 0 \/ (row.ver # 0 /\ row'.ver > row.ver)
  <2>1. CASE row' = row
    BY <1>1, <2>1 DEF WrapsForward
  <2>2. ASSUME NEW c \in Calls, Migrates(c) PROVE row'.ver = 0
    BY <2>2 DEF Migrates
  <2>3. ASSUME NEW c \in Calls, Locks(c) PROVE row'.ver = row.ver
    BY <2>3 DEF Locks, TypeOK, Rows
  <2>4. ASSUME NEW c \in Calls, Rewraps(c)
        PROVE  /\ row.ver = Snap(c).ver /\ row'.ver = call[c].ver
               /\ Snap(c).ver # 0 /\ call[c].ver > Snap(c).ver /\ call[c].ver <= live
               /\ call[c].ver \in Nat
    BY SMTT(30), <2>4 DEF Rewraps, TypeOK, Rows, CallStates, WrapsForward
  <2> QED
    BY <1>1, <2>1, <2>2, <2>3, <2>4, RowSteps DEF WrapsForward
<1>3. ASSUME NEW d \in Calls
      PROVE  /\ Snap(d).ver' <= live'
             /\ At(d)' = "unwrap" => Snap(d).ver' # 0
             /\ At(d)' = "envelope" => /\ Snap(d).ver' # 0 /\ call'[d].ver > Snap(d).ver'
                                       /\ call'[d].ver <= live'
  <2> USE DEF At, Snap
  <2>0. call[d].snap.ver \in Nat /\ call[d].ver \in Nat
    BY DEF TypeOK, CallStates, Rows
  <2>1. CASE call'[d] = call[d]
    BY <1>1, <2>0, <2>1 DEF WrapsForward
  <2>2. CASE call'[d] = Idle
    BY <1>1, <2>2 DEF Idle, Uploaded, TypeOK
  <2>3. CASE /\ call'[d].snap = call[d].snap
             /\ call'[d].at \notin {"unwrap", "envelope"}
    BY <1>1, <2>0, <2>3 DEF WrapsForward
  <2>4. CASE Starts(d)
    BY <1>1, <2>4 DEF Starts, WrapsForward
  <2>5. CASE /\ EncryptDataKey(d) /\ call'[d].snap = call[d].snap
             /\ call'[d].at = "envelope" /\ call'[d].ver = live
    <3>2. call[d].snap.ver # 0 /\ call[d].snap.ver # live /\ call[d].snap.ver <= live
          /\ live' = live
      BY <2>5 DEF EncryptDataKey, WrapsForward
    <3> QED
      BY <1>1, <2>0, <2>5, <3>2
  <2>6. Works(d) => \/ /\ call'[d].snap = call[d].snap
                       /\ call'[d].at \notin {"unwrap", "envelope"}
                    \/ /\ EncryptDataKey(d) /\ call'[d].snap = call[d].snap
                       /\ call'[d].at = "envelope" /\ call'[d].ver = live
    BY DEF Works
  <2>7. Moves(d) => /\ call'[d].snap = call[d].snap
                    /\ call'[d].at \notin {"unwrap", "envelope"}
    BY DEF Moves
  <2> QED
    BY Zenon, <2>1, <2>2, <2>3, <2>4, <2>5, <2>6, <2>7, CallSteps
<1> QED
  BY <1>2, <1>3 DEF WrapsForward

LEMMA LocksInvariant == Spec => [](TypeOK /\ LockInv)
<1>1. Init => TypeOK /\ LockInv
  BY InitTypes, InitLocks
<1>2. (TypeOK /\ LockInv) /\ [Next]_vars => (TypeOK /\ LockInv)'
  BY StepTypes, StepHot, StepReady, StepDrawn, StepAhead, StepWraps DEF LockInv
<1> QED
  BY <1>1, <1>2, PTL DEF Spec

(* TypeOK holds for any number of concurrent migrations, locks and re-wraps: *)
(* no re-wrap is under a KEK version that was never live.                   *)
THEOREM RelocationTyped == Spec => []TypeOK
  BY LocksInvariant, PTL

(* RetentionKept: ApplyWORM flips the row only to a copy under retention,    *)
(* and no migration, lock or re-wrap takes a retained row elsewhere.        *)
THEOREM WormIsRetained == Spec => RetentionKept
<1>1. TypeOK /\ LockInv /\ [Next]_vars
        => [/\ row.tier = "hot" /\ row' = [row EXCEPT !.tier = "worm"]
                 => LocOf(row') \in retained
            /\ row.tier = "worm" /\ LocOf(row) \in retained
                 => LocOf(row') \in retained']_vars
  BY StepRetained, RetainedStay
<1> QED
  BY <1>1, LocksInvariant, PTL DEF Spec, RetentionKept

(* WormStays: no migration, lock or re-wrap takes a row out of WORM.        *)
THEOREM WormForEver == Spec => WormStays
<1>1. TypeOK /\ LockInv /\ [Next]_vars
        => [row.tier = "worm" => LocOf(row') = LocOf(row)]_vars
  BY StepRetained
<1> QED
  BY <1>1, LocksInvariant, PTL DEF Spec, WormStays

(* KEKForward: a re-wrap that raced rotations never restores an older KEK.  *)
THEOREM KeysForward == Spec => KEKForward
<1>1. TypeOK /\ LockInv /\ [Next]_vars
        => [row'.ver # row.ver =>
              row'.ver = 0 \/ (row.ver # 0 /\ row'.ver > row.ver)]_vars
  BY Zenon, StepWraps
<1> QED
  BY <1>1, LocksInvariant, PTL DEF Spec, KEKForward

-----------------------------------------------------------------------------
(* Readability *)

(* The generation of a request that owns an object no row points at is       *)
(* nobody else's, and was never in the row.                                 *)
GensOwn ==
  \A c \in Calls : Drawing(c) =>
    /\ call[c].gen # row.key
    /\ \A d \in Calls : /\ Snap(d).key # call[c].gen
                        /\ Drawing(d) /\ d # c => call[d].gen # call[c].gen

StoredFirst == \A c \in Calls : At(c) = "migrate" => NewLoc(c) \in object
OldBehind   == \A c \in Calls : At(c) = "dropOld" => Snap(c).key < row.key

CopiesStay  == \A c \in Calls : At(c) \in {"retain", "lock"} => WormLoc(c) \in object

ReadInv == GensOwn /\ StoredFirst /\ OldBehind /\ CopiesStay /\ RowReadable

LEMMA InitReads == Init => ReadInv
  BY SMTT(30) DEF Init, ReadInv, GensOwn, StoredFirst, OldBehind, CopiesStay, RowReadable,
     Drawing, At, Snap, Idle, Uploaded

LEMMA StepOwn ==
  ASSUME ~AmbiguousCommit, TypeOK, LockInv, ReadInv, [Next]_vars PROVE GensOwn'
<1> SUFFICES ASSUME NEW c \in Calls, Drawing(c)'
             PROVE  /\ call'[c].gen # row'.key
                    /\ \A d \in Calls :
                         /\ call'[d].snap.key # call'[c].gen
                         /\ Drawing(d)' /\ d # c => call'[d].gen # call'[c].gen
  BY DEF GensOwn, Snap
<1> USE Numbers DEF LockInv, ReadInv, GensDrawn, GensOwn, Snap
<1>0. Idle.snap.key = 0
  BY Zenon DEF Idle, Uploaded
<1>1. ASSUME NEW e \in Calls, Migrates(e) PROVE e # c /\ Drawing(e)
  <2>1. call'[e].at = "dropOld"
    <3>1. row' # row
      BY <1>1 DEF Migrates, Drawing, At, TypeOK
    <3>2. Move(e, "dropOld")
      BY Zenon, <1>1, <3>1, ~AmbiguousCommit DEF Migrates, UpdateMigration
    <3> QED
      BY <3>2, MoveFacts DEF Stages
  <2> QED
    BY Zenon, <1>1, <2>1 DEF Migrates, Drawing, At
<1>2. ASSUME NEW d \in Calls
      PROVE  \/ call'[d].snap = call[d].snap
             \/ call'[d].snap.key = 0
             \/ call'[d].snap = row
  BY <1>0, CallSteps DEF Starts, Works, Moves
<1>3. CASE Drawing(c) /\ call'[c].gen = call[c].gen /\ call'[c].snap = call[c].snap
  <2>1. call'[c].gen # row'.key
    <3>1. CASE row'.key = row.key
      BY <1>3, <3>1
    <3>2. ASSUME NEW e \in Calls, Migrates(e), row'.key = call[e].gen
          PROVE  call'[c].gen # row'.key
      <4>1. e # c /\ Drawing(e)
        BY <1>1, <3>2
      <4>2. call[e].gen # call[c].gen
        BY Zenon, <1>3, <4>1
      <4> QED
        BY <1>3, <3>2, <4>2
    <3> QED
      BY <3>1, <3>2, KeySteps
  <2>2. ASSUME NEW d \in Calls PROVE call'[d].snap.key # call'[c].gen
    <3>1. call[c].gen > call[c].snap.key
      BY <1>3 DEF GensAhead
    <3>2. call[c].gen # 0 /\ call[d].snap.key # call[c].gen /\ row.key # call[c].gen
      BY <1>3, <3>1
    <3> QED
      BY <1>2, <1>3, <3>2
  <2>3. ASSUME NEW d \in Calls, Drawing(d)', d # c PROVE call'[d].gen # call'[c].gen
    BY <1>3, <2>3, DrawingSteps
  <2> QED
    BY Zenon, <1>3, <2>1, <2>2, <2>3
<1>4. CASE GetObject(c) /\ call'[c].gen = drawn + 1 /\ call'[c].snap = call[c].snap
  <2>1. row' = row
    BY <1>4 DEF GetObject
  <2>2. ASSUME NEW d \in Calls PROVE call'[d].snap.key # call'[c].gen
    BY <1>2, <1>4
  <2>3. ASSUME NEW d \in Calls, d # c PROVE call'[d].gen # call'[c].gen
    BY <1>4, <2>3, WorkFacts
  <2> QED
    BY <1>4, <2>1, <2>2, <2>3
<1> QED
  BY <1>3, <1>4, DrawingSteps

(* An object goes only to the request that wrote it and failed, or to the   *)
(* migration that moved away from it.                                       *)
LEMMA ObjectSteps ==
  ASSUME [Next]_vars, NEW l \in object, l \notin object'
  PROVE  \E c \in Calls : \/ At(c) = "dropNew" /\ l = NewLoc(c) /\ call' = [call EXCEPT ![c] = Idle]
                          \/ At(c) = "dropOld" /\ l = LocOf(Snap(c)) /\ call' = [call EXCEPT ![c] = Idle]
<1>1. ASSUME NEW c \in Calls, Crash(c) \/ ApplyWORM(c) \/ RewrapDEK(c) \/ GetObject(c)
             \/ PutObject(c) \/ UpdateMigration(c) \/ CopyObject(c)
             \/ SetObjectRetention(c) \/ LockPointer(c) \/ EncryptDataKey(c)
             \/ UpdateEnvelope(c) \/ ExtendRetention(c)
             \/ \E r \in Regions, t \in Tiers : ReencryptBlob(c, r, t)
      PROVE  object \subseteq object'
  BY <1>1 DEF Crash, ApplyWORM, RewrapDEK, GetObject, PutObject, UpdateMigration,
     CopyObject, SetObjectRetention, LockPointer, EncryptDataKey, UpdateEnvelope,
     ExtendRetention, ReencryptBlob
<1>2. RotateKEK \/ UNCHANGED vars => object \subseteq object'
  BY DEF RotateKEK, vars
<1>3. ASSUME NEW c \in Calls, DeleteNewObject(c)
      PROVE  At(c) = "dropNew" /\ l = NewLoc(c) /\ call' = [call EXCEPT ![c] = Idle]
  BY <1>3 DEF DeleteNewObject, Done
<1>4. ASSUME NEW c \in Calls, DeleteOldObject(c)
      PROVE  At(c) = "dropOld" /\ l = LocOf(Snap(c)) /\ call' = [call EXCEPT ![c] = Idle]
  BY <1>4 DEF DeleteOldObject, Done
<1> QED
  BY Zenon, <1>1, <1>2, <1>3, <1>4 DEF Next

LEMMA StepCopies ==
  ASSUME TypeOK, LockInv, ReadInv, [Next]_vars PROVE CopiesStay'
<1> SUFFICES ASSUME NEW d \in Calls, At(d)' \in {"retain", "lock"}
             PROVE  WormLoc(d)' \in object'
  BY DEF CopiesStay
<1>1. WormLoc(d)' = WormLoc(d)
  BY LockStages
<1>2. CASE CopyObject(d)
  BY <1>1, <1>2 DEF CopyObject
<1>3. CASE At(d) \in {"retain", "lock"}
  <2>1. WormLoc(d) \in object
    BY <1>3 DEF ReadInv, CopiesStay
  <2>2. SUFFICES ASSUME WormLoc(d) \notin object' PROVE FALSE
    BY <1>1
  <2>3. PICK c \in Calls : \/ At(c) = "dropNew" /\ WormLoc(d) = NewLoc(c)
                           \/ At(c) = "dropOld" /\ WormLoc(d) = LocOf(Snap(c))
    BY <2>1, <2>2, ObjectSteps
  <2>4. At(c) = "dropNew" => Snap(d).key # call[c].gen
    BY Zenon DEF ReadInv, GensOwn, Drawing
  <2>5. At(c) = "dropOld" => Snap(c).tier = "hot"
    BY Zenon DEF LockInv, MigratesHot
  <2> QED
    BY <2>3, <2>4, <2>5 DEF WormLoc, NewLoc, LocOf
<1>4. SetObjectRetention(d) => At(d) = "retain"
  BY DEF SetObjectRetention
<1> QED
  BY <1>2, <1>3, <1>4, LockStages

LEMMA StepReadable ==
  ASSUME TypeOK, TypeOK', LockInv, ReadInv, [Next]_vars PROVE RowReadable'
<1> USE Numbers DEF ReadInv, RowReadable
<1>1. LocOf(row) \in object'
  BY ObjectSteps DEF GensOwn, OldBehind, Drawing, LocOf, NewLoc
<1>2. CASE row' = row
  BY <1>1, <1>2
<1>3. ASSUME NEW c \in Calls, Migrates(c) PROVE RowReadable'
  <2>1. LocOf(row') = NewLoc(c) /\ row'.dek = row'.key
    BY Zenon, <1>3 DEF Migrates, LocOf, NewLoc
  <2>2. NewLoc(c) \in object /\ object' = object
    BY <1>3 DEF Migrates, StoredFirst, UpdateMigration
  <2> QED
    BY <2>1, <2>2
<1>4. ASSUME NEW c \in Calls, Locks(c) PROVE RowReadable'
  <2>1. LocOf(row') = WormLoc(c) /\ row'.dek = row'.key
    BY <1>4 DEF Locks, WormLoc, LocOf, TypeOK, Rows
  <2>2. WormLoc(c) \in object'
    BY <1>4 DEF Locks, CopiesStay
  <2> QED
    BY <2>1, <2>2
<1>5. ASSUME NEW c \in Calls, Rewraps(c) PROVE RowReadable'
  <2>1. LocOf(row') = LocOf(row) /\ row'.dek = row'.key
    BY Zenon, <1>5 DEF Rewraps, LocOf, TypeOK, Rows
  <2> QED
    BY <1>1, <2>1
<1> QED
  BY <1>2, <1>3, <1>4, <1>5, RowSteps

LEMMA StepStored ==
  ASSUME TypeOK, ReadInv, [Next]_vars PROVE StoredFirst'
<1> SUFFICES ASSUME NEW d \in Calls, At(d)' = "migrate" PROVE NewLoc(d)' \in object'
  BY DEF StoredFirst
<1> USE Numbers DEF ReadInv
<1>1. CASE call'[d] = call[d] /\ At(d) = "migrate"
  <2>1. NewLoc(d) \in object /\ NewLoc(d)' = NewLoc(d)
    BY <1>1 DEF StoredFirst, NewLoc
  <2>2. SUFFICES ASSUME NewLoc(d) \notin object' PROVE FALSE
    BY <2>1
  <2>3. PICK c \in Calls : \/ At(c) = "dropNew" /\ NewLoc(d) = NewLoc(c)
                           \/ At(c) = "dropOld" /\ NewLoc(d) = LocOf(Snap(c))
    BY <2>1, <2>2, ObjectSteps
  <2>4. c # d /\ Drawing(d)
    BY <1>1, <2>3 DEF Drawing
  <2> QED
    BY <2>3, <2>4 DEF GensOwn, Drawing, NewLoc, LocOf
<1>2. CASE /\ PutObject(d) /\ call'[d].to = call[d].to /\ call'[d].gen = call[d].gen
           /\ call'[d].tier = call[d].tier
  BY <1>2 DEF PutObject, NewLoc
<1>3. Idle.at # "migrate"
  BY Zenon DEF Idle
<1> QED
  BY <1>1, <1>2, <1>3, CallSteps DEF At, Starts, Works, Moves

LEMMA StepBehind ==
  ASSUME ~AmbiguousCommit, TypeOK, LockInv, ReadInv, [Next]_vars PROVE OldBehind'
<1> SUFFICES ASSUME NEW d \in Calls, At(d)' = "dropOld" PROVE call'[d].snap.key < row'.key
  BY DEF OldBehind, Snap
<1> USE Numbers DEF LockInv, ReadInv, Snap
<1>0. row'.key >= row.key /\ row'.key \in Nat
  <2>1. ASSUME NEW c \in Calls, Migrates(c) PROVE call[c].gen > row.key
    BY <2>1 DEF Migrates, GensAhead, Drawing
  <2> QED
    BY <2>1, KeySteps
<1>1. CASE call'[d] = call[d] /\ At(d) = "dropOld"
  BY <1>0, <1>1 DEF OldBehind
<1>2. CASE UpdateMigration(d) /\ call'[d].snap = call[d].snap
  <2>1. ~ Move(d, "dropNew")
    <3>1. Move(d, "dropNew") => call'[d].at = "dropNew"
      BY MoveFacts DEF Stages
    <3> QED
      BY Zenon, <3>1 DEF At
  <2>2. row = call[d].snap /\ row'.key = call[d].gen /\ At(d) = "migrate"
    BY <1>2, <2>1 DEF UpdateMigration, Unmoved
  <2> QED
    BY <1>2, <2>2 DEF GensAhead, Drawing
<1>3. Idle.at # "dropOld"
  BY DEF Idle
<1> QED
  BY <1>1, <1>2, <1>3, CallSteps DEF At, Starts, Works, Moves

LEMMA ReadsInvariant ==
  ASSUME ~AmbiguousCommit PROVE Spec => [](TypeOK /\ LockInv /\ ReadInv)
<1> DEFINE I == TypeOK /\ LockInv /\ ReadInv
<1>1. Init => I
  BY InitTypes, InitLocks, InitReads
<1>2. I /\ [Next]_vars => I'
  <2> SUFFICES ASSUME I, [Next]_vars PROVE I'
    OBVIOUS
  <2>1. TypeOK' /\ LockInv'
    BY StepTypes, StepHot, StepReady, StepDrawn, StepAhead, StepWraps DEF LockInv
  <2>2. ReadInv'
    BY <2>1, StepOwn, StepStored, StepBehind, StepCopies, StepReadable DEF ReadInv
  <2> QED
    BY <2>1, <2>2
<1> QED
  BY <1>1, <1>2, PTL DEF Spec

(* RowReadable: at every instant of every migration, lock and re-wrap the   *)
(* row's envelope opens the object it points at, if a commit that reports   *)
(* an error had no effect.                                                  *)
THEOREM RowStaysReadable == ASSUME ~AmbiguousCommit PROVE Spec => []RowReadable
<1>1. ReadInv => RowReadable
  BY DEF ReadInv
<1> QED
  BY <1>1, ReadsInvariant, PTL

-----------------------------------------------------------------------------
(* One pointer, for readers *)

LEMMA OpensRow == Pointer!Opens(row) <=> RowReadable
  BY Zenon DEF Pointer!Opens, Pointer!Points, RowReadable, LocOf

(* Each of the three writes of the row is a switch of the pointer: what the  *)
(* compare-and-set compares is what makes it one.                           *)
LEMMA MigrateSwitches ==
  ASSUME TypeOK, LockInv, NEW c \in Calls, Migrates(c)
  PROVE  Pointer!Migrate /\ UNCHANGED <<object, retained>>
<1>1. row = Snap(c) /\ Snap(c).tier = "hot" /\ call[c].gen > Snap(c).key
  BY Zenon DEF Migrates, LockInv, MigratesHot, GensAhead, Drawing
<1>2. row'.key = call[c].gen /\ row'.ver = 0 /\ UNCHANGED <<object, retained>>
  BY DEF Migrates, UpdateMigration
<1> QED
  BY Zenon, <1>1, <1>2 DEF Pointer!Migrate

LEMMA RewrapSwitches ==
  ASSUME TypeOK, LockInv, NEW c \in Calls, Rewraps(c)
  PROVE  Pointer!Rewrap /\ UNCHANGED <<object, retained>>
<1>1. /\ row.ver = Snap(c).ver /\ Snap(c).ver # 0 /\ call[c].ver > Snap(c).ver
      /\ UNCHANGED <<object, retained>>
  BY DEF Rewraps, LockInv, WrapsForward
<1>2. row' = [row EXCEPT !.ver = call[c].ver] /\ row'.ver = call[c].ver
  BY Zenon DEF Rewraps, TypeOK, Rows
<1> QED
  BY <1>1, <1>2 DEF Pointer!Rewrap

LEMMA LockSwitches ==
  ASSUME TypeOK, LockInv, NEW c \in Calls, Locks(c)
  PROVE  Pointer!Lock /\ UNCHANGED <<object, retained>>
<1>1. Pointer!Points(row') = WormLoc(c)
  BY DEF Locks, WormLoc, Pointer!Points, TypeOK, Rows
<1>2. WormLoc(c) \in retained
  BY Zenon DEF Locks, LockInv, LockReady
<1> QED
  BY Zenon, <1>1, <1>2 DEF Locks, Pointer!Lock

(* ImplementsPointer: migrations, locks and re-wraps under way at once, each *)
(* dying or failing anywhere, are to readers one row that switches between  *)
(* copies it opens, newer each time, if a commit that reports an error had  *)
(* no effect.                                                               *)
THEOREM PointerRefined == ASSUME ~AmbiguousCommit PROVE Spec => ImplementsPointer
<1>1. Init => Pointer!PInit
  <2>1. Init => RowReadable
    BY InitReads DEF ReadInv
  <2> QED
    BY <2>1, OpensRow DEF Pointer!PInit
<1>2. /\ TypeOK /\ LockInv /\ ReadInv /\ [Next]_vars
      /\ TypeOK' /\ LockInv' /\ ReadInv'
      => [Pointer!Copy \/ Pointer!Switch]_(Pointer!pvars)
  <2> SUFFICES ASSUME TypeOK, LockInv, ReadInv, [Next]_vars, TypeOK', ReadInv'
               PROVE  Pointer!Copy \/ Pointer!Switch
    OBVIOUS
  <2>1. RowReadable' /\ Pointer!Opens(row)'
    BY OpensRow, PTL DEF ReadInv
  <2>2. CASE row' = row
    <3>1. Pointer!Points(row) \in object'
      BY <2>1, <2>2 DEF RowReadable, LocOf, Pointer!Points
    <3> QED
      BY <2>2, <3>1, RetainedStay DEF Pointer!Copy
  <2>3. ASSUME NEW c \in Calls, Migrates(c)
        PROVE  Pointer!Migrate /\ UNCHANGED <<object, retained>>
    BY <2>3, MigrateSwitches
  <2>4. ASSUME NEW c \in Calls, Locks(c)
        PROVE  Pointer!Lock /\ UNCHANGED <<object, retained>>
    BY <2>4, LockSwitches
  <2>5. ASSUME NEW c \in Calls, Rewraps(c)
        PROVE  Pointer!Rewrap /\ UNCHANGED <<object, retained>>
    BY <2>5, RewrapSwitches
  <2>6. object' = object => Pointer!Opens(row')
    BY <2>1 DEF Pointer!Opens, Pointer!Points, RowReadable, LocOf
  <2> QED
    BY <2>2, <2>3, <2>4, <2>5, <2>6, RowSteps DEF Pointer!Switch
<1> QED
  BY <1>1, <1>2, ReadsInvariant, PTL DEF Spec, ImplementsPointer, Pointer!PSpec
=============================================================================
