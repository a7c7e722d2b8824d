------------------------- MODULE ImageUploadProofs -------------------------
(***************************************************************************)
(* Proofs about ImageUpload, for any number of uploads, records, requests  *)
(* and processes, any windows and any deployment.  They use no fairness:   *)
(* a sweep may stop for ever.                                              *)
(***************************************************************************)
EXTENDS ImageUpload, TLAPS

LEMMA EnqueuedIsRow ==
  ASSUME NEW u \in Uploads, cleanup[u] \in CleanupRow, NEW due \in Nat
  PROVE  Enqueued(u, due) \in CleanupRow
BY DEF Enqueued, CleanupRow, Time

\* Recording uploads as expired changes their status and queues them.
LEMMA ExpireTypes ==
  ASSUME ImageTypeOK, NEW S \in SUBSET Uploads, NEW at \in Nat, Expire(S, at),
         \A u \in S : upload[u].issued \in Nat
  PROVE  /\ upload' \in [Uploads -> UploadRow]
         /\ cleanup' \in [Uploads -> CleanupRow]
         /\ \A u \in Uploads : upload'[u].issued = upload[u].issued
         /\ \A u \in Uploads : upload'[u].status # upload[u].status => u \in S
<1> USE DEF ImageTypeOK
<1>1. upload' \in [Uploads -> UploadRow]
  BY DEF Expire, UploadRow, UploadStatus
<1>2. ASSUME NEW u \in S
      PROVE  EligibleAt(u, at) \in Nat
  BY <1>2, ImageAssumption
     DEF EligibleAt, ReconcileAfter, SignatureUntil, IntentUntil, Later,
         UploadRow, Time
<1>3. cleanup' \in [Uploads -> CleanupRow]
  BY <1>2, EnqueuedIsRow DEF Expire
<1>4. ASSUME NEW u \in Uploads
      PROVE  /\ upload'[u].issued = upload[u].issued
             /\ upload'[u].status # upload[u].status => u \in S
  BY DEF Expire, UploadRow
<1> QED
  BY <1>1, <1>3, <1>4

\* Every upload that was granted has the time of its grant.
Issued == \A u \in Uploads : upload[u].status # "NONE" => upload[u].issued \in Nat

LEMMA ReconcileIsTime ==
  ASSUME ImageTypeOK, NEW u \in Uploads, upload[u].issued \in Nat
  PROVE  ReconcileAfter(u) \in Nat
BY ImageAssumption
   DEF ReconcileAfter, SignatureUntil, IntentUntil, Later, ImageTypeOK, UploadRow

LEMMA ResumeIsSweep ==
  ASSUME NEW at \in Nat, NEW todo \in SUBSET Uploads
  PROVE  Resume(at, todo) \in Sweeps
BY DEF Resume, Sweeps, NoSweep

LEMMA ImageTypeStep ==
  ASSUME ImageTypeOK, Issued, [ImageNext]_imageVars
  PROVE  ImageTypeOK' /\ Issued'
<1> USE DEF ImageTypeOK, Issued
<1>1. ASSUME NEW u \in Uploads, NEW target \in Records \union {NoRecord},
             CreateIntent(u, target)
      PROVE  ImageTypeOK' /\ Issued'
  <2>1. [status |-> "AUTHORIZED", target |-> target, issued |-> now,
         attachBy |-> NoTime, tries |-> 0] \in UploadRow
    BY DEF UploadRow, UploadStatus, Time
  <2>2. QED
    BY <1>1, <2>1 DEF CreateIntent
<1>2. ASSUME NEW u \in Uploads, StartReceive(u)
      PROVE  ImageTypeOK' /\ Issued'
  BY <1>2 DEF StartReceive, Time
<1>3. ASSUME NEW u \in Uploads, NEW good \in BOOLEAN, FinishReceive(u, good)
      PROVE  ImageTypeOK' /\ Issued'
  <2>1. receiving[u] \in Nat
    BY <1>3 DEF FinishReceive, Time
  <2>2. /\ [at |-> receiving[u], good |-> good] \in File
        /\ [at |-> now, good |-> good] \in File
    BY <2>1 DEF File
  <2>3. object' \in [Uploads -> Object]
    BY <1>3, <2>2 DEF FinishReceive, Object
  <2>4. QED
    BY <1>3, <2>3 DEF FinishReceive, Time
<1>4. ASSUME NEW u \in Uploads, LoseReceive(u)
      PROVE  ImageTypeOK' /\ Issued'
  BY <1>4 DEF LoseReceive, Time
<1>5. ASSUME NEW u \in Uploads, MarkExpired(u)
      PROVE  ImageTypeOK' /\ Issued'
  <2>1. Expire({u}, now) /\ upload[u].issued \in Nat
    BY <1>5 DEF MarkExpired, Expirable
  <2>2. upload' \in [Uploads -> UploadRow] /\ cleanup' \in [Uploads -> CleanupRow]
    BY <2>1, ExpireTypes, \A v \in {u} : v = u, {u} \in SUBSET Uploads
  <2>3. Issued'
    BY <2>1, ExpireTypes, \A v \in {u} : v = u, {u} \in SUBSET Uploads
  <2>4. QED
    BY <1>5, <2>2, <2>3 DEF MarkExpired
<1>6. ASSUME NEW u \in Uploads, NEW r \in Records, SaveUpdate(r, u) \/ SaveCreate(r, u)
      PROVE  ImageTypeOK' /\ Issued'
  <2>1. Claim(r, u)
    BY <1>6 DEF SaveUpdate, SaveCreate
  <2>2. ASSUME NEW v \in ShownBy(r)
        PROVE  Enqueued(v, Later(now, ReconcileAfter(v))) \in CleanupRow
    <3>1. v \in Uploads /\ upload[v].issued \in Nat
      BY <2>1, <2>2 DEF Claim, ShownBy
    <3>2. Later(now, ReconcileAfter(v)) \in Nat
      BY <3>1, ReconcileIsTime DEF Later
    <3>3. QED
      BY <3>1, <3>2, EnqueuedIsRow
  <2>3. cleanup' \in [Uploads -> CleanupRow]
    BY <2>1, <2>2 DEF Claim
  <2>4. upload' \in [Uploads -> UploadRow] /\ Issued'
    BY <2>1 DEF Claim, UploadRow, UploadStatus
  <2>5. shows' \subseteq Records \X Uploads
    BY <2>1 DEF Claim
  <2>6. rows' \subseteq Records
    BY <1>6 DEF SaveUpdate, SaveCreate
  <2>7. QED
    BY <2>1, <2>3, <2>4, <2>5, <2>6 DEF Claim
<1>7. ASSUME NEW c \in Requests, NEW u \in Uploads, ReserveAttempt(c, u)
      PROVE  ImageTypeOK' /\ Issued'
  <2>1. [phase |-> "RESERVED", id |-> u] \in Jobs
    BY DEF Jobs
  <2>2. upload' \in [Uploads -> UploadRow] /\ Issued'
    BY <1>7 DEF ReserveAttempt, UploadRow
  <2>3. QED
    BY <1>7, <2>1, <2>2 DEF ReserveAttempt
<1>8. ASSUME NEW c \in Requests, Verify(c)
      PROVE  ImageTypeOK' /\ Issued'
  <2> DEFINE u == job[c].id
             o == object[u]
             at == IF o.source # NoFile THEN o.source.at ELSE o.image.at
  <2>1. u \in Uploads
    BY <1>8 DEF Verify, Jobs, NoJob
  <2>2. at \in Nat
    BY <1>8, <2>1 DEF Verify, Object, File, Empty, NoFile
  <2>3. /\ [phase |-> "VERIFIED", id |-> u, at |-> at] \in Jobs
        /\ [phase |-> "REFUSED", id |-> u] \in Jobs
    BY <2>1, <2>2 DEF Jobs
  <2>4. [source |-> NoFile, image |-> [at |-> at, good |-> TRUE]] \in Object
    BY <2>2 DEF Object, File
  <2>5. job' \in [Requests -> Jobs]
    BY <1>8, <2>3 DEF Verify
  <2>6. object' \in [Uploads -> Object]
    BY <1>8, <2>1, <2>4 DEF Verify
  <2>7. QED
    BY <1>8, <2>5, <2>6 DEF Verify
<1>9. ASSUME NEW c \in Requests, DropJob(c)
      PROVE  ImageTypeOK' /\ Issued'
  BY <1>9 DEF DropJob, Jobs
<1>10. ASSUME NEW c \in Requests, MarkRejected(c)
       PROVE  ImageTypeOK' /\ Issued'
  <2> DEFINE u == job[c].id
  <2>1. u \in Uploads
    BY <1>10 DEF MarkRejected, Jobs, NoJob
  <2>8. [upload[u] EXCEPT !.status = "REJECTED"] \in UploadRow
    BY <2>1 DEF UploadRow, UploadStatus
  <2>9. \/ upload' = [upload EXCEPT ![u] = [upload[u] EXCEPT !.status = "REJECTED"]]
        \/ upload' = upload
    BY <1>10, <2>1 DEF MarkRejected, SetStatus
  <2>2. upload' \in [Uploads -> UploadRow]
    BY <2>1, <2>8, <2>9
  <2>6. \A v \in Uploads : upload'[v].issued = upload[v].issued
    BY <1>10, <2>1 DEF MarkRejected, SetStatus, UploadRow
  <2>7. \A v \in Uploads : upload'[v].status # "NONE" => upload[v].status # "NONE"
    BY <1>10, <2>1 DEF MarkRejected, SetStatus, UploadRow
  <2>3. upload[u].status = "AUTHORIZED"
          => Enqueued(u, ReconcileAfter(u)) \in CleanupRow
    BY <2>1, ReconcileIsTime, EnqueuedIsRow
  <2>4. cleanup' \in [Uploads -> CleanupRow]
    BY <1>10, <2>3 DEF MarkRejected
  <2>5. QED
    BY <1>10, <2>2, <2>4, <2>6, <2>7 DEF MarkRejected, Jobs
<1>11. ASSUME NEW c \in Requests, RecordVerified(c)
       PROVE  ImageTypeOK' /\ Issued'
  <2> DEFINE u == job[c].id
             attachBy == job[c].at + AttachmentWindow
  <2>1. u \in Uploads /\ attachBy \in Nat
    BY <1>11, ImageAssumption DEF RecordVerified, Jobs, NoJob
  <2>2. job' \in [Requests -> Jobs]
    BY <1>11 DEF RecordVerified, Jobs
  <2>3. CASE now < IntentUntil(u) /\ now < attachBy
    <3>1. upload' = IF upload[u].status = "AUTHORIZED"
                    THEN [upload EXCEPT ![u].status = "VERIFIED_PENDING",
                                        ![u].attachBy = attachBy]
                    ELSE upload
      BY <1>11, <2>3 DEF RecordVerified
    <3>2. upload' \in [Uploads -> UploadRow] /\ Issued'
      BY <2>1, <3>1 DEF UploadRow, UploadStatus, Time
    <3>3. QED
      BY <1>11, <2>2, <2>3, <3>2 DEF RecordVerified
  <2>4. CASE ~(now < IntentUntil(u) /\ now < attachBy)
    <3> DEFINE S == {u} \intersect {v \in Uploads : Expirable(v, now)}
    <3>1. Expire(S, now)
      BY <1>11, <2>4 DEF RecordVerified
    <3>2. \A v \in S : upload[v].issued \in Nat
      BY DEF Expirable
    <3>3. upload' \in [Uploads -> UploadRow] /\ cleanup' \in [Uploads -> CleanupRow]
      BY <3>1, <3>2, ExpireTypes
    <3>4. Issued'
      BY <3>1, <3>2, ExpireTypes
    <3>5. QED
      BY <1>11, <2>2, <3>3, <3>4 DEF RecordVerified
  <2>5. QED
    BY <2>3, <2>4
<1>12. ASSUME NEW w \in Workers, StartSweep(w)
       PROVE  ImageTypeOK' /\ Issued'
  <2>1. sweep' \in [Workers -> Sweeps]
    BY <1>12 DEF StartSweep, Goto, Sweeps
  <2>2. /\ upload' \in [Uploads -> UploadRow] /\ Issued'
        /\ cleanup' \in [Uploads -> CleanupRow]
    <3>1. ASSUME NEW S \in SUBSET {u \in Uploads : Expirable(u, now)},
                 Expire(S, now)
          PROVE  /\ upload' \in [Uploads -> UploadRow] /\ Issued'
                 /\ cleanup' \in [Uploads -> CleanupRow]
      <4>1. \A v \in S : upload[v].issued \in Nat
        BY <3>1 DEF Expirable
      <4>2. upload' \in [Uploads -> UploadRow] /\ cleanup' \in [Uploads -> CleanupRow]
        BY <3>1, <4>1, ExpireTypes
      <4>3. Issued'
        BY <3>1, <4>1, ExpireTypes
      <4>4. QED
        BY <4>2, <4>3
    <3>2. QED
      BY <1>12, <3>1 DEF StartSweep, Batches
  <2>3. QED
    BY <1>12, <2>1, <2>2 DEF StartSweep
<1>13. ASSUME NEW w \in Workers, FindEligible(w)
       PROVE  ImageTypeOK' /\ Issued'
  <2>1. sweep[w].at \in Nat
    BY <1>13 DEF FindEligible, Sweeps, NoSweep
  <2>2. \A T \in Batches({u \in Uploads : DueForCleanup(u, sweep[w].at)},
                         ObjectLimit) : T \in SUBSET Uploads
    BY DEF Batches
  <2>3. sweep' \in [Workers -> Sweeps]
    BY <1>13, <2>1, <2>2, ResumeIsSweep DEF FindEligible, Goto
  <2>4. QED
    BY <1>13, <2>3 DEF FindEligible
<1>14. ASSUME NEW w \in Workers, AcquireLease(w)
       PROVE  ImageTypeOK' /\ Issued'
  <2> DEFINE at == sweep[w].at
  <2>1. at \in Nat /\ sweep[w].todo \in SUBSET Uploads
    BY <1>14 DEF AcquireLease, Sweeps, NoSweep
  <2>2. ASSUME NEW u \in sweep[w].todo
        PROVE  /\ Resume(at, sweep[w].todo \ {u}) \in Sweeps
               /\ [step |-> "DELETE", at |-> at, todo |-> sweep[w].todo \ {u},
                   id |-> u] \in Sweeps
               /\ [status |-> "RETAINED", due |-> NoTime, holder |-> Nobody]
                    \in CleanupRow
               /\ [status |-> "RETRY", due |-> at + Backoff, holder |-> Nobody]
                    \in CleanupRow
               /\ [status |-> "LEASED", due |-> at + Lease, holder |-> w]
                    \in CleanupRow
    <3>1. Resume(at, sweep[w].todo \ {u}) \in Sweeps
      BY <2>1, ResumeIsSweep
    <3>2. at + Backoff \in Nat /\ at + Lease \in Nat
      BY <2>1, ImageAssumption
    <3>3. QED
      BY <2>1, <3>1, <3>2 DEF Sweeps, CleanupRow, Time
  <2>3. sweep' \in [Workers -> Sweeps]
    BY <1>14, <2>2 DEF AcquireLease, Goto
  <2>4. cleanup' \in [Uploads -> CleanupRow]
    BY <1>14, <2>1, <2>2 DEF AcquireLease
  <2>5. QED
    BY <1>14, <2>3, <2>4 DEF AcquireLease
<1>15. ASSUME NEW w \in Workers, DeleteObject(w)
       PROVE  ImageTypeOK' /\ Issued'
  <2>1. sweep[w] \in [step : {"DELETE", "DELETED", "FAILED"}, at : Nat,
                      todo : SUBSET Uploads, id : Uploads]
    BY <1>15 DEF DeleteObject, Sweeps, NoSweep
  <2>2. sweep' \in [Workers -> Sweeps]
    BY <1>15, <2>1 DEF DeleteObject, Goto, Sweeps
  <2>3. Empty \in Object
    BY DEF Empty, Object, File
  <2>4. object' \in [Uploads -> Object]
    BY <1>15, <2>1, <2>3 DEF DeleteObject
  <2>5. QED
    BY <1>15, <2>2, <2>4 DEF DeleteObject
<1>16. ASSUME NEW w \in Workers, RecordDeletion(w)
       PROVE  ImageTypeOK' /\ Issued'
  <2>1. sweep[w] \in [step : {"DELETE", "DELETED", "FAILED"}, at : Nat,
                      todo : SUBSET Uploads, id : Uploads]
    BY <1>16 DEF RecordDeletion, Sweeps, NoSweep
  <2>2. sweep' \in [Workers -> Sweeps]
    BY <1>16, <2>1, ResumeIsSweep DEF RecordDeletion, Goto
  <2>3. sweep[w].at + Backoff \in Nat
    BY <2>1, ImageAssumption
  <2>4. cleanup' \in [Uploads -> CleanupRow]
    BY <1>16, <2>1, <2>3 DEF RecordDeletion, CleanupRow, Time
  <2>5. QED
    BY <1>16, <2>2, <2>4 DEF RecordDeletion
<1>17. ASSUME NEW w \in Workers, StopSweep(w)
       PROVE  ImageTypeOK' /\ Issued'
  BY <1>17 DEF StopSweep, Goto, Sweeps
<1>18. CASE Tick
  BY <1>18 DEF Tick, Time
<1>19. CASE UNCHANGED imageVars
  BY <1>19 DEF imageVars
<1> QED
  BY <1>1, <1>2, <1>3, <1>4, <1>5, <1>6, <1>7, <1>8, <1>9, <1>10, <1>11,
     <1>12, <1>13, <1>14, <1>15, <1>16, <1>17, <1>18, <1>19
     DEF ImageNext, SweepStep

LEMMA ImageInitTypes == ImageInit => ImageTypeOK /\ Issued
<1>1. /\ NoUpload \in UploadRow /\ Empty \in Object
      /\ NoCleanup \in CleanupRow
  BY DEF NoUpload, UploadRow, UploadStatus, Time, Empty, Object, File,
         NoCleanup, CleanupRow
<1>2. QED
  BY <1>1, ImageAssumption
     DEF ImageInit, ImageTypeOK, Issued, NoUpload, Time, Jobs, Sweeps

\* The rows, the objects, the completions and the sweeps stay well typed
\* (image_upload and image_cleanup of images.prisma).
THEOREM ImageTypeCorrect == ImageSpec => []ImageTypeOK
<1>1. ImageInit => ImageTypeOK /\ Issued
  BY ImageInitTypes
<1>2. QED
  BY <1>1, ImageTypeStep, PTL DEF ImageSpec

----------------------------------------------------------------------------
(* The inductive invariant. *)

Over == {"EXPIRED", "REJECTED", "SUPERSEDED"}

Deleting == {"DELETE", "DELETED", "FAILED"}

\* A claimed upload is shown by one record.
RecordsShowClaimed ==
  \A r \in Records, u \in Uploads :
    <<r, u>> \in shows
      => /\ upload[u].status = "CLAIMED"
         /\ \A q \in Records : <<q, u>> \in shows => q = r

\* What was verified is in the store, and is not queued for removal.
KeptImages ==
  \A u \in Uploads :
    /\ upload[u].status \in {"VERIFIED_PENDING", "CLAIMED"} => object[u].image.good
    /\ upload[u].status \notin Over => cleanup[u].status = "NONE"
    /\ upload[u].status = "NONE" => object[u] = Empty

\* A completion that has verified an open upload has put its image in the store.
JobsAreSound ==
  \A c \in Requests :
    job[c] # NoJob
      => /\ upload[job[c].id].status # "NONE"
         /\ job[c].phase = "VERIFIED" /\ upload[job[c].id].status = "AUTHORIZED"
              => object[job[c].id].image.good

\* A transfer starts while the signature is good and does not outlast the
\* settlement horizon.
TransfersInTime ==
  \A u \in Uploads :
    receiving[u] # NoTime
      => /\ upload[u].status # "NONE"
         /\ receiving[u] < SignatureUntil(u)
         /\ now <= receiving[u] + Settlement

\* Nothing is removed before transfers have settled.
CleanupInTime ==
  \A u \in Uploads :
    /\ cleanup[u].status = "PENDING" => ReconcileAfter(u) <= cleanup[u].due
    /\ cleanup[u].status \in {"LEASED", "RETRY", "COMPLETED"}
         => ReconcileAfter(u) <= now
    /\ cleanup[u].status = "COMPLETED" => object[u] = Empty

\* A sweep with a stale clock, or a lost lease, removes only what is over.
SweepsInTime ==
  \A w \in Workers :
    /\ sweep[w] # NoSweep => sweep[w].at <= now
    /\ sweep[w].step \in Deleting
         => /\ upload[sweep[w].id].status \in Over
            /\ ReconcileAfter(sweep[w].id) <= now
    /\ sweep[w].step = "DELETED" => object[sweep[w].id] = Empty

ImageInv ==
  /\ ImageTypeOK /\ Issued
  /\ RecordsShowClaimed /\ KeptImages /\ JobsAreSound
  /\ TransfersInTime /\ CleanupInTime /\ SweepsInTime

LEMMA DeadlinesKept ==
  ASSUME NEW u \in Uploads, upload'[u].issued = upload[u].issued
  PROVE  /\ SignatureUntil(u)' = SignatureUntil(u)
         /\ IntentUntil(u)' = IntentUntil(u)
         /\ ReconcileAfter(u)' = ReconcileAfter(u)
BY DEF SignatureUntil, IntentUntil, ReconcileAfter, Later

LEMMA SettlesAfterSignature ==
  ASSUME ImageTypeOK, NEW u \in Uploads, upload[u].issued \in Nat
  PROVE  /\ SignatureUntil(u) \in Nat
         /\ ReconcileAfter(u) \in Nat
         /\ SignatureUntil(u) + Settlement <= ReconcileAfter(u)
BY ImageAssumption
   DEF SignatureUntil, IntentUntil, ReconcileAfter, Later, ImageTypeOK, UploadRow

\* Once its transfers have settled, nothing is being received for an upload,
\* and no transfer can start.
LEMMA NothingArrives ==
  ASSUME ImageInv, NEW u \in Uploads, upload[u].status # "NONE",
         ReconcileAfter(u) <= now
  PROVE  receiving[u] = NoTime /\ ~(now < SignatureUntil(u))
<1>1. upload[u].issued \in Nat /\ now \in Nat /\ receiving[u] \in Time
  BY DEF ImageInv, ImageTypeOK, Issued
<1>2. ~(now < SignatureUntil(u))
  BY <1>1, SettlesAfterSignature, ImageAssumption DEF ImageInv
<1>3. receiving[u] # NoTime => FALSE
  BY <1>1, SettlesAfterSignature, ImageAssumption
     DEF ImageInv, TransfersInTime, Time, NoTime
<1> QED
  BY <1>2, <1>3

----------------------------------------------------------------------------
(* How a step may change the two rows of an upload. *)

RowsKept(u) ==
  /\ upload'[u].status = upload[u].status
  /\ upload'[u].issued = upload[u].issued
  /\ cleanup'[u] = cleanup[u]

GivenUp(u) ==
  /\ upload[u].status \in {"AUTHORIZED", "VERIFIED_PENDING", "CLAIMED"}
  /\ upload'[u].status \in Over
  /\ upload'[u].issued = upload[u].issued
  /\ cleanup'[u].status = "PENDING" /\ ReconcileAfter(u) <= cleanup'[u].due

MovesTo(u, from, to) ==
  /\ upload[u].status = from /\ upload'[u].status = to
  /\ from # "NONE" => upload'[u].issued = upload[u].issued
  /\ cleanup'[u] = cleanup[u]

LEMMA EnqueuedIsPending ==
  ASSUME ImageInv, NEW u \in Uploads, upload[u].status \notin Over, NEW due
  PROVE  Enqueued(u, due) = [status |-> "PENDING", due |-> due, holder |-> Nobody]
BY DEF ImageInv, KeptImages, Enqueued

LEMMA ExpireMoves ==
  ASSUME ImageInv, NEW S \in SUBSET Uploads, \A u \in S : Expirable(u, now),
         Expire(S, now), NEW u \in Uploads
  PROVE  /\ u \in S => GivenUp(u) /\ upload[u].status # "CLAIMED"
         /\ u \notin S => RowsKept(u)
<1>0. upload[u] \in UploadRow /\ now \in Nat
  BY DEF ImageInv, ImageTypeOK
<1>1. ASSUME u \in S
      PROVE  GivenUp(u) /\ upload[u].status # "CLAIMED"
  <2>1. upload[u].status \in {"AUTHORIZED", "VERIFIED_PENDING"}
    BY <1>1 DEF Expirable
  <2>2. /\ upload'[u].status = "EXPIRED"
        /\ upload'[u].issued = upload[u].issued
    BY <1>0, <1>1 DEF Expire, UploadRow
  <2>3. cleanup'[u] = [status |-> "PENDING", due |-> EligibleAt(u, now),
                       holder |-> Nobody]
    BY <1>1, <2>1, EnqueuedIsPending DEF Expire, Over
  <2>4. upload[u].issued \in Nat
    BY <2>1 DEF ImageInv, Issued
  <2>5. ReconcileAfter(u) <= EligibleAt(u, now)
    BY <1>0, <2>4, SettlesAfterSignature
       DEF EligibleAt, Later, ImageInv, UploadRow, Time, NoTime
  <2>6. QED
    BY <2>1, <2>2, <2>3, <2>5 DEF GivenUp, Over
<1>2. u \notin S => RowsKept(u)
  BY DEF Expire, RowsKept
<1> QED
  BY <1>1, <1>2

\* A sweep starts by recording uploads as expired, or it fails to.
LEMMA SweepStarts ==
  ASSUME NEW w \in Workers, StartSweep(w)
  PROVE  \/ \E S \in SUBSET Uploads :
              (\A u \in S : Expirable(u, now)) /\ Expire(S, now)
         \/ UNCHANGED <<upload, cleanup>>
BY DEF StartSweep, Batches

LEMMA ClaimMoves ==
  ASSUME ImageInv, NEW r \in Records, NEW u \in Uploads, Claim(r, u),
         NEW v \in Uploads
  PROVE  /\ v = u => MovesTo(u, "VERIFIED_PENDING", "CLAIMED")
         /\ v # u /\ v \in ShownBy(r)
              => /\ GivenUp(v) /\ upload[v].status = "CLAIMED"
                 /\ upload'[v].status = "SUPERSEDED"
         /\ v # u /\ v \notin ShownBy(r) => RowsKept(v)
         /\ u \notin ShownBy(r)
<1>0. upload[u] \in UploadRow /\ upload[v] \in UploadRow /\ now \in Nat
  BY DEF ImageInv, ImageTypeOK
<1>1. u \notin ShownBy(r)
  BY DEF Claim
<1>2. v = u => MovesTo(u, "VERIFIED_PENDING", "CLAIMED")
  BY <1>0, <1>1 DEF Claim, MovesTo, UploadRow
<1>3. ASSUME v # u, v \in ShownBy(r)
      PROVE  /\ GivenUp(v) /\ upload[v].status = "CLAIMED"
             /\ upload'[v].status = "SUPERSEDED"
  <2>1. upload[v].status = "CLAIMED"
    BY <1>3 DEF Claim
  <2>2. /\ upload'[v].status = "SUPERSEDED"
        /\ upload'[v].issued = upload[v].issued
    BY <1>0, <1>3 DEF Claim, UploadRow
  <2>3. cleanup'[v] = [status |-> "PENDING", due |-> Later(now, ReconcileAfter(v)),
                       holder |-> Nobody]
    BY <1>3, <2>1, EnqueuedIsPending DEF Claim, Over
  <2>4. upload[v].issued \in Nat
    BY <2>1 DEF ImageInv, Issued
  <2>5. ReconcileAfter(v) <= Later(now, ReconcileAfter(v))
    BY <1>0, <2>4, SettlesAfterSignature DEF Later, ImageInv
  <2>6. QED
    BY <2>1, <2>2, <2>3, <2>5 DEF GivenUp, Over
<1>4. v # u /\ v \notin ShownBy(r) => RowsKept(v)
  BY DEF Claim, RowsKept
<1> QED
  BY <1>1, <1>2, <1>3, <1>4

LEMMA RejectionMoves ==
  ASSUME ImageInv, NEW c \in Requests, MarkRejected(c), NEW v \in Uploads
  PROVE  \/ RowsKept(v)
         \/ GivenUp(v) /\ upload[v].status # "CLAIMED"
<1> DEFINE u == job[c].id
<1>0. u \in Uploads /\ upload \in [Uploads -> UploadRow]
      /\ cleanup \in [Uploads -> CleanupRow]
  BY DEF MarkRejected, ImageInv, ImageTypeOK, Jobs, NoJob
<1>1. CASE v = u /\ upload[u].status = "AUTHORIZED"
  <2>1. /\ upload'[u].status = "REJECTED"
        /\ upload'[u].issued = upload[u].issued
    BY <1>0, <1>1 DEF MarkRejected, SetStatus, UploadRow
  <2>2. cleanup'[u] = [status |-> "PENDING", due |-> ReconcileAfter(u),
                       holder |-> Nobody]
    BY <1>0, <1>1, EnqueuedIsPending DEF MarkRejected, Over
  <2>3. ReconcileAfter(u) <= ReconcileAfter(u)
    BY <1>0, <1>1, ReconcileIsTime DEF ImageInv, Issued
  <2>4. QED
    BY <1>1, <2>1, <2>2, <2>3 DEF GivenUp, Over
<1>2. CASE ~(v = u /\ upload[u].status = "AUTHORIZED")
  BY <1>0, <1>2 DEF MarkRejected, SetStatus, RowsKept
<1> QED
  BY <1>1, <1>2

LEMMA VerificationMoves ==
  ASSUME ImageInv, NEW c \in Requests, RecordVerified(c), NEW v \in Uploads
  PROVE  \/ RowsKept(v)
         \/ GivenUp(v) /\ upload[v].status # "CLAIMED"
         \/ /\ MovesTo(v, "AUTHORIZED", "VERIFIED_PENDING")
            /\ v = job[c].id /\ object[v].image.good
<1> DEFINE u == job[c].id
           attachBy == job[c].at + AttachmentWindow
<1>0. u \in Uploads /\ upload \in [Uploads -> UploadRow]
  BY DEF RecordVerified, ImageInv, ImageTypeOK, Jobs, NoJob
<1>1. CASE now < IntentUntil(u) /\ now < attachBy
  <2>1. upload' = (IF upload[u].status = "AUTHORIZED"
                   THEN [upload EXCEPT ![u].status = "VERIFIED_PENDING",
                                       ![u].attachBy = attachBy]
                   ELSE upload)
        /\ cleanup' = cleanup
    BY <1>1 DEF RecordVerified
  <2>2. upload[u].status = "AUTHORIZED" => object[u].image.good
    BY DEF RecordVerified, ImageInv, JobsAreSound, NoJob
  <2>3. CASE v = u /\ upload[u].status = "AUTHORIZED"
    <3> DEFINE row == [upload[u] EXCEPT !.status = "VERIFIED_PENDING",
                                        !.attachBy = attachBy]
    <3>1. upload' = [upload EXCEPT ![u] = row]
      BY <1>0, <2>1, <2>3
    <3>2. row.status = "VERIFIED_PENDING" /\ row.issued = upload[u].issued
      BY <1>0 DEF UploadRow
    <3>3. QED
      BY <1>0, <2>1, <2>2, <2>3, <3>1, <3>2 DEF MovesTo
  <2>4. CASE ~(v = u /\ upload[u].status = "AUTHORIZED")
    BY <1>0, <2>1, <2>4 DEF RowsKept
  <2>5. QED
    BY <2>3, <2>4
<1>2. CASE ~(now < IntentUntil(u) /\ now < attachBy)
  <2> DEFINE S == {u} \intersect {x \in Uploads : Expirable(x, now)}
  <2>1. Expire(S, now)
    BY <1>2 DEF RecordVerified
  <2>2. S \in SUBSET Uploads /\ \A x \in S : Expirable(x, now)
    OBVIOUS
  <2>3. /\ v \in S => GivenUp(v) /\ upload[v].status # "CLAIMED"
        /\ v \notin S => RowsKept(v)
    <3> HIDE DEF S
    <3> QED
      BY <2>1, <2>2, ExpireMoves
  <2>4. QED
    BY <2>3
<1> QED
  BY <1>1, <1>2

Moves(u) ==
  \/ RowsKept(u)
  \/ GivenUp(u) /\ (upload[u].status = "CLAIMED"
                      => \A r \in Records : <<r, u>> \notin shows')
  \/ MovesTo(u, "NONE", "AUTHORIZED")
  \/ MovesTo(u, "AUTHORIZED", "VERIFIED_PENDING") /\ object[u].image.good
  \/ MovesTo(u, "VERIFIED_PENDING", "CLAIMED")

\* A step that takes or gives back a lease changes no upload; any other moves
\* every upload along its life, or leaves it alone.
LEMMA UploadsMove ==
  ASSUME ImageInv, [ImageNext]_imageVars
  PROVE  \/ \A v \in Uploads : Moves(v)
         \/ \E w \in Workers : AcquireLease(w) \/ RecordDeletion(w)
<1> SUFFICES ASSUME \A w \in Workers : ~AcquireLease(w) /\ ~RecordDeletion(w),
                    NEW v \in Uploads
             PROVE  Moves(v)
  OBVIOUS
<1>0. upload \in [Uploads -> UploadRow]
  BY DEF ImageInv, ImageTypeOK
<1>1. ASSUME UNCHANGED <<upload, cleanup>>
      PROVE  Moves(v)
  BY <1>1 DEF Moves, RowsKept
<1>2. ASSUME NEW u \in Uploads, NEW target \in Records \union {NoRecord},
             CreateIntent(u, target)
      PROVE  Moves(v)
  <2>1. /\ upload'[u].status = "AUTHORIZED" /\ upload[u].status = "NONE"
        /\ cleanup' = cleanup
        /\ v # u => upload'[v] = upload[v]
    BY <1>0, <1>2 DEF CreateIntent
  <2>2. QED
    BY <2>1 DEF Moves, MovesTo, RowsKept
<1>3. ASSUME NEW u \in Uploads, MarkExpired(u)
      PROVE  Moves(v)
  <2>1. {u} \in SUBSET Uploads /\ (\A x \in {u} : Expirable(x, now))
        /\ Expire({u}, now)
    BY <1>3 DEF MarkExpired
  <2>2. QED
    BY <2>1, ExpireMoves DEF Moves
<1>4. ASSUME NEW u \in Uploads, NEW r \in Records, SaveUpdate(r, u) \/ SaveCreate(r, u)
      PROVE  Moves(v)
  <2>1. Claim(r, u)
    BY <1>4 DEF SaveUpdate, SaveCreate
  <2>2. ASSUME v # u, v \in ShownBy(r), NEW q \in Records, <<q, v>> \in shows'
        PROVE  FALSE
    <3>1. <<q, v>> \in shows /\ q # r
      BY <2>1, <2>2 DEF Claim
    <3>2. QED
      BY <2>2, <3>1 DEF ImageInv, RecordsShowClaimed, ShownBy
  <2>3. QED
    BY <2>1, <2>2, ClaimMoves DEF Moves
<1>5. ASSUME NEW c \in Requests, NEW u \in Uploads, ReserveAttempt(c, u)
      PROVE  Moves(v)
  BY <1>0, <1>5 DEF ReserveAttempt, Moves, RowsKept, UploadRow
<1>6. ASSUME NEW c \in Requests, MarkRejected(c)
      PROVE  Moves(v)
  BY <1>6, RejectionMoves DEF Moves
<1>7. ASSUME NEW c \in Requests, RecordVerified(c)
      PROVE  Moves(v)
  BY <1>7, VerificationMoves DEF Moves
<1>8. ASSUME NEW w \in Workers, StartSweep(w)
      PROVE  Moves(v)
  <2>1. CASE UNCHANGED <<upload, cleanup>>
    BY <1>1, <2>1
  <2>2. ASSUME NEW S \in SUBSET Uploads, \A u \in S : Expirable(u, now),
               Expire(S, now)
        PROVE  Moves(v)
    BY <2>2, ExpireMoves DEF Moves
  <2>3. QED
    BY <1>8, <2>1, <2>2, SweepStarts
<1>9. CASE \E u \in Uploads : \/ StartReceive(u) \/ LoseReceive(u)
                              \/ \E good \in BOOLEAN : FinishReceive(u, good)
  BY <1>1, <1>9 DEF StartReceive, LoseReceive, FinishReceive
<1>10. CASE \E c \in Requests : Verify(c) \/ DropJob(c)
  BY <1>1, <1>10 DEF Verify, DropJob
<1>11. CASE \E w \in Workers : FindEligible(w) \/ DeleteObject(w) \/ StopSweep(w)
  BY <1>1, <1>11 DEF FindEligible, DeleteObject, StopSweep
<1>12. CASE Tick \/ UNCHANGED imageVars
  BY <1>1, <1>12 DEF Tick, imageVars
<1> QED
  BY <1>2, <1>3, <1>4, <1>5, <1>6, <1>7, <1>8, <1>9, <1>10, <1>11, <1>12
     DEF ImageNext, SweepStep

\* Only a transfer, a completion and a deletion touch the store.
LEMMA ObjectWriters ==
  ASSUME [ImageNext]_imageVars
  PROVE  \/ UNCHANGED object
         \/ \E u \in Uploads, good \in BOOLEAN : FinishReceive(u, good)
         \/ \E c \in Requests : Verify(c)
         \/ \E w \in Workers : DeleteObject(w)
BY DEF ImageNext, CreateIntent, StartReceive, LoseReceive, MarkExpired,
   SaveUpdate, SaveCreate, Claim, ReserveAttempt, DropJob, MarkRejected,
   RecordVerified, SweepStep, StartSweep, FindEligible, AcquireLease,
   RecordDeletion, StopSweep, Tick, imageVars

\* Deadlines stay, what is over stays over, and once transfers have settled
\* nothing is brought back to the store.
Forward ==
  /\ now' \in Nat /\ now <= now'
  /\ \A u \in Uploads :
       /\ upload[u].status # "NONE"
            => /\ upload'[u].status # "NONE"
               /\ upload'[u].issued = upload[u].issued
       /\ upload[u].status \in Over
            => /\ upload'[u].status \in Over
               /\ ReconcileAfter(u) <= now /\ object[u] = Empty
                    => object'[u] = Empty

LEMMA StepForward ==
  ASSUME ImageInv, [ImageNext]_imageVars
  PROVE  Forward
<1>1. now \in Nat /\ object \in [Uploads -> Object]
  BY DEF ImageInv, ImageTypeOK
<1>5. now' = now \/ Tick
  BY DEF ImageNext, CreateIntent, StartReceive, LoseReceive, FinishReceive,
     MarkExpired, SaveUpdate, SaveCreate, Claim, ReserveAttempt, Verify, DropJob,
     MarkRejected, RecordVerified, SweepStep, StartSweep, FindEligible,
     AcquireLease, DeleteObject, RecordDeletion, StopSweep, imageVars
<1>2. now' \in Nat /\ now <= now'
  BY <1>1, <1>5 DEF Tick
<1>3. ASSUME NEW u \in Uploads
      PROVE  /\ upload[u].status # "NONE"
                  => /\ upload'[u].status # "NONE"
                     /\ upload'[u].issued = upload[u].issued
             /\ upload[u].status \in Over => upload'[u].status \in Over
  <2>1. CASE Moves(u)
    BY <2>1 DEF Moves, RowsKept, GivenUp, MovesTo, Over
  <2>2. CASE \E w \in Workers : AcquireLease(w) \/ RecordDeletion(w)
    BY <2>2 DEF AcquireLease, RecordDeletion
  <2>3. QED
    BY <2>1, <2>2, UploadsMove
<1>4. ASSUME NEW u \in Uploads, upload[u].status \in Over,
             ReconcileAfter(u) <= now, object[u] = Empty
      PROVE  object'[u] = Empty
  <2>1. receiving[u] = NoTime
    BY <1>4, NothingArrives DEF Over
  <2>2. CASE \E v \in Uploads, good \in BOOLEAN : FinishReceive(v, good)
    BY <1>1, <1>4, <2>1, <2>2 DEF FinishReceive
  <2>3. CASE \E c \in Requests : Verify(c)
    BY <1>1, <1>4, <2>3 DEF Verify
  <2>4. CASE \E w \in Workers : DeleteObject(w)
    BY <1>1, <1>4, <2>4 DEF DeleteObject
  <2>5. CASE UNCHANGED object
    BY <1>4, <2>5
  <2>6. QED
    BY <2>2, <2>3, <2>4, <2>5, ObjectWriters
<1> QED
  BY <1>2, <1>3, <1>4 DEF Forward

----------------------------------------------------------------------------
(* Every step preserves each part of the invariant. *)

LEMMA RecordsShowClaimedStep ==
  ASSUME ImageInv, [ImageNext]_imageVars
  PROVE  RecordsShowClaimed'
<1>1. CASE \E u \in Uploads, r \in Records : SaveUpdate(r, u) \/ SaveCreate(r, u)
  <2>1. PICK u \in Uploads, r \in Records : Claim(r, u)
    BY <1>1 DEF SaveUpdate, SaveCreate
  <2>2. shows' = {p \in shows : p[1] # r} \union {<<r, u>>}
    BY <2>1 DEF Claim
  <2>3. \A q \in Records : <<q, u>> \notin shows
    BY <2>1 DEF ImageInv, RecordsShowClaimed, Claim
  <2>4. ASSUME NEW q \in Records, NEW v \in Uploads, <<q, v>> \in shows'
        PROVE  /\ upload'[v].status = "CLAIMED"
               /\ \A x \in Records : <<x, v>> \in shows' => x = q
    <3>1. CASE v = u
      BY <2>1, <2>2, <2>3, <2>4, <3>1, ClaimMoves DEF MovesTo
    <3>2. CASE v # u
      <4>1. <<q, v>> \in shows /\ q # r
        BY <2>2, <2>4, <3>2
      <4>2. v \notin ShownBy(r)
        BY <4>1 DEF ImageInv, RecordsShowClaimed, ShownBy
      <4>3. upload'[v].status = "CLAIMED"
        BY <2>1, <3>2, <4>1, <4>2, ClaimMoves
           DEF RowsKept, ImageInv, RecordsShowClaimed
      <4>4. QED
        BY <2>2, <3>2, <4>1, <4>3 DEF ImageInv, RecordsShowClaimed
    <3>3. QED
      BY <3>1, <3>2
  <2>5. QED
    BY <2>4 DEF RecordsShowClaimed
<1>2. CASE ~\E u \in Uploads, r \in Records : SaveUpdate(r, u) \/ SaveCreate(r, u)
  <2>1. shows' = shows
    BY <1>2 DEF ImageNext, CreateIntent, StartReceive, LoseReceive, FinishReceive,
       MarkExpired, ReserveAttempt, Verify, DropJob, MarkRejected,
       RecordVerified, SweepStep, StartSweep, FindEligible, AcquireLease,
       DeleteObject, RecordDeletion, StopSweep, Tick, imageVars
  <2>2. ASSUME NEW u \in Uploads, NEW r \in Records, <<r, u>> \in shows
        PROVE  upload'[u].status = "CLAIMED"
    <3>1. upload[u].status = "CLAIMED"
      BY <2>2 DEF ImageInv, RecordsShowClaimed
    <3>2. CASE Moves(u)
      BY <2>1, <2>2, <3>1, <3>2 DEF Moves, RowsKept, MovesTo
    <3>3. CASE \E w \in Workers : AcquireLease(w) \/ RecordDeletion(w)
      BY <3>1, <3>3 DEF AcquireLease, RecordDeletion
    <3>4. QED
      BY <3>2, <3>3, UploadsMove
  <2>3. QED
    BY <2>1, <2>2 DEF ImageInv, RecordsShowClaimed
<1> QED
  BY <1>1, <1>2

\* The image of an upload that is not over stays as good as it is.
LEMMA OpenImageStays ==
  ASSUME ImageInv, [ImageNext]_imageVars, NEW u \in Uploads,
         upload[u].status \notin Over
  PROVE  /\ object[u].image.good => object'[u].image.good
         /\ upload[u].status = "NONE" => object'[u] = object[u]
<1>0. /\ object \in [Uploads -> Object] /\ job \in [Requests -> Jobs]
      /\ sweep \in [Workers -> Sweeps]
  BY DEF ImageInv, ImageTypeOK
<1>1. CASE \E v \in Uploads, good \in BOOLEAN : FinishReceive(v, good)
  BY <1>0, <1>1 DEF FinishReceive, ImageInv, TransfersInTime, Object, File, NoFile
<1>2. ASSUME NEW c \in Requests, Verify(c)
      PROVE  /\ object[u].image.good => object'[u].image.good
             /\ upload[u].status = "NONE" => object'[u] = object[u]
  <2>1. job[c].id \in Uploads /\ upload[job[c].id].status # "NONE"
    BY <1>0, <1>2 DEF Verify, Jobs, NoJob, ImageInv, JobsAreSound
  <2>2. object'[u] = object[u] \/ object'[u].image.good
    BY <1>0, <1>2, <2>1 DEF Verify
  <2>3. u # job[c].id => object'[u] = object[u]
    BY <1>0, <1>2, <2>1 DEF Verify
  <2>4. QED
    BY <2>1, <2>2, <2>3
<1>3. ASSUME NEW w \in Workers, DeleteObject(w)
      PROVE  object'[u] = object[u]
  <2>1. u # sweep[w].id
    BY <1>3 DEF DeleteObject, ImageInv, SweepsInTime, Deleting
  <2>2. QED
    BY <1>0, <1>3, <2>1 DEF DeleteObject
<1> QED
  BY <1>1, <1>2, <1>3, ObjectWriters

LEMMA KeptImagesStep ==
  ASSUME ImageInv, [ImageNext]_imageVars
  PROVE  KeptImages'
<1> SUFFICES ASSUME NEW u \in Uploads
             PROVE  /\ upload'[u].status \in {"VERIFIED_PENDING", "CLAIMED"}
                         => object'[u].image.good
                    /\ upload'[u].status \notin Over => cleanup'[u].status = "NONE"
                    /\ upload'[u].status = "NONE" => object'[u] = Empty
  BY DEF KeptImages
<1>0. /\ object \in [Uploads -> Object] /\ job \in [Requests -> Jobs]
      /\ sweep \in [Workers -> Sweeps] /\ cleanup \in [Uploads -> CleanupRow]
  BY DEF ImageInv, ImageTypeOK
<1>1. /\ upload[u].status \in {"VERIFIED_PENDING", "CLAIMED"} => object[u].image.good
      /\ upload[u].status \notin Over => cleanup[u].status = "NONE"
      /\ upload[u].status = "NONE" => object[u] = Empty
  BY DEF ImageInv, KeptImages
<1>2. upload[u].status \notin Over
        => /\ object[u].image.good => object'[u].image.good
           /\ upload[u].status = "NONE" => object'[u] = object[u]
  BY OpenImageStays
<1>3. CASE Moves(u)
  BY <1>1, <1>2, <1>3 DEF Moves, RowsKept, GivenUp, MovesTo, Over
<1>4. ASSUME NEW w \in Workers, AcquireLease(w) \/ RecordDeletion(w)
      PROVE  /\ upload' = upload /\ object' = object
             /\ upload[u].status \notin Over => cleanup'[u].status = "NONE"
  <2>1. CASE AcquireLease(w)
    <3>1. \A v \in sweep[w].todo : DueForCleanup(v, sweep[w].at) => v # u
            \/ upload[u].status \in Over
      BY <1>1 DEF DueForCleanup
    <3>2. QED
      BY <1>0, <1>1, <2>1, <3>1 DEF AcquireLease
  <2>2. CASE RecordDeletion(w)
    BY <1>0, <1>1, <2>2 DEF RecordDeletion
  <2>3. QED
    BY <1>4, <2>1, <2>2
<1> QED
  BY <1>1, <1>3, <1>4, UploadsMove

LEMMA JobsAreSoundStep ==
  ASSUME ImageInv, [ImageNext]_imageVars
  PROVE  JobsAreSound'
<1> SUFFICES ASSUME NEW c \in Requests, job'[c] # NoJob
             PROVE  /\ upload'[job'[c].id].status # "NONE"
                    /\ job'[c].phase = "VERIFIED"
                         /\ upload'[job'[c].id].status = "AUTHORIZED"
                         => object'[job'[c].id].image.good
  BY DEF JobsAreSound
<1>0. /\ object \in [Uploads -> Object] /\ job \in [Requests -> Jobs]
      /\ upload \in [Uploads -> UploadRow]
  BY DEF ImageInv, ImageTypeOK
<1>1. CASE \E d \in Requests, u \in Uploads : ReserveAttempt(d, u)
  BY <1>0, <1>1 DEF ReserveAttempt, ImageInv, JobsAreSound, UploadRow
<1>3. CASE job'[c] = job[c]
  <2> DEFINE u == job[c].id
  <2>1. u \in Uploads
    BY <1>0, <1>3 DEF Jobs
  <2>2. upload'[u].status # "NONE"
    BY <1>3, <2>1, StepForward DEF Forward, ImageInv, JobsAreSound
  <2>3. ASSUME job[c].phase = "VERIFIED", upload'[u].status = "AUTHORIZED"
        PROVE  object'[u].image.good
    <3>1. upload[u].status = "AUTHORIZED"
      <4>1. upload[u].status # "NONE"
        BY <1>3 DEF ImageInv, JobsAreSound
      <4>2. CASE Moves(u)
        BY <2>3, <4>1, <4>2 DEF Moves, RowsKept, GivenUp, MovesTo, Over
      <4>3. CASE \E w \in Workers : AcquireLease(w) \/ RecordDeletion(w)
        BY <2>3, <4>3 DEF AcquireLease, RecordDeletion
      <4>4. QED
        BY <2>1, <4>2, <4>3, UploadsMove
    <3>2. object[u].image.good
      BY <1>3, <2>3, <3>1 DEF ImageInv, JobsAreSound
    <3>3. QED
      BY <2>1, <3>1, <3>2, OpenImageStays DEF Over
  <2>4. QED
    BY <1>3, <2>2, <2>3
<1>2. CASE \E d \in Requests : Verify(d)
  <2>1. CASE Verify(c)
    <3>1. /\ job[c].id \in Uploads /\ job'[c].id = job[c].id
          /\ upload[job[c].id].status # "NONE" /\ upload' = upload
      BY <1>0, <2>1 DEF Verify, Jobs, NoJob, ImageInv, JobsAreSound
    <3>2. job'[c].phase = "VERIFIED" => object'[job[c].id].image.good
      BY <1>0, <2>1, <3>1 DEF Verify
    <3>3. QED
      BY <3>1, <3>2
  <2>2. CASE ~Verify(c)
    BY <1>0, <1>2, <1>3, <2>2 DEF Verify
  <2>3. QED
    BY <2>1, <2>2
<1>4. CASE \E d \in Requests : DropJob(d) \/ MarkRejected(d) \/ RecordVerified(d)
  <2>1. job'[c] = job[c]
    BY <1>0, <1>4 DEF DropJob, MarkRejected, RecordVerified
  <2>2. QED
    BY <1>3, <2>1
<1>5. CASE UNCHANGED job
  BY <1>3, <1>5
<1>6. \/ UNCHANGED job
      \/ \E d \in Requests, u \in Uploads : ReserveAttempt(d, u)
      \/ \E d \in Requests : Verify(d)
      \/ \E d \in Requests : DropJob(d) \/ MarkRejected(d) \/ RecordVerified(d)
  BY DEF ImageNext, CreateIntent, StartReceive, LoseReceive, FinishReceive,
     MarkExpired, SaveUpdate, SaveCreate, Claim, SweepStep, StartSweep,
     FindEligible, AcquireLease, DeleteObject, RecordDeletion, StopSweep, Tick,
     imageVars
<1> QED
  BY <1>1, <1>2, <1>4, <1>5, <1>6

LEMMA TransfersInTimeStep ==
  ASSUME ImageInv, [ImageNext]_imageVars
  PROVE  TransfersInTime'
<1> SUFFICES ASSUME NEW u \in Uploads, receiving'[u] # NoTime
             PROVE  /\ upload'[u].status # "NONE"
                    /\ receiving'[u] < SignatureUntil(u)'
                    /\ now' <= receiving'[u] + Settlement
  BY DEF TransfersInTime
<1>0. /\ receiving \in [Uploads -> Time] /\ now \in Nat
      /\ Settlement \in Nat
  BY ImageAssumption DEF ImageInv, ImageTypeOK
<1>1. /\ upload[u].status # "NONE"
      /\ receiving'[u] < SignatureUntil(u)
      /\ now' <= receiving'[u] + Settlement
  <2>1. ASSUME NEW v \in Uploads, StartReceive(v)
        PROVE  /\ upload[u].status # "NONE"
               /\ receiving'[u] < SignatureUntil(u)
               /\ now' <= receiving'[u] + Settlement
    BY <1>0, <2>1 DEF StartReceive, ImageInv, TransfersInTime
  <2>2. CASE /\ receiving'[u] = receiving[u]
             /\ now' = now \/ now' <= receiving[u] + Settlement
    BY <2>2 DEF ImageInv, TransfersInTime
  <2>3. CASE \E v \in Uploads : \/ LoseReceive(v)
                               \/ \E good \in BOOLEAN : FinishReceive(v, good)
    BY <1>0, <2>2, <2>3 DEF LoseReceive, FinishReceive
  <2>4. CASE Tick
    <3>1. receiving'[u] = receiving[u] /\ ~(receiving[u] + Settlement < now + 1)
      BY <2>4 DEF Tick
    <3>2. receiving[u] \in Int
      BY <1>0 DEF Time, NoTime
    <3>3. now' <= receiving[u] + Settlement
      BY <1>0, <2>4, <3>1, <3>2 DEF Tick
    <3>4. QED
      BY <2>2, <3>1, <3>3
  <2>5. CASE UNCHANGED <<receiving, now>>
    BY <2>2, <2>5
  <2>6. QED
    BY <2>1, <2>3, <2>4, <2>5
       DEF ImageNext, CreateIntent, MarkExpired, SaveUpdate, SaveCreate, Claim,
       ReserveAttempt, Verify, DropJob, MarkRejected, RecordVerified, SweepStep,
       StartSweep, FindEligible, AcquireLease, DeleteObject, RecordDeletion,
       StopSweep, imageVars
<1>2. upload'[u].status # "NONE" /\ SignatureUntil(u)' = SignatureUntil(u)
  BY <1>1, StepForward, DeadlinesKept DEF Forward
<1> QED
  BY <1>1, <1>2

\* What a sweep finds due is over, and its transfers have settled.
LEMMA DueIsSettled ==
  ASSUME ImageInv, NEW u \in Uploads, NEW at \in Nat, at <= now,
         DueForCleanup(u, at)
  PROVE  upload[u].status \in Over /\ ReconcileAfter(u) <= now
<1>1. upload[u].status \in Over
  BY DEF DueForCleanup, ImageInv, KeptImages
<1>2. upload[u].issued \in Nat
  BY <1>1 DEF Over, ImageInv, Issued
<1>3. ReconcileAfter(u) \in Nat /\ now \in Nat
  BY <1>2, ReconcileIsTime DEF ImageInv, ImageTypeOK
<1>4. cleanup[u].due \in Int
  BY DEF CleanupRow, Time, NoTime, ImageInv, ImageTypeOK
<1>5. ReconcileAfter(u) <= now
  BY <1>3, <1>4 DEF DueForCleanup, ImageInv, CleanupInTime
<1> QED
  BY <1>1, <1>5

\* Before a lease is taken or given back, the transfers have settled.
LEMMA LeasesInTime ==
  ASSUME ImageInv, NEW w \in Workers, AcquireLease(w) \/ RecordDeletion(w),
         NEW u \in Uploads, cleanup'[u] # cleanup[u]
  PROVE  /\ cleanup'[u].status \in {"LEASED", "RETRY", "COMPLETED", "RETAINED"}
         /\ upload[u].status \in Over
         /\ ReconcileAfter(u) <= now
         /\ cleanup'[u].status = "COMPLETED" => object[u] = Empty
<1>0. /\ sweep \in [Workers -> Sweeps] /\ cleanup \in [Uploads -> CleanupRow]
      /\ upload \in [Uploads -> UploadRow] /\ now \in Nat
  BY DEF ImageInv, ImageTypeOK
<1>1. CASE AcquireLease(w)
  <2>1. DueForCleanup(u, sweep[w].at) /\ u \in sweep[w].todo
    BY <1>0, <1>1 DEF AcquireLease
  <2>2. /\ cleanup'[u].status \in {"LEASED", "RETRY", "RETAINED"}
    BY <1>0, <1>1 DEF AcquireLease
  <2>3. sweep[w].at \in Nat /\ sweep[w].at <= now
    BY <1>0, <1>1 DEF AcquireLease, Sweeps, NoSweep, ImageInv, SweepsInTime
  <2>4. QED
    BY <2>1, <2>2, <2>3, DueIsSettled
<1>2. CASE RecordDeletion(w)
  <2>1. u = sweep[w].id
    BY <1>0, <1>2 DEF RecordDeletion
  <2>2. sweep[w].step \in {"DELETED", "FAILED"}
    BY <1>2 DEF RecordDeletion
  <2>3. /\ cleanup'[u].status \in {"RETRY", "COMPLETED"}
        /\ cleanup'[u].status = "COMPLETED" => sweep[w].step = "DELETED"
    BY <1>0, <1>2, <2>1, <2>2 DEF RecordDeletion
  <2>4. QED
    BY <2>1, <2>2, <2>3 DEF ImageInv, SweepsInTime, Deleting
<1> QED
  BY <1>1, <1>2

LEMMA CleanupInTimeStep ==
  ASSUME ImageInv, [ImageNext]_imageVars
  PROVE  CleanupInTime'
<1> SUFFICES ASSUME NEW u \in Uploads
             PROVE  /\ cleanup'[u].status = "PENDING"
                         => ReconcileAfter(u)' <= cleanup'[u].due
                    /\ cleanup'[u].status \in {"LEASED", "RETRY", "COMPLETED"}
                         => ReconcileAfter(u)' <= now'
                    /\ cleanup'[u].status = "COMPLETED" => object'[u] = Empty
  BY DEF CleanupInTime
<1>1. CASE cleanup'[u] = cleanup[u] /\ cleanup[u].status # "NONE"
  <2>1. upload[u].status \in Over
    BY <1>1 DEF ImageInv, KeptImages
  <2>2. ReconcileAfter(u)' = ReconcileAfter(u) /\ upload[u].issued \in Nat
    BY <2>1, StepForward, DeadlinesKept DEF Forward, Over, ImageInv, Issued
  <2>3. ReconcileAfter(u) \in Nat
    BY <2>2, ReconcileIsTime DEF ImageInv
  <2>4. now \in Nat /\ now' \in Nat /\ now <= now'
    BY StepForward DEF Forward, ImageInv, ImageTypeOK
  <2>5. QED
    BY <1>1, <2>1, <2>2, <2>3, <2>4, StepForward DEF Forward, ImageInv, CleanupInTime
<1>2. CASE cleanup'[u] = cleanup[u] /\ cleanup[u].status = "NONE"
  BY <1>2
<1>3. CASE GivenUp(u)
  BY <1>3, DeadlinesKept DEF GivenUp
<1>4. ASSUME NEW w \in Workers, AcquireLease(w) \/ RecordDeletion(w),
             cleanup'[u] # cleanup[u]
      PROVE  /\ cleanup'[u].status \in {"LEASED", "RETRY", "COMPLETED", "RETAINED"}
             /\ ReconcileAfter(u)' <= now'
             /\ cleanup'[u].status = "COMPLETED" => object'[u] = Empty
  <2>1. UNCHANGED <<upload, object, now>>
    BY <1>4 DEF AcquireLease, RecordDeletion
  <2>2. QED
    BY <1>4, <2>1, LeasesInTime, DeadlinesKept
<1> QED
  BY <1>1, <1>2, <1>3, <1>4, UploadsMove DEF Moves, RowsKept, MovesTo

LEMMA SweepsInTimeStep ==
  ASSUME ImageInv, [ImageNext]_imageVars
  PROVE  SweepsInTime'
<1> SUFFICES ASSUME NEW w \in Workers, sweep'[w] # NoSweep,
                    NEW i, i = sweep'[w].id
             PROVE  /\ sweep'[w].at <= now'
                    /\ sweep'[w].step \in Deleting
                         => /\ upload'[i].status \in Over
                            /\ ReconcileAfter(i)' <= now'
                    /\ sweep'[w].step = "DELETED" => object'[i] = Empty
  BY DEF SweepsInTime, NoSweep, Deleting, ReconcileAfter, SignatureUntil,
         IntentUntil, Later
<1>0. /\ sweep \in [Workers -> Sweeps] /\ object \in [Uploads -> Object]
      /\ now \in Nat /\ now' \in Nat /\ now <= now'
  BY StepForward DEF Forward, ImageInv, ImageTypeOK
<1>1. CASE sweep'[w] = sweep[w]
  <2>1. sweep[w].at \in Nat /\ sweep[w].at <= now
    BY <1>0, <1>1 DEF Sweeps, NoSweep, ImageInv, SweepsInTime
  <2>2. ASSUME sweep[w].step \in Deleting
        PROVE  /\ upload'[i].status \in Over
               /\ ReconcileAfter(i)' <= now'
               /\ sweep[w].step = "DELETED" => object'[i] = Empty
    <3>1. i \in Uploads
      BY <1>0, <1>1, <2>2 DEF Sweeps, NoSweep, Deleting
    <3>2. /\ upload[i].status \in Over /\ ReconcileAfter(i) <= now
          /\ sweep[w].step = "DELETED" => object[i] = Empty
      BY <1>1, <2>2 DEF ImageInv, SweepsInTime
    <3>3. ReconcileAfter(i)' = ReconcileAfter(i) /\ upload[i].issued \in Nat
      BY <3>1, <3>2, StepForward, DeadlinesKept DEF Forward, Over, ImageInv, Issued
    <3>4. ReconcileAfter(i) \in Nat
      BY <3>1, <3>3, ReconcileIsTime DEF ImageInv
    <3>5. QED
      BY <1>0, <3>1, <3>2, <3>3, <3>4, StepForward DEF Forward
  <2>3. QED
    BY <1>0, <1>1, <2>1, <2>2 DEF Deleting
<1>2. CASE StartSweep(w)
  BY <1>0, <1>2 DEF StartSweep, Goto, Deleting
<1>3. CASE FindEligible(w) \/ RecordDeletion(w)
  <2>1. sweep[w].at \in Nat /\ sweep[w].at <= now
    BY <1>0, <1>3 DEF FindEligible, RecordDeletion, Sweeps, NoSweep, ImageInv,
                      SweepsInTime
  <2>2. sweep'[w].step = "WORK" /\ sweep'[w].at = sweep[w].at
    <3>1. PICK todo : sweep'[w] = Resume(sweep[w].at, todo)
      BY <1>0, <1>3 DEF FindEligible, RecordDeletion, Goto
    <3>2. QED
      BY <3>1 DEF Resume
  <2>3. QED
    BY <1>0, <2>1, <2>2 DEF Deleting
<1>4. CASE AcquireLease(w)
  <2>1. sweep[w].at \in Nat /\ sweep[w].at <= now
    BY <1>0, <1>4 DEF AcquireLease, Sweeps, NoSweep, ImageInv, SweepsInTime
  <2>2. PICK u \in sweep[w].todo :
          \/ sweep' = [sweep EXCEPT ![w] = Resume(sweep[w].at, sweep[w].todo \ {u})]
          \/ /\ cleanup' = [cleanup EXCEPT ![u] =
                  [status |-> "LEASED", due |-> sweep[w].at + Lease, holder |-> w]]
             /\ DueForCleanup(u, sweep[w].at)
             /\ sweep' = [sweep EXCEPT ![w] =
                  [step |-> "DELETE", at |-> sweep[w].at,
                   todo |-> sweep[w].todo \ {u}, id |-> u]]
    BY <1>4 DEF AcquireLease, Goto
  <2>3. CASE sweep' = [sweep EXCEPT ![w] = Resume(sweep[w].at, sweep[w].todo \ {u})]
    <3>1. sweep'[w].step = "WORK" /\ sweep'[w].at = sweep[w].at
      BY <1>0, <2>3 DEF Resume
    <3>2. QED
      BY <1>0, <2>1, <3>1 DEF Deleting
  <2>4. CASE /\ cleanup' = [cleanup EXCEPT ![u] =
                  [status |-> "LEASED", due |-> sweep[w].at + Lease, holder |-> w]]
             /\ DueForCleanup(u, sweep[w].at)
             /\ sweep' = [sweep EXCEPT ![w] =
                  [step |-> "DELETE", at |-> sweep[w].at,
                   todo |-> sweep[w].todo \ {u}, id |-> u]]
    <3>1. sweep'[w].step = "DELETE" /\ sweep'[w].at = sweep[w].at /\ i = u
      BY <1>0, <2>4
    <3>2. u \in Uploads
      BY <1>0, <1>4 DEF AcquireLease, Sweeps, NoSweep
    <3>3. upload[u].status \in Over /\ ReconcileAfter(u) <= now
      BY <1>4, <2>1, <2>4, <3>2, DueIsSettled DEF AcquireLease
    <3>4. UNCHANGED <<upload, now>>
      BY <1>4 DEF AcquireLease
    <3>5. QED
      BY <1>0, <2>1, <3>1, <3>2, <3>3, <3>4, DeadlinesKept
  <2>5. QED
    BY <2>2, <2>3, <2>4
<1>5. CASE DeleteObject(w)
  <2>1. /\ sweep[w] \in [step : {"DELETE", "DELETED", "FAILED"}, at : Nat,
                          todo : SUBSET Uploads, id : Uploads]
        /\ sweep[w].step = "DELETE" /\ UNCHANGED <<upload, now>>
    BY <1>0, <1>5 DEF DeleteObject, Sweeps, NoSweep
  <2>2. /\ sweep'[w].at = sweep[w].at /\ i = sweep[w].id
        /\ sweep'[w].step = "DELETED" => object'[i] = Empty
    BY <1>0, <1>5, <2>1 DEF DeleteObject, Goto
  <2>3. /\ upload[i].status \in Over /\ ReconcileAfter(i) <= now
        /\ sweep[w].at <= now
    BY <2>1, <2>2 DEF ImageInv, SweepsInTime, Deleting, NoSweep
  <2>4. QED
    BY <2>1, <2>2, <2>3, DeadlinesKept
<1>6. CASE StopSweep(w)
  BY <1>0, <1>6 DEF StopSweep, Goto
<1>7. ASSUME NEW v \in Workers, v # w, SweepStep(v) \/ StopSweep(v)
      PROVE  sweep'[w] = sweep[w]
  <2>1. \E state : sweep' = [sweep EXCEPT ![v] = state]
    BY <1>7 DEF SweepStep, StartSweep, FindEligible, AcquireLease,
       DeleteObject, RecordDeletion, StopSweep, Goto
  <2>2. QED
    BY <1>0, <1>7, <2>1
<1>8. CASE UNCHANGED sweep
  BY <1>1, <1>8
<1>9. UNCHANGED sweep \/ \E v \in Workers : SweepStep(v) \/ StopSweep(v)
  BY DEF ImageNext, CreateIntent, StartReceive, LoseReceive, FinishReceive,
     MarkExpired, SaveUpdate, SaveCreate, Claim, ReserveAttempt, Verify, DropJob,
     MarkRejected, RecordVerified, Tick, imageVars
<1> QED
  BY <1>1, <1>2, <1>3, <1>4, <1>5, <1>6, <1>7, <1>8, <1>9 DEF SweepStep

LEMMA ImageInvariant == ImageSpec => []ImageInv
<1>1. ImageInit => ImageInv
  <2>1. ImageInit => ImageTypeOK /\ Issued
    BY ImageInitTypes
  <2>2. ImageInit => RecordsShowClaimed /\ KeptImages /\ JobsAreSound
    BY DEF ImageInit, RecordsShowClaimed, KeptImages, JobsAreSound, Over,
           NoUpload, NoCleanup
  <2>3. ImageInit => TransfersInTime /\ CleanupInTime /\ SweepsInTime
    BY DEF ImageInit, TransfersInTime, CleanupInTime, SweepsInTime, Deleting,
           NoCleanup, NoSweep
  <2>4. QED
    BY <2>1, <2>2, <2>3 DEF ImageInv
<1>2. ImageInv /\ [ImageNext]_imageVars => ImageInv'
  <2> SUFFICES ASSUME ImageInv, [ImageNext]_imageVars
               PROVE  ImageInv'
    OBVIOUS
  <2>1. ImageTypeOK' /\ Issued'
    BY ImageTypeStep DEF ImageInv
  <2>2. QED
    BY <2>1, RecordsShowClaimedStep, KeptImagesStep, JobsAreSoundStep,
       TransfersInTimeStep, CleanupInTimeStep, SweepsInTimeStep DEF ImageInv
<1>3. QED
  BY <1>1, <1>2, PTL DEF ImageSpec

\* A record that shows an image shows one that is claimed and in the store:
\* no order of completions, expiries, saves and sweeps deletes what is in use.
THEOREM ShownImageIsStoredCorrect == ImageSpec => []ShownImageIsStored
<1>1. ImageInv => ShownImageIsStored
  BY DEF ImageInv, RecordsShowClaimed, KeptImages, ShownImageIsStored
<1>2. QED
  BY <1>1, ImageInvariant, PTL

\* What the cleaner has recorded as removed is out of the store, and nothing
\* that was under way can bring it back.
THEOREM CollectedForGoodCorrect == ImageSpec => []CollectedForGood
<1>1. ASSUME ImageInv, NEW u \in Uploads, cleanup[u].status = "COMPLETED"
      PROVE  object[u] = Empty /\ receiving[u] = NoTime
  <2>1. object[u] = Empty /\ ReconcileAfter(u) <= now
    BY <1>1 DEF ImageInv, CleanupInTime
  <2>2. upload[u].status # "NONE"
    BY <1>1 DEF ImageInv, KeptImages, Over
  <2>3. QED
    BY <1>1, <2>1, <2>2, NothingArrives
<1>2. ImageInv => CollectedForGood
  BY <1>1 DEF CollectedForGood
<1>3. QED
  BY <1>2, ImageInvariant, PTL

----------------------------------------------------------------------------
(* The refinement of ImageStore. *)

LEMMA PhaseKept ==
  ASSUME NEW u \in Uploads, upload'[u].status = upload[u].status,
         cleanup'[u].status = "COMPLETED" <=> cleanup[u].status = "COMPLETED"
  PROVE  phase'[u] = phase[u]
BY DEF phase

\* Uploads that are given up, all others staying as far as they were.
LEMMA StoreGivesUp ==
  ASSUME ImageInv, UNCHANGED <<object, shows>>,
         \A u \in Uploads :
           \/ RowsKept(u)
           \/ GivenUp(u) /\ upload[u].status # "CLAIMED"
           \/ MovesTo(u, "AUTHORIZED", "VERIFIED_PENDING")
  PROVE  Store!Next
<1> DEFINE S == {u \in Uploads : GivenUp(u)}
<1>1. ASSUME NEW u \in S
      PROVE  phase[u] = "PENDING" /\ phase'[u] = "GARBAGE"
  <2>1. upload[u].status \in {"AUTHORIZED", "VERIFIED_PENDING"}
    BY DEF RowsKept, MovesTo, GivenUp, Over
  <2>2. phase[u] = "PENDING"
    BY <2>1 DEF phase
  <2>3. phase'[u] = "GARBAGE"
    BY DEF GivenUp, Over, phase
  <2>4. QED
    BY <2>2, <2>3
<1>2. ASSUME NEW u \in Uploads, u \notin S
      PROVE  phase'[u] = phase[u]
  <2>1. CASE RowsKept(u)
    BY <2>1, PhaseKept DEF RowsKept
  <2>2. CASE MovesTo(u, "AUTHORIZED", "VERIFIED_PENDING")
    BY <2>2 DEF MovesTo, phase
  <2>3. QED
    BY <1>2, <2>1, <2>2
<1>3. phase' = [u \in Uploads |-> IF u \in S THEN "GARBAGE" ELSE phase[u]]
  <2>1. phase' = [u \in Uploads |-> phase'[u]]
    BY DEF phase
  <2> HIDE DEF S
  <2>2. QED
    BY <1>1, <1>2, <2>1
<1>4. Store!GiveUp(S)
  BY <1>1, <1>3 DEF Store!GiveUp, stored
<1>5. QED
  BY <1>4 DEF Store!Next

LEMMA StoreShows ==
  ASSUME ImageInv, NEW r \in Records, NEW u \in Uploads, Claim(r, u)
  PROVE  Store!Show(u, r)
<1>1. phase[u] = "PENDING" /\ phase'[u] = "SHOWN"
  BY ClaimMoves DEF MovesTo, phase
<1>2. u \in stored
  <2>1. object[u].image.good
    BY DEF Claim, ImageInv, KeptImages
  <2>2. QED
    BY <2>1 DEF stored, Empty, NoFile
<1>3. ASSUME NEW v \in Uploads, v # u, <<r, v>> \in shows
      PROVE  phase'[v] = "GARBAGE"
  <2>1. GivenUp(v)
    BY <1>3, ClaimMoves DEF ShownBy
  <2>2. QED
    BY <2>1 DEF GivenUp, Over, phase
<1>4. ASSUME NEW v \in Uploads, v # u, <<r, v>> \notin shows
      PROVE  phase'[v] = phase[v]
  BY <1>4, ClaimMoves, PhaseKept DEF ShownBy, RowsKept
<1>5. phase' = [v \in Uploads |-> IF v = u THEN "SHOWN"
                                ELSE IF <<r, v>> \in shows THEN "GARBAGE"
                                ELSE phase[v]]
  <2>1. phase' = [v \in Uploads |-> phase'[v]]
    BY DEF phase
  <2>2. QED
    BY <1>1, <1>3, <1>4, <2>1
<1>6. QED
  BY <1>1, <1>2, <1>5 DEF Store!Show, Claim, stored

\* A step that keeps the status of every row and completes no removal, and
\* empties and fills no object, is none of the store's.
LEMMA StoreStutters ==
  ASSUME UNCHANGED shows, stored' = stored,
         \A u \in Uploads :
           /\ upload'[u].status = upload[u].status
           /\ cleanup'[u].status = "COMPLETED" <=> cleanup[u].status = "COMPLETED"
  PROVE  UNCHANGED Store!vars
<1>1. phase' = [u \in Uploads |-> phase'[u]] /\ phase = [u \in Uploads |-> phase[u]]
  BY DEF phase
<1>2. phase' = phase
  BY <1>1, PhaseKept
<1>3. QED
  BY <1>2 DEF Store!vars

LEMMA StoreReceives ==
  ASSUME ImageInv, NEW u \in Uploads, NEW good \in BOOLEAN, FinishReceive(u, good)
  PROVE  Store!Arrive(u) \/ UNCHANGED Store!vars
<1>0. object \in [Uploads -> Object] /\ receiving[u] \in Nat /\ now \in Nat
  BY DEF ImageInv, ImageTypeOK, Time, FinishReceive
<1>1. object'[u] # Empty
  <2>1. /\ object[u].source # NoFile => object[u] # Empty
        /\ object[u].image # NoFile => object[u] # Empty
    BY DEF Empty
  <2>2. /\ [at |-> receiving[u], good |-> good] # NoFile
        /\ [at |-> now, good |-> good] # NoFile
    BY <1>0 DEF NoFile, NoTime
  <2>3. CASE deployment.provider = "LOCAL"
    <3>1. \/ object'[u] = object[u] /\ object[u].source # NoFile
          \/ object'[u].source = [at |-> receiving[u], good |-> good]
      BY <1>0, <2>3 DEF FinishReceive, Object
    <3>2. QED
      BY <2>1, <2>2, <3>1 DEF Empty
  <2>4. CASE deployment.provider # "LOCAL"
    <3>1. \/ object'[u] = object[u] /\ object[u].image # NoFile
          \/ object'[u].image = [at |-> now, good |-> good]
      BY <1>0, <2>4 DEF FinishReceive, Object
    <3>2. QED
      BY <2>1, <2>2, <3>1 DEF Empty
  <2>5. QED
    BY <2>3, <2>4
<1>2. stored' = stored \union {u}
  BY <1>0, <1>1 DEF stored, FinishReceive
<1>3. UNCHANGED <<shows, upload, cleanup>>
  BY DEF FinishReceive
<1>4. CASE u \in stored
  <2>1. stored' = stored
    BY <1>2, <1>4
  <2>2. QED
    BY <1>3, <2>1, StoreStutters
<1>5. CASE u \notin stored
  <2>1. object[u] = Empty
    BY <1>5 DEF stored
  <2>2. upload[u].status \notin {"NONE", "VERIFIED_PENDING", "CLAIMED"}
    BY <2>1 DEF FinishReceive, ImageInv, TransfersInTime, KeptImages, Empty, NoFile
  <2>3. upload[u].status # "NONE" /\ ~(ReconcileAfter(u) <= now)
    BY <2>2, NothingArrives DEF FinishReceive
  <2>4. cleanup[u].status # "COMPLETED"
    BY <2>3 DEF ImageInv, CleanupInTime
  <2>5. phase[u] \in {"PENDING", "GARBAGE"}
    BY <2>2, <2>4 DEF phase
  <2>6. phase' = phase
    BY <1>3 DEF phase
  <2>7. QED
    BY <1>2, <1>3, <2>5, <2>6 DEF Store!Arrive
<1>6. QED
  BY <1>4, <1>5

LEMMA StoreRemoves ==
  ASSUME ImageInv, NEW w \in Workers, DeleteObject(w)
  PROVE  (\E u \in Uploads : Store!Remove(u)) \/ UNCHANGED Store!vars
<1> DEFINE u == sweep[w].id
<1>1. u \in Uploads /\ object \in [Uploads -> Object]
  BY DEF DeleteObject, ImageInv, ImageTypeOK, Sweeps, NoSweep
<1>2. upload[u].status \in Over
  BY DEF DeleteObject, ImageInv, SweepsInTime, Deleting
<1>3. UNCHANGED <<shows, upload, cleanup>>
  BY DEF DeleteObject
<1>4. CASE object' = [object EXCEPT ![u] = Empty]
  <2>1. stored' = stored \ {u}
    BY <1>1, <1>4 DEF stored
  <2>2. phase[u] \in {"GARBAGE", "SETTLED"} /\ phase' = phase
    BY <1>1, <1>2, <1>3 DEF phase, Over
  <2>3. Store!Remove(u)
    BY <1>3, <2>1, <2>2 DEF Store!Remove
  <2>4. QED
    BY <1>1, <2>3
<1>5. CASE object' = object
  <2>1. stored' = stored
    BY <1>5 DEF stored
  <2>2. QED
    BY <1>3, <2>1, StoreStutters
<1>6. QED
  BY <1>4, <1>5 DEF DeleteObject

LEMMA StoreSettles ==
  ASSUME ImageInv, NEW w \in Workers, RecordDeletion(w)
  PROVE  (\E u \in Uploads : Store!Settle(u)) \/ UNCHANGED Store!vars
<1> DEFINE u == sweep[w].id
<1>1. u \in Uploads /\ cleanup \in [Uploads -> CleanupRow]
  BY DEF RecordDeletion, ImageInv, ImageTypeOK, Sweeps, NoSweep
<1>2. upload[u].status \in Over
  BY DEF RecordDeletion, ImageInv, SweepsInTime, Deleting
<1>3. UNCHANGED <<shows, upload, object>> /\ stored' = stored
  BY DEF RecordDeletion, stored
<1>4. \A v \in Uploads : v # u => cleanup'[v] = cleanup[v]
  BY <1>1 DEF RecordDeletion
<1>5. CASE cleanup'[u].status = "COMPLETED" /\ cleanup[u].status # "COMPLETED"
  <2>1. u \notin stored
    BY <1>1, <1>5 DEF RecordDeletion, ImageInv, SweepsInTime, stored
  <2>2. phase[u] = "GARBAGE" /\ phase'[u] = "SETTLED"
    BY <1>1, <1>2, <1>3, <1>5 DEF phase, Over
  <2>3. \A v \in Uploads : v # u => phase'[v] = phase[v]
    BY <1>3, <1>4, PhaseKept
  <2>4. phase' = [phase EXCEPT ![u] = "SETTLED"]
    <3>1. phase' = [v \in Uploads |-> phase'[v]] /\ phase = [v \in Uploads |-> phase[v]]
      BY DEF phase
    <3>2. QED
      BY <1>1, <2>2, <2>3, <3>1
  <2>5. Store!Settle(u)
    BY <1>3, <2>1, <2>2, <2>4 DEF Store!Settle
  <2>6. QED
    BY <1>1, <2>5
<1>6. CASE ~(cleanup'[u].status = "COMPLETED" /\ cleanup[u].status # "COMPLETED")
  <2>1. cleanup'[u].status = "COMPLETED" <=> cleanup[u].status = "COMPLETED"
    BY <1>1, <1>6 DEF RecordDeletion
  <2>2. QED
    BY <1>3, <1>4, <2>1, StoreStutters
<1>7. QED
  BY <1>5, <1>6

\* Every step of the subsystem is a step of the store, or none.
LEMMA StoreStep ==
  ASSUME ImageInv, [ImageNext]_imageVars
  PROVE  [Store!Next]_Store!vars
<1>0. /\ upload \in [Uploads -> UploadRow] /\ cleanup \in [Uploads -> CleanupRow]
      /\ object \in [Uploads -> Object] /\ job \in [Requests -> Jobs]
  BY DEF ImageInv, ImageTypeOK
<1>1. ASSUME NEW u \in Uploads, NEW target \in Records \union {NoRecord},
             CreateIntent(u, target)
      PROVE  Store!Next
  <2>1. /\ upload[u].status = "NONE" /\ upload'[u].status = "AUTHORIZED"
        /\ \A v \in Uploads : v # u => upload'[v] = upload[v]
        /\ UNCHANGED <<shows, cleanup, object>>
    BY <1>0, <1>1 DEF CreateIntent
  <2>2. phase[u] = "UNUSED" /\ phase'[u] = "PENDING"
    BY <2>1 DEF phase
  <2>3. \A v \in Uploads : v # u => phase'[v] = phase[v]
    BY <2>1, PhaseKept
  <2>4. phase' = [phase EXCEPT ![u] = "PENDING"]
    <3>1. phase' = [v \in Uploads |-> phase'[v]] /\ phase = [v \in Uploads |-> phase[v]]
      BY DEF phase
    <3>2. QED
      BY <2>2, <2>3, <3>1
  <2>5. Store!Allocate(u)
    BY <2>1, <2>2, <2>4 DEF Store!Allocate, stored
  <2>6. QED
    BY <2>5 DEF Store!Next
<1>2. ASSUME NEW u \in Uploads, MarkExpired(u)
      PROVE  Store!Next
  <2>1. {u} \in SUBSET Uploads /\ (\A x \in {u} : Expirable(x, now))
        /\ Expire({u}, now) /\ UNCHANGED <<object, shows>>
    BY <1>2 DEF MarkExpired
  <2>2. QED
    BY <2>1, ExpireMoves, StoreGivesUp
<1>3. ASSUME NEW u \in Uploads, NEW r \in Records, SaveUpdate(r, u) \/ SaveCreate(r, u)
      PROVE  Store!Next
  BY <1>3, StoreShows DEF SaveUpdate, SaveCreate, Store!Next
<1>4. ASSUME NEW c \in Requests, MarkRejected(c) \/ RecordVerified(c)
      PROVE  Store!Next
  <2>1. UNCHANGED <<object, shows>>
    BY <1>4 DEF MarkRejected, RecordVerified
  <2>2. QED
    BY <1>4, <2>1, RejectionMoves, VerificationMoves, StoreGivesUp
<1>5. ASSUME NEW w \in Workers, StartSweep(w)
      PROVE  [Store!Next]_Store!vars
  <2>1. UNCHANGED <<object, shows>>
    BY <1>5 DEF StartSweep
  <2>2. ASSUME NEW S \in SUBSET Uploads, \A u \in S : Expirable(u, now),
               Expire(S, now)
        PROVE  Store!Next
    BY <2>1, <2>2, ExpireMoves, StoreGivesUp
  <2>3. CASE UNCHANGED <<upload, cleanup>>
    BY <2>1, <2>3, StoreStutters DEF stored
  <2>4. QED
    BY <1>5, <2>2, <2>3, SweepStarts
<1>6. ASSUME NEW u \in Uploads, NEW good \in BOOLEAN, FinishReceive(u, good)
      PROVE  [Store!Next]_Store!vars
  BY <1>6, StoreReceives DEF Store!Next
<1>7. ASSUME NEW c \in Requests, Verify(c)
      PROVE  [Store!Next]_Store!vars
  <2>1. job[c].id \in Uploads
    BY <1>0, <1>7 DEF Verify, Jobs, NoJob
  <2>2. object' = object \/ \E at \in Nat : object[job[c].id] # Empty
          /\ object' = [object EXCEPT ![job[c].id] =
               [source |-> NoFile, image |-> [at |-> at, good |-> TRUE]]]
    BY <1>0, <1>7, <2>1 DEF Verify, Object, File, Empty, NoFile
  <2>3. \A at \in Nat : [source |-> NoFile, image |-> [at |-> at, good |-> TRUE]] # Empty
    BY DEF Empty, NoFile
  <2>4. stored' = stored
    BY <1>0, <2>1, <2>2, <2>3 DEF stored
  <2>5. QED
    BY <1>7, <2>4, StoreStutters DEF Verify
<1>8. ASSUME NEW w \in Workers, DeleteObject(w) \/ RecordDeletion(w)
      PROVE  [Store!Next]_Store!vars
  BY <1>8, StoreRemoves, StoreSettles DEF Store!Next
<1>9. ASSUME NEW w \in Workers, AcquireLease(w)
      PROVE  [Store!Next]_Store!vars
  <2>1. UNCHANGED <<upload, object, shows>>
    BY <1>9 DEF AcquireLease
  <2>2. ASSUME NEW u \in Uploads
        PROVE  cleanup'[u].status = "COMPLETED" <=> cleanup[u].status = "COMPLETED"
    BY <1>0, <1>9 DEF AcquireLease, DueForCleanup
  <2>3. QED
    BY <2>1, <2>2, StoreStutters DEF stored
<1>10. ASSUME NEW c \in Requests, NEW u \in Uploads, ReserveAttempt(c, u)
       PROVE  [Store!Next]_Store!vars
  <2>1. \A v \in Uploads : upload'[v].status = upload[v].status
    BY <1>0, <1>10 DEF ReserveAttempt, UploadRow
  <2>2. QED
    BY <1>10, <2>1, StoreStutters DEF ReserveAttempt, stored
<1>11. CASE UNCHANGED <<upload, object, shows, cleanup>>
  BY <1>11, StoreStutters DEF stored
<1>12. CASE \E u \in Uploads : StartReceive(u) \/ LoseReceive(u)
  BY <1>11, <1>12 DEF StartReceive, LoseReceive
<1>13. CASE \E c \in Requests : DropJob(c)
  BY <1>11, <1>13 DEF DropJob
<1>14. CASE \E w \in Workers : FindEligible(w) \/ StopSweep(w)
  BY <1>11, <1>14 DEF FindEligible, StopSweep
<1>15. CASE Tick \/ UNCHANGED imageVars
  BY <1>11, <1>15 DEF Tick, imageVars
<1> QED
  BY <1>1, <1>2, <1>3, <1>4, <1>5, <1>6, <1>7, <1>8, <1>9, <1>10, <1>12,
     <1>13, <1>14, <1>15 DEF ImageNext, SweepStep

\* The image subsystem keeps the promise of ImageStore: allocated images are
\* shown or given up, what was replaced is never shown again, and what is
\* settled is gone for good.
THEOREM ImagesRefineStore == ImageSpec => ImplementsImageStore
<1>1. ImageInit => Store!Init
  <2>1. ASSUME ImageInit
        PROVE  phase = [u \in Uploads |-> "UNUSED"]
    BY <2>1 DEF ImageInit, phase, NoUpload
  <2>2. ImageInit => stored = {} /\ shows = {}
    BY DEF ImageInit, stored
  <2>3. QED
    BY <2>1, <2>2 DEF Store!Init
<1>2. ImageInv /\ [ImageNext]_imageVars => [Store!Next]_Store!vars
  BY StoreStep
<1> QED
  BY <1>1, <1>2, ImageInvariant, PTL
     DEF ImageSpec, ImplementsImageStore, Store!Spec
=============================================================================
