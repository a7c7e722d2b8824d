---------------------------- MODULE ImageUpload ----------------------------
(***************************************************************************)
(* Image uploads from the intent to the removal of the stored file: the    *)
(* services of backend/src/images with the two storage adapters, and the   *)
(* saves of assets and users that attach an image.                         *)
(*                                                                         *)
(* Time is counted in ticks.  What the code does in one transaction, in    *)
(* one guarded updateMany or under the object lock of the storage adapter  *)
(* is one step.  A completion is reserve, verify, record; a sweep of the   *)
(* cleaner reads the clock once and keeps it while others move on.         *)
(***************************************************************************)
EXTENDS Integers, FiniteSets

CONSTANTS
  Uploads, Records,      \* ids of uploads; assets and users that show images
  Existing,              \* the records there are at the start
  Requests, Workers,     \* completions in progress; processes that sweep
  Deployments,           \* configurations the backend may run in
  NoRecord, Nobody,      \* no target yet; no holder of a lease
  SignatureWindow, IntentWindow, AttachmentWindow, Settlement, Lease, Backoff,
  BatchSize, ObjectLimit, BudgetWindow,
  IssueUntil, Horizon,   \* bounds: the last intent, the end of time
  TroubledUntil          \* bound: the last failure of a sweep

ASSUME ImageAssumption ==
  /\ Existing \subseteq Records
  /\ NoRecord \notin Records /\ Nobody \notin Workers
  /\ {SignatureWindow, IntentWindow, AttachmentWindow, Settlement, Lease,
      Backoff, BatchSize, ObjectLimit, BudgetWindow,
      IssueUntil, Horizon, TroubledUntil} \subseteq Nat
  /\ Settlement > 0
  /\ Deployments \subseteq [provider : {"LOCAL", "CLOUD"},
                            workers : SUBSET Workers,
                            budget : Nat, attempts : Nat]

VARIABLES
  deployment,  \* the storage, the processes and the budgets configured
  now,
  upload,      \* the image_upload rows
  object,      \* what the storage holds for each upload
  receiving,   \* since when bytes of an upload are being received
  job,         \* completions in progress
  rows, shows, \* the records there are, and the image each shows
  cleanup,     \* the image_cleanup rows
  sweep        \* how far the sweep of each process is

imageVars == <<deployment, now, upload, object, receiving, job, rows, shows,
               cleanup, sweep>>

NoTime == -1
Time == Nat \union {NoTime}

UploadStatus == {"NONE", "AUTHORIZED", "VERIFIED_PENDING", "CLAIMED",
                 "SUPERSEDED", "EXPIRED", "REJECTED"}

NoUpload == [status |-> "NONE", target |-> NoRecord, issued |-> NoTime,
             attachBy |-> NoTime, tries |-> 0]

UploadRow == [status : UploadStatus, target : Records \union {NoRecord},
              issued : Time, attachBy : Time, tries : Nat]

\* A file and its time stamp; good: it meets the image policy.
NoFile == [at |-> NoTime, good |-> FALSE]
File == [at : Nat, good : BOOLEAN] \union {NoFile}

\* The local adapter keeps the received source apart from the image made of
\* it; the cloud stores the image at once.
Object == [source : File, image : File]
Empty == [source |-> NoFile, image |-> NoFile]

\* due: eligible_at, next_attempt_at or lease_expires_at, as the status says.
CleanupRow == [status : {"NONE", "PENDING", "LEASED", "RETRY", "COMPLETED",
                         "RETAINED"},
               due : Time, holder : Workers \union {Nobody}]

NoCleanup == [status |-> "NONE", due |-> NoTime, holder |-> Nobody]

NoJob == [phase |-> "IDLE"]
Jobs == {NoJob} \union [phase : {"RESERVED", "REFUSED"}, id : Uploads]
                \union [phase : {"VERIFIED"}, id : Uploads, at : Nat]

NoSweep == [step |-> "IDLE"]
Sweeps == {NoSweep} \union [step : {"FIND"}, at : Nat]
            \union [step : {"WORK"}, at : Nat, todo : SUBSET Uploads]
            \union [step : {"DELETE", "DELETED", "FAILED"}, at : Nat,
                    todo : SUBSET Uploads, id : Uploads]

Later(a, b) == IF a > b THEN a ELSE b

SignatureUntil(u) == upload[u].issued + SignatureWindow
IntentUntil(u) == upload[u].issued + IntentWindow

\* Mutant: no time is left for transfers that are under way.
ReconcileAtOnce(u) == Later(SignatureUntil(u), IntentUntil(u))

ReconcileAfter(u) == Later(SignatureUntil(u), IntentUntil(u)) + Settlement

ImageInit ==
  /\ deployment \in Deployments
  /\ now = 0
  /\ upload = [u \in Uploads |-> NoUpload]
  /\ object = [u \in Uploads |-> Empty]
  /\ receiving = [u \in Uploads |-> NoTime]
  /\ job = [c \in Requests |-> NoJob]
  /\ rows = Existing
  /\ shows = {}
  /\ cleanup = [u \in Uploads |-> NoCleanup]
  /\ sweep = [w \in Workers |-> NoSweep]

----------------------------------------------------------------------------
(* Parts of the steps. *)

SetStatus(u, status) == upload' = [upload EXCEPT ![u].status = status]

Enqueued(u, due) ==
  IF cleanup[u].status \in {"NONE", "RETAINED"}
  THEN [status |-> "PENDING", due |-> due, holder |-> Nobody]
  ELSE cleanup[u]

\* Mutant: the attachment deadline is applied to a claimed upload too.
ExpirableOnceClaimed(u, at) ==
  \/ upload[u].status = "AUTHORIZED" /\ IntentUntil(u) <= at
  \/ /\ upload[u].status \in {"VERIFIED_PENDING", "CLAIMED"}
     /\ upload[u].attachBy <= at

\* expiredUploadCleanupPolicy: has the deadline of the status passed?
Expirable(u, at) ==
  \/ upload[u].status = "AUTHORIZED" /\ IntentUntil(u) <= at
  \/ upload[u].status = "VERIFIED_PENDING" /\ upload[u].attachBy <= at

\* expiredUploadCleanupEligibleAt
EligibleAt(u, at) ==
  Later(ReconcileAfter(u),
        IF upload[u].attachBy = NoTime THEN at ELSE upload[u].attachBy)

Expire(S, at) ==
  /\ upload' = [u \in Uploads |->
       IF u \in S THEN [upload[u] EXCEPT !.status = "EXPIRED"] ELSE upload[u]]
  /\ cleanup' = [u \in Uploads |->
       IF u \in S THEN Enqueued(u, EligibleAt(u, at)) ELSE cleanup[u]]

----------------------------------------------------------------------------
(* The intent, the bytes and their completion. *)

CreateIntent(u, target) ==
  /\ now <= IssueUntil
  /\ upload[u].status = "NONE"
  /\ target \in rows \union {NoRecord}
  /\ Cardinality({v \in Uploads : upload[v].status # "NONE"
                    /\ upload[v].issued >= now - BudgetWindow})
       < deployment.budget
  /\ upload' = [upload EXCEPT ![u] =
       [status |-> "AUTHORIZED", target |-> target, issued |-> now,
        attachBy |-> NoTime, tries |-> 0]]
  /\ UNCHANGED <<deployment, now, object, receiving, job, rows, shows, cleanup,
                 sweep>>

\* The local adapter looks at the upload before it takes the bytes; the cloud
\* takes them from the browser for as long as the signature is good.
StartReceive(u) ==
  /\ receiving[u] = NoTime
  /\ upload[u].status # "NONE"
  /\ now < SignatureUntil(u)
  /\ deployment.provider = "LOCAL" => /\ upload[u].status = "AUTHORIZED"
                           /\ now < IntentUntil(u)
  /\ receiving' = [receiving EXCEPT ![u] = now]
  /\ UNCHANGED <<deployment, now, upload, object, job, rows, shows, cleanup,
                 sweep>>

\* The first file of a name stays.
FinishReceive(u, good) ==
  /\ receiving[u] # NoTime
  /\ object' = [object EXCEPT ![u] =
       IF deployment.provider = "LOCAL"
       THEN IF @.source # NoFile THEN @
            ELSE [@ EXCEPT !.source = [at |-> receiving[u], good |-> good]]
       ELSE IF @.image # NoFile THEN @
            ELSE [@ EXCEPT !.image = [at |-> now, good |-> good]]]
  /\ receiving' = [receiving EXCEPT ![u] = NoTime]
  /\ UNCHANGED <<deployment, now, upload, job, rows, shows, cleanup, sweep>>

LoseReceive(u) ==
  /\ receiving[u] # NoTime
  /\ receiving' = [receiving EXCEPT ![u] = NoTime]
  /\ UNCHANGED <<deployment, now, upload, object, job, rows, shows, cleanup,
                 sweep>>

ReserveAttempt(c, u) ==
  /\ job[c] = NoJob
  /\ upload[u].status = "AUTHORIZED"
  /\ now < IntentUntil(u)
  /\ upload[u].tries < deployment.attempts
  /\ upload' = [upload EXCEPT ![u].tries = @ + 1]
  /\ job' = [job EXCEPT ![c] = [phase |-> "RESERVED", id |-> u]]
  /\ UNCHANGED <<deployment, now, object, receiving, rows, shows, cleanup,
                 sweep>>

\* verifyUploadedObject: an image made before is taken again, with the time
\* stamp of the source if there is one; a source that is refused stays.
Verify(c) ==
  /\ job[c].phase = "RESERVED"
  /\ LET u == job[c].id
         o == object[u]
         at == IF o.source # NoFile THEN o.source.at ELSE o.image.at
         good == IF o.image # NoFile THEN o.image.good ELSE o.source.good
     IN /\ o # Empty
        /\ job' = [job EXCEPT ![c] =
             IF good THEN [phase |-> "VERIFIED", id |-> u, at |-> at]
                     ELSE [phase |-> "REFUSED", id |-> u]]
        /\ object' = IF good
             THEN [object EXCEPT ![u] =
                    [source |-> NoFile, image |-> [at |-> at, good |-> TRUE]]]
             ELSE object
  /\ UNCHANGED <<deployment, now, upload, receiving, rows, shows, cleanup,
                 sweep>>

\* The object is not there, the storage is unavailable, or the process stops.
DropJob(c) ==
  /\ job[c] # NoJob
  /\ job' = [job EXCEPT ![c] = NoJob]
  /\ UNCHANGED <<deployment, now, upload, object, receiving, rows, shows,
                 cleanup, sweep>>

MarkRejected(c) ==
  /\ job[c].phase = "REFUSED"
  /\ LET u == job[c].id
     IN IF upload[u].status = "AUTHORIZED"
        THEN /\ SetStatus(u, "REJECTED")
             /\ cleanup' = [cleanup EXCEPT ![u] =
                              Enqueued(u, ReconcileAfter(u))]
        ELSE UNCHANGED <<upload, cleanup>>
  /\ job' = [job EXCEPT ![c] = NoJob]
  /\ UNCHANGED <<deployment, now, object, receiving, rows, shows, sweep>>

\* The deadlines are looked at again; the write asks for AUTHORIZED.
RecordVerified(c) ==
  /\ job[c].phase = "VERIFIED"
  /\ LET u == job[c].id
         attachBy == job[c].at + AttachmentWindow
     IN IF now < IntentUntil(u) /\ now < attachBy
        THEN /\ upload' = IF upload[u].status = "AUTHORIZED"
               THEN [upload EXCEPT ![u].status = "VERIFIED_PENDING",
                                   ![u].attachBy = attachBy]
               ELSE upload
             /\ UNCHANGED cleanup
        ELSE Expire({u} \intersect {v \in Uploads : Expirable(v, now)}, now)
  /\ job' = [job EXCEPT ![c] = NoJob]
  /\ UNCHANGED <<deployment, now, object, receiving, rows, shows, sweep>>

\* Any request that comes across a deadline that has passed.
MarkExpired(u) ==
  /\ Expirable(u, now)
  /\ Expire({u}, now)
  /\ UNCHANGED <<deployment, now, object, receiving, job, rows, shows, sweep>>

----------------------------------------------------------------------------
(* Saving a record with an image. *)

\* Mutant: the image a record showed before is not recognised.
ShownByNone(r) == {}

ShownBy(r) == {u \in Uploads : <<r, u>> \in shows}

\* claimInTransaction with the write of the row, under the lock of the row.
\* A repeated save finds the upload CLAIMED or SUPERSEDED and changes nothing.
Claim(r, u) ==
  /\ upload[u].status = "VERIFIED_PENDING"
  /\ now < upload[u].attachBy
  /\ \A p \in ShownBy(r) : upload[p].status = "CLAIMED"
  /\ upload' = [v \in Uploads |->
       IF v = u THEN [upload[v] EXCEPT !.status = "CLAIMED"]
       ELSE IF v \in ShownBy(r) THEN [upload[v] EXCEPT !.status = "SUPERSEDED"]
       ELSE upload[v]]
  /\ cleanup' = [v \in Uploads |->
       IF v \in ShownBy(r) THEN Enqueued(v, Later(now, ReconcileAfter(v)))
       ELSE cleanup[v]]
  /\ shows' = {p \in shows : p[1] # r} \union {<<r, u>>}
  /\ UNCHANGED <<deployment, now, object, receiving, job, sweep>>

SaveUpdate(r, u) ==
  /\ r \in rows
  /\ upload[u].target = r
  /\ Claim(r, u)
  /\ UNCHANGED rows

SaveCreate(r, u) ==
  /\ r \notin rows
  /\ upload[u].target = NoRecord
  /\ Claim(r, u)
  /\ rows' = rows \union {r}

----------------------------------------------------------------------------
(* The cleaner. *)

\* Mutant: the clock of the sweep is lost after the first object.
ResumeWithoutClock(at, todo) ==
  IF todo = {} THEN NoSweep ELSE [step |-> "WORK", at |-> NoTime, todo |-> todo]

\* The sweep goes on with the objects that are left, or it is over.
Resume(at, todo) ==
  IF todo = {} THEN NoSweep ELSE [step |-> "WORK", at |-> at, todo |-> todo]

\* The rows a limited query returns: as many as there are, up to the limit.
Batches(S, limit) ==
  {T \in SUBSET S : \/ T = S /\ Cardinality(S) <= limit
                    \/ Cardinality(T) = limit}

Goto(w, state) == sweep' = [sweep EXCEPT ![w] = state]

\* Sweeps stop and deletions fail for a time.
Troubled == now <= TroubledUntil

\* The clock is read once; a failure to record expired uploads is logged.
StartSweep(w) ==
  /\ w \in deployment.workers
  /\ sweep[w] = NoSweep
  /\ \/ \E S \in Batches({u \in Uploads : Expirable(u, now)}, BatchSize) :
          Expire(S, now)
     \/ Troubled /\ UNCHANGED <<upload, cleanup>>
  /\ Goto(w, [step |-> "FIND", at |-> now])
  /\ UNCHANGED <<deployment, now, object, receiving, job, rows, shows>>

\* Mutant: the lease of a process that stopped is never taken over.
DueUnlessLeased(u, at) ==
  cleanup[u].status \in {"PENDING", "RETRY"} /\ cleanup[u].due <= at

DueForCleanup(u, at) ==
  cleanup[u].status \in {"PENDING", "RETRY", "LEASED"} /\ cleanup[u].due <= at

FindEligible(w) ==
  /\ sweep[w].step = "FIND"
  /\ \E T \in Batches({u \in Uploads : DueForCleanup(u, sweep[w].at)},
                      ObjectLimit) :
       Goto(w, Resume(sweep[w].at, T))
  /\ UNCHANGED <<deployment, now, upload, object, receiving, job, rows, shows,
                 cleanup>>

\* Looks again whether the row is due, whether a record shows the image, and
\* whether the upload is over, before it takes the lease.
AcquireLease(w) ==
  /\ sweep[w].step = "WORK"
  /\ \E u \in sweep[w].todo :
       LET at == sweep[w].at
           left == sweep[w].todo \ {u}
           next == Resume(at, left)
           mine == [step |-> "DELETE", at |-> at, todo |-> left, id |-> u]
       IN IF ~DueForCleanup(u, at)
          THEN Goto(w, next) /\ UNCHANGED cleanup
          ELSE IF \E r \in Records : <<r, u>> \in shows
          THEN /\ Goto(w, next)
               /\ cleanup' = [cleanup EXCEPT ![u] =
                    [status |-> "RETAINED", due |-> NoTime, holder |-> Nobody]]
          ELSE IF upload[u].status \notin {"EXPIRED", "REJECTED", "SUPERSEDED"}
          THEN /\ Goto(w, next)
               /\ cleanup' = [cleanup EXCEPT ![u] =
                    [status |-> "RETRY", due |-> at + Backoff,
                     holder |-> Nobody]]
          ELSE /\ Goto(w, mine)
               /\ cleanup' = [cleanup EXCEPT ![u] =
                    [status |-> "LEASED", due |-> at + Lease, holder |-> w]]
  /\ UNCHANGED <<deployment, now, upload, object, receiving, job, rows, shows>>

\* A deletion that fails may have removed the object all the same.
DeleteObject(w) ==
  /\ sweep[w].step = "DELETE"
  /\ \/ /\ Goto(w, [sweep[w] EXCEPT !.step = "DELETED"])
        /\ object' = [object EXCEPT ![sweep[w].id] = Empty]
     \/ /\ Troubled
        /\ Goto(w, [sweep[w] EXCEPT !.step = "FAILED"])
        /\ object' \in {object, [object EXCEPT ![sweep[w].id] = Empty]}
  /\ UNCHANGED <<deployment, now, upload, receiving, job, rows, shows, cleanup>>

\* markCompleted and scheduleRetry ask for the lease they were given.
RecordDeletion(w) ==
  /\ sweep[w].step \in {"DELETED", "FAILED"}
  /\ LET u == sweep[w].id
     IN cleanup' = IF cleanup[u].status = "LEASED" /\ cleanup[u].holder = w
          THEN [cleanup EXCEPT ![u] =
                 IF sweep[w].step = "DELETED"
                 THEN [status |-> "COMPLETED", due |-> NoTime,
                       holder |-> Nobody]
                 ELSE [status |-> "RETRY", due |-> sweep[w].at + Backoff,
                       holder |-> Nobody]]
          ELSE cleanup
  /\ Goto(w, Resume(sweep[w].at, sweep[w].todo))
  /\ UNCHANGED <<deployment, now, upload, object, receiving, job, rows, shows>>

\* The process stops: its lease stays in the table until it runs out.
StopSweep(w) ==
  /\ sweep[w] # NoSweep
  /\ Troubled
  /\ Goto(w, NoSweep)
  /\ UNCHANGED <<deployment, now, upload, object, receiving, job, rows, shows,
                 cleanup>>

\* A transfer is over, or has failed, when the settlement horizon has passed.
Tick ==
  /\ now < Horizon
  /\ now' = now + 1
  /\ receiving' = [u \in Uploads |->
       IF receiving[u] + Settlement < now + 1 THEN NoTime ELSE receiving[u]]
  /\ UNCHANGED <<deployment, upload, object, job, rows, shows,
                 cleanup, sweep>>

----------------------------------------------------------------------------
SweepStep(w) ==
  StartSweep(w) \/ FindEligible(w) \/ AcquireLease(w) \/ DeleteObject(w)
    \/ RecordDeletion(w)

ImageNext ==
  \/ \E u \in Uploads :
       \/ \E target \in Records \union {NoRecord} : CreateIntent(u, target)
       \/ StartReceive(u)
       \/ \E good \in BOOLEAN : FinishReceive(u, good)
       \/ LoseReceive(u)
       \/ MarkExpired(u)
       \/ \E r \in Records : SaveUpdate(r, u) \/ SaveCreate(r, u)
  \/ \E c \in Requests :
       \/ \E u \in Uploads : ReserveAttempt(c, u)
       \/ Verify(c) \/ DropJob(c) \/ MarkRejected(c) \/ RecordVerified(c)
  \/ \E w \in Workers : SweepStep(w) \/ StopSweep(w)
  \/ Tick

ImageSpec == ImageInit /\ [][ImageNext]_imageVars

\* Time passes and the interval of every process starts sweep after sweep.
FairImageSpec ==
  /\ ImageSpec
  /\ WF_imageVars(Tick)
  /\ \A w \in Workers : WF_imageVars(SweepStep(w))
----------------------------------------------------------------------------
(* Properties. *)

\* The rows, the objects and what completions and sweeps hold are well typed
\* (image_upload and image_cleanup of image-upload.prisma and image-cleanup.prisma).
ImageTypeOK ==
  /\ deployment \in Deployments
  /\ now \in Nat
  /\ upload \in [Uploads -> UploadRow]
  /\ object \in [Uploads -> Object]
  /\ receiving \in [Uploads -> Time]
  /\ job \in [Requests -> Jobs]
  /\ rows \subseteq Records /\ shows \subseteq Records \X Uploads
  /\ cleanup \in [Uploads -> CleanupRow]
  /\ sweep \in [Workers -> Sweeps]

\* Whatever completions, expiries, saves and sweeps do in whatever order, a
\* record that shows an image shows one that is claimed and is in the store:
\* the cleaner never takes what is in use.
ShownImageIsStored ==
  \A r \in Records, u \in Uploads :
    <<r, u>> \in shows => /\ upload[u].status = "CLAIMED"
                         /\ object[u].image.good

\* When the cleaner has recorded an image as removed, nothing of it is in the
\* store and nothing of it can come any more: not from a browser that was
\* still sending, not from a completion that was still verifying, not from
\* the second of two sweeps that held the lease one after the other.
CollectedForGood ==
  \A u \in Uploads :
    cleanup[u].status = "COMPLETED"
      => object[u] = Empty /\ receiving[u] = NoTime

\* The subsystem implements the store: allocated images are shown or given
\* up, a replaced image is never shown again, what is settled is gone.
phase == [u \in Uploads |->
  CASE upload[u].status = "NONE" -> "UNUSED"
    [] upload[u].status \in {"AUTHORIZED", "VERIFIED_PENDING"} -> "PENDING"
    [] upload[u].status = "CLAIMED" -> "SHOWN"
    [] OTHER ->
         IF cleanup[u].status = "COMPLETED" THEN "SETTLED" ELSE "GARBAGE"]

stored == {u \in Uploads : object[u] # Empty}

Store == INSTANCE ImageStore WITH Images <- Uploads, shown <- shows

ImplementsImageStore == Store!Spec

\* Every upload ends: it is shown for good, or it is removed and recorded so,
\* in spite of requests that never come back, sweeps that stop and deletions
\* that fail, for as long as that does not go on for ever.
EveryUploadSettles ==
  \A u \in Uploads :
    <>[](\/ upload[u].status \in {"NONE", "CLAIMED"}
         \/ cleanup[u].status = "COMPLETED")
=============================================================================
